CONSTANTS
  Requests <- MCRequests
  Inputs <- MCInputs
  Outcomes = {"quotes", "timeout"}
  KeyID <- MCKeyID
  Limits = {1, 2}
  MinTimeout = 1
  DefaultTimeout = 1
  MaxTimeout = 3
  SaveTime = 1
  ReadTimeout = 3
  WriteTimeout = 3
  Horizon = 3
  DrainWindow = 3
  NewConnGrace = 1
SPECIFICATION Spec
INVARIANT
  FailureIsReported
