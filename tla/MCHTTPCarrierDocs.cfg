\* Documented statements the code refutes, with retries "disabled".
CONSTANTS
  MaxRetries = 0
  RetryDelay = 2
  Fields = {premium, validity}
SPECIFICATION Spec
INVARIANTS
  TypeOK
  AnswerIsOneResponse
  RetriesOnlyFailures
  ZeroDisablesRetries
