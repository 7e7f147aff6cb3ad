CONSTANTS
  r1 = r1
  r2 = r2
  r3 = r3
  r4 = r4
  Requests = {r1, r2, r3, r4}
  Chars <- MCChars
  IDLength = 3
  Carriers = {a, b}
  HolderOf <- MCHolderOf
  IDOf <- MCIDOf
  Covering <- MCCovering
SPECIFICATION FairSpec
INVARIANTS
  OneFlightPerKey
  AnswersAreOwn
  SavedBeforeAnswered
PROPERTIES
  EveryoneAnswered
  AnswersByContract
