CONSTANTS
  r1 = r1
  r2 = r2
  r3 = r3
  r4 = r4
  Requests = {r1, r3, r4}
  Chars <- MCChars
  IDLength = 3
  Carriers = {a, b}
  HolderOf <- AlikeHolderOf
  IDOf <- AlikeIDOf
  Covering <- MCCovering
SPECIFICATION HSpec
\* Documented statements the code refutes.
INVARIANTS
  TypeOK
  AnswersAreOwn
  ClientIDsAreSeparate
  ClientsAreSeparate
  ConcurrentShareFanOut
  AnswersFitLines
PROPERTY SaveKeepsLiveRows
