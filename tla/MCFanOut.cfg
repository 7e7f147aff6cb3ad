\* Carrier 3 has no adapter; its call still triggers a hedge.
CONSTANTS
  Carriers = {1, 2, 3}
  Covers = {1, 2, 3}
  Registered = {1, 2}
  Warm = {2, 3}
  P95 <- MCP95
  Priority <- MCPriority
  Premium <- MCPremium
  HedgePremium <- MCHedgePremium
SPECIFICATION FairSpec
INVARIANTS
  SendsPrecedeClose
  SendsNeverBlock
  NothingOutlivesReturn
  AnswersAreComplete
PROPERTIES
  Terminates
  AnswersByContract
