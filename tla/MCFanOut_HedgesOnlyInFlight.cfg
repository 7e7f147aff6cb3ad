CONSTANTS
  Carriers = {1, 2}
  Covers = {1, 2}
  Registered = {1, 2}
  Warm = {1}
  P95 <- MCP95
  Priority <- MCPriority
  Premium <- MCPremium
  HedgePremium <- MCHedgePremium
SPECIFICATION Spec
PROPERTY HedgesOnlyInFlight
