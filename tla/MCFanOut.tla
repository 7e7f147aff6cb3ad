------------------------------ MODULE MCFanOut ------------------------------
(* FanOut for TLC: three carriers; 1 and 2 quote the same to primary calls, *)
(* and a hedge is quoted another amount, so that the order depends on which *)
(* answer arrives first.                                                    *)
EXTENDS FanOut

MCP95          == [c \in Carriers |-> 1]
MCPriority     == [c \in Carriers |-> IF c = 1 THEN 2 ELSE 1]
MCPremium      == [c \in Carriers |-> IF c < 3 THEN 2 ELSE 1]
MCHedgePremium == [c \in Carriers |-> IF c = 3 THEN 3 ELSE 1]
=============================================================================
