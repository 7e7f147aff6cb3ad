-------------------------- MODULE BreakerContract --------------------------
(* What the circuit breaker of internal/circuitbreaker promises its callers *)
(* whatever the interleaving, with the counters and the clock left out:     *)
(* the states follow each other in the documented order, at most one caller *)
(* probes at a time, and only the caller that holds the probe slot decides  *)
(* whether a half-open circuit closes or opens again.                       *)

CONSTANT Callers

VARIABLES
  state,   \* "closed", "open" or "halfOpen"
  probing  \* the callers that hold the probe slot

vars == <<state, probing>>

Init == state = "closed" /\ probing = {}

Trip == /\ state = "closed"
        /\ state' = "open"
        /\ UNCHANGED probing

AllowProbes == /\ state = "open"
               /\ state' = "halfOpen"
               /\ UNCHANGED probing

BeginProbe(t) == /\ probing = {}
                 /\ probing' = {t}
                 /\ UNCHANGED state

\* The holder of the slot settles the half-open circuit, and keeps the slot.
Settle(t) == /\ state = "halfOpen"
             /\ probing = {t}
             /\ state' \in {"open", "closed"}
             /\ UNCHANGED probing

EndProbe(t) == /\ probing = {t}
               /\ probing' = {}
               /\ UNCHANGED state

Next == \/ Trip
        \/ AllowProbes
        \/ \E t \in Callers : BeginProbe(t) \/ Settle(t) \/ EndProbe(t)

Spec == Init /\ [][Next]_vars
=============================================================================
