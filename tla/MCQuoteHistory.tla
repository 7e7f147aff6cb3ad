--------------------------- MODULE MCQuoteHistory ---------------------------
(* QuoteCache with a history variable, for a documented statement that the  *)
(* code refutes.                                                            *)
EXTENDS MCQuoteCache

VARIABLE doneBefore  \* the requests that had returned when this one started

hvars == <<vars, doneBefore>>

HInit == Init /\ doneBefore = [r \in Requests |-> {}]

HNext ==
  /\ Next
  /\ doneBefore' = [r \in Requests |->
       IF pc[r] = "lookup" /\ pc'[r] # "lookup"
       THEN {s \in Requests : pc[s] = "done"} ELSE doneBefore[r]]

HSpec == HInit /\ [][HNext]_hvars

\* README.md: "Concurrent identical requests share one fan-out": of two
\* requests that both led a fan-out for a key, one had returned before the
\* other started.
ConcurrentShareFanOut ==
  \A r, s \in Requests :
    r # s /\ leader[r] = r /\ leader[s] = s /\ ScopedKey[r] = ScopedKey[s]
      => r \in doneBefore[s] \/ s \in doneBefore[r]

=============================================================================
