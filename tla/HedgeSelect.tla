----------------------------- MODULE HedgeSelect -----------------------------
(* selectHedgeCandidate (internal/orchestrator/hedging.go): one pass over   *)
(* the hedgeable carriers, here their positions 1 .. N, that keeps the best *)
(* candidate so far. Each breaker is read once, when the pass comes to it.  *)
EXTENDS Integers

CONSTANTS
  N,          \* the length of the slice
  P95s,       \* the averages that occur
  Priorities  \* the values of Config.Priority that occur

VARIABLES
  p95Ms, priority, open,  \* what is known of each carrier
  exclude,                \* the carrier that triggered the hedge
  i,                      \* the loop variable
  best                    \* 0 for nil

vars == <<p95Ms, priority, open, exclude, i, best>>

TypeOK ==
  /\ p95Ms \in [1 .. N -> P95s]
  /\ priority \in [1 .. N -> Priorities]
  /\ open \subseteq 1 .. N
  /\ exclude \in 0 .. N
  /\ i \in 1 .. N + 1
  /\ best \in 0 .. N

\* exclude = 0: the trigger has no adapter and is not in the slice.
Init ==
  /\ p95Ms \in [1 .. N -> P95s]
  /\ priority \in [1 .. N -> Priorities]
  /\ open \in SUBSET (1 .. N)
  /\ exclude \in 0 .. N
  /\ i = 1
  /\ best = 0

Replaces(c, b) ==
  \/ b = 0
  \/ p95Ms[c] < p95Ms[b]
  \/ p95Ms[c] = p95Ms[b] /\ priority[c] < priority[b]

Candidate(c) == c # exclude /\ c \notin open

Iterate ==
  /\ i <= N
  /\ i' = i + 1
  /\ best' = IF Candidate(i) /\ Replaces(i, best) THEN i ELSE best
  /\ UNCHANGED <<p95Ms, priority, open, exclude>>

Exit == i > N /\ UNCHANGED vars

Next == Iterate \/ Exit

Spec == Init /\ [][Next]_vars

----------------------------------------------------------------------------

\* The reference order: lower average, then lower Priority, then earlier.
Beats(a, b) ==
  \/ p95Ms[a] < p95Ms[b]
  \/ p95Ms[a] = p95Ms[b] /\ priority[a] < priority[b]
  \/ p95Ms[a] = p95Ms[b] /\ priority[a] = priority[b] /\ a < b

\* The pass returns the one candidate that beats all others, and nil only if
\* there is none: the set Best of module FanOut.
SelectsBest ==
  i > N => \/ best = 0 /\ \A c \in 1 .. N : ~Candidate(c)
           \/ /\ best \in 1 .. N
              /\ Candidate(best)
              /\ \A c \in 1 .. N : Candidate(c) /\ c # best => Beats(best, c)

=============================================================================
