-------------------------- MODULE HedgeSelectProofs --------------------------
(* selectHedgeCandidate returns the best candidate whatever the slice: the  *)
(* loop invariant is SelectsBest for the part of the slice already visited. *)
EXTENDS HedgeSelect, TLAPS

BestSoFar ==
  \/ best = 0 /\ \A c \in 1 .. i - 1 : ~Candidate(c)
  \/ /\ best \in 1 .. i - 1
     /\ Candidate(best)
     /\ \A c \in 1 .. i - 1 : Candidate(c) /\ c # best => Beats(best, c)

LoopInv == TypeOK /\ BestSoFar

\* The pass of selectHedgeCandidate keeps the best of what it has visited, so
\* for every slice, breaker state and trigger it returns the best candidate.
THEOREM SelectionIsCorrect ==
  ASSUME N \in Nat, P95s \subseteq Nat, Priorities \subseteq Int
  PROVE  Spec => []SelectsBest
<1>1. Init => LoopInv
  BY DEF Init, LoopInv, TypeOK, BestSoFar
<1>2. LoopInv /\ [Next]_vars => LoopInv'
  <2> SUFFICES ASSUME LoopInv, [Next]_vars PROVE LoopInv'
    OBVIOUS
  <2> USE DEF LoopInv, TypeOK
  <2>1. CASE Iterate
    <3>1. TypeOK' BY <2>1 DEF Iterate
    <3>2. \A c \in 1 .. N : p95Ms[c] \in Nat /\ priority[c] \in Int
      OBVIOUS
    <3>3. UNCHANGED <<p95Ms, priority, open, exclude>> /\ i' = i + 1 /\ i \in 1 .. N
      BY <2>1 DEF Iterate
    <3>4. 1 .. i' - 1 = (1 .. i - 1) \union {i}
      BY <3>3
    <3>5. CASE Candidate(i) /\ Replaces(i, best)
      <4>1. best' = i BY <2>1, <3>5 DEF Iterate
      <4>2. \A c \in 1 .. i - 1 : Candidate(c) => Beats(i, c)
        <5>1. CASE best = 0
          BY <3>3, <5>1 DEF BestSoFar
        <5>2. CASE best # 0
          <6>1. best \in 1 .. i - 1 BY <5>2 DEF BestSoFar
          <6>2. Beats(i, best) BY <3>5, <5>2 DEF Replaces, Beats
          <6>3. \A c \in 1 .. i - 1 :
                  Candidate(c) /\ c # best => Beats(best, c)
            BY <5>2 DEF BestSoFar
          <6>4. \A c \in 1 .. i - 1 : Candidate(c) /\ c # best => Beats(i, c)
            <7> SUFFICES ASSUME NEW c \in 1 .. i - 1, Candidate(c), c # best
                         PROVE  Beats(i, c)
              OBVIOUS
            <7>1. Beats(best, c) BY <6>3
            <7>2. c \in 1 .. N /\ best \in 1 .. N BY <3>3, <6>1
            <7>3. i > c BY <3>3
            <7> QED BY <3>2, <3>3, <3>5, <5>2, <7>1, <7>2, <7>3
                    DEF Beats, Replaces
          <6> QED BY <6>2, <6>4
        <5> QED BY <5>1, <5>2
      <4> QED
        BY <3>1, <3>3, <3>4, <3>5, <4>1, <4>2 DEF BestSoFar, Candidate, Beats
    <3>6. CASE Candidate(i) /\ ~Replaces(i, best)
      <4>1. best' = best BY <2>1, <3>6 DEF Iterate
      <4>2. best \in 1 .. i - 1 /\ Beats(best, i)
        BY <3>2, <3>3, <3>6 DEF BestSoFar, Replaces, Beats
      <4> QED
        BY <3>1, <3>3, <3>4, <3>6, <4>1, <4>2 DEF BestSoFar, Candidate, Beats
    <3>7. CASE ~Candidate(i)
      <4>1. best' = best BY <2>1, <3>7 DEF Iterate
      <4> QED
        BY <3>1, <3>3, <3>4, <3>7, <4>1 DEF BestSoFar, Candidate, Beats
    <3> QED BY <3>5, <3>6, <3>7
  <2>2. CASE Exit \/ UNCHANGED vars
    BY <2>2 DEF Exit, vars, BestSoFar, Candidate, Beats
  <2> QED BY <2>1, <2>2 DEF Next
<1>3. LoopInv => SelectsBest
  <2> SUFFICES ASSUME LoopInv, i > N PROVE SelectsBest
    BY DEF SelectsBest
  <2>1. i - 1 = N BY DEF LoopInv, TypeOK
  <2> QED BY <2>1 DEF LoopInv, BestSoFar, SelectsBest
<1> QED BY <1>1, <1>2, <1>3, PTL DEF Spec
=============================================================================
