-------------------------- MODULE EMATrackerProofs --------------------------
(* For any number of Records and any warm-up: each finished observation is  *)
(* in the state exactly once, and the warm-up ends with the last one it     *)
(* needs.                                                                   *)
(*                                                                          *)
(* The CAS is what the induction turns on: its winner appends to the state  *)
(* it has loaded, which is the current one, and is not in it yet.           *)
EXTENDS EMATracker, FiniteSetTheorems, TLAPS

Folded == {r \in Recorders : pc[r] \in {"emit", "done"}}

Types ==
  /\ ema \in Seq(Recorders)
  /\ pc \in [Recorders -> {"load", "cas", "emit", "done"}]

Counted ==
  /\ \A i, j \in 1 .. Len(ema) : ema[i] = ema[j] => i = j
  /\ {ema[i] : i \in 1 .. Len(ema)} = Folded
  /\ Len(ema) = Cardinality(Folded)

Inv == Types /\ Counted

LEMMA FoldedFinite == IsFiniteSet(Folded) /\ Cardinality(Folded) \in Nat
<1>1. Folded \subseteq Recorders BY DEF Folded
<1> QED BY <1>1, EMAConstants, FS_Subset, FS_CardinalityType DEF EMAConstants

LEMMA InvInit == ASSUME Init PROVE Inv
<1>1. Folded = {} BY DEF Init, Folded
<1>2. ema = <<>> /\ Len(ema) = 0 BY DEF Init
<1>3. Counted BY <1>1, <1>2, FS_EmptySet DEF Counted
<1> QED BY <1>2, <1>3 DEF Init, Inv, Types

\* The winner of the CAS: one more observation, and one more Record that is
\* past the loop.
LEMMA Appended ==
  ASSUME Inv, NEW r \in Recorders, pc[r] = "cas",
         pc' = [pc EXCEPT ![r] = "emit"], ema' = Append(ema, r)
  PROVE  Inv'
<1>1. Folded' = Folded \cup {r} /\ r \notin Folded BY DEF Inv, Types, Folded
<1>2. /\ ema' \in Seq(Recorders) /\ Len(ema) \in Nat /\ Len(ema') = Len(ema) + 1
      /\ \A i \in 1 .. Len(ema) : ema'[i] = ema[i]
      /\ ema'[Len(ema) + 1] = r
  BY DEF Inv, Types
<1>3. \A i \in 1 .. Len(ema) : ema[i] # r BY <1>1 DEF Inv, Counted
<1>4. \A i, j \in 1 .. Len(ema') : ema'[i] = ema'[j] => i = j
  BY <1>2, <1>3 DEF Inv, Counted
<1>5. {ema'[i] : i \in 1 .. Len(ema')} = {ema[i] : i \in 1 .. Len(ema)} \cup {r}
  <2>1. 1 .. Len(ema') = (1 .. Len(ema)) \cup {Len(ema) + 1} BY <1>2
  <2> QED BY <1>2, <2>1
<1>6. Cardinality(Folded') = Cardinality(Folded) + 1
  BY <1>1, FoldedFinite, FS_AddElement
<1>7. Counted' BY <1>1, <1>2, <1>4, <1>5, <1>6 DEF Inv, Counted
<1> QED BY <1>2, <1>7 DEF Inv, Types

\* Any other step leaves the state alone and nobody enters or leaves Folded.
LEMMA Kept ==
  ASSUME Inv, UNCHANGED ema, Types', Folded' = Folded
  PROVE  Inv'
BY DEF Inv, Counted

LEMMA InvStep == ASSUME Inv, [Next]_vars PROVE Inv'
<1> USE DEF Goto
<1>1. ASSUME NEW r \in Recorders, Load(r) PROVE Inv'
  BY <1>1, Kept DEF Load, Inv, Types, Folded
<1>2. ASSUME NEW r \in Recorders, CasState(r) PROVE Inv'
  <2>1. CASE ema = old[r]
    BY <1>2, <2>1, Appended DEF CasState
  <2>2. CASE ema # old[r]
    BY <1>2, <2>2, Kept DEF CasState, Inv, Types, Folded
  <2> QED BY <2>1, <2>2
<1>3. ASSUME NEW r \in Recorders, Emit(r) PROVE Inv'
  BY <1>3, Kept DEF Emit, Inv, Types, Folded
<1>4. CASE UNCHANGED vars
  BY <1>4, Kept DEF vars, Inv, Types, Folded
<1> QED BY <1>1, <1>2, <1>3, <1>4 DEF Next, Done

\* However many Records run at once, none is lost and none counts twice, so a
\* carrier can be hedged from its Warmup-th observation on.
THEOREM NoneLostNoneTwice == Spec => []EveryObservationCounts
<1>1. Init => Inv BY InvInit
<1>2. Inv /\ [Next]_vars => Inv' BY InvStep
<1>3. Inv => EveryObservationCounts
  BY DEF Inv, Counted, Folded, EveryObservationCounts, Warm
<1> QED BY <1>1, <1>2, <1>3, PTL DEF Spec
=============================================================================
