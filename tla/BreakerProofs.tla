--------------------------- MODULE BreakerProofs ---------------------------
(* Breaker and the two modules that extend it, for any number of callers     *)
(* and hedges, any thresholds and any bucket.                                *)
(*                                                                           *)
(*  - Breaker keeps its types, its probe slot is exclusive, and it implements *)
(*    BreakerContract. The inductive invariant is TypeOK /\ ProbeExclusive:  *)
(*    the second half of ProbeExclusive (the slot is taken exactly while     *)
(*    somebody is probing) is what makes the first half inductive, because   *)
(*    Acquire looks at the slot and not at the other callers.                *)
(*  - BreakerHistory: as long as calls have not overlapped, the documented   *)
(*    thresholds are exact. The invariant says what the lone call has made   *)
(*    of the counters, the timestamp and the gauge at each of its atomic     *)
(*    operations.                                                            *)
(*  - CarrierAdmission: an open circuit that no request past                 *)
(*    filterEligibleCarriers is using stays open, because whoever is in Wait *)
(*    or in Execute has passed the filter and not returned yet; and no hedge *)
(*    takes a token while a primary call sleeps in Wait, because those       *)
(*    asleep are owed different refills, all of them within the debt of the  *)
(*    bucket. That they differ is what makes Reservation.Cancel's test for a *)
(*    later reservation enough.                                              *)
EXTENDS BreakerHistory, CarrierAdmission, FiniteSetTheorems, TLAPS

\* Every step of Breaker keeps the types.
LEMMA TypeStep == ASSUME TypeOK, [Next]_vars PROVE TypeOK'
<1> USE BreakerConfig DEF TypeOK, Age
<1>1. CASE Tick
  BY <1>1 DEF Tick, Older
<1>2. CASE UNCHANGED vars
  BY <1>2 DEF vars
<1>3. ASSUME NEW t \in Callers, Load(t) \/ Continue(t) PROVE TypeOK'
  <2> USE DEF Goto, PC, Probing
  <2>1. CASE Load(t)
    BY <2>1 DEF Load, Branch, CBState
  <2>2. CASE LoadOpenedAt(t) \/ ReadTrip(t) \/ ReadReopen(t)
    BY <2>2 DEF LoadOpenedAt, ReadTrip, ReadReopen, SetStamp
  <2>3. CASE SinceOpenedAt(t) \/ ClosedFn(t) \/ ProbeFn(t)
    BY <2>3 DEF SinceOpenedAt, ClosedFn, ProbeFn, Branch
  <2>4. CASE CasHalfOpen(t) \/ CasOpen(t) \/ CasReopen(t) \/ CasClose(t)
    BY <2>4 DEF CasHalfOpen, CasOpen, CasReopen, CasClose, CasState, CBState
  <2>5. CASE EmitHalfOpen(t) \/ EmitOpen(t) \/ EmitReopen(t) \/ EmitClosed(t)
    BY <2>5 DEF EmitHalfOpen, EmitOpen, EmitReopen, EmitClosed, Emit, CBState
  <2>6. CASE ResetFailures(t) \/ AddFailure(t) \/ ClearFailures(t)
    BY <2>6 DEF ResetFailures, AddFailure, ClearFailures, SetFailures
  <2>7. CASE StoreTrip(t) \/ StoreReopen(t)
    BY <2>7 DEF StoreTrip, StoreReopen, StoreOpenedAt
  <2>8. CASE Acquire(t) \/ Release(t)
    BY <2>8 DEF Acquire, Release, SetSlot
  <2>9. CASE ClearReopen(t) \/ AddSuccess(t) \/ ClearSuccesses(t)
    BY <2>9 DEF ClearReopen, AddSuccess, ClearSuccesses, SetSuccesses
  <2> QED
    BY <1>3, <2>1, <2>2, <2>3, <2>4, <2>5, <2>6, <2>7, <2>8, <2>9 DEF Continue
<1> QED BY <1>1, <1>2, <1>3 DEF Next

LEMMA TypeInit == ASSUME Init PROVE TypeOK
BY BreakerConfig DEF Init, TypeOK, Age, CBState, PC

\* Breaker's fields and program counters keep their types.
THEOREM TypeCorrect == Spec => []TypeOK
<1>1. Init => TypeOK BY TypeInit
<1>2. TypeOK /\ [Next]_vars => TypeOK' BY TypeStep
<1> QED BY <1>1, <1>2, PTL DEF Spec

----------------------------------------------------------------------------
(* What a step does to the program counters                                 *)

\* Every step of one caller moves that caller's program counter only.
LEMMA OneMoves ==
  ASSUME TypeOK, NEW t \in Callers, Load(t) \/ Continue(t)
  PROVE  pc'[t] # pc[t] /\ \A u \in Callers \ {t} : pc'[u] = pc[u]
<1>1. CASE Load(t)
  BY <1>1 DEF Load, Branch, Goto, TypeOK
<1>2. CASE Continue(t)
  <2> USE DEF Goto, TypeOK
  <2>1. CASE LoadOpenedAt(t) \/ ReadTrip(t) \/ ReadReopen(t)
    BY <2>1 DEF LoadOpenedAt, ReadTrip, ReadReopen, SetStamp
  <2>2. CASE SinceOpenedAt(t) \/ ClosedFn(t) \/ ProbeFn(t)
    BY <2>2 DEF SinceOpenedAt, ClosedFn, ProbeFn, Branch
  <2>3. CASE CasHalfOpen(t) \/ CasOpen(t) \/ CasReopen(t) \/ CasClose(t)
    BY <2>3 DEF CasHalfOpen, CasOpen, CasReopen, CasClose, CasState
  <2>4. CASE EmitHalfOpen(t) \/ EmitOpen(t) \/ EmitReopen(t) \/ EmitClosed(t)
    BY <2>4 DEF EmitHalfOpen, EmitOpen, EmitReopen, EmitClosed, Emit
  <2>5. CASE ResetFailures(t) \/ AddFailure(t) \/ ClearFailures(t)
    BY <2>5 DEF ResetFailures, AddFailure, ClearFailures, SetFailures
  <2>6. CASE StoreTrip(t) \/ StoreReopen(t)
    BY <2>6 DEF StoreTrip, StoreReopen, StoreOpenedAt
  <2>7. CASE Acquire(t) \/ Release(t)
    BY <2>7 DEF Acquire, Release, SetSlot
  <2>8. CASE ClearReopen(t) \/ AddSuccess(t) \/ ClearSuccesses(t)
    BY <2>8 DEF ClearReopen, AddSuccess, ClearSuccesses, SetSuccesses
  <2> QED BY <1>2, <2>1, <2>2, <2>3, <2>4, <2>5, <2>6, <2>7, <2>8 DEF Continue
<1> QED BY <1>1, <1>2

\* Only a caller inside Execute has an operation of it left to do.
LEMMA ContinueInside ==
  ASSUME NEW t \in Callers, Continue(t) PROVE pc[t] # "idle"
BY DEF Continue, Goto, LoadOpenedAt, ReadTrip, ReadReopen, SetStamp,
       SinceOpenedAt, ClosedFn, ProbeFn, Branch, CasHalfOpen, CasOpen,
       CasReopen, CasClose, CasState, EmitHalfOpen, EmitOpen, EmitReopen,
       EmitClosed, Emit, ResetFailures, AddFailure, ClearFailures, SetFailures,
       StoreTrip, StoreReopen, StoreOpenedAt, Acquire, Release, SetSlot,
       ClearReopen, AddSuccess, ClearSuccesses, SetSuccesses

----------------------------------------------------------------------------
(* The probe slot                                                           *)

Inv == TypeOK /\ ProbeExclusive

\* A step between two places on the same side of the slot, which leaves the
\* slot alone, keeps it exclusive and changes no prober.
LEMMA SameSide ==
  ASSUME Inv, NEW t \in Callers, NEW from, NEW to, Goto(t, from, to),
         from \in Probing <=> to \in Probing,
         UNCHANGED halfOpenInFlight
  PROVE  /\ ProbeExclusive'
         /\ \A u \in Callers : pc'[u] \in Probing <=> pc[u] \in Probing
<1>1. \A u \in Callers : pc'[u] \in Probing <=> pc[u] \in Probing
  BY DEF Inv, TypeOK, Goto
<1> QED BY <1>1 DEF Inv, ProbeExclusive

\* What a step of one caller can do to the slot: nothing, take it while it is
\* free, or give it back.
LEMMA SlotStep ==
  ASSUME Inv, NEW t \in Callers, Load(t) \/ Continue(t)
  PROVE  /\ ProbeExclusive'
         /\ \/ \A u \in Callers : pc'[u] \in Probing <=> pc[u] \in Probing
            \/ Acquire(t) \/ Release(t)
<1> USE DEF Probing
<1>1. CASE Load(t)
  BY <1>1, SameSide DEF Load, Branch
<1>2. CASE LoadOpenedAt(t) \/ ReadTrip(t) \/ ReadReopen(t)
  BY <1>2, SameSide DEF LoadOpenedAt, ReadTrip, ReadReopen, SetStamp
<1>3. CASE SinceOpenedAt(t) \/ ClosedFn(t) \/ ProbeFn(t)
  BY <1>3, SameSide DEF SinceOpenedAt, ClosedFn, ProbeFn, Branch
<1>4. CASE CasHalfOpen(t) \/ CasOpen(t) \/ CasReopen(t) \/ CasClose(t)
  BY <1>4, SameSide DEF CasHalfOpen, CasOpen, CasReopen, CasClose, CasState
<1>5. CASE EmitHalfOpen(t) \/ EmitOpen(t) \/ EmitReopen(t) \/ EmitClosed(t)
  BY <1>5, SameSide DEF EmitHalfOpen, EmitOpen, EmitReopen, EmitClosed, Emit
<1>6. CASE ResetFailures(t) \/ AddFailure(t) \/ ClearFailures(t)
  BY <1>6, SameSide DEF ResetFailures, AddFailure, ClearFailures, SetFailures
<1>7. CASE StoreTrip(t) \/ StoreReopen(t)
  BY <1>7, SameSide DEF StoreTrip, StoreReopen, StoreOpenedAt
<1>8. CASE ClearReopen(t) \/ AddSuccess(t) \/ ClearSuccesses(t)
  BY <1>8, SameSide DEF ClearReopen, AddSuccess, ClearSuccesses, SetSuccesses
<1>9. CASE Acquire(t)
  <2>1. CASE halfOpenInFlight = 0
    BY <1>9, <2>1 DEF Acquire, SetSlot, Goto, Inv, TypeOK, ProbeExclusive
  <2>2. CASE halfOpenInFlight = 1
    BY <1>9, <2>2, SameSide DEF Acquire, SetSlot, Inv, TypeOK
  <2> QED BY <1>9, <2>1, <2>2 DEF Inv, TypeOK
<1>10. CASE Release(t)
  BY <1>10 DEF Release, SetSlot, Goto, Inv, TypeOK, ProbeExclusive
<1> QED
  BY <1>1, <1>2, <1>3, <1>4, <1>5, <1>6, <1>7, <1>8, <1>9, <1>10 DEF Continue

LEMMA InvStep == ASSUME Inv, [Next]_vars PROVE Inv'
<1>1. TypeOK' BY TypeStep DEF Inv
<1>2. CASE Tick \/ UNCHANGED vars
  BY <1>1, <1>2 DEF Inv, ProbeExclusive, Tick, vars
<1>3. ASSUME NEW t \in Callers, Load(t) \/ Continue(t) PROVE Inv'
  BY <1>1, <1>3, SlotStep DEF Inv
<1> QED BY <1>2, <1>3 DEF Next

LEMMA InvInit == ASSUME Init PROVE Inv
BY TypeInit DEF Inv, Init, ProbeExclusive, Probing

\* At most one caller runs a probe at a time, and the slot says so: the CAS on
\* halfOpenInFlight and the deferred store are enough for any number of callers.
THEOREM ProbeIsExclusive == Spec => []ProbeExclusive
<1>1. Init => Inv BY InvInit
<1>2. Inv /\ [Next]_vars => Inv' BY InvStep
<1>3. Inv => ProbeExclusive BY DEF Inv
<1> QED BY <1>1, <1>2, <1>3, PTL DEF Spec

----------------------------------------------------------------------------
(* Refinement                                                               *)

Probers == {t \in Callers : pc[t] \in Probing}

\* A step of one caller is a step of the contract or changes nothing in it.
LEMMA ContractStep ==
  ASSUME Inv, NEW t \in Callers, Load(t) \/ Continue(t)
  PROVE  [Contract!Next]_(Contract!vars)
<1> USE DEF Contract!vars
<1>0. ASSUME \A u \in Callers : pc'[u] \in Probing <=> pc[u] \in Probing
      PROVE  UNCHANGED Probers
  BY <1>0 DEF Probers
<1>1. CASE Acquire(t)
  <2>1. CASE halfOpenInFlight = 0
    <3>1. Probers = {} BY <2>1 DEF Inv, ProbeExclusive, Probers
    <3>2. Probers' = {t}
      BY <1>1, <2>1, <3>1
      DEF Acquire, SetSlot, Goto, Probers, Probing, Inv, TypeOK
    <3>3. UNCHANGED state BY <1>1 DEF Acquire, SetSlot
    <3> QED BY <3>1, <3>2, <3>3 DEF Probers, Contract!Next, Contract!BeginProbe
  <2>2. CASE halfOpenInFlight = 1
    <3>1. Goto(t, "acquire", "idle") /\ UNCHANGED <<halfOpenInFlight, state>>
      BY <1>1, <2>2 DEF Acquire, SetSlot
    <3>2. UNCHANGED Probers
      BY <1>0, <3>1, SameSide DEF Probing
    <3> QED BY <3>1, <3>2 DEF Probers
  <2> QED BY <2>1, <2>2 DEF Inv, TypeOK
<1>2. CASE Release(t)
  <2>1. Probers = {t}
    BY <1>2 DEF Release, SetSlot, Goto, Probing, Inv, ProbeExclusive, Probers
  <2>2. Probers' = {}
    BY <1>2, <2>1 DEF Release, SetSlot, Goto, Probing, Inv, TypeOK, Probers
  <2>3. UNCHANGED state BY <1>2 DEF Release, SetSlot
  <2> QED BY <2>1, <2>2, <2>3 DEF Probers, Contract!Next, Contract!EndProbe
<1>3. CASE ~Acquire(t) /\ ~Release(t)
  <2>1. UNCHANGED Probers BY <1>0, <1>3, SlotStep
  <2>2. CASE CasHalfOpen(t)
    BY <2>1, <2>2
    DEF CasHalfOpen, CasState, Probers, Contract!Next, Contract!AllowProbes
  <2>3. CASE CasOpen(t)
    BY <2>1, <2>3 DEF CasOpen, CasState, Probers, Contract!Next, Contract!Trip
  <2>4. CASE CasReopen(t) \/ CasClose(t)
    <3>1. Probers = {t}
      BY <2>4 DEF CasReopen, CasClose, CasState, Goto, Probing, Inv,
                  ProbeExclusive, Probers
    <3> QED
      BY <2>1, <2>4, <3>1 DEF CasReopen, CasClose, CasState, Probers,
                              Contract!Next, Contract!Settle
  <2>5. CASE Load(t) \/ SinceOpenedAt(t) \/ ClosedFn(t) \/ ProbeFn(t)
    BY <2>1, <2>5 DEF Load, SinceOpenedAt, ClosedFn, ProbeFn, Branch, Probers
  <2>6. CASE \/ LoadOpenedAt(t) \/ ReadTrip(t) \/ ReadReopen(t)
             \/ StoreTrip(t) \/ StoreReopen(t)
    BY <2>1, <2>6 DEF LoadOpenedAt, ReadTrip, ReadReopen, SetStamp,
                      StoreTrip, StoreReopen, StoreOpenedAt, Probers
  <2>7. CASE EmitHalfOpen(t) \/ EmitOpen(t) \/ EmitReopen(t) \/ EmitClosed(t)
    BY <2>1, <2>7 DEF EmitHalfOpen, EmitOpen, EmitReopen, EmitClosed, Emit,
                      Probers
  <2>8. CASE \/ ResetFailures(t) \/ AddFailure(t) \/ ClearFailures(t)
             \/ ClearReopen(t) \/ AddSuccess(t) \/ ClearSuccesses(t)
    BY <2>1, <2>8 DEF ResetFailures, AddFailure, ClearFailures, SetFailures,
                      ClearReopen, AddSuccess, ClearSuccesses, SetSuccesses,
                      Probers
  <2> QED
    BY <1>3, <2>2, <2>3, <2>4, <2>5, <2>6, <2>7, <2>8 DEF Continue
<1> QED BY <1>1, <1>2, <1>3

\* Breaker implements BreakerContract, for any number of callers and any
\* thresholds: the states follow the documented order and a half-open circuit
\* is settled by the one caller that holds the probe slot.
THEOREM ImplementsContract == Spec => ContractHolds
<1>1. Init => Contract!Init
  BY DEF Init, Contract!Init, Probing
<1>2. Inv /\ [Next]_vars => [Contract!Next]_(Contract!vars)
  <2> SUFFICES ASSUME Inv, [Next]_vars PROVE [Contract!Next]_(Contract!vars)
    OBVIOUS
  <2>1. CASE Tick \/ UNCHANGED vars
    BY <2>1 DEF Tick, vars, Contract!vars
  <2> QED BY <2>1, ContractStep DEF Next
<1>3. Init => Inv BY InvInit
<1>4. Inv /\ [Next]_vars => Inv' BY InvStep
<1> QED BY <1>1, <1>2, <1>3, <1>4, PTL DEF Spec, ContractHolds, Contract!Spec

----------------------------------------------------------------------------
(* Calls that do not overlap                                                *)

\* No two callers are inside Execute.
Lone == \A t, u \in Callers : pc[t] # "idle" /\ pc[u] # "idle" => t = u

HTypeOK ==
  /\ openFor \in Age
  /\ wins \in 0 .. SuccessThreshold
  /\ streak \in 0 .. FailureThreshold
  /\ alone \in BOOLEAN

\* Between calls the code's counters are what the history says they count, the
\* gauge shows the state, and the timestamp is no older than the open circuit.
Settled ==
  /\ gauge = state
  /\ state = "closed" => /\ failures = streak /\ streak < FailureThreshold
                         /\ successes = 0
  /\ state = "open" => openedAge <= openFor /\ successes = 0
  /\ state = "halfOpen" => successes = wins /\ wins < SuccessThreshold

\* What a lone call has made of that at each of its operations.
InClosed(t) ==
  /\ pc[t] \in {"closedFn", "resetFailures", "addFailure"} =>
       state = "closed" /\ Settled
  /\ pc[t] = "casOpen" =>
       state = "closed" /\ streak = FailureThreshold /\ successes = 0
  /\ pc[t] \in {"readTrip", "storeTrip", "emitOpen"} =>
       state = "open" /\ successes = 0
  /\ pc[t] = "storeTrip" => stamp[t] <= openFor
  /\ pc[t] = "emitOpen" => openedAge <= openFor

InOpen(t) ==
  /\ pc[t] \in {"loadOpenedAt", "sinceOpenedAt", "casHalfOpen"} =>
       state = "open" /\ Settled
  /\ pc[t] = "sinceOpenedAt" => stamp[t] <= openFor
  /\ pc[t] = "casHalfOpen" => openFor = OpenTimeout
  /\ pc[t] = "emitHalfOpen" =>
       state = "halfOpen" /\ successes = wins /\ wins < SuccessThreshold

InHalfOpen(t) ==
  /\ pc[t] \in {"acquire", "probeFn", "addSuccess", "casReopen"} =>
       state = "halfOpen" /\ Settled
  /\ pc[t] \in {"readReopen", "storeReopen", "clearReopen", "emitReopen"} =>
       state = "open"
  /\ pc[t] = "storeReopen" => stamp[t] <= openFor
  /\ pc[t] \in {"clearReopen", "emitReopen"} => openedAge <= openFor
  /\ pc[t] = "emitReopen" => successes = 0
  /\ pc[t] = "casClose" => state = "halfOpen" /\ wins = SuccessThreshold
  /\ pc[t] \in {"clearFailures", "clearSuccesses", "emitClosed"} =>
       state = "closed" /\ streak = 0
  /\ pc[t] \in {"clearSuccesses", "emitClosed"} => failures = 0
  /\ pc[t] = "emitClosed" => successes = 0
  /\ pc[t] = "release" => Settled

Idle == \A t \in Callers : pc[t] = "idle"

LoneInv ==
  alone => /\ Lone
           /\ Idle => Settled
           /\ \A t \in Callers : InClosed(t) /\ InOpen(t) /\ InHalfOpen(t)

HInv == TypeOK /\ HTypeOK /\ LoneInv

LEMMA HTypeStep == ASSUME TypeOK, HTypeOK, [HNext]_<<vars, history>> PROVE HTypeOK'
<1> USE BreakerConfig DEF HTypeOK, Age
<1>1. CASE HNext
  BY <1>1 DEF HNext, Older, Count
<1>2. CASE UNCHANGED <<vars, history>>
  BY <1>2 DEF history
<1> QED BY <1>1, <1>2

\* An operation of t is one report, from the point it was at.
LEMMA HistoryStep ==
  ASSUME TypeOK, HTypeOK, HNext, NEW t \in Callers, Load(t) \/ Continue(t)
  PROVE  /\ openFor' = IF Enters("open") THEN 0 ELSE openFor
         /\ wins' = IF Enters("halfOpen") THEN 0
                    ELSE IF pc[t] = "addSuccess" /\ wins < SuccessThreshold
                    THEN wins + 1 ELSE wins
         /\ streak' = IF Enters("closed") \/ pc[t] = "resetFailures" THEN 0
                      ELSE IF pc[t] = "addFailure" /\ streak < FailureThreshold
                      THEN streak + 1 ELSE streak
<1>1. pc'[t] # pc[t] BY OneMoves
<1>2. \A x : Reports(x) <=> pc[t] = x
  BY <1>1, OneMoves DEF Reports
<1>3. pc' # pc BY <1>1
<1> QED BY <1>2, <1>3 DEF HNext, Count

\* While calls do not overlap, the others are idle before and after.
LEMMA OthersIdle ==
  ASSUME HInv, HNext, alone', NEW t \in Callers, Load(t) \/ Continue(t)
  PROVE  /\ alone
         /\ Lone'
         /\ \A u \in Callers \ {t} : pc[u] = "idle" /\ pc'[u] = "idle"
<1> DEFINE Busy == {u \in Callers : pc'[u] # "idle"}
<1>1. alone /\ Lone /\ Cardinality(Busy) <= 1
  BY DEF HInv, HTypeOK, LoneInv, HNext
<1>2. \A u \in Callers \ {t} : pc'[u] = pc[u]
  BY OneMoves DEF HInv
<1>3. PICK v \in Callers : Busy \subseteq {v, t}
  BY <1>1, <1>2 DEF Lone
<1>4. IsFiniteSet(Busy)
  <2>1. IsFiniteSet({v} \cup {t}) BY FS_Singleton, FS_AddElement
  <2>2. Busy \subseteq {v} \cup {t} BY <1>3
  <2> QED BY <2>1, <2>2, FS_Subset
<1>5. Lone'
  <2> SUFFICES ASSUME NEW a \in Busy, NEW b \in Busy, a # b PROVE FALSE
    BY DEF Lone
  <2>1. IsFiniteSet({a}) /\ Cardinality({a}) = 1 BY FS_Singleton
  <2>2. Cardinality({a} \cup {b}) = 2 BY <2>1, FS_AddElement
  <2>3. Cardinality({a} \cup {b}) <= Cardinality(Busy)
    BY <1>4, FS_Subset, {a} \cup {b} \subseteq Busy
  <2>4. Cardinality(Busy) \in Nat BY <1>4, FS_CardinalityType
  <2> QED BY <1>1, <2>2, <2>3, <2>4
<1>6. pc[t] # "idle" \/ pc'[t] # "idle"
  BY ContinueInside DEF Load, Branch, Goto, HInv, TypeOK
<1> QED BY <1>1, <1>2, <1>5, <1>6 DEF Lone

\* For a step of t while the others are idle, only t's place matters.
LEMMA OneInside ==
  ASSUME TypeOK', NEW t \in Callers, Lone',
         \A u \in Callers \ {t} : pc'[u] = "idle",
         pc'[t] = "idle" => Settled',
         InClosed(t)' /\ InOpen(t)' /\ InHalfOpen(t)'
  PROVE  LoneInv'
<1>1. Idle' => Settled' BY DEF Idle
<1>2. \A u \in Callers \ {t} : InClosed(u)' /\ InOpen(u)' /\ InHalfOpen(u)'
  BY DEF InClosed, InOpen, InHalfOpen
<1> QED BY <1>1, <1>2 DEF LoneInv

\* The clock ages the timestamps and the open circuit alike.
LEMMA LoneTick == ASSUME HInv, HNext, Tick PROVE LoneInv'
<1> USE BreakerConfig DEF HInv, TypeOK, HTypeOK, Age
<1>1. /\ UNCHANGED <<state, failures, successes, gauge, pc>>
      /\ openedAge' = Older(openedAge)
      /\ \A t \in Callers : stamp'[t] = Older(stamp[t])
  BY DEF Tick
<1>2. openFor' = Older(openFor) /\ UNCHANGED <<wins, streak>> /\ (alone' => alone)
  BY <1>1 DEF HNext, Enters, Reports, Count
<1> SUFFICES ASSUME alone' PROVE LoneInv'
  BY DEF LoneInv
<1>3. Lone' /\ (Settled => Settled')
  BY <1>1, <1>2 DEF LoneInv, Lone, Settled, Older
<1>4. Idle' => Settled' BY <1>1, <1>2, <1>3 DEF LoneInv, Idle
<1>5. ASSUME NEW t \in Callers PROVE InClosed(t)' /\ InOpen(t)' /\ InHalfOpen(t)'
  <2>1. InClosed(t) /\ InOpen(t) /\ InHalfOpen(t) BY <1>2 DEF LoneInv
  <2>2. InClosed(t)' BY <1>1, <1>2, <1>3, <2>1 DEF InClosed, Older
  <2>3. InOpen(t)' BY <1>1, <1>2, <1>3, <2>1 DEF InOpen, Older
  <2>4. InHalfOpen(t)' BY <1>1, <1>2, <1>3, <2>1 DEF InHalfOpen, Older
  <2> QED BY <2>2, <2>3, <2>4
<1> QED BY <1>3, <1>4, <1>5 DEF LoneInv

\* A step of a call that no other overlaps.
LEMMA LoneStep ==
  ASSUME HInv, HNext, NEW t \in Callers, Load(t) \/ Continue(t) PROVE LoneInv'
<1> SUFFICES ASSUME alone' PROVE LoneInv'
  BY DEF LoneInv
<1>0. TypeOK /\ HTypeOK /\ TypeOK' /\ HTypeOK'
  BY TypeStep, HTypeStep DEF HInv, HNext
<1>1. alone /\ Lone' /\ \A u \in Callers \ {t} : pc[u] = "idle" /\ pc'[u] = "idle"
  BY OthersIdle
<1>2. InClosed(t) /\ InOpen(t) /\ InHalfOpen(t) /\ (pc[t] = "idle" => Settled)
  BY <1>1 DEF HInv, LoneInv, Idle
<1>h. /\ openFor' = IF Enters("open") THEN 0 ELSE openFor
      /\ wins' = IF Enters("halfOpen") THEN 0
                 ELSE IF pc[t] = "addSuccess" /\ wins < SuccessThreshold
                 THEN wins + 1 ELSE wins
      /\ streak' = IF Enters("closed") \/ pc[t] = "resetFailures" THEN 0
                   ELSE IF pc[t] = "addFailure" /\ streak < FailureThreshold
                   THEN streak + 1 ELSE streak
  BY <1>0, HistoryStep
<1> SUFFICES /\ pc'[t] = "idle" => Settled'
             /\ InClosed(t)' /\ InOpen(t)' /\ InHalfOpen(t)'
  BY <1>0, <1>1, OneInside
<1> USE BreakerConfig, <1>0, <1>2, <1>h
    DEF TypeOK, HTypeOK, Age, CBState, Enters, Settled, InClosed, InOpen, InHalfOpen, Goto
<1>3. CASE Load(t) BY <1>3 DEF Load, Branch
<1>4. CASE LoadOpenedAt(t) BY <1>4 DEF LoadOpenedAt, SetStamp
<1>5. CASE SinceOpenedAt(t) BY <1>5 DEF SinceOpenedAt, Branch
<1>6. CASE CasHalfOpen(t) BY <1>6 DEF CasHalfOpen, CasState
<1>7. CASE EmitHalfOpen(t) BY <1>7 DEF EmitHalfOpen, Emit
<1>8. CASE ClosedFn(t) \/ ProbeFn(t) BY <1>8 DEF ClosedFn, ProbeFn, Branch
<1>9. CASE ResetFailures(t) BY <1>9 DEF ResetFailures, SetFailures
<1>10. CASE AddFailure(t) BY <1>10 DEF AddFailure, SetFailures
<1>11. CASE CasOpen(t) BY <1>11 DEF CasOpen, CasState
<1>12. CASE ReadTrip(t) \/ ReadReopen(t) BY <1>12 DEF ReadTrip, ReadReopen, SetStamp
<1>13. CASE StoreTrip(t) \/ StoreReopen(t)
  BY <1>13 DEF StoreTrip, StoreReopen, StoreOpenedAt
<1>14. CASE EmitOpen(t) \/ EmitReopen(t) \/ EmitClosed(t)
  BY <1>14 DEF EmitOpen, EmitReopen, EmitClosed, Emit
<1>15. CASE Acquire(t) \/ Release(t) BY <1>15 DEF Acquire, Release, SetSlot
<1>16. CASE CasReopen(t) BY <1>16 DEF CasReopen, CasState
<1>17. CASE ClearReopen(t) BY <1>17 DEF ClearReopen, SetSuccesses
<1>18. CASE AddSuccess(t) BY <1>18 DEF AddSuccess, SetSuccesses
<1>19. CASE CasClose(t) BY <1>19 DEF CasClose, CasState
<1>20. CASE ClearFailures(t) BY <1>20 DEF ClearFailures, SetFailures
<1>21. CASE ClearSuccesses(t) BY <1>21 DEF ClearSuccesses, SetSuccesses
<1> QED
  BY <1>3, <1>4, <1>5, <1>6, <1>7, <1>8, <1>9, <1>10, <1>11, <1>12, <1>13, <1>14,
     <1>15, <1>16, <1>17, <1>18, <1>19, <1>20, <1>21 DEF Continue

LEMMA HInvInit == ASSUME HInit PROVE HInv
<1>1. Init /\ TypeOK BY TypeInit DEF HInit
<1>2. HTypeOK BY BreakerConfig DEF HInit, HTypeOK, Age
<1>3. LoneInv
  BY <1>1, BreakerConfig DEF HInit, Init, LoneInv, Lone, Idle, Settled, InClosed,
                             InOpen, InHalfOpen
<1> QED BY <1>1, <1>2, <1>3 DEF HInv

LEMMA HInvStep == ASSUME HInv, [HNext]_<<vars, history>> PROVE HInv'
<1>1. [Next]_vars BY DEF HNext
<1>2. TypeOK' /\ HTypeOK' BY <1>1, TypeStep, HTypeStep DEF HInv
<1>3. LoneInv'
  <2>1. CASE HNext BY <2>1, LoneTick, LoneStep DEF HNext, Next
  <2>2. CASE UNCHANGED <<vars, history>>
    BY <2>2 DEF HInv, vars, history, LoneInv, Lone, Idle, Settled, InClosed, InOpen,
                InHalfOpen
  <2> QED BY <2>1, <2>2
<1> QED BY <1>2, <1>3 DEF HInv

\* As long as calls have not overlapped, the code's counters, its timestamp and
\* the gauge are what the history says they should be, at every atomic step.
THEOREM LoneInvariant == HSpec => []HInv
<1>1. HInit => HInv BY HInvInit
<1>2. HInv /\ [HNext]_<<vars, history>> => HInv' BY HInvStep
<1> QED BY <1>1, <1>2, PTL DEF HSpec

\* Once every call has returned, the gauge shows the state, if calls have not
\* overlapped.
THEOREM LoneGauge == HSpec => []LoneGaugeShowsState
<1>1. HInv => LoneGaugeShowsState
  BY DEF HInv, LoneInv, Idle, Settled, LoneGaugeShowsState, QuietGauge
<1> QED BY <1>1, LoneInvariant, PTL

\* Only a CAS changes the state.
LEMMA StateByCas ==
  ASSUME HInv, [HNext]_<<vars, history>>, state' # state
  PROVE  \E t \in Callers : \/ CasHalfOpen(t) /\ Probe
                            \/ CasOpen(t) /\ Trip
                            \/ CasReopen(t) /\ state = "halfOpen" /\ state' = "open"
                            \/ CasClose(t) /\ Close
<1> USE DEF HInv, TypeOK, CBState
<1>1. PICK t \in Callers : Load(t) \/ Continue(t)
  BY DEF HNext, Next, Tick, vars
<1>2. CASE CasHalfOpen(t) BY <1>2 DEF CasHalfOpen, CasState, Probe
<1>3. CASE CasOpen(t) BY <1>3 DEF CasOpen, CasState, Trip
<1>4. CASE CasReopen(t) BY <1>4 DEF CasReopen, CasState
<1>5. CASE CasClose(t) BY <1>5 DEF CasClose, CasState, Close
<1>6. ASSUME ~CasHalfOpen(t), ~CasOpen(t), ~CasReopen(t), ~CasClose(t) PROVE FALSE
  <2>1. CASE Load(t) \/ SinceOpenedAt(t) \/ ClosedFn(t) \/ ProbeFn(t)
    BY <2>1 DEF Load, SinceOpenedAt, ClosedFn, ProbeFn, Branch
  <2>2. CASE LoadOpenedAt(t) \/ ReadTrip(t) \/ ReadReopen(t)
    BY <2>2 DEF LoadOpenedAt, ReadTrip, ReadReopen, SetStamp
  <2>3. CASE EmitHalfOpen(t) \/ EmitOpen(t) \/ EmitReopen(t) \/ EmitClosed(t)
    BY <2>3 DEF EmitHalfOpen, EmitOpen, EmitReopen, EmitClosed, Emit
  <2>4. CASE ResetFailures(t) \/ AddFailure(t) \/ ClearFailures(t)
    BY <2>4 DEF ResetFailures, AddFailure, ClearFailures, SetFailures
  <2>5. CASE StoreTrip(t) \/ StoreReopen(t) \/ Acquire(t) \/ Release(t)
    BY <2>5 DEF StoreTrip, StoreReopen, StoreOpenedAt, Acquire, Release, SetSlot
  <2>6. CASE ClearReopen(t) \/ AddSuccess(t) \/ ClearSuccesses(t)
    BY <2>6 DEF ClearReopen, AddSuccess, ClearSuccesses, SetSuccesses
  <2> QED BY <1>1, <1>6, <2>1, <2>2, <2>3, <2>4, <2>5, <2>6 DEF Continue
<1> QED BY <1>2, <1>3, <1>4, <1>5, <1>6

\* A lone call finds the circuit open for OpenTimeout before it probes.
THEOREM LoneProbes == HSpec => LoneProbesWait
<1>1. HInv /\ [HNext]_<<vars, history>>
        => [alone /\ Probe => openFor = OpenTimeout]_vars
  <2> SUFFICES ASSUME HInv, [HNext]_<<vars, history>>, alone, Probe
               PROVE  openFor = OpenTimeout
    OBVIOUS
  <2>1. PICK t \in Callers : CasHalfOpen(t)
    BY StateByCas DEF Probe, Trip, Close
  <2> QED BY <2>1 DEF HInv, LoneInv, InOpen, CasHalfOpen, CasState, Goto
<1> QED BY <1>1, LoneInvariant, PTL DEF HSpec, LoneProbesWait

\* Lone calls close the circuit after SuccessThreshold successful probes.
THEOREM LoneCloses == HSpec => LoneClosesAfterSuccesses
<1>1. HInv /\ [HNext]_<<vars, history>>
        => [alone /\ Close => wins = SuccessThreshold]_vars
  <2> SUFFICES ASSUME HInv, [HNext]_<<vars, history>>, alone, Close
               PROVE  wins = SuccessThreshold
    OBVIOUS
  <2>1. PICK t \in Callers : CasClose(t)
    BY StateByCas DEF Probe, Trip, Close
  <2> QED BY <2>1 DEF HInv, LoneInv, InHalfOpen, CasClose, CasState, Goto
<1> QED BY <1>1, LoneInvariant, PTL DEF HSpec, LoneClosesAfterSuccesses

\* Lone calls trip the circuit on FailureThreshold failures in a row, and no call
\* reaches a closed circuit after as many.
THEOREM LoneTrips == HSpec => LoneTripsAfterStreak
<1>1. ASSUME HInv, [HNext]_<<vars, history>>, alone', Trip
      PROVE  streak = FailureThreshold
  <2>1. PICK t \in Callers : CasOpen(t)
    BY <1>1, StateByCas DEF Probe, Trip, Close
  <2>2. alone BY <1>1 DEF HNext, history
  <2> QED
    BY <1>1, <2>1, <2>2 DEF HInv, LoneInv, InClosed, CasOpen, CasState, Goto
<1>2. ASSUME HInv, [HNext]_<<vars, history>>, alone', state = "closed", Reports("idle")
      PROVE  streak < FailureThreshold
  <2>1. PICK t \in Callers : pc[t] = "idle" /\ pc'[t] # "idle"
    BY <1>2 DEF Reports
  <2>2. HNext BY <1>2, <2>1 DEF vars
  <2>3. PICK u \in Callers : Load(u) \/ Continue(u)
    BY <2>1, <2>2 DEF HNext, Next, Tick
  <2>4. u = t BY <1>2, <2>1, <2>3, OneMoves DEF HInv
  <2>5. alone /\ Idle BY <1>2, <2>1, <2>2, <2>3, <2>4, OthersIdle DEF Idle
  <2> QED BY <1>2, <2>5 DEF HInv, LoneInv, Settled
<1>3. HInv /\ [HNext]_<<vars, history>>
        => [alone' => /\ Trip => streak = FailureThreshold
                      /\ state = "closed" /\ Reports("idle")
                           => streak < FailureThreshold]_vars
  BY <1>1, <1>2
<1> QED BY <1>3, LoneInvariant, PTL DEF HSpec, LoneTripsAfterStreak

----------------------------------------------------------------------------
(* Admission                                                                *)

\* Who is where.
Inside == \A t \in Callers :
  /\ pc[t] # "idle" => t \in admitted /\ turn[t] = NoTurn
  /\ turn[t] # NoTurn => t \in admitted

\* The debt of the bucket covers those asleep, one refill each.
Debt == \A t \in Callers : turn[t] > 0 =>
  /\ turn[t] <= -tokens
  /\ \A u \in Callers \ {t} : turn[u] # turn[t]

AInv == ATypeOK /\ Inside /\ Debt

\* The steps of the limiter and of the hedges leave the breaker alone.
LEMMA ANextRefines == ASSUME [ANext]_avars PROVE [Next]_vars
BY DEF ANext, avars, Next, ATick, Refill, Filter, Reserve, Refuse, GiveUp, Enter,
       Proceed, Choose, TryAcquire, EndHedge, HedgeStep

LEMMA ATypeStep == ASSUME AInv, [ANext]_avars PROVE ATypeOK'
<1> USE DEF AInv, ATypeOK, NoTurn
<1>0. TypeOK' BY ANextRefines, TypeStep
<1>1. CASE ATick \/ UNCHANGED avars
  BY <1>0, <1>1 DEF ATick, avars, limiterVars
<1>2. CASE Refill BY <1>0, <1>2 DEF Refill
<1>3. ASSUME NEW t \in Callers, Filter(t) \/ Reserve(t) \/ Refuse(t) \/ GiveUp(t)
      PROVE  ATypeOK'
  BY <1>0, <1>3 DEF Filter, Reserve, Refuse, GiveUp, Restored, limiterVars
<1>4. ASSUME NEW t \in Callers, Enter(t) \/ Proceed(t) PROVE ATypeOK'
  BY <1>0, <1>4 DEF Enter, Proceed, limiterVars
<1>5. ASSUME NEW h \in Hedges, Choose(h) \/ TryAcquire(h) \/ EndHedge(h)
      PROVE  ATypeOK'
  BY <1>0, <1>5 DEF Choose, TryAcquire, EndHedge, HedgeStep
<1> QED BY <1>1, <1>2, <1>3, <1>4, <1>5 DEF ANext

LEMMA InsideStep == ASSUME AInv, [ANext]_avars PROVE Inside'
<1> USE DEF AInv, ATypeOK, Inside, NoTurn
<1>1. CASE ATick \/ UNCHANGED avars
  BY <1>1 DEF ATick, Tick, avars, vars, limiterVars
<1>2. CASE Refill BY <1>2 DEF Refill, vars
<1>3. ASSUME NEW t \in Callers, Filter(t) \/ Reserve(t) \/ Refuse(t) \/ GiveUp(t)
      PROVE  Inside'
  BY <1>3 DEF Filter, Reserve, Refuse, GiveUp, InLimiter, limiterVars, vars
<1>4. ASSUME NEW t \in Callers, Enter(t) PROVE Inside'
  BY <1>4, OneMoves DEF Enter
<1>5. ASSUME NEW t \in Callers, Proceed(t) PROVE Inside'
  BY <1>5, OneMoves, ContinueInside DEF Proceed, limiterVars
<1>6. ASSUME NEW h \in Hedges, Choose(h) \/ TryAcquire(h) \/ EndHedge(h)
      PROVE  Inside'
  BY <1>6 DEF Choose, TryAcquire, EndHedge, HedgeStep, vars
<1> QED BY <1>1, <1>2, <1>3, <1>4, <1>5, <1>6 DEF ANext

\* A reservation is the last in the queue; one that is given up either is the
\* last, and the debt shrinks by it, or leaves a refill that nobody needs.
LEMMA DebtStep == ASSUME AInv, [ANext]_avars PROVE Debt'
<1> USE DEF AInv, ATypeOK, Debt, NoTurn
<1>1. CASE ATick \/ UNCHANGED avars
  BY <1>1 DEF ATick, avars, limiterVars
<1>2. CASE Refill BY <1>2 DEF Refill
<1>3. ASSUME NEW t \in Callers, Filter(t) \/ Refuse(t) \/ Enter(t) \/ Proceed(t)
      PROVE  Debt'
  BY <1>3 DEF Filter, Refuse, Enter, Proceed, limiterVars
<1>4. ASSUME NEW t \in Callers, Reserve(t) PROVE Debt'
  BY <1>4 DEF Reserve, InLimiter
<1>5. ASSUME NEW t \in Callers, GiveUp(t) PROVE Debt'
  BY <1>5 DEF GiveUp, Restored
<1>6. ASSUME NEW h \in Hedges, Choose(h) \/ TryAcquire(h) \/ EndHedge(h)
      PROVE  Debt'
  BY <1>6 DEF Choose, TryAcquire, EndHedge, HedgeStep
<1> QED BY <1>1, <1>2, <1>3, <1>4, <1>5, <1>6 DEF ANext

LEMMA AInvInit == ASSUME AInit PROVE AInv
BY TypeInit, AdmissionConstants DEF AInit, AInv, ATypeOK, Inside, Debt, NoTurn, Init

\* Whatever the callers, the hedges and the deadlines do, whoever is in Wait or
\* in Execute has passed the filter, and the debt covers those asleep.
THEOREM AdmissionInvariant == ASpec => []AInv
<1>1. AInit => AInv BY AInvInit
<1>2. AInv /\ [ANext]_avars => AInv'
  BY ATypeStep, InsideStep, DebtStep DEF AInv
<1> QED BY <1>1, <1>2, PTL DEF ASpec

----------------------------------------------------------------------------

\* A step from a state in which the circuit is open and unattended.
LEMMA UnattendedStep == ASSUME AInv, Unattended, [ANext]_avars PROVE Unattended'
<1> USE DEF Unattended
<1>1. CASE ATick \/ Refill \/ UNCHANGED avars
  BY <1>1 DEF ATick, Tick, Refill, avars, vars
<1>2. ASSUME NEW t \in Callers, Filter(t) \/ Reserve(t) \/ Refuse(t) PROVE FALSE
  BY <1>2 DEF Filter, Eligible, Reserve, Refuse, InLimiter
<1>3. ASSUME NEW t \in Callers, GiveUp(t) \/ Enter(t) PROVE FALSE
  BY <1>3 DEF GiveUp, Enter, AInv, ATypeOK, Inside, NoTurn
<1>4. ASSUME NEW t \in Callers, Proceed(t) PROVE FALSE
  BY <1>4, ContinueInside DEF Proceed, AInv, Inside
<1>5. ASSUME NEW h \in Hedges, Choose(h) \/ TryAcquire(h) \/ EndHedge(h)
      PROVE  Unattended'
  BY <1>5 DEF Choose, TryAcquire, EndHedge, HedgeStep, vars
<1> QED BY <1>1, <1>2, <1>3, <1>4, <1>5 DEF ANext

\* Once the circuit is open and every request that had passed the filter has
\* returned, the circuit is open for ever: no request reaches Execute, nothing
\* else leaves Open, and hedges that succeed do not count. OpenTimeout plays no
\* part.
THEOREM OpenIsForEver == ASpec => UnattendedStaysOpen
<1>1. AInv /\ Unattended /\ [ANext]_avars => Unattended' BY UnattendedStep
<1> QED BY <1>1, AdmissionInvariant, PTL DEF ASpec, UnattendedStaysOpen

\* Only TryAcquire starts a hedge, with a token that no sleeping call is owed.
LEMMA HedgeTakesFreeToken ==
  ASSUME AInv, [ANext]_avars, NEW h \in Hedges, Calls(h), NEW t \in Callers
  PROVE  turn[t] <= 0
<1> USE DEF Calls, AInv, ATypeOK
<1>1. \E g \in Hedges : TryAcquire(g) /\ tokens >= 1
  <2>1. CASE ATick \/ Refill \/ UNCHANGED avars
    BY <2>1 DEF ATick, Refill, avars, limiterVars
  <2>2. ASSUME NEW u \in Callers,
               Filter(u) \/ Reserve(u) \/ Refuse(u) \/ GiveUp(u) \/ Enter(u) \/ Proceed(u)
        PROVE  FALSE
    BY <2>2 DEF Filter, Reserve, Refuse, GiveUp, Enter, Proceed, limiterVars
  <2>3. ASSUME NEW g \in Hedges, Choose(g) \/ TryAcquire(g) \/ EndHedge(g)
        PROVE  TryAcquire(g) /\ tokens >= 1
    BY <2>3 DEF Choose, TryAcquire, EndHedge, HedgeStep
  <2> QED BY <2>1, <2>2, <2>3 DEF ANext
<1> QED BY <1>1 DEF Debt

\* A hedge starts only when no primary call is asleep in Wait: hedges never take
\* the token a call they are meant to help is waiting for, whoever has given up
\* in between.
THEOREM HedgesComeSecond == ASpec => PrimariesFirst
<1>1. AInv /\ [ANext]_avars
        => [\A h \in Hedges : Calls(h) => \A t \in Callers : turn[t] <= 0]_avars
  BY HedgeTakesFreeToken
<1> QED BY <1>1, AdmissionInvariant, PTL DEF ASpec, PrimariesFirst
=============================================================================
