-------------------------- MODULE AuthLimiterProofs --------------------------
(* Proofs about AuthLimiter, for any number of IPs, of requests at the same  *)
(* time, and any burst. The first invariant says whose failures a bucket     *)
(* pays for. The second one counts, for one IP between two refills: what one *)
(* bucket lets through is its tokens and the handlers that have looked       *)
(* before they are gone (Budget); an evicted bucket may let through another  *)
(* Budget, and once it is gone the IP is left with a single bucket.          *)
EXTENDS AuthLimiter, FiniteSetTheorems, TLAPS

\* A handler holds the bucket it looks at or charges, for the IP of its request.
Holding ==
  \A h \in Handlers :
    /\ pc[h] = "idle" => from[h] = None
    /\ pc[h] # "idle" => from[h] \in IPs
    /\ pc[h] \in {"look", "key", "charge"} <=> lim[h] # None

\* A bucket is used for one IP at most, by those who still use an evicted one
\* too.
Apart ==
  \A i, j \in IPs : i # j => BucketsOf(i) \cap BucketsOf(j) \subseteq {None}

\* Every token an IP lacks, in whichever bucket is used for it, is one of its
\* failures.
Paid ==
  \A i \in IPs : \A b \in BucketsOf(i) \ {None} : tokens[b] + failed[i] >= Burst

Inv == TypeOK /\ Holding /\ Apart /\ Paid

----------------------------------------------------------------------------
(* Types                                                                    *)

LEMMA TypeStep == ASSUME Inv, [Next]_vars PROVE TypeOK'
<1> USE LimiterConfig DEF LimiterConfig, Inv, TypeOK
<1>1. ASSUME NEW h \in Handlers, Handle(h) PROVE TypeOK'
  <2> USE DEF hVars, history, Goto
  <2>1. CASE Arrive(h) BY <2>1 DEF Arrive
  <2>2. CASE StoreSeen(h) BY <2>2 DEF StoreSeen, Holding
  <2>3. CASE LoadBucket(h) BY <2>3 DEF LoadBucket, Got, Holding
  <2>4. CASE LoadOrStore(h) BY <2>4 DEF LoadOrStore, Got, Holding, Unused
  <2>5. CASE Look(h) BY <2>5 DEF Look, Refused, Done
  <2>6. CASE Compare(h) BY <2>6 DEF Compare, Done
  <2>7. CASE Charge(h)
    <3>1. from[h] \in IPs /\ lim[h] \in Buckets BY <2>7 DEF Charge, Holding
    <3>2. tokens' \in [Buckets -> 0 .. Burst] BY <2>7, <3>1 DEF Charge
    <3>3. failed' \in [IPs -> 0 .. Burst] BY <2>7, <3>1 DEF Charge
    <3> QED BY <2>7, <3>2, <3>3 DEF Charge, Done
  <2> QED BY <1>1, <2>1, <2>2, <2>3, <2>4, <2>5, <2>6, <2>7 DEF Handle
<1>2. ASSUME NEW i \in IPs, Sweep(i) PROVE TypeOK'
  BY <1>2 DEF Sweep, RangeOld, DeleteBucket, DeleteSeen, SweepStep, hVars, history
<1>3. ASSUME NEW i \in IPs, Refill(i) PROVE TypeOK'
  <2>1. tokens' \in [Buckets -> 0 .. Burst] BY <1>3 DEF Refill
  <2> QED BY <1>3, <2>1 DEF Refill, hVars
<1>4. ASSUME NEW i \in IPs, Age(i) PROVE TypeOK'
  BY <1>4 DEF Age, hVars, history
<1>5. CASE UNCHANGED vars BY <1>5 DEF vars, hVars, history
<1> QED BY <1>1, <1>2, <1>3, <1>4, <1>5 DEF Next

LEMMA HoldingStep == ASSUME Inv, [Next]_vars PROVE Holding'
<1> USE LimiterConfig DEF LimiterConfig, Inv, TypeOK, Holding
<1>1. ASSUME NEW h \in Handlers, Handle(h) PROVE Holding'
  <2> USE DEF hVars, history, Goto
  <2>1. CASE Arrive(h) BY <2>1 DEF Arrive
  <2>2. CASE StoreSeen(h) BY <2>2 DEF StoreSeen
  <2>3. CASE LoadBucket(h) BY <2>3 DEF LoadBucket, Got
  <2>4. CASE LoadOrStore(h) BY <2>4 DEF LoadOrStore, Got, Unused
  <2>5. CASE Look(h) BY <2>5 DEF Look, Refused, Done
  <2>6. CASE Compare(h) BY <2>6 DEF Compare, Done
  <2>7. CASE Charge(h) BY <2>7 DEF Charge, Done
  <2> QED BY <1>1, <2>1, <2>2, <2>3, <2>4, <2>5, <2>6, <2>7 DEF Handle
<1>2. ASSUME NEW i \in IPs, Sweep(i) \/ Refill(i) \/ Age(i) PROVE Holding'
  BY <1>2 DEF Sweep, RangeOld, DeleteBucket, DeleteSeen, SweepStep, Refill, Age,
              hVars, history
<1>3. CASE UNCHANGED vars BY <1>3 DEF vars, hVars
<1> QED BY <1>1, <1>2, <1>3 DEF Next

----------------------------------------------------------------------------
(* Who uses which bucket                                                    *)

LEMMA BucketOf ==
  \A i \in IPs : \A b :
    b \in BucketsOf(i) <=> b = ips[i] \/ \E h \in Handlers : from[h] = i /\ b = lim[h]
BY DEF BucketsOf

\* Steps after which nobody uses a bucket he did not use before.
LEMMA Fewer ==
  ASSUME Inv, UNCHANGED <<tokens, failed>>,
         \A i \in IPs : BucketsOf(i)' \subseteq BucketsOf(i) \cup {None}
  PROVE  Apart' /\ Paid'
BY DEF Inv, Apart, Paid

LEMMA BucketStep == ASSUME Inv, [Next]_vars PROVE Apart' /\ Paid'
<1> USE LimiterConfig DEF LimiterConfig
<1>0. TypeOK /\ Holding /\ Apart /\ Paid BY DEF Inv
<1>t. TypeOK' BY TypeStep
<1>1. ASSUME NEW h \in Handlers, Handle(h) PROVE Apart' /\ Paid'
  <2> USE DEF hVars, history, Goto
  <2>1. CASE Arrive(h)
    <3>1. lim[h] = None BY <1>0, <2>1 DEF Arrive, Holding
    <3>2. \A i \in IPs : BucketsOf(i)' \subseteq BucketsOf(i) \cup {None}
      BY <1>0, <2>1, <3>1 DEF Arrive, BucketsOf, TypeOK
    <3> QED BY <2>1, <3>2, Fewer DEF Arrive
  <2>2. CASE StoreSeen(h)
    <3>1. \A i \in IPs : BucketsOf(i)' \subseteq BucketsOf(i) \cup {None}
      BY <2>2 DEF StoreSeen, BucketsOf
    <3> QED BY <2>2, <3>1, Fewer DEF StoreSeen
  <2>3. ASSUME LoadBucket(h) \/ (LoadOrStore(h) /\ ips[from[h]] # None)
        PROVE  Apart' /\ Paid'
    <3>1. UNCHANGED <<from, ips, tokens, failed>>
      BY <2>3 DEF LoadBucket, LoadOrStore
    <3>2. lim' = lim \/ lim' = [lim EXCEPT ![h] = ips[from[h]]]
      BY <2>3 DEF LoadBucket, LoadOrStore, Got
    <3>3. \A i \in IPs : BucketsOf(i)' \subseteq BucketsOf(i) \cup {None}
      BY <1>0, <3>1, <3>2 DEF BucketsOf, TypeOK
    <3> QED BY <3>1, <3>3, Fewer
  <2>4. ASSUME LoadOrStore(h), ips[from[h]] = None PROVE Apart' /\ Paid'
    <3>1. PICK b \in Unused : /\ Got(h, "store", b)
                              /\ ips' = [ips EXCEPT ![from[h]] = b]
                              /\ tokens' = [tokens EXCEPT ![b] = Burst]
      BY <2>4 DEF LoadOrStore
    <3>2. from[h] \in IPs /\ UNCHANGED <<from, failed>>
      BY <1>0, <2>4 DEF LoadOrStore, Holding
    <3>3. b \in Buckets /\ \A i \in IPs : b \notin BucketsOf(i)
      BY DEF Unused, BucketsOf
    <3>4. \A i \in IPs : i = from[h] => BucketsOf(i)' \subseteq BucketsOf(i) \cup {b}
      BY <1>0, <3>1, <3>2 DEF BucketsOf, Got, TypeOK
    <3>5. \A i \in IPs \ {from[h]} : BucketsOf(i)' \subseteq BucketsOf(i)
      BY <1>0, <3>1, <3>2 DEF BucketsOf, Got, TypeOK
    <3>6. Apart' BY <1>0, <3>2, <3>3, <3>4, <3>5 DEF Apart
    <3>7. Paid'
      <4> SUFFICES ASSUME NEW i \in IPs, NEW c \in BucketsOf(i)' \ {None}
                   PROVE  tokens'[c] + failed[i] >= Burst
        BY <3>2 DEF Paid
      <4>1. CASE c = b BY <1>0, <3>1, <3>3, <4>1 DEF TypeOK
      <4>2. CASE c # b
        <5>1. c \in BucketsOf(i) BY <3>4, <3>5, <4>2
        <5> QED BY <1>0, <3>1, <4>2, <5>1 DEF Paid
      <4> QED BY <4>1, <4>2
    <3> QED BY <3>6, <3>7
  <2>5. ASSUME Look(h) \/ Compare(h) PROVE Apart' /\ Paid'
    <3>1. UNCHANGED <<ips, tokens, failed>>
      BY <2>5 DEF Look, Compare, Refused
    <3>2. \/ UNCHANGED <<from, lim>>
          \/ Done(h)
          \/ lim' = [lim EXCEPT ![h] = None] /\ UNCHANGED from
      BY <2>5 DEF Look, Compare, Refused
    <3>3. \A i \in IPs : BucketsOf(i)' \subseteq BucketsOf(i) \cup {None}
      BY <1>0, <3>1, <3>2 DEF BucketsOf, TypeOK, Done
    <3> QED BY <3>1, <3>3, Fewer
  <2>6. CASE Charge(h)
    <3>1. from[h] \in IPs /\ lim[h] \in Buckets /\ lim[h] \in BucketsOf(from[h])
      BY <1>0, <2>6 DEF Charge, Holding, TypeOK, BucketsOf
    <3>2. \A i \in IPs : BucketsOf(i)' \subseteq BucketsOf(i) \cup {None}
      BY <1>0, <2>6 DEF Charge, Done, BucketsOf, TypeOK
    <3>3. Apart' BY <1>0, <3>2 DEF Apart
    <3>4. Paid'
      <4> SUFFICES ASSUME NEW i \in IPs, NEW b \in BucketsOf(i)' \ {None}
                   PROVE  tokens'[b] + failed'[i] >= Burst
        BY DEF Paid
      <4>1. b \in BucketsOf(i) /\ b \in Buckets
        BY <1>0, <3>2, SMTT(30) DEF BucketsOf, TypeOK
      <4>2. tokens[b] + failed[i] >= Burst BY <1>0, <4>1 DEF Paid
      <4>3. /\ tokens[b] \in 0 .. Burst /\ failed[i] \in 0 .. Burst
            /\ tokens'[b] \in 0 .. Burst /\ failed'[i] \in 0 .. Burst
        BY <1>0, <1>t, <4>1 DEF TypeOK
      <4>4. CASE i = from[h]
        BY <1>0, <2>6, <4>1, <4>2, <4>3, <4>4 DEF Charge, TypeOK
      <4>5. CASE i # from[h]
        <5>1. b # lim[h] BY <1>0, <3>1, <4>1, <4>5 DEF Apart
        <5> QED BY <1>0, <2>6, <4>1, <4>2, <4>5, <5>1 DEF Charge, TypeOK
      <4> QED BY <4>4, <4>5
    <3> QED BY <3>3, <3>4
  <2> QED BY <1>1, <2>1, <2>2, <2>3, <2>4, <2>5, <2>6 DEF Handle
<1>2. ASSUME NEW i \in IPs, Sweep(i) \/ Age(i) PROVE Apart' /\ Paid'
  <2>1. UNCHANGED <<from, lim, tokens, failed>>
    BY <1>2 DEF Sweep, RangeOld, DeleteBucket, DeleteSeen, SweepStep, Age, hVars, history
  <2>2. ips' = ips \/ ips' = [ips EXCEPT ![i] = None]
    BY <1>2 DEF Sweep, RangeOld, DeleteBucket, DeleteSeen, Age
  <2>3. \A j \in IPs : BucketsOf(j)' \subseteq BucketsOf(j) \cup {None}
    BY <1>0, <2>1, <2>2 DEF BucketsOf, TypeOK
  <2> QED BY <2>1, <2>3, Fewer
<1>3. ASSUME NEW i \in IPs, Refill(i) PROVE Apart' /\ Paid'
  <2>1. \A j \in IPs : BucketsOf(j)' = BucketsOf(j)
    BY <1>3 DEF Refill, hVars, BucketsOf
  <2>2. Apart' BY <1>0, <2>1 DEF Apart
  <2>3. Paid'
    <3> SUFFICES ASSUME NEW j \in IPs, NEW b \in BucketsOf(j) \ {None}
                 PROVE  tokens'[b] + failed'[j] >= Burst
      BY <2>1 DEF Paid
    <3>1. b \in Buckets BY <1>0 DEF BucketsOf, TypeOK
    <3>2. tokens[b] + failed[j] >= Burst BY <1>0 DEF Paid
    <3>3. tokens[b] \in 0 .. Burst /\ failed[j] \in 0 .. Burst
      BY <1>0, <3>1 DEF TypeOK
    <3>4. tokens'[b] = IF b \in BucketsOf(i) /\ tokens[b] < Burst
                       THEN tokens[b] + 1 ELSE tokens[b]
      BY <1>3, <3>1 DEF Refill
    <3>5. failed'[j] = IF j = i /\ failed[j] > 0 THEN failed[j] - 1 ELSE failed[j]
      BY <1>0, <1>3 DEF Refill, TypeOK
    <3> QED BY <3>2, <3>3, <3>4, <3>5
  <2> QED BY <2>2, <2>3
<1>4. CASE UNCHANGED vars
  BY <1>0, <1>4 DEF vars, hVars, history, Apart, Paid, BucketsOf
<1> QED BY <1>1, <1>2, <1>3, <1>4 DEF Next

----------------------------------------------------------------------------

LEMMA InvInit == ASSUME Init PROVE Inv
BY LimiterConfig
   DEF LimiterConfig, Init, Inv, TypeOK, Holding, Apart, Paid, BucketsOf, SweepIdle

\* The types, for any constants.
THEOREM TypeCorrect == Spec => []TypeOK
<1>1. Inv /\ [Next]_vars => Inv' BY TypeStep, HoldingStep, BucketStep DEF Inv
<1>2. Inv => TypeOK BY DEF Inv
<1> QED BY InvInit, <1>1, <1>2, PTL DEF Spec

\* The look that refuses finds less than a token in the bucket its IP uses, and
\* what the bucket lacks are failures of that IP.
LEMMA RefusalIsEarned ==
  ASSUME Inv, [Next]_vars, NEW h \in Handlers, pc[h] = "look", pc'[h] = "idle"
  PROVE  failed[from[h]] >= Burst
<1> USE LimiterConfig DEF LimiterConfig
<1>0. TypeOK /\ Holding /\ Paid BY DEF Inv
<1>1. Look(h)
  <2>1. PICK k \in Handlers : Handle(k)
    BY DEF Next, Sweep, RangeOld, DeleteBucket, DeleteSeen, SweepStep, Refill, Age,
           vars, hVars
  <2>2. k = h
    BY <1>0, <2>1 DEF TypeOK, Handle, Arrive, StoreSeen, LoadBucket, LoadOrStore,
                      Look, Compare, Charge, Got, Goto, Refused
  <2> QED
    BY <1>0, <2>1, <2>2 DEF TypeOK, Handle, Arrive, StoreSeen, LoadBucket, LoadOrStore,
                            Compare, Charge, Got, Goto
<1>2. tokens[lim[h]] < 1 BY <1>0, <1>1 DEF Look, Refused, Goto, TypeOK
<1>3. from[h] \in IPs /\ lim[h] \in Buckets /\ lim[h] \in BucketsOf(from[h])
  BY <1>0 DEF Holding, TypeOK, BucketsOf
<1>4. tokens[lim[h]] + failed[from[h]] >= Burst BY <1>0, <1>3 DEF Paid
<1>5. tokens[lim[h]] \in 0 .. Burst /\ failed[from[h]] \in 0 .. Burst
  BY <1>0, <1>3 DEF TypeOK
<1> QED BY <1>2, <1>4, <1>5

\* LockoutIsEarned: no race between requests, or with the sweep, answers 429 to
\* an IP that has not failed Burst times more often than tokens came back.
THEOREM LockoutsAreEarned == Spec => LockoutIsEarned
<1>1. Inv /\ [Next]_vars => Inv' BY TypeStep, HoldingStep, BucketStep DEF Inv
<1>2. Inv /\ [Next]_vars =>
        [\A h \in Handlers : pc[h] = "look" /\ pc'[h] = "idle" => failed[from[h]] >= Burst]_vars
  BY RefusalIsEarned
<1> QED BY InvInit, <1>1, <1>2, PTL DEF Spec, LockoutIsEarned

----------------------------------------------------------------------------
(* How many failures fit into six seconds                                   *)

\* What getOrCreate was called for.
Using ==
  \A h \in Handlers : /\ pc[h] \in {"idle", "look", "key"} => use[h] = "look"
                      /\ pc[h] = "charge" => use[h] = "charge"

\* What a request of i finds in the bucket it asks for.
Left(i) == IF ips[i] = None THEN Burst ELSE tokens[ips[i]]

\* Handlers that have passed the look, or may pass it whatever is left, because
\* they look at an evicted bucket.
Past(i) == {h \in Handlers : from[h] = i /\ \/ pc[h] = "key"
                                            \/ use[h] = "charge"
                                            \/ pc[h] = "look" /\ lim[h] # ips[i]}

\* Handlers about to charge an evicted bucket.
Late(i) == {h \in Handlers : from[h] = i /\ pc[h] = "charge" /\ lim[h] # ips[i]}

\* The sweep has found i idle, or will, and has not deleted its bucket yet.
Doomed(i) == \/ seen[i] = "stale" /\ sweep # [at |-> "seen", ip |-> i]
             \/ sweep = [at |-> "ips", ip |-> i]

\* The failures one bucket lets through: those it has tokens for, and those of
\* the handlers past the look when the last of them goes.
Budget == Burst + Cardinality(Handlers) - 1

\* What an evicted bucket may have let through.
Before(i) == IF Doomed(i) THEN 0 ELSE Budget

BoundedAt(i) ==
  /\ Doomed(i) => BucketsOf(i) \subseteq {None, ips[i]}
  /\ Left(i) > 0 => burst[i] + Cardinality(Late(i)) + Left(i) <= Before(i) + Burst
  /\ Left(i) = 0 => burst[i] + Cardinality(Past(i)) <= Before(i) + Budget

Bounded == \A i \in IPs : BoundedAt(i)

FInv == Inv /\ Using /\ Bounded

LEMMA UsingStep == ASSUME Inv, Using, [Next]_vars PROVE Using'
<1> USE DEF Inv, TypeOK, Holding, Using, Goto
<1>1. ASSUME NEW h \in Handlers, Handle(h) PROVE Using'
  BY <1>1 DEF Handle, Arrive, StoreSeen, LoadBucket, LoadOrStore, Got, Look, Refused,
              Compare, Charge, Done
<1>2. ASSUME NEW i \in IPs, Sweep(i) \/ Refill(i) \/ Age(i) PROVE Using'
  BY <1>2 DEF Sweep, RangeOld, DeleteBucket, DeleteSeen, SweepStep, Refill, Age, hVars
<1>3. CASE UNCHANGED vars BY <1>3 DEF vars, hVars
<1> QED BY <1>1, <1>2, <1>3 DEF Next

\* Sets of handlers are finite and counted by naturals.
LEMMA Counting ==
  /\ Budget \in Nat /\ Burst \in Nat \ {0} /\ Cardinality(Handlers) \in Nat
  /\ Burst <= Budget + 1 /\ Cardinality(Handlers) <= Budget
  /\ Budget = Burst + Cardinality(Handlers) - 1
  /\ \A S, T : S \subseteq T /\ T \subseteq Handlers
       => /\ IsFiniteSet(T) /\ Cardinality(S) \in Nat /\ Cardinality(T) \in Nat
          /\ Cardinality(S) <= Cardinality(T)
  /\ \A h, S, T : S \subseteq T \ {h} /\ T \subseteq Handlers /\ h \in T
       => Cardinality(S) + 1 <= Cardinality(T)
<1>1. IsFiniteSet(Handlers) /\ Burst \in Nat \ {0} BY LimiterConfig DEF LimiterConfig
<1>2. Cardinality(Handlers) \in Nat BY <1>1, FS_CardinalityType
<1>3. ASSUME NEW S, NEW T, S \subseteq T, T \subseteq Handlers
      PROVE  /\ IsFiniteSet(T) /\ Cardinality(S) \in Nat /\ Cardinality(T) \in Nat
             /\ Cardinality(S) <= Cardinality(T)
  <2>1. IsFiniteSet(T) BY <1>1, <1>3, FS_Subset
  <2>2. IsFiniteSet(S) /\ Cardinality(S) <= Cardinality(T) BY <1>3, <2>1, FS_Subset
  <2> QED BY <2>1, <2>2, FS_CardinalityType
<1>4. ASSUME NEW h, NEW S, NEW T, S \subseteq T \ {h}, T \subseteq Handlers, h \in T
      PROVE  Cardinality(S) + 1 <= Cardinality(T)
  <2>1. IsFiniteSet(T) /\ Cardinality(T) \in Nat BY <1>3, <1>4
  <2>2. Cardinality(T \ {h}) = Cardinality(T) - 1 BY <1>4, <2>1, FS_RemoveElement
  <2>3. Cardinality(S) <= Cardinality(T \ {h}) /\ Cardinality(S) \in Nat
    BY <1>3, <1>4, T \ {h} \subseteq Handlers
  <2> QED BY <2>1, <2>2, <2>3
<1> QED BY <1>1, <1>2, <1>3, <1>4 DEF Budget

LEMMA CountTypes ==
  ASSUME FInv, NEW i \in IPs
  PROVE  /\ Late(i) \subseteq Past(i) /\ Past(i) \subseteq Handlers
         /\ Cardinality(Late(i)) \in Nat /\ Cardinality(Past(i)) \in Nat
         /\ Cardinality(Late(i)) <= Cardinality(Handlers)
         /\ Left(i) \in 0 .. Burst /\ burst[i] \in Nat /\ Before(i) \in {0, Budget}
<1>1. Late(i) \subseteq Past(i) /\ Past(i) \subseteq Handlers /\ Late(i) \subseteq Handlers
  BY DEF FInv, Using, Late, Past
<1>2. Left(i) \in 0 .. Burst BY Counting DEF FInv, Inv, TypeOK, Left
<1>3. burst[i] \in Nat BY DEF FInv, Inv, TypeOK
<1> QED BY <1>1, <1>2, <1>3, Counting DEF Before

\* A step that neither charges i nor changes what it finds left.
LEMMA Eased ==
  ASSUME FInv, NEW i \in IPs,
         Left(i)' = Left(i), burst'[i] = burst[i],
         Late(i)' \subseteq Late(i),
         Left(i) = 0 => Past(i)' \subseteq Past(i),
         Doomed(i)' => Doomed(i) /\ BucketsOf(i)' \subseteq {None, ips'[i]}
  PROVE  BoundedAt(i)'
<1>1. BoundedAt(i) BY DEF FInv, Bounded
<1>2. Before(i)' \in Nat /\ Before(i) <= Before(i)'
  BY Counting DEF Before, Budget
<1>3. Cardinality(Late(i)') <= Cardinality(Late(i)) /\ Cardinality(Late(i)') \in Nat
  BY CountTypes, Counting
<1>4. Left(i) = 0 => Cardinality(Past(i)') <= Cardinality(Past(i)) /\ Cardinality(Past(i)') \in Nat
  BY CountTypes, Counting
<1>5. Budget' = Budget BY DEF Budget
<1> QED BY <1>1, <1>2, <1>3, <1>4, <1>5, CountTypes, Counting DEF BoundedAt

\* The steps of a request that lead to a bucket.
LEMMA AskStep ==
  ASSUME FInv, NEW h \in Handlers, Arrive(h) \/ StoreSeen(h) \/ LoadBucket(h) \/ LoadOrStore(h),
         NEW i \in IPs
  PROVE  BoundedAt(i)'
<1>0. TypeOK /\ Holding /\ Using /\ BoundedAt(i) /\ None \notin Buckets
  BY LimiterConfig DEF FInv, Inv, Bounded, LimiterConfig
<1> USE DEF hVars, history, Goto, TypeOK, Holding, Using
<1>1. CASE Arrive(h)
  <2>1. UNCHANGED <<lim, use, ips, seen, tokens, sweep, burst>> /\ pc' = [pc EXCEPT ![h] = "seen"]
        /\ \A k \in Handlers \ {h} : from'[k] = from[k]
    BY <1>0, <1>1 DEF Arrive
  <2>2. pc[h] = "idle" /\ use[h] = "look" /\ lim[h] = None BY <1>0, <1>1 DEF Arrive
  <2>3. Late(i)' \subseteq Late(i) /\ Past(i)' \subseteq Past(i)
    BY <1>0, <2>1, <2>2 DEF Late, Past
  <2>4. Left(i)' = Left(i) /\ Doomed(i)' = Doomed(i) /\ BucketsOf(i)' \subseteq BucketsOf(i) \cup {None}
    BY <1>0, <2>1, <2>2 DEF Left, Doomed, BucketsOf
  <2> QED BY <1>0, <2>1, <2>3, <2>4, Eased DEF BoundedAt
<1>2. CASE StoreSeen(h)
  <2>1. UNCHANGED <<from, lim, use, ips, tokens, sweep, burst>> /\ pc' = [pc EXCEPT ![h] = "load"]
        /\ pc[h] = "seen" /\ seen' = [seen EXCEPT ![from[h]] = "fresh"]
    BY <1>2 DEF StoreSeen
  <2>2. Late(i)' \subseteq Late(i) /\ Past(i)' \subseteq Past(i)
    BY <1>0, <2>1 DEF Late, Past
  <2>3. Left(i)' = Left(i) /\ (Doomed(i)' => Doomed(i)) /\ BucketsOf(i)' = BucketsOf(i)
    BY <1>0, <2>1 DEF Left, Doomed, BucketsOf
  <2> QED BY <1>0, <2>1, <2>2, <2>3, Eased DEF BoundedAt
<1>3. ASSUME LoadBucket(h) \/ (LoadOrStore(h) /\ ips[from[h]] # None) PROVE BoundedAt(i)'
  <2>1. UNCHANGED <<from, use, ips, seen, tokens, sweep, burst>>
    BY <1>3 DEF LoadBucket, LoadOrStore
  <2>2. /\ pc[h] \in {"load", "store"}
        /\ \/ pc' = [pc EXCEPT ![h] = "store"] /\ lim' = lim
           \/ /\ ips[from[h]] # None
              /\ pc' = [pc EXCEPT ![h] = use[h]] /\ lim' = [lim EXCEPT ![h] = ips[from[h]]]
    BY <1>3 DEF LoadBucket, LoadOrStore, Got
  <2>3. Late(i)' \subseteq Late(i) /\ Past(i)' \subseteq Past(i)
    BY <1>0, <2>1, <2>2 DEF Late, Past
  <2>4. Left(i)' = Left(i) /\ Doomed(i)' = Doomed(i) /\ BucketsOf(i)' \subseteq BucketsOf(i) \cup {ips[i]}
    BY <1>0, <2>1, <2>2 DEF Left, Doomed, BucketsOf
  <2> QED BY <1>0, <2>1, <2>3, <2>4, Eased DEF BoundedAt
<1>4. ASSUME LoadOrStore(h), ips[from[h]] = None PROVE BoundedAt(i)'
  <2>1. PICK b \in Unused : /\ Got(h, "store", b)
                            /\ ips' = [ips EXCEPT ![from[h]] = b]
                            /\ tokens' = [tokens EXCEPT ![b] = Burst]
    BY <1>4 DEF LoadOrStore
  <2>2. UNCHANGED <<from, use, seen, sweep, burst>> BY <1>4 DEF LoadOrStore
  <2>3. /\ b \in Buckets /\ ips[i] # b /\ \A k \in Handlers : lim[k] # b
        /\ from[h] \in IPs /\ pc[h] = "store" /\ pc' = [pc EXCEPT ![h] = use[h]]
        /\ lim' = [lim EXCEPT ![h] = b]
    BY <1>0, <2>1 DEF Unused, Got
  <2>4. CASE i = from[h]
    <3>1. ips'[i] = b /\ ips[i] = None /\ tokens'[b] = Burst
      BY <1>0, <1>4, <2>1, <2>3, <2>4
    <3>2. Left(i)' = Left(i) /\ Left(i) # 0
      BY <1>0, <3>1, Counting DEF Left
    <3>3. Late(i)' \subseteq Late(i)
      BY <1>0, <2>2, <2>3, <2>4, <3>1 DEF Late
    <3>4. Doomed(i)' = Doomed(i) /\ BucketsOf(i)' \subseteq BucketsOf(i) \cup {b}
      BY <1>0, <2>2, <2>3, <3>1 DEF Doomed, BucketsOf
    <3> QED BY <1>0, <2>2, <3>1, <3>2, <3>3, <3>4, Eased DEF BoundedAt
  <2>5. CASE i # from[h]
    <3>1. ips'[i] = ips[i] /\ Left(i)' = Left(i)
      BY <1>0, <2>1, <2>3, <2>5 DEF Left
    <3>2. Late(i)' \subseteq Late(i) /\ Past(i)' \subseteq Past(i)
      BY <1>0, <2>2, <2>3, <2>5, <3>1 DEF Late, Past
    <3>3. Doomed(i)' = Doomed(i) /\ BucketsOf(i)' \subseteq BucketsOf(i)
      BY <1>0, <2>2, <2>3, <2>5, <3>1 DEF Doomed, BucketsOf
    <3> QED BY <1>0, <2>2, <3>1, <3>2, <3>3, Eased DEF BoundedAt
  <2> QED BY <2>4, <2>5
<1> QED BY <1>1, <1>2, <1>3, <1>4

\* The look and the comparison with the keys.
LEMMA JudgeStep ==
  ASSUME FInv, NEW h \in Handlers, Look(h) \/ Compare(h), NEW i \in IPs
  PROVE  BoundedAt(i)'
<1>0. TypeOK /\ Holding /\ Using /\ BoundedAt(i) /\ None \notin Buckets
  BY LimiterConfig DEF FInv, Inv, Bounded, LimiterConfig
<1> USE DEF hVars, history, Goto, TypeOK, Holding, Using, Done
<1>1. UNCHANGED <<ips, seen, tokens, sweep, burst>> BY DEF Look, Compare
<1>2. Left(i)' = Left(i) /\ Doomed(i)' = Doomed(i) BY <1>1 DEF Left, Doomed
<1>3. BucketsOf(i)' \subseteq BucketsOf(i) \cup {None}
  BY <1>0, <1>1 DEF Look, Refused, Compare, BucketsOf
<1>4. Late(i)' \subseteq Late(i) BY <1>0, <1>1 DEF Look, Refused, Compare, Late
<1>5. Left(i) = 0 => Past(i)' \subseteq Past(i)
  <2>1. CASE Compare(h) BY <1>0, <1>1, <2>1 DEF Compare, Past
  <2>2. CASE Refused(h) BY <1>0, <1>1, <2>2 DEF Refused, Past
  <2>3. CASE Look(h) /\ ~Refused(h)
    <3>1. /\ pc[h] = "look" /\ pc' = [pc EXCEPT ![h] = "key"] /\ tokens[lim[h]] >= 1
          /\ UNCHANGED <<from, use, lim>>
      BY <2>3 DEF Look
    <3>2. from[h] = i /\ Left(i) = 0 => lim[h] # ips[i]
      BY <1>0, <3>1, Counting DEF Left
    <3> QED BY <1>0, <1>1, <3>1, <3>2 DEF Past
  <2> QED BY <2>1, <2>2, <2>3
<1> QED BY <1>0, <1>1, <1>2, <1>3, <1>4, <1>5, Eased DEF BoundedAt

\* A charge takes a token, or is one of those the budget allows without.
LEMMA ChargeStep ==
  ASSUME FInv, NEW h \in Handlers, Charge(h), NEW i \in IPs
  PROVE  BoundedAt(i)'
<1>0. TypeOK /\ Holding /\ Using /\ Apart /\ BoundedAt(i) /\ None \notin Buckets
  BY LimiterConfig DEF FInv, Inv, Bounded, LimiterConfig
<1> USE DEF TypeOK, Holding, Using, Done, Goto
<1>1. /\ UNCHANGED <<ips, seen, sweep>>
      /\ pc[h] = "charge" /\ use[h] = "charge"
      /\ pc' = [pc EXCEPT ![h] = "idle"] /\ use' = [use EXCEPT ![h] = "look"]
      /\ from' = [from EXCEPT ![h] = None] /\ lim' = [lim EXCEPT ![h] = None]
      /\ from[h] \in IPs /\ lim[h] \in Buckets /\ lim[h] \in BucketsOf(from[h])
  BY <1>0 DEF Charge, BucketsOf
<1>2. /\ tokens' = [tokens EXCEPT ![lim[h]] = IF @ >= 1 THEN @ - 1 ELSE @]
      /\ burst' = [burst EXCEPT ![from[h]] = @ + 1]
  BY DEF Charge
<1>3. Doomed(i)' = Doomed(i) /\ BucketsOf(i)' \subseteq BucketsOf(i) \cup {None}
  BY <1>0, <1>1 DEF Doomed, BucketsOf
<1>4. Doomed(i)' => BucketsOf(i)' \subseteq {None, ips'[i]}
  BY <1>0, <1>1, <1>3 DEF BoundedAt
<1>5. Late(i)' \subseteq Late(i) \ {h} /\ Past(i)' \subseteq Past(i) \ {h}
  BY <1>0, <1>1 DEF Late, Past
<1>6. CASE i # from[h]
  <2>1. ips[i] # lim[h]
    <3>1. ips[i] \in BucketsOf(i) BY DEF BucketsOf
    <3>2. BucketsOf(i) \cap BucketsOf(from[h]) \subseteq {None}
      BY <1>0, <1>1, <1>6 DEF Apart
    <3> QED BY <1>0, <1>1, <3>1, <3>2
  <2>2. Left(i)' = Left(i) /\ burst'[i] = burst[i]
    BY <1>0, <1>1, <1>2, <1>6, <2>1 DEF Left
  <2> QED BY <1>0, <1>1, <1>3, <1>4, <1>5, <2>2, Eased DEF BoundedAt
<1>7. CASE i = from[h]
  <2>1. burst'[i] = burst[i] + 1 BY <1>0, <1>2, <1>7
  <2>2. h \in Past(i) BY <1>1, <1>7 DEF Past
  <2>3. /\ Cardinality(Past(i)') \in Nat /\ Cardinality(Past(i)') + 1 <= Cardinality(Past(i))
        /\ Cardinality(Past(i)') + 1 <= Cardinality(Handlers)
        /\ Cardinality(Late(i)') \in Nat /\ Cardinality(Late(i)') <= Cardinality(Late(i))
        /\ Cardinality(Past(i)) <= Cardinality(Handlers)
    BY <1>5, <2>2, CountTypes, Counting
  <2>4. Before(i)' = Before(i) /\ Budget' = Budget BY <1>3 DEF Before, Budget
  <2>5. CASE lim[h] = ips[i]
    <3>1. Left(i) = tokens[lim[h]] /\ Left(i)' = tokens'[lim[h]]
      BY <1>0, <1>1, <2>5 DEF Left
    <3>2. Left(i)' = IF Left(i) > 0 THEN Left(i) - 1 ELSE Left(i)
      BY <1>0, <1>1, <1>2, <3>1
    <3> QED
      BY <1>0, <1>4, <2>1, <2>3, <2>4, <3>2, CountTypes, Counting DEF BoundedAt
  <2>6. CASE lim[h] # ips[i]
    <3>1. Left(i)' = Left(i) BY <1>0, <1>1, <1>2, <2>6 DEF Left
    <3>2. h \in Late(i) BY <1>1, <1>7, <2>6 DEF Late
    <3>3. Cardinality(Late(i)') + 1 <= Cardinality(Late(i))
      BY <1>5, <3>2, CountTypes, Counting
    <3> QED
      BY <1>0, <1>4, <2>1, <2>3, <2>4, <3>1, <3>3, CountTypes, Counting DEF BoundedAt
  <2> QED BY <2>5, <2>6
<1> QED BY <1>6, <1>7

\* The sweep: the bucket it deletes was the only one, and what it has let through
\* is within one budget.
LEMMA SweepBound ==
  ASSUME FInv, NEW j \in IPs, Sweep(j), NEW i \in IPs PROVE BoundedAt(i)'
<1>0. TypeOK /\ Holding /\ Using /\ BoundedAt(i) /\ None # "stale"
  BY LimiterConfig DEF FInv, Inv, Bounded, LimiterConfig
<1> USE DEF TypeOK, Holding, Using
<1>1. UNCHANGED <<pc, from, use, lim, tokens, burst>>
  BY DEF Sweep, RangeOld, DeleteBucket, DeleteSeen, SweepStep, hVars, history
<1>2. ASSUME RangeOld(j) \/ DeleteSeen(j) PROVE BoundedAt(i)'
  <2>1. UNCHANGED ips BY <1>2 DEF RangeOld, DeleteSeen
  <2>2. /\ Left(i)' = Left(i) /\ Late(i)' = Late(i) /\ Past(i)' = Past(i)
        /\ BucketsOf(i)' = BucketsOf(i)
    BY <1>1, <2>1 DEF Left, Late, Past, BucketsOf
  <2>3. Doomed(i)' => Doomed(i)
    BY <1>0, <1>2 DEF RangeOld, DeleteSeen, SweepStep, Doomed
  <2> QED BY <1>0, <1>1, <2>1, <2>2, <2>3, Eased DEF BoundedAt
<1>3. CASE DeleteBucket(j)
  <2>1. /\ sweep = [at |-> "ips", ip |-> j] /\ sweep' = [at |-> "seen", ip |-> j]
        /\ ips' = [ips EXCEPT ![j] = None] /\ UNCHANGED seen
    BY <1>3 DEF DeleteBucket, SweepStep
  <2>2. CASE i # j
    <3>1. ips'[i] = ips[i] BY <2>1, <2>2
    <3>2. /\ Left(i)' = Left(i) /\ Late(i)' = Late(i) /\ Past(i)' = Past(i)
          /\ BucketsOf(i)' = BucketsOf(i)
      BY <1>1, <3>1 DEF Left, Late, Past, BucketsOf
    <3>3. Doomed(i)' => Doomed(i) BY <2>1, <2>2 DEF Doomed
    <3> QED BY <1>0, <1>1, <3>1, <3>2, <3>3, Eased DEF BoundedAt
  <2>3. CASE i = j
    <3>1. Doomed(i) /\ ~Doomed(i)' BY <2>1, <2>3 DEF Doomed
    <3>2. Before(i) = 0 /\ Before(i)' = Budget BY <3>1 DEF Before, Budget
    <3>3. Left(i)' = Burst BY <1>0, <2>1, <2>3 DEF Left
    <3>4. Late(i)' \subseteq Past(i) /\ Past(i) \subseteq Handlers /\ Late(i)' \subseteq Handlers
      BY <1>0, <1>1 DEF Late, Past
    <3>5. /\ Cardinality(Late(i)') \in Nat /\ Cardinality(Late(i)') <= Cardinality(Past(i))
          /\ Cardinality(Late(i)') <= Cardinality(Handlers)
      BY <3>4, Counting
    <3>6. burst[i] + Cardinality(Late(i)') <= Budget
      BY <1>0, <3>2, <3>5, CountTypes, Counting DEF BoundedAt
    <3> QED BY <1>1, <3>1, <3>2, <3>3, <3>5, <3>6, CountTypes, Counting DEF BoundedAt
  <2> QED BY <2>2, <2>3
<1> QED BY <1>2, <1>3 DEF Sweep

\* Six seconds, or five minutes, without a charge.
LEMMA TimeStep ==
  ASSUME FInv, NEW j \in IPs, Refill(j) \/ Age(j), NEW i \in IPs PROVE BoundedAt(i)'
<1>0. TypeOK /\ Holding /\ Using /\ Apart /\ BoundedAt(i) /\ None \notin Buckets
  BY LimiterConfig DEF FInv, Inv, Bounded, LimiterConfig
<1> USE DEF TypeOK, Holding, Using
<1>1. UNCHANGED <<pc, from, use, lim, ips, sweep>> BY DEF Refill, Age, hVars
<1>2. Late(i)' = Late(i) /\ Past(i)' = Past(i) /\ BucketsOf(i)' = BucketsOf(i)
  BY <1>1 DEF Late, Past, BucketsOf
<1>3. CASE Refill(j)
  <2>1. /\ burst' = [burst EXCEPT ![j] = 0] /\ UNCHANGED seen
        /\ tokens' = [b \in Buckets |->
             IF b \in BucketsOf(j) /\ tokens[b] < Burst THEN tokens[b] + 1 ELSE tokens[b]]
    BY <1>3 DEF Refill
  <2>2. Doomed(i)' = Doomed(i) BY <1>1, <2>1 DEF Doomed
  <2>3. CASE i # j
    <3>1. ips[i] = None \/ ips[i] \notin BucketsOf(j)
      <4>1. ips[i] \in BucketsOf(i) BY DEF BucketsOf
      <4>2. BucketsOf(i) \cap BucketsOf(j) \subseteq {None} BY <1>0, <2>3 DEF Apart
      <4> QED BY <4>1, <4>2
    <3>2. Left(i)' = Left(i) /\ burst'[i] = burst[i]
      BY <1>0, <1>1, <2>1, <2>3, <3>1 DEF Left
    <3> QED BY <1>0, <1>1, <1>2, <2>2, <3>2, Eased DEF BoundedAt
  <2>4. CASE i = j
    <3>1. burst'[i] = 0 BY <1>0, <2>1, <2>4
    <3>2. Left(i)' \in 1 .. Burst
      <4>1. CASE ips[i] = None BY <1>1, <4>1, Counting DEF Left
      <4>2. CASE ips[i] # None
        <5>1. ips[i] \in BucketsOf(j) /\ ips[i] \in Buckets
          BY <1>0, <2>4, <4>2 DEF BucketsOf
        <5>2. tokens[ips[i]] \in 0 .. Burst BY <1>0, <5>1
        <5>3. Left(i)' = IF tokens[ips[i]] < Burst THEN tokens[ips[i]] + 1 ELSE tokens[ips[i]]
          BY <1>1, <2>1, <4>2, <5>1 DEF Left
        <5> QED BY <5>2, <5>3, Counting
      <4> QED BY <4>1, <4>2
    <3>3. Cardinality(Late(i)) <= Before(i)
      <4>1. CASE Doomed(i)
        <5>1. Late(i) = {}
          BY <1>0, <4>1 DEF BoundedAt, Late, BucketsOf
        <5> QED BY <4>1, <5>1, FS_EmptySet DEF Before
      <4>2. CASE ~Doomed(i)
        BY <4>2, CountTypes, Counting DEF Before
      <4> QED BY <4>1, <4>2
    <3>4. Before(i)' = Before(i) BY <2>2 DEF Before, Budget
    <3> QED
      BY <1>0, <1>1, <1>2, <2>2, <3>1, <3>2, <3>3, <3>4, CountTypes, Counting DEF BoundedAt
  <2> QED BY <2>3, <2>4
<1>4. CASE Age(j)
  <2>1. /\ UNCHANGED <<tokens, burst>> /\ seen' = [seen EXCEPT ![j] = "stale"]
        /\ burst[j] = 0 /\ \A h \in Handlers : pc[h] = "idle"
    BY <1>4 DEF Age, Quiet, history
  <2>2. Left(i)' = Left(i) BY <1>1, <2>1 DEF Left
  <2>3. CASE i # j
    <3>1. Doomed(i)' = Doomed(i) BY <1>1, <2>1, <2>3 DEF Doomed
    <3> QED BY <1>0, <1>1, <1>2, <2>1, <2>2, <3>1, Eased DEF BoundedAt
  <2>4. CASE i = j
    <3>1. Late(i) = {} /\ Past(i) = {} /\ BucketsOf(i) \subseteq {None, ips[i]}
      BY <1>0, <2>1 DEF Late, Past, BucketsOf
    <3>2. Cardinality({}) = 0 BY FS_EmptySet
    <3>3. Before(i)' \in Nat /\ Budget' = Budget BY Counting DEF Before, Budget
    <3> QED
      BY <1>1, <1>2, <2>1, <2>2, <2>4, <3>1, <3>2, <3>3, CountTypes, Counting DEF BoundedAt
  <2> QED BY <2>3, <2>4
<1> QED BY <1>3, <1>4

LEMMA FInvStep == ASSUME FInv, [Next]_vars PROVE FInv'
<1>1. Inv' BY TypeStep, HoldingStep, BucketStep DEF FInv, Inv
<1>2. Using' BY UsingStep DEF FInv
<1>3. ASSUME NEW i \in IPs PROVE BoundedAt(i)'
  <2>1. ASSUME NEW h \in Handlers, Handle(h) PROVE BoundedAt(i)'
    BY <2>1, AskStep, JudgeStep, ChargeStep DEF Handle
  <2>2. ASSUME NEW j \in IPs, Sweep(j) \/ Refill(j) \/ Age(j) PROVE BoundedAt(i)'
    BY <2>2, SweepBound, TimeStep
  <2>3. CASE UNCHANGED vars
    BY <2>3 DEF FInv, Bounded, BoundedAt, vars, hVars, history, Doomed, BucketsOf, Left,
                Late, Past, Before, Budget
  <2> QED BY <2>1, <2>2, <2>3 DEF Next
<1> QED BY <1>1, <1>2, <1>3 DEF FInv, Bounded

LEMMA FInvInit == ASSUME Init PROVE FInv
<1>1. Inv /\ Using BY InvInit DEF Init, Using
<1>2. ASSUME NEW i \in IPs PROVE BoundedAt(i)
  <2>1. /\ Late(i) = {} /\ BucketsOf(i) \subseteq {None, ips[i]}
        /\ Left(i) = Burst /\ burst[i] = 0 /\ ~Doomed(i)
    BY LimiterConfig, None # "stale" DEF LimiterConfig, Init, Late, BucketsOf, Left, Doomed, SweepIdle
  <2>2. Cardinality({}) = 0 BY FS_EmptySet
  <2> QED BY <2>1, <2>2, Counting DEF BoundedAt, Before
<1> QED BY <1>1, <1>2 DEF FInv, Bounded

\* However many requests race with each other and with the sweep, an IP fails
\* within six seconds no more often than two buckets and the handlers past the
\* look allow.
THEOREM FailuresBounded == Spec => []FailuresAreBounded
<1>1. FInv => FailuresAreBounded
  <2> SUFFICES ASSUME FInv, NEW i \in IPs
               PROVE  burst[i] <= 2 * (Burst + Cardinality(Handlers) - 1)
    BY DEF FailuresAreBounded
  <2>1. BoundedAt(i) BY DEF FInv, Bounded
  <2> QED BY <2>1, CountTypes, Counting DEF BoundedAt
<1> QED BY FInvInit, FInvStep, <1>1, PTL DEF Spec
=============================================================================
