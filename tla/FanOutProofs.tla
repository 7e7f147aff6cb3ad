---------------------------- MODULE FanOutProofs ----------------------------
(* For any set of carriers: the results channel of FanOut is closed only    *)
(* after the last send, nothing outlives the return, no send waits for room *)
(* in the channel, the answer is sorted and complete, and FanOut implements *)
(* FanOutContract.                                                          *)
(*                                                                          *)
(* None is inductive alone. Inv follows the order in which the goroutines   *)
(* hand over: the closing goroutine passes g.Wait only after the last       *)
(* primary, the monitor is done only after the last hedge, and the channel  *)
(* is closed only after both. Sends, Answering and Accounted add what is in *)
(* the channel, what has been collected, and whose quotes those are.        *)
EXTENDS FanOut, FiniteSetTheorems, WellFoundedInduction, TLAPS

USE DEF requestVars, callVars, monVars, hedgeVars

\* The types of the goroutines' positions.
Positions ==
  /\ main \in {"filter", "collect", "returned"}
  /\ eligible \subseteq Carriers
  /\ primary \in [Carriers -> {"off", "limiter", "execute", "send", "done"}]
  /\ mon \in {"off", "select", "scan", "drain", "done"}
  /\ hedge \in [Carriers -> {"none", "calling", "send", "done"}]
  /\ closer \in {"off", "wait", "drain", "done"}

PrimariesOver == \A c \in Carriers : primary[c] \in {"off", "done"}
HedgesOver    == \A c \in Carriers : hedge[c] \in {"none", "done"}

\* Who may still be running, by how far the closing goroutine has come.
Handover ==
  /\ \A c \in Carriers : primary[c] # "off" => c \in eligible
  /\ closer \in {"off", "drain", "done"} => PrimariesOver
  /\ mon \in {"off", "done"} => HedgesOver
  /\ closer = "off" <=> mon = "off"
  /\ closer = "done" => mon = "done"
  /\ main = "filter" => closer = "off"
  /\ main = "collect" => closer # "off"
  /\ main = "returned" => closer \in {"off", "done"}

Inv == Positions /\ Handover

LEMMA InvInit == ASSUME Init PROVE Inv
BY DEF Init, Inv, Positions, Handover, PrimariesOver, HedgesOver

LEMMA InvStep == ASSUME Inv, [Next]_vars PROVE Inv'
<1> USE DEF Inv, Positions, Handover, PrimariesOver, HedgesOver
<1>1. CASE Filter
  BY <1>1, FanOutConstants DEF Filter
<1>2. ASSUME NEW c \in Carriers, PrimaryStep(c) PROVE Inv'
  <2>1. CASE Limiter(c)
    BY <2>1 DEF Limiter, Finish
  <2>2. CASE Execute(c)
    BY <2>2 DEF Execute, Finish
  <2>3. CASE SendPrimary(c)
    BY <2>3 DEF SendPrimary
  <2> QED BY <1>2, <2>1, <2>2, <2>3 DEF PrimaryStep
<1>3. ASSUME NEW c \in Carriers, HedgeStep(c) PROVE Inv'
  BY <1>3 DEF HedgeStep, HedgeAnswers, SendHedge
<1>4. ASSUME NEW c \in Carriers, Visit(c) PROVE Inv'
  BY <1>4 DEF Visit, Skip, Fire, EndVisit
<1>5. CASE Poll
  BY <1>5 DEF Poll
<1>6. CASE MonitorDone \/ MonitorReturns
  BY <1>6 DEF MonitorDone, MonitorReturns
<1>7. CASE PrimariesDone
  BY <1>7 DEF PrimariesDone
<1>8. CASE CloseResults
  BY <1>8 DEF CloseResults
<1>9. CASE Expire \/ Collect
  BY <1>9 DEF Expire, Collect
<1>10. CASE Return
  BY <1>10 DEF Return, closed
<1>11. CASE Returned \/ UNCHANGED vars
  BY <1>11 DEF Returned, vars
<1> QED
  BY <1>1, <1>2, <1>3, <1>4, <1>5, <1>6, <1>7, <1>8, <1>9, <1>10, <1>11 DEF Next

LEMMA InvAlways == Spec => []Inv
<1>1. Init => Inv BY InvInit
<1>2. Inv /\ [Next]_vars => Inv' BY InvStep
<1> QED BY <1>1, <1>2, PTL DEF Spec

\* For any carriers, premiums and thresholds, fanOut never sends on the closed
\* results channel: g.Wait and hedgeDone together cover every sender.
THEOREM CloseIsSafe == Spec => []SendsPrecedeClose
<1>1. Inv => SendsPrecedeClose
  BY DEF Inv, Handover, PrimariesOver, HedgesOver, SendsPrecedeClose, closed
<1> QED BY <1>1, InvAlways, PTL

\* No goroutine that fanOut starts is alive when fanOut returns.
THEOREM ReturnIsLast == Spec => []NothingOutlivesReturn
<1>1. Inv => NothingOutlivesReturn
  BY DEF Inv, Positions, Handover, PrimariesOver, HedgesOver,
         NothingOutlivesReturn
<1> QED BY <1>1, InvAlways, PTL

----------------------------------------------------------------------------
(* Room in the channel: what it holds was sent by primaries and hedges that *)
(* are done now, each of which sent once.                                   *)

SentP == {c \in Carriers : primary[c] = "done"}
SentH == {c \in Carriers : hedge[c] = "done"}

Sends ==
  /\ results \in Seq(Result)
  /\ target \in [Carriers -> Carriers]
  /\ toVisit \subseteq eligible
  /\ \A c \in toVisit : hedge[c] = "none"
  /\ \A c \in Carriers : hedge[c] # "none" => c \in eligible
  /\ main = "filter" => /\ results = <<>> /\ toVisit = {}
                        /\ \A c \in Carriers : hedge[c] = "none"
  /\ Len(results) <= Cardinality(SentP) + Cardinality(SentH)

LEMMA SentFinite ==
  /\ IsFiniteSet(SentP) /\ Cardinality(SentP) \in Nat
  /\ IsFiniteSet(SentH) /\ Cardinality(SentH) \in Nat
<1>1. SentP \subseteq Carriers /\ SentH \subseteq Carriers BY DEF SentP, SentH
<1> QED BY <1>1, FanOutConstants, FS_Subset, FS_CardinalityType DEF FanOutConstants

\* A finished primary, or hedge, makes room for one more.
LEMMA OneMorePrimary ==
  ASSUME Inv, NEW c \in Carriers, primary[c] # "done",
         primary' = [primary EXCEPT ![c] = "done"]
  PROVE  Cardinality(SentP') = Cardinality(SentP) + 1
<1>1. SentP' = SentP \cup {c} /\ c \notin SentP BY DEF Inv, Positions, SentP
<1> QED BY <1>1, SentFinite, FS_AddElement

LEMMA OneMoreHedge ==
  ASSUME Inv, NEW c \in Carriers, hedge[c] # "done",
         hedge' = [hedge EXCEPT ![c] = "done"]
  PROVE  Cardinality(SentH') = Cardinality(SentH) + 1
<1>1. SentH' = SentH \cup {c} /\ c \notin SentH BY DEF Inv, Positions, SentH
<1> QED BY <1>1, SentFinite, FS_AddElement

LEMMA SendsInit == ASSUME Init PROVE Sends
<1>1. SentP = {} /\ SentH = {} BY DEF Init, SentP, SentH
<1> QED BY <1>1, SentFinite DEF Init, Sends

\* A step of select { results <- r, done } by one sender.
LEMMA SendCounts ==
  ASSUME results \in Seq(Result), NEW r \in Result, NEW done, Send(r, done)
  PROVE  results' \in Seq(Result) /\ Len(results') <= Len(results) + 1
BY DEF Send

LEMMA SendsStep == ASSUME Inv, Sends, [Next]_vars PROVE Sends'
<1> USE FanOutConstants DEF FanOutConstants, Sends
<1>s. Len(results) \in Nat /\ Cardinality(SentP) \in Nat /\ Cardinality(SentH) \in Nat
  BY SentFinite
<1>1. CASE Filter
  <2>1. /\ results' = <<>> /\ toVisit' = {} /\ UNCHANGED <<hedge, target>>
        /\ main' # "filter" /\ \A c \in Carriers : hedge[c] = "none"
    BY <1>1 DEF Filter, Inv, Handover
  <2>2. SentP' = {} BY <1>1 DEF Filter, SentP
  <2>3. SentH' = SentH BY <2>1 DEF SentH
  <2>4. results' \in Seq(Result) /\ Len(results') = 0 BY <2>1
  <2>5. Cardinality(SentP') = 0 /\ Cardinality(SentH') \in Nat
    BY <1>s, <2>2, <2>3, FS_EmptySet
  <2>6. Len(results') <= Cardinality(SentP') + Cardinality(SentH')
    BY <2>4, <2>5
  <2>7. \A c \in Carriers : hedge'[c] = "none" BY <2>1
  <2> QED BY <2>1, <2>4, <2>6, <2>7
<1>2. ASSUME NEW c \in Carriers, Limiter(c) \/ Execute(c) PROVE Sends'
  <2>1. UNCHANGED <<main, results, target, toVisit, eligible, hedge>>
    BY <1>2 DEF Limiter, Execute
  <2>2. SentH' = SentH BY <2>1 DEF SentH
  <2>3. primary[c] # "done"
    BY <1>2 DEF Limiter, Execute
  <2>4. \/ primary' = [primary EXCEPT ![c] = "done"]
        \/ primary' = [primary EXCEPT ![c] = "execute"]
        \/ primary' = [primary EXCEPT ![c] = "send"]
    BY <1>2 DEF Limiter, Execute, Finish
  <2>5. primary' = [primary EXCEPT ![c] = "execute"] => SentP' = SentP
    BY <2>3 DEF SentP, Inv, Positions
  <2>6. primary' = [primary EXCEPT ![c] = "send"] => SentP' = SentP
    BY <2>3 DEF SentP, Inv, Positions
  <2>7. Len(results') <= Cardinality(SentP') + Cardinality(SentH')
    BY <1>s, <2>1, <2>2, <2>3, <2>4, <2>5, <2>6, OneMorePrimary
  <2> QED BY <2>1, <2>7
<1>3. ASSUME NEW c \in Carriers, SendPrimary(c) PROVE Sends'
  <2>1. UNCHANGED <<main, target, toVisit, eligible, hedge>> BY <1>3 DEF SendPrimary
  <2>2. SentH' = SentH BY <2>1 DEF SentH
  <2>3. PrimaryResult(c) \in Result BY DEF PrimaryResult, Result
  <2>4. results' \in Seq(Result) /\ Len(results') <= Len(results) + 1
    BY <1>3, <2>3, SendCounts DEF SendPrimary
  <2>5. Cardinality(SentP') = Cardinality(SentP) + 1
    BY <1>3, OneMorePrimary DEF SendPrimary
  <2>6. main # "filter" BY <1>3 DEF SendPrimary, Inv, Handover, PrimariesOver
  <2>7. Len(results') \in Nat BY <2>4
  <2> QED BY <1>s, <2>1, <2>2, <2>4, <2>5, <2>6, <2>7
<1>4. ASSUME NEW c \in Carriers, HedgeAnswers(c) PROVE Sends'
  <2>1. UNCHANGED <<main, results, target, toVisit, eligible, primary>>
    BY <1>4 DEF HedgeAnswers
  <2>2. SentP' = SentP BY <2>1 DEF SentP
  <2>3. hedge[c] = "calling" BY <1>4 DEF HedgeAnswers
  <2>4. \/ hedge' = [hedge EXCEPT ![c] = "done"]
        \/ hedge' = [hedge EXCEPT ![c] = "send"]
    BY <1>4 DEF HedgeAnswers
  <2>5. hedge' = [hedge EXCEPT ![c] = "send"] => SentH' = SentH
    BY <2>3 DEF SentH, Inv, Positions
  <2>6. Len(results') <= Cardinality(SentP') + Cardinality(SentH')
    BY <1>s, <2>1, <2>2, <2>3, <2>4, <2>5, OneMoreHedge
  <2> QED BY <2>1, <2>3, <2>4, <2>6 DEF Inv, Positions
<1>5. ASSUME NEW c \in Carriers, SendHedge(c) PROVE Sends'
  <2>1. UNCHANGED <<main, target, toVisit, eligible, primary>> BY <1>5 DEF SendHedge
  <2>2. SentP' = SentP BY <2>1 DEF SentP
  <2>3. HedgeResult(c) \in Result BY DEF HedgeResult, Result
  <2>4. results' \in Seq(Result) /\ Len(results') <= Len(results) + 1
    BY <1>5, <2>3, SendCounts DEF SendHedge
  <2>5. /\ hedge[c] = "send"
        /\ hedge' = [hedge EXCEPT ![c] = "done"]
    BY <1>5 DEF SendHedge
  <2>6. Cardinality(SentH') = Cardinality(SentH) + 1 BY <2>5, OneMoreHedge
  <2>7. Len(results') \in Nat BY <2>4
  <2>8. Len(results') <= Cardinality(SentP') + Cardinality(SentH')
    BY <1>s, <2>2, <2>4, <2>6, <2>7
  <2> QED BY <2>1, <2>4, <2>5, <2>8 DEF Inv, Positions
<1>6. ASSUME NEW c \in Carriers, Fire(c) PROVE Sends'
  <2>1. UNCHANGED <<main, results, eligible, primary>> BY <1>6 DEF Fire
  <2>2. c \in toVisit /\ toVisit' = toVisit \ {c} /\ hedge[c] = "none" /\ mon = "scan"
    BY <1>6 DEF Fire, EndVisit
  <2>3. hedge' = [hedge EXCEPT ![c] = "calling"] BY <1>6 DEF Fire
  <2>4. SentP' = SentP /\ SentH' = SentH
    BY <2>1, <2>2, <2>3 DEF SentP, SentH, Inv, Positions
  <2>5. target' \in [Carriers -> Carriers]
    BY <1>6 DEF Fire, Best, HedgeCandidates
  <2>6. main # "filter" BY <2>2 DEF Inv, Handover
  <2> QED BY <2>1, <2>2, <2>3, <2>4, <2>5, <2>6 DEF Inv, Positions
<1>7. ASSUME NEW c \in Carriers, Skip(c) PROVE Sends'
  BY <1>7 DEF Skip, EndVisit, SentP, SentH
<1>8. CASE Poll
  <2>1. /\ toVisit' = {d \in eligible : hedge[d] = "none"}
        /\ UNCHANGED <<main, results, target, eligible, hedge, primary>>
    BY <1>8 DEF Poll, Hedged, Inv, Positions
  <2>2. SentP' = SentP /\ SentH' = SentH BY <2>1 DEF SentP, SentH
  <2>3. main # "filter" BY <1>8 DEF Poll, Inv, Handover
  <2> QED BY <2>1, <2>2, <2>3
<1>9. CASE Expire \/ MonitorDone \/ MonitorReturns \/ PrimariesDone \/ CloseResults
  BY <1>9 DEF Expire, MonitorDone, MonitorReturns, PrimariesDone, CloseResults,
              SentP, SentH
<1>10. CASE Collect
  <2>1. results' = Tail(results) /\ results # <<>> /\ main = "collect"
        /\ UNCHANGED <<main, target, toVisit, eligible, hedge, primary>>
    BY <1>10 DEF Collect
  <2>2. results' \in Seq(Result) /\ Len(results') = Len(results) - 1 BY <2>1
  <2>3. SentP' = SentP /\ SentH' = SentH BY <2>1 DEF SentP, SentH
  <2> QED BY <1>s, <2>1, <2>2, <2>3
<1>11. CASE Return \/ Returned \/ UNCHANGED vars
  BY <1>11 DEF Return, Returned, vars, SentP, SentH
<1> QED
  BY <1>1, <1>2, <1>3, <1>4, <1>5, <1>6, <1>7, <1>8, <1>9, <1>10, <1>11
     DEF Next, PrimaryStep, HedgeStep, Visit

\* For any number of carriers, a primary or a hedge that has a result finds
\* room in the channel: two slots per eligible carrier are enough.
THEOREM RoomForAll == Spec => []SendsNeverBlock
<1>1. Init => Inv /\ Sends BY InvInit, SendsInit
<1>2. Inv /\ Sends /\ [Next]_vars => Inv' /\ Sends' BY InvStep, SendsStep
<1>3. ASSUME Inv, Sends PROVE SendsNeverBlock
  <2> SUFFICES ASSUME NEW c \in Carriers, primary[c] = "send" \/ hedge[c] = "send"
               PROVE  Len(results) < Capacity
    BY DEF SendsNeverBlock
  <2>1. eligible \subseteq Carriers /\ SentP \subseteq eligible /\ SentH \subseteq eligible
    BY <1>3 DEF Inv, Positions, Handover, Sends, SentP, SentH
  <2>2. c \in eligible BY <1>3 DEF Inv, Handover, Sends
  <2>3. SentP \subseteq eligible \ {c} \/ SentH \subseteq eligible \ {c}
    BY <2>1 DEF SentP, SentH
  <2>4. IsFiniteSet(eligible) /\ Cardinality(eligible) \in Nat
    BY <2>1, FanOutConstants, FS_Subset, FS_CardinalityType DEF FanOutConstants
  <2>5. /\ IsFiniteSet(eligible \ {c})
        /\ Cardinality(eligible \ {c}) = Cardinality(eligible) - 1
    BY <2>2, <2>4, FS_RemoveElement
  <2>6. Cardinality(SentP) <= Cardinality(eligible) /\ Cardinality(SentH) <= Cardinality(eligible)
    BY <2>1, <2>4, FS_Subset
  <2>7. \/ Cardinality(SentP) <= Cardinality(eligible) - 1
        \/ Cardinality(SentH) <= Cardinality(eligible) - 1
    BY <2>3, <2>5, FS_Subset
  <2>8. Len(results) \in Nat /\ Len(results) <= Cardinality(SentP) + Cardinality(SentH)
    BY <1>3 DEF Sends
  <2> QED BY SentFinite, <2>4, <2>6, <2>7, <2>8 DEF Capacity
<1> QED BY <1>1, <1>2, <1>3, PTL DEF Spec

----------------------------------------------------------------------------
(* Sorting: in a sequence with one quote per carrier no two quotes are      *)
(* equal in Cheaper, so Place is a bijection that follows it.               *)

Distinct(s) == \A i, j \in 1 .. Len(s) : i # j => s[i].carrier # s[j].carrier

LEMMA PlaceFollowsOrder ==
  ASSUME NEW s \in Seq(Result), Distinct(s)
  PROVE  /\ \A i \in 1 .. Len(s) : Place(s, i) \in 1 .. Len(s)
         /\ \A i, j \in 1 .. Len(s) :
              Cheaper(s[i], s[j]) <=> Place(s, i) < Place(s, j)
         /\ \A i, j \in 1 .. Len(s) : Place(s, i) = Place(s, j) => i = j
<1> DEFINE D == 1 .. Len(s)
<1>1. Len(s) \in Nat /\ DOMAIN s = D /\ \A i \in D : s[i] \in Result
  OBVIOUS
<1>2. \A i \in D : s[i].amount \in Nat /\ s[i].carrier \in Nat
  BY <1>1, FanOutConstants DEF FanOutConstants, Result
<1>3. IsFiniteSet(D) /\ Cardinality(D) = Len(s)
  <2>1. 1 \in Int /\ Len(s) \in Int BY <1>1
  <2>2. /\ IsFiniteSet(1 .. Len(s))
        /\ Cardinality(1 .. Len(s)) = IF 1 > Len(s) THEN 0 ELSE Len(s) - 1 + 1
    BY <2>1, FS_Interval, Zenon
  <2> QED BY <1>1, <2>2
<1>4. ASSUME NEW i \in D
      PROVE  /\ i \in UpTo(s, i) /\ IsFiniteSet(UpTo(s, i))
             /\ Place(s, i) \in D
  <2>1. i \in UpTo(s, i) BY <1>1, <1>2 DEF UpTo, Cheaper
  <2>2. UpTo(s, i) \subseteq D BY <1>1 DEF UpTo
  <2>3. /\ IsFiniteSet(UpTo(s, i)) /\ Cardinality(UpTo(s, i)) \in Nat
        /\ Cardinality(UpTo(s, i)) <= Cardinality(D)
    BY <1>3, <2>2, FS_Subset, FS_CardinalityType
  <2>4. Cardinality(UpTo(s, i)) # 0 BY <2>1, <2>3, FS_EmptySet
  <2> QED BY <1>1, <1>3, <2>1, <2>3, <2>4 DEF Place
<1>5. ASSUME NEW i \in D, NEW j \in D, Cheaper(s[i], s[j])
      PROVE  Place(s, i) < Place(s, j)
  <2>1. UpTo(s, i) \subseteq UpTo(s, j) \ {j}
    BY <1>1, <1>2, <1>5, SMTT(30) DEF UpTo, Cheaper
  <2>2. /\ IsFiniteSet(UpTo(s, j) \ {j})
        /\ Cardinality(UpTo(s, j) \ {j}) = Cardinality(UpTo(s, j)) - 1
    BY <1>4, FS_RemoveElement
  <2>3. Cardinality(UpTo(s, i)) <= Cardinality(UpTo(s, j) \ {j})
    BY <2>1, <2>2, FS_Subset
  <2>4. Place(s, i) \in Nat /\ Place(s, j) \in Nat BY <1>1, <1>4
  <2> QED BY <2>2, <2>3, <2>4 DEF Place
<1>6. \A i, j \in D : i # j => Cheaper(s[i], s[j]) \/ Cheaper(s[j], s[i])
  BY <1>2 DEF Cheaper, Distinct
<1>7. \A i \in D : Place(s, i) \in Nat BY <1>1, <1>4
<1>8. ASSUME NEW i \in D, NEW j \in D, Place(s, i) < Place(s, j)
      PROVE  Cheaper(s[i], s[j])
  <2>1. i # j BY <1>7, <1>8
  <2>2. ~Cheaper(s[j], s[i]) BY <1>5, <1>7, <1>8
  <2> QED BY <1>6, <2>1, <2>2
<1>9. ASSUME NEW i \in D, NEW j \in D, Place(s, i) = Place(s, j) PROVE i = j
  <2>1. ~Cheaper(s[i], s[j]) /\ ~Cheaper(s[j], s[i]) BY <1>5, <1>7, <1>9
  <2> QED BY <1>6, <2>1
<1> QED BY <1>4, <1>5, <1>8, <1>9

LEMMA SortedIsInOrder ==
  ASSUME NEW s \in Seq(Result), Distinct(s)
  PROVE  /\ Sorted(s) \in Seq(Result) /\ Len(Sorted(s)) = Len(s)
         /\ {Sorted(s)[p] : p \in 1 .. Len(s)} = {s[i] : i \in 1 .. Len(s)}
         /\ \A p, q \in 1 .. Len(s) :
              p < q => /\ Cheaper(Sorted(s)[p], Sorted(s)[q])
                       /\ Sorted(s)[p].carrier # Sorted(s)[q].carrier
<1> DEFINE D == 1 .. Len(s)
           At(p) == CHOOSE i \in D : Place(s, i) = p
           f == [i \in D |-> Place(s, i)]
<1>1. Len(s) \in Nat /\ DOMAIN s = D /\ \A i \in D : s[i] \in Result
  OBVIOUS
<1>2. IsFiniteSet(D)
  <2>1. 1 \in Int /\ Len(s) \in Int BY <1>1
  <2> QED BY <2>1, FS_Interval, Zenon
<1>3. f \in Injection(D, D)
  BY PlaceFollowsOrder, Zenon DEF Injection, IsInjective
<1>4. f \in Surjection(D, D) BY <1>2, <1>3, FS_Injection
<1>5. \A p \in D : \E i \in D : Place(s, i) = p BY <1>4 DEF Surjection
<1>6. \A p \in D : At(p) \in D /\ Place(s, At(p)) = p BY <1>5
<1>7. Sorted(s) = [p \in D |-> s[At(p)]] BY <1>1 DEF Sorted
<1>8. \A i \in D : Place(s, i) \in D /\ At(Place(s, i)) = i
  <2>1. \A i \in D : Place(s, i) \in D BY PlaceFollowsOrder
  <2> HIDE DEF At
  <2> QED BY <1>6, <2>1, PlaceFollowsOrder
<1> HIDE DEF At
<1>9. Sorted(s) \in Seq(Result) /\ Len(Sorted(s)) = Len(s)
  BY <1>1, <1>6, <1>7
<1>10. {Sorted(s)[p] : p \in D} = {s[i] : i \in D}
  BY <1>6, <1>7, <1>8
<1>11. ASSUME NEW p \in D, NEW q \in D, p < q
       PROVE  /\ Cheaper(Sorted(s)[p], Sorted(s)[q])
              /\ Sorted(s)[p].carrier # Sorted(s)[q].carrier
  <2>1. At(p) \in D /\ At(q) \in D /\ Place(s, At(p)) = p /\ Place(s, At(q)) = q
    BY <1>6
  <2>2. At(p) # At(q) BY <1>11, <2>1
  <2>3. Cheaper(s[At(p)], s[At(q)]) BY <1>11, <2>1, PlaceFollowsOrder
  <2>4. s[At(p)].carrier # s[At(q)].carrier BY <2>1, <2>2 DEF Distinct
  <2> QED BY <1>7, <2>3, <2>4
<1> QED BY <1>9, <1>10, <1>11

----------------------------------------------------------------------------
(* The answer: what is collected has one quote per carrier, and is sorted   *)
(* when fanOut returns.                                                     *)

Answering ==
  /\ collected \in Seq(Result) /\ Distinct(collected)
  /\ main # "returned" => returned = <<>>
  /\ main = "filter" => eligible = {} /\ collected = <<>>
  /\ main = "collect" => eligible # {}
  /\ \A c \in Carriers :
       hedge[c] # "none" => target[c] \in eligible /\ target[c] # c

LEMMA AnsweringInit == ASSUME Init PROVE Answering
BY DEF Init, Answering, Distinct

LEMMA AnsweringStep == ASSUME Inv, Sends, Answering, [Next]_vars PROVE Answering'
<1> USE DEF Answering
<1>1. CASE Filter
  BY <1>1, FanOutConstants DEF Filter, Sends, FanOutConstants, Distinct
<1>2. ASSUME NEW c \in Carriers, Fire(c) PROVE Answering'
  <2>1. UNCHANGED <<requestVars, callVars>> /\ main # "returned"
    BY <1>2 DEF Fire, EndVisit, Inv, Handover
  <2>2. PICK t \in HedgeCandidates(c) : target' = [target EXCEPT ![c] = t]
    BY <1>2 DEF Fire, Best
  <2>3. t \in eligible /\ t # c BY <2>2 DEF HedgeCandidates
  <2>4. hedge' = [hedge EXCEPT ![c] = "calling"] BY <1>2 DEF Fire
  <2> QED BY <2>1, <2>2, <2>3, <2>4 DEF Inv, Positions, Sends, Distinct
<1>3. ASSUME NEW c \in Carriers, HedgeStep(c) PROVE Answering'
  <2>1. /\ hedge[c] # "none" /\ hedge' \in [Carriers -> {"none", "calling", "send", "done"}]
        /\ \A d \in Carriers \ {c} : hedge'[d] = hedge[d]
        /\ UNCHANGED <<requestVars, target>>
    BY <1>3 DEF HedgeStep, HedgeAnswers, SendHedge, Inv, Positions
  <2> QED BY <2>1 DEF Distinct
<1>4. ASSUME NEW c \in Carriers, PrimaryStep(c) \/ Skip(c) PROVE Answering'
  BY <1>4 DEF PrimaryStep, Limiter, Execute, SendPrimary, Skip, Distinct
<1>5. CASE Collect
  <2>1. /\ results # <<>> /\ UNCHANGED <<main, eligible, returned, hedge, target>>
        /\ main = "collect"
    BY <1>5 DEF Collect
  <2>2. CASE Duplicate(Head(results))
    BY <1>5, <2>1, <2>2 DEF Collect, Distinct
  <2>3. CASE ~Duplicate(Head(results))
    <3>1. collected' = Append(collected, Head(results)) BY <1>5, <2>3 DEF Collect
    <3>2. Head(results) \in Result BY <2>1 DEF Sends
    <3>3. \A i \in 1 .. Len(collected) : collected[i].carrier # Head(results).carrier
      BY <2>3 DEF Duplicate, Seen
    <3>4. collected' \in Seq(Result) /\ Distinct(collected')
      BY <3>1, <3>2, <3>3 DEF Distinct
    <3> QED BY <2>1, <3>4 DEF Distinct
  <2> QED BY <2>2, <2>3
<1>6. CASE Return
  BY <1>6 DEF Return, Distinct
<1>7. CASE \/ Expire \/ Poll \/ MonitorDone \/ MonitorReturns
           \/ PrimariesDone \/ CloseResults \/ Returned \/ UNCHANGED vars
  BY <1>7 DEF Expire, Poll, MonitorDone, MonitorReturns, PrimariesDone,
              CloseResults, Returned, vars, Distinct
<1> QED
  BY <1>1, <1>2, <1>3, <1>4, <1>5, <1>6, <1>7 DEF Next, HedgeStep, Visit

AnswerInv == Inv /\ Sends /\ Answering

LEMMA AnswerInvAlways == Spec => []AnswerInv
<1>1. Init => AnswerInv BY InvInit, SendsInit, AnsweringInit DEF AnswerInv
<1>2. AnswerInv /\ [Next]_vars => AnswerInv'
  BY InvStep, SendsStep, AnsweringStep DEF AnswerInv
<1> QED BY <1>1, <1>2, PTL DEF Spec

\* For any carriers and premiums the answer is sorted by premium, ties by
\* carrier id, and has one quote per carrier.
THEOREM AnswersAreSorted == Spec => []ReturnedSorted
<1>1. Init => ReturnedSorted BY DEF Init, ReturnedSorted
<1>2. AnswerInv /\ ReturnedSorted /\ [Next]_vars => ReturnedSorted'
  <2> SUFFICES ASSUME AnswerInv, ReturnedSorted, [Next]_vars PROVE ReturnedSorted'
    OBVIOUS
  <2>1. CASE Return
    <3>1. returned' = Sorted(collected) BY <2>1 DEF Return
    <3>2. collected \in Seq(Result) /\ Distinct(collected) BY DEF AnswerInv, Answering
    <3> QED BY <3>1, <3>2, SortedIsInOrder DEF ReturnedSorted, Cheaper
  <2>2. CASE ~Return
    <3>1. UNCHANGED returned
      BY <2>2 DEF Next, PrimaryStep, HedgeStep, Visit, Filter, Limiter, Execute,
                  SendPrimary, HedgeAnswers, SendHedge, Skip, Fire, Expire, Poll,
                  MonitorDone, MonitorReturns, PrimariesDone, CloseResults,
                  Collect, Returned, vars
    <3> QED BY <3>1 DEF ReturnedSorted, Cheaper
  <2> QED BY <2>1, <2>2
<1> QED BY <1>1, <1>2, AnswerInvAlways, PTL DEF Spec

----------------------------------------------------------------------------
(* FanOut implements FanOutContract.                                        *)

\* Every carrier in a sequence of quotes has a first quote there: the prefixes
\* that end in one of its quotes are finite sets of positions, so one of them
\* contains no other.
LEMMA FirstExists ==
  ASSUME NEW s \in Seq(Result), NEW i \in 1 .. Len(s)
  PROVE  \E q \in FirstOf(s) : q.carrier = s[i].carrier
<1> DEFINE I == {j \in 1 .. Len(s) : s[j].carrier = s[i].carrier}
           T == {1 .. j : j \in I}
<1>1. Len(s) \in Nat OBVIOUS
<1>2. \A j \in I : IsFiniteSet(1 .. j)
  <2>1. \A j \in I : 1 \in Int /\ j \in Int BY <1>1
  <2> QED BY <2>1, FS_Interval, Zenon
<1>3. T \subseteq FiniteSubsetsOf(Nat) /\ T # {}
  <2>1. \A j \in I : 1 .. j \subseteq Nat BY <1>1
  <2>2. i \in I OBVIOUS
  <2> QED BY <1>2, <2>1, <2>2 DEF FiniteSubsetsOf
<1>4. PICK m \in I : \A j \in I : <<1 .. j, 1 .. m>> \notin StrictSubsetOrdering(Nat)
  <2>1. \E x \in T : \A y \in T : ~ (<<y, x>> \in StrictSubsetOrdering(Nat))
    <3> HIDE DEF T
    <3> QED BY <1>3, FS_StrictSubsetOrderingWellFounded, WFMin, Zenon
  <2> QED BY <2>1
<1>5. ASSUME NEW j \in I, j < m PROVE FALSE
  <2>1. j \in Nat /\ m \in Nat BY <1>1
  <2>2. 1 .. j \subseteq 1 .. m /\ 1 .. j # 1 .. m /\ 1 .. m \subseteq Nat
    BY <1>5, <2>1
  <2> QED BY <1>4, <2>2 DEF StrictSubsetOrdering
<1>6. IsFirst(s, m) BY <1>5 DEF IsFirst
<1> QED BY <1>6 DEF FirstOf

LEMMA FirstOfAppend ==
  ASSUME NEW s \in Seq(Result), NEW r \in Result
  PROVE  FirstOf(Append(s, r)) =
           IF \E q \in FirstOf(s) : q.carrier = r.carrier THEN FirstOf(s)
           ELSE FirstOf(s) \cup {r}
<1> DEFINE t == Append(s, r)
           n == Len(s)
<1>1. /\ n \in Nat /\ Len(t) = n + 1 /\ t[n + 1] = r
      /\ \A i \in 1 .. n : t[i] = s[i]
  OBVIOUS
<1>2. \A i \in 1 .. n : IsFirst(t, i) <=> IsFirst(s, i)
  BY <1>1 DEF IsFirst
<1>3. IsFirst(t, n + 1) <=> \A i \in 1 .. n : s[i].carrier # r.carrier
  BY <1>1 DEF IsFirst
<1>4. (\E i \in 1 .. n : s[i].carrier = r.carrier)
        <=> \E q \in FirstOf(s) : q.carrier = r.carrier
  BY FirstExists DEF FirstOf
<1>5. 1 .. Len(t) = 1 .. n \cup {n + 1} BY <1>1
<1> HIDE DEF t, n
<1>6. FirstOf(t) = {s[i] : i \in {j \in 1 .. n : IsFirst(s, j)}}
                     \cup (IF IsFirst(t, n + 1) THEN {r} ELSE {})
  BY <1>1, <1>2, <1>5 DEF FirstOf
<1> QED BY <1>3, <1>4, <1>6 DEF FirstOf, t, n

\* A quote of a carrier seen before can be dropped.
LEMMA FirstOfDrop ==
  ASSUME NEW c \in Seq(Result), NEW r \in Seq(Result), r # <<>>,
         \E i \in 1 .. Len(c) : c[i].carrier = r[1].carrier
  PROVE  FirstOf(c \o Tail(r)) = FirstOf(c \o r)
<1> DEFINE s == c \o r
           t == c \o Tail(r)
           n == Len(c)
<1>1. /\ n \in Nat /\ Len(s) = n + Len(r) /\ Len(t) = n + Len(r) - 1
      /\ Len(r) \in Nat \ {0}
      /\ \A i \in 1 .. n : s[i] = c[i] /\ t[i] = c[i]
      /\ s[n + 1] = r[1]
      /\ \A i \in n + 1 .. Len(t) : t[i] = s[i + 1]
  OBVIOUS
<1> HIDE DEF s, t, n
<1>2. PICK k \in 1 .. n : s[k].carrier = s[n + 1].carrier BY <1>1 DEF n
<1>3. ASSUME NEW i \in 1 .. n PROVE IsFirst(t, i) <=> IsFirst(s, i)
  <2>1. \A j \in 1 .. Len(s) : j < i => j \in 1 .. Len(t) /\ t[j] = s[j]
    BY <1>1, SMTT(30)
  <2>2. \A j \in 1 .. Len(t) : j < i => j \in 1 .. Len(s) /\ t[j] = s[j]
    BY <1>1
  <2>3. t[i] = s[i] BY <1>1
  <2>4. ASSUME IsFirst(s, i) PROVE IsFirst(t, i) BY <2>2, <2>3, <2>4 DEF IsFirst
  <2>5. ASSUME IsFirst(t, i) PROVE IsFirst(s, i) BY <2>1, <2>3, <2>5 DEF IsFirst
  <2> QED BY <2>4, <2>5
<1>4. ~IsFirst(s, n + 1) BY <1>1, <1>2 DEF IsFirst
<1>5. ASSUME NEW i \in n + 1 .. Len(t) PROVE IsFirst(t, i) <=> IsFirst(s, i + 1)
  <2>1. ASSUME IsFirst(s, i + 1), NEW j \in 1 .. Len(t), j < i
        PROVE  t[j].carrier # t[i].carrier
    <3>1. CASE j <= n BY <1>1, <1>5, <2>1, <3>1 DEF IsFirst
    <3>2. CASE j > n
      <4>1. j \in n + 1 .. Len(t) /\ j + 1 \in 1 .. Len(s) /\ j + 1 < i + 1
        BY <1>1, <1>5, <2>1, <3>2
      <4> QED BY <1>1, <1>5, <2>1, <4>1 DEF IsFirst
    <3> QED BY <1>1, <3>1, <3>2
  <2>2. ASSUME IsFirst(t, i), NEW j \in 1 .. Len(s), j < i + 1
        PROVE  s[j].carrier # s[i + 1].carrier
    <3>1. CASE j <= n
      <4>1. j \in 1 .. Len(t) /\ j < i /\ t[j] = s[j] BY <1>1, <1>5, <2>2, <3>1
      <4> QED BY <1>1, <1>5, <2>2, <4>1 DEF IsFirst
    <3>2. CASE j = n + 1
      <4>1. k \in 1 .. Len(t) /\ k < i /\ t[k] = s[k] BY <1>1, <1>2, <1>5
      <4> QED BY <1>1, <1>2, <1>5, <2>2, <3>2, <4>1 DEF IsFirst
    <3>3. CASE j > n + 1
      <4>1. j - 1 \in n + 1 .. Len(t) /\ j - 1 < i /\ t[j - 1] = s[j]
        <5>1. j - 1 \in n + 1 .. Len(t) BY <1>1, <2>2, <3>3, SMTT(30)
        <5> QED BY <1>1, <1>5, <2>2, <3>3, <5>1
      <4> QED BY <1>1, <1>5, <2>2, <4>1 DEF IsFirst
    <3> QED BY <1>1, <3>1, <3>2, <3>3
  <2> QED BY <2>1, <2>2 DEF IsFirst
<1>6. FirstOf(t) \subseteq FirstOf(s)
  <2> SUFFICES ASSUME NEW i \in 1 .. Len(t), IsFirst(t, i) PROVE t[i] \in FirstOf(s)
    BY DEF FirstOf
  <2>1. CASE i <= n BY <1>1, <1>3, <2>1 DEF FirstOf
  <2>2. CASE i > n
    <3>1. i \in n + 1 .. Len(t) /\ i + 1 \in 1 .. Len(s) BY <1>1, <2>2, SMTT(30)
    <3> QED BY <1>1, <1>5, <3>1 DEF FirstOf
  <2> QED BY <1>1, <2>1, <2>2
<1>7. FirstOf(s) \subseteq FirstOf(t)
  <2> SUFFICES ASSUME NEW i \in 1 .. Len(s), IsFirst(s, i) PROVE s[i] \in FirstOf(t)
    BY DEF FirstOf
  <2>1. CASE i <= n BY <1>1, <1>3, <2>1 DEF FirstOf
  <2>2. CASE i > n
    <3>1. i # n + 1 BY <1>4
    <3>2. i - 1 \in n + 1 .. Len(t) /\ i - 1 + 1 = i BY <1>1, <2>2, <3>1
    <3>3. IsFirst(t, i - 1) /\ t[i - 1] = s[i] BY <1>1, <1>5, <3>2
    <3>4. i - 1 \in 1 .. Len(t) BY <1>1, <3>2
    <3> QED BY <3>3, <3>4 DEF FirstOf
  <2> QED BY <1>1, <2>1, <2>2
<1> QED BY <1>6, <1>7 DEF s, t

LEMMA FirstOfDistinct ==
  ASSUME NEW s \in Seq(Result), Distinct(s)
  PROVE  FirstOf(s) = {s[i] : i \in 1 .. Len(s)}
<1>1. \A i \in 1 .. Len(s) : IsFirst(s, i) BY DEF Distinct, IsFirst
<1> QED BY <1>1 DEF FirstOf

\* What FanOutContract sees of a state, for the steps it does not see.
Unseen == UNCHANGED <<eligible, expired, Due, FirstOf(Sent), main, returned>>

LEMMA Unnoticed == ASSUME Unseen PROVE UNCHANGED Contract!vars
BY DEF Unseen, Contract!vars

\* Sent grows by what one sender hands over.
LEMMA SentGrows ==
  ASSUME AnswerInv, NEW r \in Result, results' = Append(results, r), collected' = collected
  PROVE  Sent \in Seq(Result) /\ Sent' = Append(Sent, r)
BY DEF AnswerInv, Sends, Answering, Sent

\* Collecting a quote moves it, or drops one that does not count.
LEMMA CollectKeepsFirst ==
  ASSUME AnswerInv, Collect
  PROVE  FirstOf(Sent)' = FirstOf(Sent)
<1>1. /\ results \in Seq(Result) /\ results # <<>> /\ collected \in Seq(Result)
      /\ results' = Tail(results) /\ Head(results) = results[1]
  BY DEF AnswerInv, Collect, Sends, Answering
<1>2. FirstOf(Sent)' = FirstOf(collected' \o results') BY DEF Sent, FirstOf, IsFirst
<1>3. CASE Duplicate(Head(results))
  <2>1. collected' = collected BY <1>3 DEF Collect
  <2>2. \E i \in 1 .. Len(collected) : collected[i].carrier = results[1].carrier
    BY <1>1, <1>3 DEF Duplicate, Seen
  <2>3. FirstOf(collected \o Tail(results)) = FirstOf(collected \o results)
    BY <1>1, <2>2, FirstOfDrop
  <2> QED BY <1>1, <1>2, <2>1, <2>3 DEF Sent
<1>4. CASE ~Duplicate(Head(results))
  <2>1. collected' = Append(collected, Head(results)) BY <1>4 DEF Collect
  <2>2. Append(collected, Head(results)) \o Tail(results) = collected \o results
    BY <1>1
  <2> QED BY <1>1, <1>2, <2>1, <2>2 DEF Sent
<1> QED BY <1>3, <1>4

LEMMA OffersDiffer ==
  ASSUME NEW c \in Carriers, NEW d \in Carriers
  PROVE  /\ PrimaryOffer(c) # HedgeOffer(d)
         /\ c # d => PrimaryOffer(c) # PrimaryOffer(d) /\ HedgeOffer(c) # HedgeOffer(d)
BY DEF PrimaryOffer, HedgeOffer, PrimaryResult, HedgeResult

LEMMA OffersKnown ==
  ASSUME AnswerInv, NEW c \in Carriers
  PROVE  /\ PrimaryResult(c) \in Result /\ HedgeResult(c) \in Result
         /\ PrimaryOffer(c) \in Offers /\ HedgeOffer(c) \in Offers
<1>1. target[c] \in Carriers BY DEF AnswerInv, Sends
<1> QED
  BY <1>1, FanOutConstants
     DEF FanOutConstants, PrimaryOffer, HedgeOffer, PrimaryResult, HedgeResult,
         Offers, Amounts, Result

\* A select { results <- r, done } hands an offer over or loses it.
LEMMA SendImplements ==
  ASSUME AnswerInv, NEW o \in Offers, o.quote \in Result, NEW done, Send(o.quote, done),
         done => expired \/ \A d \in Due : d.quote.hedged,
         o \in Due, Due' = Due \ {o},
         UNCHANGED <<main, eligible, expired, collected, returned>>
  PROVE  Contract!Next
<1>1. CASE results' = Append(results, o.quote)
  <2>1. Sent \in Seq(Result) /\ Sent' = Append(Sent, o.quote) BY <1>1, SentGrows
  <2>2. FirstOf(Sent)' = IF \E q \in FirstOf(Sent) : q.carrier = o.quote.carrier
                         THEN FirstOf(Sent) ELSE FirstOf(Sent) \cup {o.quote}
    <3>1. FirstOf(Sent)' = FirstOf(Append(Sent, o.quote)) BY <2>1 DEF FirstOf, IsFirst
    <3> QED BY <2>1, <3>1, FirstOfAppend
  <2>3. Contract!HandOver(o) BY <2>2 DEF Contract!HandOver, Contract!Counted
  <2> QED BY <2>3 DEF Contract!Next
<1>2. CASE done /\ UNCHANGED results
  <2>1. FirstOf(Sent)' = FirstOf(Sent) BY <1>2 DEF Sent, FirstOf, IsFirst
  <2>2. Contract!Lose(o) BY <1>2, <2>1 DEF Contract!Lose
  <2> QED BY <2>2 DEF Contract!Next
<1> QED BY <1>1, <1>2 DEF Send

LEMMA CallImplements ==
  ASSUME AnswerInv, NEW c \in Carriers, PrimaryStep(c) \/ HedgeStep(c)
  PROVE  [Contract!Next]_(Contract!vars)
<1> USE DEF AnswerInv, Inv, Positions
<1>0. UNCHANGED requestVars
  BY DEF PrimaryStep, HedgeStep, Limiter, Execute, SendPrimary, HedgeAnswers, SendHedge
<1>1. CASE Limiter(c) \/ (Execute(c) /\ primary'[c] # "send")
  <2>1. Due' = Due
    BY <1>1 DEF Limiter, Execute, Finish, Due, PrimaryOffer, HedgeOffer,
                PrimaryResult, HedgeResult
  <2>2. FirstOf(Sent)' = FirstOf(Sent)
    BY <1>1 DEF Limiter, Execute, Sent, FirstOf, IsFirst
  <2> QED BY <1>0, <2>1, <2>2, Unnoticed DEF Unseen
<1>2. CASE Execute(c) /\ primary'[c] = "send"
  <2>1. Due' = Due \cup {PrimaryOffer(c)}
    BY <1>2 DEF Execute, Finish, Due, PrimaryOffer, HedgeOffer,
                PrimaryResult, HedgeResult
  <2>2. FirstOf(Sent)' = FirstOf(Sent)
    BY <1>2 DEF Execute, Sent, FirstOf, IsFirst
  <2>3. c \in eligible /\ main # "returned"
    BY <1>2 DEF Execute, Handover, PrimariesOver
  <2>4. Contract!Obtain(PrimaryOffer(c))
    BY <1>0, <2>1, <2>2, <2>3 DEF Contract!Obtain, PrimaryOffer, PrimaryResult
  <2> QED BY <2>4, OffersKnown DEF Contract!Next
<1>3. CASE SendPrimary(c)
  <2>1. PrimaryOffer(c) \in Due BY <1>3 DEF SendPrimary, Due
  <2>2. Due' = Due \ {PrimaryOffer(c)}
    <3>1. UNCHANGED hedgeVars /\ \A d \in Carriers : primary'[d] = "send"
                                   <=> primary[d] = "send" /\ d # c
      BY <1>3 DEF SendPrimary
    <3>2. Due' = {PrimaryOffer(d) : d \in {e \in Carriers : primary[e] = "send" /\ e # c}}
                   \cup {HedgeOffer(d) : d \in {e \in Carriers : hedge[e] = "send"}}
      BY <3>1 DEF Due, PrimaryOffer, HedgeOffer, PrimaryResult, HedgeResult
    <3> QED BY <3>2, OffersDiffer DEF Due
  <2>3. Send(PrimaryOffer(c).quote, expired) BY <1>3 DEF SendPrimary, PrimaryOffer
  <2> QED
    BY <1>0, <2>1, <2>2, <2>3, OffersKnown, SendImplements DEF PrimaryOffer
<1>4. CASE HedgeAnswers(c) /\ hedge'[c] = "done"
  <2>1. Due' = Due
    BY <1>4 DEF HedgeAnswers, Due, PrimaryOffer, HedgeOffer, PrimaryResult, HedgeResult
  <2>2. FirstOf(Sent)' = FirstOf(Sent)
    BY <1>4 DEF HedgeAnswers, Sent, FirstOf, IsFirst
  <2> QED BY <1>0, <2>1, <2>2, Unnoticed DEF Unseen
<1>5. CASE HedgeAnswers(c) /\ hedge'[c] = "send"
  <2>1. Due' = Due \cup {HedgeOffer(c)}
    BY <1>5 DEF HedgeAnswers, Due, PrimaryOffer, HedgeOffer, PrimaryResult, HedgeResult
  <2>2. FirstOf(Sent)' = FirstOf(Sent)
    BY <1>5 DEF HedgeAnswers, Sent, FirstOf, IsFirst
  <2>3. c \in eligible /\ target[c] \in eligible /\ target[c] # c /\ main # "returned"
    BY <1>5 DEF HedgeAnswers, Handover, HedgesOver, Sends, Answering
  <2>4. Contract!Obtain(HedgeOffer(c))
    BY <1>0, <2>1, <2>2, <2>3 DEF Contract!Obtain, HedgeOffer, HedgeResult
  <2> QED BY <2>4, OffersKnown DEF Contract!Next
<1>6. CASE SendHedge(c)
  <2>1. HedgeOffer(c) \in Due BY <1>6 DEF SendHedge, Due
  <2>2. Due' = Due \ {HedgeOffer(c)}
    <3>1. UNCHANGED <<primary, target>> /\ \A d \in Carriers : hedge'[d] = "send"
                                   <=> hedge[d] = "send" /\ d # c
      BY <1>6 DEF SendHedge
    <3>2. Due' = {PrimaryOffer(d) : d \in {e \in Carriers : primary[e] = "send"}}
                   \cup {HedgeOffer(d) : d \in {e \in Carriers : hedge[e] = "send" /\ e # c}}
      BY <3>1 DEF Due, PrimaryOffer, HedgeOffer, PrimaryResult, HedgeResult
    <3> QED BY <3>2, OffersDiffer DEF Due
  <2>3. Send(HedgeOffer(c).quote, HedgeCtxDone) BY <1>6 DEF SendHedge, HedgeOffer
  <2>4. closer \in {"drain", "done"} => \A d \in Due : d.quote.hedged
    BY DEF Handover, PrimariesOver, Due, HedgeOffer, HedgeResult
  <2> QED
    BY <1>0, <2>1, <2>2, <2>3, <2>4, OffersKnown, SendImplements
       DEF HedgeOffer, HedgeCtxDone
<1>7. HedgeAnswers(c) => hedge'[c] \in {"send", "done"} BY DEF HedgeAnswers
<1> QED
  BY <1>1, <1>2, <1>3, <1>4, <1>5, <1>6, <1>7 DEF PrimaryStep, HedgeStep

LEMMA MainImplements ==
  ASSUME AnswerInv, Expire \/ Filter \/ Collect \/ Return
  PROVE  [Contract!Next]_(Contract!vars)
<1> USE DEF AnswerInv, Inv, Positions
<1>1. CASE Expire
  <2>1. UNCHANGED <<Due, FirstOf(Sent)>>
    BY <1>1 DEF Expire, Due, PrimaryOffer, HedgeOffer, PrimaryResult, HedgeResult,
                Sent, FirstOf, IsFirst
  <2>2. Contract!Expire BY <1>1, <2>1 DEF Expire, Contract!Expire
  <2> QED BY <2>2 DEF Contract!Next
<1>2. CASE Filter
  <2>1. Due = {} /\ Due' = {}
    <3>1. \A c \in Carriers : primary[c] # "send" /\ primary'[c] # "send"
      BY <1>2 DEF Filter, Handover, PrimariesOver
    <3>2. \A c \in Carriers : hedge[c] # "send" /\ hedge'[c] # "send"
      BY <1>2 DEF Filter, Sends
    <3> QED BY <3>1, <3>2 DEF Due
  <2>2. UNCHANGED FirstOf(Sent) BY <1>2 DEF Filter, Sent, FirstOf, IsFirst
  <2>3. eligible' \subseteq Covers BY <1>2 DEF Filter
  <2>4. Contract!Ask
    BY <1>2, <2>1, <2>2, <2>3 DEF Filter, Answering, Contract!Ask
  <2> QED BY <2>4 DEF Contract!Next
<1>3. CASE Collect
  <2>1. UNCHANGED <<eligible, expired, main, returned, Due>>
    BY <1>3 DEF Collect, Due, PrimaryOffer, HedgeOffer, PrimaryResult, HedgeResult
  <2> QED BY <1>3, <2>1, CollectKeepsFirst, Unnoticed DEF Unseen
<1>4. CASE Return
  <2>1. Due = {} /\ UNCHANGED Due
    <3>1. \A c \in Carriers : primary[c] # "send" /\ hedge[c] # "send"
      BY <1>4 DEF Return, closed, Handover, PrimariesOver, HedgesOver
    <3> QED BY <1>4, <3>1 DEF Return, Due
  <2>2. /\ collected \in Seq(Result) /\ Distinct(collected) /\ results = <<>>
        /\ returned' = Sorted(collected)
    BY <1>4 DEF Return, Answering
  <2>3. Sent = collected BY <2>2 DEF Sent
  <2>4. FirstOf(Sent) = {collected[i] : i \in 1 .. Len(collected)}
    BY <2>2, <2>3, FirstOfDistinct
  <2>5. UNCHANGED FirstOf(Sent) BY <1>4 DEF Return, Sent, FirstOf, IsFirst
  <2>6. Len(returned') = Len(collected) BY <2>2, SortedIsInOrder
  <2>7. {returned'[i] : i \in 1 .. Len(returned')} = FirstOf(Sent)
    BY <2>2, <2>4, <2>6, SortedIsInOrder, ZenonT(60)
  <2>8. \A i, j \in 1 .. Len(returned') : i < j => Cheaper(returned'[i], returned'[j])
    BY <2>2, <2>6, SortedIsInOrder
  <2>9. Contract!InOrder(returned')
    BY <2>7, <2>8 DEF Contract!InOrder, Contract!Before, Cheaper
  <2>10. Contract!Answer
    BY <1>4, <2>1, <2>5, <2>9 DEF Return, Answering, Contract!Answer
  <2> QED BY <2>10 DEF Contract!Next
<1> QED BY <1>1, <1>2, <1>3, <1>4

\* FanOut implements FanOutContract for any set of carriers: the goroutines,
\* the channel and the hedges only ever show as offers obtained, handed over or
\* lost, and the sorted answer holds exactly the first quote of each carrier.
THEOREM ImplementsContract == Spec => AnswersByContract
<1>1. Init => Contract!Init
  BY DEF Init, Contract!Init, Due, Sent, FirstOf
<1>2. AnswerInv /\ [Next]_vars => [Contract!Next]_(Contract!vars)
  <2> SUFFICES ASSUME AnswerInv, [Next]_vars PROVE [Contract!Next]_(Contract!vars)
    OBVIOUS
  <2>1. ASSUME NEW c \in Carriers, Visit(c) PROVE [Contract!Next]_(Contract!vars)
    <3>1. UNCHANGED <<requestVars, callVars, results>>
      BY <2>1 DEF Visit, Skip, Fire
    <3>2. \A d \in Carriers : /\ hedge'[d] = "send" <=> hedge[d] = "send"
                              /\ hedge[d] = "send" => target'[d] = target[d]
      BY <2>1 DEF Visit, Skip, Fire, EndVisit, AnswerInv, Inv, Positions, Sends
    <3>3. Due' = Due
      BY <3>1, <3>2 DEF Due, PrimaryOffer, HedgeOffer, PrimaryResult, HedgeResult
    <3>4. FirstOf(Sent)' = FirstOf(Sent) BY <3>1 DEF Sent, FirstOf, IsFirst
    <3> QED BY <3>1, <3>3, <3>4, Unnoticed DEF Unseen
  <2>2. CASE \/ Poll \/ MonitorDone \/ MonitorReturns \/ PrimariesDone
             \/ CloseResults \/ Returned \/ UNCHANGED vars
    <3>1. UNCHANGED <<requestVars, callVars, hedgeVars, results>>
      BY <2>2 DEF Poll, MonitorDone, MonitorReturns, PrimariesDone, CloseResults,
                  Returned, vars
    <3>2. Due' = Due /\ FirstOf(Sent)' = FirstOf(Sent)
      BY <3>1 DEF Due, PrimaryOffer, HedgeOffer, PrimaryResult, HedgeResult,
                  Sent, FirstOf, IsFirst
    <3> QED BY <3>1, <3>2, Unnoticed DEF Unseen
  <2> QED BY <2>1, <2>2, CallImplements, MainImplements DEF Next
<1> QED
  BY <1>1, <1>2, AnswerInvAlways, PTL DEF Spec, AnswersByContract, Contract!Spec

----------------------------------------------------------------------------
(* No success is lost and no quote comes from nowhere: where the successes  *)
(* are, and where the quotes that count come from.                          *)

Source(k) ==
  \/ outcome[k] = "success"
  \/ \E d \in Carriers : hedge[d] # "none" /\ target[d] = k /\ d # k

CountedCarriers == {q.carrier : q \in FirstOf(Sent)}

Accounted ==
  /\ outcome \in [Carriers -> Outcomes \union {"none"}]
  /\ \A c \in Carriers : primary[c] = "send" => outcome[c] = "success"
  /\ \A c \in Carriers : outcome[c] = "success" => primary[c] \in {"send", "done"}
  /\ \A c \in Carriers :
       ~expired /\ outcome[c] = "success" => primary[c] = "send" \/ c \in CountedCarriers
  /\ \A k \in CountedCarriers : Source(k)
  /\ main = "returned" => Answers = CountedCarriers

LEMMA AccountedInit == ASSUME Init PROVE Accounted
<1>1. CountedCarriers = {} BY DEF Init, CountedCarriers, Sent, FirstOf
<1> QED BY <1>1 DEF Init, Accounted

LEMMA SendCountsFirst ==
  ASSUME AnswerInv, NEW r \in Result, NEW done, Send(r, done), collected' = collected
  PROVE  /\ CountedCarriers \subseteq CountedCarriers'
         /\ CountedCarriers' \subseteq CountedCarriers \cup {r.carrier}
         /\ ~done => r.carrier \in CountedCarriers'
<1>1. CASE results' = Append(results, r)
  <2>1. Sent \in Seq(Result) /\ Sent' = Append(Sent, r) BY <1>1, SentGrows
  <2>2. FirstOf(Sent)' = FirstOf(Append(Sent, r)) BY <2>1 DEF FirstOf, IsFirst
  <2>3. FirstOf(Sent)' = IF \E q \in FirstOf(Sent) : q.carrier = r.carrier
                         THEN FirstOf(Sent) ELSE FirstOf(Sent) \cup {r}
    BY <2>1, <2>2, FirstOfAppend
  <2>4. CountedCarriers' = {q.carrier : q \in FirstOf(Sent)'} BY DEF CountedCarriers
  <2> QED BY <2>3, <2>4 DEF CountedCarriers
<1>2. CASE done /\ UNCHANGED results
  BY <1>2 DEF CountedCarriers, Sent, FirstOf, IsFirst
<1> QED BY <1>1, <1>2 DEF Send

LEMMA AccountedStep ==
  ASSUME AnswerInv, Accounted, [Next]_vars PROVE Accounted'
<1> USE DEF AnswerInv, Inv, Positions, Accounted
<1>a. UNCHANGED Sent => UNCHANGED CountedCarriers
  BY DEF CountedCarriers, FirstOf, IsFirst
<1>1. CASE Filter
  <2>1. UNCHANGED <<outcome, expired, collected, results, returned, hedgeVars>>
    BY <1>1 DEF Filter
  <2>2. UNCHANGED CountedCarriers BY <1>a, <2>1 DEF Sent
  <2>3. \A c \in Carriers : outcome[c] # "success"
    BY <1>1 DEF Filter, Handover, PrimariesOver, Answering
  <2>4. returned' = <<>> /\ CountedCarriers = {}
    BY <1>1, <2>1 DEF Filter, Answering, Sends, CountedCarriers, Sent, FirstOf
  <2>5. \A c \in Carriers : primary'[c] # "send" BY <1>1 DEF Filter
  <2>6. Answers' = {} BY <2>4 DEF Answers
  <2> QED BY <2>1, <2>2, <2>3, <2>4, <2>5, <2>6
<1>2. ASSUME NEW c \in Carriers, Limiter(c) \/ Execute(c) PROVE Accounted'
  <2>1. UNCHANGED <<main, expired, collected, results, returned, hedgeVars>>
    BY <1>2 DEF Limiter, Execute
  <2>2. UNCHANGED CountedCarriers /\ UNCHANGED Answers
    BY <1>a, <2>1 DEF Sent, Answers
  <2>3. primary[c] \in {"limiter", "execute"} BY <1>2 DEF Limiter, Execute
  <2>4. PICK p \in {"execute", "send", "done"}, o \in Outcomes \union {"none"} :
           /\ primary' = [primary EXCEPT ![c] = p]
           /\ outcome' = [outcome EXCEPT ![c] = o]
           /\ p = "send" <=> o = "success"
    BY <1>2 DEF Limiter, Execute, Finish, Outcomes
  <2>5. outcome[c] # "success" BY <2>3
  <2>6. \A k : Source(k) => Source(k)' BY <2>1, <2>4, <2>5 DEF Source
  <2> QED BY <2>1, <2>2, <2>4, <2>5, <2>6
<1>3. ASSUME NEW c \in Carriers, SendPrimary(c) PROVE Accounted'
  <2>1. /\ UNCHANGED <<main, expired, collected, returned, hedgeVars, outcome>>
        /\ primary[c] = "send" /\ primary' = [primary EXCEPT ![c] = "done"]
        /\ Send(PrimaryResult(c), expired)
    BY <1>3 DEF SendPrimary
  <2>2. PrimaryResult(c) \in Result /\ PrimaryResult(c).carrier = c
    BY OffersKnown DEF PrimaryResult
  <2>3. /\ CountedCarriers \subseteq CountedCarriers'
        /\ CountedCarriers' \subseteq CountedCarriers \cup {c}
        /\ ~expired => c \in CountedCarriers'
    BY <2>1, <2>2, SendCountsFirst
  <2>4. \A k : Source(k)' <=> Source(k) BY <2>1 DEF Source
  <2>5. Source(c) BY <2>1 DEF Source
  <2>6. main # "returned" BY <2>1 DEF Handover, PrimariesOver
  <2> QED BY <2>1, <2>3, <2>4, <2>5, <2>6
<1>4. ASSUME NEW c \in Carriers, SendHedge(c) PROVE Accounted'
  <2>1. /\ UNCHANGED <<main, expired, collected, returned, target, callVars>>
        /\ hedge[c] = "send" /\ hedge' = [hedge EXCEPT ![c] = "done"]
        /\ Send(HedgeResult(c), HedgeCtxDone)
    BY <1>4 DEF SendHedge
  <2>2. HedgeResult(c) \in Result /\ HedgeResult(c).carrier = target[c]
    BY OffersKnown DEF HedgeResult
  <2>3. /\ CountedCarriers \subseteq CountedCarriers'
        /\ CountedCarriers' \subseteq CountedCarriers \cup {target[c]}
    BY <2>1, <2>2, SendCountsFirst
  <2>4. \A k : Source(k)' <=> Source(k) BY <2>1 DEF Source
  <2>5. Source(target[c]) BY <2>1 DEF Source, Answering
  <2>6. main # "returned" BY <2>1 DEF Handover, HedgesOver
  <2> QED BY <2>1, <2>3, <2>4, <2>5, <2>6
<1>5. ASSUME NEW c \in Carriers, HedgeAnswers(c) \/ Visit(c) PROVE Accounted'
  <2>1. UNCHANGED <<requestVars, callVars, results>>
    BY <1>5 DEF HedgeAnswers, Visit, Skip, Fire
  <2>2. UNCHANGED CountedCarriers /\ UNCHANGED Answers
    BY <1>a, <2>1 DEF Sent, Answers
  <2>3. \A d \in Carriers : hedge[d] # "none" => hedge'[d] # "none" /\ target'[d] = target[d]
    BY <1>5, ZenonT(60) DEF HedgeAnswers, Visit, Skip, Fire, EndVisit, Sends
  <2>4. \A k : Source(k) => Source(k)' BY <2>1, <2>3 DEF Source
  <2> QED BY <2>1, <2>2, <2>4
<1>6. CASE Collect
  <2>1. /\ UNCHANGED <<callVars, hedgeVars, main, expired>> /\ main # "returned"
    BY <1>6 DEF Collect
  <2>2. UNCHANGED CountedCarriers BY <1>6, CollectKeepsFirst DEF CountedCarriers
  <2>3. \A k : Source(k)' <=> Source(k) BY <2>1 DEF Source
  <2> QED BY <2>1, <2>2, <2>3
<1>7. CASE Return
  <2>1. UNCHANGED <<callVars, hedgeVars, expired, results, collected>>
    BY <1>7 DEF Return
  <2>2. UNCHANGED CountedCarriers BY <1>a, <2>1 DEF Sent
  <2>3. /\ collected \in Seq(Result) /\ Distinct(collected) /\ results = <<>>
        /\ returned' = Sorted(collected)
    BY <1>7 DEF Return, Answering
  <2>4. Sent = collected BY <2>3 DEF Sent
  <2>5. CountedCarriers = {collected[i].carrier : i \in 1 .. Len(collected)}
    BY <2>3, <2>4, FirstOfDistinct DEF CountedCarriers
  <2>6. /\ Len(returned') = Len(collected)
        /\ {returned'[i] : i \in 1 .. Len(collected)}
             = {collected[i] : i \in 1 .. Len(collected)}
    BY <2>3, SortedIsInOrder, ZenonT(60)
  <2>7. Answers' = CountedCarriers
    <3>1. Answers' = {q.carrier : q \in {returned'[i] : i \in 1 .. Len(collected)}}
      BY <2>6 DEF Answers
    <3>2. Answers' = {q.carrier : q \in {collected[i] : i \in 1 .. Len(collected)}}
      BY <2>6, <3>1
    <3>3. {q.carrier : q \in {collected[i] : i \in 1 .. Len(collected)}}
            = {collected[i].carrier : i \in 1 .. Len(collected)}
      OBVIOUS
    <3> QED BY <2>5, <3>2, <3>3
  <2>8. \A k : Source(k)' <=> Source(k) BY <2>1 DEF Source
  <2> QED BY <2>1, <2>2, <2>7, <2>8
<1>8. CASE \/ Expire \/ Poll \/ MonitorDone \/ MonitorReturns
           \/ PrimariesDone \/ CloseResults \/ Returned \/ UNCHANGED vars
  <2>1. UNCHANGED <<callVars, hedgeVars, main, results, collected, returned>>
        /\ (expired => expired')
    BY <1>8 DEF Expire, Poll, MonitorDone, MonitorReturns, PrimariesDone,
                CloseResults, Returned, vars
  <2>2. UNCHANGED CountedCarriers /\ UNCHANGED Answers
    BY <1>a, <2>1 DEF Sent, Answers
  <2>3. \A k : Source(k)' <=> Source(k) BY <2>1 DEF Source
  <2> QED BY <2>1, <2>2, <2>3
<1> QED
  BY <1>1, <1>2, <1>3, <1>4, <1>5, <1>6, <1>7, <1>8 DEF Next, PrimaryStep, HedgeStep

\* For any carriers: before the deadline every carrier that succeeded is in the
\* answer, and whoever is in the answer succeeded or was hedged to.
THEOREM NoAnswerLost == Spec => []AnswersAreComplete
<1>1. Init => Accounted BY AccountedInit
<1>2. AnswerInv /\ Accounted /\ [Next]_vars => Accounted' BY AccountedStep
<1>3. AnswerInv /\ Accounted => AnswersAreComplete
  <2> SUFFICES ASSUME AnswerInv, Accounted, main = "returned"
               PROVE  /\ ~expired => {c \in Carriers : outcome[c] = "success"} \subseteq Answers
                      /\ \A c \in Answers : \/ outcome[c] = "success"
                                            \/ \E d \in Hedged : target[d] = c /\ d # c
    BY DEF AnswersAreComplete
  <2>1. \A c \in Carriers : primary[c] # "send"
    BY DEF AnswerInv, Inv, Handover, PrimariesOver
  <2> QED BY <2>1 DEF Accounted, Source, Hedged
<1> QED BY <1>1, <1>2, <1>3, AnswerInvAlways, PTL DEF Spec
=============================================================================
