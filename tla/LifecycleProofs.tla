--------------------------- MODULE LifecycleProofs ---------------------------
(* Proofs about Lifecycle and the requests of Gateway, for any number of     *)
(* requests, any inputs, keys, limits and timeouts: who is inside, who has   *)
(* asked for what, and, further below, how long requests and drains can be   *)
(* under way.                                                                *)
EXTENDS Lifecycle, FiniteSetTheorems, TLAPS

PCs == {"idle", "auth", "key", "limit", "mux", "lookup", "quoting", "release", "audit",
        "done"}

\* What the proofs need to know of the types.
Shape ==
  /\ pc \in [Requests -> PCs]
  /\ input \in [Requests -> InputType \cup {NoInput}]
  /\ client \in [Requests -> Clients]
  /\ deadline \in [Requests -> 0 .. MaxTimeout]
  /\ sem \in Nat

Inside == {r \in Requests : pc[r] \in {"mux", "lookup", "quoting", "release"}}

\* Who has come past RequireAPIKey with a key is known by that key's id.
Known ==
  \A r \in Requests : pc[r] \in {"limit", "mux"} /\ ~SkipsAuth(r) =>
    input[r].token \in Keys /\ client[r] = KeyID[input[r].token]

\* Run has a result when it returns.
Exits == run # "returned" => result = "none"

Inv == Shape /\ SlotsBalance /\ Known /\ QuotesForClients /\ Exits

LEMMA InvInit == ASSUME Init PROVE Inv
<1> USE GatewayConfig DEF GatewayConfig, Init, GwInit
<1>1. Shape BY DEF Shape, PCs, Clients
<1>2. {r \in Requests : pc[r] \in {"mux", "lookup", "quoting", "release"}} = {} OBVIOUS
<1>3. SlotsBalance BY <1>2, FS_EmptySet DEF SlotsBalance
<1> QED BY <1>1, <1>3 DEF Inv, Known, QuotesForClients, Exits

----------------------------------------------------------------------------
(* The requests                                                             *)

\* What the steps of one request do to the semaphore.
LEMMA HandleSlots ==
  ASSUME Shape, NEW r \in Requests, Handle(r) \/ Arrive(r)
  PROVE  \/ Inside' = Inside /\ sem' = sem
         \/ r \notin Inside /\ Inside' = Inside \cup {r} /\ sem' = sem + 1
         \/ r \in Inside /\ Inside' = Inside \ {r} /\ sem' = sem - 1
<1> USE DEF Shape, PCs, Inside, Goto
<1>1. CASE Arrive(r) BY <1>1 DEF Arrive
<1>2. CASE Bypass(r) BY <1>2 DEF Bypass
<1>3. CASE CheckBudget(r) BY <1>3 DEF CheckBudget
<1>4. CASE Authenticate(r) BY <1>4 DEF Authenticate
<1>5. CASE Limit(r) BY <1>5 DEF Limit
<1>6. CASE Release(r) BY <1>6 DEF Release
<1>7. CASE ServeOther(r) BY <1>7 DEF ServeOther
<1>8. CASE Refuse(r) BY <1>8 DEF Refuse
<1>9. CASE StartQuotes(r) BY <1>9 DEF StartQuotes
<1>10. CASE Hit(r) BY <1>10 DEF Hit
<1>11. CASE Join(r) BY <1>11 DEF Join
<1>12. CASE EndQuotes(r) BY <1>12 DEF EndQuotes
<1>13. CASE Audit(r) BY <1>13 DEF Audit
<1> QED
  BY <1>1, <1>2, <1>3, <1>4, <1>5, <1>6, <1>7, <1>8, <1>9, <1>10, <1>11, <1>12, <1>13
     DEF Handle

LEMMA SlotsStep ==
  ASSUME Shape, SlotsBalance, NEW r \in Requests, Handle(r) \/ Arrive(r)
  PROVE  SlotsBalance' /\ sem' \in Nat
<1>1. IsFiniteSet(Inside)
  BY GatewayConfig, FS_Subset DEF GatewayConfig, Inside
<1>2. sem = Cardinality(Inside) BY DEF SlotsBalance, Inside
<1>3. sem' = Cardinality(Inside')
  BY <1>1, <1>2, HandleSlots, FS_AddElement, FS_RemoveElement DEF Shape
<1>4. IsFiniteSet(Inside')
  BY <1>1, HandleSlots, FS_AddElement, FS_RemoveElement
<1> QED BY <1>3, <1>4, FS_CardinalityType DEF SlotsBalance, Inside

LEMMA RequestStep ==
  ASSUME Inv, NEW r \in Requests, Handle(r) \/ Arrive(r)
  PROVE  Shape' /\ Known' /\ QuotesForClients'
<1> USE GatewayConfig DEF GatewayConfig, Inv, Shape, PCs, Known, QuotesForClients, Goto,
        SkipsAuth, Timeout
<1>0. sem' \in Nat BY SlotsStep
<1>1. CASE Arrive(r)
  <2>1. PICK i \in Inputs[r] : input' = [input EXCEPT ![r] = i] BY <1>1 DEF Arrive
  <2>2. i \in InputType OBVIOUS
  <2> QED BY <1>0, <1>1, <2>1, <2>2 DEF Arrive
<1>2. CASE Bypass(r) BY <1>0, <1>2 DEF Bypass
<1>3. CASE CheckBudget(r) BY <1>0, <1>3 DEF CheckBudget
<1>4. CASE Authenticate(r) BY <1>0, <1>4 DEF Authenticate, Clients
<1>5. CASE Limit(r) BY <1>0, <1>5 DEF Limit
<1>6. CASE Release(r) BY <1>0, <1>6 DEF Release
<1>7. CASE ServeOther(r) BY <1>0, <1>7 DEF ServeOther
<1>8. CASE Refuse(r) BY <1>0, <1>8 DEF Refuse
<1>9. CASE StartQuotes(r)
  <2>1. /\ input[r].path = "quotes" /\ Valid(input[r]) /\ pc[r] = "mux"
        /\ pc' = [pc EXCEPT ![r] = "lookup"]
        /\ UNCHANGED <<input, client, deadline, sem>>
    BY <1>9 DEF StartQuotes
  <2>2. input[r].timeout = 0 \/ input[r].timeout \in MinTimeout .. MaxTimeout
    BY <2>1 DEF Valid
  <2>3. Timeout(r) \in MinTimeout .. MaxTimeout BY <2>2
  <2>4. input[r].idOK /\ input[r].linesOK BY <2>1 DEF Valid
  <2>5. input[r].token \in Keys /\ client[r] = KeyID[input[r].token] BY <2>1
  <2>6. QuotesForClients' BY <2>1, <2>3, <2>4, <2>5
  <2> QED BY <2>1, <2>6
<1>10. CASE Hit(r) BY <1>0, <1>10 DEF Hit
<1>11. CASE Join(r)
  <2>1. /\ pc[r] = "lookup" /\ pc' = [pc EXCEPT ![r] = "quoting"]
        /\ deadline' = [deadline EXCEPT ![r] = Timeout(r)]
        /\ UNCHANGED <<input, client, sem>>
    BY <1>11 DEF Join
  <2>2. Timeout(r) \in MinTimeout .. MaxTimeout BY <2>1
  <2>3. Shape' BY <2>1, <2>2
  <2> QED BY <2>1, <2>3
<1>12. CASE EndQuotes(r) BY <1>0, <1>12 DEF EndQuotes
<1>13. CASE Audit(r) BY <1>0, <1>13 DEF Audit
<1> QED
  BY <1>1, <1>2, <1>3, <1>4, <1>5, <1>6, <1>7, <1>8, <1>9, <1>10, <1>11, <1>12, <1>13
     DEF Handle

----------------------------------------------------------------------------
(* Run                                                                      *)

LEMMA InvStep == ASSUME Inv, [Next]_vars PROVE Inv'
<1> USE DEF gwVars, reqVars, runVars, Step, Return
<1>1. ASSUME NEW r \in Requests, Handler(r) \/ Accept(r), run # "returned" PROVE Inv'
  <2>1. Shape' /\ Known' /\ QuotesForClients'
    BY <1>1, RequestStep DEF Handler, Accept
  <2>2. SlotsBalance' BY <1>1, SlotsStep DEF Handler, Accept, Inv
  <2>3. Exits' BY <1>1 DEF Handler, Accept, Inv, Exits
  <2> QED BY <2>1, <2>2, <2>3 DEF Inv
<1>2. ASSUME RunSteps \/ Signal \/ Serve, run # "returned" PROVE Inv'
  <2>1. UNCHANGED gwVars
    BY <1>2 DEF RunSteps, CheckKeys, Connect, Wire, Interrupted, ServerError, Drained,
                DrainExpires, EndShutdown, Signal, Serve
  <2>2. Shape' /\ SlotsBalance' /\ Known' /\ QuotesForClients'
    BY <2>1 DEF Inv, Shape, SlotsBalance, Known, QuotesForClients, SkipsAuth,
                      Timeout
  <2>3. Exits'
    <3> USE DEF Inv, Exits
    <3>1. CASE CheckKeys \/ Connect \/ Wire BY <1>2, <3>1 DEF CheckKeys, Connect, Wire
    <3>2. CASE Interrupted BY <1>2, <3>2 DEF Interrupted
    <3>3. CASE ServerError BY <1>2, <3>3 DEF ServerError
    <3>4. CASE Drained BY <1>2, <3>4 DEF Drained, EndShutdown
    <3>5. CASE DrainExpires BY <1>2, <3>5 DEF DrainExpires, EndShutdown
    <3>6. CASE Signal \/ Serve BY <1>2, <3>6 DEF Signal, Serve
    <3> QED BY <1>2, <3>1, <3>2, <3>3, <3>4, <3>5, <3>6 DEF RunSteps
  <2> QED BY <2>2, <2>3 DEF Inv
<1>3. ASSUME Tick, run # "returned" PROVE Inv'
  BY <1>3 DEF Tick, Wait, Inv, Shape, SlotsBalance, Known, QuotesForClients, SkipsAuth,
              Timeout, Exits
<1>4. CASE UNCHANGED vars
  BY <1>4 DEF vars, Inv, Shape, SlotsBalance, Known, QuotesForClients, SkipsAuth,
              Timeout, Exits
<1> QED BY <1>1, <1>2, <1>3, <1>4 DEF Next, Exited

LEMMA Invariance == Spec => []Inv
BY InvInit, InvStep, PTL DEF Spec

\* SlotsBalance: however requests end, LimitConcurrency loses no slot and gives
\* none back twice.
THEOREM SlotsAreBalanced == Spec => []SlotsBalance
<1>1. Inv => SlotsBalance BY DEF Inv
<1> QED BY Invariance, <1>1, PTL

\* QuotesForClients: GetQuotes is reached only by valid requests of clients.
THEOREM QuotesAreForClients == Spec => []QuotesForClients
<1>1. Inv => QuotesForClients BY DEF Inv
<1> QED BY Invariance, <1>1, PTL

----------------------------------------------------------------------------
(* Time: a request waits for a fan-out no longer than that may take, a       *)
(* follower no longer than its leader, and a drain is no older than a        *)
(* request it waits for and the grace for new connections.                   *)

Before == {"idle", "auth", "key", "limit", "mux", "lookup"}

Clocks ==
  /\ leader \in [Requests -> Requests]
  /\ spent \in [Requests -> 0 .. Horizon]
  /\ waited \in [Requests -> Nat]
  /\ delivered \in [Requests -> BOOLEAN]
  /\ drained \in 0 .. DrainWindow
  /\ run \notin {"shutdown", "returned"} => drained = 0

\* Leaders have led a fan-out, and wait for no one else's.
Sharing ==
  \A r \in Requests :
    /\ leader[leader[r]] = leader[r]
    /\ pc[leader[r]] \in Before => leader[r] = r
    /\ pc[r] \in Before => leader[r] = r

AgeOf(r) ==
  /\ pc[r] \in Before => waited[r] = 0
  /\ waited[r] <= Longest(leader[r])
  /\ pc[r] = "quoting" /\ pc[leader[r]] = "quoting" => waited[r] <= waited[leader[r]]
  /\ Open(r) => drained <= Age(r) + NewConnGrace

Ages == \A r \in Requests : AgeOf(r)

Times == Clocks /\ Sharing /\ Ages

LEMMA TimesInit == ASSUME Init PROVE Times
BY GatewayConfig, LifecycleConfig
   DEF GatewayConfig, LifecycleConfig, Init, GwInit, Times, Clocks,
       Sharing, Ages, AgeOf, Before, Open, Longest

\* Most steps of a request move it on and touch neither clocks nor leaders.
LEMMA Moves ==
  ASSUME Shape, NEW r \in Requests, Handle(r), ~Join(r), ~Audit(r)
  PROVE  /\ UNCHANGED <<clocks, leader, deadline, delivered>>
         /\ pc' = [pc EXCEPT ![r] = pc'[r]]
         /\ pc[r] \notin {"idle", "done"} /\ pc'[r] \notin {"idle", "quoting", "done"}
         /\ pc'[r] \in Before => pc[r] \in Before
<1> USE DEF Shape, PCs, Before, Goto
<1>1. CASE Bypass(r) BY <1>1 DEF Bypass
<1>2. CASE CheckBudget(r) BY <1>2 DEF CheckBudget
<1>3. CASE Authenticate(r) BY <1>3 DEF Authenticate
<1>4. CASE Limit(r) BY <1>4 DEF Limit
<1>5. CASE Release(r) BY <1>5 DEF Release
<1>6. CASE ServeOther(r) BY <1>6 DEF ServeOther
<1>7. CASE Refuse(r) BY <1>7 DEF Refuse
<1>8. CASE StartQuotes(r) BY <1>8 DEF StartQuotes
<1>9. CASE Hit(r) BY <1>9 DEF Hit
<1>10. CASE EndQuotes(r) BY <1>10 DEF EndQuotes
<1> QED
  BY <1>1, <1>2, <1>3, <1>4, <1>5, <1>6, <1>7, <1>8, <1>9, <1>10 DEF Handle

\* A request starts or joins a fan-out.
LEMMA JoinTimes ==
  ASSUME Inv, Times, NEW r \in Requests, Join(r), UNCHANGED runVars
  PROVE  Times'
<1> USE GatewayConfig, LifecycleConfig DEF GatewayConfig, LifecycleConfig
<1>1. PICK u \in Requests : (u = r \/ Joins(r, u)) /\ leader' = [leader EXCEPT ![r] = u]
  BY DEF Join
<1>2. /\ pc[r] = "lookup" /\ pc' = [pc EXCEPT ![r] = "quoting"]
      /\ \A q \in Requests \ {r} : deadline'[q] = deadline[q]
      /\ UNCHANGED <<spent, waited, delivered>>
  BY DEF Join, Goto, Inv, Shape, clocks
<1>3. deadline' \in [Requests -> Nat] BY RequestStep DEF Handle, Shape
<1>4. pc \in [Requests -> PCs] BY DEF Inv, Shape
<1>5. leader[r] = r /\ waited[r] = 0 BY <1>2 DEF Times, Sharing, Ages, AgeOf, Before
<1>6. u = r \/ (u # r /\ pc[u] = "quoting" /\ leader[u] = u) BY <1>1 DEF Joins
<1>7. \A q \in Requests \ {r} : leader[q] # r /\ leader'[q] = leader[q] /\ pc'[q] = pc[q]
  BY <1>1, <1>2, <1>4 DEF Times, Sharing, Clocks, Before
<1>8. Clocks' BY <1>1, <1>2 DEF Times, Clocks, runVars
<1>9. Sharing' BY <1>1, <1>2, <1>4, <1>6, <1>7 DEF Times, Clocks, Sharing, Before, PCs
<1>10. Ages'
  <2> SUFFICES ASSUME NEW q \in Requests PROVE AgeOf(q)'
    BY DEF Ages
  <2>1. CASE q = r
    <3>1. leader'[r] = u /\ pc'[r] = "quoting" /\ waited'[r] = 0 /\ deadline'[u] \in Nat
      BY <1>1, <1>2, <1>3, <1>4, <1>5 DEF Times, Clocks
    <3>2. drained' <= Age(r)' + NewConnGrace /\ waited'[u] \in Nat
      BY <1>2 DEF Times, Clocks, Ages, AgeOf, Age, Open, runVars
    <3> QED BY <2>1, <3>1, <3>2 DEF AgeOf, Longest, Before
  <2>2. CASE q # r
    <3>1. /\ leader'[q] = leader[q] /\ leader[q] \in Requests \ {r} /\ pc'[q] = pc[q]
          /\ pc'[leader[q]] = pc[leader[q]] /\ deadline'[leader[q]] = deadline[leader[q]]
          /\ UNCHANGED <<spent, waited, drained>>
      BY <1>2, <1>7, <2>2 DEF Times, Clocks, runVars
    <3> QED BY <3>1 DEF Times, Ages, AgeOf, Age, Longest, Before, Open
  <2> QED BY <2>1, <2>2
<1> QED BY <1>8, <1>9, <1>10 DEF Times

LEMMA RequestTimes ==
  ASSUME Inv, Times, NEW r \in Requests, Handle(r), UNCHANGED runVars
  PROVE  Times'
<1> USE GatewayConfig, LifecycleConfig
    DEF GatewayConfig, LifecycleConfig, Inv, Shape, Times, Clocks, runVars
<1>1. CASE Join(r) BY <1>1, JoinTimes
<1>2. CASE Audit(r)
  <2>1. /\ pc[r] = "audit" /\ pc' = [pc EXCEPT ![r] = "done"]
        /\ spent' = [spent EXCEPT ![r] = 0] /\ waited' = [waited EXCEPT ![r] = 0]
        /\ UNCHANGED <<leader, deadline>>
        /\ delivered' = [delivered EXCEPT ![r] = Age(r) < WriteTimeout]
    BY <1>2 DEF Audit, Goto
  <2>2. \A q \in Requests : leader[q] \in Requests /\ Longest(leader[q]) \in Nat
    BY DEF Longest
  <2>3. Clocks'
    <3>1. (Age(r) < WriteTimeout) \in BOOLEAN OBVIOUS
    <3>2. delivered' \in [Requests -> BOOLEAN] BY <2>1, <3>1, Zenon
    <3> QED BY <2>1, <3>2
  <2>4. Sharing' BY <2>1 DEF Sharing, Before
  <2>5. Ages'
    BY <2>1, <2>2 DEF Ages, AgeOf, Age, Before, Open, Longest
  <2> QED BY <2>3, <2>4, <2>5
<1>3. CASE ~Join(r) /\ ~Audit(r)
  BY <1>3, Moves DEF clocks, Sharing, Ages, AgeOf, Age, Before, Open, Longest
<1> QED BY <1>1, <1>2, <1>3

LEMMA TickTimes == ASSUME Inv, Times, Tick PROVE Times'
<1> USE GatewayConfig, LifecycleConfig
    DEF GatewayConfig, LifecycleConfig, Inv, Shape, Times, Clocks
<1>1. /\ UNCHANGED <<pc, leader, deadline, delivered, run>>
      /\ spent' = [r \in Requests |->
           IF pc[r] \in {"mux", "lookup"} /\ spent[r] < Horizon THEN spent[r] + 1
           ELSE spent[r]]
      /\ waited' = [r \in Requests |->
           IF pc[r] = "quoting" THEN waited[r] + 1 ELSE waited[r]]
      /\ drained' = IF run = "shutdown" THEN drained + 1 ELSE drained
      /\ run = "shutdown" => drained < DrainWindow
      /\ run \in {"select", "shutdown"}
  BY DEF Tick, Wait
<1>2. \A r \in Requests : Open(r) => Waits(r)
  BY DEF Tick, Wait
<1>3. \A r \in Requests : leader[r] \in Requests /\ Longest(leader[r]) \in Nat
  BY DEF Longest
<1>4. Clocks' BY <1>1
<1>5. Sharing' BY <1>1 DEF Sharing
<1>6. Ages'
  <2> SUFFICES ASSUME NEW r \in Requests PROVE AgeOf(r)'
    BY DEF Ages
  <2> USE DEF Ages, AgeOf, Age
  <2>1. Longest(leader[r])' = Longest(leader[r]) /\ Open(r)' = Open(r)
    BY <1>1 DEF Longest, Open
  <2>2. CASE pc[r] \in {"mux", "lookup"}
    <3>1. waited'[r] = waited[r] /\ pc'[r] = pc[r] /\ leader' = leader
      BY <1>1, <2>2
    <3>2. /\ spent[r] < Horizon => spent'[r] = spent[r] + 1
          /\ ~(spent[r] < Horizon) => spent'[r] = spent[r]
      BY <1>1, <2>2
    <3>3. drained' <= Age(r)' + NewConnGrace
      BY <1>1, <2>2, <3>1, <3>2 DEF Open
    <3> QED BY <2>1, <2>2, <3>1, <3>3
  <2>3. CASE pc[r] = "quoting"
    <3>1. pc[leader[r]] = "quoting" /\ waited[leader[r]] < Longest(leader[r])
      BY <1>2, <2>3 DEF Open, Waits
    <3>2. /\ waited'[r] = waited[r] + 1 /\ waited'[leader[r]] = waited[leader[r]] + 1
          /\ spent'[r] = spent[r] /\ pc' = pc /\ leader' = leader
      BY <1>1, <1>3, <2>3, <3>1
    <3>3. waited[r] <= waited[leader[r]] BY <2>3, <3>1
    <3>4. drained' <= Age(r)' + NewConnGrace BY <1>1, <2>3, <3>2 DEF Open
    <3> QED BY <1>3, <2>1, <2>3, <3>1, <3>2, <3>3, <3>4 DEF Before
  <2>4. CASE ~Open(r)
    <3>1. /\ waited'[r] = waited[r] /\ pc'[r] = pc[r] /\ leader' = leader
          /\ pc[r] # "quoting"
      BY <1>1, <2>4 DEF Open
    <3> QED BY <2>1, <2>4, <3>1
  <2> QED BY <1>2, <2>2, <2>3, <2>4 DEF Waits
<1> QED BY <1>4, <1>5, <1>6

LEMMA TimesStep == ASSUME Inv, Times, [Next]_vars PROVE Times'
<1> USE GatewayConfig, LifecycleConfig DEF GatewayConfig, LifecycleConfig
<1>1. ASSUME NEW r \in Requests, Handler(r) PROVE Times'
  BY <1>1, RequestTimes DEF Handler
<1>2. ASSUME NEW r \in Requests, Accept(r) PROVE Times'
  <2>1. /\ pc[r] = "idle" /\ pc' = [pc EXCEPT ![r] = "auth"]
        /\ UNCHANGED <<spent, waited, leader, deadline, delivered, run, drained>>
        /\ drained <= NewConnGrace
    BY <1>2 DEF Accept, Arrive, Goto, clocks, runVars
  <2> QED
    BY <2>1 DEF Inv, Shape, Times, Clocks, Sharing, Ages, AgeOf, Age, Before, Open, Longest
<1>3. ASSUME RunSteps \/ Signal \/ Serve, run # "returned" PROVE Times'
  <2>1. UNCHANGED <<gwVars, drained>>
    BY <1>3 DEF RunSteps, CheckKeys, Connect, Wire, Interrupted, ServerError, Drained,
                DrainExpires, EndShutdown, Signal, Serve
  <2>2. run \in {"shutdown", "returned"} => run' \in {"shutdown", "returned"}
    BY <1>3 DEF RunSteps, CheckKeys, Connect, Wire, Interrupted, ServerError, Drained,
                DrainExpires, EndShutdown, Signal, Serve, Step, Return
  <2> QED
    BY <2>1, <2>2 DEF gwVars, reqVars, clocks, Times, Clocks, Sharing, Ages, AgeOf, Age,
                      Before, Open, Longest
<1>4. CASE Tick BY <1>4, TickTimes
<1>5. CASE UNCHANGED vars
  BY <1>5 DEF vars, gwVars, reqVars, clocks, runVars, Times, Clocks, Sharing, Ages, AgeOf,
              Age, Before, Open, Longest
<1> QED BY <1>1, <1>2, <1>3, <1>4, <1>5 DEF Next, Exited

\* A request is late at its end only, and cut off by DrainExpires only.
LEMMA LateIsAudited ==
  ASSUME Inv, Next, NEW r \in Requests, Late(r) PROVE Audit(r)
<1> USE DEF Late, Inv, Shape
<1>1. PICK q \in Requests : Handler(q) \/ Accept(q)
  BY DEF Next, RunSteps, CheckKeys, Connect, Wire, Interrupted, ServerError, Drained,
         DrainExpires, EndShutdown, Signal, Serve, Tick, Wait, Exited, vars, gwVars, reqVars
<1>2. ~Accept(q) BY DEF Accept, Arrive, Goto
<1>3. Handle(q) BY <1>1, <1>2 DEF Handler
<1>4. ~Join(q) BY DEF Join, Goto
<1>5. Audit(q) BY <1>3, <1>4, Moves
<1>6. q = r BY <1>5 DEF Audit, Goto
<1> QED BY <1>5, <1>6

LEMMA CutOffExpires ==
  ASSUME Next, NEW r \in Requests, CutOff(r) PROVE drained = DrainWindow
BY DEF Next, CutOff, RunSteps, CheckKeys, Connect, Wire, Interrupted, ServerError, Drained,
       DrainExpires, EndShutdown, Return, Signal, Serve, Tick, Wait, Exited, vars, runVars,
       Handler, Accept

\* OnlyLongRequestsSuffer: no request is answered after the write deadline or
\* cut off by a drain unless its body, its lookup and its fan-out took as long.
THEOREM LimitsAreEnough == Spec => OnlyLongRequestsSuffer
<1> DEFINE ByItself(r) ==
             /\ Late(r) => OwnTime(r) >= WriteTimeout
             /\ CutOff(r) => OwnTime(r) + NewConnGrace >= DrainWindow
<1> DEFINE OwnFault == \A r \in Requests : ByItself(r)
<1>1. Init => Inv /\ Times BY InvInit, TimesInit
<1>2. Inv /\ Times /\ [Next]_vars => Inv' /\ Times' BY InvStep, TimesStep
<1>3. ASSUME Inv, Times, [Next]_vars PROVE [OwnFault]_vars
  <2> SUFFICES ASSUME Next, NEW r \in Requests PROVE ByItself(r)
    BY <1>3
  <2>1. Longest(leader[r]) \in Nat /\ waited[r] \in Nat /\ spent[r] \in Nat
    BY <1>3, GatewayConfig DEF Longest, GatewayConfig, Inv, Shape, Times, Clocks
  <2>2. AgeOf(r) BY <1>3 DEF Times, Ages
  <2>3. Age(r) <= OwnTime(r) BY <2>1, <2>2 DEF AgeOf, Age, OwnTime
  <2>4. ASSUME Late(r) PROVE OwnTime(r) >= WriteTimeout
    <3>1. Audit(r) BY <1>3, <2>4, LateIsAudited
    <3>2. delivered'[r] = (Age(r) < WriteTimeout)
      BY <1>3, <3>1, Zenon DEF Audit, Times, Clocks
    <3>3. ~(Age(r) < WriteTimeout) BY <2>4, <3>2 DEF Late
    <3> QED BY <2>1, <2>3, <3>3, GatewayConfig DEF GatewayConfig, Age, OwnTime
  <2>5. ASSUME CutOff(r) PROVE OwnTime(r) + NewConnGrace >= DrainWindow
    <3>1. drained = DrainWindow BY <2>5, CutOffExpires
    <3> QED BY <2>1, <2>2, <2>3, <2>5, <3>1, LifecycleConfig
            DEF LifecycleConfig, AgeOf, Age, OwnTime, CutOff
  <2> QED BY <2>4, <2>5
<1> QED BY <1>1, <1>2, <1>3, PTL DEF Spec, OnlyLongRequestsSuffer
=============================================================================
