------------------------------- MODULE FanOut -------------------------------
(* One Orchestrator.fanOut (internal/orchestrator/orchestrator.go) with the *)
(* goroutines it starts: one callCarrier per eligible carrier, hedgeMonitor *)
(* and the hedges it fires (hedging.go), the goroutine that closes the      *)
(* results channel, and the collecting loop of fanOut itself.               *)
(*                                                                          *)
(* A carrier is its position in o.carriers, and carrier ids sort the same   *)
(* way. What the limiter, the breaker and the carrier answer is             *)
(* nondeterministic here: other requests share them. Time is the deadline   *)
(* of reqCtx, which may pass at any moment, and the set of carriers that    *)
(* have waited longer than their hedge threshold.                           *)
EXTENDS Integers, Sequences, FiniteSets

CONSTANTS
  Carriers,      \* a set of naturals
  Covers,        \* those whose Capabilities meet the requested lines
  Registered,    \* those with an adapter in the registry
  Warm,          \* those whose tracker is past warm-up: a finite threshold
  P95,           \* tracker.P95() of each carrier when the fan-out starts
  Priority,      \* Config.Priority of each carrier
  Premium,       \* what each carrier quotes to the primary call...
  HedgePremium   \* ... and to a hedge

ASSUME FanOutConstants ==
  /\ Carriers \subseteq Nat /\ IsFiniteSet(Carriers)
  /\ Covers \subseteq Carriers
  /\ Registered \subseteq Carriers
  /\ Warm \subseteq Carriers
  /\ P95 \in [Carriers -> Nat] /\ Priority \in [Carriers -> Nat]
  /\ Premium \in [Carriers -> Nat] /\ HedgePremium \in [Carriers -> Nat]

VARIABLES
  main,      \* fanOut itself: "filter", "collect", "returned"
  eligible,  \* what filterEligibleCarriers kept
  expired,   \* reqCtx is done: its deadline passed or its parent was cancelled
  primary,   \* where each callCarrier is
  outcome,   \* the status of its RecordQuote
  mon,       \* hedgeMonitor: "off", "select", "scan", "drain", "done"
  late,      \* the carriers past their hedge threshold when the ticker fired
  toVisit,   \* what is left of the scan over pending
  hedge,     \* where the hedge each carrier triggered is
  target,    \* the carrier that hedge goes to
  closer,    \* the closing goroutine: "off", "wait", "drain", "done"
  results,   \* the buffered channel
  collected, \* the results kept so far, in order of arrival
  returned   \* the slice fanOut returns

requestVars == <<main, eligible, expired, collected, returned>>
callVars == <<primary, outcome>>
monVars == <<mon, late, toVisit>>
hedgeVars == <<hedge, target>>
vars == <<requestVars, callVars, monVars, hedgeVars, closer, results>>

\* "failed" stands for what classifyError tells apart: circuit_open, timeout, error.
Outcomes == {"success", "rate_limited", "failed"}

\* A hedge goes out with an empty RequestID, "none" here.
Result == [carrier : Carriers, amount : Nat, hedged : BOOLEAN,
           requestID : {"req", "none"}]

TypeOK ==
  /\ main \in {"filter", "collect", "returned"}
  /\ eligible \subseteq Carriers
  /\ expired \in BOOLEAN
  /\ primary \in [Carriers -> {"off", "limiter", "execute", "send", "done"}]
  /\ outcome \in [Carriers -> Outcomes \union {"none"}]
  /\ mon \in {"off", "select", "scan", "drain", "done"}
  /\ late \subseteq Carriers
  /\ toVisit \subseteq Carriers
  /\ hedge \in [Carriers -> {"none", "calling", "send", "done"}]
  /\ target \in [Carriers -> Carriers]
  /\ closer \in {"off", "wait", "drain", "done"}
  /\ results \in Seq(Result)
  /\ collected \in Seq(Result)
  /\ returned \in Seq(Result)

Init ==
  /\ main = "filter"
  /\ eligible = {}
  /\ expired = FALSE
  /\ primary = [c \in Carriers |-> "off"]
  /\ outcome = [c \in Carriers |-> "none"]
  /\ mon = "off"
  /\ late = {}
  /\ toVisit = {}
  /\ hedge = [c \in Carriers |-> "none"]
  /\ target = [c \in Carriers |-> c]
  /\ closer = "off"
  /\ results = <<>>
  /\ collected = <<>>
  /\ returned = <<>>

----------------------------------------------------------------------------
(* Contexts and the results channel                                         *)

\* gCtx is cancelled with reqCtx and when g.Wait returns, hedgeCtx with gCtx.
HedgeCtxDone == expired \/ closer \in {"drain", "done"}

closed == closer = "done"

\* Mutant: one slot per carrier, none for the hedges.
CapacityPerCarrier == Cardinality(eligible)

Capacity == 2 * Cardinality(eligible)

\* select { case results <- r: case <-ctx.Done(): }, at random if both can go.
Send(r, done) ==
  \/ Len(results) < Capacity /\ results' = Append(results, r)
  \/ done /\ UNCHANGED results

\* The deadline passes, or the client goes away (a request without an id).
Expire ==
  /\ main = "collect"
  /\ ~expired
  /\ expired' = TRUE
  /\ UNCHANGED <<callVars, monVars, hedgeVars, main, eligible, closer,
                 results, collected, returned>>

----------------------------------------------------------------------------
(* fanOut up to the collecting loop                                         *)

\* filterEligibleCarriers: some breakers read Open just now. With nobody left
\* fanOut returns an empty slice, otherwise it starts its goroutines.
Filter ==
  /\ main = "filter"
  /\ \E open \in SUBSET Carriers : eligible' = Covers \ open
  /\ LET start == eligible' # {} IN
       /\ main' = IF start THEN "collect" ELSE "returned"
       /\ primary' = [c \in Carriers |->
                        IF c \in eligible' THEN "limiter" ELSE "off"]
       /\ mon' = IF start THEN "select" ELSE "off"
       /\ closer' = IF start THEN "wait" ELSE "off"
  /\ UNCHANGED <<hedgeVars, expired, outcome, late, toVisit, results,
                 collected, returned>>

----------------------------------------------------------------------------
(* callCarrier                                                              *)

Finish(c, status) ==
  /\ primary' = [primary EXCEPT ![c] = "done"]
  /\ outcome' = [outcome EXCEPT ![c] = status]

\* The registry lookup, then limiter.Wait: a token, or an error when the
\* context is done or its deadline is too near.
Limiter(c) ==
  /\ primary[c] = "limiter"
  /\ \/ c \notin Registered /\ Finish(c, "none")
     \/ /\ c \in Registered
        /\ \/ Finish(c, "rate_limited")
           \/ /\ primary' = [primary EXCEPT ![c] = "execute"]
              /\ UNCHANGED outcome
  /\ UNCHANGED <<requestVars, monVars, hedgeVars, closer, results>>

\* breaker.Execute: rejected, or the carrier answers or fails. A success is
\* recorded before the result is sent.
Execute(c) ==
  /\ primary[c] = "execute"
  /\ \/ Finish(c, "failed")
     \/ /\ primary' = [primary EXCEPT ![c] = "send"]
        /\ outcome' = [outcome EXCEPT ![c] = "success"]
  /\ UNCHANGED <<requestVars, monVars, hedgeVars, closer, results>>

PrimaryResult(c) == [carrier |-> c, amount |-> Premium[c], hedged |-> FALSE,
                     requestID |-> "req"]

\* Mutant: a send that does not wait, and drops the result whenever it likes.
SendPrimaryOrDrop(c) ==
  /\ primary[c] = "send"
  /\ Send(PrimaryResult(c), TRUE)
  /\ primary' = [primary EXCEPT ![c] = "done"]
  /\ UNCHANGED <<requestVars, monVars, hedgeVars, outcome, closer>>

SendPrimary(c) ==
  /\ primary[c] = "send"
  /\ Send(PrimaryResult(c), expired)
  /\ primary' = [primary EXCEPT ![c] = "done"]
  /\ UNCHANGED <<requestVars, monVars, hedgeVars, outcome, closer>>

----------------------------------------------------------------------------
(* hedgeMonitor                                                             *)

Hedged == {c \in Carriers : hedge[c] # "none"}

\* The ticker fires: the scan covers every pending carrier that has no hedge
\* yet, and pending never shrinks. With none left the monitor drains.
Poll ==
  /\ mon = "select"
  /\ toVisit' = eligible \ Hedged
  /\ mon' = IF toVisit' = {} THEN "drain" ELSE "scan"
  /\ \E l \in SUBSET (eligible \intersect Warm) : late \subseteq l /\ late' = l
  /\ UNCHANGED <<requestVars, callVars, hedgeVars, closer, results>>

\* Mutant: the monitor's select does not watch its context.
MonitorDoneNever == FALSE

MonitorDone ==
  /\ mon = "select"
  /\ HedgeCtxDone
  /\ mon' = "drain"
  /\ UNCHANGED <<requestVars, callVars, hedgeVars, late, toVisit, closer,
                 results>>

\* selectHedgeCandidate (module HedgeSelect): lowest p95, then Priority, then
\* the first in the slice.
Beats(a, b) ==
  \/ P95[a] < P95[b]
  \/ P95[a] = P95[b] /\ Priority[a] < Priority[b]
  \/ P95[a] = P95[b] /\ Priority[a] = Priority[b] /\ a < b

Best(S) == {a \in S : \A b \in S \ {a} : Beats(a, b)}

EndVisit(c) ==
  /\ mon = "scan"
  /\ c \in toVisit
  /\ toVisit' = toVisit \ {c}
  /\ mon' = IF toVisit' = {} THEN "select" ELSE "scan"

\* Below the threshold, no candidate left, or the candidate's limiter empty.
Skip(c) ==
  /\ EndVisit(c)
  /\ UNCHANGED <<requestVars, callVars, hedgeVars, late, closer, results>>

HedgeCandidates(c) == (eligible \intersect Registered) \ {c}

Fire(c) ==
  /\ EndVisit(c)
  /\ c \in late
  /\ \E open \in SUBSET Carriers :
       \E to \in Best(HedgeCandidates(c) \ open) :
          target' = [target EXCEPT ![c] = to]
  /\ hedge' = [hedge EXCEPT ![c] = "calling"]
  /\ UNCHANGED <<requestVars, callVars, late, closer, results>>

\* The hedge goroutine calls the adapter past limiter and breaker.
HedgeAnswers(c) ==
  /\ hedge[c] = "calling"
  /\ \E to \in {"send", "done"} : hedge' = [hedge EXCEPT ![c] = to]
  /\ UNCHANGED <<requestVars, callVars, monVars, target, closer, results>>

HedgeResult(c) == [carrier |-> target[c], amount |-> HedgePremium[target[c]],
                   hedged |-> TRUE, requestID |-> "none"]

\* Mutant: the hedge, too, drops its result whenever it likes.
SendHedgeOrDrop(c) ==
  /\ hedge[c] = "send"
  /\ Send(HedgeResult(c), TRUE)
  /\ hedge' = [hedge EXCEPT ![c] = "done"]
  /\ UNCHANGED <<requestVars, callVars, monVars, target, closer>>

SendHedge(c) ==
  /\ hedge[c] = "send"
  /\ Send(HedgeResult(c), HedgeCtxDone)
  /\ hedge' = [hedge EXCEPT ![c] = "done"]
  /\ UNCHANGED <<requestVars, callVars, monVars, target, closer>>

\* Mutant: the monitor returns without hedgeWg.Wait.
MonitorReturnsEarly ==
  /\ mon = "drain"
  /\ mon' = "done"
  /\ UNCHANGED <<requestVars, callVars, hedgeVars, late, toVisit, closer,
                 results>>

\* defer hedgeWg.Wait(), then close(hedgeDone).
MonitorReturns ==
  /\ mon = "drain"
  /\ \A c \in Carriers : hedge[c] \in {"none", "done"}
  /\ mon' = "done"
  /\ UNCHANGED <<requestVars, callVars, hedgeVars, late, toVisit, closer,
                 results>>

----------------------------------------------------------------------------
(* The closing goroutine, and the collecting loop                           *)

\* g.Wait returns, which cancels gCtx; hedgeCancel.
PrimariesDone ==
  /\ closer = "wait"
  /\ \A c \in eligible : primary[c] = "done"
  /\ closer' = "drain"
  /\ UNCHANGED <<requestVars, callVars, monVars, hedgeVars, results>>

\* <-hedgeDone, then close(results).
CloseResults ==
  /\ closer = "drain"
  /\ mon = "done"
  /\ closer' = "done"
  /\ UNCHANGED <<requestVars, callVars, monVars, hedgeVars, results>>

Seen(c) == \E i \in 1 .. Len(collected) : collected[i].carrier = c

Duplicate(r) == Seen(r.carrier)

Collect ==
  /\ main = "collect"
  /\ results # <<>>
  /\ results' = Tail(results)
  /\ collected' = IF Duplicate(Head(results)) THEN collected
                  ELSE Append(collected, Head(results))
  /\ UNCHANGED <<callVars, monVars, hedgeVars, main, eligible, expired,
                 closer, returned>>

Cheaper(r, s) ==
  \/ r.amount < s.amount
  \/ r.amount = s.amount /\ r.carrier < s.carrier

\* slices.SortFunc: s[i] goes where the elements up to it end; the order is
\* total once Collect has dropped the duplicates.
UpTo(s, i) == {j \in DOMAIN s : \/ Cheaper(s[j], s[i])
                                \/ j <= i /\ ~Cheaper(s[i], s[j])}

Place(s, i) == Cardinality(UpTo(s, i))

Sorted(s) == [p \in DOMAIN s |-> s[CHOOSE i \in DOMAIN s : Place(s, i) = p]]

\* The range loop ends when the channel is closed and drained; fanOut sorts
\* (and saves, see QuoteCache) and returns.
Return ==
  /\ main = "collect"
  /\ closed
  /\ results = <<>>
  /\ returned' = Sorted(collected)
  /\ main' = "returned"
  /\ UNCHANGED <<callVars, monVars, hedgeVars, eligible, expired, closer,
                 results, collected>>

Returned == main = "returned" /\ UNCHANGED vars

----------------------------------------------------------------------------

PrimaryStep(c) == Limiter(c) \/ Execute(c) \/ SendPrimary(c)
HedgeStep(c)   == HedgeAnswers(c) \/ SendHedge(c)
Visit(c)       == Skip(c) \/ Fire(c)

Next ==
  \/ Expire \/ Filter
  \/ \E c \in Carriers : PrimaryStep(c) \/ HedgeStep(c) \/ Visit(c)
  \/ Poll \/ MonitorDone \/ MonitorReturns
  \/ PrimariesDone \/ CloseResults \/ Collect \/ Return
  \/ Returned

Spec == Init /\ [][Next]_vars

(* The deadline comes; a wait for a token or a carrier is bound to end only *)
(* once its context is done; everything else is a runnable goroutine. The   *)
(* two ready cases of a select are chosen at random, so a monitor whose     *)
(* context is done does not poll for ever.                                  *)
Fairness ==
  /\ WF_vars(Expire) /\ WF_vars(Filter)
  /\ \A c \in Carriers : /\ WF_vars(expired /\ (Limiter(c) \/ Execute(c)))
                         /\ WF_vars(SendPrimary(c))
                         /\ WF_vars(HedgeCtxDone /\ HedgeAnswers(c))
                         /\ WF_vars(SendHedge(c))
                         /\ WF_vars(Visit(c))
  /\ SF_vars(MonitorDone) /\ WF_vars(MonitorReturns)
  /\ WF_vars(PrimariesDone) /\ WF_vars(CloseResults)
  /\ WF_vars(Collect) /\ WF_vars(Return)

FairSpec == Spec /\ Fairness

----------------------------------------------------------------------------
(* Properties                                                               *)

\* A send on a closed channel panics: results is closed only when no primary
\* and no hedge can send any more.
SendsPrecedeClose ==
  closed => \A c \in Carriers : /\ primary[c] \in {"off", "done"}
                                /\ hedge[c] \in {"none", "done"}

\* The buffer is large enough for every primary and every hedge: whoever is
\* about to send finds room, so no call ends up waiting on the collector.
SendsNeverBlock ==
  \A c \in Carriers :
    primary[c] = "send" \/ hedge[c] = "send" => Len(results) < Capacity

\* When fanOut returns, nothing it started is still running.
NothingOutlivesReturn ==
  main = "returned" => /\ \A c \in Carriers : /\ primary[c] \in {"off", "done"}
                                              /\ hedge[c] \in {"none", "done"}
                       /\ mon \in {"off", "done"}
                       /\ closer \in {"off", "done"}

\* The answer holds one quote per carrier, cheapest first, ties by carrier id.
ReturnedSorted ==
  \A i, j \in 1 .. Len(returned) :
    i < j => /\ Cheaper(returned[i], returned[j])
             /\ returned[i].carrier # returned[j].carrier

Answers == {returned[i].carrier : i \in 1 .. Len(returned)}

\* Before the deadline no quote is lost between a carrier's success and the
\* answer, and every quote in the answer comes from a carrier that succeeded
\* or from one that another carrier's hedge went to.
AnswersAreComplete ==
  main = "returned" =>
    /\ ~expired => {c \in Carriers : outcome[c] = "success"} \subseteq Answers
    /\ \A c \in Answers : \/ outcome[c] = "success"
                          \/ \E d \in Hedged : target[d] = c /\ d # c

\* fanOut returns, whatever the carriers do, once the deadline has passed.
Terminates == <>(main = "returned")

PrimaryOffer(c) == [by |-> c, quote |-> PrimaryResult(c)]
HedgeOffer(c)   == [by |-> c, quote |-> HedgeResult(c)]

Due == {PrimaryOffer(c) : c \in {d \in Carriers : primary[d] = "send"}}
         \union {HedgeOffer(c) : c \in {d \in Carriers : hedge[d] = "send"}}

\* The first quote of each carrier in a sequence of quotes.
IsFirst(s, i) == \A j \in 1 .. Len(s) : j < i => s[j].carrier # s[i].carrier
FirstOf(s)    == {s[i] : i \in {j \in 1 .. Len(s) : IsFirst(s, j)}}

\* What was sent: collected already, or still in the channel.
Sent == collected \o results

Amounts == {Premium[c] : c \in Carriers} \union {HedgePremium[c] : c \in Carriers}

Offers == [by : Carriers,
           quote : [carrier : Carriers, amount : Amounts, hedged : BOOLEAN,
                    requestID : {"req", "none"}]]

Contract == INSTANCE FanOutContract WITH
  Carriers <- Covers, asked <- eligible, due <- Due, quotes <- FirstOf(Sent),
  answered <- main = "returned", answer <- returned

\* With channel, closer, monitor and collector forgotten, fanOut answers as
\* FanOutContract says: whatever order primaries and hedges finish in, the
\* first quote of a carrier counts, none is lost before the deadline except a
\* hedge's, and none arrives after the answer.
AnswersByContract == Contract!Spec

(* What the documentation says and the code does not do.                    *)

\* README.md: "Once a carrier has run longer than 1.5 times that average" the
\* request goes to another: a hedge is fired for a call still in flight.
HedgesOnlyInFlight ==
  [][\A c \in Carriers : hedge[c] = "none" /\ hedge'[c] = "calling"
                           => primary[c] # "done"]_vars

\* domain/quote.go: "RequestID echoes the originating QuoteRequest.RequestID".
RequestIDEchoed ==
  \A i \in 1 .. Len(returned) : returned[i].requestID = "req"

\* docs/architecture.md: when the deadline passes "the carriers that already
\* answered are returned".
DeadlineKeepsAnswers ==
  main = "returned" =>
    {c \in Carriers : outcome[c] = "success"} \subseteq Answers

=============================================================================
