----------------------------- MODULE QuoteCache -----------------------------
(* Orchestrator.GetQuotes around the fan-out: the cache lookup, the         *)
(* singleflight group, the save at the end of fanOut, and the Quotes table  *)
(* behind QuoteRepo with the sweeps of cleanup.Ticker (Spanner mode).       *)
(*                                                                          *)
(* A request is one call of GetQuotes. What a fan-out finds is the set of   *)
(* carriers that answered; a quote is named by its carrier and by the       *)
(* request that led the fan-out it comes from. A row is live until its      *)
(* ExpiresAt, which may come at any time, carrier by carrier.               *)
(*                                                                          *)
(* API keys and request ids are sequences of characters, since what of them *)
(* a scoped key tells apart is a question of where one ends in it.          *)
EXTENDS Integers, FiniteSets, Sequences

CONSTANTS
  Requests,   \* calls of GetQuotes
  Chars,      \* the characters that occur
  IDLength,   \* how many characters of an API key its id keeps: 8
  Carriers,
  HolderOf,   \* the API key of a request...
  IDOf,       \* ... and its request_id
  Covering    \* the carriers that declare one of its coverage_lines

None == "none"
Colon == ":"
Dots == <<".", ".", ".">>

ASSUME QuoteCacheConstants ==
  /\ None \notin Requests
  /\ IDLength \in Nat
  /\ {Colon, "."} \subseteq Chars
  /\ HolderOf \in [Requests -> Seq(Chars) \ {<<>>}]
  /\ IDOf \in [Requests -> Seq(Chars) \ {<<>>}]
  /\ Covering \in [Requests -> SUBSET Carriers]

\* RequireAPIKey: a short key is its own id.
ClientID(k) ==
  IF Len(k) > IDLength THEN SubSeq(k, 1, IDLength) \o Dots ELSE k

Client(r) == ClientID(HolderOf[r])

\* Mutant: the key is the request id alone.
UnscopedKey == IDOf

\* req.ClientID + ":" + req.RequestID; Run drops empty keys, so no ClientID
\* is empty.
ScopedKey == [r \in Requests |-> Client(r) \o <<Colon>> \o IDOf[r]]

Keys == {ScopedKey[r] : r \in Requests}

VARIABLES
  pc,         \* where each request is
  calls,      \* the singleflight group: the request that leads the call of a key
  leader,     \* the request whose fan-out answers this one
  quotes,     \* the carriers that fan-out returned
  answer,     \* what GetQuotes returned: quotes, by carrier and fan-out
  rows,       \* the Quotes table
  saved       \* the requests whose Save has ended, well or not

vars == <<pc, calls, leader, quotes, answer, rows, saved>>

Quote == [carrier : Carriers, from : Requests]
Row   == [key : Keys, quote : Quote, live : BOOLEAN]

TypeOK ==
  /\ pc \in [Requests -> {"lookup", "join", "wait", "fanOut", "save", "finish",
                          "done"}]
  /\ calls \in [Keys -> Requests \union {None}]
  /\ leader \in [Requests -> Requests \union {None}]
  /\ quotes \in [Requests -> SUBSET Carriers]
  /\ answer \in [Requests -> SUBSET Quote]
  /\ rows \subseteq Row
  /\ saved \subseteq Requests

Init ==
  /\ pc = [r \in Requests |-> "lookup"]
  /\ calls = [k \in Keys |-> None]
  /\ leader = [r \in Requests |-> None]
  /\ quotes = [r \in Requests |-> {}]
  /\ answer = [r \in Requests |-> {}]
  /\ rows = {}
  /\ saved = {}

----------------------------------------------------------------------------
(* GetQuotes                                                                *)

Goto(r, from, to) == pc[r] = from /\ pc' = [pc EXCEPT ![r] = to]

Stored(k) == {x.quote : x \in {y \in rows : y.key = k /\ y.live}}

\* FindByRequestID: a hit returns whatever is live; a miss or an error goes on.
Lookup(r) ==
  /\ \/ /\ Stored(ScopedKey[r]) # {}
        /\ Goto(r, "lookup", "done")
        /\ answer' = [answer EXCEPT ![r] = Stored(ScopedKey[r])]
     \/ /\ Goto(r, "lookup", "join")
        /\ UNCHANGED answer
  /\ UNCHANGED <<calls, leader, quotes, rows, saved>>

\* Mutant: every request leads a fan-out of its own.
LeadAlways(r) ==
  /\ Goto(r, "join", "fanOut")
  /\ calls' = [calls EXCEPT ![ScopedKey[r]] = r]
  /\ leader' = [leader EXCEPT ![r] = r]
  /\ UNCHANGED <<quotes, answer, rows, saved>>

\* sfGroup.Do: the first caller for a key runs fanOut...
Lead(r) ==
  /\ calls[ScopedKey[r]] = None
  /\ Goto(r, "join", "fanOut")
  /\ calls' = [calls EXCEPT ![ScopedKey[r]] = r]
  /\ leader' = [leader EXCEPT ![r] = r]
  /\ UNCHANGED <<quotes, answer, rows, saved>>

\* ... and the others wait for it.
Follow(r) ==
  /\ calls[ScopedKey[r]] # None
  /\ Goto(r, "join", "wait")
  /\ leader' = [leader EXCEPT ![r] = calls[ScopedKey[r]]]
  /\ UNCHANGED <<calls, quotes, answer, rows, saved>>

\* Mutant: the answer is saved after it has been handed out.
RunFanOutUnsaved(r) ==
  /\ \E found \in SUBSET Covering[r] : quotes' = [quotes EXCEPT ![r] = found]
  /\ Goto(r, "fanOut", "finish")
  /\ UNCHANGED <<calls, leader, answer, rows, saved>>

\* fanOut (module FanOut) up to the save, which an empty answer skips. Primary
\* and hedge calls go to the carriers filterEligibleCarriers has kept.
RunFanOut(r) ==
  /\ \E found \in SUBSET Covering[r] :
       /\ quotes' = [quotes EXCEPT ![r] = found]
       /\ Goto(r, "fanOut", IF found = {} THEN "finish" ELSE "save")
  /\ UNCHANGED <<calls, leader, answer, rows, saved>>

Inserted(r) ==
  [key : {ScopedKey[r]}, quote : [carrier : quotes[r], from : {r}],
   live : {TRUE}]

Replaced(r) == {x \in rows : /\ x.key = ScopedKey[r]
                             /\ x.quote.carrier \in quotes[r]}

\* Mutant: an Insert under a key that has the fan-out in it, so that the quotes
\* of two fan-outs stay side by side.
SaveBeside(r) ==
  /\ Goto(r, "save", "finish")
  /\ rows' = rows \union Inserted(r)
  /\ saved' = saved \union {r}
  /\ UNCHANGED <<calls, leader, quotes, answer>>

\* repo.Save: InsertOrUpdate of every row in one commit, or an error that is
\* only logged.
Save(r) ==
  /\ Goto(r, "save", "finish")
  /\ \/ rows' = (rows \ Replaced(r)) \union Inserted(r)
     \/ UNCHANGED rows
  /\ saved' = saved \union {r}
  /\ UNCHANGED <<calls, leader, quotes, answer>>

Quotes(r) == [carrier : quotes[r], from : {r}]

\* singleflight removes the call and wakes the followers under its lock.
Finish(r) ==
  /\ Goto(r, "finish", "done")
  /\ answer' = [answer EXCEPT ![r] = Quotes(r)]
  /\ calls' = [calls EXCEPT ![ScopedKey[r]] = None]
  /\ UNCHANGED <<leader, quotes, rows, saved>>

\* Mutant: a follower is never woken once its leader has left the group.
WakeFromGroup(r) ==
  /\ Goto(r, "wait", "done")
  /\ calls[ScopedKey[r]] = leader[r]
  /\ pc[leader[r]] = "done"
  /\ answer' = [answer EXCEPT ![r] = Quotes(leader[r])]
  /\ UNCHANGED <<calls, leader, quotes, rows, saved>>

Wake(r) ==
  /\ Goto(r, "wait", "done")
  /\ pc[leader[r]] = "done"
  /\ answer' = [answer EXCEPT ![r] = Quotes(leader[r])]
  /\ UNCHANGED <<calls, leader, quotes, rows, saved>>

----------------------------------------------------------------------------
(* The Quotes table on its own                                              *)

Dead(x) == [key |-> x.key, quote |-> x.quote, live |-> FALSE]

Expire(x) ==
  /\ x.live
  /\ rows' = (rows \ {x}) \union {Dead(x)}
  /\ UNCHANGED <<pc, calls, leader, quotes, answer, saved>>

\* Ticker.sweep: the partitioned DELETE need not reach every row at once.
Sweep ==
  /\ \E dead \in SUBSET {x \in rows : ~x.live} :
        dead # {} /\ rows' = rows \ dead
  /\ UNCHANGED <<pc, calls, leader, quotes, answer, saved>>

AllDone == (\A r \in Requests : pc[r] = "done") /\ UNCHANGED vars

----------------------------------------------------------------------------

Step(r) == \/ Lookup(r) \/ Lead(r) \/ Follow(r) \/ RunFanOut(r) \/ Save(r)
           \/ Finish(r) \/ Wake(r)

Next == \/ \E r \in Requests : Step(r)
        \/ \E x \in rows : Expire(x)
        \/ Sweep
        \/ AllDone

Spec == Init /\ [][Next]_vars

\* From the lookup on, every step of GetQuotes is bounded by a timeout: the
\* fan-out's deadline (FanOut!Terminates) or the 3 seconds of saveCtx. The
\* lookup has none, and may take for ever.
FairSpec ==
  Spec /\ \A r \in Requests : WF_vars(pc[r] # "lookup" /\ Step(r))

----------------------------------------------------------------------------
(* Properties                                                               *)

\* From the entry of a call into the group until it leaves it.
InFlight == {"fanOut", "save", "finish"}

\* At any time at most one fan-out runs for a client and request id, and the
\* singleflight group names it.
OneFlightPerKey ==
  \A r \in Requests :
    pc[r] \in InFlight => calls[ScopedKey[r]] = r

HasColon(c) == \E i \in 1 .. Len(c) : c[i] = Colon

\* Client ids whose end in a scoped key cannot be mistaken: they are equally
\* long, as those of all keys longer than IDLength are, or have no colon.
Separable(c, d) == Len(c) = Len(d) \/ ~(HasColon(c) \/ HasColon(d))

\* Whatever path an answer takes (hit, fan-out, shared fan-out), its quotes
\* were obtained for the same client id and the same request id, whenever the
\* two client ids are Separable. API keys that begin alike have one client id.
AnswersAreOwn ==
  \A r \in Requests : \A q \in answer[r] :
    Separable(Client(q.from), Client(r)) =>
      Client(q.from) = Client(r) /\ IDOf[q.from] = IDOf[r]

\* No answer of a fan-out is handed out, to its leader or to a follower,
\* before the attempt to save it has ended: a retry finds what was saved.
SavedBeforeAnswered ==
  \A r \in Requests : \A q \in answer[r] : q.from \in saved

Contract == INSTANCE QuoteContract
              WITH KeyOf   <- ScopedKey,
                   running <- {r \in Requests : pc[r] \in InFlight},
                   follows <- leader,
                   found   <- quotes,
                   offered <- saved,
                   done    <- {r \in Requests : pc[r] = "done"}

\* Lookup, singleflight, saves that fail, expiry and sweeps together implement
\* QuoteContract: an answer is one whole fan-out that ran while its request
\* waited, or saved quotes of its key, and never two of a carrier.
AnswersByContract == Contract!Spec

\* Every request whose lookup returns is answered, whoever else is stuck in
\* one; followers do not wait for ever.
EveryoneAnswered == \A r \in Requests : pc[r] # "lookup" ~> pc[r] = "done"

(* What the documentation says and the code does not do.                    *)

\* docs/security.md: "two clients cannot read each other's cached quotes by
\* reusing a request_id". Keys that begin with the same IDLength characters
\* have one client id.
ClientsAreSeparate ==
  \A r \in Requests : \A q \in answer[r] : HolderOf[q.from] = HolderOf[r]

\* scopedKey: its key "prevents different API key holders from sharing or
\* stealing cached results". A short key may be another one, a colon and the
\* start of a request id.
ClientIDsAreSeparate ==
  \A r \in Requests : \A q \in answer[r] : Client(q.from) = Client(r)

\* README.md: "Carriers are selected by the coverage lines they declare": the
\* lines are not part of the key that answers are shared and found under.
AnswersFitLines ==
  \A r \in Requests : \A q \in answer[r] : q.carrier \in Covering[r]

\* ports.QuoteRepository: Save has "ON CONFLICT DO NOTHING semantics": a live
\* row is never replaced by the quote of another fan-out.
SaveKeepsLiveRows ==
  [][\A x \in rows : x.live =>
       \E y \in rows' : y.key = x.key /\ y.quote = x.quote]_vars

=============================================================================
