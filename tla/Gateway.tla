------------------------------- MODULE Gateway -------------------------------
(* A request's way through the middleware stack cli.Run builds and the       *)
(* handlers behind it (internal/middleware, internal/handler/http.go). Run   *)
(* itself, which starts and stops the server, is Lifecycle.                  *)
(*                                                                           *)
(* AuditLog -> SecurityHeaders -> RequireAPIKey -> LimitConcurrency -> mux   *)
(*                                                                           *)
(* What the failure limiter and GetQuotes answer are inputs here: AuthLimiter*)
(* and QuoteCache are about them. Time is discrete. A request takes time     *)
(* where it waits for somebody else: for its body, as long as the server's   *)
(* ReadTimeout allows; for the cache lookup, which has no deadline; and for  *)
(* a fan-out, its own or one it shares, as long as that one's timeout and    *)
(* the save allow. The rest, the writing of the answer included, takes none. *)
EXTENDS Integers, FiniteSets

CONSTANTS
  Requests,        \* identities of connections' requests
  Inputs,          \* from each of them to what it may carry, see InputType
  Outcomes,        \* what GetQuotes may return, see StatusOf
  KeyID,           \* from each configured API key to the id put in the context
  Limits,          \* the values of LimitConcurrency's max to consider
  MinTimeout, DefaultTimeout, MaxTimeout,   \* bounds of timeout_ms
  SaveTime,        \* the orchestrator's limit on Save
  ReadTimeout, WriteTimeout,   \* of http.Server
  Horizon          \* where the clock of a request stops

Keys == DOMAIN KeyID
NoKey == "no key"
NoClient == "no client"

\* request_id is told apart by its length and by its characters being legal,
\* coverage_lines by there being some and by their being known ones.
InputType ==
  [path : {"quotes", "health", "unknown"}, token : Keys \cup {NoKey},
   decodes : BOOLEAN, idOK : BOOLEAN, linesOK : BOOLEAN, timeout : Int]

ASSUME GatewayConfig ==
  /\ IsFiniteSet(Requests)
  /\ Inputs \in [Requests -> SUBSET InputType]
  /\ Limits \subseteq Nat
  /\ Outcomes \subseteq {"quotes", "nothing", "timeout", "error"}
  /\ {MinTimeout, DefaultTimeout, MaxTimeout, SaveTime, ReadTimeout, WriteTimeout,
      Horizon} \subseteq Nat
  /\ ReadTimeout <= Horizon /\ WriteTimeout <= Horizon
  /\ 0 < MinTimeout /\ MinTimeout <= DefaultTimeout /\ DefaultTimeout <= MaxTimeout

VARIABLES
  pc,        \* where each request is
  input,     \* what it carries
  client,    \* the client id in the context its handler sees
  deadline,  \* the timeout it asks of a fan-out
  spent,     \* time it took for its body and its lookup, up to its answer
  waited,    \* time it took in or for a fan-out, up to its answer
  status,    \* the status its handlers wrote
  logged,    \* what AuditLog logged
  delivered, \* the answer reached the connection
  leader,    \* the request whose fan-out it waits for in GetQuotes
  sem,       \* slots taken in LimitConcurrency's channel
  max        \* the capacity of that channel

clocks == <<spent, waited>>
reqVars == <<pc, input, client, deadline, clocks, status, logged, delivered, leader>>
gwVars == <<reqVars, sem, max>>

\* Before a request arrives.
NoInput == [path |-> "none", token |-> NoKey, decodes |-> FALSE, idOK |-> FALSE,
            linesOK |-> FALSE, timeout |-> 0]
NotLogged == [status |-> 0, client |-> NoClient]

Statuses == {0, 200, 400, 401, 404, 422, 429, 500, 503, 504}
Clients == {KeyID[k] : k \in Keys} \cup {NoClient}

GwTypeOK ==
  /\ pc \in [Requests -> {"idle", "auth", "key", "limit", "mux", "lookup",
                          "quoting", "release", "audit", "done"}]
  /\ \A r \in Requests : input[r] \in Inputs[r] \cup {NoInput}
  /\ client \in [Requests -> Clients]
  /\ deadline \in [Requests -> 0 .. MaxTimeout]
  /\ spent \in [Requests -> 0 .. Horizon]
  /\ waited \in [Requests -> 0 .. MaxTimeout + SaveTime]
  /\ status \in [Requests -> Statuses]
  /\ logged \in [Requests -> [status : Statuses, client : Clients]]
  /\ delivered \in [Requests -> BOOLEAN]
  /\ leader \in [Requests -> Requests]
  /\ max \in Limits
  /\ sem \in 0 .. max

GwInit ==
  /\ pc = [r \in Requests |-> "idle"]
  /\ input = [r \in Requests |-> NoInput]
  /\ client = [r \in Requests |-> NoClient]
  /\ deadline = [r \in Requests |-> 0]
  /\ spent = [r \in Requests |-> 0]
  /\ waited = [r \in Requests |-> 0]
  /\ status = [r \in Requests |-> 0]
  /\ logged = [r \in Requests |-> NotLogged]
  /\ delivered = [r \in Requests |-> FALSE]
  /\ leader = [r \in Requests |-> r]
  /\ sem = 0
  /\ max \in Limits

Open(r) == pc[r] \notin {"idle", "done"}

Goto(r, from, to) == pc[r] = from /\ pc' = [pc EXCEPT ![r] = to]

Answer(r, code) == status' = [status EXCEPT ![r] = code]

\* The server reads a request.
Arrive(r) ==
  /\ Goto(r, "idle", "auth")
  /\ \E i \in Inputs[r] : input' = [input EXCEPT ![r] = i]
  /\ UNCHANGED <<client, deadline, clocks, status, logged, delivered, leader, sem, max>>

----------------------------------------------------------------------------
(* RequireAPIKey. *)

\* skipPaths: /healthz, /readyz and /metrics.
SkipsAuth(r) == input[r].path = "health"

Bypass(r) ==
  /\ Goto(r, "auth", "limit")
  /\ SkipsAuth(r)
  /\ UNCHANGED <<input, client, deadline, clocks, status, logged, delivered, leader, sem, max>>

\* isExhausted: too many failures of this IP, or not.
CheckBudget(r) ==
  /\ ~SkipsAuth(r)
  /\ \/ Goto(r, "auth", "key") /\ UNCHANGED status
     \/ Goto(r, "auth", "audit") /\ Answer(r, 429)
  /\ UNCHANGED <<input, client, deadline, clocks, logged, delivered, leader, sem, max>>

\* The comparison with the keys.
Authenticate(r) ==
  /\ \/ /\ input[r].token \in Keys
        /\ Goto(r, "key", "limit")
        /\ client' = [client EXCEPT ![r] = KeyID[input[r].token]]
        /\ UNCHANGED status
     \/ /\ input[r].token \notin Keys
        /\ Goto(r, "key", "audit")
        /\ Answer(r, 401)
        /\ UNCHANGED client
  /\ UNCHANGED <<input, deadline, clocks, logged, delivered, leader, sem, max>>

----------------------------------------------------------------------------
(* LimitConcurrency. *)

\* Mutant: a request that finds no slot waits for one.
LimitBlocks(r) ==
  /\ sem < max /\ Goto(r, "limit", "mux") /\ sem' = sem + 1
  /\ UNCHANGED <<input, client, deadline, clocks, status, logged, delivered, leader, max>>

Limit(r) ==
  /\ \/ sem < max /\ Goto(r, "limit", "mux") /\ sem' = sem + 1 /\ UNCHANGED status
     \/ sem = max /\ Goto(r, "limit", "audit") /\ Answer(r, 503) /\ UNCHANGED sem
  /\ UNCHANGED <<input, client, deadline, clocks, logged, delivered, leader, max>>

\* Mutant: the slot is given back on success only.
ReleaseOnSuccess(r) ==
  /\ Goto(r, "release", "audit")
  /\ sem' = IF status[r] = 200 THEN sem - 1 ELSE sem
  /\ UNCHANGED <<input, client, deadline, clocks, status, logged, delivered, leader, max>>

\* defer func() { <-sem }()
Release(r) ==
  /\ Goto(r, "release", "audit")
  /\ sem' = sem - 1
  /\ UNCHANGED <<input, client, deadline, clocks, status, logged, delivered, leader, max>>

----------------------------------------------------------------------------
(* The routes. *)

\* Mutant: request_id is not looked at.
ValidAnyID(i) == i.linesOK /\ (i.timeout = 0 \/ i.timeout \in MinTimeout .. MaxTimeout)

\* validateQuoteRequest
Valid(i) == i.idOK /\ i.linesOK /\ (i.timeout = 0 \/ i.timeout \in MinTimeout .. MaxTimeout)

\* /healthz, /readyz without a database, /metrics; and what the mux refuses.
ServeOther(r) ==
  /\ Goto(r, "mux", "release")
  /\ \/ input[r].path = "health" /\ Answer(r, 200)
     \/ input[r].path = "unknown" /\ Answer(r, 404)
  /\ UNCHANGED <<input, client, deadline, clocks, logged, delivered, leader, sem, max>>

\* A body that does not arrive in time, decode, or validate.
Refuse(r) ==
  /\ Goto(r, "mux", "release")
  /\ input[r].path = "quotes"
  /\ spent[r] = ReadTimeout \/ ~(input[r].decodes /\ Valid(input[r]))
  /\ Answer(r, 400)
  /\ UNCHANGED <<input, client, deadline, clocks, logged, delivered, leader, sem, max>>

----------------------------------------------------------------------------
(* GetQuotes. *)

\* buildDomainRequest; the client id comes with the context.
StartQuotes(r) ==
  /\ Goto(r, "mux", "lookup")
  /\ input[r].path = "quotes"
  /\ input[r].decodes /\ Valid(input[r])
  /\ UNCHANGED <<input, client, deadline, clocks, status, logged, delivered, leader, sem, max>>

Hit(r) ==
  /\ Goto(r, "lookup", "release")
  /\ Answer(r, 200)
  /\ UNCHANGED <<input, client, deadline, clocks, logged, delivered, leader, sem, max>>

Timeout(r) == IF input[r].timeout <= 0 THEN DefaultTimeout ELSE input[r].timeout

\* r may have the scoped key of u, whose fan-out is running.
Joins(r, u) == u # r /\ pc[u] = "quoting" /\ leader[u] = u

\* A miss, or an error: r leads a fan-out, or joins one.
Join(r) ==
  /\ Goto(r, "lookup", "quoting")
  /\ deadline' = [deadline EXCEPT ![r] = Timeout(r)]
  /\ \E u \in Requests :
       /\ u = r \/ Joins(r, u)
       /\ leader' = [leader EXCEPT ![r] = u]
  /\ UNCHANGED <<input, client, clocks, status, logged, delivered, sem, max>>

\* The status the handler makes of what GetQuotes returns.
StatusOf(o) ==
  CASE o = "quotes"  -> 200
    [] o = "nothing" -> 422
    [] o = "timeout" -> 504
    [] o = "error"   -> 500

\* The status of a request whose GetQuotes has returned.
Outcome(r) == IF pc[r] = "done" THEN logged[r].status ELSE status[r]

EndQuotes(r) ==
  /\ Goto(r, "quoting", "release")
  /\ \/ leader[r] = r /\ \E o \in Outcomes : Answer(r, StatusOf(o))
     \/ leader[r] # r /\ pc[leader[r]] # "quoting" /\ Answer(r, Outcome(leader[r]))
  /\ UNCHANGED <<input, client, deadline, clocks, logged, delivered, leader, sem, max>>

\* The request AuditLog holds is the one from before WithContext.
AuditClient(r) == NoClient

Age(r) == spent[r] + waited[r]

\* AuditLog's line; then the response is flushed, if its deadline allows, and
\* with that the recorder and the clocks of the request are gone.
Audit(r) ==
  /\ Goto(r, "audit", "done")
  /\ logged' = [logged EXCEPT ![r] = [status |-> status[r], client |-> AuditClient(r)]]
  /\ delivered' = [delivered EXCEPT ![r] = Age(r) < WriteTimeout]
  /\ spent' = [spent EXCEPT ![r] = 0] /\ waited' = [waited EXCEPT ![r] = 0]
  /\ Answer(r, 0)
  /\ UNCHANGED <<input, client, deadline, leader, sem, max>>

\* How long a fan-out that r leads, and the save after it, may take.
Longest(r) == IF deadline[r] = 0 THEN 0 ELSE deadline[r] + SaveTime

\* Who may let a unit of time pass: who reads a body, looks up, or has a fan-out
\* to wait for.
Waits(r) ==
  \/ pc[r] = "mux" /\ input[r].path = "quotes" /\ spent[r] < ReadTimeout
  \/ pc[r] = "lookup"
  \/ /\ pc[r] = "quoting" /\ pc[leader[r]] = "quoting"
     /\ waited[leader[r]] < Longest(leader[r])

Wait ==
  /\ \A r \in Requests : Open(r) => Waits(r)
  /\ spent' = [r \in Requests |->
       IF pc[r] \in {"mux", "lookup"} /\ spent[r] < Horizon THEN spent[r] + 1
       ELSE spent[r]]
  /\ waited' = [r \in Requests |->
       IF pc[r] = "quoting" THEN waited[r] + 1 ELSE waited[r]]
  /\ UNCHANGED <<pc, input, client, deadline, status, logged, delivered, leader, sem, max>>

Handle(r) ==
  \/ Bypass(r) \/ CheckBudget(r) \/ Authenticate(r)
  \/ Limit(r) \/ Release(r)
  \/ ServeOther(r) \/ Refuse(r)
  \/ StartQuotes(r) \/ Hit(r) \/ Join(r) \/ EndQuotes(r)
  \/ Audit(r)

----------------------------------------------------------------------------

\* The channel of LimitConcurrency holds one token for each request between
\* it and its deferred receive, whatever status the request ends with.
SlotsBalance ==
  sem = Cardinality({r \in Requests : pc[r] \in {"mux", "lookup", "quoting", "release"}})

\* A request reaches the orchestrator only with a configured key, under that
\* key's client id, with a valid body and a timeout between the limits.
QuotesForClients ==
  \A r \in Requests : pc[r] \in {"lookup", "quoting"} =>
    /\ input[r].token \in Keys
    /\ client[r] = KeyID[input[r].token]
    /\ input[r].idOK /\ input[r].linesOK
    /\ Timeout(r) \in MinTimeout .. MaxTimeout

\* README: "`GET /healthz` | none | Returns `ok`".
HealthIsOK ==
  \A r \in Requests : pc[r] = "done" /\ input[r].path = "health" => logged[r].status = 200

\* "AuditLog logs method, path, status, duration, and client identity for
\* every request."
AuditNamesClient ==
  \A r \in Requests : pc[r] = "done" => logged[r].client = client[r]

\* "When it expires, the carriers that already answered are returned": every
\* accepted timeout gives an answer the client receives.
AnswersAreDelivered ==
  \A r \in Requests : pc[r] = "done" => delivered[r]

\* "When it expires, the carriers that already answered are returned": a
\* request that has found nothing in the cache waits for its own timeout, and
\* the save, at most.
AnswersAreInTime ==
  \A r \in Requests : waited[r] <= Longest(r)

=============================================================================
