------------------------------ MODULE Lifecycle ------------------------------
(* cli.Run, around the requests of Gateway: the start, which may fail, the   *)
(* goroutine that serves, the select between a signal and an error of the    *)
(* server, and the drain. main returns after Run, and the process ends.      *)
(*                                                                           *)
(* Where the carriers come from does not change the way Run goes on: an      *)
(* error of ListActive, or no carriers, is made up for with the mock ones.   *)
EXTENDS Gateway

CONSTANTS
  DrainWindow,  \* the deadline of shutCtx
  NewConnGrace  \* how long Shutdown waits for a first request on a connection

ASSUME LifecycleConfig ==
  DrainWindow \in Nat /\ NewConnGrace \in Nat /\ DrainWindow <= Horizon

VARIABLES
  run,       \* where Run is
  signalled, \* NotifyContext's context is cancelled
  listener,  \* the goroutine that calls ListenAndServe
  drained,   \* time since Shutdown was called
  result     \* what Run returns

runVars == <<run, signalled, listener, drained, result>>
vars == <<gwVars, runVars>>

\* "unbound" and "failed" are ListenAndServe's errors before and after it has
\* served, "unused" and "closed" the same for ErrServerClosed.
Errors == {"unbound", "failed"}

TypeOK ==
  /\ GwTypeOK
  /\ run \in {"keys", "connect", "wire", "select", "shutdown", "returned"}
  /\ signalled \in BOOLEAN
  /\ listener \in {"none", "starting", "listening", "unused", "closed"} \cup Errors
  /\ drained \in 0 .. DrainWindow
  /\ result \in {"none", "nil", "no keys", "connect", "server", "shutdown"}

Init ==
  /\ GwInit
  /\ run = "keys"
  /\ signalled = FALSE
  /\ listener = "none"
  /\ drained = 0
  /\ result = "none"

----------------------------------------------------------------------------
(* Run, up to the start of the server                                       *)

Step(from, to) == run = from /\ run' = to

\* Run's deferred calls only stop what ends with the process anyway.
Return(from, err) == Step(from, "returned") /\ result' = err

CheckKeys ==
  /\ \/ Step("keys", "connect") /\ UNCHANGED result
     \/ Return("keys", "no keys")
  /\ UNCHANGED <<gwVars, signalled, listener, drained>>

\* NewClient and ListActive, if there is a database to connect to.
Connect ==
  /\ \/ Step("connect", "wire") /\ UNCHANGED result
     \/ Return("connect", "connect")
  /\ UNCHANGED <<gwVars, signalled, listener, drained>>

\* The components, the middleware, and the goroutine that serves.
Wire ==
  /\ Step("wire", "select")
  /\ listener' = "starting"
  /\ UNCHANGED <<gwVars, signalled, drained, result>>

\* SIGTERM or SIGINT, from NotifyContext on.
Signal ==
  /\ run \notin {"keys", "returned"}
  /\ signalled' = TRUE
  /\ UNCHANGED <<gwVars, run, listener, drained, result>>

----------------------------------------------------------------------------
(* The other goroutines                                                     *)

\* ListenAndServe binds the port and serves until it fails, unless Shutdown is
\* called first. An error is sent to errCh, which has room for it.
Serve ==
  /\ run = "select"
  /\ \/ listener = "starting" /\ listener' \in {"listening", "unbound"}
     \/ listener = "listening" /\ listener' = "failed"
  /\ UNCHANGED <<gwVars, run, signalled, drained, result>>

\* A connection that Serve accepted, and that Shutdown has not closed, brings a
\* request.
Accept(r) ==
  /\ listener \in {"listening", "failed", "closed"}
  /\ drained <= NewConnGrace
  /\ Arrive(r)
  /\ UNCHANGED runVars

----------------------------------------------------------------------------
(* Run, from the select on                                                  *)

\* ctx.Done(): Run calls Shutdown, which makes ListenAndServe return
\* ErrServerClosed and waits for it. When errCh is ready too, select picks
\* either.
Interrupted ==
  /\ Step("select", "shutdown")
  /\ signalled
  /\ listener' = CASE listener = "starting" -> "unused"
                   [] listener = "listening" -> "closed"
                   [] OTHER -> listener
  /\ UNCHANGED <<gwVars, signalled, drained, result>>

\* Mutant: an error of the server leads to a drain like a signal's.
ServerErrorDrains ==
  /\ Step("select", "shutdown")
  /\ listener \in Errors
  /\ UNCHANGED <<gwVars, signalled, listener, drained, result>>

\* errCh has an error: Run returns it, without a drain.
ServerError ==
  /\ Return("select", "server")
  /\ listener \in Errors
  /\ UNCHANGED <<gwVars, signalled, listener, drained>>

EndShutdown(err) ==
  /\ Return("shutdown", err)
  /\ UNCHANGED <<gwVars, signalled, listener, drained>>

\* Shutdown has seen every connection idle.
Drained ==
  /\ \A r \in Requests : ~Open(r)
  /\ EndShutdown("nil")

\* Mutant: shutCtx derived from the context the signal has already cancelled.
DrainExpiresAtOnce == EndShutdown("shutdown")

\* Mutant: Shutdown called with a context that has no deadline.
DrainNeverExpires == drained > DrainWindow /\ EndShutdown("shutdown")

\* shutCtx expired first.
DrainExpires == drained = DrainWindow /\ EndShutdown("shutdown")

\* A unit of time. Shutdown waits for open requests, and for a while for new
\* connections.
Tick ==
  /\ \/ run = "select"
     \/ /\ run = "shutdown" /\ drained < DrainWindow
        /\ drained < NewConnGrace \/ \E r \in Requests : Open(r)
  /\ Wait
  /\ drained' = IF run = "shutdown" THEN drained + 1 ELSE drained
  /\ UNCHANGED <<run, signalled, listener, result>>

----------------------------------------------------------------------------

RunSteps ==
  \/ CheckKeys \/ Connect \/ Wire
  \/ Interrupted \/ ServerError \/ Drained \/ DrainExpires

Handler(r) == Handle(r) /\ UNCHANGED runVars

Exited == run = "returned" /\ UNCHANGED vars

Next ==
  \/ /\ run # "returned"
     /\ \/ RunSteps \/ Signal \/ Serve \/ Tick
        \/ \E r \in Requests : Accept(r) \/ Handler(r)
  \/ Exited

Spec == Init /\ [][Next]_vars

\* Time and goroutines go on while the process lives. A handler is sure to end
\* its wait for a body and for a fan-out, both limited; one that looks up may
\* wait for the database for ever.
Alive(A) == run # "returned" /\ A

FairSpec ==
  /\ Spec
  /\ WF_vars(Alive(RunSteps))
  /\ WF_vars(Alive(Tick))
  /\ \A r \in Requests : WF_vars(Alive(pc[r] # "lookup" /\ Handler(r)))

----------------------------------------------------------------------------
(* Properties                                                               *)

\* What may keep a request: its body and its lookup, and its fan-out, own or
\* shared, with the save.
OwnTime(r) == spent[r] + Longest(leader[r])

Late(r) == pc[r] = "audit" /\ pc'[r] = "done" /\ ~delivered'[r]
CutOff(r) == result # "shutdown" /\ result' = "shutdown" /\ Open(r)

\* A request misses the write deadline, or is cut off by the end of the drain,
\* only if its own time reaches that limit: neither the other requests, nor
\* when it has joined a fan-out, nor when the signal comes makes it suffer.
OnlyLongRequestsSuffer ==
  [][\A r \in Requests :
       /\ Late(r) => OwnTime(r) >= WriteTimeout
       /\ CutOff(r) => OwnTime(r) + NewConnGrace >= DrainWindow]_vars

\* Once a signal has come, at whatever point of the start or of the service,
\* or the server has failed, Run returns, even if a lookup hangs.
RunEnds == signalled \/ listener \in Errors ~> run = "returned"

\* A failure of the server is what Run returns, unless a signal comes too.
FailureIsSeen == listener \in Errors /\ ~signalled ~> result = "server" \/ signalled

\* A request whose lookup ends is answered and logged, unless the process ends
\* by a failure of the server or of the drain.
RequestsEnd ==
  \A r \in Requests :
    []<>(pc[r] # "lookup") =>
      (Open(r) ~> pc[r] = "done" \/ result \in {"server", "shutdown"})

(* What the documentation says and the code does not do.                    *)

\* run.go: "Returns nil on clean shutdown, error on failure".
FailureIsReported == result = "nil" => listener \notin Errors

=============================================================================
