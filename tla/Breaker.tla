------------------------------ MODULE Breaker ------------------------------
(* The per-carrier circuit breaker (internal/circuitbreaker/breaker.go).    *)
(* Breaker has no lock: its fields are five atomics, so an action here is   *)
(* one atomic operation of one caller of Execute, and callers interleave    *)
(* between any two of them.                                                 *)
(*                                                                          *)
(* The wall clock appears only as the age of a timestamp, and ages are only *)
(* ever compared with OpenTimeout, so an age stops growing there: the model *)
(* is finite with no bound on time.                                         *)
EXTENDS Integers, FiniteSets

CONSTANTS
  Callers,           \* goroutines that call Execute, again and again
  FailureThreshold,  \* Config, after New has replaced what is not positive
  SuccessThreshold,
  OpenTimeout        \* in ticks of the clock

ASSUME BreakerConfig ==
  /\ FailureThreshold \in Nat \ {0}
  /\ SuccessThreshold \in Nat \ {0}
  /\ OpenTimeout \in Nat \ {0}

VARIABLES
  state,             \* "closed", "open", "halfOpen"
  failures,          \* consecutive failures in Closed
  successes,         \* consecutive successes in HalfOpen
  halfOpenInFlight,  \* 1 while the probe slot is taken
  openedAge,         \* the age of openedAt
  gauge,             \* what SetCBState was last called with
  pc,                \* the next atomic operation of each caller
  stamp              \* the age of the timestamp a caller holds in a local

vars == <<state, failures, successes, halfOpenInFlight, openedAge, gauge,
          pc, stamp>>

CBState == {"closed", "open", "halfOpen"}
Age     == 0 .. OpenTimeout

\* From the CAS that takes the probe slot to the deferred store that frees it.
Probing == {"probeFn", "casReopen", "readReopen", "storeReopen",
            "clearReopen", "emitReopen", "addSuccess", "casClose",
            "clearFailures", "clearSuccesses", "emitClosed", "release"}

PC == Probing \union
      {"idle", "loadOpenedAt", "sinceOpenedAt", "casHalfOpen",
       "emitHalfOpen", "acquire", "closedFn", "addFailure", "casOpen",
       "readTrip", "storeTrip", "emitOpen", "resetFailures"}

TypeOK ==
  /\ state \in CBState
  /\ failures \in Nat
  /\ successes \in Nat
  /\ halfOpenInFlight \in {0, 1}
  /\ openedAge \in Age
  /\ gauge \in CBState
  /\ pc \in [Callers -> PC]
  /\ stamp \in [Callers -> Age]

\* openedAt starts at the epoch, long before OpenTimeout ago; New seeds the gauge.
Init ==
  /\ state = "closed"
  /\ failures = 0
  /\ successes = 0
  /\ halfOpenInFlight = 0
  /\ openedAge = OpenTimeout
  /\ gauge = "closed"
  /\ pc = [t \in Callers |-> "idle"]
  /\ stamp = [t \in Callers |-> 0]

----------------------------------------------------------------------------

Older(a) == IF a < OpenTimeout THEN a + 1 ELSE a

Tick ==
  /\ openedAge' = Older(openedAge)
  /\ stamp' = [t \in Callers |-> Older(stamp[t])]
  /\ UNCHANGED <<state, failures, successes, halfOpenInFlight, gauge, pc>>

Goto(t, from, to) == pc[t] = from /\ pc' = [pc EXCEPT ![t] = to]

\* A step that reads, decides or calls out, and writes no shared field.
Branch(t, from, to) ==
  /\ Goto(t, from, to)
  /\ UNCHANGED <<state, failures, successes, halfOpenInFlight, openedAge,
                 gauge, stamp>>

\* state.CompareAndSwap(old, new): the winner and the loser go different ways.
CasState(t, from, old, new, won, lost) ==
  /\ Goto(t, from, IF state = old THEN won ELSE lost)
  /\ state' = IF state = old THEN new ELSE state
  /\ UNCHANGED <<failures, successes, halfOpenInFlight, openedAge, gauge, stamp>>

SetFailures(t, from, n, to) ==
  /\ Goto(t, from, to)
  /\ failures' = n
  /\ UNCHANGED <<state, successes, halfOpenInFlight, openedAge, gauge, stamp>>

SetSuccesses(t, from, n, to) ==
  /\ Goto(t, from, to)
  /\ successes' = n
  /\ UNCHANGED <<state, failures, halfOpenInFlight, openedAge, gauge, stamp>>

SetSlot(t, from, n, to) ==
  /\ Goto(t, from, to)
  /\ halfOpenInFlight' = n
  /\ UNCHANGED <<state, failures, successes, openedAge, gauge, stamp>>

SetStamp(t, from, a, to) ==
  /\ Goto(t, from, to)
  /\ stamp' = [stamp EXCEPT ![t] = a]
  /\ UNCHANGED <<state, failures, successes, halfOpenInFlight, openedAge, gauge>>

StoreOpenedAt(t, from, to) ==
  /\ Goto(t, from, to)
  /\ openedAge' = stamp[t]
  /\ UNCHANGED <<state, failures, successes, halfOpenInFlight, gauge, stamp>>

\* SetCBState, with the RecordCBTransition before it, which only counts.
Emit(t, from, s, to) ==
  /\ Goto(t, from, to)
  /\ gauge' = s
  /\ UNCHANGED <<state, failures, successes, halfOpenInFlight, openedAge, stamp>>

----------------------------------------------------------------------------
(* Execute                                                                  *)

Load(t) == Branch(t, "idle", IF state = "open" THEN "loadOpenedAt"
                             ELSE IF state = "halfOpen" THEN "acquire"
                             ELSE "closedFn")

LoadOpenedAt(t) == SetStamp(t, "loadOpenedAt", openedAge, "sinceOpenedAt")

\* Mutants: the timeout check dropped; the timeout check turned round.
SinceOpenedAtUnchecked(t) == Branch(t, "sinceOpenedAt", "casHalfOpen")
SinceOpenedAtReversed(t) ==
  Branch(t, "sinceOpenedAt",
         IF stamp[t] < OpenTimeout THEN "casHalfOpen" ELSE "idle")

\* ErrCircuitOpen until OpenTimeout has elapsed.
SinceOpenedAt(t) ==
  Branch(t, "sinceOpenedAt",
         IF stamp[t] < OpenTimeout THEN "idle" ELSE "casHalfOpen")

\* Mutant: a plain store in place of the CAS, which undoes a later transition.
CasHalfOpenUnconditional(t) ==
  CasState(t, "casHalfOpen", state, "halfOpen", "emitHalfOpen", "idle")

\* Won or lost, the caller goes on to executeHalfOpen.
CasHalfOpen(t) ==
  CasState(t, "casHalfOpen", "open", "halfOpen", "emitHalfOpen", "acquire")

EmitHalfOpen(t) == Emit(t, "emitHalfOpen", "halfOpen", "acquire")

----------------------------------------------------------------------------
(* executeClosed                                                            *)

ClosedFn(t) ==
  \E to \in {"resetFailures", "addFailure"} : Branch(t, "closedFn", to)

\* Mutant: a success leaves the failure counter alone.
ResetFailuresForgotten(t) == Branch(t, "resetFailures", "idle")

ResetFailures(t) == SetFailures(t, "resetFailures", 0, "idle")

AddFailure(t) ==
  SetFailures(t, "addFailure", failures + 1,
              IF failures + 1 >= FailureThreshold THEN "casOpen" ELSE "idle")

CasOpen(t) == CasState(t, "casOpen", "closed", "open", "readTrip", "idle")

\* openedAt.Store(time.Now().UnixNano()): the clock is read, then stored.
ReadTrip(t)  == SetStamp(t, "readTrip", 0, "storeTrip")
StoreTrip(t) == StoreOpenedAt(t, "storeTrip", "emitOpen")

\* Mutant: a trip does not set the gauge.
EmitOpenForgotten(t) == Branch(t, "emitOpen", "idle")

EmitOpen(t) == Emit(t, "emitOpen", "open", "idle")

----------------------------------------------------------------------------
(* executeHalfOpen                                                          *)

\* Mutant: a plain store in place of the CAS on the slot.
AcquireUnchecked(t) == SetSlot(t, "acquire", 1, "probeFn")

\* Mutant: Add(1) == 1 in place of the CAS, so that the loser counts too.
AcquireByAdd(t) ==
  SetSlot(t, "acquire", halfOpenInFlight + 1,
          IF halfOpenInFlight = 0 THEN "probeFn" ELSE "idle")

\* halfOpenInFlight.CompareAndSwap(0, 1); the loser gets ErrCircuitOpen.
Acquire(t) ==
  SetSlot(t, "acquire", 1, IF halfOpenInFlight = 0 THEN "probeFn" ELSE "idle")

ProbeFn(t) ==
  \E to \in {"addSuccess", "casReopen"} : Branch(t, "probeFn", to)

CasReopen(t) ==
  CasState(t, "casReopen", "halfOpen", "open", "readReopen", "release")

ReadReopen(t)  == SetStamp(t, "readReopen", 0, "storeReopen")
StoreReopen(t) == StoreOpenedAt(t, "storeReopen", "clearReopen")

\* Mutant: a failed probe keeps the successes counted before it.
ClearReopenForgotten(t) == Branch(t, "clearReopen", "emitReopen")

ClearReopen(t) == SetSuccesses(t, "clearReopen", 0, "emitReopen")
EmitReopen(t)  == Emit(t, "emitReopen", "open", "release")

AddSuccess(t) ==
  SetSuccesses(t, "addSuccess", successes + 1,
               IF successes + 1 >= SuccessThreshold THEN "casClose" ELSE "release")

CasClose(t) ==
  CasState(t, "casClose", "halfOpen", "closed", "clearFailures", "release")

ClearFailures(t)  == SetFailures(t, "clearFailures", 0, "clearSuccesses")
ClearSuccesses(t) == SetSuccesses(t, "clearSuccesses", 0, "emitClosed")
EmitClosed(t)     == Emit(t, "emitClosed", "closed", "release")

\* Mutant: the slot is not freed.
ReleaseForgotten(t) == Branch(t, "release", "idle")

\* defer halfOpenInFlight.Store(0)
Release(t) == SetSlot(t, "release", 0, "idle")

----------------------------------------------------------------------------

\* What a call does once Execute has loaded the state.
Continue(t) ==
  \/ LoadOpenedAt(t) \/ SinceOpenedAt(t) \/ CasHalfOpen(t) \/ EmitHalfOpen(t)
  \/ ClosedFn(t) \/ ResetFailures(t) \/ AddFailure(t) \/ CasOpen(t)
  \/ ReadTrip(t) \/ StoreTrip(t) \/ EmitOpen(t)
  \/ Acquire(t) \/ ProbeFn(t)
  \/ CasReopen(t) \/ ReadReopen(t) \/ StoreReopen(t) \/ ClearReopen(t)
  \/ EmitReopen(t)
  \/ AddSuccess(t) \/ CasClose(t) \/ ClearFailures(t) \/ ClearSuccesses(t)
  \/ EmitClosed(t)
  \/ Release(t)

Next == Tick \/ \E t \in Callers : Load(t) \/ Continue(t)

Spec == Init /\ [][Next]_vars

(* The Go scheduler runs every runnable goroutine, a carrier call ends by   *)
(* its context's deadline at the latest, and time passes.                   *)
Fairness == /\ WF_vars(Tick)
            /\ \A t \in Callers : WF_vars(Continue(t))

\* Calls that keep coming, each of which reaches Execute.
Traffic == \A t \in Callers : WF_vars(Load(t))

----------------------------------------------------------------------------
(* Properties                                                               *)

\* The slot is taken exactly while some caller is between the CAS that takes
\* it and the deferred store that frees it, and no two callers are there
\* together (executeHalfOpen: "exactly one probe").
ProbeExclusive ==
  /\ \A t, u \in Callers :
        pc[t] \in Probing /\ pc[u] \in Probing => t = u
  /\ halfOpenInFlight = 1 <=> \E t \in Callers : pc[t] \in Probing

Contract == INSTANCE BreakerContract
              WITH probing <- {t \in Callers : pc[t] \in Probing}

\* Under every interleaving of its atomics the breaker implements
\* BreakerContract: a half-open circuit is settled by the slot holder alone.
ContractHolds == Contract!Spec

\* While calls keep reaching Execute, an open circuit is eventually probed...
OpenIsProbed == state = "open" ~> state # "open"

\* ... and a half-open circuit is eventually settled one way or the other,
\* however many probes SuccessThreshold asks for.
HalfOpenIsSettled == state = "halfOpen" ~> state # "halfOpen"

=============================================================================
