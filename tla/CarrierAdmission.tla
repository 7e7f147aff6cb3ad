-------------------------- MODULE CarrierAdmission --------------------------
(* How calls reach one carrier. A primary call passes the filter of fanOut  *)
(* (filterEligibleCarriers leaves a carrier out while its breaker reads     *)
(* Open), then limiter.Wait, then Breaker.Execute. A hedge of another       *)
(* carrier's slow call is aimed here if the breaker does not read Open,     *)
(* takes a token if one is free, and calls the adapter past the breaker.    *)
(*                                                                          *)
(* The bucket is golang.org/x/time/rate's as Limiter uses it: a Wait takes  *)
(* its token at once, so that the balance may be negative, and then sleeps  *)
(* until refills have paid for it; it refuses at once if that would outlast *)
(* the deadline. An Allow only takes a token that is there. A unit of time  *)
(* is one refill, apart from the breaker's own clock.                       *)
EXTENDS Breaker

CONSTANTS
  Hedges,   \* hedge goroutines aimed at this carrier, one after another each
  Burst,    \* the size of the bucket
  MaxWait   \* how many refills the longest deadline leaves time for

ASSUME AdmissionConstants == Burst \in Nat \ {0} /\ MaxWait \in Nat

VARIABLES
  admitted,  \* the callers past filterEligibleCarriers, until they return
  tokens,    \* the balance of the bucket
  turn,      \* refills a caller in Wait still sleeps for; 0: it has its token
  hedge      \* "none", "chosen" (by selectHedgeCandidate), "calling"

limiterVars == <<tokens, turn, hedge>>
avars == <<vars, admitted, limiterVars>>

NoTurn == -1

AInit == /\ Init
         /\ admitted = {}
         /\ tokens = Burst
         /\ turn = [t \in Callers |-> NoTurn]
         /\ hedge = [h \in Hedges |-> "none"]

----------------------------------------------------------------------------
(* Primary calls                                                            *)

\* Mutant: eligibility decided by coverage alone.
EligibleByCoverage == TRUE

\* breaker.State() is not Open.
Eligible == state # "open"

Filter(t) ==
  /\ t \notin admitted
  /\ Eligible
  /\ admitted' = admitted \union {t}
  /\ UNCHANGED <<vars, limiterVars>>

InLimiter(t) == t \in admitted /\ pc[t] = "idle" /\ turn[t] = NoTurn

\* limiter.Wait takes a token, and sleeps if the bucket was empty.
Reserve(t) ==
  /\ InLimiter(t)
  /\ tokens > -MaxWait
  /\ tokens' = tokens - 1
  /\ turn' = [turn EXCEPT ![t] = IF tokens >= 1 THEN 0 ELSE 1 - tokens]
  /\ UNCHANGED <<vars, admitted, hedge>>

\* Wait fails at once, because the sleep would outlast the deadline or because
\* the context is over, and callCarrier returns without reaching the breaker.
Refuse(t) ==
  /\ InLimiter(t)
  /\ admitted' = admitted \ {t}
  /\ UNCHANGED <<vars, limiterVars>>

\* Reservation.Cancel gives back the token unless a later one counts on it.
Restored(t) == IF turn[t] = -tokens THEN tokens + 1 ELSE tokens

\* The context ends first: ErrRateLimitExceeded.
GiveUp(t) ==
  /\ turn[t] > 0
  /\ tokens' = Restored(t)
  /\ turn' = [turn EXCEPT ![t] = NoTurn]
  /\ admitted' = admitted \ {t}
  /\ UNCHANGED <<vars, hedge>>

Enter(t) ==
  /\ turn[t] = 0
  /\ Load(t)
  /\ turn' = [turn EXCEPT ![t] = NoTurn]
  /\ UNCHANGED <<admitted, tokens, hedge>>

Proceed(t) ==
  /\ Continue(t)
  /\ admitted' = IF pc'[t] = "idle" THEN admitted \ {t} ELSE admitted
  /\ UNCHANGED limiterVars

----------------------------------------------------------------------------
(* Hedges                                                                   *)

HedgeStep(h, from, to) ==
  /\ hedge[h] = from
  /\ hedge' = [hedge EXCEPT ![h] = to]
  /\ UNCHANGED <<vars, admitted, turn>>

\* selectHedgeCandidate settles on this carrier, whose breaker it has read.
Choose(h) == state # "open" /\ HedgeStep(h, "none", "chosen") /\ UNCHANGED tokens

\* Mutant: Reserve in place of Allow, which also takes tokens not there yet.
TryReserve(h) ==
  /\ tokens > -MaxWait
  /\ HedgeStep(h, "chosen", "calling")
  /\ tokens' = tokens - 1

\* Limiter.TryAcquire; without a token the hedge is suppressed.
TryAcquire(h) ==
  \/ tokens >= 1 /\ HedgeStep(h, "chosen", "calling") /\ tokens' = tokens - 1
  \/ tokens < 1 /\ HedgeStep(h, "chosen", "none") /\ UNCHANGED tokens

\* execFn returns; whatever it returns, the breaker does not hear of it.
EndHedge(h) == HedgeStep(h, "calling", "none") /\ UNCHANGED tokens

----------------------------------------------------------------------------

ATick == Tick /\ UNCHANGED <<admitted, limiterVars>>

Refill ==
  /\ tokens < Burst
  /\ tokens' = tokens + 1
  /\ turn' = [t \in Callers |-> IF turn[t] > 0 THEN turn[t] - 1 ELSE turn[t]]
  /\ UNCHANGED <<vars, admitted, hedge>>

ANext == \/ ATick \/ Refill
         \/ \E t \in Callers : \/ Filter(t) \/ Reserve(t) \/ Refuse(t) \/ GiveUp(t)
                               \/ Enter(t) \/ Proceed(t)
         \/ \E h \in Hedges : Choose(h) \/ TryAcquire(h) \/ EndHedge(h)

ASpec == AInit /\ [][ANext]_avars

(* Requests keep coming, the bucket is refilled, goroutines and the clock   *)
(* go on. Deadlines are not always too near to take a token, and a Wait     *)
(* that sleeps does so because its deadline leaves time for it, so it is    *)
(* not always the context that ends first.                                  *)
AFairSpec ==
  /\ ASpec
  /\ WF_avars(ATick) /\ WF_avars(Refill)
  /\ SF_avars(\E t \in Callers : Reserve(t))
  /\ SF_avars(Refill /\ \E t \in Callers : turn[t] = 1)
  /\ \A t \in Callers : /\ WF_avars(Filter(t))
                        /\ WF_avars(Reserve(t) \/ Refuse(t))
                        /\ WF_avars(Enter(t))
                        /\ WF_avars(Proceed(t))

----------------------------------------------------------------------------
(* Properties                                                               *)

ATypeOK ==
  /\ TypeOK
  /\ admitted \subseteq Callers
  /\ tokens \in Int
  /\ turn \in [Callers -> Int]
  /\ hedge \in [Hedges -> {"none", "chosen", "calling"}]

Unattended == state = "open" /\ admitted = {}

\* filterEligibleCarriers reads Open and leaves the carrier out, and only
\* Execute leaves Open: a circuit that is open when the last request that
\* passed the filter returns is open for ever, OpenTimeout or not, and no
\* hedge that succeeds meanwhile closes it.
UnattendedStaysOpen == [](Unattended => []Unattended)

\* A half-open circuit, which the filter lets requests reach, is settled even
\* while hedges compete with the probes for tokens.
HalfOpenIsResolved == state = "halfOpen" ~> state # "halfOpen"

Calls(h) == hedge[h] # "calling" /\ hedge'[h] = "calling"

\* "A hedge call only takes a token if one is free" (docs/architecture.md):
\* none is while a primary call still sleeps in Wait, so hedges never overtake
\* the calls they are meant to help, whoever has given up in between.
PrimariesFirst ==
  [][\A h \in Hedges : Calls(h) => \A t \in Callers : turn[t] <= 0]_avars

(* What the documentation says and the code does not do.                    *)

\* docs/architecture.md: the breaker "stays open for 30 seconds. After that
\* it lets one probe through (half-open)".
OpenIsEventuallyProbed == state = "open" ~> state # "open"

\* docs/architecture.md: a hedge is sent "skipping carriers whose circuit is
\* open".
HedgesAvoidOpen == [][\A h \in Hedges : Calls(h) => state # "open"]_avars

\* breaker.go: "HalfOpen (2) -- probe state; exactly one request is allowed
\* through".
ProbeIsAlone ==
  \A t \in Callers, h \in Hedges :
    state = "halfOpen" /\ pc[t] = "probeFn" => hedge[h] # "calling"

=============================================================================
