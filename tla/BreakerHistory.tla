--------------------------- MODULE BreakerHistory ---------------------------
(* Breaker with history variables, kept apart from the code's own counters, *)
(* that say what the documented thresholds count: how long the circuit has  *)
(* really been open, how many probes have really succeeded since it became  *)
(* half-open, how many calls, in a row or not, have really failed since it  *)
(* closed, and whether calls of Execute have ever overlapped.               *)
EXTENDS Breaker

VARIABLES
  openFor,  \* ticks since the circuit opened, no further than OpenTimeout
  wins,     \* successful probes since the circuit became half-open
  losses,   \* failed calls since the circuit closed
  streak,   \* failed calls since the circuit closed and since a success
  alone     \* no two callers have been inside Execute at once

history == <<openFor, wins, losses, streak, alone>>

HInit ==
  Init /\ openFor = 0 /\ wins = 0 /\ losses = 0 /\ streak = 0 /\ alone = TRUE

\* Did the caller that moved just report a success or a failure?
Reports(from) == \E t \in Callers : pc[t] = from /\ pc'[t] # from

Enters(s) == state # s /\ state' = s

\* The counts stop at the thresholds they are compared with.
Count(n, limit, restart, more) ==
  IF restart THEN 0 ELSE IF more /\ n < limit THEN n + 1 ELSE n

HNext ==
  /\ Next
  /\ openFor' = IF Enters("open") THEN 0
                ELSE IF UNCHANGED pc THEN Older(openFor) ELSE openFor
  /\ wins' = Count(wins, SuccessThreshold, Enters("halfOpen"),
                   Reports("addSuccess"))
  /\ losses' = Count(losses, FailureThreshold, Enters("closed"),
                     Reports("addFailure"))
  /\ streak' = Count(streak, FailureThreshold,
                     Enters("closed") \/ Reports("resetFailures"),
                     Reports("addFailure"))
  /\ alone' = (alone /\ Cardinality({t \in Callers : pc'[t] # "idle"}) <= 1)

HSpec == HInit /\ [][HNext]_<<vars, history>>

HFairSpec == HSpec /\ Fairness /\ Traffic

----------------------------------------------------------------------------
(* The documented thresholds                                                *)

Probe == state = "open" /\ state' = "halfOpen"
Close == state = "halfOpen" /\ state' = "closed"
Trip  == state = "closed" /\ state' = "open"

\* "Open: if OpenTimeout has not elapsed, domain.ErrCircuitOpen is returned":
\* a circuit becomes half-open only after being open for OpenTimeout.
OpenTimeoutHonoured == [][Probe => openFor = OpenTimeout]_vars

\* SuccessThreshold is the number of successes in HalfOpen before the circuit
\* closes: a circuit closes only after as many probes since it half-opened.
ClosesAfterSuccesses == [][Close => wins = SuccessThreshold]_vars

\* FailureThreshold is the number of consecutive failures that trips the
\* circuit. When calls overlap a success may land between the failure that
\* decides and the CAS that trips, so the least the threshold can mean is that
\* a circuit opens only after as many failures since it last closed.
TripsAfterFailures == [][Trip => losses = FailureThreshold]_vars

QuietGauge == (\A t \in Callers : pc[t] = "idle") => gauge = state

\* Once every call has returned, the gauge SetCBState feeds shows the state.
GaugeShowsState == QuietGauge

(* As long as calls of Execute have not overlapped, whichever caller makes  *)
(* them, the documentation is exact.                                        *)

\* OpenTimeoutHonoured, for calls that do not overlap.
LoneProbesWait == [][alone /\ Probe => openFor = OpenTimeout]_vars

\* ClosesAfterSuccesses, for calls that do not overlap.
LoneClosesAfterSuccesses == [][alone /\ Close => wins = SuccessThreshold]_vars

\* "the number of consecutive failures that opens the circuit", for calls that
\* do not overlap: the circuit trips on that many in a row, and no later.
LoneTripsAfterStreak ==
  [][alone' => /\ Trip => streak = FailureThreshold
               /\ state = "closed" /\ Reports("idle") => streak < FailureThreshold]_vars

\* GaugeShowsState, for calls that do not overlap.
LoneGaugeShowsState == alone => QuietGauge

=============================================================================
