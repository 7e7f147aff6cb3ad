----------------------------- MODULE HTTPCarrier -----------------------------
(* HTTPCarrier.Post (internal/adapter/http_carrier.go): one call, with its   *)
(* attempts, its exponential backoff and the cancellation of its context.    *)
(*                                                                           *)
(* A response is told apart by what doOnce makes of it: a network error      *)
(* (status 0, which is also what an expired attempt context gives), a 4xx, a *)
(* 5xx, or a body that decodes or does not. encoding/json sets fields of the *)
(* target even when Decode then reports a type error, so each field of out   *)
(* records the attempt that last wrote it; 0 is Go's zero value.             *)
EXTENDS Integers, FiniteSets

CONSTANTS
  MaxRetries,  \* cfg.MaxRetries as configured
  RetryDelay,  \* cfg.RetryDelay as configured, in units of the default delay
  Fields       \* the fields of the carrier's response type

ASSUME CarrierConfig ==
  /\ MaxRetries \in Int
  /\ RetryDelay \in Int
  /\ IsFiniteSet(Fields)

DefaultRetries == 3
DefaultDelay == 1

\* withDefaults: non-positive settings are replaced.
Retries == IF MaxRetries <= 0 THEN DefaultRetries ELSE MaxRetries
BaseDelay == IF RetryDelay <= 0 THEN DefaultDelay ELSE RetryDelay

VARIABLES
  pc,       \* where Post is
  attempt,  \* the loop's counter
  delay,    \* the pause before the next retry
  slept,    \* the pauses taken so far, added up
  ctx,      \* the caller's context
  sent,     \* requests that reached the network
  status,   \* what the last attempt came to
  out,      \* per field, the attempt that wrote it
  ret       \* what Post returned

vars == <<pc, attempt, delay, slept, ctx, sent, status, out, ret>>

Statuses == {"none", "network", "4xx", "5xx", "garbled", "ok"}
Results == {"none", "ok", "rejected", "exhausted", "cancelled"}

TypeOK ==
  /\ pc \in {"attempt", "reply", "backoff", "returned"}
  /\ attempt \in 0 .. Retries
  /\ delay \in Nat \ {0}
  /\ slept \in Nat
  /\ ctx \in {"live", "done"}
  /\ sent \in 0 .. Retries + 1
  /\ status \in Statuses
  /\ out \in [Fields -> 0 .. Retries + 1]
  /\ ret \in Results

Init ==
  /\ pc = "attempt"
  /\ attempt = 0
  /\ delay = BaseDelay
  /\ slept = 0
  /\ ctx \in {"live", "done"}
  /\ sent = 0
  /\ status = "none"
  /\ out = [f \in Fields |-> 0]
  /\ ret = "none"

\* The caller's deadline passes, or the caller gives up.
CtxDone ==
  /\ pc # "returned"
  /\ ctx = "live"
  /\ ctx' = "done"
  /\ UNCHANGED <<pc, attempt, delay, slept, sent, status, out, ret>>

Return(result) == pc' = "returned" /\ ret' = result

\* Mutant: the retry loop stops one attempt early.
LastAttemptEarly == attempt + 1 = Retries

LastAttempt == attempt = Retries

\* The loop goes round again, or ends.
Retry ==
  \/ /\ LastAttempt
     /\ Return("exhausted")
     /\ UNCHANGED attempt
  \/ /\ ~LastAttempt
     /\ pc' = "backoff"
     /\ attempt' = attempt + 1
     /\ UNCHANGED ret

\* context.WithTimeout(ctx, Timeout): done as soon as the caller's is.
AttemptCtxDone == ctx = "done"

\* doOnce under a live context puts the request on the wire.
Send ==
  /\ pc = "attempt"
  /\ ~AttemptCtxDone
  /\ pc' = "reply"
  /\ sent' = sent + 1
  /\ status' = "none"
  /\ UNCHANGED <<attempt, delay, slept, ctx, out, ret>>

\* Under a context that is done client.Do fails before it sends anything.
SendNothing ==
  /\ pc = "attempt"
  /\ AttemptCtxDone
  /\ status' = "network"
  /\ Retry
  /\ UNCHANGED <<delay, slept, ctx, sent, out>>

\* Decode writes the fields the body holds.
Decode(fs) == out' = [f \in Fields |-> IF f \in fs THEN attempt + 1 ELSE out[f]]

Succeed ==
  /\ pc = "reply"
  /\ \E fs \in SUBSET Fields : Decode(fs)
  /\ status' = "ok"
  /\ Return("ok")
  /\ UNCHANGED <<attempt, delay, slept, ctx, sent>>

\* A body that does not decode, having set some of the fields or none.
Garble ==
  /\ pc = "reply"
  /\ \E fs \in SUBSET Fields : Decode(fs)
  /\ status' = "garbled"
  /\ Retry
  /\ UNCHANGED <<delay, slept, ctx, sent>>

\* Mutant: a 4xx is treated as any other failure.
RejectRetried ==
  /\ pc = "reply"
  /\ status' = "4xx"
  /\ Retry
  /\ UNCHANGED <<delay, slept, ctx, sent, out>>

Reject ==
  /\ pc = "reply"
  /\ status' = "4xx"
  /\ Return("rejected")
  /\ UNCHANGED <<attempt, delay, slept, ctx, sent, out>>

\* A 5xx, a network error, or the end of the attempt's context.
Fail ==
  /\ pc = "reply"
  /\ status' \in {"network", "5xx"}
  /\ Retry
  /\ UNCHANGED <<delay, slept, ctx, sent, out>>

\* Mutant: a retry that does not lengthen the next pause.
WakeSameDelay ==
  /\ pc = "backoff"
  /\ pc' = "attempt"
  /\ slept' = slept + delay
  /\ UNCHANGED <<attempt, delay, ctx, sent, status, out, ret>>

\* Mutant: the timer is stopped before it is waited for.
WakeNever == FALSE

\* The timer fires. select takes this branch even if ctx is done as well.
Wake ==
  /\ pc = "backoff"
  /\ pc' = "attempt"
  /\ slept' = slept + delay
  /\ delay' = 2 * delay
  /\ UNCHANGED <<attempt, ctx, sent, status, out, ret>>

Cancel ==
  /\ pc = "backoff"
  /\ ctx = "done"
  /\ Return("cancelled")
  /\ UNCHANGED <<attempt, delay, slept, ctx, sent, status, out>>

Done == pc = "returned" /\ UNCHANGED vars

Post == Send \/ SendNothing \/ Succeed \/ Garble \/ Reject \/ Fail \/ Wake \/ Cancel

Next == CtxDone \/ Post \/ Done

Spec == Init /\ [][Next]_vars

\* Every attempt ends, by its own timeout at the latest, and every timer fires.
FairSpec == Spec /\ WF_vars(Post)

----------------------------------------------------------------------------

\* "ctx cancellation is honoured across all attempts": no request leaves once
\* the caller's context is done, nor after a verdict that must not be retried.
SendsWhileWanted ==
  [][sent' # sent => ctx = "live" /\ status \notin {"ok", "4xx"}]_vars

\* Post reports exhausted attempts only after the configured number of
\* retries, each one sent unless the context had ended.
ExhaustedMeansAll ==
  ret = "exhausted" => attempt = Retries /\ (ctx = "live" => sent = Retries + 1)

\* "Each subsequent retry doubles the delay": attempt n follows pauses of
\* (2^n - 1) times the base delay in all, and the next would last 2^n times it.
BackoffDoubles ==
  /\ slept = delay - BaseDelay
  /\ delay = BaseDelay * 2 ^ (IF pc = "backoff" \/ ret = "cancelled"
                              THEN attempt - 1 ELSE attempt)

\* Post returns, whatever the carrier does.
Returns == <>(pc = "returned")

\* "Set to 0 to disable retries" (MaxRetries).
ZeroDisablesRetries == MaxRetries = 0 => attempt = 0

\* "It retries on network errors and HTTP 5xx responses".
RetriesOnlyFailures == pc = "backoff" => status \in {"network", "5xx"}

\* "decodes the JSON response into out": a successful Post hands over what the
\* last response says, with nothing left from the attempts before it.
AnswerIsOneResponse == ret = "ok" => \A f \in Fields : out[f] \in {0, attempt + 1}

=============================================================================
