------------------------- MODULE HTTPCarrierProofs -------------------------
(* For any settings of retries and delay: what Post sends, when it gives up *)
(* and how long it pauses. The inductive invariant ties the number of       *)
(* requests to the loop's counter at each program point, and the pauses to  *)
(* the retries taken.                                                       *)
EXTENDS HTTPCarrier, TLAPS

LEMMA Settings ==
  /\ Retries \in Nat \ {0}
  /\ BaseDelay \in Nat \ {0}
BY CarrierConfig DEF Retries, BaseDelay, DefaultRetries, DefaultDelay

\* Post has a result exactly when it has returned, and pauses only before a
\* retry.
Control ==
  /\ ret = "none" <=> pc # "returned"
  /\ pc = "backoff" \/ ret = "cancelled" => attempt > 0

\* No attempt is to come after a verdict that must not be retried.
Verdict == pc \in {"attempt", "backoff"} => status \notin {"ok", "4xx"}

\* One request per attempt while the context lives, and never more.
Requests ==
  /\ pc \in {"attempt", "backoff"} =>
       sent <= attempt /\ (ctx = "live" => sent = attempt)
  /\ pc = "reply" => sent <= attempt + 1 /\ (ctx = "live" => sent = attempt + 1)

Inv == TypeOK /\ Control /\ Verdict /\ Requests /\ ExhaustedMeansAll

LEMMA InvInit == ASSUME Init PROVE Inv
BY Settings DEF Init, Inv, TypeOK, Statuses, Results, Control, Verdict, Requests,
                ExhaustedMeansAll

LEMMA InvStep == ASSUME Inv, [Next]_vars PROVE Inv'
<1> USE Settings DEF Inv, TypeOK, Statuses, Results, Control, Verdict, Requests,
                     ExhaustedMeansAll, Return
<1>1. CASE CtxDone BY <1>1 DEF CtxDone
<1>2. CASE Send BY <1>2 DEF Send, AttemptCtxDone
<1>3. CASE SendNothing
  BY <1>3 DEF SendNothing, AttemptCtxDone, Retry, LastAttempt
<1>4. CASE Succeed BY <1>4 DEF Succeed, Decode
<1>5. CASE Garble BY <1>5 DEF Garble, Decode, Retry, LastAttempt
<1>6. CASE Reject BY <1>6 DEF Reject
<1>7. CASE Fail BY <1>7 DEF Fail, Retry, LastAttempt
<1>8. CASE Wake BY <1>8 DEF Wake
<1>9. CASE Cancel BY <1>9 DEF Cancel
<1>10. CASE Done \/ UNCHANGED vars BY <1>10 DEF Done, vars
<1> QED
  BY <1>1, <1>2, <1>3, <1>4, <1>5, <1>6, <1>7, <1>8, <1>9, <1>10 DEF Next, Post

\* What Post's variables, its requests and its result have to do with each
\* other, at every point of the loop.
THEOREM CarrierInvariant == Spec => []Inv
<1>1. Init => Inv BY InvInit
<1>2. Inv /\ [Next]_vars => Inv' BY InvStep
<1> QED BY <1>1, <1>2, PTL DEF Spec

\* Post gives up as exhausted only after Retries retries, all of them sent while
\* the context lived, whatever the settings.
THEOREM ExhaustedIsExhausted == Spec => []ExhaustedMeansAll
<1>1. Inv => ExhaustedMeansAll BY DEF Inv
<1> QED BY <1>1, CarrierInvariant, PTL

\* Only Send puts a request on the wire.
LEMMA OnlySend == ASSUME Inv, [Next]_vars, sent' # sent PROVE Send
BY DEF Next, Post, CtxDone, SendNothing, Succeed, Garble, Reject, Fail, Wake,
       Cancel, Done, vars

\* No request leaves after the caller's context is done or after a verdict.
THEOREM SendsOnlyWhileWanted == Spec => SendsWhileWanted
<1>1. Inv /\ [Next]_vars
        => [sent' # sent => ctx = "live" /\ status \notin {"ok", "4xx"}]_vars
  BY OnlySend DEF Inv, TypeOK, Verdict, Send, AttemptCtxDone
<1> QED BY <1>1, CarrierInvariant, PTL DEF Spec, SendsWhileWanted

----------------------------------------------------------------------------
(* The pauses. The provers know of exponentiation only that it gives an     *)
(* integer, so the two equations that define the powers of two are a        *)
(* hypothesis of what follows.                                              *)

PowersOfTwo == 2 ^ 0 = 1 /\ \A n \in Nat : 2 ^ (n + 1) = 2 * 2 ^ n

\* The retries that have been paused for.
Paused == IF pc = "backoff" \/ ret = "cancelled" THEN attempt - 1 ELSE attempt

LEMMA BackoffStep ==
  ASSUME PowersOfTwo, Inv, BackoffDoubles, [Next]_vars PROVE BackoffDoubles'
<1> USE Settings DEF Inv, TypeOK, Control
<1>0. Paused \in Nat /\ 2 ^ Paused \in Int /\ 2 ^ (Paused + 1) = 2 * 2 ^ Paused
  BY DEF PowersOfTwo, Paused
<1>1. CASE Wake
  <2>1. Paused' = Paused + 1 BY <1>1 DEF Wake, Paused
  <2>2. delay' = 2 * delay /\ slept' = slept + delay BY <1>1 DEF Wake
  <2>3. slept = delay - BaseDelay /\ delay = BaseDelay * 2 ^ Paused
    BY DEF BackoffDoubles, Paused
  <2>4. delay' = BaseDelay * 2 ^ Paused'
    BY <1>0, <2>1, <2>2, <2>3
  <2>5. slept' = delay' - BaseDelay BY <2>2, <2>3
  <2> QED BY <2>4, <2>5 DEF BackoffDoubles, Paused
<1>2. CASE ~Wake
  <2>1. UNCHANGED <<delay, slept>>
    BY <1>2 DEF Next, Post, CtxDone, Send, SendNothing, Succeed, Garble, Reject,
                Fail, Cancel, Done, vars
  <2>2. Paused' = Paused
    BY <1>2 DEF Next, Post, CtxDone, Send, SendNothing, Succeed, Garble, Reject,
                Fail, Cancel, Done, vars, Retry, LastAttempt, Return, Paused
  <2> QED BY <2>1, <2>2 DEF BackoffDoubles, Paused
<1> QED BY <1>1, <1>2

\* The pause before a retry is the base delay doubled once per retry before it,
\* for any base delay and any number of retries, and whichever failures and
\* cancellations come in between.
THEOREM BackoffIsExponential ==
  ASSUME PowersOfTwo PROVE Spec => []BackoffDoubles
<1>1. Init => BackoffDoubles
  BY Settings DEF Init, BackoffDoubles, PowersOfTwo
<1>2. Inv /\ BackoffDoubles /\ [Next]_vars => BackoffDoubles' BY BackoffStep
<1> QED BY <1>1, <1>2, CarrierInvariant, PTL DEF Spec
=============================================================================
