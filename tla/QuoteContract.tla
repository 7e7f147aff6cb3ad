---------------------------- MODULE QuoteContract ----------------------------
(* What GetQuotes of internal/orchestrator promises its callers, with the    *)
(* singleflight group, the table, its expiry and its sweeps left out. A      *)
(* request is answered once: with the whole result of a fan-out for its key  *)
(* that was running while it waited, its own or one it joined, or with some  *)
(* quotes of its key that fan-outs have offered for reuse, no two of them of *)
(* one carrier. No two fan-outs for a key run together, and what one has     *)
(* found is on offer before anybody is answered with it.                     *)

CONSTANTS
  Requests,
  KeyOf,     \* what requests must have in common to share quotes
  Covering   \* the carriers a request may be offered quotes of

None == "none"

VARIABLES
  running,  \* the requests whose fan-out is running
  follows,  \* the request whose fan-out a request waits for
  found,    \* the carriers a fan-out has brought quotes of
  offered,  \* the fan-outs whose quotes later requests may be given
  done,     \* the requests that have been answered
  answer

vars == <<running, follows, found, offered, done, answer>>

Init ==
  /\ running = {} /\ offered = {} /\ done = {}
  /\ follows = [r \in Requests |-> None]
  /\ found = [r \in Requests |-> {}]
  /\ answer = [r \in Requests |-> {}]

Quotes(r) == [carrier : found[r], from : {r}]

Fresh(r) == r \notin done /\ follows[r] = None

Start(r) ==
  /\ Fresh(r)
  /\ \A s \in running : KeyOf[s] # KeyOf[r]
  /\ running' = running \union {r}
  /\ follows' = [follows EXCEPT ![r] = r]
  /\ UNCHANGED <<found, offered, done, answer>>

Join(r, s) ==
  /\ Fresh(r)
  /\ s \in running /\ KeyOf[s] = KeyOf[r]
  /\ follows' = [follows EXCEPT ![r] = s]
  /\ UNCHANGED <<running, found, offered, done, answer>>

Find(r) ==
  /\ r \in running /\ r \notin offered /\ found[r] = {}
  /\ \E cs \in SUBSET Covering[r] : found' = [found EXCEPT ![r] = cs]
  /\ UNCHANGED <<running, follows, offered, done, answer>>

Offer(r) ==
  /\ r \in running
  /\ offered' = offered \union {r}
  /\ UNCHANGED <<running, follows, found, done, answer>>

Answer(r, qs) ==
  /\ r \notin done
  /\ done' = done \union {r}
  /\ answer' = [answer EXCEPT ![r] = qs]
  /\ UNCHANGED <<follows, found, offered>>

End(r) ==
  /\ r \in running
  /\ found[r] # {} => r \in offered
  /\ Answer(r, Quotes(r))
  /\ running' = running \ {r}

Share(r) ==
  /\ r \notin running /\ follows[r] \in done
  /\ Answer(r, Quotes(follows[r]))
  /\ UNCHANGED running

OnOffer(k) == UNION {Quotes(s) : s \in {t \in offered : KeyOf[t] = k}}

Reuse(r) ==
  /\ Fresh(r)
  /\ \E qs \in SUBSET OnOffer(KeyOf[r]) :
       /\ qs # {}
       /\ \A p, q \in qs : p.carrier = q.carrier => p = q
       /\ Answer(r, qs)
  /\ UNCHANGED running

Next ==
  \E r \in Requests :
    \/ Start(r) \/ Find(r) \/ Offer(r) \/ End(r) \/ Share(r) \/ Reuse(r)
    \/ \E s \in Requests : Join(r, s)

Spec == Init /\ [][Next]_vars

=============================================================================
