--------------------------- MODULE FanOutContract ---------------------------
(* What one fanOut of internal/orchestrator promises GetQuotes, with the    *)
(* goroutines, the channel, the limiters and the breakers left out: only    *)
(* carriers that were asked offer a quote, the first quote of each carrier  *)
(* counts, a quote is lost to the deadline or, if it comes from a hedge, to *)
(* the end of the primary calls, and the one answer holds every quote that  *)
(* counts in order of premium.                                              *)
EXTENDS Integers, Sequences, FiniteSets

CONSTANTS
  Carriers, \* those that cover what the request asks for
  Offers    \* what calls may bring: who started the call, and the quote

VARIABLES
  asked,    \* the carriers the request goes to
  expired,  \* its deadline has passed
  due,      \* offers obtained from carriers and not handed over yet
  quotes,   \* the quotes that count
  answered,
  answer    \* in the order in which they are returned

vars == <<asked, expired, due, quotes, answered, answer>>

Init ==
  /\ asked = {} /\ due = {} /\ quotes = {}
  /\ expired = FALSE
  /\ answered = FALSE /\ answer = <<>>

\* With nobody to ask the answer is empty.
Ask ==
  /\ asked = {} /\ ~answered
  /\ asked' \in SUBSET Carriers
  /\ answered' = (asked' = {})
  /\ UNCHANGED <<expired, due, quotes, answer>>

Expire ==
  /\ expired' = TRUE
  /\ UNCHANGED <<asked, due, quotes, answered, answer>>

\* A primary call brings a quote of its own carrier, a hedge one of another.
Obtain(o) ==
  /\ {o.by, o.quote.carrier} \subseteq asked
  /\ o.quote.hedged <=> o.by # o.quote.carrier
  /\ ~answered
  /\ due' = due \union {o}
  /\ UNCHANGED <<asked, expired, quotes, answered, answer>>

Counted(c) == \E q \in quotes : q.carrier = c

HandOver(o) ==
  /\ o \in due
  /\ due' = due \ {o}
  /\ quotes' = IF Counted(o.quote.carrier) THEN quotes
               ELSE quotes \union {o.quote}
  /\ UNCHANGED <<asked, expired, answered, answer>>

\* A hedge that answers when no primary has a quote to hand over may be late.
Lose(o) ==
  /\ o \in due
  /\ expired \/ \A d \in due : d.quote.hedged
  /\ due' = due \ {o}
  /\ UNCHANGED <<asked, expired, quotes, answered, answer>>

Before(q, r) == \/ q.amount < r.amount
                \/ q.amount = r.amount /\ q.carrier < r.carrier

InOrder(a) ==
  /\ {a[i] : i \in 1 .. Len(a)} = quotes
  /\ \A i, j \in 1 .. Len(a) : i < j => Before(a[i], a[j])

Answer ==
  /\ asked # {} /\ ~answered
  /\ due = {}
  /\ answered' = TRUE
  /\ InOrder(answer')
  /\ UNCHANGED <<asked, expired, due, quotes>>

Next ==
  \/ Ask \/ Expire \/ Answer
  \/ \E o \in Offers : Obtain(o) \/ HandOver(o) \/ Lose(o)

Spec == Init /\ [][Next]_vars

=============================================================================
