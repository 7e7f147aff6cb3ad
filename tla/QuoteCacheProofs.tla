-------------------------- MODULE QuoteCacheProofs --------------------------
(* For any requests, API keys and carriers: one fan-out at a time for a     *)
(* key, answers of the request's own key, nothing handed out before its     *)
(* save has ended, and the contract of GetQuotes. The invariant says where  *)
(* a quote can be (the group, the table, an answer) and that it keeps its   *)
(* key on the way; OneFlightPerKey is needed in it because Finish empties   *)
(* the group's entry for its key. The refinement needs more of it: that the *)
(* group names fan-outs that run, that a row is a quote its fan-out brought *)
(* and that no other row has its key and carrier.                           *)
EXTENDS QuoteCache, SequenceTheorems, TLAPS

\* A quote, a row and an entry of the group belong to the key they are under.
Keyed ==
  /\ \A k \in Keys : calls[k] # None => ScopedKey[calls[k]] = k
  /\ \A r \in Requests : leader[r] # None => ScopedKey[leader[r]] = ScopedKey[r]
  /\ \A r \in Requests : pc[r] = "wait" => leader[r] # None
  /\ \A x \in rows : x.key = ScopedKey[x.quote.from]
  /\ \A r \in Requests : \A q \in answer[r] : ScopedKey[q.from] = ScopedKey[r]

\* A quote leaves its fan-out only after the save has ended.
SavedFirst ==
  /\ \A r \in Requests : quotes[r] # {} => pc[r] \in {"save", "finish", "done"}
  /\ \A r \in Requests :
       quotes[r] # {} /\ pc[r] \in {"finish", "done"} => r \in saved
  /\ \A x \in rows : x.quote.from \in saved

Inv == TypeOK /\ OneFlightPerKey /\ Keyed /\ SavedFirst /\ SavedBeforeAnswered

LEMMA KeyType == \A r \in Requests : ScopedKey[r] \in Keys
BY DEF Keys

LEMMA NoneIsNoRequest == None \notin Requests
BY QuoteCacheConstants DEF QuoteCacheConstants

LEMMA InvInit == ASSUME Init PROVE Inv
BY NoneIsNoRequest
   DEF Init, Inv, TypeOK, OneFlightPerKey, InFlight, Keyed, SavedFirst,
       SavedBeforeAnswered

LEMMA TypeStep == ASSUME Inv, [Next]_vars PROVE TypeOK'
<1> USE KeyType DEF Inv, TypeOK
<1>1. ASSUME NEW r \in Requests, Lookup(r) PROVE TypeOK'
  <2>1. Stored(ScopedKey[r]) \subseteq Quote BY DEF Stored, Row
  <2> QED BY <1>1, <2>1 DEF Lookup, Goto
<1>2. ASSUME NEW r \in Requests, Lead(r) \/ Follow(r) PROVE TypeOK'
  BY <1>2 DEF Lead, Follow, Goto
<1>3. ASSUME NEW r \in Requests, RunFanOut(r) PROVE TypeOK'
  <2>1. Covering[r] \subseteq Carriers BY QuoteCacheConstants DEF QuoteCacheConstants
  <2>2. quotes' \in [Requests -> SUBSET Carriers] BY <1>3, <2>1 DEF RunFanOut
  <2> QED BY <1>3, <2>2 DEF RunFanOut, Goto
<1>4. ASSUME NEW r \in Requests, Save(r) PROVE TypeOK'
  <2>1. Inserted(r) \subseteq Row BY DEF Inserted, Row, Quote
  <2> QED BY <1>4, <2>1 DEF Save, Goto
<1>5. ASSUME NEW r \in Requests, Finish(r) PROVE TypeOK'
  <2>1. Quotes(r) \subseteq Quote BY DEF Quotes, Quote
  <2> QED BY <1>5, <2>1 DEF Finish, Goto
<1>6. ASSUME NEW r \in Requests, Wake(r) PROVE TypeOK'
  <2>1. leader[r] \in Requests BY <1>6 DEF Wake, Goto, Keyed
  <2>2. Quotes(leader[r]) \subseteq Quote BY <2>1 DEF Quotes, Quote
  <2> QED BY <1>6, <2>2 DEF Wake, Goto
<1>7. ASSUME NEW x \in rows, Expire(x) PROVE TypeOK'
  <2>1. Dead(x) \in Row BY DEF Row, Dead
  <2> QED BY <1>7, <2>1 DEF Expire
<1>8. CASE Sweep
  BY <1>8 DEF Sweep
<1>9. CASE AllDone \/ UNCHANGED vars
  BY <1>9 DEF AllDone, vars
<1> QED BY <1>1, <1>2, <1>3, <1>4, <1>5, <1>6, <1>7, <1>8, <1>9 DEF Next, Step

LEMMA FlightStep == ASSUME Inv, [Next]_vars PROVE OneFlightPerKey'
<1> USE KeyType, NoneIsNoRequest DEF Inv, TypeOK, OneFlightPerKey, InFlight
<1>1. ASSUME NEW r \in Requests, Step(r) PROVE OneFlightPerKey'
  <2>1. CASE Lookup(r) BY <2>1 DEF Lookup, Goto
  <2>2. CASE Lead(r) BY <2>2 DEF Lead, Goto
  <2>3. CASE Follow(r) BY <2>3 DEF Follow, Goto
  <2>4. CASE RunFanOut(r) BY <2>4 DEF RunFanOut, Goto
  <2>5. CASE Save(r) BY <2>5 DEF Save, Goto
  <2>6. CASE Finish(r) BY <2>6 DEF Finish, Goto
  <2>7. CASE Wake(r) BY <2>7 DEF Wake, Goto
  <2> QED BY <1>1, <2>1, <2>2, <2>3, <2>4, <2>5, <2>6, <2>7 DEF Step
<1>2. ASSUME NEW x \in rows, Expire(x) PROVE OneFlightPerKey'
  BY <1>2 DEF Expire
<1>3. CASE Sweep \/ AllDone \/ UNCHANGED vars
  BY <1>3 DEF Sweep, AllDone, vars
<1> QED BY <1>1, <1>2, <1>3 DEF Next

\* Where the quotes of a table row come from.
LEMMA StoredFrom ==
  ASSUME Inv, NEW k \in Keys, NEW q \in Stored(k)
  PROVE  q.from \in saved /\ ScopedKey[q.from] = k
<1>1. PICK x \in rows : x.key = k /\ x.quote = q BY DEF Stored
<1> QED BY <1>1 DEF Inv, Keyed, SavedFirst

LEMMA KeyedStep == ASSUME Inv, [Next]_vars PROVE Keyed'
<1> USE KeyType, NoneIsNoRequest DEF Inv, TypeOK, Keyed
<1>1. ASSUME NEW r \in Requests, Step(r) PROVE Keyed'
  <2>1. CASE Lookup(r)
    <3>1. \A q \in Stored(ScopedKey[r]) : ScopedKey[q.from] = ScopedKey[r]
      BY StoredFrom
    <3>2. answer'[r] \in {answer[r], Stored(ScopedKey[r])}
      BY <2>1 DEF Lookup
    <3>3. \A s \in Requests \ {r} : answer'[s] = answer[s]
      BY <2>1 DEF Lookup
    <3>4. \A s \in Requests : \A q \in answer'[s] :
            ScopedKey[q.from] = ScopedKey[s]
      BY <3>1, <3>2, <3>3
    <3> QED BY <2>1, <3>4 DEF Lookup, Goto
  <2>2. CASE Lead(r) BY <2>2 DEF Lead, Goto
  <2>3. CASE Follow(r) BY <2>3 DEF Follow, Goto
  <2>4. CASE RunFanOut(r) BY <2>4 DEF RunFanOut, Goto
  <2>5. CASE Save(r)
    <3>1. \A x \in Inserted(r) : x.key = ScopedKey[x.quote.from]
      BY DEF Inserted
    <3>2. \A x \in rows' : x.key = ScopedKey[x.quote.from]
      BY <2>5, <3>1 DEF Save
    <3> QED BY <2>5, <3>2 DEF Save, Goto
  <2>6. CASE Finish(r)
    <3>1. \A q \in Quotes(r) : q.from = r BY DEF Quotes
    <3> QED BY <2>6, <3>1 DEF Finish, Goto
  <2>7. CASE Wake(r)
    <3>1. \A q \in Quotes(leader[r]) : q.from = leader[r] BY DEF Quotes
    <3>2. leader[r] # None BY <2>7 DEF Wake, Goto
    <3> QED BY <2>7, <3>1, <3>2 DEF Wake, Goto
  <2> QED BY <1>1, <2>1, <2>2, <2>3, <2>4, <2>5, <2>6, <2>7 DEF Step
<1>2. ASSUME NEW x \in rows, Expire(x) PROVE Keyed'
  <2>1. Dead(x).key = x.key /\ Dead(x).quote = x.quote BY DEF Dead
  <2>2. \A y \in rows' : y.key = ScopedKey[y.quote.from]
    BY <1>2, <2>1 DEF Expire
  <2> QED BY <1>2, <2>2 DEF Expire
<1>3. CASE Sweep \/ AllDone \/ UNCHANGED vars
  BY <1>3 DEF Sweep, AllDone, vars
<1> QED BY <1>1, <1>2, <1>3 DEF Next

LEMMA SavedStep ==
  ASSUME Inv, [Next]_vars PROVE SavedFirst' /\ SavedBeforeAnswered'
<1> USE NoneIsNoRequest DEF Inv, TypeOK, SavedFirst, SavedBeforeAnswered
<1>1. ASSUME NEW r \in Requests, Step(r)
      PROVE  SavedFirst' /\ SavedBeforeAnswered'
  <2>1. CASE Lookup(r)
    <3>1. \A q \in Stored(ScopedKey[r]) : q.from \in saved
      BY StoredFrom, KeyType
    <3> QED BY <2>1, <3>1 DEF Lookup, Goto
  <2>2. CASE Lead(r) BY <2>2 DEF Lead, Goto
  <2>3. CASE Follow(r) BY <2>3 DEF Follow, Goto
  <2>4. CASE RunFanOut(r) BY <2>4 DEF RunFanOut, Goto
  <2>5. CASE Save(r)
    <3>1. \A x \in Inserted(r) : x.quote.from = r BY DEF Inserted
    <3>2. \A x \in rows' : x.quote.from \in saved' BY <2>5, <3>1 DEF Save
    <3> QED BY <2>5, <3>2 DEF Save, Goto
  <2>6. CASE Finish(r)
    <3>1. \A q \in Quotes(r) : q.from = r /\ quotes[r] # {} BY DEF Quotes
    <3> QED BY <2>6, <3>1 DEF Finish, Goto
  <2>7. CASE Wake(r)
    <3>1. leader[r] \in Requests BY <2>7 DEF Wake, Goto, Keyed
    <3>2. \A q \in Quotes(leader[r]) : q.from = leader[r] /\ quotes[leader[r]] # {}
      BY DEF Quotes
    <3>3. \A q \in Quotes(leader[r]) : q.from \in saved
      BY <2>7, <3>1, <3>2 DEF Wake
    <3> QED BY <2>7, <3>3 DEF Wake, Goto
  <2> QED BY <1>1, <2>1, <2>2, <2>3, <2>4, <2>5, <2>6, <2>7 DEF Step
<1>2. ASSUME NEW x \in rows, Expire(x)
      PROVE  SavedFirst' /\ SavedBeforeAnswered'
  <2>1. Dead(x).quote = x.quote BY DEF Dead
  <2> QED BY <1>2, <2>1 DEF Expire
<1>3. CASE Sweep \/ AllDone \/ UNCHANGED vars
  BY <1>3 DEF Sweep, AllDone, vars
<1> QED BY <1>1, <1>2, <1>3 DEF Next

LEMMA InvAlways == Spec => []Inv
<1>1. Init => Inv BY InvInit
<1>2. Inv /\ [Next]_vars => Inv'
  BY TypeStep, FlightStep, KeyedStep, SavedStep DEF Inv
<1> QED BY <1>1, <1>2, PTL DEF Spec

\* For any number of requests, singleflight lets one fan-out run at a time
\* for a client id and request id.
THEOREM FlightIsUnique == Spec => []OneFlightPerKey
<1>1. Inv => OneFlightPerKey BY DEF Inv
<1> QED BY <1>1, InvAlways, PTL

\* Quotes reach a caller, by a fan-out, a shared one or the table, only after
\* their save has ended.
THEOREM SaveComesFirst == Spec => []SavedBeforeAnswered
<1>1. Inv => SavedBeforeAnswered BY DEF Inv
<1> QED BY <1>1, InvAlways, PTL

\* A client id is a sequence of characters.
LEMMA ClientType == \A r \in Requests : Client(r) \in Seq(Chars)
<1> SUFFICES ASSUME NEW r \in Requests PROVE Client(r) \in Seq(Chars)
  OBVIOUS
<1> DEFINE k == HolderOf[r]
<1>1. k \in Seq(Chars) /\ Dots \in Seq(Chars)
  BY QuoteCacheConstants DEF QuoteCacheConstants, Dots
<1>2. CASE Len(k) > IDLength
  <2>1. 1 \in Int /\ IDLength \in Int /\ IDLength <= Len(k) /\ Len(k) \in Nat
    BY <1>1, <1>2, QuoteCacheConstants DEF QuoteCacheConstants
  <2>2. SubSeq(k, 1, IDLength) \in Seq(Chars)
    BY <1>1, <2>1, SubSeqProperties
  <2>3. SubSeq(k, 1, IDLength) \o Dots \in Seq(Chars)
    BY <1>1, <2>2, ConcatProperties
  <2> QED BY <1>2, <2>3 DEF Client, ClientID
<1>3. CASE ~(Len(k) > IDLength)
  BY <1>1, <1>3 DEF Client, ClientID
<1> QED BY <1>2, <1>3

LEMMA Joining ==
  ASSUME NEW d \in Seq(Chars), NEW e \in Seq(Chars)
  PROVE  /\ d \o e \in Seq(Chars)
         /\ Len(d \o e) = Len(d) + Len(e)
         /\ \A n \in 1 .. Len(d) : (d \o e)[n] = d[n]
         /\ \A n \in 1 .. Len(e) : (d \o e)[Len(d) + n] = e[n]
<1> DEFINE s == d \o e
<1>1. /\ s \in Seq(Chars) /\ Len(s) = Len(d) + Len(e)
      /\ \A n \in 1 .. Len(d) + Len(e) :
           s[n] = IF n <= Len(d) THEN d[n] ELSE e[n - Len(d)]
  BY ConcatProperties, Zenon
<1>2. Len(d) \in Nat /\ Len(e) \in Nat OBVIOUS
<1> HIDE DEF s
<1>3. \A n \in 1 .. Len(d) : s[n] = d[n] BY <1>1, <1>2
<1>4. ASSUME NEW n \in 1 .. Len(e) PROVE s[Len(d) + n] = e[n]
  <2>1. Len(d) + n \in 1 .. Len(d) + Len(e) /\ ~(Len(d) + n <= Len(d))
    BY <1>2
  <2>2. s[Len(d) + n] = e[(Len(d) + n) - Len(d)] BY <1>1, <2>1
  <2> QED BY <1>2, <2>2
<1> QED BY <1>1, <1>3, <1>4 DEF s

Joined(c, i) == c \o <<Colon>> \o i

\* Where the parts of a scoped key are in it.
LEMMA Parts ==
  ASSUME NEW c \in Seq(Chars), NEW i \in Seq(Chars)
  PROVE  /\ Len(Joined(c, i)) = Len(c) + 1 + Len(i)
         /\ \A n \in 1 .. Len(c) : Joined(c, i)[n] = c[n]
         /\ Joined(c, i)[Len(c) + 1] = Colon
         /\ \A n \in 1 .. Len(i) : Joined(c, i)[Len(c) + 1 + n] = i[n]
<1> DEFINE b == <<Colon>>  h == c \o b
<1>1. b \in Seq(Chars) /\ Len(b) = 1 /\ b[1] = Colon
  BY QuoteCacheConstants DEF QuoteCacheConstants
<1> HIDE DEF b
<1>2. /\ h \in Seq(Chars) /\ Len(h) = Len(c) + 1
      /\ \A n \in 1 .. Len(c) : h[n] = c[n]
      /\ h[Len(c) + 1] = Colon
  <2>1. /\ h \in Seq(Chars) /\ Len(h) = Len(c) + Len(b)
        /\ \A n \in 1 .. Len(c) : h[n] = c[n]
        /\ \A n \in 1 .. Len(b) : h[Len(c) + n] = b[n]
    BY <1>1, Joining, Zenon
  <2> HIDE DEF h
  <2>2. Len(c) \in Nat OBVIOUS
  <2> QED BY <1>1, <2>1, <2>2
<1> HIDE DEF h
<1>3. /\ Len(h \o i) = Len(h) + Len(i)
      /\ \A n \in 1 .. Len(h) : (h \o i)[n] = h[n]
      /\ \A n \in 1 .. Len(i) : (h \o i)[Len(h) + n] = i[n]
  BY <1>2, Joining
<1> DEFINE s == h \o i
<1> HIDE DEF s
<1>4. /\ Len(s) = Len(c) + 1 + Len(i)
      /\ \A n \in 1 .. Len(c) : s[n] = c[n]
      /\ s[Len(c) + 1] = Colon
      /\ \A n \in 1 .. Len(i) : s[Len(c) + 1 + n] = i[n]
  <2>1. /\ Len(s) = Len(h) + Len(i)
        /\ \A n \in 1 .. Len(h) : s[n] = h[n]
        /\ \A n \in 1 .. Len(i) : s[Len(h) + n] = i[n]
    BY <1>3 DEF s
  <2>2. Len(c) \in Nat /\ Len(i) \in Nat OBVIOUS
  <2> QED BY <1>2, <2>1, <2>2
<1>5. Joined(c, i) = s BY DEF Joined, s, h, b
<1> QED BY <1>4, <1>5

\* The colon of a scoped key is found again if the client ids are Separable.
LEMMA PartsAreUnique ==
  ASSUME NEW c \in Seq(Chars), NEW i \in Seq(Chars),
         NEW d \in Seq(Chars), NEW j \in Seq(Chars),
         Separable(c, d), Joined(c, i) = Joined(d, j)
  PROVE  c = d /\ i = j
<1> DEFINE s == Joined(c, i)  t == Joined(d, j)
<1>0. s = t OBVIOUS
<1>1. /\ Len(s) = Len(c) + 1 + Len(i)
      /\ \A n \in 1 .. Len(c) : s[n] = c[n]
      /\ s[Len(c) + 1] = Colon
      /\ \A n \in 1 .. Len(i) : s[Len(c) + 1 + n] = i[n]
  BY Parts
<1>2. /\ Len(t) = Len(d) + 1 + Len(j)
      /\ \A n \in 1 .. Len(d) : t[n] = d[n]
      /\ t[Len(d) + 1] = Colon
      /\ \A n \in 1 .. Len(j) : t[Len(d) + 1 + n] = j[n]
  BY Parts
<1> HIDE DEF s, t
<1>3. /\ Len(c) \in Nat /\ Len(d) \in Nat /\ Len(i) \in Nat /\ Len(j) \in Nat
  OBVIOUS
<1>4. Len(c) = Len(d)
  <2>1. CASE Len(c) < Len(d)
    <3>1. Len(c) + 1 \in 1 .. Len(d) /\ d[Len(c) + 1] = Colon
      BY <1>0, <1>1, <1>2, <1>3, <2>1
    <3> QED BY <2>1, <3>1 DEF Separable, HasColon
  <2>2. CASE Len(d) < Len(c)
    <3>1. Len(d) + 1 \in 1 .. Len(c) /\ c[Len(d) + 1] = Colon
      BY <1>0, <1>1, <1>2, <1>3, <2>2
    <3> QED BY <2>2, <3>1 DEF Separable, HasColon
  <2> QED BY <1>3, <2>1, <2>2
<1>5. c = d BY <1>0, <1>1, <1>2, <1>4, SeqEqual
<1>6. Len(i) = Len(j) BY <1>0, <1>1, <1>2, <1>3, <1>4
<1>7. \A n \in 1 .. Len(i) : i[n] = j[n] BY <1>0, <1>1, <1>2, <1>4, <1>6
<1> QED BY <1>5, <1>6, <1>7, SeqEqual

\* AnswersAreOwn: every quote a request is given was obtained under its own
\* client id and request id, as far as the two can be read off a scoped key.
THEOREM AnswersStayWithTheirKey == Spec => []AnswersAreOwn
<1>1. Inv => AnswersAreOwn
  <2> SUFFICES ASSUME Inv, NEW r \in Requests, NEW q \in answer[r],
                      Separable(Client(q.from), Client(r))
               PROVE  Client(q.from) = Client(r) /\ IDOf[q.from] = IDOf[r]
    BY DEF AnswersAreOwn
  <2>1. q.from \in Requests BY DEF Inv, TypeOK, Quote
  <2>2. ScopedKey[q.from] = ScopedKey[r] BY DEF Inv, Keyed
  <2>3. Joined(Client(q.from), IDOf[q.from]) = Joined(Client(r), IDOf[r])
    BY <2>1, <2>2 DEF ScopedKey, Joined
  <2>4. IDOf[q.from] \in Seq(Chars) /\ IDOf[r] \in Seq(Chars)
    BY <2>1, QuoteCacheConstants DEF QuoteCacheConstants
  <2> QED BY <2>1, <2>3, <2>4, ClientType, PartsAreUnique
<1> QED BY <1>1, InvAlways, PTL

----------------------------------------------------------------------------
(* The refinement of QuoteContract                                          *)

\* A fan-out is followed only while it runs, and starts with nothing found.
Placed ==
  /\ \A k \in Keys : calls[k] # None => pc[calls[k]] \in InFlight
  /\ \A r \in Requests : pc[r] \in {"lookup", "join"} => leader[r] = None
  /\ \A r \in Requests : pc[r] \in {"lookup", "join", "fanOut"} =>
       quotes[r] = {} /\ r \notin saved

\* The table holds what fan-outs brought, and one row for a key and carrier.
Sourced == \A x \in rows : x.quote.carrier \in quotes[x.quote.from]

Unrivalled ==
  \A x, y \in rows :
    x.key = y.key /\ x.quote.carrier = y.quote.carrier => x = y

CInv == Inv /\ Placed /\ Sourced /\ Unrivalled

LEMMA CInvInit == ASSUME Init PROVE CInv
BY InvInit DEF Init, CInv, Placed, Sourced, Unrivalled, InFlight

LEMMA PlacedStep == ASSUME CInv, [Next]_vars PROVE Placed'
<1> USE KeyType, NoneIsNoRequest
    DEF CInv, Inv, TypeOK, OneFlightPerKey, Keyed, Placed, InFlight
<1>1. ASSUME NEW r \in Requests, Step(r) PROVE Placed'
  <2>1. CASE Lookup(r) BY <2>1 DEF Lookup, Goto
  <2>2. CASE Lead(r) BY <2>2 DEF Lead, Goto
  <2>3. CASE Follow(r) BY <2>3 DEF Follow, Goto
  <2>4. CASE RunFanOut(r) BY <2>4 DEF RunFanOut, Goto
  <2>5. CASE Save(r) BY <2>5 DEF Save, Goto
  <2>6. CASE Finish(r)
    <3>1. \A k \in Keys : calls'[k] # None => pc'[calls'[k]] \in InFlight
      BY <2>6 DEF Finish, Goto
    <3> QED BY <2>6, <3>1 DEF Finish, Goto
  <2>7. CASE Wake(r) BY <2>7 DEF Wake, Goto
  <2> QED BY <1>1, <2>1, <2>2, <2>3, <2>4, <2>5, <2>6, <2>7 DEF Step
<1>2. ASSUME NEW x \in rows, Expire(x) PROVE Placed'
  BY <1>2 DEF Expire
<1>3. CASE Sweep \/ AllDone \/ UNCHANGED vars
  BY <1>3 DEF Sweep, AllDone, vars
<1> QED BY <1>1, <1>2, <1>3 DEF Next

LEMMA RowIsItsFields ==
  ASSUME NEW K, NEW Q, NEW L, NEW x \in [key : K, quote : Q, live : L]
  PROVE  x = [key |-> x.key, quote |-> x.quote, live |-> x.live]
OBVIOUS

LEMMA RowsStep == ASSUME CInv, [Next]_vars PROVE Sourced' /\ Unrivalled'
<1> USE DEF Sourced, Unrivalled
<1>1. \A x \in rows : x.quote.from \in Requests
  BY DEF CInv, Inv, TypeOK, Row, Quote
<1>2. ASSUME NEW r \in Requests, RunFanOut(r) PROVE Sourced' /\ Unrivalled'
  <2>1. r \notin saved BY <1>2 DEF RunFanOut, Goto, CInv, Placed
  <2>2. \A x \in rows : x.quote.from # r BY <2>1 DEF CInv, Inv, SavedFirst
  <2>3. \A s \in Requests \ {r} : quotes'[s] = quotes[s]
    BY <1>2 DEF RunFanOut, CInv, Inv, TypeOK
  <2> QED BY <1>1, <1>2, <2>2, <2>3 DEF RunFanOut, CInv
<1>3. ASSUME NEW r \in Requests, Save(r) PROVE Sourced' /\ Unrivalled'
  <2>1. \A x \in Inserted(r) : /\ x.key = ScopedKey[r] /\ x.quote.from = r
                               /\ x.quote.carrier \in quotes[r]
    BY DEF Inserted
  <2>2. \A x, y \in Inserted(r) : x.quote.carrier = y.quote.carrier => x = y
    <3>1. \A x \in Inserted(r) :
            x.quote = [carrier |-> x.quote.carrier, from |-> r]
      <4>1. \A x \in Inserted(r) : x.quote \in [carrier : quotes[r], from : {r}]
        BY DEF Inserted
      <4> QED BY <4>1
    <3>2. \A x \in Inserted(r) :
            x = [key |-> x.key, quote |-> x.quote, live |-> x.live]
      BY RowIsItsFields DEF Inserted
    <3>3. \A x \in Inserted(r) : x.key = ScopedKey[r] /\ x.live = TRUE
      BY DEF Inserted
    <3>4. ASSUME NEW x \in Inserted(r), NEW y \in Inserted(r),
                 x.quote.carrier = y.quote.carrier
          PROVE  x = y
      <4>1. x.quote = y.quote BY <3>1, <3>4
      <4>2. x.key = y.key /\ x.live = y.live BY <3>3
      <4> QED BY <3>2, <4>1, <4>2
    <3> QED BY <3>4
  <2>3. CASE UNCHANGED rows BY <1>3, <2>3 DEF Save, CInv
  <2>4. CASE rows' = (rows \ Replaced(r)) \union Inserted(r)
    <3>1. Sourced' BY <1>3, <2>1, <2>4 DEF Save, CInv
    <3>2. ASSUME NEW x \in rows', NEW y \in rows', x.key = y.key,
                 x.quote.carrier = y.quote.carrier
          PROVE  x \in Inserted(r) <=> y \in Inserted(r)
      BY <2>1, <2>4, <3>2 DEF Replaced
    <3>3. Unrivalled' BY <2>2, <2>4, <3>2 DEF CInv
    <3> QED BY <3>1, <3>3
  <2> QED BY <1>3, <2>3, <2>4 DEF Save
<1>4. ASSUME NEW r \in Requests, Step(r), UNCHANGED <<rows, quotes>>
      PROVE  Sourced' /\ Unrivalled'
  BY <1>4 DEF CInv
<1>5. ASSUME NEW x \in rows, Expire(x) PROVE Sourced' /\ Unrivalled'
  <2>1. Dead(x).key = x.key /\ Dead(x).quote = x.quote BY DEF Dead
  <2>2. Sourced' BY <1>5, <2>1 DEF Expire, CInv
  <2>3. ASSUME NEW y \in rows', NEW z \in rows', y.key = z.key,
               y.quote.carrier = z.quote.carrier
        PROVE  y = z
    BY <1>5, <2>1, <2>3 DEF Expire, CInv
  <2> QED BY <2>2, <2>3
<1>6. CASE Sweep BY <1>6 DEF Sweep, CInv
<1>7. CASE AllDone \/ UNCHANGED vars BY <1>7 DEF AllDone, vars, CInv
<1>8. \A r \in Requests : Step(r) =>
        RunFanOut(r) \/ Save(r) \/ (Step(r) /\ UNCHANGED <<rows, quotes>>)
  BY DEF Step, Lookup, Lead, Follow, Finish, Wake
<1> QED BY <1>2, <1>3, <1>4, <1>5, <1>6, <1>7, <1>8 DEF Next

LEMMA CInvAlways == Spec => []CInv
<1>1. Init => CInv BY CInvInit
<1>2. CInv /\ [Next]_vars => CInv'
  BY TypeStep, FlightStep, KeyedStep, SavedStep, PlacedStep, RowsStep
     DEF CInv, Inv
<1> QED BY <1>1, <1>2, PTL DEF Spec

\* What the contract sees of a request's place.
LEMMA Moves ==
  ASSUME CInv, NEW r \in Requests, NEW from, NEW to, Goto(r, from, to)
  PROVE  /\ {s \in Requests : pc'[s] \in InFlight} =
              IF to \in InFlight THEN {s \in Requests : pc[s] \in InFlight} \union {r}
              ELSE {s \in Requests : pc[s] \in InFlight} \ {r}
         /\ to = "done" => {s \in Requests : pc'[s] = "done"} =
                             {s \in Requests : pc[s] = "done"} \union {r}
         /\ to # "done" /\ from # "done" =>
              {s \in Requests : pc'[s] = "done"} = {s \in Requests : pc[s] = "done"}
BY DEF CInv, Inv, TypeOK, Goto

\* A hit is made of quotes on offer for the key, one of a carrier.
LEMMA StoredOnOffer ==
  ASSUME CInv, NEW r \in Requests
  PROVE  /\ Stored(ScopedKey[r]) \subseteq Contract!OnOffer(ScopedKey[r])
         /\ \A p, q \in Stored(ScopedKey[r]) : p.carrier = q.carrier => p = q
<1>1. ASSUME NEW q \in Stored(ScopedKey[r])
      PROVE  q \in Contract!OnOffer(ScopedKey[r])
  <2>1. PICK x \in rows : x.key = ScopedKey[r] /\ x.quote = q BY DEF Stored
  <2>2. q \in Quote BY <2>1 DEF CInv, Inv, TypeOK, Row
  <2>3. q.from \in Requests /\ q = [carrier |-> q.carrier, from |-> q.from]
    BY <2>2 DEF Quote
  <2>4. q.from \in saved /\ ScopedKey[q.from] = ScopedKey[r]
    BY <2>1 DEF CInv, Inv, Keyed, SavedFirst
  <2>5. q.carrier \in quotes[q.from] BY <2>1 DEF CInv, Sourced
  <2>6. q \in Contract!Quotes(q.from) BY <2>3, <2>5 DEF Contract!Quotes
  <2>7. q.from \in {t \in saved : ScopedKey[t] = ScopedKey[r]}
    BY <2>3, <2>4
  <2> QED BY <2>6, <2>7 DEF Contract!OnOffer
<1>2. \A p, q \in Stored(ScopedKey[r]) : p.carrier = q.carrier => p = q
  BY DEF Stored, CInv, Unrivalled
<1> QED BY <1>1, <1>2

LEMMA LookupMaps ==
  ASSUME CInv, NEW r \in Requests, Lookup(r)
  PROVE  [Contract!Next]_(Contract!vars)
<1>1. CASE /\ Stored(ScopedKey[r]) # {} /\ Goto(r, "lookup", "done")
           /\ answer' = [answer EXCEPT ![r] = Stored(ScopedKey[r])]
  <2>1. Contract!Fresh(r)
    BY <1>1 DEF Contract!Fresh, Contract!None, None, Goto, CInv, Placed
  <2>2. Contract!Answer(r, Stored(ScopedKey[r]))
    BY <1>1, <2>1, Moves DEF Contract!Answer, Contract!Fresh, Lookup
  <2>3. r \notin {s \in Requests : pc[s] \in InFlight}
    BY <1>1 DEF Goto, InFlight
  <2>4. UNCHANGED {s \in Requests : pc[s] \in InFlight}
    BY <1>1, <2>3, Moves DEF InFlight
  <2>5. Contract!Reuse(r)
    <3> DEFINE qs == Stored(ScopedKey[r])
    <3>1. ScopedKey[r] = ScopedKey[r] OBVIOUS
    <3>2. qs \in SUBSET Contract!OnOffer(ScopedKey[r])
      BY <3>1, StoredOnOffer
    <3>3. qs # {} /\ \A p, q \in qs : p.carrier = q.carrier => p = q
      BY <1>1, StoredOnOffer
    <3> HIDE DEF qs
    <3>4. Contract!Answer(r, qs) BY <2>2 DEF qs
    <3>5. \E os \in SUBSET Contract!OnOffer(ScopedKey[r]) :
            /\ os # {} /\ \A p, q \in os : p.carrier = q.carrier => p = q
            /\ Contract!Answer(r, os)
      BY <3>2, <3>3, <3>4 DEF Contract!Answer
    <3> QED BY <2>1, <2>4, <3>5, Zenon DEF Contract!Reuse, Contract!Answer
  <2> QED BY <2>5 DEF Contract!Next
<1>2. CASE Goto(r, "lookup", "join") /\ UNCHANGED answer
  <2>1. r \notin {s \in Requests : pc[s] \in InFlight}
    BY <1>2 DEF Goto, InFlight
  <2>2. UNCHANGED Contract!vars
    BY <1>2, <2>1, Moves DEF Contract!vars, Lookup, InFlight
  <2> QED BY <2>2
<1> QED BY <1>1, <1>2 DEF Lookup

LEMMA JoinMaps ==
  ASSUME CInv, NEW r \in Requests, Lead(r) \/ Follow(r)
  PROVE  [Contract!Next]_(Contract!vars)
<1>1. Contract!Fresh(r)
  BY DEF Contract!Fresh, Contract!None, None, Lead, Follow, Goto, CInv, Placed
<1>2. CASE Lead(r)
  <2>1. \A s \in Requests : pc[s] \in InFlight => ScopedKey[s] # ScopedKey[r]
    BY <1>2, NoneIsNoRequest DEF Lead, CInv, Inv, OneFlightPerKey
  <2>2. Contract!Start(r)
    BY <1>1, <1>2, <2>1, Moves DEF Contract!Start, Lead, InFlight
  <2> QED BY <2>2 DEF Contract!Next
<1>3. CASE Follow(r)
  <2> DEFINE s == calls[ScopedKey[r]]
  <2>1. s \in Requests /\ pc[s] \in InFlight /\ ScopedKey[s] = ScopedKey[r]
    BY <1>3, KeyType DEF Follow, CInv, Inv, TypeOK, Keyed, Placed
  <2>2. r \notin {t \in Requests : pc[t] \in InFlight}
    BY <1>3 DEF Follow, Goto, InFlight
  <2>3. Contract!Join(r, s)
    BY <1>1, <1>3, <2>1, <2>2, Moves DEF Contract!Join, Follow, InFlight
  <2> QED BY <2>1, <2>3 DEF Contract!Next
<1> QED BY <1>2, <1>3

LEMMA FlightMaps ==
  ASSUME CInv, NEW r \in Requests, RunFanOut(r) \/ Save(r) \/ Finish(r)
  PROVE  [Contract!Next]_(Contract!vars)
<1>1. r \in {s \in Requests : pc[s] \in InFlight}
  BY DEF RunFanOut, Save, Finish, Goto, InFlight
<1>2. CASE RunFanOut(r)
  <2>1. PICK to \in InFlight \ {"fanOut"} : Goto(r, "fanOut", to)
    BY <1>2 DEF RunFanOut, InFlight
  <2>2. UNCHANGED <<{s \in Requests : pc[s] \in InFlight},
                    {s \in Requests : pc[s] = "done"}>>
    BY <1>1, <2>1, Moves DEF InFlight
  <2>3. Contract!Find(r)
    BY <1>1, <1>2, <2>1, <2>2
       DEF Contract!Find, RunFanOut, Goto, CInv, Placed
  <2> QED BY <2>3 DEF Contract!Next
<1>3. CASE Save(r)
  <2>1. UNCHANGED <<{s \in Requests : pc[s] \in InFlight},
                    {s \in Requests : pc[s] = "done"}>>
    BY <1>1, <1>3, Moves DEF Save, InFlight
  <2>2. Contract!Offer(r) BY <1>1, <1>3, <2>1 DEF Contract!Offer, Save
  <2> QED BY <2>2 DEF Contract!Next
<1>4. CASE Finish(r)
  <2>1. quotes[r] # {} => r \in saved
    BY <1>4 DEF Finish, Goto, CInv, Inv, SavedFirst
  <2>2. Contract!Answer(r, Contract!Quotes(r))
    BY <1>4, Moves
       DEF Finish, Goto, Contract!Answer, Quotes, Contract!Quotes
  <2>3. {s \in Requests : pc'[s] \in InFlight} =
          {s \in Requests : pc[s] \in InFlight} \ {r}
    BY <1>4, Moves DEF Finish, InFlight
  <2>4. Contract!End(r) BY <1>1, <2>1, <2>2, <2>3 DEF Contract!End
  <2> QED BY <2>4 DEF Contract!Next
<1> QED BY <1>2, <1>3, <1>4

LEMMA WakeMaps ==
  ASSUME CInv, NEW r \in Requests, Wake(r)
  PROVE  [Contract!Next]_(Contract!vars)
<1>1. leader[r] \in Requests BY DEF Wake, Goto, CInv, Inv, TypeOK, Keyed
<1>2. r \notin {s \in Requests : pc[s] \in InFlight} BY DEF Wake, Goto, InFlight
<1>3. UNCHANGED {s \in Requests : pc[s] \in InFlight}
  BY <1>2, Moves DEF Wake, InFlight
<1>4. Contract!Answer(r, Contract!Quotes(leader[r]))
  BY Moves DEF Wake, Goto, Contract!Answer, Quotes, Contract!Quotes
<1>5. Contract!Share(r) BY <1>1, <1>2, <1>3, <1>4 DEF Contract!Share, Wake
<1> QED BY <1>5 DEF Contract!Next

\* GetQuotes keeps the contract: for any requests, keys and carriers, whatever
\* of the saves fails and whenever rows expire and are swept, an answer is one
\* whole fan-out that ran while its request waited, or saved quotes of its key,
\* at most one of a carrier.
THEOREM ImplementsContract == Spec => AnswersByContract
<1>1. Init => Contract!Init
  BY DEF Init, Contract!Init, Contract!None, None, InFlight
<1>2. CInv /\ [Next]_vars => [Contract!Next]_(Contract!vars)
  <2> SUFFICES ASSUME CInv, [Next]_vars PROVE [Contract!Next]_(Contract!vars)
    OBVIOUS
  <2>1. ASSUME NEW r \in Requests, Step(r)
        PROVE  [Contract!Next]_(Contract!vars)
    BY <2>1, LookupMaps, JoinMaps, FlightMaps, WakeMaps DEF Step
  <2>2. CASE (\E x \in rows : Expire(x)) \/ Sweep \/ AllDone \/ UNCHANGED vars
    <3>1. UNCHANGED <<pc, leader, quotes, answer, saved>>
      BY <2>2 DEF Expire, Sweep, AllDone, vars
    <3>2. UNCHANGED Contract!vars BY <3>1 DEF Contract!vars
    <3> QED BY <3>2
  <2> QED BY <2>1, <2>2 DEF Next
<1> QED BY <1>1, <1>2, CInvAlways, PTL DEF Spec, AnswersByContract, Contract!Spec

=============================================================================
