----------------------------- MODULE AuthLimiter -----------------------------
(* The failure budgets of RequireAPIKey (internal/middleware/auth.go): one   *)
(* token bucket per IP in a sync.Map, a second sync.Map that says when the   *)
(* IP was last seen, and the sweep that evicts IPs idle for five minutes.    *)
(* Every operation on a map or a bucket is a step of its own.                *)
(*                                                                           *)
(* A bucket is an object: who has loaded it may use it after it has left the *)
(* map. One that nobody refers to any more is used again for a new one.      *)
(* Authentication takes no time beside the five minutes, and a token comes   *)
(* back every six seconds.                                                   *)
EXTENDS Integers, FiniteSets

CONSTANTS
  IPs,
  Handlers,  \* requests in RequireAPIKey at the same time, one after another
  Buckets,   \* names for the *rate.Limiter objects
  Burst,
  None

ASSUME LimiterConfig ==
  /\ Burst \in Nat \ {0}
  /\ None \notin Buckets \cup IPs \cup {"fresh", "stale"}
  /\ IsFiniteSet(IPs) /\ IsFiniteSet(Handlers) /\ IsFiniteSet(Buckets)
  /\ Cardinality(Buckets) >= Cardinality(IPs) + Cardinality(Handlers)

VARIABLES
  pc,      \* where each handler is
  from,    \* the IP of its request
  use,     \* "look" or "charge": what it asked getOrCreate for
  lim,     \* the bucket it has got
  ips,     \* the buckets by IP
  seen,    \* lastSeen: None, "fresh" or "stale", that is older than ttl
  tokens,  \* what is left in each bucket
  sweep,   \* where the sweep is, and at which IP
  failed,  \* history: the failures of each IP, up to Burst, less one for every
           \* six seconds
  burst    \* history: the failures of each IP within six seconds

hVars == <<pc, from, use, lim>>
history == <<failed, burst>>
vars == <<hVars, ips, seen, tokens, sweep, history>>

SweepIdle == [at |-> "idle", ip |-> None]

TypeOK ==
  /\ pc \in [Handlers -> {"idle", "seen", "load", "store", "look", "key", "charge"}]
  /\ from \in [Handlers -> IPs \cup {None}]
  /\ use \in [Handlers -> {"look", "charge"}]
  /\ lim \in [Handlers -> Buckets \cup {None}]
  /\ ips \in [IPs -> Buckets \cup {None}]
  /\ seen \in [IPs -> {None, "fresh", "stale"}]
  /\ tokens \in [Buckets -> 0 .. Burst]
  /\ sweep \in [at : {"idle", "ips", "seen"}, ip : IPs \cup {None}]
  /\ failed \in [IPs -> 0 .. Burst]
  /\ burst \in [IPs -> Nat]

Init ==
  /\ pc = [h \in Handlers |-> "idle"]
  /\ from = [h \in Handlers |-> None]
  /\ use = [h \in Handlers |-> "look"]
  /\ lim = [h \in Handlers |-> None]
  /\ ips = [i \in IPs |-> None]
  /\ seen = [i \in IPs |-> None]
  /\ tokens = [b \in Buckets |-> Burst]
  /\ sweep = SweepIdle
  /\ failed = [i \in IPs |-> 0]
  /\ burst = [i \in IPs |-> 0]

----------------------------------------------------------------------------
(* getOrCreate                                                              *)

Goto(h, at, to) == pc[h] = at /\ pc' = [pc EXCEPT ![h] = to]

\* getOrCreate returns b to whoever called it.
Got(h, at, b) == Goto(h, at, use[h]) /\ lim' = [lim EXCEPT ![h] = b]

StoreSeen(h) ==
  /\ Goto(h, "seen", "load")
  /\ seen' = [seen EXCEPT ![from[h]] = "fresh"]
  /\ UNCHANGED <<from, use, lim, ips, tokens, sweep, history>>

LoadBucket(h) ==
  /\ pc[h] = "load"
  /\ LET b == ips[from[h]]
     IN IF b # None THEN Got(h, "load", b)
        ELSE Goto(h, "load", "store") /\ UNCHANGED lim
  /\ UNCHANGED <<from, use, ips, seen, tokens, sweep, history>>

Unused == Buckets \ ({ips[i] : i \in IPs} \cup {lim[h] : h \in Handlers})

\* NewLimiter and LoadOrStore.
LoadOrStore(h) ==
  /\ pc[h] = "store"
  /\ LET i == from[h] IN
       IF ips[i] # None
       THEN Got(h, "store", ips[i]) /\ UNCHANGED <<ips, tokens>>
       ELSE \E b \in Unused :
              /\ Got(h, "store", b)
              /\ ips' = [ips EXCEPT ![i] = b]
              /\ tokens' = [tokens EXCEPT ![b] = Burst]
  /\ UNCHANGED <<from, use, seen, sweep, history>>

----------------------------------------------------------------------------
(* RequireAPIKey                                                            *)

Done(h) ==
  /\ from' = [from EXCEPT ![h] = None]
  /\ use' = [use EXCEPT ![h] = "look"]
  /\ lim' = [lim EXCEPT ![h] = None]

Arrive(h) ==
  /\ Goto(h, "idle", "seen")
  /\ \E i \in IPs : from' = [from EXCEPT ![h] = i]
  /\ UNCHANGED <<use, lim, ips, seen, tokens, sweep, history>>

Refused(h) == Goto(h, "look", "idle") /\ tokens[lim[h]] < 1 /\ Done(h)

\* Mutant: the look takes a token.
LookTakes(h) ==
  /\ \/ Refused(h) /\ UNCHANGED tokens
     \/ /\ Goto(h, "look", "key") /\ tokens[lim[h]] >= 1 /\ UNCHANGED <<from, use, lim>>
        /\ tokens' = [tokens EXCEPT ![lim[h]] = @ - 1]
  /\ UNCHANGED <<ips, seen, sweep, history>>

\* isExhausted: 429, or on to the comparison with the keys.
Look(h) ==
  /\ \/ Refused(h)
     \/ Goto(h, "look", "key") /\ tokens[lim[h]] >= 1 /\ UNCHANGED <<from, use, lim>>
  /\ UNCHANGED <<ips, seen, tokens, sweep, history>>

\* A configured key, or none: then tryRecordFailure asks for the bucket again.
Compare(h) ==
  /\ \/ Goto(h, "key", "idle") /\ Done(h)
     \/ /\ Goto(h, "key", "seen")
        /\ use' = [use EXCEPT ![h] = "charge"]
        /\ lim' = [lim EXCEPT ![h] = None]
        /\ UNCHANGED from
  /\ UNCHANGED <<ips, seen, tokens, sweep, history>>

\* Allow, whose result is not looked at; 401 in any case.
Charge(h) ==
  /\ Goto(h, "charge", "idle")
  /\ tokens' = [tokens EXCEPT ![lim[h]] = IF @ >= 1 THEN @ - 1 ELSE @]
  /\ failed' = [failed EXCEPT ![from[h]] = IF @ < Burst THEN @ + 1 ELSE @]
  /\ burst' = [burst EXCEPT ![from[h]] = @ + 1]
  /\ Done(h)
  /\ UNCHANGED <<ips, seen, sweep>>

Handle(h) == \/ Arrive(h) \/ StoreSeen(h) \/ LoadBucket(h) \/ LoadOrStore(h)
             \/ Look(h) \/ Compare(h) \/ Charge(h)

----------------------------------------------------------------------------
(* The sweep, and time                                                      *)

SweepStep(i, at, to) ==
  /\ sweep = [at |-> at, ip |-> IF at = "idle" THEN None ELSE i]
  /\ sweep' = [at |-> to, ip |-> IF to = "idle" THEN None ELSE i]
  /\ UNCHANGED <<hVars, tokens, history>>

\* Mutant: every entry is taken for an old one.
RangeAny(i) == seen[i] # None /\ SweepStep(i, "idle", "ips") /\ UNCHANGED <<ips, seen>>

\* Range comes to an entry older than ttl.
RangeOld(i) == seen[i] = "stale" /\ SweepStep(i, "idle", "ips") /\ UNCHANGED <<ips, seen>>

DeleteBucket(i) ==
  SweepStep(i, "ips", "seen") /\ ips' = [ips EXCEPT ![i] = None] /\ UNCHANGED seen

DeleteSeen(i) ==
  SweepStep(i, "seen", "idle") /\ seen' = [seen EXCEPT ![i] = None] /\ UNCHANGED ips

Sweep(i) == RangeOld(i) \/ DeleteBucket(i) \/ DeleteSeen(i)

Quiet == sweep.at = "idle" /\ \A h \in Handlers : pc[h] = "idle"

BucketsOf(i) == {ips[i]} \cup {lim[h] : h \in {k \in Handlers : from[k] = i}}

\* Six seconds.
Refill(i) ==
  /\ burst[i] > 0 \/ failed[i] > 0
  /\ burst' = [burst EXCEPT ![i] = 0]
  /\ failed' = [failed EXCEPT ![i] = IF @ > 0 THEN @ - 1 ELSE @]
  /\ tokens' = [b \in Buckets |->
       IF b \in BucketsOf(i) /\ tokens[b] < Burst THEN tokens[b] + 1 ELSE tokens[b]]
  /\ UNCHANGED <<hVars, ips, seen, sweep>>

\* Five minutes without a request of the IP, in which its bucket fills up.
Age(i) ==
  /\ Quiet
  /\ seen[i] = "fresh"
  /\ failed[i] = 0 /\ burst[i] = 0
  /\ seen' = [seen EXCEPT ![i] = "stale"]
  /\ UNCHANGED <<hVars, ips, tokens, sweep, history>>

Next == \/ \E h \in Handlers : Handle(h)
        \/ \E i \in IPs : Sweep(i) \/ Refill(i) \/ Age(i)

Spec == Init /\ [][Next]_vars

----------------------------------------------------------------------------

\* Each handler past the look when the budget runs out adds a failure to those
\* the budget covers, and a sweep that had found the IP idle just before it came
\* back gives it a second budget, but no third.
FailuresAreBounded ==
  \A i \in IPs : burst[i] <= 2 * (Burst + Cardinality(Handlers) - 1)

\* 429 is for IPs that have failed Burst times more often than tokens came
\* back: neither the failures of others, nor requests with a valid key, nor
\* evictions and the races to create a bucket lock an IP out.
LockoutIsEarned ==
  [][\A h \in Handlers : pc[h] = "look" /\ pc'[h] = "idle" => failed[from[h]] >= Burst]_vars

(* What the comments say and the code does not do.                          *)

\* "This eliminates the TOCTOU between a separate check and record step."
BurstIsTheLimit == \A i \in IPs : burst[i] <= Burst

\* "evicts entries older than ttl every interval": an entry of ips that has
\* none in lastSeen is never looked at again.
EntriesAreEvictable == Quiet => \A i \in IPs : ips[i] # None => seen[i] # None

=============================================================================
