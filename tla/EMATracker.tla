----------------------------- MODULE EMATracker -----------------------------
(* EMATracker (internal/orchestrator/hedging.go): primary calls record      *)
(* their latency by replacing an immutable emaState with a CAS loop.        *)
(*                                                                          *)
(* The average is a function of the seed and of the sequence of latencies   *)
(* folded into it, so that sequence stands for emaState here: its length is *)
(* observations. The CAS compares pointers, and every state is a new        *)
(* allocation, so two states of the same length are the same state.         *)
EXTENDS Integers, Sequences, FiniteSets

CONSTANTS
  Recorders,  \* calls of Record, each with a latency of its own
  Warmup      \* EMAWarmupObservations

ASSUME EMAConstants == IsFiniteSet(Recorders) /\ Warmup \in Nat

VARIABLES
  ema,        \* the recorders whose latencies the current state holds, in order
  old,        \* what each recorder loaded
  gauge,      \* the state SetP95Latency was last called with
  pc

vars == <<ema, old, gauge, pc>>

States == UNION {[1 .. n -> Recorders] : n \in 0 .. Cardinality(Recorders)}

TypeOK ==
  /\ ema \in States
  /\ old \in [Recorders -> States]
  /\ gauge \in States
  /\ pc \in [Recorders -> {"load", "cas", "emit", "done"}]

Init ==
  /\ ema = <<>>
  /\ old = [r \in Recorders |-> <<>>]
  /\ gauge = <<>>
  /\ pc = [r \in Recorders |-> "load"]

Goto(r, from, to) == pc[r] = from /\ pc' = [pc EXCEPT ![r] = to]

Load(r) ==
  /\ Goto(r, "load", "cas")
  /\ old' = [old EXCEPT ![r] = ema]
  /\ UNCHANGED <<ema, gauge>>

\* Mutant: a plain store in place of the CAS.
StoreState(r) ==
  /\ Goto(r, "cas", "emit")
  /\ ema' = Append(old[r], r)
  /\ UNCHANGED <<old, gauge>>

\* Mutant: the loser tries again with what it had loaded before.
CasStale(r) ==
  /\ ema = old[r]
  /\ Goto(r, "cas", "emit")
  /\ ema' = Append(old[r], r)
  /\ UNCHANGED <<old, gauge>>

\* CompareAndSwap(old, next); the loser yields and loads again.
CasState(r) ==
  /\ \/ /\ ema = old[r]
        /\ Goto(r, "cas", "emit")
        /\ ema' = Append(old[r], r)
     \/ /\ ema # old[r]
        /\ Goto(r, "cas", "load")
        /\ UNCHANGED ema
  /\ UNCHANGED <<old, gauge>>

\* SetP95Latency with the value this recorder computed.
Emit(r) ==
  /\ Goto(r, "emit", "done")
  /\ gauge' = Append(old[r], r)
  /\ UNCHANGED <<ema, old>>

\* HedgeThreshold is finite, so that fan-outs may hedge the carrier.
Warm == Len(ema) >= Warmup

Done == (\A r \in Recorders : pc[r] = "done") /\ UNCHANGED vars

Next == Done \/ \E r \in Recorders : Load(r) \/ CasState(r) \/ Emit(r)

Spec == Init /\ [][Next]_vars

FairSpec ==
  Spec /\ \A r \in Recorders : WF_vars(Load(r) \/ CasState(r) \/ Emit(r))

----------------------------------------------------------------------------

\* However Records interleave, the state holds each finished observation, and
\* no other, exactly once; so hedging starts with the Warmup-th of them, not
\* earlier and not later.
EveryObservationCounts ==
  /\ \A i, j \in 1 .. Len(ema) : ema[i] = ema[j] => i = j
  /\ {ema[i] : i \in 1 .. Len(ema)} = {r \in Recorders : pc[r] \in {"emit", "done"}}
  /\ Warm <=> Cardinality({r \in Recorders : pc[r] \in {"emit", "done"}}) >= Warmup

\* Every Record ends: a CAS is lost only to another one that succeeded.
RecordsEnd == <>(\A r \in Recorders : pc[r] = "done")

\* "Record updates the EMA with a new latency observation and emits the p95
\* gauge": when every Record has returned, the gauge shows the current state.
GaugeShowsAverage == (\A r \in Recorders : pc[r] = "done") => gauge = ema

=============================================================================
