---------------------------- MODULE MCAuthLimiter ----------------------------
EXTENDS AuthLimiter, TLC

\* Handlers, IPs and buckets are alike; only safety is checked.
Symmetry == Permutations(Handlers) \cup Permutations(IPs) \cup Permutations(Buckets)
=============================================================================
