---------------------------- MODULE MCWalletScan ----------------------------
\* Instances of WalletScan for TLC.
EXTENDS WalletScan, TLC

CONSTANTS w1, w2, j1, j2, p1, p2, a1, a2, c1, c2

TwoWorkers == {w1, w2}
TwoJobs == {j1, j2}
OneProvider == {p1}
TwoProviders == {p1, p2}
OneAddr == {a1}
TwoAddrs == {a1, a2}
OneOwn == p1 :> a1
OwnAddrs == p1 :> a1 @@ p2 :> a2
SharedAddr == p1 :> a1 @@ p2 :> a1
OneContract == {c1}
TwoContracts == {c1, c2}

Symmetry == Permutations(TwoWorkers) \cup Permutations(TwoJobs)
              \cup Permutations(TwoContracts)
=============================================================================
