------------------------------ MODULE MCDaemon ------------------------------
EXTENDS DaemonScheduler, TLC

CONSTANTS w1, w2, id

\* Two threads of one daemon sign with the same name.
SameId == w1 :> id @@ w2 :> id

Symmetry == Permutations(Workers) \cup Permutations(Schedulers)
=============================================================================
