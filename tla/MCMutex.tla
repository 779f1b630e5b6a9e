------------------------------ MODULE MCMutex -------------------------------
(***************************************************************************)
(* Mutex for TLC: a few clients, a few priorities, and the discipline the  *)
(* configuration picks from Priority for Compare and CompareNew.           *)
(***************************************************************************)
EXTENDS Mutex, Priority, TLC

CONSTANTS c1, c2, c3, c4

ThreeClients == {c1, c2, c3}
FourClients  == {c1, c2, c3, c4}

Levels      == 1 .. 2
ThreeLevels == 1 .. 3

\* The clients are interchangeable; only runs without liveness use this.
Symmetry == Permutations(Clients)
=============================================================================
