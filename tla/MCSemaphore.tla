---------------------------- MODULE MCSemaphore -----------------------------
(***************************************************************************)
(* Semaphore for TLC: a few nodes and a usize of three bits.               *)
(***************************************************************************)
EXTENDS Semaphore, Priority, TLC

CONSTANTS n1, n2, n3

TwoNodes   == {n1, n2}
ThreeNodes == {n1, n2, n3}

OneLevel == {1}
Levels   == 1 .. 2

\* The nodes are interchangeable; only runs without liveness use this.
Symmetry == Permutations(Nodes)

(***************************************************************************)
(* The liveness properties, of one node.  No node is singled out in Init,  *)
(* Next and Fairness, so what holds of n1 holds of every node; said of all *)
(* three, TLC would have three times the work.                             *)
(***************************************************************************)

\* A request that is granted or refused ends: no answer is lost on its task.
AnswersArrive == AnswerArrives(n1)

\* A request that was not refused and for which there are permits is held up by
\* refused ones before it, which are still queued, only until those are gone.
HeldUpOnlyBriefly == BrieflyHeldUp(n1)
=============================================================================
