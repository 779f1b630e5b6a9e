---------------------------- MODULE AtomicWaiter ----------------------------
(***************************************************************************)
(* What the Waiter of a queue node promises, as if each of its operations  *)
(* were indivisible: a notifier sets a flag and wakes the task registered  *)
(* in the cell, once; a poll registers the task unless a flag it waits for *)
(* is set; a wake-up may also come for nothing.                            *)
(***************************************************************************)
CONSTANT Flags

VARIABLES
  flags,        \* the flags of the cell
  target,       \* the flags the future waits for, any of which ends the wait
  future,       \* what the owner's future is doing
  registered,   \* whether a notifier would find the owner's waker
  awake         \* whether the owner's task has been woken since its last poll

vars == <<flags, target, future, registered, awake>>

Futures == {"none", "fresh", "parked", "polled", "ready"}

Init ==
  /\ flags \subseteq Flags
  /\ target \subseteq Flags
  /\ future \in {"none", "fresh"}
  /\ registered = FALSE
  /\ awake = FALSE

AddFlag(f) ==
  /\ flags' = flags \union {f}
  /\ registered' = FALSE
  /\ awake' = (awake \/ registered)
  /\ UNCHANGED <<target, future>>

\* A poll that is Ready from the outset.
PollReady ==
  /\ future \in {"fresh", "parked"}
  /\ flags \intersect target # {}
  /\ future' = "ready"
  /\ registered' = FALSE
  /\ awake' \in BOOLEAN
  /\ UNCHANGED <<flags, target>>

\* A poll takes the registration back; a wake-up may already be under way.
BeginPoll ==
  /\ future \in {"fresh", "parked"}
  /\ future' = "polled"
  /\ registered' = FALSE
  /\ awake' \in BOOLEAN
  /\ UNCHANGED <<flags, target>>

\* The poll returns Pending with the task registered, or already woken by a
\* notifier that was late with a flag of the owner's previous future.
FinishPending ==
  /\ future = "polled"
  /\ flags \intersect target = {}
  /\ future' = "parked"
  /\ \/ registered' = TRUE /\ UNCHANGED awake
     \/ registered' = FALSE /\ awake' = TRUE
  /\ UNCHANGED <<flags, target>>

FinishReady ==
  /\ future = "polled"
  /\ flags \intersect target # {}
  /\ future' = "ready"
  /\ UNCHANGED <<flags, target, registered, awake>>

SpuriousWake ==
  /\ awake' = TRUE
  /\ UNCHANGED <<flags, target, future, registered>>

\* The future ends, finished or not.
Discard ==
  /\ future \in {"fresh", "parked", "ready"}
  /\ future' = "none"
  /\ registered' = FALSE
  /\ awake' \in BOOLEAN
  /\ UNCHANGED <<flags, target>>

\* The owner awaits another future on the same node, or a new node's first.
Await ==
  /\ future = "none"
  /\ future' \in {"none", "fresh"}
  /\ flags' \subseteq Flags
  /\ target' \subseteq Flags
  /\ awake' \in BOOLEAN
  /\ UNCHANGED registered

Next ==
  \/ \E f \in Flags : AddFlag(f)
  \/ PollReady \/ BeginPoll \/ FinishPending \/ FinishReady
  \/ SpuriousWake
  \/ Discard \/ Await

Spec == Init /\ [][Next]_vars

\* A parked task whose wait is over has been woken.
NoLostWakeup == future = "parked" /\ flags \intersect target # {} => awake
=============================================================================
