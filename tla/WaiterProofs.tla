---------------------------- MODULE WaiterProofs ----------------------------
(***************************************************************************)
(* Proofs about the lock-free Waiter, for any set of wakers.               *)
(***************************************************************************)
EXTENDS Waiter, TLAPS

(***************************************************************************)
(* Who may touch the owner's storage.  The pointer is set only between the *)
(* owner's Publish and its next clear_waker; CAN_DROP is clear exactly     *)
(* while a notifier may be at the storage, or was there and has not said   *)
(* so; the waker is in the storage as long as the pointer to it is set, or *)
(* one of the two is about to take it out.                                 *)
(***************************************************************************)
StorageInv ==
  /\ word.ptr => word.canDrop /\ pc \in {"parked", "recheck"}
  /\ ~word.canDrop => notifier \in {"read", "restore"}
  /\ notifier = "read" => ~word.canDrop /\ pc \in {"parked", "recheck", "spin"}
  /\ notifier \in {"read", "restore"} => old.canDrop
  /\ storage # NoWaker
       <=> word.ptr \/ notifier = "read" \/ pc \in {"dropWaker", "publish"}

(***************************************************************************)
(* What is stored, in the notifier's hand or on its way is the waker of the*)
(* latest poll as far as the parked owner is concerned: either the pointer *)
(* is there for the next notifier to find, or a wake-up is under way.  The *)
(* pointer is left in place with a flag set only for a notifier about to   *)
(* take it.                                                                *)
(***************************************************************************)
WakeInv ==
  /\ pc \in {"parked", "recheck", "publish"} =>
       storage \in {latest, NoWaker}
  /\ pc = "parked" => word.ptr \/ scheduled \/ WakeUnderWay
  /\ pc = "parked" /\ word.ptr /\ notifier # "take" =>
       word.flags \intersect target = {}

(***************************************************************************)
(* Why a poll is Ready: all that it waits for was set when it began, or    *)
(* some of it when the waker was published.                                *)
(***************************************************************************)
ReasonInv ==
  /\ target # {}
  /\ pc = "recheck" => word.flags \intersect target # {}
  /\ pc \in {"dropWaker", "spin"} /\ phase = "recheck" =>
       seen \intersect target # {}
  /\ ReadyForAReason

IInv == TypeOK /\ StorageInv /\ WakeInv /\ ReasonInv

\* The inductive invariant holds of a new waiter.
LEMMA InitIInv == Init => IInv
<1> SUFFICES ASSUME Init PROVE IInv
  OBVIOUS
<1> USE WakersAssumption DEF Flags
<1>1. PICK hasLock \in BOOLEAN :
        /\ Born(hasLock, target)
        /\ word = [ptr |-> FALSE, canDrop |-> TRUE,
                   flags |-> IF hasLock THEN {"HAS_LOCK"} ELSE {}]
        /\ pc = IF hasLock THEN "none" ELSE "fresh"
  BY DEF Init
<1>2. pc \in {"none", "fresh"} /\ target \subseteq Flags /\ target # {}
  BY <1>1 DEF Born
<1>3. TypeOK
  <2>1. word \in [ptr : BOOLEAN, canDrop : BOOLEAN, flags : SUBSET Flags]
    BY <1>1
  <2> QED
    BY <1>2, <2>1 DEF Init, TypeOK, PCs, NotifierPCs
<1>4. StorageInv
  BY <1>1, <1>2 DEF Init, StorageInv
<1> QED
  BY <1>2, <1>3, <1>4 DEF Init, IInv, WakeInv, ReasonInv, ReadyForAReason

\* Every step preserves the inductive invariant.
LEMMA StepIInv == IInv /\ [Next]_vars => IInv'
<1> SUFFICES ASSUME IInv, [Next]_vars PROVE IInv'
  OBVIOUS
<1> USE WakersAssumption
        DEF IInv, TypeOK, StorageInv, WakeInv, ReasonInv, ReadyForAReason,
            WakeUnderWay, PCs, NotifierPCs, Flags, owned, notified
<1>1. ASSUME NEW w \in Wakers, Poll(w) PROVE IInv'
  BY <1>1 DEF Poll, Clear, Return
<1>2. CASE DropWaker
  BY <1>2 DEF DropWaker, Return
<1>3. CASE SpinEnd
  BY <1>3 DEF SpinEnd, Return
<1>4. CASE Write
  BY <1>4 DEF Write
<1>5. CASE Publish
  BY <1>5 DEF Publish
<1>6. CASE Recheck
  BY <1>6 DEF Recheck, Clear, Return
<1>7. CASE DropFuture
  BY <1>7 DEF DropFuture, Clear, Return
<1>8. CASE AwaitEviction
  BY <1>8 DEF AwaitEviction
<1>9. CASE NewNode
  <2>1. PICK hasLock \in BOOLEAN, t \in SUBSET Flags :
          /\ Born(hasLock, t)
          /\ word' = [ptr |-> FALSE, canDrop |-> TRUE,
                      flags |-> IF hasLock THEN {"HAS_LOCK"} ELSE {}]
          /\ pc' = IF hasLock THEN "none" ELSE "fresh"
          /\ target' = t
    BY <1>9 DEF NewNode
  <2>2. pc' \in {"none", "fresh"} /\ target' # {}
    BY <2>1 DEF Born
  <2>3. TypeOK'
    BY <1>9, <2>1, <2>2 DEF NewNode
  <2>4. storage' = NoWaker /\ notifier' = "idle"
    BY <1>9 DEF NewNode
  <2> QED
    BY <2>1, <2>2, <2>3, <2>4
<1>10. ASSUME NEW f \in Flags, AddFlag(f) PROVE IInv'
  BY <1>10 DEF AddFlag, MayAdd
<1>11. CASE Take
  BY <1>11 DEF Take
<1>12. CASE Read
  BY <1>12 DEF Read
<1>13. CASE Restore
  BY <1>13 DEF Restore
<1>14. CASE Wake
  BY <1>14 DEF Wake
<1>15. CASE UNCHANGED vars
  BY <1>15 DEF vars
<1> QED
  BY <1>1, <1>2, <1>3, <1>4, <1>5, <1>6, <1>7, <1>8, <1>9, <1>10, <1>11,
     <1>12, <1>13, <1>14, <1>15 DEF Next, Owner, Notifier

\* In every reachable state, the strengthened invariant.
THEOREM Invariance == Spec => []IInv
  BY InitIInv, StepIInv, PTL DEF Spec

\* The state of the Waiter always has its declared shape.
THEOREM TypeCorrect == Spec => []TypeOK
<1>1. IInv => TypeOK
  BY DEF IInv
<1> QED
  BY <1>1, Invariance, PTL

\* notify() never reads a storage that is being written, dropped or freed.
THEOREM ReadSafety == Spec => []ReadIsSafe
<1>1. IInv => ReadIsSafe
  BY DEF IInv, StorageInv, ReadIsSafe
<1> QED
  BY <1>1, Invariance, PTL

\* No waker is leaked, dropped twice, or dropped uninitialised.
THEOREM WakerLifetime == Spec => []WakerDroppedOnce
<1>1. IInv => WakerDroppedOnce
  BY DEF IInv, StorageInv, WakerDroppedOnce
<1> QED
  BY <1>1, Invariance, PTL

\* The comment on WAITER_FLAG_CAN_DROP holds.
THEOREM CanDropIsSet == Spec => []PointerImpliesCanDrop
<1>1. IInv => PointerImpliesCanDrop
  BY DEF IInv, StorageInv, PointerImpliesCanDrop
<1> QED
  BY <1>1, Invariance, PTL

\* A flag that ends the wait of a parked owner always wakes it.
THEOREM WakeupsArrive == Spec => []NoLostWakeup
<1>1. ASSUME IInv, pc = "parked", word.flags \intersect target # {}
      PROVE  scheduled \/ WakeUnderWay
  <2>1. CASE word.ptr
    <3>1. notifier = "take"
      BY <1>1, <2>1 DEF IInv, WakeInv
    <3>2. storage = latest
      BY <1>1, <2>1 DEF IInv, StorageInv, WakeInv
    <3> QED
      BY <1>1, <2>1, <3>1, <3>2 DEF WakeUnderWay
  <2>2. CASE ~word.ptr
    BY <1>1, <2>2 DEF IInv, WakeInv
  <2> QED
    BY <2>1, <2>2
<1>2. IInv => NoLostWakeup
  BY <1>1 DEF NoLostWakeup
<1> QED
  BY <1>2, Invariance, PTL

\* A poll that is Ready returns a flag it waited for.
THEOREM ReadyHasReason == Spec => []ReadyForAReason
<1>1. IInv => ReadyForAReason
  BY DEF IInv, ReasonInv
<1> QED
  BY <1>1, Invariance, PTL

-----------------------------------------------------------------------------

\* The initial states of the Waiter are initial states of the AtomicWaiter.
LEMMA InitRefines == Init => Atomic!Init
<1> SUFFICES ASSUME Init PROVE Atomic!Init
  OBVIOUS
<1>1. /\ word.flags \subseteq Flags
      /\ target \subseteq Flags
      /\ pc \in {"none", "fresh"}
  BY InitIInv DEF Init, IInv, TypeOK
<1> QED
  BY <1>1 DEF Init, Atomic!Init, Future, Registered, Awake, WakeUnderWay

\* Every step of the Waiter is a step or a stutter of the AtomicWaiter.
LEMMA StepRefines == IInv /\ IInv' /\ [Next]_vars => [Atomic!Next]_Atomic!vars
<1> SUFFICES ASSUME IInv, IInv', [Next]_vars PROVE [Atomic!Next]_Atomic!vars
  OBVIOUS
<1> USE WakersAssumption
        DEF IInv, TypeOK, StorageInv, WakeInv, ReasonInv, ReadyForAReason,
            PCs, NotifierPCs, owned, notified,
            Future, Registered, Awake, WakeUnderWay, Return, Atomic!vars
<1>1. ASSUME NEW w \in Wakers, Poll(w) PROVE Atomic!PollReady \/ Atomic!BeginPoll
  BY <1>1 DEF Poll, Clear, Atomic!PollReady, Atomic!BeginPoll
<1>2. CASE DropWaker
  BY <1>2 DEF DropWaker
<1>3. CASE SpinEnd
  BY <1>3 DEF SpinEnd
<1>4. CASE Write
  BY <1>4 DEF Write
<1>5. ASSUME Publish PROVE Atomic!FinishPending \/ Atomic!FinishReady
  BY <1>5 DEF Publish, Atomic!FinishPending, Atomic!FinishReady
<1>6. CASE Recheck
  BY <1>6 DEF Recheck, Clear
<1>7. ASSUME DropFuture PROVE Atomic!Discard
  BY <1>7 DEF DropFuture, Clear, Atomic!Discard
<1>8. ASSUME AwaitEviction PROVE Atomic!Await
  BY <1>8 DEF AwaitEviction, Atomic!Await
<1>9. ASSUME NewNode PROVE Atomic!Await
  BY <1>9 DEF NewNode, Born, Atomic!Await
<1>10. ASSUME NEW f \in Flags, AddFlag(f) PROVE Atomic!AddFlag(f)
  BY <1>10 DEF AddFlag, Atomic!AddFlag
<1>11. CASE Take
  BY <1>11 DEF Take, Atomic!Next, Atomic!SpuriousWake
<1>12. CASE Read
  BY <1>12 DEF Read
<1>13. CASE Restore
  BY <1>13 DEF Restore
<1>14. CASE Wake
  BY <1>14 DEF Wake
<1>15. CASE UNCHANGED vars
  BY <1>15 DEF vars
<1> QED
  BY <1>1, <1>2, <1>3, <1>4, <1>5, <1>6, <1>7, <1>8, <1>9, <1>10, <1>11,
     <1>12, <1>13, <1>14, <1>15 DEF Next, Owner, Notifier, Atomic!Next

\* The lock-free Waiter implements the indivisible one.
THEOREM Refinement == Spec => ImplementsAtomicWaiter
  BY Invariance, InitRefines, StepRefines, PTL
     DEF Spec, ImplementsAtomicWaiter, Atomic!Spec
=============================================================================
