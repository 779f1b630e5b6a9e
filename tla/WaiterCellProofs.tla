--------------------------- MODULE WaiterCellProofs ----------------------------
(***************************************************************************)
(* What the operations of a Waiter do to its flags and to the task that    *)
(* waits on it; the proofs about both locks rest on these facts.           *)
(***************************************************************************)
EXTENDS WaiterCell, TLAPS

\* Waiter::new yields a cell with nobody parked on it.
LEMMA NewCellType ==
  /\ NewCell(TRUE) \in Cell /\ HasLock(NewCell(TRUE))
  /\ NewCell(FALSE) \in Cell /\ ~HasLock(NewCell(FALSE))
  /\ ~NewCell(TRUE).armed /\ ~NewCell(FALSE).armed
  /\ ~WantsEvict(NewCell(TRUE)) /\ ~WantsEvict(NewCell(FALSE))
BY DEF NewCell, Cell, Flags, HasLock, WantsEvict

\* start() and evict() add their flag and wake whoever is parked.
LEMMA AddFlagProperties ==
  ASSUME NEW w \in Cell, NEW f \in Flags
  PROVE  /\ AddFlag(w, f) \in Cell
         /\ AddFlag(w, f).flags = w.flags \union {f}
         /\ ~AddFlag(w, f).armed
         /\ w.armed \/ w.scheduled => AddFlag(w, f).scheduled
BY DEF AddFlag, Cell, Flags

\* The end and the renewal of a wait keep the flags.
LEMMA WaitProperties ==
  ASSUME NEW w \in Cell
  PROVE  /\ ClearWaker(w) \in Cell /\ Park(w) \in Cell
         /\ ClearWaker(w).flags = w.flags /\ Park(w).flags = w.flags
         /\ ~ClearWaker(w).armed /\ Park(w).armed
BY DEF ClearWaker, Park, Cell

\* evict() leaves HAS_LOCK alone and start() WANTS_EVICT.
LEMMA AddFlagKeepsOther ==
  ASSUME NEW w \in Cell
  PROVE  /\ HasLock(AddFlag(w, "WANTS_EVICT")) <=> HasLock(w)
         /\ WantsEvict(AddFlag(w, "WANTS_EVICT"))
         /\ WantsEvict(AddFlag(w, "HAS_LOCK")) <=> WantsEvict(w)
         /\ HasLock(AddFlag(w, "HAS_LOCK"))
BY DEF AddFlag, HasLock, WantsEvict
=============================================================================
