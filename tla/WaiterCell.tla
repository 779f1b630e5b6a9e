----------------------------- MODULE WaiterCell -----------------------------
(***************************************************************************)
(* A queue node's Waiter as the locks see it: its flags, whether a task's  *)
(* waker is registered in it, and whether that task has been woken and not *)
(* been polled since.  Each operator is one operation of waiter.rs, taken  *)
(* as a single step; that its lock-free implementation really behaves so   *)
(* is what the modules Waiter and AtomicWaiter show.                       *)
(***************************************************************************)

Flags == {"HAS_LOCK", "WANTS_EVICT"}

Cell == [flags : SUBSET Flags, armed : BOOLEAN, scheduled : BOOLEAN]

\* Waiter::new.
NewCell(hasLock) ==
  [flags |-> IF hasLock THEN {"HAS_LOCK"} ELSE {},
   armed |-> FALSE, scheduled |-> FALSE]

\* Mutant of AddFlag: the waker is dropped without being woken.
AddFlagSilently(w, flag) ==
  [w EXCEPT !.flags = @ \union {flag}, !.armed = FALSE]

\* Waiter::add_flag, behind start() and evict(): a registered waker is taken
\* and woken, whichever flag was added.
AddFlag(w, flag) ==
  [flags     |-> w.flags \union {flag},
   armed     |-> FALSE,
   scheduled |-> w.scheduled \/ w.armed]

\* Waiter::clear_waker, as the end of a future that is no longer awaited.
ClearWaker(w) == [w EXCEPT !.armed = FALSE, !.scheduled = FALSE]

\* Waiter::wait_for_flag that returns Pending: the waker is registered.
Park(w) == [w EXCEPT !.armed = TRUE, !.scheduled = FALSE]

HasLock(w)    == "HAS_LOCK" \in w.flags
WantsEvict(w) == "WANTS_EVICT" \in w.flags
=============================================================================
