--------------------------- MODULE AbstractQueue ----------------------------
(***************************************************************************)
(* What the trait PriorityQueue promises the locks, whatever queue they    *)
(* are built with: a sequence of entries, each with the handle it was      *)
(* enqueued under, and three operations that happen at once.               *)
(***************************************************************************)
EXTENDS PriorityQueue

CONSTANT Handles

VARIABLE entries   \* the sequence of [handle, data, pinned], head first

\* pinned: the mutex has made this entry one that no newcomer goes before.
Entry == [handle : Handles, data : Priorities, pinned : BOOLEAN]

Has(h) == \E i \in 1 .. Len(entries) : entries[i].handle = h

\* The positions of the sequence q at which an entry with the data d is neither
\* behind a lower nor before a higher priority; a pinned entry is as good as
\* higher.
InPlace(q, d) ==
  { i \in 1 .. Len(q) + 1 :
      /\ \A j \in 1 .. i - 1 : q[j].pinned \/ Compare(d, q[j].data) # "Greater"
      /\ \A j \in i .. Len(q) : ~q[j].pinned /\ Compare(d, q[j].data) # "Less" }

\* The positions `enqueue' may give an entry: compare_new has a say in them if
\* its verdicts on the queue do not contradict each other.
Places(q, d) ==
  LET verdict == [e \in Entry |-> IF e.pinned THEN "Less" ELSE CompareNew(d, e.data)]
  IN IF InAgreement(q, verdict) THEN EnqueuePositions(q, verdict) ELSE InPlace(q, d)

Init == entries = << >>

\* The first entry may be pinned.
Enqueue(h, d) ==
  /\ ~Has(h)
  /\ \E i \in Places(entries, d), p \in BOOLEAN :
       /\ p => entries = << >>
       /\ entries' = InsertAt(entries, i, [handle |-> h, data |-> d, pinned |-> p])

\* When a pinned entry leaves, the next head is pinned.
DequeueHandle(h) ==
  \E i \in 1 .. Len(entries) :
    LET rest == RemoveAt(entries, i)
    IN /\ entries[i].handle = h
       /\ entries' = IF entries[i].pinned /\ rest # << >>
                       THEN [rest EXCEPT ![1].pinned = TRUE]
                       ELSE rest

\* update_node: the entry may keep a place that is in order, and is enqueued
\* anew otherwise.
Update(h, d) ==
  \E i \in 1 .. Len(entries) :
    LET e    == [entries[i] EXCEPT !.data = d]
        rest == RemoveAt(entries, i)
    IN /\ entries[i].handle = h
       /\ \/ i \in InPlace(rest, d) /\ entries' = InsertAt(rest, i, e)
          \/ \E j \in Places(rest, d) : entries' = InsertAt(rest, j, e)

Next ==
  \E h \in Handles :
    \/ \E d \in Priorities : Enqueue(h, d) \/ Update(h, d)
    \/ DequeueHandle(h)

Spec == Init /\ [][Next]_entries
=============================================================================
