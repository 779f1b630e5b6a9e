-------------------------- MODULE ArenaQueueProofs --------------------------
(***************************************************************************)
(* Theorems about ArenaQueue and their proofs, for any size of the first   *)
(* block and any bound on the number of entries.                           *)
(***************************************************************************)
EXTENDS ArenaQueue, PriorityQueueProofs

\* The queue without the node the operation is about.
Settled == Besides(order, node)

\* A node has been taken and is not linked.
Placing == pc \in {"behind", "front", "walk"}

\* What the block is like: `good' is where a search may start, and the slots with
\* data are those of the entries and that of the newcomer.
BlockInv ==
  /\ size = 0 \/ good \in Slots
  /\ size <= FirstSize + 2 * MaxUsed
  /\ \A s \in Slots : data[s] # NoData <=> Queued(order, s) \/ s = node

\* What the place of the operation under way implies.
PlaceInv ==
  /\ pc = "idle" => node = SENTINEL /\ old = NoData /\ after = SENTINEL /\ ~found
  /\ pc = "emplace" =>
       /\ node = SENTINEL /\ old = NoData /\ arg \in Priorities
       /\ used < size /\ idx \in Slots
       /\ IF found THEN Queued(order, after) /\ Verdict(arg, after) = "Equal"
          ELSE after # SENTINEL => Queued(order, after) /\ Verdict(arg, after) = "Less"
  /\ Placing => /\ node \in Slots
                /\ old = NoData => ~Queued(order, node)
                /\ old # NoData => use = "semaphore" /\ Queued(order, node)
  /\ pc = "behind" => Queued(Settled, after) /\ Verdict(data[node], after) = "Equal"
  /\ pc = "walk" => Queued(Settled, after) /\ Verdict(data[node], after) = "Less"

\* The slot a mutex has pinned is the head, or about to be.
PinInv ==
  pinned = IF use = "semaphore" THEN SENTINEL
           ELSE IF head = SENTINEL /\ Placing THEN node ELSE head

(***************************************************************************)
(* The inductive invariant.  That the links are the queue (LinksAreQueue)  *)
(* makes the walks go where they should; that the queue is in priority     *)
(* order makes any place that is found a good one, wherever in the block   *)
(* the search for it began.                                                *)
(***************************************************************************)
IInv ==
  /\ TypeOK
  /\ LinksAreQueue
  /\ QueueInOrder
  /\ BlockInv
  /\ PlaceInv
  /\ PinInv

-----------------------------------------------------------------------------
\* What the invariant says of the queue and its links.

LEMMA SlotFacts ==
  /\ SENTINEL \notin Slots /\ UNALLOCATED \notin Slots /\ SENTINEL # UNALLOCATED
  /\ NoData \notin Priorities
BY OffsetAssumption DEF Slots

LEMMA SettledProperties ==
  ASSUME TypeOK, Injective(order)
  PROVE  /\ Settled \in Seq(Slots) /\ Injective(Settled)
         /\ \A b : Queued(Settled, b) <=> b # node /\ Queued(order, b)
         /\ \A b : Queued(order, b) => b \in Slots
         /\ ~Queued(order, node) => Settled = order
         /\ node = SENTINEL => Settled = order
<1>1. order \in Seq(Slots) /\ \A b : Queued(order, b) => b \in Slots
  BY DEF TypeOK, Queued
<1>2. /\ Settled \in Seq(Slots) /\ Injective(Settled)
      /\ \A b : Queued(Settled, b) <=> b # node /\ Queued(order, b)
      /\ ~Queued(order, node) => Settled = order
  BY <1>1, BesidesProperties DEF Settled
<1>3. node = SENTINEL => ~Queued(order, node)
  BY <1>1, SlotFacts
<1> QED
  BY <1>1, <1>2, <1>3

LEMMA LinkProperties ==
  ASSUME IInv
  PROVE  /\ Settled \in Seq(Slots) /\ Injective(Settled) /\ Len(Settled) \in Nat
         /\ head = SENTINEL <=> Settled = << >>
         /\ head # SENTINEL => 1 \in 1 .. Len(Settled) /\ Settled[1] = head
         /\ \A i \in 1 .. Len(Settled) :
              /\ Settled[i] \in Slots /\ Settled[i] # node
              /\ next[Settled[i]] = IF i = Len(Settled) THEN SENTINEL ELSE Settled[i + 1]
              /\ next[Settled[i]] = SENTINEL <=> i = Len(Settled)
              /\ hasPrev => /\ prev[Settled[i]] = IF i = 1 THEN SENTINEL ELSE Settled[i - 1]
                            /\ prev[Settled[i]] = SENTINEL <=> i = 1
              /\ data[Settled[i]] \in Priorities
              /\ Queued(Settled, Settled[i]) /\ IndexOf(Settled, Settled[i]) = i
         /\ \A b : Queued(Settled, b) => /\ b \in Slots /\ b # node
                                         /\ IndexOf(Settled, b) \in 1 .. Len(Settled)
                                         /\ Settled[IndexOf(Settled, b)] = b
<1>1. /\ Settled \in Seq(Slots) /\ Injective(Settled) /\ TypeOK
      /\ \A b : Queued(Settled, b) => b \in Slots /\ b # node /\ Queued(order, b)
  BY SettledProperties DEF IInv, LinksAreQueue
<1>2. /\ Spells(Settled, head, next, SENTINEL)
      /\ hasPrev => SpellsBack(Settled, prev, SENTINEL)
  BY DEF IInv, LinksAreQueue, Settled
<1>3. /\ Len(Settled) \in Nat
      /\ Settled = << >> <=> Len(Settled) = 0
      /\ \A i \in 1 .. Len(Settled) : Settled[i] \in Slots /\ Settled[i] # SENTINEL
  BY <1>1, SlotFacts
<1>4. /\ head = SENTINEL <=> Settled = << >>
      /\ head # SENTINEL => 1 \in 1 .. Len(Settled) /\ Settled[1] = head
  BY <1>2, <1>3 DEF Spells
<1>5. ASSUME NEW i \in 1 .. Len(Settled)
      PROVE  /\ next[Settled[i]] = IF i = Len(Settled) THEN SENTINEL ELSE Settled[i + 1]
             /\ next[Settled[i]] = SENTINEL <=> i = Len(Settled)
  <2>1. i # Len(Settled) => i + 1 \in 1 .. Len(Settled)
    BY <1>3
  <2> QED
    BY <1>2, <1>3, <2>1 DEF Spells
<1>6. ASSUME NEW i \in 1 .. Len(Settled), hasPrev
      PROVE  /\ prev[Settled[i]] = IF i = 1 THEN SENTINEL ELSE Settled[i - 1]
             /\ prev[Settled[i]] = SENTINEL <=> i = 1
  <2>1. i # 1 => i - 1 \in 1 .. Len(Settled)
    BY <1>3
  <2> QED
    BY <1>2, <1>3, <1>6, <2>1 DEF SpellsBack
<1>7. ASSUME NEW i \in 1 .. Len(Settled)
      PROVE  /\ data[Settled[i]] \in Priorities /\ Settled[i] # node
             /\ Queued(Settled, Settled[i]) /\ IndexOf(Settled, Settled[i]) = i
  <2>1. Queued(Settled, Settled[i]) /\ IndexOf(Settled, Settled[i]) = i
    BY <1>1, IndexIsUnique
  <2> QED
    BY <1>1, <1>3, <2>1 DEF IInv, BlockInv, TypeOK
<1>8. \A b : Queued(Settled, b) => /\ b \in Slots /\ b # node
                                   /\ IndexOf(Settled, b) \in 1 .. Len(Settled)
                                   /\ Settled[IndexOf(Settled, b)] = b
  BY <1>1, IndexOfProperties
<1> QED
  BY <1>1, <1>3, <1>4, <1>5, <1>6, <1>7, <1>8

\* The state in which an operation returns.
LEMMA ReturnKeepsIInv ==
  ASSUME IInv, TypeOK', UNCHANGED <<hasPrev, use, size>>, size = 0 \/ good' \in Slots,
         pc' = "idle", node' = SENTINEL, old' = NoData, after' = SENTINEL, ~found',
         Injective(order'), Spells(order', head', next', SENTINEL),
         hasPrev => SpellsBack(order', prev', SENTINEL),
         \A s \in Slots : next'[s] # UNALLOCATED <=> Queued(order', s),
         \A s \in Slots : data'[s] # NoData <=> Queued(order', s),
         used' = Len(order'),
         pinned' = IF use = "semaphore" THEN SENTINEL ELSE head',
         Descending(order', data', pinned')
  PROVE  IInv'
<1>1. Slots' = Slots
  BY DEF Slots
<1>2. \A b : Queued(order', b) => b \in Slots
  BY <1>1 DEF TypeOK, Queued
<1>3. Besides(order', node') = order' /\ ~Placing'
  BY <1>2, SlotFacts DEF Placing, Besides
<1>4. LinksAreQueue'
  BY <1>1, <1>2, <1>3, SlotFacts DEF LinksAreQueue
<1>5. QueueInOrder' /\ PinInv'
  BY <1>3 DEF QueueInOrder, PinInv
<1>6. BlockInv'
  BY <1>1, SlotFacts DEF BlockInv, IInv
<1>7. PlaceInv'
  BY <1>3 DEF PlaceInv
<1> QED
  BY <1>4, <1>5, <1>6, <1>7 DEF IInv

-----------------------------------------------------------------------------
\* The steps that put a node in.

\* The place of a node that `insert' was called for: at index k of the queue
\* without it, where its neighbours allow it.
PlacedAt(k) ==
  /\ Placing
  /\ k \in 1 .. Len(Settled) + 1
  /\ order' = InsertAt(Settled, k, node)
  /\ NeighboursAllow(Settled, k, data[node], data, pinned)
  /\ Spells(order', head', next', SENTINEL)
  /\ hasPrev => SpellsBack(order', prev', SENTINEL)
  /\ head' = IF k = 1 THEN node ELSE head
  /\ next' \in [Slots -> Slots \union {SENTINEL, UNALLOCATED}]
  /\ \A s \in Slots : next'[s] # UNALLOCATED <=> s = node \/ next[s] # UNALLOCATED
  /\ prev' \in [Slots -> Slots \union {SENTINEL}]
  /\ Return
  /\ UNCHANGED <<hasPrev, use, size, used, good, data, pinned>>

LEMMA FirstIsPlaced ==
  ASSUME IInv, PlaceFirst
  PROVE  PlacedAt(1)
<1>1. /\ TypeOK /\ Placing /\ node \in Slots /\ prev \in [Slots -> Slots \union {SENTINEL}]
      /\ next \in [Slots -> Slots \union {SENTINEL, UNALLOCATED}]
      /\ head \in Slots \union {SENTINEL}
      /\ head # SENTINEL => Verdict(data[node], head) # "Less"
      /\ next' = [next EXCEPT ![node] = head]
      /\ prev' = SetPrev(hasPrev, SetPrev(hasPrev, prev, node, SENTINEL), head, node)
      /\ head' = node
      /\ order' = <<node>> \o Settled
  BY DEF IInv, PlaceInv, PlaceFirst, Placing, TypeOK, Settled
<1>2. Settled \in Seq(Slots) /\ Len(Settled) \in Nat
  BY LinkProperties
<1>3. order' = InsertAt(Settled, 1, node)
  BY <1>1, <1>2, AheadIsInsert
<1>4. PICK k \in 1 .. Len(Settled) + 1 : k = 1
  BY <1>2
<1>5. \A i \in 1 .. Len(Settled) :
        /\ Settled[i] \in Slots /\ Settled[i] # node
        /\ Settled[i] = head <=> i = 1
  <2>1. \A i \in 1 .. Len(Settled) : Settled[i] \in Slots /\ Settled[i] # node
    BY LinkProperties
  <2>2. \A i \in 1 .. Len(Settled) : Settled[i] = head <=> i = 1
    <3>1. \A i \in 1 .. Len(Settled) :
            head # SENTINEL /\ 1 \in 1 .. Len(Settled) /\ Settled[1] = head
      BY <1>2, LinkProperties
    <3> QED
      BY <3>1, LinkProperties DEF Injective
  <2> QED
    BY <2>1, <2>2
<1>6. Spells(Settled, head, next, SENTINEL) /\ (hasPrev => SpellsBack(Settled, prev, SENTINEL))
  BY DEF IInv, LinksAreQueue, Settled
<1>7. Spells(order', head', next', SENTINEL)
  <2>1. LinkedIn(Settled, k, node, head, next, head', next')
    BY <1>1, <1>4, <1>5 DEF LinkedIn
  <2>2. Spells(InsertAt(Settled, k, node), head', next', SENTINEL)
    BY ONLY <1>1, <1>2, <1>6, <2>1, SpellsWith
  <2> QED
    BY <1>3, <1>4, <2>2
<1>8. node # head
  BY <1>1, LinkProperties, SlotFacts
<1>9. ASSUME hasPrev PROVE SpellsBack(order', prev', SENTINEL)
  <2>1. /\ prev'[node] = (IF k = 1 THEN SENTINEL ELSE Settled[k - 1])
        /\ \A i \in 1 .. Len(Settled) :
             prev'[Settled[i]] = (IF i = k THEN node ELSE prev[Settled[i]])
    BY <1>1, <1>4, <1>5, <1>8, <1>9 DEF SetPrev, SetLink
  <2>2. LinkedInBack(Settled, k, node, prev, SENTINEL, prev')
    BY <2>1 DEF LinkedInBack
  <2>3. SpellsBack(InsertAt(Settled, k, node), prev', SENTINEL)
    BY ONLY <1>1, <1>2, <1>6, <1>9, <2>2, SpellsBackWith
  <2> QED
    BY <1>3, <1>4, <2>3
<1>10. NeighboursAllow(Settled, k, data[node], data, pinned)
  <2>1. 1 <= Len(Settled) => head # SENTINEL /\ Settled[1] = head
    BY <1>2, LinkProperties
  <2> QED
    BY <1>1, <1>4, <2>1 DEF NeighboursAllow, Verdict
<1>11. /\ next' \in [Slots -> Slots \union {SENTINEL, UNALLOCATED}]
       /\ \A s \in Slots : next'[s] # UNALLOCATED <=> s = node \/ next[s] # UNALLOCATED
       /\ prev' \in [Slots -> Slots \union {SENTINEL}]
  BY <1>1, SlotFacts DEF SetPrev, SetLink
<1> QED
  BY <1>1, <1>3, <1>4, <1>7, <1>9, <1>10, <1>11 DEF PlacedAt, PlaceFirst

LEMMA BehindIsPlaced ==
  ASSUME IInv, Placing, LinkBehind, Queued(Settled, after),
         Verdict(data[node], after) # "Greater",
         Verdict(data[node], after) = "Equal" \/ MayFollow(after)
  PROVE  \E k \in 1 .. Len(Settled) + 1 : PlacedAt(k)
<1>1. /\ TypeOK /\ node \in Slots /\ prev \in [Slots -> Slots \union {SENTINEL}]
      /\ next \in [Slots -> Slots \union {SENTINEL, UNALLOCATED}]
      /\ next' = [next EXCEPT ![node] = next[after], ![after] = node]
      /\ prev' = SetPrev(hasPrev, SetPrev(hasPrev, prev, next[after], node), node, after)
      /\ head' = head
      /\ order' = InsertAt(Settled, IndexOf(Settled, after) + 1, node)
  BY DEF IInv, PlaceInv, LinkBehind, TypeOK, Settled, Behind
<1>2. /\ Settled \in Seq(Slots) /\ Len(Settled) \in Nat /\ Injective(Settled)
      /\ after \in Slots /\ after # node
  BY LinkProperties
<1>3. PICK m \in 1 .. Len(Settled) : m = IndexOf(Settled, after) /\ Settled[m] = after
  BY LinkProperties
<1>4. PICK k \in 1 .. Len(Settled) + 1 : k = m + 1
  BY <1>2
<1>5. /\ k > 1 /\ k # 1 /\ k - 1 = m
      /\ order' = InsertAt(Settled, k, node)
      /\ next[after] = IF m = Len(Settled) THEN SENTINEL ELSE Settled[k]
      /\ next[after] = SENTINEL <=> m = Len(Settled)
      /\ m # Len(Settled) => k \in 1 .. Len(Settled)
      /\ k <= Len(Settled) => m # Len(Settled)
  BY <1>1, <1>2, <1>3, <1>4, LinkProperties
<1>6. \A i \in 1 .. Len(Settled) :
        /\ Settled[i] \in Slots /\ Settled[i] # node
        /\ Settled[i] = after <=> i = m
        /\ Settled[i] = next[after] <=> i = k
  <2>1. \A i \in 1 .. Len(Settled) : Settled[i] \in Slots /\ Settled[i] # node
    BY LinkProperties
  <2>2. \A i \in 1 .. Len(Settled) : Settled[i] = after <=> i = m
    BY <1>2, <1>3 DEF Injective
  <2>3. \A i \in 1 .. Len(Settled) : Settled[i] = next[after] <=> i = k
    <3>1. CASE m = Len(Settled)
      BY <1>2, <1>4, <1>5, <2>1, <3>1, SlotFacts
    <3>2. CASE m # Len(Settled)
      BY <1>2, <1>5, <3>2 DEF Injective
    <3> QED
      BY <3>1, <3>2
  <2> QED
    BY <2>1, <2>2, <2>3
<1>7. Spells(Settled, head, next, SENTINEL) /\ (hasPrev => SpellsBack(Settled, prev, SENTINEL))
  BY DEF IInv, LinksAreQueue, Settled
<1>8. Spells(order', head', next', SENTINEL)
  <2>1. /\ head' = (IF k = 1 THEN node ELSE head)
        /\ next'[node] = (IF k = 1 THEN head ELSE next[Settled[k - 1]])
        /\ \A i \in 1 .. Len(Settled) :
             next'[Settled[i]] = (IF i = k - 1 THEN node ELSE next[Settled[i]])
    BY <1>1, <1>2, <1>3, <1>5, <1>6
  <2>2. LinkedIn(Settled, k, node, head, next, head', next')
    BY <2>1 DEF LinkedIn
  <2>3. Spells(InsertAt(Settled, k, node), head', next', SENTINEL)
    BY ONLY <1>1, <1>2, <1>7, <2>2, SpellsWith
  <2> QED
    BY <1>5, <2>3
<1>9. ASSUME hasPrev PROVE SpellsBack(order', prev', SENTINEL)
  <2>1. /\ prev'[node] = (IF k = 1 THEN SENTINEL ELSE Settled[k - 1])
        /\ \A i \in 1 .. Len(Settled) :
             prev'[Settled[i]] = (IF i = k THEN node ELSE prev[Settled[i]])
    BY <1>1, <1>3, <1>5, <1>6, <1>9 DEF SetPrev, SetLink
  <2>2. LinkedInBack(Settled, k, node, prev, SENTINEL, prev')
    BY <2>1 DEF LinkedInBack
  <2>3. SpellsBack(InsertAt(Settled, k, node), prev', SENTINEL)
    BY ONLY <1>1, <1>2, <1>7, <1>9, <2>2, SpellsBackWith
  <2> QED
    BY <1>5, <2>3
<1>10. NeighboursAllow(Settled, k, data[node], data, pinned)
  BY <1>3, <1>5 DEF NeighboursAllow, Verdict, MayFollow
<1>11. /\ next' \in [Slots -> Slots \union {SENTINEL, UNALLOCATED}]
       /\ \A s \in Slots : next'[s] # UNALLOCATED <=> s = node \/ next[s] # UNALLOCATED
       /\ prev' \in [Slots -> Slots \union {SENTINEL}]
  <2>1. next[after] \in Slots \union {SENTINEL} /\ next[after] # UNALLOCATED
    BY <1>3, <1>5, <1>6, SlotFacts
  <2> QED
    BY <1>1, <1>2, <2>1, SlotFacts DEF SetPrev, SetLink
<1> QED
  BY <1>1, <1>5, <1>8, <1>9, <1>10, <1>11 DEF PlacedAt, LinkBehind

LEMMA PlacedKeepsIInv ==
  ASSUME IInv, NEW k \in 1 .. Len(Settled) + 1, PlacedAt(k)
  PROVE  IInv'
<1>1. /\ TypeOK /\ Placing /\ node \in Slots /\ data[node] \in Priorities
      /\ Slots' = Slots /\ Injective(order)
  BY DEF IInv, PlaceInv, BlockInv, TypeOK, PlacedAt, Slots, LinksAreQueue
<1>2. /\ Settled \in Seq(Slots) /\ Injective(Settled) /\ Len(Settled) \in Nat
      /\ ~Queued(Settled, node)
      /\ \A b : Queued(Settled, b) <=> b # node /\ Queued(order, b)
  BY <1>1, SettledProperties
<1>3. /\ order' = InsertAt(Settled, k, node)
      /\ order' \in Seq(Slots) /\ Injective(order') /\ Len(order') = Len(Settled) + 1
      /\ \A d : Queued(order', d) <=> d = node \/ Queued(Settled, d)
  <2>1. order' = InsertAt(Settled, k, node)
    BY DEF PlacedAt
  <2>2. /\ InsertAt(Settled, k, node) \in Seq(Slots)
        /\ Len(InsertAt(Settled, k, node)) = Len(Settled) + 1
    BY <1>1, <1>2, InsertAtProperties
  <2>3. /\ Injective(InsertAt(Settled, k, node))
        /\ \A d : Queued(InsertAt(Settled, k, node), d) <=> d = node \/ Queued(Settled, d)
    BY ONLY <1>1, <1>2, k \in 1 .. Len(Settled) + 1, InsertKeepsDistinct
  <2> QED
    BY <2>1, <2>2, <2>3
<1>4. /\ head' = (IF k = 1 THEN node ELSE head)
      /\ UNCHANGED <<hasPrev, use, size, used, good, data, pinned>>
      /\ Return
  BY DEF PlacedAt
<1>5. TypeOK'
  <2>1. /\ next' \in [Slots' -> Slots' \union {SENTINEL, UNALLOCATED}]
        /\ prev' \in [Slots' -> Slots' \union {SENTINEL}]
        /\ head' \in Slots' \union {SENTINEL}
        /\ order' \in Seq(Slots')
    BY <1>1, <1>3, <1>4 DEF PlacedAt, TypeOK
  <2>2. /\ data' \in [Slots' -> Priorities \union {NoData}]
        /\ pinned' \in Slots' \union {SENTINEL}
        /\ used' \in 0 .. size'
    BY <1>1, <1>4 DEF TypeOK
  <2>3. /\ hasPrev' \in BOOLEAN /\ use' \in Uses /\ size' \in Nat /\ good' \in Nat
        /\ pc' \in PCs /\ arg' \in Priorities \union {NoData} /\ idx' \in Nat
        /\ after' \in Slots' \union {SENTINEL} /\ found' \in BOOLEAN
        /\ node' \in Slots' \union {SENTINEL} /\ old' \in Priorities \union {NoData}
    BY <1>1, <1>4 DEF TypeOK, Return, PCs
  <2> QED
    BY <2>1, <2>2, <2>3 DEF TypeOK
<1>6. \A s \in Slots : /\ data'[s] # NoData <=> Queued(order', s)
                       /\ next'[s] # UNALLOCATED <=> Queued(order', s)
  BY <1>1, <1>2, <1>3, <1>4 DEF IInv, BlockInv, LinksAreQueue, PlacedAt
<1>7. used' = Len(order')
  <2>1. CASE Queued(order, node)
    <3>1. Settled = Dequeue(order, node) /\ used = Len(order) /\ order \in Seq(Slots)
      BY <1>1, <2>1 DEF Settled, Besides, IInv, LinksAreQueue, TypeOK
    <3>2. IndexOf(order, node) \in 1 .. Len(order)
      BY <2>1, <3>1, IndexOfProperties
    <3>3. Len(Settled) = Len(order) - 1 /\ Len(order) \in Nat
      BY <3>1, <3>2, RemoveAtProperties DEF Dequeue
    <3> QED
      BY <1>3, <1>4, <3>1, <3>3
  <2>2. CASE ~Queued(order, node)
    BY <1>1, <1>3, <1>4, <2>2, SettledProperties, SlotFacts DEF IInv, LinksAreQueue
  <2> QED
    BY <2>1, <2>2
<1>8. pinned' = IF use = "semaphore" THEN SENTINEL ELSE head'
  <2>1. CASE use = "semaphore"
    BY <1>4, <2>1 DEF IInv, PinInv
  <2>2. CASE use # "semaphore" /\ head = SENTINEL
    <3>1. k = 1
      BY <1>2, <2>2, LinkProperties
    <3> QED
      BY <1>1, <1>4, <2>2, <3>1 DEF IInv, PinInv
  <2>3. CASE use # "semaphore" /\ head # SENTINEL
    <3>1. pinned = head /\ 1 \in 1 .. Len(Settled) /\ Settled[1] = head
      BY <2>3, LinkProperties DEF IInv, PinInv
    <3>2. VerdictOn(data[node], Settled[1] = pinned, data[Settled[1]]) = "Less"
      BY <3>1 DEF VerdictOn
    <3>3. k # 1
      BY <1>2, <3>1, <3>2 DEF PlacedAt, NeighboursAllow
    <3> QED
      BY <1>4, <2>3, <3>1, <3>3
  <2> QED
    BY <2>1, <2>2, <2>3
<1>9. Descending(order', data', pinned')
  <2>1. Descending(Settled, data, pinned) /\ NeighboursAllow(Settled, k, data[node], data, pinned)
    BY DEF IInv, QueueInOrder, Settled, PlacedAt
  <2>2. \A j \in 1 .. Len(Settled) : data[Settled[j]] \in Priorities
    BY LinkProperties
  <2>3. Len(Settled) # 0 => node # pinned
    <3>1. Len(Settled) # 0 => head # SENTINEL /\ head # node
      BY <1>2, LinkProperties
    <3> QED
      BY <1>1, <3>1, SlotFacts DEF IInv, PinInv
  <2>4. PICK d \in Priorities : d = data[node]
    BY <1>1
  <2>5. NeighboursAllow(Settled, k, d, data, pinned)
    BY <2>1, <2>4
  <2>6. /\ k > 1 => Settled[k - 1] = pinned \/ Compare(d, data[Settled[k - 1]]) # "Greater"
        /\ k <= Len(Settled) => Settled[k] # pinned /\ Compare(d, data[Settled[k]]) # "Less"
    BY ONLY <1>2, <2>1, <2>2, <2>4, <2>5, k \in 1 .. Len(Settled) + 1, AllowedIsInOrder
  <2>7. /\ k > 1 => \/ Settled[k - 1] = pinned
                    \/ Compare(data[node], data[Settled[k - 1]]) # "Greater"
        /\ k <= Len(Settled) => /\ Settled[k] # pinned
                                /\ Compare(data[node], data[Settled[k]]) # "Less"
    BY <2>4, <2>6
  <2>8. Descending(InsertAt(Settled, k, node), data, pinned)
    BY ONLY <1>1, <1>2, <2>1, <2>2, <2>3, <2>7, k \in 1 .. Len(Settled) + 1, DescendingWith
  <2> QED
    BY <1>3, <1>4, <2>8
<1>10. size = 0 \/ good' \in Slots
  BY <1>4 DEF IInv, BlockInv
<1> QED
  BY <1>3, <1>4, <1>5, <1>6, <1>7, <1>8, <1>9, <1>10, ReturnKeepsIInv DEF Return, PlacedAt

LEMMA PlaceFirstKeepsIInv ==
  ASSUME IInv, PlaceFirst
  PROVE  IInv'
<1>1. PlacedAt(1)
  BY FirstIsPlaced
<1>2. 1 \in 1 .. Len(Settled) + 1
  BY <1>1 DEF PlacedAt
<1> QED
  BY <1>1, <1>2, PlacedKeepsIInv

\* The slot that `emplace' has found, or the walk of `insert' come to, is one
\* that the new node may follow.
LEMMA BehindOrWalkIsPlaced ==
  ASSUME IInv, PlaceBehind \/ PlaceHere
  PROVE  \E k \in 1 .. Len(Settled) + 1 : PlacedAt(k)
<1>1. Placing /\ LinkBehind /\ Queued(Settled, after)
  BY DEF PlaceBehind, PlaceHere, Placing, IInv, PlaceInv
<1>2. \/ Verdict(data[node], after) = "Equal"
      \/ Verdict(data[node], after) = "Less" /\ MayFollow(after)
  BY DEF PlaceBehind, PlaceHere, IInv, PlaceInv
<1> QED
  BY <1>1, <1>2, BehindIsPlaced

LEMMA BehindOrWalkKeepsIInv ==
  ASSUME IInv, PlaceBehind \/ PlaceHere
  PROVE  IInv'
BY BehindOrWalkIsPlaced, PlacedKeepsIInv

-----------------------------------------------------------------------------
\* The steps that follow the links.

LEMMA StartAtHeadKeepsIInv ==
  ASSUME IInv, StartAtHead
  PROVE  IInv'
<1>1. /\ TypeOK /\ pc = "front" /\ pc' = "walk" /\ after' = head /\ head # SENTINEL
      /\ Verdict(data[node], head) = "Less" /\ Placing /\ Placing'
      /\ UNCHANGED <<block, arg, idx, found, node, old, order>>
  BY DEF StartAtHead, Placing, IInv
<1>2. /\ UNCHANGED <<hasPrev, use, size, used, good, head, next, prev, data, pinned>>
      /\ Slots' = Slots /\ Settled' = Settled
  BY <1>1 DEF block, Slots, Settled
<1>3. Queued(Settled, head) /\ head \in Slots
  BY <1>1, LinkProperties DEF Queued
<1>4. TypeOK'
  BY <1>1, <1>2, <1>3 DEF TypeOK, PCs
<1>5. LinksAreQueue' /\ QueueInOrder' /\ BlockInv'
  BY <1>1, <1>2 DEF IInv, LinksAreQueue, QueueInOrder, BlockInv
<1>6. PlaceInv'
  BY <1>1, <1>2, <1>3 DEF IInv, PlaceInv, Verdict
<1>7. PinInv'
  BY <1>1, <1>2 DEF IInv, PinInv
<1> QED
  BY <1>4, <1>5, <1>6, <1>7 DEF IInv

LEMMA WalkKeepsIInv ==
  ASSUME IInv, Walk
  PROVE  IInv'
<1>1. /\ TypeOK /\ pc = "walk" /\ after' = next[after]
      /\ next[after] # SENTINEL /\ Verdict(data[node], next[after]) = "Less"
      /\ Queued(Settled, after) /\ Placing /\ Placing'
      /\ UNCHANGED <<block, pc, arg, idx, found, node, old, order>>
  BY DEF Walk, MayFollow, Placing, IInv, PlaceInv
<1>2. /\ UNCHANGED <<hasPrev, use, size, used, good, head, next, prev, data, pinned>>
      /\ Slots' = Slots /\ Settled' = Settled
  BY <1>1 DEF block, Slots, Settled
<1>3. Queued(Settled, next[after]) /\ next[after] \in Slots
  <2>1. PICK m \in 1 .. Len(Settled) : Settled[m] = after
    BY <1>1, LinkProperties
  <2>2. m # Len(Settled) /\ next[after] = Settled[m + 1]
    BY <1>1, <2>1, LinkProperties
  <2>3. m + 1 \in 1 .. Len(Settled)
    BY <2>2, LinkProperties
  <2> QED
    BY <2>2, <2>3, LinkProperties
<1>4. TypeOK'
  BY <1>1, <1>2, <1>3 DEF TypeOK, PCs
<1>5. LinksAreQueue' /\ QueueInOrder' /\ BlockInv'
  BY <1>1, <1>2 DEF IInv, LinksAreQueue, QueueInOrder, BlockInv
<1>6. PlaceInv'
  BY <1>1, <1>2, <1>3 DEF IInv, PlaceInv, Verdict
<1>7. PinInv'
  BY <1>1, <1>2 DEF IInv, PinInv
<1> QED
  BY <1>4, <1>5, <1>6, <1>7 DEF IInv

-----------------------------------------------------------------------------
\* The steps of `enqueue' up to `insert'.

\* The block after `enqueue' has made sure that there is a free slot: the slots
\* there were are as they were, and the new ones are free.
Grown ==
  /\ size' \in Nat /\ Slots \subseteq Slots' /\ used < size'
  /\ size' <= FirstSize + 2 * MaxUsed
  /\ good' \in Slots'
  /\ next' \in [Slots' -> Slots' \union {SENTINEL, UNALLOCATED}]
  /\ prev' \in [Slots' -> Slots' \union {SENTINEL}]
  /\ data' \in [Slots' -> Priorities \union {NoData}]
  /\ \A s \in Slots : next'[s] = next[s] /\ prev'[s] = prev[s] /\ data'[s] = data[s]
  /\ \A s \in Slots' : s \notin Slots => next'[s] = UNALLOCATED /\ data'[s] = NoData

LEMMA EnqueueGrows ==
  ASSUME IInv, NEW d \in Priorities, Enqueue(d)
  PROVE  Grown
<1>1. /\ size \in Nat /\ used \in 0 .. size /\ used < MaxUsed
      /\ next \in [Slots -> Slots \union {SENTINEL, UNALLOCATED}]
      /\ prev \in [Slots -> Slots \union {SENTINEL}]
      /\ data \in [Slots -> Priorities \union {NoData}]
      /\ size = 0 \/ good \in Slots
      /\ size <= FirstSize + 2 * MaxUsed
  BY DEF IInv, TypeOK, BlockInv, Enqueue
<1>2. CASE size # used
  <2>1. UNCHANGED <<size, next, prev, data, good>> /\ Slots' = Slots
    BY <1>2 DEF Enqueue, Slots
  <2> QED
    BY <1>1, <1>2, <2>1 DEF Grown
<1>3. CASE size = used
  <2>1. PICK s : s = IF size = 0 THEN FirstSize ELSE 2 * size
    OBVIOUS
  <2>2. /\ s \in Nat /\ size < s /\ s <= FirstSize + 2 * MaxUsed
    BY <1>1, <1>3, <2>1, SizeAssumption
  <2>3. Expand(s)
    BY <1>3, <2>1 DEF Enqueue
  <2>4. size' = s /\ Slots' = 0 .. s - 1 /\ good' = size
    BY <2>3 DEF Expand, Slots
  <2>5. Slots \subseteq Slots' /\ size \in Slots'
    BY <1>1, <2>2, <2>4 DEF Slots
  <2>6. /\ next' = [x \in Slots' |-> IF x \in Slots THEN next[x] ELSE UNALLOCATED]
        /\ prev' = [x \in Slots' |-> IF x \in Slots THEN prev[x] ELSE SENTINEL]
        /\ data' = [x \in Slots' |-> IF x \in Slots THEN data[x] ELSE NoData]
    BY <2>3, <2>4 DEF Expand
  <2>7. /\ \A x \in Slots : next[x] \in Slots' \union {SENTINEL, UNALLOCATED}
        /\ \A x \in Slots : prev[x] \in Slots' \union {SENTINEL}
        /\ \A x \in Slots : data[x] \in Priorities \union {NoData}
    BY <1>1, <2>5
  <2>8. /\ next' \in [Slots' -> Slots' \union {SENTINEL, UNALLOCATED}]
        /\ prev' \in [Slots' -> Slots' \union {SENTINEL}]
        /\ data' \in [Slots' -> Priorities \union {NoData}]
    BY <2>6, <2>7
  <2>9. /\ \A x \in Slots : next'[x] = next[x] /\ prev'[x] = prev[x] /\ data'[x] = data[x]
        /\ \A x \in Slots' : x \notin Slots => next'[x] = UNALLOCATED /\ data'[x] = NoData
    BY <2>5, <2>6
  <2> QED
    BY <1>1, <1>3, <2>2, <2>4, <2>5, <2>8, <2>9 DEF Grown
<1> QED
  BY <1>2, <1>3

LEMMA EnqueueKeepsIInv ==
  ASSUME IInv, NEW d \in Priorities, Enqueue(d)
  PROVE  IInv'
<1>1. /\ TypeOK /\ pc = "idle" /\ pc' = "emplace" /\ arg' = d /\ idx' = good'
      /\ node = SENTINEL /\ old = NoData /\ after = SENTINEL /\ ~found
      /\ UNCHANGED <<hasPrev, use, used, head, pinned, after, found, node, old, order>>
      /\ ~Placing /\ ~Placing' /\ Injective(order)
  BY DEF IInv, PlaceInv, Enqueue, Placing, LinksAreQueue
<1>2. Grown
  BY EnqueueGrows
<1>3. /\ Settled = order /\ Settled' = order /\ Besides(order, node) = order
      /\ \A b : Queued(order, b) => b \in Slots
      /\ \A i \in 1 .. Len(order) : order[i] \in Slots
  BY <1>1, SettledProperties DEF Settled, TypeOK
<1>4. TypeOK'
  <2>1. order \in Seq(Slots')
    BY <1>1, <1>2 DEF TypeOK, Grown
  <2>2. /\ head' \in Slots' \union {SENTINEL} /\ pinned' \in Slots' \union {SENTINEL}
        /\ after' \in Slots' \union {SENTINEL} /\ node' \in Slots' \union {SENTINEL}
    BY <1>1, <1>2 DEF TypeOK, Grown
  <2>3. used' \in 0 .. size' /\ good' \in Nat /\ idx' \in Nat
    BY <1>1, <1>2 DEF TypeOK, Grown, Slots
  <2> QED
    BY <1>1, <1>2, <2>1, <2>2, <2>3 DEF TypeOK, Grown, PCs
<1>5. LinksAreQueue'
  <2>1. /\ Spells(order, head, next, SENTINEL)
        /\ hasPrev => SpellsBack(order, prev, SENTINEL)
        /\ \A s \in Slots : next[s] # UNALLOCATED <=> Queued(order, s)
        /\ used = Len(order)
    BY <1>1, <1>3 DEF IInv, LinksAreQueue
  <2>2. /\ Spells(order, head, next', SENTINEL)
        /\ hasPrev => SpellsBack(order, prev', SENTINEL)
    BY <1>2, <1>3, <2>1 DEF Spells, SpellsBack, Grown
  <2>3. \A s \in Slots' : next'[s] # UNALLOCATED <=> Queued(order, s)
    BY <1>2, <1>3, <2>1 DEF Grown
  <2> QED
    BY <1>1, <1>3, <2>1, <2>2, <2>3 DEF LinksAreQueue
<1>6. QueueInOrder'
  BY <1>1, <1>2, <1>3 DEF IInv, QueueInOrder, Descending, Grown
<1>7. BlockInv'
  <2>1. \A s \in Slots : data[s] # NoData <=> Queued(order, s)
    BY <1>1, SlotFacts DEF IInv, BlockInv
  <2>2. \A s \in Slots' : data'[s] # NoData <=> Queued(order, s)
    BY <1>2, <1>3, <2>1 DEF Grown
  <2>3. \A s \in Slots' : s # SENTINEL
    BY OffsetAssumption DEF Slots
  <2> QED
    BY <1>1, <1>2, <2>2, <2>3 DEF BlockInv, Grown
<1>8. PlaceInv'
  BY <1>1, <1>2 DEF PlaceInv, Grown
<1>9. PinInv'
  BY <1>1 DEF IInv, PinInv
<1> QED
  BY <1>4, <1>5, <1>6, <1>7, <1>8, <1>9 DEF IInv

\* The index after i, around the block.
LEMMA NextIndex ==
  ASSUME TypeOK, NEW i \in Slots
  PROVE  (i + 1) % size \in Slots
<1>1. i \in Nat /\ size \in Nat /\ 0 < size /\ i + 1 \in Nat
  BY DEF TypeOK, Slots
<1>2. (i + 1) % size \in 0 .. size - 1
  BY <1>1
<1> QED
  BY <1>2 DEF Slots

LEMMA TrySlotKeepsIInv ==
  ASSUME IInv, TrySlot
  PROVE  IInv'
<1>1. /\ TypeOK /\ pc = "emplace" /\ idx \in Slots /\ next[idx] # UNALLOCATED
      /\ node = SENTINEL /\ old = NoData /\ ~Placing /\ ~Placing'
      /\ arg \in Priorities /\ used < size
      /\ idx' = (idx + 1) % size
      /\ UNCHANGED <<block, pc, arg, node, old, order>>
  BY DEF TrySlot, Placing, IInv, PlaceInv
<1>2. /\ UNCHANGED <<hasPrev, use, size, used, good, head, next, prev, data, pinned>>
      /\ Slots' = Slots
  BY <1>1 DEF block, Slots
<1>3. idx' \in Slots
  BY <1>1, NextIndex
<1>4. Queued(order, idx)
  BY <1>1 DEF IInv, LinksAreQueue
<1>5. \/ /\ after' = idx /\ found' \in BOOLEAN
         /\ found' <=> Verdict(arg, idx) = "Equal"
         /\ Verdict(arg, idx) \in {"Less", "Equal"}
      \/ UNCHANGED <<after, found>>
  BY DEF TrySlot
<1>6. TypeOK'
  <2>1. after' \in Slots \union {SENTINEL} /\ found' \in BOOLEAN
    BY <1>1, <1>5 DEF TypeOK
  <2>2. idx' \in Nat
    BY <1>3 DEF Slots
  <2> QED
    BY <1>1, <1>2, <2>1, <2>2 DEF TypeOK
<1>7. LinksAreQueue' /\ QueueInOrder' /\ BlockInv' /\ PinInv'
  BY <1>1, <1>2 DEF IInv, LinksAreQueue, QueueInOrder, BlockInv, PinInv
<1>8. IF found' THEN Queued(order, after') /\ Verdict(arg, after') = "Equal"
      ELSE after' # SENTINEL => Queued(order, after') /\ Verdict(arg, after') = "Less"
  <2>1. CASE UNCHANGED <<after, found>>
    BY <1>1, <2>1 DEF IInv, PlaceInv
  <2>2. CASE /\ after' = idx /\ found' \in BOOLEAN
             /\ found' <=> Verdict(arg, idx) = "Equal"
             /\ Verdict(arg, idx) \in {"Less", "Equal"}
    BY <1>4, <2>2
  <2> QED
    BY <1>5, <2>1, <2>2
<1>9. PlaceInv'
  <2>1. Verdict(arg, after)' = Verdict(arg, after')
    BY <1>1, <1>2 DEF Verdict
  <2>2. /\ pc' = "emplace" /\ node' = SENTINEL /\ old' = NoData /\ arg' \in Priorities
        /\ used' < size' /\ idx' \in Slots' /\ order' = order
    BY <1>1, <1>2, <1>3
  <2> QED
    BY <1>1, <1>8, <2>1, <2>2 DEF PlaceInv
<1> QED
  BY <1>6, <1>7, <1>9 DEF IInv

LEMMA TakeSlotKeepsIInv ==
  ASSUME IInv, TakeSlot
  PROVE  IInv'
<1>1. /\ TypeOK /\ pc = "emplace" /\ idx \in Slots /\ next[idx] = UNALLOCATED
      /\ node = SENTINEL /\ old = NoData /\ arg \in Priorities /\ used < size
      /\ ~Placing /\ Placing' /\ Injective(order)
      /\ IF found THEN Queued(order, after) /\ Verdict(arg, after) = "Equal"
         ELSE after # SENTINEL => Queued(order, after) /\ Verdict(arg, after) = "Less"
  BY DEF TakeSlot, Placing, IInv, PlaceInv, LinksAreQueue
<1>2. /\ good' = (idx + 1) % size /\ used' = used + 1
      /\ data' = [data EXCEPT ![idx] = arg] /\ node' = idx
      /\ pc' = IF found THEN "behind" ELSE IF after = SENTINEL THEN "front" ELSE "walk"
      /\ pinned' = IF use = "mutex" /\ used = 0 THEN idx ELSE pinned
      /\ UNCHANGED <<hasPrev, use, size, head, next, prev, arg, idx, after, found, old, order>>
      /\ Slots' = Slots
  BY DEF TakeSlot, Slots
<1>3. /\ Settled = order /\ \A b : Queued(order, b) => b \in Slots
      /\ ~Queued(order, idx)
      /\ order \in Seq(Slots) /\ Len(order) \in Nat /\ used = Len(order)
  BY <1>1, SettledProperties DEF IInv, LinksAreQueue, TypeOK
<1>4. Settled' = order /\ Besides(order', node') = order
  BY <1>2, <1>3 DEF Settled, Besides
<1>5. idx # SENTINEL /\ used # 0 => pinned' = pinned
  BY <1>1, <1>2
<1>6. TypeOK'
  <2>1. good' \in Nat
    BY <1>1, <1>2, NextIndex DEF Slots
  <2>2. used' \in 0 .. size
    BY <1>1, <1>2 DEF TypeOK
  <2>3. /\ data' \in [Slots -> Priorities \union {NoData}]
        /\ pinned' \in Slots \union {SENTINEL}
        /\ pc' \in PCs /\ node' \in Slots \union {SENTINEL}
    BY <1>1, <1>2 DEF TypeOK, PCs
  <2> QED
    BY <1>1, <1>2, <2>1, <2>2, <2>3 DEF TypeOK
<1>7. LinksAreQueue'
  <2>1. /\ Spells(order, head, next, SENTINEL)
        /\ hasPrev => SpellsBack(order, prev, SENTINEL)
        /\ \A s \in Slots : next[s] # UNALLOCATED <=> Queued(order, s)
    BY <1>3 DEF IInv, LinksAreQueue, Settled
  <2>2. used' = Len(order') + 1 /\ node' # SENTINEL /\ ~Queued(order', node')
    BY <1>1, <1>2, <1>3, SlotFacts
  <2> QED
    BY <1>1, <1>2, <1>4, <2>1, <2>2 DEF LinksAreQueue
<1>8. \A i \in 1 .. Len(order) :
        order[i] # idx /\ data'[order[i]] = data[order[i]] /\ used # 0
  BY <1>1, <1>2, <1>3 DEF TypeOK, Queued
<1>9. QueueInOrder'
  <2>1. Descending(order, data, pinned)
    BY <1>3 DEF IInv, QueueInOrder, Settled
  <2>2. Descending(order, data', pinned')
    <3>1. SUFFICES ASSUME NEW i \in 1 .. Len(order), NEW j \in 1 .. Len(order), i < j
                   PROVE  /\ order[j] # pinned'
                          /\ order[i] # pinned' =>
                               Compare(data'[order[j]], data'[order[i]]) # "Greater"
      BY DEF Descending
    <3> QED
      BY <1>2, <1>8, <2>1, <3>1 DEF Descending
  <2> QED
    BY <1>4, <2>2 DEF QueueInOrder
<1>10. BlockInv'
  <2>1. good' \in Slots
    BY <1>1, <1>2, NextIndex
  <2>2. \A s \in Slots : data[s] # NoData <=> Queued(order, s)
    BY <1>1, SlotFacts DEF IInv, BlockInv
  <2>3. \A s \in Slots : data'[s] # NoData <=> Queued(order, s) \/ s = idx
    BY <1>1, <1>2, <2>2, SlotFacts DEF TypeOK
  <2> QED
    BY <1>2, <2>1, <2>3 DEF IInv, BlockInv
<1>11. PlaceInv'
  <2>1. ASSUME Queued(order, after)
        PROVE  Verdict(data[node], after)' = Verdict(arg, after)
    <3>1. PICK i \in 1 .. Len(order) : order[i] = after
      BY <2>1 DEF Queued
    <3>2. data'[after] = data[after] /\ pinned' = pinned /\ data'[idx] = arg
      BY <1>1, <1>2, <1>8, <3>1 DEF TypeOK
    <3> QED
      BY <1>2, <3>2 DEF Verdict
  <2>2. pc' = "behind" => /\ Queued(Settled', after')
                          /\ Verdict(data[node], after)' = "Equal"
    BY <1>1, <1>2, <1>4, <2>1
  <2>3. pc' = "walk" => /\ Queued(Settled', after')
                        /\ Verdict(data[node], after)' = "Less"
    BY <1>1, <1>2, <1>4, <2>1
  <2>4. pc' \notin {"idle", "emplace"}
    BY <1>2
  <2> QED
    BY <1>1, <1>2, <1>3, <2>2, <2>3, <2>4 DEF PlaceInv
<1>12. PinInv'
  <2>1. head = SENTINEL <=> used = 0
    BY <1>3, LinkProperties
  <2> QED
    BY <1>1, <1>2, <2>1 DEF IInv, PinInv, TypeOK, Uses
<1> QED
  BY <1>6, <1>7, <1>9, <1>10, <1>11, <1>12 DEF IInv

-----------------------------------------------------------------------------
\* The steps that take a node out.

\* The node before index m.
NodeBefore(m) == IF m = 1 THEN SENTINEL ELSE order[m - 1]

\* The slot h is that of the entry at index m, and its links are what they are.
StandsAt(m, h) ==
  /\ m \in 1 .. Len(order) /\ order[m] = h
  /\ h \in Slots
  /\ h # head <=> m # 1
  /\ data[h] \in Priorities
  /\ next[h] = IF m = Len(order) THEN SENTINEL ELSE order[m + 1]
  /\ next[h] = SENTINEL <=> m = Len(order)
  /\ next[h] # h
  /\ hasPrev => prev[h] = NodeBefore(m)
  /\ m # 1 => PrevFor(h) = order[m - 1] /\ PrevFor(h) \in Slots /\ PrevFor(h) # h

LEMMA IdleProperties ==
  ASSUME IInv, pc = "idle"
  PROVE  /\ Settled = order /\ node = SENTINEL /\ old = NoData /\ ~Placing
         /\ order \in Seq(Slots) /\ Injective(order) /\ Len(order) \in Nat
         /\ used = Len(order)
         /\ \A s \in Slots : /\ next[s] # UNALLOCATED <=> Queued(order, s)
                             /\ data[s] # NoData <=> Queued(order, s)
         /\ Spells(order, head, next, SENTINEL)
         /\ hasPrev => SpellsBack(order, prev, SENTINEL)
         /\ Descending(order, data, pinned)
         /\ pinned = IF use = "semaphore" THEN SENTINEL ELSE head
<1>1. TypeOK /\ node = SENTINEL /\ old = NoData /\ ~Placing /\ Injective(order)
  BY DEF IInv, PlaceInv, Placing, LinksAreQueue
<1>2. Settled = order
  BY <1>1, SettledProperties
<1> QED
  BY <1>1, <1>2, SlotFacts
     DEF IInv, TypeOK, LinksAreQueue, BlockInv, QueueInOrder, PinInv, Settled

LEMMA EntryStands ==
  ASSUME IInv, pc = "idle", NEW h \in Slots, next[h] # UNALLOCATED
  PROVE  \E m \in 1 .. Len(order) : StandsAt(m, h) /\ IndexOf(order, h) = m
<1>1. /\ Settled = order /\ Queued(order, h) /\ Injective(order) /\ Len(order) \in Nat
      /\ \A s \in Slots : next[s] # UNALLOCATED => Queued(order, s)
  BY IdleProperties
<1>2. PICK m \in 1 .. Len(order) : order[m] = h /\ IndexOf(order, h) = m
  BY <1>1, LinkProperties
<1>3. /\ data[h] \in Priorities
      /\ next[h] = IF m = Len(order) THEN SENTINEL ELSE order[m + 1]
      /\ next[h] = SENTINEL <=> m = Len(order)
      /\ hasPrev => prev[h] = NodeBefore(m)
  BY <1>1, <1>2, LinkProperties DEF NodeBefore
<1>4. h # head <=> m # 1
  <2>1. head # SENTINEL /\ 1 \in 1 .. Len(order) /\ order[1] = head
    <3>1. order # << >>
      BY <1>1, <1>2
    <3> QED
      BY <1>1, <3>1, LinkProperties
  <2> QED
    BY <1>1, <1>2, <2>1 DEF Injective
<1>5. next[h] # h
  <2>1. m # Len(order) => m + 1 \in 1 .. Len(order) /\ m + 1 # m
    BY <1>1
  <2> QED
    BY <1>1, <1>2, <1>3, <2>1, SlotFacts DEF Injective
<1>6. ASSUME m # 1
      PROVE  PrevFor(h) = order[m - 1] /\ PrevFor(h) \in Slots /\ PrevFor(h) # h
  <2>1. m - 1 \in 1 .. Len(order) /\ m - 1 # Len(order) /\ (m - 1) + 1 = m /\ m - 1 # m
    BY <1>1, <1>6
  <2>2. order[m - 1] \in Slots /\ next[order[m - 1]] = h /\ order[m - 1] # h
    BY <1>1, <1>2, <2>1, LinkProperties DEF Injective
  <2>3. CASE hasPrev
    BY <1>3, <1>6, <2>2, <2>3 DEF PrevFor, NodeBefore
  <2>4. CASE ~hasPrev
    <3>1. PICK x : x = CHOOSE y \in Slots : next[y] = h
      OBVIOUS
    <3>2. x \in Slots /\ next[x] = h
      BY <2>2, <3>1
    <3>3. PICK i \in 1 .. Len(order) : order[i] = x
      BY <1>1, <3>2, SlotFacts DEF Queued
    <3>4. i # Len(order) /\ order[i + 1] = h
      BY <1>1, <3>2, <3>3, LinkProperties, SlotFacts
    <3>5. i + 1 \in 1 .. Len(order)
      BY <1>1, <3>4
    <3>6. i + 1 = m
      BY <1>1, <1>2, <3>4, <3>5 DEF Injective
    <3>7. i = m - 1
      BY <3>6
    <3> QED
      BY <2>2, <2>4, <3>1, <3>3, <3>7 DEF PrevFor
  <2> QED
    BY <2>3, <2>4
<1> QED
  BY <1>2, <1>3, <1>4, <1>5, <1>6 DEF StandsAt

\* The entry h at index m is unlinked: what led to it leads to what follows it.
Unlinked(m, h) ==
  /\ StandsAt(m, h)
  /\ head' = IF m = 1 THEN next[h] ELSE head
  /\ next' \in [Slots -> Slots \union {SENTINEL, UNALLOCATED}]
  /\ \A s \in Slots : s # h => next'[s] = IF s = NodeBefore(m) THEN next[h] ELSE next[s]
  /\ prev' \in [Slots -> Slots \union {SENTINEL}]
  /\ hasPrev => \A s \in Slots :
       s # h => prev'[s] = IF s = next[h] THEN NodeBefore(m) ELSE prev[s]

LEMMA UnlinkedSpells ==
  ASSUME IInv, pc = "idle", NEW m, NEW h, Unlinked(m, h), NEW r, r = RemoveAt(order, m)
  PROVE  /\ r \in Seq(Slots) /\ Injective(r) /\ Len(r) = Len(order) - 1
         /\ \A b : Queued(r, b) <=> b # h /\ Queued(order, b)
         /\ Spells(r, head', next', SENTINEL)
         /\ hasPrev => SpellsBack(r, prev', SENTINEL)
         /\ head' \in Slots \union {SENTINEL}
         /\ \A s \in Slots : s # h => (next'[s] # UNALLOCATED <=> Queued(r, s))
         /\ r = Besides(order, h) /\ r = Dequeue(order, h) /\ Queued(order, h)
<1>1. /\ order \in Seq(Slots) /\ Injective(order) /\ Settled = order
      /\ Len(order) \in Nat
      /\ m \in 1 .. Len(order) /\ order[m] = h /\ h \in Slots
      /\ Spells(order, head, next, SENTINEL) /\ (hasPrev => SpellsBack(order, prev, SENTINEL))
      /\ \A s \in Slots : next[s] # UNALLOCATED <=> Queued(order, s)
  BY IdleProperties DEF Unlinked, StandsAt
<1>2. Queued(order, h) /\ IndexOf(order, h) = m
  BY <1>1, IndexIsUnique
<1>3. /\ r = Dequeue(order, h) /\ r = Besides(order, h)
      /\ r \in Seq(Slots) /\ Injective(r)
      /\ \A b : Queued(r, b) <=> b # h /\ Queued(order, b)
  BY <1>1, <1>2, DequeueKeepsDistinct DEF Dequeue, Besides
<1>4. \A i \in 1 .. Len(order) :
        /\ order[i] \in Slots
        /\ order[i] = h <=> i = m
        /\ order[i] = NodeBefore(m) <=> i = m - 1
        /\ order[i] = next[h] <=> i = m + 1
  <2>1. \A i \in 1 .. Len(order) : order[i] \in Slots /\ (order[i] = h <=> i = m)
    BY <1>1, LinkProperties DEF Injective
  <2>2. \A i \in 1 .. Len(order) : order[i] = NodeBefore(m) <=> i = m - 1
    <3>1. m = 1 => NodeBefore(m) \notin Slots
      BY SlotFacts DEF NodeBefore
    <3>2. m # 1 => m - 1 \in 1 .. Len(order) /\ NodeBefore(m) = order[m - 1]
      BY <1>1 DEF NodeBefore
    <3> QED
      BY <1>1, <2>1, <3>1, <3>2 DEF Injective
  <2>3. \A i \in 1 .. Len(order) : order[i] = next[h] <=> i = m + 1
    <3>1. next[h] = IF m = Len(order) THEN SENTINEL ELSE order[m + 1]
      BY DEF Unlinked, StandsAt
    <3>2. m # Len(order) => m + 1 \in 1 .. Len(order)
      BY <1>1
    <3> QED
      BY <1>1, <2>1, <3>1, <3>2, SlotFacts DEF Injective
  <2> QED
    BY <2>1, <2>2, <2>3
<1>5. Spells(r, head', next', SENTINEL)
  <2>1. \A i \in 1 .. Len(order) :
          i # m => next'[order[i]] = (IF i = m - 1 THEN next[order[m]] ELSE next[order[i]])
    BY <1>1, <1>4 DEF Unlinked
  <2>2. head' = (IF m = 1 THEN next[order[m]] ELSE head)
    BY <1>1 DEF Unlinked
  <2>3. LinkedOut(order, m, head, next, head', next')
    BY <2>1, <2>2 DEF LinkedOut
  <2>4. Spells(RemoveAt(order, m), head', next', SENTINEL)
    BY ONLY <1>1, <2>3, SpellsWithout
  <2> QED
    BY <2>4
<1>6. ASSUME hasPrev PROVE SpellsBack(r, prev', SENTINEL)
  <2>1. prev[order[m]] = NodeBefore(m)
    BY <1>1, <1>6 DEF Unlinked, StandsAt
  <2>2. \A i \in 1 .. Len(order) :
          i # m => prev'[order[i]] = (IF i = m + 1 THEN prev[order[m]] ELSE prev[order[i]])
    BY <1>1, <1>4, <1>6, <2>1 DEF Unlinked
  <2>3. LinkedOutBack(order, m, prev, prev')
    BY <2>2 DEF LinkedOutBack
  <2>4. SpellsBack(RemoveAt(order, m), prev', SENTINEL)
    BY ONLY <1>1, <1>6, <2>3, SpellsBackWithout
  <2> QED
    BY <2>4
<1>7. next[h] \in Slots \union {SENTINEL} /\ next[h] # UNALLOCATED
  BY <1>1, <1>2, SlotFacts DEF IInv, TypeOK
<1>8. head' \in Slots \union {SENTINEL}
  BY <1>7 DEF Unlinked, IInv, TypeOK
<1>9. ASSUME NEW s \in Slots, s # h PROVE next'[s] # UNALLOCATED <=> Queued(r, s)
  <2>1. s = NodeBefore(m) => Queued(order, s)
    <3>1. m # 1 => m - 1 \in 1 .. Len(order)
      BY <1>1
    <3> QED
      BY <3>1, SlotFacts DEF NodeBefore, Queued
  <2> QED
    BY <1>1, <1>3, <1>7, <1>9, <2>1 DEF Unlinked
<1>10. Len(r) = Len(order) - 1
  BY <1>1, RemoveAtProperties
<1> QED
  BY <1>2, <1>3, <1>5, <1>6, <1>8, <1>9, <1>10

\* The entry h at index m leaves for good.
RemovedAt(m, h) ==
  /\ Unlinked(m, h)
  /\ next'[h] = UNALLOCATED
  /\ good' = h /\ used' = used - 1
  /\ data' = [data EXCEPT ![h] = NoData]
  /\ order' = Dequeue(order, h)
  /\ pinned' = IF h = pinned THEN next[h] ELSE pinned
  /\ UNCHANGED <<hasPrev, use, size>> /\ UNCHANGED local

LEMMA DequeueSlotRemoves ==
  ASSUME IInv, NEW h \in Slots, DequeueSlot(h)
  PROVE  \E m \in 1 .. Len(order) : RemovedAt(m, h)
<1>1. pc = "idle" /\ next[h] # UNALLOCATED
  BY DEF DequeueSlot
<1>2. PICK m \in 1 .. Len(order) : StandsAt(m, h) /\ IndexOf(order, h) = m
  BY <1>1, EntryStands
<1>3. /\ next \in [Slots -> Slots \union {SENTINEL, UNALLOCATED}]
      /\ prev \in [Slots -> Slots \union {SENTINEL}]
      /\ next[h] \in Slots \union {SENTINEL} /\ next[h] # h
      /\ hasPrev => prev[h] = NodeBefore(m) /\ NodeBefore(m) \in Slots \union {SENTINEL}
  BY <1>1, <1>2 DEF IInv, TypeOK, StandsAt
<1>4. CASE m = 1
  <2>1. /\ head' = next[h] /\ next' = [next EXCEPT ![h] = UNALLOCATED]
        /\ NodeBefore(m) = SENTINEL
    BY <1>2, <1>4 DEF StandsAt, DequeueSlot, NodeBefore
  <2>2. /\ next' \in [Slots -> Slots \union {SENTINEL, UNALLOCATED}]
        /\ next'[h] = UNALLOCATED
        /\ \A s \in Slots : s # h =>
             next'[s] = IF s = NodeBefore(m) THEN next[h] ELSE next[s]
    BY <1>3, <2>1, SlotFacts
  <2>3. /\ prev' \in [Slots -> Slots \union {SENTINEL}]
        /\ hasPrev => \A s \in Slots :
             s # h => prev'[s] = IF s = next[h] THEN NodeBefore(m) ELSE prev[s]
    BY <1>3, <2>1 DEF DequeueSlot, SetPrev, SetLink
  <2> QED
    BY <1>2, <1>4, <2>1, <2>2, <2>3 DEF RemovedAt, Unlinked, DequeueSlot
<1>5. CASE m # 1
  <2>1. PICK p \in Slots : p = PrevFor(h) /\ p # h /\ p = NodeBefore(m)
    BY <1>2, <1>5 DEF StandsAt, NodeBefore
  <2>2. /\ head' = head
        /\ next' = [next EXCEPT ![h] = UNALLOCATED, ![p] = next[h]]
    BY <1>2, <1>5, <2>1 DEF StandsAt, DequeueSlot
  <2>3. /\ next' \in [Slots -> Slots \union {SENTINEL, UNALLOCATED}]
        /\ next'[h] = UNALLOCATED
        /\ \A s \in Slots : s # h =>
             next'[s] = IF s = NodeBefore(m) THEN next[h] ELSE next[s]
    BY <1>3, <2>1, <2>2
  <2>4. /\ prev' \in [Slots -> Slots \union {SENTINEL}]
        /\ hasPrev => \A s \in Slots :
             s # h => prev'[s] = IF s = next[h] THEN NodeBefore(m) ELSE prev[s]
    BY <1>3, <2>1 DEF DequeueSlot, SetPrev, SetLink
  <2> QED
    BY <1>2, <1>5, <2>2, <2>3, <2>4 DEF RemovedAt, Unlinked, DequeueSlot
<1> QED
  BY <1>4, <1>5

LEMMA RemovedKeepsIInv ==
  ASSUME IInv, pc = "idle", NEW m \in 1 .. Len(order), NEW h, RemovedAt(m, h)
  PROVE  IInv'
<1>1. /\ order \in Seq(Slots) /\ Injective(order) /\ Settled = order
      /\ Len(order) \in Nat /\ used = Len(order)
      /\ \A s \in Slots : data[s] # NoData <=> Queued(order, s)
      /\ Descending(order, data, pinned)
      /\ pinned = IF use = "semaphore" THEN SENTINEL ELSE head
      /\ TypeOK /\ Slots' = Slots
  BY IdleProperties DEF IInv, RemovedAt, Slots
<1>2. /\ Unlinked(m, h) /\ StandsAt(m, h) /\ order[m] = h /\ h \in Slots
      /\ next[h] = IF m = Len(order) THEN SENTINEL ELSE order[m + 1]
  BY DEF RemovedAt, Unlinked, StandsAt
<1>3. PICK r : r = RemoveAt(order, m)
  OBVIOUS
<1>4. /\ r \in Seq(Slots) /\ Injective(r) /\ Len(r) = Len(order) - 1
      /\ \A b : Queued(r, b) <=> b # h /\ Queued(order, b)
      /\ Spells(r, head', next', SENTINEL)
      /\ hasPrev => SpellsBack(r, prev', SENTINEL)
      /\ head' \in Slots \union {SENTINEL}
      /\ \A s \in Slots : s # h => (next'[s] # UNALLOCATED <=> Queued(r, s))
      /\ order' = r
  BY <1>2, <1>3, UnlinkedSpells DEF RemovedAt
<1>5. /\ pc' = "idle" /\ node' = SENTINEL /\ old' = NoData /\ after' = SENTINEL /\ ~found'
      /\ UNCHANGED <<hasPrev, use, size, pc, arg, idx, after, found, node, old>>
  BY DEF RemovedAt, local, IInv, PlaceInv
<1>6. next[h] \in Slots \union {SENTINEL}
  <2>1. m # Len(order) => m + 1 \in 1 .. Len(order)
    BY <1>1
  <2> QED
    BY <1>1, <1>2, <2>1
<1>7. TypeOK'
  <2>1. /\ next' \in [Slots -> Slots \union {SENTINEL, UNALLOCATED}]
        /\ prev' \in [Slots -> Slots \union {SENTINEL}]
        /\ data' \in [Slots -> Priorities \union {NoData}]
        /\ pinned' \in Slots \union {SENTINEL}
    BY <1>1, <1>2, <1>6 DEF RemovedAt, Unlinked, TypeOK
  <2>2. used' \in 0 .. size /\ good' \in Nat
    BY <1>1, <1>2 DEF RemovedAt, TypeOK, Slots
  <2> QED
    BY <1>1, <1>4, <1>5, <2>1, <2>2 DEF TypeOK
<1>8. \A s \in Slots : /\ next'[s] # UNALLOCATED <=> Queued(order', s)
                       /\ data'[s] # NoData <=> Queued(order', s)
  <2> SUFFICES ASSUME NEW s \in Slots
               PROVE  /\ next'[s] # UNALLOCATED <=> Queued(order', s)
                      /\ data'[s] # NoData <=> Queued(order', s)
    OBVIOUS
  <2>1. CASE s = h
    BY <1>1, <1>2, <1>4, <2>1 DEF RemovedAt, TypeOK
  <2>2. CASE s # h
    BY <1>1, <1>2, <1>4, <2>2 DEF RemovedAt, TypeOK
  <2> QED
    BY <2>1, <2>2
<1>9. used' = Len(order') /\ (size = 0 \/ good' \in Slots)
  BY <1>1, <1>2, <1>4 DEF RemovedAt
<1>10. pinned' = IF use = "semaphore" THEN SENTINEL ELSE head'
  BY <1>1, <1>2, SlotFacts DEF RemovedAt, Unlinked, StandsAt
<1>11. Descending(order', data', pinned')
  <2>1. \A i \in 1 .. Len(order) : i # m => data'[order[i]] = data[order[i]]
    BY <1>1, <1>2 DEF RemovedAt, TypeOK, Injective
  <2>2. order[m] # pinned => pinned' = pinned
    BY <1>2 DEF RemovedAt
  <2>3. order[m] = pinned /\ Len(order) > 1 => m = 1 /\ pinned' = order[2]
    BY <1>1, <1>2, SlotFacts DEF RemovedAt, StandsAt
  <2>4. Descending(RemoveAt(order, m), data', pinned')
    BY ONLY <1>1, <2>1, <2>2, <2>3, m \in 1 .. Len(order), DescendingWithout
  <2> QED
    BY <1>3, <1>4, <2>4
<1> QED
  BY <1>4, <1>5, <1>7, <1>8, <1>9, <1>10, <1>11, ReturnKeepsIInv

-----------------------------------------------------------------------------
\* update_node.

\* The entry h at index m, whose data may have changed, stays where it is.
StaysAt(m, h) ==
  /\ StandsAt(m, h)
  /\ use = "semaphore" /\ pc = "idle"
  /\ UNCHANGED <<hasPrev, use, size, used, good, head, next, prev, pinned, order>>
  /\ UNCHANGED local
  /\ data' \in [Slots -> Priorities \union {NoData}]
  /\ \A s \in Slots : s # h => data'[s] = data[s]
  /\ data'[h] \in Priorities
  /\ m > 1 => Compare(data'[h], data[order[m - 1]]) # "Greater"
  /\ m < Len(order) => Compare(data'[h], data[order[m + 1]]) # "Less"

\* What is left of the queue is in order, whatever becomes of the entry's data.
LEMMA AsideKeepsOrder ==
  ASSUME IInv, pc = "idle", use = "semaphore", NEW m, NEW h, StandsAt(m, h),
         NEW data2, \A s \in Slots : s # h => data2[s] = data[s]
  PROVE  /\ Descending(RemoveAt(order, m), data2, pinned)
         /\ Descending(RemoveAt(order, m), data, pinned)
<1>1. /\ order \in Seq(Slots) /\ Injective(order) /\ Descending(order, data, pinned)
      /\ m \in 1 .. Len(order) /\ order[m] # pinned /\ order[m] = h
  BY IdleProperties, SlotFacts DEF StandsAt
<1>2. \A i \in 1 .. Len(order) : i # m => data2[order[i]] = data[order[i]]
  BY <1>1 DEF Injective
<1>3. Descending(RemoveAt(order, m), data2, pinned)
  BY ONLY <1>1, <1>2, DescendingWithout
<1>4. Descending(RemoveAt(order, m), data, pinned)
  BY ONLY <1>1, DescendingWithout
<1> QED
  BY <1>3, <1>4

LEMMA StaysInOrder ==
  ASSUME IInv, NEW m, NEW h, StaysAt(m, h), NEW r, r = RemoveAt(order, m)
  PROVE  /\ Descending(order, data', pinned) /\ r \in Seq(Slots)
         /\ m \in 1 .. Len(r) + 1 /\ order = InsertAt(r, m, h)
         /\ \A j \in 1 .. m - 1 : r[j] = pinned \/ Compare(data'[h], data[r[j]]) # "Greater"
         /\ \A j \in m .. Len(r) : r[j] # pinned /\ Compare(data'[h], data[r[j]]) # "Less"
<1>1. /\ order \in Seq(Slots) /\ Injective(order) /\ Len(order) \in Nat
      /\ m \in 1 .. Len(order) /\ order[m] = h /\ Settled = order
      /\ pinned = SENTINEL
  BY IdleProperties DEF StaysAt, StandsAt
<1>2. h \in Slots /\ \A i \in 1 .. Len(order) : order[i] \in Slots /\ order[i] # pinned
                                              /\ data[order[i]] \in Priorities
  BY <1>1, LinkProperties, SlotFacts
<1>3. \A i \in 1 .. Len(order) : i # m => order[i] # h
  BY <1>1 DEF Injective
<1>4. PICK data2 : data2 = data'
  OBVIOUS
<1>5. /\ \A i \in 1 .. Len(order) : i # m => data2[order[i]] = data[order[i]]
      /\ data2[h] \in Priorities
  BY <1>2, <1>3, <1>4 DEF StaysAt
<1>6. \A i \in 1 .. Len(order) : data2[order[i]] \in Priorities
  BY <1>1, <1>2, <1>5
<1>7. order[m] # pinned
  BY <1>1, <1>2
<1>8. m > 1 => \/ order[m - 1] = pinned
               \/ Compare(data2[order[m]], data2[order[m - 1]]) # "Greater"
  <2>1. m > 1 => m - 1 \in 1 .. Len(order) /\ m - 1 # m
    BY <1>1
  <2> QED
    BY <1>1, <1>4, <1>5, <2>1 DEF StaysAt
<1>9. m < Len(order) => /\ order[m + 1] # pinned
                        /\ Compare(data2[order[m]], data2[order[m + 1]]) # "Less"
  <2>1. m < Len(order) => m + 1 \in 1 .. Len(order) /\ m + 1 # m
    BY <1>1
  <2> QED
    BY <1>1, <1>2, <1>4, <1>5, <2>1 DEF StaysAt
<1>10. r = RemoveAt(order, m) /\ Descending(r, data, pinned)
  <2>1. \A s \in Slots : s # h => data2[s] = data[s]
    BY <1>4 DEF StaysAt
  <2>2. pc = "idle" /\ use = "semaphore" /\ StandsAt(m, h)
    BY DEF StaysAt
  <2> QED
    BY <2>1, <2>2, AsideKeepsOrder
<1>11. PICK d : d = data2[order[m]]
  OBVIOUS
<1>12. InOrderAt(order, m, data, data2, pinned)
  BY <1>5, <1>6, <1>7, <1>8, <1>9 DEF InOrderAt
<1>13. /\ Descending(order, data2, pinned) /\ r \in Seq(Slots) /\ m \in 1 .. Len(r) + 1
       /\ order = InsertAt(r, m, order[m])
       /\ \A j \in 1 .. m - 1 : r[j] = pinned \/ Compare(d, data[r[j]]) # "Greater"
       /\ \A j \in m .. Len(r) : r[j] # pinned /\ Compare(d, data[r[j]]) # "Less"
  BY ONLY <1>1, <1>10, <1>11, <1>12, DescendingAgain
<1> QED
  BY <1>1, <1>4, <1>11, <1>13

LEMMA StaysKeepsIInv ==
  ASSUME IInv, NEW m, NEW h, StaysAt(m, h)
  PROVE  IInv'
<1>1. Descending(order, data', pinned)
  BY StaysInOrder
<1>2. /\ Injective(order) /\ used = Len(order)
      /\ Spells(order, head, next, SENTINEL)
      /\ hasPrev => SpellsBack(order, prev, SENTINEL)
      /\ \A s \in Slots : /\ next[s] # UNALLOCATED <=> Queued(order, s)
                          /\ data[s] # NoData <=> Queued(order, s)
      /\ pinned = IF use = "semaphore" THEN SENTINEL ELSE head
      /\ TypeOK /\ StandsAt(m, h) /\ h \in Slots /\ data[h] \in Priorities
  BY IdleProperties DEF StaysAt, StandsAt, IInv
<1>3. /\ UNCHANGED <<hasPrev, use, size, used, good, head, next, prev, pinned, order>>
      /\ UNCHANGED <<pc, arg, idx, after, found, node, old>>
      /\ Slots' = Slots
  BY DEF StaysAt, local, Slots
<1>4. /\ pc' = "idle" /\ node' = SENTINEL /\ old' = NoData /\ after' = SENTINEL /\ ~found'
      /\ size = 0 \/ good' \in Slots
  BY <1>3 DEF StaysAt, IInv, PlaceInv, BlockInv
<1>5. TypeOK'
  BY <1>2, <1>3 DEF TypeOK, StaysAt
<1>6. \A s \in Slots : data'[s] # NoData <=> Queued(order', s)
  BY <1>2, <1>3, SlotFacts DEF StaysAt
<1> QED
  BY <1>1, <1>2, <1>3, <1>4, <1>5, <1>6, ReturnKeepsIInv

LEMMA UpdateStays ==
  ASSUME IInv, NEW h \in Slots, NEW d \in Priorities, Update(h, d) \/ Amend(h, d),
         pc' = "idle"
  PROVE  data'[h] = d /\ \E m \in 1 .. Len(order) : StaysAt(m, h)
<1>1. /\ pc = "idle" /\ next[h] # UNALLOCATED /\ use = "semaphore"
      /\ data' = [data EXCEPT ![h] = d]
      /\ UNCHANGED <<hasPrev, use, size, used, good, pinned, order>>
      /\ UNCHANGED <<arg, idx, found>>
  BY DEF Update, Amend, local
<1>2. /\ UNCHANGED <<head, next, prev, after, pc, node, old>>
      /\ Amend(h, d) \/ ~Misplaced(h, d)
  BY <1>1 DEF Update, Amend, Unlink, local
<1>3. PICK m \in 1 .. Len(order) : StandsAt(m, h)
  BY <1>1, EntryStands
<1>4. /\ data' \in [Slots -> Priorities \union {NoData}]
      /\ \A s \in Slots : s # h => data'[s] = data[s]
      /\ data'[h] = d
  BY <1>1 DEF IInv, TypeOK
<1>5. /\ Settled = order /\ Len(order) \in Nat /\ Descending(order, data, pinned)
      /\ order[m] = h /\ data[h] \in Priorities
  BY <1>1, <1>3, IdleProperties DEF StandsAt
<1>6. \A i \in 1 .. Len(order) : order[i] \in Slots /\ order[i] # pinned
                                 /\ data[order[i]] \in Priorities
  BY <1>1, <1>5, LinkProperties, IdleProperties, SlotFacts
<1>7. /\ m > 1 => m - 1 \in 1 .. Len(order) /\ m # 1
      /\ m < Len(order) => m + 1 \in 1 .. Len(order) /\ m # Len(order)
  BY <1>5
<1>8. /\ m > 1 => Compare(d, data[order[m - 1]]) # "Greater"
      /\ m < Len(order) => Compare(d, data[order[m + 1]]) # "Less"
  <2>1. CASE ~Misplaced(h, d)
    BY <1>3, <1>7, <2>1 DEF Misplaced, StandsAt
  <2>2. CASE Amend(h, d)
    <3>1. Compare(d, data[h]) = "Equal"
      BY <2>2 DEF Amend
    <3>2. /\ m > 1 => Compare(data[h], data[order[m - 1]]) # "Greater"
          /\ m < Len(order) => Compare(data[order[m + 1]], data[h]) # "Greater"
      BY <1>5, <1>6, <1>7 DEF Descending
    <3> QED
      BY <1>5, <1>6, <1>7, <3>1, <3>2, CompareIsPreorder
  <2> QED
    BY <1>2, <2>1, <2>2
<1> QED
  BY <1>1, <1>2, <1>3, <1>4, <1>8 DEF StaysAt, local

\* The entry h at index m is out of the links, to be inserted anew; `order' still
\* has it.
TakenOut(m, h) ==
  /\ Unlinked(m, h)
  /\ use = "semaphore" /\ pc = "idle"
  /\ next'[h] = next[h]
  /\ UNCHANGED <<hasPrev, use, size, used, good, pinned, order, arg, idx, found>>
  /\ node' = h /\ old' = data[h]
  /\ data' \in [Slots -> Priorities \union {NoData}]
  /\ \A s \in Slots : s # h => data'[s] = data[s]
  /\ data'[h] \in Priorities
  /\ \/ pc' = "front" /\ UNCHANGED after
     \/ /\ pc' = "walk" /\ after' = next[h] /\ next[h] # SENTINEL
        /\ Compare(data'[h], data[next[h]]) = "Less"

LEMMA UpdateTakesOut ==
  ASSUME IInv, NEW h \in Slots, NEW d \in Priorities, Update(h, d), pc' # "idle"
  PROVE  \E m \in 1 .. Len(order) : TakenOut(m, h)
<1>1. /\ pc = "idle" /\ next[h] # UNALLOCATED /\ use = "semaphore"
      /\ data' = [data EXCEPT ![h] = d]
      /\ UNCHANGED <<hasPrev, use, size, used, good, pinned, order, arg, idx, found>>
  BY DEF Update
<1>2. Misplaced(h, d) /\ Unlink(h) /\ node' = h /\ old' = data[h]
  BY <1>1 DEF Update
<1>3. PICK m \in 1 .. Len(order) : StandsAt(m, h)
  BY <1>1, EntryStands
<1>4. /\ data' \in [Slots -> Priorities \union {NoData}]
      /\ \A s \in Slots : s # h => data'[s] = data[s]
      /\ data'[h] = d
  BY <1>1 DEF IInv, TypeOK
<1>5. /\ next \in [Slots -> Slots \union {SENTINEL, UNALLOCATED}]
      /\ prev \in [Slots -> Slots \union {SENTINEL}]
      /\ next[h] \in Slots \union {SENTINEL} /\ next[h] # h
      /\ hasPrev => prev[h] = NodeBefore(m) /\ NodeBefore(m) \in Slots \union {SENTINEL}
  BY <1>1, <1>3 DEF IInv, TypeOK, StandsAt
<1>6. CASE m = 1
  <2>1. /\ head' = next[h] /\ next' = next /\ NodeBefore(m) = SENTINEL
        /\ prev' = SetPrev(hasPrev, prev, next[h], SENTINEL)
        /\ after' = next[h] /\ pc' = "walk"
    BY <1>2, <1>3, <1>6 DEF StandsAt, Unlink, NodeBefore
  <2>2. /\ next' \in [Slots -> Slots \union {SENTINEL, UNALLOCATED}]
        /\ next'[h] = next[h]
        /\ \A s \in Slots : s # h =>
             next'[s] = IF s = NodeBefore(m) THEN next[h] ELSE next[s]
    BY <1>5, <2>1, SlotFacts
  <2>3. /\ prev' \in [Slots -> Slots \union {SENTINEL}]
        /\ hasPrev => \A s \in Slots :
             s # h => prev'[s] = IF s = next[h] THEN NodeBefore(m) ELSE prev[s]
    BY <1>5, <2>1 DEF SetPrev, SetLink
  <2>4. next[h] # SENTINEL /\ Compare(d, data[next[h]]) = "Less"
    BY <1>2, <1>3, <1>6 DEF Misplaced, StandsAt
  <2>5. Unlinked(m, h)
    BY <1>3, <1>6, <2>1, <2>2, <2>3 DEF Unlinked
  <2> QED
    BY <1>1, <1>2, <1>4, <2>1, <2>2, <2>4, <2>5 DEF TakenOut
<1>7. CASE m # 1
  <2>1. PICK p \in Slots : p = PrevFor(h) /\ p # h /\ p = NodeBefore(m)
    BY <1>3, <1>7 DEF StandsAt, NodeBefore
  <2>2. /\ head' = head /\ next' = [next EXCEPT ![p] = next[h]]
        /\ prev' = SetPrev(hasPrev, prev, next[h], prev[h])
        /\ pc' = "front" /\ UNCHANGED after
    BY <1>2, <1>3, <1>7, <2>1 DEF StandsAt, Unlink
  <2>3. /\ next' \in [Slots -> Slots \union {SENTINEL, UNALLOCATED}]
        /\ next'[h] = next[h]
        /\ \A s \in Slots : s # h =>
             next'[s] = IF s = NodeBefore(m) THEN next[h] ELSE next[s]
    BY <1>5, <2>1, <2>2
  <2>4. /\ prev' \in [Slots -> Slots \union {SENTINEL}]
        /\ hasPrev => \A s \in Slots :
             s # h => prev'[s] = IF s = next[h] THEN NodeBefore(m) ELSE prev[s]
    BY <1>5, <2>2 DEF SetPrev, SetLink
  <2>5. Unlinked(m, h)
    BY <1>3, <1>7, <2>2, <2>3, <2>4 DEF Unlinked
  <2> QED
    BY <1>1, <1>2, <1>4, <2>2, <2>3, <2>5 DEF TakenOut
<1> QED
  BY <1>6, <1>7

LEMMA TakenOutKeepsIInv ==
  ASSUME IInv, NEW m, NEW h, TakenOut(m, h)
  PROVE  IInv'
<1>1. /\ pc = "idle" /\ use = "semaphore" /\ Unlinked(m, h) /\ StandsAt(m, h)
      /\ UNCHANGED <<hasPrev, use, size, used, good, pinned, order, arg, idx, found>>
      /\ node' = h /\ old' = data[h] /\ h \in Slots
      /\ data[h] \in Priorities /\ data'[h] \in Priorities
      /\ next'[h] = next[h] /\ Slots' = Slots
  BY DEF TakenOut, Unlinked, StandsAt, Slots
<1>2. /\ TypeOK /\ Injective(order) /\ used = Len(order) /\ pinned = SENTINEL
      /\ \A s \in Slots : /\ next[s] # UNALLOCATED <=> Queued(order, s)
                          /\ data[s] # NoData <=> Queued(order, s)
  BY <1>1, IdleProperties DEF IInv
<1>3. PICK r : r = RemoveAt(order, m)
  OBVIOUS
<1>4. /\ \A b : Queued(r, b) <=> b # h /\ Queued(order, b)
      /\ Spells(r, head', next', SENTINEL)
      /\ hasPrev => SpellsBack(r, prev', SENTINEL)
      /\ head' \in Slots \union {SENTINEL}
      /\ \A s \in Slots : s # h => (next'[s] # UNALLOCATED <=> Queued(r, s))
      /\ r = Besides(order, h) /\ Queued(order, h)
  BY <1>1, <1>3, UnlinkedSpells
<1>5. Besides(order', node') = r /\ Settled' = r
  BY <1>1, <1>4 DEF Settled
<1>6. /\ pc' \in {"front", "walk"} /\ Placing'
      /\ after' \in Slots \union {SENTINEL}
      /\ pc' = "walk" => /\ after' = next[h] /\ next[h] # SENTINEL
                         /\ Compare(data'[h], data[next[h]]) = "Less"
  <2>1. pc' \in {"front", "walk"} /\ Placing'
    BY DEF TakenOut, Placing
  <2>2. pc' = "walk" => /\ after' = next[h] /\ next[h] # SENTINEL
                        /\ Compare(data'[h], data[next[h]]) = "Less"
    BY DEF TakenOut
  <2>3. next[h] \in Slots \union {SENTINEL}
    BY <1>1, <1>2, <1>4 DEF TypeOK
  <2>4. after' \in Slots \union {SENTINEL}
    BY <1>2, <2>1, <2>2, <2>3 DEF TakenOut, TypeOK
  <2> QED
    BY <2>1, <2>2, <2>4
<1>7. TypeOK'
  <2>1. /\ next' \in [Slots -> Slots \union {SENTINEL, UNALLOCATED}]
        /\ prev' \in [Slots -> Slots \union {SENTINEL}]
        /\ data' \in [Slots -> Priorities \union {NoData}]
    BY <1>1 DEF TakenOut, Unlinked
  <2>2. pc' \in PCs
    BY <1>6 DEF PCs
  <2> QED
    BY <1>1, <1>2, <1>4, <1>6, <2>1, <2>2 DEF TypeOK
<1>8. LinksAreQueue'
  <2>1. \A s \in Slots : next'[s] # UNALLOCATED <=> Queued(order, s)
    BY <1>1, <1>2, <1>4
  <2> QED
    BY <1>1, <1>2, <1>4, <1>5, <2>1 DEF LinksAreQueue
<1>9. QueueInOrder'
  <2>1. \A s \in Slots : s # h => data'[s] = data[s]
    BY DEF TakenOut
  <2>2. Descending(r, data', pinned)
    BY <1>1, <1>3, <2>1, AsideKeepsOrder
  <2> QED
    BY <1>1, <1>5, <2>2 DEF QueueInOrder
<1>10. BlockInv'
  <2>1. \A s \in Slots : data'[s] # NoData <=> Queued(order, s) \/ s = h
    BY <1>1, <1>2, SlotFacts DEF TakenOut
  <2> QED
    BY <1>1, <2>1 DEF IInv, BlockInv
<1>11. pc' = "walk" => Queued(r, after') /\ Verdict(data[node], after)' = "Less"
  <2> SUFFICES ASSUME pc' = "walk"
               PROVE  Queued(r, after') /\ Verdict(data[node], after)' = "Less"
    OBVIOUS
  <2>1. m # Len(order) /\ next[h] = order[m + 1] /\ next[h] # h /\ next[h] # SENTINEL
    BY <1>1, <1>6 DEF StandsAt
  <2>2. m + 1 \in 1 .. Len(order)
    BY <1>1, <1>2, <2>1 DEF StandsAt, TypeOK
  <2>3. Queued(order, next[h]) /\ next[h] \in Slots
    BY <1>2, <2>1, <2>2 DEF Queued, TypeOK
  <2>4. data[next[h]] \in Priorities /\ data'[next[h]] = data[next[h]]
    BY <1>2, <2>1, <2>3 DEF TypeOK, TakenOut
  <2>5. CompareNew(data'[h], data[next[h]]) = "Less"
    BY <1>1, <1>6, <2>4, CompareIsPreorder
  <2> QED
    BY <1>1, <1>4, <1>6, <2>1, <2>3, <2>4, <2>5 DEF Verdict, VerdictOn
<1>12. PlaceInv'
  BY <1>1, <1>4, <1>5, <1>6, <1>11, SlotFacts DEF PlaceInv
<1>13. PinInv'
  BY <1>1, <1>2 DEF PinInv
<1> QED
  BY <1>7, <1>8, <1>9, <1>10, <1>12, <1>13 DEF IInv

-----------------------------------------------------------------------------
\* The theorems about the inductive invariant.

LEMMA InitIInv ==
  ASSUME InitialHead = SENTINEL
  PROVE  Init => IInv
<1> SUFFICES ASSUME Init PROVE IInv
  OBVIOUS
<1>1. /\ size = 0 /\ used = 0 /\ good = 0 /\ head = SENTINEL
      /\ next = << >> /\ prev = << >> /\ data = << >> /\ pinned = SENTINEL
      /\ pc = "idle" /\ arg = NoData /\ idx = 0 /\ after = SENTINEL /\ found = FALSE
      /\ node = SENTINEL /\ old = NoData /\ order = << >>
      /\ hasPrev \in BOOLEAN /\ use \in Uses
  BY DEF Init
<1>2. Slots = {} /\ ~Placing
  BY <1>1 DEF Slots, Placing
<1>3. Len(order) = 0 /\ ~Queued(order, node) /\ Besides(order, node) = << >>
  BY <1>1 DEF Queued, Besides
<1>4. TypeOK
  <2>1. ASSUME NEW T PROVE << >> \in [Slots -> T]
    <3>1. << >> \in Seq(T) /\ Len(<< >>) = 0
      OBVIOUS
    <3>2. << >> \in [1 .. 0 -> T]
      BY <3>1
    <3>3. 1 .. 0 = Slots
      BY <1>2
    <3> QED
      BY <3>2, <3>3
  <2> QED
    <3>1. /\ next \in [Slots -> Slots \union {SENTINEL, UNALLOCATED}]
          /\ prev \in [Slots -> Slots \union {SENTINEL}]
          /\ data \in [Slots -> Priorities \union {NoData}]
      BY <1>1, <2>1
    <3>2. order \in Seq(Slots) /\ used \in 0 .. size
      BY <1>1
    <3> QED
      BY <1>1, <3>1, <3>2 DEF TypeOK, PCs
<1>5. LinksAreQueue
  BY <1>1, <1>2, <1>3 DEF LinksAreQueue, Spells, SpellsBack, Injective
<1>6. QueueInOrder
  BY <1>3 DEF QueueInOrder, Descending
<1>7. BlockInv /\ PlaceInv /\ PinInv
  BY <1>1, <1>2, SizeAssumption DEF BlockInv, PlaceInv, PinInv
<1> QED
  BY <1>4, <1>5, <1>6, <1>7 DEF IInv

LEMMA StutterKeepsIInv ==
  ASSUME IInv, UNCHANGED vars
  PROVE  IInv'
<1>1. /\ UNCHANGED <<hasPrev, use, size, used, good, head, next, prev, data, pinned>>
      /\ UNCHANGED <<pc, arg, idx, after, found, node, old, order>>
  BY DEF vars, block, local
<1>2. Slots' = Slots /\ Settled' = Settled /\ (Placing' <=> Placing)
  BY <1>1 DEF Slots, Settled, Placing
<1>3. TypeOK' /\ BlockInv'
  BY <1>1, <1>2 DEF IInv, TypeOK, BlockInv
<1>4. LinksAreQueue' /\ QueueInOrder' /\ PinInv'
  BY <1>1, <1>2 DEF IInv, LinksAreQueue, QueueInOrder, PinInv
<1>5. PlaceInv'
  BY <1>1, <1>2 DEF IInv, PlaceInv, Verdict
<1> QED
  BY <1>3, <1>4, <1>5 DEF IInv

LEMMA NextKeepsIInv == IInv /\ [Next]_vars => IInv'
<1> SUFFICES ASSUME IInv, [Next]_vars PROVE IInv'
  OBVIOUS
<1>1. ASSUME NEW d \in Priorities, Enqueue(d) PROVE IInv'
  BY <1>1, EnqueueKeepsIInv
<1>2. ASSUME NEW h \in Slots, DequeueSlot(h) PROVE IInv'
  <2>1. PICK m \in 1 .. Len(order) : RemovedAt(m, h)
    BY <1>2, DequeueSlotRemoves
  <2>2. pc = "idle"
    BY <1>2 DEF DequeueSlot
  <2> QED
    BY <2>1, <2>2, RemovedKeepsIInv
<1>3. ASSUME NEW h \in Slots, NEW d \in Priorities, Update(h, d) \/ Amend(h, d)
      PROVE  IInv'
  <2>1. CASE pc' = "idle"
    BY <1>3, <2>1, UpdateStays, StaysKeepsIInv
  <2>2. CASE pc' # "idle"
    <3>1. Update(h, d)
      BY <1>3, <2>2 DEF Amend, local
    <3> QED
      BY <2>2, <3>1, UpdateTakesOut, TakenOutKeepsIInv
  <2> QED
    BY <2>1, <2>2
<1>4. CASE Step
  <2>1. CASE TrySlot
    BY <2>1, TrySlotKeepsIInv
  <2>2. CASE TakeSlot
    BY <2>2, TakeSlotKeepsIInv
  <2>3. CASE PlaceBehind \/ PlaceHere
    BY <2>3, BehindOrWalkKeepsIInv
  <2>4. CASE PlaceFirst
    BY <2>4, PlaceFirstKeepsIInv
  <2>5. CASE StartAtHead
    BY <2>5, StartAtHeadKeepsIInv
  <2>6. CASE Walk
    BY <2>6, WalkKeepsIInv
  <2> QED
    BY <1>4, <2>1, <2>2, <2>3, <2>4, <2>5, <2>6 DEF Step
<1>5. CASE UNCHANGED vars
  BY <1>5, StutterKeepsIInv
<1> QED
  BY <1>1, <1>2, <1>3, <1>4, <1>5 DEF Next

\* In a queue made by Default: the inductive invariant holds, wherever the
\* operation under way is.
THEOREM Invariant ==
  ASSUME InitialHead = SENTINEL
  PROVE  Spec => []IInv
<1> QED
  BY InitIInv, NextKeepsIInv, PTL DEF Spec

\* In every state of a queue made by Default the links spell the queue, forwards
\* and backwards, the slots in use are those of its entries, and `used' counts
\* them.
THEOREM LinksAreAlwaysQueue ==
  ASSUME InitialHead = SENTINEL
  PROVE  Spec => []LinksAreQueue
<1>1. IInv => LinksAreQueue
  BY DEF IInv
<1> QED
  BY <1>1, Invariant, PTL

\* A queue made by Default is in priority order, whichever slots the entries are
\* in, wherever the search for a place started, and however they were updated.
THEOREM OrderOfTheQueue ==
  ASSUME InitialHead = SENTINEL
  PROVE  Spec => []QueueInOrder
<1>1. IInv => QueueInOrder
  BY DEF IInv
<1> QED
  BY <1>1, Invariant, PTL

-----------------------------------------------------------------------------
\* The refinement: the entry of AbstractQueue that a slot is.

Handles == 0 .. FirstSize + 2 * MaxUsed

Recs == [handle : Handles, data : Priorities \union {NoData}, pinned : BOOLEAN]

Rec ==
  [b \in Slots |-> [handle |-> b,
                    data   |-> IF b = node THEN old ELSE data[b],
                    pinned |-> b = pinned]]

\* The operators of PriorityQueue are those AbstractQueue has.
LEMMA AbstractOperators ==
  /\ \A q, i, e : Abstract!InsertAt(q, i, e) = InsertAt(q, i, e)
  /\ \A q, i : Abstract!RemoveAt(q, i) = RemoveAt(q, i)
  /\ \A q, v : Abstract!EnqueuePositions(q, v) = EnqueuePositions(q, v)
  /\ \A q, v : Abstract!InAgreement(q, v) <=> InAgreement(q, v)
<1>1. \A q, i, e : Abstract!InsertAt(q, i, e) = InsertAt(q, i, e)
  BY DEF Abstract!InsertAt, InsertAt
<1>2. \A q, i : Abstract!RemoveAt(q, i) = RemoveAt(q, i)
  BY DEF Abstract!RemoveAt, RemoveAt
<1>3. \A q, v : Abstract!EnqueuePositions(q, v) = EnqueuePositions(q, v)
  BY DEF Abstract!EnqueuePositions, EnqueuePositions
<1>4. \A q, v : Abstract!InAgreement(q, v) <=> InAgreement(q, v)
  BY DEF Abstract!InAgreement, InAgreement
<1> QED
  BY <1>1, <1>2, <1>3, <1>4

\* What the entries are, and that the entries of the queue are those of its slots.
RecFacts ==
  /\ Rec \in [Slots -> Recs]
  /\ \A b \in Slots :
       /\ Rec[b].handle = b
       /\ Rec[b].data = IF b = node THEN old ELSE data[b]
       /\ Rec[b].pinned <=> b = pinned
  /\ Entries = Along(order, Rec)

LEMMA SlotsAreHandles ==
  ASSUME IInv
  PROVE  Slots \subseteq Handles
BY SizeAssumption DEF IInv, TypeOK, BlockInv, Slots, Handles

LEMMA RecProperties == IInv => RecFacts
<1> SUFFICES ASSUME IInv PROVE RecFacts
  OBVIOUS
<1>0. TypeOK /\ Slots \subseteq Handles
  BY SlotsAreHandles DEF IInv
<1>1. ASSUME NEW b \in Slots
      PROVE  /\ Rec[b] \in Recs
             /\ Rec[b].handle = b
             /\ Rec[b].data = IF b = node THEN old ELSE data[b]
             /\ Rec[b].pinned <=> b = pinned
  <2>1. PICK x \in Priorities \union {NoData} :
          x = IF b = node THEN old ELSE data[b]
    BY <1>0 DEF TypeOK
  <2>2. PICK y \in BOOLEAN : y = (b = pinned)
    OBVIOUS
  <2>3. Rec[b] = [handle |-> b, data |-> x, pinned |-> y]
    BY <2>1, <2>2 DEF Rec
  <2>4. Rec[b] \in Recs /\ Rec[b].handle = b /\ Rec[b].data = x /\ Rec[b].pinned = y
    BY ONLY <1>0, <2>1, <2>2, <2>3, b \in Slots DEF Recs
  <2>5. Rec[b].pinned <=> b = pinned
    BY ONLY <2>2, <2>4, Zenon
  <2> QED
    BY <2>1, <2>4, <2>5
<1>2. Rec \in [Slots -> Recs]
  BY <1>1 DEF Rec
<1>3. Entries = Along(order, Rec)
  BY <1>0 DEF Entries, Along, Rec, TypeOK
<1> QED
  BY <1>1, <1>2, <1>3 DEF RecFacts

LEMMA RecPrimed == IInv' => RecFacts'
BY RecProperties, PTL

\* The same of the next state, when the block has not grown.
RecsAfter(g) ==
  /\ Entries' = Along(order', g)
  /\ \A b \in Slots :
       /\ g[b].handle = b
       /\ g[b].data = IF b = node' THEN old' ELSE data'[b]
       /\ g[b].pinned <=> b = pinned'

LEMMA RecAfter ==
  ASSUME IInv', Slots' = Slots
  PROVE  \E g \in [Slots -> Recs] : RecsAfter(g)
<1>1. RecFacts'
  BY RecPrimed
<1> QED
  BY <1>1 DEF RecFacts, RecsAfter

\* The entries of a queue, and of one with the same boxes' entries.
LEMMA AlongSame ==
  ASSUME NEW q, NEW f, NEW g, \A i \in 1 .. Len(q) : f[q[i]] = g[q[i]]
  PROVE  Along(q, f) = Along(q, g)
BY DEF Along

\* Two records are the same if their fields are.
LEMMA RecsEqual ==
  ASSUME NEW x \in Recs, NEW y \in Recs, x.handle = y.handle, x.data = y.data,
         x.pinned <=> y.pinned
  PROVE  x = y
BY DEF Recs

-----------------------------------------------------------------------------
\* An operation that puts a node in is an Enqueue or an Update.

LEMMA PlaceIsPlaces ==
  ASSUME IInv, NEW k, PlacedAt(k), NEW es, es = Along(Settled, Rec)
  PROVE  k \in Abstract!Places(es, data[node])
<1>1. /\ TypeOK /\ node \in Slots /\ data[node] \in Priorities
      /\ Descending(Settled, data, pinned) /\ Injective(order)
  BY DEF IInv, PlaceInv, BlockInv, TypeOK, LinksAreQueue, QueueInOrder, Settled, PlacedAt
<1>2. Settled \in Seq(Slots) /\ ~Queued(Settled, node)
  BY <1>1, SettledProperties
<1>3. \A j \in 1 .. Len(Settled) :
        Settled[j] \in Slots /\ data[Settled[j]] \in Priorities /\ Settled[j] # node
  BY <1>2, LinkProperties DEF Queued
<1>4. RecFacts
  BY RecProperties
<1>5. /\ es \in Seq(Recs) /\ Len(es) = Len(Settled)
      /\ \A j \in 1 .. Len(Settled) : es[j] = Rec[Settled[j]]
  <2>1. Maps(Rec, Slots, Recs)
    BY <1>4 DEF RecFacts, Maps
  <2> QED
    BY ONLY <1>2, <2>1, es = Along(Settled, Rec), AlongProperties
<1>6. \A j \in 1 .. Len(Settled) :
        /\ es[j] \in Recs
        /\ es[j].data = data[Settled[j]]
        /\ es[j].pinned <=> Settled[j] = pinned
  BY <1>3, <1>4, <1>5 DEF RecFacts
<1>7. \A j \in 1 .. Len(Settled) : es[j] \in Abstract!Entry
  BY <1>3, <1>6 DEF Recs, Abstract!Entry, Handles
<1>8. PICK d \in Priorities : d = data[node]
  BY <1>1
<1>9. PICK v : v = [e \in Abstract!Entry |-> IF e.pinned THEN "Less" ELSE CompareNew(d, e.data)]
  OBVIOUS
<1>10. \A j \in 1 .. Len(Settled) :
         v[es[j]] = VerdictOn(d, Settled[j] = pinned, data[Settled[j]])
  <2> SUFFICES ASSUME NEW j \in 1 .. Len(Settled)
               PROVE  v[es[j]] = VerdictOn(d, Settled[j] = pinned, data[Settled[j]])
    OBVIOUS
  <2>1. v[es[j]] = IF es[j].pinned THEN "Less" ELSE CompareNew(d, es[j].data)
    BY <1>7, <1>9
  <2> QED
    BY <1>6, <2>1 DEF VerdictOn
<1>11. k \in 1 .. Len(Settled) + 1 /\ NeighboursAllow(Settled, k, d, data, pinned)
  BY <1>8 DEF PlacedAt
<1>12. EntriesOf(es, Settled, d, data, pinned, v)
  BY <1>3, <1>5, <1>6, <1>10 DEF EntriesOf
<1>13. /\ k \in 1 .. Len(es) + 1
       /\ \A j \in 1 .. k - 1 : es[j].pinned \/ Compare(d, es[j].data) # "Greater"
       /\ \A j \in k .. Len(es) : ~es[j].pinned /\ Compare(d, es[j].data) # "Less"
       /\ InAgreement(es, v) => k \in EnqueuePositions(es, v)
  BY ONLY <1>1, <1>2, <1>5, <1>8, <1>11, <1>12, PlaceOfEntry
<1>14. k \in Abstract!InPlace(es, d)
  BY <1>13 DEF Abstract!InPlace
<1> QED
  BY <1>8, <1>9, <1>13, <1>14, AbstractOperators DEF Abstract!Places

LEMMA PlacedRefines ==
  ASSUME IInv, IInv', NEW k, PlacedAt(k)
  PROVE  Abstract!Next
<1>1. /\ TypeOK /\ node \in Slots /\ data[node] \in Priorities /\ Injective(order)
      /\ order' = InsertAt(Settled, k, node) /\ k \in 1 .. Len(Settled) + 1
      /\ node' = SENTINEL /\ old' = NoData /\ Slots' = Slots /\ UNCHANGED <<data, pinned>>
      /\ Placing /\ node \in Handles
  <2>1. /\ TypeOK /\ Placing /\ Injective(order)
        /\ order' = InsertAt(Settled, k, node) /\ k \in 1 .. Len(Settled) + 1
        /\ node' = SENTINEL /\ old' = NoData /\ Slots' = Slots /\ UNCHANGED <<data, pinned>>
    BY DEF IInv, LinksAreQueue, PlacedAt, Return, Slots
  <2> QED
    BY <2>1, SlotsAreHandles DEF IInv, PlaceInv, BlockInv, TypeOK
<1>2. /\ Settled \in Seq(Slots) /\ ~Queued(Settled, node)
      /\ \A j \in 1 .. Len(Settled) : Settled[j] \in Slots /\ Settled[j] # node
  <2>1. Settled \in Seq(Slots) /\ ~Queued(Settled, node)
    BY <1>1, SettledProperties
  <2> QED
    BY <2>1 DEF Queued
<1>3. RecFacts
  BY RecProperties
<1>4. PICK f \in [Slots -> Recs] : f = Rec
  BY <1>3 DEF RecFacts
<1>5. PICK g \in [Slots -> Recs] : RecsAfter(g)
  BY <1>1, RecAfter
<1>6. PICK es : es = Along(Settled, f)
  OBVIOUS
<1>7. \A b \in Slots : b # node => g[b] = f[b]
  <2> SUFFICES ASSUME NEW b \in Slots, b # node PROVE g[b] = f[b]
    OBVIOUS
  <2>1. /\ f[b].handle = b /\ f[b].data = data[b] /\ (f[b].pinned <=> b = pinned)
        /\ g[b].handle = b /\ g[b].data = data[b] /\ (g[b].pinned <=> b = pinned)
    BY <1>1, <1>3, <1>4, <1>5, SlotFacts DEF RecFacts, RecsAfter
  <2> QED
    BY <2>1, RecsEqual
<1>8. Entries' = InsertAt(es, k, g[node])
  <2>1. Entries' = Along(InsertAt(Settled, k, node), g)
    BY <1>1, <1>5 DEF RecsAfter
  <2>2. Along(InsertAt(Settled, k, node), g) = InsertAt(Along(Settled, g), k, g[node])
    <3>1. Settled \in Seq(Slots)
      BY <1>2
    <3>2. k \in 1 .. Len(Settled) + 1
      BY <1>1
    <3>3. node \in Slots
      BY <1>1
    <3>4. Maps(g, Slots, Recs)
      BY DEF Maps
    <3> QED
      BY ONLY <3>1, <3>2, <3>3, <3>4, AlongWith
  <2>3. Along(Settled, g) = es
    BY <1>2, <1>6, <1>7, AlongSame
  <2> QED
    BY <2>1, <2>2, <2>3
<1>9. k \in Abstract!Places(es, data[node])
  BY <1>4, <1>6, PlaceIsPlaces
<1>10. /\ g[node].handle = node /\ g[node].data = data[node]
       /\ g[node].pinned <=> node = pinned
  BY <1>1, <1>5, SlotFacts DEF RecsAfter
<1>11. PICK p \in BOOLEAN : p <=> node = pinned
  OBVIOUS
<1>12. g[node] = [handle |-> node, data |-> data[node], pinned |-> p]
  <2>1. [handle |-> node, data |-> data[node], pinned |-> p] \in Recs
    BY <1>1 DEF Recs
  <2> QED
    BY <1>1, <1>10, <1>11, <2>1, RecsEqual
<1>13. CASE old = NoData
  <2>1. ~Queued(order, node) /\ Settled = order
    BY <1>1, <1>13 DEF IInv, PlaceInv, Settled, Besides
  <2>2. es = Entries
    BY <1>3, <1>4, <1>6, <2>1 DEF RecFacts
  <2>3. ~Abstract!Has(node)
    <3>1. \A i \in 1 .. Len(Entries) :
            i \in 1 .. Len(Settled) /\ Entries[i].handle = Settled[i]
      BY <2>1 DEF Entries
    <3> QED
      BY <1>2, <3>1 DEF Abstract!Has
  <2>4. p => Entries = << >>
    <3>1. node = pinned => head = SENTINEL
      <4>1. head # SENTINEL => Queued(Settled, head)
        BY LinkProperties DEF Queued
      <4> QED
        BY <1>1, <1>2, <4>1, SlotFacts DEF IInv, PinInv
    <3>2. head = SENTINEL => order = << >>
      BY <1>2, <2>1, LinkProperties
    <3>3. order = << >> => Entries = << >>
      BY DEF Entries
    <3> QED
      BY <1>11, <3>1, <3>2, <3>3
  <2>5. Entries' = Abstract!InsertAt(Entries, k, [handle |-> node, data |-> data[node], pinned |-> p])
    BY <1>8, <1>12, <2>2, AbstractOperators
  <2>6. Abstract!Enqueue(node, data[node])
    BY <1>9, <2>2, <2>3, <2>4, <2>5 DEF Abstract!Enqueue
  <2> QED
    BY <1>1, <2>6 DEF Abstract!Next, Handles
<1>14. CASE old # NoData
  <2>1. Queued(order, node) /\ use = "semaphore"
    BY <1>1, <1>14 DEF IInv, PlaceInv
  <2>2. PICK m \in 1 .. Len(order) : order[m] = node /\ Settled = RemoveAt(order, m)
    BY <1>1, <2>1, BesidesProperties DEF Settled, TypeOK
  <2>3. es = RemoveAt(Entries, m)
    <3>1. Entries = Along(order, f)
      BY <1>3, <1>4 DEF RecFacts
    <3>2. order \in Seq(Slots)
      BY <1>1 DEF TypeOK
    <3>3. Maps(f, Slots, Recs) /\ m \in 1 .. Len(order)
      BY DEF Maps
    <3>4. Along(RemoveAt(order, m), f) = RemoveAt(Along(order, f), m)
      BY ONLY <3>2, <3>3, AlongWithout
    <3> QED
      BY <1>6, <2>2, <3>1, <3>4
  <2>4. m \in 1 .. Len(Entries) /\ Entries[m] = f[node] /\ f[node].handle = node
    BY <1>1, <1>3, <1>4, <2>2 DEF Entries, Rec, RecFacts
  <2>5. g[node] = [Entries[m] EXCEPT !.data = data[node]]
    <3>1. f[node] \in Recs /\ f[node].handle = node /\ (f[node].pinned <=> node = pinned)
      BY <1>1, <1>3, <1>4 DEF RecFacts
    <3>2. PICK x : x = [f[node] EXCEPT !.data = data[node]]
      OBVIOUS
    <3>3. x \in Recs /\ x.handle = f[node].handle /\ x.data = data[node]
          /\ x.pinned = f[node].pinned
      BY <1>1, <3>1, <3>2 DEF Recs
    <3>4. g[node] \in Recs
      BY <1>1
    <3>5. x.pinned <=> g[node].pinned
      BY <1>10, <3>1, <3>3
    <3>6. x = g[node]
      BY <1>10, <3>1, <3>3, <3>4, <3>5, RecsEqual
    <3> QED
      BY <2>4, <3>2, <3>6
  <2>6. /\ k \in Abstract!Places(Abstract!RemoveAt(Entries, m), data[node])
        /\ Entries' = Abstract!InsertAt(Abstract!RemoveAt(Entries, m), k,
                                        [Entries[m] EXCEPT !.data = data[node]])
    BY <1>8, <1>9, <2>3, <2>5, AbstractOperators
  <2>7. Abstract!Update(node, data[node])
    BY <2>4, <2>6 DEF Abstract!Update
  <2> QED
    BY <1>1, <2>7 DEF Abstract!Next, Handles
<1> QED
  BY <1>13, <1>14

-----------------------------------------------------------------------------
\* One that takes a node out is a DequeueHandle, one that leaves it an Update.

LEMMA RemovedRefines ==
  ASSUME IInv, IInv', pc = "idle", NEW m \in 1 .. Len(order), NEW h, RemovedAt(m, h)
  PROVE  Abstract!Next
<1>1. /\ TypeOK /\ Injective(order) /\ Settled = order /\ Slots' = Slots
      /\ order \in Seq(Slots) /\ Len(order) \in Nat
      /\ node = SENTINEL /\ node' = SENTINEL
      /\ pinned = IF use = "semaphore" THEN SENTINEL ELSE head
  BY IdleProperties DEF IInv, RemovedAt, local, Slots
<1>2. /\ order[m] = h /\ h \in Slots /\ h \in Handles
      /\ Queued(order, h) /\ IndexOf(order, h) = m
  <2>1. order[m] = h /\ h \in Slots
    BY DEF RemovedAt, Unlinked, StandsAt
  <2> QED
    BY <1>1, <2>1, LinkProperties, SlotsAreHandles
<1>3. PICK r : r = RemoveAt(order, m)
  OBVIOUS
<1>4. /\ order' = r
      /\ data' = [data EXCEPT ![h] = NoData]
      /\ pinned' = IF h = pinned THEN next[h] ELSE pinned
  BY <1>2, <1>3 DEF RemovedAt, Dequeue
<1>5. /\ r \in Seq(Slots) /\ Injective(r) /\ Len(r) \in Nat
      /\ \A j \in 1 .. Len(r) : r[j] \in Slots /\ r[j] # h
  <2>1. r = Dequeue(order, h)
    BY <1>2, <1>3 DEF Dequeue
  <2>2. /\ r \in Seq(Slots) /\ Injective(r)
        /\ \A b : Queued(r, b) <=> b # h /\ Queued(order, b)
    BY <1>1, <1>2, <2>1, DequeueKeepsDistinct
  <2>3. \A j \in 1 .. Len(r) : Queued(r, r[j])
    BY DEF Queued
  <2> QED
    BY <2>2, <2>3
<1>6. RecFacts
  BY RecProperties
<1>7. PICK f \in [Slots -> Recs] : f = Rec
  BY <1>6 DEF RecFacts
<1>8. PICK g \in [Slots -> Recs] : RecsAfter(g)
  BY <1>1, RecAfter
<1>9. PICK es : es = Along(r, f)
  OBVIOUS
<1>10. /\ es \in Seq(Recs) /\ Len(es) = Len(r)
       /\ \A j \in 1 .. Len(r) : es[j] = f[r[j]]
  <2>1. Maps(f, Slots, Recs)
    BY DEF Maps
  <2> QED
    BY ONLY <1>5, <1>9, <2>1, AlongProperties
<1>11. Abstract!RemoveAt(Entries, m) = es
  <2>1. Entries = Along(order, f)
    BY <1>6, <1>7 DEF RecFacts
  <2>2. Maps(f, Slots, Recs) /\ m \in 1 .. Len(order)
    BY DEF Maps
  <2>3. Along(RemoveAt(order, m), f) = RemoveAt(Along(order, f), m)
    BY ONLY <1>1, <2>2, AlongWithout
  <2> QED
    BY <1>3, <1>9, <2>1, <2>3, AbstractOperators
<1>12. /\ m \in 1 .. Len(Entries) /\ Entries[m].handle = h
       /\ Entries[m].pinned <=> h = pinned
  <2>1. Len(Entries) = Len(order) /\ Entries[m] = f[h]
    BY <1>1, <1>2, <1>7 DEF Entries, Rec
  <2> QED
    BY <1>2, <1>6, <1>7, <2>1 DEF RecFacts
<1>13. /\ \A b \in Slots : b # h => f[b].handle = b /\ f[b].data = data[b]
                                   /\ (f[b].pinned <=> b = pinned)
       /\ \A b \in Slots : b # h => g[b].handle = b /\ g[b].data = data[b]
                                   /\ (g[b].pinned <=> b = pinned')
  BY <1>1, <1>4, <1>6, <1>7, <1>8, SlotFacts DEF RecFacts, RecsAfter, TypeOK
<1>14. Entries' = Along(r, g)
  BY <1>4, <1>8 DEF RecsAfter
<1>15. CASE h # pinned
  <2>1. \A b \in Slots : b # h => g[b] = f[b]
    BY <1>4, <1>13, <1>15, RecsEqual
  <2>2. Entries' = es
    BY <1>5, <1>9, <1>14, <2>1, AlongSame
  <2>3. Abstract!DequeueHandle(h)
    BY <1>11, <1>12, <1>15, <2>2 DEF Abstract!DequeueHandle
  <2> QED
    BY <1>2, <2>3 DEF Abstract!Next, Handles
<1>16. CASE h = pinned
  <2>1. m = 1
    <3>1. head = order[1] /\ 1 \in 1 .. Len(order) /\ pinned = head
      BY <1>1, <1>2, <1>16, LinkProperties, SlotFacts DEF Queued
    <3> QED
      BY <1>1, <1>2, <1>16, <3>1 DEF Injective
  <2>2. CASE Len(r) = 0
    <3>1. es = << >> /\ Along(r, g) = << >>
      <4>1. es \in Seq(Recs) /\ Len(es) = 0
        BY <1>10, <2>2
      <4>2. Along(r, g) \in Seq(Recs) /\ Len(Along(r, g)) = 0
        <5>1. Maps(g, Slots, Recs)
          BY DEF Maps
        <5>2. Along(r, g) \in Seq(Recs) /\ Len(Along(r, g)) = Len(r)
          BY ONLY <1>5, <5>1, AlongProperties
        <5> QED
          BY <2>2, <5>2
      <4> QED
        BY <4>1, <4>2
    <3>2. Abstract!DequeueHandle(h)
      <4>1. Entries' = Abstract!RemoveAt(Entries, m) /\ Abstract!RemoveAt(Entries, m) = << >>
        BY <1>11, <1>14, <3>1
      <4> QED
        BY <1>12, <4>1 DEF Abstract!DequeueHandle
    <3> QED
      BY <1>2, <3>2 DEF Abstract!Next, Handles
  <2>3. CASE Len(r) # 0
    <3>1. 1 \in 1 .. Len(r) /\ pinned' = r[1] /\ es # << >>
      <4>1. Len(r) = Len(order) - 1 /\ \A j \in 1 .. Len(order) - 1 : r[j] = IF j < m THEN order[j] ELSE order[j + 1]
        BY <1>1, <1>3, RemoveAtProperties
      <4>2. m # Len(order) /\ r[1] = order[2]
        BY <1>1, <2>1, <2>3, <4>1
      <4>3. next[h] = order[m + 1]
        BY <1>1, <1>2, <4>2, LinkProperties
      <4> QED
        BY <1>4, <1>5, <1>10, <1>16, <2>1, <2>3, <4>2, <4>3
    <3>2. PICK e : e = [es[1] EXCEPT !.pinned = TRUE]
      OBVIOUS
    <3>3. /\ e \in Recs /\ e.handle = es[1].handle /\ e.data = es[1].data
          /\ e.pinned
      <4>1. es[1] \in Recs
        BY <1>10, <3>1
      <4> QED
        BY ONLY <3>2, <4>1 DEF Recs
    <3>4. PICK x : x = [es EXCEPT ![1] = e]
      OBVIOUS
    <3>5. /\ x \in Seq(Recs) /\ Len(x) = Len(r) /\ x[1] = e
          /\ \A j \in 1 .. Len(r) : j # 1 => x[j] = es[j]
      BY ONLY <1>5, <1>10, <3>1, <3>3, <3>4
    <3>6. ASSUME NEW j \in 1 .. Len(r) PROVE x[j] = g[r[j]]
      <4>1. /\ f[r[j]].handle = r[j] /\ f[r[j]].data = data[r[j]]
            /\ (f[r[j]].pinned <=> r[j] = pinned)
            /\ g[r[j]].handle = r[j] /\ g[r[j]].data = data[r[j]]
            /\ (g[r[j]].pinned <=> r[j] = pinned')
            /\ f[r[j]] \in Recs /\ g[r[j]] \in Recs /\ es[j] = f[r[j]]
        BY <1>5, <1>10, <1>13
      <4>2. CASE j = 1
        <5>1. x[j].handle = r[j] /\ x[j].data = data[r[j]] /\ x[j].pinned /\ x[j] \in Recs
          BY <3>3, <3>5, <4>1, <4>2
        <5>2. g[r[j]].pinned
          BY <3>1, <4>1, <4>2
        <5> QED
          BY <4>1, <5>1, <5>2, RecsEqual
      <4>3. CASE j # 1
        <5>1. r[j] # pinned /\ r[j] # pinned'
          BY <1>5, <1>16, <3>1, <4>3 DEF Injective
        <5>2. g[r[j]] = f[r[j]]
          BY <4>1, <5>1, RecsEqual
        <5> QED
          BY <3>5, <4>1, <4>3, <5>2
      <4> QED
        BY <4>2, <4>3
    <3>7. Along(r, g) = x
      <4>1. Maps(g, Slots, Recs)
        BY DEF Maps
      <4>2. /\ Along(r, g) \in Seq(Recs) /\ Len(Along(r, g)) = Len(r)
            /\ \A j \in 1 .. Len(r) : Along(r, g)[j] = g[r[j]]
        BY ONLY <1>5, <4>1, AlongProperties
      <4> QED
        BY <3>5, <3>6, <4>2, SeqEqual
    <3>8. Abstract!DequeueHandle(h)
      <4>1. x = [es EXCEPT ![1].pinned = TRUE]
        BY ONLY <3>2, <3>4
      <4> QED
        BY <1>11, <1>12, <1>14, <1>16, <3>1, <3>7, <4>1 DEF Abstract!DequeueHandle
    <3> QED
      BY <1>2, <3>8 DEF Abstract!Next, Handles
  <2> QED
    BY <2>2, <2>3
<1> QED
  BY <1>15, <1>16

LEMMA StaysRefines ==
  ASSUME IInv, IInv', NEW m, NEW h, StaysAt(m, h)
  PROVE  Abstract!Next
<1>1. /\ order \in Seq(Slots) /\ Injective(order) /\ Settled = order
      /\ m \in 1 .. Len(order) /\ order[m] = h /\ data'[h] \in Priorities
      /\ UNCHANGED <<pinned, order>> /\ node = SENTINEL /\ node' = SENTINEL
      /\ Slots' = Slots /\ \A b \in Slots : b # h => data'[b] = data[b]
  BY IdleProperties DEF StaysAt, StandsAt, local, Slots
<1>2. h \in Slots /\ h \in Handles /\ h # pinned /\ pinned = SENTINEL
  BY IdleProperties, SlotsAreHandles, SlotFacts DEF StaysAt, StandsAt
<1>3. PICK r : r = RemoveAt(order, m)
  OBVIOUS
<1>4. PICK d \in Priorities : d = data'[h]
  BY <1>1
<1>5. /\ r \in Seq(Slots) /\ m \in 1 .. Len(r) + 1 /\ order = InsertAt(r, m, h)
      /\ \A j \in 1 .. m - 1 : r[j] = pinned \/ Compare(d, data[r[j]]) # "Greater"
      /\ \A j \in m .. Len(r) : r[j] # pinned /\ Compare(d, data[r[j]]) # "Less"
  BY <1>3, <1>4, StaysInOrder
<1>6. \A j \in 1 .. Len(r) : r[j] \in Slots /\ r[j] # h
  <2>1. \A b : Queued(r, b) => b # h
    <3>1. Queued(order, h) /\ IndexOf(order, h) = m
      BY <1>1, IndexIsUnique
    <3> QED
      BY <1>1, <1>3, <3>1, DequeueKeepsDistinct DEF Dequeue
  <2> QED
    BY <1>5, <2>1 DEF Queued
<1>7. RecFacts
  BY RecProperties
<1>8. PICK f \in [Slots -> Recs] : f = Rec
  BY <1>7 DEF RecFacts
<1>9. PICK g \in [Slots -> Recs] : RecsAfter(g)
  BY <1>1, RecAfter
<1>10. \A b \in Slots : b # h => /\ f[b].handle = b /\ f[b].data = data[b]
                                 /\ f[b].pinned <=> b = pinned
                                 /\ g[b].handle = b /\ g[b].data = data[b]
                                 /\ g[b].pinned <=> b = pinned
  BY <1>1, <1>2, <1>7, <1>8, <1>9, SlotFacts DEF RecFacts, RecsAfter
<1>11. PICK es : es = Along(r, f)
  OBVIOUS
<1>12. /\ es \in Seq(Recs) /\ Len(es) = Len(r)
       /\ \A j \in 1 .. Len(r) : es[j] = f[r[j]]
  <2>1. Maps(f, Slots, Recs)
    BY DEF Maps
  <2> QED
    BY ONLY <1>5, <1>11, <2>1, AlongProperties
<1>13. Abstract!RemoveAt(Entries, m) = es
  <2>1. Entries = Along(order, f)
    BY <1>7, <1>8 DEF RecFacts
  <2>2. Maps(f, Slots, Recs)
    BY DEF Maps
  <2>3. Along(RemoveAt(order, m), f) = RemoveAt(Along(order, f), m)
    BY ONLY <1>1, <2>2, AlongWithout
  <2> QED
    BY <1>3, <1>11, <2>1, <2>3, AbstractOperators
<1>14. m \in Abstract!InPlace(es, d)
  <2>1. \A j \in 1 .. Len(r) : es[j].data = data[r[j]] /\ (es[j].pinned <=> r[j] = pinned)
    BY <1>6, <1>10, <1>12
  <2>2. /\ \A j \in 1 .. m - 1 : j \in 1 .. Len(r)
        /\ \A j \in m .. Len(r) : j \in 1 .. Len(r)
    BY <1>5
  <2>3. /\ m \in 1 .. Len(es) + 1
        /\ \A j \in 1 .. m - 1 : es[j].pinned \/ Compare(d, es[j].data) # "Greater"
        /\ \A j \in m .. Len(es) : ~es[j].pinned /\ Compare(d, es[j].data) # "Less"
    BY <1>5, <1>12, <2>1, <2>2
  <2> QED
    BY <2>3 DEF Abstract!InPlace
<1>15. Entries' = InsertAt(es, m, g[h])
  <2>1. Entries' = Along(InsertAt(r, m, h), g)
    BY <1>1, <1>5, <1>9 DEF RecsAfter
  <2>2. Maps(g, Slots, Recs)
    BY DEF Maps
  <2>3. Along(InsertAt(r, m, h), g) = InsertAt(Along(r, g), m, g[h])
    BY ONLY <1>2, <1>5, <2>2, AlongWith
  <2>4. \A b \in Slots : b # h => g[b] = f[b]
    BY <1>10, RecsEqual
  <2>5. Along(r, g) = es
    BY <1>6, <1>11, <2>4, AlongSame
  <2> QED
    BY <2>1, <2>3, <2>5
<1>16. /\ m \in 1 .. Len(Entries) /\ Entries[m] = f[h] /\ f[h].handle = h
  <2>1. Len(Entries) = Len(order) /\ Entries[m] = f[h]
    BY <1>1, <1>8 DEF Entries, Rec
  <2> QED
    BY <1>1, <1>2, <1>7, <1>8, <2>1 DEF RecFacts
<1>17. g[h] = [Entries[m] EXCEPT !.data = d]
  <2>1. /\ f[h] \in Recs /\ f[h].handle = h /\ (f[h].pinned <=> h = pinned)
        /\ g[h] \in Recs /\ g[h].handle = h /\ g[h].data = d /\ (g[h].pinned <=> h = pinned)
    BY <1>1, <1>2, <1>4, <1>7, <1>8, <1>9, SlotFacts DEF RecFacts, RecsAfter
  <2>2. PICK x : x = [f[h] EXCEPT !.data = d]
    OBVIOUS
  <2>3. x \in Recs /\ x.handle = f[h].handle /\ x.data = d /\ x.pinned = f[h].pinned
    BY <2>1, <2>2 DEF Recs
  <2>4. x.pinned <=> g[h].pinned
    BY <2>1, <2>3
  <2>5. x = g[h]
    BY <2>1, <2>3, <2>4, RecsEqual
  <2> QED
    BY <1>16, <2>2, <2>5
<1>18. Abstract!Update(h, d)
  BY <1>13, <1>14, <1>15, <1>16, <1>17, AbstractOperators DEF Abstract!Update
<1> QED
  BY <1>2, <1>18 DEF Abstract!Next, Handles

-----------------------------------------------------------------------------
\* The other steps are none of the abstract queue.

\* The queue has the slots it had, and they have the data and the pin they had
\* as far as the abstract queue is concerned.
EntriesStay ==
  /\ order' = order
  /\ \A i \in 1 .. Len(order) :
       LET b == order[i]
       IN /\ (IF b = node' THEN old' ELSE data'[b])
               = (IF b = node THEN old ELSE data[b])
          /\ b = pinned' <=> b = pinned

LEMMA StepStutters ==
  ASSUME IInv, IInv', EntriesStay
  PROVE  Entries' = Entries
<1>1. TypeOK /\ TypeOK' /\ RecFacts /\ RecFacts' /\ order' = order
  BY RecProperties, RecPrimed DEF IInv, EntriesStay
<1>2. PICK f \in [Slots -> Recs] : f = Rec
  BY <1>1 DEF RecFacts
<1>3. PICK g \in [Slots' -> Recs] : g = Rec'
  BY <1>1 DEF RecFacts
<1>4. ASSUME NEW i \in 1 .. Len(order) PROVE g[order[i]] = f[order[i]]
  <2>1. order[i] \in Slots /\ order[i] \in Slots'
    BY <1>1 DEF TypeOK
  <2>2. /\ f[order[i]].handle = order[i] /\ g[order[i]].handle = order[i]
        /\ f[order[i]].data = g[order[i]].data
        /\ f[order[i]].pinned <=> g[order[i]].pinned
    BY <1>1, <1>2, <1>3, <2>1 DEF RecFacts, EntriesStay
  <2> QED
    BY <2>1, <2>2, RecsEqual
<1>5. Entries = Along(order, f) /\ Entries' = Along(order, g)
  BY <1>1, <1>2, <1>3 DEF RecFacts
<1> QED
  BY <1>4, <1>5, AlongSame

LEMMA EnqueueStutters ==
  ASSUME IInv, NEW d \in Priorities, Enqueue(d)
  PROVE  EntriesStay
<1>1. Grown /\ UNCHANGED <<pinned, node, old, order>>
  BY EnqueueGrows DEF Enqueue
<1>2. \A i \in 1 .. Len(order) : order[i] \in Slots
  BY DEF IInv, TypeOK
<1> QED
  BY <1>1, <1>2 DEF EntriesStay, Grown

LEMMA TakeSlotStutters ==
  ASSUME IInv, TakeSlot
  PROVE  EntriesStay
<1>1. /\ TypeOK /\ node = SENTINEL /\ node' = idx /\ idx \in Slots
      /\ next[idx] = UNALLOCATED
      /\ data' = [data EXCEPT ![idx] = arg] /\ order' = order
      /\ pinned' = IF use = "mutex" /\ used = 0 THEN idx ELSE pinned
  BY DEF IInv, PlaceInv, TakeSlot
<1>2. ~Queued(order, idx) /\ ~Queued(order, node) /\ used = Len(order)
  <2>1. /\ \A s \in Slots : next[s] # UNALLOCATED <=> Queued(order, s)
        /\ used = Len(order) + (IF node # SENTINEL /\ ~Queued(order, node) THEN 1 ELSE 0)
    BY DEF IInv, LinksAreQueue
  <2>2. ~Queued(order, SENTINEL) /\ Len(order) \in Nat
    BY <1>1, SlotFacts DEF TypeOK, Queued
  <2> QED
    BY <1>1, <2>1, <2>2
<1>3. ASSUME NEW i \in 1 .. Len(order)
      PROVE  /\ order[i] \in Slots /\ order[i] # idx /\ order[i] # node
             /\ used # 0
  BY <1>1, <1>2 DEF TypeOK, Queued
<1> QED
  BY <1>1, <1>3 DEF EntriesStay, TypeOK

LEMMA TakenOutStutters ==
  ASSUME IInv, NEW m, NEW h, TakenOut(m, h)
  PROVE  EntriesStay
<1>1. /\ node = SENTINEL /\ node' = h /\ old' = data[h] /\ UNCHANGED <<pinned, order>>
      /\ \A s \in Slots : s # h => data'[s] = data[s]
  BY IdleProperties DEF TakenOut
<1>2. \A i \in 1 .. Len(order) : order[i] \in Slots /\ order[i] # SENTINEL
  BY SlotFacts DEF IInv, TypeOK
<1> QED
  BY <1>1, <1>2 DEF EntriesStay

\* The steps along the slots and links.
LEMMA LoopStutters ==
  ASSUME TrySlot \/ StartAtHead \/ Walk \/ UNCHANGED vars
  PROVE  EntriesStay
<1>1. UNCHANGED <<data, pinned, node, old, order>>
  BY DEF TrySlot, StartAtHead, Walk, vars, block, local
<1> QED
  BY <1>1 DEF EntriesStay

LEMMA InitRefines == Init => Abstract!Init
BY DEF Init, Abstract!Init, Entries

LEMMA NextRefines == IInv /\ IInv' /\ [Next]_vars => [Abstract!Next]_Entries
<1> SUFFICES ASSUME IInv, IInv', [Next]_vars PROVE Abstract!Next \/ Entries' = Entries
  OBVIOUS
<1>1. CASE \E d \in Priorities : Enqueue(d)
  BY <1>1, EnqueueStutters, StepStutters
<1>2. ASSUME NEW h \in Slots, DequeueSlot(h) PROVE Abstract!Next
  <2>1. PICK m \in 1 .. Len(order) : RemovedAt(m, h)
    BY <1>2, DequeueSlotRemoves
  <2>2. pc = "idle"
    BY <1>2 DEF DequeueSlot
  <2> QED
    BY <2>1, <2>2, RemovedRefines
<1>3. ASSUME NEW h \in Slots, NEW d \in Priorities, Update(h, d) \/ Amend(h, d)
      PROVE  Abstract!Next \/ Entries' = Entries
  <2>1. CASE pc' = "idle"
    BY <1>3, <2>1, UpdateStays, StaysRefines
  <2>2. CASE pc' # "idle"
    <3>1. Update(h, d)
      BY <1>3, <2>2 DEF Amend, local
    <3>2. PICK m \in 1 .. Len(order) : TakenOut(m, h)
      BY <2>2, <3>1, UpdateTakesOut
    <3> QED
      BY <3>2, TakenOutStutters, StepStutters
  <2> QED
    BY <2>1, <2>2
<1>4. CASE PlaceFirst
  <2>1. PlacedAt(1)
    BY <1>4, FirstIsPlaced
  <2> QED
    BY <2>1, PlacedRefines
<1>5. CASE PlaceBehind \/ PlaceHere
  BY <1>5, BehindOrWalkIsPlaced, PlacedRefines
<1>6. CASE TakeSlot
  BY <1>6, TakeSlotStutters, StepStutters
<1>7. CASE TrySlot \/ StartAtHead \/ Walk \/ UNCHANGED vars
  BY <1>7, LoopStutters, StepStutters
<1> QED
  BY <1>1, <1>2, <1>3, <1>4, <1>5, <1>6, <1>7 DEF Next, Step

\* A queue made by Default, slots and links and all, implements the abstract
\* queue: every enqueue, dequeue and update_node is one step of it, taken when
\* the operation returns, at a place the trait allows.
THEOREM Refinement ==
  ASSUME InitialHead = SENTINEL
  PROVE  Spec => ImplementsQueue
<1>1. IInv /\ IInv' /\ [Next]_vars => [Abstract!Next]_Entries
  BY NextRefines
<1> QED
  BY <1>1, InitRefines, Invariant, PTL DEF Spec, ImplementsQueue, Abstract!Spec
=============================================================================
