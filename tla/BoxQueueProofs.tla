--------------------------- MODULE BoxQueueProofs ---------------------------
(***************************************************************************)
(* Theorems about BoxQueue and their proofs, for any set of boxes.         *)
(***************************************************************************)
EXTENDS BoxQueue, PriorityQueueProofs

TypeOK ==
  /\ hasPrev \in BOOLEAN /\ use \in Uses
  /\ head \in Boxes \union {Nil}
  /\ next \in [Boxes -> Boxes \union {Nil}]
  /\ prev \in [Boxes -> Boxes \union {Nil}]
  /\ data \in [Boxes -> Priorities \union {NoData}]
  /\ pinned \in Boxes \union {Nil}
  /\ pc \in PCs
  /\ node \in Boxes \union {Nil}
  /\ cur \in Boxes \union {Nil}
  /\ old \in Priorities \union {NoData}
  /\ order \in Seq(Boxes)

\* The queue without the node the operation is about.
Settled == Besides(order, node)

\* What the place of the operation under way implies.
PlaceInv ==
  /\ pc = "idle" => node = Nil /\ cur = Nil /\ old = NoData
  /\ pc # "idle" => node \in Boxes /\ data[node] # NoData
  /\ pc = "insert" => cur = Nil
  /\ pc = "walk" => Queued(Settled, cur) /\ Verdict(data[node], cur) = "Less"
  /\ pc \in {"drop", "find"} => ~hasPrev /\ Before(order, cur, node)
  /\ pc = "find" => old # NoData
  /\ old # NoData => use = "semaphore" /\ Queued(order, node) /\ pc # "drop"
  /\ Apart /\ old = NoData => ~Queued(order, node)

\* `insert' finds the node it puts first without a link back.
FreshInv == \A b \in Boxes : prev[b] # Nil => hasPrev /\ Queued(Linked, b)

\* The box a mutex has pinned is the head, or about to be.
PinInv ==
  pinned = IF use = "semaphore" THEN Nil ELSE IF head = Nil /\ Apart THEN node ELSE head

(***************************************************************************)
(* The inductive invariant.  That the links are the queue (LinksAreQueue)  *)
(* makes the walks go where they should; that the queue is in priority     *)
(* order makes the place that is found a good one.                         *)
(***************************************************************************)
IInv ==
  /\ TypeOK
  /\ LinksAreQueue
  /\ PlaceInv
  /\ FreshInv
  /\ PinInv
  /\ Descending(Settled, data, pinned)

-----------------------------------------------------------------------------
\* What the invariant says of the queue and its links.

LEMMA LinkedProperties ==
  ASSUME TypeOK, Injective(order)
  PROVE  /\ Linked \in Seq(Boxes) /\ Injective(Linked)
         /\ \A b : Queued(Linked, b) <=> Queued(order, b) /\ (Apart => b # node)
         /\ Settled \in Seq(Boxes) /\ Injective(Settled)
         /\ \A b : Queued(Settled, b) <=> b # node /\ Queued(order, b)
         /\ \A b : Queued(order, b) => b \in Boxes
         /\ Apart => Linked = Settled
         /\ ~Apart => Linked = order
         /\ node = Nil => Settled = order
<1>1. order \in Seq(Boxes) /\ \A b : Queued(order, b) => b \in Boxes
  BY DEF TypeOK, Queued
<1>2. /\ Settled \in Seq(Boxes) /\ Injective(Settled)
      /\ \A b : Queued(Settled, b) <=> b # node /\ Queued(order, b)
      /\ ~Queued(order, node) => Settled = order
  BY <1>1, BesidesProperties DEF Settled
<1>3. /\ Apart => Linked = Settled
      /\ ~Apart => Linked = order
  BY DEF Linked, Settled
<1>4. node = Nil => ~Queued(order, node)
  BY <1>1, BoxAssumption
<1> QED
  BY <1>1, <1>2, <1>3, <1>4

LEMMA LinkProperties ==
  ASSUME IInv
  PROVE  /\ head = Nil <=> Linked = << >>
         /\ head # Nil => 1 \in 1 .. Len(Linked) /\ Linked[1] = head
         /\ \A i \in 1 .. Len(Linked) :
              /\ Linked[i] \in Boxes
              /\ next[Linked[i]] = IF i = Len(Linked) THEN Nil ELSE Linked[i + 1]
              /\ next[Linked[i]] = Nil <=> i = Len(Linked)
              /\ hasPrev => /\ prev[Linked[i]] = IF i = 1 THEN Nil ELSE Linked[i - 1]
                            /\ prev[Linked[i]] = Nil <=> i = 1
              /\ data[Linked[i]] \in Priorities
              /\ Queued(Linked, Linked[i]) /\ IndexOf(Linked, Linked[i]) = i
         /\ \A b : Queued(Linked, b) => IndexOf(Linked, b) \in 1 .. Len(Linked)
                                        /\ Linked[IndexOf(Linked, b)] = b
<1>1. Linked \in Seq(Boxes) /\ Injective(Linked) /\ TypeOK
  BY LinkedProperties DEF IInv, LinksAreQueue
<1>2. /\ Spells(Linked, head, next, Nil)
      /\ hasPrev => SpellsBack(Linked, prev, Nil)
  BY DEF IInv, LinksAreQueue
<1>3. /\ Len(Linked) \in Nat
      /\ Linked = << >> <=> Len(Linked) = 0
      /\ \A i \in 1 .. Len(Linked) : Linked[i] \in Boxes /\ Linked[i] # Nil
  BY <1>1, BoxAssumption
<1>4. /\ head = Nil <=> Linked = << >>
      /\ head # Nil => 1 \in 1 .. Len(Linked) /\ Linked[1] = head
  BY <1>2, <1>3 DEF Spells
<1>5. ASSUME NEW i \in 1 .. Len(Linked)
      PROVE  /\ next[Linked[i]] = IF i = Len(Linked) THEN Nil ELSE Linked[i + 1]
             /\ next[Linked[i]] = Nil <=> i = Len(Linked)
  <2>1. i # Len(Linked) => i + 1 \in 1 .. Len(Linked)
    BY <1>3
  <2> QED
    BY <1>2, <1>3, <2>1 DEF Spells
<1>6. ASSUME NEW i \in 1 .. Len(Linked), hasPrev
      PROVE  /\ prev[Linked[i]] = IF i = 1 THEN Nil ELSE Linked[i - 1]
             /\ prev[Linked[i]] = Nil <=> i = 1
  <2>1. i # 1 => i - 1 \in 1 .. Len(Linked)
    BY <1>3
  <2> QED
    BY <1>2, <1>3, <1>6, <2>1 DEF SpellsBack
<1>7. ASSUME NEW i \in 1 .. Len(Linked)
      PROVE  /\ data[Linked[i]] \in Priorities
             /\ Queued(Linked, Linked[i]) /\ IndexOf(Linked, Linked[i]) = i
  <2>1. Queued(Linked, Linked[i]) /\ IndexOf(Linked, Linked[i]) = i
    BY <1>1, IndexIsUnique
  <2> QED
    BY <1>1, <1>3, <2>1 DEF IInv, LinksAreQueue, TypeOK
<1>8. \A b : Queued(Linked, b) => IndexOf(Linked, b) \in 1 .. Len(Linked)
                                  /\ Linked[IndexOf(Linked, b)] = b
  BY <1>1, IndexOfProperties
<1> QED
  BY <1>3, <1>4, <1>5, <1>6, <1>7, <1>8

\* The state in which an operation returns.
LEMMA ReturnKeepsIInv ==
  ASSUME IInv, TypeOK', UNCHANGED <<hasPrev, use>>,
         pc' = "idle", node' = Nil, cur' = Nil, old' = NoData,
         Injective(order'), Spells(order', head', next', Nil),
         hasPrev => SpellsBack(order', prev', Nil),
         \A b \in Boxes : data'[b] # NoData <=> Queued(order', b),
         \A b \in Boxes : prev'[b] # Nil => hasPrev /\ Queued(order', b),
         pinned' = IF use = "semaphore" THEN Nil ELSE head',
         Descending(order', data', pinned')
  PROVE  IInv'
<1>1. /\ \A b : Queued(order', b) => b \in Boxes
      /\ order' \in Seq(Boxes)
  BY DEF TypeOK, Queued
<1>2. Settled' = order' /\ Linked' = order' /\ ~Apart'
  BY <1>1, BoxAssumption DEF Settled, Linked, Apart, Besides
<1>3. LinksAreQueue'
  BY <1>2 DEF LinksAreQueue
<1>4. PlaceInv'
  BY <1>2 DEF PlaceInv, Apart
<1>5. FreshInv' /\ PinInv'
  BY <1>2 DEF FreshInv, PinInv
<1> QED
  BY <1>2, <1>3, <1>4, <1>5 DEF IInv

-----------------------------------------------------------------------------
\* The steps that put a node in.

\* The place of a node that `insert' was called for: at index k of the queue
\* without it, between nodes that it may stand between.
PlacedAt(k) ==
  /\ k \in 1 .. Len(Settled) + 1
  /\ order' = InsertAt(Settled, k, node)
  /\ k > 1 => Verdict(data[node], Settled[k - 1]) # "Greater"
  /\ k <= Len(Settled) => Verdict(data[node], Settled[k]) # "Less"
  /\ Spells(order', head', next', Nil)
  /\ hasPrev => SpellsBack(order', prev', Nil)
  /\ head' = IF k = 1 THEN node ELSE head

LEMMA FirstIsPlaced ==
  ASSUME IInv, PlaceFirst
  PROVE  PlacedAt(1) /\ \A b \in Boxes : prev'[b] # Nil => hasPrev /\ Queued(order', b)
<1>1. /\ TypeOK /\ Apart /\ node \in Boxes /\ prev \in [Boxes -> Boxes \union {Nil}]
      /\ next \in [Boxes -> Boxes \union {Nil}]
      /\ head # Nil => Verdict(data[node], head) # "Less"
      /\ next' = [next EXCEPT ![node] = head]
      /\ prev' = SetPrev(hasPrev, prev, head, node)
      /\ head' = node
      /\ order' = <<node>> \o Settled
  BY DEF IInv, PlaceInv, PlaceFirst, Apart, TypeOK, Settled
<1>2. /\ Settled \in Seq(Boxes) /\ Injective(Settled) /\ Linked = Settled
      /\ \A b : Queued(Settled, b) => b # node
  BY <1>1, LinkedProperties DEF IInv, LinksAreQueue
<1>3. order' = InsertAt(Settled, 1, node)
  BY <1>1, <1>2, AheadIsInsert
<1>4. Len(Settled) \in Nat /\ 1 \in 1 .. Len(Settled) + 1
  BY <1>2
<1>5. \A i \in 1 .. Len(Settled) :
        /\ Settled[i] \in Boxes /\ Settled[i] # node /\ Queued(Settled, Settled[i])
        /\ Settled[i] = head <=> i = 1
  <2>1. \A i \in 1 .. Len(Settled) :
          Settled[i] \in Boxes /\ Queued(Settled, Settled[i])
    BY <1>2, LinkProperties
  <2>2. \A i \in 1 .. Len(Settled) : Settled[i] = head <=> i = 1
    <3>1. \A i \in 1 .. Len(Settled) :
            head # Nil /\ 1 \in 1 .. Len(Settled) /\ Settled[1] = head
      BY <1>2, <1>4, LinkProperties
    <3> QED
      BY <1>2, <3>1 DEF Injective
  <2> QED
    BY <1>2, <2>1, <2>2
<1>6. Spells(Settled, head, next, Nil) /\ (hasPrev => SpellsBack(Settled, prev, Nil))
  BY <1>2 DEF IInv, LinksAreQueue
<1>7. Spells(order', head', next', Nil)
  <2>1. PICK k \in 1 .. Len(Settled) + 1 : k = 1
    BY <1>4
  <2>2. /\ node \in Boxes /\ Settled \in Seq(Boxes) /\ Spells(Settled, head, next, Nil)
        /\ k \in 1 .. Len(Settled) + 1
    BY <1>1, <1>2, <1>6
  <2>3. head' = (IF k = 1 THEN node ELSE head)
    BY <1>1, <2>1
  <2>4. /\ next'[node] = (IF k = 1 THEN head ELSE next[Settled[k - 1]])
        /\ \A i \in 1 .. Len(Settled) :
             next'[Settled[i]] = (IF i = k - 1 THEN node ELSE next[Settled[i]])
    BY <1>1, <1>5, <2>1
  <2>5. LinkedIn(Settled, k, node, head, next, head', next')
    BY <2>3, <2>4 DEF LinkedIn
  <2>6. Spells(InsertAt(Settled, k, node), head', next', Nil)
    BY ONLY <2>2, <2>5, SpellsWith
  <2> QED
    BY <1>3, <2>1, <2>6
<1>8. prev[node] = Nil /\ node # head
  <2>1. ~Queued(Linked, node)
    BY <1>2
  <2>2. head # Nil => Queued(Linked, head)
    BY <1>2, LinkProperties DEF Queued
  <2> QED
    BY <1>1, <2>1, <2>2, BoxAssumption DEF IInv, FreshInv
<1>9. ASSUME hasPrev PROVE SpellsBack(order', prev', Nil)
  <2>1. PICK k \in 1 .. Len(Settled) + 1 : k = 1
    BY <1>4
  <2>2. /\ prev'[node] = (IF k = 1 THEN Nil ELSE Settled[k - 1])
        /\ \A i \in 1 .. Len(Settled) :
             prev'[Settled[i]] = (IF i = k THEN node ELSE prev[Settled[i]])
    BY <1>1, <1>5, <1>8, <1>9, <2>1 DEF SetPrev, SetLink
  <2>3. LinkedInBack(Settled, k, node, prev, Nil, prev')
    BY <2>2 DEF LinkedInBack
  <2>4. SpellsBack(InsertAt(Settled, k, node), prev', Nil)
    BY ONLY <1>1, <1>2, <1>6, <1>9, <2>3, SpellsBackWith
  <2> QED
    BY <1>3, <2>1, <2>4
<1>10. 1 <= Len(Settled) => Verdict(data[node], Settled[1]) # "Less"
  <2>1. 1 <= Len(Settled) => head # Nil /\ Settled[1] = head
    BY <1>2, <1>4, LinkProperties
  <2> QED
    BY <1>1, <2>1
<1>11. PlacedAt(1)
  BY <1>1, <1>3, <1>4, <1>7, <1>9, <1>10 DEF PlacedAt
<1>12. ASSUME NEW b \in Boxes, prev'[b] # Nil PROVE hasPrev /\ Queued(order', b)
  <2>1. \A d : Queued(InsertAt(Settled, 1, node), d) <=> d = node \/ Queued(Settled, d)
    BY ONLY <1>1, <1>2, <1>4, InsertKeepsDistinct
  <2>2. head # Nil => Queued(Settled, head)
    BY <1>2, LinkProperties DEF Queued
  <2>3. CASE b = head
    BY <1>1, <1>2, <1>3, <1>12, <2>1, <2>2, <2>3, BoxAssumption
       DEF SetPrev, IInv, FreshInv
  <2>4. CASE b # head
    BY <1>1, <1>2, <1>3, <1>12, <2>1, <2>4 DEF SetPrev, SetLink, IInv, FreshInv
  <2> QED
    BY <2>3, <2>4
<1> QED
  BY <1>11, <1>12

LEMMA WalkIsPlaced ==
  ASSUME IInv, PlaceHere
  PROVE  /\ \E k \in 1 .. Len(Settled) + 1 : PlacedAt(k)
         /\ \A b \in Boxes : prev'[b] # Nil => hasPrev /\ Queued(order', b)
<1>1. /\ TypeOK /\ Apart /\ node \in Boxes /\ prev \in [Boxes -> Boxes \union {Nil}]
      /\ next \in [Boxes -> Boxes \union {Nil}]
      /\ Queued(Settled, cur) /\ Verdict(data[node], cur) = "Less"
      /\ next[cur] # Nil => Verdict(data[node], next[cur]) # "Less"
      /\ next' = [next EXCEPT ![node] = next[cur], ![cur] = node]
      /\ prev' = SetPrev(hasPrev, SetPrev(hasPrev, prev, next[cur], node), node, cur)
      /\ head' = head
      /\ order' = InsertAt(Settled, IndexOf(Settled, cur) + 1, node)
  BY DEF IInv, PlaceInv, PlaceHere, Apart, TypeOK, Settled, Behind, MayFollow
<1>2. /\ Settled \in Seq(Boxes) /\ Injective(Settled) /\ Linked = Settled
      /\ \A b : Queued(Settled, b) => b # node
  BY <1>1, LinkedProperties DEF IInv, LinksAreQueue
<1>3. PICK m \in 1 .. Len(Settled) : m = IndexOf(Settled, cur) /\ Settled[m] = cur
  BY <1>1, <1>2, LinkProperties
<1>4. /\ Len(Settled) \in Nat /\ m + 1 \in 1 .. Len(Settled) + 1 /\ m + 1 > 1
      /\ (m + 1) - 1 = m /\ m + 1 # 1
  BY <1>2
<1>5. /\ order' = InsertAt(Settled, m + 1, node)
      /\ next[cur] = IF m = Len(Settled) THEN Nil ELSE Settled[m + 1]
      /\ next[cur] = Nil <=> m = Len(Settled)
  BY <1>1, <1>2, <1>3, LinkProperties
<1>6. \A i \in 1 .. Len(Settled) :
        /\ Settled[i] \in Boxes /\ Settled[i] # node
        /\ Settled[i] = cur <=> i = m
        /\ Settled[i] = next[cur] <=> i = m + 1
  <2>1. \A i \in 1 .. Len(Settled) : Settled[i] \in Boxes /\ Settled[i] # node
    BY <1>2, LinkProperties
  <2>2. \A i \in 1 .. Len(Settled) : Settled[i] = cur <=> i = m
    BY <1>2, <1>3 DEF Injective
  <2>3. \A i \in 1 .. Len(Settled) : Settled[i] = next[cur] <=> i = m + 1
    <3>1. CASE m = Len(Settled)
      BY <1>4, <1>5, <2>1, <3>1, BoxAssumption
    <3>2. CASE m # Len(Settled)
      BY <1>2, <1>4, <1>5, <3>2 DEF Injective
    <3> QED
      BY <3>1, <3>2
  <2> QED
    BY <2>1, <2>2, <2>3
<1>7. Spells(Settled, head, next, Nil) /\ (hasPrev => SpellsBack(Settled, prev, Nil))
  BY <1>2 DEF IInv, LinksAreQueue
<1>8. Spells(order', head', next', Nil)
  <2>1. PICK k \in 1 .. Len(Settled) + 1 : k = m + 1
    BY <1>4
  <2>2. cur \in Boxes /\ cur # node /\ k - 1 = m /\ k # 1
    BY <1>3, <1>4, <1>6, <2>1
  <2>3. /\ node \in Boxes /\ Settled \in Seq(Boxes) /\ Spells(Settled, head, next, Nil)
        /\ k \in 1 .. Len(Settled) + 1
    BY <1>1, <1>2, <1>7
  <2>4. head' = (IF k = 1 THEN node ELSE head)
    BY <1>1, <2>2
  <2>5. /\ next'[node] = (IF k = 1 THEN head ELSE next[Settled[k - 1]])
        /\ \A i \in 1 .. Len(Settled) :
             next'[Settled[i]] = (IF i = k - 1 THEN node ELSE next[Settled[i]])
    BY <1>1, <1>3, <1>6, <2>2
  <2>6. LinkedIn(Settled, k, node, head, next, head', next')
    BY <2>4, <2>5 DEF LinkedIn
  <2>7. Spells(InsertAt(Settled, k, node), head', next', Nil)
    BY ONLY <2>3, <2>6, SpellsWith
  <2> QED
    BY <1>5, <2>1, <2>7
<1>9. ASSUME hasPrev PROVE SpellsBack(order', prev', Nil)
  <2>1. PICK k \in 1 .. Len(Settled) + 1 : k = m + 1
    BY <1>4
  <2>2. /\ prev'[node] = cur
        /\ \A i \in 1 .. Len(Settled) :
             prev'[Settled[i]] = (IF i = m + 1 THEN node ELSE prev[Settled[i]])
    BY <1>1, <1>6, <1>9 DEF SetPrev, SetLink
  <2>3. /\ prev'[node] = (IF k = 1 THEN Nil ELSE Settled[k - 1])
        /\ \A i \in 1 .. Len(Settled) :
             prev'[Settled[i]] = (IF i = k THEN node ELSE prev[Settled[i]])
    BY <1>3, <1>4, <2>1, <2>2
  <2>4. LinkedInBack(Settled, k, node, prev, Nil, prev')
    BY <2>3 DEF LinkedInBack
  <2>5. SpellsBack(InsertAt(Settled, k, node), prev', Nil)
    BY ONLY <1>1, <1>2, <1>7, <1>9, <2>4, SpellsBackWith
  <2> QED
    BY <1>5, <2>1, <2>5
<1>10. PlacedAt(m + 1)
  <2>1. Verdict(data[node], Settled[(m + 1) - 1]) # "Greater"
    BY <1>1, <1>3, <1>4
  <2>2. m + 1 <= Len(Settled) => Verdict(data[node], Settled[m + 1]) # "Less"
    BY <1>1, <1>4, <1>5
  <2> QED
    BY <1>1, <1>4, <1>5, <1>8, <1>9, <2>1, <2>2 DEF PlacedAt
<1>11. ASSUME NEW b \in Boxes, prev'[b] # Nil PROVE hasPrev /\ Queued(order', b)
  <2>1. \A d : Queued(order', d) <=> d = node \/ Queued(Settled, d)
    BY <1>1, <1>2, <1>4, <1>5, InsertKeepsDistinct
  <2>2. next[cur] # Nil => Queued(Settled, next[cur])
    BY <1>2, <1>4, <1>5, LinkProperties
  <2>3. CASE ~hasPrev
    BY <1>1, <1>11, <2>3 DEF SetPrev, IInv, FreshInv
  <2>4. CASE hasPrev /\ (b = node \/ b = next[cur])
    BY <2>1, <2>2, <2>4, BoxAssumption
  <2>5. CASE hasPrev /\ b # node /\ b # next[cur]
    <3>1. prev'[b] = prev[b]
      BY <1>1, <2>5 DEF SetPrev, SetLink
    <3> QED
      BY <1>2, <1>11, <2>1, <2>5, <3>1 DEF IInv, FreshInv
  <2> QED
    BY <2>3, <2>4, <2>5
<1> QED
  BY <1>4, <1>10, <1>11

LEMMA PlacedKeepsIInv ==
  ASSUME IInv, Apart, Return, UNCHANGED <<hasPrev, use, data, pinned>>,
         NEW k \in 1 .. Len(Settled) + 1, PlacedAt(k),
         next' \in [Boxes -> Boxes \union {Nil}], prev' \in [Boxes -> Boxes \union {Nil}],
         \A b \in Boxes : prev'[b] # Nil => hasPrev /\ Queued(order', b)
  PROVE  IInv'
<1>1. TypeOK /\ node \in Boxes /\ data[node] \in Priorities
  BY DEF IInv, PlaceInv, TypeOK, Apart
<1>2. /\ Settled \in Seq(Boxes) /\ Injective(Settled) /\ Linked = Settled
      /\ ~Queued(Settled, node)
  BY <1>1, LinkedProperties DEF IInv, LinksAreQueue
<1>3. /\ order' = InsertAt(Settled, k, node)
      /\ order' \in Seq(Boxes) /\ Injective(order')
      /\ \A d : Queued(order', d) <=> d = node \/ Queued(Settled, d)
  <2>1. order' = InsertAt(Settled, k, node)
    BY DEF PlacedAt
  <2>2. InsertAt(Settled, k, node) \in Seq(Boxes)
    BY <1>1, <1>2, InsertAtProperties
  <2>3. /\ Injective(InsertAt(Settled, k, node))
        /\ \A d : Queued(InsertAt(Settled, k, node), d) <=> d = node \/ Queued(Settled, d)
    BY ONLY <1>1, <1>2, k \in 1 .. Len(Settled) + 1, InsertKeepsDistinct
  <2> QED
    BY <2>1, <2>2, <2>3
<1>4. head' = (IF k = 1 THEN node ELSE head) /\ Len(Settled) \in Nat
  BY <1>2 DEF PlacedAt
<1>5. TypeOK'
  BY <1>1, <1>3, <1>4 DEF TypeOK, Return, PCs
<1>6. \A b \in Boxes : data'[b] # NoData <=> Queued(order', b)
  BY <1>1, <1>2, <1>3, BoxAssumption DEF IInv, LinksAreQueue
<1>7. pinned' = IF use = "semaphore" THEN Nil ELSE head'
  <2>1. CASE use = "semaphore"
    BY <2>1 DEF IInv, PinInv
  <2>2. CASE use # "semaphore" /\ head = Nil
    <3>1. k = 1
      BY <1>2, <1>4, <2>2, LinkProperties
    <3> QED
      BY <1>4, <2>2, <3>1 DEF IInv, PinInv
  <2>3. CASE use # "semaphore" /\ head # Nil
    <3>1. pinned = head /\ 1 \in 1 .. Len(Settled) /\ Settled[1] = head
      BY <1>2, <2>3, LinkProperties DEF IInv, PinInv
    <3>2. Verdict(data[node], Settled[1]) = "Less"
      BY <3>1 DEF Verdict, VerdictOn
    <3>3. k # 1
      BY <1>4, <3>1, <3>2 DEF PlacedAt
    <3> QED
      BY <1>4, <2>3, <3>1, <3>3
  <2> QED
    BY <2>1, <2>2, <2>3
<1>8. Descending(order', data', pinned')
  <2>1. Descending(Settled, data, pinned)
    BY DEF IInv
  <2>2. \A j \in 1 .. Len(Settled) : data[Settled[j]] \in Priorities
    BY <1>2, LinkProperties
  <2>3. Len(Settled) # 0 => node # pinned
    <3>1. Len(Settled) # 0 => head # Nil /\ Queued(Settled, head)
      BY <1>2, LinkProperties DEF Queued
    <3> QED
      BY <1>1, <1>2, <3>1, BoxAssumption DEF IInv, PinInv
  <2>4. /\ k > 1 => k - 1 \in 1 .. Len(Settled)
        /\ k <= Len(Settled) => k \in 1 .. Len(Settled)
    BY <1>4
  <2>5. k > 1 => \/ Settled[k - 1] = pinned
                 \/ Compare(data[node], data[Settled[k - 1]]) # "Greater"
    BY <1>1, <2>2, <2>4, CompareIsPreorder DEF PlacedAt, Verdict, VerdictOn
  <2>6. k <= Len(Settled) => /\ Settled[k] # pinned
                             /\ Compare(data[node], data[Settled[k]]) # "Less"
    BY <1>1, <2>2, <2>4, CompareIsPreorder DEF PlacedAt, Verdict, VerdictOn
  <2>7. Settled \in Seq(Boxes) /\ node \in Boxes /\ data[node] \in Priorities
    BY <1>1, <1>2
  <2>8. Descending(InsertAt(Settled, k, node), data, pinned)
    BY ONLY <2>1, <2>2, <2>3, <2>5, <2>6, <2>7, k \in 1 .. Len(Settled) + 1, DescendingWith
  <2> QED
    BY <1>3, <2>8
<1> QED
  BY <1>3, <1>5, <1>6, <1>7, <1>8, ReturnKeepsIInv DEF Return, PlacedAt

LEMMA PlaceFirstKeepsIInv ==
  ASSUME IInv, PlaceFirst
  PROVE  IInv'
<1>1. PlacedAt(1) /\ \A b \in Boxes : prev'[b] # Nil => hasPrev /\ Queued(order', b)
  BY FirstIsPlaced
<1>2. 1 \in 1 .. Len(Settled) + 1
  BY <1>1 DEF PlacedAt
<1>3. /\ next' \in [Boxes -> Boxes \union {Nil}]
      /\ prev' \in [Boxes -> Boxes \union {Nil}]
  BY DEF IInv, TypeOK, PlaceInv, PlaceFirst, SetPrev, SetLink
<1>4. Apart /\ Return /\ UNCHANGED <<hasPrev, use, data, pinned>>
  BY DEF PlaceFirst, Apart
<1> QED
  BY <1>1, <1>2, <1>3, <1>4, PlacedKeepsIInv

LEMMA PlaceHereKeepsIInv ==
  ASSUME IInv, PlaceHere
  PROVE  IInv'
<1>1. PICK k \in 1 .. Len(Settled) + 1 : PlacedAt(k)
  BY WalkIsPlaced
<1>2. \A b \in Boxes : prev'[b] # Nil => hasPrev /\ Queued(order', b)
  BY WalkIsPlaced
<1>3. /\ next' \in [Boxes -> Boxes \union {Nil}]
      /\ prev' \in [Boxes -> Boxes \union {Nil}]
  <2>1. node \in Boxes /\ cur \in Boxes
    <3>1. Queued(Settled, cur) /\ TypeOK
      BY DEF IInv, PlaceInv, PlaceHere
    <3> QED
      BY <3>1, LinkedProperties DEF IInv, LinksAreQueue, PlaceInv, PlaceHere
  <2> QED
    BY <2>1 DEF IInv, TypeOK, PlaceHere, SetPrev, SetLink
<1>4. Apart /\ Return /\ UNCHANGED <<hasPrev, use, data, pinned>>
  BY DEF PlaceHere, Apart
<1> QED
  BY <1>1, <1>2, <1>3, <1>4, PlacedKeepsIInv

LEMMA EnqueueKeepsIInv ==
  ASSUME IInv, NEW d \in Priorities, Enqueue(d)
  PROVE  IInv'
<1>1. PICK n \in Boxes :
        /\ data[n] = NoData
        /\ data' = [data EXCEPT ![n] = d]
        /\ node' = n
        /\ pinned' = IF use = "mutex" /\ head = Nil THEN n ELSE pinned
  BY DEF Enqueue
<1>2. /\ TypeOK /\ pc = "idle" /\ pc' = "insert" /\ node = Nil /\ cur = Nil /\ old = NoData
      /\ UNCHANGED <<hasPrev, use, head, next, prev, cur, old, order>>
      /\ Injective(order)
  BY DEF IInv, PlaceInv, Enqueue, links, LinksAreQueue
<1>3. /\ Settled = order /\ Linked = order /\ ~Apart
      /\ \A b : Queued(order, b) => b \in Boxes
  BY <1>2, LinkedProperties DEF Apart
<1>4. ~Queued(order, n)
  BY <1>1, <1>3 DEF IInv, LinksAreQueue
<1>5. Settled' = order /\ Linked' = order /\ Apart'
  BY <1>1, <1>2, <1>4 DEF Settled, Linked, Apart, Besides
<1>6. TypeOK'
  BY <1>1, <1>2 DEF TypeOK, PCs
<1>7. LinksAreQueue'
  BY <1>1, <1>2, <1>3, <1>4, <1>5, BoxAssumption DEF IInv, LinksAreQueue, TypeOK
<1>8. PlaceInv'
  BY <1>1, <1>2, <1>4, <1>5, BoxAssumption DEF PlaceInv, Apart, TypeOK
<1>9. FreshInv'
  BY <1>2, <1>3, <1>5 DEF IInv, FreshInv
<1>10. PinInv'
  BY <1>1, <1>2, <1>3, <1>5 DEF IInv, PinInv, Uses, TypeOK
<1>11. Descending(Settled', data', pinned')
  <2>1. \A i \in 1 .. Len(order) : order[i] # n /\ data'[order[i]] = data[order[i]]
    BY <1>1, <1>2, <1>4 DEF TypeOK, Queued
  <2>2. Len(order) > 0 => head # Nil
    BY <1>3, LinkProperties
  <2>3. Len(order) > 0 => pinned' = pinned
    BY <1>1, <2>2
  <2>4. \A i, j \in 1 .. Len(order) : i < j => Len(order) > 0
    BY <1>2 DEF TypeOK
  <2> QED
    BY <1>3, <1>5, <2>1, <2>3, <2>4 DEF Descending, IInv
<1> QED
  BY <1>6, <1>7, <1>8, <1>9, <1>10, <1>11 DEF IInv

-----------------------------------------------------------------------------
\* The steps that follow the links.

LEMMA StartAtHeadKeepsIInv ==
  ASSUME IInv, StartAtHead
  PROVE  IInv'
<1>1. /\ TypeOK /\ Injective(order) /\ Apart /\ Apart' /\ pc' = "walk"
      /\ head # Nil /\ Verdict(data[node], head) = "Less" /\ cur' = head
      /\ UNCHANGED <<hasPrev, use, head, next, prev, data, pinned, node, old, order>>
  BY DEF IInv, LinksAreQueue, StartAtHead, links, Apart
<1>2. Settled' = Settled /\ Linked' = Linked /\ Linked = Settled
  BY <1>1 DEF Settled, Linked
<1>3. Queued(Settled, head)
  BY <1>1, <1>2, LinkProperties DEF Queued
<1>4. TypeOK'
  BY <1>1 DEF TypeOK, PCs
<1>5. LinksAreQueue' /\ FreshInv' /\ PinInv'
  BY <1>1, <1>2 DEF IInv, LinksAreQueue, FreshInv, PinInv
<1>6. PlaceInv'
  BY <1>1, <1>2, <1>3 DEF IInv, PlaceInv, Verdict, Apart
<1> QED
  BY <1>1, <1>2, <1>4, <1>5, <1>6 DEF IInv

LEMMA WalkKeepsIInv ==
  ASSUME IInv, Walk
  PROVE  IInv'
<1>1. /\ TypeOK /\ Injective(order) /\ Apart /\ Apart' /\ pc' = "walk"
      /\ next[cur] # Nil /\ Verdict(data[node], next[cur]) = "Less" /\ cur' = next[cur]
      /\ UNCHANGED <<hasPrev, use, head, next, prev, data, pinned, pc, node, old, order>>
      /\ Queued(Settled, cur)
  <2>1. Verdict(data[node], next[cur]) = "Less"
    BY DEF Walk, MayFollow
  <2> QED
    BY <2>1 DEF IInv, LinksAreQueue, Walk, links, Apart, MayFollow, PlaceInv
<1>2. Settled' = Settled /\ Linked' = Linked /\ Linked = Settled
  BY <1>1 DEF Settled, Linked
<1>3. Queued(Settled, next[cur]) /\ next[cur] \in Boxes
  <2>1. PICK m \in 1 .. Len(Linked) : Linked[m] = cur
    BY <1>1, <1>2, LinkProperties
  <2>2. m # Len(Linked) /\ next[cur] = Linked[m + 1]
    BY <1>1, <2>1, LinkProperties
  <2>3. m + 1 \in 1 .. Len(Linked)
    BY <1>1, <2>2, LinkedProperties
  <2> QED
    BY <1>2, <2>2, <2>3, LinkProperties
<1>4. TypeOK'
  BY <1>1, <1>3 DEF TypeOK, PCs
<1>5. LinksAreQueue' /\ FreshInv' /\ PinInv'
  BY <1>1, <1>2 DEF IInv, LinksAreQueue, FreshInv, PinInv
<1>6. PlaceInv'
  BY <1>1, <1>2, <1>3 DEF IInv, PlaceInv, Verdict, Apart
<1> QED
  BY <1>1, <1>2, <1>4, <1>5, <1>6 DEF IInv

\* dequeue and update_node meet the node before the end of the queue.
LEMMA SeekFinds ==
  ASSUME IInv, pc \in {"drop", "find"}
  PROVE  /\ Linked = order /\ ~hasPrev /\ node \in Boxes /\ data[node] \in Priorities
         /\ \E m \in 1 .. Len(order) - 1 :
              /\ order[m] = cur /\ next[cur] = order[m + 1]
              /\ next[cur] \in Boxes
              /\ next[cur] # node => Before(order, next[cur], node)
              /\ next[cur] = node => IndexOf(order, node) = m + 1
<1>1. /\ TypeOK /\ Injective(order) /\ ~Apart /\ ~hasPrev /\ Before(order, cur, node)
      /\ node \in Boxes /\ data[node] \in Priorities
  BY DEF IInv, LinksAreQueue, PlaceInv, Apart, TypeOK
<1>2. Linked = order /\ Len(order) \in Nat
  BY <1>1, LinkedProperties DEF TypeOK
<1>3. PICK m, j \in 1 .. Len(order) : m < j /\ order[m] = cur /\ order[j] = node
  BY <1>1 DEF Before
<1>4. m \in 1 .. Len(order) - 1 /\ m + 1 \in 1 .. Len(order) /\ m # Len(order)
  BY <1>2, <1>3
<1>5. next[cur] = order[m + 1] /\ next[cur] \in Boxes
  BY <1>2, <1>3, <1>4, LinkProperties
<1>6. next[cur] # node => Before(order, next[cur], node)
  <2>1. ASSUME next[cur] # node PROVE m + 1 < j
    BY <1>2, <1>3, <1>4, <1>5, <2>1
  <2> QED
    BY <1>3, <1>4, <1>5, <2>1 DEF Before
<1>7. next[cur] = node => IndexOf(order, node) = m + 1
  BY <1>2, <1>4, <1>5, LinkProperties
<1> QED
  BY <1>1, <1>2, <1>3, <1>4, <1>5, <1>6, <1>7

LEMMA SeekKeepsIInv ==
  ASSUME IInv, Seek
  PROVE  IInv'
<1>1. /\ pc \in {"drop", "find"} /\ pc' = pc /\ next[cur] # node /\ cur' = next[cur]
      /\ UNCHANGED <<hasPrev, use, head, next, prev, data, pinned, node, old, order>>
  BY DEF Seek, links
<1>2. next[cur] \in Boxes /\ Before(order, next[cur], node)
  BY <1>1, SeekFinds
<1>3. Settled' = Settled /\ Linked' = Linked /\ ~Apart /\ ~Apart'
  BY <1>1 DEF Settled, Linked, Apart
<1>4. TypeOK'
  BY <1>1, <1>2 DEF IInv, TypeOK, PCs
<1>5. LinksAreQueue' /\ FreshInv' /\ PinInv'
  BY <1>1, <1>3 DEF IInv, LinksAreQueue, FreshInv, PinInv
<1>6. PlaceInv'
  BY <1>1, <1>2, <1>3 DEF IInv, PlaceInv
<1> QED
  BY <1>1, <1>3, <1>4, <1>5, <1>6 DEF IInv

\* A single linked node that is not the head has the head before it.
LEMMA HeadIsBefore ==
  ASSUME IInv, pc = "idle", NEW h \in Boxes, data[h] # NoData
  PROVE  /\ Linked = order /\ Settled = order /\ Queued(order, h) /\ head # Nil
         /\ data[h] \in Priorities
         /\ h = head <=> IndexOf(order, h) = 1
         /\ h # head => Before(order, head, h)
<1>1. /\ TypeOK /\ Injective(order) /\ ~Apart /\ node = Nil
  BY DEF IInv, LinksAreQueue, PlaceInv, Apart
<1>2. Linked = order /\ Settled = order /\ Len(order) \in Nat
  BY <1>1, LinkedProperties DEF TypeOK
<1>3. Queued(order, h) /\ data[h] \in Priorities
  BY <1>1, <1>2 DEF IInv, LinksAreQueue, TypeOK
<1>4. PICK m \in 1 .. Len(order) : order[m] = h /\ IndexOf(order, h) = m
  BY <1>2, <1>3, LinkProperties
<1>5. order # << >>
  BY <1>2, <1>4
<1>6. head # Nil /\ 1 \in 1 .. Len(order) /\ order[1] = head
  BY <1>2, <1>5, LinkProperties
<1>7. h # head => 1 < m
  BY <1>4, <1>6
<1>8. h = head => m = 1
  BY <1>1, <1>4, <1>6 DEF Injective
<1> QED
  BY <1>2, <1>3, <1>4, <1>6, <1>7, <1>8 DEF Before

-----------------------------------------------------------------------------
\* The steps that take a node out.

\* The node before index m.
NodeBefore(m) == IF m = 1 THEN Nil ELSE order[m - 1]

\* The node h at index m is unlinked: what led to it leads to what follows it.
Unlinked(m, h) ==
  /\ m \in 1 .. Len(order) /\ order[m] = h
  /\ head' = IF m = 1 THEN next[h] ELSE head
  /\ next' \in [Boxes -> Boxes \union {Nil}]
  /\ \A b \in Boxes :
       next'[b] = IF b = h THEN Nil ELSE IF b = NodeBefore(m) THEN next[h] ELSE next[b]
  /\ prev' \in [Boxes -> Boxes \union {Nil}]
  /\ ~hasPrev => prev' = prev
  /\ hasPrev => \A b \in Boxes :
       prev'[b] = IF b = h THEN Nil ELSE IF b = next[h] THEN NodeBefore(m) ELSE prev[b]

LEMMA UnlinkedSpells ==
  ASSUME IInv, ~Apart, NEW m, NEW h, Unlinked(m, h), NEW r, r = RemoveAt(order, m)
  PROVE  /\ r \in Seq(Boxes) /\ Injective(r)
         /\ \A b : Queued(r, b) <=> b # h /\ Queued(order, b)
         /\ Spells(r, head', next', Nil)
         /\ hasPrev => SpellsBack(r, prev', Nil)
         /\ head' \in Boxes \union {Nil}
         /\ \A b \in Boxes : prev'[b] # Nil => hasPrev /\ Queued(r, b)
         /\ r = Besides(order, h) /\ r = Dequeue(order, h)
<1>1. /\ TypeOK /\ order \in Seq(Boxes) /\ Injective(order) /\ Linked = order
      /\ Len(order) \in Nat
      /\ m \in 1 .. Len(order) /\ order[m] = h
      /\ Spells(order, head, next, Nil) /\ (hasPrev => SpellsBack(order, prev, Nil))
  BY LinkedProperties DEF IInv, LinksAreQueue, TypeOK, Unlinked
<1>2. Queued(order, h) /\ IndexOf(order, h) = m /\ h \in Boxes
  BY <1>1, LinkProperties
<1>3. /\ r = Dequeue(order, h) /\ r = Besides(order, h)
      /\ r \in Seq(Boxes) /\ Injective(r)
      /\ \A b : Queued(r, b) <=> b # h /\ Queued(order, b)
  BY <1>1, <1>2, DequeueKeepsDistinct DEF Dequeue, Besides
<1>4. \A i \in 1 .. Len(order) :
        /\ order[i] \in Boxes
        /\ order[i] = h <=> i = m
        /\ order[i] = NodeBefore(m) <=> i = m - 1
        /\ order[i] = next[h] <=> i = m + 1
  <2>1. \A i \in 1 .. Len(order) : order[i] \in Boxes /\ (order[i] = h <=> i = m)
    BY <1>1, LinkProperties DEF Injective
  <2>2. \A i \in 1 .. Len(order) : order[i] = NodeBefore(m) <=> i = m - 1
    <3>1. m = 1 => NodeBefore(m) \notin Boxes
      BY BoxAssumption DEF NodeBefore
    <3>2. m # 1 => m - 1 \in 1 .. Len(order) /\ NodeBefore(m) = order[m - 1]
      BY <1>1 DEF NodeBefore
    <3> QED
      BY <1>1, <2>1, <3>1, <3>2 DEF Injective
  <2>3. \A i \in 1 .. Len(order) : order[i] = next[h] <=> i = m + 1
    <3>1. next[h] = IF m = Len(order) THEN Nil ELSE order[m + 1]
      BY <1>1, LinkProperties
    <3>2. m # Len(order) => m + 1 \in 1 .. Len(order)
      BY <1>1
    <3> QED
      BY <1>1, <2>1, <3>1, <3>2, BoxAssumption DEF Injective
  <2> QED
    BY <2>1, <2>2, <2>3
<1>5. Spells(r, head', next', Nil)
  <2>1. \A i \in 1 .. Len(order) :
          i # m => next'[order[i]] = (IF i = m - 1 THEN next[order[m]] ELSE next[order[i]])
    BY <1>1, <1>4 DEF Unlinked
  <2>2. head' = (IF m = 1 THEN next[order[m]] ELSE head)
    BY <1>1 DEF Unlinked
  <2>3. /\ order \in Seq(Boxes) /\ Injective(order) /\ m \in 1 .. Len(order)
        /\ Spells(order, head, next, Nil)
    BY <1>1
  <2>4. LinkedOut(order, m, head, next, head', next')
    BY <2>1, <2>2 DEF LinkedOut
  <2>5. Spells(RemoveAt(order, m), head', next', Nil)
    BY ONLY <2>3, <2>4, SpellsWithout
  <2> QED
    BY <2>5
<1>6. ASSUME hasPrev PROVE SpellsBack(r, prev', Nil)
  <2>1. prev[order[m]] = NodeBefore(m)
    BY <1>1, <1>6, LinkProperties DEF NodeBefore
  <2>2. \A i \in 1 .. Len(order) :
          i # m => prev'[order[i]] = (IF i = m + 1 THEN prev[order[m]] ELSE prev[order[i]])
    BY <1>1, <1>4, <1>6, <2>1 DEF Unlinked
  <2>3. LinkedOutBack(order, m, prev, prev')
    BY <2>2 DEF LinkedOutBack
  <2>4. SpellsBack(RemoveAt(order, m), prev', Nil)
    BY ONLY <1>1, <1>6, <2>3, SpellsBackWithout
  <2> QED
    BY <2>4
<1>7. head' \in Boxes \union {Nil}
  BY <1>2 DEF Unlinked, IInv, TypeOK
<1>8. ASSUME NEW b \in Boxes, prev'[b] # Nil PROVE hasPrev /\ Queued(r, b)
  <2>1. CASE ~hasPrev
    BY <1>8, <2>1 DEF Unlinked, IInv, FreshInv
  <2>2. CASE hasPrev /\ b = h
    BY <1>8, <2>2 DEF Unlinked
  <2>3. CASE hasPrev /\ b # h /\ b = next[h]
    <3>1. next[h] = (IF m = Len(order) THEN Nil ELSE order[m + 1])
      BY <1>1, LinkProperties
    <3>2. m # Len(order) => m + 1 \in 1 .. Len(order)
      BY <1>1
    <3>3. Queued(order, b)
      BY <2>3, <3>1, <3>2, BoxAssumption DEF Queued
    <3> QED
      BY <1>3, <2>3, <3>3
  <2>4. CASE hasPrev /\ b # h /\ b # next[h]
    <3>1. prev'[b] = prev[b]
      BY <2>4 DEF Unlinked
    <3> QED
      BY <1>1, <1>3, <1>8, <2>4, <3>1 DEF IInv, FreshInv
  <2> QED
    BY <2>1, <2>2, <2>3, <2>4
<1> QED
  BY <1>3, <1>5, <1>6, <1>7, <1>8

\* The node h leaves for good.
RemovedAt(m, h) ==
  /\ Unlinked(m, h)
  /\ UNCHANGED <<hasPrev, use>>
  /\ data' = [data EXCEPT ![h] = NoData]
  /\ order' = Dequeue(order, h)
  /\ Return
  /\ pinned' = IF h = pinned THEN next[h] ELSE pinned

LEMMA DequeueBoxRemoves ==
  ASSUME IInv, NEW h \in Boxes, DequeueBox(h), ~StartDrop(h)
  PROVE  \E m \in 1 .. Len(order) : RemovedAt(m, h)
<1>1. /\ pc = "idle" /\ data[h] # NoData /\ ~Apart /\ TypeOK /\ Return
  <2>1. pc = "idle" /\ data[h] # NoData
    BY DEF DequeueBox
  <2>2. UNCHANGED <<pc, node, cur, old>>
    BY <2>1 DEF DequeueBox, DequeueDual, DequeueHead
  <2> QED
    BY <2>1, <2>2 DEF IInv, PlaceInv, Return, Apart
<1>2. /\ Linked = order /\ Queued(order, h) /\ head # Nil
      /\ h = head <=> IndexOf(order, h) = 1
  BY <1>1, HeadIsBefore
<1>3. PICK m \in 1 .. Len(order) : order[m] = h /\ IndexOf(order, h) = m
  BY <1>2, LinkProperties
<1>4. /\ next \in [Boxes -> Boxes \union {Nil}] /\ prev \in [Boxes -> Boxes \union {Nil}]
      /\ next[h] \in Boxes \union {Nil} /\ prev[h] \in Boxes \union {Nil}
  BY <1>1 DEF TypeOK
<1>5. CASE hasPrev
  <2>1. DequeueDual(h)
    BY <1>5 DEF DequeueBox
  <2>2. prev[h] = NodeBefore(m) /\ (prev[h] = Nil <=> m = 1)
    BY <1>2, <1>3, <1>5, LinkProperties DEF NodeBefore
  <2>3. Owned(prev[h]) = h
    <3>1. CASE m = 1
      BY <1>2, <1>3, <2>2, <3>1 DEF Owned
    <3>2. CASE m # 1
      <4>1. m - 1 \in 1 .. Len(order) /\ (m - 1) + 1 = m /\ m - 1 # Len(order)
        BY <1>1, <3>2 DEF TypeOK
      <4>2. prev[h] = order[m - 1] /\ next[order[m - 1]] = order[m]
        BY <1>2, <2>2, <3>2, <4>1, LinkProperties DEF NodeBefore
      <4> QED
        BY <1>3, <2>2, <3>2, <4>2 DEF Owned
    <3> QED
      BY <3>1, <3>2
  <2>4. /\ head' = (IF prev[h] = Nil THEN next[h] ELSE head)
        /\ next' = SetLink([next EXCEPT ![h] = Nil, ![h] = Nil], prev[h], next[h])
        /\ prev' = Deallocated(SetLink(prev, next[h], prev[h]), h, Nil)
        /\ data' = Deallocated(data, h, NoData)
        /\ PassOn(h) /\ order' = Dequeue(order, h) /\ UNCHANGED <<hasPrev, use>>
    BY <2>1, <2>3 DEF DequeueDual
  <2>5. h # prev[h] /\ h # next[h]
    <3>1. next[h] # h
      <4>1. m # Len(order) => m + 1 \in 1 .. Len(order) /\ m + 1 # m
        BY <1>1 DEF TypeOK
      <4> QED
        BY <1>2, <1>3, <4>1, LinkProperties, BoxAssumption
    <3>2. prev[h] # h
      <4>1. m # 1 => m - 1 \in 1 .. Len(order) /\ m - 1 # m
        BY <1>1 DEF TypeOK
      <4> QED
        BY <1>2, <1>3, <1>5, <4>1, LinkProperties, BoxAssumption
    <3> QED
      BY <3>1, <3>2
  <2>6. /\ next' \in [Boxes -> Boxes \union {Nil}]
        /\ \A b \in Boxes :
             next'[b] = IF b = h THEN Nil ELSE IF b = prev[h] THEN next[h] ELSE next[b]
    BY <1>4, <2>4, <2>5 DEF SetLink
  <2>7. /\ prev' \in [Boxes -> Boxes \union {Nil}]
        /\ \A b \in Boxes :
             prev'[b] = IF b = h THEN Nil ELSE IF b = next[h] THEN prev[h] ELSE prev[b]
    BY <1>4, <2>4 DEF SetLink, Deallocated
  <2>8. Unlinked(m, h)
    BY <1>3, <1>5, <2>2, <2>4, <2>6, <2>7 DEF Unlinked
  <2> QED
    BY <1>1, <2>4, <2>8 DEF RemovedAt, Deallocated, PassOn
<1>6. CASE ~hasPrev
  <2>1. DequeueHead(h) /\ h = head
    BY <1>6 DEF DequeueBox
  <2>2. m = 1
    BY <1>2, <1>3, <2>1
  <2>3. Unlinked(m, h)
    BY <1>3, <1>4, <1>6, <2>1, <2>2, BoxAssumption
       DEF Unlinked, DequeueHead, Deallocated, NodeBefore
  <2> QED
    BY <1>1, <2>1, <2>3 DEF RemovedAt, DequeueHead, Deallocated, PassOn
<1> QED
  BY <1>5, <1>6

LEMMA DropHereRemoves ==
  ASSUME IInv, DropHere
  PROVE  node # pinned /\ \E m \in 1 .. Len(order) : RemovedAt(m, node)
<1>1. pc = "drop" /\ next[cur] = node /\ TypeOK /\ ~Apart /\ ~hasPrev
  BY DEF IInv, PlaceInv, DropHere, Apart
<1>2. /\ Linked = order /\ node \in Boxes
      /\ \E m \in 1 .. Len(order) - 1 :
           order[m] = cur /\ next[cur] = order[m + 1]
  BY <1>1, SeekFinds
<1>3. PICK j \in 1 .. Len(order) - 1 : order[j] = cur /\ next[cur] = order[j + 1]
  BY <1>2
<1>4. /\ j + 1 \in 1 .. Len(order) /\ j + 1 # 1 /\ (j + 1) - 1 = j /\ j \in 1 .. Len(order)
      /\ cur \in Boxes /\ order[j + 1] = node
  <2>1. j + 1 \in 1 .. Len(order) /\ j + 1 # 1 /\ (j + 1) - 1 = j /\ j \in 1 .. Len(order)
    BY <1>1, <1>3 DEF TypeOK
  <2> QED
    BY <1>1, <1>2, <1>3, <2>1, LinkProperties
<1>5. NodeBefore(j + 1) = cur /\ cur # node
  <2>1. IndexOf(order, cur) = j /\ IndexOf(order, node) = j + 1 /\ j # j + 1
    BY <1>2, <1>3, <1>4, LinkProperties
  <2> QED
    BY <1>3, <1>4, <2>1 DEF NodeBefore
<1>6. Unlinked(j + 1, node)
  BY <1>1, <1>2, <1>3, <1>4, <1>5 DEF Unlinked, DropHere, TypeOK
<1>7. node # pinned
  <2>1. head # Nil => head = order[1] /\ 1 \in 1 .. Len(order) /\ IndexOf(order, head) = 1
    BY <1>2, LinkProperties
  <2>2. IndexOf(order, node) = j + 1
    BY <1>2, <1>4, LinkProperties
  <2> QED
    BY <1>1, <1>2, <1>4, <2>1, <2>2, BoxAssumption DEF IInv, PinInv
<1>8. RemovedAt(j + 1, node)
  BY <1>6, <1>7 DEF RemovedAt, DropHere, Deallocated
<1> QED
  BY <1>4, <1>7, <1>8

LEMMA RemovedKeepsIInv ==
  ASSUME IInv, pc \in {"idle", "drop"}, NEW m \in 1 .. Len(order), NEW h,
         RemovedAt(m, h), pc = "drop" => h = node /\ h # pinned
  PROVE  IInv'
<1>1. /\ TypeOK /\ ~Apart /\ Injective(order) /\ Linked = order /\ Unlinked(m, h)
      /\ order \in Seq(Boxes) /\ Len(order) \in Nat
  BY LinkedProperties DEF IInv, LinksAreQueue, RemovedAt, Apart, TypeOK
<1>2. /\ order[m] = h /\ h \in Boxes /\ Queued(order, h) /\ IndexOf(order, h) = m
      /\ next[h] \in Boxes \union {Nil}
  BY <1>1, LinkProperties DEF Unlinked, TypeOK
<1>3. PICK r : r = RemoveAt(order, m)
  OBVIOUS
<1>4. order' = r
  BY <1>2, <1>3 DEF RemovedAt, Dequeue
<1>5. /\ r \in Seq(Boxes) /\ Injective(r)
      /\ \A b : Queued(r, b) <=> b # h /\ Queued(order, b)
      /\ Spells(r, head', next', Nil)
      /\ hasPrev => SpellsBack(r, prev', Nil)
      /\ head' \in Boxes \union {Nil}
      /\ \A b \in Boxes : prev'[b] # Nil => hasPrev /\ Queued(r, b)
  BY <1>1, <1>3, UnlinkedSpells
<1>6. TypeOK'
  BY <1>1, <1>2, <1>4, <1>5 DEF TypeOK, RemovedAt, Unlinked, Return, PCs
<1>7. \A b \in Boxes : data'[b] # NoData <=> Queued(order', b)
  BY <1>1, <1>4, <1>5 DEF IInv, LinksAreQueue, RemovedAt, TypeOK
<1>8. head = h <=> m = 1
  <2>1. head = order[1] /\ 1 \in 1 .. Len(order)
    BY <1>1, <1>2, LinkProperties DEF Queued
  <2> QED
    BY <1>1, <1>2, <2>1 DEF Injective
<1>9. pinned = IF use = "semaphore" THEN Nil ELSE head
  BY <1>1 DEF IInv, PinInv
<1>10. pinned' = IF use = "semaphore" THEN Nil ELSE head'
  BY <1>2, <1>8, <1>9, BoxAssumption DEF RemovedAt, Unlinked
<1>11. \A i \in 1 .. Len(order) : i # m => data'[order[i]] = data[order[i]]
  BY <1>1, <1>2, LinkProperties DEF RemovedAt, TypeOK
<1>12. CASE pc = "idle"
  <2>1. Descending(order, data, pinned)
    BY <1>1, <1>12, LinkedProperties DEF IInv, PlaceInv
  <2>2. order[m] # pinned => pinned' = pinned
    BY <1>2 DEF RemovedAt
  <2>3. order[m] = pinned /\ Len(order) > 1 => m = 1 /\ pinned' = order[2]
    BY <1>1, <1>2, <1>8, <1>9, LinkProperties, BoxAssumption DEF RemovedAt
  <2>4. order \in Seq(Boxes) /\ Injective(order) /\ m \in 1 .. Len(order)
    BY <1>1
  <2>5. Descending(RemoveAt(order, m), data', pinned')
    BY ONLY <1>11, <2>1, <2>2, <2>3, <2>4, DescendingWithout
  <2> QED
    BY <1>3, <1>4, <1>5, <1>6, <1>7, <1>10, <2>5, ReturnKeepsIInv DEF RemovedAt, Return
<1>13. CASE pc = "drop"
  <2>1. order' = Settled /\ pinned' = pinned /\ Descending(Settled, data, pinned)
    BY <1>2, <1>13 DEF RemovedAt, Settled, Besides, IInv
  <2>2. \A i \in 1 .. Len(Settled) : data'[Settled[i]] = data[Settled[i]]
    <3>1. \A i \in 1 .. Len(Settled) : Queued(Settled, Settled[i])
      BY DEF Queued
    <3>2. \A b : Queued(Settled, b) => b # h /\ b \in Boxes
      BY <1>1, <1>13, LinkedProperties
    <3> QED
      BY <1>1, <3>1, <3>2 DEF RemovedAt, TypeOK
  <2>3. Descending(order', data', pinned')
    BY <2>1, <2>2 DEF Descending
  <2> QED
    BY <1>4, <1>5, <1>6, <1>7, <1>10, <2>3, ReturnKeepsIInv DEF RemovedAt, Return
<1> QED
  BY <1>12, <1>13

-----------------------------------------------------------------------------
\* dequeue and update_node, for an entry that is not pinned.

\* What is left of the queue is in order, whatever becomes of the entry's data.
LEMMA AsideKeepsOrder ==
  ASSUME IInv, pc = "idle", NEW h \in Boxes, data[h] # NoData, h # pinned,
         \A b \in Boxes : b # h => data'[b] = data[b]
  PROVE  /\ Besides(order, h) = RemoveAt(order, IndexOf(order, h))
         /\ IndexOf(order, h) \in 1 .. Len(order) /\ order[IndexOf(order, h)] = h
         /\ Descending(Besides(order, h), data', pinned)
         /\ Descending(Besides(order, h), data, pinned)
<1>1. /\ order \in Seq(Boxes) /\ Injective(order) /\ Queued(order, h)
      /\ Descending(order, data, pinned) /\ Linked = order
  BY HeadIsBefore DEF IInv, TypeOK, LinksAreQueue
<1>2. PICK m : m = IndexOf(order, h)
  OBVIOUS
<1>3. /\ m \in 1 .. Len(order) /\ order[m] = h
      /\ Besides(order, h) = RemoveAt(order, m)
  BY <1>1, <1>2, BesidesProperties
<1>4. \A i \in 1 .. Len(order) : i # m => order[i] \in Boxes /\ order[i] # h
  BY <1>1, <1>3 DEF Injective
<1>5. \A i \in 1 .. Len(order) : i # m => data'[order[i]] = data[order[i]]
  BY <1>4
<1>6. order[m] # pinned
  BY <1>3
<1>7. Descending(RemoveAt(order, m), data', pinned)
  BY ONLY <1>1, <1>3, <1>5, <1>6, DescendingWithout
<1>8. Descending(RemoveAt(order, m), data, pinned)
  BY ONLY <1>1, <1>3, <1>6, DescendingWithout
<1> QED
  BY <1>2, <1>3, <1>7, <1>8

LEMMA StartDropKeepsIInv ==
  ASSUME IInv, NEW h \in Boxes, DequeueBox(h), StartDrop(h)
  PROVE  IInv'
<1>1. /\ pc = "idle" /\ pc' = "drop" /\ node' = h /\ cur' = head /\ data[h] # NoData
      /\ UNCHANGED <<hasPrev, use, head, next, prev, data, pinned, old, order>>
  BY DEF DequeueBox, StartDrop, links
<1>2. ~hasPrev /\ h # head /\ TypeOK /\ old = NoData
  BY <1>1 DEF DequeueBox, DequeueDual, DequeueHead, IInv, PlaceInv
<1>3. /\ Linked = order /\ head # Nil /\ Before(order, head, h)
  BY <1>1, <1>2, HeadIsBefore
<1>4. Settled' = Besides(order, h) /\ Linked' = order /\ ~Apart /\ ~Apart'
  BY <1>1 DEF Settled, Linked, Apart
<1>5. h # pinned
  BY <1>1, <1>2, <1>3, BoxAssumption DEF IInv, PinInv
<1>6. Descending(Settled', data', pinned')
  BY <1>1, <1>4, <1>5, AsideKeepsOrder
<1>7. TypeOK'
  BY <1>1, <1>2 DEF TypeOK, PCs
<1>8. LinksAreQueue' /\ FreshInv' /\ PinInv'
  BY <1>1, <1>3, <1>4 DEF IInv, LinksAreQueue, FreshInv, PinInv
<1>9. PlaceInv'
  BY <1>1, <1>2, <1>3, <1>4 DEF PlaceInv
<1> QED
  BY <1>6, <1>7, <1>8, <1>9 DEF IInv

\* The entry h at index m, whose data may have changed, stays where it is.
StaysAt(m, h) ==
  /\ m \in 1 .. Len(order) /\ order[m] = h
  /\ use = "semaphore" /\ ~Apart
  /\ Return
  /\ UNCHANGED <<links, pinned, order>>
  /\ Descending(RemoveAt(order, m), data, pinned)
  /\ data' \in [Boxes -> Priorities \union {NoData}]
  /\ \A b \in Boxes : b # h => data'[b] = data[b]
  /\ data'[h] \in Priorities
  /\ m > 1 => Compare(data'[h], data[order[m - 1]]) # "Greater"
  /\ m < Len(order) => Compare(data'[h], data[order[m + 1]]) # "Less"

LEMMA StaysInOrder ==
  ASSUME IInv, NEW m, NEW h, StaysAt(m, h), NEW r, r = RemoveAt(order, m)
  PROVE  /\ Descending(order, data', pinned) /\ r \in Seq(Boxes)
         /\ m \in 1 .. Len(r) + 1 /\ order = InsertAt(r, m, h)
         /\ \A j \in 1 .. m - 1 : r[j] = pinned \/ Compare(data'[h], data[r[j]]) # "Greater"
         /\ \A j \in m .. Len(r) : r[j] # pinned /\ Compare(data'[h], data[r[j]]) # "Less"
<1>1. /\ order \in Seq(Boxes) /\ Injective(order) /\ Len(order) \in Nat
      /\ m \in 1 .. Len(order) /\ order[m] = h /\ Linked = order
      /\ pinned = Nil
  BY LinkedProperties DEF IInv, TypeOK, LinksAreQueue, StaysAt, PinInv
<1>2. h \in Boxes /\ \A i \in 1 .. Len(order) : order[i] \in Boxes /\ order[i] # pinned
                                              /\ data[order[i]] \in Priorities
  BY <1>1, LinkProperties, BoxAssumption
<1>3. \A i \in 1 .. Len(order) : i # m => order[i] # h
  BY <1>1 DEF Injective
<1>4. PICK data2 : data2 = data'
  OBVIOUS
<1>5. /\ \A i \in 1 .. Len(order) : i # m => data2[order[i]] = data[order[i]]
      /\ data2[h] \in Priorities
  BY <1>2, <1>3, <1>4 DEF StaysAt
<1>6. \A i \in 1 .. Len(order) : data2[order[i]] \in Priorities
  BY <1>1, <1>2, <1>5
<1>7. order[m] # pinned
  BY <1>1, <1>2
<1>8. m > 1 => \/ order[m - 1] = pinned
               \/ Compare(data2[order[m]], data2[order[m - 1]]) # "Greater"
  <2>1. m > 1 => m - 1 \in 1 .. Len(order) /\ m - 1 # m
    BY <1>1
  <2> QED
    BY <1>1, <1>4, <1>5, <2>1 DEF StaysAt
<1>9. m < Len(order) => /\ order[m + 1] # pinned
                        /\ Compare(data2[order[m]], data2[order[m + 1]]) # "Less"
  <2>1. m < Len(order) => m + 1 \in 1 .. Len(order) /\ m + 1 # m
    BY <1>1
  <2> QED
    BY <1>1, <1>2, <1>4, <1>5, <2>1 DEF StaysAt
<1>10. r = RemoveAt(order, m) /\ Descending(r, data, pinned)
  BY DEF StaysAt
<1>11. PICK d : d = data2[order[m]]
  OBVIOUS
<1>12. InOrderAt(order, m, data, data2, pinned)
  BY <1>5, <1>6, <1>7, <1>8, <1>9 DEF InOrderAt
<1>13. /\ Descending(order, data2, pinned) /\ r \in Seq(Boxes) /\ m \in 1 .. Len(r) + 1
       /\ order = InsertAt(r, m, order[m])
       /\ \A j \in 1 .. m - 1 : r[j] = pinned \/ Compare(d, data[r[j]]) # "Greater"
       /\ \A j \in m .. Len(r) : r[j] # pinned /\ Compare(d, data[r[j]]) # "Less"
  BY ONLY <1>1, <1>10, <1>11, <1>12, DescendingAgain
<1> QED
  BY <1>1, <1>4, <1>11, <1>13

LEMMA StaysKeepsIInv ==
  ASSUME IInv, NEW m, NEW h, StaysAt(m, h)
  PROVE  IInv'
<1>1. Descending(order, data', pinned)
  BY StaysInOrder
<1>2. /\ TypeOK /\ order \in Seq(Boxes) /\ ~Apart /\ Linked = order /\ m \in 1 .. Len(order)
      /\ order[m] = h /\ h \in Boxes /\ Queued(order, h) /\ use = "semaphore"
  <2>1. TypeOK /\ Injective(order) /\ ~Apart /\ m \in 1 .. Len(order)
        /\ order[m] = h /\ use = "semaphore"
    BY DEF IInv, LinksAreQueue, StaysAt
  <2> QED
    BY <2>1, LinkedProperties DEF TypeOK, Queued
<1>3. /\ UNCHANGED <<hasPrev, use, head, next, prev, pinned, order>>
      /\ pc' = "idle" /\ node' = Nil /\ cur' = Nil /\ old' = NoData
  BY DEF StaysAt, links, Return
<1>4. TypeOK'
  BY <1>2, <1>3 DEF TypeOK, PCs, StaysAt
<1>5. \A b \in Boxes : data'[b] # NoData <=> Queued(order', b)
  BY <1>2, <1>3, BoxAssumption DEF IInv, LinksAreQueue, StaysAt
<1>6. /\ Injective(order') /\ Spells(order', head', next', Nil)
      /\ hasPrev => SpellsBack(order', prev', Nil)
  BY <1>2, <1>3 DEF IInv, LinksAreQueue
<1>7. /\ \A b \in Boxes : prev'[b] # Nil => hasPrev /\ Queued(order', b)
      /\ pinned' = IF use = "semaphore" THEN Nil ELSE head'
  BY <1>2, <1>3 DEF IInv, FreshInv, PinInv
<1> QED
  BY <1>1, <1>3, <1>4, <1>5, <1>6, <1>7, ReturnKeepsIInv

-----------------------------------------------------------------------------
\* update_node: the entry stays, is taken out, or is looked for.

\* The operations that leave the entry where it is.
LEMMA UpdateStays ==
  ASSUME IInv, NEW h \in Boxes, NEW d \in Priorities, Update(h, d) \/ Amend(h, d),
         pc' = "idle"
  PROVE  data'[h] = d /\ \E m \in 1 .. Len(order) : StaysAt(m, h)
<1>1. /\ pc = "idle" /\ data[h] # NoData /\ use = "semaphore" /\ TypeOK
      /\ data' = [data EXCEPT ![h] = d] /\ UNCHANGED <<hasPrev, use, pinned, order>>
  BY DEF Update, Amend, IInv, links
<1>2. UNCHANGED <<head, next, prev, pc, node, cur, old>>
  BY <1>1 DEF Update, Amend, TakeOut, links
<1>3. /\ Linked = order /\ Queued(order, h) /\ data[h] \in Priorities /\ head # Nil
      /\ h = head <=> IndexOf(order, h) = 1
      /\ Descending(order, data, pinned)
  BY <1>1, HeadIsBefore DEF IInv
<1>4. h # pinned
  BY <1>1, BoxAssumption DEF IInv, PinInv
<1>5. PICK m \in 1 .. Len(order) : order[m] = h /\ IndexOf(order, h) = m
  BY <1>3, LinkProperties
<1>6. Descending(RemoveAt(order, m), data, pinned)
  <2>1. \A b \in Boxes : b # h => data'[b] = data[b]
    BY <1>1 DEF TypeOK
  <2> QED
    BY <1>1, <1>4, <1>5, <2>1, AsideKeepsOrder
<1>7. /\ data' \in [Boxes -> Priorities \union {NoData}]
      /\ \A b \in Boxes : b # h => data'[b] = data[b]
      /\ data'[h] = d
  BY <1>1 DEF TypeOK
<1>8. Len(order) \in Nat /\ pinned = Nil
  BY <1>1 DEF TypeOK, IInv, PinInv
<1>9. /\ m > 1 => /\ m - 1 \in 1 .. Len(order) /\ order[m - 1] \in Boxes
                  /\ data[order[m - 1]] \in Priorities
                  /\ hasPrev => prev[h] = order[m - 1]
      /\ m < Len(order) => /\ m + 1 \in 1 .. Len(order) /\ order[m + 1] \in Boxes
                           /\ data[order[m + 1]] \in Priorities
                           /\ next[h] = order[m + 1]
  <2>1. /\ m > 1 => m - 1 \in 1 .. Len(order) /\ m # 1
        /\ m < Len(order) => m + 1 \in 1 .. Len(order) /\ m # Len(order)
    BY <1>8
  <2> QED
    BY <1>3, <1>5, <2>1, LinkProperties
<1>10. CASE Update(h, d)
  <2>1. \/ hasPrev /\ ~Misplaced(h, d, prev[h])
        \/ ~hasPrev /\ h = head /\ ~HeadMisplaced(h, d)
    BY <1>1, <1>2, <1>10 DEF Update, TakeOut
  <2>2. /\ m > 1 => Compare(d, data[order[m - 1]]) # "Greater"
        /\ m < Len(order) => Compare(d, data[order[m + 1]]) # "Less"
    <3>1. CASE hasPrev /\ ~Misplaced(h, d, prev[h])
      BY <1>9, <3>1, BoxAssumption DEF Misplaced
    <3>2. CASE ~hasPrev /\ h = head /\ ~HeadMisplaced(h, d)
      BY <1>3, <1>5, <1>9, <3>2, BoxAssumption DEF HeadMisplaced
    <3> QED
      BY <2>1, <3>1, <3>2
  <2> QED
    BY <1>1, <1>2, <1>5, <1>6, <1>7, <2>2
       DEF StaysAt, Return, links, Apart, IInv, PlaceInv
<1>11. CASE Amend(h, d)
  <2>1. Compare(d, data[h]) = "Equal"
    BY <1>11 DEF Amend
  <2>2. /\ m > 1 => Compare(data[h], data[order[m - 1]]) # "Greater"
        /\ m < Len(order) => Compare(data[order[m + 1]], data[h]) # "Greater"
    <3>1. \A i \in 1 .. Len(order) : order[i] # pinned
      BY <1>3, <1>8, LinkProperties, BoxAssumption
    <3> QED
      BY <1>3, <1>5, <1>8, <1>9, <3>1 DEF Descending
  <2>3. /\ m > 1 => Compare(d, data[order[m - 1]]) # "Greater"
        /\ m < Len(order) => Compare(d, data[order[m + 1]]) # "Less"
    BY <1>3, <1>9, <2>1, <2>2, CompareIsPreorder
  <2> QED
    BY <1>1, <1>2, <1>5, <1>6, <1>7, <2>3
       DEF StaysAt, Return, links, Apart, IInv, PlaceInv
<1> QED
  BY <1>10, <1>11

LEMMA StayHereStays ==
  ASSUME IInv, StayHere
  PROVE  data' = data /\ \E m \in 1 .. Len(order) : StaysAt(m, node)
<1>1. /\ pc = "find" /\ next[cur] = node /\ ~Misplaced(node, data[node], cur) /\ Return
      /\ UNCHANGED <<links, data, pinned, order>> /\ TypeOK /\ ~Apart /\ pinned = Nil
      /\ use = "semaphore" /\ node \in Boxes
  BY DEF StayHere, IInv, PlaceInv, PinInv, Apart
<1>2. /\ Linked = order /\ data[node] \in Priorities
      /\ \E m \in 1 .. Len(order) - 1 :
           /\ order[m] = cur /\ next[cur] = order[m + 1]
           /\ next[cur] = node => IndexOf(order, node) = m + 1
  BY <1>1, SeekFinds
<1>3. PICK j \in 1 .. Len(order) - 1 :
        order[j] = cur /\ next[cur] = order[j + 1] /\ IndexOf(order, node) = j + 1
  BY <1>1, <1>2
<1>4. PICK m \in 1 .. Len(order) : m = j + 1
  BY <1>1, <1>3 DEF TypeOK
<1>5. order[m] = node /\ m > 1 /\ order[m - 1] = cur /\ cur # Nil
  <2>1. j \in 1 .. Len(order) /\ m - 1 = j
    BY <1>1, <1>3, <1>4 DEF TypeOK
  <2> QED
    BY <1>1, <1>2, <1>3, <1>4, <2>1, LinkProperties, BoxAssumption
<1>6. m < Len(order) => next[node] = order[m + 1] /\ next[node] # Nil
  BY <1>2, <1>5, LinkProperties
<1>7. Descending(RemoveAt(order, m), data, pinned)
  <2>1. Queued(order, node) /\ Settled = Besides(order, node)
    BY <1>5 DEF Settled, Queued
  <2>2. Settled = RemoveAt(order, m)
    BY <1>3, <1>4, <2>1 DEF Besides, Dequeue
  <2> QED
    BY <2>2 DEF IInv
<1>8. /\ m > 1 => Compare(data[node], data[order[m - 1]]) # "Greater"
      /\ m < Len(order) => Compare(data[node], data[order[m + 1]]) # "Less"
  BY <1>1, <1>5, <1>6 DEF Misplaced
<1> QED
  BY <1>1, <1>2, <1>5, <1>7, <1>8 DEF StaysAt, TypeOK

\* The node h at index m is apart, to be inserted anew; the queue still has it.
TakenOut(m, h) ==
  /\ Unlinked(m, h)
  /\ use = "semaphore" /\ ~Apart
  /\ UNCHANGED <<hasPrev, use, pinned, order>>
  /\ pc' = "insert" /\ node' = h /\ cur' = Nil /\ old' \in Priorities
  /\ data' \in [Boxes -> Priorities \union {NoData}]
  /\ \A b \in Boxes : b # h => data'[b] = data[b]
  /\ data'[h] # NoData
  /\ Descending(RemoveAt(order, m), data', pinned)

LEMMA TakenOutKeepsIInv ==
  ASSUME IInv, NEW m, NEW h, TakenOut(m, h)
  PROVE  IInv'
<1>1. /\ TypeOK /\ Injective(order) /\ ~Apart /\ Unlinked(m, h)
      /\ m \in 1 .. Len(order) /\ order[m] = h
      /\ UNCHANGED <<hasPrev, use, pinned, order>>
      /\ pc' = "insert" /\ node' = h /\ cur' = Nil /\ old' \in Priorities
  BY DEF IInv, LinksAreQueue, TakenOut, Unlinked
<1>2. Linked = order /\ h \in Boxes /\ Queued(order, h)
  BY <1>1, LinkedProperties DEF TypeOK, Queued
<1>3. PICK r : r = RemoveAt(order, m)
  OBVIOUS
<1>4. /\ \A b : Queued(r, b) <=> b # h /\ Queued(order, b)
      /\ Spells(r, head', next', Nil)
      /\ hasPrev => SpellsBack(r, prev', Nil)
      /\ head' \in Boxes \union {Nil}
      /\ \A b \in Boxes : prev'[b] # Nil => hasPrev /\ Queued(r, b)
      /\ r = Besides(order, h)
  BY <1>1, <1>3, UnlinkedSpells
<1>5. Settled' = r /\ Linked' = r /\ Apart'
  BY <1>1, <1>4 DEF Settled, Linked, Apart
<1>6. TypeOK'
  BY <1>1, <1>2, <1>4 DEF TypeOK, TakenOut, Unlinked, PCs
<1>7. LinksAreQueue'
  <2>1. \A b \in Boxes : data[b] # NoData <=> Queued(order, b)
    BY <1>1, <1>2 DEF IInv, LinksAreQueue
  <2>2. \A b \in Boxes : data'[b] # NoData <=> Queued(r, b) \/ b = h
    BY <1>2, <1>4, <2>1 DEF TakenOut
  <2> QED
    BY <1>1, <1>4, <1>5, <2>2 DEF LinksAreQueue
<1>8. PlaceInv'
  BY <1>1, <1>2, BoxAssumption DEF PlaceInv, TakenOut, Apart
<1>9. FreshInv' /\ PinInv'
  BY <1>1, <1>4, <1>5 DEF FreshInv, IInv, PinInv, TakenOut
<1>10. Descending(Settled', data', pinned')
  BY <1>1, <1>3, <1>5 DEF TakenOut
<1> QED
  BY <1>6, <1>7, <1>8, <1>9, <1>10 DEF IInv

LEMMA UpdateTakesOut ==
  ASSUME IInv, NEW h \in Boxes, NEW d \in Priorities, Update(h, d), pc' = "insert"
  PROVE  \E m \in 1 .. Len(order) : TakenOut(m, h)
<1>1. /\ pc = "idle" /\ data[h] # NoData /\ use = "semaphore" /\ TypeOK /\ ~Apart
      /\ data' = [data EXCEPT ![h] = d] /\ UNCHANGED <<hasPrev, use, pinned, order>>
      /\ cur = Nil
  BY DEF Update, IInv, PlaceInv, Apart
<1>2. /\ TakeOut(h, IF hasPrev THEN prev[h] ELSE Nil)
      /\ node' = h /\ old' = data[h] /\ UNCHANGED cur
      /\ ~hasPrev => h = head
  BY <1>1 DEF Update
<1>3. /\ Linked = order /\ Queued(order, h) /\ data[h] \in Priorities
      /\ h = head <=> IndexOf(order, h) = 1
  BY <1>1, HeadIsBefore
<1>4. PICK m \in 1 .. Len(order) : order[m] = h /\ IndexOf(order, h) = m
  BY <1>3, LinkProperties
<1>5. h # pinned /\ Len(order) \in Nat
  BY <1>1, BoxAssumption DEF IInv, PinInv, TypeOK
<1>6. Descending(RemoveAt(order, m), data', pinned)
  <2>1. \A b \in Boxes : b # h => data'[b] = data[b]
    BY <1>1 DEF TypeOK
  <2>2. /\ Besides(order, h) = RemoveAt(order, IndexOf(order, h))
        /\ Descending(Besides(order, h), data', pinned)
    BY <1>1, <1>5, <2>1, AsideKeepsOrder
  <2>3. Besides(order, h) = RemoveAt(order, m)
    BY <1>4, <2>2
  <2> QED
    BY <2>2, <2>3
<1>7. PICK p \in Boxes \union {Nil} : p = IF hasPrev THEN prev[h] ELSE Nil
  BY <1>1 DEF TypeOK
<1>8. p = NodeBefore(m) /\ (p = Nil <=> m = 1) /\ p # h
  <2>1. CASE hasPrev
    <3>1. m # 1 => m - 1 \in 1 .. Len(order) /\ m - 1 # m
      BY <1>5
    <3> QED
      BY <1>3, <1>4, <1>7, <2>1, <3>1, LinkProperties, BoxAssumption DEF NodeBefore
  <2>2. CASE ~hasPrev
    BY <1>2, <1>3, <1>4, <1>7, <2>2, BoxAssumption DEF NodeBefore
  <2> QED
    BY <2>1, <2>2
<1>9. /\ head' = IF p = Nil THEN next[h] ELSE head
      /\ next' = [SetLink(next, p, next[h]) EXCEPT ![h] = Nil]
      /\ prev' = SetPrev(hasPrev, SetPrev(hasPrev, prev, next[h], p), h, Nil)
  BY <1>2, <1>7 DEF TakeOut
<1>10. Unlinked(m, h)
  BY <1>1, <1>4, <1>7, <1>8, <1>9 DEF Unlinked, SetLink, SetPrev, TypeOK
<1> QED
  BY <1>1, <1>2, <1>3, <1>6, <1>10, BoxAssumption DEF TakenOut, TakeOut, TypeOK

LEMMA MoveFromTakesOut ==
  ASSUME IInv, MoveFrom
  PROVE  old' = old /\ data' = data /\ \E m \in 1 .. Len(order) : TakenOut(m, node)
<1>1. /\ pc = "find" /\ next[cur] = node /\ TakeOut(node, cur) /\ cur' = Nil
      /\ UNCHANGED <<hasPrev, use, data, pinned, node, old, order>>
      /\ TypeOK /\ ~Apart /\ use = "semaphore" /\ old # NoData
  BY DEF MoveFrom, IInv, PlaceInv, Apart
<1>2. /\ Linked = order /\ ~hasPrev /\ node \in Boxes /\ data[node] \in Priorities
      /\ \E m \in 1 .. Len(order) - 1 :
           /\ order[m] = cur /\ next[cur] = order[m + 1]
           /\ next[cur] = node => IndexOf(order, node) = m + 1
  BY <1>1, SeekFinds
<1>3. PICK j \in 1 .. Len(order) - 1 :
        order[j] = cur /\ next[cur] = order[j + 1] /\ IndexOf(order, node) = j + 1
  BY <1>1, <1>2
<1>4. PICK m \in 1 .. Len(order) : m = j + 1
  BY <1>1, <1>3 DEF TypeOK
<1>5. /\ order[m] = node /\ m # 1 /\ NodeBefore(m) = cur /\ cur \in Boxes /\ cur # node
  <2>1. j \in 1 .. Len(order) /\ m - 1 = j /\ m # 1 /\ j # m
    BY <1>1, <1>3, <1>4 DEF TypeOK
  <2> QED
    BY <1>1, <1>2, <1>3, <1>4, <2>1, LinkProperties DEF NodeBefore
<1>6. Unlinked(m, node)
  BY <1>1, <1>2, <1>5, BoxAssumption DEF Unlinked, TakeOut, SetLink, SetPrev, TypeOK
<1>7. Descending(RemoveAt(order, m), data, pinned)
  <2>1. Queued(order, node) /\ Settled = Besides(order, node)
    BY <1>5 DEF Settled, Queued
  <2>2. Settled = RemoveAt(order, m)
    BY <1>3, <1>4, <2>1 DEF Besides, Dequeue
  <2> QED
    BY <2>2 DEF IInv
<1> QED
  BY <1>1, <1>2, <1>6, <1>7, BoxAssumption DEF TakenOut, TakeOut, TypeOK

LEMMA UpdateFindsKeepsIInv ==
  ASSUME IInv, NEW h \in Boxes, NEW d \in Priorities, Update(h, d), pc' = "find"
  PROVE  IInv'
<1>1. /\ pc = "idle" /\ data[h] # NoData /\ use = "semaphore" /\ TypeOK /\ ~Apart /\ ~Apart'
      /\ data' = [data EXCEPT ![h] = d] /\ UNCHANGED <<hasPrev, use, pinned, order>>
      /\ ~hasPrev /\ h # head /\ cur' = head /\ node' = h /\ old' = data[h]
      /\ UNCHANGED <<head, next, prev>>
  BY DEF Update, TakeOut, IInv, Apart
<1>2. /\ Linked = order /\ Before(order, head, h) /\ data[h] \in Priorities /\ Queued(order, h)
  BY <1>1, HeadIsBefore
<1>3. Settled' = Besides(order, h) /\ Linked' = order
  BY <1>1 DEF Settled, Linked
<1>4. \A b \in Boxes : b # h => data'[b] = data[b]
  BY <1>1 DEF TypeOK
<1>5. Descending(Settled', data', pinned')
  BY <1>1, <1>3, <1>4, AsideKeepsOrder, BoxAssumption DEF IInv, PinInv
<1>6. TypeOK'
  BY <1>1, <1>2 DEF TypeOK, PCs
<1>7. LinksAreQueue'
  BY <1>1, <1>2, <1>3, BoxAssumption DEF IInv, LinksAreQueue, TypeOK
<1>8. FreshInv' /\ PinInv'
  BY <1>1, <1>2, <1>3 DEF IInv, FreshInv, PinInv
<1>9. PlaceInv'
  BY <1>1, <1>2, BoxAssumption DEF PlaceInv, TypeOK
<1> QED
  BY <1>5, <1>6, <1>7, <1>8, <1>9 DEF IInv

-----------------------------------------------------------------------------

LEMMA InitIInv == Init => IInv
<1> SUFFICES ASSUME Init PROVE IInv
  OBVIOUS
<1>1. TypeOK
  BY DEF Init, TypeOK, PCs
<1>2. order = << >> /\ Settled = << >> /\ Linked = << >> /\ Len(order) = 0
  BY DEF Init, Settled, Linked, Apart, Besides, Queued
<1>3. LinksAreQueue
  BY <1>2 DEF Init, LinksAreQueue, Spells, SpellsBack, Queued, Injective, Apart
<1>4. PlaceInv /\ FreshInv /\ PinInv
  BY DEF Init, PlaceInv, FreshInv, PinInv, Apart
<1>5. Descending(Settled, data, pinned)
  BY <1>2 DEF Descending
<1> QED
  BY <1>1, <1>3, <1>4, <1>5 DEF IInv

LEMMA UpdateKeepsIInv ==
  ASSUME IInv, NEW h \in Boxes, NEW d \in Priorities, Update(h, d) \/ Amend(h, d)
  PROVE  IInv'
<1>1. \/ pc' = "idle"
      \/ Update(h, d) /\ pc' \in {"insert", "find"}
  BY DEF Update, Amend, TakeOut
<1>2. CASE pc' = "idle"
  BY <1>2, UpdateStays, StaysKeepsIInv
<1>3. CASE Update(h, d) /\ pc' = "insert"
  BY <1>3, UpdateTakesOut, TakenOutKeepsIInv
<1>4. CASE Update(h, d) /\ pc' = "find"
  BY <1>4, UpdateFindsKeepsIInv
<1> QED
  BY <1>1, <1>2, <1>3, <1>4

LEMMA StutterKeepsIInv ==
  ASSUME IInv, UNCHANGED vars
  PROVE  IInv'
<1>1. TypeOK' /\ PlaceInv'
  BY DEF IInv, TypeOK, PlaceInv, Settled, Verdict, Apart, vars, links
<1>2. LinksAreQueue' /\ FreshInv'
  BY DEF IInv, LinksAreQueue, FreshInv, Linked, Apart, vars, links
<1>3. PinInv' /\ Descending(Settled', data', pinned')
  BY DEF IInv, PinInv, Settled, Apart, vars, links
<1> QED
  BY <1>1, <1>2, <1>3 DEF IInv

LEMMA NextKeepsIInv == IInv /\ [Next]_vars => IInv'
<1> SUFFICES ASSUME IInv, [Next]_vars PROVE IInv'
  OBVIOUS
<1>1. ASSUME NEW d \in Priorities, Enqueue(d) PROVE IInv'
  BY <1>1, EnqueueKeepsIInv
<1>2. ASSUME NEW h \in Boxes, DequeueBox(h) PROVE IInv'
  <2>1. CASE StartDrop(h)
    BY <1>2, <2>1, StartDropKeepsIInv
  <2>2. CASE ~StartDrop(h)
    <3>1. PICK m \in 1 .. Len(order) : RemovedAt(m, h)
      BY <1>2, <2>2, DequeueBoxRemoves
    <3> QED
      BY <1>2, <3>1, RemovedKeepsIInv DEF DequeueBox
  <2> QED
    BY <2>1, <2>2
<1>3. ASSUME NEW h \in Boxes, NEW d \in Priorities, Update(h, d) \/ Amend(h, d)
      PROVE  IInv'
  BY <1>3, UpdateKeepsIInv
<1>4. CASE Step
  <2>1. CASE PlaceFirst
    BY <2>1, PlaceFirstKeepsIInv
  <2>2. CASE StartAtHead
    BY <2>2, StartAtHeadKeepsIInv
  <2>3. CASE Walk
    BY <2>3, WalkKeepsIInv
  <2>4. CASE PlaceHere
    BY <2>4, PlaceHereKeepsIInv
  <2>5. CASE DropHere
    <3>1. PICK m \in 1 .. Len(order) : RemovedAt(m, node)
      BY <2>5, DropHereRemoves
    <3> QED
      BY <2>5, <3>1, DropHereRemoves, RemovedKeepsIInv DEF DropHere
  <2>6. CASE Seek
    BY <2>6, SeekKeepsIInv
  <2>7. CASE StayHere
    BY <2>7, StayHereStays, StaysKeepsIInv
  <2>8. CASE MoveFrom
    BY <2>8, MoveFromTakesOut, TakenOutKeepsIInv
  <2> QED
    BY <1>4, <2>1, <2>2, <2>3, <2>4, <2>5, <2>6, <2>7, <2>8 DEF Step
<1>5. CASE UNCHANGED vars
  BY <1>5, StutterKeepsIInv
<1> QED
  BY <1>1, <1>2, <1>3, <1>4, <1>5 DEF Next

\* The inductive invariant: the links are the queue and the queue is in priority
\* order, wherever the operation under way is.
THEOREM Invariant == Spec => []IInv
<1> QED
  BY InitIInv, NextKeepsIInv, PTL DEF Spec

\* In every state the links spell the queue, forwards and backwards, and the
\* boxes allocated are its entries: no box is leaked, dropped twice or reached
\* after it was dropped.
THEOREM LinksAreAlwaysQueue == Spec => []LinksAreQueue
<1>1. IInv => LinksAreQueue
  BY DEF IInv
<1> QED
  BY <1>1, Invariant, PTL

-----------------------------------------------------------------------------
\* The refinement: the entry of AbstractQueue that a box is.

Recs == [handle : Boxes, data : Priorities \union {NoData}, pinned : BOOLEAN]

Rec ==
  [b \in Boxes |-> [handle |-> b,
                    data   |-> IF b = node /\ old # NoData THEN old ELSE data[b],
                    pinned |-> b = pinned]]

\* The operators of PriorityQueue are those AbstractQueue has.
LEMMA AbstractOperators ==
  /\ \A q, i, e : Abstract!InsertAt(q, i, e) = InsertAt(q, i, e)
  /\ \A q, i : Abstract!RemoveAt(q, i) = RemoveAt(q, i)
  /\ \A q, v : Abstract!EnqueuePositions(q, v) = EnqueuePositions(q, v)
  /\ \A q, v : Abstract!InAgreement(q, v) <=> InAgreement(q, v)
<1>1. \A q, i, e : Abstract!InsertAt(q, i, e) = InsertAt(q, i, e)
  BY DEF Abstract!InsertAt, InsertAt
<1>2. \A q, i : Abstract!RemoveAt(q, i) = RemoveAt(q, i)
  BY DEF Abstract!RemoveAt, RemoveAt
<1>3. \A q, v : Abstract!EnqueuePositions(q, v) = EnqueuePositions(q, v)
  BY DEF Abstract!EnqueuePositions, EnqueuePositions
<1>4. \A q, v : Abstract!InAgreement(q, v) <=> InAgreement(q, v)
  BY DEF Abstract!InAgreement, InAgreement
<1> QED
  BY <1>1, <1>2, <1>3, <1>4

\* What the entries are, and that the entries of the queue are those of its boxes.
RecFacts ==
  /\ Rec \in [Boxes -> Recs]
  /\ \A b \in Boxes :
       /\ Rec[b].handle = b
       /\ Rec[b].data = IF b = node /\ old # NoData THEN old ELSE data[b]
       /\ Rec[b].pinned <=> b = pinned
  /\ Entries = Along(order, Rec)

LEMMA RecProperties == TypeOK => RecFacts
<1> SUFFICES ASSUME TypeOK PROVE RecFacts
  OBVIOUS
<1>1. ASSUME NEW b \in Boxes
      PROVE  /\ Rec[b] \in Recs
             /\ Rec[b].handle = b
             /\ Rec[b].data = IF b = node /\ old # NoData THEN old ELSE data[b]
             /\ Rec[b].pinned <=> b = pinned
  <2>1. PICK x \in Priorities \union {NoData} :
          x = IF b = node /\ old # NoData THEN old ELSE data[b]
    BY DEF TypeOK
  <2>2. PICK y \in BOOLEAN : y = (b = pinned)
    OBVIOUS
  <2>3. Rec[b] = [handle |-> b, data |-> x, pinned |-> y]
    BY <2>1, <2>2 DEF Rec
  <2>4. Rec[b] \in Recs /\ Rec[b].handle = b /\ Rec[b].data = x /\ Rec[b].pinned = y
    BY ONLY <2>1, <2>2, <2>3, b \in Boxes DEF Recs
  <2>5. Rec[b].pinned <=> b = pinned
    BY ONLY <2>2, <2>4, Zenon
  <2> QED
    BY <2>1, <2>4, <2>5
<1>2. Rec \in [Boxes -> Recs]
  BY <1>1 DEF Rec
<1>3. Entries = Along(order, Rec)
  BY DEF Entries, Along, Rec, TypeOK
<1> QED
  BY <1>1, <1>2, <1>3 DEF RecFacts

LEMMA RecPrimed == TypeOK' => RecFacts'
BY RecProperties, PTL

\* The entries of a queue, and of one with the same boxes' entries.
LEMMA AlongSame ==
  ASSUME NEW q, NEW f, NEW g, \A i \in 1 .. Len(q) : f[q[i]] = g[q[i]]
  PROVE  Along(q, f) = Along(q, g)
BY DEF Along

\* Two records are the same if their fields are.
LEMMA RecsEqual ==
  ASSUME NEW x \in Recs, NEW y \in Recs, x.handle = y.handle, x.data = y.data,
         x.pinned <=> y.pinned
  PROVE  x = y
BY DEF Recs

-----------------------------------------------------------------------------
\* An operation that puts a node in is an Enqueue or an Update.

LEMMA PlaceIsPlaces ==
  ASSUME IInv, Apart, NEW k, PlacedAt(k), NEW es, es = Along(Settled, Rec)
  PROVE  k \in Abstract!Places(es, data[node])
<1>1. /\ TypeOK /\ node \in Boxes /\ data[node] \in Priorities /\ Descending(Settled, data, pinned)
      /\ Injective(order)
  BY DEF IInv, PlaceInv, Apart, TypeOK, LinksAreQueue
<1>2. /\ Settled \in Seq(Boxes) /\ Linked = Settled /\ ~Queued(Settled, node)
  BY <1>1, LinkedProperties
<1>3. \A j \in 1 .. Len(Settled) :
        Settled[j] \in Boxes /\ data[Settled[j]] \in Priorities /\ Settled[j] # node
  BY <1>2, LinkProperties DEF Queued
<1>4. RecFacts
  BY <1>1, RecProperties
<1>5. /\ es \in Seq(Recs) /\ Len(es) = Len(Settled)
      /\ \A j \in 1 .. Len(Settled) : es[j] = Rec[Settled[j]]
  <2>1. Maps(Rec, Boxes, Recs)
    BY <1>4 DEF RecFacts, Maps
  <2> QED
    BY ONLY <1>2, <2>1, es = Along(Settled, Rec), AlongProperties
<1>6. \A j \in 1 .. Len(Settled) :
        /\ es[j] \in Recs
        /\ es[j].data = data[Settled[j]]
        /\ es[j].pinned <=> Settled[j] = pinned
  BY <1>3, <1>4, <1>5 DEF RecFacts
<1>7. \A j \in 1 .. Len(Settled) : es[j] \in Abstract!Entry
  BY <1>3, <1>6 DEF Recs, Abstract!Entry
<1>8. PICK d \in Priorities : d = data[node]
  BY <1>1
<1>9. PICK v : v = [e \in Abstract!Entry |-> IF e.pinned THEN "Less" ELSE CompareNew(d, e.data)]
  OBVIOUS
<1>10. \A j \in 1 .. Len(Settled) :
         v[es[j]] = VerdictOn(d, Settled[j] = pinned, data[Settled[j]])
  <2> SUFFICES ASSUME NEW j \in 1 .. Len(Settled)
               PROVE  v[es[j]] = VerdictOn(d, Settled[j] = pinned, data[Settled[j]])
    OBVIOUS
  <2>1. v[es[j]] = IF es[j].pinned THEN "Less" ELSE CompareNew(d, es[j].data)
    BY <1>7, <1>9
  <2> QED
    BY <1>6, <2>1 DEF VerdictOn
<1>11. /\ k \in 1 .. Len(Settled) + 1
       /\ k > 1 => VerdictOn(d, Settled[k - 1] = pinned, data[Settled[k - 1]]) # "Greater"
       /\ k <= Len(Settled) => VerdictOn(d, Settled[k] = pinned, data[Settled[k]]) # "Less"
  BY <1>8 DEF PlacedAt, Verdict
<1>12. NeighboursAllow(Settled, k, d, data, pinned) /\ EntriesOf(es, Settled, d, data, pinned, v)
  BY <1>3, <1>5, <1>6, <1>10, <1>11 DEF NeighboursAllow, EntriesOf
<1>13. /\ k \in 1 .. Len(es) + 1
       /\ \A j \in 1 .. k - 1 : es[j].pinned \/ Compare(d, es[j].data) # "Greater"
       /\ \A j \in k .. Len(es) : ~es[j].pinned /\ Compare(d, es[j].data) # "Less"
       /\ InAgreement(es, v) => k \in EnqueuePositions(es, v)
  BY ONLY <1>1, <1>2, <1>5, <1>8, <1>11, <1>12, PlaceOfEntry
<1>14. k \in Abstract!InPlace(es, d)
  BY <1>13 DEF Abstract!InPlace
<1> QED
  BY <1>8, <1>9, <1>13, <1>14, AbstractOperators DEF Abstract!Places

LEMMA PlacedRefines ==
  ASSUME IInv, TypeOK', Apart, Return, UNCHANGED <<data, pinned>>, NEW k, PlacedAt(k)
  PROVE  Abstract!Next
<1>1. /\ TypeOK /\ node \in Boxes /\ data[node] \in Priorities /\ Injective(order)
      /\ order' = InsertAt(Settled, k, node) /\ k \in 1 .. Len(Settled) + 1
      /\ node' = Nil /\ old' = NoData
  BY DEF IInv, PlaceInv, Apart, TypeOK, LinksAreQueue, PlacedAt, Return
<1>2. /\ Settled \in Seq(Boxes) /\ Linked = Settled /\ ~Queued(Settled, node)
      /\ \A j \in 1 .. Len(Settled) : Settled[j] \in Boxes /\ Settled[j] # node
  <2>1. /\ Settled \in Seq(Boxes) /\ Linked = Settled /\ ~Queued(Settled, node)
    BY <1>1, LinkedProperties
  <2> QED
    BY <2>1 DEF Queued
<1>3. RecFacts /\ RecFacts'
  BY <1>1, RecProperties, RecPrimed
<1>4. PICK f \in [Boxes -> Recs] : f = Rec
  BY <1>3 DEF RecFacts
<1>5. PICK g \in [Boxes -> Recs] : g = Rec'
  BY <1>3 DEF RecFacts
<1>6. PICK es : es = Along(Settled, f)
  OBVIOUS
<1>7. \A b \in Boxes : b # node => g[b] = f[b]
  <2> SUFFICES ASSUME NEW b \in Boxes, b # node PROVE g[b] = f[b]
    OBVIOUS
  <2>1. /\ f[b].handle = b /\ f[b].data = data[b] /\ (f[b].pinned <=> b = pinned)
        /\ g[b].handle = b /\ g[b].data = data[b] /\ (g[b].pinned <=> b = pinned)
    BY <1>1, <1>3, <1>4, <1>5 DEF RecFacts
  <2> QED
    BY <2>1, RecsEqual
<1>8. Entries' = InsertAt(es, k, g[node])
  <2>1. Entries' = Along(InsertAt(Settled, k, node), g)
    BY <1>1, <1>3, <1>5 DEF RecFacts
  <2>2. Along(InsertAt(Settled, k, node), g) = InsertAt(Along(Settled, g), k, g[node])
    <3>1. Settled \in Seq(Boxes)
      BY <1>2
    <3>2. k \in 1 .. Len(Settled) + 1
      BY <1>1
    <3>3. node \in Boxes
      BY <1>1
    <3>4. Maps(g, Boxes, Recs)
      BY DEF Maps
    <3> QED
      BY ONLY <3>1, <3>2, <3>3, <3>4, AlongWith
  <2>3. Along(Settled, g) = es
    BY <1>2, <1>6, <1>7, AlongSame
  <2> QED
    BY <2>1, <2>2, <2>3
<1>9. k \in Abstract!Places(es, data[node])
  BY <1>4, <1>6, PlaceIsPlaces
<1>10. /\ g[node].handle = node /\ g[node].data = data[node]
       /\ g[node].pinned <=> node = pinned
  BY <1>1, <1>3, <1>5 DEF RecFacts
<1>11. PICK p \in BOOLEAN : p <=> node = pinned
  OBVIOUS
<1>12. g[node] = [handle |-> node, data |-> data[node], pinned |-> p]
  <2>1. [handle |-> node, data |-> data[node], pinned |-> p] \in Recs
    BY <1>1 DEF Recs
  <2> QED
    BY <1>1, <1>10, <1>11, <2>1, RecsEqual
<1>13. CASE old = NoData
  <2>1. ~Queued(order, node) /\ Settled = order
    BY <1>13 DEF IInv, PlaceInv, Settled, Besides
  <2>2. es = Entries
    BY <1>3, <1>4, <1>6, <2>1 DEF RecFacts
  <2>3. ~Abstract!Has(node)
    <3>1. \A i \in 1 .. Len(Entries) :
            i \in 1 .. Len(Settled) /\ Entries[i].handle = Settled[i]
      BY <2>1 DEF Entries
    <3> QED
      BY <1>2, <3>1 DEF Abstract!Has
  <2>4. p => Entries = << >>
    <3>1. node = pinned => head = Nil
      <4>1. head # Nil => Queued(Linked, head)
        BY LinkProperties DEF Queued
      <4> QED
        BY <1>1, <1>2, <4>1, BoxAssumption DEF IInv, PinInv
    <3>2. head = Nil => order = << >>
      BY <1>2, <2>1, LinkProperties
    <3>3. order = << >> => Entries = << >>
      BY DEF Entries
    <3> QED
      BY <1>11, <3>1, <3>2, <3>3
  <2>5. Entries' = Abstract!InsertAt(Entries, k, [handle |-> node, data |-> data[node], pinned |-> p])
    BY <1>8, <1>12, <2>2, AbstractOperators
  <2>6. Abstract!Enqueue(node, data[node])
    BY <1>9, <2>2, <2>3, <2>4, <2>5 DEF Abstract!Enqueue
  <2> QED
    BY <1>1, <2>6 DEF Abstract!Next
<1>14. CASE old # NoData
  <2>1. Queued(order, node) /\ use = "semaphore"
    BY <1>14 DEF IInv, PlaceInv
  <2>2. PICK m \in 1 .. Len(order) : order[m] = node /\ Settled = RemoveAt(order, m)
    BY <1>1, <2>1, BesidesProperties DEF Settled, TypeOK
  <2>3. es = RemoveAt(Entries, m)
    <3>1. Entries = Along(order, f)
      BY <1>3, <1>4 DEF RecFacts
    <3>2. order \in Seq(Boxes)
      BY <1>1 DEF TypeOK
    <3>3. Maps(f, Boxes, Recs) /\ m \in 1 .. Len(order)
      BY DEF Maps
    <3>4. Along(RemoveAt(order, m), f) = RemoveAt(Along(order, f), m)
      BY ONLY <3>2, <3>3, AlongWithout
    <3> QED
      BY <1>6, <2>2, <3>1, <3>4
  <2>4. m \in 1 .. Len(Entries) /\ Entries[m] = f[node] /\ f[node].handle = node
    BY <1>1, <1>3, <1>4, <2>2 DEF Entries, Rec, RecFacts
  <2>5. g[node] = [Entries[m] EXCEPT !.data = data[node]]
    <3>1. f[node] \in Recs /\ f[node].handle = node /\ (f[node].pinned <=> node = pinned)
      BY <1>1, <1>3, <1>4 DEF RecFacts
    <3>2. PICK x : x = [f[node] EXCEPT !.data = data[node]]
      OBVIOUS
    <3>3. x \in Recs /\ x.handle = f[node].handle /\ x.data = data[node]
          /\ x.pinned = f[node].pinned
      BY <1>1, <3>1, <3>2 DEF Recs
    <3>4. g[node] \in Recs
      BY <1>1
    <3>5. x.pinned <=> g[node].pinned
      BY <1>10, <3>1, <3>3
    <3>6. x = g[node]
      BY <1>10, <3>1, <3>3, <3>4, <3>5, RecsEqual
    <3> QED
      BY <2>4, <3>2, <3>6
  <2>6. /\ k \in Abstract!Places(Abstract!RemoveAt(Entries, m), data[node])
        /\ Entries' = Abstract!InsertAt(Abstract!RemoveAt(Entries, m), k,
                                        [Entries[m] EXCEPT !.data = data[node]])
    BY <1>8, <1>9, <2>3, <2>5, AbstractOperators
  <2>7. Abstract!Update(node, data[node])
    BY <2>4, <2>6 DEF Abstract!Update
  <2> QED
    BY <1>1, <2>7 DEF Abstract!Next
<1> QED
  BY <1>13, <1>14

-----------------------------------------------------------------------------
\* One that takes a node out is a DequeueHandle, one that leaves it an Update.

LEMMA RemovedRefines ==
  ASSUME IInv, IInv', pc \in {"idle", "drop"}, NEW m \in 1 .. Len(order), NEW h,
         RemovedAt(m, h)
  PROVE  Abstract!Next
<1>1. /\ TypeOK /\ ~Apart /\ Injective(order) /\ Linked = order /\ Unlinked(m, h)
      /\ order \in Seq(Boxes) /\ Len(order) \in Nat /\ old = NoData
  BY LinkedProperties DEF IInv, LinksAreQueue, RemovedAt, Apart, TypeOK, PlaceInv
<1>2. /\ order[m] = h /\ h \in Boxes /\ Queued(order, h) /\ IndexOf(order, h) = m
  BY <1>1, LinkProperties DEF Unlinked
<1>3. PICK r : r = RemoveAt(order, m)
  OBVIOUS
<1>4. /\ order' = r /\ old' = NoData
      /\ data' = [data EXCEPT ![h] = NoData]
      /\ pinned' = IF h = pinned THEN next[h] ELSE pinned
  BY <1>2, <1>3 DEF RemovedAt, Dequeue, Return
<1>5. /\ r \in Seq(Boxes) /\ Injective(r) /\ Len(r) \in Nat
      /\ \A j \in 1 .. Len(r) : r[j] \in Boxes /\ r[j] # h
  <2>1. r = Dequeue(order, h)
    BY <1>2, <1>3 DEF Dequeue
  <2>2. /\ r \in Seq(Boxes) /\ Injective(r)
        /\ \A b : Queued(r, b) <=> b # h /\ Queued(order, b)
    BY <1>1, <1>2, <2>1, DequeueKeepsDistinct
  <2>3. \A j \in 1 .. Len(r) : Queued(r, r[j])
    BY DEF Queued
  <2> QED
    BY <2>2, <2>3
<1>6. RecFacts /\ RecFacts'
  BY <1>1, RecProperties, RecPrimed DEF IInv
<1>7. PICK f \in [Boxes -> Recs] : f = Rec
  BY <1>6 DEF RecFacts
<1>8. PICK g \in [Boxes -> Recs] : g = Rec'
  BY <1>6 DEF RecFacts
<1>9. PICK es : es = Along(r, f)
  OBVIOUS
<1>10. /\ es \in Seq(Recs) /\ Len(es) = Len(r)
       /\ \A j \in 1 .. Len(r) : es[j] = f[r[j]]
  <2>1. Maps(f, Boxes, Recs)
    BY DEF Maps
  <2> QED
    BY ONLY <1>5, <1>9, <2>1, AlongProperties
<1>11. Abstract!RemoveAt(Entries, m) = es
  <2>1. Entries = Along(order, f)
    BY <1>6, <1>7 DEF RecFacts
  <2>2. Maps(f, Boxes, Recs) /\ m \in 1 .. Len(order)
    BY DEF Maps
  <2>3. Along(RemoveAt(order, m), f) = RemoveAt(Along(order, f), m)
    BY ONLY <1>1, <2>2, AlongWithout
  <2> QED
    BY <1>3, <1>9, <2>1, <2>3, AbstractOperators
<1>12. /\ m \in 1 .. Len(Entries) /\ Entries[m].handle = h
       /\ Entries[m].pinned <=> h = pinned
  <2>1. Len(Entries) = Len(order) /\ Entries[m] = f[h]
    BY <1>1, <1>2, <1>7 DEF Entries, Rec
  <2> QED
    BY <1>2, <1>6, <1>7, <2>1 DEF RecFacts
<1>13. /\ \A b \in Boxes : b # h => f[b].handle = b /\ f[b].data = data[b]
                                   /\ (f[b].pinned <=> b = pinned)
       /\ \A b \in Boxes : b # h => g[b].handle = b /\ g[b].data = data[b]
                                   /\ (g[b].pinned <=> b = pinned')
  BY <1>1, <1>4, <1>6, <1>7, <1>8 DEF RecFacts, TypeOK
<1>14. Entries' = Along(r, g)
  BY <1>4, <1>6, <1>8 DEF RecFacts
<1>15. CASE h # pinned
  <2>1. \A b \in Boxes : b # h => g[b] = f[b]
    BY <1>4, <1>13, <1>15, RecsEqual
  <2>2. Entries' = es
    BY <1>5, <1>9, <1>14, <2>1, AlongSame
  <2>3. Abstract!DequeueHandle(h)
    BY <1>11, <1>12, <1>15, <2>2 DEF Abstract!DequeueHandle
  <2> QED
    BY <1>2, <2>3 DEF Abstract!Next
<1>16. CASE h = pinned
  <2>1. m = 1
    <3>1. head = order[1] /\ 1 \in 1 .. Len(order) /\ pinned = head
      BY <1>1, <1>2, <1>16, LinkProperties, BoxAssumption DEF IInv, PinInv, Queued
    <3> QED
      BY <1>1, <1>2, <1>16, <3>1 DEF Injective
  <2>2. CASE Len(r) = 0
    <3>1. es = << >> /\ Along(r, g) = << >>
      <4>1. es \in Seq(Recs) /\ Len(es) = 0
        BY <1>10, <2>2
      <4>2. Along(r, g) \in Seq(Recs) /\ Len(Along(r, g)) = 0
        <5>1. Maps(g, Boxes, Recs)
          BY DEF Maps
        <5>2. Along(r, g) \in Seq(Recs) /\ Len(Along(r, g)) = Len(r)
          BY ONLY <1>5, <5>1, AlongProperties
        <5> QED
          BY <2>2, <5>2
      <4> QED
        BY <4>1, <4>2
    <3>2. Abstract!DequeueHandle(h)
      <4>1. Entries' = Abstract!RemoveAt(Entries, m) /\ Abstract!RemoveAt(Entries, m) = << >>
        BY <1>11, <1>14, <3>1
      <4> QED
        BY <1>12, <4>1 DEF Abstract!DequeueHandle
    <3> QED
      BY <1>2, <3>2 DEF Abstract!Next
  <2>3. CASE Len(r) # 0
    <3>1. 1 \in 1 .. Len(r) /\ pinned' = r[1] /\ es # << >>
      <4>1. Len(r) = Len(order) - 1 /\ \A j \in 1 .. Len(order) - 1 : r[j] = IF j < m THEN order[j] ELSE order[j + 1]
        BY <1>1, <1>3, RemoveAtProperties
      <4>2. m # Len(order) /\ r[1] = order[2]
        BY <1>1, <2>1, <2>3, <4>1
      <4>3. next[h] = order[m + 1]
        BY <1>1, <1>2, <4>2, LinkProperties
      <4> QED
        BY <1>4, <1>5, <1>10, <1>16, <2>1, <2>3, <4>2, <4>3
    <3>2. PICK e : e = [es[1] EXCEPT !.pinned = TRUE]
      OBVIOUS
    <3>3. /\ e \in Recs /\ e.handle = es[1].handle /\ e.data = es[1].data
          /\ e.pinned
      <4>1. es[1] \in Recs
        BY <1>10, <3>1
      <4> QED
        BY ONLY <3>2, <4>1 DEF Recs
    <3>4. PICK x : x = [es EXCEPT ![1] = e]
      OBVIOUS
    <3>5. /\ x \in Seq(Recs) /\ Len(x) = Len(r) /\ x[1] = e
          /\ \A j \in 1 .. Len(r) : j # 1 => x[j] = es[j]
      BY ONLY <1>5, <1>10, <3>1, <3>3, <3>4
    <3>6. ASSUME NEW j \in 1 .. Len(r) PROVE x[j] = g[r[j]]
      <4>1. /\ f[r[j]].handle = r[j] /\ f[r[j]].data = data[r[j]]
            /\ (f[r[j]].pinned <=> r[j] = pinned)
            /\ g[r[j]].handle = r[j] /\ g[r[j]].data = data[r[j]]
            /\ (g[r[j]].pinned <=> r[j] = pinned')
            /\ f[r[j]] \in Recs /\ g[r[j]] \in Recs /\ es[j] = f[r[j]]
        BY <1>5, <1>10, <1>13
      <4>2. CASE j = 1
        <5>1. x[j].handle = r[j] /\ x[j].data = data[r[j]] /\ x[j].pinned /\ x[j] \in Recs
          BY <3>3, <3>5, <4>1, <4>2
        <5>2. g[r[j]].pinned
          BY <3>1, <4>1, <4>2
        <5> QED
          BY <4>1, <5>1, <5>2, RecsEqual
      <4>3. CASE j # 1
        <5>1. r[j] # pinned /\ r[j] # pinned'
          BY <1>5, <1>16, <3>1, <4>3 DEF Injective
        <5>2. g[r[j]] = f[r[j]]
          BY <4>1, <5>1, RecsEqual
        <5> QED
          BY <3>5, <4>1, <4>3, <5>2
      <4> QED
        BY <4>2, <4>3
    <3>7. Along(r, g) = x
      <4>1. Maps(g, Boxes, Recs)
        BY DEF Maps
      <4>2. /\ Along(r, g) \in Seq(Recs) /\ Len(Along(r, g)) = Len(r)
            /\ \A j \in 1 .. Len(r) : Along(r, g)[j] = g[r[j]]
        BY ONLY <1>5, <4>1, AlongProperties
      <4> QED
        BY <3>5, <3>6, <4>2, SeqEqual
    <3>8. Abstract!DequeueHandle(h)
      <4>1. x = [es EXCEPT ![1].pinned = TRUE]
        BY ONLY <3>2, <3>4
      <4> QED
        BY <1>11, <1>12, <1>14, <1>16, <3>1, <3>7, <4>1 DEF Abstract!DequeueHandle
    <3> QED
      BY <1>2, <3>8 DEF Abstract!Next
  <2> QED
    BY <2>2, <2>3
<1> QED
  BY <1>15, <1>16

LEMMA StaysRefines ==
  ASSUME IInv, IInv', NEW m, NEW h, StaysAt(m, h), node \in {Nil, h}
  PROVE  Abstract!Next
<1>1. /\ TypeOK /\ order \in Seq(Boxes) /\ Injective(order) /\ Linked = order
      /\ m \in 1 .. Len(order) /\ order[m] = h /\ data'[h] \in Priorities
      /\ UNCHANGED <<pinned, order>> /\ old' = NoData
      /\ \A b \in Boxes : b # h => data'[b] = data[b]
  BY LinkedProperties DEF IInv, LinksAreQueue, StaysAt, TypeOK, Return
<1>2. h \in Boxes /\ h # pinned /\ pinned = Nil
  BY <1>1, BoxAssumption DEF IInv, PinInv, StaysAt
<1>3. PICK r : r = RemoveAt(order, m)
  OBVIOUS
<1>4. PICK d \in Priorities : d = data'[h]
  BY <1>1
<1>5. /\ r \in Seq(Boxes) /\ m \in 1 .. Len(r) + 1 /\ order = InsertAt(r, m, h)
      /\ \A j \in 1 .. m - 1 : r[j] = pinned \/ Compare(d, data[r[j]]) # "Greater"
      /\ \A j \in m .. Len(r) : r[j] # pinned /\ Compare(d, data[r[j]]) # "Less"
  BY <1>3, <1>4, StaysInOrder
<1>6. \A j \in 1 .. Len(r) : r[j] \in Boxes /\ r[j] # h
  <2>1. \A b : Queued(r, b) => b # h
    <3>1. Queued(order, h) /\ IndexOf(order, h) = m
      BY <1>1, IndexIsUnique
    <3> QED
      BY <1>1, <1>3, <3>1, DequeueKeepsDistinct DEF Dequeue
  <2> QED
    BY <1>5, <2>1 DEF Queued
<1>7. RecFacts /\ RecFacts'
  BY <1>1, RecProperties, RecPrimed DEF IInv
<1>8. PICK f \in [Boxes -> Recs] : f = Rec
  BY <1>7 DEF RecFacts
<1>9. PICK g \in [Boxes -> Recs] : g = Rec'
  BY <1>7 DEF RecFacts
<1>10. \A b \in Boxes : b # h => /\ f[b].handle = b /\ f[b].data = data[b]
                                 /\ f[b].pinned <=> b = pinned
                                 /\ g[b].handle = b /\ g[b].data = data[b]
                                 /\ g[b].pinned <=> b = pinned
  BY <1>1, <1>2, <1>7, <1>8, <1>9, BoxAssumption DEF RecFacts
<1>11. PICK es : es = Along(r, f)
  OBVIOUS
<1>12. /\ es \in Seq(Recs) /\ Len(es) = Len(r)
       /\ \A j \in 1 .. Len(r) : es[j] = f[r[j]]
  <2>1. Maps(f, Boxes, Recs)
    BY DEF Maps
  <2> QED
    BY ONLY <1>5, <1>11, <2>1, AlongProperties
<1>13. Abstract!RemoveAt(Entries, m) = es
  <2>1. Entries = Along(order, f)
    BY <1>7, <1>8 DEF RecFacts
  <2>2. Maps(f, Boxes, Recs)
    BY DEF Maps
  <2>3. Along(RemoveAt(order, m), f) = RemoveAt(Along(order, f), m)
    BY ONLY <1>1, <2>2, AlongWithout
  <2> QED
    BY <1>3, <1>11, <2>1, <2>3, AbstractOperators
<1>14. m \in Abstract!InPlace(es, d)
  <2>1. \A j \in 1 .. Len(r) : es[j].data = data[r[j]] /\ (es[j].pinned <=> r[j] = pinned)
    BY <1>6, <1>10, <1>12
  <2>2. /\ \A j \in 1 .. m - 1 : j \in 1 .. Len(r)
        /\ \A j \in m .. Len(r) : j \in 1 .. Len(r)
    BY <1>5
  <2>3. /\ m \in 1 .. Len(es) + 1
        /\ \A j \in 1 .. m - 1 : es[j].pinned \/ Compare(d, es[j].data) # "Greater"
        /\ \A j \in m .. Len(es) : ~es[j].pinned /\ Compare(d, es[j].data) # "Less"
    BY <1>5, <1>12, <2>1, <2>2
  <2> QED
    BY <2>3 DEF Abstract!InPlace
<1>15. Entries' = InsertAt(es, m, g[h])
  <2>1. Entries' = Along(InsertAt(r, m, h), g)
    BY <1>1, <1>5, <1>7, <1>9 DEF RecFacts
  <2>2. Maps(g, Boxes, Recs)
    BY DEF Maps
  <2>3. Along(InsertAt(r, m, h), g) = InsertAt(Along(r, g), m, g[h])
    BY ONLY <1>2, <1>5, <2>2, AlongWith
  <2>4. \A b \in Boxes : b # h => g[b] = f[b]
    BY <1>10, RecsEqual
  <2>5. Along(r, g) = es
    BY <1>6, <1>11, <2>4, AlongSame
  <2> QED
    BY <2>1, <2>3, <2>5
<1>16. /\ m \in 1 .. Len(Entries) /\ Entries[m] = f[h] /\ f[h].handle = h
  <2>1. Len(Entries) = Len(order) /\ Entries[m] = f[h]
    BY <1>1, <1>8 DEF Entries, Rec
  <2> QED
    BY <1>1, <1>2, <1>7, <1>8, <2>1 DEF RecFacts
<1>17. g[h] = [Entries[m] EXCEPT !.data = d]
  <2>1. /\ f[h] \in Recs /\ f[h].handle = h /\ (f[h].pinned <=> h = pinned)
        /\ g[h] \in Recs /\ g[h].handle = h /\ g[h].data = d /\ (g[h].pinned <=> h = pinned)
    BY <1>1, <1>2, <1>4, <1>7, <1>8, <1>9 DEF RecFacts
  <2>2. PICK x : x = [f[h] EXCEPT !.data = d]
    OBVIOUS
  <2>3. x \in Recs /\ x.handle = f[h].handle /\ x.data = d /\ x.pinned = f[h].pinned
    BY <2>1, <2>2 DEF Recs
  <2>4. x.pinned <=> g[h].pinned
    BY <2>1, <2>3
  <2>5. x = g[h]
    BY <2>1, <2>3, <2>4, RecsEqual
  <2> QED
    BY <1>16, <2>2, <2>5
<1>18. Abstract!Update(h, d)
  BY <1>13, <1>14, <1>15, <1>16, <1>17, AbstractOperators DEF Abstract!Update
<1> QED
  BY <1>2, <1>18 DEF Abstract!Next

-----------------------------------------------------------------------------
\* The other steps are none of the abstract queue.

\* The queue has the boxes it had, and they have the data and the pin they had
\* as far as the abstract queue is concerned.
EntriesStay ==
  /\ order' = order
  /\ \A i \in 1 .. Len(order) :
       LET b == order[i]
       IN /\ (IF b = node' /\ old' # NoData THEN old' ELSE data'[b])
               = (IF b = node /\ old # NoData THEN old ELSE data[b])
          /\ b = pinned' <=> b = pinned

LEMMA StepStutters ==
  ASSUME IInv, IInv', EntriesStay
  PROVE  Entries' = Entries
<1>1. TypeOK /\ RecFacts /\ RecFacts' /\ order' = order
  BY RecProperties, RecPrimed DEF IInv, EntriesStay
<1>2. PICK f \in [Boxes -> Recs] : f = Rec
  BY <1>1 DEF RecFacts
<1>3. PICK g \in [Boxes -> Recs] : g = Rec'
  BY <1>1 DEF RecFacts
<1>4. ASSUME NEW i \in 1 .. Len(order) PROVE g[order[i]] = f[order[i]]
  <2>1. order[i] \in Boxes
    BY <1>1 DEF TypeOK
  <2>2. /\ f[order[i]].handle = order[i] /\ g[order[i]].handle = order[i]
        /\ f[order[i]].data = g[order[i]].data
        /\ f[order[i]].pinned <=> g[order[i]].pinned
    BY <1>1, <1>2, <1>3, <2>1 DEF RecFacts, EntriesStay
  <2> QED
    BY <2>1, <2>2, RecsEqual
<1>5. Entries = Along(order, f) /\ Entries' = Along(order, g)
  BY <1>1, <1>2, <1>3 DEF RecFacts
<1> QED
  BY <1>4, <1>5, AlongSame

LEMMA EnqueueStutters ==
  ASSUME IInv, NEW d \in Priorities, Enqueue(d)
  PROVE  EntriesStay
<1>1. PICK n \in Boxes :
        /\ data[n] = NoData
        /\ data' = [data EXCEPT ![n] = d]
        /\ node' = n
        /\ pinned' = IF use = "mutex" /\ head = Nil THEN n ELSE pinned
  BY DEF Enqueue
<1>2. /\ TypeOK /\ old = NoData /\ old' = NoData /\ order' = order /\ Linked = order
  BY DEF IInv, PlaceInv, Enqueue, Linked, Apart
<1>3. ASSUME NEW i \in 1 .. Len(order)
      PROVE  order[i] \in Boxes /\ order[i] # n /\ head # Nil
  <2>1. order[i] \in Boxes /\ data[order[i]] \in Priorities /\ Linked # << >>
    BY <1>2, LinkProperties DEF TypeOK
  <2> QED
    BY <1>1, <1>2, <2>1, LinkProperties, BoxAssumption
<1> QED
  BY <1>1, <1>2, <1>3 DEF EntriesStay, TypeOK

LEMMA UpdateStutters ==
  ASSUME IInv, NEW h \in Boxes, NEW d \in Priorities, Update(h, d), pc' # "idle"
  PROVE  EntriesStay
<1>1. /\ TypeOK /\ pc = "idle" /\ old = NoData /\ data[h] # NoData
      /\ data' = [data EXCEPT ![h] = d] /\ node' = h /\ old' = data[h]
      /\ UNCHANGED <<pinned, order>>
  BY DEF IInv, PlaceInv, Update
<1> QED
  BY <1>1 DEF EntriesStay, TypeOK

LEMMA StartDropStutters ==
  ASSUME IInv, NEW h \in Boxes, DequeueBox(h), StartDrop(h)
  PROVE  EntriesStay
BY DEF IInv, PlaceInv, DequeueBox, StartDrop, EntriesStay

\* The steps along the links.
LEMMA LoopStutters ==
  ASSUME StartAtHead \/ Walk \/ Seek \/ MoveFrom \/ UNCHANGED vars
  PROVE  EntriesStay
<1>1. UNCHANGED <<data, pinned, node, old, order>>
  BY DEF StartAtHead, Walk, Seek, MoveFrom, vars
<1> QED
  BY <1>1 DEF EntriesStay

LEMMA InitRefines == Init => Abstract!Init
BY DEF Init, Abstract!Init, Entries

LEMMA NextRefines == IInv /\ IInv' /\ [Next]_vars => [Abstract!Next]_Entries
<1> SUFFICES ASSUME IInv, IInv', [Next]_vars PROVE Abstract!Next \/ Entries' = Entries
  OBVIOUS
<1>1. CASE \E d \in Priorities : Enqueue(d)
  BY <1>1, EnqueueStutters, StepStutters
<1>2. ASSUME NEW h \in Boxes, DequeueBox(h) PROVE Abstract!Next \/ Entries' = Entries
  <2>1. CASE StartDrop(h)
    BY <1>2, <2>1, StartDropStutters, StepStutters
  <2>2. CASE ~StartDrop(h)
    <3>1. PICK m \in 1 .. Len(order) : RemovedAt(m, h)
      BY <1>2, <2>2, DequeueBoxRemoves
    <3> QED
      BY <1>2, <3>1, RemovedRefines DEF DequeueBox
  <2> QED
    BY <2>1, <2>2
<1>3. ASSUME NEW h \in Boxes, NEW d \in Priorities, Update(h, d) \/ Amend(h, d)
      PROVE  Abstract!Next \/ Entries' = Entries
  <2>1. CASE pc' = "idle"
    <3>1. PICK m \in 1 .. Len(order) : StaysAt(m, h)
      BY <1>3, <2>1, UpdateStays
    <3>2. node = Nil
      BY <1>3 DEF IInv, PlaceInv, Update, Amend
    <3> QED
      BY <3>1, <3>2, StaysRefines
  <2>2. CASE pc' # "idle"
    <3>1. Update(h, d)
      BY <1>3, <2>2 DEF Amend
    <3> QED
      BY <2>2, <3>1, UpdateStutters, StepStutters
  <2> QED
    BY <2>1, <2>2
<1>4. CASE PlaceFirst
  <2>1. Apart /\ Return /\ UNCHANGED <<data, pinned>>
    BY <1>4 DEF PlaceFirst, Apart
  <2>2. PlacedAt(1) /\ TypeOK'
    BY <1>4, FirstIsPlaced DEF IInv
  <2> QED
    BY <2>1, <2>2, PlacedRefines
<1>5. CASE PlaceHere
  <2>1. Apart /\ Return /\ UNCHANGED <<data, pinned>>
    BY <1>5 DEF PlaceHere, Apart
  <2>2. TypeOK' /\ \E k \in 1 .. Len(Settled) + 1 : PlacedAt(k)
    BY <1>5, WalkIsPlaced DEF IInv
  <2> QED
    BY <2>1, <2>2, PlacedRefines
<1>6. CASE DropHere
  <2>1. PICK m \in 1 .. Len(order) : RemovedAt(m, node)
    BY <1>6, DropHereRemoves
  <2> QED
    BY <1>6, <2>1, RemovedRefines DEF DropHere
<1>7. CASE StayHere
  <2>1. PICK m \in 1 .. Len(order) : StaysAt(m, node)
    BY <1>7, StayHereStays
  <2> QED
    BY <2>1, StaysRefines
<1>8. CASE StartAtHead \/ Walk \/ Seek \/ MoveFrom \/ UNCHANGED vars
  BY <1>8, LoopStutters, StepStutters
<1> QED
  BY <1>1, <1>2, <1>3, <1>4, <1>5, <1>6, <1>7, <1>8 DEF Next, Step

\* The boxes and links implement the abstract queue: every insert, dequeue and
\* update_node, loop and all, is one step of it, taken when the operation
\* returns, at a place the trait allows.
THEOREM Refinement == Spec => ImplementsQueue
<1>1. IInv /\ IInv' /\ [Next]_vars => [Abstract!Next]_Entries
  BY NextRefines
<1> QED
  BY <1>1, InitRefines, Invariant, PTL DEF Spec, ImplementsQueue, Abstract!Spec
=============================================================================
