--------------------------- MODULE SemaphoreProofs -----------------------------
(***************************************************************************)
(* Proofs about the Semaphore, for any number of nodes and permits, any    *)
(* discipline that meets the contract of the trait Priority, and every     *)
(* choice of the features.                                                 *)
(***************************************************************************)
EXTENDS Semaphore, PriorityQueueProofs, WaiterCellProofs, FiniteSetTheorems

(***************************************************************************)
(* The sum of a function over a finite set, SumFunctionOnSet, which the    *)
(* community modules define as a fold: that it has its recursion equation, *)
(* is the same in whatever order it is taken, and depends on the values in *)
(* the set alone.                                                          *)
(*                                                                         *)
(* Each proof by induction is one by a minimal counterexample among the    *)
(* subsets of the set: the theorems of the library that say that there is  *)
(* one have no operator parameter.                                         *)
(***************************************************************************)

\* The order in which the fold goes through a set.
Pick(s) == CHOOSE x \in s : TRUE

\* g is the sums of f over the subsets of S, in that order.
AreSums(f, S, g) ==
  g = [s \in SUBSET S |->
         IF s = {} THEN 0 ELSE f[Pick(s)] + g[s \ {Pick(s)}]]

Sums(f, S) == CHOOSE g : AreSums(f, S, g)

\* The fold, with its local function given a name.
LEMMA SumIsFold ==
  ASSUME NEW f, NEW S
  PROVE  SumFunctionOnSet(f, S) = Sums(f, S)[S]
BY DEF SumFunctionOnSet, FoldFunctionOnSet, MapThenFoldSet, Sums, AreSums, Pick

\* A set of subsets of a finite set has a minimal one.
LEMMA MinimalSubset ==
  ASSUME NEW S, IsFiniteSet(S), NEW T, T \subseteq SUBSET S, T # {}
  PROVE  \E t \in T : \A u \in T : ~(u \subseteq t /\ u # t)
<1>1. IsWellFoundedOn(StrictSubsetOrdering(S), SUBSET S)
  BY FS_StrictSubsetOrderingWellFounded, FS_FiniteSubsetsOfFinite
<1>2. PICK t \in T : \A u \in T : ~(<<u, t>> \in StrictSubsetOrdering(S))
  BY <1>1, WFMin
<1> QED
  BY <1>2 DEF StrictSubsetOrdering

\* The element picked is there, and the rest is smaller.
LEMMA PickProperties ==
  ASSUME NEW s, s # {}
  PROVE  /\ Pick(s) \in s
         /\ s \ {Pick(s)} \subseteq s /\ s \ {Pick(s)} # s
BY DEF Pick

\* The sums over the subsets of S are those over the subsets of a larger set.
LEMMA SumsAgree ==
  ASSUME NEW f, NEW S, NEW R, IsFiniteSet(S), S \subseteq R,
         NEW g, NEW h, AreSums(f, S, g), AreSums(f, R, h)
  PROVE  \A s \in SUBSET S : g[s] = h[s]
<1> DEFINE T == {s \in SUBSET S : g[s] # h[s]}
<1> SUFFICES ASSUME T # {} PROVE FALSE
  OBVIOUS
<1>0. T \subseteq SUBSET S
  OBVIOUS
<1> HIDE DEF T
<1>1. PICK t \in T : \A u \in T : ~(u \subseteq t /\ u # t)
  BY <1>0, MinimalSubset
<1>2. t \in SUBSET S /\ t \in SUBSET R /\ g[t] # h[t]
  BY DEF T
<1>3. /\ g[t] = IF t = {} THEN 0 ELSE f[Pick(t)] + g[t \ {Pick(t)}]
      /\ h[t] = IF t = {} THEN 0 ELSE f[Pick(t)] + h[t \ {Pick(t)}]
  BY <1>2 DEF AreSums
<1>4. CASE t = {}
  BY <1>2, <1>3, <1>4
<1>5. CASE t # {}
  <2>1. t \ {Pick(t)} \notin T /\ t \ {Pick(t)} \in SUBSET S
    BY <1>1, <1>2, <1>5, PickProperties DEF T
  <2>2. g[t \ {Pick(t)}] = h[t \ {Pick(t)}]
    BY <2>1 DEF T
  <2> QED
    BY <1>2, <1>3, <1>5, <2>2
<1> QED
  BY <1>4, <1>5

\* There are such sums: the recursive definition defines a function.
LEMMA SumsExist ==
  ASSUME NEW f, NEW S, IsFiniteSet(S)
  PROVE  AreSums(f, S, Sums(f, S))
<1> DEFINE T == {s \in SUBSET S : ~AreSums(f, s, Sums(f, s))}
<1> SUFFICES ASSUME T # {} PROVE FALSE
  OBVIOUS
<1>0. T \subseteq SUBSET S
  OBVIOUS
<1> HIDE DEF T
<1>1. PICK t \in T : \A u \in T : ~(u \subseteq t /\ u # t)
  BY <1>0, MinimalSubset
<1>2. t \in SUBSET S /\ ~AreSums(f, t, Sums(f, t))
  BY DEF T
<1>3. ASSUME NEW s \in SUBSET t, s # t PROVE AreSums(f, s, Sums(f, s))
  BY <1>1, <1>2, <1>3 DEF T
<1> DEFINE rest(s) == s \ {Pick(s)}
           h == [s \in SUBSET t |->
                   IF s = {} THEN 0 ELSE f[Pick(s)] + Sums(f, rest(s))[rest(s)]]
<1>4. ASSUME NEW s \in SUBSET t, s # t PROVE h[s] = Sums(f, s)[s]
  <2>1. AreSums(f, s, Sums(f, s))
    BY <1>3, <1>4
  <2>2. Sums(f, s)[s] = IF s = {} THEN 0 ELSE f[Pick(s)] + Sums(f, s)[rest(s)]
    BY <2>1 DEF AreSums
  <2>3. CASE s = {}
    BY <2>2, <2>3
  <2>4. CASE s # {}
    <3>1. rest(s) \subseteq s /\ rest(s) # t /\ rest(s) \in SUBSET t
      BY <1>4, <2>4, PickProperties
    <3>2. AreSums(f, rest(s), Sums(f, rest(s)))
      BY <1>3, <3>1
    <3>3. IsFiniteSet(rest(s))
      BY <1>2, <3>1, FS_Subset
    <3> HIDE DEF rest
    <3>4. Sums(f, rest(s))[rest(s)] = Sums(f, s)[rest(s)]
      BY <2>1, <3>1, <3>2, <3>3, SumsAgree
    <3> QED
      BY <2>2, <2>4, <3>4
  <2> QED
    BY <2>3, <2>4
<1>5. AreSums(f, t, h)
  <2> SUFFICES ASSUME NEW s \in SUBSET t, s # {}
               PROVE  Sums(f, rest(s))[rest(s)] = h[rest(s)]
    BY DEF AreSums
  <2>1. rest(s) \in SUBSET t /\ rest(s) # t
    BY PickProperties
  <2> HIDE DEF rest, h
  <2> QED
    BY <1>4, <2>1
<1> HIDE DEF h
<1>6. AreSums(f, t, Sums(f, t))
  BY <1>5 DEF Sums
<1> QED
  BY <1>2, <1>6

\* The recursion equation of the sum.
LEMMA SumUnfolds ==
  ASSUME NEW f, NEW S, IsFiniteSet(S)
  PROVE  SumFunctionOnSet(f, S) =
           IF S = {} THEN 0
           ELSE f[Pick(S)] + SumFunctionOnSet(f, S \ {Pick(S)})
<1> DEFINE rest == S \ {Pick(S)}
<1>1. Sums(f, S)[S] = IF S = {} THEN 0 ELSE f[Pick(S)] + Sums(f, S)[rest]
  <2>1. AreSums(f, S, Sums(f, S))
    BY SumsExist
  <2> QED
    BY <2>1 DEF AreSums
<1>2. rest \in SUBSET S /\ IsFiniteSet(rest)
  BY FS_Subset
<1>3. Sums(f, S)[rest] = Sums(f, rest)[rest]
  BY <1>2, SumsExist, SumsAgree
<1> QED
  BY <1>1, <1>3, SumIsFold

-----------------------------------------------------------------------------

\* The sum over no elements.
LEMMA SumOfNone == ASSUME NEW f PROVE SumFunctionOnSet(f, {}) = 0
BY SumUnfolds, FS_EmptySet

\* A sum of naturals is a natural.
LEMMA SumType ==
  ASSUME NEW f, NEW S, IsFiniteSet(S), \A x \in S : f[x] \in Nat
  PROVE  SumFunctionOnSet(f, S) \in Nat
<1> DEFINE T == {s \in SUBSET S : SumFunctionOnSet(f, s) \notin Nat}
<1> SUFFICES ASSUME T # {} PROVE FALSE
  OBVIOUS
<1>0. T \subseteq SUBSET S
  OBVIOUS
<1> HIDE DEF T
<1>1. PICK t \in T : \A u \in T : ~(u \subseteq t /\ u # t)
  BY <1>0, MinimalSubset
<1>2. t \in SUBSET S /\ IsFiniteSet(t) /\ SumFunctionOnSet(f, t) \notin Nat
  BY FS_Subset DEF T
<1>3. t # {}
  BY <1>2, SumOfNone
<1>4. t \ {Pick(t)} \notin T /\ t \ {Pick(t)} \in SUBSET S /\ Pick(t) \in S
  BY <1>1, <1>2, <1>3, PickProperties DEF T
<1>5. SumFunctionOnSet(f, t \ {Pick(t)}) \in Nat
  BY <1>4 DEF T
<1>6. SumFunctionOnSet(f, t) = f[Pick(t)] + SumFunctionOnSet(f, t \ {Pick(t)})
  BY <1>2, <1>3, SumUnfolds
<1> QED
  BY <1>2, <1>4, <1>5, <1>6

\* Any element may be the first of the sum.
LEMMA SumWithout ==
  ASSUME NEW f, NEW S, IsFiniteSet(S), \A x \in S : f[x] \in Nat, NEW y \in S
  PROVE  SumFunctionOnSet(f, S) = f[y] + SumFunctionOnSet(f, S \ {y})
<1> DEFINE Sum(s) == SumFunctionOnSet(f, s)
           T == {s \in SUBSET S : \E z \in s : Sum(s) # f[z] + Sum(s \ {z})}
<1> SUFFICES ASSUME T # {} PROVE FALSE
  OBVIOUS
<1>0. T \subseteq SUBSET S
  OBVIOUS
<1> HIDE DEF T
<1>1. PICK t \in T : \A u \in T : ~(u \subseteq t /\ u # t)
  BY <1>0, MinimalSubset
<1>2. PICK z \in t : Sum(t) # f[z] + Sum(t \ {z})
  BY DEF T
<1>3. ASSUME NEW u \in SUBSET t, u # t, NEW x \in u
      PROVE  Sum(u) = f[x] + Sum(u \ {x})
  BY <1>0, <1>1, <1>3 DEF T
<1>4. ASSUME NEW u \in SUBSET t PROVE IsFiniteSet(u) /\ Sum(u) \in Nat
  <2>1. u \in SUBSET S /\ IsFiniteSet(u)
    BY <1>0, FS_Subset
  <2> QED
    BY <2>1, SumType
<1> DEFINE p == Pick(t)
           rest == (t \ {p}) \ {z}
<1>5. p \in t /\ Sum(t) = f[p] + Sum(t \ {p})
  BY <1>4, SumUnfolds, PickProperties
<1>6. p # z
  BY <1>2, <1>5
<1>7. f[p] \in Nat /\ f[z] \in Nat /\ Sum(rest) \in Nat
  <2>1. p \in S /\ z \in S /\ rest \in SUBSET t
    BY <1>0, <1>5
  <2> QED
    BY <1>4, <2>1
<1>8. Sum(t \ {p}) = f[z] + Sum(rest)
  BY <1>3, <1>5, <1>6
<1>9. Sum(t \ {z}) = f[p] + Sum(rest)
  <2>1. rest = (t \ {z}) \ {p}
    OBVIOUS
  <2>2. t \ {z} \in SUBSET t /\ t \ {z} # t /\ p \in t \ {z}
    BY <1>5, <1>6
  <2> QED
    BY <1>3, <2>1, <2>2
<1> HIDE DEF rest, p, Sum
<1> QED
  BY <1>2, <1>5, <1>7, <1>8, <1>9

\* The sum depends on the values in the set alone.
LEMMA SumOfEqual ==
  ASSUME NEW f, NEW g, NEW S, IsFiniteSet(S), \A x \in S : f[x] = g[x]
  PROVE  SumFunctionOnSet(f, S) = SumFunctionOnSet(g, S)
<1> DEFINE T == {s \in SUBSET S : SumFunctionOnSet(f, s) # SumFunctionOnSet(g, s)}
<1> SUFFICES ASSUME T # {} PROVE FALSE
  OBVIOUS
<1>0. T \subseteq SUBSET S
  OBVIOUS
<1> HIDE DEF T
<1>1. PICK t \in T : \A u \in T : ~(u \subseteq t /\ u # t)
  BY <1>0, MinimalSubset
<1>2. /\ t \in SUBSET S /\ IsFiniteSet(t)
      /\ SumFunctionOnSet(f, t) # SumFunctionOnSet(g, t)
  BY FS_Subset DEF T
<1>3. t # {}
  BY <1>2, SumOfNone
<1>4. t \ {Pick(t)} \notin T /\ t \ {Pick(t)} \in SUBSET S /\ Pick(t) \in S
  BY <1>1, <1>2, <1>3, PickProperties DEF T
<1>5. SumFunctionOnSet(f, t \ {Pick(t)}) = SumFunctionOnSet(g, t \ {Pick(t)})
  BY <1>4 DEF T
<1>6. /\ SumFunctionOnSet(f, t) = f[Pick(t)] + SumFunctionOnSet(f, t \ {Pick(t)})
      /\ SumFunctionOnSet(g, t) = g[Pick(t)] + SumFunctionOnSet(g, t \ {Pick(t)})
  BY <1>2, <1>3, SumUnfolds
<1> QED
  BY <1>2, <1>4, <1>5, <1>6
\* A sum of naturals is no less than any of them.
LEMMA SumBounds ==
  ASSUME NEW f, NEW S, IsFiniteSet(S), \A x \in S : f[x] \in Nat, NEW y \in S
  PROVE  f[y] <= SumFunctionOnSet(f, S)
<1>1. SumFunctionOnSet(f, S) = f[y] + SumFunctionOnSet(f, S \ {y})
  BY SumWithout
<1>2. SumFunctionOnSet(f, S \ {y}) \in Nat
  <2>1. IsFiniteSet(S \ {y})
    BY FS_Subset, S \ {y} \subseteq S
  <2> QED
    BY <2>1, SumType
<1> QED
  BY <1>1, <1>2

\* A sum from which two elements are taken.
LEMMA SumWithoutTwo ==
  ASSUME NEW f, NEW S, IsFiniteSet(S), \A x \in S : f[x] \in Nat,
         NEW y \in S, NEW z \in S, y # z
  PROVE  SumFunctionOnSet(f, S) =
           f[y] + (f[z] + SumFunctionOnSet(f, S \ {y, z}))
<1>1. SumFunctionOnSet(f, S) = f[y] + SumFunctionOnSet(f, S \ {y})
  BY SumWithout
<1>2. IsFiniteSet(S \ {y}) /\ z \in S \ {y} /\ (S \ {y}) \ {z} = S \ {y, z}
  BY FS_Subset, S \ {y} \subseteq S
<1>3. SumFunctionOnSet(f, S \ {y}) = f[z] + SumFunctionOnSet(f, (S \ {y}) \ {z})
  BY <1>2, SumWithout
<1> QED
  BY <1>1, <1>2, <1>3

\* How a sum changes when one element alone changes its value, or comes, or goes.
LEMMA SumOfOneChange ==
  ASSUME NEW f, NEW g, NEW S, NEW T, IsFiniteSet(S), IsFiniteSet(T), NEW x,
         \A y \in S : f[y] \in Nat, \A y \in T : g[y] \in Nat,
         S \ {x} = T \ {x}, \A y \in S \ {x} : f[y] = g[y]
  PROVE  SumFunctionOnSet(g, T) + (IF x \in S THEN f[x] ELSE 0)
           = SumFunctionOnSet(f, S) + (IF x \in T THEN g[x] ELSE 0)
<1> DEFINE rest == SumFunctionOnSet(f, S \ {x})
<1>1. IsFiniteSet(S \ {x}) /\ rest \in Nat
  <2>1. IsFiniteSet(S \ {x})
    BY FS_Subset, S \ {x} \subseteq S
  <2> QED
    BY <2>1, SumType
<1>2. SumFunctionOnSet(g, T \ {x}) = rest
  <2>1. \A y \in S \ {x} : f[y] = g[y]
    OBVIOUS
  <2>2. rest = SumFunctionOnSet(g, S \ {x})
    BY <1>1, <2>1, SumOfEqual
  <2>3. SumFunctionOnSet(g, S \ {x}) = SumFunctionOnSet(g, T \ {x})
    OBVIOUS
  <2> QED
    BY <2>2, <2>3
<1>3. SumFunctionOnSet(f, S) = rest + (IF x \in S THEN f[x] ELSE 0)
  <2>1. CASE x \in S
    <3>1. SumFunctionOnSet(f, S) = f[x] + rest
      BY <2>1, SumWithout
    <3> QED
      BY <1>1, <2>1, <3>1
  <2>2. CASE x \notin S
    <3>1. S \ {x} = S
      BY <2>2
    <3>2. rest = SumFunctionOnSet(f, S)
      BY <3>1
    <3> HIDE DEF rest
    <3> QED
      BY <1>1, <2>2, <3>2
  <2> QED
    BY <2>1, <2>2
<1>4. SumFunctionOnSet(g, T) = rest + (IF x \in T THEN g[x] ELSE 0)
  <2>1. CASE x \in T
    <3>1. SumFunctionOnSet(g, T) = g[x] + rest
      BY <1>2, <2>1, SumWithout
    <3> QED
      BY <1>1, <2>1, <3>1
  <2>2. CASE x \notin T
    <3>1. T \ {x} = T
      BY <2>2
    <3>2. rest = SumFunctionOnSet(g, T)
      BY <1>2, <3>1
    <3> HIDE DEF rest
    <3> QED
      BY <1>1, <2>2, <3>2
  <2> QED
    BY <2>1, <2>2
<1> HIDE DEF rest
<1>5. (IF x \in S THEN f[x] ELSE 0) \in Nat /\ (IF x \in T THEN g[x] ELSE 0) \in Nat
  OBVIOUS
<1> QED
  BY <1>1, <1>3, <1>4, <1>5

-----------------------------------------------------------------------------
\* The inductive invariant.

\* Whoever holds permits comes before whoever waits.
HoldersFirst ==
  \A a, b \in Nodes :
    Before(queue, a, b) /\ HasLock(waiter[b]) => HasLock(waiter[a])

\* Among holders, and among requests, nobody is behind one it outranks.
InPriorityOrder ==
  \A a, b \in Nodes :
    Before(queue, a, b) /\ (HasLock(waiter[a]) <=> HasLock(waiter[b]))
      => Compare(Prio(b), Prio(a)) # "Greater"

\* Everyone before n in the queue holds permits.
AllHoldBefore(n) ==
  \A d \in Nodes : Before(queue, d, n) => HasLock(waiter[d])

\* Permits do not lie idle: what WorkConserving says, of the first request.
NextInLine ==
  Unlocked => \A n \in Nodes :
    Pending(n) /\ AllHoldBefore(n) => available = 0 \/ Count(n) > available

\* activate_waiters has left nobody behind that could go on: the requests it
\* has passed were refused before and need more than there is.
WalkInv ==
  ~Unlocked => \A d \in Nodes :
    Before(queue, d, walk) /\ ~HasLock(waiter[d])
      => Total /\ WantsEvict(waiter[d]) /\ Count(d) > available

(***************************************************************************)
(* A task that waits is registered or has been woken, and is registered    *)
(* only as long as it waits for something that has not happened.           *)
(***************************************************************************)
Awaits(n) ==
  /\ pc[n] \in {"parked", "listening"} => waiter[n].armed \/ waiter[n].scheduled
  /\ pc[n] = "parked" /\ waiter[n].armed
       => ~HasLock(waiter[n]) /\ ~(entry[n].within /\ WantsEvict(waiter[n]))
  /\ pc[n] = "listening" /\ waiter[n].armed => ~WantsEvict(waiter[n])

WakeInv == \A n \in Nodes : Awaits(n)

\* The permits that are held.
HeldNodes == {n \in Nodes : Held(n)}
SumHeld   == SumFunctionOnSet([n \in Nodes |-> Count(n)], HeldNodes)

(***************************************************************************)
(* The permits there are and those that are held never exceed the total,   *)
(* even where an addition wraps around; and they make it up exactly when   *)
(* none does.  Without semaphore-total that takes a supply usize has room  *)
(* for: SemaphorePermitWaiter::drop adds without a check.                  *)
(***************************************************************************)
NeverWraps == Total \/ MaxSupply <= UsizeMax

SupplyInv ==
  /\ available + SumHeld <= total
  /\ total <= MaxSupply
  /\ Total => total <= UsizeMax
  /\ NeverWraps => available + SumHeld = total

WithinNeedsTotal == \A n \in Nodes : entry[n].within => Total

(***************************************************************************)
(* The inductive invariant.  NextInLine is what holds while nobody is      *)
(* inside activate_waiters, WalkInv what its loop establishes it from; both*)
(* need the order of the queue.                                            *)
(***************************************************************************)
IInv ==
  /\ TypeOK
  /\ HoldersFirst
  /\ InPriorityOrder
  /\ NextInLine
  /\ WalkInv
  /\ WakeInv
  /\ SupplyInv
  /\ WithinNeedsTotal
  /\ OversizedAreRefused

-----------------------------------------------------------------------------
\* The queue.

\* Only nodes are queued.
LEMMA QueuedAreNodes ==
  ASSUME TypeOK
  PROVE  /\ \A d : Queued(queue, d) => d \in Nodes
         /\ \A a, b : Before(queue, a, b) => a \in Nodes /\ b \in Nodes
BY DEF TypeOK, Queued, Before

\* get_next_handle: what is before the next node is before n, or n itself.
LEMMA NextOfProperties ==
  ASSUME TypeOK, NEW n \in Nodes, Queued(queue, n)
  PROVE  /\ NextOf(n) # NoNode =>
              /\ NextOf(n) \in Nodes /\ Queued(queue, NextOf(n)) /\ NextOf(n) # n
              /\ \A d : Before(queue, d, NextOf(n)) <=> d = n \/ Before(queue, d, n)
         /\ NextOf(n) = NoNode =>
              \A d : Queued(queue, d) <=> d = n \/ Before(queue, d, n)
<1> DEFINE i == IndexOf(queue, n)
<1>1. i \in 1 .. Len(queue) /\ queue[i] = n /\ Len(queue) \in Nat
  BY IndexOfProperties, LenProperties DEF TypeOK
<1>2. NextOf(n) = IF i = Len(queue) THEN NoNode ELSE queue[i + 1]
  BY DEF NextOf
<1> HIDE DEF i
<1>3. /\ i < Len(queue) => \A d : Before(queue, d, queue[i + 1])
                                    <=> d = queue[i] \/ Before(queue, d, queue[i])
      /\ i = Len(queue) => \A d : Queued(queue, d)
                                    <=> d = queue[i] \/ Before(queue, d, queue[i])
  BY <1>1, BeforeIndex DEF TypeOK
<1>4. CASE i = Len(queue)
  BY <1>1, <1>2, <1>3, <1>4
<1>5. CASE i # Len(queue)
  <2>1. i + 1 \in 1 .. Len(queue) /\ i < Len(queue)
    BY <1>1, <1>5
  <2>2. queue[i + 1] \in Nodes /\ Queued(queue, queue[i + 1])
    BY <2>1 DEF TypeOK, Queued
  <2>3. queue[i + 1] # n
    BY <1>1, <2>1 DEF TypeOK, Injective
  <2>4. NextOf(n) = queue[i + 1] /\ NextOf(n) # NoNode
    BY <1>2, <1>5, <2>2, NodesAssumption
  <2> QED
    BY <1>1, <1>3, <2>1, <2>2, <2>3, <2>4
<1> QED
  BY <1>4, <1>5

\* head_handle: nobody is before the head.
LEMMA HeadNodeProperties ==
  ASSUME TypeOK
  PROVE  /\ HeadNode # NoNode =>
              /\ HeadNode \in Nodes /\ Queued(queue, HeadNode)
              /\ \A d : ~Before(queue, d, HeadNode)
         /\ HeadNode = NoNode => \A d : ~Queued(queue, d)
<1>1. CASE queue = << >>
  BY <1>1 DEF HeadNode, Queued
<1>2. CASE queue # << >>
  <2>1. 1 \in 1 .. Len(queue) /\ HeadNode = queue[1]
    BY <1>2 DEF TypeOK, HeadNode
  <2>2. HeadNode \in Nodes /\ Queued(queue, HeadNode)
    BY <2>1 DEF TypeOK, Queued
  <2>3. \A d : ~Before(queue, d, queue[1])
    <3>1. \A d : Before(queue, d, queue[1]) <=> \E i \in 1 .. 1 - 1 : queue[i] = d
      BY <2>1, BeforeIndex DEF TypeOK
    <3> QED
      BY <3>1
  <2> QED
    BY <2>1, <2>2, <2>3, NodesAssumption
<1> QED
  BY <1>1, <1>2

\* A node is the first in line if all those before it hold permits.
LEMMA FirstInLineMeans ==
  ASSUME TypeOK, HoldersFirst, NEW n \in Nodes, Queued(queue, n)
  PROVE  FirstInLine(n) <=> AllHoldBefore(n)
<1> DEFINE i == IndexOf(queue, n)
<1>1. i \in 1 .. Len(queue) /\ queue[i] = n /\ Len(queue) \in Nat
  BY IndexOfProperties, LenProperties DEF TypeOK
<1>2. FirstInLine(n) <=> i = 1 \/ HasLock(waiter[queue[i - 1]])
  BY DEF FirstInLine
<1> HIDE DEF i
<1>3. \A d : Before(queue, d, n) <=> \E k \in 1 .. i - 1 : queue[k] = d
  BY <1>1, BeforeIndex DEF TypeOK
<1>4. CASE i = 1
  BY <1>2, <1>3, <1>4 DEF AllHoldBefore
<1>5. CASE i # 1
  <2>1. i - 1 \in 1 .. Len(queue) /\ i - 1 \in 1 .. i - 1
    BY <1>1, <1>5
  <2>2. queue[i - 1] \in Nodes /\ Before(queue, queue[i - 1], n)
    BY <1>3, <2>1 DEF TypeOK
  <2>3. \A d \in Nodes : Before(queue, d, n)
                           => d = queue[i - 1] \/ Before(queue, d, queue[i - 1])
    <3>1. SUFFICES ASSUME NEW k \in 1 .. i - 1, k # i - 1
                   PROVE  Before(queue, queue[k], queue[i - 1])
      BY <1>3
    <3>2. k \in 1 .. Len(queue) /\ k < i - 1
      BY <1>1, <3>1
    <3> QED
      BY <2>1, <3>2 DEF Before
  <2> QED
    BY <1>2, <1>5, <2>2, <2>3 DEF AllHoldBefore, HoldersFirst
<1> QED
  BY <1>4, <1>5

\* Of some queued nodes, one comes first.
LEMMA FirstOfSome ==
  ASSUME TypeOK, NEW W, W \subseteq Nodes, W # {}
  PROVE  \E n \in W : \A d \in W : ~Before(queue, d, n)
<1> DEFINE ahead(n) == {d \in Nodes : Before(queue, d, n)}
           T == {ahead(n) : n \in W}
<1>1. T \subseteq SUBSET Nodes /\ T # {}
  OBVIOUS
<1> HIDE DEF T
<1>2. PICK t \in T : \A u \in T : ~(u \subseteq t /\ u # t)
  BY <1>1, NodesAssumption, MinimalSubset
<1>3. PICK n \in W : t = ahead(n)
  BY <1>2 DEF T
<1>4. ASSUME NEW d \in W, Before(queue, d, n) PROVE FALSE
  <2>1. /\ \A a, b : Before(queue, a, b) => ~Before(queue, b, a)
        /\ \A a, b, c : Before(queue, a, b) /\ Before(queue, b, c)
                          => Before(queue, a, c)
    BY BeforeIsOrder DEF TypeOK
  <2>2. d \in ahead(n) /\ d \notin ahead(d) /\ ahead(d) \subseteq ahead(n)
    BY <1>4, <2>1
  <2>3. ahead(d) \in T
    BY DEF T
  <2> HIDE DEF ahead
  <2> QED
    BY <1>2, <1>3, <2>2, <2>3
<1> QED
  BY <1>4

-----------------------------------------------------------------------------
\* What the operations do to the nodes they are not about.

\* Every node but x keeps its request and its permits; it may be told to leave.
OthersKeep(x) ==
  \A d \in Nodes \ {x} :
    /\ waiter'[d] \in {waiter[d], AddFlag(waiter[d], "WANTS_EVICT")}
    /\ pc'[d] = pc[d]
    /\ entry'[d].priority = entry[d].priority
    /\ entry'[d].within = entry[d].within
    /\ HasLock(waiter[d]) \/ entry'[d].count = entry[d].count

\* Every node but x stays queued, and in its order.
OrderKept(x) ==
  /\ \A d \in Nodes \ {x} : Queued(queue', d) <=> Queued(queue, d)
  /\ \A a, b \in Nodes \ {x} : Before(queue', a, b) <=> Before(queue, a, b)

\* The node x is in its place in the new queue.
Placed(x) ==
  /\ \A a \in Nodes : Before(queue', a, x) =>
       /\ HasLock(waiter'[x]) => HasLock(waiter'[a])
       /\ (HasLock(waiter'[a]) <=> HasLock(waiter'[x]))
            => Compare(entry'[x].priority, entry'[a].priority) # "Greater"
  /\ \A b \in Nodes : Before(queue', x, b) =>
       /\ HasLock(waiter'[b]) => HasLock(waiter'[x])
       /\ (HasLock(waiter'[b]) <=> HasLock(waiter'[x]))
            => Compare(entry'[b].priority, entry'[x].priority) # "Greater"

\* The other nodes hold what they held; who was woken stays so.
LEMMA FlagsKept ==
  ASSUME TypeOK, NEW x, OthersKeep(x), NEW d \in Nodes \ {x}
  PROVE  /\ waiter'[d] \in Cell
         /\ HasLock(waiter'[d]) <=> HasLock(waiter[d])
         /\ WantsEvict(waiter[d]) => WantsEvict(waiter'[d])
         /\ waiter[d].armed \/ waiter[d].scheduled
              => waiter'[d].armed \/ waiter'[d].scheduled
         /\ waiter'[d].armed => waiter'[d] = waiter[d]
<1>1. waiter[d] \in Cell /\ "WANTS_EVICT" \in Flags
  BY DEF TypeOK, Flags
<1>2. waiter'[d] \in {waiter[d], AddFlag(waiter[d], "WANTS_EVICT")}
  BY DEF OthersKeep
<1> QED
  BY <1>1, <1>2, AddFlagProperties, AddFlagKeepsOther

\* No wakeup is lost on the other nodes.
LEMMA WakeKept ==
  ASSUME TypeOK, WakeInv, NEW x, OthersKeep(x), x \in Nodes => Awaits(x)'
  PROVE  WakeInv'
<1> SUFFICES ASSUME NEW d \in Nodes \ {x} PROVE Awaits(d)'
  BY DEF WakeInv
<1>1. Awaits(d)
  BY DEF WakeInv
<1>2. pc'[d] = pc[d] /\ entry'[d].within = entry[d].within
  BY DEF OthersKeep
<1> QED
  BY <1>1, <1>2, FlagsKept DEF Awaits

\* The queue stays in order if x is in its place.
LEMMA OrderStays ==
  ASSUME TypeOK, HoldersFirst, InPriorityOrder,
         NEW x, OthersKeep(x), OrderKept(x), x \in Nodes => Placed(x)
  PROVE  HoldersFirst' /\ InPriorityOrder'
<1> SUFFICES ASSUME NEW a \in Nodes, NEW b \in Nodes, Before(queue', a, b)
             PROVE  /\ HasLock(waiter'[b]) => HasLock(waiter'[a])
                    /\ (HasLock(waiter'[a]) <=> HasLock(waiter'[b]))
                         => Compare(entry'[b].priority, entry'[a].priority) # "Greater"
  BY DEF HoldersFirst, InPriorityOrder, Prio
<1>1. CASE a = x \/ b = x
  BY <1>1 DEF Placed
<1>2. CASE a # x /\ b # x
  <2>1. Before(queue, a, b)
    BY <1>2 DEF OrderKept
  <2>2. /\ HasLock(waiter'[a]) <=> HasLock(waiter[a])
        /\ HasLock(waiter'[b]) <=> HasLock(waiter[b])
    BY <1>2, FlagsKept
  <2>3. entry'[a].priority = entry[a].priority /\ entry'[b].priority = entry[b].priority
    BY <1>2 DEF OthersKeep
  <2> QED
    BY <2>1, <2>2, <2>3 DEF HoldersFirst, InPriorityOrder, Prio
<1> QED
  BY <1>1, <1>2

\* A node that is not in the new queue is in nobody's way.
LEMMA GoneIsPlaced ==
  ASSUME NEW x, ~Queued(queue', x)
  PROVE  Placed(x) /\ \A d : ~Before(queue', d, x) /\ ~Before(queue', x, d)
BY DEF Placed, Queued, Before

\* Who was told of having become too big stays told.
LEMMA OversizedStay ==
  ASSUME TypeOK, OversizedAreRefused, NEW x, OthersKeep(x), OrderKept(x),
         \A d \in Nodes \ {x} :
           Pending(d) /\ entry[d].within /\ Count(d) > total' /\ total' # total
             => WantsEvict(waiter'[d]) \/ Count(d) > total,
         x \in Nodes /\ Pending(x)' /\ entry'[x].within /\ entry'[x].count > total'
           => WantsEvict(waiter'[x])
  PROVE  OversizedAreRefused'
<1> SUFFICES ASSUME NEW d \in Nodes \ {x}, Pending(d)', entry'[d].within,
                    entry'[d].count > total'
             PROVE  WantsEvict(waiter'[d])
  BY DEF OversizedAreRefused, Count
<1>1. Pending(d)
  BY FlagsKept DEF Pending, OrderKept
<1>2. entry'[d].within = entry[d].within /\ entry'[d].count = entry[d].count
  BY <1>1 DEF OthersKeep, Pending
<1>3. WantsEvict(waiter[d]) => WantsEvict(waiter'[d])
  BY FlagsKept
<1> QED
  BY <1>1, <1>2, <1>3 DEF OversizedAreRefused, Count

\* notify_oversized_waiters tells those on its way that are too big, and changes
\* no other.
LEMMA NotifyProperties ==
  ASSUME NEW q, NEW start, NEW t, NEW d \in Nodes
  PROVE  /\ NotifyOversized(q, start, t)[d]
              \in {waiter[d], AddFlag(waiter[d], "WANTS_EVICT")}
         /\ d \in IterAt(q, start) /\ entry[d].within /\ Count(d) > t
              => WantsEvict(NotifyOversized(q, start, t)[d])
BY AddFlagKeepsOther DEF NotifyOversized, AddFlag, WantsEvict

\* A walk along the whole queue meets every request.
LEMMA WalkFromHead ==
  ASSUME NEW d \in Nodes, Pending(d)
  PROVE  d \in IterAt(queue, NoNode)
BY DEF IterAt, Pending

\* The counts of the nodes are natural numbers.
LEMMA CountsAreNaturals ==
  ASSUME TypeOK
  PROVE  /\ \A d \in Nodes : Count(d) \in Nat /\ Count(d) <= UsizeMax
         /\ \A d \in Nodes : Prio(d) \in Priorities /\ entry[d].within \in BOOLEAN
BY UsizeAssumption DEF TypeOK, Entries, Count, Prio

-----------------------------------------------------------------------------
\* What the queue operations do to the order.

\* Dequeueing.
LEMMA DequeueKeepsOrder ==
  ASSUME TypeOK, NEW n \in Nodes, Queued(queue, n), queue' = Dequeue(queue, n)
  PROVE  /\ queue' \in Seq(Nodes) /\ Injective(queue')
         /\ ~Queued(queue', n) /\ OrderKept(n)
<1>1. Injective(queue) /\ queue \in Seq(Nodes)
  BY DEF TypeOK
<1> QED
  BY <1>1, DequeueKeepsDistinct, DequeueOrder DEF OrderKept

\* Enqueueing: the node is behind no one it is Greater than, by its verdict v,
\* and before no one it is Less than.
LEMMA EnqueueKeepsOrder ==
  ASSUME TypeOK, NEW n \in Nodes, ~Queued(queue, n),
         NEW e, NEW held, NEW w, queue' \in Enqueued(queue, n, e, held, w),
         NEW v, v = Verdict(e, held, w)
  PROVE  /\ queue' \in Seq(Nodes) /\ Injective(queue')
         /\ Queued(queue', n) /\ OrderKept(n)
         /\ \A a : Before(queue', a, n) => a \in Nodes \ {n} /\ v[a] # "Greater"
         /\ \A b : Before(queue', n, b) => b \in Nodes \ {n} /\ v[b] # "Less"
<1>1. PICK i \in EnqueuePositions(queue, v) : queue' = InsertAt(queue, i, n)
  BY DEF Enqueued
<1>2. Injective(queue) /\ queue \in Seq(Nodes)
  BY DEF TypeOK
<1>3. /\ queue' \in Seq(Nodes) /\ Injective(queue')
      /\ \A d : Queued(queue', d) <=> d = n \/ Queued(queue, d)
      /\ \A a, b : a # n /\ b # n => (Before(queue', a, b) <=> Before(queue, a, b))
      /\ \A a : Before(queue', a, n) => a # n /\ v[a] # "Greater"
      /\ \A b : Before(queue', n, b) => b # n /\ v[b] # "Less"
  BY <1>1, <1>2, EnqueueOrder
<1>4. \A a, b : Before(queue', a, b) => a \in Nodes /\ b \in Nodes
  BY <1>3 DEF Before
<1> QED
  BY <1>3, <1>4 DEF OrderKept

\* update_node: wherever the node is now, it stands there by one of its two
\* comparisons.
LEMMA RepositionKeepsOrder ==
  ASSUME TypeOK, NEW n \in Nodes, Queued(queue, n),
         NEW w, queue' \in Repositioned(queue, n, w)
  PROVE  /\ queue' \in Seq(Nodes) /\ Injective(queue')
         /\ Queued(queue', n) /\ OrderKept(n)
         /\ \E v \in {Standing(Prio(n), w), Verdict(entry[n], TRUE, w)} :
              /\ \A a : Before(queue', a, n) => a \in Nodes \ {n} /\ v[a] # "Greater"
              /\ \A b : Before(queue', n, b) => b \in Nodes \ {n} /\ v[b] # "Less"
<1> DEFINE q == Dequeue(queue, n)
<1>1. Injective(queue) /\ queue \in Seq(Nodes)
  BY DEF TypeOK
<1>2. /\ q \in Seq(Nodes) /\ Injective(q) /\ ~Queued(q, n)
      /\ \A d : Queued(q, d) <=> d # n /\ Queued(queue, d)
      /\ \A a, b : Before(q, a, b) <=> a # n /\ b # n /\ Before(queue, a, b)
  BY <1>1, DequeueKeepsDistinct, DequeueOrder
<1>3. queue = InsertAt(q, IndexOf(queue, n), n)
  BY <1>1, InsertWhereItWas
<1>4. PICK v \in {Standing(Prio(n), w), Verdict(entry[n], TRUE, w)} :
        \E i \in EnqueuePositions(q, v) : queue' = InsertAt(q, i, n)
  <2> HIDE DEF q
  <2>1. CASE queue' = queue /\ IndexOf(queue, n) \in EnqueuePositions(q, Standing(Prio(n), w))
    BY <1>3, <2>1
  <2>2. CASE queue' \in Enqueued(q, n, entry[n], TRUE, w)
    BY <2>2 DEF Enqueued
  <2> QED
    BY <2>1, <2>2 DEF Repositioned, q
<1> HIDE DEF q
<1>5. /\ queue' \in Seq(Nodes) /\ Injective(queue')
      /\ \A d : Queued(queue', d) <=> d = n \/ Queued(q, d)
      /\ \A a, b : a # n /\ b # n => (Before(queue', a, b) <=> Before(q, a, b))
      /\ \A a : Before(queue', a, n) => a # n /\ v[a] # "Greater"
      /\ \A b : Before(queue', n, b) => b # n /\ v[b] # "Less"
  BY <1>2, <1>4, EnqueueOrder
<1>6. \A a, b : Before(queue', a, b) => a \in Nodes /\ b \in Nodes
  BY <1>5 DEF Before
<1>7. OrderKept(n) /\ Queued(queue', n)
  BY <1>2, <1>5 DEF OrderKept
<1> QED
  BY <1>4, <1>5, <1>6, <1>7

\* What a node's verdict on another says of the two.
LEMMA VerdictMeans ==
  ASSUME TypeOK, NEW e \in Entries, NEW held \in BOOLEAN, NEW w, NEW d \in Nodes,
         NEW v, v = Verdict(e, held, w) \/ (held /\ v = Standing(e.priority, w))
  PROVE  /\ v[d] # "Greater" =>
              /\ held => HasLock(w[d])
              /\ (HasLock(w[d]) <=> held) => Compare(e.priority, Prio(d)) # "Greater"
         /\ v[d] # "Less" =>
              /\ HasLock(w[d]) => held
              /\ (HasLock(w[d]) <=> held)
                   => /\ Compare(Prio(d), e.priority) # "Greater"
                      /\ Compare(e.priority, Prio(d)) # "Less"
<1> DEFINE c  == Compare(e.priority, Prio(d))
           cn == CompareNew(e.priority, Prio(d))
<1>1. e.priority \in Priorities /\ Prio(d) \in Priorities
  BY CountsAreNaturals DEF Entries
<1>2. /\ Compare(Prio(d), e.priority) = "Greater" <=> c = "Less"
      /\ c # "Equal" => cn = c
  BY <1>1, PriorityContract DEF Contract
<1>3. HasLock(w[d]) \in BOOLEAN
  BY DEF HasLock
<1> HIDE DEF c, cn
<1>4. CASE v = Verdict(e, held, w)
  <2>1. v[d] = IF held # HasLock(w[d]) THEN (IF held THEN "Greater" ELSE "Less")
               ELSE IF held THEN cn ELSE SmallerFirst(cn, e.count, Count(d))
    BY <1>4 DEF Verdict, cn
  <2>2. SmallerFirst(cn, e.count, Count(d)) # "Greater" => cn # "Greater"
    BY DEF SmallerFirst
  <2>3. SmallerFirst(cn, e.count, Count(d)) # "Less" => cn # "Less"
    BY DEF SmallerFirst
  <2>4. CASE held # HasLock(w[d])
    BY <1>3, <2>1, <2>4
  <2>5. CASE held = HasLock(w[d])
    <3>1. (v[d] # "Greater" => cn # "Greater") /\ (v[d] # "Less" => cn # "Less")
      BY <2>1, <2>2, <2>3, <2>5
    <3>2. (cn # "Greater" => c # "Greater") /\ (cn # "Less" => c # "Less")
      BY <1>2
    <3> QED
      BY <1>2, <1>3, <2>5, <3>1, <3>2 DEF c
  <2> QED
    BY <2>4, <2>5
<1>5. CASE held /\ v = Standing(e.priority, w)
  <2>1. v[d] = IF HasLock(w[d]) THEN c ELSE "Greater"
    BY <1>5 DEF Standing, c
  <2> QED
    BY <1>2, <1>3, <1>5, <2>1 DEF c
<1> QED
  BY <1>4, <1>5

\* A node that has its verdict on all others is in its place.
LEMMA VerdictPlaces ==
  ASSUME TypeOK, NEW n \in Nodes, OthersKeep(n),
         NEW e \in Entries, NEW held \in BOOLEAN, NEW w,
         \A d \in Nodes \ {n} : HasLock(w[d]) <=> HasLock(waiter[d]),
         entry'[n].priority = e.priority, HasLock(waiter'[n]) <=> held,
         NEW v, v = Verdict(e, held, w) \/ (held /\ v = Standing(e.priority, w)),
         \A a : Before(queue', a, n) => a \in Nodes \ {n} /\ v[a] # "Greater",
         \A b : Before(queue', n, b) => b \in Nodes \ {n} /\ v[b] # "Less"
  PROVE  Placed(n)
<1>1. ASSUME NEW d \in Nodes \ {n}
      PROVE  /\ HasLock(w[d]) <=> HasLock(waiter'[d])
             /\ entry'[d].priority = Prio(d)
  BY <1>1, FlagsKept DEF OthersKeep, Prio
<1>2. ASSUME NEW a \in Nodes, Before(queue', a, n)
      PROVE  /\ HasLock(waiter'[n]) => HasLock(waiter'[a])
             /\ (HasLock(waiter'[a]) <=> HasLock(waiter'[n]))
                  => Compare(entry'[n].priority, entry'[a].priority) # "Greater"
  <2>1. a \in Nodes \ {n} /\ v[a] # "Greater"
    BY <1>2
  <2>2. /\ held => HasLock(w[a])
        /\ (HasLock(w[a]) <=> held) => Compare(e.priority, Prio(a)) # "Greater"
    BY <2>1, VerdictMeans
  <2> QED
    BY <1>1, <2>1, <2>2
<1>3. ASSUME NEW b \in Nodes, Before(queue', n, b)
      PROVE  /\ HasLock(waiter'[b]) => HasLock(waiter'[n])
             /\ (HasLock(waiter'[b]) <=> HasLock(waiter'[n]))
                  => Compare(entry'[b].priority, entry'[n].priority) # "Greater"
  <2>1. b \in Nodes \ {n} /\ v[b] # "Less"
    BY <1>3
  <2>2. /\ HasLock(w[b]) => held
        /\ (HasLock(w[b]) <=> held) => Compare(Prio(b), e.priority) # "Greater"
    BY <2>1, VerdictMeans
  <2> QED
    BY <1>1, <2>1, <2>2
<1> QED
  BY <1>2, <1>3 DEF Placed

-----------------------------------------------------------------------------
\* The permits that are held.

\* They are finitely many, and whoever holds some holds no more than there are.
LEMMA SumHeldType ==
  ASSUME TypeOK
  PROVE  /\ IsFiniteSet(HeldNodes) /\ SumHeld \in Nat
         /\ \A n \in HeldNodes : Count(n) \in Nat /\ Count(n) <= SumHeld
<1> DEFINE f == [n \in Nodes |-> Count(n)]
<1>1. IsFiniteSet(HeldNodes) /\ HeldNodes \subseteq Nodes
  BY NodesAssumption, FS_Subset, HeldNodes \subseteq Nodes DEF HeldNodes
<1>2. \A n \in HeldNodes : f[n] = Count(n) /\ f[n] \in Nat
  BY <1>1, CountsAreNaturals
<1> HIDE DEF f
<1>3. SumFunctionOnSet(f, HeldNodes) \in Nat
  BY <1>1, <1>2, SumType
<1>4. \A n \in HeldNodes : f[n] <= SumFunctionOnSet(f, HeldNodes)
  BY <1>1, <1>2, SumBounds
<1>5. SumHeld = SumFunctionOnSet(f, HeldNodes)
  BY DEF SumHeld, f
<1> QED
  BY <1>1, <1>2, <1>3, <1>4, <1>5

\* How they change when one node alone changes what it holds.
LEMMA SumHeldChanges ==
  ASSUME TypeOK, entry' \in [Nodes -> Entries],
         NEW x, OthersKeep(x), OrderKept(x),
         \A d \in HeldNodes \ {x} : entry'[d].count = entry[d].count
  PROVE  /\ SumHeld' \in Nat
         /\ SumHeld' + (IF x \in HeldNodes THEN entry[x].count ELSE 0)
              = SumHeld + (IF x \in HeldNodes' THEN entry'[x].count ELSE 0)
<1> DEFINE f == [n \in Nodes |-> Count(n)]
           g == [n \in Nodes |-> entry'[n].count]
<1>1. /\ IsFiniteSet(HeldNodes) /\ HeldNodes \subseteq Nodes
      /\ IsFiniteSet(HeldNodes') /\ HeldNodes' \subseteq Nodes
  BY NodesAssumption, FS_Subset, HeldNodes \subseteq Nodes, HeldNodes' \subseteq Nodes
     DEF HeldNodes
<1>2. \A n \in Nodes : f[n] = entry[n].count /\ f[n] \in Nat
  BY CountsAreNaturals DEF Count
<1>3. \A n \in Nodes : g[n] = entry'[n].count /\ g[n] \in Nat
  BY UsizeAssumption DEF Entries
<1>4. HeldNodes \ {x} = HeldNodes' \ {x}
  <2>1. ASSUME NEW d \in Nodes \ {x} PROVE d \in HeldNodes <=> d \in HeldNodes'
    BY <2>1, FlagsKept DEF HeldNodes, Held, OrderKept
  <2> QED
    BY <1>1, <2>1
<1>5. \A d \in HeldNodes \ {x} : f[d] = g[d]
  BY <1>1, <1>2, <1>3
<1>6. SumHeld = SumFunctionOnSet(f, HeldNodes)
  BY DEF SumHeld
<1>7. SumHeld' = SumFunctionOnSet(g, HeldNodes')
  BY DEF SumHeld, Count
<1> HIDE DEF f, g
<1>8. SumFunctionOnSet(g, HeldNodes') + (IF x \in HeldNodes THEN f[x] ELSE 0)
        = SumFunctionOnSet(f, HeldNodes) + (IF x \in HeldNodes' THEN g[x] ELSE 0)
  BY <1>1, <1>2, <1>3, <1>4, <1>5, SumOfOneChange
<1>9. /\ x \in HeldNodes => f[x] = entry[x].count
      /\ x \in HeldNodes' => g[x] = entry'[x].count
  BY <1>1, <1>2, <1>3
<1>10. SumFunctionOnSet(g, HeldNodes') \in Nat
  BY <1>1, <1>3, SumType
<1> QED
  BY <1>6, <1>7, <1>8, <1>9, <1>10

\* A step in which no node changes what it holds.
LEMMA SumHeldStays ==
  ASSUME TypeOK, entry' \in [Nodes -> Entries],
         NEW x, OthersKeep(x), OrderKept(x),
         \A d \in HeldNodes : entry'[d].count = entry[d].count,
         x \in HeldNodes <=> x \in HeldNodes'
  PROVE  SumHeld' = SumHeld
<1>1. SumHeld \in Nat
  BY SumHeldType
<1>2. /\ SumHeld' \in Nat
      /\ SumHeld' + (IF x \in HeldNodes THEN entry[x].count ELSE 0)
           = SumHeld + (IF x \in HeldNodes' THEN entry'[x].count ELSE 0)
  BY SumHeldChanges
<1>3. x \in HeldNodes => entry[x].count \in Nat
  BY CountsAreNaturals DEF Count, HeldNodes
<1> QED
  BY <1>1, <1>2, <1>3

-----------------------------------------------------------------------------
\* The steps that leave the queue alone.

\* What a poll or the drop of a future keeps: it changes one cell, and no flag.
LEMMA PollKeepsIInv ==
  ASSUME IInv, NEW n \in Nodes, NEW w \in Cell,
         NEW p \in PCs \ {"idle"},
         pc[n] # "idle",
         w.flags = waiter[n].flags,
         p \in {"held", "listening"} => HasLock(waiter[n]),
         p \in {"parked", "listening"} => w.armed,
         p = "parked" => /\ ~HasLock(waiter[n])
                         /\ ~(entry[n].within /\ WantsEvict(waiter[n])),
         p = "listening" => ~WantsEvict(waiter[n]),
         waiter' = [waiter EXCEPT ![n] = w],
         pc' = [pc EXCEPT ![n] = p],
         UNCHANGED <<queue, available, total, entry, walk>>
  PROVE  IInv'
<1>1. TypeOK /\ waiter \in [Nodes -> Cell] /\ pc \in [Nodes -> PCs]
  BY DEF IInv, TypeOK
<1>2. \A d \in Nodes : waiter'[d].flags = waiter[d].flags
  BY <1>1
<1>3. \A d \in Nodes : /\ HasLock(waiter'[d]) <=> HasLock(waiter[d])
                       /\ WantsEvict(waiter'[d]) <=> WantsEvict(waiter[d])
  BY <1>2 DEF HasLock, WantsEvict
<1>4. OthersKeep(n) /\ OrderKept(n)
  BY <1>1 DEF OthersKeep, OrderKept
<1>5. TypeOK'
  <2>1. \A d \in Nodes : /\ Queued(queue, d) <=> pc'[d] # "idle"
                         /\ pc'[d] \in {"held", "listening"} => HasLock(waiter'[d])
    BY <1>1, <1>3 DEF TypeOK
  <2> QED
    BY <1>1, <2>1 DEF TypeOK
<1>6. HoldersFirst' /\ InPriorityOrder'
  BY <1>3 DEF IInv, HoldersFirst, InPriorityOrder, Prio
<1>7. NextInLine'
  BY <1>3 DEF IInv, NextInLine, Unlocked, Pending, AllHoldBefore, Count
<1>8. WalkInv'
  BY <1>3 DEF IInv, WalkInv, Unlocked, Count
<1>9. WakeInv'
  <2>1. waiter'[n] = w /\ pc'[n] = p
    BY <1>1
  <2>2. Awaits(n)'
    BY <1>3, <2>1 DEF Awaits
  <2> QED
    BY <1>1, <1>4, <2>2, WakeKept DEF IInv
<1>10. SupplyInv'
  <2>1. HeldNodes' = HeldNodes
    BY <1>3 DEF HeldNodes, Held
  <2>2. SumHeld' = SumHeld
    BY <2>1 DEF SumHeld, Count
  <2> QED
    BY <2>2 DEF IInv, SupplyInv
<1>11. WithinNeedsTotal'
  BY DEF IInv, WithinNeedsTotal
<1>12. OversizedAreRefused'
  BY <1>3 DEF IInv, OversizedAreRefused, Pending, Count
<1> QED
  BY <1>5, <1>6, <1>7, <1>8, <1>9, <1>10, <1>11, <1>12 DEF IInv

\* PollAcquire preserves the inductive invariant.
LEMMA PollAcquireKeepsIInv ==
  ASSUME IInv, NEW n \in Nodes, PollAcquire(n)
  PROVE  IInv'
<1>1. waiter[n] \in Cell /\ pc[n] # "idle"
  BY DEF IInv, TypeOK, PollAcquire
<1>2. UNCHANGED <<queue, available, total, entry, walk>>
  BY DEF PollAcquire
<1>3. CASE HasLock(waiter[n])
  <2>1. /\ waiter' = [waiter EXCEPT ![n] = ClearWaker(waiter[n])]
        /\ pc' = [pc EXCEPT ![n] = "held"]
    BY <1>3 DEF PollAcquire
  <2> QED
    BY <1>1, <1>2, <1>3, <2>1, WaitProperties, PollKeepsIInv DEF PCs
<1>4. CASE ~HasLock(waiter[n]) /\ entry[n].within /\ WantsEvict(waiter[n])
  <2>1. /\ waiter' = [waiter EXCEPT ![n] = ClearWaker(waiter[n])]
        /\ pc' = [pc EXCEPT ![n] = "dropping"]
    BY <1>4 DEF PollAcquire
  <2> QED
    BY <1>1, <1>2, <2>1, WaitProperties, PollKeepsIInv DEF PCs
<1>5. CASE ~HasLock(waiter[n]) /\ ~(entry[n].within /\ WantsEvict(waiter[n]))
  <2>1. /\ waiter' = [waiter EXCEPT ![n] = Park(waiter[n])]
        /\ pc' = [pc EXCEPT ![n] = "parked"]
    BY <1>5 DEF PollAcquire
  <2> QED
    BY <1>1, <1>2, <1>5, <2>1, WaitProperties, PollKeepsIInv DEF PCs
<1> QED
  BY <1>3, <1>4, <1>5

\* CancelAcquire preserves the inductive invariant.
LEMMA CancelAcquireKeepsIInv ==
  ASSUME IInv, NEW n \in Nodes, CancelAcquire(n)
  PROVE  IInv'
<1>1. waiter[n] \in Cell /\ pc[n] # "idle"
  BY DEF IInv, TypeOK, CancelAcquire
<1>2. /\ waiter' = [waiter EXCEPT ![n] = ClearWaker(waiter[n])]
      /\ pc' = [pc EXCEPT ![n] = "dropping"]
      /\ UNCHANGED <<queue, available, total, entry, walk>>
  BY DEF CancelAcquire
<1> QED
  BY <1>1, <1>2, WaitProperties, PollKeepsIInv DEF PCs

\* PollEvicted preserves the inductive invariant.
LEMMA PollEvictedKeepsIInv ==
  ASSUME IInv, NEW n \in Nodes, PollEvicted(n)
  PROVE  IInv'
<1>1. waiter[n] \in Cell /\ HasLock(waiter[n]) /\ pc[n] # "idle"
  BY DEF IInv, TypeOK, PollEvicted
<1>2. UNCHANGED <<queue, available, total, entry, walk>>
  BY DEF PollEvicted
<1>3. CASE WantsEvict(waiter[n])
  <2>1. /\ waiter' = [waiter EXCEPT ![n] = ClearWaker(waiter[n])]
        /\ pc' = [pc EXCEPT ![n] = "held"]
    BY <1>3 DEF PollEvicted
  <2> QED
    BY <1>1, <1>2, <2>1, WaitProperties, PollKeepsIInv DEF PCs
<1>4. CASE ~WantsEvict(waiter[n])
  <2>1. /\ waiter' = [waiter EXCEPT ![n] = Park(waiter[n])]
        /\ pc' = [pc EXCEPT ![n] = "listening"]
    BY <1>4 DEF PollEvicted
  <2> QED
    BY <1>1, <1>2, <1>4, <2>1, WaitProperties, PollKeepsIInv DEF PCs
<1> QED
  BY <1>3, <1>4

\* CancelEvicted preserves the inductive invariant.
LEMMA CancelEvictedKeepsIInv ==
  ASSUME IInv, NEW n \in Nodes, CancelEvicted(n)
  PROVE  IInv'
<1>1. waiter[n] \in Cell /\ HasLock(waiter[n]) /\ pc[n] # "idle"
  BY DEF IInv, TypeOK, CancelEvicted
<1>2. /\ waiter' = [waiter EXCEPT ![n] = ClearWaker(waiter[n])]
      /\ pc' = [pc EXCEPT ![n] = "held"]
      /\ UNCHANGED <<queue, available, total, entry, walk>>
  BY DEF CancelEvicted
<1> QED
  BY <1>1, <1>2, WaitProperties, PollKeepsIInv DEF PCs

\* What a step keeps that leaves the nodes and their order alone.
LEMMA NodesUnchangedKeepsIInv ==
  ASSUME IInv, UNCHANGED <<queue, entry, waiter, pc>>,
         available' \in 0 .. UsizeMax, total' \in Nat, total' >= total,
         walk' \in Nodes \union {NoNode},
         walk' # NoNode => Queued(queue, walk'),
         NextInLine', WalkInv', SupplyInv'
  PROVE  IInv'
<1>1. TypeOK'
  BY DEF IInv, TypeOK
<1>2. HoldersFirst' /\ InPriorityOrder'
  BY DEF IInv, HoldersFirst, InPriorityOrder, Prio
<1>3. WakeInv'
  BY DEF IInv, WakeInv, Awaits
<1>4. WithinNeedsTotal'
  BY DEF IInv, WithinNeedsTotal
<1>5. OversizedAreRefused'
  <2>1. \A d \in Nodes : Count(d) \in Nat
    BY CountsAreNaturals DEF IInv
  <2>2. total \in Nat
    BY DEF IInv, TypeOK
  <2>3. ASSUME NEW d \in Nodes PROVE Count(d) > total' => Count(d) > total
    BY <2>1, <2>2
  <2> QED
    BY <2>3 DEF IInv, OversizedAreRefused, Pending, Count
<1> QED
  BY <1>1, <1>2, <1>3, <1>4, <1>5 DEF IInv

\* add_permits starts activate_waiters at the head, behind nobody.
LEMMA AddPermitsKeepsIInv ==
  ASSUME IInv, NEW c \in Counts, AddPermits(c)
  PROVE  IInv'
<1>1. /\ UNCHANGED <<queue, entry, waiter, pc>>
      /\ total' = total + c /\ available' = available + c /\ walk' = HeadNode
      /\ total + c <= MaxSupply
      /\ IF Total THEN total + c <= UsizeMax ELSE available + c <= UsizeMax
  BY DEF AddPermits
<1>2. /\ TypeOK /\ available \in 0 .. UsizeMax /\ total \in Nat
      /\ SumHeld \in Nat /\ c \in Nat /\ UsizeMax \in Nat
  BY SumHeldType, UsizeAssumption DEF IInv, TypeOK
<1>3. SumHeld' = SumHeld
  BY <1>1 DEF SumHeld, HeldNodes, Held, Count
<1>4. SupplyInv' /\ available' \in 0 .. UsizeMax /\ total' \in Nat /\ total' >= total
  <2>1. available + SumHeld <= total
    BY DEF IInv, SupplyInv
  <2>2. available + c <= UsizeMax
    BY <1>1, <1>2, <2>1
  <2> QED
    BY <1>1, <1>2, <1>3, <2>2, SupplyAssumption DEF IInv, SupplyInv, NeverWraps
<1>5. /\ HeadNode # NoNode =>
           /\ HeadNode \in Nodes /\ Queued(queue, HeadNode)
           /\ \A d : ~Before(queue, d, HeadNode)
      /\ HeadNode = NoNode => \A d : ~Queued(queue, d)
  BY <1>2, HeadNodeProperties
<1>6. WalkInv' /\ NextInLine'
  BY <1>1, <1>5 DEF WalkInv, NextInLine, Unlocked, Pending
<1> QED
  BY <1>1, <1>4, <1>5, <1>6, NodesUnchangedKeepsIInv

\* A node that holds permits is skipped: those before the next one hold some,
\* or were passed before.
LEMMA SkipHolderKeepsIInv ==
  ASSUME IInv, SkipHolder
  PROVE  IInv'
<1>1. PICK n \in Nodes : n = walk
  BY DEF IInv, TypeOK, SkipHolder
<1>2. /\ UNCHANGED <<queue, available, total, entry, waiter, pc>>
      /\ HasLock(waiter[n]) /\ walk' = NextOf(n) /\ n # NoNode
  BY <1>1 DEF SkipHolder
<1>3. TypeOK /\ Queued(queue, n)
  BY <1>1, <1>2 DEF IInv, TypeOK
<1>4. /\ NextOf(n) # NoNode =>
           /\ NextOf(n) \in Nodes /\ Queued(queue, NextOf(n)) /\ NextOf(n) # n
           /\ \A d : Before(queue, d, NextOf(n)) <=> d = n \/ Before(queue, d, n)
      /\ NextOf(n) = NoNode =>
           \A d : Queued(queue, d) <=> d = n \/ Before(queue, d, n)
  BY <1>3, NextOfProperties
<1>5. \A d \in Nodes : Before(queue, d, n) /\ ~HasLock(waiter[d])
        => Total /\ WantsEvict(waiter[d]) /\ Count(d) > available
  BY <1>1, <1>2 DEF IInv, WalkInv, Unlocked
<1>6. WalkInv'
  BY <1>2, <1>4, <1>5 DEF WalkInv, Unlocked, Count
<1>7. NextInLine'
  BY <1>2, <1>4, <1>5 DEF NextInLine, Unlocked, Pending, Count
<1>8. SupplyInv'
  BY <1>2 DEF IInv, SupplyInv, SumHeld, HeldNodes, Held, Count
<1>9. available' \in 0 .. UsizeMax /\ total' \in Nat /\ total' >= total
  BY <1>2 DEF IInv, TypeOK
<1> QED
  BY <1>2, <1>4, <1>6, <1>7, <1>8, <1>9, NodesUnchangedKeepsIInv

\* A request that needs more than there is ends the loop, unless it was refused.
LEMMA PassOrStopKeepsIInv ==
  ASSUME IInv, PassOrStop
  PROVE  IInv'
<1>1. PICK n \in Nodes : n = walk
  BY DEF IInv, TypeOK, PassOrStop
<1>2. /\ UNCHANGED <<queue, available, total, entry, waiter, pc>>
      /\ ~HasLock(waiter[n]) /\ n # NoNode /\ Count(n) > available
      /\ walk' = IF Total /\ WantsEvict(waiter[n]) THEN NextOf(n) ELSE NoNode
  BY <1>1 DEF PassOrStop
<1>3. TypeOK /\ Queued(queue, n)
  BY <1>1, <1>2 DEF IInv, TypeOK
<1>4. /\ NextOf(n) # NoNode =>
           /\ NextOf(n) \in Nodes /\ Queued(queue, NextOf(n)) /\ NextOf(n) # n
           /\ \A d : Before(queue, d, NextOf(n)) <=> d = n \/ Before(queue, d, n)
      /\ NextOf(n) = NoNode =>
           \A d : Queued(queue, d) <=> d = n \/ Before(queue, d, n)
  BY <1>3, NextOfProperties
<1>5. \A d \in Nodes : Before(queue, d, n) /\ ~HasLock(waiter[d])
        => Total /\ WantsEvict(waiter[d]) /\ Count(d) > available
  BY <1>1, <1>2 DEF IInv, WalkInv, Unlocked
<1>6. WalkInv'
  BY <1>2, <1>4, <1>5 DEF WalkInv, Unlocked, Count
<1>7. NextInLine'
  <2>1. SUFFICES ASSUME walk' = NoNode, NEW d \in Nodes, Pending(d), AllHoldBefore(d)
                 PROVE  Count(d) > available
    BY <1>2 DEF NextInLine, Unlocked, Pending, AllHoldBefore, Count
  <2>2. CASE d = n \/ Before(queue, d, n)
    BY <1>2, <1>5, <2>1, <2>2 DEF Pending
  <2>3. CASE d # n /\ ~Before(queue, d, n)
    <3>1. Before(queue, n, d)
      BY <1>3, <2>1, <2>3, BeforeIsOrder DEF TypeOK, Pending
    <3> QED
      BY <1>2, <2>1, <3>1 DEF AllHoldBefore
  <2> QED
    BY <2>2, <2>3
<1>8. SupplyInv'
  BY <1>2 DEF IInv, SupplyInv, SumHeld, HeldNodes, Held, Count
<1>9. available' \in 0 .. UsizeMax /\ total' \in Nat /\ total' >= total
  BY <1>2 DEF IInv, TypeOK
<1> QED
  BY <1>2, <1>4, <1>6, <1>7, <1>8, <1>9, NodesUnchangedKeepsIInv

-----------------------------------------------------------------------------
\* What the steps about one node have in common.

\* The state keeps its shape if the part of x does.
LEMMA TypeStays ==
  ASSUME TypeOK, NEW x, OthersKeep(x), OrderKept(x),
         queue' \in Seq(Nodes), Injective(queue'),
         available' \in 0 .. UsizeMax, total' \in Nat,
         entry' \in [Nodes -> Entries],
         waiter' = [d \in Nodes |-> waiter'[d]], pc' \in [Nodes -> PCs],
         walk' \in Nodes \union {NoNode}, walk' # NoNode => Queued(queue', walk'),
         x \in Nodes =>
           /\ waiter'[x] \in Cell
           /\ Queued(queue', x) <=> pc'[x] # "idle"
           /\ pc'[x] \in {"held", "listening"} => HasLock(waiter'[x])
  PROVE  TypeOK'
<1>1. ASSUME NEW d \in Nodes
      PROVE  /\ waiter'[d] \in Cell
             /\ Queued(queue', d) <=> pc'[d] # "idle"
             /\ pc'[d] \in {"held", "listening"} => HasLock(waiter'[d])
  <2>1. CASE d = x
    BY <2>1
  <2>2. CASE d # x
    <3>1. /\ waiter'[d] \in Cell
          /\ HasLock(waiter'[d]) <=> HasLock(waiter[d])
      BY <2>2, FlagsKept
    <3>2. pc'[d] = pc[d] /\ (Queued(queue', d) <=> Queued(queue, d))
      BY <2>2 DEF OthersKeep, OrderKept
    <3> QED
      BY <3>1, <3>2 DEF TypeOK
  <2> QED
    BY <2>1, <2>2
<1>2. waiter' \in [Nodes -> Cell]
  BY <1>1
<1> QED
  BY <1>1, <1>2 DEF TypeOK

\* Nobody's turn comes by a step that frees no permits, if a request that goes
\* was not the first in line and one that comes has to wait.
LEMMA LineStays ==
  ASSUME TypeOK, NextInLine, Unlocked, NEW x, OthersKeep(x), OrderKept(x),
         available' \in Nat, available' <= available,
         x \in Nodes /\ Pending(x)' /\ AllHoldBefore(x)'
           => available' = 0 \/ entry'[x].count > available',
         x \in Nodes /\ Queued(queue, x)
           => HasLock(waiter[x]) \/ available' = 0 \/ ~AllHoldBefore(x)
  PROVE  NextInLine'
<1> SUFFICES ASSUME NEW d \in Nodes \ {x}, Pending(d)', AllHoldBefore(d)',
                    available' # 0
             PROVE  entry'[d].count > available'
  BY DEF NextInLine, Count
<1>1. Pending(d)
  BY FlagsKept DEF Pending, OrderKept
<1>2. entry'[d].count = Count(d) /\ Count(d) \in Nat /\ available \in Nat
  BY <1>1, CountsAreNaturals, UsizeAssumption DEF TypeOK, OthersKeep, Pending, Count
<1>3. ASSUME NEW b \in Nodes \ {x}, Before(queue, b, d) PROVE HasLock(waiter[b])
  BY <1>3, FlagsKept DEF OrderKept, AllHoldBefore
<1>4. ASSUME x \in Nodes, Before(queue, x, d) PROVE HasLock(waiter[x])
  <2>1. SUFFICES ASSUME ~HasLock(waiter[x]) PROVE FALSE
    OBVIOUS
  <2>2. /\ \A a, b : Before(queue, a, b) => Queued(queue, a) /\ a # b
        /\ \A a, b, c : Before(queue, a, b) /\ Before(queue, b, c)
                          => Before(queue, a, c)
    BY BeforeIsOrder DEF TypeOK
  <2>3. ~AllHoldBefore(x)
    BY <1>4, <2>1, <2>2
  <2>4. PICK k \in Nodes : Before(queue, k, x) /\ ~HasLock(waiter[k])
    BY <2>3 DEF AllHoldBefore
  <2>5. k \in Nodes \ {x} /\ Before(queue, k, d)
    BY <1>4, <2>2, <2>4
  <2> QED
    BY <1>3, <2>4, <2>5
<1>5. AllHoldBefore(d)
  BY <1>3, <1>4 DEF AllHoldBefore
<1>6. available = 0 \/ Count(d) > available
  BY <1>1, <1>5 DEF NextInLine
<1> QED
  BY <1>2, <1>6

\* Whoever goes while all those before it hold permits may start
\* activate_waiters behind it; if nobody is behind it, then nobody waits.
LEMMA NextTakesOver ==
  ASSUME TypeOK, NEW n \in Nodes, Queued(queue, n), AllHoldBefore(n),
         OthersKeep(n), OrderKept(n), ~Queued(queue', n), walk' = NextOf(n)
  PROVE  /\ NextInLine' /\ WalkInv'
         /\ walk' \in Nodes \union {NoNode}
         /\ walk' # NoNode => Queued(queue', walk')
<1>1. /\ NextOf(n) # NoNode =>
           /\ NextOf(n) \in Nodes /\ Queued(queue, NextOf(n)) /\ NextOf(n) # n
           /\ \A d : Before(queue, d, NextOf(n)) <=> d = n \/ Before(queue, d, n)
      /\ NextOf(n) = NoNode =>
           \A d : Queued(queue, d) <=> d = n \/ Before(queue, d, n)
  BY NextOfProperties
<1>2. \A d : ~Before(queue', d, n) /\ ~Before(queue', n, d)
  BY GoneIsPlaced
<1>3. \A d \in Nodes \ {n} : HasLock(waiter'[d]) <=> HasLock(waiter[d])
  BY FlagsKept
<1>4. CASE NextOf(n) = NoNode
  <2>1. \A d \in Nodes \ {n} : Queued(queue', d) => HasLock(waiter'[d])
    BY <1>1, <1>3, <1>4 DEF OrderKept, AllHoldBefore
  <2> QED
    BY <1>4, <2>1 DEF NextInLine, WalkInv, Unlocked, Pending
<1>5. CASE NextOf(n) # NoNode
  <2> DEFINE m == NextOf(n)
  <2>1. m \in Nodes \ {n} /\ Queued(queue', m)
    BY <1>1, <1>5 DEF OrderKept
  <2>2. \A d \in Nodes : Before(queue', d, m) => HasLock(waiter'[d])
    <3>1. \A d \in Nodes \ {n} : Before(queue', d, m) => Before(queue, d, m)
      BY <2>1 DEF OrderKept
    <3>2. \A d \in Nodes \ {n} : Before(queue, d, m) => HasLock(waiter[d])
      BY <1>1, <1>5 DEF AllHoldBefore
    <3> HIDE DEF m
    <3> QED
      BY <1>2, <1>3, <3>1, <3>2
  <2> QED
    BY <1>5, <2>1, <2>2 DEF NextInLine, WalkInv, Unlocked
<1> QED
  BY <1>4, <1>5

\* Whoever holds permits has only holders before it.
LEMMA HoldersAreAhead ==
  ASSUME HoldersFirst, NEW n \in Nodes, HasLock(waiter[n])
  PROVE  AllHoldBefore(n)
BY DEF HoldersFirst, AllHoldBefore

\* A walk that starts at the node behind a permit which has just left the queue
\* meets every request, for no request was in front of a holder.
LEMMA WalkFromHolder ==
  ASSUME TypeOK, HoldersFirst, NEW n \in Nodes, Queued(queue, n), HasLock(waiter[n]),
         queue' = Dequeue(queue, n), NEW d \in Nodes, Pending(d)
  PROVE  NextOf(n) # NoNode /\ d \in IterAt(queue', NextOf(n))
<1> DEFINE next == NextOf(n)
<1>1. d # n /\ ~Before(queue, d, n) /\ Queued(queue, d)
  BY DEF HoldersFirst, Pending
<1>2. /\ next # NoNode /\ next \in Nodes \ {n} /\ Queued(queue, next)
      /\ ~Before(queue, d, next)
  BY <1>1, NextOfProperties
<1> HIDE DEF next
<1>3. CASE d = next
  BY <1>2, <1>3 DEF next, IterAt
<1>4. CASE d # next
  <2>1. Before(queue, next, d)
    <3>1. PICK i \in 1 .. Len(queue), j \in 1 .. Len(queue) :
             queue[i] = next /\ queue[j] = d
      BY <1>1, <1>2 DEF Queued
    <3>2. i # j /\ ~(j < i) /\ i \in Nat /\ j \in Nat
      BY <1>2, <1>4, <3>1, LenProperties DEF Before, TypeOK
    <3> QED
      BY <3>1, <3>2 DEF Before
  <2>2. Before(queue', next, d)
    BY <1>1, <1>2, <2>1, DequeueKeepsOrder DEF OrderKept
  <2> QED
    BY <1>2, <2>2 DEF next, IterAt
<1> QED
  BY <1>3, <1>4

\* forget_permits preserves the inductive invariant.
LEMMA ForgetPermitsKeepsIInv ==
  ASSUME IInv, NEW c \in Counts, ForgetPermits(c)
  PROVE  IInv'
<1> DEFINE k == IF c < available THEN c ELSE available
<1>1. /\ UNCHANGED <<queue, entry, walk, pc>> /\ Unlocked
      /\ available' = available - k /\ total' = total - k
      /\ waiter' = IF Total /\ k # 0
                     THEN NotifyOversized(queue, NoNode, total')
                     ELSE waiter
  BY DEF ForgetPermits
<1>2. /\ TypeOK /\ available \in 0 .. UsizeMax /\ total \in Nat
      /\ SumHeld \in Nat /\ c \in Nat /\ UsizeMax \in Nat
      /\ available + SumHeld <= total
  BY SumHeldType, UsizeAssumption DEF IInv, TypeOK, SupplyInv
<1>3. k \in 0 .. available
  BY <1>2
<1> HIDE DEF k
<1>4. /\ available' \in 0 .. UsizeMax /\ total' \in Nat
      /\ available' <= available /\ (total' # total => k # 0)
  BY <1>1, <1>2, <1>3
<1>5. waiter' = [d \in Nodes |-> waiter'[d]]
  BY <1>1 DEF IInv, TypeOK, NotifyOversized
<1>6. OthersKeep(NoNode) /\ OrderKept(NoNode)
  BY <1>1, NotifyProperties DEF OthersKeep, OrderKept
<1>7. TypeOK'
  BY <1>1, <1>2, <1>4, <1>5, <1>6, TypeStays, NodesAssumption DEF TypeOK
<1>8. HoldersFirst' /\ InPriorityOrder'
  BY <1>2, <1>6, OrderStays, NodesAssumption DEF IInv
<1>9. NextInLine'
  BY <1>1, <1>2, <1>4, <1>6, LineStays, NodesAssumption DEF IInv
<1>10. WalkInv'
  BY <1>1 DEF WalkInv, Unlocked
<1>11. WakeInv'
  BY <1>2, <1>6, WakeKept, NodesAssumption DEF IInv
<1>12. SupplyInv'
  <2>1. NoNode \notin HeldNodes /\ NoNode \notin HeldNodes'
    BY NodesAssumption DEF HeldNodes
  <2>2. \A d \in HeldNodes : entry'[d].count = entry[d].count
    BY <1>1
  <2>3. entry' \in [Nodes -> Entries]
    BY <1>1, <1>2 DEF TypeOK
  <2>4. SumHeld' = SumHeld
    BY <1>2, <1>6, <2>1, <2>2, <2>3, SumHeldStays
  <2> QED
    BY <1>1, <1>2, <1>3, <2>4, SupplyAssumption DEF IInv, SupplyInv, NeverWraps
<1>13. WithinNeedsTotal'
  BY <1>1 DEF IInv, WithinNeedsTotal
<1>14. OversizedAreRefused'
  <2>1. ASSUME NEW d \in Nodes, Pending(d), entry[d].within, Count(d) > total',
               total' # total
        PROVE  WantsEvict(waiter'[d])
    <3>1. Total /\ k # 0
      BY <1>4, <2>1 DEF IInv, WithinNeedsTotal
    <3> QED
      BY <1>1, <2>1, <3>1, NotifyProperties, WalkFromHead
  <2> QED
    BY <1>2, <1>6, <2>1, OversizedStay, NodesAssumption DEF IInv
<1> QED
  BY <1>7, <1>8, <1>9, <1>10, <1>11, <1>12, <1>13, <1>14 DEF IInv

-----------------------------------------------------------------------------
\* The steps that take a node out of the queue.

\* A node that is not in use has a legal entry.
LEMMA BlankType == Blank \in Entries /\ ~Blank.within
BY PrioritiesAssumption, UsizeAssumption DEF Blank, Entries

\* An addition that wraps around yields no more than the one that does not.
LEMMA WrapProperties ==
  ASSUME NEW x \in Nat, NEW u \in Nat
  PROVE  /\ x % (u + 1) \in 0 .. u
         /\ x % (u + 1) <= x
         /\ x <= u => x % (u + 1) = x
<1>1. x % (u + 1) \in 0 .. u
  OBVIOUS
<1>2. x <= u => x % (u + 1) = x
  OBVIOUS
<1>3. x % (u + 1) <= x
  <2>1. CASE x <= u
    BY <1>2, <2>1
  <2>2. CASE x > u
    BY <1>1, <2>2
  <2> QED
    BY <2>1, <2>2
<1> QED
  BY <1>1, <1>2, <1>3

\* What the removals have in common: either activate_waiters starts behind the
\* node, or its going makes no difference to those behind.
LEMMA RemovalKeepsIInv ==
  ASSUME IInv, NEW n \in Nodes, Unlocked, pc[n] # "idle",
         queue' = Dequeue(queue, n), pc' = [pc EXCEPT ![n] = "idle"],
         waiter' = [d \in Nodes |-> waiter'[d]], waiter'[n] = NewCell(FALSE),
         entry' \in [Nodes -> Entries], entry'[n] = Blank, OthersKeep(n),
         available' \in 0 .. UsizeMax, total' \in Nat,
         \/ walk' = NextOf(n) /\ AllHoldBefore(n)
         \/ /\ walk' = NoNode /\ available' <= available
            /\ HasLock(waiter[n]) \/ available' = 0 \/ ~AllHoldBefore(n),
         \A d \in Nodes \ {n} :
           Pending(d) /\ entry[d].within /\ Count(d) > total' /\ total' # total
             => WantsEvict(waiter'[d]) \/ Count(d) > total,
         SupplyInv'
  PROVE  IInv'
<1>1. TypeOK /\ Queued(queue, n)
  BY DEF IInv, TypeOK
<1>2. /\ queue' \in Seq(Nodes) /\ Injective(queue')
      /\ ~Queued(queue', n) /\ OrderKept(n)
  BY <1>1, DequeueKeepsOrder
<1>3. /\ NextInLine' /\ WalkInv'
      /\ walk' \in Nodes \union {NoNode}
      /\ walk' # NoNode => Queued(queue', walk')
  <2>1. CASE walk' = NextOf(n) /\ AllHoldBefore(n)
    BY <1>1, <1>2, <2>1, NextTakesOver
  <2>2. CASE /\ walk' = NoNode /\ available' <= available
             /\ HasLock(waiter[n]) \/ available' = 0 \/ ~AllHoldBefore(n)
    <3>1. available' \in Nat /\ ~Pending(n)'
      <4>1. ~Pending(n)'
        BY <1>2 DEF Pending
      <4>2. available' \in Nat
        BY UsizeAssumption
      <4> QED
        BY <4>1, <4>2
    <3>2. NextInLine'
      BY <1>1, <1>2, <2>2, <3>1, LineStays DEF IInv
    <3> QED
      BY <2>2, <3>2 DEF WalkInv, Unlocked
  <2> QED
    BY <2>1, <2>2
<1>4. pc' \in [Nodes -> PCs] /\ pc'[n] = "idle"
  BY <1>1 DEF TypeOK, PCs
<1>5. TypeOK'
  BY <1>1, <1>2, <1>3, <1>4, NewCellType, TypeStays
<1>6. HoldersFirst' /\ InPriorityOrder'
  BY <1>1, <1>2, GoneIsPlaced, OrderStays DEF IInv
<1>7. WakeInv'
  BY <1>1, <1>4, WakeKept DEF IInv, Awaits
<1>8. WithinNeedsTotal'
  BY BlankType DEF IInv, WithinNeedsTotal, OthersKeep
<1>9. OversizedAreRefused'
  BY <1>1, <1>2, OversizedStay DEF IInv, Pending
<1> QED
  BY <1>3, <1>5, <1>6, <1>7, <1>8, <1>9 DEF IInv

\* Who goes leaves the sum of what is held by what it held.
LEMMA RemovalFromSum ==
  ASSUME TypeOK, entry' \in [Nodes -> Entries],
         NEW n \in Nodes, OthersKeep(n), OrderKept(n), Queued(queue, n),
         ~Queued(queue', n),
         \A d \in HeldNodes \ {n} : entry'[d].count = entry[d].count
  PROVE  /\ SumHeld' \in Nat /\ SumHeld \in Nat /\ Count(n) \in Nat
         /\ HasLock(waiter[n]) => SumHeld = SumHeld' + Count(n)
         /\ ~HasLock(waiter[n]) => SumHeld = SumHeld'
<1>1. /\ SumHeld' \in Nat
      /\ SumHeld' + (IF n \in HeldNodes THEN entry[n].count ELSE 0)
           = SumHeld + (IF n \in HeldNodes' THEN entry'[n].count ELSE 0)
  BY SumHeldChanges
<1>2. n \notin HeldNodes' /\ (n \in HeldNodes <=> HasLock(waiter[n]))
  BY DEF HeldNodes, Held
<1>3. SumHeld \in Nat /\ Count(n) \in Nat /\ Count(n) = entry[n].count
  BY SumHeldType, CountsAreNaturals DEF Count
<1> QED
  BY <1>1, <1>2, <1>3

\* SemaphorePermitWaiter::drop preserves the inductive invariant.
LEMMA DropWaiterKeepsIInv ==
  ASSUME IInv, NEW n \in Nodes, DropWaiter(n)
  PROVE  IInv'
<1>1. /\ Unlocked /\ pc[n] # "idle" /\ total' = total
      /\ queue' = Dequeue(queue, n) /\ waiter' = [waiter EXCEPT ![n] = NewCell(FALSE)]
      /\ entry' = [entry EXCEPT ![n] = Blank] /\ pc' = [pc EXCEPT ![n] = "idle"]
      /\ available' = IF HasLock(waiter[n])
                        THEN (available + Count(n)) % (UsizeMax + 1) ELSE available
      /\ walk' = IF HasLock(waiter[n]) \/ (available > 0 /\ FirstInLine(n))
                   THEN NextOf(n) ELSE NoNode
  BY DEF DropWaiter, Gone, Without
<1>2. /\ TypeOK /\ HoldersFirst /\ Queued(queue, n)
      /\ entry \in [Nodes -> Entries] /\ waiter \in [Nodes -> Cell]
      /\ pc \in [Nodes -> PCs] /\ available \in 0 .. UsizeMax /\ total \in Nat
      /\ UsizeMax \in Nat
  BY <1>1, UsizeAssumption DEF IInv, TypeOK
<1>3. entry' \in [Nodes -> Entries] /\ entry'[n] = Blank
  BY <1>1, <1>2, BlankType
<1>4. /\ waiter' = [d \in Nodes |-> waiter'[d]] /\ waiter'[n] = NewCell(FALSE)
      /\ OthersKeep(n)
  BY <1>1, <1>2 DEF OthersKeep
<1>5. ~Queued(queue', n) /\ OrderKept(n)
  BY <1>1, <1>2, DequeueKeepsOrder
<1>6. /\ SumHeld' \in Nat /\ SumHeld \in Nat /\ Count(n) \in Nat
      /\ HasLock(waiter[n]) => SumHeld = SumHeld' + Count(n)
      /\ ~HasLock(waiter[n]) => SumHeld = SumHeld'
  <2>1. \A d \in HeldNodes \ {n} : entry'[d].count = entry[d].count
    BY <1>1, <1>2 DEF HeldNodes
  <2> QED
    BY <1>2, <1>3, <1>4, <1>5, <2>1, RemovalFromSum
<1>7. available' \in 0 .. UsizeMax /\ SupplyInv'
  <2>1. /\ available + SumHeld <= total /\ total <= MaxSupply
        /\ Total => total <= UsizeMax
        /\ NeverWraps => available + SumHeld = total
    BY DEF IInv, SupplyInv
  <2>2. CASE ~HasLock(waiter[n])
    BY <1>1, <1>2, <1>6, <2>1, <2>2 DEF SupplyInv, NeverWraps
  <2>3. CASE HasLock(waiter[n])
    <3> DEFINE x == available + Count(n)
    <3>1. x \in Nat
      BY <1>2, <1>6
    <3>6. available' = x % (UsizeMax + 1)
      BY <1>1, <2>3
    <3>2. x + SumHeld' <= total /\ (NeverWraps => x + SumHeld' = total)
      BY <1>2, <1>6, <2>1, <2>3
    <3>3. NeverWraps => x <= UsizeMax
      BY <1>2, <1>6, <2>1, <3>2, SupplyAssumption DEF NeverWraps
    <3> HIDE DEF x
    <3>4. /\ available' \in 0 .. UsizeMax /\ available' <= x
          /\ NeverWraps => available' = x
      BY <1>2, <3>1, <3>3, <3>6, WrapProperties
    <3>5. available' + SumHeld' <= total /\ (NeverWraps => available' + SumHeld' = total)
      <4>1. available' \in Nat /\ available' <= x
        BY <1>2, <3>4
      <4>2. available' + SumHeld' <= total
        <5>1. total \in Nat /\ SumHeld' \in Nat /\ x + SumHeld' <= total
          BY <1>2, <1>6, <3>2
        <5>2. PICK y \in Nat, z \in Nat, t \in Nat, u \in Nat :
                y = available' /\ z = SumHeld' /\ t = total /\ u = x
          BY <3>1, <4>1, <5>1
        <5>3. y <= u /\ u + z <= t
          BY <4>1, <5>1, <5>2
        <5>4. y + z <= t
          BY <5>3
        <5> QED
          BY <5>2, <5>4
      <4>3. ASSUME NeverWraps PROVE available' + SumHeld' = total
        BY <3>2, <3>4, <4>3
      <4> QED
        BY <4>2, <4>3
    <3> QED
      BY <1>1, <2>1, <3>4, <3>5 DEF SupplyInv, NeverWraps
  <2> QED
    BY <2>2, <2>3
<1>8. \/ walk' = NextOf(n) /\ AllHoldBefore(n)
      \/ /\ walk' = NoNode /\ available' <= available
         /\ HasLock(waiter[n]) \/ available' = 0 \/ ~AllHoldBefore(n)
  <2>1. FirstInLine(n) <=> AllHoldBefore(n)
    BY <1>2, FirstInLineMeans
  <2>2. HasLock(waiter[n]) => AllHoldBefore(n)
    BY <1>2, HoldersAreAhead
  <2> QED
    BY <1>1, <1>2, <2>1, <2>2
<1> QED
  BY <1>1, <1>2, <1>3, <1>4, <1>7, <1>8, RemovalKeepsIInv

\* SemaphorePermit::drop preserves the inductive invariant.
LEMMA DropPermitKeepsIInv ==
  ASSUME IInv, NEW n \in Nodes, DropPermit(n)
  PROVE  IInv'
<1> DEFINE room == Total \/ available + Count(n) <= UsizeMax
<1>1. /\ Unlocked /\ pc[n] = "held"
      /\ queue' = Dequeue(queue, n) /\ waiter' = [waiter EXCEPT ![n] = NewCell(FALSE)]
      /\ entry' = [entry EXCEPT ![n] = Blank] /\ pc' = [pc EXCEPT ![n] = "idle"]
      /\ available' = IF room THEN available + Count(n) ELSE available
      /\ total' = IF room THEN total ELSE total - Count(n)
      /\ walk' = IF room THEN NextOf(n) ELSE NoNode
  BY DEF DropPermit, Gone, Without
<1>2. /\ TypeOK /\ HoldersFirst /\ Queued(queue, n) /\ HasLock(waiter[n])
      /\ entry \in [Nodes -> Entries] /\ waiter \in [Nodes -> Cell]
      /\ pc \in [Nodes -> PCs] /\ available \in 0 .. UsizeMax /\ total \in Nat
      /\ UsizeMax \in Nat
  BY <1>1, UsizeAssumption DEF IInv, TypeOK
<1>3. entry' \in [Nodes -> Entries] /\ entry'[n] = Blank
  BY <1>1, <1>2, BlankType
<1>4. /\ waiter' = [d \in Nodes |-> waiter'[d]] /\ waiter'[n] = NewCell(FALSE)
      /\ OthersKeep(n)
  BY <1>1, <1>2 DEF OthersKeep
<1>5. ~Queued(queue', n) /\ OrderKept(n)
  BY <1>1, <1>2, DequeueKeepsOrder
<1>6. /\ SumHeld' \in Nat /\ SumHeld \in Nat /\ Count(n) \in Nat
      /\ SumHeld = SumHeld' + Count(n)
  <2>1. \A d \in HeldNodes \ {n} : entry'[d].count = entry[d].count
    BY <1>1, <1>2 DEF HeldNodes
  <2> QED
    BY <1>2, <1>3, <1>4, <1>5, <2>1, RemovalFromSum
<1>7. /\ available' \in 0 .. UsizeMax /\ total' \in Nat /\ SupplyInv'
      /\ total' # total => ~Total
  <2>1. /\ available + SumHeld <= total /\ total <= MaxSupply
        /\ Total => total <= UsizeMax
        /\ NeverWraps => available + SumHeld = total
    BY DEF IInv, SupplyInv
  <2>2. CASE room
    BY <1>1, <1>2, <1>6, <2>1, <2>2 DEF SupplyInv, NeverWraps
  <2>3. CASE ~room
    BY <1>1, <1>2, <1>6, <2>1, <2>3, SupplyAssumption DEF SupplyInv, NeverWraps
  <2> QED
    BY <2>2, <2>3
<1>8. \/ walk' = NextOf(n) /\ AllHoldBefore(n)
      \/ /\ walk' = NoNode /\ available' <= available
         /\ HasLock(waiter[n]) \/ available' = 0 \/ ~AllHoldBefore(n)
  BY <1>1, <1>2, HoldersAreAhead
<1>9. \A d \in Nodes : entry[d].within => total' = total
  BY <1>7 DEF IInv, WithinNeedsTotal
<1> QED
  BY <1>1, <1>2, <1>3, <1>4, <1>7, <1>8, <1>9, RemovalKeepsIInv

\* SemaphorePermit::forget preserves the inductive invariant.
LEMMA ForgetKeepsIInv ==
  ASSUME IInv, NEW n \in Nodes, Forget(n)
  PROVE  IInv'
<1> DEFINE w == IF Total /\ NextOf(n) # NoNode
                  THEN NotifyOversized(queue', NextOf(n), total')
                  ELSE waiter
<1>1. /\ Unlocked /\ pc[n] = "held" /\ total' = total - Count(n)
      /\ UNCHANGED <<available, walk>>
      /\ queue' = Dequeue(queue, n) /\ waiter' = [w EXCEPT ![n] = NewCell(FALSE)]
      /\ entry' = [entry EXCEPT ![n] = Blank] /\ pc' = [pc EXCEPT ![n] = "idle"]
  BY DEF Forget, Gone
<1>2. /\ TypeOK /\ HoldersFirst /\ Queued(queue, n) /\ HasLock(waiter[n])
      /\ entry \in [Nodes -> Entries] /\ waiter \in [Nodes -> Cell]
      /\ pc \in [Nodes -> PCs] /\ available \in 0 .. UsizeMax /\ total \in Nat
      /\ UsizeMax \in Nat
  BY <1>1, UsizeAssumption DEF IInv, TypeOK
<1>3. entry' \in [Nodes -> Entries] /\ entry'[n] = Blank
  BY <1>1, <1>2, BlankType
<1>4. /\ DOMAIN w = Nodes
      /\ \A d \in Nodes : w[d] \in {waiter[d], AddFlag(waiter[d], "WANTS_EVICT")}
  BY <1>2, NotifyProperties DEF NotifyOversized
<1>5. \A d \in Nodes : Total /\ Pending(d) /\ entry[d].within /\ Count(d) > total'
        => WantsEvict(w[d])
  BY <1>1, <1>2, NotifyProperties, WalkFromHolder
<1> HIDE DEF w
<1>6. /\ waiter' = [d \in Nodes |-> waiter'[d]] /\ waiter'[n] = NewCell(FALSE)
      /\ \A d \in Nodes \ {n} : waiter'[d] = w[d]
  BY <1>1, <1>4
<1>7. OthersKeep(n)
  BY <1>1, <1>2, <1>4, <1>6 DEF OthersKeep
<1>8. ~Queued(queue', n) /\ OrderKept(n)
  BY <1>1, <1>2, DequeueKeepsOrder
<1>9. /\ SumHeld' \in Nat /\ SumHeld \in Nat /\ Count(n) \in Nat
      /\ SumHeld = SumHeld' + Count(n)
  <2>1. \A d \in HeldNodes \ {n} : entry'[d].count = entry[d].count
    BY <1>1, <1>2 DEF HeldNodes
  <2> QED
    BY <1>2, <1>3, <1>7, <1>8, <2>1, RemovalFromSum
<1>10. total' \in Nat /\ SupplyInv'
  BY <1>1, <1>2, <1>9, SupplyAssumption DEF IInv, SupplyInv, NeverWraps
<1>11. walk' = NoNode /\ available' <= available /\ available' \in 0 .. UsizeMax
  BY <1>1, <1>2 DEF Unlocked
<1>12. \A d \in Nodes \ {n} :
         Pending(d) /\ entry[d].within /\ Count(d) > total'
           => WantsEvict(waiter'[d])
  BY <1>5, <1>6 DEF IInv, WithinNeedsTotal
<1> QED
  BY <1>1, <1>2, <1>3, <1>6, <1>7, <1>10, <1>11, <1>12, RemovalKeepsIInv

\* SemaphorePermit::merge preserves the inductive invariant.
LEMMA MergeKeepsIInv ==
  ASSUME IInv, NEW n \in Nodes, NEW m \in Nodes, Merge(n, m)
  PROVE  IInv'
<1> DEFINE c == Count(n) + Count(m)
<1>1. /\ Unlocked /\ n # m /\ pc[n] = "held" /\ pc[m] = "held"
      /\ c <= MaxPermits
      /\ UNCHANGED <<available, total, walk>>
      /\ queue' = Dequeue(queue, m) /\ waiter' = [waiter EXCEPT ![m] = NewCell(FALSE)]
      /\ entry' = [entry EXCEPT ![n].count = c, ![m] = Blank]
      /\ pc' = [pc EXCEPT ![m] = "idle"]
  BY DEF Merge, Without, Count
<1>2. /\ TypeOK /\ HoldersFirst
      /\ Queued(queue, n) /\ HasLock(waiter[n])
      /\ Queued(queue, m) /\ HasLock(waiter[m])
      /\ entry \in [Nodes -> Entries] /\ waiter \in [Nodes -> Cell]
      /\ pc \in [Nodes -> PCs] /\ available \in 0 .. UsizeMax /\ total \in Nat
      /\ UsizeMax \in Nat /\ Count(n) \in Nat /\ Count(m) \in Nat
  BY <1>1, UsizeAssumption, CountsAreNaturals DEF IInv, TypeOK
<1>3. c \in 0 .. UsizeMax
  <2>1. MaxPermits <= UsizeMax /\ MaxPermits \in Nat
    BY <1>2 DEF MaxPermits
  <2> QED
    BY <1>1, <1>2, <2>1
<1> HIDE DEF c
<1>4. /\ entry' \in [Nodes -> Entries] /\ entry'[m] = Blank
      /\ entry'[n].count = c
      /\ \A d \in Nodes \ {m} : /\ entry'[d].priority = entry[d].priority
                                /\ entry'[d].within = entry[d].within
                                /\ d # n => entry'[d] = entry[d]
  <2> DEFINE e == [entry[n] EXCEPT !.count = c]
  <2>1. /\ e \in Entries /\ e.count = c
        /\ e.priority = entry[n].priority /\ e.within = entry[n].within
    BY <1>2, <1>3 DEF Entries
  <2>2. entry' = [entry EXCEPT ![n] = e, ![m] = Blank]
    BY <1>1
  <2> HIDE DEF e
  <2> QED
    BY <1>1, <1>2, <2>1, <2>2, BlankType
<1>5. /\ waiter' = [d \in Nodes |-> waiter'[d]] /\ waiter'[m] = NewCell(FALSE)
      /\ OthersKeep(m)
  BY <1>1, <1>2, <1>4 DEF OthersKeep
<1>6. ~Queued(queue', m) /\ OrderKept(m)
  BY <1>1, <1>2, DequeueKeepsOrder
<1>7. SumHeld' = SumHeld
  <2> DEFINE f == [d \in Nodes |-> Count(d)]
             g == [d \in Nodes |-> entry'[d].count]
  <2>1. HeldNodes' = HeldNodes \ {m}
    <3>1. ASSUME NEW d \in Nodes PROVE d \in HeldNodes' <=> d \in HeldNodes /\ d # m
      BY <1>2, <1>5, <1>6, FlagsKept DEF HeldNodes, Held, OrderKept
    <3> QED
      BY <3>1 DEF HeldNodes
  <2>2. n \in HeldNodes /\ m \in HeldNodes /\ HeldNodes \subseteq Nodes
    BY <1>2 DEF HeldNodes, Held
  <2>3. IsFiniteSet(HeldNodes) /\ IsFiniteSet(HeldNodes \ {m})
    BY NodesAssumption, FS_Subset, HeldNodes \subseteq Nodes, HeldNodes \ {m} \subseteq Nodes
       DEF HeldNodes
  <2>4. \A d \in Nodes : f[d] \in Nat /\ g[d] \in Nat
    BY <1>2, <1>4, CountsAreNaturals DEF Entries
  <2>5. \A d \in HeldNodes \ {n, m} : f[d] = g[d]
    BY <1>4, <2>2 DEF Count
  <2>6. f[n] = Count(n) /\ f[m] = Count(m) /\ g[n] = Count(n) + Count(m)
    BY <1>4 DEF c
  <2>7. SumHeld = SumFunctionOnSet(f, HeldNodes)
    BY DEF SumHeld
  <2>8. SumHeld' = SumFunctionOnSet(g, HeldNodes \ {m})
    BY <2>1 DEF SumHeld, Count
  <2> HIDE DEF f, g
  <2>9. SumFunctionOnSet(f, HeldNodes)
          = f[n] + (f[m] + SumFunctionOnSet(f, HeldNodes \ {n, m}))
    BY <1>1, <2>2, <2>3, <2>4, SumWithoutTwo
  <2>10. SumFunctionOnSet(g, HeldNodes \ {m})
           = g[n] + SumFunctionOnSet(g, (HeldNodes \ {m}) \ {n})
    BY <1>1, <2>2, <2>3, <2>4, SumWithout
  <2>11. IsFiniteSet(HeldNodes \ {n, m}) /\ (HeldNodes \ {m}) \ {n} = HeldNodes \ {n, m}
    BY <2>3, FS_Subset, HeldNodes \ {n, m} \subseteq HeldNodes
  <2>12. /\ SumFunctionOnSet(f, HeldNodes \ {n, m})
              = SumFunctionOnSet(g, HeldNodes \ {n, m})
         /\ SumFunctionOnSet(f, HeldNodes \ {n, m}) \in Nat
    BY <2>2, <2>4, <2>5, <2>11, SumOfEqual, SumType
  <2> DEFINE rest == SumFunctionOnSet(g, HeldNodes \ {n, m})
  <2>13. rest \in Nat /\ SumHeld = f[n] + (f[m] + rest)
    BY <2>7, <2>9, <2>12
  <2>14. SumHeld' = g[n] + rest
    BY <2>8, <2>10, <2>11
  <2> HIDE DEF rest
  <2> QED
    BY <1>2, <2>6, <2>13, <2>14
<1>8. SupplyInv'
  BY <1>1, <1>7 DEF IInv, SupplyInv, NeverWraps
<1>9. walk' = NoNode /\ available' <= available /\ available' \in 0 .. UsizeMax
  BY <1>1, <1>2 DEF Unlocked
<1> QED
  BY <1>1, <1>2, <1>4, <1>5, <1>8, <1>9, RemovalKeepsIInv

-----------------------------------------------------------------------------
\* The steps that put a node into the queue.

\* What the insertions have in common: a node that has to wait is not the first
\* in line, or needs more than there is.
LEMMA InsertKeepsIInv ==
  ASSUME IInv, NEW n \in Nodes, Unlocked, pc[n] = "idle",
         NEW e \in Entries, NEW held \in BOOLEAN,
         queue' \in Enqueued(queue, n, e, held, waiter),
         waiter' = [d \in Nodes |-> waiter'[d]], waiter'[n] = NewCell(held),
         entry' \in [Nodes -> Entries], entry'[n] = e, OthersKeep(n),
         pc' = [pc EXCEPT ![n] = IF held THEN "held" ELSE "polling"],
         available' \in Nat, available' <= available,
         UNCHANGED <<total, walk>>,
         e.within => Total /\ e.count <= total,
         \/ held \/ available' = 0 \/ e.count > available'
         \/ \E k \in Nodes : Pending(k) /\ Compare(e.priority, Prio(k)) = "Less",
         SupplyInv'
  PROVE  IInv'
<1> DEFINE v == Verdict(e, held, waiter)
<1>1. TypeOK /\ ~Queued(queue, n)
  BY DEF IInv, TypeOK
<1>2. /\ queue' \in Seq(Nodes) /\ Injective(queue')
      /\ Queued(queue', n) /\ OrderKept(n)
      /\ \A a : Before(queue', a, n) => a \in Nodes \ {n} /\ v[a] # "Greater"
      /\ \A b : Before(queue', n, b) => b \in Nodes \ {n} /\ v[b] # "Less"
  BY <1>1, EnqueueKeepsOrder
<1> HIDE DEF v
<1>3. waiter'[n] \in Cell /\ (HasLock(waiter'[n]) <=> held) /\ ~waiter'[n].armed
  BY NewCellType
<1>4. pc' \in [Nodes -> PCs] /\ pc'[n] = IF held THEN "held" ELSE "polling"
  BY <1>1 DEF TypeOK, PCs
<1>5. TypeOK'
  <2>1. walk' = NoNode /\ total' \in Nat /\ available' \in 0 .. UsizeMax
    BY <1>1, UsizeAssumption DEF Unlocked, TypeOK
  <2>2. /\ waiter'[n] \in Cell
        /\ Queued(queue', n) <=> pc'[n] # "idle"
        /\ pc'[n] \in {"held", "listening"} => HasLock(waiter'[n])
    BY <1>2, <1>3, <1>4
  <2> QED
    BY <1>1, <1>2, <1>4, <2>1, <2>2, TypeStays
<1>6. HoldersFirst' /\ InPriorityOrder'
  <2>1. Placed(n)
    BY <1>1, <1>2, <1>3, VerdictPlaces DEF v
  <2> QED
    BY <1>1, <1>2, <2>1, OrderStays DEF IInv
<1>7. NextInLine'
  <2>1. ASSUME Pending(n)', AllHoldBefore(n)', available' # 0
        PROVE  entry'[n].count > available'
    <3>1. SUFFICES ASSUME NEW k \in Nodes, Pending(k),
                          Compare(e.priority, Prio(k)) = "Less", ~held
                   PROVE  FALSE
      BY <1>3, <2>1 DEF Pending
    <3>2. k # n /\ Queued(queue', k) /\ ~HasLock(waiter'[k])
      BY <1>1, <1>2, <3>1, FlagsKept DEF Pending, OrderKept
    <3>3. Before(queue', n, k)
      BY <1>2, <2>1, <3>2, BeforeIsOrder DEF AllHoldBefore
    <3>4. v[k] # "Less" /\ ~HasLock(waiter[k])
      BY <1>2, <3>1, <3>3 DEF Pending
    <3> QED
      BY <1>1, <3>1, <3>4, VerdictMeans DEF v
  <2> QED
    BY <1>1, <1>2, <2>1, LineStays DEF IInv
<1>8. WalkInv'
  BY DEF WalkInv, Unlocked
<1>9. WakeInv'
  <2>1. Awaits(n)'
    BY <1>4 DEF Awaits
  <2> QED
    BY <1>1, <2>1, WakeKept DEF IInv
<1>10. WithinNeedsTotal'
  BY DEF IInv, WithinNeedsTotal, OthersKeep
<1>11. OversizedAreRefused'
  <2>1. e.count \in Nat /\ total \in Nat
    BY <1>1, UsizeAssumption DEF Entries, TypeOK
  <2>2. ~(entry'[n].within /\ entry'[n].count > total')
    BY <2>1
  <2> QED
    BY <1>1, <1>2, <2>2, OversizedStay DEF IInv
<1> QED
  BY <1>5, <1>6, <1>7, <1>8, <1>9, <1>10, <1>11 DEF IInv

\* do_acquire's search for holders to evict changes their cells alone.
LEMMA EvictHoldersProperties ==
  ASSUME TypeOK, NEW p
  PROVE  /\ EvictHolders(p) = [d \in Nodes |-> EvictHolders(p)[d]]
         /\ \A d \in Nodes :
              /\ EvictHolders(p)[d] \in {waiter[d], AddFlag(waiter[d], "WANTS_EVICT")}
              /\ Evict /\ Held(d) /\ Compare(p, Prio(d)) = "Greater"
                   => WantsEvict(EvictHolders(p)[d])
              /\ ~Held(d) => EvictHolders(p)[d] = waiter[d]
BY AddFlagKeepsOther DEF EvictHolders, TypeOK

\* A newcomer that may not go first is outranked by one that waits.
LEMMA WhoMayNotGoFirst ==
  ASSUME NEW p, ~MayGoFirst(p)
  PROVE  \E k \in Nodes : Pending(k) /\ Compare(p, Prio(k)) = "Less"
BY DEF MayGoFirst, Skipped, Pending

\* What a client asks for can be recorded for a node.
LEMMA RequestsAreEntries ==
  ASSUME NEW e \in Requests
  PROVE  e \in Entries /\ e.count \in Nat
<1>1. /\ e = [priority |-> e.priority, count |-> e.count, within |-> e.within]
      /\ e.priority \in Priorities /\ e.count \in Counts /\ e.within \in BOOLEAN
  BY DEF Requests
<1>2. e.count \in 0 .. UsizeMax
  BY <1>1, UsizeAssumption
<1>3. [priority |-> e.priority, count |-> e.count, within |-> e.within] \in Entries
  BY <1>1, <1>2 DEF Entries
<1> QED
  BY <1>1, <1>2, <1>3, UsizeAssumption

\* do_acquire preserves the inductive invariant.
LEMMA AcquireKeepsIInv ==
  ASSUME IInv, NEW n \in Nodes, NEW e \in Requests, Acquire(n, e)
  PROVE  IInv'
<1> DEFINE granted == available >= e.count /\ MayGoFirst(e.priority)
           w == EvictHolders(e.priority)
<1>1. /\ Unlocked /\ pc[n] = "idle" /\ Admitted(e)
      /\ queue' \in Enqueued(queue, n, e, granted, waiter)
      /\ entry' = [entry EXCEPT ![n] = e]
      /\ waiter' = [w EXCEPT ![n] = NewCell(granted)]
      /\ available' = IF granted THEN available - e.count ELSE available
      /\ pc' = [pc EXCEPT ![n] = IF granted THEN "held" ELSE "polling"]
      /\ UNCHANGED <<total, walk>>
  BY DEF Acquire
<1>2. granted => e.count <= available
  OBVIOUS
<1>3. ~granted => \/ ~(available >= e.count)
                  \/ \E k \in Nodes : Pending(k) /\ Compare(e.priority, Prio(k)) = "Less"
  BY WhoMayNotGoFirst
<1>4. granted \in BOOLEAN
  BY DEF MayGoFirst
<1> HIDE DEF granted
<1>5. /\ TypeOK /\ ~Queued(queue, n)
      /\ entry \in [Nodes -> Entries] /\ available \in 0 .. UsizeMax
      /\ total \in Nat /\ UsizeMax \in Nat
  BY <1>1, UsizeAssumption DEF IInv, TypeOK
<1>6. e \in Entries /\ e.count \in Nat
  BY RequestsAreEntries
<1>7. /\ w = [d \in Nodes |-> w[d]]
      /\ \A d \in Nodes : w[d] \in {waiter[d], AddFlag(waiter[d], "WANTS_EVICT")}
  BY <1>5, EvictHoldersProperties
<1> HIDE DEF w
<1>8. /\ waiter' = [d \in Nodes |-> waiter'[d]] /\ waiter'[n] = NewCell(granted)
      /\ \A d \in Nodes \ {n} : waiter'[d] = w[d]
  BY <1>1, <1>7
<1>9. /\ entry' \in [Nodes -> Entries] /\ entry'[n] = e
      /\ \A d \in Nodes \ {n} : entry'[d] = entry[d]
  BY <1>1, <1>5, <1>6
<1>10. OthersKeep(n)
  BY <1>1, <1>5, <1>7, <1>8, <1>9 DEF OthersKeep, TypeOK
<1>11. available' \in Nat /\ available' <= available
  BY <1>1, <1>2, <1>5, <1>6
<1>12. \/ granted \/ available' = 0 \/ e.count > available'
       \/ \E k \in Nodes : Pending(k) /\ Compare(e.priority, Prio(k)) = "Less"
  BY <1>1, <1>3, <1>5, <1>6
<1>13. e.within => Total /\ e.count <= total
  BY <1>1, <1>5, <1>6 DEF Admitted
<1>14. SupplyInv'
  <2>1. OrderKept(n) /\ Queued(queue', n)
    BY <1>1, <1>5, EnqueueKeepsOrder
  <2>2. n \notin HeldNodes /\ (n \in HeldNodes' <=> granted)
    BY <1>4, <1>5, <1>8, <2>1, NewCellType DEF HeldNodes, Held
  <2>3. \A d \in HeldNodes \ {n} : entry'[d].count = entry[d].count
    BY <1>9 DEF HeldNodes
  <2>4. /\ SumHeld' \in Nat /\ SumHeld \in Nat
        /\ SumHeld' + 0 = SumHeld + (IF granted THEN e.count ELSE 0)
    BY <1>5, <1>9, <1>10, <2>1, <2>2, <2>3, SumHeldChanges, SumHeldType
  <2>5. available' + SumHeld' = available + SumHeld
    BY <1>1, <1>2, <1>5, <1>6, <2>4
  <2> QED
    BY <1>1, <2>5 DEF IInv, SupplyInv, NeverWraps
<1> QED
  BY <1>1, <1>4, <1>6, <1>8, <1>9, <1>10, <1>11, <1>12, <1>13, <1>14, InsertKeepsIInv

\* SemaphorePermit::split preserves the inductive invariant.
LEMMA SplitKeepsIInv ==
  ASSUME IInv, NEW n \in Nodes, NEW m \in Nodes, NEW c \in Counts,
         NEW p \in Priorities, Split(n, m, c, p)
  PROVE  IInv'
<1> DEFINE e == [priority |-> p, count |-> c, within |-> FALSE]
           k == Count(n) - c
<1>1. /\ Unlocked /\ pc[n] = "held" /\ pc[m] = "idle" /\ 0 < c /\ c < Count(n)
      /\ queue' \in Enqueued(queue, m, e, TRUE, waiter)
      /\ entry' = [entry EXCEPT ![n].count = k, ![m] = e]
      /\ waiter' = [waiter EXCEPT ![m] = NewCell(TRUE)]
      /\ pc' = [pc EXCEPT ![m] = "held"]
      /\ UNCHANGED <<available, total, walk>>
  BY DEF Split, Count
<1>2. /\ TypeOK /\ n # m /\ ~Queued(queue, m)
      /\ Queued(queue, n) /\ HasLock(waiter[n])
      /\ entry \in [Nodes -> Entries] /\ waiter \in [Nodes -> Cell]
      /\ available \in 0 .. UsizeMax /\ UsizeMax \in Nat /\ Count(n) \in 0 .. UsizeMax
      /\ c \in Nat
  BY <1>1, UsizeAssumption, CountsAreNaturals DEF IInv, TypeOK
<1>3. /\ e \in Entries /\ e.count = c /\ e.priority = p /\ ~e.within
      /\ k \in 0 .. UsizeMax /\ Count(n) = k + c
  BY <1>1, <1>2, UsizeAssumption DEF Entries
<1> HIDE DEF e, k
<1>4. /\ entry' \in [Nodes -> Entries] /\ entry'[m] = e
      /\ entry'[n].count = k
      /\ \A d \in Nodes \ {m} : /\ entry'[d].priority = entry[d].priority
                                /\ entry'[d].within = entry[d].within
                                /\ d # n => entry'[d] = entry[d]
  <2> DEFINE r == [entry[n] EXCEPT !.count = k]
  <2>1. /\ r \in Entries /\ r.count = k
        /\ r.priority = entry[n].priority /\ r.within = entry[n].within
    BY <1>2, <1>3 DEF Entries
  <2>2. entry' = [entry EXCEPT ![n] = r, ![m] = e]
    BY <1>1
  <2> HIDE DEF r
  <2> QED
    BY <1>2, <1>3, <2>1, <2>2
<1>5. /\ waiter' = [d \in Nodes |-> waiter'[d]] /\ waiter'[m] = NewCell(TRUE)
      /\ OthersKeep(m)
  BY <1>1, <1>2, <1>4 DEF OthersKeep, TypeOK
<1>6. Queued(queue', m) /\ OrderKept(m)
  BY <1>1, <1>2, EnqueueKeepsOrder
<1>7. SumHeld' = SumHeld
  <2> DEFINE f == [d \in Nodes |-> Count(d)]
             g == [d \in Nodes |-> entry'[d].count]
             S == HeldNodes \union {m}
  <2>1. HeldNodes' = S
    <3>1. HasLock(waiter'[m])
      BY <1>5, NewCellType
    <3>2. ASSUME NEW d \in Nodes PROVE d \in HeldNodes' <=> d \in HeldNodes \/ d = m
      BY <1>2, <1>5, <1>6, <3>1, FlagsKept DEF HeldNodes, Held, OrderKept
    <3> QED
      BY <3>2 DEF HeldNodes
  <2>2. n \in HeldNodes /\ m \notin HeldNodes /\ HeldNodes \subseteq Nodes
    BY <1>2 DEF HeldNodes, Held
  <2>3. IsFiniteSet(HeldNodes) /\ IsFiniteSet(S)
    BY <2>2, NodesAssumption, FS_Subset, HeldNodes \subseteq Nodes, S \subseteq Nodes
  <2>4. \A d \in Nodes : f[d] \in Nat /\ g[d] \in Nat
    BY <1>2, <1>4, CountsAreNaturals DEF Entries
  <2>5. \A d \in HeldNodes \ {n} : f[d] = g[d]
    BY <1>4, <2>2 DEF Count
  <2>6. f[n] = Count(n) /\ g[n] = k /\ g[m] = c
    BY <1>3, <1>4
  <2>7. SumHeld = SumFunctionOnSet(f, HeldNodes)
    BY DEF SumHeld
  <2>8. SumHeld' = SumFunctionOnSet(g, S)
    BY <2>1 DEF SumHeld, Count
  <2>9. n \in S /\ m \in S /\ S \subseteq Nodes /\ S \ {n, m} = HeldNodes \ {n}
    BY <2>2
  <2> HIDE DEF f, g, S
  <2>10. SumFunctionOnSet(f, HeldNodes)
           = f[n] + SumFunctionOnSet(f, HeldNodes \ {n})
    BY <2>2, <2>3, <2>4, SumWithout
  <2>11. SumFunctionOnSet(g, S)
           = g[n] + (g[m] + SumFunctionOnSet(g, S \ {n, m}))
    BY <1>2, <2>3, <2>4, <2>9, SumWithoutTwo
  <2>12. IsFiniteSet(HeldNodes \ {n})
    BY <2>3, FS_Subset, HeldNodes \ {n} \subseteq HeldNodes
  <2>13. /\ SumFunctionOnSet(f, HeldNodes \ {n}) = SumFunctionOnSet(g, HeldNodes \ {n})
         /\ SumFunctionOnSet(f, HeldNodes \ {n}) \in Nat
    BY <2>2, <2>4, <2>5, <2>12, SumOfEqual, SumType
  <2> DEFINE rest == SumFunctionOnSet(f, HeldNodes \ {n})
  <2>14. rest \in Nat /\ SumHeld = f[n] + rest
    BY <2>7, <2>10, <2>13
  <2>15. SumHeld' = g[n] + (g[m] + rest)
    BY <2>8, <2>9, <2>11, <2>13
  <2> HIDE DEF rest
  <2> QED
    BY <1>2, <1>3, <2>6, <2>14, <2>15
<1>8. SupplyInv'
  BY <1>1, <1>7 DEF IInv, SupplyInv, NeverWraps
<1>9. available' \in Nat /\ available' <= available
  BY <1>1, <1>2
<1> QED
  BY <1>1, <1>2, <1>3, <1>4, <1>5, <1>8, <1>9, InsertKeepsIInv

-----------------------------------------------------------------------------
\* A grant by activate_waiters.

\* The node that the loop is at gets its permits, and moves up to the holders.
LEMMA ActivateKeepsIInv ==
  ASSUME IInv, Activate
  PROVE  IInv'
<1>1. PICK n \in Nodes : n = walk
  BY DEF IInv, TypeOK, Activate
<1>2. /\ n # NoNode /\ ~HasLock(waiter[n]) /\ Count(n) <= available
      /\ available' = available - Count(n)
      /\ waiter' = [waiter EXCEPT ![n] = AddFlag(waiter[n], "HAS_LOCK")]
      /\ queue' \in Repositioned(queue, n, waiter')
      /\ walk' = NextOf(n)
      /\ UNCHANGED <<total, entry, pc>>
  BY <1>1 DEF Activate
<1>3. /\ TypeOK /\ Queued(queue, n) /\ pc[n] # "idle"
      /\ waiter \in [Nodes -> Cell] /\ entry \in [Nodes -> Entries]
      /\ available \in 0 .. UsizeMax /\ UsizeMax \in Nat /\ Count(n) \in Nat
  BY <1>1, <1>2, UsizeAssumption, CountsAreNaturals DEF IInv, TypeOK
<1>4. /\ waiter'[n] \in Cell /\ HasLock(waiter'[n]) /\ ~waiter'[n].armed
      /\ WantsEvict(waiter'[n]) <=> WantsEvict(waiter[n])
      /\ waiter[n].armed \/ waiter[n].scheduled => waiter'[n].scheduled
      /\ waiter' = [d \in Nodes |-> waiter'[d]]
  <2> DEFINE c == AddFlag(waiter[n], "HAS_LOCK")
  <2>1. /\ c \in Cell /\ ~c.armed
        /\ waiter[n].armed \/ waiter[n].scheduled => c.scheduled
    BY <1>3, AddFlagProperties DEF Flags
  <2>2. HasLock(c) /\ (WantsEvict(c) <=> WantsEvict(waiter[n]))
    BY <1>3, AddFlagKeepsOther
  <2> HIDE DEF c
  <2>3. waiter' = [waiter EXCEPT ![n] = c]
    BY <1>2 DEF c
  <2>4. waiter'[n] = c /\ waiter' = [d \in Nodes |-> waiter'[d]]
    BY <1>3, <2>3
  <2> QED
    BY <2>1, <2>2, <2>4
<1>5. OthersKeep(n)
  BY <1>2, <1>3 DEF OthersKeep
<1>6. /\ queue' \in Seq(Nodes) /\ Injective(queue')
      /\ Queued(queue', n) /\ OrderKept(n)
      /\ \E v \in {Standing(Prio(n), waiter'), Verdict(entry[n], TRUE, waiter')} :
           /\ \A a : Before(queue', a, n) => a \in Nodes \ {n} /\ v[a] # "Greater"
           /\ \A b : Before(queue', n, b) => b \in Nodes \ {n} /\ v[b] # "Less"
  <2> DEFINE w == waiter'
  <2>1. queue' \in Repositioned(queue, n, w)
    BY <1>2
  <2> HIDE DEF w
  <2>2. \E v \in {Standing(Prio(n), w), Verdict(entry[n], TRUE, w)} :
           /\ \A a : Before(queue', a, n) => a \in Nodes \ {n} /\ v[a] # "Greater"
           /\ \A b : Before(queue', n, b) => b \in Nodes \ {n} /\ v[b] # "Less"
    BY <1>3, <2>1, RepositionKeepsOrder
  <2>3. /\ queue' \in Seq(Nodes) /\ Injective(queue')
        /\ Queued(queue', n) /\ OrderKept(n)
    BY <1>3, <2>1, RepositionKeepsOrder
  <2> QED
    BY <2>2, <2>3 DEF w
<1>7. /\ NextOf(n) # NoNode =>
           /\ NextOf(n) \in Nodes /\ Queued(queue, NextOf(n)) /\ NextOf(n) # n
           /\ \A d : Before(queue, d, NextOf(n)) <=> d = n \/ Before(queue, d, n)
      /\ NextOf(n) = NoNode =>
           \A d : Queued(queue, d) <=> d = n \/ Before(queue, d, n)
  BY <1>3, NextOfProperties
<1>8. available' \in 0 .. UsizeMax /\ available' <= available
  BY <1>2, <1>3
<1>9. TypeOK'
  <2>1. walk' \in Nodes \union {NoNode} /\ (walk' # NoNode => Queued(queue', walk'))
    BY <1>2, <1>6, <1>7 DEF OrderKept
  <2>2. total' \in Nat /\ entry' \in [Nodes -> Entries] /\ pc' \in [Nodes -> PCs]
    BY <1>2, <1>3 DEF TypeOK
  <2>3. pc'[n] # "idle"
    BY <1>2, <1>3
  <2> QED
    BY <1>3, <1>4, <1>5, <1>6, <1>8, <2>1, <2>2, <2>3, TypeStays
<1>10. HoldersFirst' /\ InPriorityOrder'
  <2>1. PICK v \in {Standing(Prio(n), waiter'), Verdict(entry[n], TRUE, waiter')} :
          /\ \A a : Before(queue', a, n) => a \in Nodes \ {n} /\ v[a] # "Greater"
          /\ \A b : Before(queue', n, b) => b \in Nodes \ {n} /\ v[b] # "Less"
    BY <1>6
  <2>2. Placed(n)
    <3> DEFINE w == waiter'
               e == entry[n]
    <3>1. /\ e \in Entries /\ entry'[n].priority = e.priority
          /\ v = Verdict(e, TRUE, w) \/ v = Standing(e.priority, w)
          /\ HasLock(waiter'[n]) <=> TRUE
      BY <1>2, <1>3, <1>4, <2>1 DEF Prio
    <3>2. \A d \in Nodes \ {n} : HasLock(w[d]) <=> HasLock(waiter[d])
      BY <1>3, <1>5, FlagsKept
    <3> HIDE DEF w, e
    <3> QED
      BY <1>3, <1>5, <2>1, <3>1, <3>2, VerdictPlaces
  <2> QED
    BY <1>3, <1>5, <1>6, <2>2, OrderStays DEF IInv
<1>11. ASSUME NEW d \in Nodes \ {n}, Before(queue, d, n), ~HasLock(waiter'[d])
       PROVE  Total /\ WantsEvict(waiter'[d]) /\ entry'[d].count > available'
  <2>1. ~HasLock(waiter[d]) /\ (WantsEvict(waiter[d]) => WantsEvict(waiter'[d]))
    BY <1>3, <1>5, <1>11, FlagsKept
  <2>2. Total /\ WantsEvict(waiter[d]) /\ Count(d) > available
    BY <1>1, <1>2, <1>11, <2>1 DEF IInv, WalkInv, Unlocked
  <2>3. entry'[d].count = Count(d) /\ Count(d) \in Nat
    BY <1>2, <1>3, CountsAreNaturals DEF Count
  <2> QED
    BY <1>3, <1>8, <2>1, <2>2, <2>3
<1>12. WalkInv'
  <2>1. SUFFICES ASSUME walk' # NoNode, NEW d \in Nodes, Before(queue', d, walk'),
                        ~HasLock(waiter'[d])
                 PROVE  Total /\ WantsEvict(waiter'[d]) /\ entry'[d].count > available'
    BY DEF WalkInv, Unlocked, Count
  <2>2. d # n
    BY <1>4, <2>1
  <2>3. Before(queue, d, n)
    BY <1>2, <1>6, <1>7, <2>1, <2>2 DEF OrderKept
  <2> QED
    BY <1>11, <2>1, <2>2, <2>3
<1>13. NextInLine'
  <2>1. SUFFICES ASSUME walk' = NoNode, NEW d \in Nodes, Pending(d)'
                 PROVE  entry'[d].count > available'
    BY DEF NextInLine, Unlocked, Count
  <2>2. d # n /\ ~HasLock(waiter'[d])
    BY <1>4, <2>1 DEF Pending
  <2>3. Before(queue, d, n)
    BY <1>2, <1>6, <1>7, <2>1, <2>2 DEF OrderKept, Pending
  <2> QED
    BY <1>11, <2>2, <2>3
<1>14. WakeInv'
  <2>1. pc' = pc /\ entry' = entry
    BY <1>2
  <2>2. Awaits(n)
    BY DEF IInv, WakeInv
  <2>3. Awaits(n)'
    BY <1>4, <2>1, <2>2 DEF Awaits
  <2> QED
    BY <1>3, <1>5, <2>3, WakeKept DEF IInv
<1>15. SupplyInv'
  <2>1. n \notin HeldNodes /\ n \in HeldNodes'
    BY <1>2, <1>4, <1>6 DEF HeldNodes, Held
  <2>2. entry' \in [Nodes -> Entries]
        /\ \A d \in HeldNodes \ {n} : entry'[d].count = entry[d].count
    BY <1>2, <1>3
  <2>3. /\ SumHeld' \in Nat /\ SumHeld \in Nat
        /\ SumHeld' + 0 = SumHeld + entry'[n].count
    BY <1>3, <1>5, <1>6, <2>1, <2>2, SumHeldChanges, SumHeldType
  <2>4. entry'[n].count = Count(n)
    BY <1>2 DEF Count
  <2>5. available' + SumHeld' = available + SumHeld
    BY <1>2, <1>3, <2>3, <2>4
  <2> QED
    BY <1>2, <2>5 DEF IInv, SupplyInv, NeverWraps
<1>16. WithinNeedsTotal'
  BY <1>2 DEF IInv, WithinNeedsTotal
<1>17. OversizedAreRefused'
  <2>1. ~Pending(n)' /\ total' = total
    BY <1>2, <1>4 DEF Pending
  <2> QED
    BY <1>3, <1>5, <1>6, <2>1, OversizedStay DEF IInv
<1> QED
  BY <1>9, <1>10, <1>12, <1>13, <1>14, <1>15, <1>16, <1>17 DEF IInv

-----------------------------------------------------------------------------
\* The invariant.

\* Every step of the semaphore preserves the inductive invariant.
LEMMA NextKeepsIInv ==
  ASSUME IInv, [Next]_vars
  PROVE  IInv'
<1>1. ASSUME NEW n \in Nodes, NEW e \in Requests, Acquire(n, e) PROVE IInv'
  BY <1>1, AcquireKeepsIInv
<1>2. ASSUME NEW n \in Nodes, PollAcquire(n) PROVE IInv'
  BY <1>2, PollAcquireKeepsIInv
<1>3. ASSUME NEW n \in Nodes, CancelAcquire(n) PROVE IInv'
  BY <1>3, CancelAcquireKeepsIInv
<1>4. ASSUME NEW n \in Nodes, DropWaiter(n) PROVE IInv'
  BY <1>4, DropWaiterKeepsIInv
<1>5. ASSUME NEW n \in Nodes, DropPermit(n) PROVE IInv'
  BY <1>5, DropPermitKeepsIInv
<1>6. ASSUME NEW n \in Nodes, Forget(n) PROVE IInv'
  BY <1>6, ForgetKeepsIInv
<1>7. ASSUME NEW n \in Nodes, NEW m \in Nodes, NEW c \in Counts,
             NEW p \in Priorities, Split(n, m, c, p)
      PROVE  IInv'
  BY <1>7, SplitKeepsIInv
<1>8. ASSUME NEW n \in Nodes, NEW m \in Nodes, Merge(n, m) PROVE IInv'
  BY <1>8, MergeKeepsIInv
<1>9. ASSUME NEW n \in Nodes, PollEvicted(n) PROVE IInv'
  BY <1>9, PollEvictedKeepsIInv
<1>10. ASSUME NEW n \in Nodes, CancelEvicted(n) PROVE IInv'
  BY <1>10, CancelEvictedKeepsIInv
<1>11. ASSUME NEW c \in Counts, AddPermits(c) PROVE IInv'
  BY <1>11, AddPermitsKeepsIInv
<1>12. ASSUME NEW c \in Counts, ForgetPermits(c) PROVE IInv'
  BY <1>12, ForgetPermitsKeepsIInv
<1>13. CASE SkipHolder
  BY <1>13, SkipHolderKeepsIInv
<1>14. CASE PassOrStop
  BY <1>14, PassOrStopKeepsIInv
<1>15. CASE Activate
  BY <1>15, ActivateKeepsIInv
<1>16. CASE UNCHANGED vars
  <2>1. UNCHANGED <<queue, available, total, entry, waiter, walk, pc>>
    BY <1>16 DEF vars
  <2> QED
    BY <2>1
       DEF IInv, TypeOK, HoldersFirst, InPriorityOrder, NextInLine, WalkInv, WakeInv,
           Awaits, SupplyInv, SumHeld, HeldNodes, Held, Pending, AllHoldBefore,
           Unlocked, Prio, Count, WithinNeedsTotal, OversizedAreRefused
<1> QED
  BY <1>1, <1>2, <1>3, <1>4, <1>5, <1>6, <1>7, <1>8, <1>9, <1>10, <1>11, <1>12,
     <1>13, <1>14, <1>15, <1>16 DEF Next, ActivateWaiters

\* A new semaphore satisfies the inductive invariant.
LEMMA InitIInv ==
  ASSUME Init
  PROVE  IInv
<1>1. /\ queue = << >> /\ available \in 0 .. UsizeMax /\ available <= MaxSupply
      /\ total = available /\ entry = [n \in Nodes |-> Blank]
      /\ waiter = [n \in Nodes |-> NewCell(FALSE)] /\ walk = NoNode
      /\ pc = [n \in Nodes |-> "idle"]
  BY DEF Init
<1>2. /\ \A d : ~Queued(queue, d)
      /\ \A a, b : ~Before(queue, a, b)
      /\ Injective(queue) /\ queue \in Seq(Nodes)
  BY <1>1 DEF Queued, Before, Injective
<1>3. TypeOK
  <2>1. available \in 0 .. UsizeMax /\ total \in Nat
    BY <1>1, UsizeAssumption
  <2>2. /\ entry \in [Nodes -> Entries] /\ waiter \in [Nodes -> Cell]
        /\ pc \in [Nodes -> PCs]
    BY <1>1, BlankType, NewCellType DEF PCs
  <2>3. \A n \in Nodes : pc[n] = "idle"
    BY <1>1
  <2> QED
    BY <1>1, <1>2, <2>1, <2>2, <2>3 DEF TypeOK
<1>4. HoldersFirst /\ InPriorityOrder /\ NextInLine /\ WalkInv
  BY <1>1, <1>2 DEF HoldersFirst, InPriorityOrder, NextInLine, WalkInv, Pending, Unlocked
<1>5. WakeInv
  BY <1>1 DEF WakeInv, Awaits
<1>6. SupplyInv
  <2>1. HeldNodes = {}
    BY <1>2 DEF HeldNodes, Held
  <2>2. SumHeld = 0
    BY <2>1, SumOfNone DEF SumHeld
  <2> QED
    BY <1>1, <2>2, UsizeAssumption DEF SupplyInv
<1>7. WithinNeedsTotal /\ OversizedAreRefused
  BY <1>1, <1>2, BlankType DEF WithinNeedsTotal, OversizedAreRefused, Pending
<1> QED
  BY <1>3, <1>4, <1>5, <1>6, <1>7 DEF IInv

\* The inductive invariant holds of every reachable state.
THEOREM Invariant == Spec => []IInv
<1>1. Init => IInv
  BY InitIInv
<1>2. IInv /\ [Next]_vars => IInv'
  BY NextKeepsIInv
<1> QED
  BY <1>1, <1>2, PTL DEF Spec

\* The state always has its declared shape, the queue holds exactly the nodes
\* in use, each once, and whoever has a permit's guard has HAS_LOCK.
THEOREM TypeCorrect == Spec => []TypeOK
<1>1. IInv => TypeOK
  BY DEF IInv
<1> QED
  BY <1>1, Invariant, PTL

\* Permits never lie idle: while nobody is inside activate_waiters, the request
\* that is next in line needs more than there are.
THEOREM WorkIsConserved == Spec => []WorkConserving
<1>1. IInv => WorkConserving
  <2> SUFFICES ASSUME IInv, NEW n \in Nodes, Unlocked, Pending(n), FirstInLine(n)
               PROVE  available = 0 \/ Count(n) > available
    BY DEF WorkConserving
  <2>1. AllHoldBefore(n)
    BY FirstInLineMeans DEF IInv, Pending
  <2> QED
    BY <2>1 DEF IInv, NextInLine
<1> QED
  BY <1>1, Invariant, PTL

\* A task whose request was granted or refused, or that was asked to leave, has
\* been woken.
THEOREM WakeupsArrive == Spec => []NoLostWakeup
<1>1. IInv => NoLostWakeup
  BY DEF IInv, WakeInv, Awaits, NoLostWakeup
<1> QED
  BY <1>1, Invariant, PTL

\* A request within the total that has become too big for it has been told so,
\* although the walk of `forget' starts behind the forgotten permit: HoldersFirst
\* is what makes it reach every request.
THEOREM OversizedAreToldSo == Spec => []OversizedAreRefused
<1>1. IInv => OversizedAreRefused
  BY DEF IInv
<1> QED
  BY <1>1, Invariant, PTL

\* No permit is lost or made up, as long as usize has room for the permits the
\* program associates with the semaphore; semaphore-total sees to that itself.
THEOREM PermitsAreConserved ==
  ASSUME NeverWraps
  PROVE  Spec => []Conservation
<1>1. IInv => Conservation
  <2> SUFFICES ASSUME IInv PROVE total = available + SumHeld
    BY DEF Conservation, SumHeld, HeldNodes
  <2> QED
    BY DEF IInv, SupplyInv
<1> QED
  BY <1>1, Invariant, PTL

\* Without that: permits may get lost, but none is ever made up.
THEOREM NoPermitIsMadeUp == Spec => [](available + SumHeld <= total)
<1>1. IInv => available + SumHeld <= total
  BY DEF IInv, SupplyInv
<1> QED
  BY <1>1, Invariant, PTL

-----------------------------------------------------------------------------
\* What the steps are to those they are not about: for the properties of steps.

\* Nobody comes, goes or is granted permits; who was asked to leave stays asked.
NobodyMoves ==
  /\ UNCHANGED <<queue, entry>>
  /\ \A d \in Nodes : /\ HasLock(waiter'[d]) <=> HasLock(waiter[d])
                      /\ WantsEvict(waiter[d]) => WantsEvict(waiter'[d])

\* The node x goes.
Leaves(x) == OthersKeep(x) /\ OrderKept(x) /\ ~Queued(queue', x)

\* The node x comes, with the entry e, and with permits or without.
Comes(x, e, held) ==
  /\ ~Queued(queue, x) /\ queue' \in Enqueued(queue, x, e, held, waiter)
  /\ entry'[x] = e /\ (HasLock(waiter'[x]) <=> held)
  /\ OthersKeep(x) /\ OrderKept(x)

\* The node that activate_waiters is at is granted its permits.
Started(x) ==
  /\ x = walk /\ Pending(x) /\ HasLock(waiter'[x])
  /\ UNCHANGED entry
  /\ OthersKeep(x) /\ OrderKept(x)

\* What the drops of waiters and permits, forget and merge have in common.
LEMMA RemovalsLeave ==
  ASSUME IInv, NEW n \in Nodes,
         \/ DropWaiter(n) \/ DropPermit(n) \/ Forget(n)
         \/ \E m \in Nodes : Merge(m, n)
  PROVE  Leaves(n)
<1>1. /\ TypeOK /\ entry \in [Nodes -> Entries] /\ waiter \in [Nodes -> Cell]
      /\ pc \in [Nodes -> PCs]
  BY DEF IInv, TypeOK
<1>2. queue' = Dequeue(queue, n) /\ pc[n] # "idle" /\ pc' = [pc EXCEPT ![n] = "idle"]
  BY DEF DropWaiter, DropPermit, Forget, Merge, Gone
<1>3. \A d \in Nodes \ {n} :
        /\ entry'[d].priority = entry[d].priority
        /\ entry'[d].within = entry[d].within
        /\ HasLock(waiter[d]) \/ entry'[d].count = entry[d].count
  <2>1. CASE entry' = [entry EXCEPT ![n] = Blank]
    BY <1>1, <2>1
  <2>2. CASE \E m \in Nodes : Merge(m, n)
    <3>1. PICK m \in Nodes : Merge(m, n)
      BY <2>2
    <3> DEFINE e == [entry[m] EXCEPT !.count = @ + Count(n)]
    <3>2. entry' = [entry EXCEPT ![m] = e, ![n] = Blank] /\ pc[m] = "held"
      BY <3>1 DEF Merge
    <3>3. HasLock(waiter[m])
      BY <1>1, <3>2 DEF TypeOK
    <3>4. e.priority = entry[m].priority /\ e.within = entry[m].within
      BY <1>1 DEF Entries
    <3> HIDE DEF e
    <3> QED
      BY <1>1, <3>2, <3>3, <3>4
  <2> QED
    BY <2>1, <2>2 DEF DropWaiter, DropPermit, Forget, Gone
<1>4. \A d \in Nodes \ {n} : waiter'[d] \in {waiter[d], AddFlag(waiter[d], "WANTS_EVICT")}
  <2>1. CASE waiter' = [waiter EXCEPT ![n] = NewCell(FALSE)]
    BY <1>1, <2>1
  <2>2. CASE Forget(n)
    <3> DEFINE w == IF Total /\ NextOf(n) # NoNode
                      THEN NotifyOversized(queue', NextOf(n), total')
                      ELSE waiter
    <3>1. waiter' = [w EXCEPT ![n] = NewCell(FALSE)]
      BY <2>2 DEF Forget
    <3>2. /\ DOMAIN w = Nodes
          /\ \A d \in Nodes : w[d] \in {waiter[d], AddFlag(waiter[d], "WANTS_EVICT")}
      BY <1>1, NotifyProperties DEF NotifyOversized
    <3> HIDE DEF w
    <3> QED
      BY <3>1, <3>2
  <2> QED
    BY <2>1, <2>2 DEF DropWaiter, DropPermit, Merge, Without
<1>5. OthersKeep(n)
  BY <1>1, <1>2, <1>3, <1>4 DEF OthersKeep
<1> QED
  BY <1>1, <1>2, <1>5, DequeueKeepsOrder DEF Leaves, TypeOK

\* What do_acquire and split have in common.
LEMMA NewcomersCome ==
  ASSUME IInv
  PROVE  /\ \A n \in Nodes, e \in Requests : Acquire(n, e) =>
              Comes(n, e, available >= e.count /\ MayGoFirst(e.priority))
         /\ \A n \in Nodes, m \in Nodes, c \in Counts, p \in Priorities :
              Split(n, m, c, p) =>
                Comes(m, [priority |-> p, count |-> c, within |-> FALSE], TRUE)
<1>1. /\ TypeOK /\ entry \in [Nodes -> Entries] /\ waiter \in [Nodes -> Cell]
      /\ pc \in [Nodes -> PCs]
  BY DEF IInv, TypeOK
<1>2. ASSUME NEW n \in Nodes, NEW e \in Requests, Acquire(n, e)
      PROVE  Comes(n, e, available >= e.count /\ MayGoFirst(e.priority))
  <2> DEFINE granted == available >= e.count /\ MayGoFirst(e.priority)
             w == EvictHolders(e.priority)
  <2>1. /\ pc[n] = "idle" /\ queue' \in Enqueued(queue, n, e, granted, waiter)
        /\ entry' = [entry EXCEPT ![n] = e]
        /\ waiter' = [w EXCEPT ![n] = NewCell(granted)]
        /\ pc' = [pc EXCEPT ![n] = IF granted THEN "held" ELSE "polling"]
    BY <1>2 DEF Acquire
  <2>2. granted \in BOOLEAN
    BY DEF MayGoFirst
  <2> HIDE DEF granted
  <2>3. /\ w = [d \in Nodes |-> w[d]]
        /\ \A d \in Nodes : w[d] \in {waiter[d], AddFlag(waiter[d], "WANTS_EVICT")}
    BY <1>1, EvictHoldersProperties
  <2> HIDE DEF w
  <2>4. /\ waiter'[n] = NewCell(granted)
        /\ \A d \in Nodes \ {n} : waiter'[d] = w[d]
    BY <2>1, <2>3
  <2>5. entry'[n] = e /\ \A d \in Nodes \ {n} : entry'[d] = entry[d]
    BY <1>1, <2>1
  <2>6. OthersKeep(n)
    BY <1>1, <2>1, <2>3, <2>4, <2>5 DEF OthersKeep
  <2>7. ~Queued(queue, n)
    BY <1>1, <2>1 DEF TypeOK
  <2>8. OrderKept(n)
    BY <1>1, <2>1, <2>7, EnqueueKeepsOrder
  <2>9. HasLock(waiter'[n]) <=> granted
    BY <2>2, <2>4, NewCellType
  <2> QED
    BY <2>1, <2>5, <2>6, <2>7, <2>8, <2>9 DEF Comes, granted
<1>3. ASSUME NEW n \in Nodes, NEW m \in Nodes, NEW c \in Counts, NEW p \in Priorities,
             Split(n, m, c, p)
      PROVE  Comes(m, [priority |-> p, count |-> c, within |-> FALSE], TRUE)
  <2> DEFINE e == [priority |-> p, count |-> c, within |-> FALSE]
             r == [entry[n] EXCEPT !.count = @ - c]
  <2>1. /\ pc[n] = "held" /\ pc[m] = "idle"
        /\ queue' \in Enqueued(queue, m, e, TRUE, waiter)
        /\ entry' = [entry EXCEPT ![n] = r, ![m] = e]
        /\ waiter' = [waiter EXCEPT ![m] = NewCell(TRUE)]
        /\ pc' = [pc EXCEPT ![m] = "held"]
    BY <1>3 DEF Split
  <2>2. HasLock(waiter[n]) /\ n # m /\ ~Queued(queue, m)
    BY <1>1, <2>1 DEF TypeOK
  <2>3. r.priority = entry[n].priority /\ r.within = entry[n].within
    BY <1>1 DEF Entries
  <2> HIDE DEF e, r
  <2>4. /\ waiter'[m] = NewCell(TRUE) /\ entry'[m] = e
        /\ OthersKeep(m)
    BY <1>1, <2>1, <2>2, <2>3 DEF OthersKeep
  <2>5. OrderKept(m)
    BY <1>1, <2>1, <2>2, EnqueueKeepsOrder
  <2> QED
    BY <2>1, <2>2, <2>4, <2>5, NewCellType DEF Comes, e
<1> QED
  BY <1>2, <1>3

\* A turn of activate_waiters that grants.
LEMMA ActivateStarts ==
  ASSUME IInv, Activate
  PROVE  walk \in Nodes /\ Started(walk)
<1>1. PICK n \in Nodes : n = walk
  BY DEF IInv, TypeOK, Activate
<1>2. /\ n # NoNode /\ ~HasLock(waiter[n])
      /\ waiter' = [waiter EXCEPT ![n] = AddFlag(waiter[n], "HAS_LOCK")]
      /\ UNCHANGED <<entry, pc>>
  BY <1>1 DEF Activate
<1>3. TypeOK /\ Queued(queue, n) /\ waiter \in [Nodes -> Cell]
  BY <1>1, <1>2 DEF IInv, TypeOK
<1>4. HasLock(waiter'[n]) /\ OthersKeep(n)
  BY <1>2, <1>3, AddFlagKeepsOther DEF OthersKeep
<1>5. OrderKept(n)
  <2> DEFINE w == waiter'
  <2>1. queue' \in Repositioned(queue, n, w)
    BY <1>1 DEF Activate
  <2> HIDE DEF w
  <2> QED
    BY <1>3, <2>1, RepositionKeepsOrder
<1> QED
  BY <1>1, <1>2, <1>3, <1>4, <1>5 DEF Started, Pending

\* Every step is of one of these kinds.
LEMMA KindsOfSteps ==
  ASSUME IInv, [Next]_vars
  PROVE  \/ NobodyMoves
         \/ \E n \in Nodes : Leaves(n)
         \/ \E n \in Nodes, e \in Requests : Acquire(n, e)
         \/ \E n \in Nodes, m \in Nodes, c \in Counts, p \in Priorities : Split(n, m, c, p)
         \/ Activate
<1>1. waiter \in [Nodes -> Cell]
  BY DEF IInv, TypeOK
<1>2. ASSUME NEW n \in Nodes,
             PollAcquire(n) \/ CancelAcquire(n) \/ PollEvicted(n) \/ CancelEvicted(n)
      PROVE  NobodyMoves
  <2>1. PICK w \in {ClearWaker(waiter[n]), Park(waiter[n])} :
          waiter' = [waiter EXCEPT ![n] = w]
    BY <1>2 DEF PollAcquire, CancelAcquire, PollEvicted, CancelEvicted
  <2>2. w.flags = waiter[n].flags
    BY <1>1, WaitProperties
  <2>3. \A d \in Nodes : waiter'[d].flags = waiter[d].flags
    BY <1>1, <2>1, <2>2
  <2>4. UNCHANGED <<queue, entry>>
    BY <1>2 DEF PollAcquire, CancelAcquire, PollEvicted, CancelEvicted
  <2> QED
    BY <2>3, <2>4 DEF NobodyMoves, HasLock, WantsEvict
<1>3. ASSUME NEW c \in Counts, AddPermits(c) \/ ForgetPermits(c)
      PROVE  NobodyMoves
  <2>1. UNCHANGED <<queue, entry>>
    BY <1>3 DEF AddPermits, ForgetPermits
  <2>2. \A d \in Nodes : waiter'[d] \in {waiter[d], AddFlag(waiter[d], "WANTS_EVICT")}
    <3>1. waiter' \in {waiter, NotifyOversized(queue, NoNode, total')}
      BY <1>3 DEF AddPermits, ForgetPermits
    <3> QED
      BY <3>1, NotifyProperties
  <2> QED
    BY <1>1, <2>1, <2>2, AddFlagKeepsOther DEF NobodyMoves
<1>4. CASE SkipHolder \/ PassOrStop \/ UNCHANGED vars
  BY <1>4 DEF NobodyMoves, SkipHolder, PassOrStop, vars
<1>5. ASSUME NEW n \in Nodes,
             \/ DropWaiter(n) \/ DropPermit(n) \/ Forget(n)
             \/ \E m \in Nodes : Merge(m, n)
      PROVE  \E x \in Nodes : Leaves(x)
  BY <1>5, RemovalsLeave
<1> QED
  BY <1>2, <1>3, <1>4, <1>5 DEF Next, ActivateWaiters

-----------------------------------------------------------------------------
\* The order among requests that tie, for a discipline that treats ties alike.

\* Of two requests that compare_new does not tell apart, the smaller comes first.
TieOrder ==
  \A a, b \in Nodes :
    /\ Before(queue, a, b) /\ ~HasLock(waiter[a]) /\ ~HasLock(waiter[b])
    /\ CompareNew(Prio(a), Prio(b)) = "Equal"
    => Count(a) <= Count(b)

\* Nobody's request changes, so that only x, if it waits, can be out of order.
LEMMA TiesStay ==
  ASSUME TypeOK, TieOrder, NEW x, OthersKeep(x), OrderKept(x),
         x \in Nodes /\ ~HasLock(waiter'[x]) => \A d \in Nodes \ {x} :
           /\ Before(queue', d, x) /\ ~HasLock(waiter[d])
                /\ CompareNew(Prio(d), entry'[x].priority) = "Equal"
                => Count(d) <= entry'[x].count
           /\ Before(queue', x, d) /\ ~HasLock(waiter[d])
                /\ CompareNew(entry'[x].priority, Prio(d)) = "Equal"
                => entry'[x].count <= Count(d),
         x \in Nodes => ~Before(queue', x, x)
  PROVE  TieOrder'
<1> SUFFICES ASSUME NEW a \in Nodes, NEW b \in Nodes, Before(queue', a, b),
                    ~HasLock(waiter'[a]), ~HasLock(waiter'[b]),
                    CompareNew(entry'[a].priority, entry'[b].priority) = "Equal"
             PROVE  entry'[a].count <= entry'[b].count
  BY DEF TieOrder, Prio, Count
<1>1. ASSUME NEW d \in Nodes \ {x}, ~HasLock(waiter'[d])
      PROVE  ~HasLock(waiter[d]) /\ entry'[d].priority = Prio(d) /\ entry'[d].count = Count(d)
  BY <1>1, FlagsKept DEF OthersKeep, Prio, Count
<1>2. CASE a # x /\ b # x
  BY <1>1, <1>2 DEF TieOrder, OrderKept
<1>3. CASE a = x /\ b # x
  BY <1>1, <1>3
<1>4. CASE a # x /\ b = x
  BY <1>1, <1>4
<1> QED
  BY <1>2, <1>3, <1>4

\* A newcomer is placed by what it asks for as well.
LEMMA ComesKeepsTies ==
  ASSUME TiesAlike, TypeOK, TieOrder,
         NEW n \in Nodes, NEW e \in Entries, NEW held \in BOOLEAN, Comes(n, e, held)
  PROVE  TieOrder'
<1> DEFINE v == Verdict(e, held, waiter)
<1>1. /\ ~Queued(queue, n) /\ queue' \in Enqueued(queue, n, e, held, waiter)
      /\ entry'[n] = e /\ (HasLock(waiter'[n]) <=> held)
      /\ OthersKeep(n) /\ OrderKept(n)
  BY DEF Comes
<1>2. /\ \A a : Before(queue', a, n) => a \in Nodes \ {n} /\ v[a] # "Greater"
      /\ \A b : Before(queue', n, b) => b \in Nodes \ {n} /\ v[b] # "Less"
  BY <1>1, EnqueueKeepsOrder
<1>3. ASSUME ~held, NEW d \in Nodes, ~HasLock(waiter[d]),
             CompareNew(e.priority, Prio(d)) = "Equal"
      PROVE  v[d] = IF e.count < Count(d) THEN "Greater"
                    ELSE IF e.count > Count(d) THEN "Less" ELSE "Equal"
  <2> DEFINE h == HasLock(waiter[d])
  <2>1. h \in BOOLEAN
    BY DEF HasLock
  <2> HIDE DEF h
  <2>2. ~h
    BY <1>3 DEF h
  <2>3. h = held /\ h = HasLock(waiter[d])
    BY <1>3, <2>1, <2>2 DEF h
  <2>4. v[d] = SmallerFirst(CompareNew(e.priority, Prio(d)), e.count, Count(d))
    BY <1>3, <2>3 DEF Verdict
  <2> QED
    BY <1>3, <2>4 DEF SmallerFirst
<1> HIDE DEF v
<1>4. ASSUME NEW d \in Nodes
      PROVE  /\ Prio(d) \in Priorities /\ e.priority \in Priorities
             /\ Count(d) \in Nat /\ e.count \in Nat
  BY CountsAreNaturals, UsizeAssumption DEF Entries
<1>5. ASSUME ~held, NEW d \in Nodes \ {n}, ~HasLock(waiter[d])
      PROVE  /\ Before(queue', d, n) /\ CompareNew(Prio(d), e.priority) = "Equal"
                  => Count(d) <= e.count
             /\ Before(queue', n, d) /\ CompareNew(e.priority, Prio(d)) = "Equal"
                  => e.count <= Count(d)
  <2>1. CompareNew(Prio(d), e.priority) = "Equal" => CompareNew(e.priority, Prio(d)) = "Equal"
    BY <1>4, TiesAreMutual
  <2> QED
    BY <1>2, <1>3, <1>4, <1>5, <2>1
<1> QED
  BY <1>1, <1>2, <1>5, TiesStay

\* Every step keeps the order among requests that tie.
LEMMA NextKeepsTies ==
  ASSUME TiesAlike, IInv, TieOrder, [Next]_vars
  PROVE  TieOrder'
<1>1. TypeOK
  BY DEF IInv
<1>2. CASE NobodyMoves
  BY <1>2 DEF NobodyMoves, TieOrder, Prio, Count
<1>3. ASSUME NEW n \in Nodes, Leaves(n) PROVE TieOrder'
  BY <1>1, <1>3, GoneIsPlaced, TiesStay DEF Leaves
<1>4. ASSUME NEW n \in Nodes, NEW e \in Requests, Acquire(n, e) PROVE TieOrder'
  <2> DEFINE granted == available >= e.count /\ MayGoFirst(e.priority)
  <2>1. Comes(n, e, granted) /\ granted \in BOOLEAN
    BY <1>4, NewcomersCome DEF MayGoFirst
  <2> HIDE DEF granted
  <2> QED
    BY <1>1, <2>1, RequestsAreEntries, ComesKeepsTies
<1>5. ASSUME NEW n \in Nodes, NEW m \in Nodes, NEW c \in Counts, NEW p \in Priorities,
             Split(n, m, c, p)
      PROVE  TieOrder'
  <2> DEFINE e == [priority |-> p, count |-> c, within |-> FALSE]
  <2>1. e \in Entries /\ Comes(m, e, TRUE)
    BY <1>5, UsizeAssumption, NewcomersCome DEF Entries
  <2> HIDE DEF e
  <2> QED
    BY <1>1, <2>1, ComesKeepsTies
<1>6. CASE Activate
  <2>1. walk \in Nodes /\ Started(walk)
    BY <1>6, ActivateStarts
  <2>2. IInv'
    BY <1>6, ActivateKeepsIInv
  <2>3. ~Before(queue', walk, walk)
    BY <2>2, BeforeIsOrder DEF IInv, TypeOK
  <2> QED
    BY <1>1, <2>1, <2>3, TiesStay DEF Started
<1> QED
  BY <1>2, <1>3, <1>4, <1>5, <1>6, KindsOfSteps

\* The queue is in the order that SemaphoreInner documents, for every discipline
\* that treats ties alike: all of those in priority.rs.
LEMMA TiesAreInOrder ==
  ASSUME TiesAlike
  PROVE  Spec => [](IInv /\ TieOrder)
<1>1. Init => TieOrder
  BY DEF Init, TieOrder, Before
<1>2. IInv /\ TieOrder /\ [Next]_vars => TieOrder'
  BY NextKeepsTies
<1> QED
  BY <1>1, <1>2, Invariant, PTL DEF Spec

\* Holders come before requests, each part is in priority order, and of requests
\* that tie the smaller is first.
THEOREM OrderOfTheQueue ==
  ASSUME TiesAlike
  PROVE  Spec => []QueueInOrder
<1>1. IInv /\ TieOrder => QueueInOrder
  <2> SUFFICES ASSUME IInv, TieOrder, NEW i \in 1 .. Len(queue), NEW j \in 1 .. Len(queue),
                      i < j,
                      NEW a, a = queue[i], NEW b, b = queue[j]
               PROVE  /\ Held(b) => Held(a)
                      /\ Held(a) = Held(b) => Compare(Prio(b), Prio(a)) # "Greater"
                      /\ Pending(a) /\ CompareNew(Prio(a), Prio(b)) = "Equal"
                           => Count(a) <= Count(b)
    BY DEF QueueInOrder
  <2>1. Before(queue, a, b) /\ Queued(queue, a) /\ Queued(queue, b)
    BY DEF Before, Queued
  <2>2. a \in Nodes /\ b \in Nodes
    BY <2>1, QueuedAreNodes DEF IInv
  <2>3. (Held(a) <=> HasLock(waiter[a])) /\ (Held(b) <=> HasLock(waiter[b]))
    BY <2>1 DEF Held
  <2>4. HasLock(waiter[b]) => HasLock(waiter[a])
    BY <2>1, <2>2 DEF IInv, HoldersFirst
  <2>5. (HasLock(waiter[a]) <=> HasLock(waiter[b])) => Compare(Prio(b), Prio(a)) # "Greater"
    BY <2>1, <2>2 DEF IInv, InPriorityOrder
  <2>6. Pending(a) /\ CompareNew(Prio(a), Prio(b)) = "Equal" => Count(a) <= Count(b)
    BY <2>1, <2>2, <2>4 DEF TieOrder, Pending
  <2> QED
    BY <2>3, <2>4, <2>5, <2>6
<1> QED
  BY <1>1, TiesAreInOrder, PTL

\* A newcomer's verdicts on the queue never contradict each other, whether it
\* comes as a holder or as a request.
THEOREM EveryoneHasAPlace ==
  ASSUME TiesAlike
  PROVE  Spec => []AlwaysAPlace
<1>1. IInv /\ TieOrder => AlwaysAPlace
  <2> SUFFICES ASSUME IInv, TieOrder, NEW e \in Requests, NEW held \in BOOLEAN,
                      NEW i \in 1 .. Len(queue), NEW j \in 1 .. Len(queue), i < j,
                      NEW v, v = Verdict(e, held, waiter)
               PROVE  /\ v[queue[i]] = "Greater" => v[queue[j]] = "Greater"
                      /\ v[queue[i]] = "Equal" => v[queue[j]] # "Less"
    BY DEF AlwaysAPlace, InAgreement
  <2>1. PICK a, b : a = queue[i] /\ b = queue[j]
    OBVIOUS
  <2>2. Before(queue, a, b) /\ a \in Nodes /\ b \in Nodes
    <3>1. Before(queue, a, b)
      BY <2>1 DEF Before
    <3> QED
      BY <3>1, QueuedAreNodes DEF IInv
  <2>3. /\ e.priority \in Priorities /\ e.count \in Nat
        /\ Prio(a) \in Priorities /\ Prio(b) \in Priorities
        /\ Count(a) \in Nat /\ Count(b) \in Nat
    BY <2>2, RequestsAreEntries, CountsAreNaturals DEF IInv, Entries
  <2>4. /\ HasLock(waiter[b]) => HasLock(waiter[a])
        /\ (HasLock(waiter[a]) <=> HasLock(waiter[b]))
             => Compare(Prio(b), Prio(a)) # "Greater"
    BY <2>2 DEF IInv, HoldersFirst, InPriorityOrder
  <2> DEFINE va == CompareNew(e.priority, Prio(a))
             vb == CompareNew(e.priority, Prio(b))
  <2>5. ASSUME HasLock(waiter[a]) <=> HasLock(waiter[b])
        PROVE  /\ va = "Greater" => vb = "Greater"
               /\ va = "Equal" => \/ vb = "Greater"
                                  \/ vb = "Equal" /\ CompareNew(Prio(a), Prio(b)) = "Equal"
    BY <2>3, <2>4, <2>5, NewcomersAgree
  <2>6. /\ HasLock(waiter[a]) \in BOOLEAN /\ HasLock(waiter[b]) \in BOOLEAN
        /\ v[a] = IF held # HasLock(waiter[a]) THEN (IF held THEN "Greater" ELSE "Less")
                  ELSE IF held THEN va ELSE SmallerFirst(va, e.count, Count(a))
        /\ v[b] = IF held # HasLock(waiter[b]) THEN (IF held THEN "Greater" ELSE "Less")
                  ELSE IF held THEN vb ELSE SmallerFirst(vb, e.count, Count(b))
    BY <2>2 DEF Verdict, HasLock
  <2> HIDE DEF va, vb
  <2>7. CASE HasLock(waiter[a]) # HasLock(waiter[b])
    BY <2>1, <2>4, <2>6, <2>7
  <2>8. CASE HasLock(waiter[a]) = HasLock(waiter[b]) /\ HasLock(waiter[a]) # held
    BY <2>1, <2>6, <2>8
  <2>9. CASE HasLock(waiter[a]) = HasLock(waiter[b]) /\ held /\ HasLock(waiter[a])
    BY <2>1, <2>5, <2>6, <2>9
  <2>10. CASE ~held /\ ~HasLock(waiter[a]) /\ ~HasLock(waiter[b])
    <3>1. /\ v[a] = SmallerFirst(va, e.count, Count(a))
          /\ v[b] = SmallerFirst(vb, e.count, Count(b))
      BY <2>6, <2>10
    <3>2. vb = "Greater" => v[b] = "Greater"
      BY <3>1 DEF SmallerFirst
    <3>3. CASE va = "Equal" /\ vb = "Equal" /\ CompareNew(Prio(a), Prio(b)) = "Equal"
      <4>1. Count(a) <= Count(b)
        BY <2>2, <2>10, <3>3 DEF TieOrder
      <4> QED
        BY <2>1, <2>3, <3>1, <3>3, <4>1 DEF SmallerFirst
    <3>4. CASE va # "Greater" /\ va # "Equal"
      BY <2>1, <3>1, <3>4 DEF SmallerFirst
    <3> QED
      BY <2>1, <2>5, <2>10, <3>2, <3>3, <3>4
  <2> QED
    BY <2>6, <2>7, <2>8, <2>9, <2>10
<1> QED
  BY <1>1, TiesAreInOrder, PTL

-----------------------------------------------------------------------------
\* Permits go by priority, where do_acquire's search is for the first request:
\* without semaphore-total, which inverts what it passes over.

\* A request that may go first is outranked by nobody that waits.
LEMMA MayGoFirstMeans ==
  ASSUME ~Total, IInv, NEW p \in Priorities, MayGoFirst(p), NEW d \in Nodes, Pending(d)
  PROVE  Compare(Prio(d), p) # "Greater"
<1> DEFINE W == {n \in Nodes : Pending(n)}
<1>1. PICK n \in W : \A k \in W : ~Before(queue, k, n)
  BY FirstOfSome, d \in W, W \subseteq Nodes DEF IInv
<1>2. TypeOK /\ n \in Nodes /\ Pending(n)
  BY <1>1 DEF IInv
<1>3. \A k \in Nodes : Before(queue, k, n) => HasLock(waiter[k])
  BY <1>1, <1>2, BeforeIsOrder DEF TypeOK, Pending
<1>4. Compare(p, Prio(n)) # "Less"
  BY <1>2, <1>3 DEF MayGoFirst, Skipped, Pending
<1>5. Compare(Prio(d), Prio(n)) # "Greater"
  <2>1. CASE d = n
    BY <1>2, <2>1, CountsAreNaturals, CompareIsPreorder
  <2>2. CASE d # n
    <3>1. Before(queue, n, d)
      BY <1>1, <1>2, <2>2, BeforeIsOrder DEF TypeOK, Pending
    <3> QED
      BY <1>2, <3>1 DEF IInv, InPriorityOrder, Pending
  <2> QED
    BY <2>1, <2>2
<1>6. Prio(d) \in Priorities /\ Prio(n) \in Priorities
  BY <1>2, CountsAreNaturals
<1> QED
  BY <1>4, <1>5, <1>6, CompareIsPreorder

\* Whoever activate_waiters is at comes before all others that wait.
LEMMA WalkIsFirst ==
  ASSUME ~Total, IInv, walk \in Nodes, Pending(walk), NEW d \in Nodes, Pending(d)
  PROVE  Compare(Prio(d), Prio(walk)) # "Greater"
<1>1. TypeOK /\ ~Unlocked
  BY NodesAssumption DEF IInv, Unlocked
<1>2. ~Before(queue, d, walk)
  BY <1>1 DEF IInv, WalkInv, Pending
<1>3. CASE d = walk
  BY <1>1, <1>3, CountsAreNaturals, CompareIsPreorder
<1>4. CASE d # walk
  <2>1. Before(queue, walk, d)
    BY <1>1, <1>2, <1>4, BeforeIsOrder DEF TypeOK, Pending
  <2> QED
    BY <2>1 DEF IInv, InPriorityOrder, Pending
<1> QED
  BY <1>3, <1>4

\* The nodes a step is not about hold permits, or wait, as before.
LEMMA OthersStand ==
  ASSUME TypeOK, NEW x, OthersKeep(x), OrderKept(x), NEW d \in Nodes \ {x}
  PROVE  /\ Held(d)' <=> Held(d)
         /\ Pending(d)' <=> Pending(d)
         /\ entry'[d].priority = Prio(d)
         /\ WantsEvict(waiter[d]) => WantsEvict(waiter'[d])
BY FlagsKept DEF Held, Pending, OthersKeep, OrderKept, Prio

\* What a grant needs: nobody that waits outranks the one that is granted.
LEMMA GrantsAreInOrder ==
  ASSUME ~Total, IInv, [Next]_vars, NEW n \in Nodes, Granted(n),
         NEW d \in Nodes, Pending(d)
  PROVE  Compare(Prio(d), entry'[n].priority) # "Greater"
<1>1. TypeOK /\ ~Held(n) /\ Held(n)' /\ (pc[n] = "idle" => available' < available)
  BY DEF IInv, Granted
<1>2. CASE NobodyMoves
  BY <1>1, <1>2 DEF NobodyMoves, Held
<1>3. ASSUME NEW x \in Nodes, Leaves(x) PROVE FALSE
  BY <1>1, <1>3, OthersStand DEF Leaves, Held
<1>4. ASSUME NEW x \in Nodes, NEW e \in Requests, Acquire(x, e)
      PROVE  Compare(Prio(d), entry'[n].priority) # "Greater"
  <2> DEFINE granted == available >= e.count /\ MayGoFirst(e.priority)
  <2>1. Comes(x, e, granted)
    BY <1>4, NewcomersCome
  <2>2. n = x /\ granted
    BY <1>1, <2>1, OthersStand DEF Comes, Held
  <2> HIDE DEF granted
  <2>3. entry'[n].priority = e.priority /\ e.priority \in Priorities
    BY <2>1, <2>2, RequestsAreEntries DEF Comes, Entries
  <2>4. MayGoFirst(e.priority)
    BY <2>2 DEF granted
  <2> QED
    BY <2>3, <2>4, MayGoFirstMeans
<1>5. ASSUME NEW k \in Nodes, NEW m \in Nodes, NEW c \in Counts, NEW p \in Priorities,
             Split(k, m, c, p)
      PROVE  FALSE
  <2>1. Comes(m, [priority |-> p, count |-> c, within |-> FALSE], TRUE)
    BY <1>5, NewcomersCome
  <2>2. n = m
    BY <1>1, <2>1, OthersStand DEF Comes
  <2>3. pc[m] = "idle" /\ available' = available
    BY <1>5 DEF Split
  <2>4. available \in Nat
    BY UsizeAssumption DEF IInv, TypeOK
  <2> QED
    BY <1>1, <2>2, <2>3, <2>4
<1>6. CASE Activate
  <2>1. walk \in Nodes /\ Started(walk)
    BY <1>6, ActivateStarts
  <2>2. n = walk
    BY <1>1, <2>1, OthersStand DEF Started
  <2>3. entry'[n].priority = Prio(walk) /\ Pending(walk)
    BY <2>1, <2>2 DEF Started, Prio
  <2> QED
    BY <2>1, <2>3, WalkIsFirst
<1> QED
  BY <1>2, <1>3, <1>4, <1>5, <1>6, KindsOfSteps

\* Nobody is granted permits while a request that outranks it is left waiting.
THEOREM PermitsGoByPriority ==
  ASSUME ~Total
  PROVE  Spec => GrantsInOrder
<1>1. IInv /\ [Next]_vars =>
        [\A n, d \in Nodes :
           Granted(n) /\ Pending(d) /\ Pending(d)' /\ ~WantsEvict(waiter'[d])
             => Compare(Prio(d), Prio(n)') # "Greater"]_vars
  BY GrantsAreInOrder DEF Prio
<1> QED
  BY <1>1, Invariant, PTL DEF Spec, GrantsInOrder

\* A holder that nobody had forgotten is asked to leave by whoever comes to
\* outrank it, and whoever is granted permits is outranked by nobody.
LEMMA NobodyElseIsForgotten ==
  ASSUME ~Total, Evict, IInv, [Next]_vars, NEW n \in Nodes, NEW d \in Nodes,
         Unasked(n, d)', ~Unasked(n, d)
  PROVE  pc[n] = "idle" /\ ~Granted(n)
<1>1. /\ Held(n)' /\ ~WantsEvict(waiter'[n]) /\ Pending(d)'
      /\ Compare(entry'[d].priority, entry'[n].priority) = "Greater"
  BY DEF Unasked, Prio
<1>2. TypeOK
  BY DEF IInv
\* A step by which neither of the two becomes what it is keeps them as they were.
<1>3. ASSUME Held(n), Pending(d),
             entry'[n].priority = Prio(n), entry'[d].priority = Prio(d),
             WantsEvict(waiter[n]) => WantsEvict(waiter'[n])
      PROVE  FALSE
  BY <1>1, <1>3 DEF Unasked
\* A step that grants the holder its permits does so with nobody above it.
<1>4. ASSUME Pending(d), entry'[d].priority = Prio(d) PROVE ~Granted(n)
  BY <1>1, <1>4, GrantsAreInOrder
<1>5. CASE NobodyMoves
  <2>1. Held(n) /\ Pending(d)
    BY <1>1, <1>5 DEF NobodyMoves, Held, Pending
  <2> QED
    BY <1>3, <1>5, <2>1 DEF NobodyMoves, Prio
<1>6. ASSUME NEW x \in Nodes, Leaves(x) PROVE FALSE
  <2>1. n # x /\ d # x
    BY <1>1, <1>6 DEF Leaves, Held, Pending
  <2> QED
    BY <1>1, <1>2, <1>3, <1>6, <2>1, OthersStand DEF Leaves
<1>7. ASSUME NEW x \in Nodes, NEW e \in Requests, Acquire(x, e)
      PROVE  pc[n] = "idle" /\ ~Granted(n)
  <2> DEFINE granted == available >= e.count /\ MayGoFirst(e.priority)
  <2>1. Comes(x, e, granted) /\ pc[x] = "idle"
    BY <1>7, NewcomersCome DEF Acquire
  <2> HIDE DEF granted
  <2>2. OthersKeep(x) /\ OrderKept(x)
    BY <2>1 DEF Comes
  <2>3. CASE n = x
    <3>1. d # x
      BY <1>1, <2>3 DEF Held, Pending
    <3>2. Pending(d) /\ entry'[d].priority = Prio(d)
      BY <1>1, <1>2, <2>2, <3>1, OthersStand
    <3> QED
      BY <1>4, <2>1, <2>3, <3>2
  <2>4. CASE n # x /\ d = x
    <3>1. Held(n) /\ entry'[n].priority = Prio(n)
      BY <1>1, <1>2, <2>2, <2>4, OthersStand
    <3>2. entry'[d].priority = e.priority
      BY <2>1, <2>4 DEF Comes
    <3>3. WantsEvict(EvictHolders(e.priority)[n])
      BY <1>1, <1>2, <3>1, <3>2, EvictHoldersProperties
    <3>4. waiter'[n] = EvictHolders(e.priority)[n]
      BY <1>2, <1>7, <2>4, EvictHoldersProperties DEF Acquire
    <3> QED
      BY <1>1, <3>3, <3>4
  <2>5. CASE n # x /\ d # x
    BY <1>1, <1>2, <1>3, <2>2, <2>5, OthersStand
  <2> QED
    BY <2>3, <2>4, <2>5
<1>8. ASSUME NEW k \in Nodes, NEW m \in Nodes, NEW c \in Counts, NEW p \in Priorities,
             Split(k, m, c, p)
      PROVE  pc[n] = "idle" /\ ~Granted(n)
  <2>1. /\ Comes(m, [priority |-> p, count |-> c, within |-> FALSE], TRUE)
        /\ pc[m] = "idle"
    BY <1>8, NewcomersCome DEF Split
  <2>2. OthersKeep(m) /\ OrderKept(m) /\ d # m
    BY <1>1, <2>1 DEF Comes, Pending
  <2>3. Pending(d) /\ entry'[d].priority = Prio(d)
    BY <1>1, <1>2, <2>2, OthersStand
  <2>4. CASE n = m
    BY <1>4, <2>1, <2>3, <2>4
  <2>5. CASE n # m
    BY <1>1, <1>2, <1>3, <2>2, <2>3, <2>5, OthersStand
  <2> QED
    BY <2>4, <2>5
<1>9. CASE Activate
  <2>1. walk \in Nodes /\ Started(walk)
    BY <1>9, ActivateStarts
  <2>2. OthersKeep(walk) /\ OrderKept(walk) /\ d # walk /\ Pending(walk)
    BY <1>1, <2>1 DEF Started, Pending
  <2>3. Pending(d) /\ entry'[d].priority = Prio(d)
    BY <1>1, <1>2, <2>2, OthersStand
  <2>4. n # walk
    <3>1. pc[walk] # "idle" /\ ~Held(walk)
      BY <1>2, <2>1, <2>2 DEF TypeOK, Pending, Held
    <3> QED
      BY <1>1, <1>4, <2>3, <3>1 DEF Granted
  <2> QED
    BY <1>1, <1>2, <1>3, <2>2, <2>3, <2>4, OthersStand
<1> QED
  BY <1>5, <1>6, <1>7, <1>8, <1>9, KindsOfSteps

\* Whatever is granted, queued, returned or merged, a holder that comes to be
\* outranked is asked to leave; all but those split off another permit are.
THEOREM OnlySplitsAreForgotten ==
  ASSUME ~Total
  PROVE  Spec => OnlySplitsAreUnasked
<1>1. IInv /\ [Next]_vars =>
        [Evict => \A n, d \in Nodes :
           Unasked(n, d)' => Unasked(n, d) \/ (pc[n] = "idle" /\ ~Granted(n))]_vars
  BY NobodyElseIsForgotten
<1> QED
  BY <1>1, Invariant, PTL DEF Spec, OnlySplitsAreUnasked
=============================================================================
