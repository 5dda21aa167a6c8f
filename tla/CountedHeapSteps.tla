-------------------------- MODULE CountedHeapSteps --------------------------
(***************************************************************************)
(* The tally of a node's owners, how each kind of write moves it, and the  *)
(* two steps the actions of the counted heap are made of: a handle that    *)
(* gains a node, and one drop.                                             *)
(***************************************************************************)
EXTENDS CountingLemmas

\* Owners(N), as a function of the two variables it depends on.
Tally(f, v, N) == Cardinality(Holders(f, N)) + Cardinality(Slots(v, N))

\* What the slots s of a root c may be.
GoodSlots(c, s) ==
    /\ IsRoot(s)
    /\ \A i \in DOMAIN s : s[i] \in Cell => s[i] \in live
    /\ \A i, j \in DOMAIN s : IsChild(c, s[i]) /\ IsChild(c, s[j]) => i = j

\* Owners before and after a step.
LEMMA OwnersTally ==
    \A N : /\ Owners(N) = Tally(held, values, N)
           /\ Owners(N)' = Tally(held', values', N)
BY DEF Owners, Tally, HandlesOf, SlotsOf, Holders, Slots

\* A tally is a sum of two natural numbers.
LEMMA TallyNat ==
    ASSUME NEW f, NEW v, NEW N
    PROVE  /\ Tally(f, v, N) \in Nat
           /\ Cardinality(Holders(f, N)) \in Nat
           /\ Cardinality(Slots(v, N)) \in Nat
BY HoldersNat, SlotsNat DEF Tally

\* Only handle h is rebound from f to g; only root c is rewritten from v to w.
Rebound(f, g, h) == h \in Handle /\ \A k \in Handle : k # h => g[k] = f[k]

Rewritten(v, w, c) ==
    /\ c \in Cell /\ IsRoot(v[c]) /\ IsRoot(w[c])
    /\ \A d \in Cell : d # c => w[d] = v[d]

\* Rebinding one handle changes the tally by that handle.
LEMMA TallyHandle ==
    ASSUME NEW f, NEW g, NEW h, Rebound(f, g, h), NEW v, NEW N
    PROVE  Tally(g, v, N) = Tally(f, v, N) - In(f[h], N) + In(g[h], N)
<1>1. Cardinality(Holders(g, N)) = Cardinality(Holders(f, N)) - In(f[h], N) + In(g[h], N)
  BY HoldersExcept DEF Rebound
<1> QED
  BY <1>1, TallyNat DEF Tally, In

\* Rewriting one root changes the tally by that root's occurrences.
LEMMA TallyRoot ==
    ASSUME NEW v, NEW w, NEW c, Rewritten(v, w, c), NEW f, NEW N
    PROVE  /\ Tally(f, w, N) = Tally(f, v, N) - Occurrences(v[c], N) + Occurrences(w[c], N)
           /\ Occurrences(v[c], N) \in Nat /\ Occurrences(w[c], N) \in Nat
<1>1. Cardinality(Slots(w, N)) = Cardinality(Slots(v, N)) - Occurrences(v[c], N) + Occurrences(w[c], N)
  BY SlotsExcept DEF Rewritten
<1>2. Occurrences(v[c], N) \in Nat /\ Occurrences(w[c], N) \in Nat
  BY OccurrencesNat DEF IsRoot, Rewritten
<1> QED
  BY <1>1, <1>2, TallyNat DEF Tally

\* A node some handle holds or some slot stores is counted.
LEMMA TallyPositive ==
    ASSUME NEW f, NEW v, NEW n,
           \/ \E h \in Handle : f[h] = n
           \/ \E c \in Cell : \E i \in Index : i \in DOMAIN v[c] /\ v[c][i] = n
    PROVE  Tally(f, v, {n}) >= 1
<1>1. Holders(f, {n}) # {} \/ Slots(v, {n}) # {}
  <2>1. CASE \E h \in Handle : f[h] = n
    BY <2>1 DEF Holders
  <2>2. CASE \E c \in Cell : \E i \in Index : i \in DOMAIN v[c] /\ v[c][i] = n
    <3>1. PICK c \in Cell, i \in Index : i \in DOMAIN v[c] /\ v[c][i] = n
      BY <2>2
    <3>2. <<c, i>> \in Slots(v, {n})
      BY <3>1 DEF Slots
    <3> QED
      BY <3>2
  <2> QED
    BY <2>1, <2>2
<1>2. Cardinality(Holders(f, {n})) # 0 \/ Cardinality(Slots(v, {n})) # 0
  BY <1>1, HoldersNat, SlotsNat, FS_EmptySet
<1> QED
  BY <1>2, TallyNat DEF Tally

\* Two different owners count as two.
LEMMA TallyTwo ==
    ASSUME NEW f, NEW v, NEW n, NEW h \in Handle, f[h] = n,
           \/ \E k \in Handle \ {h} : f[k] = n
           \/ \E c \in Cell : \E i \in Index : i \in DOMAIN v[c] /\ v[c][i] = n
    PROVE  Tally(f, v, {n}) >= 2
<1> DEFINE A == Holders(f, {n})
<1>1. h \in A
  BY DEF Holders
<1>2. IsFiniteSet(A) /\ Cardinality(A) \in Nat /\ Cardinality(Slots(v, {n})) \in Nat
  BY HoldersNat, SlotsNat
<1>3. IsFiniteSet(A \ {h}) /\ Cardinality(A \ {h}) = Cardinality(A) - 1
  BY <1>1, <1>2, FS_RemoveElement
<1>4. A \ {h} # {} \/ Slots(v, {n}) # {}
  <2>1. CASE \E k \in Handle \ {h} : f[k] = n
    BY <2>1 DEF Holders
  <2>2. CASE \E c \in Cell : \E i \in Index : i \in DOMAIN v[c] /\ v[c][i] = n
    <3>1. PICK c \in Cell, i \in Index : i \in DOMAIN v[c] /\ v[c][i] = n
      BY <2>2
    <3>2. <<c, i>> \in Slots(v, {n})
      BY <3>1 DEF Slots
    <3> QED
      BY <3>2
  <2> QED
    BY <2>1, <2>2
<1> HIDE DEF A
<1>5. Cardinality(A \ {h}) \in Nat
  BY <1>3, FS_CardinalityType
<1>6. Cardinality(A \ {h}) # 0 \/ Cardinality(Slots(v, {n})) # 0
  BY <1>3, <1>4, SlotsNat, FS_EmptySet
<1>7. Cardinality(A) + Cardinality(Slots(v, {n})) >= 2
  BY <1>2, <1>3, <1>5, <1>6
<1> QED
  BY <1>7 DEF A, Tally

\* Nothing holds or stores a node that is not counted.
LEMMA TallyZero ==
    ASSUME NEW f, NEW v, NEW n, Tally(f, v, {n}) = 0
    PROVE  /\ \A h \in Handle : f[h] # n
           /\ \A c \in Cell : \A i \in Index : i \in DOMAIN v[c] => v[c][i] # n
<1>1. ~ (Tally(f, v, {n}) >= 1)
  OBVIOUS
<1> QED
  BY <1>1, TallyPositive
-----------------------------------------------------------------------------
(* What the invariant says of the operands of a call.                      *)

\* Every root is well formed, and its slots are indexed from 1.
LEMMA RootTyped ==
    ASSUME TypeOK, NEW n \in Node
    PROVE  /\ IsRoot(values[n])
           /\ \A i \in DOMAIN values[n] : i \in Index /\ values[n][i] \in Slot
BY SizeAssumption DEF TypeOK, IsRoot, Index

\* The node a handle holds is counted.
LEMMA HeldCounted ==
    ASSUME TypeOK, CountExact, NEW h \in Handle, held[h] \in Cell \cup Literal
    PROVE  references[held[h]] >= Base(held[h]) + 1
<1> DEFINE n == held[h]
<1>1. Tally(held, values, {n}) >= 1
  BY TallyPositive
<1>2. references[n] = Base(n) + Tally(held, values, {n})
  BY OwnersTally DEF CountExact
<1>3. Base(n) \in Nat
  BY BaseAssumption DEF Base
<1> QED
  BY <1>1, <1>2, <1>3, TallyNat

\* The node a slot stores is counted.
LEMMA StoredCounted ==
    ASSUME TypeOK, CountExact, NEW c \in Cell, NEW i \in DOMAIN values[c],
           values[c][i] \in Cell \cup Literal
    PROVE  references[values[c][i]] >= Base(values[c][i]) + 1
<1> DEFINE n == values[c][i]
<1>1. i \in Index
  BY RootTyped DEF Node
<1>2. Tally(held, values, {n}) >= 1
  BY <1>1, TallyPositive
<1>3. references[n] = Base(n) + Tally(held, values, {n})
  BY OwnersTally DEF CountExact
<1>4. Base(n) \in Nat
  BY BaseAssumption DEF Base
<1> QED
  BY <1>2, <1>3, <1>4, TallyNat

\* A cell whose count is zero is neither held nor stored.
LEMMA Uncounted ==
    ASSUME TypeOK, CountExact, NEW c \in Cell, references[c] = 0
    PROVE  /\ \A h \in Handle : held[h] # c
           /\ \A d \in Cell : \A i \in DOMAIN values[d] : values[d][i] # c
           /\ Tally(held, values, {c}) = 0
<1>1. Base(c) = 0
  BY NodeAssumption DEF Base
<1>2. Tally(held, values, {c}) = 0
  BY <1>1, OwnersTally, TallyNat DEF CountExact
<1> QED
  BY <1>2, TallyZero, RootTyped DEF Node

\* The count of the node a handle holds is one only for a live cell, and then
\* nothing else holds or stores it.
LEMMA SoleOwner ==
    ASSUME TypeOK, CountExact, NoDangling, StaticsUntouched,
           NEW h \in Handle, held[h] \in Node, references[held[h]] = 1
    PROVE  /\ held[h] \in Cell /\ held[h] \in live
           /\ \A k \in Handle \ {h} : held[k] # held[h]
           /\ \A c \in Cell : \A i \in DOMAIN values[c] : values[c][i] # held[h]
<1> DEFINE n == held[h]
<1>1. n \in Cell
  BY BaseAssumption, HeldCounted, NodeAssumption DEF StaticsUntouched, Node, Base
<1>2. n \in live
  BY <1>1, NodeAssumption DEF NoDangling, Holding, Element, Node
<1>3. Base(n) = 0
  BY <1>1, NodeAssumption DEF Base
<1>4. Tally(held, values, {n}) = 1
  BY <1>1, <1>3, OwnersTally, TallyNat DEF CountExact
<1>5. ~ (Tally(held, values, {n}) >= 2)
  BY <1>4
<1> QED
  BY <1>1, <1>2, <1>5, TallyTwo, RootTyped DEF Node

\* A backed node is live or static, and an owner outside H is for it.
LEMMA BackedOwner ==
    ASSUME TypeOK, NoDangling, NEW H, NEW n \in Backed(H)
    PROVE  /\ n \in Node
           /\ n \in Cell => n \in live
           /\ \/ \E h \in Handle \ H : held[h] = n
              \/ \E c \in Cell : \E i \in DOMAIN values[c] : values[c][i] = n
<1> DEFINE S == {held[h] : h \in Holding \ H}
<1>1. CASE n \in S
  BY <1>1 DEF TypeOK, NoDangling, Holding
<1>2. CASE n \notin S
  <2>1. PICK K \in SUBSET live : n \in Stored(K)
    BY <1>2 DEF Backed, Reachable
  <2>2. n \in Node /\ \E m \in K : \E i \in DOMAIN values[m] : values[m][i] = n
    BY <2>1 DEF Stored
  <2>3. K \subseteq Cell
    BY <2>1 DEF TypeOK
  <2> QED
    BY <2>2, <2>3 DEF NoDangling
<1> QED
  BY <1>1, <1>2
-----------------------------------------------------------------------------
(* The shape of the heap: no cycles, one child to a boxed union.           *)

\* What a step keeps that only clears slots of root c.
LEMMA ClearKeepsShape ==
    ASSUME NoCycles, OneChild, NEW c,
           \A d \in Cell : d # c => values'[d] = values[d],
           \A i \in DOMAIN values'[c] :
              i \in DOMAIN values[c] /\ values'[c][i] \in {values[c][i], None}
    PROVE  NoCycles' /\ OneChild'
<1>1. None \notin Node /\ Cell \subseteq Node
  BY NodeAssumption DEF Element, Node
<1>2. ASSUME NEW d \in Cell, NEW i \in DOMAIN values'[d], values'[d][i] \in Node
      PROVE  i \in DOMAIN values[d] /\ values'[d][i] = values[d][i]
  BY <1>1, <1>2
<1>3. NoCycles'
  <2>1. ASSUME NEW S \in SUBSET Cell, S # {}
        PROVE  \E x \in S : \A d \in S : \A i \in DOMAIN values'[d] : values'[d][i] # x
    <3>1. PICK x \in S : \A d \in S : \A i \in DOMAIN values[d] : values[d][i] # x
      BY <2>1 DEF NoCycles
    <3>2. \A d \in S : \A i \in DOMAIN values'[d] : values'[d][i] # x
      BY <1>1, <1>2, <3>1
    <3> QED
      BY <3>2
  <2> QED
    BY <2>1 DEF NoCycles
<1>4. OneChild'
  <2>1. ASSUME NEW d \in Cell, NEW i \in DOMAIN values'[d], NEW j \in DOMAIN values'[d],
               IsChild(d, values'[d][i]), IsChild(d, values'[d][j])
        PROVE  i = j
    <3>1. values'[d][i] \in Node /\ values'[d][j] \in Node
      BY <2>1 DEF IsChild
    <3>2. /\ i \in DOMAIN values[d] /\ values'[d][i] = values[d][i]
          /\ j \in DOMAIN values[d] /\ values'[d][j] = values[d][j]
      BY <1>2, <3>1
    <3> QED
      BY <2>1, <3>2 DEF OneChild
  <2> QED
    BY <2>1 DEF OneChild, IsChild
<1> QED
  BY <1>3, <1>4

\* What a step keeps that writes root c, when no slot is for c afterwards: c
\* can close no cycle.
LEMMA WriteKeepsShape ==
    ASSUME NoCycles, OneChild, NEW c,
           \A d \in Cell : d # c => values'[d] = values[d] \/ values'[d] = <<>>,
           \A d \in Cell : \A i \in DOMAIN values'[d] : values'[d][i] # c,
           \A i, j \in DOMAIN values'[c] :
              IsChild(c, values'[c][i]) /\ IsChild(c, values'[c][j]) => i = j
    PROVE  NoCycles' /\ OneChild'
<1>1. ASSUME NEW d \in Cell, d # c, NEW i \in DOMAIN values'[d]
      PROVE  i \in DOMAIN values[d] /\ values'[d] = values[d]
  BY <1>1
<1>2. NoCycles'
  <2>1. ASSUME NEW S \in SUBSET Cell, S # {}
        PROVE  \E x \in S : \A d \in S : \A i \in DOMAIN values'[d] : values'[d][i] # x
    <3>1. CASE c \in S
      BY <3>1
    <3>2. CASE c \notin S
      <4>1. PICK x \in S : \A d \in S : \A i \in DOMAIN values[d] : values[d][i] # x
        BY <2>1 DEF NoCycles
      <4>2. \A d \in S : \A i \in DOMAIN values'[d] : values'[d][i] # x
        BY <1>1, <3>2, <4>1
      <4> QED
        BY <4>2
    <3> QED
      BY <3>1, <3>2
  <2> QED
    BY <2>1 DEF NoCycles
<1>3. OneChild'
  <2>1. ASSUME NEW d \in Cell, NEW i \in DOMAIN values'[d], NEW j \in DOMAIN values'[d],
               IsChild(d, values'[d][i]), IsChild(d, values'[d][j])
        PROVE  i = j
    <3>1. CASE d = c
      BY <2>1, <3>1
    <3>2. CASE d # c
      <4>1. values'[d] = values[d] /\ i \in DOMAIN values[d] /\ j \in DOMAIN values[d]
        BY <1>1, <3>2
      <4> QED
        BY <2>1, <4>1 DEF OneChild
    <3> QED
      BY <3>1, <3>2
  <2> QED
    BY <2>1 DEF OneChild, IsChild
<1> QED
  BY <1>2, <1>3

\* Nothing changes where no root is written.
LEMMA SameShape ==
    ASSUME NoCycles, OneChild, values' = values
    PROVE  NoCycles' /\ OneChild'
BY DEF NoCycles, OneChild, IsChild

\* What a step keeps that gives slots to an unallocated cell.
LEMMA FreshKeepsShape ==
    ASSUME NoCycles, OneChild, NoDangling, NEW c \in Cell, c \notin live, NEW s, GoodSlots(c, s),
           values'[c] = s, \A d \in Node : d # c => values'[d] = values[d]
    PROVE  NoCycles' /\ OneChild'
<1>1. \A d \in Cell : d # c => values'[d] = values[d]
  BY DEF Node
<1>2. ASSUME NEW d \in Cell, NEW i \in DOMAIN values'[d]
      PROVE  values'[d][i] # c
  <2>1. CASE d = c
    BY <1>2, <2>1 DEF GoodSlots
  <2>2. CASE d # c
    BY <1>1, <1>2, <2>2 DEF NoDangling
  <2> QED
    BY <2>1, <2>2
<1>3. \A i, j \in DOMAIN values'[c] :
         IsChild(c, values'[c][i]) /\ IsChild(c, values'[c][j]) => i = j
  BY DEF GoodSlots
<1> QED
  BY <1>1, <1>2, <1>3, WriteKeepsShape
-----------------------------------------------------------------------------
(* The steps, one lemma for each way an action changes the heap.           *)

\* No node is None.
LEMMA NoneIsNoNode ==
    /\ \A n \in Node : In(None, {n}) = 0
    /\ In(None, EmptyRoot) = 0
BY NodeAssumption DEF In, Element, Node

\* The counts after acquiring the slots of s.
LEMMA AcquiredCounts ==
    ASSUME TypeOK, NEW s \in Seq(Slot)
    PROVE  /\ Acquired(s) \in [Node -> Nat]
           /\ \A n \in Cell \cup Literal :
                 Acquired(s)[n] = references[n] + Occurrences(s, {n})
           /\ \A e \in EmptyRoot : Acquired(s)[e] = references[e]
<1>1. \A n \in Node : Occurrences(s, {n}) \in Nat
  BY OccurrencesNat
<1>2. \A n \in Node : references[n] \in Nat
  BY DEF TypeOK
<1>3. \A n \in Node : references[n] + Occurrences(s, {n}) \in Nat
  BY <1>1, <1>2
<1>4. Acquired(s) \in [Node -> Nat]
  BY <1>2, <1>3 DEF Acquired
<1>5. \A n \in Node : Acquired(s)[n] = IF n \in EmptyRoot THEN references[n]
                                       ELSE references[n] + Occurrences(s, {n})
  BY DEF Acquired
<1>6. /\ \A n \in Cell \cup Literal : n \in Node /\ n \notin EmptyRoot
      /\ \A e \in EmptyRoot : e \in Node
  BY NodeAssumption DEF Node
<1> QED
  BY <1>4, <1>5, <1>6

\* Exact counts keep a literal's count at its base or above.
LEMMA LiteralsNext ==
    ASSUME CountExact'
    PROVE  \A l \in Literal : references'[l] >= LiteralBase
<1> TAKE l \in Literal
<1>1. references'[l] = Base(l) + Tally(held', values', {l})
  BY OwnersTally DEF CountExact, Base
<1> QED
  BY <1>1, TallyNat, BaseAssumption DEF Base

\* Without a drop loop, every live cell is counted.
LEMMA IdleNext ==
    ASSUME destroying' = <<>>, \A c \in live' : references'[c] # 0
    PROVE  DestroyedOnce'
BY DEF DestroyedOnce

\* A handle becomes bound to a live or static node: literals, `[]`, dup, get.
Gain(r, n) ==
    /\ Running
    /\ r \in Spare
    /\ references' = Acquired(<<n>>)
    /\ held' = [held EXCEPT ![r] = n]
    /\ empty_owners' = empty_owners + In(n, EmptyRoot)
    /\ UNCHANGED <<values, live, destroying, exit_status>>

\* Binding a handle keeps the invariant.
LEMMA GainStep ==
    ASSUME HeapInvariant, NEW r, NEW n \in Node, n \in Cell => n \in live, Gain(r, n)
    PROVE  HeapInvariant'
<1>1. /\ TypeOK /\ CountExact /\ NoDangling /\ DestroyedOnce /\ StaticsUntouched
      /\ NoCycles /\ DeadIsEmpty /\ OneChild /\ FinishedIdle /\ LeakCheckExact
  BY DEF HeapInvariant
<1>2. /\ references' \in [Node -> Nat]
      /\ \A m \in Cell \cup Literal : references'[m] = references[m] + In(n, {m})
      /\ \A e \in EmptyRoot : references'[e] = references[e]
  <2>1. <<n>> \in Seq(Slot)
    BY DEF Slot, Element
  <2>2. \A m : Occurrences(<<n>>, {m}) = In(n, {m})
    BY OccurrencesSmall
  <2> QED
    BY <1>1, <2>1, <2>2, AcquiredCounts DEF Gain
<1>3. /\ r \in Handle /\ held[r] = None
      /\ held' \in [Handle -> Node \cup {None}]
      /\ held'[r] = n /\ \A k \in Handle : k # r => held'[k] = held[k]
  BY <1>1 DEF Gain, Spare, TypeOK
<1>4. /\ destroying = <<>> /\ exit_status = None
      /\ values' = values /\ live' = live /\ destroying' = destroying
      /\ exit_status' = exit_status
      /\ empty_owners' = empty_owners + In(n, EmptyRoot)
  BY DEF Gain, Running
<1>5. TypeOK'
  BY <1>1, <1>2, <1>3, <1>4 DEF TypeOK, In
<1>6. ASSUME NEW N, In(None, N) = 0
      PROVE  Tally(held', values', N) = Tally(held, values, N) + In(n, N)
  <2>1. Rebound(held, held', r)
    BY <1>3 DEF Rebound
  <2>2. Tally(held', values, N) = Tally(held, values, N) - In(held[r], N) + In(held'[r], N)
    BY <2>1, TallyHandle
  <2> QED
    BY <1>3, <1>4, <1>6, <2>2, TallyNat DEF In
<1>7. CountExact'
  <2>1. ASSUME NEW m \in Cell \cup Literal
        PROVE  references'[m] = Base(m) + Tally(held', values', {m})
    <3>1. Tally(held', values', {m}) = Tally(held, values, {m}) + In(n, {m})
      BY <1>6, NoneIsNoNode DEF Node
    <3>2. references[m] = Base(m) + Tally(held, values, {m})
      BY <1>1, OwnersTally DEF CountExact
    <3> QED
      BY <1>2, <3>1, <3>2, TallyNat, BaseAssumption DEF Base, In
  <2>2. empty_owners' = Tally(held', values', EmptyRoot)
    BY <1>1, <1>4, <1>6, NoneIsNoNode, OwnersTally DEF CountExact
  <2> QED
    BY <2>1, <2>2, OwnersTally DEF CountExact, Base
<1>8. NoDangling'
  BY <1>1, <1>3, <1>4 DEF NoDangling, Holding
<1>9. DestroyedOnce'
  BY <1>1, <1>2, <1>4 DEF DestroyedOnce, TypeOK, Node, In
<1>10. StaticsUntouched'
  BY <1>1, <1>2, <1>4, <1>7, LiteralsNext DEF StaticsUntouched
<1>11. DeadIsEmpty'
  BY <1>1, <1>2, <1>4 DEF DeadIsEmpty, In
<1>12. NoCycles' /\ OneChild' /\ FinishedIdle' /\ LeakCheckExact'
  BY <1>1, <1>4, SameShape DEF FinishedIdle, LeakCheckExact
<1> QED
  BY <1>5, <1>7, <1>8, <1>9, <1>10, <1>11, <1>12 DEF HeapInvariant

\* Slots that are for no node of N.
LEMMA OccurrencesNone ==
    ASSUME NEW s, NEW N, \A i \in DOMAIN s : s[i] \notin N
    PROVE  Occurrences(s, N) = 0
<1>1. {i \in DOMAIN s : s[i] \in N} = {}
  OBVIOUS
<1> QED
  BY <1>1, FS_EmptySet DEF Occurrences

\* The counts when a fresh root c with slots s has been built.
Built(c, s) == [Acquired(s) EXCEPT ![c] = 1]

BuiltFrom(counts, c, s) ==
    /\ counts \in [Node -> Nat]
    /\ counts[c] = 1
    /\ \A m \in Cell \cup Literal : m # c => counts[m] = references[m] + Occurrences(s, {m})
    /\ \A e \in EmptyRoot : counts[e] = references[e]
    /\ Occurrences(s, {c}) = 0

\* Building acquires every slot and counts the new root once.
LEMMA BuiltCounts ==
    ASSUME TypeOK, NEW c \in Cell, c \notin live, NEW s, GoodSlots(c, s)
    PROVE  BuiltFrom(Built(c, s), c, s)
<1>1. /\ Acquired(s) \in [Node -> Nat]
      /\ \A m \in Cell \cup Literal : Acquired(s)[m] = references[m] + Occurrences(s, {m})
      /\ \A e \in EmptyRoot : Acquired(s)[e] = references[e]
  BY AcquiredCounts DEF GoodSlots, IsRoot
<1>2. Occurrences(s, {c}) = 0
  BY OccurrencesNone DEF GoodSlots
<1>3. c \notin EmptyRoot /\ c \in Node /\ EmptyRoot \subseteq Node /\ Literal \subseteq Node
  BY NodeAssumption DEF Node
<1> QED
  BY <1>1, <1>2, <1>3 DEF Node, Built, BuiltFrom

\* The borrowed form of an update keeps the invariant.
LEMMA CopyIntoStep ==
    ASSUME HeapInvariant, Running, NEW r, NEW c \in Cell, c \notin live, NEW s, GoodSlots(c, s),
           CopyInto(r, c, s)
    PROVE  HeapInvariant'
<1>1. /\ TypeOK /\ CountExact /\ NoDangling /\ DestroyedOnce /\ StaticsUntouched
      /\ NoCycles /\ DeadIsEmpty /\ OneChild /\ FinishedIdle /\ LeakCheckExact
  BY DEF HeapInvariant
<1>2. /\ references' \in [Node -> Nat]
      /\ references'[c] = 1
      /\ \A m \in Cell \cup Literal : m # c => references'[m] = references[m] + Occurrences(s, {m})
      /\ \A e \in EmptyRoot : references'[e] = references[e]
      /\ Occurrences(s, {c}) = 0
  <2>1. references' = Built(c, s)
    BY DEF CopyInto, Built
  <2>2. BuiltFrom(references', c, s)
    BY <1>1, <2>1, BuiltCounts
  <2> QED
    BY <2>2 DEF BuiltFrom
<1>3. /\ r \in Handle /\ held[r] = None
      /\ held' \in [Handle -> Node \cup {None}]
      /\ held'[r] = c /\ \A k \in Handle : k # r => held'[k] = held[k]
  BY <1>1 DEF CopyInto, Spare, TypeOK, Node
<1>4. /\ destroying = <<>> /\ exit_status = None
      /\ destroying' = destroying /\ exit_status' = exit_status
      /\ live' = live \cup {c}
      /\ empty_owners' = empty_owners + Occurrences(s, EmptyRoot)
  BY DEF CopyInto, Running
<1>5. /\ values' \in [Node -> Seq(Slot)]
      /\ values'[c] = s /\ \A d \in Node : d # c => values'[d] = values[d]
  BY <1>1 DEF CopyInto, GoodSlots, IsRoot, TypeOK, Node
<1>6. c \in Node /\ c \notin Literal /\ c \notin EmptyRoot
  BY NodeAssumption DEF Node
<1>7. \A N : Occurrences(s, N) \in Nat
  BY OccurrencesNat DEF GoodSlots, IsRoot
<1>8. TypeOK'
  <2>1. \A n \in Node : Len(values'[n]) <= MaxLength
    BY <1>1, <1>5 DEF TypeOK, GoodSlots, IsRoot
  <2>2. live' \subseteq Cell /\ destroying' \in Seq(Cell) /\ exit_status' \in {None, "balanced", "leak"}
    BY <1>1, <1>4 DEF TypeOK
  <2>3. empty_owners' \in Int
    BY <1>1, <1>4, <1>7 DEF TypeOK
  <2> QED
    BY <1>2, <1>3, <1>5, <2>1, <2>2, <2>3 DEF TypeOK
<1>9. ASSUME NEW N, In(None, N) = 0
      PROVE  Tally(held', values', N) = Tally(held, values, N) + In(c, N) + Occurrences(s, N)
  <2>1. Rebound(held, held', r)
    BY <1>3 DEF Rebound
  <2>2. Rewritten(values, values', c)
    BY <1>1, <1>5, RootTyped DEF GoodSlots, Node, Rewritten
  <2>3. Tally(held', values, N) = Tally(held, values, N) - In(held[r], N) + In(held'[r], N)
    BY <2>1, TallyHandle
  <2>4. Tally(held', values', N)
           = Tally(held', values, N) - Occurrences(values[c], N) + Occurrences(values'[c], N)
    BY <2>2, TallyRoot
  <2>5. values[c] = <<>>
    BY <1>1 DEF DeadIsEmpty
  <2>6. Occurrences(values[c], N) = 0
    BY <2>5, OccurrencesSmall
  <2> QED
    BY <1>3, <1>5, <1>7, <1>9, <2>3, <2>4, <2>6, TallyNat DEF In
<1>10. CountExact'
  <2>1. ASSUME NEW m \in Cell \cup Literal
        PROVE  references'[m] = Base(m) + Tally(held', values', {m})
    <3>1. Tally(held', values', {m}) = Tally(held, values, {m}) + In(c, {m}) + Occurrences(s, {m})
      BY <1>9, NoneIsNoNode DEF Node
    <3>2. references[m] = Base(m) + Tally(held, values, {m})
      BY <1>1, OwnersTally DEF CountExact
    <3>3. CASE m = c
      <4>1. references[c] = 0 /\ Base(c) = 0
        BY <1>1, <1>6 DEF DeadIsEmpty, Base
      <4> QED
        BY <1>2, <3>1, <3>2, <3>3, <4>1, TallyNat DEF In
    <3>4. CASE m # c
      BY <1>2, <1>7, <3>1, <3>2, <3>4, TallyNat, BaseAssumption DEF Base, In
    <3> QED
      BY <3>3, <3>4
  <2>2. empty_owners' = Tally(held', values', EmptyRoot)
    <3>1. Tally(held', values', EmptyRoot)
             = Tally(held, values, EmptyRoot) + In(c, EmptyRoot) + Occurrences(s, EmptyRoot)
      BY <1>9, NoneIsNoNode
    <3> QED
      BY <1>1, <1>4, <1>6, <1>7, <3>1, TallyNat, OwnersTally DEF CountExact, In
  <2> QED
    BY <2>1, <2>2, OwnersTally DEF CountExact, Base
<1>11. NoDangling'
  BY <1>1, <1>3, <1>4, <1>5 DEF NoDangling, Holding, GoodSlots, Node
<1>12. DestroyedOnce'
  <2>1. ASSUME NEW d \in live, d # c
        PROVE  references'[d] # 0
    <3>1. references[d] # 0 /\ references[d] \in Nat /\ d \in Cell
      BY <1>1, <1>4 DEF DestroyedOnce, TypeOK, Node
    <3>2. references'[d] = references[d] + Occurrences(s, {d})
      BY <1>2, <2>1, <3>1
    <3> QED
      BY <1>7, <3>1, <3>2
  <2> QED
    BY <1>2, <1>4, <2>1, IdleNext
<1>13. StaticsUntouched'
  BY <1>1, <1>2, <1>5, <1>6, <1>10, LiteralsNext DEF StaticsUntouched, Node
<1>14. DeadIsEmpty'
  <2>1. ASSUME NEW d \in Cell, d \notin live'
        PROVE  references'[d] = 0 /\ values'[d] = <<>>
    <3>1. d # c /\ d \notin live
      BY <1>4, <2>1
    <3>2. Occurrences(s, {d}) = 0
      BY <3>1, OccurrencesNone DEF GoodSlots
    <3>3. references[d] = 0 /\ values[d] = <<>>
      BY <1>1, <3>1 DEF DeadIsEmpty
    <3>4. references'[d] = references[d] + Occurrences(s, {d})
      BY <1>2, <3>1
    <3>5. values'[d] = values[d]
      BY <1>5, <3>1 DEF Node
    <3> QED
      BY <3>2, <3>3, <3>4, <3>5
  <2> QED
    BY <2>1 DEF DeadIsEmpty
<1>15. NoCycles' /\ OneChild'
  BY <1>1, <1>5, FreshKeepsShape
<1>16. FinishedIdle' /\ LeakCheckExact'
  BY <1>1, <1>4 DEF FinishedIdle, LeakCheckExact
<1> QED
  BY <1>8, <1>10, <1>11, <1>12, <1>13, <1>14, <1>15, <1>16 DEF HeapInvariant
-----------------------------------------------------------------------------
(* One drop of node n inside `loops`, when the counts are `counts`.        *)

Releases(loops, counts, n) ==
    /\ references' = Released(counts, n)
    /\ destroying' = IF Destroys(counts, n) THEN Append(loops, n) ELSE loops

ReleasedFrom(after, counts, n) ==
    /\ after \in [Node -> Nat]
    /\ \A m \in Cell \cup Literal : after[m] = counts[m] - In(n, {m})
    /\ \A e \in EmptyRoot : after[e] = counts[e]

OnLoop(d, c) == \E i \in DOMAIN d : d[i] = c

Distinct(d) == \A i, j \in DOMAIN d : d[i] = d[j] => i = j

\* n may be dropped: it is counted, and a literal's base is not at stake.
Droppable(counts, n) ==
    /\ counts \in [Node -> Nat]
    /\ n \in Node
    /\ n \in Cell => counts[n] >= 1
    /\ n \in Literal => counts[n] >= 2

\* A drop takes one from the count of n and leaves the others alone.
LEMMA ReleasedCounts ==
    ASSUME NEW counts, NEW n, Droppable(counts, n)
    PROVE  ReleasedFrom(Released(counts, n), counts, n)
<1>1. counts \in [Node -> Nat] /\ n \in Node
  BY DEF Droppable
<1>2. /\ \A m \in Cell \cup Literal : m \in Node /\ m \notin EmptyRoot
      /\ \A e \in EmptyRoot : e \in Node
  BY NodeAssumption DEF Node
<1>3. CASE n \in EmptyRoot
  <2>1. \A m \in Cell \cup Literal : In(n, {m}) = 0
    BY <1>2, <1>3 DEF In
  <2>2. Released(counts, n) = counts
    BY <1>3 DEF Released
  <2>3. \A m \in Cell \cup Literal : counts[m] \in Nat
    BY <1>1, <1>2
  <2> QED
    BY <1>1, <2>1, <2>2, <2>3 DEF ReleasedFrom
<1>4. CASE n \notin EmptyRoot
  <2>1. counts[n] \in Nat /\ counts[n] >= 1
    BY <1>1, <1>4 DEF Droppable, Node
  <2>2. counts[n] - 1 \in Nat
    BY <2>1
  <2>3. Released(counts, n) = [counts EXCEPT ![n] = counts[n] - 1]
    BY <1>4 DEF Released
  <2>4. Released(counts, n) \in [Node -> Nat]
    BY <1>1, <2>2, <2>3
  <2>5. \A m \in Node : Released(counts, n)[m] = IF m = n THEN counts[n] - 1 ELSE counts[m]
    BY <1>1, <2>3
  <2>6. \A m \in Cell \cup Literal : Released(counts, n)[m] = counts[m] - In(n, {m})
    <3> TAKE m \in Cell \cup Literal
    <3>1. m \in Node /\ counts[m] \in Nat
      BY <1>1, <1>2
    <3> QED
      BY <2>5, <3>1 DEF In
  <2> QED
    BY <1>2, <1>4, <2>4, <2>5, <2>6 DEF ReleasedFrom
<1> QED
  BY <1>3, <1>4

\* A drop that finds the count at one starts n's drop loop, and no other.
LEMMA LoopNext ==
    ASSUME NEW d \in Seq(Cell), NEW counts, NEW n, Droppable(counts, n), Distinct(d),
           Destroys(counts, n) => ~ OnLoop(d, n),
           NEW e, e = IF Destroys(counts, n) THEN Append(d, n) ELSE d
    PROVE  /\ e \in Seq(Cell)
           /\ Distinct(e)
           /\ \A c : OnLoop(e, c) <=> OnLoop(d, c) \/ (c = n /\ Destroys(counts, n))
<1>1. CASE ~ Destroys(counts, n)
  BY <1>1
<1>2. CASE Destroys(counts, n)
  <2>1. n \in Cell
    BY <1>2 DEF Destroys, Droppable, Node
  <2>2. e = Append(d, n)
    BY <1>2
  <2>3. /\ e \in Seq(Cell) /\ DOMAIN e = 1..(Len(d) + 1) /\ DOMAIN d = 1..Len(d) /\ Len(d) \in Nat
        /\ e[Len(d) + 1] = n /\ \A i \in 1..Len(d) : e[i] = d[i]
    BY <2>1, <2>2
  <2>4. \A c : OnLoop(e, c) <=> OnLoop(d, c) \/ c = n
    BY <2>3 DEF OnLoop
  <2>5. Distinct(e)
    BY <1>2, <2>3 DEF Distinct, OnLoop
  <2> QED
    BY <1>2, <2>3, <2>4, <2>5
<1> QED
  BY <1>1, <1>2

\* What a drop does to the counts and to the drop loops.
LEMMA ReleaseNext ==
    ASSUME NEW loops \in Seq(Cell), Distinct(loops), live' \subseteq Cell,
           NEW counts, NEW n, Droppable(counts, n), n \in Cell => n \in live',
           \A c \in live' : counts[c] = 0 <=> OnLoop(loops, c),
           Releases(loops, counts, n)
    PROVE  /\ ReleasedFrom(references', counts, n)
           /\ destroying' \in Seq(Cell)
           /\ DestroyedOnce'
           /\ \A c : OnLoop(destroying', c) => OnLoop(loops, c) \/ c = n
           /\ Destroys(counts, n) => n \in Cell
<1>1. ReleasedFrom(references', counts, n)
  BY ReleasedCounts DEF Releases
<1>2. Destroys(counts, n) => n \in Cell /\ ~ OnLoop(loops, n)
  <2> SUFFICES ASSUME Destroys(counts, n)
               PROVE  n \in Cell /\ ~ OnLoop(loops, n)
    OBVIOUS
  <2>1. n \in Cell /\ counts[n] = 1
    BY DEF Destroys, Droppable, Node
  <2> QED
    BY <2>1
<1>3. /\ destroying' \in Seq(Cell)
      /\ Distinct(destroying')
      /\ \A c : OnLoop(destroying', c) <=> OnLoop(loops, c) \/ (c = n /\ Destroys(counts, n))
  BY <1>2, LoopNext DEF Releases
<1>4. ASSUME NEW c \in live'
      PROVE  references'[c] = 0 <=> OnLoop(destroying', c)
  <2>1. c \in Cell /\ c \in Node /\ counts[c] \in Nat /\ c \notin EmptyRoot
    BY <1>4, NodeAssumption DEF Droppable, Node
  <2>2. references'[c] = counts[c] - In(n, {c})
    BY <1>1, <2>1 DEF ReleasedFrom
  <2>3. CASE c = n
    <3>1. counts[n] >= 1 /\ (Destroys(counts, n) <=> counts[n] = 1)
      BY <2>1, <2>3 DEF Droppable, Destroys
    <3> QED
      BY <1>3, <2>1, <2>2, <2>3, <3>1 DEF In
  <2>4. CASE c # n
    BY <1>3, <2>1, <2>2, <2>4 DEF In
  <2> QED
    BY <2>3, <2>4
<1>5. DestroyedOnce'
  BY <1>3, <1>4 DEF DestroyedOnce, OnLoop, Distinct
<1> QED
  BY <1>1, <1>2, <1>3, <1>5

\* The node of an obligation, or of a slot, may be dropped.
LEMMA OwnedDroppable ==
    ASSUME TypeOK, CountExact, NEW n \in Node,
           \/ \E h \in Handle : held[h] = n
           \/ \E c \in Cell : \E i \in DOMAIN values[c] : values[c][i] = n
    PROVE  Droppable(references, n)
<1>1. references \in [Node -> Nat]
  BY DEF TypeOK
<1>2. n \in Cell \cup Literal => references[n] >= Base(n) + 1
  BY HeldCounted, StoredCounted
<1>3. n \in Cell => Base(n) = 0
  BY NodeAssumption DEF Base
<1>4. n \in Literal => Base(n) = LiteralBase
  BY DEF Base
<1> QED
  BY <1>1, <1>2, <1>3, <1>4, BaseAssumption DEF Droppable

\* DropOwner keeps the invariant.
LEMMA DropStep ==
    ASSUME HeapInvariant, NEW h \in Holding, Drop(h)
    PROVE  HeapInvariant'
<1> DEFINE n == held[h]
<1>1. /\ TypeOK /\ CountExact /\ NoDangling /\ DestroyedOnce /\ StaticsUntouched
      /\ NoCycles /\ DeadIsEmpty /\ OneChild /\ FinishedIdle /\ LeakCheckExact
  BY DEF HeapInvariant
<1>2. /\ h \in Handle /\ n \in Node
      /\ held' \in [Handle -> Node \cup {None}]
      /\ held'[h] = None /\ \A k \in Handle : k # h => held'[k] = held[k]
  BY <1>1 DEF Drop, Holding, TypeOK
<1>3. /\ destroying = <<>> /\ exit_status = None
      /\ values' = values /\ live' = live /\ exit_status' = exit_status
      /\ empty_owners' = empty_owners - In(n, EmptyRoot)
  BY DEF Drop, Running, IsEmptyRoot, In
<1>4. Droppable(references, n)
  BY <1>1, <1>2, OwnedDroppable
<1>5. Releases(destroying, references, n)
  BY DEF Drop, Releases
<1>6. n \in Cell => n \in live'
  BY <1>1, <1>3 DEF NoDangling
<1>7. destroying \in Seq(Cell) /\ Distinct(destroying) /\ live' \subseteq Cell
  BY <1>1, <1>3 DEF TypeOK, DestroyedOnce, Distinct
<1>8. \A c \in live' : references[c] = 0 <=> OnLoop(destroying, c)
  BY <1>1, <1>3 DEF DestroyedOnce, OnLoop
<1> HIDE DEF n
<1>9. /\ ReleasedFrom(references', references, n)
      /\ destroying' \in Seq(Cell)
      /\ DestroyedOnce'
      /\ \A c : OnLoop(destroying', c) => OnLoop(destroying, c) \/ c = n
      /\ Destroys(references, n) => n \in Cell
  BY <1>4, <1>5, <1>6, <1>7, <1>8, ReleaseNext
<1>10. /\ references' \in [Node -> Nat]
       /\ \A m \in Cell \cup Literal : references'[m] = references[m] - In(n, {m})
       /\ \A e \in EmptyRoot : references'[e] = references[e]
  BY <1>9 DEF ReleasedFrom
<1>11. TypeOK'
  BY <1>1, <1>2, <1>3, <1>9, <1>10 DEF TypeOK, In
<1>12. ASSUME NEW N, In(None, N) = 0
       PROVE  Tally(held', values', N) = Tally(held, values, N) - In(n, N)
  <2>1. Rebound(held, held', h)
    BY <1>2 DEF Rebound
  <2>2. Tally(held', values, N) = Tally(held, values, N) - In(held[h], N) + In(held'[h], N)
    BY <2>1, TallyHandle
  <2> QED
    BY <1>2, <1>3, <1>12, <2>2, TallyNat DEF In, n
<1>13. CountExact'
  <2>1. ASSUME NEW m \in Cell \cup Literal
        PROVE  references'[m] = Base(m) + Tally(held', values', {m})
    <3>1. Tally(held', values', {m}) = Tally(held, values, {m}) - In(n, {m})
      BY <1>12, NoneIsNoNode DEF Node
    <3>2. references[m] = Base(m) + Tally(held, values, {m})
      BY <1>1, OwnersTally DEF CountExact
    <3> QED
      BY <1>10, <3>1, <3>2, TallyNat, BaseAssumption DEF Base, In
  <2>2. empty_owners' = Tally(held', values', EmptyRoot)
    BY <1>1, <1>3, <1>12, NoneIsNoNode, OwnersTally DEF CountExact
  <2> QED
    BY <2>1, <2>2, OwnersTally DEF CountExact, Base
<1>14. NoDangling'
  <2>1. \A i \in DOMAIN destroying' : destroying'[i] \in live'
    <3> TAKE i \in DOMAIN destroying'
    <3>1. OnLoop(destroying', destroying'[i])
      BY DEF OnLoop
    <3>2. destroying'[i] = n \/ OnLoop(destroying, destroying'[i])
      BY <1>9, <3>1
    <3>3. destroying'[i] = n
      BY <1>3, <3>2 DEF OnLoop
    <3>4. n \in Cell
      BY <1>9, <3>3
    <3> QED
      BY <1>6, <3>3, <3>4
  <2> QED
    BY <1>1, <1>2, <1>3, <2>1 DEF NoDangling, Holding
<1>15. StaticsUntouched'
  BY <1>1, <1>3, <1>10, <1>13, LiteralsNext DEF StaticsUntouched
<1>16. DeadIsEmpty'
  <2>1. ASSUME NEW d \in Cell, d \notin live'
        PROVE  references'[d] = 0 /\ values'[d] = <<>>
    <3>1. In(n, {d}) = 0
      BY <1>6, <2>1 DEF In
    <3>2. references[d] = 0 /\ values[d] = <<>>
      BY <1>1, <1>3, <2>1 DEF DeadIsEmpty
    <3> QED
      BY <1>3, <1>10, <3>1, <3>2
  <2> QED
    BY <2>1 DEF DeadIsEmpty
<1>17. NoCycles' /\ OneChild' /\ FinishedIdle' /\ LeakCheckExact'
  BY <1>1, <1>3, SameShape DEF FinishedIdle, LeakCheckExact
<1> QED
  BY <1>9, <1>11, <1>13, <1>14, <1>15, <1>16, <1>17 DEF HeapInvariant
=============================================================================
