------------------------- MODULE CountedHeapUpdates -------------------------
(***************************************************************************)
(* The consuming helpers keep HeapInvariant: the branch that copies, the   *)
(* ones that write in place, and the one that passes its argument on.      *)
(***************************************************************************)
EXTENDS CountedHeapSteps

\* The copying branch of a consuming helper keeps the invariant.
LEMMA CopyAndDropStep ==
    ASSUME HeapInvariant, Running, NEW h \in Holding, NEW r, NEW c \in Cell, c \notin live,
           NEW s, GoodSlots(c, s), CopyAndDrop(h, r, c, s)
    PROVE  HeapInvariant'
<1> DEFINE n == held[h]
           counts == Built(c, s)
<1>1. /\ TypeOK /\ CountExact /\ NoDangling /\ DestroyedOnce /\ StaticsUntouched
      /\ NoCycles /\ DeadIsEmpty /\ OneChild /\ FinishedIdle /\ LeakCheckExact
  BY DEF HeapInvariant
<1>2. /\ h \in Handle /\ n \in Node /\ held[h] # None
      /\ r \in Handle /\ held[r] = None /\ h # r
      /\ held' = [[held EXCEPT ![h] = None] EXCEPT ![r] = c]
  BY <1>1 DEF CopyAndDrop, Holding, Spare, TypeOK
<1>3. /\ destroying = <<>> /\ exit_status = None
      /\ exit_status' = exit_status /\ live' = live \cup {c}
      /\ empty_owners' = empty_owners + Occurrences(s, EmptyRoot) - In(n, EmptyRoot)
  BY DEF CopyAndDrop, Running, IsEmptyRoot, In
<1>4. /\ values' \in [Node -> Seq(Slot)]
      /\ values'[c] = s /\ \A d \in Node : d # c => values'[d] = values[d]
  BY <1>1 DEF CopyAndDrop, GoodSlots, IsRoot, TypeOK, Node
<1>5. c \in Node /\ c \notin Literal /\ c \notin EmptyRoot
  BY NodeAssumption DEF Node
<1>6. \A N : Occurrences(s, N) \in Nat
  BY OccurrencesNat DEF GoodSlots, IsRoot
<1>7. BuiltFrom(counts, c, s)
  BY <1>1, BuiltCounts
<1>8. Releases(destroying, counts, n)
  BY DEF CopyAndDrop, Releases, Built
<1>9. n # c /\ (n \in Cell => n \in live)
  BY <1>1, <1>2 DEF NoDangling, Holding
<1>10. Droppable(references, n)
  BY <1>1, <1>2, OwnedDroppable
<1> DEFINE f == [held EXCEPT ![h] = None]
<1>11. /\ f[h] = None /\ f[r] = None /\ \A k \in Handle : k # h => f[k] = held[k]
       /\ held' \in [Handle -> Node \cup {None}]
       /\ held'[r] = c /\ \A k \in Handle : k # r => held'[k] = f[k]
  BY <1>1, <1>2, <1>5 DEF TypeOK
<1> HIDE DEF n, counts, f
<1>12. /\ counts \in [Node -> Nat] /\ counts[c] = 1
       /\ \A m \in Cell \cup Literal : m # c => counts[m] = references[m] + Occurrences(s, {m})
       /\ \A e \in EmptyRoot : counts[e] = references[e]
       /\ Occurrences(s, {c}) = 0
  BY <1>7 DEF BuiltFrom
<1>13. Droppable(counts, n)
  <2>1. ASSUME n \in Cell \cup Literal
        PROVE  counts[n] >= references[n] /\ references[n] \in Nat /\ counts[n] \in Nat
    <3>1. counts[n] = references[n] + Occurrences(s, {n}) /\ references[n] \in Nat
      BY <1>1, <1>9, <1>12, <2>1 DEF TypeOK, Node
    <3> QED
      BY <1>6, <3>1
  <2> QED
    BY <1>2, <1>10, <1>12, <2>1 DEF Droppable
<1>14. \A d \in live' : counts[d] = 0 <=> OnLoop(destroying, d)
  <2>1. ASSUME NEW d \in live, d # c
        PROVE  counts[d] # 0
    <3>1. references[d] # 0 /\ references[d] \in Nat /\ d \in Cell
      BY <1>1, <1>3 DEF DestroyedOnce, TypeOK, Node
    <3>2. counts[d] = references[d] + Occurrences(s, {d})
      BY <1>12, <2>1, <3>1
    <3> QED
      BY <1>6, <3>1, <3>2
  <2> QED
    BY <1>3, <1>12, <2>1 DEF OnLoop
<1>15. destroying \in Seq(Cell) /\ Distinct(destroying) /\ live' \subseteq Cell
  BY <1>1, <1>3 DEF TypeOK, DestroyedOnce, Distinct
<1>16. n \in Cell => n \in live'
  BY <1>3, <1>9
<1>17. /\ ReleasedFrom(references', counts, n)
       /\ destroying' \in Seq(Cell)
       /\ DestroyedOnce'
       /\ \A d : OnLoop(destroying', d) => OnLoop(destroying, d) \/ d = n
       /\ Destroys(counts, n) => n \in Cell
  BY <1>8, <1>13, <1>14, <1>15, <1>16, ReleaseNext
<1>18. /\ references' \in [Node -> Nat]
       /\ \A m \in Cell \cup Literal : references'[m] = counts[m] - In(n, {m})
       /\ \A e \in EmptyRoot : references'[e] = counts[e]
  BY <1>17 DEF ReleasedFrom
<1>19. TypeOK'
  <2>1. \A m \in Node : Len(values'[m]) <= MaxLength
    BY <1>1, <1>4 DEF TypeOK, GoodSlots, IsRoot
  <2>2. empty_owners' \in Int
    BY <1>1, <1>3, <1>6 DEF TypeOK, In
  <2>3. exit_status' \in {None, "balanced", "leak"}
    BY <1>3
  <2> QED
    BY <1>4, <1>11, <1>15, <1>17, <1>18, <2>1, <2>2, <2>3 DEF TypeOK
<1>20. ASSUME NEW N, In(None, N) = 0
       PROVE  Tally(held', values', N)
                 = Tally(held, values, N) - In(n, N) + In(c, N) + Occurrences(s, N)
  <2>1. Rebound(held, f, h) /\ Rebound(f, held', r)
    BY <1>2, <1>11 DEF Rebound
  <2>2. Rewritten(values, values', c)
    BY <1>1, <1>4, <1>5, RootTyped DEF GoodSlots, Node, Rewritten
  <2>3. Tally(f, values, N) = Tally(held, values, N) - In(held[h], N) + In(f[h], N)
    BY <2>1, TallyHandle
  <2>4. Tally(held', values, N) = Tally(f, values, N) - In(f[r], N) + In(held'[r], N)
    BY <2>1, TallyHandle
  <2>5. Tally(held', values', N)
           = Tally(held', values, N) - Occurrences(values[c], N) + Occurrences(values'[c], N)
    BY <2>2, TallyRoot
  <2>6. values[c] = <<>>
    BY <1>1 DEF DeadIsEmpty
  <2>7. Occurrences(values[c], N) = 0
    BY <2>6, OccurrencesSmall
  <2> QED
    BY <1>4, <1>6, <1>11, <1>20, <2>3, <2>4, <2>5, <2>7, TallyNat DEF In, n
<1>21. CountExact'
  <2>1. ASSUME NEW m \in Cell \cup Literal
        PROVE  references'[m] = Base(m) + Tally(held', values', {m})
    <3>1. Tally(held', values', {m})
             = Tally(held, values, {m}) - In(n, {m}) + In(c, {m}) + Occurrences(s, {m})
      BY <1>20, NoneIsNoNode DEF Node
    <3>2. references[m] = Base(m) + Tally(held, values, {m})
      BY <1>1, OwnersTally DEF CountExact
    <3>3. CASE m = c
      <4>1. references[c] = 0 /\ Base(c) = 0
        BY <1>1, <1>5 DEF DeadIsEmpty, Base
      <4> QED
        BY <1>9, <1>12, <1>18, <3>1, <3>2, <3>3, <4>1, TallyNat DEF In
    <3>4. CASE m # c
      <4>1. counts[m] = references[m] + Occurrences(s, {m})
        BY <1>12, <3>4
      <4>2. references'[m] = counts[m] - In(n, {m})
        BY <1>18
      <4> QED
        BY <1>6, <3>1, <3>2, <3>4, <4>1, <4>2, TallyNat, BaseAssumption DEF Base, In
    <3> QED
      BY <3>3, <3>4
  <2>2. empty_owners' = Tally(held', values', EmptyRoot)
    <3>1. Tally(held', values', EmptyRoot)
             = Tally(held, values, EmptyRoot) - In(n, EmptyRoot) + In(c, EmptyRoot)
                  + Occurrences(s, EmptyRoot)
      BY <1>20, NoneIsNoNode
    <3> QED
      BY <1>1, <1>3, <1>5, <1>6, <3>1, TallyNat, OwnersTally DEF CountExact, In
  <2> QED
    BY <2>1, <2>2, OwnersTally DEF CountExact, Base
<1>22. NoDangling'
  <2>1. \A i \in DOMAIN destroying' : destroying'[i] \in live'
    <3> TAKE i \in DOMAIN destroying'
    <3>1. destroying'[i] = n \/ OnLoop(destroying, destroying'[i])
      BY <1>17 DEF OnLoop
    <3>2. destroying'[i] = n /\ destroying'[i] \in Cell
      BY <1>3, <1>17, <3>1 DEF OnLoop
    <3> QED
      BY <1>16, <3>2
  <2>2. \A k \in Handle : held'[k] \in Cell => held'[k] \in live'
    BY <1>1, <1>3, <1>11, NodeAssumption DEF NoDangling, Holding, Element, Node
  <2>3. \A d \in Cell : \A i \in DOMAIN values'[d] : values'[d][i] \in Cell => values'[d][i] \in live'
    BY <1>1, <1>3, <1>4 DEF NoDangling, GoodSlots, Node
  <2> QED
    BY <2>1, <2>2, <2>3 DEF NoDangling, Holding
<1>23. StaticsUntouched'
  BY <1>1, <1>4, <1>5, <1>12, <1>18, <1>21, LiteralsNext DEF StaticsUntouched, Node
<1>24. DeadIsEmpty'
  <2>1. ASSUME NEW d \in Cell, d \notin live'
        PROVE  references'[d] = 0 /\ values'[d] = <<>>
    <3>1. d # c /\ d \notin live /\ In(n, {d}) = 0
      BY <1>3, <1>16, <2>1 DEF In
    <3>2. Occurrences(s, {d}) = 0
      BY <3>1, OccurrencesNone DEF GoodSlots
    <3>3. references[d] = 0 /\ values[d] = <<>>
      BY <1>1, <3>1 DEF DeadIsEmpty
    <3>4. counts[d] = references[d] + Occurrences(s, {d})
      BY <1>12, <3>1
    <3>5. references'[d] = counts[d] - In(n, {d})
      BY <1>18
    <3>6. values'[d] = values[d]
      BY <1>4, <3>1 DEF Node
    <3> QED
      BY <3>1, <3>2, <3>3, <3>4, <3>5, <3>6
  <2> QED
    BY <2>1 DEF DeadIsEmpty
<1>25. NoCycles' /\ OneChild'
  BY <1>1, <1>4, FreshKeepsShape
<1>26. FinishedIdle' /\ LeakCheckExact'
  BY <1>1, <1>3 DEF FinishedIdle, LeakCheckExact
<1> QED
  BY <1>17, <1>19, <1>21, <1>22, <1>23, <1>24, <1>25, <1>26 DEF HeapInvariant

\* A slot of a concatenation is a slot of one of its parts: the slots an
\* append or a concat adds follow the ones the root already had.
LEMMA ConcatSlot ==
    ASSUME NEW s \in Seq(Slot), NEW t \in Seq(Slot), NEW i \in DOMAIN (s \o t)
    PROVE  \/ \E j \in DOMAIN s : (s \o t)[i] = s[j]
           \/ \E j \in DOMAIN t : (s \o t)[i] = t[j]
<1>1. i \in 1 .. Len(s) + Len(t)
  OBVIOUS
<1>2. CASE i <= Len(s)
  <2>1. i \in DOMAIN s /\ (s \o t)[i] = s[i]
    BY <1>1, <1>2
  <2> QED
    BY <2>1
<1>3. CASE i > Len(s)
  <2>1. i - Len(s) \in DOMAIN t /\ (s \o t)[i] = t[i - Len(s)]
    BY <1>1, <1>3
  <2> QED
    BY <2>1
<1> QED
  BY <1>1, <1>2, <1>3

\* The in-place branch, whether the root moves or not, keeps the invariant.
LEMMA GrowInPlaceStep ==
    ASSUME HeapInvariant, Running, NEW h \in Holding, NEW r, NEW d, NEW added,
           references[held[h]] = 1, Layout[held[h]] \in Updatable,
           GoodSlots(held[h], added), \A i \in DOMAIN added : added[i] # held[h],
           GrowInPlace(h, r, d, added)
    PROVE  HeapInvariant'
<1> DEFINE n == held[h]
           counts == Acquired(added)
           f == [held EXCEPT ![h] = None]
<1>1. /\ TypeOK /\ CountExact /\ NoDangling /\ DestroyedOnce /\ StaticsUntouched
      /\ NoCycles /\ DeadIsEmpty /\ OneChild /\ FinishedIdle /\ LeakCheckExact
  BY DEF HeapInvariant
<1>2. /\ h \in Handle /\ n \in Node /\ held[h] # None
      /\ r \in Handle /\ held[r] = None /\ h # r
      /\ held' = [[held EXCEPT ![h] = None] EXCEPT ![r] = d]
  BY <1>1 DEF GrowInPlace, Holding, Spare, TypeOK
<1>3. /\ n \in Cell /\ n \in live /\ references[n] = 1
      /\ \A k \in Handle \ {h} : held[k] # n
      /\ \A c \in Cell : \A i \in DOMAIN values[c] : values[c][i] # n
  BY <1>1, <1>2, SoleOwner
<1>4. d = n \/ (d \in Cell /\ d \notin live /\ Layout[d] = Layout[n])
  BY DEF GrowInPlace, Fresh
<1>5. /\ d \in Cell /\ d \in Node /\ d \notin Literal /\ d \notin EmptyRoot
      /\ n \notin Literal /\ n \notin EmptyRoot
      /\ Layout[d] \notin Boxed
  BY <1>3, <1>4, NodeAssumption, LayoutAssumption DEF Node
<1>6. /\ destroying = <<>> /\ exit_status = None
      /\ destroying' = destroying /\ exit_status' = exit_status
      /\ live' = (live \ {n}) \cup {d}
      /\ empty_owners' = empty_owners + Occurrences(added, EmptyRoot)
  BY <1>3 DEF GrowInPlace, Running
<1>7. \A N : Occurrences(added, N) \in Nat
  BY OccurrencesNat DEF GoodSlots, IsRoot
<1>8. Occurrences(added, {n}) = 0 /\ \A c \in Cell \ live : Occurrences(added, {c}) = 0
  <2>1. Occurrences(added, {n}) = 0
    BY OccurrencesNone
  <2>2. ASSUME NEW c \in Cell \ live
        PROVE  Occurrences(added, {c}) = 0
    BY OccurrencesNone DEF GoodSlots
  <2> QED
    BY <2>1, <2>2
<1>9. /\ counts \in [Node -> Nat]
      /\ \A m \in Cell \cup Literal : counts[m] = references[m] + Occurrences(added, {m})
      /\ \A e \in EmptyRoot : counts[e] = references[e]
  BY <1>1, AcquiredCounts DEF GoodSlots, IsRoot
<1>10. references' = IF d = n THEN counts ELSE [counts EXCEPT ![d] = counts[n], ![n] = 0]
  BY DEF GrowInPlace
<1>11. values' = [Relocated(n, d) EXCEPT ![d] = @ \o added]
  BY DEF GrowInPlace
<1>12. Len(values[n]) + Len(added) <= MaxLength
  BY DEF GrowInPlace
<1>13. /\ f[h] = None /\ f[r] = None /\ \A k \in Handle : k # h => f[k] = held[k]
       /\ held' \in [Handle -> Node \cup {None}]
       /\ held'[r] = d /\ \A k \in Handle : k # r => held'[k] = f[k]
  BY <1>1, <1>2, <1>5 DEF TypeOK
<1>14. /\ values' \in [Node -> Seq(Slot)]
       /\ values'[d] = values[n] \o added
       /\ d # n => values'[n] = <<>>
       /\ \A c \in Node : c # d /\ c # n => values'[c] = values[c]
  <2>1. values \in [Node -> Seq(Slot)] /\ added \in Seq(Slot)
    BY <1>1 DEF TypeOK, GoodSlots, IsRoot
  <2>2. CASE d = n
    BY <1>2, <1>5, <1>11, <2>1, <2>2 DEF Relocated
  <2>3. CASE d # n
    <3>1. Relocated(n, d) = [values EXCEPT ![d] = values[n], ![n] = <<>>]
      BY <2>3 DEF Relocated
    <3>2. /\ Relocated(n, d) \in [Node -> Seq(Slot)]
          /\ Relocated(n, d)[d] = values[n] /\ Relocated(n, d)[n] = <<>>
          /\ \A c \in Node : c # d /\ c # n => Relocated(n, d)[c] = values[c]
      BY <1>2, <1>5, <2>1, <2>3, <3>1
    <3> HIDE DEF Relocated
    <3> QED
      BY <1>2, <1>5, <1>11, <2>1, <2>3, <3>2
  <2> QED
    BY <2>2, <2>3
<1>15. /\ references' \in [Node -> Nat]
       /\ references'[d] = 1
       /\ d # n => references'[n] = 0
       /\ \A m \in Cell \cup Literal :
             m # d /\ m # n => references'[m] = references[m] + Occurrences(added, {m})
       /\ \A e \in EmptyRoot : references'[e] = references[e]
  <2> HIDE DEF counts
  <2>1. counts[n] = 1
    BY <1>3, <1>8, <1>9
  <2>2. Cell \cup Literal \subseteq Node /\ EmptyRoot \subseteq Node
    BY DEF Node
  <2>3. CASE d = n
    BY <1>9, <1>10, <2>1, <2>3
  <2>4. CASE d # n
    <3>1. /\ references' \in [Node -> Nat] /\ references'[d] = counts[n] /\ references'[n] = 0
          /\ \A m \in Node : m # d /\ m # n => references'[m] = counts[m]
      BY <1>2, <1>5, <1>9, <1>10, <2>1, <2>4
    <3> QED
      BY <1>5, <1>9, <2>1, <2>2, <2>4, <3>1
  <2> QED
    BY <2>3, <2>4
<1>16. d # n => d \in Cell \ live /\ values[d] = <<>> /\ references[d] = 0
  BY <1>1, <1>4 DEF DeadIsEmpty
<1> HIDE DEF n, counts, f
<1>17. IsRoot(values'[d]) /\ IsRoot(values[n]) /\ IsRoot(<<>>) /\ IsRoot(added)
  <2>1. IsRoot(values[n]) /\ IsRoot(added)
    BY <1>1, <1>2, RootTyped DEF GoodSlots, n
  <2>2. IsRoot(values[n] \o added)
    BY <1>12, <2>1 DEF IsRoot
  <2>3. IsRoot(<<>>)
    BY SizeAssumption DEF IsRoot
  <2> QED
    BY <1>14, <2>1, <2>2, <2>3
<1>18. TypeOK'
  <2>1. ASSUME NEW m \in Node
        PROVE  Len(values'[m]) <= MaxLength
    BY <1>1, <1>14, <1>17, <2>1 DEF TypeOK, IsRoot
  <2>2. empty_owners' \in Int
    BY <1>1, <1>6, <1>7 DEF TypeOK
  <2>3. /\ exit_status' \in {None, "balanced", "leak"} /\ destroying' \in Seq(Cell)
        /\ live' \subseteq Cell
    BY <1>1, <1>5, <1>6 DEF TypeOK
  <2> QED
    BY <1>13, <1>14, <1>15, <2>1, <2>2, <2>3 DEF TypeOK
<1>19. ASSUME NEW N, In(None, N) = 0
       PROVE  Tally(held', values', N)
                 = Tally(held, values, N) - In(n, N) + In(d, N) + Occurrences(added, N)
  <2>1. Rebound(held, f, h) /\ Rebound(f, held', r)
    BY <1>2, <1>13 DEF Rebound
  <2>2. Tally(f, values, N) = Tally(held, values, N) - In(held[h], N) + In(f[h], N)
    BY <2>1, TallyHandle
  <2>3. Tally(held', values, N) = Tally(f, values, N) - In(f[r], N) + In(held'[r], N)
    BY <2>1, TallyHandle
  <2>4. Tally(held', values, N) = Tally(held, values, N) - In(n, N) + In(d, N)
    BY <1>13, <1>19, <2>2, <2>3, TallyNat DEF In, n
  <2>5. Occurrences(values'[d], N) = Occurrences(values[n], N) + Occurrences(added, N)
    <3>1. values[n] \in Seq(Slot) /\ added \in Seq(Slot)
      BY <1>17 DEF IsRoot
    <3> QED
      BY <1>14, <3>1, OccurrencesConcat
  <2>6. Occurrences(values[n], N) \in Nat
    BY <1>17, OccurrencesNat DEF IsRoot
  <2>7. Tally(held', values', N) = Tally(held', values, N) + Occurrences(added, N)
    <3>1. CASE d = n
      <4>1. Rewritten(values, values', d)
        BY <1>5, <1>14, <1>17, <3>1 DEF Rewritten, Node
      <4>2. Tally(held', values', N)
               = Tally(held', values, N) - Occurrences(values[d], N) + Occurrences(values'[d], N)
        BY <4>1, TallyRoot
      <4> QED
        BY <1>7, <2>5, <2>6, <3>1, <4>2, TallyNat
    <3>2. CASE d # n
      <4> DEFINE w == [values EXCEPT ![n] = <<>>]
      <4>1. w[n] = <<>> /\ \A c \in Cell : c # n => w[c] = values[c]
        BY <1>1, <1>2 DEF TypeOK, Node, n
      <4>2. values[d] = <<>>
        BY <1>16, <3>2
      <4> HIDE DEF w
      <4>3. Rewritten(values, w, n)
        BY <1>3, <1>17, <4>1 DEF Rewritten
      <4>4. w[d] = <<>>
        BY <1>5, <3>2, <4>1, <4>2
      <4>5. Rewritten(w, values', d)
        <5>1. \A c \in Cell : c # d => values'[c] = w[c]
          BY <1>14, <3>2, <4>1 DEF Node
        <5> QED
          BY <1>5, <1>17, <4>4, <5>1 DEF Rewritten
      <4>6. Tally(held', w, N)
               = Tally(held', values, N) - Occurrences(values[n], N) + Occurrences(w[n], N)
        BY <4>3, TallyRoot
      <4>7. Tally(held', values', N)
               = Tally(held', w, N) - Occurrences(w[d], N) + Occurrences(values'[d], N)
        BY <4>5, TallyRoot
      <4>8. Occurrences(w[n], N) = 0 /\ Occurrences(w[d], N) = 0
        BY <4>1, <4>4, OccurrencesSmall
      <4> QED
        BY <1>7, <2>5, <2>6, <4>6, <4>7, <4>8, TallyNat
    <3> QED
      BY <3>1, <3>2
  <2> QED
    BY <2>4, <2>7
<1>20. CountExact'
  <2>1. ASSUME NEW m \in Cell \cup Literal
        PROVE  references'[m] = Base(m) + Tally(held', values', {m})
    <3>1. Tally(held', values', {m})
             = Tally(held, values, {m}) - In(n, {m}) + In(d, {m}) + Occurrences(added, {m})
      BY <1>19, NoneIsNoNode DEF Node
    <3>2. references[m] = Base(m) + Tally(held, values, {m})
      BY <1>1, OwnersTally DEF CountExact
    <3>3. Base(n) = 0 /\ Base(d) = 0
      BY <1>5 DEF Base
    <3>4. CASE m = d
      <4>1. Occurrences(added, {d}) = 0
        BY <1>8, <1>16
      <4>2. references'[d] = 1 /\ (d # n => references[d] = 0) /\ references[n] = 1
        BY <1>3, <1>15, <1>16
      <4> QED
        BY <3>1, <3>2, <3>3, <3>4, <4>1, <4>2, TallyNat DEF In
    <3>5. CASE m = n /\ m # d
      <4>1. references'[n] = 0 /\ references[n] = 1 /\ Occurrences(added, {n}) = 0
        BY <1>3, <1>8, <1>15, <3>5
      <4> QED
        BY <3>1, <3>2, <3>3, <3>5, <4>1, TallyNat DEF In
    <3>6. CASE m # n /\ m # d
      <4>1. references'[m] = references[m] + Occurrences(added, {m})
        BY <1>15, <3>6
      <4> QED
        BY <1>7, <3>1, <3>2, <3>6, <4>1, TallyNat, BaseAssumption DEF Base, In
    <3> QED
      BY <3>4, <3>5, <3>6
  <2>2. empty_owners' = Tally(held', values', EmptyRoot)
    <3>1. Tally(held', values', EmptyRoot)
             = Tally(held, values, EmptyRoot) - In(n, EmptyRoot) + In(d, EmptyRoot)
                  + Occurrences(added, EmptyRoot)
      BY <1>19, NoneIsNoNode
    <3> QED
      BY <1>1, <1>5, <1>6, <1>7, <3>1, TallyNat, OwnersTally DEF CountExact, In
  <2> QED
    BY <2>1, <2>2, OwnersTally DEF CountExact, Base
<1>21. NoDangling'
  <2>1. \A k \in Handle : held'[k] \in Cell => held'[k] \in live'
    <3> TAKE k \in Handle
    <3>1. CASE k = r
      BY <1>6, <1>13, <3>1
    <3>2. CASE k = h /\ k # r
      BY <1>13, <3>2, NodeAssumption DEF Element, Node
    <3>3. CASE k # h /\ k # r
      <4>1. held'[k] = held[k] /\ held[k] # n
        BY <1>3, <1>13, <3>3
      <4>2. held[k] \in Cell => held[k] \in live
        BY <1>1, NodeAssumption DEF NoDangling, Holding, Element, Node
      <4> QED
        BY <1>6, <4>1, <4>2
    <3> QED
      BY <3>1, <3>2, <3>3
  <2>2. ASSUME NEW c \in Cell, NEW i \in DOMAIN values'[c], values'[c][i] \in Cell
        PROVE  values'[c][i] \in live'
    <3>1. values'[c][i] \in live /\ values'[c][i] # n
      <4>1. CASE c = d
        <5>1. values[n] \in Seq(Slot) /\ added \in Seq(Slot)
          BY <1>17 DEF IsRoot
        <5>2. \/ \E j \in DOMAIN values[n] : values'[c][i] = values[n][j]
              \/ \E j \in DOMAIN added : values'[c][i] = added[j]
          <6>1. values'[c] = values[n] \o added
            BY <1>14, <4>1
          <6>2. i \in DOMAIN (values[n] \o added)
            BY <2>2, <6>1
          <6>3. \/ \E j \in DOMAIN values[n] : (values[n] \o added)[i] = values[n][j]
                \/ \E j \in DOMAIN added : (values[n] \o added)[i] = added[j]
            BY <5>1, <6>2, ConcatSlot, Zenon
          <6> QED
            BY <6>1, <6>3, Zenon
        <5>3. \A j \in DOMAIN values[n] :
                 values[n][j] # n /\ (values[n][j] \in Cell => values[n][j] \in live)
          BY <1>1, <1>3 DEF NoDangling
        <5>4. \A j \in DOMAIN added : added[j] # n /\ (added[j] \in Cell => added[j] \in live)
          BY DEF GoodSlots, n
        <5> QED
          BY <2>2, <5>2, <5>3, <5>4
      <4>2. CASE c = n /\ c # d
        BY <1>14, <2>2, <4>2
      <4>3. CASE c # n /\ c # d
        <5>1. values'[c] = values[c]
          BY <1>14, <4>3 DEF Node
        <5> QED
          BY <1>1, <1>3, <2>2, <5>1 DEF NoDangling
      <4> QED
        BY <4>1, <4>2, <4>3
    <3> QED
      BY <1>6, <3>1
  <2> QED
    BY <1>6, <2>1, <2>2 DEF NoDangling, Holding
<1>22. DestroyedOnce'
  <2>1. ASSUME NEW c \in live'
        PROVE  references'[c] # 0
    <3>1. CASE c = d
      BY <1>15, <3>1
    <3>2. CASE c # d
      <4>1. c \in live /\ c # n /\ c \in Cell
        BY <1>1, <1>6, <2>1, <3>2 DEF TypeOK
      <4>2. references[c] # 0 /\ references[c] \in Nat
        BY <1>1, <1>6, <4>1 DEF DestroyedOnce, TypeOK, Node
      <4>3. references'[c] = references[c] + Occurrences(added, {c})
        BY <1>15, <3>2, <4>1
      <4> QED
        BY <1>7, <4>2, <4>3
    <3> QED
      BY <3>1, <3>2
  <2> QED
    BY <1>6, <2>1, IdleNext
<1>23. StaticsUntouched'
  BY <1>1, <1>5, <1>14, <1>15, <1>20, LiteralsNext DEF StaticsUntouched, Node
<1>24. DeadIsEmpty'
  <2>1. ASSUME NEW c \in Cell, c \notin live'
        PROVE  references'[c] = 0 /\ values'[c] = <<>>
    <3>1. c # d /\ (c = n \/ c \notin live)
      BY <1>6, <2>1
    <3>2. CASE c = n
      BY <1>14, <1>15, <3>1, <3>2
    <3>3. CASE c # n
      <4>1. references[c] = 0 /\ values[c] = <<>> /\ Occurrences(added, {c}) = 0
        BY <1>1, <1>8, <3>1, <3>3 DEF DeadIsEmpty
      <4>2. references'[c] = references[c] + Occurrences(added, {c}) /\ values'[c] = values[c]
        BY <1>14, <1>15, <3>1, <3>3 DEF Node
      <4> QED
        BY <4>1, <4>2
    <3> QED
      BY <3>2, <3>3
  <2> QED
    BY <2>1 DEF DeadIsEmpty
<1>25. NoCycles' /\ OneChild'
  <2>1. \A c \in Cell : c # d => values'[c] = values[c] \/ values'[c] = <<>>
    BY <1>14 DEF Node
  <2>2. ASSUME NEW c \in Cell, NEW i \in DOMAIN values'[c]
        PROVE  values'[c][i] # d
    <3>1. \A e \in Cell : \A j \in DOMAIN values[e] : values[e][j] # d
      BY <1>1, <1>3, <1>16 DEF NoDangling
    <3>2. \A j \in DOMAIN added : added[j] # d
      BY <1>16 DEF GoodSlots, n
    <3>3. CASE c = d
      <4>1. values[n] \in Seq(Slot) /\ added \in Seq(Slot)
        BY <1>17 DEF IsRoot
      <4>2. values'[c] = values[n] \o added
        BY <1>14, <3>3
      <4>3. i \in DOMAIN (values[n] \o added)
        BY <2>2, <4>2
      <4>4. \/ \E j \in DOMAIN values[n] : (values[n] \o added)[i] = values[n][j]
            \/ \E j \in DOMAIN added : (values[n] \o added)[i] = added[j]
        BY <4>1, <4>3, ConcatSlot, Zenon
      <4> QED
        BY <1>3, <3>1, <3>2, <4>2, <4>4, Zenon
    <3>4. CASE c # d
      BY <2>1, <2>2, <3>1, <3>4
    <3> QED
      BY <3>3, <3>4
  <2>3. \A i, j \in DOMAIN values'[d] :
           IsChild(d, values'[d][i]) /\ IsChild(d, values'[d][j]) => i = j
    BY <1>5 DEF IsChild
  <2> QED
    BY <1>1, <2>1, <2>2, <2>3, WriteKeepsShape
<1>26. FinishedIdle' /\ LeakCheckExact'
  BY <1>1, <1>6 DEF FinishedIdle, LeakCheckExact
<1> QED
  BY <1>18, <1>20, <1>21, <1>22, <1>23, <1>24, <1>25, <1>26 DEF HeapInvariant

\* Replacing an element in place keeps the invariant.
LEMMA SetInPlaceStep ==
    ASSUME HeapInvariant, Running, NEW h \in Holding, NEW r, NEW e \in Element,
           NEW i \in DOMAIN values[held[h]],
           references[held[h]] = 1, Layout[held[h]] \in Updatable,
           e # held[h], e \in Cell => e \in live,
           SetInPlace(h, r, i, e)
    PROVE  HeapInvariant'
<1> DEFINE n == held[h]
           old == values[n][i]
           counts == Acquired(<<e>>)
           f == [held EXCEPT ![h] = None]
<1>1. /\ TypeOK /\ CountExact /\ NoDangling /\ DestroyedOnce /\ StaticsUntouched
      /\ NoCycles /\ DeadIsEmpty /\ OneChild /\ FinishedIdle /\ LeakCheckExact
  BY DEF HeapInvariant
<1>2. /\ h \in Handle /\ n \in Node /\ held[h] # None
      /\ r \in Handle /\ held[r] = None /\ h # r
      /\ held' = [[held EXCEPT ![h] = None] EXCEPT ![r] = n]
  BY <1>1 DEF SetInPlace, Holding, Spare, TypeOK
<1>3. /\ n \in Cell /\ n \in live
      /\ \A c \in Cell : \A j \in DOMAIN values[c] : values[c][j] # n
  BY <1>1, <1>2, SoleOwner
<1>4. /\ destroying = <<>> /\ exit_status = None
      /\ exit_status' = exit_status /\ live' = live
      /\ empty_owners' = empty_owners + In(e, EmptyRoot) - In(old, EmptyRoot)
  <2>1. Occurrences(<<e>>, EmptyRoot) = In(e, EmptyRoot)
    BY OccurrencesSmall
  <2> QED
    BY <2>1 DEF SetInPlace, Running, IsEmptyRoot, In
<1>5. /\ f[h] = None /\ f[r] = None /\ \A k \in Handle : k # h => f[k] = held[k]
      /\ held' \in [Handle -> Node \cup {None}]
      /\ held'[r] = n /\ \A k \in Handle : k # r => held'[k] = f[k]
  BY <1>1, <1>2 DEF TypeOK
<1>6. /\ old \in Slot /\ i \in Index /\ IsRoot(values[n])
      /\ \A j \in DOMAIN values[n] : j \in Index
  BY <1>1, <1>2, RootTyped
<1>7. e \in Cell => e \in live
  OBVIOUS
<1>8. e # n /\ Layout[n] \notin Boxed
  BY LayoutAssumption
<1>9. /\ values' \in [Node -> Seq(Slot)]
      /\ values'[n] = [values[n] EXCEPT ![i] = e]
      /\ DOMAIN values'[n] = DOMAIN values[n]
      /\ values'[n][i] = e /\ \A j \in DOMAIN values[n] : j # i => values'[n][j] = values[n][j]
      /\ \A c \in Node : c # n => values'[c] = values[c]
      /\ Len(values'[n]) = Len(values[n])
  <2>1. values \in [Node -> Seq(Slot)] /\ e \in Slot
    BY <1>1 DEF TypeOK, Slot
  <2>2. values' = [values EXCEPT ![n] = [values[n] EXCEPT ![i] = e]]
    BY <1>2, <2>1 DEF SetInPlace
  <2>3. values[n] \in Seq(Slot)
    BY <1>2, <2>1
  <2>4. [values[n] EXCEPT ![i] = e] \in Seq(Slot)
    BY <2>1, <2>3
  <2>5. Len([values[n] EXCEPT ![i] = e]) = Len(values[n])
    BY <2>1, <2>3
  <2> QED
    BY <1>2, <2>1, <2>2, <2>3, <2>4, <2>5
<1>10. /\ counts \in [Node -> Nat]
       /\ \A m \in Cell \cup Literal : counts[m] = references[m] + In(e, {m})
       /\ \A m \in EmptyRoot : counts[m] = references[m]
  <2>1. <<e>> \in Seq(Slot)
    BY DEF Slot
  <2>2. \A m : Occurrences(<<e>>, {m}) = In(e, {m})
    BY OccurrencesSmall
  <2> QED
    BY <1>1, <2>1, <2>2, AcquiredCounts
<1>11. /\ old \in Node => Releases(destroying, counts, old)
       /\ old \notin Node => references' = counts /\ destroying' = destroying
  BY DEF SetInPlace, Releases
<1>12. old \in Node => Droppable(references, old) /\ (old \in Cell => old \in live)
  BY <1>1, <1>3, OwnedDroppable DEF NoDangling
<1>13. n \notin Literal /\ n \notin EmptyRoot
  BY <1>3, NodeAssumption
<1> HIDE DEF n, old, counts, f
<1>14. destroying \in Seq(Cell) /\ Distinct(destroying) /\ live' \subseteq Cell
  BY <1>1, <1>4 DEF TypeOK, DestroyedOnce, Distinct
<1>15. \A c \in live' : counts[c] # 0
  <2> TAKE c \in live'
  <2>1. references[c] # 0 /\ references[c] \in Nat /\ c \in Cell
    BY <1>1, <1>4 DEF DestroyedOnce, TypeOK, Node
  <2> QED
    BY <1>10, <2>1 DEF In
<1>16. /\ references' \in [Node -> Nat]
       /\ \A m \in Cell \cup Literal : references'[m] = counts[m] - In(old, {m})
       /\ \A m \in EmptyRoot : references'[m] = counts[m]
       /\ destroying' \in Seq(Cell)
       /\ DestroyedOnce'
       /\ \A j \in DOMAIN destroying' : destroying'[j] \in live'
  <2>1. CASE old \in Node
    <3>1. Droppable(counts, old)
      <4>1. ASSUME old \in Cell \cup Literal
            PROVE  counts[old] >= references[old] /\ references[old] \in Nat /\ counts[old] \in Nat
        <5>1. counts[old] = references[old] + In(e, {old}) /\ references[old] \in Nat
          BY <1>1, <1>10, <2>1, <4>1 DEF TypeOK
        <5> QED
          BY <5>1 DEF In
      <4> QED
        BY <1>10, <1>12, <2>1, <4>1 DEF Droppable
    <3>2. \A c \in live' : counts[c] = 0 <=> OnLoop(destroying, c)
      BY <1>4, <1>15 DEF OnLoop
    <3>3. old \in Cell => old \in live'
      BY <1>4, <1>12, <2>1
    <3>4. /\ ReleasedFrom(references', counts, old)
          /\ destroying' \in Seq(Cell)
          /\ DestroyedOnce'
          /\ \A c : OnLoop(destroying', c) => OnLoop(destroying, c) \/ c = old
          /\ Destroys(counts, old) => old \in Cell
      BY <1>11, <1>14, <2>1, <3>1, <3>2, <3>3, ReleaseNext
    <3>5. \A j \in DOMAIN destroying' : destroying'[j] \in live'
      <4> TAKE j \in DOMAIN destroying'
      <4>1. destroying'[j] = old \/ OnLoop(destroying, destroying'[j])
        BY <3>4 DEF OnLoop
      <4>2. destroying'[j] = old /\ destroying'[j] \in Cell
        BY <1>4, <3>4, <4>1 DEF OnLoop
      <4> QED
        BY <3>3, <4>2
    <3> QED
      BY <3>4, <3>5 DEF ReleasedFrom
  <2>2. CASE old \notin Node
    <3>1. \A m \in Cell \cup Literal : In(old, {m}) = 0 /\ counts[m] \in Nat
      BY <1>10, <2>2 DEF In, Node
    <3>2. references' = counts /\ destroying' = destroying
      BY <1>11, <2>2
    <3>3. DestroyedOnce'
      BY <1>4, <1>15, <3>2, IdleNext
    <3>4. \A m \in Cell \cup Literal : references'[m] = counts[m] - In(old, {m})
      BY <3>1, <3>2
    <3>5. references' \in [Node -> Nat] /\ \A m \in EmptyRoot : references'[m] = counts[m]
      BY <1>10, <3>2
    <3>6. destroying' \in Seq(Cell) /\ \A j \in DOMAIN destroying' : destroying'[j] \in live'
      BY <1>4, <1>14, <3>2
    <3> QED
      BY <3>3, <3>4, <3>5, <3>6
  <2> QED
    BY <2>1, <2>2
<1>17. IsRoot(values'[n])
  BY <1>2, <1>6, <1>9 DEF IsRoot
<1>18. TypeOK'
  <2>1. \A m \in Node : Len(values'[m]) <= MaxLength
    BY <1>1, <1>9 DEF TypeOK
  <2>2. empty_owners' \in Int
    BY <1>1, <1>4 DEF TypeOK, In
  <2>3. exit_status' \in {None, "balanced", "leak"}
    BY <1>4
  <2> QED
    BY <1>5, <1>9, <1>14, <1>16, <2>1, <2>2, <2>3 DEF TypeOK
<1>19. ASSUME NEW N, In(None, N) = 0
       PROVE  Tally(held', values', N) = Tally(held, values, N) - In(old, N) + In(e, N)
  <2>1. Rebound(held, f, h) /\ Rebound(f, held', r)
    BY <1>2, <1>5 DEF Rebound
  <2>2. Rewritten(values, values', n)
    BY <1>3, <1>6, <1>9, <1>17 DEF Node, Rewritten
  <2>3. Tally(f, values, N) = Tally(held, values, N) - In(held[h], N) + In(f[h], N)
    BY <2>1, TallyHandle
  <2>4. Tally(held', values, N) = Tally(f, values, N) - In(f[r], N) + In(held'[r], N)
    BY <2>1, TallyHandle
  <2>5. Tally(held', values, N) = Tally(held, values, N)
    BY <1>5, <1>19, <2>3, <2>4, TallyNat DEF In, n
  <2>6. /\ Tally(held', values', N)
              = Tally(held', values, N) - Occurrences(values[n], N) + Occurrences(values'[n], N)
        /\ Occurrences(values[n], N) \in Nat
    BY <2>2, TallyRoot
  <2>7. Occurrences(values'[n], N) = Occurrences(values[n], N) - In(values[n][i], N) + In(e, N)
    <3>1. values[n] \in Seq(Slot) /\ i \in DOMAIN values[n]
      BY <1>6 DEF IsRoot, n
    <3>2. Occurrences([values[n] EXCEPT ![i] = e], N)
             = Occurrences(values[n], N) - In(values[n][i], N) + In(e, N)
      BY <3>1, OccurrencesExcept
    <3> QED
      BY <1>9, <3>2
  <2> QED
    BY <2>5, <2>6, <2>7, TallyNat DEF In, old
<1>20. CountExact'
  <2>1. ASSUME NEW m \in Cell \cup Literal
        PROVE  references'[m] = Base(m) + Tally(held', values', {m})
    <3>1. Tally(held', values', {m}) = Tally(held, values, {m}) - In(old, {m}) + In(e, {m})
      BY <1>19, NoneIsNoNode DEF Node
    <3>2. references[m] = Base(m) + Tally(held, values, {m})
      BY <1>1, OwnersTally DEF CountExact
    <3>3. references'[m] = references[m] + In(e, {m}) - In(old, {m})
      <4>1. counts[m] = references[m] + In(e, {m})
        BY <1>10
      <4>2. references'[m] = counts[m] - In(old, {m})
        BY <1>16
      <4>3. references[m] \in Nat
        BY <1>1 DEF TypeOK, Node
      <4> QED
        BY <4>1, <4>2, <4>3 DEF In
    <3> QED
      BY <3>1, <3>2, <3>3, TallyNat, BaseAssumption DEF Base, In
  <2>2. empty_owners' = Tally(held', values', EmptyRoot)
    <3>1. Tally(held', values', EmptyRoot)
             = Tally(held, values, EmptyRoot) - In(old, EmptyRoot) + In(e, EmptyRoot)
      BY <1>19, NoneIsNoNode
    <3> QED
      BY <1>1, <1>4, <3>1, TallyNat, OwnersTally DEF CountExact, In
  <2> QED
    BY <2>1, <2>2, OwnersTally DEF CountExact, Base
<1>21. NoDangling'
  <2>1. \A k \in Handle : held'[k] \in Cell => held'[k] \in live'
    BY <1>1, <1>3, <1>4, <1>5, NodeAssumption DEF NoDangling, Holding, Element, Node
  <2>2. ASSUME NEW c \in Cell, NEW j \in DOMAIN values'[c], values'[c][j] \in Cell
        PROVE  values'[c][j] \in live'
    <3>1. CASE c = n
      BY <1>1, <1>3, <1>4, <1>7, <1>9, <2>2, <3>1 DEF NoDangling
    <3>2. CASE c # n
      BY <1>1, <1>4, <1>9, <2>2, <3>2 DEF NoDangling, Node
    <3> QED
      BY <3>1, <3>2
  <2> QED
    BY <1>16, <2>1, <2>2 DEF NoDangling, Holding
<1>22. StaticsUntouched'
  BY <1>1, <1>9, <1>10, <1>13, <1>16, <1>20, LiteralsNext DEF StaticsUntouched, Node
<1>23. DeadIsEmpty'
  <2>1. ASSUME NEW c \in Cell, c \notin live'
        PROVE  references'[c] = 0 /\ values'[c] = <<>>
    <3>1. c # n /\ In(e, {c}) = 0 /\ In(old, {c}) = 0
      BY <1>3, <1>4, <1>7, <1>12, <2>1 DEF In, Node
    <3>2. references[c] = 0 /\ values[c] = <<>>
      BY <1>1, <1>4, <2>1 DEF DeadIsEmpty
    <3>3. references'[c] = references[c] + In(e, {c}) - In(old, {c})
      <4>1. counts[c] = references[c] + In(e, {c})
        BY <1>10
      <4>2. references'[c] = counts[c] - In(old, {c})
        BY <1>16
      <4>3. references[c] \in Nat
        BY <1>1 DEF TypeOK, Node
      <4> QED
        BY <4>1, <4>2, <4>3 DEF In
    <3>4. values'[c] = values[c]
      BY <1>9, <3>1 DEF Node
    <3> QED
      BY <3>1, <3>2, <3>3, <3>4
  <2> QED
    BY <2>1 DEF DeadIsEmpty
<1>24. NoCycles' /\ OneChild'
  <2>1. \A c \in Cell : c # n => values'[c] = values[c]
    BY <1>9 DEF Node
  <2>2. \A c \in Cell : \A j \in DOMAIN values'[c] : values'[c][j] # n
    BY <1>3, <1>8, <1>9, <2>1
  <2>3. \A j, k \in DOMAIN values'[n] :
           IsChild(n, values'[n][j]) /\ IsChild(n, values'[n][k]) => j = k
    BY <1>8 DEF IsChild
  <2> QED
    BY <1>1, <2>1, <2>2, <2>3, WriteKeepsShape
<1>25. FinishedIdle' /\ LeakCheckExact'
  BY <1>1, <1>4 DEF FinishedIdle, LeakCheckExact
<1> QED
  BY <1>16, <1>18, <1>20, <1>21, <1>22, <1>23, <1>24, <1>25 DEF HeapInvariant

Pass(h, r) ==
    /\ r \in Spare
    /\ held' = [held EXCEPT ![h] = None, ![r] = held[h]]
    /\ UNCHANGED <<heap, exit_status>>

\* A set at an invalid index passes the obligation on and touches nothing.
LEMMA PassStep ==
    ASSUME HeapInvariant, Running, NEW h \in Holding, NEW r, Pass(h, r)
    PROVE  HeapInvariant'
<1> DEFINE f == [held EXCEPT ![h] = None]
<1>1. /\ TypeOK /\ CountExact /\ NoDangling /\ DestroyedOnce /\ StaticsUntouched
      /\ NoCycles /\ DeadIsEmpty /\ OneChild /\ FinishedIdle /\ LeakCheckExact
  BY DEF HeapInvariant
<1>2. /\ h \in Handle /\ held[h] \in Node
      /\ r \in Handle /\ held[r] = None /\ h # r
      /\ held' = [[held EXCEPT ![h] = None] EXCEPT ![r] = held[h]]
  BY <1>1 DEF Pass, Holding, Spare, TypeOK
<1>3. /\ f[h] = None /\ f[r] = None /\ \A k \in Handle : k # h => f[k] = held[k]
      /\ held' \in [Handle -> Node \cup {None}]
      /\ held'[r] = held[h] /\ \A k \in Handle : k # r => held'[k] = f[k]
  BY <1>1, <1>2 DEF TypeOK
<1>4. /\ references' = references /\ values' = values /\ live' = live
      /\ destroying' = destroying /\ empty_owners' = empty_owners /\ exit_status' = exit_status
      /\ exit_status = None
  BY DEF Pass, heap, Running
<1> HIDE DEF f
<1>5. ASSUME NEW N, In(None, N) = 0
      PROVE  Tally(held', values', N) = Tally(held, values, N)
  <2>1. Rebound(held, f, h) /\ Rebound(f, held', r)
    BY <1>2, <1>3 DEF Rebound
  <2>2. Tally(f, values, N) = Tally(held, values, N) - In(held[h], N) + In(f[h], N)
    BY <2>1, TallyHandle
  <2>3. Tally(held', values, N) = Tally(f, values, N) - In(f[r], N) + In(held'[r], N)
    BY <2>1, TallyHandle
  <2> QED
    BY <1>3, <1>4, <1>5, <2>2, <2>3, TallyNat DEF In
<1>6. CountExact'
  <2>1. ASSUME NEW m \in Cell \cup Literal
        PROVE  references'[m] = Base(m) + Tally(held', values', {m})
    <3>1. Tally(held', values', {m}) = Tally(held, values, {m})
      BY <1>5, NoneIsNoNode DEF Node
    <3> QED
      BY <1>1, <1>4, <3>1, OwnersTally DEF CountExact
  <2>2. empty_owners' = Tally(held', values', EmptyRoot)
    BY <1>1, <1>4, <1>5, NoneIsNoNode, OwnersTally DEF CountExact
  <2> QED
    BY <2>1, <2>2, OwnersTally DEF CountExact, Base
<1>7. TypeOK'
  BY <1>1, <1>3, <1>4 DEF TypeOK
<1>8. NoDangling'
  BY <1>1, <1>2, <1>3, <1>4, NodeAssumption DEF NoDangling, Holding, Element, Node
<1>9. DestroyedOnce' /\ StaticsUntouched' /\ DeadIsEmpty' /\ NoCycles' /\ OneChild'
  BY <1>1, <1>4, SameShape DEF DestroyedOnce, StaticsUntouched, DeadIsEmpty
<1>10. FinishedIdle' /\ LeakCheckExact'
  BY <1>1, <1>4 DEF FinishedIdle, LeakCheckExact
<1> QED
  BY <1>6, <1>7, <1>8, <1>9, <1>10 DEF HeapInvariant
=============================================================================
