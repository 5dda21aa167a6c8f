----------------------- MODULE CountedHeapDestruction -----------------------
(***************************************************************************)
(* The drop loop, the leak check and construction keep HeapInvariant.      *)
(***************************************************************************)
EXTENDS CountedHeapSteps

\* The root whose loop runs is allocated and nothing owns it any more.
LEMMA InnermostUnowned ==
    ASSUME HeapInvariant, destroying # <<>>
    PROVE  /\ Innermost \in Cell /\ Innermost \in live /\ Innermost \in Node
           /\ references[Innermost] = 0
           /\ \A h \in Handle : held[h] # Innermost
           /\ \A d \in Cell : \A i \in DOMAIN values[d] : values[d][i] # Innermost
           /\ exit_status = None
<1>1. TypeOK /\ CountExact /\ NoDangling /\ DestroyedOnce /\ FinishedIdle
  BY DEF HeapInvariant
<1>2. destroying \in Seq(Cell)
  BY <1>1 DEF TypeOK
<1>3. Len(destroying) \in DOMAIN destroying
  BY <1>2
<1>4. Innermost \in Cell /\ Innermost \in live
  BY <1>1, <1>2, <1>3 DEF Innermost, NoDangling
<1>5. references[Innermost] = 0
  BY <1>1, <1>3, <1>4 DEF DestroyedOnce, Innermost
<1> QED
  BY <1>1, <1>4, <1>5, Uncounted DEF FinishedIdle, Node

\* The loops that go on when the innermost one ends.
LEMMA OuterLoops ==
    ASSUME TypeOK, DestroyedOnce, destroying # <<>>
    PROVE  /\ Outer \in Seq(Cell) /\ Distinct(Outer)
           /\ \A d : OnLoop(Outer, d) <=> OnLoop(destroying, d) /\ d # Innermost
<1>1. /\ Outer \in Seq(Cell)
      /\ DOMAIN Outer = 1..(Len(destroying) - 1)
      /\ DOMAIN destroying = 1..Len(destroying) /\ Len(destroying) \in Nat \ {0}
      /\ \A i \in DOMAIN Outer : Outer[i] = destroying[i]
      /\ destroying[Len(destroying)] = Innermost
  BY DEF TypeOK, Outer, Innermost
<1>2. Distinct(destroying)
  BY DEF DestroyedOnce, Distinct
<1>3. \A i \in DOMAIN Outer : i \in DOMAIN destroying /\ i # Len(destroying)
  BY <1>1
<1>4. \A i \in DOMAIN destroying : i # Len(destroying) => i \in DOMAIN Outer
  BY <1>1
<1>5. Len(destroying) \in DOMAIN destroying
  BY <1>1
<1> QED
  BY <1>1, <1>2, <1>3, <1>4, <1>5 DEF Distinct, OnLoop

\* One turn of a drop loop keeps the invariant.
LEMMA DestroySlotStep ==
    ASSUME HeapInvariant, NEW i, DestroySlot(i)
    PROVE  HeapInvariant'
<1> DEFINE c == Innermost
           n == values[c][i]
<1>1. /\ TypeOK /\ CountExact /\ NoDangling /\ DestroyedOnce /\ StaticsUntouched
      /\ NoCycles /\ DeadIsEmpty /\ OneChild /\ FinishedIdle /\ LeakCheckExact
  BY DEF HeapInvariant
<1>2. /\ c \in Cell /\ c \in live /\ c \in Node /\ references[c] = 0 /\ exit_status = None
      /\ \A d \in Cell : \A j \in DOMAIN values[d] : values[d][j] # c
  BY InnermostUnowned DEF DestroySlot
<1>3. i \in DOMAIN values[c] /\ n \in Node
  BY DEF DestroySlot, Undestroyed
<1>4. n # c /\ (n \in Cell => n \in live) /\ IsRoot(values[c])
  BY <1>1, <1>2, <1>3, RootTyped DEF NoDangling
<1>5. /\ held' = held /\ live' = live /\ exit_status' = exit_status
      /\ empty_owners' = empty_owners - In(n, EmptyRoot)
  BY DEF DestroySlot, IsEmptyRoot, In
<1>6. /\ values' \in [Node -> Seq(Slot)]
      /\ values'[c] = [values[c] EXCEPT ![i] = None]
      /\ DOMAIN values'[c] = DOMAIN values[c] /\ Len(values'[c]) = Len(values[c])
      /\ values'[c][i] = None /\ \A j \in DOMAIN values[c] : j # i => values'[c][j] = values[c][j]
      /\ \A d \in Node : d # c => values'[d] = values[d]
  <2>1. values \in [Node -> Seq(Slot)] /\ None \in Slot
    BY <1>1 DEF TypeOK, Slot
  <2>2. values' = [values EXCEPT ![c] = [values[c] EXCEPT ![i] = None]]
    BY <1>2, <2>1 DEF DestroySlot
  <2>3. values[c] \in Seq(Slot)
    BY <1>2, <2>1
  <2>4. [values[c] EXCEPT ![i] = None] \in Seq(Slot)
    BY <1>3, <2>1, <2>3
  <2>5. Len([values[c] EXCEPT ![i] = None]) = Len(values[c])
    BY <2>1, <2>3
  <2> QED
    BY <1>2, <1>3, <2>1, <2>2, <2>3, <2>4, <2>5
<1>7. Droppable(references, n)
  BY <1>1, <1>2, <1>3, OwnedDroppable
<1>8. Releases(destroying, references, n)
  BY DEF DestroySlot, Releases
<1>9. c \notin Literal /\ c \notin EmptyRoot
  BY <1>2, NodeAssumption
<1>10. In(n, {c}) = 0
  BY <1>4 DEF In
<1> HIDE DEF n, c
<1>11. destroying \in Seq(Cell) /\ Distinct(destroying) /\ live' \subseteq Cell
  BY <1>1, <1>5 DEF TypeOK, DestroyedOnce, Distinct
<1>12. \A d \in live' : references[d] = 0 <=> OnLoop(destroying, d)
  BY <1>1, <1>5 DEF DestroyedOnce, OnLoop
<1>13. n \in Cell => n \in live'
  BY <1>4, <1>5
<1>14. /\ ReleasedFrom(references', references, n)
       /\ destroying' \in Seq(Cell)
       /\ DestroyedOnce'
       /\ \A d : OnLoop(destroying', d) => OnLoop(destroying, d) \/ d = n
       /\ Destroys(references, n) => n \in Cell
  BY <1>7, <1>8, <1>11, <1>12, <1>13, ReleaseNext
<1>15. /\ references' \in [Node -> Nat]
       /\ \A m \in Cell \cup Literal : references'[m] = references[m] - In(n, {m})
       /\ \A e \in EmptyRoot : references'[e] = references[e]
  BY <1>14 DEF ReleasedFrom
<1>16. IsRoot(values'[c])
  BY <1>2, <1>4, <1>6 DEF IsRoot
<1>17. TypeOK'
  <2>1. \A m \in Node : Len(values'[m]) <= MaxLength
    BY <1>1, <1>6 DEF TypeOK
  <2>2. empty_owners' \in Int
    BY <1>1, <1>5 DEF TypeOK, In
  <2>3. held' \in [Handle -> Node \cup {None}] /\ exit_status' \in {None, "balanced", "leak"}
    BY <1>1, <1>5 DEF TypeOK
  <2> QED
    BY <1>6, <1>11, <1>14, <1>15, <2>1, <2>2, <2>3 DEF TypeOK
<1>18. ASSUME NEW N, In(None, N) = 0
       PROVE  Tally(held', values', N) = Tally(held, values, N) - In(n, N)
  <2>1. Rewritten(values, values', c)
    BY <1>2, <1>4, <1>6, <1>16 DEF Node, Rewritten
  <2>2. /\ Tally(held, values', N)
              = Tally(held, values, N) - Occurrences(values[c], N) + Occurrences(values'[c], N)
        /\ Occurrences(values[c], N) \in Nat
    BY <2>1, TallyRoot
  <2>3. Occurrences(values'[c], N) = Occurrences(values[c], N) - In(values[c][i], N) + In(None, N)
    <3>1. values[c] \in Seq(Slot) /\ i \in DOMAIN values[c]
      BY <1>3, <1>4 DEF IsRoot
    <3>2. Occurrences([values[c] EXCEPT ![i] = None], N)
             = Occurrences(values[c], N) - In(values[c][i], N) + In(None, N)
      BY <3>1, OccurrencesExcept
    <3> QED
      BY <1>6, <3>2
  <2> QED
    BY <1>5, <1>18, <2>2, <2>3, TallyNat DEF In, n
<1>19. CountExact'
  <2>1. ASSUME NEW m \in Cell \cup Literal
        PROVE  references'[m] = Base(m) + Tally(held', values', {m})
    <3>1. Tally(held', values', {m}) = Tally(held, values, {m}) - In(n, {m})
      BY <1>18, NoneIsNoNode DEF Node
    <3>2. references[m] = Base(m) + Tally(held, values, {m})
      BY <1>1, OwnersTally DEF CountExact
    <3> QED
      BY <1>15, <3>1, <3>2, TallyNat, BaseAssumption DEF Base, In
  <2>2. empty_owners' = Tally(held', values', EmptyRoot)
    BY <1>1, <1>5, <1>18, NoneIsNoNode, OwnersTally DEF CountExact
  <2> QED
    BY <2>1, <2>2, OwnersTally DEF CountExact, Base
<1>20. NoDangling'
  <2>1. \A j \in DOMAIN destroying' : destroying'[j] \in live'
    <3> TAKE j \in DOMAIN destroying'
    <3>1. destroying'[j] \in Cell
      BY <1>14
    <3>2. destroying'[j] = n \/ OnLoop(destroying, destroying'[j])
      BY <1>14 DEF OnLoop
    <3>3. OnLoop(destroying, destroying'[j]) => destroying'[j] \in live
      BY <1>1 DEF NoDangling, OnLoop
    <3> QED
      BY <1>5, <1>13, <3>1, <3>2, <3>3
  <2>2. ASSUME NEW d \in Cell, NEW j \in DOMAIN values'[d], values'[d][j] \in Cell
        PROVE  values'[d][j] \in live'
    <3>1. CASE d = c
      <4>1. j # i
        BY <1>6, <2>2, <3>1, NodeAssumption DEF Element, Node
      <4> QED
        BY <1>1, <1>2, <1>5, <1>6, <2>2, <3>1, <4>1 DEF NoDangling
    <3>2. CASE d # c
      BY <1>1, <1>5, <1>6, <2>2, <3>2 DEF NoDangling, Node
    <3> QED
      BY <3>1, <3>2
  <2> QED
    BY <1>1, <1>5, <2>1, <2>2 DEF NoDangling, Holding
<1>21. StaticsUntouched'
  BY <1>1, <1>6, <1>9, <1>15, <1>19, LiteralsNext DEF StaticsUntouched, Node
<1>22. DeadIsEmpty'
  <2>1. ASSUME NEW d \in Cell, d \notin live'
        PROVE  references'[d] = 0 /\ values'[d] = <<>>
    <3>1. d # c /\ In(n, {d}) = 0
      BY <1>2, <1>5, <1>13, <2>1 DEF In
    <3>2. references[d] = 0 /\ values[d] = <<>>
      BY <1>1, <1>5, <2>1 DEF DeadIsEmpty
    <3>3. references'[d] = references[d] - In(n, {d})
      BY <1>15
    <3>4. values'[d] = values[d]
      BY <1>6, <3>1 DEF Node
    <3> QED
      BY <3>1, <3>2, <3>3, <3>4
  <2> QED
    BY <2>1 DEF DeadIsEmpty
<1>23. NoCycles' /\ OneChild'
  <2>1. \A d \in Cell : d # c => values'[d] = values[d]
    BY <1>6 DEF Node
  <2>2. \A j \in DOMAIN values'[c] :
           j \in DOMAIN values[c] /\ values'[c][j] \in {values[c][j], None}
    BY <1>6
  <2> QED
    BY <1>1, <2>1, <2>2, ClearKeepsShape
<1>24. FinishedIdle' /\ LeakCheckExact'
  BY <1>2, <1>5 DEF FinishedIdle, LeakCheckExact
<1> QED
  BY <1>14, <1>17, <1>19, <1>20, <1>21, <1>22, <1>23, <1>24 DEF HeapInvariant

\* Giving a destroyed root's storage back keeps the invariant.
LEMMA ReleaseRootStep ==
    ASSUME HeapInvariant, ReleaseRoot
    PROVE  HeapInvariant'
<1> DEFINE c == Innermost
<1>1. /\ TypeOK /\ CountExact /\ NoDangling /\ DestroyedOnce /\ StaticsUntouched
      /\ NoCycles /\ DeadIsEmpty /\ OneChild /\ FinishedIdle /\ LeakCheckExact
  BY DEF HeapInvariant
<1>2. /\ c \in Cell /\ c \in live /\ c \in Node /\ references[c] = 0 /\ exit_status = None
      /\ \A h \in Handle : held[h] # c
      /\ \A d \in Cell : \A i \in DOMAIN values[d] : values[d][i] # c
  BY InnermostUnowned DEF ReleaseRoot
<1>3. /\ held' = held /\ references' = references /\ empty_owners' = empty_owners
      /\ exit_status' = exit_status /\ live' = live \ {c}
  BY DEF ReleaseRoot
<1>4. /\ values' \in [Node -> Seq(Slot)]
      /\ values'[c] = <<>> /\ \A d \in Node : d # c => values'[d] = values[d]
  BY <1>1, <1>2 DEF ReleaseRoot, TypeOK
<1>5. \A i \in DOMAIN values[c] : values[c][i] \notin Node
  BY DEF ReleaseRoot
<1>6. c \notin Literal /\ c \notin EmptyRoot
  BY <1>2, NodeAssumption
<1>7. /\ destroying' \in Seq(Cell) /\ Distinct(destroying')
      /\ \A d : OnLoop(destroying', d) <=> OnLoop(destroying, d) /\ d # c
  BY <1>1, OuterLoops DEF ReleaseRoot
<1> HIDE DEF c
<1>9. TypeOK'
  <2>1. \A m \in Node : Len(values'[m]) <= MaxLength
    BY <1>1, <1>4, SizeAssumption DEF TypeOK
  <2> QED
    BY <1>1, <1>3, <1>4, <1>7, <2>1 DEF TypeOK
<1>10. ASSUME NEW N, N \subseteq Node
       PROVE  Tally(held', values', N) = Tally(held, values, N)
  <2>1. IsRoot(values[c]) /\ IsRoot(values'[c])
    BY <1>1, <1>2, <1>4, <1>9, RootTyped, SizeAssumption DEF IsRoot
  <2>2. Rewritten(values, values', c)
    BY <1>2, <1>4, <2>1 DEF Node, Rewritten
  <2>3. Tally(held, values', N)
           = Tally(held, values, N) - Occurrences(values[c], N) + Occurrences(values'[c], N)
    BY <2>2, TallyRoot
  <2>4. Occurrences(values[c], N) = 0
    BY <1>5, <1>10, OccurrencesNone
  <2>5. Occurrences(values'[c], N) = 0
    BY <1>4, OccurrencesSmall
  <2> QED
    BY <1>3, <2>3, <2>4, <2>5, TallyNat
<1>11. CountExact'
  <2>1. ASSUME NEW m \in Cell \cup Literal
        PROVE  references'[m] = Base(m) + Tally(held', values', {m})
    <3>1. Tally(held', values', {m}) = Tally(held, values, {m})
      BY <1>10 DEF Node
    <3> QED
      BY <1>1, <1>3, <3>1, OwnersTally DEF CountExact
  <2>2. empty_owners' = Tally(held', values', EmptyRoot)
    <3>1. Tally(held', values', EmptyRoot) = Tally(held, values, EmptyRoot)
      BY <1>10 DEF Node
    <3> QED
      BY <1>1, <1>3, <3>1, OwnersTally DEF CountExact
  <2> QED
    BY <2>1, <2>2, OwnersTally DEF CountExact, Base
<1>12. NoDangling'
  <2>1. \A i \in DOMAIN destroying' : destroying'[i] \in live'
    <3> TAKE i \in DOMAIN destroying'
    <3>1. OnLoop(destroying, destroying'[i]) /\ destroying'[i] # c
      BY <1>7 DEF OnLoop
    <3> QED
      BY <1>1, <1>3, <3>1 DEF NoDangling, OnLoop
  <2>2. ASSUME NEW d \in Cell, NEW i \in DOMAIN values'[d], values'[d][i] \in Cell
        PROVE  values'[d][i] \in live'
    <3>1. d # c
      BY <1>4, <2>2
    <3>2. values'[d] = values[d]
      BY <1>4, <3>1 DEF Node
    <3> QED
      BY <1>1, <1>2, <1>3, <2>2, <3>2 DEF NoDangling
  <2> QED
    BY <1>1, <1>2, <1>3, <2>1, <2>2 DEF NoDangling, Holding
<1>13. DestroyedOnce'
  <2>1. ASSUME NEW d \in live'
        PROVE  references'[d] = 0 <=> OnLoop(destroying', d)
    BY <1>1, <1>3, <1>7, <2>1 DEF DestroyedOnce, OnLoop
  <2> QED
    BY <1>7, <2>1 DEF DestroyedOnce, OnLoop, Distinct
<1>14. StaticsUntouched'
  BY <1>1, <1>3, <1>4, <1>6 DEF StaticsUntouched, Node
<1>15. DeadIsEmpty'
  BY <1>1, <1>2, <1>3, <1>4 DEF DeadIsEmpty, Node
<1>16. NoCycles' /\ OneChild'
  <2>1. \A d \in Cell : d # c => values'[d] = values[d]
    BY <1>4 DEF Node
  <2>2. \A i \in DOMAIN values'[c] :
           i \in DOMAIN values[c] /\ values'[c][i] \in {values[c][i], None}
    BY <1>4
  <2> QED
    BY <1>1, <2>1, <2>2, ClearKeepsShape
<1>17. FinishedIdle' /\ LeakCheckExact'
  BY <1>2, <1>3 DEF FinishedIdle, LeakCheckExact
<1> QED
  BY <1>9, <1>11, <1>12, <1>13, <1>14, <1>15, <1>16, <1>17 DEF HeapInvariant

\* A root whose only slot for nodes of N is slot i.
LEMMA OccurrencesAlone ==
    ASSUME NEW s, NEW N, NEW i \in DOMAIN s, \A j \in DOMAIN s : j # i => s[j] \notin N
    PROVE  Occurrences(s, N) = In(s[i], N)
<1>1. {j \in DOMAIN s : s[j] \in N} = IF s[i] \in N THEN {i} ELSE {}
  OBVIOUS
<1> QED
  BY <1>1, FS_EmptySet, FS_Singleton DEF Occurrences, In

\* Giving a boxed union's root back and dropping its child keeps the invariant.
LEMMA ReleaseNodeStep ==
    ASSUME HeapInvariant, NEW i, ReleaseNode(i)
    PROVE  HeapInvariant'
<1> DEFINE c == Innermost
           n == values[c][i]
<1>1. /\ TypeOK /\ CountExact /\ NoDangling /\ DestroyedOnce /\ StaticsUntouched
      /\ NoCycles /\ DeadIsEmpty /\ OneChild /\ FinishedIdle /\ LeakCheckExact
  BY DEF HeapInvariant
<1>2. /\ c \in Cell /\ c \in live /\ c \in Node /\ references[c] = 0 /\ exit_status = None
      /\ \A h \in Handle : held[h] # c
      /\ \A d \in Cell : \A j \in DOMAIN values[d] : values[d][j] # c
  BY InnermostUnowned DEF ReleaseNode
<1>3. i \in DOMAIN values[c] /\ IsChild(c, n)
  BY DEF ReleaseNode
<1>4. n \in Node /\ n \in Cell /\ n \notin Literal /\ n \notin EmptyRoot
  BY <1>3, LayoutAssumption, NodeAssumption DEF IsChild, Node
<1>5. n \in live /\ n # c /\ IsRoot(values[c])
  BY <1>1, <1>2, <1>3, <1>4, RootTyped DEF NoDangling
<1>6. \A j \in DOMAIN values[c] : j # i => values[c][j] \notin Node
  <2>1. \A j \in DOMAIN values[c] : values[c][j] \in Node => IsChild(c, values[c][j])
    BY DEF ReleaseNode, Undestroyed
  <2> QED
    BY <1>1, <1>2, <1>3, <2>1 DEF OneChild
<1>7. /\ held' = held /\ empty_owners' = empty_owners /\ exit_status' = exit_status
      /\ live' = live \ {c} /\ Releases(Outer, references, n)
  BY DEF ReleaseNode, Releases
<1>8. /\ values' \in [Node -> Seq(Slot)]
      /\ values'[c] = <<>> /\ \A d \in Node : d # c => values'[d] = values[d]
  BY <1>1, <1>2 DEF ReleaseNode, TypeOK
<1>9. Droppable(references, n)
  BY <1>1, <1>2, <1>3, <1>4, OwnedDroppable
<1>10. /\ Outer \in Seq(Cell) /\ Distinct(Outer)
       /\ \A d : OnLoop(Outer, d) <=> OnLoop(destroying, d) /\ d # c
  BY <1>1, OuterLoops DEF ReleaseNode
<1>11. c \notin Literal /\ c \notin EmptyRoot
  BY <1>2, NodeAssumption
<1> HIDE DEF n, c
<1>12. /\ ReleasedFrom(references', references, n)
       /\ destroying' \in Seq(Cell)
       /\ DestroyedOnce'
       /\ \A d : OnLoop(destroying', d) => OnLoop(Outer, d) \/ d = n
  <2>1. live' \subseteq Cell /\ n \in live'
    BY <1>1, <1>5, <1>7 DEF TypeOK
  <2>2. \A d \in live' : references[d] = 0 <=> OnLoop(Outer, d)
    BY <1>1, <1>7, <1>10 DEF DestroyedOnce, OnLoop
  <2> QED
    BY <1>7, <1>9, <1>10, <2>1, <2>2, ReleaseNext
<1>13. /\ references' \in [Node -> Nat]
       /\ \A m \in Cell \cup Literal : references'[m] = references[m] - In(n, {m})
       /\ \A e \in EmptyRoot : references'[e] = references[e]
  BY <1>12 DEF ReleasedFrom
<1>14. TypeOK'
  <2>1. \A m \in Node : Len(values'[m]) <= MaxLength
    BY <1>1, <1>8, SizeAssumption DEF TypeOK
  <2> QED
    BY <1>1, <1>7, <1>8, <1>12, <1>13, <2>1 DEF TypeOK
<1>15. ASSUME NEW N, N \subseteq Node
       PROVE  Tally(held', values', N) = Tally(held, values, N) - In(n, N)
  <2>1. IsRoot(values'[c])
    BY <1>8, SizeAssumption DEF IsRoot
  <2>2. Rewritten(values, values', c)
    BY <1>2, <1>5, <1>8, <2>1 DEF Node, Rewritten
  <2>3. Tally(held, values', N)
           = Tally(held, values, N) - Occurrences(values[c], N) + Occurrences(values'[c], N)
    BY <2>2, TallyRoot
  <2>4. Occurrences(values[c], N) = In(n, N)
    <3>1. \A j \in DOMAIN values[c] : j # i => values[c][j] \notin N
      BY <1>6, <1>15
    <3>2. Occurrences(values[c], N) = In(values[c][i], N)
      BY <1>3, <3>1, OccurrencesAlone
    <3> QED
      BY <3>2 DEF n
  <2>5. Occurrences(values'[c], N) = 0
    BY <1>8, OccurrencesSmall
  <2> QED
    BY <1>7, <2>3, <2>4, <2>5, TallyNat DEF In
<1>16. CountExact'
  <2>1. ASSUME NEW m \in Cell \cup Literal
        PROVE  references'[m] = Base(m) + Tally(held', values', {m})
    <3>1. Tally(held', values', {m}) = Tally(held, values, {m}) - In(n, {m})
      BY <1>15 DEF Node
    <3>2. references[m] = Base(m) + Tally(held, values, {m})
      BY <1>1, OwnersTally DEF CountExact
    <3> QED
      BY <1>13, <3>1, <3>2, TallyNat, BaseAssumption DEF Base, In
  <2>2. empty_owners' = Tally(held', values', EmptyRoot)
    <3>1. Tally(held', values', EmptyRoot) = Tally(held, values, EmptyRoot) - In(n, EmptyRoot)
      BY <1>15 DEF Node
    <3>2. In(n, EmptyRoot) = 0
      BY <1>4 DEF In
    <3> QED
      BY <1>1, <1>7, <3>1, <3>2, TallyNat, OwnersTally DEF CountExact
  <2> QED
    BY <2>1, <2>2, OwnersTally DEF CountExact, Base
<1>17. NoDangling'
  <2>1. \A j \in DOMAIN destroying' : destroying'[j] \in live'
    <3> TAKE j \in DOMAIN destroying'
    <3>1. destroying'[j] = n \/ (OnLoop(destroying, destroying'[j]) /\ destroying'[j] # c)
      BY <1>10, <1>12 DEF OnLoop
    <3> QED
      BY <1>1, <1>5, <1>7, <3>1 DEF NoDangling, OnLoop
  <2>2. ASSUME NEW d \in Cell, NEW j \in DOMAIN values'[d], values'[d][j] \in Cell
        PROVE  values'[d][j] \in live'
    <3>1. d # c
      BY <1>8, <2>2
    <3>2. values'[d] = values[d]
      BY <1>8, <3>1 DEF Node
    <3> QED
      BY <1>1, <1>2, <1>7, <2>2, <3>2 DEF NoDangling
  <2> QED
    BY <1>1, <1>2, <1>7, <2>1, <2>2 DEF NoDangling, Holding
<1>18. StaticsUntouched'
  BY <1>1, <1>8, <1>11, <1>13, <1>16, LiteralsNext DEF StaticsUntouched, Node
<1>19. DeadIsEmpty'
  <2>1. ASSUME NEW d \in Cell, d \notin live'
        PROVE  references'[d] = 0 /\ values'[d] = <<>>
    <3>1. In(n, {d}) = 0
      BY <1>5, <1>7, <2>1 DEF In
    <3>2. references[d] = 0
      BY <1>1, <1>2, <1>7, <2>1 DEF DeadIsEmpty
    <3>3. values'[d] = <<>>
      BY <1>1, <1>7, <1>8, <2>1 DEF DeadIsEmpty, Node
    <3> QED
      BY <1>13, <3>1, <3>2, <3>3
  <2> QED
    BY <2>1 DEF DeadIsEmpty
<1>20. NoCycles' /\ OneChild'
  <2>1. \A d \in Cell : d # c => values'[d] = values[d]
    BY <1>8 DEF Node
  <2>2. \A j \in DOMAIN values'[c] :
           j \in DOMAIN values[c] /\ values'[c][j] \in {values[c][j], None}
    BY <1>8
  <2> QED
    BY <1>1, <2>1, <2>2, ClearKeepsShape
<1>21. FinishedIdle' /\ LeakCheckExact'
  BY <1>2, <1>7 DEF FinishedIdle, LeakCheckExact
<1> QED
  BY <1>12, <1>14, <1>16, <1>17, <1>18, <1>19, <1>20, <1>21 DEF HeapInvariant

-----------------------------------------------------------------------------
(* The leak check.                                                         *)

\* An obligation for a node of N, or a slot that stores one, is in its tally;
\* with neither the tally is zero.
LEMMA TallyOfSet ==
    ASSUME NEW f, NEW v, NEW N
    PROVE  /\ (\E h \in Handle : f[h] \in N) => Tally(f, v, N) # 0
           /\ /\ \A h \in Handle : f[h] \notin N
              /\ \A c \in Cell : v[c] = <<>>
              => Tally(f, v, N) = 0
<1>1. ASSUME NEW h \in Handle, f[h] \in N
      PROVE  Tally(f, v, N) # 0
  <2>1. Holders(f, N) # {}
    BY <1>1 DEF Holders
  <2>2. Cardinality(Holders(f, N)) # 0
    BY <2>1, HoldersNat, FS_EmptySet
  <2> QED
    BY <2>2, TallyNat DEF Tally
<1>2. ASSUME \A h \in Handle : f[h] \notin N, \A c \in Cell : v[c] = <<>>
      PROVE  Tally(f, v, N) = 0
  <2>1. Holders(f, N) = {}
    BY <1>2 DEF Holders
  <2>2. Slots(v, N) = {}
    <3>1. \A c \in Cell : DOMAIN v[c] = {}
      BY <1>2
    <3> QED
      BY <3>1 DEF Slots
  <2> QED
    BY <2>1, <2>2, FS_EmptySet DEF Tally
<1> QED
  BY <1>1, <1>2

\* With no obligation left and no drop loop running, no storage is left: the
\* root that no other stores would have an owner.
LEMMA NothingHeldNothingLive ==
    ASSUME HeapInvariant, Running, Holding = {}
    PROVE  live = {}
<1>1. TypeOK /\ CountExact /\ DestroyedOnce /\ DeadIsEmpty /\ NoCycles
  BY DEF HeapInvariant
<1>2. live \in SUBSET Cell
  BY <1>1 DEF TypeOK
<1> SUFFICES ASSUME live # {}
             PROVE  FALSE
  OBVIOUS
<1>3. PICK c \in live : \A d \in live : \A i \in DOMAIN values[d] : values[d][i] # c
  BY <1>1, <1>2 DEF NoCycles
<1>4. c \in Cell /\ c \in Node /\ references[c] # 0
  BY <1>1, <1>2 DEF DestroyedOnce, Running, Node
<1>5. Base(c) = 0
  BY <1>4, NodeAssumption DEF Base
<1>6. Tally(held, values, {c}) # 0
  BY <1>1, <1>4, <1>5, OwnersTally, TallyNat DEF CountExact
<1>7. Holders(held, {c}) = {}
  <2>1. \A h \in Handle : held[h] = None
    BY DEF Holding
  <2> QED
    BY <1>4, <2>1, NodeAssumption DEF Holders, Element
<1>8. Slots(values, {c}) # {}
  BY <1>6, <1>7, FS_EmptySet DEF Tally
<1>9. PICK d \in Cell, i \in Index : i \in DOMAIN values[d] /\ values[d][i] = c
  BY <1>8 DEF Slots
<1>10. d \in live
  BY <1>1, <1>9 DEF DeadIsEmpty
<1> QED
  BY <1>3, <1>9, <1>10

\* What the strict leak check tests holds exactly when no obligation is left.
LEMMA BalancedIffDischarged ==
    ASSUME HeapInvariant, Running
    PROVE  (/\ \A l \in Literal : references[l] = LiteralBase
            /\ empty_owners = 0
            /\ live = {})
           <=> Holding = {}
<1>1. TypeOK /\ CountExact /\ NoDangling /\ DeadIsEmpty
  BY DEF HeapInvariant
<1>2. ASSUME Holding = {}
      PROVE  /\ \A l \in Literal : references[l] = LiteralBase
             /\ empty_owners = 0
             /\ live = {}
  <2>1. live = {}
    BY <1>2, NothingHeldNothingLive
  <2>2. \A c \in Cell : values[c] = <<>>
    BY <1>1, <2>1 DEF DeadIsEmpty
  <2>3. \A h \in Handle : held[h] \notin Node
    BY <1>2, NodeAssumption DEF Holding, Element
  <2>4. \A N : N \subseteq Node => Tally(held, values, N) = 0
    <3> TAKE N
    <3> HAVE N \subseteq Node
    <3>1. \A h \in Handle : held[h] \notin N
      BY <2>3
    <3> QED
      BY <2>2, <3>1, TallyOfSet
  <2>5. empty_owners = 0
    <3>1. Tally(held, values, EmptyRoot) = 0
      BY <2>4 DEF Node
    <3> QED
      BY <1>1, <3>1, OwnersTally DEF CountExact
  <2>6. ASSUME NEW l \in Literal
        PROVE  references[l] = LiteralBase
    <3>1. Tally(held, values, {l}) = 0
      BY <2>4 DEF Node
    <3>2. references[l] = Base(l) + Tally(held, values, {l})
      BY <1>1, OwnersTally DEF CountExact
    <3> QED
      BY <3>1, <3>2, BaseAssumption DEF Base
  <2> QED
    BY <2>1, <2>5, <2>6
<1>3. ASSUME \A l \in Literal : references[l] = LiteralBase, empty_owners = 0, live = {}
      PROVE  Holding = {}
  <2> SUFFICES ASSUME NEW h \in Holding
               PROVE  FALSE
    OBVIOUS
  <2>1. h \in Handle /\ held[h] \in Node
    BY <1>1 DEF Holding, TypeOK
  <2>2. held[h] \notin Cell
    BY <1>1, <1>3 DEF NoDangling
  <2>3. held[h] \notin Literal
    BY <1>1, <1>3, <2>1, HeldCounted, BaseAssumption DEF Base
  <2>4. held[h] \notin EmptyRoot
    <3>1. Tally(held, values, EmptyRoot) = 0
      BY <1>1, <1>3, OwnersTally DEF CountExact
    <3> QED
      BY <2>1, <3>1, TallyOfSet
  <2> QED
    BY <2>1, <2>2, <2>3, <2>4 DEF Node
<1> QED
  BY <1>2, <1>3

\* The end of the program keeps the invariant.
LEMMA FinishStep ==
    ASSUME HeapInvariant, ProgramFinish
    PROVE  HeapInvariant'
<1>1. /\ TypeOK /\ CountExact /\ NoDangling /\ DestroyedOnce /\ StaticsUntouched
      /\ NoCycles /\ DeadIsEmpty /\ OneChild
  BY DEF HeapInvariant
<1>2. /\ references' = references /\ values' = values /\ live' = live /\ held' = held
      /\ destroying' = destroying /\ empty_owners' = empty_owners
      /\ destroying = <<>>
  BY DEF ProgramFinish, heap, Running
<1>3. exit_status' = IF Holding = {} THEN "balanced" ELSE "leak"
  BY BalancedIffDischarged DEF ProgramFinish
<1>4. CountExact'
  BY <1>1, <1>2 DEF CountExact, Owners, HandlesOf, SlotsOf
<1>5. TypeOK'
  BY <1>1, <1>2, <1>3 DEF TypeOK
<1>6. /\ NoDangling' /\ DestroyedOnce' /\ StaticsUntouched' /\ DeadIsEmpty'
      /\ NoCycles' /\ OneChild'
  BY <1>1, <1>2, SameShape DEF NoDangling, Holding, DestroyedOnce, StaticsUntouched, DeadIsEmpty
<1>7. FinishedIdle' /\ LeakCheckExact'
  BY <1>2, <1>3 DEF FinishedIdle, LeakCheckExact, Holding
<1> QED
  BY <1>4, <1>5, <1>6, <1>7 DEF HeapInvariant

-----------------------------------------------------------------------------
(* Construction, which moves obligations into slots.                       *)

\* The obligations a construction takes are those its slots are for.
LEMMA TallyTaken ==
    ASSUME TypeOK, NEW N, In(None, N) = 0, NEW hs \in Seq(Handle),
           \A i, j \in DOMAIN hs : hs[i] = hs[j] => i = j
    PROVE  Tally(Taken(held, hs), values, N) = Tally(held, values, N) - Occurrences(Payloads(held, hs), N)
<1>1. held \in [Handle -> Node \cup {None}] /\ None \notin N
  BY DEF TypeOK, In
<1>2. Cardinality(Holders(Taken(held, hs), N))
         = Cardinality(Holders(held, N)) - Occurrences(Payloads(held, hs), N)
  BY <1>1, HoldersTaken
<1>3. Payloads(held, hs) \in Seq(Node \cup {None})
  BY <1>1 DEF Payloads
<1>4. Occurrences(Payloads(held, hs), N) \in Nat
  BY <1>3, OccurrencesNat
<1> QED
  BY <1>2, <1>4, TallyNat DEF Tally

\* Construction keeps the invariant.
LEMMA ConstructStep ==
    ASSUME HeapInvariant, NEW r, NEW c \in Cell, NEW hs \in Seq(Handle), Construct(r, c, hs)
    PROVE  HeapInvariant'
<1> DEFINE s == Payloads(held, hs)
           g == Taken(held, hs)
<1>1. /\ TypeOK /\ CountExact /\ NoDangling /\ DestroyedOnce /\ StaticsUntouched
      /\ NoCycles /\ DeadIsEmpty /\ OneChild /\ FinishedIdle /\ LeakCheckExact
  BY DEF HeapInvariant
<1>2. /\ c \notin live /\ c \in Node /\ c \notin Literal /\ c \notin EmptyRoot
      /\ references[c] = 0 /\ values[c] = <<>>
  BY <1>1, NodeAssumption DEF Construct, DeadIsEmpty, Node
<1>3. /\ references' \in [Node -> Nat]
      /\ references'[c] = 1 /\ \A m \in Node : m # c => references'[m] = references[m]
  BY <1>1, <1>2 DEF Construct, TypeOK
<1>4. /\ destroying = <<>> /\ exit_status = None
      /\ destroying' = destroying /\ exit_status' = exit_status
      /\ live' = live \cup {c} /\ empty_owners' = empty_owners
  BY DEF Construct, Running
<1>5. /\ r \in Handle /\ held[r] = None /\ g[r] = None
      /\ held' \in [Handle -> Node \cup {None}]
      /\ held'[r] = c /\ \A k \in Handle : k # r => held'[k] = g[k]
  BY <1>1, <1>2 DEF Construct, Spare, TypeOK, Taken
<1>6. \A k \in Handle : g[k] = None \/ g[k] = held[k]
  BY DEF Taken
<1>7. DOMAIN hs = 1..Len(hs) /\ Len(hs) \in Nat /\ \A i \in DOMAIN hs : hs[i] \in Handle
  OBVIOUS
<1>8. \A i, j \in DOMAIN hs : hs[i] = hs[j] => i = j
  BY DEF Construct
<1>9. /\ s \in Seq(Slot) /\ Len(s) <= MaxLength /\ DOMAIN s = DOMAIN hs
      /\ \A i \in DOMAIN s : s[i] = held[hs[i]]
  <2>1. \A i \in DOMAIN hs : held[hs[i]] \in Slot
    BY DEF Construct, Slot, Element
  <2> QED
    BY <1>7, <2>1 DEF Construct, Payloads
<1>10. \A i \in DOMAIN s : s[i] \in Cell => s[i] \in live
  <2> TAKE i \in DOMAIN s
  <2>1. held[hs[i]] \in Node /\ hs[i] \in Handle
    BY <1>7, <1>9 DEF Construct
  <2>2. held[hs[i]] # None
    BY <2>1, NodeAssumption DEF Element
  <2> QED
    BY <1>1, <1>9, <2>1, <2>2 DEF NoDangling, Holding
<1>11. GoodSlots(c, s)
  <2>1. \A i, j \in DOMAIN s : IsChild(c, s[i]) /\ IsChild(c, s[j]) => i = j
    BY <1>9 DEF Construct
  <2> QED
    BY <1>9, <1>10, <2>1 DEF GoodSlots, IsRoot
<1>12. /\ values' \in [Node -> Seq(Slot)]
       /\ values'[c] = s /\ \A d \in Node : d # c => values'[d] = values[d]
  BY <1>1, <1>2, <1>9 DEF Construct, TypeOK, Payloads
<1> HIDE DEF g, s
<1>13. TypeOK'
  <2>1. \A n \in Node : Len(values'[n]) <= MaxLength
    BY <1>1, <1>9, <1>12 DEF TypeOK
  <2>2. live' \subseteq Cell /\ destroying' \in Seq(Cell) /\ exit_status' \in {None, "balanced", "leak"}
    BY <1>1, <1>4 DEF TypeOK
  <2>3. empty_owners' \in Int
    BY <1>1, <1>4 DEF TypeOK
  <2> QED
    BY <1>3, <1>5, <1>12, <2>1, <2>2, <2>3 DEF TypeOK
<1>14. ASSUME NEW N, In(None, N) = 0
       PROVE  Tally(held', values', N) = Tally(held, values, N) + In(c, N)
  <2>1. Rebound(g, held', r)
    BY <1>5 DEF Rebound
  <2>2. Rewritten(values, values', c)
    BY <1>1, <1>2, <1>11, <1>12, RootTyped DEF GoodSlots, Node, Rewritten
  <2>3. Tally(g, values, N) = Tally(held, values, N) - Occurrences(s, N)
    BY <1>1, <1>8, <1>14, TallyTaken DEF g, s
  <2>4. Tally(held', values, N) = Tally(g, values, N) - In(g[r], N) + In(held'[r], N)
    BY <2>1, TallyHandle
  <2>5. /\ Tally(held', values', N)
              = Tally(held', values, N) - Occurrences(values[c], N) + Occurrences(values'[c], N)
        /\ Occurrences(values'[c], N) \in Nat
    BY <2>2, TallyRoot
  <2>6. Occurrences(values[c], N) = 0
    BY <1>2, OccurrencesSmall
  <2> QED
    BY <1>5, <1>12, <1>14, <2>3, <2>4, <2>5, <2>6, TallyNat DEF In
<1>15. CountExact'
  <2>1. ASSUME NEW m \in Cell \cup Literal
        PROVE  references'[m] = Base(m) + Tally(held', values', {m})
    <3>1. Tally(held', values', {m}) = Tally(held, values, {m}) + In(c, {m})
      BY <1>14, NoneIsNoNode DEF Node
    <3>2. references[m] = Base(m) + Tally(held, values, {m})
      BY <1>1, OwnersTally DEF CountExact
    <3>3. CASE m = c
      <4>1. Base(c) = 0
        BY <1>2 DEF Base
      <4> QED
        BY <1>2, <1>3, <3>1, <3>2, <3>3, <4>1, TallyNat DEF In
    <3>4. CASE m # c
      BY <1>3, <3>1, <3>2, <3>4, TallyNat, BaseAssumption DEF Base, In, Node
    <3> QED
      BY <3>3, <3>4
  <2>2. empty_owners' = Tally(held', values', EmptyRoot)
    <3>1. Tally(held', values', EmptyRoot) = Tally(held, values, EmptyRoot) + In(c, EmptyRoot)
      BY <1>14, NoneIsNoNode
    <3>2. In(c, EmptyRoot) = 0
      BY <1>2 DEF In
    <3>3. empty_owners = Tally(held, values, EmptyRoot)
      BY <1>1, OwnersTally DEF CountExact
    <3> QED
      BY <1>4, <3>1, <3>2, <3>3, TallyNat
  <2> QED
    BY <2>1, <2>2, OwnersTally DEF CountExact, Base
<1>16. NoDangling'
  <2>1. \A k \in Handle : held'[k] \in Cell => held'[k] \in live'
    BY <1>1, <1>4, <1>5, <1>6, NodeAssumption DEF NoDangling, Holding, Element, Node
  <2>2. \A d \in Cell : \A i \in DOMAIN values'[d] : values'[d][i] \in Cell => values'[d][i] \in live'
    BY <1>1, <1>4, <1>10, <1>12 DEF NoDangling, Node
  <2> QED
    BY <1>4, <2>1, <2>2 DEF NoDangling, Holding
<1>17. DestroyedOnce'
  <2>1. \A d \in live' : references'[d] # 0
    BY <1>1, <1>3, <1>4 DEF DestroyedOnce, TypeOK, Node
  <2> QED
    BY <1>4, <2>1, IdleNext
<1>18. StaticsUntouched'
  BY <1>1, <1>2, <1>3, <1>12 DEF StaticsUntouched, Node
<1>19. DeadIsEmpty'
  BY <1>1, <1>3, <1>4, <1>12 DEF DeadIsEmpty, Node
<1>20. NoCycles' /\ OneChild'
  BY <1>1, <1>2, <1>11, <1>12, FreshKeepsShape
<1>21. FinishedIdle' /\ LeakCheckExact'
  BY <1>1, <1>4 DEF FinishedIdle, LeakCheckExact
<1> QED
  BY <1>13, <1>15, <1>16, <1>17, <1>18, <1>19, <1>20, <1>21 DEF HeapInvariant
=============================================================================
