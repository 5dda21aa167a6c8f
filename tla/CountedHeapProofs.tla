------------------------- MODULE CountedHeapProofs --------------------------
(***************************************************************************)
(* HeapInvariant is an inductive invariant of the counted heap, for every  *)
(* set of cells, literals, layouts and handles, every bound on the length  *)
(* of roots and every base of the literals.                                *)
(***************************************************************************)
EXTENDS CountedHeapUpdates, CountedHeapDestruction

\* The initial heap satisfies the invariant.
LEMMA HeapInit == Init => HeapInvariant
<1> SUFFICES ASSUME Init
             PROVE  HeapInvariant
  OBVIOUS
<1>1. /\ references \in [Node -> Nat]
      /\ \A n \in Node : references[n] = IF n \in Literal THEN LiteralBase ELSE 0
  BY BaseAssumption DEF Init
<1>2. /\ values \in [Node -> Seq(Slot)]
      /\ \A n \in Node : values[n] = IF n \in Literal THEN LiteralText[n] ELSE <<>>
  <2>1. \A l \in Literal : LiteralText[l] \in Seq(Slot)
    BY SizeAssumption DEF Slot, Element
  <2> QED
    BY <2>1 DEF Init
<1>3. \A h \in Handle : held[h] = None /\ held[h] \notin Node
  BY NodeAssumption DEF Init, Element
<1>4. live = {} /\ destroying = <<>> /\ empty_owners = 0 /\ exit_status = None
  BY DEF Init
<1>5. /\ \A c \in Cell : c \in Node /\ c \notin Literal /\ c \notin EmptyRoot
      /\ \A l \in Literal : l \in Node
      /\ \A e \in EmptyRoot : e \in Node /\ e \notin Literal
  BY NodeAssumption DEF Node
<1>6. \A c \in Cell : references[c] = 0 /\ values[c] = <<>>
  BY <1>1, <1>2, <1>5
<1>7. TypeOK
  <2>1. \A n \in Node : Len(values[n]) <= MaxLength
    BY <1>2, SizeAssumption
  <2>2. held \in [Handle -> Node \cup {None}]
    BY DEF Init
  <2> QED
    BY <1>1, <1>2, <1>4, <2>1, <2>2 DEF TypeOK
<1>8. CountExact
  <2>1. \A N : N \subseteq Node => Tally(held, values, N) = 0
    <3> TAKE N
    <3> HAVE N \subseteq Node
    <3>1. \A h \in Handle : held[h] \notin N
      BY <1>3
    <3> QED
      BY <1>6, <3>1, TallyOfSet
  <2>2. ASSUME NEW m \in Cell \cup Literal
        PROVE  references[m] = Base(m) + Tally(held, values, {m})
    <3>1. Tally(held, values, {m}) = 0
      BY <2>1 DEF Node
    <3> QED
      BY <1>1, <1>5, <3>1, BaseAssumption DEF Base
  <2>3. empty_owners = Tally(held, values, EmptyRoot)
    BY <1>4, <2>1 DEF Node
  <2> QED
    BY <2>2, <2>3, OwnersTally DEF CountExact
<1>9. NoDangling /\ DestroyedOnce
  BY <1>3, <1>4, <1>6 DEF NoDangling, DestroyedOnce, Holding
<1>10. StaticsUntouched
  BY <1>1, <1>2, <1>5, BaseAssumption DEF StaticsUntouched
<1>11. DeadIsEmpty /\ OneChild /\ FinishedIdle /\ LeakCheckExact
  BY <1>4, <1>6 DEF DeadIsEmpty, OneChild, FinishedIdle, LeakCheckExact
<1>12. NoCycles
  BY <1>6 DEF NoCycles
<1> QED
  BY <1>7, <1>8, <1>9, <1>10, <1>11, <1>12 DEF HeapInvariant

\* What a slot may be.
GoodSlot(e) == e \in Slot /\ (e \in Cell => e \in live)

\* A sequence of good slots that fits is a good String or List.
LEMMA GoodSlotsOf ==
    ASSUME NEW c, Layout[c] \in Updatable, NEW s, s \in Seq(Slot), Len(s) <= MaxLength,
           \A i \in DOMAIN s : GoodSlot(s[i])
    PROVE  GoodSlots(c, s)
BY LayoutAssumption DEF GoodSlot, GoodSlots, IsRoot, IsChild

\* A static root stores no node.
LEMMA StaticStoresNoNode ==
    ASSUME StaticsUntouched, NEW x \in Literal \cup EmptyRoot, NEW i \in DOMAIN values[x]
    PROVE  values[x][i] \notin Node
<1>1. CASE x \in Literal
  <2>1. values[x] = LiteralText[x] /\ LiteralText[x] \in Seq(Atom)
    BY <1>1, SizeAssumption DEF StaticsUntouched
  <2>2. values[x][i] \in Atom
    BY <2>1
  <2> QED
    BY <2>2, NodeAssumption
<1>2. CASE x \in EmptyRoot
  BY <1>2 DEF StaticsUntouched
<1> QED
  BY <1>1, <1>2

\* The slots of a root are good.
LEMMA GoodRoot ==
    ASSUME HeapInvariant, NEW x \in Node
    PROVE  values[x] \in Seq(Slot) /\ \A i \in DOMAIN values[x] : GoodSlot(values[x][i])
<1>1. TypeOK /\ NoDangling /\ StaticsUntouched
  BY DEF HeapInvariant
<1>2. values[x] \in Seq(Slot) /\ \A i \in DOMAIN values[x] : values[x][i] \in Slot
  BY <1>1 DEF TypeOK
<1>3. ASSUME NEW i \in DOMAIN values[x]
      PROVE  GoodSlot(values[x][i])
  <2>1. CASE x \in Cell
    BY <1>1, <1>2, <2>1 DEF GoodSlot, NoDangling
  <2>2. CASE x \in Literal \cup EmptyRoot
    BY <1>1, <1>2, <2>2, StaticStoresNoNode DEF GoodSlot, Node
  <2> QED
    BY <2>1, <2>2 DEF Node
<1> QED
  BY <1>2, <1>3

\* A borrowed node is a node; one of its address is not free.
LEMMA BackedNode ==
    ASSUME HeapInvariant, NEW H, NEW n \in Backed(H)
    PROVE  n \in Node /\ (n \in Cell => n \in live)
BY BackedOwner DEF HeapInvariant

\* What may be stored is good, and a node among it is backed.
LEMMA StorableGood ==
    ASSUME HeapInvariant, NEW layout, NEW H, NEW e \in Storable(layout, H)
    PROVE  GoodSlot(e) /\ e \in Element /\ (e \in Node => e \in Backed(H))
<1>1. CASE Stores[layout] = {}
  BY <1>1, NodeAssumption DEF Storable, GoodSlot, Slot, Element, Node
<1>2. CASE Stores[layout] # {}
  <2>1. e \in Backed(H)
    BY <1>2 DEF Storable
  <2>2. e \in Node /\ (e \in Cell => e \in live)
    BY <2>1, BackedNode
  <2> QED
    BY <2>1, <2>2 DEF GoodSlot, Slot, Element
<1> QED
  BY <1>1, <1>2

\* Literals, `[]`, dup and get bind a handle.
LEMMA GainCalls ==
    ASSUME HeapInvariant, NEW r
    PROVE  /\ \A l \in Literal : StringLiteral(r, l) => HeapInvariant'
           /\ \A e \in EmptyRoot : EmptyList(r, e) => HeapInvariant'
           /\ \A n \in Backed({}) : Dup(r, n) => HeapInvariant'
           /\ \A x \in Operands({}), i \in Index : ListGet(r, x, i) => HeapInvariant'
<1>1. references \in [Node -> Nat]
  BY DEF HeapInvariant, TypeOK
<1>2. \A n : IsEmptyRoot(n) = In(n, EmptyRoot)
  BY DEF IsEmptyRoot, In
<1>3. \A n, m : Occurrences(<<n>>, {m}) = In(n, {m})
  BY OccurrencesSmall
<1>4. /\ \A l \in Literal : l \in Node /\ l \notin Cell /\ l \notin EmptyRoot
      /\ \A e \in EmptyRoot : e \in Node /\ e \notin Cell
  BY NodeAssumption DEF Node
<1>5. ASSUME NEW l \in Literal, StringLiteral(r, l)
      PROVE  HeapInvariant'
  <2>1. \A m \in Node : In(l, {m}) = IF m = l THEN 1 ELSE 0
    BY DEF In
  <2>2. [references EXCEPT ![l] = @ + 1] = Acquired(<<l>>)
    <3>1. \A m \in Node : (IF m \in EmptyRoot THEN references[m]
                           ELSE references[m] + Occurrences(<<l>>, {m}))
                             = IF m = l THEN references[l] + 1 ELSE references[m]
      <4> TAKE m \in Node
      <4>1. Occurrences(<<l>>, {m}) = IF m = l THEN 1 ELSE 0
        BY <1>3, <2>1
      <4>2. references[m] \in Nat
        BY <1>1
      <4> QED
        BY <1>4, <4>1, <4>2
    <3>2. Acquired(<<l>>) = [m \in Node |-> IF m = l THEN references[l] + 1 ELSE references[m]]
      BY <3>1 DEF Acquired
    <3> QED
      BY <1>1, <1>4, <3>2
  <2>3. In(l, EmptyRoot) = 0
    BY <1>4 DEF In
  <2>4. empty_owners' = empty_owners + In(l, EmptyRoot)
    BY <1>5, <2>3 DEF StringLiteral, HeapInvariant, TypeOK
  <2>5. Gain(r, l)
    BY <1>5, <2>2, <2>4 DEF StringLiteral, Gain
  <2> QED
    BY <1>4, <2>5, GainStep
<1>6. ASSUME NEW e \in EmptyRoot, EmptyList(r, e)
      PROVE  HeapInvariant'
  <2>1. \A m \in Node : m \notin EmptyRoot => In(e, {m}) = 0
    BY DEF In
  <2>2. references = Acquired(<<e>>)
    BY <1>1, <1>3, <2>1 DEF Acquired
  <2>3. Gain(r, e)
    BY <1>6, <2>2 DEF EmptyList, Gain, In
  <2> QED
    BY <1>4, <2>3, GainStep
<1>7. ASSUME NEW n \in Backed({}), Dup(r, n)
      PROVE  HeapInvariant'
  <2>1. Gain(r, n)
    BY <1>2, <1>7 DEF Dup, Gain
  <2> QED
    BY <2>1, GainStep, BackedNode
<1>8. ASSUME NEW x \in Operands({}), NEW i \in Index, ListGet(r, x, i)
      PROVE  HeapInvariant'
  <2>1. x \in Node /\ i \in DOMAIN values[x] /\ values[x][i] \in Node
    BY <1>8, BackedNode DEF ListGet, Operands
  <2>2. Gain(r, values[x][i])
    BY <1>2, <1>8 DEF ListGet, Gain
  <2>3. values[x][i] \in Cell => values[x][i] \in live
    BY <2>1, GoodRoot DEF GoodSlot
  <2> QED
    BY <2>1, <2>2, <2>3, GainStep
<1> QED
  BY <1>5, <1>6, <1>7, <1>8

\* The calls that build a root keep the invariant.
LEMMA MakeCalls ==
    ASSUME HeapInvariant, NEW r, Make(r)
    PROVE  HeapInvariant'
<1>1. ASSUME NEW c \in Cell \ live, NEW k \in Index, NEW text \in [1..k -> Atom],
             Layout[c] \in Updatable, StringFromBytes(r, c, text)
      PROVE  HeapInvariant'
  <2>1. text \in Seq(Slot) /\ DOMAIN text = 1..k /\ \A i \in 1..k : text[i] \in Atom
    <3>1. k \in Nat
      BY DEF Index
    <3> QED
      BY <3>1 DEF Slot, Element
  <2>2. \A i \in DOMAIN text : GoodSlot(text[i])
    BY <2>1, NodeAssumption DEF GoodSlot, Slot, Element, Node
  <2>3. CopyInto(r, c, text) /\ Running /\ Len(text) <= MaxLength
    BY <1>1 DEF StringFromBytes, CopyInto
  <2>4. GoodSlots(c, text)
    BY <1>1, <2>1, <2>2, <2>3, GoodSlotsOf
  <2> QED
    BY <2>3, <2>4, CopyIntoStep
<1>2. ASSUME NEW c \in Cell \ live, NEW k \in Index, NEW hs \in [1..k -> Holding],
             Construct(r, c, hs)
      PROVE  HeapInvariant'
  <2>1. hs \in Seq(Handle)
    <3>1. k \in Nat /\ Holding \subseteq Handle
      BY DEF Index, Holding
    <3> QED
      BY <3>1
  <2> QED
    BY <1>2, <2>1, ConstructStep
<1>3. ASSUME NEW c \in Cell \ live, NEW count \in 0..MaxLength, Layout[c] \in Updatable,
             NEW e \in Storable(Layout[c], {}), ListRepeat(r, c, e, count)
      PROVE  HeapInvariant'
  <2> DEFINE s == [i \in 1..count |-> e]
  <2>1. GoodSlot(e)
    BY StorableGood
  <2>2. s \in Seq(Slot) /\ \A i \in DOMAIN s : s[i] = e
    <3>1. count \in Nat /\ e \in Slot
      BY <2>1, SizeAssumption DEF GoodSlot
    <3> QED
      BY <3>1
  <2>3. CopyInto(r, c, s) /\ Running /\ Len(s) <= MaxLength
    BY <1>3 DEF ListRepeat, CopyInto
  <2> HIDE DEF s
  <2>4. GoodSlots(c, s)
    BY <1>3, <2>1, <2>2, <2>3, GoodSlotsOf
  <2> QED
    BY <2>3, <2>4, CopyIntoStep
<1> QED
  BY <1>1, <1>2, <1>3, GainCalls DEF Make

\* The borrowed updates keep the invariant.
LEMMA UpdateCalls ==
    ASSUME HeapInvariant, NEW r, Update(r)
    PROVE  HeapInvariant'
<1>0. PICK x \in Operands({}) : \E c \in Fresh(x) :
        \/ \E start \in 0..MaxLength : ListSuffix(r, c, x, start)
        \/ \E e \in Storable(Layout[x], {}) : ListAppend(r, c, x, e)
        \/ \E e \in Storable(Layout[x], {}), i \in Index : ListSet(r, c, x, i, e)
        \/ \E y \in Operands({}) : Layout[y] = Layout[x] /\ ListConcat(r, c, x, y)
  BY DEF Update
<1>1. PICK c \in Fresh(x) :
        \/ \E start \in 0..MaxLength : ListSuffix(r, c, x, start)
        \/ \E e \in Storable(Layout[x], {}) : ListAppend(r, c, x, e)
        \/ \E e \in Storable(Layout[x], {}), i \in Index : ListSet(r, c, x, i, e)
        \/ \E y \in Operands({}) : Layout[y] = Layout[x] /\ ListConcat(r, c, x, y)
  BY <1>0
<1>2. x \in Node /\ c \in Cell /\ c \notin live /\ Layout[c] \in Updatable
  BY BackedNode DEF Fresh, Operands
<1>3. values[x] \in Seq(Slot) /\ \A i \in DOMAIN values[x] : GoodSlot(values[x][i])
  BY <1>2, GoodRoot
<1>4. ASSUME NEW s \in Seq(Slot), \A i \in DOMAIN s : GoodSlot(s[i]),
             Running, CopyInto(r, c, s)
      PROVE  HeapInvariant'
  <2>1. Len(s) <= MaxLength
    BY <1>4 DEF CopyInto
  <2>2. GoodSlots(c, s)
    BY <1>2, <1>4, <2>1, GoodSlotsOf
  <2> QED
    BY <1>2, <1>4, <2>2, CopyIntoStep
<1>5. ASSUME NEW start \in 0..MaxLength, ListSuffix(r, c, x, start)
      PROVE  HeapInvariant'
  <2> DEFINE s == SubSeq(values[x], start + 1, Len(values[x]))
  <2>1. start \in 0..Len(values[x]) /\ Running /\ CopyInto(r, c, s)
    BY <1>5 DEF ListSuffix
  <2>2. s \in Seq(Slot) /\ \A i \in DOMAIN s : GoodSlot(s[i])
    BY <1>3, <2>1
  <2> HIDE DEF s
  <2> QED
    BY <1>4, <2>1, <2>2
<1>6. ASSUME NEW e \in Storable(Layout[x], {}), ListAppend(r, c, x, e)
      PROVE  HeapInvariant'
  <2> DEFINE s == Append(values[x], e)
  <2>1. Running /\ CopyInto(r, c, s)
    BY <1>6 DEF ListAppend
  <2>2. GoodSlot(e) /\ e \in Slot
    BY StorableGood DEF GoodSlot
  <2>3. s \in Seq(Slot) /\ \A i \in DOMAIN s : GoodSlot(s[i])
    BY <1>3, <2>2
  <2> HIDE DEF s
  <2> QED
    BY <1>4, <2>1, <2>3
<1>7. ASSUME NEW e \in Storable(Layout[x], {}), NEW i \in Index, ListSet(r, c, x, i, e)
      PROVE  HeapInvariant'
  <2> DEFINE s == WithElement(x, i, e)
  <2>1. Running /\ CopyInto(r, c, s)
    BY <1>7 DEF ListSet
  <2>2. GoodSlot(e) /\ e \in Slot
    BY StorableGood DEF GoodSlot
  <2>3. s \in Seq(Slot) /\ \A j \in DOMAIN s : GoodSlot(s[j])
    BY <1>3, <2>2 DEF WithElement
  <2> HIDE DEF s
  <2> QED
    BY <1>4, <2>1, <2>3
<1>8. ASSUME NEW y \in Operands({}), ListConcat(r, c, x, y)
      PROVE  HeapInvariant'
  <2> DEFINE s == values[x] \o values[y]
  <2>1. Running /\ CopyInto(r, c, s)
    BY <1>8 DEF ListConcat
  <2>2. values[y] \in Seq(Slot) /\ \A i \in DOMAIN values[y] : GoodSlot(values[y][i])
    BY BackedNode, GoodRoot DEF Operands
  <2>3. s \in Seq(Slot)
    BY <1>3, <2>2
  <2>4. ASSUME NEW i \in DOMAIN s
        PROVE  GoodSlot(s[i])
    <3>1. \/ \E j \in DOMAIN values[x] : s[i] = values[x][j]
          \/ \E j \in DOMAIN values[y] : s[i] = values[y][j]
      BY <1>3, <2>2, ConcatSlot, Zenon
    <3> HIDE DEF s
    <3> QED
      BY <1>3, <2>2, <3>1
  <2> HIDE DEF s
  <2> QED
    BY <1>4, <2>1, <2>3, <2>4
<1> QED
  BY <1>1, <1>5, <1>6, <1>7, <1>8

\* The consuming updates keep the invariant: when the count is one the operand
\* is a cell that nothing borrowed can be.
LEMMA UpdateTakeLeftCalls ==
    ASSUME HeapInvariant, NEW r, UpdateTakeLeft(r)
    PROVE  HeapInvariant'
<1>0. PICK h \in Holding : Layout[held[h]] \in Updatable /\ \E to \in Fresh(held[h]) \cup {held[h]} :
        \/ \E e \in Storable(Layout[held[h]], {h}) : ListAppendTakeLeft(h, r, to, e)
        \/ \E e \in Storable(Layout[held[h]], {h}), i \in Index : ListSetTakeLeft(h, r, to, i, e)
        \/ \E y \in Operands({h}) : Layout[y] = Layout[held[h]] /\ ListConcatTakeLeft(h, r, to, y)
  BY DEF UpdateTakeLeft
<1>1. PICK to \in Fresh(held[h]) \cup {held[h]} :
        \/ \E e \in Storable(Layout[held[h]], {h}) : ListAppendTakeLeft(h, r, to, e)
        \/ \E e \in Storable(Layout[held[h]], {h}), i \in Index : ListSetTakeLeft(h, r, to, i, e)
        \/ \E y \in Operands({h}) : Layout[y] = Layout[held[h]] /\ ListConcatTakeLeft(h, r, to, y)
  BY <1>0
<1> DEFINE x == held[h]
<1>2. h \in Handle /\ x \in Node /\ Layout[x] \in Updatable
  BY <1>0 DEF Holding, HeapInvariant, TypeOK
<1>3. values[x] \in Seq(Slot) /\ \A i \in DOMAIN values[x] : GoodSlot(values[x][i])
  BY <1>2, GoodRoot
<1>4. ASSUME NEW s \in Seq(Slot), \A i \in DOMAIN s : GoodSlot(s[i]),
             Running, to \in Fresh(x), CopyAndDrop(h, r, to, s)
      PROVE  HeapInvariant'
  <2>1. to \in Cell /\ to \notin live /\ Layout[to] \in Updatable
    BY <1>2, <1>4 DEF Fresh
  <2>2. Len(s) <= MaxLength
    BY <1>4 DEF CopyAndDrop
  <2>3. GoodSlots(to, s)
    BY <1>4, <2>1, <2>2, GoodSlotsOf
  <2> QED
    BY <1>4, <2>1, <2>3, CopyAndDropStep
<1>5. ASSUME ~ Shared(x)
      PROVE  /\ references[x] = 1
             /\ \A c \in Cell : \A i \in DOMAIN values[c] : values[c][i] # x
             /\ x \notin Backed({h})
  <2>1. TypeOK /\ CountExact /\ NoDangling /\ StaticsUntouched
    BY DEF HeapInvariant
  <2>2. references[x] = 1
    BY <1>5 DEF Shared
  <2>3. /\ \A k \in Handle \ {h} : held[k] # x
        /\ \A c \in Cell : \A i \in DOMAIN values[c] : values[c][i] # x
    BY <1>2, <2>1, <2>2, SoleOwner
  <2> QED
    BY <2>1, <2>2, <2>3, BackedOwner
<1>9. ASSUME NEW s \in Seq(Slot), \A i \in DOMAIN s : GoodSlot(s[i]) /\ s[i] # x,
             Running, ~ Shared(x), GrowInPlace(h, r, to, s)
      PROVE  HeapInvariant'
  <2>1. Len(values[x]) + Len(s) <= MaxLength /\ Len(values[x]) \in Nat /\ Len(s) \in Nat
    BY <1>3, <1>9 DEF GrowInPlace
  <2>2. Len(s) <= MaxLength
    BY <2>1, SizeAssumption
  <2>3. GoodSlots(x, s)
    BY <1>2, <1>9, <2>2, GoodSlotsOf
  <2> QED
    BY <1>2, <1>5, <1>9, <2>3, GrowInPlaceStep
<1>6. ASSUME NEW e \in Storable(Layout[held[h]], {h}), ListAppendTakeLeft(h, r, to, e)
      PROVE  HeapInvariant'
  <2>1. GoodSlot(e) /\ e \in Slot /\ (e = x => e \in Backed({h}))
    BY <1>2, StorableGood DEF GoodSlot
  <2>2. /\ Append(values[x], e) \in Seq(Slot) /\ <<e>> \in Seq(Slot)
        /\ \A i \in DOMAIN Append(values[x], e) : GoodSlot(Append(values[x], e)[i])
        /\ \A i \in DOMAIN <<e>> : GoodSlot(<<e>>[i])
    BY <1>3, <2>1
  <2>3. CASE Shared(x)
    <3>1. Running /\ to \in Fresh(x) /\ CopyAndDrop(h, r, to, Append(values[x], e))
      BY <1>6, <2>3 DEF ListAppendTakeLeft
    <3> QED
      BY <1>4, <2>2, <3>1
  <2>4. CASE ~ Shared(x)
    <3>1. Running /\ GrowInPlace(h, r, to, <<e>>)
      BY <1>6, <2>4 DEF ListAppendTakeLeft
    <3>2. \A i \in DOMAIN <<e>> : <<e>>[i] # x
      BY <1>5, <2>1, <2>4
    <3> QED
      BY <1>9, <2>2, <2>4, <3>1, <3>2
  <2> QED
    BY <2>3, <2>4
<1>7. ASSUME NEW e \in Storable(Layout[held[h]], {h}), NEW i \in Index, ListSetTakeLeft(h, r, to, i, e)
      PROVE  HeapInvariant'
  <2>1. GoodSlot(e) /\ e \in Slot /\ e \in Element /\ (e = x => e \in Backed({h}))
    BY <1>2, StorableGood DEF GoodSlot
  <2>2. CASE Shared(x)
    <3> DEFINE s == WithElement(x, i, e)
    <3>1. Running /\ to \in Fresh(x) /\ CopyAndDrop(h, r, to, s)
      BY <1>7, <2>2 DEF ListSetTakeLeft
    <3>2. s \in Seq(Slot) /\ \A j \in DOMAIN s : GoodSlot(s[j])
      BY <1>3, <2>1 DEF WithElement
    <3> HIDE DEF s
    <3> QED
      BY <1>4, <3>1, <3>2
  <2>3. CASE ~ Shared(x) /\ i \in DOMAIN values[x]
    <3>1. Running /\ SetInPlace(h, r, i, e)
      BY <1>7, <2>3 DEF ListSetTakeLeft
    <3>2. references[x] = 1 /\ e # x /\ (e \in Cell => e \in live)
      BY <1>5, <2>1, <2>3 DEF GoodSlot
    <3> QED
      BY <1>2, <2>1, <2>3, <3>1, <3>2, SetInPlaceStep
  <2>4. CASE ~ Shared(x) /\ i \notin DOMAIN values[x]
    <3>1. Running /\ Pass(h, r)
      BY <1>7, <2>4 DEF ListSetTakeLeft, Pass
    <3> QED
      BY <3>1, PassStep
  <2> QED
    BY <2>2, <2>3, <2>4
<1>8. ASSUME NEW y \in Operands({h}), ListConcatTakeLeft(h, r, to, y)
      PROVE  HeapInvariant'
  <2>1. y \in Node /\ (y \in Cell => y \in live) /\ y \in Backed({h})
    BY BackedNode DEF Operands
  <2>2. values[y] \in Seq(Slot) /\ \A i \in DOMAIN values[y] : GoodSlot(values[y][i])
    BY <2>1, GoodRoot
  <2>3. CASE Shared(x)
    <3> DEFINE s == values[x] \o values[y]
    <3>1. Running /\ to \in Fresh(x) /\ CopyAndDrop(h, r, to, s)
      BY <1>8, <2>3 DEF ListConcatTakeLeft
    <3>2. s \in Seq(Slot)
      BY <1>3, <2>2
    <3>3. ASSUME NEW i \in DOMAIN s
          PROVE  GoodSlot(s[i])
      <4>1. \/ \E j \in DOMAIN values[x] : s[i] = values[x][j]
            \/ \E j \in DOMAIN values[y] : s[i] = values[y][j]
        BY <1>3, <2>2, ConcatSlot, Zenon
      <4> HIDE DEF s
      <4> QED
        BY <1>3, <2>2, <4>1
    <3> HIDE DEF s
    <3> QED
      BY <1>4, <3>1, <3>2, <3>3
  <2>4. CASE ~ Shared(x)
    <3>1. Running /\ GrowInPlace(h, r, to, Relocated(x, to)[y])
      BY <1>8, <2>4 DEF ListConcatTakeLeft
    <3>2. y # x /\ \A i \in DOMAIN values[y] : values[y][i] # x
      <4>1. CASE y \in Cell
        BY <1>5, <2>1, <2>4, <4>1
      <4>2. CASE y \in Literal \cup EmptyRoot
        <5>1. \A i \in DOMAIN values[y] : values[y][i] \notin Node
          BY <4>2, StaticStoresNoNode DEF HeapInvariant
        <5> QED
          BY <1>2, <1>5, <2>1, <2>4, <5>1
      <4> QED
        BY <2>1, <4>1, <4>2 DEF Node
    <3>3. Relocated(x, to)[y] = values[y]
      <4>1. CASE to = x
        BY <4>1 DEF Relocated
      <4>2. CASE to # x
        <5>1. to # y
          BY <2>1, <4>2 DEF Fresh
        <5>2. values \in [Node -> Seq(Slot)]
          BY DEF HeapInvariant, TypeOK
        <5> QED
          BY <2>1, <3>2, <4>2, <5>1, <5>2 DEF Relocated
      <4> QED
        BY <4>1, <4>2
    <3>4. GrowInPlace(h, r, to, values[y])
      BY <3>1, <3>3
    <3> QED
      BY <1>9, <2>2, <2>4, <3>1, <3>2, <3>4
  <2> QED
    BY <2>3, <2>4
<1> QED
  BY <1>1, <1>6, <1>7, <1>8

\* Every step of the program and of the runtime keeps the invariant.
LEMMA HeapNext == HeapInvariant /\ [Next]_vars => HeapInvariant'
<1> SUFFICES ASSUME HeapInvariant, [Next]_vars
             PROVE  HeapInvariant'
  OBVIOUS
<1>1. ASSUME NEW r \in Spare, Make(r) \/ Update(r) \/ UpdateTakeLeft(r)
      PROVE  HeapInvariant'
  BY <1>1, MakeCalls, UpdateCalls, UpdateTakeLeftCalls
<1>2. ASSUME NEW h \in Holding, Drop(h)
      PROVE  HeapInvariant'
  BY <1>2, DropStep
<1>3. ASSUME Destroy
      PROVE  HeapInvariant'
  BY <1>3, ReleaseRootStep, DestroySlotStep, ReleaseNodeStep DEF Destroy
<1>4. ASSUME ProgramFinish
      PROVE  HeapInvariant'
  BY <1>4, FinishStep
<1>5. ASSUME UNCHANGED vars
      PROVE  HeapInvariant'
  <2>1. /\ references' = references /\ values' = values /\ live' = live /\ held' = held
        /\ destroying' = destroying /\ empty_owners' = empty_owners /\ exit_status' = exit_status
    BY <1>5 DEF vars
  <2>2. NoCycles' /\ OneChild'
    BY <2>1, SameShape DEF HeapInvariant
  <2>3. TypeOK' /\ CountExact' /\ NoDangling' /\ DestroyedOnce'
    <3>1. TypeOK /\ CountExact /\ NoDangling /\ DestroyedOnce
      BY DEF HeapInvariant
    <3>2. TypeOK'
      BY <2>1, <3>1 DEF TypeOK
    <3>3. CountExact'
      BY <2>1, <3>1 DEF CountExact, Owners, HandlesOf, SlotsOf
    <3>4. NoDangling' /\ DestroyedOnce'
      BY <2>1, <3>1 DEF NoDangling, Holding, DestroyedOnce
    <3> QED
      BY <3>2, <3>3, <3>4
  <2>4. StaticsUntouched' /\ DeadIsEmpty' /\ FinishedIdle' /\ LeakCheckExact'
    BY <2>1 DEF HeapInvariant, StaticsUntouched, DeadIsEmpty, FinishedIdle, LeakCheckExact, Holding
  <2> QED
    BY <2>2, <2>3, <2>4 DEF HeapInvariant
<1> QED
  BY <1>1, <1>2, <1>3, <1>4, <1>5 DEF Next

\* HeapInvariant is an invariant of the counted heap.
THEOREM HeapInvariantHolds == Spec => []HeapInvariant
BY HeapInit, HeapNext, PTL DEF Spec

\* The runtime's structures keep their shape: a count is never negative, a drop
\* loop never walks a static root.
THEOREM TypesHold == Spec => []TypeOK
<1>1. HeapInvariant => TypeOK
  BY DEF HeapInvariant
<1> QED
  BY <1>1, HeapInvariantHolds, PTL

\* Every count is the number of obligations and slots for its root, through any
\* sequence of copying, in-place and relocating updates: no dup or drop of the
\* emitted helpers is missing or made twice.
THEOREM CountsAreExact == Spec => []CountExact
<1>1. HeapInvariant => CountExact
  BY DEF HeapInvariant
<1> QED
  BY <1>1, HeapInvariantHolds, PTL

\* No obligation, slot or drop loop is ever for storage that was given back.
THEOREM NothingDangles == Spec => []NoDangling
<1>1. HeapInvariant => NoDangling
  BY DEF HeapInvariant
<1> QED
  BY <1>1, HeapInvariantHolds, PTL

\* A root is destroyed exactly once, and as soon as nothing counts it.
THEOREM RootsAreDestroyedOnce == Spec => []DestroyedOnce
<1>1. HeapInvariant => DestroyedOnce
  BY DEF HeapInvariant
<1> QED
  BY <1>1, HeapInvariantHolds, PTL

\* No in-place update ever closes a cycle, so counting reclaims every root.
THEOREM ValuesNeverFormCycles == Spec => []NoCycles
<1>1. HeapInvariant => NoCycles
  BY DEF HeapInvariant
<1> QED
  BY <1>1, HeapInvariantHolds, PTL

\* No update ever writes a String literal or an empty List root.
THEOREM StaticsAreNeverWritten == Spec => []StaticsUntouched
<1>1. HeapInvariant => StaticsUntouched
  BY DEF HeapInvariant
<1> QED
  BY <1>1, HeapInvariantHolds, PTL

\* The strict leak check reports a program balanced exactly when the program
\* has discharged every obligation.
THEOREM LeakCheckIsExact == Spec => []LeakCheckExact
<1>1. HeapInvariant => LeakCheckExact
  BY DEF HeapInvariant
<1> QED
  BY <1>1, HeapInvariantHolds, PTL
=============================================================================
