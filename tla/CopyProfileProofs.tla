-------------------------- MODULE CopyProfileProofs --------------------------
(***************************************************************************)
(* Proofs about the table of prof_hit, for every size of the table, every  *)
(* hash and every set of addresses: no key ever has two rows, and the      *)
(* table implements a map of counters.                                     *)
(*                                                                         *)
(* The inductive invariant says what open addressing rests on.  The slots  *)
(* that a search has passed are taken, by other keys.  So are the slots    *)
(* between the home of a row's key and the row.                            *)
(***************************************************************************)
EXTENDS CopyProfile, TLAPS

\* Slot s is in the cyclic interval from a up to, and without, b.
Between(a, b, s) == IF a <= b THEN a <= s /\ s < b ELSE s >= a \/ s < b

Occupied(s) == prof_rows[s].hits # 0

Foreign(s, key) == Occupied(s) /\ prof_rows[s].key # key

PathsFull ==
    \A s, t \in Slot :
        Occupied(s) /\ Between(Home[prof_rows[s].key], s, t) => Foreign(t, prof_rows[s].key)

SearchPassed ==
    pending # <<>> =>
        \A t \in Slot : Between(Home[Head(pending).key], slot, t) => Foreign(t, Head(pending).key)

TableInv == TypeOK /\ PathsFull /\ SearchPassed

Row == [key : Key, hits : Nat \ {0}, units : Nat]

-----------------------------------------------------------------------------

\* A position behind another in one search is in the other's interval.
LEMMA IntervalsNest ==
    ASSUME NEW h \in Slot, NEW s \in Slot, NEW t \in Slot, s # t
    PROVE  Between(h, s, t) \/ Between(h, t, s)
BY SlotsAssumption DEF Between, Slot

\* One round of a search adds the slot it looked at, unless the search has
\* come back to where it began.
LEMMA IntervalGrows ==
    ASSUME NEW h \in Slot, NEW s \in Slot, NEW t \in Slot,
           Between(h, IF s = Slots - 1 THEN 0 ELSE s + 1, t)
    PROVE  t = s \/ Between(h, s, t)
BY SlotsAssumption DEF Between, Slot

\* A search that begins has passed no slot.
LEMMA IntervalIsEmpty ==
    ASSUME NEW h \in Slot, NEW t \in Slot
    PROVE  ~Between(h, h, t)
BY SlotsAssumption DEF Between, Slot

\* The search for a key begins in the table.
LEMMA HomeIsSlot ==
    ASSUME NEW k \in Key
    PROVE  Home[k] \in Slot
BY HomeAssumption DEF Slot

\* A row with hits is the row of a key; one without is free.
LEMMA RowTypes ==
    ASSUME TypeOK, NEW s \in Slot
    PROVE  /\ Occupied(s) => prof_rows[s] \in Row
           /\ ~Occupied(s) => prof_rows[s] = Free
<1>1. prof_rows[s] \in Row \cup {Free}
  BY DEF TypeOK, Row
<1>2. ASSUME NEW r \in Row PROVE r.hits # 0
  BY DEF Row
<1>3. Free.hits = 0
  BY DEF Free
<1> QED
  BY <1>1, <1>2, <1>3 DEF Occupied

\* The paths of two rows of one key would each contain the other row, or one
\* would contain the other's: the code's search order leaves one row per key.
LEMMA PathsGiveOneRow ==
    ASSUME TypeOK, PathsFull
    PROVE  OneRowPerKey
<1> SUFFICES ASSUME NEW s \in Slot, NEW t \in Slot, Occupied(s), Occupied(t),
                    prof_rows[s].key = prof_rows[t].key, s # t
             PROVE  FALSE
  BY DEF OneRowPerKey, Occupied
<1> DEFINE k == prof_rows[s].key
<1>1. k \in Key
  BY RowTypes DEF Row
<1>2. Home[k] \in Slot
  BY <1>1, HomeIsSlot
<1>3. CASE Between(Home[k], s, t)
  <2>1. Foreign(t, k)
    BY <1>3 DEF PathsFull
  <2> QED
    BY <2>1 DEF Foreign
<1>4. CASE Between(Home[k], t, s)
  <2>1. Foreign(s, prof_rows[t].key)
    BY <1>4 DEF PathsFull
  <2> QED
    BY <2>1 DEF Foreign
<1> HIDE DEF k
<1> QED
  BY <1>2, <1>3, <1>4, IntervalsNest

-----------------------------------------------------------------------------
(* The invariant is kept.                                                  *)

Request == [key : Key, units : Units]

\* Counting keeps a pair of hits and units one.
LEMMA CountedIsCount ==
    ASSUME NEW old \in [hits : Nat, units : Nat], NEW u \in Nat
    PROVE  Counted(old, u) \in [hits : Nat, units : Nat]
<1>1. old.hits + 1 \in Nat /\ old.units + u \in Nat
  OBVIOUS
<1>2. ASSUME NEW m \in Nat, NEW n \in Nat
      PROVE  [old EXCEPT !.hits = m, !.units = n] \in [hits : Nat, units : Nat]
  OBVIOUS
<1> QED
  BY <1>1, <1>2 DEF Counted

\* Counting in a row leaves its key alone and makes it a row that is taken.
LEMMA CountedIsRow ==
    ASSUME NEW old \in [key : Key, hits : Nat, units : Nat], NEW u \in Nat
    PROVE  /\ Counted(old, u) \in Row
           /\ Counted(old, u).key = old.key
           /\ Counted(old, u).hits = old.hits + 1
           /\ Counted(old, u).units = old.units + u
<1>1. old.hits + 1 \in Nat \ {0} /\ old.units + u \in Nat
  OBVIOUS
<1>2. ASSUME NEW m \in Nat \ {0}, NEW n \in Nat
      PROVE  /\ [old EXCEPT !.hits = m, !.units = n] \in [key : Key, hits : Nat \ {0}, units : Nat]
             /\ [old EXCEPT !.hits = m, !.units = n].key = old.key
             /\ [old EXCEPT !.hits = m, !.units = n].hits = m
             /\ [old EXCEPT !.hits = m, !.units = n].units = n
  OBVIOUS
<1> QED
  BY <1>1, <1>2 DEF Counted, Row

\* The row that a round of the search looks at, once claimed: it is the row
\* of a key; it is another key's only if it was taken before.
LEMMA ClaimedIsRow ==
    ASSUME TypeOK, NEW s \in Slot, NEW k \in Key
    PROVE  /\ Claimed(prof_rows[s], k) \in [key : Key, hits : Nat, units : Nat]
           /\ Occupied(s) => Claimed(prof_rows[s], k) = prof_rows[s]
           /\ ~Occupied(s) => Claimed(prof_rows[s], k) = [key |-> k, hits |-> 0, units |-> 0]
<1>1. CASE Occupied(s)
  BY <1>1, RowTypes DEF Claimed, Occupied, Row
<1>2. CASE ~Occupied(s)
  <2>1. prof_rows[s] = Free
    BY <1>2, RowTypes
  <2>2. Claimed(prof_rows[s], k) = [key |-> k, hits |-> 0, units |-> 0]
    BY <2>1 DEF Claimed, Free
  <2> QED
    BY <1>2, <2>2
<1> QED
  BY <1>1, <1>2

\* An update makes at least one call of prof_hit, with a key and units.
LEMMA HitsOfType ==
    ASSUME NEW family \in Family, NEW path \in Path, NEW a \in Site, NEW i \in Inner, NEW u \in Units
    PROVE  /\ HitsOf(family, path, a, i, u) \in Seq(Request)
           /\ HitsOf(family, path, a, i, u) # <<>>
<1>1. Hit(family, path, a, u) \in Request
  BY DEF Hit, Request, Key, Kind, Address
<1>2. Hit(family, "borrowed", i, u) \in Request
  BY DEF Hit, Request, Key, Kind, Address, Path
<1> QED
  BY <1>1, <1>2 DEF HitsOf

\* A search begins at the home of its key.
LEMMA StartTypes ==
    ASSUME NEW hits \in Seq(Request), Start(hits)
    PROVE  /\ pending' = hits
           /\ slot' \in Slot
           /\ hits # <<>> => slot' = Home[Head(hits).key] /\ Head(hits).key \in Key
<1>1. CASE hits = <<>>
  BY <1>1, SlotsAssumption DEF Start, Slot
<1>2. CASE hits # <<>>
  <2>1. Head(hits) \in Request
    BY <1>2
  <2>2. Head(hits).key \in Key
    BY <2>1 DEF Request
  <2> QED
    BY <1>2, <2>2, HomeIsSlot DEF Start
<1> QED
  BY <1>1, <1>2

\* Where a search begins, it has passed nothing.
LEMMA StartPassed ==
    ASSUME NEW hits \in Seq(Request), Start(hits)
    PROVE  SearchPassed'
<1>1. CASE hits = <<>>
  BY <1>1, StartTypes DEF SearchPassed
<1>2. CASE hits # <<>>
  <2>1. /\ pending' = hits
        /\ Head(hits).key \in Key
        /\ slot' = Home[Head(hits).key]
    BY <1>2, StartTypes
  <2>2. \A t \in Slot : ~Between(Home[Head(hits).key], slot', t)
    BY <2>1, HomeIsSlot, IntervalIsEmpty
  <2> QED
    BY <2>1, <2>2 DEF SearchPassed
<1> QED
  BY <1>1, <1>2

\* The empty table satisfies the invariant.
LEMMA TableInit == Init => TableInv
<1> SUFFICES ASSUME Init PROVE TableInv
  OBVIOUS
<1>1. TypeOK
  <2>1. prof_rows \in [Slot -> Row \cup {Free}]
    BY DEF Init
  <2>2. Zero \in [hits : Nat, units : Nat]
    BY DEF Zero
  <2>3. updates \in [Kind \X Site -> [hits : Nat, units : Nat]]
    BY <2>2 DEF Init
  <2>4. pending \in Seq(Request) /\ slot \in Slot /\ exited \in BOOLEAN
    BY SlotsAssumption DEF Init, Slot
  <2> QED
    BY <2>1, <2>3, <2>4 DEF TypeOK, Row, Request
<1>2. \A s \in Slot : ~Occupied(s)
  BY DEF Init, Free, Occupied
<1>3. PathsFull
  BY <1>2 DEF PathsFull
<1>4. SearchPassed
  BY DEF Init, SearchPassed
<1> QED
  BY <1>1, <1>3, <1>4 DEF TableInv

\* An update helper's call starts a search and leaves the table alone.
LEMMA UpdateKeeps ==
    ASSUME TableInv, NEW family \in Family, NEW path \in Path, NEW a \in Site, NEW i \in Inner, NEW u \in Units,
           Update(family, path, a, i, u)
    PROVE  TableInv'
<1> DEFINE hits == HitsOf(family, path, a, i, u)
<1>1. hits \in Seq(Request)
  BY HitsOfType
<1>2. Start(hits) /\ prof_rows' = prof_rows /\ exited' = exited
  BY DEF Update
<1>3. pending' \in Seq(Request) /\ slot' \in Slot
  BY <1>1, <1>2, StartTypes
<1>4. updates' \in [Kind \X Site -> [hits : Nat, units : Nat]]
  <2>1. updates \in [Kind \X Site -> [hits : Nat, units : Nat]]
    BY DEF TableInv, TypeOK
  <2>2. ASSUME NEW old \in [hits : Nat, units : Nat] PROVE Counted(old, u) \in [hits : Nat, units : Nat]
    BY CountedIsCount, UnitsAssumption
  <2>3. <<<<family, path>>, a>> \in Kind \X Site
    BY DEF Kind
  <2>4. updates' = [updates EXCEPT ![<<<<family, path>>, a>>] = Counted(updates[<<<<family, path>>, a>>], u)]
    BY DEF Update
  <2> QED
    BY <2>1, <2>2, <2>3, <2>4
<1>5. TypeOK'
  BY <1>2, <1>3, <1>4 DEF TableInv, TypeOK, Request
<1>6. PathsFull'
  BY <1>2 DEF TableInv, PathsFull, Foreign, Occupied
<1>7. SearchPassed'
  BY <1>1, <1>2, StartPassed
<1> QED
  BY <1>5, <1>6, <1>7 DEF TableInv

\* What a round of prof_hit does, in the three cases it can meet.
LEMMA Rounds ==
    ASSUME TypeOK, ProfHit,
           NEW k, k = Head(pending).key
    PROVE  /\ pending # <<>> /\ k \in Key /\ slot \in Slot /\ Head(pending).units \in Nat
           /\ pending \in Seq(Request) /\ Tail(pending) \in Seq(Request)
           /\ \/ /\ Foreign(slot, k)
                 /\ slot' = IF slot = Slots - 1 THEN 0 ELSE slot + 1
                 /\ UNCHANGED <<prof_rows, pending>>
              \/ /\ ~Foreign(slot, k)
                 /\ prof_rows' = [prof_rows EXCEPT ![slot] = prof_rows'[slot]]
                 /\ prof_rows'[slot] \in Row
                 /\ prof_rows'[slot].key = k
                 /\ prof_rows'[slot].hits = prof_rows[slot].hits + 1
                 /\ prof_rows'[slot].units = prof_rows[slot].units + Head(pending).units
                 /\ Start(Tail(pending))
           /\ UNCHANGED <<updates, exited>>
<1> DEFINE u == Head(pending).units
           row == Claimed(prof_rows[slot], k)
<1>1. pending # <<>> /\ slot \in Slot /\ UNCHANGED <<updates, exited>>
  BY DEF ProfHit, TypeOK
<1>2. pending \in Seq(Request) /\ Tail(pending) \in Seq(Request) /\ Head(pending) \in Request
  <2>1. pending \in Seq(Request)
    BY DEF TypeOK, Request
  <2> QED
    BY <1>1, <2>1
<1>3. k \in Key /\ u \in Nat
  BY <1>2, UnitsAssumption DEF Request
<1>4. row \in [key : Key, hits : Nat, units : Nat]
  BY <1>1, <1>3, ClaimedIsRow
<1>5. CASE row.key = k
  <2>1. prof_rows' = [prof_rows EXCEPT ![slot] = Counted(row, u)] /\ Start(Tail(pending))
    BY <1>5 DEF ProfHit, Matches
  <2>2. prof_rows'[slot] = Counted(row, u)
    BY <1>1, <2>1 DEF TypeOK
  <2>3. /\ prof_rows'[slot] \in Row
        /\ prof_rows'[slot].key = k
        /\ prof_rows'[slot].hits = row.hits + 1
        /\ prof_rows'[slot].units = row.units + u
    BY <1>3, <1>4, <1>5, <2>2, CountedIsRow
  <2>4. row.hits = prof_rows[slot].hits /\ row.units = prof_rows[slot].units
    <3>1. CASE Occupied(slot)
      BY <1>1, <1>3, <3>1, ClaimedIsRow
    <3>2. CASE ~Occupied(slot)
      <4>1. prof_rows[slot] = Free
        BY <1>1, <3>2, RowTypes
      <4>2. row = [key |-> k, hits |-> 0, units |-> 0]
        BY <1>1, <1>3, <3>2, ClaimedIsRow
      <4> QED
        BY <4>1, <4>2 DEF Free
    <3> QED
      BY <3>1, <3>2
  <2>5. ~Foreign(slot, k)
    BY <1>1, <1>3, <1>5, ClaimedIsRow DEF Foreign
  <2> HIDE DEF row, u
  <2>6. prof_rows' = [prof_rows EXCEPT ![slot] = prof_rows'[slot]]
    BY <2>1, <2>2
  <2> QED
    BY <1>1, <1>2, <1>3, <2>1, <2>3, <2>4, <2>5, <2>6 DEF u
<1>6. CASE row.key # k
  <2>1. Occupied(slot)
    <3>1. SUFFICES ASSUME ~Occupied(slot) PROVE FALSE
      OBVIOUS
    <3>2. row = [key |-> k, hits |-> 0, units |-> 0]
      BY <1>1, <1>3, <3>1, ClaimedIsRow
    <3> QED
      BY <1>6, <3>2
  <2>2. Foreign(slot, k)
    BY <1>1, <1>3, <1>6, <2>1, ClaimedIsRow DEF Foreign
  <2>3. /\ slot' = IF slot = Slots - 1 THEN 0 ELSE slot + 1
        /\ UNCHANGED <<prof_rows, pending>>
    BY <1>6 DEF ProfHit, Matches
  <2> QED
    BY <1>1, <1>2, <1>3, <2>2, <2>3
<1> QED
  BY <1>5, <1>6

\* The round of prof_hit that counts writes one row.
LEMMA OtherRows ==
    ASSUME TypeOK, slot \in Slot, prof_rows' = [prof_rows EXCEPT ![slot] = prof_rows'[slot]],
           NEW s \in Slot, s # slot
    PROVE  prof_rows'[s] = prof_rows[s]
BY DEF TypeOK

\* A round of a search keeps the invariant.
LEMMA ProfHitKeeps ==
    ASSUME TableInv, ProfHit
    PROVE  TableInv'
<1> DEFINE k == Head(pending).key
<1>1. TypeOK /\ PathsFull /\ SearchPassed
  BY DEF TableInv
<1>2. /\ pending # <<>> /\ k \in Key /\ slot \in Slot
      /\ pending \in Seq(Request) /\ Tail(pending) \in Seq(Request)
      /\ updates' = updates /\ exited' = exited
  BY <1>1, Rounds
<1>3. Home[k] \in Slot
  BY <1>2, HomeIsSlot
<1>4. \A t \in Slot : Between(Home[k], slot, t) => Foreign(t, k)
  BY <1>1, <1>2 DEF SearchPassed
<1>5. CASE Foreign(slot, k)
  <2>1. /\ slot' = IF slot = Slots - 1 THEN 0 ELSE slot + 1
        /\ prof_rows' = prof_rows /\ pending' = pending
    BY <1>1, <1>5, Rounds
  <2>2. slot' \in Slot
    BY <1>2, <2>1, SlotsAssumption DEF Slot
  <2>3. TypeOK'
    BY <1>1, <1>2, <2>1, <2>2 DEF TypeOK
  <2>4. PathsFull'
    BY <1>1, <2>1 DEF PathsFull, Foreign, Occupied
  <2>5. ASSUME NEW t \in Slot, Between(Home[k], slot', t) PROVE Foreign(t, k)
    <3> HIDE DEF k
    <3>1. t = slot \/ Between(Home[k], slot, t)
      BY <1>2, <1>3, <2>1, <2>5, IntervalGrows
    <3> QED
      BY <1>4, <1>5, <3>1
  <2>6. SearchPassed'
    BY <2>1, <2>5 DEF SearchPassed, Foreign, Occupied
  <2> QED
    BY <2>3, <2>4, <2>6 DEF TableInv
<1>6. CASE ~Foreign(slot, k)
  <2>1. /\ prof_rows' = [prof_rows EXCEPT ![slot] = prof_rows'[slot]]
        /\ prof_rows'[slot] \in Row
        /\ prof_rows'[slot].key = k
        /\ Start(Tail(pending))
    BY <1>1, <1>6, Rounds
  <2>2. prof_rows \in [Slot -> Row \cup {Free}]
    BY <1>1 DEF TypeOK, Row
  <2>3. prof_rows' \in [Slot -> Row \cup {Free}]
    BY <1>2, <2>1, <2>2
  <2>4. pending' \in Seq(Request) /\ slot' \in Slot
    BY <1>2, <2>1, StartTypes
  <2>5. TypeOK'
    BY <1>1, <1>2, <2>3, <2>4 DEF TypeOK, Row, Request
  <2>6. SearchPassed'
    BY <1>2, <2>1, StartPassed
  <2>7. ASSUME NEW s \in Slot, s # slot PROVE prof_rows'[s] = prof_rows[s]
    BY <1>1, <1>2, <2>1, <2>7, OtherRows
  <2>8. prof_rows'[slot].hits # 0
    BY <2>1 DEF Row
  <2> HIDE DEF k
  <2>9. ASSUME NEW s \in Slot, NEW t \in Slot, Occupied(s)', Between(Home[prof_rows'[s].key], s, t)
        PROVE  prof_rows'[t].hits # 0 /\ prof_rows'[t].key # prof_rows'[s].key
    <3>1. CASE s = slot
      <4>1. Foreign(t, k)
        BY <1>4, <2>1, <2>9, <3>1
      <4>2. t # slot
        BY <1>6, <4>1
      <4> QED
        BY <2>1, <2>7, <3>1, <4>1, <4>2 DEF Foreign, Occupied
    <3>2. CASE s # slot
      <4>1. prof_rows'[s] = prof_rows[s]
        BY <2>7, <3>2
      <4>2. Foreign(t, prof_rows[s].key)
        BY <1>1, <2>9, <4>1 DEF PathsFull, Occupied
      <4>3. CASE t = slot
        <5>1. prof_rows[t].key = k
          BY <1>6, <4>2, <4>3 DEF Foreign
        <5> QED
          BY <2>1, <2>8, <4>1, <4>2, <4>3, <5>1 DEF Foreign, Occupied
      <4>4. CASE t # slot
        BY <2>7, <4>1, <4>2, <4>4 DEF Foreign, Occupied
      <4> QED
        BY <4>3, <4>4
    <3> QED
      BY <3>1, <3>2
  <2>10. PathsFull'
    BY <2>9 DEF PathsFull, Foreign, Occupied
  <2> QED
    BY <2>5, <2>6, <2>10 DEF TableInv
<1> QED
  BY <1>5, <1>6

\* Every step keeps the invariant.
LEMMA TableStep == TableInv /\ [Next]_vars => TableInv'
<1> SUFFICES ASSUME TableInv, [Next]_vars PROVE TableInv'
  OBVIOUS
<1>1. ASSUME NEW family \in Family, NEW path \in Path, NEW a \in Site, NEW i \in Inner, NEW u \in Units,
             Update(family, path, a, i, u)
      PROVE  TableInv'
  BY <1>1, UpdateKeeps
<1>2. CASE ProfHit
  BY <1>2, ProfHitKeeps
<1>3. CASE Exit
  <2>1. UNCHANGED <<prof_rows, pending, slot, updates>> /\ exited' = TRUE
    BY <1>3 DEF Exit
  <2>2. TypeOK'
    BY <2>1 DEF TableInv, TypeOK
  <2>3. PathsFull'
    BY <2>1 DEF TableInv, PathsFull, Foreign, Occupied
  <2>4. SearchPassed'
    BY <2>1 DEF TableInv, SearchPassed, Foreign, Occupied
  <2> QED
    BY <2>2, <2>3, <2>4 DEF TableInv
<1>4. CASE UNCHANGED vars
  <2>1. UNCHANGED <<prof_rows, pending, slot, updates, exited>>
    BY <1>4 DEF vars
  <2>2. TypeOK'
    BY <2>1 DEF TableInv, TypeOK
  <2>3. PathsFull'
    BY <2>1 DEF TableInv, PathsFull, Foreign, Occupied
  <2>4. SearchPassed'
    BY <2>1 DEF TableInv, SearchPassed, Foreign, Occupied
  <2> QED
    BY <2>2, <2>3, <2>4 DEF TableInv
<1> QED
  BY <1>1, <1>2, <1>3, <1>4 DEF Next

\* What every search and every row of prof_hit's table satisfies at all times.
THEOREM TableCorrect == Spec => []TableInv
<1>1. Init => TableInv
  BY TableInit
<1>2. TableInv /\ [Next]_vars => TableInv'
  BY TableStep
<1> QED
  BY <1>1, <1>2, PTL DEF Spec

\* The state of the instrumented program is always well typed: a search of
\* prof_hit never leaves the table.
THEOREM TypeCorrect == Spec => []TypeOK
<1>1. TableInv => TypeOK
  BY DEF TableInv
<1> QED
  BY <1>1, TableCorrect, PTL

\* prof_hit never gives a key a second row, for every size of the table and
\* every hash.
THEOREM OneRowAlways == Spec => []OneRowPerKey
<1>1. TableInv => OneRowPerKey
  BY PathsGiveOneRow DEF TableInv
<1> QED
  BY <1>1, TableCorrect, PTL

-----------------------------------------------------------------------------
(* The table implements a map of counters.                                 *)

\* The count of a key that has a row is what the row says.
LEMMA CountOfRow ==
    ASSUME OneRowPerKey, NEW s \in Slot, Occupied(s), NEW k, k = prof_rows[s].key
    PROVE  CountOf(k) = [hits |-> prof_rows[s].hits, units |-> prof_rows[s].units]
<1>1. RowsOf(k) = {s}
  BY DEF RowsOf, OneRowPerKey, Occupied
<1>2. (CHOOSE t \in RowsOf(k) : TRUE) = s
  BY <1>1
<1> QED
  BY <1>1, <1>2 DEF CountOf

\* A key without a row has count zero.
LEMMA CountOfNoRow ==
    ASSUME NEW k, \A s \in Slot : Occupied(s) => prof_rows[s].key # k
    PROVE  CountOf(k) = Zero
BY DEF CountOf, RowsOf, Occupied

\* While the table stays as it is, so do all counts.
LEMMA CountsStay ==
    ASSUME prof_rows' = prof_rows
    PROVE  [k \in Key |-> CountOf(k)]' = [k \in Key |-> CountOf(k)]
BY DEF CountOf, RowsOf

\* The round that counts adds one hit and the units to its key, and leaves
\* every other key's counts alone.
LEMMA CountsAfterHit ==
    ASSUME TypeOK, OneRowPerKey, OneRowPerKey', ProfHit,
           NEW k, k = Head(pending).key, ~Foreign(slot, k)
    PROVE  [c \in Key |-> CountOf(c)]' =
              [[c \in Key |-> CountOf(c)] EXCEPT ![k] =
                  [hits |-> CountOf(k).hits + 1, units |-> CountOf(k).units + Head(pending).units]]
<1> DEFINE u == Head(pending).units
<1>1. /\ k \in Key /\ slot \in Slot
      /\ prof_rows' = [prof_rows EXCEPT ![slot] = prof_rows'[slot]]
      /\ prof_rows'[slot] \in Row
      /\ prof_rows'[slot].key = k
      /\ prof_rows'[slot].hits = prof_rows[slot].hits + 1
      /\ prof_rows'[slot].units = prof_rows[slot].units + u
  BY Rounds
<1>2. ASSUME NEW s \in Slot, s # slot PROVE prof_rows'[s] = prof_rows[s]
  BY <1>1, <1>2, OtherRows
<1>3. prof_rows'[slot].hits # 0
  BY <1>1 DEF Row
<1>4. ASSUME NEW s \in Slot, s # slot PROVE ~(prof_rows'[s].hits # 0 /\ prof_rows'[s].key = k)
  BY <1>1, <1>3, <1>4 DEF OneRowPerKey
<1>5. CountOf(k)' = [hits |-> prof_rows[slot].hits + 1, units |-> prof_rows[slot].units + u]
  <2>1. RowsOf(k)' = {slot}
    BY <1>1, <1>3, <1>4 DEF RowsOf
  <2>2. (CHOOSE t \in RowsOf(k)' : TRUE) = slot
    BY <2>1
  <2> QED
    BY <1>1, <2>1, <2>2 DEF CountOf
<1>6. CountOf(k).hits = prof_rows[slot].hits /\ CountOf(k).units = prof_rows[slot].units
  <2>1. CASE Occupied(slot)
    <3>1. prof_rows[slot].key = k
      BY <2>1 DEF Foreign
    <3>2. CountOf(k) = [hits |-> prof_rows[slot].hits, units |-> prof_rows[slot].units]
      BY <1>1, <2>1, <3>1, CountOfRow
    <3> QED
      BY <3>2
  <2>2. CASE ~Occupied(slot)
    <3>1. \A s \in Slot : Occupied(s) => prof_rows[s].key # k
      BY <1>2, <1>4, <2>2 DEF Occupied
    <3>2. CountOf(k) = Zero
      BY <3>1, CountOfNoRow
    <3>3. prof_rows[slot] = Free
      BY <1>1, <2>2, RowTypes
    <3> QED
      BY <3>2, <3>3 DEF Zero, Free
  <2> QED
    BY <2>1, <2>2
<1>7. ASSUME NEW c \in Key, c # k PROVE CountOf(c)' = CountOf(c)
  <2>1. slot \notin RowsOf(c)
    BY <1>7 DEF RowsOf, Foreign, Occupied
  <2>2. RowsOf(c)' = RowsOf(c)
    <3>1. ASSUME NEW s \in Slot PROVE s \in RowsOf(c)' <=> s \in RowsOf(c)
      <4>1. CASE s = slot
        BY <1>1, <1>7, <2>1, <4>1 DEF RowsOf
      <4>2. CASE s # slot
        BY <1>2, <4>2 DEF RowsOf
      <4> QED
        BY <4>1, <4>2
    <3> QED
      BY <3>1 DEF RowsOf
  <2>3. CASE RowsOf(c) = {}
    BY <2>2, <2>3 DEF CountOf
  <2>4. CASE RowsOf(c) # {}
    <3> DEFINE r == CHOOSE s \in RowsOf(c) : TRUE
    <3>1. r \in RowsOf(c)
      BY <2>4
    <3>2. r \in Slot /\ r # slot
      BY <2>1, <3>1 DEF RowsOf
    <3>3. prof_rows'[r] = prof_rows[r]
      BY <1>2, <3>2
    <3>4. CountOf(c) = [hits |-> prof_rows[r].hits, units |-> prof_rows[r].units]
      BY <2>4 DEF CountOf
    <3>5. CountOf(c)' = [hits |-> prof_rows'[r].hits, units |-> prof_rows'[r].units]
      BY <2>2, <2>4 DEF CountOf
    <3> HIDE DEF r
    <3> QED
      BY <3>3, <3>4, <3>5
  <2> QED
    BY <2>3, <2>4
<1> HIDE DEF u
<1>8. CountOf(k)' = [hits |-> CountOf(k).hits + 1, units |-> CountOf(k).units + u]
  BY <1>5, <1>6
<1> QED
  BY <1>1, <1>7, <1>8 DEF u

\* Every step is a step of the map of counters, or none.
LEMMA StepImplements ==
    ASSUME TableInv, OneRowPerKey, OneRowPerKey', [Next]_vars
    PROVE  [Abstract!Next]_<<[k \in Key |-> CountOf(k)], pending>>
<1>1. ASSUME NEW family \in Family, NEW path \in Path, NEW a \in Site, NEW i \in Inner, NEW u \in Units,
             Update(family, path, a, i, u)
      PROVE  Abstract!Call
  <2>1. pending = <<>> /\ prof_rows' = prof_rows /\ Start(HitsOf(family, path, a, i, u))
    BY <1>1 DEF Update
  <2>2. pending' \in Seq(Request)
    BY <2>1, HitsOfType, StartTypes
  <2> QED
    BY <2>1, <2>2, CountsStay DEF Abstract!Call, Request
<1>2. CASE ProfHit
  <2> DEFINE k == Head(pending).key
  <2>1. CASE Foreign(slot, k)
    <3>1. UNCHANGED <<prof_rows, pending>>
      BY <1>2, <2>1, Rounds DEF TableInv
    <3> QED
      BY <3>1, CountsStay
  <2>2. CASE ~Foreign(slot, k)
    <3>1. pending # <<>> /\ k \in Key /\ Tail(pending) \in Seq(Request) /\ Start(Tail(pending))
      BY <1>2, <2>2, Rounds DEF TableInv
    <3>2. pending' = Tail(pending)
      BY <3>1 DEF Start
    <3>3. [c \in Key |-> CountOf(c)]' =
              [[c \in Key |-> CountOf(c)] EXCEPT ![k] =
                  [hits |-> CountOf(k).hits + 1, units |-> CountOf(k).units + Head(pending).units]]
      BY <1>2, <2>2, CountsAfterHit DEF TableInv
    <3>4. [c \in Key |-> CountOf(c)][k] = CountOf(k)
      BY <3>1
    <3>5. Abstract!Hit
      BY <3>1, <3>2, <3>3, <3>4 DEF Abstract!Hit
    <3> QED
      BY <3>5 DEF Abstract!Next
  <2> QED
    BY <2>1, <2>2
<1>3. CASE Exit
  BY <1>3, CountsStay DEF Exit
<1>4. CASE UNCHANGED vars
  BY <1>4, CountsStay DEF vars
<1> QED
  BY <1>1, <1>2, <1>3, <1>4 DEF Next, Abstract!Next

\* prof_hit's table is a map of counters, for every size of the table and
\* every hash: a search that ends has added one hit and its units to its own
\* key, and nothing else changes a count.
THEOREM TableImplementsCounts == Spec => ImplementsCallCounts
<1>1. Init => Abstract!Init
  <2> SUFFICES ASSUME Init PROVE Abstract!Init
    OBVIOUS
  <2>1. \A s \in Slot : ~Occupied(s)
    BY DEF Init, Free, Occupied
  <2>2. \A k \in Key : CountOf(k) = Zero
    BY <2>1, CountOfNoRow
  <2> QED
    BY <2>2 DEF Init, Abstract!Init, Abstract!Zero, Zero
<1>2. TableInv /\ OneRowPerKey /\ OneRowPerKey' /\ [Next]_vars
        => [Abstract!Next]_<<[k \in Key |-> CountOf(k)], pending>>
  BY StepImplements
<1> QED
  BY <1>1, <1>2, TableCorrect, OneRowAlways, PTL DEF Spec, ImplementsCallCounts, Abstract!Spec

=============================================================================
