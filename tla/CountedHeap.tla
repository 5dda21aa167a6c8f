---------------------------- MODULE CountedHeap ----------------------------
(***************************************************************************)
(* The reference-counted storage under every managed Blorp value, as the   *)
(* emitted C runtime keeps it: counted roots for Strings, Lists, counted   *)
(* records and boxed unions (runtime/list.brp, runtime/string.brp,         *)
(* runtime/string_concat.brp, emit/emit.brp), the shared String literals,  *)
(* the immortal empty List roots, and the leak check a strict diagnostic   *)
(* build runs when the program ends.                                       *)
(*                                                                         *)
(* The program above the heap appears only through its HANDLES: one handle *)
(* is one obligation, an OwnerId of the owned IR that is active.  A helper *)
(* that CONSUMES an operand takes a handle; one that BORROWS it takes a    *)
(* node that some other handle keeps alive (Backed).  That is the contract *)
(* the ownership passes establish; module Verify states where it comes     *)
(* from.                                                                   *)
(*                                                                         *)
(* A root's slots are the managed pointers stored in it, or the characters *)
(* of a String: a List element that is an inline record or union has one   *)
(* slot for each pointer inside it.  Types may be recursive, through       *)
(* records and Lists or as the one self payload of a boxed union, so a     *)
(* slot may be for a root of its own layout.                               *)
(***************************************************************************)
EXTENDS Integers, Sequences, FiniteSets

CONSTANTS
    Cell,           \* addresses the allocator hands out
    Literal,        \* one shared String for each literal site
    EmptyRoot,      \* one static empty root for each List layout
    Handle,         \* names for the program's obligations
    Atom,           \* unmanaged slot contents: characters, integers
    None,           \* no node; also a slot whose occurrence is destroyed
    Layout,         \* the layout of each node
    Stores,         \* the layouts a layout's slots may be for; none: unmanaged
    Updatable,      \* the layouts of Strings and Lists
    Boxed,          \* the layouts of boxed unions
    LiteralText,    \* the characters of each literal
    MaxLength,      \* bound: longest root the model builds
    LiteralBase     \* BLORP_STRING_LITERAL_REFERENCES, SIZE_MAX/2 in the code

Node == Cell \cup Literal \cup EmptyRoot

Element == Node \cup Atom

\* What a slot may be while the root is live or being destroyed.
Slot == Element \cup {None}

ASSUME NodeAssumption ==
    /\ IsFiniteSet(Cell) /\ IsFiniteSet(Handle)
    /\ Cell \cap Literal = {} /\ Cell \cap EmptyRoot = {}
    /\ Literal \cap EmptyRoot = {}
    /\ Node \cap Atom = {}
    /\ None \notin Element

ASSUME LayoutAssumption ==
    /\ Layout \in [Node -> DOMAIN Stores]
    /\ Updatable \cap Boxed = {}
    /\ \A n \in Literal \cup EmptyRoot : Layout[n] \in Updatable

ASSUME SizeAssumption ==
    /\ MaxLength \in Nat
    /\ LiteralText \in [Literal -> Seq(Atom)]
    /\ \A l \in Literal : Len(LiteralText[l]) <= MaxLength

\* The base keeps a literal's count away from 0 and 1 for ever.
ASSUME BaseAssumption == LiteralBase \in Nat /\ LiteralBase > 1

VARIABLES
    references,     \* the count in each root
    values,         \* the slots of each root
    live,           \* the cells the allocator has handed out
    held,           \* the node each obligation of the program is for
    destroying,     \* the roots whose drop loops are running, innermost last
    empty_owners,   \* blorp_list_empty_owners of a diagnostic build
    exit_status     \* None until blorp_program_finish returns

heap == <<references, values, live, destroying, empty_owners>>

vars == <<references, values, live, held, destroying, empty_owners, exit_status>>

-----------------------------------------------------------------------------
(* Counting.                                                               *)

\* The slots of s that are for one of the nodes N.
Occurrences(s, N) == Cardinality({i \in DOMAIN s : s[i] \in N})

IsEmptyRoot(n) == IF n \in EmptyRoot THEN 1 ELSE 0

\* The counts after one dup for every slot of s; dup skips an empty root.
Acquired(s) ==
    [n \in Node |->
        IF n \in EmptyRoot THEN references[n] ELSE references[n] + Occurrences(s, {n})]

\* The counts `counts` after one drop of n; drop skips an empty root too.
Released(counts, n) ==
    IF n \in EmptyRoot THEN counts ELSE [counts EXCEPT ![n] = @ - 1]

\* drop runs the destruction loop of a root whose count it found at 1.
Destroys(counts, n) == n \notin EmptyRoot /\ counts[n] = 1

-----------------------------------------------------------------------------
(* What the program may pass.                                              *)

Holding == {h \in Handle : held[h] # None}

Spare == {h \in Handle : held[h] = None}

\* The nodes that the slots of the roots S are for.
Stored(S) == Node \cap UNION {{values[m][i] : i \in DOMAIN values[m]} : m \in S}

\* The nodes S and all that is inside them.  Only allocated roots store nodes;
\* those inside S are the members of every set that is closed under Stored.
Reachable(S) ==
    LET Closed == {T \in SUBSET live : S \cap Cell \subseteq T /\ Stored(T) \cap Cell \subseteq T}
    IN  S \cup Stored({c \in live : \A T \in Closed : c \in T})

\* The nodes a call that consumes the handles H may borrow: those that an
\* obligation outside H keeps alive, directly or through projections.
Backed(H) == Reachable({held[h] : h \in Holding \ H})

\* The Strings and Lists among them.
Operands(H) == {x \in Backed(H) : Layout[x] \in Updatable}

\* What a slot of a layout may store: an unmanaged atom, or a borrowed node of
\* an element type.
Storable(layout, H) ==
    IF Stores[layout] = {} THEN Atom ELSE {n \in Backed(H) : Layout[n] \in Stores[layout]}

\* An unallocated cell of x's layout.
Fresh(x) == {c \in Cell \ live : Layout[c] = Layout[x]}

\* Node n is what a boxed union's root c may store of its own layout.
IsChild(c, n) == n \in Node /\ Layout[c] \in Boxed /\ Layout[n] = Layout[c]

\* The program makes no call while a drop loop runs, and none after its end.
Running == destroying = <<>> /\ exit_status = None

-----------------------------------------------------------------------------
(* Building roots.                                                         *)

\* A fresh root c with slots s, each occurrence acquired for its slot, owned
\* by handle r: the borrowed form of every update.
CopyInto(r, c, s) ==
    /\ r \in Spare
    /\ Len(s) <= MaxLength
    /\ references' = [Acquired(s) EXCEPT ![c] = 1]
    /\ values' = [values EXCEPT ![c] = s]
    /\ live' = live \cup {c}
    /\ held' = [held EXCEPT ![r] = c]
    /\ empty_owners' = empty_owners + Occurrences(s, EmptyRoot)
    /\ UNCHANGED <<destroying, exit_status>>

\* Fault: the copying branch forgets to drop the operand it consumed.
CopyWithoutDrop(h, r, c, s) ==
    /\ r \in Spare
    /\ Len(s) <= MaxLength
    /\ references' = [Acquired(s) EXCEPT ![c] = 1]
    /\ values' = [values EXCEPT ![c] = s]
    /\ live' = live \cup {c}
    /\ held' = [held EXCEPT ![h] = None, ![r] = c]
    /\ empty_owners' = empty_owners + Occurrences(s, EmptyRoot)
    /\ UNCHANGED <<destroying, exit_status>>

\* The copying branch of a consuming helper: the borrowed form, then a drop
\* of the operand handle h was for.
CopyAndDrop(h, r, c, s) ==
    LET n == held[h]
        counts == [Acquired(s) EXCEPT ![c] = 1]
    IN  /\ r \in Spare
        /\ Len(s) <= MaxLength
        /\ references' = Released(counts, n)
        /\ destroying' = IF Destroys(counts, n) THEN Append(destroying, n) ELSE destroying
        /\ values' = [values EXCEPT ![c] = s]
        /\ live' = live \cup {c}
        /\ held' = [held EXCEPT ![h] = None, ![r] = c]
        /\ empty_owners' = empty_owners + Occurrences(s, EmptyRoot) - IsEmptyRoot(n)
        /\ UNCHANGED exit_status

\* Growth reallocates: the root at n may move to another address d, its old
\* slots' obligations unchanged, and its old address is released.
Relocated(n, d) ==
    IF d = n THEN values ELSE [values EXCEPT ![d] = values[n], ![n] = <<>>]

\* Fault: the slots the in-place branch adds are not acquired.
GrowWithoutAcquire(h, r, d, added) ==
    LET n == held[h]
    IN  /\ r \in Spare
        /\ d \in Fresh(n) \cup {n}
        /\ Len(values[n]) + Len(added) <= MaxLength
        /\ references' = IF d = n THEN references
                         ELSE [references EXCEPT ![d] = references[n], ![n] = 0]
        /\ values' = [Relocated(n, d) EXCEPT ![d] = @ \o added]
        /\ live' = IF d = n THEN live ELSE (live \ {n}) \cup {d}
        /\ held' = [held EXCEPT ![h] = None, ![r] = d]
        /\ UNCHANGED <<destroying, empty_owners, exit_status>>

\* The in-place branch: reserve_unique, then one acquisition for each slot of
\* `added`; the obligation of h becomes that of r.
GrowInPlace(h, r, d, added) ==
    LET n == held[h]
        counts == Acquired(added)
    IN  /\ r \in Spare
        /\ d \in Fresh(n) \cup {n}
        /\ Len(values[n]) + Len(added) <= MaxLength
        /\ references' = IF d = n THEN counts
                         ELSE [counts EXCEPT ![d] = counts[n], ![n] = 0]
        /\ values' = [Relocated(n, d) EXCEPT ![d] = @ \o added]
        /\ live' = IF d = n THEN live ELSE (live \ {n}) \cup {d}
        /\ held' = [held EXCEPT ![h] = None, ![r] = d]
        /\ empty_owners' = empty_owners + Occurrences(added, EmptyRoot)
        /\ UNCHANGED <<destroying, exit_status>>

\* Fault: two references pass for one.
SharedAboveTwo(n) == references[n] > 2

\* Fault: the String helpers alone take two references for one.
SharedStringAboveTwo(n) ==
    IF Stores[Layout[n]] = {} THEN references[n] > 2 ELSE references[n] # 1

\* The test every take_left helper makes: the operand's count is not one.
Shared(n) == references[n] # 1

-----------------------------------------------------------------------------
(* The program's calls, one action for each helper.                        *)

\* blorp_string_literal: another reference to the site's String.
StringLiteral(r, l) ==
    /\ Running
    /\ r \in Spare
    /\ references' = [references EXCEPT ![l] = @ + 1]
    /\ held' = [held EXCEPT ![r] = l]
    /\ UNCHANGED <<values, live, destroying, empty_owners, exit_status>>

\* `[]`: the layout's immortal root, counted only by the diagnostic counter.
EmptyList(r, e) ==
    /\ Running
    /\ r \in Spare
    /\ held' = [held EXCEPT ![r] = e]
    /\ empty_owners' = empty_owners + 1
    /\ UNCHANGED <<references, values, live, destroying, exit_status>>

\* A String the runtime builds from bytes: a decimal, a slice, a file's text.
StringFromBytes(r, c, text) ==
    /\ Running
    /\ c \in Cell \ live
    /\ CopyInto(r, c, text)

\* A List literal, a counted record or a boxed variant: the payloads' own
\* obligations hs move into the slots of a fresh root, none is acquired.  The
\* declaration of a boxed union gives a variant at most one self payload.
Construct(r, c, hs) ==
    /\ Running
    /\ r \in Spare
    /\ c \in Cell \ live
    /\ Len(hs) <= MaxLength
    /\ \A i \in DOMAIN hs : held[hs[i]] \in Node /\ Layout[held[hs[i]]] \in Stores[Layout[c]]
    /\ \A i, j \in DOMAIN hs : hs[i] = hs[j] => i = j
    /\ \A i, j \in DOMAIN hs : IsChild(c, held[hs[i]]) /\ IsChild(c, held[hs[j]]) => i = j
    /\ references' = [references EXCEPT ![c] = 1]
    /\ values' = [values EXCEPT ![c] = [i \in DOMAIN hs |-> held[hs[i]]]]
    /\ live' = live \cup {c}
    /\ held' = [h \in Handle |->
                  IF h = r THEN c
                  ELSE IF \E i \in DOMAIN hs : hs[i] = h THEN None ELSE held[h]]
    /\ UNCHANGED <<destroying, empty_owners, exit_status>>

\* dup: an AcquireOwner of a borrowed node.
Dup(r, n) ==
    /\ Running
    /\ r \in Spare
    /\ references' = Acquired(<<n>>)
    /\ held' = [held EXCEPT ![r] = n]
    /\ empty_owners' = empty_owners + IsEmptyRoot(n)
    /\ UNCHANGED <<values, live, destroying, exit_status>>

\* drop: a DropOwner.  At the last reference its destruction loop starts.
Drop(h) ==
    /\ Running
    /\ references' = Released(references, held[h])
    /\ destroying' = IF Destroys(references, held[h])
                     THEN Append(destroying, held[h]) ELSE destroying
    /\ empty_owners' = empty_owners - IsEmptyRoot(held[h])
    /\ held' = [held EXCEPT ![h] = None]
    /\ UNCHANGED <<values, live, exit_status>>

\* blorp_list_get: the element at a valid index, acquired for the result; an
\* unmanaged element is copied and brings no obligation.
ListGet(r, x, i) ==
    /\ Running
    /\ r \in Spare
    /\ i \in DOMAIN values[x] /\ values[x][i] \in Node
    /\ references' = Acquired(<<values[x][i]>>)
    /\ held' = [held EXCEPT ![r] = values[x][i]]
    /\ empty_owners' = empty_owners + IsEmptyRoot(values[x][i])
    /\ UNCHANGED <<values, live, destroying, exit_status>>

\* blorp_list_repeat.
ListRepeat(r, c, e, count) ==
    /\ Running
    /\ c \in Cell \ live
    /\ CopyInto(r, c, [i \in 1..count |-> e])

\* blorp_list_suffix; the selection has proved 0 <= start <= length.
ListSuffix(r, c, x, start) ==
    /\ Running
    /\ c \in Fresh(x)
    /\ start \in 0..Len(values[x])
    /\ CopyInto(r, c, SubSeq(values[x], start + 1, Len(values[x])))

\* blorp_list_append and blorp_string_append_int.
ListAppend(r, c, x, e) ==
    /\ Running
    /\ c \in Fresh(x)
    /\ CopyInto(r, c, Append(values[x], e))

\* blorp_list_append_take_left: `to` is the copy's address, or the address
\* the grown root has.
ListAppendTakeLeft(h, r, to, e) ==
    /\ Running
    /\ IF Shared(held[h])
       THEN to \in Fresh(held[h]) /\ CopyAndDrop(h, r, to, Append(values[held[h]], e))
       ELSE GrowInPlace(h, r, to, <<e>>)

\* blorp_list_concat and blorp_string_concat.
ListConcat(r, c, x, y) ==
    /\ Running
    /\ c \in Fresh(x)
    /\ CopyInto(r, c, values[x] \o values[y])

\* blorp_list_concat_take_left and blorp_string_concat_take_left.  The right
\* operand's slots are read after the left root has been reallocated.
ListConcatTakeLeft(h, r, to, y) ==
    /\ Running
    /\ IF Shared(held[h])
       THEN /\ to \in Fresh(held[h])
            /\ CopyAndDrop(h, r, to, values[held[h]] \o values[y])
       ELSE GrowInPlace(h, r, to, Relocated(held[h], to)[y])

\* The slots of x after a set; an invalid index leaves them as they are.
WithElement(x, i, e) ==
    [j \in DOMAIN values[x] |-> IF j = i THEN e ELSE values[x][j]]

\* blorp_list_set.
ListSet(r, c, x, i, e) ==
    /\ Running
    /\ c \in Fresh(x)
    /\ CopyInto(r, c, WithElement(x, i, e))

\* blorp_list_set in place: the replacement is acquired before the old
\* occurrence is destroyed, which may be the last of its node.  The code
\* writes the slot when the drop returns; its loop cannot reach this root.
SetInPlace(h, r, i, e) ==
    LET n == held[h]
        old == values[n][i]
        counts == Acquired(<<e>>)
    IN  /\ r \in Spare
        /\ references' = IF old \in Node THEN Released(counts, old) ELSE counts
        /\ destroying' = IF old \in Node /\ Destroys(counts, old)
                         THEN Append(destroying, old) ELSE destroying
        /\ empty_owners' = empty_owners + Occurrences(<<e>>, EmptyRoot) - IsEmptyRoot(old)
        /\ values' = [values EXCEPT ![n][i] = e]
        /\ held' = [held EXCEPT ![h] = None, ![r] = n]
        /\ UNCHANGED <<live, exit_status>>

\* blorp_list_set_take_left: an invalid index returns the operand itself.
ListSetTakeLeft(h, r, c, i, e) ==
    /\ Running
    /\ IF Shared(held[h])
       THEN c \in Fresh(held[h]) /\ CopyAndDrop(h, r, c, WithElement(held[h], i, e))
       ELSE /\ c = held[h]
            /\ IF i \in DOMAIN values[held[h]]
               THEN SetInPlace(h, r, i, e)
               ELSE /\ r \in Spare
                    /\ held' = [held EXCEPT ![h] = None, ![r] = held[h]]
                    /\ UNCHANGED <<heap, exit_status>>

-----------------------------------------------------------------------------
(* Destruction: the drop loop of the innermost root being destroyed.       *)

Innermost == destroying[Len(destroying)]

Outer == SubSeq(destroying, 1, Len(destroying) - 1)

\* Fault: a boxed union's child is dropped by a call of its own.
UndestroyedWithChild(c) == {i \in DOMAIN values[c] : values[c][i] \in Node}

\* The slots that the loop has still to drop; it saves the child of a boxed
\* union instead.
Undestroyed(c) ==
    {i \in DOMAIN values[c] : values[c][i] \in Node /\ ~IsChild(c, values[c][i])}

\* The loop's next slot: one drop of its occurrence, whose own loop runs
\* first if that was the last reference.
DestroySlot(i) ==
    LET c == Innermost
        n == values[c][i]
    IN  /\ destroying # <<>>
        /\ i \in Undestroyed(c)
        /\ \A j \in Undestroyed(c) : i <= j
        /\ values' = [values EXCEPT ![c][i] = None]
        /\ references' = Released(references, n)
        /\ destroying' = IF Destroys(references, n)
                         THEN Append(destroying, n) ELSE destroying
        /\ empty_owners' = empty_owners - IsEmptyRoot(n)
        /\ UNCHANGED <<live, held, exit_status>>

\* After the loop blorp_memory_release gives the root's storage back.
ReleaseRoot ==
    /\ destroying # <<>>
    /\ \A i \in DOMAIN values[Innermost] : values[Innermost][i] \notin Node
    /\ live' = live \ {Innermost}
    /\ values' = [values EXCEPT ![Innermost] = <<>>]
    /\ destroying' = Outer
    /\ UNCHANGED <<references, held, empty_owners, exit_status>>

\* Fault: the walk goes on with a child that has other references.
ReleaseNodeWalksOn(i) ==
    LET c == Innermost
        n == values[c][i]
    IN  /\ destroying # <<>>
        /\ Undestroyed(c) = {}
        /\ i \in DOMAIN values[c] /\ IsChild(c, n)
        /\ live' = live \ {c}
        /\ values' = [values EXCEPT ![c] = <<>>]
        /\ references' = Released(references, n)
        /\ destroying' = Append(Outer, n)
        /\ UNCHANGED <<held, empty_owners, exit_status>>

\* A boxed union's root is given back before its child, in slot i, is dropped:
\* at its last reference the same loop goes on with the child.
ReleaseNode(i) ==
    LET c == Innermost
        n == values[c][i]
    IN  /\ destroying # <<>>
        /\ Undestroyed(c) = {}
        /\ i \in DOMAIN values[c] /\ IsChild(c, n)
        /\ live' = live \ {c}
        /\ values' = [values EXCEPT ![c] = <<>>]
        /\ references' = Released(references, n)
        /\ destroying' = IF Destroys(references, n) THEN Append(Outer, n) ELSE Outer
        /\ UNCHANGED <<held, empty_owners, exit_status>>

-----------------------------------------------------------------------------
\* Fault: the owners of empty roots, which own no storage, are not checked.
FinishWithoutEmptyRoots ==
    /\ Running
    /\ exit_status' = IF (\A l \in Literal : references[l] = LiteralBase) /\ live = {}
                      THEN "balanced" ELSE "leak"
    /\ UNCHANGED <<heap, held>>

\* blorp_program_finish under BLORP_LEAK_CHECK=strict: the literals, then the
\* empty roots, then the allocator's own accounting.  "leak" is status 99.
ProgramFinish ==
    /\ Running
    /\ exit_status' = IF /\ \A l \in Literal : references[l] = LiteralBase
                         /\ empty_owners = 0
                         /\ live = {}
                      THEN "balanced" ELSE "leak"
    /\ UNCHANGED <<heap, held>>

Init ==
    /\ references = [n \in Node |-> IF n \in Literal THEN LiteralBase ELSE 0]
    /\ values = [n \in Node |-> IF n \in Literal THEN LiteralText[n] ELSE <<>>]
    /\ live = {}
    /\ held = [h \in Handle |-> None]
    /\ destroying = <<>>
    /\ empty_owners = 0
    /\ exit_status = None

Index == 1..MaxLength

\* What the program may call, and with which operands: a consumed operand is
\* an obligation it holds, a borrowed one is backed by another obligation.
Make(r) ==
    \/ \E l \in Literal : StringLiteral(r, l)
    \/ \E e \in EmptyRoot : EmptyList(r, e)
    \/ \E n \in Backed({}) : Dup(r, n)
    \/ \E x \in Operands({}), i \in Index : ListGet(r, x, i)
    \/ \E c \in Cell \ live, k \in Index :
          \/ /\ Layout[c] \in Updatable /\ Stores[Layout[c]] = {}
             /\ \E text \in [1..k -> Atom] : StringFromBytes(r, c, text)
          \/ \E hs \in [1..k -> Holding] : Construct(r, c, hs)
    \/ \E c \in Cell \ live, count \in 0..MaxLength :
          /\ Layout[c] \in Updatable
          /\ \E e \in Storable(Layout[c], {}) : ListRepeat(r, c, e, count)

Update(r) ==
    \E x \in Operands({}) : \E c \in Fresh(x) :
        \/ \E start \in 0..MaxLength : ListSuffix(r, c, x, start)
        \/ \E e \in Storable(Layout[x], {}) : ListAppend(r, c, x, e)
        \/ \E e \in Storable(Layout[x], {}), i \in Index : ListSet(r, c, x, i, e)
        \/ \E y \in Operands({}) : Layout[y] = Layout[x] /\ ListConcat(r, c, x, y)

UpdateTakeLeft(r) ==
    \E h \in Holding : \E to \in Fresh(held[h]) \cup {held[h]} :
        /\ Layout[held[h]] \in Updatable
        /\ \/ \E e \in Storable(Layout[held[h]], {h}) : ListAppendTakeLeft(h, r, to, e)
           \/ \E e \in Storable(Layout[held[h]], {h}), i \in Index :
                 ListSetTakeLeft(h, r, to, i, e)
           \/ \E y \in Operands({h}) :
                 Layout[y] = Layout[held[h]] /\ ListConcatTakeLeft(h, r, to, y)

Destroy == ReleaseRoot \/ \E i \in Index : DestroySlot(i) \/ ReleaseNode(i)

Next ==
    \/ \E r \in Spare : Make(r) \/ Update(r) \/ UpdateTakeLeft(r)
    \/ \E h \in Holding : Drop(h)
    \/ Destroy
    \/ ProgramFinish

Spec == Init /\ [][Next]_vars

-----------------------------------------------------------------------------
(* Properties.                                                             *)

HandlesOf(N) == {h \in Handle : held[h] \in N}

SlotsOf(N) ==
    {p \in Cell \X Index : p[2] \in DOMAIN values[p[1]] /\ values[p[1]][p[2]] \in N}

\* The obligations and the slots that are for one of the nodes N.
Owners(N) == Cardinality(HandlesOf(N)) + Cardinality(SlotsOf(N))

Base(n) == IF n \in Literal THEN LiteralBase ELSE 0

\* Every variable has the shape the runtime's structures give it.
TypeOK ==
    /\ references \in [Node -> Nat]
    /\ values \in [Node -> Seq(Slot)]
    /\ \A n \in Node : Len(values[n]) <= MaxLength
    /\ live \subseteq Cell
    /\ held \in [Handle -> Node \cup {None}]
    /\ destroying \in Seq(Cell)
    /\ empty_owners \in Int
    /\ exit_status \in {None, "balanced", "leak"}

\* A counted root's count is exactly the number of obligations and slots that
\* are for it (plus a literal's base), whatever mixture of copying, in-place
\* and relocating updates led here: no dup or drop is missed or made twice.
\* The diagnostic counter is exact in the same way for the empty roots.
CountExact ==
    /\ \A n \in Cell \cup Literal : references[n] = Base(n) + Owners({n})
    /\ empty_owners = Owners(EmptyRoot)

\* Nothing is for storage that has been given back: every node a handle holds,
\* a slot stores or a drop loop is walking is allocated or static.
NoDangling ==
    /\ \A h \in Holding : held[h] \in Cell => held[h] \in live
    /\ \A c \in Cell : \A i \in DOMAIN values[c] :
          values[c][i] \in Cell => values[c][i] \in live
    /\ \A i \in DOMAIN destroying : destroying[i] \in live

\* A root is destroyed exactly once and none is forgotten: the allocated roots
\* nobody counts are those whose drop loop is running, each on it once.
DestroyedOnce ==
    /\ \A c \in live : references[c] = 0 <=> \E i \in DOMAIN destroying : destroying[i] = c
    /\ \A i, j \in DOMAIN destroying : destroying[i] = destroying[j] => i = j

\* Values never form cycles, although types are recursive and unique roots
\* are updated in place, so counting reclaims every root: among any roots
\* there is one that no slot of the others, or of its own, is for.
NoCycles ==
    \A S \in SUBSET Cell : S # {} =>
        \E c \in S : \A d \in S : \A i \in DOMAIN values[d] : values[d][i] # c

\* Destroying a chain of boxed unions takes no stack: the drop loop of one
\* never runs directly inside the loop of another of its layout.
ChainsUnwind ==
    \A i \in DOMAIN destroying : i > 1 => ~IsChild(destroying[i - 1], destroying[i])

\* The static roots are never written: the uniqueness test of the take_left
\* helpers sends every update of a literal or an empty root to the copy.
StaticsUntouched ==
    /\ \A l \in Literal : values[l] = LiteralText[l] /\ references[l] >= LiteralBase
    /\ \A e \in EmptyRoot : values[e] = <<>> /\ references[e] = 0

\* The strict leak check is exact: a finished program is reported balanced if
\* and only if it discharged every obligation, those for literals and empty
\* roots included, which own no storage of the program's.
LeakCheckExact ==
    exit_status # None => (exit_status = "balanced" <=> Holding = {})

-----------------------------------------------------------------------------
(* What makes the properties inductive.                                    *)

\* A cell the allocator has not handed out has no count and no slots.
DeadIsEmpty == \A c \in Cell \ live : references[c] = 0 /\ values[c] = <<>>

\* A boxed union's root has at most one child.
OneChild ==
    \A c \in Cell : \A i, j \in DOMAIN values[c] :
        IsChild(c, values[c][i]) /\ IsChild(c, values[c][j]) => i = j

\* No drop loop is left running when the program has finished.
FinishedIdle == exit_status # None => destroying = <<>>

HeapInvariant ==
    /\ TypeOK /\ CountExact /\ NoDangling /\ DestroyedOnce /\ NoCycles
    /\ StaticsUntouched /\ DeadIsEmpty /\ OneChild /\ FinishedIdle /\ LeakCheckExact

=============================================================================
