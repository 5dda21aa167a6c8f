------------------------------- MODULE Verify -------------------------------
(***************************************************************************)
(* The ownership verifier (verify/verify.brp) run together with the        *)
(* program it accepts.  Every step is one operation of the owned IR whose  *)
(* checks the verifier passes, and at the same time that operation's       *)
(* effect on the counted heap.  No program is fixed: at each point every   *)
(* operation the verifier would accept there may come next, so the         *)
(* behaviours are the executions of all verified programs.                 *)
(*                                                                         *)
(* The verifier walks each block once from the state in front of it; its   *)
(* edge checks (yield, loop edge, return) make every path into a point     *)
(* agree on that point's state, so one path's state is the verifier's      *)
(* state on that path.  Only managed values are modelled.                  *)
(***************************************************************************)
EXTENDS Integers, Sequences, FiniteSets

CONSTANTS
    Cell, Literal, EmptyRoot, Handle, Atom, None, Layout, Stores, Updatable, Boxed,
    LiteralText, MaxLength, LiteralBase,
    MaxValues,      \* bound: values of one activation
    MaxOwners,      \* bound: owner identities of one activation
    MaxCalls,       \* bound: nested calls
    MaxBlocks       \* bound: nested joins and loops of one activation

VARIABLES
    references, values, live, held, destroying, empty_owners, exit_status,
    calls           \* the verifier's state in each activation, innermost last

heapVars == <<references, values, live, held, destroying, empty_owners, exit_status>>

vars == <<heapVars, calls>>

Heap == INSTANCE CountedHeap

(***************************************************************************)
(* An activation is a record of                                            *)
(*   known   the values defined so far: the node of each, and what its     *)
(*           ResultOwnership says it is borrowed from;                     *)
(*   owners  the owner identities introduced so far: the value each owns   *)
(*           and the obligation (heap handle) it is, or Discharged;        *)
(*   blocks  the join arms and loop bodies around the current operation.   *)
(***************************************************************************)

\* A value's source: an OwnedResult is reached through its owners only; a
\* parameter borrow, and a projection of one, is kept alive by the caller; a
\* projection of an owner's value is kept alive by that owner, the end of its
\* chain of projection_parents.
OwnedResult == None

Parameter == 0

Discharged == None

current == calls[Len(calls)]

Value(n, source) == [node |-> n, source |-> source]

Owner(v, h) == [value |-> v, handle |-> h]

ActiveOwnersOf(a) == {o \in DOMAIN a.owners : a.owners[o] # Discharged}

ActiveOwners == ActiveOwnersOf(current)

NodeOf(v) == current.known[v].node

\* Fault: a projection's parent lifetime is not followed to its owner.
BacksWithoutAncestry(a, b, v) ==
    IF b = Parameter THEN a.known[v].source = Parameter
    ELSE /\ b \in DOMAIN a.owners
         /\ \/ b \in ActiveOwnersOf(a) /\ a.owners[b].value = v
            \/ a.known[v].source = b

\* verify_borrow: in activation a, b keeps value v alive, where b is an active owner of v, the
\* active owner at the end of v's projection chain, or a parameter.
Backs(a, b, v) ==
    IF b = Parameter THEN a.known[v].source = Parameter
    ELSE b \in ActiveOwnersOf(a) /\ (a.owners[b].value = v \/ a.known[v].source = b)

\* Fault: the borrows are only checked before the operation's discharges.
BorrowableBefore(S) ==
    {v \in DOMAIN current.known :
        \E b \in {Parameter} \cup DOMAIN current.owners : Backs(current, b, v)}

\* The values an operation may borrow once it has discharged the owners S.
Borrowable(S) ==
    {v \in DOMAIN current.known :
        \E b \in ({Parameter} \cup DOMAIN current.owners) \ S : Backs(current, b, v)}

Borrowed(S) == {NodeOf(v) : v \in Borrowable(S)}

Operands(S) == {x \in Borrowed(S) : Layout[x] \in Updatable}

\* The elements an update of root x may store after discharging S.
ElementFor(x, S) ==
    IF Stores[Layout[x]] = {} THEN Atom ELSE {n \in Borrowed(S) : Layout[n] \in Stores[Layout[x]]}

Discharge(owners, S) ==
    [o \in DOMAIN owners |-> IF o \in S THEN Discharged ELSE owners[o]]

Continue(known, owners, blocks) ==
    /\ Len(known) <= MaxValues /\ Len(owners) <= MaxOwners
    /\ calls' = [calls EXCEPT ![Len(calls)] =
                    [known |-> known, owners |-> owners, blocks |-> blocks]]

\* Discharge the owners S, then introduce a value for node n and its owner,
\* which holds obligation h.
DefineOwned(S, n, h) ==
    Continue(Append(current.known, Value(n, OwnedResult)),
             Append(Discharge(current.owners, S), Owner(Len(current.known) + 1, h)),
             current.blocks)

-----------------------------------------------------------------------------
(* DefineValue.                                                            *)

StringDefinition(r, l) ==
    Heap!StringLiteral(r, l) /\ DefineOwned({}, l, r)

EmptyListDefinition(r, e) ==
    Heap!EmptyList(r, e) /\ DefineOwned({}, e, r)

HandleOf(o) == current.owners[o].handle

Consumed(os) == {os[i] : i \in DOMAIN os}

\* A list literal, record, variant or captured callable: discharge_payloads
\* takes the payload owners os in order, so none may occur twice.
ConstructDefinition(r, c, os) ==
    /\ \A i, j \in DOMAIN os : os[i] = os[j] => i = j
    /\ Heap!Construct(r, c, [i \in DOMAIN os |-> HandleOf(os[i])])
    /\ DefineOwned(Consumed(os), c, r)

\* A payload, list element or record field borrows from its parent and
\* introduces no owner.
ProjectionDefinition(v, b, i) ==
    /\ Heap!Running
    /\ Backs(current, b, v)
    /\ Stores[Layout[NodeOf(v)]] # {}
    /\ i \in DOMAIN values[NodeOf(v)]
    /\ Continue(Append(current.known, Value(values[NodeOf(v)][i], b)),
                current.owners, current.blocks)
    /\ UNCHANGED heapVars

\* A runtime operation that borrows every operand.
BorrowingCallDefinition(r, c, x) ==
    /\ \/ Heap!ListSuffix(r, c, x, 1)
       \/ \E e \in ElementFor(x, {}) : Heap!ListAppend(r, c, x, e) \/ Heap!ListSet(r, c, x, 1, e)
       \/ \E y \in Operands({}) : Layout[y] = Layout[x] /\ Heap!ListConcat(r, c, x, y)
    /\ DefineOwned({}, c, r)

\* A runtime operation that reuses its first operand, which owner o transfers
\* (ConsumedArgument).  discharge_call_arguments checks the other operands'
\* borrows again without o.
ReusingCallDefinition(r, to, o) ==
    LET x == held[HandleOf(o)]
    IN  /\ Layout[x] \in Updatable
        /\ \/ \E e \in ElementFor(x, {o}) :
                 \/ Heap!ListAppendTakeLeft(HandleOf(o), r, to, e)
                 \/ Heap!ListSetTakeLeft(HandleOf(o), r, to, 1, e)
           \/ \E y \in Operands({o}) :
                 Layout[y] = Layout[x] /\ Heap!ListConcatTakeLeft(HandleOf(o), r, to, y)
        /\ DefineOwned({o}, to, r)

-----------------------------------------------------------------------------
(* AcquireOwner and DropOwner.                                             *)

\* Fault: the new owner is introduced without a dup.
AcquireWithoutDup(r, v, b) ==
    /\ Backs(current, b, v)
    /\ Heap!Running /\ r \in Heap!Spare
    /\ held' = [held EXCEPT ![r] = NodeOf(v)]
    /\ Continue(current.known, Append(current.owners, Owner(v, r)), current.blocks)
    /\ UNCHANGED <<references, values, live, destroying, empty_owners, exit_status>>

AcquireOwner(r, v, b) ==
    /\ Backs(current, b, v)
    /\ Heap!Dup(r, NodeOf(v))
    /\ Continue(current.known, Append(current.owners, Owner(v, r)), current.blocks)

DropOwner(o) ==
    /\ o \in ActiveOwners
    /\ Heap!Drop(HandleOf(o))
    /\ Continue(current.known, Discharge(current.owners, {o}), current.blocks)

-----------------------------------------------------------------------------
(* Joins.  The arms start from the state in front of the join; the         *)
(* continuation starts from that state without the entering owners, plus   *)
(* one owned value for each output.                                        *)

Join(entering) ==
    [kind |-> "join", known |-> Len(current.known), owners |-> current.owners,
     entering |-> entering, headers |-> 0]

ExecuteJoin(entering) ==
    /\ Heap!Running
    /\ entering \subseteq ActiveOwners
    /\ Len(current.blocks) < MaxBlocks
    /\ Continue(current.known, current.owners, Append(current.blocks, Join(entering)))
    /\ UNCHANGED heapVars

\* An arm entered through a selection edge with an input: the edge projects
\* the scrutinee v, which b backs, acquires the projection and transfers it,
\* so the arm begins with one owned value.
ExecuteJoinBinding(entering, r, v, b, i) ==
    LET n == values[NodeOf(v)][i]
    IN  /\ entering \subseteq ActiveOwners
        /\ Len(current.blocks) < MaxBlocks
        /\ Backs(current, b, v)
        /\ Stores[Layout[NodeOf(v)]] # {} /\ i \in DOMAIN values[NodeOf(v)]
        /\ Heap!Dup(r, n)
        /\ Continue(Append(current.known, Value(n, OwnedResult)),
                    Append(current.owners, Owner(Len(current.known) + 1, r)),
                    Append(current.blocks, Join(entering)))

block == current.blocks[Len(current.blocks)]

\* The state in front of a block, its owners S discharged since, and one new
\* value for each transferred owner of ts, which takes over its obligation.
Publish(start, S, ts, blocks) ==
    Continue(SubSeq(current.known, 1, start.known)
                 \o [i \in DOMAIN ts |-> Value(NodeOf(current.owners[ts[i]].value), OwnedResult)],
             Discharge(start.owners, S)
                 \o [i \in DOMAIN ts |-> Owner(start.known + i, HandleOf(ts[i]))],
             blocks)

\* consume_yield for each output in order: an active owner above `floor`, at
\* most once.
Transferable(ts, floor) ==
    /\ \A i \in DOMAIN ts : ts[i] \in ActiveOwners /\ ts[i] > floor
    /\ \A i, j \in DOMAIN ts : ts[i] = ts[j] => i = j

\* complete_owners: no owner above `floor` is left besides the transferred.
Complete(ts, floor) ==
    \A o \in ActiveOwners : o > floor => o \in Consumed(ts)

\* Fault: an arm may leave an entering owner live.
DischargesOnlyEntering(start) ==
    {o \in DOMAIN start.owners : start.owners[o] # Discharged /\ o \notin ActiveOwners}
        \subseteq start.entering

\* verify_entering_discharges: of the owners the arm was entered with, those
\* discharged in it are exactly the join's entering owners.
DischargesEntering(start) ==
    start.entering = {o \in DOMAIN start.owners : start.owners[o] # Discharged /\ o \notin ActiveOwners}

Yield(ts) ==
    /\ Heap!Running
    /\ current.blocks # <<>> /\ block.kind = "join"
    /\ Transferable(ts, Len(block.owners))
    /\ Complete(ts, Len(block.owners))
    /\ DischargesEntering(block)
    /\ Publish(block, block.entering, ts, SubSeq(current.blocks, 1, Len(current.blocks) - 1))
    /\ UNCHANGED heapVars

-----------------------------------------------------------------------------
(* Loops.  A header takes an existing owner (transfer_loop_entry) or an    *)
(* entry acquisition made for it (initialize_loop).                        *)

Loop(owners, headers) ==
    [kind |-> "loop", known |-> Len(current.known), owners |-> owners,
     entering |-> {}, headers |-> headers]

\* The header values follow the state in front of the loop: for each owner of
\* `taken` the value it owned, then the acquired node, if any.
EnterLoop(taken, acquired) ==
    LET pre == Discharge(current.owners, Consumed(taken))
        first == Len(current.known)
    IN  /\ Len(current.blocks) < MaxBlocks
        /\ Transferable(taken, 0)
        /\ Continue(current.known
                        \o [i \in DOMAIN taken |->
                              Value(NodeOf(current.owners[taken[i]].value), OwnedResult)]
                        \o [i \in DOMAIN acquired |-> Value(held'[acquired[i]], OwnedResult)],
                    pre \o [i \in DOMAIN taken |-> Owner(first + i, HandleOf(taken[i]))]
                        \o [i \in DOMAIN acquired |->
                              Owner(first + Len(taken) + i, acquired[i])],
                    Append(current.blocks, Loop(pre, Len(taken) + Len(acquired))))

ExecuteLoop(taken) ==
    /\ Heap!Running
    /\ UNCHANGED heapVars
    /\ EnterLoop(taken, <<>>)

\* The acquisition borrows in the state that the taken owners have left.
ExecuteLoopAcquiring(taken, r, v, b) ==
    /\ Backs(current, b, v) /\ b \notin Consumed(taken)
    /\ Heap!Dup(r, NodeOf(v))
    /\ EnterLoop(taken, <<r>>)

\* The innermost loop around the current operation: an arm of a join inside
\* its body may leave by it too (TransferLoop).
LoopAt(k) ==
    /\ k \in DOMAIN current.blocks /\ current.blocks[k].kind = "loop"
    /\ \A j \in DOMAIN current.blocks : j > k => current.blocks[j].kind = "join"

\* Fault: an edge may discharge an owner captured from before the loop.
LoopEdgeAnyCapture(loop, ts) ==
    /\ Transferable(ts, Len(loop.owners))
    /\ Complete(ts, Len(loop.owners))

\* complete_loop_owners: no owner captured from before the loop is discharged
\* on the edge, and every loop-local one is discharged or transferred.
LoopEdge(loop, ts) ==
    /\ Transferable(ts, Len(loop.owners))
    /\ \A o \in DOMAIN loop.owners : loop.owners[o] # Discharged => o \in ActiveOwners
    /\ Complete(ts, Len(loop.owners))

\* Recur feeds the headers again; there are as many as the loop began with.
Recur(k, ts) ==
    /\ Heap!Running
    /\ LoopAt(k) /\ LoopEdge(current.blocks[k], ts)
    /\ Len(ts) = current.blocks[k].headers
    /\ Publish(current.blocks[k], {}, ts, SubSeq(current.blocks, 1, k))
    /\ UNCHANGED heapVars

Break(k, ts) ==
    /\ Heap!Running
    /\ LoopAt(k) /\ LoopEdge(current.blocks[k], ts)
    /\ Publish(current.blocks[k], {}, ts, SubSeq(current.blocks, 1, k - 1))
    /\ UNCHANGED heapVars

-----------------------------------------------------------------------------
(* Calls of user functions.  An owned row of the callee must receive a     *)
(* transfer, a borrowed row must not.                                      *)

\* discharge_call_arguments: the owners in `owned` are distinct, and every
\* borrow is still backed when all of them are discharged.
CallDefinition(owned, borrowed) ==
    /\ Heap!Running
    /\ Len(calls) < MaxCalls
    /\ Transferable(owned, 0)
    /\ \A i \in DOMAIN borrowed : borrowed[i] \in Borrowable(Consumed(owned))
    /\ calls' =
          Append([calls EXCEPT ![Len(calls)].owners = Discharge(@, Consumed(owned))],
                 [known |-> [i \in DOMAIN owned |->
                               Value(NodeOf(current.owners[owned[i]].value), OwnedResult)]
                            \o [i \in DOMAIN borrowed |-> Value(NodeOf(borrowed[i]), Parameter)],
                  owners |-> [i \in DOMAIN owned |-> Owner(i, HandleOf(owned[i]))],
                  blocks |-> <<>>])
    /\ UNCHANGED heapVars

\* verify_return: every owner is discharged except the one the result moves
\* to the caller, where it becomes the call's owned result.
Return(ts) ==
    /\ Heap!Running
    /\ current.blocks = <<>>
    /\ Transferable(ts, 0)
    /\ Complete(ts, 0)
    /\ IF Len(calls) = 1
       THEN ts = <<>> /\ calls' = <<>>
       ELSE LET caller == calls[Len(calls) - 1]
            IN  /\ Len(caller.known) + Len(ts) <= MaxValues
                /\ Len(caller.owners) + Len(ts) <= MaxOwners
                /\ calls' = [SubSeq(calls, 1, Len(calls) - 1) EXCEPT
                       ![Len(calls) - 1] =
                          [caller EXCEPT
                             !.known = @ \o [i \in DOMAIN ts |->
                                 Value(NodeOf(current.owners[ts[i]].value), OwnedResult)],
                             !.owners = @ \o [i \in DOMAIN ts |->
                                 Owner(Len(caller.known) + i, HandleOf(ts[i]))]]]
    /\ UNCHANGED heapVars

-----------------------------------------------------------------------------
\* The entry function takes no argument and returns an unmanaged status.
Init ==
    /\ Heap!Init
    /\ calls = << [known |-> <<>>, owners |-> <<>>, blocks |-> <<>>] >>

\* Bound: an edge or call moves at most two obligations.
OwnerLists == {<<>>} \cup {<<o>> : o \in ActiveOwners}
                     \cup {<<o, p>> : o \in ActiveOwners, p \in ActiveOwners}

ValueLists == {<<>>} \cup {<<v>> : v \in DOMAIN current.known}

Define ==
    \E r \in Heap!Spare :
        \/ \E l \in Literal : StringDefinition(r, l)
        \/ \E e \in EmptyRoot : EmptyListDefinition(r, e)
        \/ \E c \in Cell \ live, os \in OwnerLists \ {<<>>} : ConstructDefinition(r, c, os)
        \/ \E x \in Operands({}) : \E c \in Heap!Fresh(x) : BorrowingCallDefinition(r, c, x)
        \/ \E o \in ActiveOwners, to \in Cell : ReusingCallDefinition(r, to, o)
        \/ \E v \in DOMAIN current.known, b \in {Parameter} \cup ActiveOwners :
              \/ AcquireOwner(r, v, b)
              \/ \E taken \in OwnerLists : ExecuteLoopAcquiring(taken, r, v, b)
              \/ \E entering \in SUBSET ActiveOwners, i \in Heap!Index :
                    ExecuteJoinBinding(entering, r, v, b, i)

Control ==
    \/ \E v \in DOMAIN current.known, b \in {Parameter} \cup ActiveOwners, i \in Heap!Index :
          ProjectionDefinition(v, b, i)
    \/ \E o \in ActiveOwners : DropOwner(o)
    \/ \E entering \in SUBSET ActiveOwners : ExecuteJoin(entering)
    \/ \E ts \in OwnerLists :
          \/ Yield(ts)
          \/ ExecuteLoop(ts)
          \/ \E k \in DOMAIN current.blocks : Recur(k, ts) \/ Break(k, ts)
          \/ Return(ts)
          \/ \E vs \in ValueLists : CallDefinition(ts, vs)

Next ==
    \/ calls # <<>> /\ (Define \/ Control)
    \/ Heap!Destroy /\ UNCHANGED calls
    \/ calls = <<>> /\ Heap!ProgramFinish /\ UNCHANGED calls

Spec == Init /\ [][Next]_vars

-----------------------------------------------------------------------------
(* Properties.                                                             *)

\* The active owners of all activations, each with its activation.
AllActive ==
    UNION {{[call |-> d, owner |-> o] : o \in ActiveOwnersOf(calls[d])} : d \in DOMAIN calls}

ObligationOf(t) == calls[t.call].owners[t.owner].handle

\* The verifier's owners are the program's obligations: each active owner of
\* each activation holds one obligation, for the node of the value it owns; no
\* two share one; and every obligation has an owner that will discharge it.
OwnersAreObligations ==
    /\ \A t \in AllActive :
          held[ObligationOf(t)] = calls[t.call].known[calls[t.call].owners[t.owner].value].node
    /\ \A t, u \in AllActive : ObligationOf(t) = ObligationOf(u) => t = u
    /\ Heap!Holding = {ObligationOf(t) : t \in AllActive}

Readable(a) == {v \in DOMAIN a.known : \E b \in {Parameter} \cup DOMAIN a.owners : Backs(a, b, v)}

\* Whatever the verifier would accept a borrow of, in this activation or in
\* a caller's, is storage that has not been given back, elements included.
BorrowsAreLive ==
    \A d \in DOMAIN calls : \A v \in Readable(calls[d]) :
        LET n == calls[d].known[v].node
        IN  /\ n \in Cell => n \in live
            /\ \A i \in DOMAIN values[n] : values[n][i] \in Cell => values[n][i] \in live

\* A value that can be read before and after a step reads the same: updates
\* in place are never seen through another name of the value, in this
\* activation or in a caller's.
ReadableUnchanged ==
    [][\A d \in DOMAIN calls \cap DOMAIN calls' :
         \A v \in Readable(calls[d]) \cap Readable(calls'[d]) :
            calls[d].known[v] = calls'[d].known[v] =>
                \A n \in Heap!Reachable({calls[d].known[v].node}) :
                    values'[n] = values[n]]_vars

\* A program the verifier accepts discharges every obligation: the strict
\* leak check never reports one.
NeverLeaks == exit_status # "leak"

\* The verifier's checks imply the contract of the runtime's helpers: every
\* consumed operand is a held obligation and every borrowed one is backed by
\* an obligation that the call does not consume.
KeepsHeapContract == Heap!Spec

=============================================================================
