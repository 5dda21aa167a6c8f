----------------------------- MODULE Insertion -----------------------------
(***************************************************************************)
(* Ownership insertion (own/own.brp) of one block: a function's body, or a *)
(* yielding arm of a join.  The block's steps are inserted one after       *)
(* another; each becomes its operation with the acquisitions before or     *)
(* after it and the drops of the owners whose last use it is.              *)
(*                                                                         *)
(* A program is [entering, inputs, steps, outputs].  Its values are        *)
(* numbered: first the enclosing values whose obligations enter the arm,   *)
(* then the arm's inputs, then one value of each step.  A step is          *)
(* [op, args, owned]; owned says which arguments a call's contract owns,   *)
(* or which are a loop's header initials (the other arguments of a loop    *)
(* are reads of its body).  Every value is managed.  The bodies of nested  *)
(* joins and loops are not inserted here.                                  *)
(***************************************************************************)
EXTENDS Integers, Sequences, FiniteSets, FiniteSetsExt, SequencesExt

CONSTANTS
    Blocks,         \* what a block starts from: pairs <<entering, inputs>>
    StepsAfter(_),  \* the steps that lowering may write after those of a program
    OutputsOf(_)    \* the outputs it may give to a program

VARIABLES
    program,
    position,       \* the step to insert: -1 while the block is written, 0 at its entry
    operations,     \* the block's OwnershipOperations so far
    sources,        \* the ResultOwnership of each value so far
    drops,          \* per step, the owners whose last use it is
    consumed,       \* owners discharged before the step that was their last use
    next_owner,
    leaving         \* the owners that leave on the edge, in the outputs' order

vars == <<program, position, operations, sources, drops, consumed, next_owner, leaving>>

Count == Len(program.steps)

End == Count + 1

Step == program.steps[position]

NewValue == Len(sources) + 1

ValueOf(i) == program.entering + program.inputs + i

Values == 1 .. ValueOf(Count)

-----------------------------------------------------------------------------
(* Uses.                                                                   *)

\* block_uses and enclosing_owner_uses: the last reader, End when the edge is
\* it, 0 when there is none.
LastUse(v) ==
    Max({0} \cup {i \in 1 .. Count : v \in Range(program.steps[i].args)}
            \cup {i \in {End} : v \in Range(program.outputs)})

\* borrowed_extents: the last use of the value or of a projection from it.
\* A use of an entering value is not extended.
Extent(v) ==
    LET extent[w \in Values] ==
            Max({LastUse(w)} \cup
                {extent[ValueOf(i)] :
                    i \in {j \in 1 .. Count : /\ w > program.entering
                                              /\ program.steps[j].op = "ReadRecordField"
                                              /\ program.steps[j].args[1] = w}})
    IN  extent[v]

OwnedResult(o) == [kind |-> "OwnedResult", owner |-> o]

ParameterBorrow == [kind |-> "ParameterBorrow"]

PayloadBorrow(v) == [kind |-> "PayloadBorrow", parent |-> v]

OwnerBorrow(o) == [kind |-> "OwnerBorrow", owner |-> o]

Owned(v) == sources[v].kind = "OwnedResult"

\* The owner that keeps v alive, 0 for the caller of the function.
DependencyOwner(v) ==
    LET owner[w \in DOMAIN sources] ==
            CASE Owned(w) -> sources[w].owner
              [] sources[w].kind = "PayloadBorrow" -> owner[sources[w].parent]
              [] OTHER -> 0
    IN  owner[v]

Borrow(v) == [value |-> v, source |-> IF Owned(v) THEN OwnerBorrow(sources[v].owner) ELSE sources[v]]

\* transferable_here, in a block outside loops.
Transferable(ending, o) == o \in Range(ending) /\ o \notin consumed

\* Fault: only this step is searched for the end of the obligation.
RetirementHere(o) == IF Transferable(drops[position], o) THEN position ELSE End

\* The first point from this step on where the obligation may end.
Retirement(o) == Min({End} \cup {at \in position .. Count : Transferable(drops[at], o)})

\* Whether projection v may stay a borrow of its parent.
ProjectionLasts(v, parent) ==
    LET owner == DependencyOwner(parent)
    IN  \/ owner = 0
        \/ Extent(v) = 0
        \/ Extent(v) < Retirement(owner)
        \/ Retirement(owner) = End

-----------------------------------------------------------------------------
(* Operations; why is history.                                             *)

AcquireOwner(o, borrow, why) ==
    [kind |-> "AcquireOwner", owner |-> o, borrow |-> borrow, why |-> why]

DropOwner(o) == [kind |-> "DropOwner", owner |-> o]

\* The definition of a value: the owner it makes, 0 for none; the owners it
\* takes; the values it borrows.
DefineValue(op, o, takes, borrows) ==
    [kind |-> "DefineValue", id |-> NewValue, operation |-> op, owner |-> o,
     takes |-> takes, borrows |-> borrows]

\* ExecuteJoin takes the entering obligations; ExecuteLoop, the owners of its
\* initials, and acquires the others at its entry.
Execute(kind, o, takes, borrows, entry) ==
    [kind |-> kind, owner |-> o, takes |-> takes, borrows |-> borrows, entry |-> entry]

-----------------------------------------------------------------------------
(* Steps.                                                                  *)

\* A use at the edge keeps the obligation; an unused result is dropped here.
Schedule(available) ==
    LET until == IF LastUse(NewValue) = 0 THEN position ELSE LastUse(NewValue)
    IN  IF available.kind = "OwnedResult" /\ until <= Count
        THEN [drops EXCEPT ![until] = Append(@, available.owner)]
        ELSE drops

\* Fault: an owner that the step took is dropped after it as well.
EndingAfterUnmoved(scheduled, taken, used) == SelectSeq(scheduled[position], LAMBDA o : o \notin used)

\* The owners that the step ends and neither it nor an earlier one took.
EndingAfter(scheduled, taken, used) ==
    SelectSeq(scheduled[position], LAMBDA o : o \notin used \cup taken)

\* The end of a step that made the operations ops and the value's source
\* available, moved the owners taken, and has used consumed.
Inserted(ops, available, taken, used, next) ==
    LET scheduled == Schedule(available)
        ended == EndingAfter(scheduled, taken, used)
    IN  /\ operations' = operations \o ops \o [k \in DOMAIN ended |-> DropOwner(ended[k])]
        /\ sources' = Append(sources, available)
        /\ drops' = scheduled
        /\ consumed' = used \cup {o \in Range(scheduled[position]) : o <= program.entering}
        /\ next_owner' = next
        /\ position' = position + 1
        /\ UNCHANGED <<program, leaving>>

\* The positions of the step's arguments that fill owned slots.
Slots ==
    CASE Step.op = "Construct" -> DOMAIN Step.args
      [] Step.op = "Call" -> {k \in DOMAIN Step.args : Step.owned[k]}
      [] Step.op = "Update" -> {1}
      [] OTHER -> {}

\* The owners behind the positions that only borrow.
BorrowedBackers == {DependencyOwner(Step.args[k]) : k \in DOMAIN Step.args \ Slots}

\* transfer, store_payloads and pass_arguments: the positions that move the
\* owner of their argument; of two that could, the first.
Moved ==
    {k \in Slots : /\ Owned(Step.args[k])
                   /\ Transferable(drops[position], sources[Step.args[k]].owner)
                   /\ sources[Step.args[k]].owner \notin BorrowedBackers
                   /\ \A j \in Slots : j < k => Step.args[j] # Step.args[k]}

\* The other owned slots acquire, in order; an operand updated in place stays
\* borrowed instead.
Acquisitions(slots, why) ==
    LET order == SetToSortSeq(slots, <)
    IN  [k \in DOMAIN order |-> AcquireOwner(next_owner + k - 1, Borrow(Step.args[order[k]]), why)]

DefineStep ==
    LET acquired == IF Step.op = "Update" THEN <<>>
                    ELSE Acquisitions(Slots \ Moved, IF Step.op = "Call" THEN "call" ELSE "stored")
        taken == {sources[Step.args[k]].owner : k \in Moved}
        borrowed == {Step.args[k] : k \in DOMAIN Step.args \ (IF Step.op = "Update" THEN Moved ELSE Slots)}
        owner == next_owner + Len(acquired)
        result == IF Step.op = "Parameter" THEN ParameterBorrow ELSE OwnedResult(owner)
        owns == IF Step.op = "Parameter" THEN 0 ELSE owner
    IN  /\ position \in 1 .. Count /\ Step.op \notin {"ReadRecordField", "Join", "Loop"}
        /\ Inserted(acquired \o <<DefineValue(Step.op, owns, taken \cup {acquired[k].owner : k \in DOMAIN acquired},
                                              borrowed)>>,
                    result, taken, consumed, IF owns = 0 THEN owner ELSE owner + 1)

\* A projection borrows from its parent, or acquires after its read.
ProjectStep ==
    LET parent == Step.args[1]
        borrow == [value |-> NewValue, source |-> PayloadBorrow(parent)]
        read == DefineValue(Step.op, 0, {}, {parent})
    IN  /\ position \in 1 .. Count /\ Step.op = "ReadRecordField"
        /\ IF ProjectionLasts(NewValue, parent)
           THEN Inserted(<<read>>, PayloadBorrow(parent), {}, consumed, next_owner)
           ELSE Inserted(<<read, AcquireOwner(next_owner, borrow, "projection")>>,
                         OwnedResult(next_owner), {}, consumed, next_owner + 1)

\* A join takes every obligation that may end at its step.
JoinStep ==
    LET entering == {o \in Range(drops[position]) : o \notin consumed}
    IN  /\ position \in 1 .. Count /\ Step.op = "Join"
        /\ Inserted(<<Execute("ExecuteJoin", next_owner, entering, Range(Step.args), <<>>)>>,
                    OwnedResult(next_owner), {}, consumed \cup entering, next_owner + 1)

\* A header takes its initial's owner when that may end here and backs no
\* other read of the loop; otherwise the loop acquires at its entry.
LoopStep ==
    LET headers == {k \in DOMAIN Step.args : Step.owned[k]}
        backed(o) == Cardinality({k \in DOMAIN Step.args : DependencyOwner(Step.args[k]) = o})
        taking == {k \in headers : /\ Owned(Step.args[k])
                                   /\ Transferable(drops[position], sources[Step.args[k]].owner)
                                   /\ backed(sources[Step.args[k]].owner) = 1}
        taken == {sources[Step.args[k]].owner : k \in taking}
        entry == Acquisitions(headers \ taking, "loop_entry")
        owner == next_owner + Len(entry)
    IN  /\ position \in 1 .. Count /\ Step.op = "Loop"
        /\ Inserted(<<Execute("ExecuteLoop", owner, taken, {Step.args[k] : k \in DOMAIN Step.args \ headers}, entry)>>,
                    OwnedResult(owner), {}, consumed \cup taken, owner + 1)

\* leave_join, and a function's return: an output moves its owner when the
\* edge retires it and no earlier output moved it; every other acquires.
\* Then the entering obligations that the edge read are dropped.
Leave ==
    LET outputs == program.outputs
        retiring == {v \in DOMAIN sources : v > program.entering /\ Owned(v) /\ LastUse(v) = End}
        moving == {k \in DOMAIN outputs : outputs[k] \in retiring /\ \A j \in 1 .. k - 1 : outputs[j] # outputs[k]}
        order == SetToSortSeq(DOMAIN outputs \ moving, <)
        acquired == [k \in DOMAIN order |-> AcquireOwner(next_owner + k - 1, Borrow(outputs[order[k]]), "block_end")]
        ended == SelectSeq([o \in 1 .. program.entering |-> o], LAMBDA o : LastUse(o) = End)
    IN  /\ position = End
        /\ operations' = operations \o acquired \o [k \in DOMAIN ended |-> DropOwner(ended[k])]
        /\ leaving' = [k \in DOMAIN outputs |->
                          IF k \in moving THEN sources[outputs[k]].owner
                          ELSE acquired[CHOOSE j \in DOMAIN order : order[j] = k].owner]
        /\ next_owner' = next_owner + Len(acquired)
        /\ position' = End + 1
        /\ UNCHANGED <<program, sources, drops, consumed>>

\* Inputs are dropped on entry when nothing reads them, and so are entering
\* obligations; the others are scheduled for their last read.
Enter ==
    LET given == program.entering + program.inputs
        order == [k \in 1 .. given |-> IF k <= program.inputs THEN program.entering + k ELSE k - program.inputs]
        unread == SelectSeq(order, LAMBDA v : LastUse(v) = 0)
    IN  /\ position = 0
        /\ position' = 1
        /\ sources' = [v \in 1 .. given |-> OwnedResult(v)]
        /\ next_owner' = given + 1
        /\ operations' = [k \in DOMAIN unread |-> DropOwner(unread[k])]
        /\ consumed' = {o \in 1 .. program.entering : LastUse(o) = 0}
        /\ drops' = [i \in 1 .. Count |-> SelectSeq(order, LAMBDA v : LastUse(v) = i)]
        /\ UNCHANGED <<program, leaving>>

\* Lowering writes the block.
Write ==
    /\ position = -1
    /\ \/ \E s \in StepsAfter(program) :
              program' = [program EXCEPT !.steps = Append(@, s)] /\ UNCHANGED position
       \/ \E out \in OutputsOf(program) :
              program' = [program EXCEPT !.outputs = out] /\ position' = 0
    /\ UNCHANGED <<operations, sources, drops, consumed, next_owner, leaving>>

Init ==
    /\ \E b \in Blocks :
          program = [entering |-> b[1], inputs |-> b[2], steps |-> <<>>, outputs |-> <<>>]
    /\ position = -1
    /\ operations = <<>>
    /\ sources = <<>>
    /\ drops = <<>>
    /\ consumed = {}
    /\ next_owner = 1
    /\ leaving = <<>>

Next == Write \/ Enter \/ DefineStep \/ ProjectStep \/ JoinStep \/ LoopStep \/ Leave

Spec == Init /\ [][Next]_vars

-----------------------------------------------------------------------------
(* Properties.                                                             *)

Done == position = End + 1

\* The owner a borrow depends on when it is taken.
Backer(borrow) ==
    CASE borrow.source.kind = "OwnerBorrow" -> borrow.source.owner
      [] borrow.source.kind = "PayloadBorrow" -> DependencyOwner(borrow.source.parent)
      [] OTHER -> 0

IsDefinition(op) == op.kind \in {"DefineValue", "ExecuteJoin", "ExecuteLoop"}

\* The owners that an operation ends the obligations of.
Discharges(op) ==
    CASE op.kind = "DropOwner" -> {op.owner}
      [] IsDefinition(op) -> op.takes
      [] OTHER -> {}

\* The owners that keep alive what an operation borrows.
Needs(op) ==
    (CASE op.kind = "AcquireOwner" -> {Backer(op.borrow)}
       [] op.kind = "ExecuteLoop" ->
            {DependencyOwner(v) : v \in op.borrows} \cup {Backer(op.entry[k].borrow) : k \in DOMAIN op.entry}
       [] IsDefinition(op) -> {DependencyOwner(v) : v \in op.borrows}
       [] OTHER -> {}) \ {0}

Given == 1 .. program.entering + program.inputs

\* Every obligation that enters the block, or that an operation makes, ends
\* exactly once, after it began: by a drop, in an operation that takes it, or
\* on the edge.  However values share, projections acquire and joins and loops
\* take over, nothing leaks and nothing is released twice.
ObligationsEndOnce ==
    Done => \A o \in (Given \cup {operations[i].owner : i \in DOMAIN operations}) \ {0} :
        LET begins == {i \in DOMAIN operations : operations[i].kind # "DropOwner" /\ operations[i].owner = o}
            ends == {i \in DOMAIN operations : o \in Discharges(operations[i])}
            edges == {k \in DOMAIN leaving : leaving[k] = o}
        IN  /\ Cardinality(ends) + Cardinality(edges) = 1
            /\ Cardinality(begins) = IF o \in Given THEN 0 ELSE 1
            /\ \A i \in begins, j \in ends : i < j

\* Whatever an operation borrows, or acquires from, is kept alive until after
\* it by an owner that is still live and that the operation does not take; a
\* join may take it, for its arms end the obligation after their last read.
BorrowsAreBacked ==
    Done => \A i \in DOMAIN operations :
                \A j \in 1 .. (IF operations[i].kind = "ExecuteJoin" THEN i - 1 ELSE i) :
                    Needs(operations[i]) \cap Discharges(operations[j]) = {}

=============================================================================
