--------------------------- MODULE AllocationSites ---------------------------
(***************************************************************************)
(* The allocations stage: the diagnostic runtime counts allocations by     *)
(* stack, allocation-sites names each stack by its innermost compiled      *)
(* function and the helper that function called, and prints the busiest    *)
(* pairs; report.py reads the pairs back and adds them up by data kind.    *)
(*                                                                         *)
(* A frame is a symbol, innermost first: the allocator, a runtime helper   *)
(* of some family, a compiled function, or C code outside them.            *)
(***************************************************************************)
EXTENDS Naturals, Sequences, FiniteSetsExt

CONSTANTS
    Stacks,         \* allocation stacks, innermost frame first
    CompiledFrame,  \* frames of compiled functions, blorp_f_N
    Allocator,      \* frames whose name begins with blorp_memory_
    FamilyOf,       \* runtime helper -> the family in its name
    LabelOf,        \* compiled function -> its module.function comment
    Sizes,          \* bytes of one allocation
    Top,            \* --top of allocation-sites
    MaxAllocations  \* bound: allocations of one execution

VARIABLES
    report,     \* stack -> allocations, bytes and resizes, as the program writes them
    by_helper,  \* (site, helper) -> the same, added up
    rows,       \* the pairs whose rows are in sites.txt
    phase       \* "run", then "done"

vars == <<report, by_helper, rows, phase>>

Zero == [count |-> 0, size |-> 0, resizes |-> 0]

\* The sum of cells[k] over the keys.
Total(cells, keys) ==
    [count |-> MapThenSumSet(LAMBDA k : cells[k].count, keys),
     size |-> MapThenSumSet(LAMBDA k : cells[k].size, keys),
     resizes |-> MapThenSumSet(LAMBDA k : cells[k].resizes, keys)]

Init ==
    /\ report = [s \in Stacks |-> Zero]
    /\ by_helper = <<>>
    /\ rows = {}
    /\ phase = "run"

CallsMade == Total(report, Stacks).count + Total(report, Stacks).resizes

Allocate(stack, size) ==
    /\ phase = "run" /\ CallsMade < MaxAllocations
    /\ stack[1] # "blorp_memory_resize"
    /\ report' = [report EXCEPT ![stack].count = @ + 1, ![stack].size = @ + size]
    /\ UNCHANGED <<by_helper, rows, phase>>

Resize(stack) ==
    /\ phase = "run" /\ CallsMade < MaxAllocations
    /\ stack[1] = "blorp_memory_resize"
    /\ report' = [report EXCEPT ![stack].resizes = @ + 1]
    /\ UNCHANGED <<by_helper, rows, phase>>

-----------------------------------------------------------------------------
(* allocation-sites.                                                       *)

\* Fault: the helper is the function that called the allocator.
ClassifyInnerHelper(stack) ==
    LET compiled == {i \in DOMAIN stack : stack[i] \in CompiledFrame}
    IN  IF compiled = {} THEN <<"(no compiled caller)", "(direct)">>
        ELSE LET i == Min(compiled)
             IN  <<stack[i], IF i <= 2 THEN "(direct)" ELSE stack[2]>>

Classify(stack) ==
    LET compiled == {i \in DOMAIN stack : stack[i] \in CompiledFrame}
    IN  IF compiled = {} THEN <<"(no compiled caller)", "(direct)">>
        ELSE LET i == Min(compiled)
             IN  <<stack[i], IF i = 1 \/ stack[i - 1] \in Allocator THEN "(direct)" ELSE stack[i - 1]>>

\* Stacks with a line in the report.
Allocating == {s \in Stacks : report[s] # Zero}

\* main: the rows of the report, by site and helper.
Aggregate ==
    [pair \in {Classify(s) : s \in Allocating} |->
        Total(report, {s \in Allocating : Classify(s) = pair})]

\* print_table: the busiest pairs, at most Top of them.
Printed(table) ==
    {kept \in SUBSET DOMAIN table :
        /\ Cardinality(kept) = Min({Top, Cardinality(DOMAIN table)})
        /\ \A k \in kept, d \in DOMAIN table \ kept : table[k].count >= table[d].count}

ReadReport ==
    /\ phase = "run"
    /\ by_helper' = Aggregate
    /\ rows' \in Printed(by_helper')
    /\ phase' = "done"
    /\ UNCHANGED report

Next ==
    \/ \E s \in Stacks, n \in Sizes : Allocate(s, n)
    \/ \E s \in Stacks : Resize(s)
    \/ ReadReport

Spec == Init /\ [][Next]_vars

-----------------------------------------------------------------------------
(* report.py allocations.                                                  *)

Inline == "List (literal built inline)"

\* allocation_kind
AllocationKind(helper) ==
    CASE helper = "(direct)" -> Inline
      [] helper \in DOMAIN FamilyOf -> FamilyOf[helper]
      [] OTHER -> "other runtime"

\* The label of a row, without the number of the function.
Function(site) == IF site \in DOMAIN LabelOf THEN LabelOf[site] ELSE site

ByKind(kind) == Total(by_helper, {r \in rows : AllocationKind(r[2]) = kind})

Pairs(function, helper) ==
    Total(by_helper, {r \in rows : Function(r[1]) = function /\ r[2] = helper})

Kinds == {AllocationKind(r[2]) : r \in rows}

-----------------------------------------------------------------------------
(* Properties.                                                             *)

\* The kinds add up to the total that the program reported: no stack is lost
\* or counted twice on the way through two aggregations and a printed table.
KindsAddUp ==
    phase = "done" =>
        Total([k \in Kinds |-> ByKind(k)], Kinds) = Total(report, Stacks)

\* Who allocated: the compiled functions a stack passes through last, and what
\* they called, by the stacks themselves.
MadeBy(function, helper) ==
    {s \in Stacks : \E i \in DOMAIN s :
        /\ s[i] \in CompiledFrame /\ Function(s[i]) = function
        /\ \A j \in 1 .. i - 1 : s[j] \notin CompiledFrame
        /\ i > 1 /\ s[i - 1] = helper}

\* The row of a function and a helper holds what instances of the function had
\* allocated by calling the helper, however deep the helper went.
SitesAreExact ==
    phase = "done" =>
        \A function \in {LabelOf[f] : f \in CompiledFrame}, helper \in DOMAIN FamilyOf :
            Pairs(function, helper) = Total(report, MadeBy(function, helper))

=============================================================================
