------------------------------ MODULE RcTables ------------------------------
(***************************************************************************)
(* The counting programs of the rc stage and the tables that report.py     *)
(* makes of them.  The same self-compile runs twice: one program counts    *)
(* operations by kind and direction, the other also under its tag, which   *)
(* packs the function's number and the category's index.                   *)
(***************************************************************************)
EXTENDS Integers, FiniteSets, FiniteSetsExt, Bags, RcGroups

CONSTANTS
    Functions,          \* numbers N of compiled functions; 0 is code without a caller
    CategoryNames,      \* the categories in tag order, the first one "untagged"
    CategoryLimit,      \* CATEGORY_MASK + 1: at least as many, or Categories.number fails
    LabelOf(_),         \* the label of a function's number: labels.get, or its own name
    ModuleOf(_),        \* the part of a label before its first dot
    Top,                \* rows of the table of functions
    Leading,            \* the functions that concentration adds up: five
    Counted,            \* bound: the kinds of data that are counted
    MaxOperations       \* bound: counted operations

VARIABLES
    counts,     \* blorp_rc_counts: the bag of tags with a kind and a direction
    kinds,      \* blorp_rc_kind_counts of the other program
    happened,   \* history: the bag of operations: function, category, kind and direction
    rows,       \* what the counting program wrote when it ended
    report      \* what the tables hold

vars == <<counts, kinds, happened, rows, report>>

RC_KINDS == {"record", "list", "union", "string"}

KINDS == RC_KINDS \cup {"other"}

Directions == {"inc", "dec"}

Categories == 0 .. Len(CategoryNames) - 1

Name(category) == CategoryNames[category + 1]

\* Acquisitions only increment; drops and cascades only decrement.
May(category, direction) ==
    CASE Name(category)[1] = "acquire" -> direction = "inc"
      [] Name(category)[1] \in {"drop", "cascade"} -> direction = "dec"
      [] OTHER -> TRUE

Cells == {[kind |-> k, direction |-> d] : k \in KINDS, d \in Directions}

Init ==
    /\ counts = EmptyBag
    /\ kinds = [c \in Cells |-> 0]
    /\ happened = EmptyBag
    /\ rows = {}
    /\ report = [phase |-> "counting"]

Operation(f, category, c) == [function |-> f, category |-> category, cell |-> c]

Tag(f, category) == f * CategoryLimit + category

\* The wrapped atomic operation, in both programs.
Count ==
    \E f \in Functions, category \in Categories, c \in {d \in Cells : d.kind \in Counted} :
        /\ report.phase = "counting" /\ BagCardinality(happened) < MaxOperations
        /\ May(category, c.direction)
        /\ counts' = counts (+) SetToBag({<<Tag(f, category), c>>})
        /\ kinds' = [kinds EXCEPT ![c] = @ + 1]
        /\ happened' = happened (+) SetToBag({Operation(f, category, c)})
        /\ UNCHANGED <<rows, report>>

-----------------------------------------------------------------------------
(* The files and the tables.                                               *)

\* blorp_rc_report and read_rc: a row of each count that is not 0, its tag
\* taken apart again.
Write ==
    /\ report.phase = "counting"
    /\ rows' = {[cell |-> tc[2], function |-> tc[1] \div CategoryLimit, category |-> Name(tc[1] % CategoryLimit),
                 count |-> counts[tc]] : tc \in BagToSet(counts)}
    /\ report' = [phase |-> "written"]
    /\ UNCHANGED <<counts, kinds, happened>>

\* The operations in the rows that satisfy In.
Total(In(_)) == MapThenSumSet(LAMBDA row : row.count, {row \in rows : In(row)})

\* rc_kinds: kinds and directions whose tagged counts differ from the others.
Mismatches == {c \in Cells : Total(LAMBDA row : row.cell = c) # kinds[c]}

\* label_of: 0 has a label of its own, whatever function has that number.
Label(function) == IF function = 0 THEN "runtime" ELSE LabelOf(function)

Labels == {Label(row.function) : row \in rows}

\* The n busiest of the labels, by Total of the rows that In picks; of two
\* that tie, either.
Busiest(n, In(_)) ==
    LET busy == {Label(row.function) : row \in {r \in rows : In(r)}}
        total(l) == Total(LAMBDA row : In(row) /\ Label(row.function) = l)
    IN  CHOOSE best \in SUBSET busy :
            /\ Cardinality(best) = Min({n, Cardinality(busy)})
            /\ \A l \in best, m \in busy \ best : total(l) >= total(m)

IsProjection(row) == row.category = <<"acquire", "projection">>

IsRecord(row) == row.cell.kind = "record"

\* rc_sources: a group's operations of a kind in a direction.
SourceCell(g, c) == Total(LAMBDA row : row.cell = c /\ GroupOf(row.category) = g)

\* rc_reuse_pool: what a reused record cell would skip.
ReusePool ==
    Total(LAMBDA row : IsRecord(row) /\ IsPrefix(<<"cascade">>, row.category))
        + Total(LAMBDA row : IsRecord(row) /\ IsPrefix(<<"acquire", "stored">>, row.category))

\* rc_concentration: the leading functions of projections, what they hold, and
\* the module with the most operations.
Concentration ==
    LET leading == Busiest(Leading, IsProjection)
        modules == {ModuleOf(l) : l \in Labels}
        size(m) == Total(LAMBDA row : ModuleOf(Label(row.function)) = m)
    IN  [held |-> Total(LAMBDA row : IsProjection(row) /\ Label(row.function) \in leading),
         module |-> CHOOSE m \in modules : \A other \in modules : size(m) >= size(other)]

\* Fault: the functions with the most operations of any kind are listed.
TopFunctionsOverall ==
    [l \in Busiest(Top, LAMBDA row : TRUE) |->
        [g \in DOMAIN RC_GROUPS |->
            Total(LAMBDA row : IsRecord(row) /\ Label(row.function) = l /\ GroupOf(row.category) = g)]]

\* rc_top_record_functions: the busiest labels on records, and their cells.
TopFunctions ==
    [l \in Busiest(Top, IsRecord) |->
        [g \in DOMAIN RC_GROUPS |->
            Total(LAMBDA row : IsRecord(row) /\ Label(row.function) = l /\ GroupOf(row.category) = g)]]

\* A program that counts nothing leaves no row to take a maximum of.
Report ==
    /\ report.phase = "written"
    /\ report' = IF rows = {} THEN [phase |-> "failed"]
                 ELSE [phase |-> "done", mismatches |-> Mismatches, pool |-> ReusePool,
                       sources |-> [g \in DOMAIN RC_GROUPS |-> [c \in Cells |-> SourceCell(g, c)]],
                       concentration |-> Concentration, top |-> TopFunctions]
    /\ UNCHANGED <<counts, kinds, happened, rows>>

Next == Count \/ Write \/ Report

Spec == Init /\ [][Next]_vars

-----------------------------------------------------------------------------
(* Properties.                                                             *)

Done == report.phase = "done"

\* The operations that happened and satisfy In.
Occurred(In(_)) == MapThenSumSet(LAMBDA e : happened[e], {e \in BagToSet(happened) : In(e)})

\* The most specific group that names each category.
Source ==
    [category \in Categories |->
        LET groups == GroupsOf(Name(category))
        IN  CHOOSE g \in groups : \A other \in groups : Len(RC_GROUPS[g]) >= Len(RC_GROUPS[other])]

\* The tables of kinds and sources hold every operation of the self-compile
\* once, each under the most specific source that names its category; the two
\* programs' counts agree; and the reuse pool is the record decrements in
\* cascades and the record increments for stored fields.
SourcesAreExact ==
    Done =>
        /\ report.mismatches = {}
        /\ \A g \in DOMAIN RC_GROUPS, c \in Cells :
              report.sources[g][c] = Occurred(LAMBDA e : e.cell = c /\ Source[e.category] = g)
        /\ report.pool = Occurred(LAMBDA e : e.cell = [kind |-> "record", direction |-> "dec"] /\ Name(e.category)[1] = "cascade")
                           + Occurred(LAMBDA e : e.cell = [kind |-> "record", direction |-> "inc"] /\ Source[e.category] = 2)

\* The table of functions gives each label the record operations of all the
\* functions that share it, and leaves out none that did more than one listed.
FunctionsAreExact ==
    LET done(l) == Occurred(LAMBDA e : e.cell.kind = "record" /\ Label(e.function) = l)
    IN  Done =>
            /\ \A l \in DOMAIN report.top, g \in DOMAIN RC_GROUPS :
                  report.top[l][g] = Occurred(LAMBDA e : /\ e.cell.kind = "record" /\ Label(e.function) = l
                                                        /\ Source[e.category] = g)
            /\ \A l \in DOMAIN report.top, f \in Functions :
                  Label(f) \notin DOMAIN report.top => done(Label(f)) <= done(l)

\* No other functions, as many as the leading ones, hold more projection
\* acquisitions, and no other module more operations.
ConcentrationIsMaximal ==
    LET labels == {Label(f) : f \in Functions}
        projections(some) == Occurred(LAMBDA e : Name(e.category) = <<"acquire", "projection">> /\ Label(e.function) \in some)
        size(m) == Occurred(LAMBDA e : ModuleOf(Label(e.function)) = m)
    IN  Done =>
            /\ report.concentration.held =
                  Max({projections(some) : some \in {ls \in SUBSET labels : Cardinality(ls) <= Leading}})
            /\ \A l \in labels : size(ModuleOf(l)) <= size(report.concentration.module)

=============================================================================
