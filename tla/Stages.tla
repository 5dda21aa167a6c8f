------------------------------- MODULE Stages -------------------------------
(***************************************************************************)
(* The attribution programs that read files and print tables, one          *)
(* execution of one of them: the rewriting of generated C, and the         *)
(* profile, allocations and rc tables of report.py.  Each has its          *)
(* component's state; only the chosen one's changes.                       *)
(***************************************************************************)
EXTENDS Integers, Sequences, FiniteSets

VARIABLES
    stage,                                                              \* which program runs
    lex, depth, body, split, broke, ends, scan, counted, missed, stray, c_phase,    \* ScanC
    samples, printed, last, stack, inclusive, p_phase,                              \* SampleProfile
    stacks, by_helper, site_rows, a_phase,                                          \* AllocationSites
    counts, kinds, happened, rc_rows, report                                        \* RcTables

scanVars == <<lex, depth, body, split, broke, ends, scan, counted, missed, stray, c_phase>>

profileVars == <<samples, printed, last, stack, inclusive, p_phase>>

siteVars == <<stacks, by_helper, site_rows, a_phase>>

tableVars == <<counts, kinds, happened, rc_rows, report>>

vars == <<stage, scanVars, profileVars, siteVars, tableVars>>

-----------------------------------------------------------------------------
(* Generated C, with braces nested three deep.                             *)

Scan == INSTANCE ScanC WITH MaxDepth <- 3, phase <- c_phase

-----------------------------------------------------------------------------
(* Two samples of stacks three deep, of four call sites: two of one        *)
(* function, one of another instance of the same generic function, one of  *)
(* a reference-count helper.                                               *)

FrameAt == {"f_1", "f_2", "g", "drop"}

SymbolOf == [f_1 |-> "blorp_f_1", f_2 |-> "blorp_f_1", g |-> "blorp_f_2", drop |-> "blorp_record_drop_0"]

SymbolLabel ==
    [s \in {"blorp_f_1", "blorp_f_2", "blorp_record_drop_0"} |->
        IF s = "blorp_record_drop_0" THEN s ELSE "list.map"]

ClassOf ==
    [l \in {"list.map", "blorp_record_drop_0"} |->
        IF l = "list.map" THEN "other" ELSE "reference-count helpers"]

Profile ==
    INSTANCE SampleProfile WITH
        LabelOf <- SymbolLabel, MinListed <- 2, MaxSamples <- 2, MaxStack <- 3, phase <- p_phase

-----------------------------------------------------------------------------
(* Four allocations by two instances of one function and another function  *)
(* that calls them: Lists built inline and by helpers, Strings made by     *)
(* nested helpers, and the list of arguments, made before the program's    *)
(* code runs.                                                              *)

AllocationStacks ==
    {<<"blorp_memory_allocate", "blorp_f_1", "blorp_f_0", "main">>,
     <<"blorp_memory_allocate", "blorp_list_append_0", "blorp_f_1", "blorp_f_0", "main">>,
     <<"blorp_memory_allocate", "blorp_list_append_0", "blorp_f_2", "blorp_f_0", "main">>,
     <<"blorp_memory_allocate", "blorp_string_from_bytes", "blorp_string_concat", "blorp_f_2", "blorp_f_1", "blorp_f_0", "main">>,
     <<"blorp_memory_allocate", "blorp_string_from_bytes", "blorp_f_2", "blorp_f_0", "main">>,
     <<"blorp_memory_resize", "blorp_string_concat", "blorp_f_2", "blorp_f_0", "main">>,
     <<"blorp_memory_allocate", "blorp_process_run", "blorp_f_0", "main">>,
     <<"blorp_memory_allocate", "blorp_list_from_argv", "main">>}

FamilyOf ==
    [blorp_list_append_0 |-> "List", blorp_list_from_argv |-> "List",
     blorp_string_from_bytes |-> "String", blorp_string_concat |-> "String"]

FrameLabel == [blorp_f_0 |-> "main.main", blorp_f_1 |-> "list.map", blorp_f_2 |-> "list.map"]

Sites ==
    INSTANCE AllocationSites WITH
        Stacks <- AllocationStacks, CompiledFrame <- DOMAIN FrameLabel,
        Allocator <- {"blorp_memory_allocate", "blorp_memory_resize"}, LabelOf <- FrameLabel,
        Sizes <- {1, 3}, Top <- 1000000, MaxAllocations <- 4,
        report <- stacks, rows <- site_rows, phase <- a_phase

-----------------------------------------------------------------------------
(* Three operations of two instances of one function and of code without a *)
(* caller.                                                                 *)

CategoryNames == <<
    <<"untagged">>, <<"acquire", "projection">>, <<"acquire", "stored", "owner">>, <<"drop", "call_result">>,
    <<"cascade", "record">>, <<"runtime_list", "get">>, <<"runtime_list", "append">> >>

NumberLabel(f) == "emit.append"

ModuleOf(label) == IF label = "emit.append" THEN "emit" ELSE label

Tables ==
    INSTANCE RcTables WITH
        Functions <- 0 .. 2, CategoryLimit <- 8, LabelOf <- NumberLabel, Top <- 1, Leading <- 1,
        Counted <- {"record", "string"}, MaxOperations <- 3, rows <- rc_rows

-----------------------------------------------------------------------------
(* The execution.                                                          *)

Init ==
    /\ stage \in {"rewrite", "profile", "allocations", "rc"}
    /\ Scan!Init /\ Profile!Init /\ Sites!Init /\ Tables!Init

Next ==
    \/ /\ stage = "rewrite" /\ Scan!Next
       /\ UNCHANGED <<stage, profileVars, siteVars, tableVars>>
    \/ /\ stage = "profile" /\ Profile!Next
       /\ UNCHANGED <<stage, scanVars, siteVars, tableVars>>
    \/ /\ stage = "allocations" /\ Sites!Next
       /\ UNCHANGED <<stage, scanVars, profileVars, tableVars>>
    \/ /\ stage = "rc" /\ Tables!Next
       /\ UNCHANGED <<stage, scanVars, profileVars, siteVars>>

Spec == Init /\ [][Next]_vars

-----------------------------------------------------------------------------
(* Properties.                                                             *)

\* Rewriting generated C keeps its meaning and misses nothing: lines are
\* broken at statements only, function bodies are found whatever literals,
\* comments and macros hold, and the script stops exactly when an atomic
\* operation stands outside every function.
RewriteIsExact == Scan!BreaksAtStatements /\ Scan!BodiesAreFound /\ Scan!StopsOnStray


\* Nothing is lost or counted twice on the way from allocation stacks through
\* pairs and printed rows to kinds, and a row is of the function that called
\* the helper, however deep the helper went.
AllocationsAreExact == Sites!KindsAddUp /\ Sites!SitesAreExact

\* Packed tags, two programs' counts and first-match groups end in tables that
\* hold every operation once, under the most specific source; the functions
\* and modules that are named lead the others.
RcTablesAreExact == Tables!SourcesAreExact /\ Tables!FunctionsAreExact /\ Tables!ConcentrationIsMaximal

=============================================================================
