--------------------------- MODULE AttributionRun ---------------------------
(***************************************************************************)
(* The script blorp/scripts/attribution/run over one output directory:     *)
(* invocations with any stages, one after another, while blorp/src is      *)
(* edited.  Any command may fail or be killed; the script then exits and   *)
(* the files written so far stay.                                          *)
(*                                                                         *)
(* A version is a state of blorp/src.  A program is the C text it is built *)
(* from: instrumentation and RC markers add to what it does, and take      *)
(* nothing from what it translates.  Versions may have the same C: an edit *)
(* of a comment or of the layout changes no byte of it.                    *)
(***************************************************************************)
EXTENDS Integers, Sequences, FiniteSets, Functions

CONSTANTS
    Versions,
    Texts,              \* C texts
    None,               \* no such file
    Emit(_, _),         \* the C that the compiler of a C text writes for a version
    Seed,               \* the bootstrap compiler
    Anchors(_),         \* how often each anchor of the patch is in emit.brp of a version
    Requests,           \* the sets of stages an invocation may ask for
    MaxInvocations,     \* bound
    MaxEdits            \* bound

ASSUME EmitAssumption == Seed \in Texts /\ \A t \in Texts, v \in Versions : Emit(t, v) \in Texts

\* A missing file is told from any text, and from one with any rows.
ASSUME NoneAssumption == None \notin Texts /\ None \notin Seq([program : Texts, input : Versions])

VARIABLES
    source,     \* blorp/src
    compiler,   \* B: the C it was built from
    files,      \* the C files of the output directory: self, and marked without its markers
    scratch,    \* the copy of blorp/src that is patched
    data,       \* per measuring stage, what its reported files hold: a row for each program run
    tables,     \* per measuring stage, its markdown table
    script,     \* the running or last invocation
    finished,   \* history: the stages whose last execution came to its end
    edits, invocations

vars == <<source, compiler, files, scratch, data, tables, script, finished, edits, invocations>>

AllStages == <<"build", "markers", "copies", "rc", "allocations", "profile", "timing", "report">>

Measuring == <<"copies", "rc", "allocations", "profile", "timing">>

\* The C files that a stage builds its programs from, in the order it runs
\* them: two self-compiles are profiled; timing runs one pair of builds.
ProgramsOf(stage) ==
    CASE stage = "rc" -> <<"self", "marked">>
      [] stage \in {"profile", "timing"} -> <<"self", "self">>
      [] OTHER -> <<"self">>

\* Stages that write what the report reads only after comparing the output:
\* allocation-sites runs last, and a row of runs.tsv follows its comparison.
Late == {"allocations", "timing"}

Init ==
    /\ source \in Versions
    /\ compiler = None
    /\ files = [self |-> None, marked |-> None]
    /\ scratch = None
    /\ data = [s \in Range(Measuring) |-> None]
    /\ tables = [s \in Range(Measuring) |-> None]
    /\ script = [todo |-> {}, step |-> "begin", run |-> 0, built |-> <<>>, output |-> None,
                 wanted |-> {}, status |-> "none"]
    /\ finished = {}
    /\ edits = 0 /\ invocations = 0

-----------------------------------------------------------------------------
(* The script.                                                             *)

Running == script.todo # {}

\* The wanted stages that are left run in the script's own order.
Stage ==
    AllStages[CHOOSE i \in DOMAIN AllStages :
                 AllStages[i] \in script.todo /\ \A j \in 1 .. i - 1 : AllStages[j] \notin script.todo]

At(stage, step) == Running /\ Stage = stage /\ script.step = step

GoTo(step) == script' = [script EXCEPT !.step = step]

\* finish: the next stage that is wanted, or the end.
FinishStage ==
    /\ script' = [script EXCEPT !.todo = @ \ {Stage}, !.step = "begin", !.run = 0, !.built = <<>>, !.output = None,
                                !.status = IF script.todo = {Stage} THEN "done" ELSE @]
    /\ finished' = finished \cup {Stage}

Die(why) ==
    script' = [script EXCEPT !.todo = {}, !.step = "begin", !.run = 0, !.built = <<>>, !.output = None,
                             !.status = why]

\* Options: the order in which stages are asked for does not matter.
Invoke(stages) ==
    /\ ~Running /\ invocations < MaxInvocations
    /\ invocations' = invocations + 1
    /\ script' = [script EXCEPT !.todo = stages, !.wanted = stages, !.status = "running"]
    /\ UNCHANGED <<source, compiler, files, scratch, data, tables, finished, edits>>

\* make compiler: the bootstrap compiler translates blorp/src.
Make ==
    /\ At("build", "begin") /\ GoTo("compile")
    /\ compiler' = Emit(Seed, source)
    /\ finished' = finished \ {"build"}
    /\ UNCHANGED <<source, files, scratch, data, tables, edits, invocations>>

WriteSelf ==
    /\ At("build", "compile") /\ FinishStage
    /\ files' = [files EXCEPT !.self = Emit(compiler, source)]
    /\ UNCHANGED <<source, compiler, scratch, data, tables, edits, invocations>>

CopySource ==
    /\ At("markers", "begin")
    /\ finished' = finished \ {"markers"}
    /\ IF files.self = None THEN Die("need") /\ UNCHANGED <<files, scratch>>
       ELSE GoTo("patch") /\ files' = [files EXCEPT !.marked = None] /\ scratch' = source
    /\ UNCHANGED <<source, compiler, data, tables, edits, invocations>>

\* Every anchor must occur once; otherwise nothing is written.
PatchEmit ==
    /\ At("markers", "patch")
    /\ IF \A i \in DOMAIN Anchors(scratch) : Anchors(scratch)[i] = 1 THEN GoTo("compile") ELSE Die("patch")
    /\ UNCHANGED <<source, compiler, files, scratch, data, tables, finished, edits, invocations>>

\* B translates the patched copy, and that compiler translates blorp/src.
WriteMarked ==
    /\ At("markers", "compile") /\ GoTo("compare")
    /\ files' = [files EXCEPT !.marked = Emit(Emit(compiler, scratch), source)]
    /\ UNCHANGED <<source, compiler, scratch, data, tables, finished, edits, invocations>>

\* Fault: the stripped output is not compared.
CompareMarkedNot ==
    /\ At("markers", "compare") /\ FinishStage
    /\ UNCHANGED <<source, compiler, files, scratch, data, tables, edits, invocations>>

CompareMarked ==
    /\ At("markers", "compare")
    /\ IF files.marked = files.self THEN FinishStage ELSE Die("differs") /\ UNCHANGED finished
    /\ UNCHANGED <<source, compiler, files, scratch, data, tables, edits, invocations>>

Clear(stage) ==
    /\ At(stage, "begin")
    /\ finished' = finished \ {stage}
    /\ IF \E f \in Range(ProgramsOf(stage)) : files[f] = None THEN Die("need") /\ UNCHANGED data
       ELSE GoTo("build") /\ data' = [data EXCEPT ![stage] = <<>>]
    /\ UNCHANGED <<source, compiler, files, scratch, tables, edits, invocations>>

\* The stage's programs, instrumented and compiled.
BuildPrograms(stage) ==
    /\ At(stage, "build")
    /\ script' = [script EXCEPT !.step = "measure", !.run = 1,
                                !.built = [k \in DOMAIN ProgramsOf(stage) |-> files[ProgramsOf(stage)[k]]]]
    /\ UNCHANGED <<source, compiler, files, scratch, data, tables, finished, edits, invocations>>

\* What a row of a stage's files is about: the program that was measured, and
\* the version that it read.
Row == [program |-> script.built[script.run], input |-> script.output.of]

\* A program compiles blorp/src; what it counted is written when it exits.
Measure(stage) ==
    LET program == script.built[script.run]
    IN  /\ At(stage, "measure")
        /\ script' = [script EXCEPT !.step = "compare", !.output = [text |-> Emit(program, source), of |-> source]]
        /\ data' = IF stage \in Late THEN data
                   ELSE [data EXCEPT ![stage] = Append(@, [program |-> program, input |-> source])]
        /\ UNCHANGED <<source, compiler, files, scratch, tables, finished, edits, invocations>>

Recorded(stage) == IF stage \in Late THEN [data EXCEPT ![stage] = Append(@, Row)] ELSE data

NextProgram(stage) ==
    IF script.run = Len(ProgramsOf(stage)) THEN FinishStage
    ELSE script' = [script EXCEPT !.step = "measure", !.run = @ + 1, !.output = None] /\ UNCHANGED finished

\* Fault: the program's output is not compared.
CompareNot(stage) ==
    /\ At(stage, "compare")
    /\ NextProgram(stage) /\ data' = Recorded(stage)
    /\ UNCHANGED <<source, compiler, files, scratch, tables, edits, invocations>>

\* The output must be B's self C.
Compare(stage) ==
    /\ At(stage, "compare")
    /\ IF script.output.text = files.self THEN NextProgram(stage) /\ data' = Recorded(stage)
       ELSE Die("differs") /\ UNCHANGED <<finished, data>>
    /\ UNCHANGED <<source, compiler, files, scratch, tables, edits, invocations>>

ReportBegin ==
    /\ At("report", "begin")
    /\ script' = [script EXCEPT !.step = "table", !.run = 1]
    /\ UNCHANGED <<source, compiler, files, scratch, data, tables, finished, edits, invocations>>

\* report.py reads every file of the stage, or fails.
Readable(stage) == Len(data[stage]) = Len(ProgramsOf(stage))

Empty == [rows |-> <<>>, labels |-> None]

\* A table for each stage directory there is; functions are named by self.c.
\* The redirection empties the table first.
ReportTable ==
    LET stage == Measuring[script.run]
    IN  /\ At("report", "table")
        /\ IF data[stage] # None /\ ~Readable(stage)
           THEN /\ tables' = [tables EXCEPT ![stage] = Empty]
                /\ Die("report") /\ UNCHANGED finished
           ELSE /\ tables' = IF data[stage] = None THEN tables
                             ELSE [tables EXCEPT ![stage] = [rows |-> data[stage], labels |-> files.self]]
                /\ IF script.run = Len(Measuring) THEN FinishStage
                   ELSE script' = [script EXCEPT !.run = @ + 1] /\ UNCHANGED finished
        /\ UNCHANGED <<source, compiler, files, scratch, data, edits, invocations>>

\* A command fails, or the script is interrupted.
Fail ==
    /\ Running /\ Die("failed")
    /\ UNCHANGED <<source, compiler, files, scratch, data, tables, finished, edits, invocations>>

\* Somebody edits blorp/src, or checks out another version of it.
Edit ==
    /\ edits < MaxEdits /\ edits' = edits + 1
    /\ source' \in Versions \ {source}
    /\ UNCHANGED <<compiler, files, scratch, data, tables, script, finished, invocations>>

Next ==
    \/ \E stages \in Requests : Invoke(stages)
    \/ Make \/ WriteSelf
    \/ CopySource \/ PatchEmit \/ WriteMarked \/ CompareMarked
    \/ \E stage \in Range(Measuring) :
          Clear(stage) \/ BuildPrograms(stage) \/ Measure(stage) \/ Compare(stage)
    \/ ReportBegin \/ ReportTable
    \/ Fail \/ Edit

Spec == Init /\ [][Next]_vars

-----------------------------------------------------------------------------
(* Properties.                                                             *)

\* "measures the compiler compiling itself": behind the files of a stage that
\* came to its end there is one C that every measured program wrote, and that
\* every program of self.c was built from, whatever was edited before or while
\* the stage ran.  (The tagged program of rc is built from marked.c, which an
\* earlier invocation may have left: it need only translate alike.)
SelfCompileMeasured ==
    \A stage \in finished \cap Range(Measuring) :
        \E self \in Texts : \A i \in DOMAIN data[stage] :
            /\ Emit(data[stage][i].program, data[stage][i].input) = self
            /\ ProgramsOf(stage)[i] = "self" => data[stage][i].program = self

\* When all stages were asked for and the script says done, all tables are
\* about one program: every measured program, the tagged one of rc too, was
\* built from the C that the tables' function names come from, and wrote that C
\* again, whatever was edited meanwhile and whatever earlier invocations had
\* left in the output directory.
FullRunIsConsistent ==
    script.status = "done" /\ script.wanted = Range(AllStages) =>
        \A stage \in Range(Measuring) : \A row \in Range(tables[stage].rows) :
            /\ row.program = tables[stage].labels
            /\ Emit(row.program, row.input) = tables[stage].labels

=============================================================================
