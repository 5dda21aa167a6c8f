------------------------ MODULE AttributionRunProofs ------------------------
(***************************************************************************)
(* Proofs about attribution/run, for all versions of blorp/src, whatever C *)
(* the compilers write for them, any number of edits at any time, and any  *)
(* sequence of invocations, complete or not: the programs of a stage that  *)
(* comes to its end have all written one C, the one that those of self.c   *)
(* were built from, and the tables of a full run are all about one         *)
(* program.                                                                *)
(*                                                                         *)
(* A program that is measured after an edit may write another C than its   *)
(* own, and most stages have then already written its counts.  The         *)
(* invariant follows such a row until the comparison, which the stage      *)
(* cannot pass.  A full run moreover writes self.c before it measures      *)
(* anything, and replaces whatever was there.                              *)
(***************************************************************************)
EXTENDS AttributionRun, TLAPS

\* Zenon is tried on every leaf that does not name another prover.
USE ZenonT(30)

Fields == {"todo", "step", "run", "built", "output", "wanted", "status"}

RowSet == [program : Texts, input : Versions]

Shape ==
    /\ DOMAIN script = Fields
    /\ DOMAIN files = {"self", "marked"}
    /\ DOMAIN data = Range(Measuring)
    /\ source \in Versions
    /\ compiler \in Texts \cup {None}
    /\ files.self \in Texts \cup {None}
    /\ files.marked \in Texts \cup {None}
    /\ files.self # None => compiler # None
    /\ ~Running => script.step = "begin"
    /\ Running /\ script.step # "begin" =>
          /\ Stage = "build" => compiler # None
          /\ Stage = "markers" => compiler # None /\ scratch \in Versions

\* What SelfCompileMeasured says of a stage's rows.
OneC(stage, rows) ==
    \E self \in Texts : \A i \in DOMAIN rows :
        /\ Emit(rows[i].program, rows[i].input) = self
        /\ ProgramsOf(stage)[i] = "self" => rows[i].program = self

Done == \A stage \in finished \cap Range(Measuring) : OneC(stage, data[stage])

\* Row i of a stage that has passed the comparison.
Passed(stage, i, row) ==
    /\ row.program = files[ProgramsOf(stage)[i]]
    /\ Emit(row.program, row.input) = files.self

\* How many programs of the stage have passed the comparison.
Compared == IF script.step = "build" THEN 0 ELSE script.run - 1

\* Between Clear and the end of a stage: the programs that are behind have
\* passed the comparison, and there is at most the row of the program that has
\* just run beside theirs.
Midway ==
    /\ script.step \in {"build", "measure", "compare"}
    /\ Stage \notin finished
    /\ files.self \in Texts
    /\ \A k \in DOMAIN ProgramsOf(Stage) : files[ProgramsOf(Stage)[k]] \in Texts
    /\ script.step # "build" =>
          /\ script.built = [k \in DOMAIN ProgramsOf(Stage) |-> files[ProgramsOf(Stage)[k]]]
          /\ script.run \in DOMAIN ProgramsOf(Stage)
    /\ data[Stage] \in Seq(RowSet)
    /\ Len(data[Stage]) = IF script.step = "compare" /\ Stage \notin Late THEN Compared + 1 ELSE Compared
    /\ \A i \in 1 .. Compared : Passed(Stage, i, data[Stage][i])
    /\ script.step = "compare" =>
          /\ script.output.of \in Versions
          /\ script.output.text = Emit(script.built[script.run], script.output.of)
          /\ Stage \notin Late => data[Stage][script.run] = Row

InStage == Running /\ Stage \in Range(Measuring) /\ script.step # "begin"

RunInv == Shape /\ Done /\ (InStage => Midway)

-----------------------------------------------------------------------------

\* The stages that write tables.
LEMMA MeasuringStages ==
    Range(Measuring) = {"copies", "rc", "allocations", "profile", "timing"}
<1>1. DOMAIN Measuring = 1 .. 5
  BY SMTT(30) DEF Measuring
<1>2. Range(Measuring) = {Measuring[i] : i \in 1 .. 5}
  BY <1>1 DEF Range
<1>3. Measuring[1] = "copies" /\ Measuring[2] = "rc" /\ Measuring[3] = "allocations"
      /\ Measuring[4] = "profile" /\ Measuring[5] = "timing"
  BY DEF Measuring
<1>4. \A i \in 1 .. 5 : i = 1 \/ i = 2 \/ i = 3 \/ i = 4 \/ i = 5
  BY SMTT(30)
<1> QED
  BY <1>2, <1>3, <1>4, SMTT(30)

\* All programs of a measuring stage are built from self.c or marked.c.
LEMMA ProgramTexts ==
    ASSUME NEW stage \in Range(Measuring)
    PROVE  /\ Len(ProgramsOf(stage)) \in Nat /\ DOMAIN ProgramsOf(stage) = 1 .. Len(ProgramsOf(stage))
           /\ 1 \in DOMAIN ProgramsOf(stage) /\ ProgramsOf(stage)[1] = "self"
           /\ \A k \in DOMAIN ProgramsOf(stage) : ProgramsOf(stage)[k] \in {"self", "marked"}
<1>1. \/ ProgramsOf(stage) = <<"self">> \/ ProgramsOf(stage) = <<"self", "self">>
      \/ ProgramsOf(stage) = <<"self", "marked">>
  BY MeasuringStages DEF ProgramsOf
<1> QED
  BY <1>1, SMTT(30)

-----------------------------------------------------------------------------
(* How the script moves.                                                   *)

\* To another step of the same stage.
LEMMA GoToFields ==
    ASSUME DOMAIN script = Fields, NEW step, GoTo(step)
    PROVE  /\ DOMAIN script' = Fields /\ script'.step = step
           /\ script'.todo = script.todo /\ script'.run = script.run
           /\ script'.built = script.built /\ script'.output = script.output
BY DEF GoTo, Fields

\* To the next stage.
LEMMA FinishFields ==
    ASSUME DOMAIN script = Fields, FinishStage
    PROVE  /\ DOMAIN script' = Fields /\ script'.step = "begin"
           /\ finished' = finished \cup {Stage}
BY DEF FinishStage, Fields

\* To its end, early.
LEMMA DieFields ==
    ASSUME DOMAIN script = Fields, NEW why, Die(why)
    PROVE  DOMAIN script' = Fields /\ script'.step = "begin"
BY DEF Die, Fields

\* At the beginning of a stage nothing is midway.
LEMMA AtBegin ==
    ASSUME Shape', Done', script'.step = "begin"
    PROVE  RunInv'
BY DEF RunInv, InStage

\* Steps that leave the files alone.
LEMMA SameFiles ==
    ASSUME Shape, DOMAIN script' = Fields, UNCHANGED <<source, compiler, files>>, DOMAIN data' = DOMAIN data,
           \/ script'.step = "begin"
           \/ /\ Running /\ script'.todo = script.todo /\ UNCHANGED scratch
              /\ script.step # "begin" \/ Stage \notin {"build", "markers"}
    PROVE  Shape'
<1>1. CASE script'.step = "begin"
  BY <1>1 DEF Shape
<1>2. CASE /\ Running /\ script'.todo = script.todo /\ UNCHANGED scratch
           /\ script.step # "begin" \/ Stage \notin {"build", "markers"}
  <2>1. Stage' = Stage /\ Running'
    BY <1>2 DEF Stage, Running
  <2> QED
    BY <1>2, <2>1 DEF Shape
<1> QED
  BY <1>1, <1>2

\* Steps of other stages, and failures, touch no row.
LEMMA OtherStages ==
    ASSUME RunInv, Shape', UNCHANGED data, Running,
           Stage \notin Range(Measuring) \/ script'.step = "begin",
           finished' \subseteq finished \cup ({Stage} \ Range(Measuring)),
           script'.step = "begin" \/ script'.todo = script.todo
    PROVE  RunInv'
<1>1. Done'
  BY DEF RunInv, Done
<1>2. CASE script'.step = "begin"
  BY <1>1, <1>2, AtBegin
<1>3. CASE script'.step # "begin"
  <2>1. Stage' = Stage /\ Stage \notin Range(Measuring)
    BY <1>3 DEF Stage
  <2> QED
    BY <1>1, <2>1 DEF RunInv, InStage
<1> QED
  BY <1>2, <1>3

\* The output directory is empty at first.
LEMMA InitHolds == Init => RunInv
<1> SUFFICES ASSUME Init PROVE RunInv
  OBVIOUS
<1>1. script.step = "begin" /\ DOMAIN script = Fields
  BY DEF Init, Fields
<1>2. DOMAIN files = {"self", "marked"} /\ files.self = None /\ files.marked = None /\ compiler = None
      /\ DOMAIN data = Range(Measuring)
  BY DEF Init
<1>3. source \in Versions /\ finished = {}
  BY DEF Init
<1> QED
  BY <1>1, <1>2, <1>3 DEF RunInv, Shape, Done, InStage

\* An invocation begins with the first step of its first stage.
LEMMA InvokeKeeps ==
    ASSUME RunInv, NEW stages \in Requests, Invoke(stages)
    PROVE  RunInv'
<1>1. DOMAIN script = Fields /\ script.step = "begin"
  BY DEF Invoke, RunInv, Shape
<1>2. UNCHANGED <<source, compiler, files, data, finished>>
  BY DEF Invoke
<1>3. DOMAIN script' = Fields /\ script'.step = "begin"
  BY <1>1 DEF Invoke, Fields
<1>4. Shape'
  BY <1>2, <1>3, SameFiles DEF RunInv
<1>5. Done'
  BY <1>2 DEF RunInv, Done
<1> QED
  BY <1>3, <1>4, <1>5, AtBegin

\* An edit of blorp/src, and nothing at all, change no file of the output
\* directory.
LEMMA EditKeeps ==
    ASSUME RunInv, Edit \/ UNCHANGED vars
    PROVE  RunInv'
<1>1. source' \in Versions /\ UNCHANGED <<compiler, files, scratch, data, script, finished>>
  BY DEF Edit, vars, RunInv, Shape
<1>2. Stage' = Stage /\ (Running' <=> Running)
  BY <1>1 DEF Stage, Running
<1>3. Shape'
  BY <1>1, <1>2 DEF RunInv, Shape
<1>4. Done'
  BY <1>1 DEF RunInv, Done
<1>5. (InStage => Midway)'
  <2>1. InStage' => InStage
    BY <1>1, <1>2 DEF InStage
  <2>2. Midway => Midway'
    BY <1>1, <1>2 DEF Midway, Compared, Passed, Row
  <2> QED
    BY <2>1, <2>2 DEF RunInv
<1> QED
  BY <1>3, <1>4, <1>5 DEF RunInv

\* The stages build, markers and report, and a command that fails.
LEMMA OthersKeep ==
    ASSUME RunInv,
           Make \/ WriteSelf \/ CopySource \/ PatchEmit \/ WriteMarked \/ CompareMarked
             \/ ReportBegin \/ ReportTable \/ Fail
    PROVE  RunInv'
<1>1. Shape /\ DOMAIN script = Fields /\ DOMAIN files = {"self", "marked"} /\ source \in Versions
  BY DEF RunInv, Shape
<1>2. {"build", "markers", "report"} \cap Range(Measuring) = {}
  BY MeasuringStages
<1>3. CASE Make
  <2>1. /\ Running /\ Stage = "build" /\ GoTo("compile") /\ UNCHANGED <<source, files, data>>
        /\ finished' \subseteq finished /\ compiler' = Emit(Seed, source)
    BY <1>3 DEF Make, At
  <2>2. DOMAIN script' = Fields /\ script'.step = "compile" /\ script'.todo = script.todo
    BY <1>1, <2>1, GoToFields
  <2>3. compiler' \in Texts /\ compiler' # None
    BY <1>1, <2>1, EmitAssumption, NoneAssumption
  <2>4. Stage' = "build" /\ Running'
    BY <2>1, <2>2 DEF Stage, Running
  <2>5. Shape'
    BY <1>1, <2>1, <2>2, <2>3, <2>4 DEF Shape
  <2> QED
    BY <1>2, <2>1, <2>2, <2>5, OtherStages
<1>4. CASE WriteSelf
  <2>1. /\ Running /\ Stage = "build" /\ script.step = "compile" /\ FinishStage
        /\ UNCHANGED <<source, compiler, data>>
        /\ files' = [files EXCEPT !.self = Emit(compiler, source)]
    BY <1>4 DEF WriteSelf, At
  <2>2. compiler \in Texts /\ compiler # None
    BY <1>1, <2>1 DEF Shape
  <2>3. DOMAIN files' = DOMAIN files /\ files'.self = Emit(compiler, source) /\ files'.marked = files.marked
    BY <1>1, <2>1
  <2>4. files'.self \in Texts
    BY <1>1, <2>2, <2>3, EmitAssumption
  <2>5. DOMAIN script' = Fields /\ script'.step = "begin" /\ finished' = finished \cup {"build"}
    BY <1>1, <2>1, FinishFields
  <2>6. Shape'
    BY <1>1, <2>1, <2>2, <2>3, <2>4, <2>5 DEF Shape
  <2> QED
    BY <1>2, <2>1, <2>5, <2>6, OtherStages
<1>5. CASE CopySource
  <2>1. /\ Running /\ Stage = "markers" /\ script.step = "begin"
        /\ UNCHANGED <<source, compiler, data>> /\ finished' \subseteq finished
        /\ \/ Die("need") /\ UNCHANGED files
           \/ /\ GoTo("patch") /\ files' = [files EXCEPT !.marked = None]
              /\ scratch' = source /\ files.self # None
    BY <1>5 DEF CopySource, At
  <2>2. CASE Die("need") /\ UNCHANGED files
    <3>1. DOMAIN script' = Fields /\ script'.step = "begin"
      BY <1>1, <2>2, DieFields
    <3>2. Shape'
      BY <1>1, <2>1, <2>2, <3>1, SameFiles
    <3> QED
      BY <2>1, <3>1, <3>2, OtherStages
  <2>3. CASE GoTo("patch") /\ files' = [files EXCEPT !.marked = None] /\ scratch' = source /\ files.self # None
    <3>1. DOMAIN script' = Fields /\ script'.step = "patch" /\ script'.todo = script.todo
      BY <1>1, <2>3, GoToFields
    <3>2. DOMAIN files' = DOMAIN files /\ files'.self = files.self /\ files'.marked = None
      BY <1>1, <2>3
    <3>3. Stage' = "markers" /\ Running'
      BY <2>1, <3>1 DEF Stage, Running
    <3>4. Shape'
      BY <1>1, <2>1, <2>3, <3>1, <3>2, <3>3 DEF Shape
    <3> QED
      BY <1>2, <2>1, <3>1, <3>4, OtherStages
  <2> QED
    BY <2>1, <2>2, <2>3
<1>6. CASE PatchEmit
  <2>1. /\ Running /\ Stage = "markers" /\ script.step = "patch"
        /\ UNCHANGED <<source, compiler, files, scratch, data, finished>>
        /\ GoTo("compile") \/ Die("patch")
    BY <1>6 DEF PatchEmit, At
  <2>2. DOMAIN script' = Fields /\ (script'.step = "begin" \/ script'.todo = script.todo)
    BY <1>1, <2>1, GoToFields, DieFields
  <2>3. Shape'
    BY <1>1, <2>1, <2>2, SameFiles
  <2> QED
    BY <1>2, <2>1, <2>2, <2>3, OtherStages
<1>7. CASE WriteMarked
  <2>1. /\ Running /\ Stage = "markers" /\ script.step = "compile" /\ GoTo("compare")
        /\ UNCHANGED <<source, compiler, scratch, data, finished>>
        /\ files' = [files EXCEPT !.marked = Emit(Emit(compiler, scratch), source)]
    BY <1>7 DEF WriteMarked, At
  <2>2. compiler \in Texts /\ compiler # None /\ scratch \in Versions
    BY <1>1, <2>1 DEF Shape
  <2>3. Emit(Emit(compiler, scratch), source) \in Texts
    BY <1>1, <2>2, EmitAssumption
  <2>4. DOMAIN files' = DOMAIN files /\ files'.self = files.self /\ files'.marked \in Texts
    BY <1>1, <2>1, <2>3
  <2>5. DOMAIN script' = Fields /\ script'.step = "compare" /\ script'.todo = script.todo
    BY <1>1, <2>1, GoToFields
  <2>6. Stage' = "markers" /\ Running'
    BY <2>1, <2>5 DEF Stage, Running
  <2>7. Shape'
    BY <1>1, <2>1, <2>2, <2>4, <2>5, <2>6 DEF Shape
  <2> QED
    BY <1>2, <2>1, <2>5, <2>7, OtherStages
<1>8. CASE CompareMarked
  <2>1. /\ Running /\ Stage = "markers" /\ UNCHANGED <<source, compiler, files, data>>
        /\ FinishStage \/ (Die("differs") /\ UNCHANGED finished)
    BY <1>8 DEF CompareMarked, At
  <2>2. DOMAIN script' = Fields /\ script'.step = "begin" /\ finished' \subseteq finished \cup {Stage}
    BY <1>1, <2>1, FinishFields, DieFields
  <2>3. Shape'
    BY <1>1, <2>1, <2>2, SameFiles
  <2> QED
    BY <1>2, <2>1, <2>2, <2>3, OtherStages
<1>9. CASE ReportBegin
  <2>1. /\ Running /\ Stage = "report" /\ UNCHANGED <<source, compiler, files, scratch, data, finished>>
        /\ script' = [script EXCEPT !.step = "table", !.run = 1]
    BY <1>9 DEF ReportBegin, At
  <2>2. DOMAIN script' = Fields /\ script'.todo = script.todo
    BY <1>1, <2>1 DEF Fields
  <2>3. Shape'
    BY <1>1, <2>1, <2>2, SameFiles
  <2> QED
    BY <1>2, <2>1, <2>2, <2>3, OtherStages
<1>10. CASE ReportTable
  <2>1. /\ Running /\ Stage = "report" /\ UNCHANGED <<source, compiler, files, scratch, data>>
        /\ \/ Die("report") /\ UNCHANGED finished
           \/ FinishStage
           \/ script' = [script EXCEPT !.run = @ + 1] /\ UNCHANGED finished
    BY <1>10 DEF ReportTable, At
  <2>2. CASE script' = [script EXCEPT !.run = @ + 1] /\ UNCHANGED finished
    <3>1. DOMAIN script' = Fields /\ script'.todo = script.todo
      BY <1>1, <2>2 DEF Fields
    <3>2. Shape'
      BY <1>1, <2>1, <3>1, SameFiles
    <3> QED
      BY <1>2, <2>1, <2>2, <3>1, <3>2, OtherStages
  <2>3. CASE (Die("report") /\ UNCHANGED finished) \/ FinishStage
    <3>1. DOMAIN script' = Fields /\ script'.step = "begin" /\ finished' \subseteq finished \cup {Stage}
      BY <1>1, <2>3, FinishFields, DieFields
    <3>2. Shape'
      BY <1>1, <2>1, <3>1, SameFiles
    <3> QED
      BY <1>2, <2>1, <3>1, <3>2, OtherStages
  <2> QED
    BY <2>1, <2>2, <2>3
<1>11. CASE Fail
  <2>1. Running /\ Die("failed") /\ UNCHANGED <<source, compiler, files, data, finished>>
    BY <1>11 DEF Fail
  <2>2. DOMAIN script' = Fields /\ script'.step = "begin"
    BY <1>1, <2>1, DieFields
  <2>3. Shape'
    BY <1>1, <2>1, <2>2, SameFiles
  <2> QED
    BY <2>1, <2>2, <2>3, OtherStages
<1> QED
  BY <1>3, <1>4, <1>5, <1>6, <1>7, <1>8, <1>9, <1>10, <1>11

-----------------------------------------------------------------------------
(* The measuring stages.                                                   *)

\* A stage begins by removing its old files.
LEMMA ClearKeeps ==
    ASSUME RunInv, NEW stage \in Range(Measuring), Clear(stage)
    PROVE  RunInv'
<1>1. Shape /\ Done /\ DOMAIN script = Fields /\ stage \in DOMAIN data
  BY DEF RunInv, Shape
<1>2. /\ Running /\ Stage = stage /\ finished' = finished \ {stage}
      /\ UNCHANGED <<source, compiler, files, scratch>>
      /\ \/ Die("need") /\ UNCHANGED data
         \/ /\ GoTo("build") /\ data' = [data EXCEPT ![stage] = <<>>]
            /\ ~\E f \in Range(ProgramsOf(stage)) : files[f] = None
  BY DEF Clear, At
<1>3. stage \notin {"build", "markers"}
  BY MeasuringStages
<1>4. CASE Die("need") /\ UNCHANGED data
  <2>1. DOMAIN script' = Fields /\ script'.step = "begin"
    BY <1>1, <1>4, DieFields
  <2>2. Shape'
    BY <1>1, <1>2, <1>4, <2>1, SameFiles
  <2> QED
    BY <1>2, <1>4, <2>1, <2>2, OtherStages
<1>5. CASE /\ GoTo("build") /\ data' = [data EXCEPT ![stage] = <<>>]
           /\ ~\E f \in Range(ProgramsOf(stage)) : files[f] = None
  <2>1. DOMAIN script' = Fields /\ script'.step = "build" /\ script'.todo = script.todo
    BY <1>1, <1>5, GoToFields
  <2>2. Stage' = stage /\ Running'
    BY <1>2, <2>1 DEF Stage, Running
  <2>3. DOMAIN data' = DOMAIN data /\ data'[stage] = <<>>
        /\ \A s \in Range(Measuring) \ {stage} : data'[s] = data[s]
    BY <1>1, <1>5, SMTT(30) DEF Shape
  <2>4. \A k \in DOMAIN ProgramsOf(stage) : files[ProgramsOf(stage)[k]] \in Texts
    <3> SUFFICES ASSUME NEW k \in DOMAIN ProgramsOf(stage) PROVE files[ProgramsOf(stage)[k]] \in Texts
      OBVIOUS
    <3>1. ProgramsOf(stage)[k] \in {"self", "marked"} /\ ProgramsOf(stage)[k] \in Range(ProgramsOf(stage))
      BY ProgramTexts DEF Range
    <3> QED
      BY <1>1, <1>5, <3>1 DEF Shape
  <2>5. files.self \in Texts
    BY <2>4, ProgramTexts
  <2>6. Shape'
    BY <1>1, <1>2, <1>3, <2>1, <2>3, SameFiles
  <2>7. Done'
    BY <1>1, <1>2, <2>3 DEF Done
  <2>8. data'[stage] \in Seq(RowSet) /\ Len(data'[stage]) = 0
    BY <2>3, SMTT(30)
  <2>9. Compared' = 0 /\ \A i \in 1 .. 0 : Passed(stage, i, data[stage][i])'
    BY <2>1, SMTT(30) DEF Compared
  <2>10. Midway'
    BY <1>2, <2>1, <2>2, <2>4, <2>5, <2>8, <2>9 DEF Midway
  <2> QED
    BY <2>6, <2>7, <2>10 DEF RunInv
<1> QED
  BY <1>2, <1>4, <1>5

\* Its programs are built.
LEMMA BuildKeeps ==
    ASSUME RunInv, NEW stage \in Range(Measuring), BuildPrograms(stage)
    PROVE  RunInv'
<1> DEFINE programs == [k \in DOMAIN ProgramsOf(stage) |-> files[ProgramsOf(stage)[k]]]
<1>1. Shape /\ Done /\ DOMAIN script = Fields
  BY DEF RunInv, Shape
<1>2. /\ Running /\ Stage = stage /\ script.step = "build"
      /\ script' = [script EXCEPT !.step = "measure", !.run = 1, !.built = programs]
      /\ UNCHANGED <<source, compiler, files, scratch, data, finished>>
  BY DEF BuildPrograms, At
<1> HIDE DEF programs
<1>3. /\ DOMAIN script' = Fields /\ script'.step = "measure" /\ script'.todo = script.todo
      /\ script'.run = 1 /\ script'.built = programs
  BY <1>1, <1>2 DEF Fields
<1>4. Stage' = stage /\ Running'
  BY <1>2, <1>3 DEF Stage, Running
<1>5. Midway
  BY <1>2 DEF RunInv, InStage
<1>6. Shape'
  BY <1>1, <1>2, <1>3, SameFiles
<1>7. Done'
  BY <1>1, <1>2 DEF Done
<1>8. Compared = 0 /\ Compared' = 0
  <2>1. Compared' = 1 - 1
    BY <1>3 DEF Compared
  <2> QED
    BY <1>2, <2>1, SMTT(30) DEF Compared
<1>9. 1 \in DOMAIN ProgramsOf(stage)
  BY ProgramTexts
<1>10. /\ Len(data[stage]) = 0 /\ data[stage] \in Seq(RowSet)
       /\ \A i \in 1 .. 0 : Passed(stage, i, data[stage][i])
  BY <1>2, <1>5, <1>8 DEF Midway
<1>11. \A i \in 1 .. 0 : Passed(stage, i, data[stage][i])'
  BY <1>2, <1>10 DEF Passed
<1>12. Midway'
  BY <1>2, <1>3, <1>4, <1>5, <1>8, <1>9, <1>10, <1>11 DEF Midway, programs
<1> QED
  BY <1>6, <1>7, <1>12 DEF RunInv

\* A program compiles blorp/src as it is now.
LEMMA MeasureKeeps ==
    ASSUME RunInv, NEW stage \in Range(Measuring), Measure(stage)
    PROVE  RunInv'
<1> DEFINE program == script.built[script.run]
           row == [program |-> program, input |-> source]
           rows == data[stage]
<1>1. Shape /\ Done /\ DOMAIN script = Fields /\ stage \in DOMAIN data /\ source \in Versions
  BY DEF RunInv, Shape
<1>2. /\ Running /\ Stage = stage /\ script.step = "measure"
      /\ UNCHANGED <<source, compiler, files, scratch, finished>>
      /\ script' = [script EXCEPT !.step = "compare", !.output = [text |-> Emit(program, source), of |-> source]]
      /\ data' = IF stage \in Late THEN data ELSE [data EXCEPT ![stage] = Append(rows, row)]
  BY DEF Measure, At
<1>3. Midway
  BY <1>2 DEF RunInv, InStage
<1>4. /\ DOMAIN script' = Fields /\ script'.step = "compare" /\ script'.todo = script.todo
      /\ script'.run = script.run /\ script'.built = script.built
      /\ script'.output = [text |-> Emit(program, source), of |-> source]
  BY <1>1, <1>2 DEF Fields
<1>5. script'.output.text = Emit(program, source) /\ script'.output.of = source
  BY <1>4, SMTT(30)
<1>6. Row' = row
  BY <1>4, <1>5 DEF Row
<1>7. Stage' = stage /\ Running'
  BY <1>2, <1>4 DEF Stage, Running
<1>8. Compared' = Compared /\ Compared = script.run - 1
  <2>1. script.step # "build" /\ script'.step # "build"
    BY <1>2, <1>4
  <2> QED
    BY <1>4, <2>1 DEF Compared
<1>9. /\ stage \notin finished /\ script.run \in DOMAIN ProgramsOf(stage)
      /\ script.built = [k \in DOMAIN ProgramsOf(stage) |-> files[ProgramsOf(stage)[k]]]
      /\ rows \in Seq(RowSet) /\ Len(rows) = Compared
      /\ \A i \in 1 .. Compared : Passed(stage, i, rows[i])
      /\ \A k \in DOMAIN ProgramsOf(stage) : files[ProgramsOf(stage)[k]] \in Texts
  BY <1>2, <1>3 DEF Midway
<1>10. row \in RowSet
  BY <1>1, <1>9 DEF RowSet
<1>11. Len(rows) \in Nat /\ Len(rows) + 1 = script.run
  <2>1. script.run \in Nat
    BY <1>9, ProgramTexts, SMTT(30)
  <2> QED
    BY <1>8, <1>9, <2>1, SMTT(30)
<1> HIDE DEF row, program
<1>12. /\ Append(rows, row) \in Seq(RowSet) /\ Len(Append(rows, row)) = Len(rows) + 1
       /\ Append(rows, row)[script.run] = row
       /\ \A i \in 1 .. Compared : Append(rows, row)[i] = rows[i]
  <2> HIDE DEF rows
  <2> QED
    BY <1>9, <1>10, <1>11, SMTT(30)
<1>13. /\ DOMAIN data' = DOMAIN data /\ \A s \in Range(Measuring) \ {stage} : data'[s] = data[s]
       /\ data'[stage] = IF stage \in Late THEN rows ELSE Append(rows, row)
  BY <1>1, <1>2, SMTT(30) DEF Shape
<1>14. /\ data'[stage] \in Seq(RowSet)
       /\ Len(data'[stage]) = IF stage \in Late THEN Compared ELSE Compared + 1
       /\ stage \notin Late => data'[stage][script.run] = row
       /\ \A i \in 1 .. Compared : Passed(stage, i, data'[stage][i])
  BY <1>9, <1>12, <1>13
<1>15. \A i \in 1 .. Compared : Passed(stage, i, data[stage][i])'
  BY <1>2, <1>14 DEF Passed
<1>16. Shape'
  BY <1>1, <1>2, <1>4, <1>13, SameFiles
<1>17. Done'
  BY <1>1, <1>2, <1>9, <1>13 DEF Done
<1>18. Midway'
  <2>1. /\ script'.step = "compare" /\ (Stage \notin finished)' /\ (files.self \in Texts)'
        /\ (\A k \in DOMAIN ProgramsOf(Stage) : files[ProgramsOf(Stage)[k]] \in Texts)'
        /\ (script.built = [k \in DOMAIN ProgramsOf(Stage) |-> files[ProgramsOf(Stage)[k]]])'
        /\ (script.run \in DOMAIN ProgramsOf(Stage))'
    BY <1>2, <1>3, <1>4, <1>7, <1>9 DEF Midway
  <2>2. /\ (data[Stage] \in Seq(RowSet))'
        /\ Len(data'[Stage']) = IF Stage' \notin Late THEN Compared' + 1 ELSE Compared'
        /\ \A i \in 1 .. Compared' : Passed(Stage, i, data[Stage][i])'
    BY <1>7, <1>8, <1>14, <1>15 DEF Passed
  <2>3. /\ script'.output.of \in Versions
        /\ script'.output.text = Emit(script'.built[script'.run], script'.output.of)
        /\ Stage' \notin Late => data'[Stage'][script'.run] = Row'
    BY <1>1, <1>4, <1>5, <1>6, <1>7, <1>14 DEF program
  <2> QED
    BY <2>1, <2>2, <2>3 DEF Midway
<1> QED
  BY <1>16, <1>17, <1>18 DEF RunInv

\* A program whose output is self.c leaves a row that has passed.
LEMMA CompareRows ==
    ASSUME RunInv, NEW stage \in Range(Measuring), Compare(stage), script.output.text = files.self
    PROVE  /\ NextProgram(stage) /\ DOMAIN data' = DOMAIN data
           /\ \A s \in Range(Measuring) \ {stage} : data'[s] = data[s]
           /\ data'[stage] \in Seq(RowSet) /\ Len(data'[stage]) = script.run
           /\ script.run \in DOMAIN ProgramsOf(stage) /\ script.run \in Nat
           /\ \A i \in 1 .. script.run : Passed(stage, i, data'[stage][i])
<1> DEFINE rows == data[stage]
<1>1. Shape /\ DOMAIN data = Range(Measuring)
  BY DEF RunInv, Shape
<1>2. /\ Running /\ Stage = stage /\ script.step = "compare"
      /\ NextProgram(stage) /\ data' = IF stage \in Late THEN [data EXCEPT ![stage] = Append(rows, Row)] ELSE data
  BY DEF Compare, At, Recorded
<1>3. Midway
  BY <1>2 DEF RunInv, InStage
<1>4. /\ script.run \in DOMAIN ProgramsOf(stage) /\ rows \in Seq(RowSet)
      /\ script.built = [k \in DOMAIN ProgramsOf(stage) |-> files[ProgramsOf(stage)[k]]]
      /\ \A k \in DOMAIN ProgramsOf(stage) : files[ProgramsOf(stage)[k]] \in Texts
      /\ script.output.of \in Versions /\ script.output.text = Emit(script.built[script.run], script.output.of)
      /\ stage \notin Late => rows[script.run] = Row
      /\ Len(rows) = IF stage \notin Late THEN Compared + 1 ELSE Compared
      /\ \A i \in 1 .. Compared : Passed(stage, i, rows[i])
  BY <1>2, <1>3 DEF Midway
<1>5. Compared = script.run - 1
  BY <1>2 DEF Compared
<1>6. script.run \in Nat
  BY <1>4, ProgramTexts, SMTT(30)
<1>7. Row.program = script.built[script.run] /\ Row.input = script.output.of
  BY DEF Row
<1>8. script.built[script.run] = files[ProgramsOf(stage)[script.run]] /\ script.built[script.run] \in Texts
  BY <1>4
<1>9. Passed(stage, script.run, Row)
  BY <1>4, <1>7, <1>8 DEF Passed
<1>10. Row \in RowSet
  BY <1>4, <1>8 DEF Row, RowSet
<1>11. /\ DOMAIN data' = DOMAIN data /\ \A s \in Range(Measuring) \ {stage} : data'[s] = data[s]
       /\ data'[stage] = IF stage \in Late THEN Append(rows, Row) ELSE rows
  BY <1>1, <1>2, SMTT(30)
<1> DEFINE after == data'[stage]
           row == Row
<1>12. /\ after \in Seq(RowSet) /\ Len(after) = script.run /\ after[script.run] = row
       /\ \A i \in 1 .. Compared : after[i] = rows[i]
  <2>1. CASE stage \in Late
    <3>1. after = Append(rows, row) /\ Len(rows) = script.run - 1
      BY <1>4, <1>5, <1>11, <2>1
    <3>2. row \in RowSet
      BY <1>10
    <3> HIDE DEF rows, after, row
    <3>3. rows \in Seq(RowSet)
      BY <1>4
    <3> QED
      BY <1>5, <1>6, <3>1, <3>2, <3>3, SMTT(30)
  <2>2. CASE stage \notin Late
    <3>1. after = rows /\ Len(rows) = Compared + 1 /\ rows[script.run] = row /\ rows \in Seq(RowSet)
      BY <1>4, <1>11, <2>2
    <3> HIDE DEF rows, after, row
    <3>2. Len(rows) = script.run
      BY <1>5, <1>6, <3>1, SMTT(30)
    <3> QED
      BY <3>1, <3>2
  <2> QED
    BY <2>1, <2>2
<1>13. ASSUME NEW i \in 1 .. script.run PROVE Passed(stage, i, after[i])
  <2>1. i \in 1 .. Compared \/ i = script.run
    BY <1>5, <1>6, SMTT(30)
  <2>2. CASE i \in 1 .. Compared
    BY <1>4, <1>12, <2>2
  <2>3. CASE i = script.run
    BY <1>9, <1>12, <2>3
  <2> QED
    BY <2>1, <2>2, <2>3
<1> QED
  BY <1>2, <1>4, <1>6, <1>11, <1>12, <1>13

\* Its output is compared with self.c.
LEMMA CompareKeeps ==
    ASSUME RunInv, NEW stage \in Range(Measuring), Compare(stage)
    PROVE  RunInv'
<1>1. Shape /\ Done /\ DOMAIN script = Fields /\ stage \in DOMAIN data
  BY DEF RunInv, Shape
<1>2. Running /\ Stage = stage /\ script.step = "compare" /\ UNCHANGED <<source, compiler, files, scratch>>
  BY DEF Compare, At
<1>3. Midway
  BY <1>2 DEF RunInv, InStage
<1>4. CASE script.output.text # files.self
  <2>1. Die("differs") /\ UNCHANGED <<finished, data>>
    BY <1>4 DEF Compare
  <2>2. DOMAIN script' = Fields /\ script'.step = "begin"
    BY <1>1, <2>1, DieFields
  <2>3. Shape'
    BY <1>1, <1>2, <2>1, <2>2, SameFiles
  <2> QED
    BY <1>2, <2>1, <2>2, <2>3, OtherStages
<1>5. CASE script.output.text = files.self
  <2>1. /\ NextProgram(stage) /\ DOMAIN data' = DOMAIN data
        /\ \A s \in Range(Measuring) \ {stage} : data'[s] = data[s]
        /\ data'[stage] \in Seq(RowSet) /\ Len(data'[stage]) = script.run
        /\ script.run \in DOMAIN ProgramsOf(stage) /\ script.run \in Nat
        /\ \A i \in 1 .. script.run : Passed(stage, i, data'[stage][i])
    BY <1>5, CompareRows
  <2>2. CASE script.run = Len(ProgramsOf(stage))
    <3>1. FinishStage
      BY <2>1, <2>2 DEF NextProgram
    <3>2. DOMAIN script' = Fields /\ script'.step = "begin" /\ finished' = finished \cup {stage}
      BY <1>1, <1>2, <3>1, FinishFields
    <3>3. Shape'
      BY <1>1, <1>2, <2>1, <3>2, SameFiles
    <3>4. OneC(stage, data'[stage])
      <4>1. DOMAIN data'[stage] = 1 .. script.run
        BY <2>1, SMTT(30)
      <4>2. files.self \in Texts
        BY <1>3 DEF Midway
      <4>3. ASSUME NEW i \in DOMAIN data'[stage]
            PROVE  /\ Emit(data'[stage][i].program, data'[stage][i].input) = files.self
                   /\ ProgramsOf(stage)[i] = "self" => data'[stage][i].program = files.self
        BY <2>1, <4>1, <4>3 DEF Passed
      <4> QED
        BY <4>2, <4>3 DEF OneC
    <3>5. Done'
      BY <1>1, <2>1, <3>2, <3>4 DEF Done
    <3> QED
      BY <3>2, <3>3, <3>5, AtBegin
  <2>3. CASE script.run # Len(ProgramsOf(stage))
    <3>1. /\ script' = [script EXCEPT !.step = "measure", !.run = script.run + 1, !.output = None]
          /\ UNCHANGED finished
      BY <2>1, <2>3 DEF NextProgram
    <3>2. /\ DOMAIN script' = Fields /\ script'.step = "measure" /\ script'.todo = script.todo
          /\ script'.run = script.run + 1 /\ script'.built = script.built
      BY <1>1, <3>1 DEF Fields
    <3>3. script'.run \in DOMAIN ProgramsOf(stage)
      <4> DEFINE n == Len(ProgramsOf(stage))
      <4>1. n \in Nat /\ DOMAIN ProgramsOf(stage) = 1 .. n
        BY ProgramTexts
      <4>2. script.run \in 1 .. n /\ script.run # n
        BY <2>1, <2>3, <4>1
      <4> HIDE DEF n
      <4> QED
        BY <3>2, <4>1, <4>2, SMTT(30)
    <3>4. Stage' = stage /\ Running'
      BY <1>2, <3>2 DEF Stage, Running
    <3>5. Compared' = script.run
      <4>1. Compared' = (script.run + 1) - 1
        BY <3>2 DEF Compared
      <4> QED
        BY <2>1, <4>1, SMTT(30)
    <3>6. \A i \in 1 .. Compared' : Passed(Stage, i, data[Stage][i])'
      BY <1>2, <2>1, <3>4, <3>5 DEF Passed
    <3>7. Shape'
      BY <1>1, <1>2, <2>1, <3>2, SameFiles
    <3>8. Done'
      <4>1. stage \notin finished
        BY <1>2, <1>3 DEF Midway
      <4> QED
        BY <1>1, <2>1, <3>1, <4>1 DEF Done
    <3>9. Midway'
      BY <1>2, <1>3, <2>1, <3>1, <3>2, <3>3, <3>4, <3>5, <3>6 DEF Midway
    <3> QED
      BY <3>7, <3>8, <3>9 DEF RunInv
  <2> QED
    BY <2>2, <2>3
<1> QED
  BY <1>4, <1>5

\* Every step keeps the invariant.
LEMMA StepKeeps == RunInv /\ [Next]_vars => RunInv'
<1> SUFFICES ASSUME RunInv, [Next]_vars PROVE RunInv'
  OBVIOUS
<1>1. ASSUME NEW stages \in Requests, Invoke(stages) PROVE RunInv'
  BY <1>1, InvokeKeeps
<1>2. CASE Make \/ WriteSelf \/ CopySource \/ PatchEmit \/ WriteMarked \/ CompareMarked
             \/ ReportBegin \/ ReportTable \/ Fail
  BY <1>2, OthersKeep
<1>3. ASSUME NEW stage \in Range(Measuring),
             Clear(stage) \/ BuildPrograms(stage) \/ Measure(stage) \/ Compare(stage)
      PROVE  RunInv'
  BY <1>3, ClearKeeps, BuildKeeps, MeasureKeeps, CompareKeeps
<1>4. CASE Edit \/ UNCHANGED vars
  BY <1>4, EditKeeps
<1> QED
  BY <1>1, <1>2, <1>3, <1>4 DEF Next

\* Whatever C the compilers write, whatever is edited before or while a stage of
\* attribution/run measures, and whatever invocations came before: the measured
\* programs of a stage that came to its end all wrote one C, and those that are
\* built from self.c were built from it.
THEOREM SelfCompileAlways == Spec => []SelfCompileMeasured
<1>1. Init => RunInv
  BY InitHolds
<1>2. RunInv /\ [Next]_vars => RunInv'
  BY StepKeeps
<1>3. RunInv => SelfCompileMeasured
  BY DEF RunInv, Done, OneC, SelfCompileMeasured
<1> QED
  BY <1>1, <1>2, <1>3, PTL DEF Spec

-----------------------------------------------------------------------------
(* A full run.                                                             *)

\* The rows of the program of a C text writing this C again.
Itself(self) == {row \in [program : {self}, input : Versions] : Emit(self, row.input) = self}

\* All stages were asked for, and nothing has failed yet.
FullRun == script.wanted = Range(AllStages) /\ script.status \in {"running", "done"}

\* What the stages that are behind a full run have left: they come in order,
\* and self.c is the text that all of them have used.
Behind ==
    /\ script.todo \subseteq Range(AllStages)
    /\ "build" \in script.todo => script.todo = Range(AllStages)
    /\ script.todo # {} => "report" \in script.todo
    /\ "build" \notin script.todo => files.self \in Texts
    /\ "markers" \notin script.todo => files.marked = files.self
    /\ \A stage \in Range(Measuring) \ script.todo : data[stage] \in Seq(Itself(files.self))

\* The table of a stage is about the compiler of self.c compiling itself.
Told(stage) ==
    /\ tables[stage].labels = files.self
    /\ tables[stage].rows \in Seq(Itself(files.self))

InReport == Running /\ Stage = "report" /\ script.step # "begin"

Telling ==
    /\ script.run \in 1 .. 5
    /\ \A i \in 1 .. script.run - 1 : Told(Measuring[i])

FullInv ==
    /\ DOMAIN tables = Range(Measuring)
    /\ Running => script.status = "running"
    /\ FullRun =>
          /\ Behind
          /\ InReport => Telling
          /\ ~Running => \A stage \in Range(Measuring) : Told(stage)

\* The stages, in the script's order.
LEMMA StagesInOrder ==
    /\ DOMAIN AllStages = 1 .. 8
    /\ AllStages[1] = "build" /\ AllStages[2] = "markers" /\ AllStages[3] = "copies"
    /\ AllStages[4] = "rc" /\ AllStages[5] = "allocations" /\ AllStages[6] = "profile"
    /\ AllStages[7] = "timing" /\ AllStages[8] = "report"
    /\ Range(AllStages) = {"build", "markers", "report"} \cup Range(Measuring)
<1>1. DOMAIN AllStages = 1 .. 8
  BY SMTT(30) DEF AllStages
<1>2. /\ AllStages[1] = "build" /\ AllStages[2] = "markers" /\ AllStages[3] = "copies"
      /\ AllStages[4] = "rc" /\ AllStages[5] = "allocations" /\ AllStages[6] = "profile"
      /\ AllStages[7] = "timing" /\ AllStages[8] = "report"
  BY DEF AllStages
<1>3. Range(AllStages) = {AllStages[i] : i \in 1 .. 8}
  BY <1>1 DEF Range
<1>4. \A i \in 1 .. 8 : i = 1 \/ i = 2 \/ i = 3 \/ i = 4 \/ i = 5 \/ i = 6 \/ i = 7 \/ i = 8
  BY SMTT(30)
<1>5. Range(AllStages) = {"build", "markers", "report"} \cup Range(Measuring)
  BY <1>2, <1>3, <1>4, MeasuringStages, SMTT(30)
<1> QED
  BY <1>1, <1>2, <1>5

\* The stage that runs is the first of those that are left.
LEMMA StageIsFirst ==
    ASSUME script.todo \subseteq Range(AllStages), Running
    PROVE  /\ Stage \in script.todo
           /\ "build" \in script.todo => Stage = "build"
           /\ "markers" \in script.todo => Stage = "build" \/ Stage = "markers"
           /\ Stage = "report" => script.todo = {"report"}
<1> DEFINE left == script.todo
           First(i) == AllStages[i] \in left /\ \A j \in 1 .. i - 1 : AllStages[j] \notin left
           first == CHOOSE i \in 1 .. 8 : First(i)
<1>1. PICK k \in 1 .. 8 : AllStages[k] \in left
  BY StagesInOrder DEF Running, Range
<1>2. \E i \in 1 .. 8 : First(i)
  <2> HIDE DEF left
  <2>1. CASE First(1) \/ First(2) \/ First(3) \/ First(4) \/ First(5) \/ First(6) \/ First(7) \/ First(8)
    BY <2>1, SMTT(30)
  <2>2. CASE ~(First(1) \/ First(2) \/ First(3) \/ First(4) \/ First(5) \/ First(6) \/ First(7) \/ First(8))
    <3>1. AllStages[1] \notin left
      BY <2>2, SMTT(30)
    <3>2. AllStages[2] \notin left
      BY <2>2, <3>1, SMTT(30)
    <3>3. AllStages[3] \notin left
      BY <2>2, <3>1, <3>2, SMTT(30)
    <3>4. AllStages[4] \notin left
      BY <2>2, <3>1, <3>2, <3>3, SMTT(30)
    <3>5. AllStages[5] \notin left
      BY <2>2, <3>1, <3>2, <3>3, <3>4, SMTT(30)
    <3>6. AllStages[6] \notin left
      BY <2>2, <3>1, <3>2, <3>3, <3>4, <3>5, SMTT(30)
    <3>7. AllStages[7] \notin left
      BY <2>2, <3>1, <3>2, <3>3, <3>4, <3>5, <3>6, SMTT(30)
    <3>8. AllStages[8] \notin left
      BY <2>2, <3>1, <3>2, <3>3, <3>4, <3>5, <3>6, <3>7, SMTT(30)
    <3> QED
      BY <1>1, <3>1, <3>2, <3>3, <3>4, <3>5, <3>6, <3>7, <3>8, SMTT(30)
  <2> QED
    BY <2>1, <2>2
<1>3. Stage = AllStages[first]
  BY StagesInOrder DEF Stage
<1>4. first \in 1 .. 8 /\ First(first)
  BY <1>2
<1> HIDE DEF first
<1>5. \A j \in 1 .. first - 1 : AllStages[j] \notin left
  BY <1>4
<1>6. Stage \in left
  BY <1>3, <1>4
<1>7. "build" \in left => Stage = "build"
  BY <1>3, <1>4, <1>5, StagesInOrder, SMTT(30)
<1>8. "markers" \in left => Stage = "build" \/ Stage = "markers"
  BY <1>3, <1>4, <1>5, StagesInOrder, SMTT(30)
<1>9. Stage = "report" => left = {"report"}
  <2> SUFFICES ASSUME Stage = "report" PROVE left = {"report"}
    OBVIOUS
  <2>1. first = 8
    BY <1>3, <1>4, StagesInOrder, SMTT(30)
  <2>2. ASSUME NEW s \in left PROVE s = "report"
    <3>1. PICK j \in 1 .. 8 : s = AllStages[j]
      BY StagesInOrder DEF Range
    <3>2. j = 8
      BY <1>5, <2>1, <3>1, SMTT(30)
    <3> QED
      BY <3>1, <3>2, StagesInOrder
  <2> QED
    BY <1>6, <2>2
<1> QED
  BY <1>6, <1>7, <1>8, <1>9

\* Rows of one kind are rows of two kinds.
LEMMA WidenRows ==
    ASSUME NEW few, NEW many, few \subseteq many, NEW rows \in Seq(few)
    PROVE  rows \in Seq(many)
<1>1. Len(rows) \in Nat /\ rows \in [1 .. Len(rows) -> few]
  BY SMTT(30)
<1>2. rows \in [1 .. Len(rows) -> many]
  BY <1>1
<1> QED
  BY <1>1, <1>2, SMTT(30)

-----------------------------------------------------------------------------
(* How a full run moves.                                                   *)

Stays ==
    /\ script'.todo = script.todo /\ script'.wanted = script.wanted
    /\ script'.status = script.status

\* Within a stage.
LEMMA StayKeeps ==
    ASSUME FullInv, Running, Stays, DOMAIN tables' = DOMAIN tables,
           FullRun => Behind' /\ (InReport' => Telling')
    PROVE  FullInv'
<1>1. Running' /\ (FullRun' => FullRun)
  BY DEF Running, FullRun, Stays
<1> QED
  BY <1>1 DEF FullInv, Stays

\* A run that fails is not full any more.
LEMMA DieKeeps ==
    ASSUME Shape, FullInv, DOMAIN tables' = DOMAIN tables,
           NEW why \in {"need", "patch", "differs", "report", "failed"}, Die(why)
    PROVE  FullInv'
<1>1. script'.todo = {} /\ script'.status = why
  BY DEF Die, Shape, Fields
<1>2. ~Running' /\ ~FullRun'
  BY <1>1 DEF Running, FullRun
<1> QED
  BY <1>2 DEF FullInv

\* Where a finished stage leaves the script.
LEMMA FinishMoves ==
    ASSUME Shape, FinishStage
    PROVE  /\ script'.todo = script.todo \ {Stage} /\ script'.step = "begin"
           /\ script'.wanted = script.wanted
           /\ script'.status = IF script.todo = {Stage} THEN "done" ELSE script.status
BY DEF FinishStage, Shape, Fields

\* To the next stage, or to the end.
LEMMA FinishKeeps ==
    ASSUME Shape, FullInv, Running, FinishStage, DOMAIN tables' = DOMAIN tables,
           FullRun => Behind',
           FullRun /\ script.todo = {Stage} => \A stage \in Range(Measuring) : Told(stage)'
    PROVE  FullInv'
<1>1. /\ script'.todo = script.todo \ {Stage} /\ script'.step = "begin"
      /\ script'.wanted = script.wanted
      /\ script'.status = IF script.todo = {Stage} THEN "done" ELSE script.status
  BY FinishMoves
<1>2. script.status = "running"
  BY DEF FullInv
<1>3. FullRun' => FullRun
  BY <1>1, <1>2 DEF FullRun
<1>4. ~InReport'
  BY <1>1 DEF InReport
<1>5. ~Running' => script.todo = {Stage}
  BY <1>1 DEF Running
<1>6. Running' => script'.status = "running"
  BY <1>1, <1>2 DEF Running
<1> QED
  BY <1>3, <1>4, <1>5, <1>6 DEF FullInv

\* Steps that change no file that is behind the run.
LEMMA BehindStays ==
    ASSUME Behind, script'.todo = script.todo,
           files'.self = files.self, files'.marked = files.marked \/ "markers" \in script.todo,
           \A stage \in Range(Measuring) \ script.todo : data'[stage] = data[stage]
    PROVE  Behind'
BY DEF Behind

\* A stage that is finished is behind the run.
LEMMA BehindFinished ==
    ASSUME Behind, Running, Stage # "build", script'.todo = script.todo \ {Stage}, UNCHANGED files,
           Stage = "markers" => files.marked = files.self,
           \A stage \in Range(Measuring) \ script.todo : data'[stage] = data[stage],
           Stage \in Range(Measuring) => data'[Stage] \in Seq(Itself(files.self))
    PROVE  Behind'
<1>1. "build" \notin script.todo
  BY StageIsFirst DEF Behind
<1>2. \A stage \in Range(Measuring) \ script'.todo : data'[stage] \in Seq(Itself(files.self))
  BY DEF Behind
<1>3. script'.todo # {} => "report" \in script'.todo
  BY StageIsFirst DEF Behind
<1> QED
  BY <1>1, <1>2, <1>3 DEF Behind

-----------------------------------------------------------------------------
(* Every step of a full run.                                               *)

\* Nothing runs at first.
LEMMA FullInit == Init => FullInv
<1> SUFFICES ASSUME Init PROVE FullInv
  OBVIOUS
<1>1. DOMAIN tables = Range(Measuring) /\ script.todo = {} /\ script.status = "none"
  BY DEF Init
<1> QED
  BY <1>1 DEF FullInv, Running, FullRun

\* An invocation for all stages has all of them before it.
LEMMA FullInvoke ==
    ASSUME RunInv, FullInv, NEW stages \in Requests, Invoke(stages)
    PROVE  FullInv'
<1>1. DOMAIN script = Fields /\ script.step = "begin" /\ UNCHANGED tables
  BY DEF Invoke, RunInv, Shape
<1>2. /\ script'.todo = stages /\ script'.wanted = stages
      /\ script'.status = "running" /\ script'.step = "begin"
  BY <1>1 DEF Invoke, Fields
<1>3. ~InReport'
  BY <1>2 DEF InReport
<1>4. ASSUME FullRun' PROVE Behind' /\ Running'
  <2>1. script'.todo = Range(AllStages)
    BY <1>2, <1>4 DEF FullRun
  <2>2. /\ {"build", "markers", "report"} \subseteq Range(AllStages)
        /\ Range(Measuring) \subseteq Range(AllStages)
    BY StagesInOrder
  <2> QED
    BY <2>1, <2>2 DEF Behind, Running
<1> QED
  BY <1>1, <1>2, <1>3, <1>4 DEF FullInv

\* make compiler changes no file of the output directory.
LEMMA FullMake ==
    ASSUME RunInv, FullInv, Make
    PROVE  FullInv'
<1>1. Running /\ Stage = "build" /\ GoTo("compile") /\ UNCHANGED <<files, data, tables>>
  BY DEF Make, At
<1>2. Stays /\ Stage' = Stage
  BY <1>1 DEF GoTo, Stays, RunInv, Shape, Fields, Stage
<1>3. ~InReport'
  BY <1>1, <1>2, MeasuringStages DEF InReport
<1>4. FullRun => Behind'
  BY <1>1, <1>2, BehindStays DEF FullInv, Stays
<1> QED
  BY <1>1, <1>2, <1>3, <1>4, StayKeeps

\* A full run writes self.c before anything is measured.
LEMMA FullWriteSelf ==
    ASSUME RunInv, FullInv, WriteSelf
    PROVE  FullInv'
<1>1. /\ Running /\ Stage = "build" /\ script.step = "compile" /\ FinishStage /\ UNCHANGED <<data, tables>>
      /\ files' = [files EXCEPT !.self = Emit(compiler, source)]
  BY DEF WriteSelf, At
<1>2. Shape /\ source \in Versions /\ DOMAIN files = {"self", "marked"}
  BY DEF RunInv, Shape
<1>3. files'.self \in Texts
  <2>1. compiler \in Texts
    BY <1>1, <1>2 DEF Shape
  <2>2. files'.self = Emit(compiler, source)
    BY <1>1, <1>2
  <2> QED
    BY <1>2, <2>1, <2>2, EmitAssumption
<1>4. script'.todo = script.todo \ {"build"}
  BY <1>1, <1>2, FinishMoves
<1>5. ASSUME FullRun PROVE Behind' /\ script.todo # {Stage}
  <2>1. script.todo = Range(AllStages)
    BY <1>1, <1>5, StageIsFirst DEF FullInv, Behind
  <2>2. /\ script'.todo \subseteq Range(AllStages) /\ "build" \notin script'.todo /\ "report" \in script'.todo
        /\ "markers" \in script'.todo /\ Range(Measuring) \subseteq script'.todo
    BY <1>4, <2>1, StagesInOrder, MeasuringStages
  <2>3. script.todo # {Stage}
    BY <1>1, <2>1, StagesInOrder
  <2> QED
    BY <1>2, <1>3, <2>2, <2>3 DEF Behind
<1> QED
  BY <1>1, <1>2, <1>5, FinishKeeps

\* The stage markers leaves a text that is self.c's.
LEMMA FullMarkers ==
    ASSUME RunInv, FullInv, CopySource \/ PatchEmit \/ WriteMarked \/ CompareMarked
    PROVE  FullInv'
<1>1. Running /\ Stage = "markers" /\ UNCHANGED <<data, tables>>
  BY DEF CopySource, PatchEmit, WriteMarked, CompareMarked, At
<1>2. Shape /\ DOMAIN files = {"self", "marked"} /\ DOMAIN script = Fields
  BY DEF RunInv, Shape
<1>3. FullRun => "markers" \in script.todo /\ "report" \in script.todo
  BY <1>1, StageIsFirst DEF FullInv, Behind
<1>4. ASSUME NEW step, GoTo(step), files'.self = files.self PROVE FullInv'
  <2>1. Stays /\ Stage' = Stage
    BY <1>2, <1>4 DEF GoTo, Stays, Fields, Stage
  <2>2. ~InReport'
    BY <1>1, <2>1, MeasuringStages DEF InReport
  <2>3. FullRun => Behind'
    BY <1>1, <1>3, <1>4, <2>1, BehindStays DEF FullInv, Stays
  <2> QED
    BY <1>1, <2>1, <2>2, <2>3, StayKeeps
<1>5. CASE CopySource
  <2>1. Die("need") \/ (GoTo("patch") /\ files' = [files EXCEPT !.marked = None])
    BY <1>5 DEF CopySource
  <2>2. CASE Die("need")
    BY <1>1, <1>2, <2>2, DieKeeps
  <2>3. CASE GoTo("patch") /\ files' = [files EXCEPT !.marked = None]
    <3>1. files'.self = files.self
      BY <1>2, <2>3
    <3> QED
      BY <1>4, <2>3, <3>1
  <2> QED
    BY <2>1, <2>2, <2>3
<1>6. CASE PatchEmit
  <2>1. UNCHANGED files /\ (GoTo("compile") \/ Die("patch"))
    BY <1>6 DEF PatchEmit
  <2>2. CASE Die("patch")
    BY <1>1, <1>2, <2>2, DieKeeps
  <2> QED
    BY <1>4, <2>1, <2>2
<1>7. CASE WriteMarked
  <2>1. GoTo("compare") /\ files' = [files EXCEPT !.marked = Emit(Emit(compiler, scratch), source)]
    BY <1>7 DEF WriteMarked
  <2>2. files'.self = files.self
    BY <1>2, <2>1
  <2> QED
    BY <1>4, <2>1, <2>2
<1>8. CASE CompareMarked
  <2>1. UNCHANGED files /\ ((files.marked = files.self /\ FinishStage) \/ Die("differs"))
    BY <1>8 DEF CompareMarked
  <2>2. CASE Die("differs")
    BY <1>1, <1>2, <2>2, DieKeeps
  <2>3. CASE files.marked = files.self /\ FinishStage
    <3>1. script'.todo = script.todo \ {Stage}
      BY <1>2, <2>3, FinishMoves
    <3>2. FullRun => Behind'
      BY <1>1, <2>1, <2>3, <3>1, BehindFinished, MeasuringStages DEF FullInv
    <3>3. FullRun => script.todo # {Stage}
      BY <1>1, <1>3
    <3> QED
      BY <1>1, <1>2, <2>3, <3>2, <3>3, FinishKeeps
  <2> QED
    BY <2>1, <2>2, <2>3
<1> QED
  BY <1>5, <1>6, <1>7, <1>8

\* In a full run, a measuring stage comes after build and markers.
LEMMA MeasuringIsAfter ==
    ASSUME RunInv, FullInv, FullRun, Running, Stage \in Range(Measuring)
    PROVE  /\ Behind /\ Stage \in script.todo /\ script.todo # {Stage}
           /\ files.self \in Texts /\ files.marked = files.self
<1>1. Behind
  BY DEF FullInv
<1>2. Stage # "build" /\ Stage # "markers" /\ Stage # "report"
  BY MeasuringStages
<1>3. "build" \notin script.todo /\ "markers" \notin script.todo /\ Stage \in script.todo
  BY <1>1, <1>2, StageIsFirst DEF Behind
<1> QED
  BY <1>1, <1>2, <1>3 DEF Behind

\* Before its last comparison, a stage leaves what is behind the run alone.
LEMMA FullMeasuring ==
    ASSUME RunInv, FullInv, NEW stage \in Range(Measuring), Running, Stage = stage, UNCHANGED <<files, tables>>,
           Stays, \A s \in Range(Measuring) \ {stage} : data'[s] = data[s]
    PROVE  FullInv'
<1>1. Stage' = Stage
  BY DEF Stage, Stays
<1>2. ~InReport'
  BY <1>1, MeasuringStages DEF InReport
<1>3. FullRun => Behind'
  BY MeasuringIsAfter, BehindStays DEF Stays
<1> QED
  BY <1>2, <1>3, StayKeeps

\* A stage clears its files, builds its programs and runs them.
LEMMA FullStage ==
    ASSUME RunInv, FullInv, NEW stage \in Range(Measuring),
           Clear(stage) \/ BuildPrograms(stage) \/ Measure(stage)
    PROVE  FullInv'
<1>1. Shape /\ DOMAIN script = Fields /\ DOMAIN data = Range(Measuring)
  BY DEF RunInv, Shape
<1>2. Running /\ Stage = stage /\ UNCHANGED <<files, tables>>
  BY DEF Clear, BuildPrograms, Measure, At
<1>3. CASE Clear(stage)
  <2>1. Die("need") \/ (GoTo("build") /\ data' = [data EXCEPT ![stage] = <<>>])
    BY <1>3 DEF Clear
  <2>2. CASE Die("need")
    BY <1>1, <1>2, <2>2, DieKeeps
  <2>3. CASE GoTo("build") /\ data' = [data EXCEPT ![stage] = <<>>]
    <3>1. Stays
      BY <1>1, <2>3 DEF GoTo, Stays, Fields
    <3>2. \A s \in Range(Measuring) \ {stage} : data'[s] = data[s]
      BY <1>1, <2>3
    <3> QED
      BY <1>2, <3>1, <3>2, FullMeasuring
  <2> QED
    BY <2>1, <2>2, <2>3
<1>4. CASE BuildPrograms(stage)
  <2>1. Stays /\ UNCHANGED data
    BY <1>1, <1>4 DEF BuildPrograms, Stays, Fields
  <2> QED
    BY <1>2, <2>1, FullMeasuring
<1>5. CASE Measure(stage)
  <2>1. Stays
    BY <1>1, <1>5 DEF Measure, Stays, Fields
  <2>2. \A s \in Range(Measuring) \ {stage} : data'[s] = data[s]
    BY <1>1, <1>5 DEF Measure
  <2> QED
    BY <1>2, <2>1, <2>2, FullMeasuring
<1> QED
  BY <1>3, <1>4, <1>5

\* The comparison with self.c: in a full run every program that passes it was
\* built from self.c, since marked.c is no other text.
LEMMA FullCompare ==
    ASSUME RunInv, FullInv, NEW stage \in Range(Measuring), Compare(stage)
    PROVE  FullInv'
<1>1. Running /\ Stage = stage /\ UNCHANGED <<files, tables>>
  BY DEF Compare, At
<1>2. Shape /\ DOMAIN script = Fields /\ DOMAIN data = Range(Measuring)
  BY DEF RunInv, Shape
<1>3. CASE script.output.text # files.self
  <2>1. Die("differs")
    BY <1>3 DEF Compare
  <2> QED
    BY <1>1, <1>2, <2>1, DieKeeps
<1>4. CASE script.output.text = files.self
  <2>1. /\ NextProgram(stage) /\ \A s \in Range(Measuring) \ {stage} : data'[s] = data[s]
        /\ data'[stage] \in Seq(RowSet) /\ Len(data'[stage]) = script.run
        /\ script.run \in DOMAIN ProgramsOf(stage) /\ script.run \in Nat
        /\ \A i \in 1 .. script.run : Passed(stage, i, data'[stage][i])
    BY <1>4, CompareRows
  <2>2. ASSUME FullRun PROVE data'[stage] \in Seq(Itself(files.self))
    <3> DEFINE rows == data'[stage]
    <3>1. files.marked = files.self
      BY <1>1, <2>2, MeasuringIsAfter
    <3>2. ASSUME NEW i \in 1 .. script.run PROVE rows[i] \in Itself(files.self)
      <4>1. i \in DOMAIN ProgramsOf(stage)
        BY <2>1, ProgramTexts, SMTT(30)
      <4>2. files[ProgramsOf(stage)[i]] = files.self
        BY <3>1, <4>1, ProgramTexts
      <4>3. rows[i].program = files.self /\ Emit(rows[i].program, rows[i].input) = files.self
        BY <2>1, <4>2 DEF Passed
      <4>4. rows[i] \in RowSet
        <5> HIDE DEF rows
        <5>1. rows \in Seq(RowSet) /\ Len(rows) = script.run
          BY <2>1 DEF rows
        <5> QED
          BY <5>1, SMTT(30)
      <4>5. rows[i] = [program |-> files.self, input |-> rows[i].input] /\ rows[i].input \in Versions
        <5> HIDE DEF rows
        <5> QED
          BY <4>3, <4>4, SMTT(30) DEF RowSet
      <4> HIDE DEF rows
      <4>6. rows[i] \in [program : {files.self}, input : Versions]
        BY <4>5, SMTT(30)
      <4>7. Emit(files.self, rows[i].input) = files.self
        BY <4>3
      <4> QED
        BY <4>6, <4>7 DEF Itself
    <3>3. rows \in Seq(RowSet) /\ Len(rows) = script.run /\ script.run \in Nat
      BY <2>1
    <3> DEFINE own == Itself(files.self)
    <3>4. \A i \in 1 .. script.run : rows[i] \in own
      BY <3>2
    <3> HIDE DEF rows, own
    <3>5. rows \in Seq(own)
      BY <3>3, <3>4, SMTT(30)
    <3> QED
      BY <3>5 DEF rows, own
  <2>3. CASE script.run = Len(ProgramsOf(stage))
    <3>1. FinishStage
      BY <2>1, <2>3 DEF NextProgram
    <3>2. script'.todo = script.todo \ {Stage}
      BY <1>2, <3>1, FinishMoves
    <3>3. ASSUME FullRun PROVE Behind' /\ script.todo # {Stage}
      <4>1. Stage # "build" /\ Stage # "markers"
        BY <1>1, MeasuringStages
      <4>2. Behind /\ Stage \in script.todo /\ script.todo # {Stage}
        BY <1>1, <3>3, MeasuringIsAfter
      <4>3. \A s \in Range(Measuring) \ script.todo : data'[s] = data[s]
        BY <1>1, <2>1, <4>2
      <4>4. data'[Stage] \in Seq(Itself(files.self))
        BY <1>1, <2>2, <3>3
      <4> QED
        BY <1>1, <3>2, <4>1, <4>2, <4>3, <4>4, BehindFinished
    <3> QED
      BY <1>1, <1>2, <3>1, <3>3, FinishKeeps
  <2>4. CASE script.run # Len(ProgramsOf(stage))
    <3>1. script' = [script EXCEPT !.step = "measure", !.run = script.run + 1, !.output = None]
      BY <2>1, <2>4 DEF NextProgram
    <3>2. Stays
      BY <1>2, <3>1 DEF Stays, Fields
    <3> QED
      BY <1>1, <2>1, <3>2, FullMeasuring
  <2> QED
    BY <2>3, <2>4
<1> QED
  BY <1>3, <1>4

\* The report is last, and every stage has its rows.
LEMMA ReportIsLast ==
    ASSUME FullInv, FullRun, Running, Stage = "report"
    PROVE  /\ Behind /\ script.todo = {"report"} /\ files.self \in Texts
           /\ \A stage \in Range(Measuring) :
                 data[stage] \in Seq(Itself(files.self)) /\ data[stage] # None
<1>1. Behind
  BY DEF FullInv
<1>2. script.todo = {"report"}
  BY <1>1, StageIsFirst DEF Behind
<1>3. files.self \in Texts /\ \A stage \in Range(Measuring) : data[stage] \in Seq(Itself(files.self))
  BY <1>1, <1>2, MeasuringStages DEF Behind
<1>4. Itself(files.self) \subseteq [program : Texts, input : Versions]
  <2> SUFFICES ASSUME NEW row \in Itself(files.self) PROVE row \in [program : Texts, input : Versions]
    OBVIOUS
  <2>1. row \in [program : {files.self}, input : Versions]
    BY DEF Itself
  <2> QED
    BY <1>3, <2>1, SMTT(30)
<1>5. \A stage \in Range(Measuring) : data[stage] # None
  BY <1>3, <1>4, WidenRows, NoneAssumption
<1> QED
  BY <1>1, <1>2, <1>3, <1>5

\* The report begins with the first table.
LEMMA FullReportBegin ==
    ASSUME RunInv, FullInv, ReportBegin
    PROVE  FullInv'
<1>1. /\ Running /\ Stage = "report" /\ UNCHANGED <<files, data, tables>>
      /\ script' = [script EXCEPT !.step = "table", !.run = 1]
  BY DEF ReportBegin, At
<1>2. Stays /\ script'.run = 1
  BY <1>1 DEF RunInv, Shape, Stays, Fields
<1>3. Stage' = Stage
  BY <1>2 DEF Stage, Stays
<1>4. Telling'
  BY <1>2, SMTT(30) DEF Telling
<1>5. FullRun => Behind'
  BY <1>1, <1>2, BehindStays DEF FullInv, Stays
<1> QED
  BY <1>1, <1>2, <1>4, <1>5, StayKeeps

\* Each table is written from its stage's rows, with the names of self.c.
LEMMA FullReportTable ==
    ASSUME RunInv, FullInv, ReportTable
    PROVE  FullInv'
<1> DEFINE stage == Measuring[script.run]
           table == [rows |-> data[stage], labels |-> files.self]
<1>1. Running /\ Stage = "report" /\ script.step = "table" /\ UNCHANGED <<files, data>>
  BY DEF ReportTable, At
<1>2. Shape /\ DOMAIN script = Fields /\ DOMAIN tables = Range(Measuring)
  BY DEF RunInv, Shape, FullInv
<1>3. DOMAIN tables' = DOMAIN tables
  BY DEF ReportTable
<1>4. \/ Die("report")
      \/ /\ tables' = IF data[stage] = None THEN tables ELSE [tables EXCEPT ![stage] = table]
         /\ \/ script.run = Len(Measuring) /\ FinishStage
            \/ script.run # Len(Measuring) /\ script' = [script EXCEPT !.run = script.run + 1]
  BY DEF ReportTable
<1>5. CASE Die("report")
  BY <1>2, <1>3, <1>5, DieKeeps
<1>6. CASE /\ tables' = IF data[stage] = None THEN tables ELSE [tables EXCEPT ![stage] = table]
           /\ \/ script.run = Len(Measuring) /\ FinishStage
              \/ script.run # Len(Measuring) /\ script' = [script EXCEPT !.run = script.run + 1]
  <2>1. Len(Measuring) = 5 /\ \A i \in 1 .. 5 : Measuring[i] \in Range(Measuring)
    BY SMTT(30) DEF Measuring, Range
  <2>2. ASSUME FullRun
        PROVE  /\ script.run \in 1 .. 5
               /\ \A i \in 1 .. script.run : Told(Measuring[i])'
    <3>1. script.run \in 1 .. 5 /\ \A i \in 1 .. script.run - 1 : Told(Measuring[i])
      BY <1>1, <2>2 DEF FullInv, InReport, Telling
    <3>2. PICK now \in Range(Measuring) : now = stage
      BY <2>1, <3>1
    <3>3. data[now] \in Seq(Itself(files.self)) /\ data[now] # None
      BY <1>1, <2>2, ReportIsLast
    <3>4. table.rows = data[now] /\ table.labels = files.self
      BY <3>2
    <3> HIDE DEF stage, table
    <3>5. tables' = [tables EXCEPT ![now] = table]
      BY <1>6, <3>2, <3>3
    <3>6. tables'[now] = table /\ \A s \in Range(Measuring) \ {now} : tables'[s] = tables[s]
      BY <1>2, <3>5
    <3>7. Told(now)'
      BY <1>1, <3>3, <3>4, <3>6 DEF Told
    <3>8. ASSUME NEW i \in 1 .. script.run PROVE Told(Measuring[i])'
      <4>1. CASE Measuring[i] = now
        BY <3>7, <4>1 DEF Told
      <4>2. CASE Measuring[i] # now
        <5>1. i \in 1 .. script.run - 1 /\ i \in 1 .. 5
          BY <3>1, <3>2, <4>2, SMTT(30) DEF stage
        <5>2. Told(Measuring[i]) /\ tables'[Measuring[i]] = tables[Measuring[i]]
          BY <2>1, <3>1, <3>6, <4>2, <5>1
        <5> QED
          BY <1>1, <5>2 DEF Told
      <4> QED
        BY <4>1, <4>2
    <3> QED
      BY <3>1, <3>8
  <2>3. CASE script.run = Len(Measuring) /\ FinishStage
    <3>1. script'.todo = script.todo \ {Stage}
      BY <1>2, <2>3, FinishMoves
    <3>2. ASSUME FullRun PROVE Behind'
      <4>1. Behind
        BY <3>2 DEF FullInv
      <4> QED
        BY <1>1, <3>1, <4>1, BehindFinished, MeasuringStages
    <3>3. ASSUME FullRun, NEW s \in Range(Measuring) PROVE Told(s)'
      <4>1. PICK i \in 1 .. 5 : s = Measuring[i]
        BY SMTT(30) DEF Range, Measuring
      <4>2. Told(Measuring[i])'
        BY <2>1, <2>2, <2>3, <3>3, <4>1
      <4> QED
        BY <4>1, <4>2 DEF Told
    <3> QED
      BY <1>1, <1>2, <1>3, <2>3, <3>2, <3>3, FinishKeeps
  <2>4. CASE script.run # Len(Measuring) /\ script' = [script EXCEPT !.run = script.run + 1]
    <3>1. Stays /\ script'.run = script.run + 1
      BY <1>2, <2>4 DEF Stays, Fields
    <3>4. ASSUME FullRun PROVE Behind' /\ Telling'
      <4>1. Behind'
        BY <1>1, <3>1, <3>4, BehindStays DEF FullInv, Stays
      <4>2. /\ script'.run \in 1 .. 5
            /\ 1 .. script'.run - 1 = 1 .. script.run
        BY <2>1, <2>2, <2>4, <3>1, <3>4, SMTT(30)
      <4>3. \A i \in 1 .. script'.run - 1 : Told(Measuring[i])'
        BY <2>2, <3>4, <4>2
      <4> QED
        BY <4>1, <4>2, <4>3 DEF Telling
    <3> QED
      BY <1>1, <1>3, <3>1, <3>4, StayKeeps
  <2> QED
    BY <1>6, <2>3, <2>4
<1> QED
  BY <1>4, <1>5, <1>6

\* Every step keeps both invariants.
LEMMA FullStep == RunInv /\ FullInv /\ [Next]_vars => FullInv'
<1> SUFFICES ASSUME RunInv, FullInv, [Next]_vars PROVE FullInv'
  OBVIOUS
<1>1. ASSUME NEW stages \in Requests, Invoke(stages) PROVE FullInv'
  BY <1>1, FullInvoke
<1>2. CASE Make \/ WriteSelf \/ ReportBegin \/ ReportTable
  BY <1>2, FullMake, FullWriteSelf, FullReportBegin, FullReportTable
<1>3. CASE CopySource \/ PatchEmit \/ WriteMarked \/ CompareMarked
  BY <1>3, FullMarkers
<1>4. ASSUME NEW stage \in Range(Measuring),
             Clear(stage) \/ BuildPrograms(stage) \/ Measure(stage) \/ Compare(stage)
      PROVE  FullInv'
  BY <1>4, FullStage, FullCompare
<1>5. CASE Fail
  BY <1>5, DieKeeps DEF Fail, RunInv
<1>6. CASE Edit \/ UNCHANGED vars
  <2>1. UNCHANGED <<files, data, tables, script>>
    BY <1>6 DEF Edit, vars
  <2>2. Stage' = Stage /\ (Running' <=> Running) /\ (FullRun' <=> FullRun)
    BY <2>1 DEF Stage, Running, FullRun
  <2>3. (Behind' <=> Behind) /\ (Telling' <=> Telling)
    <3>1. Behind' <=> Behind
      BY <2>1 DEF Behind
    <3>2. Telling' <=> Telling
      BY <2>1 DEF Telling, Told
    <3> QED
      BY <3>1, <3>2
  <2>4. InReport' <=> InReport
    BY <2>1, <2>2 DEF InReport
  <2>5. \A stage \in Range(Measuring) : Told(stage) => Told(stage)'
    BY <2>1 DEF Told
  <2> QED
    BY <2>1, <2>2, <2>3, <2>4, <2>5 DEF FullInv
<1> QED
  BY <1>1, <1>2, <1>3, <1>4, <1>5, <1>6 DEF Next

\* When all stages were asked for and attribution/run comes to its end, every
\* table is about programs that were built from the C that its function names
\* come from and wrote this C again: for all versions, whatever C the compilers
\* write for them, edits at any time, and whatever earlier invocations had left.
THEOREM FullRunAlways == Spec => []FullRunIsConsistent
<1>1. Init => RunInv /\ FullInv
  BY InitHolds, FullInit
<1>2. RunInv /\ FullInv /\ [Next]_vars => (RunInv /\ FullInv)'
  BY StepKeeps, FullStep
<1>3. FullInv => FullRunIsConsistent
  <2> SUFFICES ASSUME FullInv, script.status = "done", script.wanted = Range(AllStages),
                      NEW stage \in Range(Measuring), NEW row \in Range(tables[stage].rows)
               PROVE  /\ row.program = tables[stage].labels
                      /\ Emit(row.program, row.input) = tables[stage].labels
    BY DEF FullRunIsConsistent
  <2> DEFINE own == Itself(files.self)
             rows == tables[stage].rows
  <2>1. FullRun /\ ~Running
    BY DEF FullInv, FullRun
  <2>2. tables[stage].labels = files.self /\ rows \in Seq(own)
    BY <2>1 DEF FullInv, Told
  <2>3. row \in own
    <3>1. row \in Range(rows)
      OBVIOUS
    <3> HIDE DEF own, rows
    <3> QED
      BY <2>2, <3>1, SMTT(30) DEF Range
  <2>4. row \in [program : {files.self}, input : Versions] /\ Emit(files.self, row.input) = files.self
    BY <2>3 DEF Itself
  <2>5. row.program = files.self
    BY <2>4
  <2> QED
    BY <2>2, <2>4, <2>5
<1> QED
  BY <1>1, <1>2, <1>3, PTL DEF Spec
=============================================================================
