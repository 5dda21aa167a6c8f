------------------------------ MODULE WriteText ------------------------------
(***************************************************************************)
(* fs.write_text (runtime/fs.brp): processes that replace the file at one  *)
(* path, each system call a step, beside processes that crash and come     *)
(* back with the same pid, a link that is re-pointed, and a loss of power. *)
(*                                                                         *)
(* The path is a file, nothing, or a link to one of Target.  A file's      *)
(* contents are a sequence of the writes that wrote its bytes.  Assumed of *)
(* the system: rename is atomic; after a loss of power a name is one of    *)
(* the files that it has been, and a file that was flushed before it got   *)
(* its name has its contents, while of any other a prefix is left.         *)
(***************************************************************************)
EXTENDS Integers, Sequences, FiniteSetsExt

CONSTANTS
    None,
    Pid,            \* the numbers of the writing processes
    Path,           \* the path that they write
    Target,         \* the files that Path may be a link to
    Attempts,       \* BLORP_FS_TEMPORARY_ATTEMPTS
    MaxSize,        \* bound: the bytes of a text
    MaxWrites       \* bound: the writes of all processes

ASSUME WriteAssumption ==
    /\ Attempts \in Nat \ {0} /\ MaxSize \in Nat /\ MaxWrites \in Nat
    /\ Path \notin Target /\ None \notin Target \cup {Path}

VARIABLES
    link,           \* what Path is a link to, or None when it is no link
    entry,          \* the file at a place, and the files it has been: a set
    temporary,      \* the temporary names that exist, with their files
    file,           \* contents, mode and flush of a file
    call,           \* the write each pid is in
    counter,        \* blorp_fs_temporary_counter of each process
    powered         \* the power is on

vars == <<link, entry, temporary, file, call, counter, powered>>

Place == {Path} \cup Target

WriteId == Pid \X (1..MaxWrites)

\* A file is named for the write that created it, or for the place of an old
\* one.
File == WriteId \cup (Place \X {0})

\* The permission bits that matter here: readable by the owner only, by
\* others too, or with a set-id bit.
Mode == {"private", "shared", "set-id"}

Names == DOMAIN temporary

Text(write, size) == [i \in 1..size |-> write]

-----------------------------------------------------------------------------
(* The steps of a write.                                                   *)

Current(p) == <<p, call[p].number>>

At(p, step) == powered /\ call[p].pc = step

\* The fields of the call that a step changes.
To(p, step) == call' = [call EXCEPT ![p].pc = step]

Finish(p, result) == call' = [call EXCEPT ![p].pc = "done", ![p].result = result]

Files == <<link, entry, temporary, file, counter, powered>>

\* The writes begun so far.
Begun == MapThenSumSet(LAMBDA p : call[p].number, Pid)

\* The program calls write_text; a text may be empty.
Begin(p) ==
    /\ powered /\ call[p].pc \in {"done", "crashed"} /\ Begun < MaxWrites
    /\ \E size \in 0..MaxSize :
          call' = [call EXCEPT ![p] = [pc |-> "resolve", number |-> @.number + 1,
                                       size |-> size, target |-> None, seen |-> None,
                                       attempt |-> 0, name |-> None, opened |-> None,
                                       done |-> 0, result |-> None]]
    /\ counter' = [counter EXCEPT ![p] = IF call[p].pc = "crashed" THEN 0 ELSE @]
    /\ UNCHANGED <<link, entry, temporary, file, powered>>

\* blorp_fs_resolve_target: what lstat says of the path.  Nothing there: the
\* file is new, and seen stays None.  A path that is refused has no effect.
Resolve(p) ==
    /\ At(p, "resolve")
    /\ \/ link # None /\ To(p, "follow")
       \/ /\ link = None
          /\ call' = [call EXCEPT ![p].target = Path,
                                  ![p].pc = IF entry[Path].now = None
                                            THEN "create" ELSE "examine"]
       \/ Finish(p, "failed")
    /\ UNCHANGED Files

\* Fault: the link itself is taken for the file to replace.
NotFollow(p) ==
    /\ At(p, "follow")
    /\ call' = [call EXCEPT ![p].target = Path, ![p].pc = "create"]
    /\ UNCHANGED Files

\* realpath of a link, which may have been re-pointed since; a dangling one is
\* a failure.
Follow(p) ==
    /\ At(p, "follow")
    /\ IF entry[link].now = None THEN Finish(p, "failed")
       ELSE call' = [call EXCEPT ![p].target = link, ![p].pc = "examine"]
    /\ UNCHANGED Files

\* blorp_fs_check_replaced: the file is opened for writing and its mode read,
\* or the write is refused.
Examine(p) ==
    /\ At(p, "examine")
    /\ \/ call' = [call EXCEPT ![p].seen = file[entry[call[p].target].now].mode,
                               ![p].pc = "create"]
       \/ Finish(p, "failed")
    /\ UNCHANGED Files

\* A temporary's name: its directory, the pid and the counter's value.
Candidate(p) == <<call[p].target, p, counter[p]>>

\* The name is another file's: the next attempt, or EEXIST after the last.
NextAttempt(p) ==
    LET last == call[p].attempt + 1 = Attempts
    IN  call' = [call EXCEPT ![p].attempt = @ + 1,
                             ![p].pc = IF last THEN "done" ELSE @,
                             ![p].result = IF last THEN "taken" ELSE @]

\* atomic_fetch_add: each attempt takes the next value.
TakeValue(p) == counter' = [counter EXCEPT ![p] = @ + 1]

\* The name is created: as 0600 for a file that replaces another, as 0666
\* under the umask for a new one.
Created(p) ==
    /\ Candidate(p) \notin Names
    /\ temporary' = [n \in Names \cup {Candidate(p)} |->
                        IF n = Candidate(p) THEN Current(p) ELSE temporary[n]]
    /\ file' = [file EXCEPT ![Current(p)].mode =
                               IF call[p].seen # None THEN "private" ELSE "shared"]
    /\ call' = [call EXCEPT ![p].name = Candidate(p), ![p].opened = Current(p),
                            ![p].pc = IF call[p].seen # None THEN "copy" ELSE "write"]

\* Fault: a name that is taken is tried again for as long as it is.
CreateStubborn(p) ==
    /\ At(p, "create")
    /\ Created(p)
    /\ TakeValue(p)
    /\ UNCHANGED <<link, entry, powered>>

\* One attempt of blorp_fs_create_temporary: the name is created, is taken
\* (O_EXCL), or the open fails otherwise.
CreateTemporary(p) ==
    /\ At(p, "create")
    /\ TakeValue(p)
    /\ \/ Created(p)
       \/ Candidate(p) \in Names /\ NextAttempt(p) /\ UNCHANGED <<temporary, file>>
       \/ Finish(p, "failed") /\ UNCHANGED <<temporary, file>>
    /\ UNCHANGED <<link, entry, powered>>

\* A step of blorp_fs_fill_temporary fails: what follows is the close.
FailFill(p) == call' = [call EXCEPT ![p].pc = "close", ![p].result = "failed"]

\* fchown clears the set-id bit; when it is not permitted it changes nothing.
Chown(mode) == IF mode = "set-id" THEN "shared" ELSE mode

Chmod(mode, seen) == seen

\* The owner first, then the mode.
OwnerThenMode(mode, seen) == Chmod(Chown(mode), seen)

\* blorp_fs_copy_owner_and_mode, its two calls in one step: they concern a
\* file that nobody else opens.
CopyOwnerAndMode(p) ==
    /\ At(p, "copy")
    /\ \/ /\ file' = [file EXCEPT ![call[p].opened].mode = OwnerThenMode(@, call[p].seen)]
          /\ To(p, "write")
       \/ FailFill(p) /\ UNCHANGED file
    /\ UNCHANGED <<link, entry, temporary, counter, powered>>

\* The bytes after the first done of them are written over a text.
Overwrite(text, done, amount, write) ==
    [i \in 1..(IF Len(text) > done + amount THEN Len(text) ELSE done + amount) |->
        IF i \in (done + 1)..(done + amount) THEN write ELSE text[i]]

\* One write of blorp_fs_write_all, of any part of what is left; one without
\* progress is a failure.
WriteAll(p) ==
    /\ At(p, "write") /\ call[p].done < call[p].size
    /\ \/ \E amount \in 1..(call[p].size - call[p].done) :
             /\ file' = [file EXCEPT ![call[p].opened].text =
                            Overwrite(@, call[p].done, amount, Current(p))]
             /\ call' = [call EXCEPT ![p].done = @ + amount]
       \/ FailFill(p) /\ UNCHANGED file
    /\ UNCHANGED <<link, entry, temporary, counter, powered>>

\* Fault: the file is not flushed before its rename.
NoFlush(p) ==
    /\ At(p, "write") /\ call[p].done = call[p].size
    /\ To(p, "close")
    /\ UNCHANGED Files

FlushFile(p) ==
    /\ At(p, "write") /\ call[p].done = call[p].size
    /\ \/ file' = [file EXCEPT ![call[p].opened].flushed = TRUE] /\ To(p, "close")
       \/ FailFill(p) /\ UNCHANGED file
    /\ UNCHANGED <<link, entry, temporary, counter, powered>>

\* The descriptor is closed on every path; a failed close fails the write.
CloseFile(p) ==
    /\ At(p, "close")
    /\ \/ To(p, IF call[p].result = "failed" THEN "unlink" ELSE "rename")
       \/ call' = [call EXCEPT ![p].pc = "unlink", ![p].result = "failed"]
    /\ UNCHANGED Files

RemoveName(name) == temporary' = [n \in Names \ {name} |-> temporary[n]]

\* The rename itself: the target is the new file, and was a link no more if
\* it was one.
Published(p) ==
    /\ RemoveName(call[p].name)
    /\ entry' = [entry EXCEPT ![call[p].target] =
                    [now |-> call[p].opened, been |-> @.been \cup {call[p].opened}]]
    /\ file' = [file EXCEPT ![call[p].opened].wanted =
                    [text |-> Text(Current(p), call[p].size),
                     mode |-> IF call[p].seen = None THEN "shared" ELSE call[p].seen]]
    /\ link' = IF call[p].target = Path THEN None ELSE link
    /\ To(p, "flush directory")

\* Fault: a failed rename is not noticed.
RenameUnchecked(p) ==
    /\ At(p, "rename")
    /\ Published(p) \/ (To(p, "flush directory") /\ UNCHANGED <<link, entry, temporary, file>>)
    /\ UNCHANGED <<counter, powered>>

Rename(p) ==
    /\ At(p, "rename")
    /\ \/ Published(p)
       \/ /\ call' = [call EXCEPT ![p].pc = "unlink", ![p].result = "failed"]
          /\ UNCHANGED <<link, entry, temporary, file>>
    /\ UNCHANGED <<counter, powered>>

\* The unlink's own error is ignored.
Unlink(p) ==
    /\ At(p, "unlink")
    /\ To(p, "done")
    /\ RemoveName(call[p].name) \/ UNCHANGED temporary
    /\ UNCHANGED <<link, entry, file, counter, powered>>

\* An error here is reported although the target is the new file.
FlushDirectory(p) ==
    /\ At(p, "flush directory")
    /\ Finish(p, "ok") \/ Finish(p, "not flushed")
    /\ UNCHANGED Files

Step(p) ==
    \/ Resolve(p) \/ Follow(p) \/ Examine(p) \/ CreateTemporary(p)
    \/ CopyOwnerAndMode(p) \/ WriteAll(p) \/ FlushFile(p) \/ CloseFile(p)
    \/ Rename(p) \/ Unlink(p) \/ FlushDirectory(p)

-----------------------------------------------------------------------------
(* The environment.                                                        *)

Active == {"resolve", "follow", "examine", "create", "copy", "write", "close",
           "rename", "unlink", "flush directory"}

Stopped(number) ==
    [pc |-> "crashed", number |-> number, size |-> 0, target |-> None, seen |-> None,
     attempt |-> 0, name |-> None, opened |-> None, done |-> 0, result |-> None]

Crash(p) ==
    /\ powered /\ call[p].pc \in Active
    /\ call' = [call EXCEPT ![p] = Stopped(@.number)]
    /\ UNCHANGED <<link, entry, temporary, file, counter, powered>>

Repoint ==
    /\ powered /\ link # None
    /\ link' \in Target
    /\ UNCHANGED <<entry, temporary, file, call, counter, powered>>

\* What is left of a file that was not flushed.
Remains(f, length) ==
    IF file[f].flushed \/ Len(file[f].text) <= length THEN file[f]
    ELSE [file[f] EXCEPT !.text = SubSeq(@, 1, length)]

\* The properties look at one place at a time, so one name that goes back and
\* one length of what remains stand for any choice of them.
PowerLoss ==
    /\ powered
    /\ powered' = FALSE
    /\ call' = [p \in Pid |-> Stopped(call[p].number)]
    /\ \E q \in Place : \E f \in entry[q].been : entry' = [entry EXCEPT ![q].now = f]
    /\ \E length \in 0..MaxSize : file' = [f \in File |-> Remains(f, length)]
    /\ UNCHANGED <<link, temporary, counter>>

\* The path is a file, nothing, or a link to a file or to nothing; an old file
\* is one byte long and has any mode.
Init ==
    /\ link \in {None} \cup Target
    /\ \E old \in SUBSET (IF link = None THEN {Path} ELSE Target), mode \in Mode :
          /\ entry = [q \in Place |->
                        LET f == IF q \in old THEN <<q, 0>> ELSE None
                        IN  [now |-> f, been |-> {f}]]
          /\ file = [f \in File |->
                        IF f[1] \in old
                        THEN [text |-> Text(f, 1), mode |-> mode, flushed |-> TRUE,
                              wanted |-> [text |-> Text(f, 1), mode |-> mode]]
                        ELSE [text |-> <<>>, mode |-> None, flushed |-> FALSE,
                              wanted |-> None]]
    /\ temporary = [n \in {} |-> None]
    /\ call = [p \in Pid |-> [Stopped(0) EXCEPT !.pc = "done"]]
    /\ counter = [p \in Pid |-> 0]
    /\ powered = TRUE

Next ==
    \/ \E p \in Pid : Begin(p) \/ Step(p) \/ Crash(p)
    \/ Repoint
    \/ PowerLoss

\* A process in a call is scheduled.  Nothing is owed by the programs that
\* call, by crashes and by the power.
Fairness == \A p \in Pid : WF_vars(Step(p))

Spec == Init /\ [][Next]_vars /\ Fairness

-----------------------------------------------------------------------------
(* Properties.                                                             *)

\* A reader of a path finds the old text or the whole new text of one write,
\* at every moment, after a crash at any step and after a loss of power: the
\* flush comes before the rename, and no write continues in the file that a
\* crashed one has left.  A file that replaced another has the mode that was
\* examined, its set-id bit included.
TargetWhole ==
    \A q \in Place : entry[q].now # None =>
        LET f == file[entry[q].now] IN [text |-> f.text, mode |-> f.mode] = f.wanted

\* A write that reports success, or only a failed flush of the directory, was
\* published at its target; one that reports another failure never was.
ResultIsTrue ==
    \A p \in Pid :
       /\ call[p].result \in {"ok", "not flushed"} =>
             Current(p) \in entry[call[p].target].been
       /\ call[p].result \in {"failed", "taken"} =>
             \A q \in Place : Current(p) \notin entry[q].been

\* A link is still a link after the writes through it, however often it is
\* re-pointed meanwhile.
LinkSurvives == [][link # None => link' # None]_vars

\* A write that is begun ends, by itself or by a crash.
WritesEnd == \A p \in Pid : (call[p].pc = "resolve") ~> (call[p].pc \in {"done", "crashed"})

=============================================================================
