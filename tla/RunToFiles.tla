----------------------------- MODULE RunToFiles -----------------------------
(***************************************************************************)
(* process.run_to_files (runtime/process.brp): the calling process, the    *)
(* child it forks, the processes the child's program starts, and the       *)
(* clock.  Each system call of the caller is one step, so that the others  *)
(* run in between.  Assumed of the system: nobody else reaps the child     *)
(* (the code asks for the default SIGCHLD), no process leaves its group, a *)
(* signal to the group reaches every process the program started, and a    *)
(* process with a pending SIGKILL starts no other.                         *)
(***************************************************************************)
EXTENDS Integers, FiniteSets

CONSTANTS
    None,
    Descendant,     \* bound: the processes the child's program may start
    ReportSize      \* sizeof(int): the bytes of a report of a failed exec

ASSUME ReportAssumption == ReportSize \in Nat \ {0} /\ None \notin Descendant

VARIABLES
    pc,             \* the caller's next step
    open,           \* the descriptors of this call that are open in the caller
    held,           \* the ones its variables hold: those are not -1
    failure,        \* the stage that failed, or None
    exec_complete,  \* the exec channel has been read to its end
    received,       \* bytes of the report the caller has read
    result,         \* what the call returns: None, "ok" or "error"
    late,           \* the deadline has passed
    child,          \* the direct child's state
    exit,           \* how it ended: None, "program", "report" or "signal"
    sent,           \* bytes of the report the child has written
    started,        \* the live descendants, all in the child's group
    doomed,         \* processes with a pending SIGKILL
    reused          \* the child's number is another process's now

caller == <<pc, open, held, failure, exec_complete, received, result>>

others == <<child, exit, sent, started, doomed, reused>>

vars == <<caller, late, others>>

Descriptor == {"output", "errors", "input", "reader", "writer"}

Child == "child"

\* The child before its exec, when it still has the channel's writer.
Preparing == {"forked", "alone", "grouped", "reporting"}

Live == Preparing \cup {"program"}

-----------------------------------------------------------------------------
(* The caller, up to the fork.                                             *)

Goto(next) == pc' = next

\* `goto cleanup`, or a break out of the loop, with a stage that failed.
Fail(stage) == failure' = stage /\ Goto("cleanup")

Hold(descriptors) == open' = open \cup descriptors /\ held' = held \cup descriptors

\* blorp_process_close of one descriptor: a close that reports an error has
\* closed it all the same, and is not made again.
Close(descriptor) == open' = open \ {descriptor} /\ held' = held \ {descriptor}

\* The arguments, the SIGCHLD disposition and the clock; a call that is
\* refused has no effect.
Start ==
    /\ pc = "start"
    /\ \/ Goto("output") /\ UNCHANGED result
       \/ Goto("done") /\ result' = "error"
    /\ UNCHANGED <<open, held, failure, exec_complete, received, late, others>>

\* A capture file or the null device is opened and moved above the standard
\* descriptors; when that fails nothing stays open.
Open(descriptor, next) ==
    /\ pc = descriptor
    /\ \/ Hold({descriptor}) /\ Goto(next) /\ UNCHANGED failure
       \/ Fail("create descriptor") /\ UNCHANGED <<open, held>>
    /\ UNCHANGED <<exec_complete, received, result, late, others>>

Pipe ==
    /\ pc = "pipe"
    /\ \/ Hold({"reader", "writer"}) /\ Goto("reader") /\ UNCHANGED failure
       \/ Fail("create exec channel") /\ UNCHANGED <<open, held>>
    /\ UNCHANGED <<exec_complete, received, result, late, others>>

\* Fault: a descriptor that cannot be moved is not closed.
NormalizeForgetting(descriptor, next) ==
    /\ pc = descriptor
    /\ \/ Goto(next) /\ UNCHANGED <<open, held, failure>>
       \/ Fail("normalize") /\ held' = held \ {descriptor} /\ UNCHANGED open
    /\ UNCHANGED <<exec_complete, received, result, late, others>>

\* blorp_process_private for an end of the channel: it closes what it cannot
\* move, and the caller's variable is -1 then.
Normalize(descriptor, next) ==
    /\ pc = descriptor
    /\ \/ Goto(next) /\ UNCHANGED <<open, held, failure>>
       \/ Fail("normalize") /\ Close(descriptor)
    /\ UNCHANGED <<exec_complete, received, result, late, others>>

Configure ==
    /\ pc = "configure"
    /\ (Goto("fork") /\ UNCHANGED failure) \/ Fail("configure exec reader")
    /\ UNCHANGED <<open, held, exec_complete, received, result, late, others>>

Fork ==
    /\ pc = "fork"
    /\ \/ child' = "forked" /\ Goto("close writer") /\ UNCHANGED failure
       \/ Fail("fork") /\ UNCHANGED child
    /\ UNCHANGED <<open, held, exec_complete, received, result, late,
                   exit, sent, started, doomed, reused>>

-----------------------------------------------------------------------------
(* The caller's loop.                                                      *)

CloseWriter ==
    /\ pc = "close writer"
    /\ Close("writer")
    /\ (Goto("clock") /\ UNCHANGED failure) \/ Fail("close exec writer")
    /\ UNCHANGED <<exec_complete, received, result, late, others>>

Clock ==
    /\ pc = "clock"
    /\ IF late THEN Fail("timed out")
       ELSE \/ Goto(IF exec_complete THEN "observe" ELSE "report") /\ UNCHANGED failure
            \/ Fail("read monotonic clock")
    /\ UNCHANGED <<open, held, exec_complete, received, result, late, others>>

\* A read that brings bytes of the report; a whole one ends the loop.
ReadReport ==
    /\ pc = "report"
    /\ \E amount \in 1..(sent - received) :
          /\ received' = received + amount
          /\ IF received' = ReportSize THEN Fail("exec or child setup")
             ELSE Goto("observe") /\ UNCHANGED failure
    /\ UNCHANGED <<open, held, exec_complete, result, late, others>>

\* The channel has ended: nobody holds its writer any more.
ReadEnd ==
    /\ pc = "report"
    /\ sent = received /\ child \notin Preparing /\ "writer" \notin open
    /\ IF received # 0
       THEN Fail("incomplete exec report") /\ UNCHANGED <<open, held, exec_complete>>
       ELSE /\ exec_complete' = TRUE
            /\ Close("reader")
            /\ (Goto("observe") /\ UNCHANGED failure) \/ Fail("close exec reader")
    /\ UNCHANGED <<received, result, late, others>>

\* Nothing to read yet, a read that was interrupted, or one that failed.
ReadNothing ==
    /\ pc = "report"
    /\ (Goto("observe") /\ UNCHANGED failure) \/ Fail("read exec report")
    /\ UNCHANGED <<open, held, exec_complete, received, result, late, others>>

\* Fault: the child's end is taken for the program's before the channel ends.
EndSeenEarly == child = "zombie"

\* The child has ended and the channel says that its exec succeeded.
EndSeen == child = "zombie" /\ exec_complete

\* waitid without reaping, which may be interrupted, then poll, which only
\* waits.
Observe ==
    /\ pc = "observe"
    /\ \/ Goto("clock") /\ UNCHANGED failure
       \/ Fail("observe child or wait for child")
       \/ EndSeen /\ exit = "signal" /\ Fail("child terminated by signal")
       \/ EndSeen /\ exit # "signal" /\ Goto("cleanup") /\ UNCHANGED failure
    /\ UNCHANGED <<open, held, exec_complete, received, result, late, others>>

-----------------------------------------------------------------------------
(* Cleanup: blorp_process_reap, the descriptors, the result.               *)

\* The failure that takes the place of any other when the child could not be
\* signalled, awaited or reaped.
CleanChild == "clean direct child"

Cleanup ==
    /\ pc = "cleanup"
    /\ Goto(IF child = "none" THEN "close" ELSE "signal group")
    /\ UNCHANGED <<open, held, failure, exec_complete, received, result, late, others>>

\* The members of the group the child leads: none before its setpgid.
Group == started \cup (IF child \in Live \ {"forked", "alone"} THEN {Child} ELSE {})

\* kill(-child): SIGKILL to the members of the group, with the exception of a
\* program that runs as another user.  Its result is ignored.
SignalGroup(here, next) ==
    /\ pc = here
    /\ \E spared \in SUBSET (IF child = "program" THEN {Child} ELSE {}) :
          doomed' = doomed \cup (Group \ spared)
    /\ Goto(next)
    /\ UNCHANGED <<open, held, failure, exec_complete, received, result, late,
                   child, exit, sent, started, reused>>

\* Fault: the group's signal is taken to reach the child always.
SignalNothing ==
    /\ pc = "signal child"
    /\ Goto("await")
    /\ UNCHANGED <<open, held, failure, exec_complete, received, result, late, others>>

\* kill(child): a zombie is not changed by it, and a program that runs as
\* another user is not reached.
SignalChild ==
    /\ pc = "signal child"
    /\ \/ doomed' = doomed \cup (IF child \in Live THEN {Child} ELSE {}) /\ UNCHANGED failure
       \/ child \in {"program", "zombie"} /\ failure' = CleanChild /\ UNCHANGED doomed
    /\ Goto("await")
    /\ UNCHANGED <<open, held, exec_complete, received, result, late,
                   child, exit, sent, started, reused>>

\* Fault: the child is reaped as soon as it has ended.
AwaitReaping ==
    /\ pc = "await"
    /\ child = "zombie"
    /\ child' = "reaped"
    /\ Goto("signal group again")
    /\ UNCHANGED <<open, held, failure, exec_complete, received, result, late,
                   exit, sent, started, doomed, reused>>

\* Fault: the group is signalled once only.
AwaitOnce ==
    /\ pc = "await"
    /\ child = "zombie"
    /\ Goto("reap")
    /\ UNCHANGED <<open, held, failure, exec_complete, received, result, late, others>>

\* waitid: blocks until the child has ended, and leaves it a zombie.
Await ==
    /\ pc = "await"
    /\ child = "zombie"
    /\ Goto("signal group again")
    /\ UNCHANGED <<open, held, failure, exec_complete, received, result, late, others>>

\* The wait fails: the number may be another's, and is not signalled again.
AwaitFails ==
    /\ pc = "await"
    /\ failure' = CleanChild
    /\ Goto("reap")
    /\ UNCHANGED <<open, held, exec_complete, received, result, late, others>>

\* waitpid: blocks until the child has ended.
Reap ==
    /\ pc = "reap"
    /\ child = "zombie"
    /\ child' = "reaped"
    /\ Goto("close")
    /\ UNCHANGED <<open, held, failure, exec_complete, received, result, late,
                   exit, sent, started, doomed, reused>>

ReapFails ==
    /\ pc = "reap"
    /\ failure' = CleanChild
    /\ Goto("close")
    /\ UNCHANGED <<open, held, exec_complete, received, result, late, others>>

\* Closes the descriptors that are still open; an error counts when nothing
\* failed before.
CloseAll ==
    /\ pc = "close"
    /\ open' = open \ held /\ held' = {}
    /\ \/ UNCHANGED failure
       \/ held # {} /\ failure = None /\ failure' = "close process descriptor"
    /\ Goto("return")
    /\ UNCHANGED <<exec_complete, received, result, late, others>>

Return ==
    /\ pc = "return"
    /\ result' = IF failure = None /\ exit # "signal" THEN "ok" ELSE "error"
    /\ Goto("done")
    /\ UNCHANGED <<open, held, failure, exec_complete, received, late, others>>

Caller ==
    \/ Start
    \/ Open("output", "errors") \/ Open("errors", "input") \/ Open("input", "pipe")
    \/ Pipe \/ Normalize("reader", "writer") \/ Normalize("writer", "configure")
    \/ Configure \/ Fork
    \/ CloseWriter \/ Clock \/ ReadReport \/ ReadEnd \/ ReadNothing \/ Observe
    \/ Cleanup
    \/ SignalGroup("signal group", "signal child") \/ SignalChild \/ Await
    \/ SignalGroup("signal group again", "reap") \/ Reap
    \/ CloseAll \/ Return

-----------------------------------------------------------------------------
(* The child: setpgid, dup2, exec, and the report when one of them fails.  *)
(* A process with a pending SIGKILL takes no step but its end.             *)

Able == child \in Live /\ Child \notin doomed

SetGroup ==
    /\ Able /\ child = "forked"
    /\ child' \in {"grouped", "alone"}
    /\ UNCHANGED <<caller, late, exit, sent, started, doomed, reused>>

Exec ==
    /\ Able /\ child = "grouped"
    /\ child' \in {"program", "reporting"}
    /\ UNCHANGED <<caller, late, exit, sent, started, doomed, reused>>

\* The report may go in parts.  A write that fails would end the loop; it does
\* not fail while the pipe has a reader, and the caller has sent the child
\* SIGKILL when it closes that.
WriteReport ==
    /\ Able /\ child \in {"alone", "reporting"} /\ sent < ReportSize
    /\ sent' \in (sent + 1)..ReportSize
    /\ UNCHANGED <<caller, late, child, exit, started, doomed, reused>>

ExitAfterReport ==
    /\ Able /\ child \in {"alone", "reporting"} /\ sent = ReportSize
    /\ child' = "zombie" /\ exit' = "report"
    /\ UNCHANGED <<caller, late, sent, started, doomed, reused>>

\* The program: it ends, or starts a process in its group.
ExitProgram ==
    /\ Able /\ child = "program"
    /\ child' = "zombie" /\ exit' = "program"
    /\ UNCHANGED <<caller, late, sent, started, doomed, reused>>

StartDescendant(d) ==
    /\ d \notin started \cup doomed
    /\ (Able /\ child = "program") \/ started \ doomed # {}
    /\ started' = started \cup {d}
    /\ UNCHANGED <<caller, late, child, exit, sent, doomed, reused>>

\* Any process may also be killed from elsewhere.
Kill(p) ==
    /\ p \in started \cup (IF child \in Live THEN {Child} ELSE {})
    /\ doomed' = doomed \cup {p}
    /\ UNCHANGED <<caller, late, child, exit, sent, started, reused>>

Die(p) ==
    /\ p \in doomed
    /\ IF p = Child
       THEN child \in Live /\ child' = "zombie" /\ exit' = "signal" /\ UNCHANGED started
       ELSE p \in started /\ started' = started \ {p} /\ UNCHANGED <<child, exit>>
    /\ UNCHANGED <<caller, late, sent, doomed, reused>>

\* A number is free once its process is reaped and no group has it.
ReuseNumber ==
    /\ child = "reaped" /\ started = {} /\ ~reused
    /\ reused' = TRUE
    /\ UNCHANGED <<caller, late, child, exit, sent, started, doomed>>

Deadline ==
    /\ ~late /\ pc # "start"
    /\ late' = TRUE
    /\ UNCHANGED <<caller, others>>

Processes ==
    \/ SetGroup \/ Exec \/ WriteReport \/ ExitAfterReport \/ ExitProgram
    \/ \E d \in Descendant : StartDescendant(d)
    \/ \E p \in Descendant \cup {Child} : Kill(p) \/ Die(p)
    \/ ReuseNumber

Init ==
    /\ pc = "start" /\ open = {} /\ held = {} /\ failure = None /\ exec_complete = FALSE
    /\ received = 0 /\ result = None /\ late = FALSE
    /\ child = "none" /\ exit = None /\ sent = 0
    /\ started = {} /\ doomed = {} /\ reused = FALSE

Next == Caller \/ AwaitFails \/ ReapFails \/ Processes \/ Deadline

\* The caller is scheduled, a killed process ends, the clock goes on.  The
\* child's program owes nothing, and no wait need fail to end.
Fairness ==
    /\ WF_vars(Caller)
    /\ WF_vars(\E p \in Descendant \cup {Child} : Die(p))
    /\ WF_vars(Deadline)

Spec == Init /\ [][Next]_vars /\ Fairness

-----------------------------------------------------------------------------
(* Properties.                                                             *)

\* An exit status is returned only when the program ran and ended by itself:
\* never the status 127 of a child whose setup or exec failed, whatever the
\* order in which its report, its end and the end of the channel are seen.
OkIsTheProgramsOwn == result = "ok" => exit = "program"

\* Both signals to the group and the one to the child are sent while the
\* number is still the child's: it is not reaped yet.
SignalsOwnNumber ==
    pc \in {"signal group", "signal child", "signal group again"} => ~reused

\* When the call returns its child is reaped and every process of the child's
\* group has ended or is about to: one started between the two signals, by a
\* child that had made its group only after the first, included.  Otherwise the
\* caller is told, by an error in the place of any other.
NothingGoesOn ==
    pc = "done" /\ failure # CleanChild => child \in {"none", "reaped"} /\ started \subseteq doomed

\* Every descriptor that the call opened is closed when it returns, on each
\* failure path too, and none is closed twice: the numbers the caller's
\* variables hold are always its own open descriptors.
DescriptorsClosed == held \subseteq open /\ (pc = "done" => open = {})

\* The call returns, even if the program never ends and never reads a signal:
\* the deadline ends the loop and SIGKILL ends the wait for the child.  Only a
\* program that the caller was not allowed to kill can keep it waiting.
Returns ==
    <>(\/ pc = "done"
       \/ pc \in {"await", "reap"} /\ failure = CleanChild /\ child \in Live /\ Child \notin doomed)

=============================================================================
