---------------------------- MODULE SolveLabels ----------------------------
(***************************************************************************)
(* solve_labels (own/own.brp): which parameters of each function instance  *)
(* are owned.  A parameter is owned when its obligation reaches an operand *)
(* that the runtime may reuse in place, directly or through an owned       *)
(* position of a called instance.  Instances are analysed one at a time,   *)
(* from the highest number down; a flip of one queues its callers again.   *)
(*                                                                         *)
(* The scan gives each instance its uses: operands of reusing runtime      *)
(* calls and arguments of user calls.  A use is [carries, stored, target]: *)
(* the parameters whose obligation the scan thinks the argument may carry, *)
(* those whose obligation the owner consumed there does carry when they    *)
(* are owned, and the place: Reuse, or <<callee, position>>.  The scan     *)
(* over-approximates: stored is a subset of carries.  Every parameter is   *)
(* managed.                                                                *)
(***************************************************************************)
EXTENDS Integers, FiniteSetsExt

CONSTANTS
    UsesOf(_),      \* what the scan of an instance may find: sets of uses
    Parameters,     \* instance -> the positions of its parameters
    Pinned,         \* the entry, and instances taken as callables
    Reuse,
    None

Instances == DOMAIN Parameters

VARIABLES
    program,    \* instance -> its uses, of the instances scanned so far
    labels,     \* instance -> its owned parameters
    kept,       \* instance -> an insertion: the rows of its own and its callees' that it used
    queued,     \* the instances to analyse
    cursor      \* None before the loop, -1 after it

vars == <<program, labels, kept, queued, cursor>>

-----------------------------------------------------------------------------
(* Call facts.                                                             *)

IsCall(use) == use.target # Reuse

\* mark_carried: more than one parameter counts as every one.
Marked(i, use) == IF Cardinality(use.carries) > 1 THEN Parameters[i] ELSE use.carries

\* The use's place is reusing or owned under the labels.
Consumes(use, rows) == IF IsCall(use) THEN use.target[2] \in rows[use.target[1]] ELSE TRUE

Callees(i) == {use.target[1] : use \in {u \in program[i] : IsCall(u)}}

\* Fault: only the callers that pass a parameter drop their insertion.
CallersPassing(i) ==
    {j \in Instances : \E use \in program[j] : IsCall(use) /\ use.target[1] = i /\ use.carries # {}}

\* The callers of i.
CallersOf(i) == {j \in Instances : i \in Callees(j)}

\* passes_a_parameter: callers that pass one into an owned position of i.
Feeding(i, owned) ==
    {j \in Instances : \E use \in program[j] :
        IsCall(use) /\ use.target[1] = i /\ use.target[2] \in owned /\ use.carries # {}}

-----------------------------------------------------------------------------
(* One analysis.                                                           *)

\* The parameters that may reach reuse, directly or through an owned position.
Reaching(i) == UNION {Marked(i, use) : use \in {u \in program[i] : Consumes(u, labels)}}

Tried(i) == labels[i] \cup Reaching(i)

\* reached_parameters of the insertion with the tried rows: the consumed owner
\* carries one parameter's obligation; of several it carries none.
Reached(i, tried) == {p \in tried : \E use \in program[i] : Consumes(use, labels) /\ use.stored \cap tried = {p}}

\* The insertion of i with its own rows, under the labels of its callees; a
\* call of itself goes by its label as well.
Insertion(i, rows, callees) == [own |-> rows, callees |-> [j \in Callees(i) |-> callees[j]]]

-----------------------------------------------------------------------------
(* The loop.                                                               *)

Init ==
    /\ program = [i \in {} |-> {}]
    /\ labels = [i \in Instances |-> {}]
    /\ kept = [i \in Instances |-> None]
    /\ queued = {}
    /\ cursor = None

\* call_facts of the next instance.
Scan ==
    LET i == Cardinality(DOMAIN program)
    IN  /\ i \in Instances
        /\ \E uses \in UsesOf(i) : program' = [j \in 0 .. i |-> IF j = i THEN uses ELSE program[j]]
        /\ UNCHANGED <<labels, kept, queued, cursor>>

Start ==
    /\ cursor = None /\ DOMAIN program = Instances
    /\ queued' = {i \in Instances \ Pinned :
                     \E use \in program[i] : ~IsCall(use) /\ Marked(i, use) # {}}
    /\ cursor' = Max(Instances)
    /\ UNCHANGED <<program, labels, kept>>

Skip ==
    /\ cursor \in Instances \ queued
    /\ cursor' = cursor - 1
    /\ UNCHANGED <<program, labels, kept, queued>>

\* A pinned caller queued by a flip, or one whose parameters that may reach
\* reuse are all owned, tries nothing.
TryNothing ==
    /\ cursor \in queued
    /\ cursor \in Pinned \/ Tried(cursor) = labels[cursor]
    /\ queued' = queued \ {cursor}
    /\ UNCHANGED <<program, labels, kept, cursor>>

\* Fault: the cursor goes on downwards past the callers that were queued.
RisenNot(callers) == cursor

\* The cursor rises to reach the callers that were queued.
Risen(callers) == Max(callers \cup {cursor})

Analyse ==
    LET i == cursor
        tried == Tried(i)
        merged == labels[i] \cup Reached(i, tried)
        flips == merged # labels[i]
        fed == IF flips THEN Feeding(i, merged) ELSE {}
    IN  /\ i \in queued /\ i \notin Pinned /\ tried # labels[i]
        /\ labels' = [labels EXCEPT ![i] = merged]
        /\ kept' = [j \in Instances |->
                       IF flips /\ j \in CallersOf(i) THEN None
                       ELSE IF j # i THEN kept[j]
                       ELSE IF merged = tried THEN Insertion(i, tried, labels) ELSE None]
        /\ queued' = (queued \ {i}) \cup fed
        /\ cursor' = Risen(fed)
        /\ UNCHANGED program

Next == Scan \/ Start \/ Skip \/ TryNothing \/ Analyse

\* The loop runs until it ends.
Spec == Init /\ [][Next]_vars /\ WF_vars(Next)

-----------------------------------------------------------------------------
(* Properties.                                                             *)

\* An insertion that is kept is the one that the current labels would give: of
\* the instance itself and of every instance it calls.  So when the loop ends,
\* callers and callees agree on who drops each argument, kept or not.
KeptIsFinal ==
    \A i \in Instances : kept[i] # None => kept[i] = Insertion(i, labels[i], labels)

\* Labels that own every parameter whose obligation alone reaches reuse.
Closed(rows) ==
    \A i \in Instances \ Pinned : \A use \in program[i] :
        Consumes(use, rows) /\ Cardinality(use.stored) = 1 => use.stored \subseteq rows[i]

\* The labels are closed, and below all others that are.
Least ==
    /\ Closed(labels)
    /\ \A rows \in [Instances -> SUBSET UNION {Parameters[i] : i \in Instances}] :
          (\A i \in Instances : labels[i] \subseteq rows[i]) \/ ~Closed(rows)

\* "the order changes only the work, never the fixpoint": the loop ends, and
\* whatever the call graph, recursion through any instances included, it ends
\* with the least labels that own all that reaches reuse.
SolvesLeast == <>(cursor = -1 /\ Least)

=============================================================================
