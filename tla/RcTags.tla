------------------------------- MODULE RcTags -------------------------------
(***************************************************************************)
(* instrument_rc.py --tagged and the program it makes.  The script numbers *)
(* the categories and rewrites one function after another, so that calls   *)
(* of dup and drop helpers first set blorp_rc_tag.  The program then runs, *)
(* and each atomic operation counts under the tag it finds.                *)
(*                                                                         *)
(* A function is <<class, id>>; the class is what rewrite_tagged tells     *)
(* apart by name and by the body:                                          *)
(*   user            blorp_f_N, id is N                                    *)
(*   list_runtime    blorp_list_get_..., blorp_list_append_..., ...        *)
(*   string_runtime  other functions of the String runtime                 *)
(*   leaf            a dup helper, blorp_string_retain, blorp_string_release*)
(*   drop            a drop helper with an atomic operation of its own     *)
(*   inline          a helper without one: unboxed union, value record     *)
(*   callable        dup and drop of a callable: one call by pointer       *)
(*   adapter         what that pointer names                               *)
(*   other           any other runtime function that releases values       *)
(*   main            the C entry point                                     *)
(* The program's control is left open: a function may make any call that   *)
(* functions of its class make, in any order and number.                   *)
(***************************************************************************)
EXTENDS Naturals, Sequences

CONSTANTS
    CATEGORY_BITS,
    Programs,       \* sources: sequences of pieces [fun, region] in text order
    MaxDepth        \* bound: depth of the call stack

\* Category numbers are below this.
CategoryLimit == 2 ^ CATEGORY_BITS

ASSUME BitsAssumption == CategoryLimit \in Nat \ {0}

Elements(s) == {s[i] : i \in DOMAIN s}

ASSUME ProgramsAssumption ==
    \A source \in Programs :
        /\ source \in Seq(Elements(source))
        /\ \A piece \in Elements(source) : piece.fun[1] = "user" => piece.fun[2] \in Nat

VARIABLES
    program,    \* the source; only a user function has more than one piece
    names,      \* Categories.names
    code,       \* the category number written into each piece so far
    phase,      \* "rewrite", then "run", or "failed"
    tag,        \* blorp_rc_tag
    stack       \* the frames of the running program, the running one last

vars == <<program, names, code, phase, tag, stack>>

Helper == {"leaf", "drop", "inline", "callable"}

\* Classes whose functions have an atomic operation of their own.
Atomic == {"leaf", "drop"}

\* The classes of the functions that a function of a class calls.
MayCall(class) ==
    CASE class = "user" -> Helper \cup {"user", "list_runtime", "string_runtime", "other"}
      [] class = "list_runtime" -> Helper \cup {"list_runtime"}
      [] class = "string_runtime" -> {"leaf", "string_runtime"}
      [] class = "inline" -> Helper
      [] class = "drop" -> Helper
      [] class = "callable" -> {"adapter"}
      [] class = "adapter" -> {"leaf", "drop"}
      [] class = "other" -> {"leaf"}
      [] class = "main" -> {"user", "drop"}
      [] OTHER -> {}

\* main calls the entry function, and drops the list of arguments; an adapter
\* of a callable dups or drops its environment, a record.
MayCallFunction(f, g) ==
    /\ g[1] \in MayCall(f[1])
    /\ f[1] = "main" => g \in {<<"user", 0>>, <<"drop", "list">>}
    /\ f[1] = "adapter" => g[1] = "leaf" \/ g = <<"drop", "record">>

-----------------------------------------------------------------------------
(* Rewriting.                                                              *)

\* Classes whose calls of helpers are given a category.
Numbered == {"user", "list_runtime", "string_runtime", "drop", "adapter", "other", "main"}

CategoryOf(piece) ==
    LET class == piece.fun[1]
    IN  CASE class = "user" -> piece.region
          [] class = "list_runtime" -> <<"runtime_list", piece.fun[2]>>
          [] class = "drop" -> <<"cascade", piece.fun[2]>>
          [] OTHER -> <<"runtime_other">>

\* Categories.number: a new name is appended, and one too many stops the script.
Number(name) ==
    LET found == {i \in DOMAIN names : names[i] = name}
        more == IF found = {} THEN Append(names, name) ELSE names
    IN  /\ names' = more
        /\ IF Len(more) > CategoryLimit
           THEN phase' = "failed" /\ UNCHANGED code
           ELSE /\ code' = Append(code, IF found = {} THEN Len(names) ELSE (CHOOSE i \in found : TRUE) - 1)
                /\ UNCHANGED phase

\* rewrite_tagged on the next piece.
Rewrite ==
    /\ phase = "rewrite" /\ Len(code) < Len(program)
    /\ LET piece == program[Len(code) + 1]
       IN  IF piece.fun[1] \in Numbered
           THEN Number(CategoryOf(piece))
           ELSE code' = Append(code, 0) /\ UNCHANGED <<names, phase>>
    /\ UNCHANGED <<program, tag, stack>>

-----------------------------------------------------------------------------
(* The instrumented program.                                               *)

Pack(number, category) == number * CategoryLimit + category

\* (tag & ~MASK) | category
WithCategory(t, category) == t - (t % CategoryLimit) + category

\* A frame: saved is blorp_rc_saved; ready, that its atomic operation comes
\* next; first, that it is not one of the later rounds of NextNode.  The rest is
\* history: due, the category under which the script's documentation files the
\* operation; caller, the innermost compiled function at or below it, 0 when
\* there is none; tagged, that every function above that one is of a class whose
\* calls are tagged.
Frame(fun, saved, due, caller, tagged) ==
    [fun |-> fun, saved |-> IF fun[1] = "inline" THEN saved ELSE 0,
     ready |-> fun[1] \in Atomic, first |-> TRUE,
     due |-> IF fun[1] \in Helper \cup {"adapter"} THEN due ELSE <<>>,
     caller |-> caller, tagged |-> tagged]

Top == stack[Len(stack)]

Caller(frame, g) == IF g[1] = "user" THEN g[2] ELSE frame.caller

\* Fault: a helper without an operation of its own does not restore the tag.
TagForCallUnsaved(frame, p, g) ==
    LET class == frame.fun[1]
    IN  CASE class = "user" /\ g[1] \in Helper -> Pack(frame.fun[2], code[p])
          [] class = "user" /\ g[1] \in {"list_runtime", "string_runtime"} -> Pack(frame.fun[2], 0)
          [] class \in Numbered \ {"user"} /\ g[1] \in Helper -> WithCategory(tag, code[p])
          [] OTHER -> tag

\* Fault: calls of the List and String runtime do not set the function.
TagForCallHelpersOnly(frame, p, g) ==
    LET class == frame.fun[1]
    IN  CASE class = "user" /\ g[1] \in Helper -> Pack(frame.fun[2], code[p])
          [] class = "inline" -> frame.saved
          [] class \in Numbered \ {"user"} /\ g[1] \in Helper -> WithCategory(tag, code[p])
          [] OTHER -> tag

\* The tag that the call of g from piece p sets.
TagForCall(frame, p, g) ==
    LET class == frame.fun[1]
    IN  CASE class = "user" /\ g[1] \in Helper -> Pack(frame.fun[2], code[p])
          [] class = "user" /\ g[1] \in {"list_runtime", "string_runtime"} -> Pack(frame.fun[2], 0)
          [] class = "inline" -> frame.saved
          [] class \in Numbered \ {"user"} /\ g[1] \in Helper -> WithCategory(tag, code[p])
          [] OTHER -> tag

\* The category that the documentation gives to the callee's operation: what
\* has no operation of its own passes on the category its caller set, "so one
\* Blorp-level acquisition stays one acquisition".
Due(frame, p) ==
    IF frame.fun[1] \in {"inline", "callable", "adapter"} THEN frame.due ELSE CategoryOf(program[p])

Start ==
    /\ phase = "rewrite" /\ Len(code) = Len(program)
    /\ phase' = "run"
    /\ stack' = <<Frame(<<"main", 0>>, 0, <<"untagged">>, 0, FALSE)>>
    /\ UNCHANGED <<program, names, code, tag>>

Call(p, q) ==
    LET g == program[q].fun
    IN  /\ phase = "run" /\ stack # <<>> /\ Len(stack) < MaxDepth
        /\ program[p].fun = Top.fun /\ MayCallFunction(Top.fun, g)
        /\ ~Top.ready
        /\ tag' = TagForCall(Top, p, g)
        /\ stack' = Append(stack, Frame(g, tag', Due(Top, p), Caller(Top, g),
                                        g[1] = "user" \/ (Top.tagged /\ g[1] # "other")))
        /\ UNCHANGED <<program, names, code, phase>>

\* blorp_rc_counts[blorp_rc_tag] is incremented, and the operation made.
Count ==
    /\ phase = "run" /\ stack # <<>> /\ Top.ready
    /\ stack' = [stack EXCEPT ![Len(stack)].ready = FALSE]
    /\ UNCHANGED <<program, names, code, phase, tag>>

\* The release of a boxed union goes on with the node's only child; the
\* documentation files this under the parent that is freed.
NextNode ==
    /\ phase = "run" /\ stack # <<>> /\ Top.fun = <<"drop", "union">> /\ ~Top.ready
    /\ stack' = [stack EXCEPT ![Len(stack)].ready = TRUE, ![Len(stack)].first = FALSE,
                              ![Len(stack)].due = <<"cascade", "union">>]
    /\ UNCHANGED <<program, names, code, phase, tag>>

Return ==
    /\ phase = "run" /\ stack # <<>> /\ ~Top.ready
    /\ stack' = SubSeq(stack, 1, Len(stack) - 1)
    /\ UNCHANGED <<program, names, code, phase, tag>>

Init ==
    /\ program \in Programs
    /\ names = <<<<"untagged">>>>
    /\ code = <<>>
    /\ phase = "rewrite"
    /\ tag = 0
    /\ stack = <<>>

Next ==
    \/ Rewrite
    \/ Start
    \/ \E p, q \in DOMAIN program : Call(p, q)
    \/ Count
    \/ NextNode
    \/ Return

Spec == Init /\ [][Next]_vars

-----------------------------------------------------------------------------
(* Properties.                                                             *)

\* An operation is about to be counted.
Counting == phase = "run" /\ stack # <<>> /\ Top.ready

\* What the report reads back from a tag.
CategoryCounted == names[(tag % CategoryLimit) + 1]

FunctionCounted == tag \div CategoryLimit

TypeOK ==
    /\ program \in Programs
    /\ phase \in {"rewrite", "run", "failed"}
    /\ code \in Seq(0 .. CategoryLimit - 1) /\ Len(code) <= Len(program)
    /\ tag \in Nat
    /\ \A i \in DOMAIN stack : stack[i].saved \in Nat /\ stack[i].ready \in BOOLEAN

\* The running helper was called by an adapter of a callable.
ByAdapter == Len(stack) > 1 /\ stack[Len(stack) - 1].fun[1] = "adapter"

\* Whatever calls came before, and however deep the helpers call each other,
\* an operation counts under the category that the documentation gives it: that
\* of the compiled function's marker region, of the list operation, of the
\* parent whose release frees it; helpers without an operation pass it on.  The
\* program departs from its documentation in two places, and this property
\* says so.  What an adapter of a callable calls counts as runtime_other,
\* not under the category that the caller of the callable's helper set.  And
\* nothing is said of the later rounds of a boxed union's release (not first):
\* they are cascades, and count under whatever tag the calls before have left.
CategoryIsDue ==
    Counting /\ Top.first => CategoryCounted = IF ByAdapter THEN <<"runtime_other">> ELSE Top.due

\* An operation counts under the innermost compiled function, however many
\* others have run and returned since that one last set the tag, unless a
\* runtime function outside Lists and Strings made it.
FunctionIsCaller == Counting /\ Top.tagged => FunctionCounted = Top.caller

=============================================================================
