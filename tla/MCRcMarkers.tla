---------------------------- MODULE MCRcMarkers ----------------------------
(* Functions of three steps, those of four that read, store, call and      *)
(* project one parameter, and arms of two steps with two values.           *)
EXTENDS RcMarkers

S(op, args, owned) == [op |-> op, args |-> args, owned |-> owned]

Arguments(m, n) == UNION {[1 .. k -> 1 .. m] : k \in 1 .. n}

Contracted(op, m, n) ==
    UNION {{S(op, args, owned) : owned \in [DOMAIN args -> BOOLEAN]} : args \in Arguments(m, n)}

Reading(op, m, n) == {S(op, args, <<>>) : args \in Arguments(m, n)}

RecordSteps(m) ==
    Contracted("Call", m, 2) \cup Reading("Construct", m, 2) \cup Reading("ReadRecordField", m, 1)

AnyStep(m) ==
    RecordSteps(m) \cup Contracted("Loop", m, 2) \cup Reading("Update", m, 2)
        \cup Reading("ListSuffix", m, 1) \cup Reading("Join", m, 2) \cup {S("String", <<>>, <<>>)}

Parameters == {S("Parameter", <<>>, <<>>), S("OwnedParameter", <<>>, <<>>)}

MCBlocks == {<<0, 0>>, <<1, 1>>, <<2, 0>>}

IsFunction(p) == p.entering + p.inputs = 0

\* The values of the program so far.
Size(p) == p.entering + p.inputs + Len(p.steps)

\* A function: a parameter; then any steps, but in a block of four steps only
\* steps on records.  An arm: two steps.
MCStepsAfter(p) ==
    CASE IsFunction(p) /\ Len(p.steps) = 0 -> Parameters
      [] IsFunction(p) /\ Len(p.steps) = 1 -> Parameters \cup AnyStep(1)
      [] IsFunction(p) /\ Len(p.steps) = 2 -> AnyStep(2)
      [] IsFunction(p) /\ Len(p.steps) = 3 ->
            {s \in RecordSteps(3) : /\ p.steps[1].op = "OwnedParameter"
                                 /\ \A i \in 2 .. 3 : p.steps[i] \in RecordSteps(2)}
      [] ~IsFunction(p) /\ Len(p.steps) = 0 -> RecordSteps(2)
      [] ~IsFunction(p) /\ Len(p.steps) = 1 -> {s \in AnyStep(3) : s.op \in {"Loop", "Join", "Update"} => Len(s.args) = 1}
      [] OTHER -> {}

MCOutputsOf(p) ==
    IF IsFunction(p) THEN [{1} -> {v \in 1 .. Size(p) : Len(p.steps) > 2}]
    ELSE {out \in Arguments(Size(p), 2) : Len(p.steps) = 2}

=============================================================================
