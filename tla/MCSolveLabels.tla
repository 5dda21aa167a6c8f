--------------------------- MODULE MCSolveLabels ---------------------------
(* Every program of an entry that passes its parameter on, an instance of  *)
(* two parameters with up to two uses, and two instances of one parameter  *)
(* with at most one use, of that parameter; any of the three may call any  *)
(* of them.  The scan is exact of the last one's use.                      *)
EXTENDS SolveLabels

MCParameters == [i \in 0 .. 3 |-> IF i = 1 THEN {1, 2} ELSE {1}]

\* Nobody calls the entry.
Targets == {Reuse} \cup UNION {{i} \X MCParameters[i] : i \in 1 .. 3}

\* What an argument may carry, in the scan and in the walk.
Carriage(i) ==
    {[carries |-> c, stored |-> s] : c \in SUBSET MCParameters[i], s \in SUBSET MCParameters[i]}

UseOf(i) ==
    {[carries |-> cs.carries, stored |-> cs.stored, target |-> t] :
        cs \in {k \in Carriage(i) : k.stored \subseteq k.carries}, t \in Targets}

UpToTwo(S) == {{}} \cup {{a, b} : a \in S, b \in S}

MCUsesOf(i) ==
    CASE i = 0 -> {{[carries |-> {1}, stored |-> {1}, target |-> <<1, 1>>]}}
      [] i = 1 -> UpToTwo(UseOf(1))
      [] i = 2 -> {{}} \cup {{use} : use \in {u \in UseOf(2) : u.carries = {1}}}
      [] i = 3 -> {{}} \cup {{use} : use \in {u \in UseOf(3) : u.stored = {1}}}

=============================================================================
