----------------------------- MODULE CallCounts -----------------------------
(***************************************************************************)
(* What a table of counters promises to those who call it: a call names a  *)
(* key, and by the time it ends the key has one more hit and the call's    *)
(* units, and nothing else has changed.                                    *)
(***************************************************************************)
EXTENDS Naturals, Sequences

CONSTANTS Key, Units

VARIABLES
    counts,     \* for each key, its hits and its units
    pending     \* the calls that have been made and have not ended

Zero == [hits |-> 0, units |-> 0]

Init == counts = [k \in Key |-> Zero] /\ pending = <<>>

Call ==
    /\ pending = <<>>
    /\ pending' \in Seq([key : Key, units : Units])
    /\ UNCHANGED counts

Hit ==
    /\ pending # <<>>
    /\ counts' = [counts EXCEPT ![Head(pending).key] =
                    [hits |-> @.hits + 1, units |-> @.units + Head(pending).units]]
    /\ pending' = Tail(pending)

Next == Call \/ Hit

Spec == Init /\ [][Next]_<<counts, pending>>

=============================================================================
