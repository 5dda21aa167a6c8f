--------------------------- MODULE MCCopyProfile ---------------------------
(***************************************************************************)
(* Two sites of one statement and an inner one, a table of four rows       *)
(* that three updates can fill, and searches that begin at its end.        *)
(***************************************************************************)
EXTENDS CopyProfile

CONSTANTS site1, site2, inner

MCSite == {site1, site2}

MCInner == {inner}

\* Keys of one address collide; the borrowed ones begin at the last slot.
MCHome ==
    [k \in (Family \X Path) \X (MCSite \cup MCInner) |->
        IF k[1][2] = "borrowed" THEN 3 ELSE IF k[2] = site1 THEN 2 ELSE 3]

MCLine == [a \in MCSite \cup MCInner |-> IF a = inner THEN 2 ELSE 1]

=============================================================================
