------------------------------ MODULE MCVerify ------------------------------
(***************************************************************************)
(* Verify on a small heap: one String cell, and two cells for Lists whose  *)
(* elements are Strings or such Lists again.                               *)
(***************************************************************************)
EXTENDS Verify, TLC

CONSTANTS string1, list1, list2, text, empty, char

ListCell == {list1, list2}

MCCell == {string1} \cup ListCell

MCLayout ==
    [n \in MCCell \cup {text, empty} |-> IF n \in ListCell \cup {empty} THEN "List" ELSE "String"]

MCStores == [String |-> {}, List |-> {"String", "List"}]

MCLiteralText == [l \in {text} |-> <<char>>]

Interchangeable == Permutations(ListCell) \cup Permutations(Handle)

\* A value that nothing backs can never be read again, so the node it once
\* had does not distinguish states.
ReadableState ==
    <<heapVars,
      [d \in DOMAIN calls |->
          [calls[d] EXCEPT !.known =
              [v \in DOMAIN calls[d].known |->
                  IF v \in Readable(calls[d]) THEN calls[d].known[v] ELSE None]]]>>

=============================================================================
