------------------------ MODULE MCCountedHeapValues ------------------------
(***************************************************************************)
(* CountedHeapValues with two characters, one String cell, and two cells   *)
(* for Lists whose elements are Strings or such Lists again.               *)
(***************************************************************************)
EXTENDS CountedHeapValues, TLC

CONSTANTS string1, list1, list2, text, empty, char1, char2

ListCell == {list1, list2}

MCCell == {string1} \cup ListCell

MCLayout ==
    [n \in MCCell \cup {text, empty} |-> IF n \in ListCell \cup {empty} THEN "List" ELSE "String"]

MCStores == [String |-> {}, List |-> {"String", "List"}]

MCLiteralText == [l \in {text} |-> <<char1>>]

\* Cells of one layout and handles are interchangeable.
Interchangeable == Permutations(ListCell) \cup Permutations(Handle)

=============================================================================
