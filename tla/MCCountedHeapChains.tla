------------------------ MODULE MCCountedHeapChains ------------------------
(***************************************************************************)
(* CountedHeap with a boxed union: three cells for nodes whose payloads    *)
(* are a String, a List of such nodes or a next node, one cell for those   *)
(* Lists, one literal.                                                     *)
(***************************************************************************)
EXTENDS CountedHeap, TLC

CONSTANTS node1, node2, node3, list1, text, char

NodeCell == {node1, node2, node3}

MCCell == NodeCell \cup {list1}

MCLayout ==
    [n \in MCCell \cup {text} |->
        IF n \in NodeCell THEN "Chain" ELSE IF n = list1 THEN "List" ELSE "String"]

MCStores == [String |-> {}, List |-> {"Chain"}, Chain |-> {"String", "List", "Chain"}]

MCLiteralText == [l \in {text} |-> <<char>>]

\* Cells of one layout and handles are interchangeable.
Interchangeable == Permutations(NodeCell) \cup Permutations(Handle)

=============================================================================
