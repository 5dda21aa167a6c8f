-------------------------- MODULE MCVerifyControl --------------------------
(***************************************************************************)
(* Verify with the smallest heap on which an update in place can be seen:  *)
(* two List cells and two literals to store in them.                       *)
(***************************************************************************)
EXTENDS Verify, TLC

CONSTANTS list1, list2, text1, text2, char1, char2

MCCell == {list1, list2}

MCLiteral == {text1, text2}

MCLayout == [n \in MCCell \cup MCLiteral |-> IF n \in MCCell THEN "List" ELSE "String"]

MCStores == [String |-> {}, List |-> {"String"}]

MCLiteralText == [l \in MCLiteral |-> IF l = text1 THEN <<char1>> ELSE <<char2>>]

\* Cells, handles, and the two literals with their characters.
Interchangeable ==
    Permutations(MCCell) \cup Permutations(Handle)
        \cup {(text1 :> text2 @@ text2 :> text1 @@ char1 :> char2 @@ char2 :> char1)}

\* A value that nothing backs can never be read again, so the node it once
\* had does not distinguish states.
ReadableState ==
    <<heapVars,
      [d \in DOMAIN calls |->
          [calls[d] EXCEPT !.known =
              [v \in DOMAIN calls[d].known |->
                  IF v \in Readable(calls[d]) THEN calls[d].known[v] ELSE None]]]>>

\* Bound: blocks within one call, or calls without blocks.
CallsOrBlocks == Len(calls) = 1 \/ \A d \in DOMAIN calls : calls[d].blocks = <<>>

=============================================================================
