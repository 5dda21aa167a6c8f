------------------------- MODULE CountedHeapValues -------------------------
(***************************************************************************)
(* The counted heap implements value semantics: reading every handle's     *)
(* root as the value stored there, a step of the heap is one operation on  *)
(* immutable values or changes nothing that the program can see.           *)
(***************************************************************************)
EXTENDS CountedHeap

\* The value a program reads from a root.
ValueOf[n \in Node] ==
    [layout |-> Layout[n],
     elements |-> [i \in DOMAIN values[n] |->
                     IF Stores[Layout[n]] = {} THEN values[n][i] ELSE ValueOf[values[n][i]]]]

Values == INSTANCE ValueSemantics
    WITH value <- [h \in Handle |-> IF held[h] = None THEN None ELSE ValueOf[held[h]]]

\* The runtime's updates, in place or copied, relocated or not, shared or
\* unique, cannot be told from operations on immutable values: the result is
\* the updated value and no other value the program holds changes.
ImplementsValueSemantics == Values!Spec

=============================================================================
