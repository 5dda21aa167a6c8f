------------------------------- MODULE MCRcTags -------------------------------
(***************************************************************************)
(* Two compiled functions, one function of each other class (drop helpers  *)
(* of a list, a boxed union and a record), and eight categories: they fit  *)
(* the table of three bits exactly.  A ninth stops the script.             *)
(***************************************************************************)
EXTENDS RcTags

MCRuntime ==
    <<[fun |-> <<"leaf", "string">>, region |-> <<>>],
      [fun |-> <<"inline", "union">>, region |-> <<>>],
      [fun |-> <<"drop", "list">>, region |-> <<>>],
      [fun |-> <<"drop", "union">>, region |-> <<>>],
      [fun |-> <<"drop", "record">>, region |-> <<>>],
      [fun |-> <<"callable", "function">>, region |-> <<>>],
      [fun |-> <<"adapter", "function">>, region |-> <<>>],
      [fun |-> <<"list_runtime", "get">>, region |-> <<>>],
      [fun |-> <<"string_runtime", "literal">>, region |-> <<>>],
      [fun |-> <<"other", "fs">>, region |-> <<>>]>>

MCUser(n, region) == [fun |-> <<"user", n>>, region |-> region]

MCMain == [fun |-> <<"main", 0>>, region |-> <<>>]

MCProgram ==
    MCRuntime \o <<MCUser(0, <<"unmarked">>), MCUser(1, <<"unmarked">>),
                   MCUser(1, <<"acquire", "call">>), MCMain>>

MCPrograms == {MCProgram, MCProgram \o <<MCUser(2, <<"acquire", "stored">>)>>}

=============================================================================
