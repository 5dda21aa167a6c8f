------------------------------ MODULE RcGroups ------------------------------
(***************************************************************************)
(* The sources under which report.py groups the categories of counted      *)
(* operations.  A category's name is the tuple of its parts.               *)
(***************************************************************************)
EXTENDS Naturals, Sequences, SequencesExt

RC_GROUPS == <<
    <<"acquire", "projection">>, <<"acquire", "stored">>, <<"acquire", "block_end">>,
    <<"acquire", "loop_entry">>, <<"acquire", "call">>, <<"drop">>, <<"cascade">>,
    <<"runtime_list", "get">>, <<"runtime_list">>, <<"runtime_other">>, <<"unmarked">>, <<"untagged">> >>

\* The groups with a prefix of the category.
GroupsOf(name) == {g \in DOMAIN RC_GROUPS : IsPrefix(RC_GROUPS[g], name)}

\* group_of: the first match wins; no match stops the report.
GroupOf(name) == CHOOSE g \in GroupsOf(name) : \A other \in GroupsOf(name) : g <= other

=============================================================================
