------------------------------- MODULE MCChild -------------------------------
(***************************************************************************)
(* An instance of Child for TLC: a child, its entrypoint, and the          *)
(* entrypoint of the announced roots, whose clients use the child's name,  *)
(* too, and one that names a child of the child.                           *)
(***************************************************************************)
EXTENDS Child

CONSTANTS child_ep, root_ep

MCName == [t \in Childs |-> <<"child">>]
MCConfig == [t \in Childs |-> [found |-> TRUE, caps |-> 1, quota |-> Absent]]
MCBudget == [ram |-> 2, caps |-> 2]
MCRequests == {[ram |-> 1, caps |-> 1]}
MCLabels == {<<"child", "a">>, <<"child", "sub", "a">>}
NullOnly == {0}
=============================================================================
