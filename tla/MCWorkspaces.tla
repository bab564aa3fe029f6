---------------------------- MODULE MCWorkspaces ----------------------------
(* Workspaces with a directory, one below it, and two things to say. *)
EXTENDS Workspaces

TwoDirs == <<<<"a">>, <<"a", "b">>>>

\* Nothing, or a role and an edge to the workspace above.
TwoWords == {Silent, [role |-> "r", edges |-> {<<"..">>}]}
=============================================================================
