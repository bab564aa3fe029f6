------------------------------ MODULE MCConsole ------------------------------
(* Console with the tree, the work and the keys of its TLC runs. *)
EXTENDS Console

TwoRoles == <<".", "a">>

\* A first attempt and a retry, to the root and to its child.
Work == {[from |-> ".", to |-> "a", retry |-> TRUE]}

AllKeys == {"tab", "up", "down", "s", "r", "e", "w", "x", "pagedown",
            "pageup", "search", "type", "escape", "enter", "c", "t"}

=============================================================================
