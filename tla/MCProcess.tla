----------------------------- MODULE MCProcess ------------------------------
(***************************************************************************)
(* Process for TLC: three starts in any order and any mix of panes and     *)
(* detached schedulers, one workspace, one fault.                          *)
(***************************************************************************)
EXTENDS Process

CONSTANTS p1, p2, p3

ThreeStarts == {p1, p2, p3}
=============================================================================
