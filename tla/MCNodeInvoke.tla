---------------------------- MODULE MCNodeInvoke ----------------------------
(***************************************************************************)
(* A small instance of NodeInvoke: two invocations in one session, side by *)
(* side or one after the other.                                            *)
(***************************************************************************)
EXTENDS NodeInvoke

CONSTANTS x, y
=============================================================================
