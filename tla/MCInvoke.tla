------------------------------ MODULE MCInvoke ------------------------------
(***************************************************************************)
(* A small instance of InvokeStream: one invocation, from any client.      *)
(***************************************************************************)
EXTENDS InvokeStream

CONSTANT x

ConstKindsOf == [r \in Requests |-> Kinds]
=============================================================================
