-------------------------------- MODULE MCPhone --------------------------------
(***************************************************************************)
(* A small instance of PhoneApp: two activities one after the other, the   *)
(* second perhaps while the first one's worker still runs; and a scan of   *)
(* "shufu discover", cli.  Only the first activity scans: all scan alike.  *)
(***************************************************************************)
EXTENDS PhoneApp

CONSTANTS desk, s1, s2, m1, m2, m3, w1, w2, cli

\* m1 is a turn of the phone; m2 and m3 are the node's, m3 in another session.
ConstAuthorOf == [x \in Items |-> IF x = m1 THEN phone ELSE desk]

ConstSessionOf == [x \in Items |-> IF x = m3 THEN s2 ELSE s1]
=============================================================================
