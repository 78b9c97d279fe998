--------------------------- MODULE ReplicatedRows ---------------------------
(***************************************************************************)
(* What memory synchronization promises, whatever the protocol: rows are   *)
(* written once by their author, spread only by being copied from a node   *)
(* that holds them, arrive after the session they belong to, and are never *)
(* altered or lost.                                                        *)
(***************************************************************************)
CONSTANTS Nodes, Sessions, Items, SessionOf, AuthorOf

VARIABLE rows

Init == rows = [n \in Nodes |-> {}]

\* A user of n opens a session, or writes an item into an open one.
Write(n, o) ==
    /\ o \notin rows[n]
    /\ o \in Items => AuthorOf[o] = n /\ SessionOf[o] \in rows[n]
    /\ rows' = [rows EXCEPT ![n] = @ \union {o}]

\* n learns o from m.
Copy(n, m, o) ==
    /\ o \in rows[m]
    /\ o \in Items => SessionOf[o] \in rows[n]
    /\ rows' = [rows EXCEPT ![n] = @ \union {o}]

Next ==
    \E n \in Nodes, o \in Sessions \union Items :
        \/ Write(n, o)
        \/ \E m \in Nodes : Copy(n, m, o)

Spec == Init /\ [][Next]_rows
=============================================================================
