---------------------------- MODULE MCMemorySync ----------------------------
(***************************************************************************)
(* Small instances of MemorySync.  The sync processes p and q run on a;    *)
(* r runs on c.  All of them lead to b.                                    *)
(***************************************************************************)
EXTENDS MemorySyncInv, TLC

CONSTANTS a, b, c3, s1, s2, m1, m2, f1, p, q, r, h1, h2

\* m2 belongs to session s2 when a run has it, everything else to s1.
ConstSessionOf == [i \in Items |-> IF i = m2 /\ s2 \in Sessions THEN s2 ELSE s1]

\* a's user writes m1; b's users write m2 and the artifact f1.
ConstAuthorOf == [i \in Items |-> IF i = m1 THEN a ELSE b]

ConstHome == [c \in Clients |-> IF c = r THEN c3 ELSE a]

ConstRemote == [c \in Clients |-> b]

\* Threads are interchangeable, and so are sync processes with the same two ends.
Threads == Permutations(Handlers)
ThreadsAndProcesses == Permutations(Handlers) \union Permutations(Clients)
=============================================================================
