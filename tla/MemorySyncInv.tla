--------------------------- MODULE MemorySyncInv ---------------------------
(***************************************************************************)
(* The inductive invariant behind PushedReached and PulledReached: what    *)
(* every bundle, wherever it is on its way, owes to the cursor it carries. *)
(* Its parts are about explicit values, so that a step that only grows the *)
(* stores is handled once (see MemorySyncProofs).                          *)
(***************************************************************************)
EXTENDS MemorySync

\* A busy thread knows the two nodes it works for.
ThreadEnds ==
    \A h \in Handlers :
        handler[h].pc # "free" => handler[h].from \in Nodes /\ handler[h].to \in Nodes

\* The log names rows that are there, and an item's session is there with it.
StoreOk(S) ==
    \A n \in Nodes :
        /\ \A k \in 1..Len(S[n].changes) : S[n].changes[k].entity \in S[n].rows
        /\ \A o \in S[n].rows : SessionIn(o) \in S[n].rows

\* A row recorded as learned from a node is at that node.
OriginOk(S) ==
    \A n \in Nodes : \A k \in 1..Len(S[n].changes) :
        S[n].changes[k].origin # NoNode
            => S[n].changes[k].entity \in S[S[n].changes[k].origin].rows

\* The kinds of rows an export has already read at a stage.
Read(stage) ==
    CASE stage = "messages" -> Sessions
      [] stage = "artifacts" -> Sessions \union Messages
      [] stage = "done" -> Objects
      [] OTHER -> {}

\* An export at n for m carries, of the kinds it has read, every change of its
\* scope between after and cursor that m does not have.
ExportOk(S, n, m, ex) ==
    /\ ex.exclude \in {NoNode, m}
    /\ ex.objs \subseteq S[n].rows
    /\ ex.cursor <= Len(S[n].changes)
    /\ \A k \in 1..ex.cursor :
          /\ k > ex.after
          /\ InScope(S[n].changes[k].entity, ex.scope)
          /\ S[n].changes[k].entity \in Read(ex.stage)
          => S[n].changes[k].entity \in ex.objs \union S[m].rows

ClientOk(S, c, cl) ==
    LET n == Home[c]
        m == Remote[c]
    IN  cl.pc # "idle" =>
          /\ cl.scope \in SyncScopes
          /\ cl.todo \subseteq S[m].rows
          /\ Covered(S, n, m, cl.seen.pushed, cl.scope, {})
          /\ Covered(S, m, n, cl.seen.pulled, cl.scope, {})
          /\ Covered(S, n, m, cl.row.pushed, cl.scope, {})
          /\ Covered(S, m, n, cl.row.pulled, cl.scope, {})
          /\ cl.pc \in {"exporting", "send"} =>
                /\ ExportOk(S, n, m, cl.ex)
                /\ cl.ex.scope = cl.scope
                /\ Covered(S, n, m, cl.ex.after, cl.scope, {})
          /\ cl.pc = "send" /\ cl.dir \in {"push", "both"} => cl.ex.stage = "done"
          /\ cl.pc \in {"readPushed", "writePushed"} =>
                Covered(S, n, m, cl.ack, cl.scope, {})
          /\ cl.pc \in {"readPushed", "writePushed"} /\ cl.dir = "both" =>
                Covered(S, m, n, cl.cursor, cl.scope, cl.todo)
          /\ cl.pc = "import" /\ cl.dir # "v2pull" =>
                Covered(S, m, n, cl.cursor, cl.scope, cl.todo)
          /\ cl.pc \in {"readPulled", "writePulled"} =>
                Covered(S, m, n, cl.cursor, cl.scope, {})

HandlerOk(S, hd) ==
    hd.pc # "free" =>
        /\ hd.todo \subseteq S[hd.from].rows
        /\ ExportOk(S, hd.to, hd.from, hd.ex)
        /\ hd.kind = "exchange" =>
              Covered(S, hd.from, hd.to, hd.push.cursor, hd.push.scope, hd.todo)
        /\ hd.pc = "importing" /\ hd.kind = "exchange" => hd.ex.stage = "done"
        /\ hd.pc \in {"check", "exporting"} => hd.kind # "import"
        /\ hd.pc = "importing" => hd.kind # "pull"
        /\ hd.pc = "reply" => hd.kind = "pull" /\ hd.ex.stage = "done"

\* A thread working for a process that waits for it.
CallerOk(S, c, cl, hd) ==
    hd.caller = c =>
        /\ cl.pc = "wait"
        /\ hd.pc # "free"
        /\ hd.from = Home[c]
        /\ hd.to = Remote[c]
        /\ hd.kind = KindOf(cl.dir)
        /\ hd.ex.scope = cl.scope
        /\ hd.push.scope = cl.scope
        /\ cl.dir # "v2pull" => Covered(S, hd.to, hd.from, hd.ex.after, cl.scope, {})

OneCaller ==
    \A g, h \in Handlers :
        handler[g].caller = handler[h].caller /\ handler[g].caller # NoClient => g = h

PeersOk(S, P) ==
    \A n, m \in Nodes, scope \in SyncScopes :
        /\ Covered(S, n, m, P[n][m].pushed, scope, {})
        /\ Covered(S, m, n, P[n][m].pulled, scope, {})

\* Inductive when all syncs of a node use the same scope: only then is the
\* cursor that one sync leaves meaningful to the next.
IInv ==
    /\ TypeOK
    /\ ThreadEnds
    /\ StoreOk(store)
    /\ OriginOk(store)
    /\ PeersOk(store, peers)
    /\ \A c \in Clients : ClientOk(store, c, client[c])
    /\ \A h \in Handlers : HandlerOk(store, handler[h])
    /\ \A c \in Clients, h \in Handlers : CallerOk(store, c, client[c], handler[h])
    /\ OneCaller

-----------------------------------------------------------------------------
(* The inductive invariant behind ChangeLogExact, OriginHolds and             *)
(* ReplicatesRows: where the objects of every bundle come from.  Unlike IInv  *)
(* it owes nothing to a cursor, so it needs no condition on the scopes.       *)

ClientHolds(S, c, cl) ==
    /\ cl.ex.objs \subseteq S[Home[c]].rows
    /\ cl.todo \subseteq S[Remote[c]].rows

HandlerHolds(S, hd) ==
    hd.pc # "free" =>
        /\ hd.ex.objs \subseteq S[hd.to].rows
        /\ hd.todo \subseteq S[hd.from].rows

\* A thread answers the process that called it, between that process's nodes.
CallerEnds ==
    \A h \in Handlers :
        handler[h].caller # NoClient =>
            /\ handler[h].pc # "free"
            /\ handler[h].from = Home[handler[h].caller]
            /\ handler[h].to = Remote[handler[h].caller]

Provenance ==
    /\ TypeOK
    /\ ThreadEnds
    /\ CallerEnds
    /\ StoreOk(store)
    /\ OriginOk(store)
    /\ ChangeLogExact
    /\ \A c \in Clients : ClientHolds(store, c, client[c])
    /\ \A h \in Handlers : HandlerHolds(store, handler[h])

\* Inductive when each pair of ends has one process: the row update_sync_state
\* has read is then the row it overwrites.
RowIsCurrent ==
    \A c \in Clients :
        client[c].pc \in {"writePushed", "writePulled"}
            => client[c].row = peers[Home[c]][Remote[c]]
=============================================================================
