----------------------------- MODULE MemorySync -----------------------------
(***************************************************************************)
(* Memory synchronization between nodes: "shufu sync" processes            *)
(* (cli.command_sync), the request threads that serve them                 *)
(* (service.do_GET, do_POST) and the users of every node writing into the  *)
(* same databases meanwhile.  Each step below is one SQLite transaction,   *)
(* one autocommitted SELECT, or one message.                               *)
(***************************************************************************)
EXTENDS MemoryStore

CONSTANTS
    AuthorOf,     \* the node whose user writes an item
    Clients,      \* shufu sync processes
    NoClient,
    Home,         \* the node whose database a process opens
    Remote,       \* the node its URL leads to
    Directions,   \* the --direction and --protocol combinations users pick
    SyncScopes,   \* the --session arguments users pick; NoSession when absent
    V2After,      \* the --after arguments of a v0.2 pull
    Handlers,     \* request threads; ThreadingHTTPServer has no limit, a run has
    MaxFailures   \* how many losses, crashes and errors a behaviour contains

ASSUME SyncAssumption ==
    /\ AuthorOf \in [Items -> Nodes]
    /\ NoClient \notin Clients
    /\ Home \in [Clients -> Nodes]
    /\ Remote \in [Clients -> Nodes]
    /\ \A c \in Clients : Home[c] # Remote[c]
    /\ Directions \subseteq {"push", "pull", "both", "v2push", "v2pull"}
    /\ SyncScopes \subseteq Scopes
    /\ V2After \subseteq Nat
    /\ MaxFailures \in Nat

VARIABLES
    store,      \* store[n]: the database of n
    peers,      \* peers[n][m]: n's sync_peers row for m, zero when absent
    client,     \* client[c]: the local variables of command_sync
    handler,    \* handler[h]: the local variables of a request thread
    failures

vars == <<store, peers, client, handler, failures>>

Row == [pushed : Nat, pulled : Nat]
NoRow == [pushed |-> 0, pulled |-> 0]

ClientStages == {"idle", "export", "exporting", "send", "wait", "readPushed",
                 "writePushed", "import", "readPulled", "writePulled"}

\* seen: the cursors command_sync read at its start; ex: the push bundle;
\* ack and cursor: from the reply; todo: what of the pulled bundle is not
\* imported yet; row: what update_sync_state read.
ClientState ==
    [pc : ClientStages, dir : {"push", "pull", "both", "v2push", "v2pull"},
     scope : Scopes, seen : Row, ex : Export, ack : Nat, cursor : Nat,
     todo : SUBSET Objects, row : Row]

NoExport == BeginExport(0, NoSession, NoNode)

IdleClient ==
    [pc |-> "idle", dir |-> "both", scope |-> NoSession, seen |-> NoRow,
     ex |-> NoExport, ack |-> 0, cursor |-> 0, todo |-> {}, row |-> NoRow]

HandlerStages == {"free", "check", "exporting", "importing", "reply"}
Kinds == {"exchange", "pull", "import"}

\* from, to: the sync client's node and this one; push: the bundle received;
\* ex: the bundle to return; todo: what of push is not imported yet.
HandlerState ==
    [pc : HandlerStages, kind : Kinds, caller : Clients \union {NoClient},
     from : Origins, to : Origins, pushAfter : Nat, push : Export, ex : Export,
     todo : SUBSET Objects]

FreeHandler ==
    [pc |-> "free", kind |-> "pull", caller |-> NoClient, from |-> NoNode,
     to |-> NoNode, pushAfter |-> 0, push |-> NoExport, ex |-> NoExport,
     todo |-> {}]

Init ==
    /\ store = [n \in Nodes |-> EmptyStore]
    /\ peers = [n \in Nodes |-> [m \in Nodes |-> NoRow]]
    /\ client = [c \in Clients |-> IdleClient]
    /\ handler = [h \in Handlers |-> FreeHandler]
    /\ failures = 0

-----------------------------------------------------------------------------
(* Users of a node: add_message and add_artifact_bytes, two transactions.   *)

OpenSession(i) ==
    LET n == AuthorOf[i] IN
    /\ i \notin store[n].rows
    /\ SessionMissing(store[n], i)
    /\ store' = [store EXCEPT ![n] = EnsureSession(@, i, NoNode)]
    /\ UNCHANGED <<peers, client, handler, failures>>

\* A mutant of AddItem: the row is inserted without ensure_session.
AddItemAlone(i) ==
    /\ i \notin store[AuthorOf[i]].rows
    /\ store' = [store EXCEPT ![AuthorOf[i]] = Insert(@, i, NoNode)]
    /\ UNCHANGED <<peers, client, handler, failures>>

AddItem(i) ==
    LET n == AuthorOf[i] IN
    /\ i \notin store[n].rows
    /\ ~SessionMissing(store[n], i)
    /\ store' = [store EXCEPT ![n] = Insert(@, i, NoNode)]
    /\ UNCHANGED <<peers, client, handler, failures>>

-----------------------------------------------------------------------------
(* The sync client.                                                         *)

\* command_sync learns the remote node_id and reads its cursors.  A v0.2 push
\* exports a full snapshot, a v0.3 push what export_for_peer selects.
BeginSync(c, d, scope) ==
    /\ client[c].pc = "idle"
    /\ client' = [client EXCEPT ![c] =
          [IdleClient EXCEPT
             !.pc = IF d \in {"pull", "v2pull"} THEN "send"
                    ELSE IF d = "v2push" THEN "exporting" ELSE "export",
             !.dir = d,
             !.scope = scope,
             !.seen = IF d \in {"v2push", "v2pull"} THEN NoRow
                      ELSE peers[Home[c]][Remote[c]],
             !.ex = BeginExport(0, scope, NoNode)]]
    /\ UNCHANGED <<store, peers, handler, failures>>

\* A mutant of ExportForPeer: it exports after the wrong one of the two cursors.
ExportAfterPulled(c) ==
    /\ client[c].pc = "export"
    /\ client' = [client EXCEPT
          ![c].pc = "exporting",
          ![c].ex = BeginExport(peers[Home[c]][Remote[c]].pulled,
                                client[c].scope, Remote[c])]
    /\ UNCHANGED <<store, peers, handler, failures>>

\* export_for_peer reads the pushed cursor a second time.
ExportForPeer(c) ==
    /\ client[c].pc = "export"
    /\ client' = [client EXCEPT
          ![c].pc = "exporting",
          ![c].ex = BeginExport(peers[Home[c]][Remote[c]].pushed,
                                client[c].scope, Remote[c])]
    /\ UNCHANGED <<store, peers, handler, failures>>

ClientExport(c) ==
    LET next == ExportStep(store[Home[c]], client[c].ex) IN
    /\ client[c].pc = "exporting"
    /\ client' = [client EXCEPT
          ![c].ex = next,
          ![c].pc = IF next.stage = "done" THEN "send" ELSE "exporting"]
    /\ UNCHANGED <<store, peers, handler, failures>>

KindOf(d) ==
    IF d \in {"push", "both"} THEN "exchange"
    ELSE IF d = "v2push" THEN "import" ELSE "pull"

\* The request reaches the node, which gives it a thread.  The parameters of a
\* v0.2 pull come from the command line, those of v0.3 from the peer's row.
SendRequest(c, h) ==
    /\ client[c].pc = "send"
    /\ handler[h].pc = "free"
    /\ \E after \in IF client[c].dir = "v2pull" THEN V2After
                    ELSE {client[c].seen.pulled} :
          LET kind == KindOf(client[c].dir) IN
          handler' = [handler EXCEPT ![h] =
              [pc |-> IF kind = "import" THEN "importing" ELSE "check",
               kind |-> kind,
               caller |-> c,
               from |-> Home[c],
               to |-> Remote[c],
               pushAfter |-> client[c].seen.pushed,
               push |-> client[c].ex,
               ex |-> BeginExport(after, client[c].scope,
                          IF kind = "exchange" THEN Home[c] ELSE NoNode),
               todo |-> IF kind = "pull" THEN {} ELSE client[c].ex.objs]]
    /\ client' = [client EXCEPT ![c].pc = "wait", ![c].ex = NoExport]
    /\ UNCHANGED <<store, peers, failures>>

\* update_sync_state: the row is read in one transaction ...
ReadPeerRow(c) ==
    /\ client[c].pc \in {"readPushed", "readPulled"}
    /\ client' = [client EXCEPT
          ![c].row = peers[Home[c]][Remote[c]],
          ![c].pc = IF client[c].pc = "readPushed" THEN "writePushed"
                    ELSE "writePulled"]
    /\ UNCHANGED <<store, peers, handler, failures>>

Larger(a, b) == IF a >= b THEN a ELSE b

\* A mutant of WritePushed: the remote cursor is stored as the pushed one.
WritePushedRemote(c) ==
    /\ client[c].pc = "writePushed"
    /\ peers' = [peers EXCEPT ![Home[c]][Remote[c]] =
          [pushed |-> Larger(client[c].row.pushed, client[c].cursor),
           pulled |-> client[c].row.pulled]]
    /\ client' = [client EXCEPT ![c] =
          IF client[c].dir = "both" THEN [client[c] EXCEPT !.pc = "import", !.row = NoRow]
          ELSE IdleClient]
    /\ UNCHANGED <<store, handler, failures>>

\* ... and both columns are written in the next, from what was read.
WritePushed(c) ==
    /\ client[c].pc = "writePushed"
    /\ peers' = [peers EXCEPT ![Home[c]][Remote[c]] =
          [pushed |-> Larger(client[c].row.pushed, client[c].ack),
           pulled |-> client[c].row.pulled]]
    /\ client' = [client EXCEPT ![c] =
          IF client[c].dir = "both" THEN [client[c] EXCEPT !.pc = "import", !.row = NoRow]
          ELSE IdleClient]
    /\ UNCHANGED <<store, handler, failures>>

ClientImport(c, o) ==
    LET n == Home[c] IN
    /\ client[c].pc = "import"
    /\ o \in Importable(client[c].todo)
    /\ store' = [store EXCEPT ![n] = ImportStep(@, o, Remote[c])]
    /\ client' = [client EXCEPT ![c].todo = StillToImport(store[n], o, @)]
    /\ UNCHANGED <<peers, handler, failures>>

\* A mutant of ClientImported: the cursor is stored before the bundle is imported.
ImportedEarly(c) ==
    /\ client[c].pc = "import"
    /\ client' = [client EXCEPT ![c] =
          IF client[c].dir = "v2pull" THEN IdleClient
          ELSE [client[c] EXCEPT !.pc = "readPulled"]]
    /\ UNCHANGED <<store, peers, handler, failures>>

\* A v0.2 pull keeps no cursor: the user passes the printed one to the next.
ClientImported(c) ==
    /\ client[c].pc = "import"
    /\ client[c].todo = {}
    /\ client' = [client EXCEPT ![c] =
          IF client[c].dir = "v2pull" THEN IdleClient
          ELSE [client[c] EXCEPT !.pc = "readPulled"]]
    /\ UNCHANGED <<store, peers, handler, failures>>

\* A mutant of WritePulled: the upsert replaces the row by its new column.
WritePulledOnly(c) ==
    /\ client[c].pc = "writePulled"
    /\ peers' = [peers EXCEPT ![Home[c]][Remote[c]] =
          [pushed |-> 0, pulled |-> Larger(client[c].row.pulled, client[c].cursor)]]
    /\ client' = [client EXCEPT ![c] = IdleClient]
    /\ UNCHANGED <<store, handler, failures>>

WritePulled(c) ==
    /\ client[c].pc = "writePulled"
    /\ peers' = [peers EXCEPT ![Home[c]][Remote[c]] =
          [pushed |-> client[c].row.pushed,
           pulled |-> Larger(client[c].row.pulled, client[c].cursor)]]
    /\ client' = [client EXCEPT ![c] = IdleClient]
    /\ UNCHANGED <<store, handler, failures>>

-----------------------------------------------------------------------------
(* The request thread.                                                      *)

Error(c) == [client EXCEPT ![c] = IdleClient]

\* The consistency check of an exchange, then the export: a pull of v0.2 or
\* v0.3 excludes no one, an exchange excludes what came from the requester.
HandlerCheck(h) ==
    /\ handler[h].pc = "check"
    /\ \/ /\ handler[h].kind = "exchange" => handler[h].push.after = handler[h].pushAfter
          /\ handler' = [handler EXCEPT ![h].pc = "exporting"]
          /\ UNCHANGED client
       \/ /\ handler[h].kind = "exchange"
          /\ handler[h].push.after # handler[h].pushAfter
          /\ handler' = [handler EXCEPT ![h] = FreeHandler]
          /\ client' = IF handler[h].caller = NoClient THEN client
                       ELSE Error(handler[h].caller)
    /\ UNCHANGED <<store, peers, failures>>

HandlerExport(h) ==
    LET next == ExportStep(store[handler[h].to], handler[h].ex) IN
    /\ handler[h].pc = "exporting"
    /\ handler' = [handler EXCEPT
          ![h].ex = next,
          ![h].pc = IF next.stage # "done" THEN "exporting"
                    ELSE IF handler[h].kind = "exchange" THEN "importing"
                    ELSE "reply"]
    /\ UNCHANGED <<store, peers, client, failures>>

\* A mutant of HandlerImport: the requester is kept in the server, not in the
\* thread, so a request that arrives meanwhile changes the recorded origin.
HandlerImportShared(h, o) ==
    LET n == handler[h].to IN
    /\ handler[h].pc = "importing"
    /\ o \in Importable(handler[h].todo)
    /\ \E g \in Handlers :
          /\ handler[g].pc # "free"
          /\ store' = [store EXCEPT ![n] = ImportStep(@, o, handler[g].from)]
    /\ handler' = [handler EXCEPT ![h].todo = StillToImport(store[n], o, @)]
    /\ UNCHANGED <<peers, client, failures>>

HandlerImport(h, o) ==
    LET n == handler[h].to IN
    /\ handler[h].pc = "importing"
    /\ o \in Importable(handler[h].todo)
    /\ store' = [store EXCEPT ![n] = ImportStep(@, o, handler[h].from)]
    /\ handler' = [handler EXCEPT ![h].todo = StillToImport(store[n], o, @)]
    /\ UNCHANGED <<peers, client, failures>>

\* A mutant of Receive: the pushed cursor is the log's end when the reply comes.
ReceiveAsOfNow(c, h) ==
    LET got == handler[h].ex
        now == CurrentCursor(store[Home[c]], client[c].scope)
    IN
    CASE client[c].dir = "v2push" -> IdleClient
      [] client[c].dir \in {"push", "both"} ->
            [client[c] EXCEPT !.pc = "readPushed", !.ack = now,
                              !.cursor = got.cursor, !.todo = got.objs]
      [] OTHER ->
            [client[c] EXCEPT !.pc = "import", !.cursor = got.cursor,
                              !.todo = got.objs]

\* The reply; a push discards the pulled bundle, v0.2 has no acknowledgement.
Receive(c, h) ==
    LET got == handler[h].ex IN
    CASE client[c].dir = "v2push" -> IdleClient
      [] client[c].dir = "push" ->
            [client[c] EXCEPT !.pc = "readPushed", !.ack = handler[h].push.cursor]
      [] client[c].dir = "both" ->
            [client[c] EXCEPT !.pc = "readPushed", !.ack = handler[h].push.cursor,
                              !.cursor = got.cursor, !.todo = got.objs]
      [] OTHER ->
            [client[c] EXCEPT !.pc = "import", !.cursor = got.cursor,
                              !.todo = got.objs]

\* A mutant of HandlerReply: the push is acknowledged before it is imported.
ReplyEarly(h) ==
    LET c == handler[h].caller IN
    /\ handler[h].pc \in {"reply", "importing"}
    /\ client' = IF c = NoClient THEN client
                 ELSE [client EXCEPT ![c] = Receive(c, h)]
    /\ handler' = [handler EXCEPT ![h] = FreeHandler]
    /\ UNCHANGED <<store, peers, failures>>

HandlerReply(h) ==
    LET c == handler[h].caller IN
    /\ \/ handler[h].pc = "reply"
       \/ handler[h].pc = "importing" /\ handler[h].todo = {}
    /\ client' = IF c = NoClient THEN client
                 ELSE [client EXCEPT ![c] = Receive(c, h)]
    /\ handler' = [handler EXCEPT ![h] = FreeHandler]
    /\ UNCHANGED <<store, peers, failures>>

-----------------------------------------------------------------------------
(* Failures: what is committed stays, what was in memory is gone.           *)

\* A lost request or answer, a timeout, an artifact that does not verify, or
\* the process killed.  A thread already serving it goes on for nobody.
ClientFail(c) ==
    /\ failures < MaxFailures
    /\ client[c].pc # "idle"
    /\ client' = Error(c)
    /\ handler' = [h \in Handlers |->
          IF handler[h].caller = c THEN [handler[h] EXCEPT !.caller = NoClient]
          ELSE handler[h]]
    /\ failures' = failures + 1
    /\ UNCHANGED <<store, peers>>

\* A 400 for a bad artifact, an exception in the thread, or the node killed.
HandlerFail(h) ==
    /\ failures < MaxFailures
    /\ handler[h].pc # "free"
    /\ handler' = [handler EXCEPT ![h] = FreeHandler]
    /\ client' = IF handler[h].caller = NoClient THEN client
                 ELSE Error(handler[h].caller)
    /\ failures' = failures + 1
    /\ UNCHANGED <<store, peers>>

-----------------------------------------------------------------------------
ClientStep(c) ==
    \/ ExportForPeer(c)
    \/ ClientExport(c)
    \/ \E h \in Handlers : SendRequest(c, h)
    \/ ReadPeerRow(c)
    \/ WritePushed(c)
    \/ \E o \in Objects : ClientImport(c, o)
    \/ ClientImported(c)
    \/ WritePulled(c)

HandlerStep(h) ==
    \/ HandlerCheck(h)
    \/ HandlerExport(h)
    \/ \E o \in Objects : HandlerImport(h, o)
    \/ HandlerReply(h)

Next ==
    \/ \E i \in Items : OpenSession(i) \/ AddItem(i)
    \/ \E c \in Clients :
          \/ \E d \in Directions, scope \in SyncScopes : BeginSync(c, d, scope)
          \/ ClientStep(c)
          \/ ClientFail(c)
    \/ \E h \in Handlers : HandlerStep(h) \/ HandlerFail(h)

Spec == Init /\ [][Next]_vars

\* A started process and a started thread run on (neither waits for anybody
\* else), and users start a two-way sync again and again.  Nobody has to write.
Fairness ==
    /\ \A c \in Clients :
          /\ WF_vars(ClientStep(c))
          /\ \A scope \in SyncScopes : SF_vars(BeginSync(c, "both", scope))
    /\ \A h \in Handlers : WF_vars(HandlerStep(h))

FairSpec == Spec /\ Fairness
-----------------------------------------------------------------------------
(* Properties.                                                              *)

\* Every variable has its type.
TypeOK ==
    /\ store \in [Nodes -> Store]
    /\ peers \in [Nodes -> [Nodes -> Row]]
    /\ client \in [Clients -> ClientState]
    /\ handler \in [Handlers -> HandlerState]
    /\ failures \in 0..MaxFailures

\* Each row has one change record, whichever of several concurrent writers and
\* importers inserted it, and each record names a row that is there: a change
\* log never grows by re-importing, so two nodes cannot feed each other for ever.
ChangeLogExact ==
    \A n \in Nodes :
        /\ store[n].rows = {store[n].changes[k].entity : k \in DOMAIN store[n].changes}
        /\ \A j, k \in DOMAIN store[n].changes :
              store[n].changes[j].entity = store[n].changes[k].entity => j = k

\* What n logged up to a cursor, in a scope, is at m or still on its way there.
Covered(S, n, m, cursor, scope, pending) ==
    /\ cursor <= Len(S[n].changes)
    /\ \A k \in 1..cursor :
          InScope(S[n].changes[k].entity, scope)
              => S[n].changes[k].entity \in pending \union S[m].rows

\* The pushed cursor of n for m never passes a local change that m lacks, so an
\* export after it omits nothing m needs: not when an answer is lost, the import
\* stops half-way, users write during the export or two processes sync at once.
PushedReached ==
    \A n, m \in Nodes, scope \in SyncScopes :
        Covered(store, n, m, peers[n][m].pushed, scope, {})

\* The pulled cursor of n for m never passes a change of m that n lacks.
PulledReached ==
    \A n, m \in Nodes, scope \in SyncScopes :
        Covered(store, m, n, peers[n][m].pulled, scope, {})

\* What an export for m leaves out because m is its recorded origin, m has:
\* whoever named itself source_node_id had committed the row before it sent it.
OriginHolds ==
    \A n \in Nodes : \A k \in DOMAIN store[n].changes :
        LET change == store[n].changes[k] IN
        change.origin # NoNode => change.entity \in store[change.origin].rows

\* Peer cursors only advance ("an old response cannot rewind sync").
CursorsAdvance ==
    [][\A n, m \in Nodes : /\ peers'[n][m].pushed >= peers[n][m].pushed
                           /\ peers'[n][m].pulled >= peers[n][m].pulled]_vars

\* The rows of every node evolve as ReplicatedRows allows: none is invented,
\* altered, lost, or stored ahead of its session.
Replica == INSTANCE ReplicatedRows WITH rows <- [n \in Nodes |-> store[n].rows]

ReplicatesRows == Replica!Spec

\* Once users and failures stop, repeated two-way syncs leave a node and its
\* remote with the same rows, for good.
Converges ==
    <>[](\A c \in Clients : store[Home[c]].rows = store[Remote[c]].rows)
=============================================================================
