------------------------------ MODULE AndroidSync ------------------------------
(***************************************************************************)
(* Synchronization between the Android app and a node (ShuFuSyncEngine.kt, *)
(* ShuFuMemoryStore.kt): capabilities, a full push, a pull from a cursor   *)
(* kept per node and session in the app's preferences, an import in one    *)
(* transaction, and the new cursor.                                        *)
(*                                                                         *)
(* The phone serves nobody and pushes everything, so its change log is     *)
(* never read: its store is its rows.  The node is a store as in           *)
(* MemoryStore.  A worker is the executor thread of one activity; two may  *)
(* run when the activity was recreated.                                    *)
(***************************************************************************)
EXTENDS MemoryStore

CONSTANTS
    phone,
    AuthorOf,       \* the node whose user writes an item
    Workers,        \* executor threads
    SyncScopes      \* the sessions users sync; NoSession when the field is blank

ASSUME AndroidAssumption ==
    /\ phone \in Nodes
    /\ AuthorOf \in [Items -> Nodes]
    /\ SyncScopes \subseteq Scopes

VARIABLES
    rows,       \* the rows of the phone
    node,       \* the store of the node
    prefs,      \* prefs[scope]: the cursor kept for the node and that session
    saved,      \* what of prefs has reached the disk
    sync,       \* sync[w]: the local variables of ShuFuSyncEngine.sync
    incoming    \* incoming[w]: what the node has still to import of w's push

syncVars == <<rows, node, prefs, saved, sync, incoming>>

SyncPcs == {"idle", "export", "push", "pull", "save"}

NoSync == [pc |-> "idle", ex |-> BeginExport(0, NoSession, NoNode)]

SyncInit ==
    /\ rows = {}
    /\ node = EmptyStore
    /\ prefs = [scope \in SyncScopes |-> 0]
    /\ saved = prefs
    /\ sync = [w \in Workers |-> NoSync]
    /\ incoming = [w \in Workers |-> {}]

----------------------------------------------------------------------------

\* The app stores a turn and, if it must, its session, in one transaction.
AddOnPhone(m) ==
    /\ m \in Messages \ rows
    /\ AuthorOf[m] = phone
    /\ rows' = rows \union {m, SessionIn(m)}
    /\ UNCHANGED <<node, prefs, saved, sync, incoming>>

\* A user of the node writes; the session, which opens in a transaction of its
\* own, and the item are one step here.
AddOnNode(o) ==
    /\ o \notin node.rows
    /\ AuthorOf[o] # phone
    /\ node' = Insert(EnsureSession(node, o, NoNode), o, NoNode)
    /\ UNCHANGED <<rows, prefs, saved, sync, incoming>>

\* The cursor of the node and session is read.
BeginSync(w, scope) ==
    /\ sync[w].pc = "idle"
    /\ incoming[w] = {}
    /\ sync' = [sync EXCEPT ![w] = [pc |-> "export", ex |-> BeginExport(prefs[scope], scope, NoNode)]]
    /\ UNCHANGED <<rows, node, prefs, saved, incoming>>

\* Everything of the session is exported and posted.
Push(w) ==
    /\ sync[w].pc = "export"
    /\ incoming' = [incoming EXCEPT ![w] = {o \in rows : InScope(o, sync[w].ex.scope)}]
    /\ sync' = [sync EXCEPT ![w].pc = "push"]
    /\ UNCHANGED <<rows, node, prefs, saved>>

\* The node's request thread imports it, one transaction at a time, whether or
\* not the phone is still there.
NodeImport(w, o) ==
    /\ o \in Importable(incoming[w])
    /\ node' = ImportStep(node, o, phone)
    /\ incoming' = [incoming EXCEPT ![w] = StillToImport(node, o, @)]
    /\ UNCHANGED <<rows, prefs, saved, sync>>

\* The answer to the push; the pull is sent.
Pushed(w) ==
    /\ sync[w].pc = "push"
    /\ incoming[w] = {}
    /\ sync' = [sync EXCEPT ![w].pc = "pull"]
    /\ UNCHANGED <<rows, node, prefs, saved, incoming>>

\* One statement of the node's export.
NodeExport(w) ==
    /\ sync[w].pc = "pull"
    /\ sync[w].ex.stage # "done"
    /\ sync' = [sync EXCEPT ![w].ex = ExportStep(node, @)]
    /\ UNCHANGED <<rows, node, prefs, saved, incoming>>

\* importBundle: the whole bundle in one transaction.
ImportBundle(w) ==
    LET objs == sync[w].ex.objs
    IN  /\ sync[w].pc = "pull"
        /\ sync[w].ex.stage = "done"
        /\ rows' = rows \union objs \union {SessionIn(o) : o \in objs}
        /\ sync' = [sync EXCEPT ![w].pc = "save"]
        /\ UNCHANGED <<node, prefs, saved, incoming>>

\* Mutant: the preference is keyed by the node alone.
SaveCursorForNode(w) ==
    /\ sync[w].pc = "save"
    /\ prefs' = [scope \in SyncScopes |-> sync[w].ex.cursor]
    /\ sync' = [sync EXCEPT ![w] = NoSync]
    /\ UNCHANGED <<rows, node, saved, incoming>>

\* edit().putLong(cursorKey, cursor).apply(): in memory now, on disk later.
SaveCursor(w) ==
    /\ sync[w].pc = "save"
    /\ prefs' = [prefs EXCEPT ![sync[w].ex.scope] = sync[w].ex.cursor]
    /\ sync' = [sync EXCEPT ![w] = NoSync]
    /\ UNCHANGED <<rows, node, saved, incoming>>

\* A request fails, or the bundle does not import: nothing is kept.
SyncFails(w) ==
    /\ sync[w].pc \in {"export", "push", "pull"}
    /\ sync' = [sync EXCEPT ![w] = NoSync]
    /\ UNCHANGED <<rows, node, prefs, saved, incoming>>

Flush ==
    /\ saved # prefs
    /\ saved' = prefs
    /\ UNCHANGED <<rows, node, prefs, sync, incoming>>

\* The app's process is killed: preferences not yet on disk are lost.
SyncKilled ==
    /\ prefs' = saved
    /\ sync' = [w \in Workers |-> NoSync]
    /\ UNCHANGED <<rows, node, saved, incoming>>

SyncStep(w) ==
    \/ Push(w) \/ Pushed(w) \/ NodeExport(w) \/ ImportBundle(w) \/ SaveCursor(w) \/ SyncFails(w)

NodeStep == Flush \/ \E w \in Workers, o \in Objects : NodeImport(w, o)

----------------------------------------------------------------------------
\* Every change of the node's up to a kept cursor, in that cursor's session, is
\* on the phone: "a failed import causes a safe replay on the next sync rather
\* than silently skipping data" (ShuFuSyncEngine.kt:35), whether a request
\* fails, the app is killed before the preferences are written, or the workers
\* of two activities save cursors in the other order.
CursorBacked ==
    \A scope \in SyncScopes : \A n \in 1 .. Len(node.changes) :
        (n <= prefs[scope] \/ n <= saved[scope]) /\ InScope(node.changes[n].entity, scope)
            => node.changes[n].entity \in rows
=============================================================================
