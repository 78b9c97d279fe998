---------------------------- MODULE MemoryStore ----------------------------
(***************************************************************************)
(* The durable rows of one ShuFu node (src/shufu/memory.py, MemoryStore).  *)
(*                                                                         *)
(* A store is the set of session, message and artifact rows it holds and   *)
(* its change log.  Rows are immutable and named by their primary key, so  *)
(* a row is its identifier; the entity's session is a function of it.      *)
(* "changes" is the AUTOINCREMENT table: the k-th element has seq = k.     *)
(* Every operator below is one SQLite transaction or one statement.        *)
(* session.updated_at and the artifact bytes are not kept here.            *)
(***************************************************************************)
EXTENDS Naturals, Sequences

CONSTANTS
    Nodes,       \* node_id values
    NoNode,      \* a NULL origin_node_id; "no node excluded" for an export
    Sessions,    \* session identifiers, chosen by users: two nodes may pick one
    NoSession,   \* session_id = None: the whole store
    Messages,    \* message identifiers, uuid4: one author each
    Artifacts,   \* artifact identifiers, uuid4: one author each
    SessionOf    \* the session_id column of a message or an artifact

Items == Messages \union Artifacts
Objects == Sessions \union Items

ASSUME StoreAssumption ==
    /\ NoNode \notin Nodes
    /\ NoSession \notin Sessions
    /\ Sessions \intersect Items = {}
    /\ Messages \intersect Artifacts = {}
    /\ SessionOf \in [Items -> Sessions]

Origins == Nodes \union {NoNode}
Scopes == Sessions \union {NoSession}
Change == [entity : Objects, origin : Origins]
Store == [rows : SUBSET Objects, changes : Seq(Change)]

EmptyStore == [rows |-> {}, changes |-> << >>]

SessionIn(o) == IF o \in Sessions THEN o ELSE SessionOf[o]

InScope(o, scope) == scope = NoSession \/ SessionIn(o) = scope

-----------------------------------------------------------------------------
(* Writing.                                                                *)

\* A mutant of Insert: the change is recorded whether or not the row was new.
InsertAlwaysLogged(st, o, origin) ==
    [rows |-> st.rows \union {o},
     changes |-> Append(st.changes, [entity |-> o, origin |-> origin])]

\* INSERT OR IGNORE of one row; the change is recorded in the same transaction
\* and only when the row was new (inserted.rowcount).
Insert(st, o, origin) ==
    IF o \in st.rows
    THEN st
    ELSE [rows |-> st.rows \union {o},
          changes |-> Append(st.changes, [entity |-> o, origin |-> origin])]

\* add_message and add_artifact_bytes commit ensure_session first, in a
\* transaction of its own, and the row itself afterwards.
SessionMissing(st, o) == SessionIn(o) \notin st.rows

EnsureSession(st, o, origin) == Insert(st, SessionIn(o), origin)

-----------------------------------------------------------------------------
(* Exporting: export_bundle is a series of autocommitted SELECTs, and other  *)
(* connections may commit between any two of them.                           *)

IsLastInScope(st, scope, k) ==
    /\ InScope(st.changes[k].entity, scope)
    /\ \A j \in (k + 1)..Len(st.changes) : ~InScope(st.changes[j].entity, scope)

\* A mutant of CurrentCursor: -1 for an empty log.
CurrentCursorMinusOne(st, scope) ==
    IF \E k \in 1..Len(st.changes) : IsLastInScope(st, scope, k)
    THEN CHOOSE k \in 1..Len(st.changes) : IsLastInScope(st, scope, k)
    ELSE 0 - 1

\* COALESCE(MAX(seq), 0), of the session's changes when a session is named.
CurrentCursor(st, scope) ==
    IF \E k \in 1..Len(st.changes) : IsLastInScope(st, scope, k)
    THEN CHOOSE k \in 1..Len(st.changes) : IsLastInScope(st, scope, k)
    ELSE 0

\* The change rows of an incremental export ...
ChangedIn(st, ex) ==
    {k \in 1..Len(st.changes) :
        /\ k > ex.after
        /\ k <= ex.cursor
        /\ ex.exclude # NoNode => st.changes[k].origin # ex.exclude
        /\ InScope(st.changes[k].entity, ex.scope)}

\* ... resolved back to full rows, with the sessions they belong to.
Delta(st, ex) ==
    LET changed == {st.changes[k].entity : k \in ChangedIn(st, ex)}
    IN  changed \union {SessionIn(o) : o \in changed}

RowsOf(st, kind, scope) == {o \in st.rows \intersect kind : InScope(o, scope)}

\* An export in progress; once its stage is "done" it is the bundle.
Stages == {"cursor", "changes", "sessions", "messages", "artifacts", "done"}
Export == [stage : Stages, after : Nat, cursor : Nat, scope : Scopes,
           exclude : Origins, objs : SUBSET Objects]

BeginExport(after, scope, exclude) ==
    [stage |-> "cursor", after |-> after, cursor |-> 0, scope |-> scope,
     exclude |-> exclude, objs |-> {}]

\* One statement of export_bundle.
ExportStep(st, ex) ==
    CASE ex.stage = "cursor" ->
            [ex EXCEPT !.cursor = CurrentCursor(st, ex.scope),
                       !.stage = IF ex.after > 0 \/ ex.exclude # NoNode
                                 THEN "changes" ELSE "sessions"]
      [] ex.stage = "changes" ->
            [ex EXCEPT !.objs = Delta(st, ex), !.stage = "done"]
      [] ex.stage = "sessions" ->
            [ex EXCEPT !.objs = RowsOf(st, Sessions, ex.scope), !.stage = "messages"]
      [] ex.stage = "messages" ->
            [ex EXCEPT !.objs = @ \union RowsOf(st, Messages, ex.scope),
                       !.stage = "artifacts"]
      [] OTHER ->
            [ex EXCEPT !.objs = @ \union RowsOf(st, Artifacts, ex.scope),
                       !.stage = "done"]

-----------------------------------------------------------------------------
(* Importing: import_bundle commits object by object, sessions first, then  *)
(* messages, then artifacts, and raises at the first bad artifact with the  *)
(* earlier objects already committed.                                       *)

\* The objects import_bundle may take next from those it has not reached yet.
Importable(todo) ==
    IF todo \intersect Sessions # {} THEN todo \intersect Sessions
    ELSE IF todo \intersect Messages # {} THEN todo \intersect Messages
    ELSE todo

\* One transaction of the import of o: its session when that is missing, then o.
ImportStep(st, o, origin) ==
    IF SessionMissing(st, o) THEN EnsureSession(st, o, origin)
    ELSE Insert(st, o, origin)

\* What is left to import after that transaction.
StillToImport(st, o, todo) ==
    IF o \in Items /\ SessionMissing(st, o) THEN todo ELSE todo \ {o}
=============================================================================
