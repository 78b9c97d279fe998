-------------------------- MODULE MemorySyncProofs --------------------------
(***************************************************************************)
(* For every set of nodes, objects, sync processes and request threads:    *)
(* the cursors of MemorySync never pass a change the other side lacks,     *)
(* provided all syncs use one --session argument (SameScope).              *)
(***************************************************************************)
EXTENDS MemorySyncInv, MemoryStoreProofs

SameScope == \A x, y \in SyncScopes : x = y

-----------------------------------------------------------------------------
(* What was true of the stores stays true when they grow.                   *)

Grown(S, T) == \A n \in Nodes : Extends(S[n], T[n])

LEMMA CoveredGrows ==
    ASSUME NEW S \in [Nodes -> Store], NEW T \in [Nodes -> Store], Grown(S, T),
           NEW n \in Nodes, NEW m \in Nodes, NEW cursor \in Nat,
           NEW scope, NEW pending,
           Covered(S, n, m, cursor, scope, pending)
    PROVE  Covered(T, n, m, cursor, scope, pending)
<1>1. /\ Len(S[n].changes) \in Nat
      /\ Len(T[n].changes) \in Nat
      /\ Len(S[n].changes) <= Len(T[n].changes)
      /\ \A k \in 1..Len(S[n].changes) : T[n].changes[k] = S[n].changes[k]
      /\ S[m].rows \subseteq T[m].rows
      /\ cursor <= Len(S[n].changes)
  BY DEF Grown, Extends, Store, Covered
<1>2. ASSUME NEW k \in 1..cursor
      PROVE  k \in 1..Len(S[n].changes)
  BY <1>1
<1>. QED
  BY <1>1, <1>2 DEF Covered

LEMMA ExportOkGrows ==
    ASSUME NEW S \in [Nodes -> Store], NEW T \in [Nodes -> Store], Grown(S, T),
           NEW n \in Nodes, NEW m \in Nodes, NEW ex \in Export,
           ExportOk(S, n, m, ex)
    PROVE  ExportOk(T, n, m, ex)
<1>1. /\ Len(S[n].changes) \in Nat
      /\ Len(T[n].changes) \in Nat
      /\ Len(S[n].changes) <= Len(T[n].changes)
      /\ \A k \in 1..Len(S[n].changes) : T[n].changes[k] = S[n].changes[k]
      /\ S[m].rows \subseteq T[m].rows
      /\ S[n].rows \subseteq T[n].rows
      /\ ex.cursor <= Len(S[n].changes)
      /\ ex.cursor \in Nat
  BY DEF Grown, Extends, Store, Export, ExportOk
<1>2. ASSUME NEW k \in 1..ex.cursor
      PROVE  k \in 1..Len(S[n].changes)
  BY <1>1
<1>. QED
  BY <1>1, <1>2 DEF ExportOk

LEMMA ClientOkGrows ==
    ASSUME NEW S \in [Nodes -> Store], NEW T \in [Nodes -> Store], Grown(S, T),
           NEW c \in Clients, NEW cl \in ClientState, ClientOk(S, c, cl)
    PROVE  ClientOk(T, c, cl)
<1>1. Home[c] \in Nodes /\ Remote[c] \in Nodes
  BY SyncAssumption
<1>2. /\ cl.seen.pushed \in Nat /\ cl.seen.pulled \in Nat
      /\ cl.row.pushed \in Nat /\ cl.row.pulled \in Nat
      /\ cl.ack \in Nat /\ cl.cursor \in Nat
      /\ cl.ex \in Export /\ cl.ex.after \in Nat
  BY DEF ClientState, Row, Export
<1>3. S[Remote[c]].rows \subseteq T[Remote[c]].rows
  BY <1>1 DEF Grown, Extends
<1>. QED
  BY <1>1, <1>2, <1>3, CoveredGrows, ExportOkGrows DEF ClientOk

LEMMA HandlerOkGrows ==
    ASSUME NEW S \in [Nodes -> Store], NEW T \in [Nodes -> Store], Grown(S, T),
           NEW hd \in HandlerState, HandlerOk(S, hd),
           hd.pc # "free" => hd.from \in Nodes /\ hd.to \in Nodes
    PROVE  HandlerOk(T, hd)
<1>. SUFFICES ASSUME hd.pc # "free" PROVE HandlerOk(T, hd)
  BY DEF HandlerOk
<1>1. hd.ex \in Export /\ hd.push \in Export /\ hd.push.cursor \in Nat
  BY DEF HandlerState, Export
<1>2. /\ hd.from \in Nodes
      /\ hd.to \in Nodes
      /\ S[hd.from].rows \subseteq T[hd.from].rows
  BY DEF HandlerOk, Grown, Extends
<1>. QED
  BY <1>1, <1>2, CoveredGrows, ExportOkGrows DEF HandlerOk

LEMMA CallerOkGrows ==
    ASSUME NEW S \in [Nodes -> Store], NEW T \in [Nodes -> Store], Grown(S, T),
           NEW c \in Clients, NEW cl, NEW hd \in HandlerState,
           CallerOk(S, c, cl, hd)
    PROVE  CallerOk(T, c, cl, hd)
<1>1. hd.ex.after \in Nat
  BY DEF HandlerState, Export
<1>2. Home[c] \in Nodes /\ Remote[c] \in Nodes
  BY SyncAssumption
<1>. QED
  BY <1>1, <1>2, CoveredGrows DEF CallerOk

LEMMA PeersOkGrows ==
    ASSUME NEW S \in [Nodes -> Store], NEW T \in [Nodes -> Store], Grown(S, T),
           NEW P \in [Nodes -> [Nodes -> Row]], PeersOk(S, P)
    PROVE  PeersOk(T, P)
<1>1. ASSUME NEW n \in Nodes, NEW m \in Nodes
      PROVE  P[n][m].pushed \in Nat /\ P[n][m].pulled \in Nat
  BY DEF Row
<1>. QED
  BY <1>1, CoveredGrows DEF PeersOk

-----------------------------------------------------------------------------
(* What one transaction or one statement does.                              *)

\* A node's store grows by rows that come with their sessions and, when they
\* are recorded as learned from a node, that this node has.
LEMMA StoreGrows ==
    ASSUME NEW S \in [Nodes -> Store], NEW n \in Nodes, NEW new,
           NEW objs, NEW origin \in Origins,
           StoreOk(S), OriginOk(S),
           GrownBy(S[n], new, objs, origin),
           \A o \in objs : o \in new.rows => SessionIn(o) \in new.rows,
           origin # NoNode => objs \subseteq S[origin].rows
    PROVE  LET T == [S EXCEPT ![n] = new]
           IN  /\ T \in [Nodes -> Store]
               /\ Grown(S, T)
               /\ StoreOk(T)
               /\ OriginOk(T)
<1> DEFINE T == [S EXCEPT ![n] = new]
<1>1. /\ T \in [Nodes -> Store]
      /\ T[n] = new
      /\ \A x \in Nodes : x # n => T[x] = S[x]
  BY DEF GrownBy
<1>2. /\ Extends(S[n], new)
      /\ new.rows \subseteq S[n].rows \union objs
      /\ \A k \in 1..Len(new.changes) :
            \/ k \in 1..Len(S[n].changes)
            \/ /\ new.changes[k].entity \in objs
               /\ new.changes[k].entity \in new.rows
               /\ new.changes[k].origin = origin
  BY DEF GrownBy
<1>3. Grown(S, T)
  <2>1. \A x \in Nodes : Extends(S[x], S[x])
    BY DEF Extends, Store
  <2>. QED
    BY <1>1, <1>2, <2>1 DEF Grown
<1>4. \A x \in Nodes : S[x].rows \subseteq T[x].rows
  BY <1>3 DEF Grown, Extends
<1>5. StoreOk(T)
  <2> SUFFICES ASSUME NEW x \in Nodes
               PROVE  /\ \A k \in 1..Len(T[x].changes) : T[x].changes[k].entity \in T[x].rows
                      /\ \A o \in T[x].rows : SessionIn(o) \in T[x].rows
    BY DEF StoreOk
  <2>1. CASE x # n
    BY <1>1, <2>1 DEF StoreOk
  <2>2. CASE x = n
    <3>1. \A k \in 1..Len(new.changes) : new.changes[k].entity \in new.rows
      BY <1>2 DEF StoreOk, Extends
    <3>2. \A o \in new.rows : SessionIn(o) \in new.rows
      BY <1>2 DEF StoreOk, Extends
    <3>. QED
      BY <1>1, <2>2, <3>1, <3>2
  <2>. QED
    BY <2>1, <2>2
<1>6. OriginOk(T)
  <2> SUFFICES ASSUME NEW x \in Nodes, NEW k \in 1..Len(T[x].changes),
                      T[x].changes[k].origin # NoNode
               PROVE  T[x].changes[k].entity \in T[T[x].changes[k].origin].rows
    BY DEF OriginOk
  <2>1. CASE T[x].changes[k] = S[x].changes[k] /\ k \in 1..Len(S[x].changes)
    <3>1. S[x].changes[k] \in Change
      BY <2>1 DEF Store
    <3>2. S[x].changes[k].origin \in Nodes
      BY <2>1, <3>1 DEF Change, Origins
    <3>3. S[x].changes[k].entity \in S[S[x].changes[k].origin].rows
      BY <2>1 DEF OriginOk
    <3>. QED
      BY <1>4, <2>1, <3>2, <3>3
  <2>2. CASE ~(T[x].changes[k] = S[x].changes[k] /\ k \in 1..Len(S[x].changes))
    <3>1. x = n /\ k \notin 1..Len(S[n].changes)
      BY <1>1, <1>2, <2>2 DEF Extends
    <3>2. T[x].changes[k].entity \in objs /\ T[x].changes[k].origin = origin
      BY <1>1, <1>2, <3>1
    <3>3. origin \in Nodes
      BY <3>2 DEF Origins
    <3>. QED
      BY <1>4, <3>2, <3>3
  <2>. QED
    BY <2>1, <2>2
<1>. QED
  BY <1>1, <1>3, <1>5, <1>6

\* One transaction of an import of o, which the sender has.
LEMMA InsertGrows ==
    ASSUME NEW S \in [Nodes -> Store], NEW n \in Nodes, NEW o \in Objects,
           SessionIn(o) \in S[n].rows \union {o}, StoreOk(S), OriginOk(S)
    PROVE  LET T == [S EXCEPT ![n] = Insert(@, o, NoNode)]
           IN  /\ T \in [Nodes -> Store]
               /\ Grown(S, T)
               /\ StoreOk(T)
               /\ OriginOk(T)
<1> DEFINE new == Insert(S[n], o, NoNode)
           objs == {o}
<1>1. NoNode \in Origins
  BY DEF Origins
<1>2. GrownBy(S[n], new, objs, NoNode) /\ o \in new.rows
  BY <1>1, InsertProperties
<1>3. \A x \in objs : x \in new.rows => SessionIn(x) \in new.rows
  BY <1>2 DEF GrownBy, Extends
<1>4. NoNode # NoNode => objs \subseteq S[NoNode].rows
  OBVIOUS
<1>. HIDE DEF new, objs
<1>. QED
  BY <1>1, <1>2, <1>3, <1>4, StoreGrows DEF new

LEMMA ImportGrows ==
    ASSUME NEW S \in [Nodes -> Store], NEW n \in Nodes, NEW from \in Nodes,
           NEW o \in S[from].rows, StoreOk(S), OriginOk(S)
    PROVE  LET T == [S EXCEPT ![n] = ImportStep(@, o, from)]
           IN  /\ T \in [Nodes -> Store]
               /\ Grown(S, T)
               /\ StoreOk(T)
               /\ OriginOk(T)
<1> DEFINE new == ImportStep(S[n], o, from)
           objs == {o, SessionIn(o)}
<1>1. o \in Objects /\ from \in Origins /\ from # NoNode
  BY StoreAssumption DEF Store, Origins
<1>2. SessionIn(o) \in S[from].rows
  BY DEF StoreOk
<1>3. /\ GrownBy(S[n], new, objs, from)
      /\ SessionIn(o) \in new.rows
  BY <1>1, ImportStepProperties
<1>4. SessionIn(SessionIn(o)) = SessionIn(o)
  BY <1>1, SessionInType DEF SessionIn
<1>5. \A x \in objs : x \in new.rows => SessionIn(x) \in new.rows
  BY <1>3, <1>4
<1>6. objs \subseteq S[from].rows
  BY <1>2
<1>. HIDE DEF new, objs
<1>. QED
  BY <1>1, <1>3, <1>5, <1>6, StoreGrows DEF new

\* What was covered by the objects still to import is covered afterwards.
LEMMA ImportCovers ==
    ASSUME NEW S \in [Nodes -> Store], NEW n \in Nodes, NEW m \in Nodes,
           NEW from \in Nodes, NEW o \in S[from].rows, StoreOk(S), OriginOk(S),
           NEW cursor \in Nat, NEW scope, NEW todo,
           Covered(S, n, m, cursor, scope, todo)
    PROVE  Covered([S EXCEPT ![m] = ImportStep(@, o, from)], n, m, cursor, scope,
                   StillToImport(S[m], o, todo))
<1> DEFINE T == [S EXCEPT ![m] = ImportStep(@, o, from)]
<1>1. o \in Objects /\ from \in Origins
  BY DEF Store, Origins
<1>2. T \in [Nodes -> Store] /\ Grown(S, T)
  BY ImportGrows
<1>3. Covered(T, n, m, cursor, scope, todo)
  BY <1>2, CoveredGrows
<1>4. \/ o \in T[m].rows
      \/ o \in Items /\ SessionMissing(S[m], o)
  BY <1>1, ImportStepProperties
<1>5. \A x \in todo : x \in StillToImport(S[m], o, todo) \/ x \in T[m].rows
  BY <1>4 DEF StillToImport
<1>. HIDE DEF T
<1>6. Covered(T, n, m, cursor, scope, StillToImport(S[m], o, todo))
  BY <1>3, <1>5 DEF Covered
<1>. QED
  BY <1>6 DEF T

LEMMA StillToImportSubset ==
    ASSUME NEW st, NEW o, NEW todo
    PROVE  StillToImport(st, o, todo) \subseteq todo
BY DEF StillToImport

\* Every statement of an export keeps its debt to its cursor, whatever was
\* committed between the statements.
LEMMA ExportStepOk ==
    ASSUME NEW S \in [Nodes -> Store], StoreOk(S), OriginOk(S),
           NEW n \in Nodes, NEW m \in Nodes, NEW ex \in Export,
           ExportOk(S, n, m, ex)
    PROVE  ExportOk(S, n, m, ExportStep(S[n], ex))
<1> DEFINE log == S[n].changes
           next == ExportStep(S[n], ex)
<1>1. /\ Len(log) \in Nat
      /\ \A k \in 1..Len(log) :
            /\ log[k].entity \in Objects
            /\ log[k].entity \in S[n].rows
            /\ SessionIn(log[k].entity) \in S[n].rows
  BY StoreFields DEF StoreOk
<1>2. /\ ex.exclude \in {NoNode, m}
      /\ ex.objs \subseteq S[n].rows
      /\ ex.cursor \in Nat
      /\ ex.cursor <= Len(log)
      /\ ex.stage \in Stages
  BY DEF ExportOk, Export
<1>3. CASE ex.stage = "cursor"
  <2>1. /\ next.objs = ex.objs
        /\ next.exclude = ex.exclude
        /\ next.cursor = CurrentCursor(S[n], ex.scope)
        /\ next.stage \in {"changes", "sessions"}
    <3> DEFINE stage == IF ex.after > 0 \/ ex.exclude # NoNode
                        THEN "changes" ELSE "sessions"
    <3>1. next = [ex EXCEPT !.cursor = CurrentCursor(S[n], ex.scope), !.stage = stage]
      BY <1>3 DEF ExportStep
    <3>2. stage \in {"changes", "sessions"}
      OBVIOUS
    <3>. HIDE DEF stage, next
    <3>. QED
      BY <3>1, <3>2 DEF Export
  <2>2. next.cursor <= Len(log)
    BY <2>1, CurrentCursorType
  <2>3. Read(next.stage) = {}
    BY <2>1 DEF Read
  <2>. QED
    BY <1>2, <2>1, <2>2, <2>3 DEF ExportOk
<1>4. CASE ex.stage = "changes"
  <2>1. /\ next.objs = Delta(S[n], ex)
        /\ next.exclude = ex.exclude
        /\ next.cursor = ex.cursor
        /\ next.after = ex.after
        /\ next.scope = ex.scope
    BY <1>4 DEF ExportStep, Export
  <2>2. Delta(S[n], ex) \subseteq S[n].rows
    BY <1>1 DEF Delta, ChangedIn
  <2>3. ASSUME NEW k \in 1..ex.cursor, k > ex.after, InScope(log[k].entity, ex.scope)
        PROVE  log[k].entity \in Delta(S[n], ex) \union S[m].rows
    <3>1. k \in 1..Len(log)
      BY <1>1, <1>2
    <3>2. CASE ex.exclude # NoNode /\ log[k].origin = ex.exclude
      BY <1>2, <3>1, <3>2 DEF OriginOk
    <3>3. CASE ~(ex.exclude # NoNode /\ log[k].origin = ex.exclude)
      <4>1. k \in ChangedIn(S[n], ex)
        BY <2>3, <3>1, <3>3 DEF ChangedIn
      <4>. QED
        BY <4>1 DEF Delta
    <3>. QED
      BY <3>2, <3>3
  <2>. QED
    BY <1>2, <2>1, <2>2, <2>3 DEF ExportOk
<1>5. CASE ex.stage \in {"sessions", "messages", "artifacts", "done"}
  <2> DEFINE kind == IF ex.stage = "sessions" THEN Sessions
                     ELSE IF ex.stage = "messages" THEN Messages ELSE Artifacts
  <2>1. /\ next.objs \subseteq ex.objs \union RowsOf(S[n], kind, ex.scope)
        /\ RowsOf(S[n], kind, ex.scope) \subseteq next.objs
        /\ ex.stage # "sessions" => ex.objs \subseteq next.objs
        /\ next.exclude = ex.exclude
        /\ next.cursor = ex.cursor
        /\ next.after = ex.after
        /\ next.scope = ex.scope
    BY <1>5 DEF ExportStep, Export
  <2>2. RowsOf(S[n], kind, ex.scope) \subseteq S[n].rows
    BY DEF RowsOf
  <2>3. Read(next.stage) \subseteq
           kind \union (IF ex.stage = "sessions" THEN {} ELSE Read(ex.stage))
    BY <1>5 DEF Read, ExportStep, Export, Objects, Items
  <2>4. ASSUME NEW k \in 1..ex.cursor, k > ex.after, InScope(log[k].entity, ex.scope),
               log[k].entity \in Read(next.stage)
        PROVE  log[k].entity \in next.objs \union S[m].rows
    <3>1. k \in 1..Len(log)
      BY <1>1, <1>2
    <3>2. CASE log[k].entity \in kind
      <4>1. log[k].entity \in RowsOf(S[n], kind, ex.scope)
        BY <1>1, <2>4, <3>1, <3>2 DEF RowsOf
      <4>. QED
        BY <2>1, <4>1
    <3>3. CASE log[k].entity \notin kind
      <4>1. log[k].entity \in Read(ex.stage) /\ ex.stage # "sessions"
        BY <2>3, <2>4, <3>3
      <4>2. log[k].entity \in ex.objs \union S[m].rows
        BY <2>4, <4>1 DEF ExportOk
      <4>. QED
        BY <2>1, <4>1, <4>2
    <3>. QED
      BY <3>2, <3>3
  <2>5. next.objs \subseteq S[n].rows
    BY <1>2, <2>1, <2>2
  <2>6. /\ next.exclude \in {NoNode, m}
        /\ next.cursor <= Len(log)
    BY <1>2, <2>1
  <2>7. next.after = ex.after /\ next.scope = ex.scope /\ next.cursor = ex.cursor
    BY <2>1
  <2>. HIDE DEF next, kind
  <2>. QED
    BY <2>4, <2>5, <2>6, <2>7 DEF ExportOk, next
<1>. QED
  BY <1>2, <1>3, <1>4, <1>5 DEF Stages

-----------------------------------------------------------------------------
(* Type correctness.                                                        *)

\* The first values have their types.
LEMMA InitialValues ==
    /\ EmptyStore \in Store
    /\ NoRow \in Row
    /\ NoExport \in Export
    /\ IdleClient \in ClientState
    /\ FreeHandler \in HandlerState
<1>1. NoNode \in Origins /\ NoSession \in Scopes
  BY DEF Origins, Scopes
<1>2. NoExport \in Export
  BY <1>1, BeginExportType DEF NoExport
<1>3. EmptyStore \in Store
  BY DEF EmptyStore, Store
<1>4. NoRow \in Row
  BY DEF NoRow, Row
<1>. QED
  BY <1>1, <1>2, <1>3, <1>4
     DEF IdleClient, ClientState, ClientStages, FreeHandler, HandlerState,
         HandlerStages, Kinds

\* The nodes at the ends of a sync.
LEMMA EndsType ==
    ASSUME NEW c \in Clients
    PROVE  /\ Home[c] \in Nodes /\ Home[c] \in Origins
           /\ Remote[c] \in Nodes /\ Remote[c] \in Origins
BY SyncAssumption DEF Origins

\* The steps that only change one process's local variables.
LEMMA TypeClientStep ==
    ASSUME TypeOK, NEW c \in Clients,
           \/ \E d \in Directions, scope \in SyncScopes : BeginSync(c, d, scope)
           \/ ExportForPeer(c) \/ ClientExport(c) \/ ReadPeerRow(c)
           \/ ClientImported(c)
    PROVE  TypeOK'
<1> DEFINE cl == client[c]
           n == Home[c]
           m == Remote[c]
<1>1. /\ cl \in ClientState
      /\ client \in [Clients -> ClientState]
      /\ n \in Nodes /\ m \in Nodes /\ m \in Origins
      /\ peers[n][m] \in Row
      /\ store[n] \in Store
  BY EndsType DEF TypeOK
<1>2. /\ cl.scope \in Scopes
      /\ cl.ex \in Export
      /\ peers[n][m].pushed \in Nat
  BY <1>1 DEF ClientState, Row
<1> SUFFICES client' \in [Clients -> ClientState]
  BY DEF TypeOK, BeginSync, ExportForPeer, ClientExport, ReadPeerRow, ClientImported
<1>3. ASSUME NEW d \in Directions, NEW scope \in SyncScopes, BeginSync(c, d, scope)
      PROVE  client' \in [Clients -> ClientState]
  <2>1. /\ scope \in Scopes
        /\ d \in {"push", "pull", "both", "v2push", "v2pull"}
        /\ 0 \in Nat /\ NoNode \in Origins
    BY SyncAssumption DEF Origins
  <2>2. BeginExport(0, scope, NoNode) \in Export
    BY <2>1, BeginExportType
  <2>. QED
    BY <1>1, <1>3, <2>1, <2>2, InitialValues DEF BeginSync, ClientState, ClientStages
<1>4. CASE ExportForPeer(c)
  <2>1. BeginExport(peers[n][m].pushed, cl.scope, m) \in Export
    BY <1>1, <1>2, BeginExportType
  <2>. QED
    BY <1>1, <1>4, <2>1 DEF ExportForPeer, ClientState, ClientStages
<1>5. CASE ClientExport(c)
  <2>1. ExportStep(store[n], cl.ex) \in Export
    BY <1>1, <1>2, ExportStepType
  <2>. QED
    BY <1>1, <1>5, <2>1 DEF ClientExport, ClientState, ClientStages
<1>6. CASE ReadPeerRow(c)
  BY <1>1, <1>6 DEF ReadPeerRow, ClientState, ClientStages
<1>7. CASE ClientImported(c)
  BY <1>1, <1>7, InitialValues DEF ClientImported, ClientState, ClientStages
<1>. QED
  BY <1>3, <1>4, <1>5, <1>6, <1>7

LEMMA TypeWriteRow ==
    ASSUME TypeOK, NEW c \in Clients, WritePushed(c) \/ WritePulled(c)
    PROVE  TypeOK'
<1> DEFINE cl == client[c]
<1>1. /\ cl \in ClientState
      /\ cl.row.pushed \in Nat /\ cl.row.pulled \in Nat
      /\ cl.ack \in Nat /\ cl.cursor \in Nat
      /\ Home[c] \in Nodes /\ Remote[c] \in Nodes
  BY EndsType DEF TypeOK, ClientState, Row
<1>2. /\ [pushed |-> Larger(cl.row.pushed, cl.ack), pulled |-> cl.row.pulled] \in Row
      /\ [pushed |-> cl.row.pushed, pulled |-> Larger(cl.row.pulled, cl.cursor)] \in Row
  BY <1>1 DEF Larger, Row
<1>3. peers' \in [Nodes -> [Nodes -> Row]]
  <2>1. PICK row \in Row : peers' = [peers EXCEPT ![Home[c]][Remote[c]] = row]
    BY <1>2 DEF WritePushed, WritePulled
  <2>. QED
    BY <1>1, <2>1 DEF TypeOK
<1>4. [cl EXCEPT !.pc = "import", !.row = NoRow] \in ClientState
  BY <1>1, InitialValues DEF ClientState, ClientStages
<1>5. client' \in [Clients -> ClientState]
  BY <1>4, InitialValues DEF TypeOK, WritePushed, WritePulled
<1>. QED
  BY <1>3, <1>5 DEF TypeOK, WritePushed, WritePulled

\* The import of one object, by a process or a thread.
LEMMA TypeImport ==
    ASSUME TypeOK, NEW n \in Nodes, NEW o \in Objects, NEW origin \in Origins
    PROVE  /\ [store EXCEPT ![n] = ImportStep(@, o, origin)] \in [Nodes -> Store]
           /\ [store EXCEPT ![n] = Insert(@, o, origin)] \in [Nodes -> Store]
<1>1. store \in [Nodes -> Store]
  BY DEF TypeOK
<1>2. ImportStep(store[n], o, origin) \in Store /\ Insert(store[n], o, origin) \in Store
  BY <1>1, ImportStepProperties, InsertProperties DEF GrownBy
<1>. QED
  BY <1>1, <1>2

LEMMA TypeClientImport ==
    ASSUME TypeOK, NEW c \in Clients, NEW o \in Objects, ClientImport(c, o)
    PROVE  TypeOK'
<1>1. store' \in [Nodes -> Store]
  BY TypeImport, EndsType DEF ClientImport
<1>2. client[c] \in ClientState /\ client[c].todo \in SUBSET Objects
  BY DEF TypeOK, ClientState
<1>3. StillToImport(store[Home[c]], o, client[c].todo) \in SUBSET Objects
  BY <1>2, StillToImportSubset
<1>4. client' \in [Clients -> ClientState]
  BY <1>2, <1>3 DEF TypeOK, ClientImport, ClientState
<1>. QED
  BY <1>1, <1>4 DEF TypeOK, ClientImport

LEMMA TypeUser ==
    ASSUME TypeOK, NEW i \in Items, OpenSession(i) \/ AddItem(i)
    PROVE  TypeOK'
<1>1. /\ AuthorOf[i] \in Nodes
      /\ i \in Objects
      /\ SessionIn(i) \in Objects
      /\ NoNode \in Origins
  BY SyncAssumption, SessionInType, SessionsAreObjects DEF Objects, Origins
<1>2. store' \in [Nodes -> Store]
  BY <1>1, TypeImport DEF OpenSession, AddItem, EnsureSession
<1>. QED
  BY <1>2 DEF TypeOK, OpenSession, AddItem

LEMMA TypeSend ==
    ASSUME TypeOK, NEW c \in Clients, NEW h \in Handlers, SendRequest(c, h)
    PROVE  TypeOK'
<1> DEFINE cl == client[c]
<1>1. /\ cl \in ClientState
      /\ cl.scope \in Scopes
      /\ cl.seen.pushed \in Nat /\ cl.seen.pulled \in Nat
      /\ cl.ex \in Export
      /\ cl.ex.objs \in SUBSET Objects
      /\ cl.dir \in {"push", "pull", "both", "v2push", "v2pull"}
  BY DEF TypeOK, ClientState, Row, Export
<1>2. client' \in [Clients -> ClientState]
  BY <1>1, InitialValues DEF TypeOK, SendRequest, ClientState, ClientStages
<1>3. PICK after \in Nat : handler' = [handler EXCEPT ![h] =
          [pc |-> IF KindOf(cl.dir) = "import" THEN "importing" ELSE "check",
           kind |-> KindOf(cl.dir), caller |-> c, from |-> Home[c], to |-> Remote[c],
           pushAfter |-> cl.seen.pushed, push |-> cl.ex,
           ex |-> BeginExport(after, cl.scope,
                      IF KindOf(cl.dir) = "exchange" THEN Home[c] ELSE NoNode),
           todo |-> IF KindOf(cl.dir) = "pull" THEN {} ELSE cl.ex.objs]]
  BY <1>1, SyncAssumption DEF SendRequest
<1>4. /\ KindOf(cl.dir) \in Kinds
      /\ NoNode \in Origins
  BY DEF KindOf, Kinds, Origins
<1>5. BeginExport(after, cl.scope,
          IF KindOf(cl.dir) = "exchange" THEN Home[c] ELSE NoNode) \in Export
  BY <1>1, <1>4, EndsType, BeginExportType
<1>6. handler'[h] \in HandlerState
  BY <1>1, <1>3, <1>4, <1>5, EndsType DEF TypeOK, HandlerState, HandlerStages
<1>7. handler' \in [Handlers -> HandlerState]
  BY <1>3, <1>6 DEF TypeOK
<1>. QED
  BY <1>2, <1>7 DEF TypeOK, SendRequest

LEMMA TypeReply ==
    ASSUME TypeOK, NEW h \in Handlers, HandlerReply(h)
    PROVE  TypeOK'
<1> DEFINE c == handler[h].caller
<1>1. /\ handler[h] \in HandlerState
      /\ c \in Clients \union {NoClient}
      /\ handler[h].push.cursor \in Nat
      /\ handler[h].ex.cursor \in Nat
      /\ handler[h].ex.objs \in SUBSET Objects
  BY DEF TypeOK, HandlerState, Export
<1>2. ASSUME c \in Clients
      PROVE  Receive(c, h) \in ClientState
  <2>1. client[c] \in ClientState
    BY <1>2 DEF TypeOK
  <2>. QED
    BY <1>1, <2>1, InitialValues DEF Receive, ClientState, ClientStages
<1>3. client' \in [Clients -> ClientState]
  BY <1>1, <1>2 DEF TypeOK, HandlerReply
<1>4. handler' \in [Handlers -> HandlerState]
  BY InitialValues DEF TypeOK, HandlerReply
<1>. QED
  BY <1>3, <1>4 DEF TypeOK, HandlerReply

LEMMA TypeHandlerStep ==
    ASSUME TypeOK, ThreadEnds, NEW h \in Handlers,
           \/ HandlerCheck(h) \/ HandlerExport(h)
           \/ \E o \in Objects : HandlerImport(h, o)
           \/ HandlerFail(h)
    PROVE  TypeOK'
<1>1. /\ handler[h] \in HandlerState
      /\ handler[h].ex \in Export
      /\ handler[h].todo \in SUBSET Objects
      /\ handler[h].from \in Origins
      /\ handler[h].caller \in Clients \union {NoClient}
  BY DEF TypeOK, HandlerState
<1>2. \A c \in Clients : Error(c) \in [Clients -> ClientState]
  BY InitialValues DEF TypeOK, Error
<1>3. CASE HandlerCheck(h)
  <2>1. [handler[h] EXCEPT !.pc = "exporting"] \in HandlerState
    BY <1>1 DEF HandlerState, HandlerStages
  <2>2. handler' \in [Handlers -> HandlerState]
    BY <1>3, <2>1, InitialValues DEF TypeOK, HandlerCheck
  <2>3. client' \in [Clients -> ClientState]
    BY <1>1, <1>2, <1>3 DEF TypeOK, HandlerCheck
  <2>. QED
    BY <1>3, <2>2, <2>3 DEF TypeOK, HandlerCheck
<1>4. CASE HandlerExport(h) /\ handler[h].to \in Nodes
  <2>1. ExportStep(store[handler[h].to], handler[h].ex) \in Export
    BY <1>1, <1>4, ExportStepType DEF TypeOK
  <2>2. handler' \in [Handlers -> HandlerState]
    BY <1>1, <1>4, <2>1 DEF TypeOK, HandlerExport, HandlerState, HandlerStages
  <2>. QED
    BY <1>4, <2>2 DEF TypeOK, HandlerExport
<1>5. ASSUME NEW o \in Objects, HandlerImport(h, o), handler[h].to \in Nodes
      PROVE  TypeOK'
  <2>1. store' \in [Nodes -> Store]
    BY <1>1, <1>5, TypeImport DEF HandlerImport
  <2>2. StillToImport(store[handler[h].to], o, handler[h].todo) \in SUBSET Objects
    BY <1>1, StillToImportSubset
  <2>3. handler' \in [Handlers -> HandlerState]
    BY <1>1, <1>5, <2>2 DEF TypeOK, HandlerImport, HandlerState
  <2>. QED
    BY <1>5, <2>1, <2>3 DEF TypeOK, HandlerImport
<1>6. CASE HandlerFail(h)
  <2>1. client' \in [Clients -> ClientState]
    BY <1>1, <1>2, <1>6 DEF TypeOK, HandlerFail
  <2>2. handler' \in [Handlers -> HandlerState]
    BY <1>6, InitialValues DEF TypeOK, HandlerFail
  <2>3. failures' \in 0..MaxFailures
    BY <1>6, SyncAssumption DEF TypeOK, HandlerFail
  <2>. QED
    BY <1>6, <2>1, <2>2, <2>3 DEF TypeOK, HandlerFail
<1>7. handler[h].pc # "free" => handler[h].to \in Nodes
  BY DEF ThreadEnds
<1>. QED
  BY <1>3, <1>4, <1>5, <1>6, <1>7 DEF HandlerExport, HandlerImport

LEMMA TypeClientFail ==
    ASSUME TypeOK, NEW c \in Clients, ClientFail(c)
    PROVE  TypeOK'
<1>1. client' \in [Clients -> ClientState]
  BY InitialValues DEF TypeOK, ClientFail, Error
<1>2. ASSUME NEW h \in Handlers
      PROVE  [handler[h] EXCEPT !.caller = NoClient] \in HandlerState
  BY DEF TypeOK, HandlerState
<1>3. handler' \in [Handlers -> HandlerState]
  BY <1>2 DEF TypeOK, ClientFail
<1>4. failures' \in 0..MaxFailures
  BY SyncAssumption DEF TypeOK, ClientFail
<1>. QED
  BY <1>1, <1>3, <1>4 DEF TypeOK, ClientFail

LEMMA ThreadEndsStep ==
    ASSUME TypeOK, ThreadEnds, [Next]_vars
    PROVE  ThreadEnds'
<1> SUFFICES ASSUME NEW g \in Handlers, handler'[g].pc # "free"
             PROVE  handler'[g].from \in Nodes /\ handler'[g].to \in Nodes
  BY DEF ThreadEnds
<1>1. /\ handler \in [Handlers -> HandlerState]
      /\ handler[g] \in HandlerState
      /\ handler[g].pc # "free" => handler[g].from \in Nodes /\ handler[g].to \in Nodes
  BY DEF TypeOK, ThreadEnds
<1>2. CASE handler'[g] = handler[g]
  BY <1>1, <1>2
<1>3. ASSUME NEW c \in Clients, NEW h \in Handlers, SendRequest(c, h)
      PROVE  \/ handler'[g] = handler[g]
             \/ handler'[g].from \in Nodes /\ handler'[g].to \in Nodes
  BY <1>1, <1>3, EndsType DEF SendRequest
<1>4. ASSUME NEW h \in Handlers, HandlerStep(h) \/ HandlerFail(h)
      PROVE  \/ handler'[g] = handler[g]
             \/ handler'[g].pc = "free"
             \/ /\ handler[g].pc # "free"
                /\ handler'[g].from = handler[g].from
                /\ handler'[g].to = handler[g].to
  BY <1>1, <1>4
     DEF HandlerStep, HandlerFail, HandlerCheck, HandlerExport, HandlerImport,
         HandlerReply, HandlerState, FreeHandler
<1>5. ASSUME NEW c \in Clients, ClientFail(c)
      PROVE  /\ handler'[g].pc = handler[g].pc
             /\ handler'[g].from = handler[g].from
             /\ handler'[g].to = handler[g].to
  BY <1>1, <1>5 DEF ClientFail, HandlerState
<1>6. \/ UNCHANGED handler
      \/ \E c \in Clients, h \in Handlers : SendRequest(c, h)
      \/ \E h \in Handlers : HandlerStep(h) \/ HandlerFail(h)
      \/ \E c \in Clients : ClientFail(c)
  BY DEF Next, vars, ClientStep, OpenSession, AddItem, BeginSync, ExportForPeer,
         ClientExport, ReadPeerRow, WritePushed, ClientImport, ClientImported,
         WritePulled
<1>. QED
  BY <1>1, <1>2, <1>3, <1>4, <1>5, <1>6

\* Every step keeps the types.
LEMMA TypeStep ==
    ASSUME TypeOK, ThreadEnds, [Next]_vars
    PROVE  TypeOK'
<1>1. ASSUME NEW i \in Items, OpenSession(i) \/ AddItem(i)
      PROVE  TypeOK'
  BY <1>1, TypeUser
<1>2. ASSUME NEW c \in Clients, NEW d \in Directions, NEW scope \in SyncScopes,
             BeginSync(c, d, scope)
      PROVE  TypeOK'
  BY <1>2, TypeClientStep
<1>3. ASSUME NEW c \in Clients, ClientStep(c)
      PROVE  TypeOK'
  BY <1>3, TypeClientStep, TypeSend, TypeWriteRow, TypeClientImport DEF ClientStep
<1>4. ASSUME NEW c \in Clients, ClientFail(c)
      PROVE  TypeOK'
  BY <1>4, TypeClientFail
<1>5. ASSUME NEW h \in Handlers, HandlerStep(h) \/ HandlerFail(h)
      PROVE  TypeOK'
  BY <1>5, TypeHandlerStep, TypeReply DEF HandlerStep
<1>6. CASE UNCHANGED vars
  BY <1>6 DEF vars, TypeOK
<1>. QED
  BY <1>1, <1>2, <1>3, <1>4, <1>5, <1>6 DEF Next

\* Every state of every behavior has its type, for any number of nodes, users,
\* processes and threads.
THEOREM TypeCorrect == Spec => []TypeOK
<1>1. Init => TypeOK /\ ThreadEnds
  BY InitialValues, SyncAssumption DEF Init, TypeOK, ThreadEnds, FreeHandler
<1>2. TypeOK /\ ThreadEnds /\ [Next]_vars => (TypeOK /\ ThreadEnds)'
  BY TypeStep, ThreadEndsStep
<1>. QED
  BY <1>1, <1>2, PTL DEF Spec

-----------------------------------------------------------------------------
(* The inductive invariant: what a step does not touch keeps its part of it. *)

\* Everything local that a step leaves alone still owes no more than before.
LEMMA Frame ==
    ASSUME IInv, TypeOK', Grown(store, store')
    PROVE  /\ \A c \in Clients : ClientOk(store', c, client[c])
           /\ \A h \in Handlers : HandlerOk(store', handler[h])
           /\ \A c \in Clients, h \in Handlers :
                 CallerOk(store', c, client[c], handler[h])
           /\ PeersOk(store', peers)
<1>1. /\ store \in [Nodes -> Store]
      /\ store' \in [Nodes -> Store]
      /\ peers \in [Nodes -> [Nodes -> Row]]
      /\ \A c \in Clients : client[c] \in ClientState
      /\ \A h \in Handlers : handler[h] \in HandlerState
  BY DEF IInv, TypeOK
<1>2. \A h \in Handlers : handler[h].pc # "free" =>
          handler[h].from \in Nodes /\ handler[h].to \in Nodes
  BY DEF IInv, ThreadEnds
<1>3. \A c \in Clients : ClientOk(store', c, client[c])
  BY <1>1, ClientOkGrows DEF IInv
<1>4. \A h \in Handlers : HandlerOk(store', handler[h])
  BY <1>1, <1>2, HandlerOkGrows DEF IInv
<1>5. \A c \in Clients, h \in Handlers :
          CallerOk(store', c, client[c], handler[h])
  BY <1>1, CallerOkGrows DEF IInv
<1>6. PeersOk(store', peers)
  BY <1>1, PeersOkGrows DEF IInv
<1>. QED
  BY <1>3, <1>4, <1>5, <1>6

LEMMA SameStores ==
    ASSUME TypeOK
    PROVE  Grown(store, store)
<1>1. store \in [Nodes -> Store]
  BY DEF TypeOK
<1>2. \A n \in Nodes : Extends(store[n], store[n])
  BY <1>1 DEF Extends, Store
<1>. QED
  BY <1>2 DEF Grown

\* A step of a process that waits for nobody.
LEMMA ClientLocal ==
    ASSUME IInv, TypeOK', ThreadEnds', NEW c \in Clients,
           client[c].pc # "wait",
           \A d \in Clients : d # c => client'[d] = client[d],
           handler' = handler,
           Grown(store, store'), StoreOk(store'), OriginOk(store'),
           PeersOk(store', peers'),
           ClientOk(store', c, client'[c])
    PROVE  IInv'
<1>1. \A h \in Handlers : handler[h].caller # c
  BY DEF IInv, CallerOk
<1>2. \A d \in Clients : ClientOk(store', d, client'[d])
  BY Frame
<1>3. \A h \in Handlers : HandlerOk(store', handler'[h])
  BY Frame
<1>4. \A d \in Clients, h \in Handlers :
          CallerOk(store', d, client'[d], handler'[h])
  <2> SUFFICES ASSUME NEW d \in Clients, NEW h \in Handlers
               PROVE  CallerOk(store', d, client'[d], handler'[h])
    OBVIOUS
  <2>1. CASE d = c
    BY <1>1, <2>1 DEF CallerOk
  <2>2. CASE d # c
    BY <2>2, Frame
  <2>. QED
    BY <2>1, <2>2
<1>5. OneCaller'
  BY DEF IInv, OneCaller
<1>. QED
  BY <1>2, <1>3, <1>4, <1>5 DEF IInv

\* A step of a thread that is not its last.
LEMMA HandlerLocal ==
    ASSUME IInv, TypeOK', ThreadEnds', NEW h \in Handlers,
           \A g \in Handlers : g # h => handler'[g] = handler[g],
           handler'[h].caller = handler[h].caller,
           client' = client, peers' = peers,
           Grown(store, store'), StoreOk(store'), OriginOk(store'),
           HandlerOk(store', handler'[h]),
           \A d \in Clients : CallerOk(store', d, client[d], handler'[h])
    PROVE  IInv'
<1>1. \A d \in Clients : ClientOk(store', d, client'[d])
  BY Frame
<1>2. \A g \in Handlers : HandlerOk(store', handler'[g])
  BY Frame
<1>3. \A d \in Clients, g \in Handlers :
          CallerOk(store', d, client'[d], handler'[g])
  BY Frame
<1>4. OneCaller'
  BY DEF IInv, OneCaller
<1>5. PeersOk(store', peers')
  BY Frame
<1>. QED
  BY <1>1, <1>2, <1>3, <1>4, <1>5 DEF IInv

\* The last step of a thread, which may move the process it works for.
LEMMA HandlerEnd ==
    ASSUME IInv, TypeOK', ThreadEnds', NEW h \in Handlers,
           handler' = [handler EXCEPT ![h] = FreeHandler],
           \A d \in Clients : d # handler[h].caller => client'[d] = client[d],
           handler[h].caller \in Clients =>
               ClientOk(store, handler[h].caller, client'[handler[h].caller]),
           UNCHANGED <<store, peers>>
    PROVE  IInv'
<1>1. \A d \in Clients : ClientOk(store, d, client'[d])
  BY DEF IInv
<1>2. \A g \in Handlers : HandlerOk(store, handler'[g])
  BY DEF IInv, TypeOK, HandlerOk, FreeHandler
<1>3. \A g \in Handlers : handler'[g] = FreeHandler \/ (g # h /\ handler'[g] = handler[g])
  BY DEF IInv, TypeOK
<1>4. FreeHandler.caller = NoClient /\ NoClient \notin Clients
  BY SyncAssumption DEF FreeHandler
<1>5. ASSUME NEW d \in Clients, NEW g \in Handlers
      PROVE  CallerOk(store, d, client'[d], handler'[g])
  <2>1. CASE handler'[g] = FreeHandler
    BY <1>4, <2>1 DEF CallerOk
  <2>2. CASE g # h /\ handler'[g] = handler[g] /\ handler[g].caller = d
    <3>1. d # handler[h].caller
      BY <1>4, <2>2 DEF IInv, OneCaller
    <3>. QED
      BY <2>2, <3>1 DEF IInv
  <2>3. CASE handler'[g] = handler[g] /\ handler[g].caller # d
    BY <2>3 DEF CallerOk
  <2>. QED
    BY <1>3, <2>1, <2>2, <2>3
<1>6. OneCaller'
  BY <1>3, <1>4 DEF IInv, OneCaller
<1>7. StoreOk(store') /\ OriginOk(store') /\ PeersOk(store', peers')
  BY DEF IInv
<1>. QED
  BY <1>1, <1>2, <1>5, <1>6, <1>7 DEF IInv

-----------------------------------------------------------------------------
(* The inductive invariant: one lemma per action.                           *)

LEMMA NothingOwed ==
    ASSUME NEW S \in [Nodes -> Store], NEW n \in Nodes, NEW m \in Nodes
    PROVE  /\ \A scope, pending : Covered(S, n, m, 0, scope, pending)
           /\ \A after, scope, exclude : exclude \in {NoNode, m} =>
                 ExportOk(S, n, m, BeginExport(after, scope, exclude))
<1>1. Len(S[n].changes) \in Nat
  BY StoreFields
<1>2. \A scope, pending : Covered(S, n, m, 0, scope, pending)
  BY <1>1 DEF Covered
<1>3. ASSUME NEW after, NEW scope, NEW exclude \in {NoNode, m}
      PROVE  ExportOk(S, n, m, BeginExport(after, scope, exclude))
  BY <1>1 DEF ExportOk, BeginExport
<1>. QED
  BY <1>2, <1>3

\* A finished export covers its cursor, given that its starting point was.
LEMMA ExportCovers ==
    ASSUME NEW S, NEW n, NEW m, NEW ex \in Export, ex.stage = "done",
           S \in [Nodes -> Store], n \in Nodes,
           ExportOk(S, n, m, ex), Covered(S, n, m, ex.after, ex.scope, {})
    PROVE  Covered(S, n, m, ex.cursor, ex.scope, ex.objs)
<1>1. /\ ex.after \in Nat /\ ex.cursor \in Nat
      /\ Read(ex.stage) = Objects
      /\ Len(S[n].changes) \in Nat
      /\ \A k \in 1..Len(S[n].changes) : S[n].changes[k].entity \in Objects
  BY StoreFields DEF Export, Read
<1>2. SUFFICES ASSUME NEW k \in 1..ex.cursor,
                      InScope(S[n].changes[k].entity, ex.scope)
               PROVE  S[n].changes[k].entity \in ex.objs \union S[m].rows
  BY DEF Covered, ExportOk
<1>3. CASE k > ex.after
  BY <1>1, <1>2, <1>3 DEF ExportOk
<1>4. CASE k <= ex.after
  BY <1>1, <1>2, <1>4 DEF Covered
<1>. QED
  BY <1>1, <1>3, <1>4

\* What IInv says of a process and its two nodes, in one place.
LEMMA AtClient ==
    ASSUME IInv, NEW c \in Clients
    PROVE  /\ store \in [Nodes -> Store]
           /\ client \in [Clients -> ClientState]
           /\ peers \in [Nodes -> [Nodes -> Row]]
           /\ client[c] \in ClientState
           /\ Home[c] \in Nodes
           /\ Remote[c] \in Nodes
           /\ StoreOk(store) /\ OriginOk(store) /\ PeersOk(store, peers)
           /\ Grown(store, store)
           /\ ClientOk(store, c, client[c])
BY EndsType, SameStores DEF IInv, TypeOK

LEMMA IdleIsOk ==
    ASSUME NEW S, NEW c
    PROVE  ClientOk(S, c, IdleClient)
BY DEF ClientOk, IdleClient

LEMMA InvBeginSync ==
    ASSUME IInv, TypeOK', ThreadEnds', NEW c \in Clients, NEW d \in Directions,
           NEW scope \in SyncScopes, BeginSync(c, d, scope)
    PROVE  IInv'
<1> DEFINE n == Home[c]
           m == Remote[c]
           cl == client'[c]
<1>1. /\ cl.pc \in {"send", "exporting", "export"}
      /\ cl.pc = "send" => d \in {"pull", "v2pull"}
      /\ cl.dir = d
      /\ cl.scope = scope
      /\ cl.seen = NoRow \/ cl.seen = peers[n][m]
      /\ cl.ex = BeginExport(0, scope, NoNode)
      /\ cl.row = NoRow
      /\ cl.todo = {}
  BY AtClient DEF BeginSync, IdleClient
<1>2. /\ NoRow.pushed = 0 /\ NoRow.pulled = 0
      /\ cl.ex.scope = scope /\ cl.ex.after = 0
  BY <1>1 DEF NoRow, BeginExport
<1>3. /\ Covered(store, n, m, cl.seen.pushed, scope, {})
      /\ Covered(store, m, n, cl.seen.pulled, scope, {})
  <2>1. CASE cl.seen = NoRow
    BY <1>2, <2>1, AtClient, NothingOwed
  <2>2. CASE cl.seen = peers[n][m]
    BY <2>2, AtClient DEF PeersOk
  <2>. QED
    BY <1>1, <2>1, <2>2
<1>4. ClientOk(store, c, cl)
  BY <1>1, <1>2, <1>3, AtClient, NothingOwed DEF ClientOk
<1>. QED
  BY <1>4, AtClient, ClientLocal DEF BeginSync

LEMMA InvExportForPeer ==
    ASSUME IInv, TypeOK', ThreadEnds', NEW c \in Clients, ExportForPeer(c)
    PROVE  IInv'
<1> DEFINE n == Home[c]
           m == Remote[c]
           cl == client[c]
           ex == BeginExport(peers[n][m].pushed, cl.scope, m)
<1>1. client'[c] = [cl EXCEPT !.pc = "exporting", !.ex = ex]
  BY AtClient DEF ExportForPeer
<1>2. ex.scope = cl.scope /\ ex.after = peers[n][m].pushed
  BY DEF BeginExport
<1>3. cl.scope \in SyncScopes
  BY AtClient DEF ClientOk, ExportForPeer
<1>4. Covered(store, n, m, ex.after, cl.scope, {})
  BY <1>2, <1>3, AtClient DEF PeersOk
<1>5. ExportOk(store, n, m, ex)
  BY AtClient, NothingOwed
<1>. HIDE DEF ex
<1>6. ClientOk(store, c, client'[c])
  <2>1. /\ client'[c].pc = "exporting"
        /\ client'[c].dir = cl.dir
        /\ client'[c].scope = cl.scope
        /\ client'[c].seen = cl.seen
        /\ client'[c].ex = ex
        /\ client'[c].todo = cl.todo
        /\ client'[c].row = cl.row
    BY <1>1, AtClient DEF ClientState
  <2>2. cl.pc # "idle" /\ ClientOk(store, c, cl)
    BY AtClient DEF ExportForPeer
  <2>. QED
    BY <1>2, <1>4, <1>5, <2>1, <2>2 DEF ClientOk
<1>. QED
  BY <1>6, AtClient, ClientLocal DEF ExportForPeer

LEMMA InvClientExport ==
    ASSUME IInv, TypeOK', ThreadEnds', NEW c \in Clients, ClientExport(c)
    PROVE  IInv'
<1> DEFINE n == Home[c]
           m == Remote[c]
           cl == client[c]
           next == ExportStep(store[n], cl.ex)
<1>1. /\ client'[c] = [cl EXCEPT !.ex = next, !.pc = IF next.stage = "done"
                                                    THEN "send" ELSE "exporting"]
      /\ cl.pc = "exporting"
  BY AtClient DEF ClientExport
<1>2. cl.ex \in Export
  BY AtClient DEF ClientState
<1>3. next.scope = cl.ex.scope /\ next.after = cl.ex.after
  BY <1>2, AtClient, ExportStepType
<1>4. ExportOk(store, n, m, next)
  BY <1>1, <1>2, AtClient, ExportStepOk DEF ClientOk
<1>. HIDE DEF next
<1>5. ClientOk(store, c, client'[c])
  BY <1>1, <1>3, <1>4, AtClient DEF ClientOk, ClientState
<1>. QED
  BY <1>5, AtClient, ClientLocal DEF ClientExport

LEMMA InvReadPeerRow ==
    ASSUME IInv, TypeOK', ThreadEnds', NEW c \in Clients, ReadPeerRow(c)
    PROVE  IInv'
<1> DEFINE n == Home[c]
           m == Remote[c]
           cl == client[c]
<1>1. /\ client'[c] = [cl EXCEPT !.row = peers[n][m],
                                 !.pc = IF cl.pc = "readPushed" THEN "writePushed"
                                        ELSE "writePulled"]
      /\ cl.pc \in {"readPushed", "readPulled"}
  BY AtClient DEF ReadPeerRow
<1>2. cl.scope \in SyncScopes
  BY <1>1, AtClient DEF ClientOk
<1>3. /\ Covered(store, n, m, peers[n][m].pushed, cl.scope, {})
      /\ Covered(store, m, n, peers[n][m].pulled, cl.scope, {})
  BY <1>2, AtClient DEF PeersOk
<1>4. ClientOk(store, c, client'[c])
  BY <1>1, <1>3, AtClient DEF ClientOk, ClientState
<1>. QED
  BY <1>1, <1>4, AtClient, ClientLocal DEF ReadPeerRow

\* The read and the write of update_sync_state are two transactions, so a cursor
\* may be rewound here; it still covers what it covered when it was read.
LEMMA InvWriteRow ==
    ASSUME IInv, SameScope, TypeOK', ThreadEnds', NEW c \in Clients,
           WritePushed(c) \/ WritePulled(c)
    PROVE  IInv'
<1> DEFINE n == Home[c]
           m == Remote[c]
           cl == client[c]
<1>1. /\ cl.pc \in {"writePushed", "writePulled"}
      /\ cl.scope \in SyncScopes
      /\ Covered(store, n, m, cl.row.pushed, cl.scope, {})
      /\ Covered(store, m, n, cl.row.pulled, cl.scope, {})
      /\ WritePushed(c) => Covered(store, n, m, cl.ack, cl.scope, {})
      /\ WritePulled(c) => Covered(store, m, n, cl.cursor, cl.scope, {})
  BY AtClient DEF ClientOk, WritePushed, WritePulled
<1>2. PICK row : /\ peers' = [peers EXCEPT ![n][m] = row]
                 /\ Covered(store, n, m, row.pushed, cl.scope, {})
                 /\ Covered(store, m, n, row.pulled, cl.scope, {})
  <2>1. CASE WritePushed(c)
    <3> DEFINE row == [pushed |-> Larger(cl.row.pushed, cl.ack),
                       pulled |-> cl.row.pulled]
    <3>1. Covered(store, n, m, row.pushed, cl.scope, {})
      BY <1>1, <2>1 DEF Larger
    <3>2. peers' = [peers EXCEPT ![n][m] = row]
      BY <2>1 DEF WritePushed
    <3>3. Covered(store, m, n, row.pulled, cl.scope, {})
      BY <1>1
    <3>. HIDE DEF row
    <3>. QED
      BY <3>1, <3>2, <3>3
  <2>2. CASE WritePulled(c)
    <3> DEFINE row == [pushed |-> cl.row.pushed,
                       pulled |-> Larger(cl.row.pulled, cl.cursor)]
    <3>1. Covered(store, m, n, row.pulled, cl.scope, {})
      BY <1>1, <2>2 DEF Larger
    <3>2. peers' = [peers EXCEPT ![n][m] = row]
      BY <2>2 DEF WritePulled
    <3>3. Covered(store, n, m, row.pushed, cl.scope, {})
      BY <1>1
    <3>. HIDE DEF row
    <3>. QED
      BY <3>1, <3>2, <3>3
  <2>. QED
    BY <2>1, <2>2
<1>3. PeersOk(store, peers')
  <2> SUFFICES ASSUME NEW x \in Nodes, NEW y \in Nodes, NEW scope \in SyncScopes
               PROVE  /\ Covered(store, x, y, peers'[x][y].pushed, scope, {})
                      /\ Covered(store, y, x, peers'[x][y].pulled, scope, {})
    BY DEF PeersOk
  <2>1. scope = cl.scope
    BY <1>1 DEF SameScope
  <2>2. CASE x = n /\ y = m
    <3>1. peers'[x][y] = row
      BY <1>2, <2>2, AtClient
    <3>. QED
      BY <1>2, <2>1, <2>2, <3>1
  <2>3. CASE ~(x = n /\ y = m)
    <3>1. peers'[x][y] = peers[x][y]
      BY <1>2, <2>3, AtClient
    <3>. QED
      BY <3>1, AtClient DEF PeersOk
  <2>. QED
    BY <2>2, <2>3
<1>4. ClientOk(store, c, client'[c])
  <2>1. CASE client'[c] = IdleClient
    BY <2>1, IdleIsOk
  <2>2. CASE /\ client'[c] = [cl EXCEPT !.pc = "import", !.row = NoRow]
             /\ cl.pc = "writePushed" /\ cl.dir = "both"
    <3>1. NoRow.pushed = 0 /\ NoRow.pulled = 0
      BY DEF NoRow
    <3>2. /\ Covered(store, n, m, 0, cl.scope, {})
          /\ Covered(store, m, n, 0, cl.scope, {})
      BY AtClient, NothingOwed
    <3>. QED
      BY <2>2, <3>1, <3>2, AtClient DEF ClientOk, ClientState
  <2>. QED
    BY <2>1, <2>2, AtClient DEF WritePushed, WritePulled
<1>. QED
  BY <1>1, <1>3, <1>4, AtClient, ClientLocal DEF WritePushed, WritePulled

LEMMA InvClientImport ==
    ASSUME IInv, TypeOK', ThreadEnds', NEW c \in Clients, NEW o \in Objects,
           ClientImport(c, o)
    PROVE  IInv'
<1> DEFINE n == Home[c]
           m == Remote[c]
           cl == client[c]
           left == StillToImport(store[n], o, cl.todo)
<1>1. /\ store' = [store EXCEPT ![n] = ImportStep(@, o, m)]
      /\ client'[c] = [cl EXCEPT !.todo = left]
      /\ cl.pc = "import"
      /\ o \in cl.todo
  BY AtClient, SubsetImport DEF ClientImport
<1>2. o \in store[m].rows
  BY <1>1, AtClient DEF ClientOk
<1>3. Grown(store, store') /\ StoreOk(store') /\ OriginOk(store')
  BY <1>1, <1>2, AtClient, ImportGrows
<1>4. cl.cursor \in Nat
  BY AtClient DEF ClientState
<1>5. cl.dir # "v2pull" => Covered(store', m, n, cl.cursor, cl.scope, left)
  <2>1. cl.dir # "v2pull" => Covered(store, m, n, cl.cursor, cl.scope, cl.todo)
    BY <1>1, AtClient DEF ClientOk
  <2>. QED
    BY <1>1, <1>2, <1>4, <2>1, AtClient, ImportCovers
<1>6. left \subseteq cl.todo
  BY StillToImportSubset
<1>7. PeersOk(store', peers') /\ ClientOk(store', c, cl)
  BY <1>3, Frame DEF ClientImport
<1>. HIDE DEF left
<1>8. ClientOk(store', c, client'[c])
  <2>1. /\ client'[c].pc = "import"
        /\ client'[c].dir = cl.dir
        /\ client'[c].scope = cl.scope
        /\ client'[c].seen = cl.seen
        /\ client'[c].cursor = cl.cursor
        /\ client'[c].todo = left
        /\ client'[c].row = cl.row
    BY <1>1, AtClient DEF ClientState
  <2>. QED
    BY <1>1, <1>5, <1>6, <1>7, <2>1 DEF ClientOk
<1>. QED
  BY <1>1, <1>3, <1>7, <1>8, AtClient, ClientLocal DEF ClientImport

LEMMA InvClientImported ==
    ASSUME IInv, TypeOK', ThreadEnds', NEW c \in Clients, ClientImported(c)
    PROVE  IInv'
<1> DEFINE cl == client[c]
<1>1. CASE client'[c] = IdleClient
  BY <1>1, IdleIsOk, AtClient, ClientLocal DEF ClientImported
<1>2. CASE /\ cl.dir # "v2pull"
           /\ client'[c] = [cl EXCEPT !.pc = "readPulled"]
  <2>1. cl.pc = "import" /\ cl.todo = {}
    BY DEF ClientImported
  <2>2. ClientOk(store, c, client'[c])
    BY <1>2, <2>1, AtClient DEF ClientOk, ClientState
  <2>. QED
    BY <2>1, <2>2, AtClient, ClientLocal DEF ClientImported
<1>. QED
  BY <1>1, <1>2, AtClient DEF ClientImported

\* A user's row has no origin, and its session is there before it is.
LEMMA InvUser ==
    ASSUME IInv, TypeOK', ThreadEnds', NEW i \in Items,
           OpenSession(i) \/ AddItem(i)
    PROVE  IInv'
<1> DEFINE n == AuthorOf[i]
           o == IF SessionMissing(store[n], i) THEN SessionIn(i) ELSE i
<1>1. /\ n \in Nodes
      /\ i \in Objects
      /\ store \in [Nodes -> Store]
      /\ StoreOk(store) /\ OriginOk(store)
  BY SyncAssumption DEF IInv, TypeOK, Objects
<1>2. o \in Objects /\ SessionIn(i) \in Sessions
  BY <1>1, SessionInType, SessionsAreObjects
<1>3. store' = [store EXCEPT ![n] = Insert(@, o, NoNode)]
  BY DEF OpenSession, AddItem, EnsureSession
<1>4. SessionIn(o) \in store[n].rows \union {o}
  BY <1>2 DEF SessionIn, SessionMissing
<1>. HIDE DEF o
<1>6. Grown(store, store') /\ StoreOk(store') /\ OriginOk(store')
  BY <1>1, <1>2, <1>3, <1>4, InsertGrows
<1>7. UNCHANGED <<peers, client, handler>>
  BY DEF OpenSession, AddItem
<1>8. OneCaller'
  BY <1>7 DEF IInv, OneCaller
<1>. QED
  BY <1>6, <1>7, <1>8, Frame DEF IInv

LEMMA InvSendRequest ==
    ASSUME IInv, TypeOK', ThreadEnds', NEW c \in Clients, NEW h \in Handlers,
           SendRequest(c, h)
    PROVE  IInv'
<1> DEFINE n == Home[c]
           m == Remote[c]
           cl == client[c]
           hd == handler'[h]
           kind == KindOf(cl.dir)
<1>1. /\ cl.pc = "send"
      /\ handler[h].pc = "free"
      /\ client' = [client EXCEPT ![c].pc = "wait", ![c].ex = NoExport]
      /\ UNCHANGED <<store, peers>>
      /\ \A g \in Handlers : g # h => handler'[g] = handler[g]
  BY DEF SendRequest, IInv, TypeOK
<1>2. PICK after \in Nat :
         /\ cl.dir # "v2pull" => after = cl.seen.pulled
         /\ hd = [pc |-> IF kind = "import" THEN "importing" ELSE "check",
                  kind |-> kind, caller |-> c, from |-> n, to |-> m,
                  pushAfter |-> cl.seen.pushed, push |-> cl.ex,
                  ex |-> BeginExport(after, cl.scope,
                            IF kind = "exchange" THEN n ELSE NoNode),
                  todo |-> IF kind = "pull" THEN {} ELSE cl.ex.objs]
  <2>1. cl.seen.pulled \in Nat /\ V2After \subseteq Nat
    BY AtClient, SyncAssumption DEF ClientState, Row
  <2>2. handler \in [Handlers -> HandlerState]
    BY DEF IInv, TypeOK
  <2> DEFINE thread(after) ==
        [pc |-> IF kind = "import" THEN "importing" ELSE "check",
         kind |-> kind, caller |-> c, from |-> n, to |-> m,
         pushAfter |-> cl.seen.pushed, push |-> cl.ex,
         ex |-> BeginExport(after, cl.scope, IF kind = "exchange" THEN n ELSE NoNode),
         todo |-> IF kind = "pull" THEN {} ELSE cl.ex.objs]
  <2>3. PICK after \in IF cl.dir = "v2pull" THEN V2After ELSE {cl.seen.pulled} :
            handler' = [handler EXCEPT ![h] = thread(after)]
    BY DEF SendRequest
  <2>4. hd = thread(after)
    BY <2>2, <2>3
  <2>5. after \in Nat /\ (cl.dir # "v2pull" => after = cl.seen.pulled)
    BY <2>1, <2>3
  <2>. QED
    BY <2>4, <2>5
<1>3. /\ Covered(store, m, n, cl.seen.pulled, cl.scope, {})
      /\ ExportOk(store, n, m, cl.ex)
      /\ cl.ex.scope = cl.scope
      /\ Covered(store, n, m, cl.ex.after, cl.scope, {})
      /\ kind = "exchange" => cl.ex.stage = "done"
  BY <1>1, AtClient DEF ClientOk, KindOf
<1>4. kind = "exchange" =>
          Covered(store, n, m, cl.ex.cursor, cl.scope, cl.ex.objs)
  BY <1>3, AtClient, ExportCovers DEF ClientState
<1>5. /\ BeginExport(after, cl.scope, n).scope = cl.scope
      /\ BeginExport(after, cl.scope, n).after = after
      /\ BeginExport(after, cl.scope, NoNode).scope = cl.scope
      /\ BeginExport(after, cl.scope, NoNode).after = after
  BY DEF BeginExport
<1>6. /\ hd.ex.scope = cl.scope
      /\ hd.ex.after = after
      /\ ExportOk(store, m, n, hd.ex)
  BY <1>2, <1>5, AtClient, NothingOwed
<1>7. kind \in Kinds /\ (kind = "import" <=> cl.dir = "v2push")
  BY AtClient DEF KindOf, Kinds, ClientState
<1>8. HandlerOk(store, hd)
  <2>1. hd.todo \subseteq store[n].rows
    <3>1. hd.todo \in {{}, cl.ex.objs}
      BY <1>2
    <3>. QED
      BY <1>3, <3>1 DEF ExportOk
  <2>. QED
    BY <1>2, <1>3, <1>4, <1>6, <1>7, <2>1 DEF HandlerOk
<1>9. client'[c] = [cl EXCEPT !.pc = "wait", !.ex = NoExport]
  BY <1>1, AtClient
<1>10. ClientOk(store, c, client'[c])
  BY <1>1, <1>9, AtClient DEF ClientOk, ClientState
<1>11. CallerOk(store, c, client'[c], hd)
  BY <1>2, <1>3, <1>6, <1>7, <1>9, AtClient DEF CallerOk, ClientState
<1>12. \A g \in Handlers : handler[g].caller # c
  BY <1>1 DEF IInv, CallerOk
<1>13. \A d \in Clients, g \in Handlers :
          CallerOk(store, d, client'[d], handler'[g])
  <2> SUFFICES ASSUME NEW d \in Clients, NEW g \in Handlers
               PROVE  CallerOk(store, d, client'[d], handler'[g])
    OBVIOUS
  <2>1. CASE g = h /\ d = c
    BY <1>11, <2>1
  <2>2. CASE g = h /\ d # c
    BY <1>2, <2>2 DEF CallerOk
  <2>3. CASE g # h /\ d = c
    BY <1>1, <1>12, <2>3 DEF CallerOk
  <2>4. CASE g # h /\ d # c
    BY <1>1, <2>4, AtClient DEF IInv
  <2>. QED
    BY <2>1, <2>2, <2>3, <2>4
<1>14. OneCaller'
  BY <1>1, <1>2, <1>12 DEF IInv, OneCaller
<1>15. \A d \in Clients : ClientOk(store, d, client'[d])
  BY <1>1, <1>10, AtClient DEF IInv
<1>16. \A g \in Handlers : HandlerOk(store, handler'[g])
  BY <1>1, <1>8 DEF IInv
<1>. QED
  BY <1>1, <1>13, <1>14, <1>15, <1>16, AtClient DEF IInv

\* What IInv says of a busy thread and its two nodes, in one place.
LEMMA AtHandler ==
    ASSUME IInv, NEW h \in Handlers, handler[h].pc # "free"
    PROVE  /\ store \in [Nodes -> Store]
           /\ handler \in [Handlers -> HandlerState]
           /\ handler[h] \in HandlerState
           /\ handler[h].from \in Nodes
           /\ handler[h].to \in Nodes
           /\ StoreOk(store) /\ OriginOk(store) /\ PeersOk(store, peers)
           /\ Grown(store, store)
           /\ HandlerOk(store, handler[h])
BY SameStores DEF IInv, TypeOK, ThreadEnds

LEMMA InvHandlerCheck ==
    ASSUME IInv, TypeOK', ThreadEnds', NEW h \in Handlers, HandlerCheck(h)
    PROVE  IInv'
<1> DEFINE hd == handler[h]
<1>1. hd.pc = "check" /\ UNCHANGED <<store, peers>>
  BY DEF HandlerCheck
<1>2. CASE /\ handler' = [handler EXCEPT ![h].pc = "exporting"]
           /\ UNCHANGED client
  <2>1. handler'[h] = [hd EXCEPT !.pc = "exporting"]
    BY <1>1, <1>2, AtHandler
  <2>2. HandlerOk(store, handler'[h])
    BY <1>1, <2>1, AtHandler DEF HandlerOk, HandlerState
  <2>3. \A d \in Clients : CallerOk(store, d, client[d], handler'[h])
    BY <1>1, <2>1, AtHandler DEF IInv, CallerOk, HandlerState
  <2>4. handler'[h].caller = hd.caller
    BY <1>1, <2>1, AtHandler DEF HandlerState
  <2>. QED
    BY <1>1, <1>2, <2>2, <2>3, <2>4, AtHandler, HandlerLocal
<1>3. CASE /\ handler' = [handler EXCEPT ![h] = FreeHandler]
           /\ client' = IF hd.caller = NoClient THEN client ELSE Error(hd.caller)
  <2>1. hd.caller \in Clients => client'[hd.caller] = IdleClient
    BY <1>3, SyncAssumption DEF Error, IInv, TypeOK
  <2>2. \A d \in Clients : d # hd.caller => client'[d] = client[d]
    BY <1>3 DEF Error, IInv, TypeOK
  <2>. QED
    BY <1>1, <1>3, <2>1, <2>2, IdleIsOk, HandlerEnd
<1>. QED
  BY <1>2, <1>3 DEF HandlerCheck

LEMMA InvHandlerExport ==
    ASSUME IInv, TypeOK', ThreadEnds', NEW h \in Handlers, HandlerExport(h)
    PROVE  IInv'
<1> DEFINE hd == handler[h]
           next == ExportStep(store[hd.to], hd.ex)
<1>1. hd.pc = "exporting" /\ UNCHANGED <<store, peers, client>>
  BY DEF HandlerExport
<1>2. handler'[h] = [hd EXCEPT !.ex = next,
                         !.pc = IF next.stage # "done" THEN "exporting"
                                ELSE IF hd.kind = "exchange" THEN "importing"
                                ELSE "reply"]
  BY <1>1, AtHandler DEF HandlerExport
<1>3. hd.ex \in Export /\ hd.kind \in Kinds
  BY <1>1, AtHandler DEF HandlerState
<1>4. next.scope = hd.ex.scope /\ next.after = hd.ex.after
  BY <1>1, <1>3, AtHandler, ExportStepType
<1>5. ExportOk(store, hd.to, hd.from, next)
  BY <1>1, <1>3, AtHandler, ExportStepOk DEF HandlerOk
<1>6. hd.kind # "import"
  BY <1>1, AtHandler DEF HandlerOk
<1>. HIDE DEF next
<1>7. HandlerOk(store, handler'[h])
  BY <1>1, <1>2, <1>3, <1>5, <1>6, AtHandler DEF HandlerOk, HandlerState, Kinds
<1>8. \A d \in Clients : CallerOk(store, d, client[d], handler'[h])
  BY <1>1, <1>2, <1>4, AtHandler DEF IInv, CallerOk, HandlerState
<1>9. handler'[h].caller = hd.caller
  BY <1>1, <1>2, AtHandler DEF HandlerState
<1>. QED
  BY <1>1, <1>7, <1>8, <1>9, AtHandler, HandlerLocal DEF HandlerExport

LEMMA InvHandlerImport ==
    ASSUME IInv, TypeOK', ThreadEnds', NEW h \in Handlers, NEW o \in Objects,
           HandlerImport(h, o)
    PROVE  IInv'
<1> DEFINE hd == handler[h]
           left == StillToImport(store[hd.to], o, hd.todo)
<1>1. /\ hd.pc = "importing"
      /\ o \in hd.todo
      /\ store' = [store EXCEPT ![hd.to] = ImportStep(@, o, hd.from)]
      /\ UNCHANGED <<peers, client>>
  BY SubsetImport DEF HandlerImport
<1>2. handler'[h] = [hd EXCEPT !.todo = left]
  BY <1>1, AtHandler DEF HandlerImport
<1>3. o \in store[hd.from].rows
  BY <1>1, AtHandler DEF HandlerOk
<1>4. Grown(store, store') /\ StoreOk(store') /\ OriginOk(store')
  BY <1>1, <1>3, AtHandler, ImportGrows
<1>5. hd.push \in Export /\ hd.push.cursor \in Nat
  BY <1>1, AtHandler DEF HandlerState, Export
<1>6. hd.kind = "exchange" =>
          Covered(store', hd.from, hd.to, hd.push.cursor, hd.push.scope, left)
  <2>1. hd.kind = "exchange" =>
            Covered(store, hd.from, hd.to, hd.push.cursor, hd.push.scope, hd.todo)
    BY <1>1, AtHandler DEF HandlerOk
  <2>. QED
    BY <1>1, <1>3, <1>5, <2>1, AtHandler, ImportCovers
<1>7. left \subseteq hd.todo
  BY StillToImportSubset
<1>8. /\ HandlerOk(store', hd)
      /\ \A d \in Clients : CallerOk(store', d, client[d], hd)
  BY <1>4, Frame
<1>. HIDE DEF left
<1>9. HandlerOk(store', handler'[h])
  BY <1>1, <1>2, <1>6, <1>7, <1>8, AtHandler DEF HandlerOk, HandlerState
<1>10. \A d \in Clients : CallerOk(store', d, client[d], handler'[h])
  <2>1. /\ handler'[h].pc = hd.pc
        /\ handler'[h].kind = hd.kind
        /\ handler'[h].caller = hd.caller
        /\ handler'[h].from = hd.from
        /\ handler'[h].to = hd.to
        /\ handler'[h].push = hd.push
        /\ handler'[h].ex = hd.ex
    BY <1>1, <1>2, AtHandler DEF HandlerState
  <2>. QED
    BY <1>8, <2>1 DEF CallerOk
<1>11. handler'[h].caller = hd.caller
  BY <1>1, <1>2, AtHandler DEF HandlerState
<1>. QED
  BY <1>1, <1>4, <1>9, <1>10, <1>11, AtHandler, HandlerLocal DEF HandlerImport

\* The acknowledgement covers what was pushed, for it is sent when nothing of
\* the bundle is left to import; the reply's cursor covers what it carries.
LEMMA InvHandlerReply ==
    ASSUME IInv, TypeOK', ThreadEnds', NEW h \in Handlers, HandlerReply(h)
    PROVE  IInv'
<1> DEFINE hd == handler[h]
           c == hd.caller
<1>1. /\ handler' = [handler EXCEPT ![h] = FreeHandler]
      /\ client' = IF c = NoClient THEN client
                   ELSE [client EXCEPT ![c] = Receive(c, h)]
      /\ UNCHANGED <<store, peers>>
      /\ hd.pc # "free"
      /\ hd.pc = "reply" \/ (hd.pc = "importing" /\ hd.todo = {})
  BY DEF HandlerReply
<1>2. \A d \in Clients : d # c => client'[d] = client[d]
  BY <1>1 DEF IInv, TypeOK
<1>3. ASSUME c \in Clients
      PROVE  ClientOk(store, c, client'[c])
  <2> DEFINE n == Home[c]
             m == Remote[c]
             cl == client[c]
  <2>1. /\ cl.pc = "wait"
        /\ hd.from = n /\ hd.to = m
        /\ hd.kind = KindOf(cl.dir)
        /\ hd.ex.scope = cl.scope /\ hd.push.scope = cl.scope
        /\ cl.dir # "v2pull" => Covered(store, m, n, hd.ex.after, cl.scope, {})
    BY <1>3 DEF IInv, CallerOk
  <2>2. client'[c] = Receive(c, h)
    BY <1>1, <1>3, SyncAssumption DEF IInv, TypeOK
  <2>3. /\ hd.kind = "exchange" => hd.pc = "importing" /\ hd.todo = {}
        /\ hd.kind = "pull" => hd.pc = "reply"
        /\ hd.kind # "import" => hd.ex.stage = "done"
        /\ hd.kind \in Kinds
    BY <1>1, AtHandler DEF HandlerOk, HandlerState, Kinds
  <2>4. hd.ex \in Export /\ ExportOk(store, m, n, hd.ex)
    BY <1>1, <2>1, AtHandler DEF HandlerOk, HandlerState
  <2>5. hd.ex.objs \subseteq store[m].rows
    BY <2>4 DEF ExportOk
  <2>6. hd.kind # "import" /\ cl.dir # "v2pull" =>
            Covered(store, m, n, hd.ex.cursor, cl.scope, hd.ex.objs)
    BY <1>3, <2>1, <2>3, <2>4, AtClient, ExportCovers
  <2>7. hd.kind = "exchange" =>
            Covered(store, n, m, hd.push.cursor, cl.scope, {})
    BY <1>1, <2>1, <2>3, AtHandler DEF HandlerOk
  <2>8. CASE cl.dir = "v2push"
    BY <2>2, <2>8, IdleIsOk DEF Receive
  <2>9. CASE cl.dir = "push"
    <3>1. client'[c] = [cl EXCEPT !.pc = "readPushed", !.ack = hd.push.cursor]
      BY <2>2, <2>9 DEF Receive
    <3>2. cl.dir = "push" => hd.kind = "exchange"
      BY <2>1 DEF KindOf
    <3>. QED
      BY <1>3, <2>1, <2>7, <2>9, <3>1, <3>2, AtClient DEF ClientOk, ClientState
  <2>10. CASE cl.dir = "both"
    <3>1. client'[c] = [cl EXCEPT !.pc = "readPushed", !.ack = hd.push.cursor,
                                  !.cursor = hd.ex.cursor, !.todo = hd.ex.objs]
      BY <2>2, <2>10 DEF Receive
    <3>2. cl.dir = "both" => hd.kind = "exchange"
      BY <2>1 DEF KindOf
    <3>. QED
      BY <1>3, <2>1, <2>5, <2>6, <2>7, <2>10, <3>1, <3>2, AtClient
         DEF ClientOk, ClientState
  <2>11. CASE cl.dir \in {"pull", "v2pull"}
    <3>1. client'[c] = [cl EXCEPT !.pc = "import", !.cursor = hd.ex.cursor,
                                  !.todo = hd.ex.objs]
      BY <2>2, <2>11 DEF Receive
    <3>2. hd.kind = "pull"
      BY <2>1, <2>11 DEF KindOf
    <3>3. /\ client'[c].pc = "import"
          /\ client'[c].dir = cl.dir
          /\ client'[c].scope = cl.scope
          /\ client'[c].seen = cl.seen
          /\ client'[c].cursor = hd.ex.cursor
          /\ client'[c].todo = hd.ex.objs
          /\ client'[c].row = cl.row
      BY <1>3, <3>1, AtClient DEF ClientState
    <3>4. ClientOk(store, c, cl)
      BY <1>3, AtClient
    <3>. QED
      BY <2>1, <2>5, <2>6, <3>2, <3>3, <3>4 DEF ClientOk
  <2>. QED
    BY <1>3, <2>8, <2>9, <2>10, <2>11, AtClient DEF ClientState
<1>. QED
  BY <1>1, <1>2, <1>3, HandlerEnd

LEMMA InvHandlerFail ==
    ASSUME IInv, TypeOK', ThreadEnds', NEW h \in Handlers, HandlerFail(h)
    PROVE  IInv'
<1> DEFINE c == handler[h].caller
<1>1. c \in Clients => client'[c] = IdleClient
  BY SyncAssumption DEF HandlerFail, Error, IInv, TypeOK
<1>2. \A d \in Clients : d # c => client'[d] = client[d]
  BY DEF HandlerFail, Error, IInv, TypeOK
<1>. QED
  BY <1>1, <1>2, IdleIsOk, HandlerEnd DEF HandlerFail

\* Whoever the lost process had called goes on, for nobody.
LEMMA InvClientFail ==
    ASSUME IInv, TypeOK', ThreadEnds', NEW c \in Clients, ClientFail(c)
    PROVE  IInv'
<1>1. /\ client' = [client EXCEPT ![c] = IdleClient]
      /\ UNCHANGED <<store, peers>>
      /\ store \in [Nodes -> Store]
  BY DEF ClientFail, Error, IInv, TypeOK
<1>2. \A h \in Handlers :
          handler'[h] = IF handler[h].caller = c
                        THEN [handler[h] EXCEPT !.caller = NoClient]
                        ELSE handler[h]
  BY DEF ClientFail
<1>3. \A h \in Handlers : handler[h] \in HandlerState
  BY DEF IInv, TypeOK
<1>4. \A d \in Clients : ClientOk(store, d, client'[d])
  BY <1>1, IdleIsOk DEF IInv, TypeOK
<1>5. ASSUME NEW h \in Handlers
      PROVE  HandlerOk(store, handler'[h])
  <2>1. CASE handler[h].caller = c
    <3>1. /\ handler'[h].pc = handler[h].pc
          /\ handler'[h].kind = handler[h].kind
          /\ handler'[h].from = handler[h].from
          /\ handler'[h].to = handler[h].to
          /\ handler'[h].push = handler[h].push
          /\ handler'[h].ex = handler[h].ex
          /\ handler'[h].todo = handler[h].todo
      BY <1>2, <1>3, <2>1 DEF HandlerState
    <3>2. HandlerOk(store, handler[h])
      BY DEF IInv
    <3>. QED
      BY <3>1, <3>2 DEF HandlerOk
  <2>2. CASE handler[h].caller # c
    BY <1>2, <2>2 DEF IInv
  <2>. QED
    BY <2>1, <2>2
<1>6. ASSUME NEW d \in Clients, NEW h \in Handlers
      PROVE  CallerOk(store, d, client'[d], handler'[h])
  <2>1. CASE handler[h].caller = c
    <3>1. handler'[h].caller = NoClient
      BY <1>2, <1>3, <2>1 DEF HandlerState
    <3>. QED
      BY <3>1, SyncAssumption DEF CallerOk
  <2>2. CASE handler[h].caller # c /\ handler[h].caller = d
    BY <1>1, <1>2, <2>2 DEF IInv, TypeOK
  <2>3. CASE handler[h].caller # c /\ handler[h].caller # d
    BY <1>2, <2>3 DEF CallerOk
  <2>. QED
    BY <2>1, <2>2, <2>3
<1>7. \A h \in Handlers :
          handler'[h].caller = NoClient \/ handler'[h].caller = handler[h].caller
  BY <1>2, <1>3 DEF HandlerState
<1>8. OneCaller'
  BY <1>7 DEF IInv, OneCaller
<1>. QED
  BY <1>1, <1>4, <1>5, <1>6, <1>8 DEF IInv

-----------------------------------------------------------------------------
(* The inductive invariant, and what follows from it.                       *)

\* Before any sync nothing is owed.
LEMMA InvInit == Init => IInv
<1> SUFFICES ASSUME Init PROVE IInv
  OBVIOUS
<1>1. TypeOK /\ ThreadEnds
  BY InitialValues, SyncAssumption DEF Init, TypeOK, ThreadEnds, FreeHandler
<1>2. store \in [Nodes -> Store]
  BY <1>1 DEF TypeOK
<1>3. \A n \in Nodes : store[n].rows = {} /\ Len(store[n].changes) = 0
  BY DEF Init, EmptyStore
<1>4. StoreOk(store) /\ OriginOk(store)
  BY <1>3 DEF StoreOk, OriginOk
<1>5. PeersOk(store, peers)
  BY <1>2, NothingOwed DEF Init, PeersOk, NoRow
<1>6. \A c \in Clients : ClientOk(store, c, client[c])
  BY IdleIsOk DEF Init
<1>7. /\ \A h \in Handlers : HandlerOk(store, handler[h])
      /\ \A c \in Clients, h \in Handlers : CallerOk(store, c, client[c], handler[h])
      /\ OneCaller
  BY SyncAssumption DEF Init, FreeHandler, HandlerOk, CallerOk, OneCaller
<1>. QED
  BY <1>1, <1>4, <1>5, <1>6, <1>7 DEF IInv

\* Every step keeps the cursors covered: one case for each action.
LEMMA InvStep ==
    ASSUME SameScope, IInv, TypeOK', [Next]_vars
    PROVE  IInv'
<1>1. ThreadEnds'
  BY ThreadEndsStep DEF IInv
<1>2. ASSUME NEW i \in Items, OpenSession(i) \/ AddItem(i)
      PROVE  IInv'
  BY <1>1, <1>2, InvUser
<1>3. ASSUME NEW c \in Clients, NEW d \in Directions, NEW scope \in SyncScopes,
             BeginSync(c, d, scope)
      PROVE  IInv'
  BY <1>1, <1>3, InvBeginSync
<1>4. ASSUME NEW c \in Clients, ClientStep(c)
      PROVE  IInv'
  BY <1>1, <1>4, InvExportForPeer, InvClientExport, InvSendRequest, InvReadPeerRow,
     InvWriteRow, InvClientImport, InvClientImported DEF ClientStep
<1>5. ASSUME NEW c \in Clients, ClientFail(c)
      PROVE  IInv'
  BY <1>1, <1>5, InvClientFail
<1>6. ASSUME NEW h \in Handlers, HandlerStep(h) \/ HandlerFail(h)
      PROVE  IInv'
  BY <1>1, <1>6, InvHandlerCheck, InvHandlerExport, InvHandlerImport,
     InvHandlerReply, InvHandlerFail DEF HandlerStep
<1>7. CASE UNCHANGED vars
  BY <1>7 DEF vars, IInv, TypeOK, ThreadEnds, StoreOk, OriginOk, PeersOk, OneCaller
<1>. QED
  BY <1>2, <1>3, <1>4, <1>5, <1>6, <1>7 DEF Next

\* In every reachable state every cursor, stored or on its way, is covered: what
\* lies below it is at the other side or travels with it.
THEOREM CursorsAreCovered ==
    ASSUME SameScope
    PROVE  Spec => []IInv
<1>1. Init => IInv
  BY InvInit
<1>2. IInv /\ [Next]_vars => IInv'
  BY InvStep, TypeStep DEF IInv
<1>. QED
  BY <1>1, <1>2, PTL DEF Spec

\* As long as every sync of a store uses one scope, no pushed cursor ever passes
\* a local change the peer lacks: for any number of nodes, concurrent syncs,
\* users, lost answers and crashes, and although update_sync_state may rewind.
THEOREM PushNeverOmits ==
    ASSUME SameScope
    PROVE  Spec => []PushedReached
<1>1. IInv => PushedReached
  BY DEF IInv, PeersOk, PushedReached
<1>. QED
  BY <1>1, CursorsAreCovered, PTL

\* Under the same condition no pulled cursor passes a change of the peer that
\* the node lacks, so asking for what is newer misses nothing.
THEOREM PullNeverOmits ==
    ASSUME SameScope
    PROVE  Spec => []PulledReached
<1>1. IInv => PulledReached
  BY DEF IInv, PeersOk, PulledReached
<1>. QED
  BY <1>1, CursorsAreCovered, PTL

=============================================================================
