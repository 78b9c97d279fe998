-------------------------- MODULE ReplicationProofs --------------------------
(***************************************************************************)
(* MemorySync implements ReplicatedRows and keeps its change logs exact,   *)
(* for every set of nodes, processes, threads and --session arguments: the *)
(* invariant Provenance says where the objects of every bundle come from.  *)
(* Last, the peer cursors advance when each pair of ends has one process.  *)
(***************************************************************************)
EXTENDS MemorySyncProofs

-----------------------------------------------------------------------------
(* The change log of one store.                                             *)

LogExact(st) ==
    /\ st.rows = {st.changes[k].entity : k \in DOMAIN st.changes}
    /\ \A j, k \in DOMAIN st.changes :
          st.changes[j].entity = st.changes[k].entity => j = k

\* INSERT OR IGNORE records the row when it is new, and then only.
LEMMA InsertLogExact ==
    ASSUME NEW st \in Store, NEW o \in Objects, NEW origin \in Origins, LogExact(st)
    PROVE  LogExact(Insert(st, o, origin))
<1> DEFINE change == [entity |-> o, origin |-> origin]
           log == Append(st.changes, change)
<1>1. CASE o \in st.rows
  BY <1>1 DEF Insert
<1>2. CASE o \notin st.rows
  <2>1. Insert(st, o, origin) = [rows |-> st.rows \union {o}, changes |-> log]
    BY <1>2 DEF Insert
  <2>2. /\ st.changes \in Seq(Change)
        /\ change \in Change
        /\ Len(st.changes) \in Nat
        /\ DOMAIN st.changes = 1..Len(st.changes)
    BY DEF Store, Change
  <2>3. /\ DOMAIN log = 1..(Len(st.changes) + 1)
        /\ \A k \in 1..Len(st.changes) : log[k] = st.changes[k]
        /\ log[Len(st.changes) + 1] = change
    BY <2>2
  <2>4. \A k \in DOMAIN log : k \in DOMAIN st.changes \/ k = Len(st.changes) + 1
    BY <2>2, <2>3
  <2>5. \A k \in DOMAIN st.changes :
            k \in DOMAIN log /\ log[k] = st.changes[k]
    BY <2>2, <2>3
  <2>6. Len(st.changes) + 1 \in DOMAIN log
    BY <2>2, <2>3
  <2>7. \A k \in DOMAIN st.changes : st.changes[k].entity # o
    BY <1>2 DEF LogExact
  <2>8. log[Len(st.changes) + 1].entity = o
    BY <2>3
  <2>. HIDE DEF log, change
  <2>9. st.rows \union {o} = {log[k].entity : k \in DOMAIN log}
    BY <2>4, <2>5, <2>6, <2>8 DEF LogExact
  <2>10. \A j, k \in DOMAIN log : log[j].entity = log[k].entity => j = k
    BY <2>4, <2>5, <2>7, <2>8 DEF LogExact
  <2>. QED
    BY <2>1, <2>9, <2>10 DEF LogExact
<1>. QED
  BY <1>1, <1>2

\* So does each transaction of an import.
LEMMA ImportLogExact ==
    ASSUME NEW st \in Store, NEW o \in Objects, NEW origin \in Origins, LogExact(st)
    PROVE  LogExact(ImportStep(st, o, origin))
BY InsertLogExact, SessionInType, SessionsAreObjects DEF ImportStep, EnsureSession

-----------------------------------------------------------------------------
(* What a step does to the stores.                                          *)

\* n's user opens the session of i, or writes i into it.
UserWrites(i) ==
    LET n == AuthorOf[i]
        o == IF SessionMissing(store[n], i) THEN SessionIn(i) ELSE i
    IN  /\ i \notin store[n].rows
        /\ store' = [store EXCEPT ![n] = Insert(@, o, NoNode)]

\* One transaction of an import at n of what m holds.
Imports(n, m, o) ==
    /\ o \in store[m].rows
    /\ store' = [store EXCEPT ![n] = ImportStep(@, o, m)]

StoreStep ==
    \/ UNCHANGED store
    \/ \E i \in Items : UserWrites(i)
    \/ \E n, m \in Nodes, o \in Objects : Imports(n, m, o)

\* Rows are only written by users and by imports of what the sender holds.
LEMMA StoreSteps ==
    ASSUME Provenance, [Next]_vars
    PROVE  StoreStep
<1>1. ASSUME NEW i \in Items, OpenSession(i) \/ AddItem(i)
      PROVE  UserWrites(i)
  BY <1>1 DEF OpenSession, AddItem, UserWrites, EnsureSession
<1>2. ASSUME NEW c \in Clients, NEW o \in Objects, ClientImport(c, o)
      PROVE  Imports(Home[c], Remote[c], o)
  BY <1>2, SubsetImport DEF ClientImport, Imports, Provenance, ClientHolds
<1>3. ASSUME NEW h \in Handlers, NEW o \in Objects, HandlerImport(h, o)
      PROVE  /\ Imports(handler[h].to, handler[h].from, o)
             /\ handler[h].to \in Nodes /\ handler[h].from \in Nodes
  BY <1>3, SubsetImport
     DEF HandlerImport, Imports, Provenance, HandlerHolds, ThreadEnds
<1>4. \/ UNCHANGED store
      \/ \E i \in Items : OpenSession(i) \/ AddItem(i)
      \/ \E c \in Clients, o \in Objects : ClientImport(c, o)
      \/ \E h \in Handlers, o \in Objects : HandlerImport(h, o)
  BY DEF Next, vars, ClientStep, HandlerStep, BeginSync, ExportForPeer, ClientExport,
         SendRequest, ReadPeerRow, WritePushed, ClientImported, WritePulled,
         ClientFail, HandlerCheck, HandlerExport, HandlerReply, HandlerFail
<1>. QED
  BY <1>1, <1>2, <1>3, <1>4, EndsType DEF StoreStep

\* The stores grow, and their logs stay consistent and exact.
LEMMA StoreStepKeeps ==
    ASSUME Provenance, StoreStep
    PROVE  Grown(store, store') /\ StoreOk(store') /\ OriginOk(store') /\ ChangeLogExact'
<1>1. store \in [Nodes -> Store] /\ StoreOk(store) /\ OriginOk(store)
  BY DEF Provenance, TypeOK
<1>2. \A n \in Nodes : LogExact(store[n])
  BY DEF Provenance, ChangeLogExact, LogExact
<1>3. CASE UNCHANGED store
  BY <1>1, <1>3 DEF Provenance, ChangeLogExact, Grown, Extends, Store
<1>4. ASSUME NEW i \in Items, UserWrites(i)
      PROVE  /\ Grown(store, store') /\ StoreOk(store') /\ OriginOk(store')
             /\ \A n \in Nodes : LogExact(store'[n])
  <2> DEFINE n == AuthorOf[i]
             o == IF SessionMissing(store[n], i) THEN SessionIn(i) ELSE i
  <2>1. /\ n \in Nodes
        /\ i \in Objects
        /\ SessionIn(i) \in Sessions
        /\ o \in Objects
        /\ NoNode \in Origins
    BY SyncAssumption, SessionInType, SessionsAreObjects DEF Objects, Origins
  <2>2. SessionIn(o) \in store[n].rows \union {o}
    BY <2>1 DEF SessionMissing, SessionIn
  <2>3. store' = [store EXCEPT ![n] = Insert(@, o, NoNode)]
    BY <1>4 DEF UserWrites
  <2>4. LogExact(Insert(store[n], o, NoNode))
    BY <1>1, <1>2, <2>1, InsertLogExact
  <2>. HIDE DEF n, o
  <2>5. Grown(store, store') /\ StoreOk(store') /\ OriginOk(store')
    BY <1>1, <2>1, <2>2, <2>3, InsertGrows
  <2>6. \A x \in Nodes : LogExact(store'[x])
    BY <1>1, <1>2, <2>1, <2>3, <2>4
  <2>. QED
    BY <2>5, <2>6
<1>5. ASSUME NEW n \in Nodes, NEW m \in Nodes, NEW o \in Objects, Imports(n, m, o)
      PROVE  /\ Grown(store, store') /\ StoreOk(store') /\ OriginOk(store')
             /\ \A x \in Nodes : LogExact(store'[x])
  <2>1. store' = [store EXCEPT ![n] = ImportStep(@, o, m)] /\ o \in store[m].rows
    BY <1>5 DEF Imports
  <2>2. LogExact(ImportStep(store[n], o, m))
    BY <1>1, <1>2, ImportLogExact DEF Origins
  <2>3. Grown(store, store') /\ StoreOk(store') /\ OriginOk(store')
    BY <1>1, <2>1, ImportGrows
  <2>4. \A x \in Nodes : LogExact(store'[x])
    BY <1>1, <1>2, <2>1, <2>2
  <2>. QED
    BY <2>3, <2>4
<1>6. (\A n \in Nodes : LogExact(store'[n])) => ChangeLogExact'
  BY DEF LogExact, ChangeLogExact
<1>. QED
  BY <1>3, <1>4, <1>5, <1>6 DEF StoreStep

\* What the stores do is a step of ReplicatedRows: a row is written by its author
\* or copied from a holder, after its session, or nothing changes.
LEMMA ReplicaStep ==
    ASSUME Provenance, StoreStep
    PROVE  [Replica!Next]_([n \in Nodes |-> store[n].rows])
<1> DEFINE rows == [n \in Nodes |-> store[n].rows]
<1>1. store \in [Nodes -> Store] /\ StoreOk(store)
  BY DEF Provenance, TypeOK
<1>2. CASE UNCHANGED store
  BY <1>2
<1>3. ASSUME NEW n \in Nodes, NEW o \in Objects, NEW origin \in Origins,
             store' = [store EXCEPT ![n] = Insert(@, o, origin)]
      PROVE  rows' = [rows EXCEPT ![n] = @ \union {o}]
  <2>1. Insert(store[n], o, origin).rows = store[n].rows \union {o}
    BY DEF Insert
  <2>2. store'[n] = Insert(store[n], o, origin)
    BY <1>1, <1>3
  <2>3. \A x \in Nodes : x # n => store'[x] = store[x]
    BY <1>1, <1>3
  <2>. QED
    BY <2>1, <2>2, <2>3
<1>4. ASSUME NEW i \in Items, UserWrites(i)
      PROVE  Replica!Next
  <2> DEFINE n == AuthorOf[i]
             x == IF SessionMissing(store[n], i) THEN SessionIn(i) ELSE i
  <2>1. /\ n \in Nodes
        /\ i \in Objects
        /\ SessionIn(i) \in Sessions
        /\ SessionIn(i) = SessionOf[i]
        /\ x \in Sessions \union Items
        /\ NoNode \in Origins
    BY SyncAssumption, StoreAssumption, SessionInType, SessionsAreObjects
       DEF Objects, Origins, SessionIn
  <2>2. store' = [store EXCEPT ![n] = Insert(@, x, NoNode)] /\ i \notin store[n].rows
    BY <1>4 DEF UserWrites
  <2>3. PICK o \in Sessions \union Items : o = x
    BY <2>1
  <2>4. rows' = [rows EXCEPT ![n] = @ \union {o}]
    BY <1>3, <2>1, <2>2, <2>3 DEF Objects
  <2>5. o \notin rows[n]
    BY <2>1, <2>2, <2>3 DEF SessionMissing
  <2>6. o \in Items => AuthorOf[o] = n /\ SessionOf[o] \in rows[n]
    BY <2>1, <2>3, StoreAssumption DEF SessionMissing
  <2>. HIDE DEF x, rows
  <2>7. Replica!Write(n, o)
    BY <2>4, <2>5, <2>6 DEF Replica!Write, rows
  <2>. QED
    BY <2>1, <2>7 DEF Replica!Next
<1>5. ASSUME NEW n \in Nodes, NEW m \in Nodes, NEW o \in Objects, Imports(n, m, o)
      PROVE  Replica!Next
  <2> DEFINE x == IF SessionMissing(store[n], o) THEN SessionIn(o) ELSE o
  <2>1. x \in Objects /\ m \in Origins /\ SessionIn(o) \in Sessions
    BY SessionInType, SessionsAreObjects DEF Origins
  <2>2. store' = [store EXCEPT ![n] = Insert(@, x, m)] /\ o \in store[m].rows
    BY <1>5 DEF Imports, ImportStep, EnsureSession
  <2>3. PICK p \in Sessions \union Items : p = x
    BY <2>1 DEF Objects
  <2>4. rows' = [rows EXCEPT ![n] = @ \union {p}]
    BY <1>3, <2>1, <2>2, <2>3
  <2>5. p \in rows[m]
    BY <1>1, <2>2, <2>3 DEF StoreOk
  <2>6. p \in Items => SessionOf[p] \in rows[n]
    BY <2>1, <2>3, StoreAssumption DEF SessionMissing, SessionIn
  <2>. HIDE DEF x, rows
  <2>7. Replica!Copy(n, m, p)
    BY <2>4, <2>5, <2>6 DEF Replica!Copy, rows
  <2>. QED
    BY <2>7 DEF Replica!Next
<1>. QED
  BY <1>2, <1>4, <1>5 DEF StoreStep

-----------------------------------------------------------------------------
(* Provenance is inductive: one lemma for each variable.                    *)

\* What a process or a handler holds is still there when stores have grown.
LEMMA HoldingGrows ==
    ASSUME NEW S, NEW T, Grown(S, T)
    PROVE  /\ \A c \in Clients : \A cl :
                 ClientHolds(S, c, cl) => ClientHolds(T, c, cl)
           /\ \A hd : /\ HandlerHolds(S, hd)
                      /\ hd.pc # "free" => hd.from \in Nodes /\ hd.to \in Nodes
                      => HandlerHolds(T, hd)
BY EndsType DEF Grown, Extends, ClientHolds, HandlerHolds

\* An export reads rows of its node and nothing else.
LEMMA ExportHolds ==
    ASSUME NEW S \in [Nodes -> Store], StoreOk(S), NEW n \in Nodes,
           NEW ex \in Export, ex.objs \subseteq S[n].rows
    PROVE  ExportStep(S[n], ex).objs \subseteq S[n].rows
<1>1. Delta(S[n], ex) \subseteq S[n].rows
  BY DEF Delta, ChangedIn, StoreOk
<1>2. \A kind : RowsOf(S[n], kind, ex.scope) \subseteq S[n].rows
  BY DEF RowsOf
<1>3. CASE ex.stage = "cursor"
  BY <1>3 DEF ExportStep, Export
<1>4. CASE ex.stage = "changes"
  BY <1>1, <1>4 DEF ExportStep, Export
<1>5. CASE ex.stage = "sessions"
  BY <1>2, <1>5 DEF ExportStep, Export
<1>6. CASE ex.stage = "messages"
  BY <1>2, <1>6 DEF ExportStep, Export
<1>7. CASE ex.stage \notin {"cursor", "changes", "sessions", "messages"}
  BY <1>2, <1>7 DEF ExportStep, Export
<1>. QED
  BY <1>3, <1>4, <1>5, <1>6, <1>7

\* An idle process holds nothing.
LEMMA IdleHolds ==
    ASSUME NEW c \in Clients
    PROVE  ClientHolds(store, c, IdleClient)
BY DEF ClientHolds, IdleClient, NoExport, BeginExport

\* A process holds nothing its two nodes have not committed.
LEMMA ClientsHold ==
    ASSUME Provenance, [Next]_vars, NEW c \in Clients
    PROVE  ClientHolds(store, c, client'[c])
<1> DEFINE cl == client[c]
<1>1. /\ cl \in ClientState
      /\ cl.ex \in Export
      /\ client \in [Clients -> ClientState]
      /\ store \in [Nodes -> Store] /\ StoreOk(store)
      /\ cl.ex.objs \subseteq store[Home[c]].rows
      /\ cl.todo \subseteq store[Remote[c]].rows
  BY DEF Provenance, TypeOK, ClientState, ClientHolds
<1>2. CASE client'[c] = cl
  BY <1>1, <1>2 DEF ClientHolds
<1>3. CASE client'[c] = IdleClient
  BY <1>3, IdleHolds
<1>4. CASE client'[c].ex.objs = cl.ex.objs /\ client'[c].todo \subseteq cl.todo
  BY <1>1, <1>4 DEF ClientHolds
<1>5. CASE client'[c].ex.objs = {} /\ client'[c].todo \subseteq cl.todo
  BY <1>1, <1>5 DEF ClientHolds
<1>6. ASSUME NEW d \in Directions, NEW scope \in SyncScopes, BeginSync(c, d, scope)
      PROVE  client'[c].ex.objs = {} /\ client'[c].todo \subseteq cl.todo
  BY <1>1, <1>6 DEF BeginSync, BeginExport, IdleClient
<1>7. CASE ExportForPeer(c)
  <2>1. client'[c].ex.objs = {} /\ client'[c].todo \subseteq cl.todo
    BY <1>1, <1>7 DEF ExportForPeer, BeginExport, ClientState
  <2>. QED
    BY <1>5, <2>1
<1>8. CASE ClientExport(c)
  <2>1. ExportStep(store[Home[c]], cl.ex).objs \subseteq store[Home[c]].rows
    BY <1>1, EndsType, ExportHolds
  <2>2. /\ client'[c].ex = ExportStep(store[Home[c]], cl.ex)
        /\ client'[c].todo = cl.todo
    BY <1>1, <1>8 DEF ClientExport, ClientState
  <2>. QED
    BY <1>1, <2>1, <2>2 DEF ClientHolds
<1>9. ASSUME NEW h \in Handlers, SendRequest(c, h)
      PROVE  client'[c].ex.objs = {} /\ client'[c].todo \subseteq cl.todo
  BY <1>1, <1>9 DEF SendRequest, NoExport, BeginExport, ClientState
<1>10. CASE ReadPeerRow(c) \/ WritePushed(c) \/ ClientImported(c) \/ WritePulled(c)
  <2>1. CASE ReadPeerRow(c)
    <3>1. PICK pc, row : client'[c] = [cl EXCEPT !.row = row, !.pc = pc]
      BY <1>1, <2>1 DEF ReadPeerRow
    <3>. QED
      BY <1>1, <1>4, <3>1 DEF ClientState
  <2>2. CASE WritePushed(c)
    <3>1. \/ client'[c] = IdleClient
          \/ client'[c] = [cl EXCEPT !.pc = "import", !.row = NoRow]
      BY <1>1, <2>2 DEF WritePushed
    <3>. QED
      BY <1>1, <1>3, <1>4, <3>1 DEF ClientState
  <2>3. CASE ClientImported(c)
    <3>1. client'[c] = IdleClient \/ client'[c] = [cl EXCEPT !.pc = "readPulled"]
      BY <1>1, <2>3 DEF ClientImported
    <3>. QED
      BY <1>1, <1>3, <1>4, <3>1 DEF ClientState
  <2>4. CASE WritePulled(c)
    BY <1>1, <1>3, <2>4 DEF WritePulled
  <2>. QED
    BY <1>10, <2>1, <2>2, <2>3, <2>4
<1>11. ASSUME NEW o \in Objects, ClientImport(c, o)
       PROVE  client'[c].ex.objs = cl.ex.objs /\ client'[c].todo \subseteq cl.todo
  BY <1>1, <1>11, StillToImportSubset DEF ClientImport, ClientState
<1>12. ASSUME NEW h \in Handlers, HandlerReply(h), handler[h].caller = c
       PROVE  ClientHolds(store, c, client'[c])
  <2>1. client'[c] = Receive(c, h)
    BY <1>1, <1>12, SyncAssumption DEF HandlerReply
  <2>2. handler[h].ex.objs \subseteq store[Remote[c]].rows
    BY <1>12, SyncAssumption DEF Provenance, CallerEnds, HandlerHolds
  <2>3. \/ client'[c] = IdleClient
        \/ /\ client'[c].ex.objs = cl.ex.objs
           /\ client'[c].todo \in {cl.todo, handler[h].ex.objs}
    BY <1>1, <2>1 DEF Receive, ClientState
  <2>4. CASE client'[c] # IdleClient
    BY <1>1, <2>2, <2>3, <2>4 DEF ClientHolds
  <2>. QED
    BY <1>3, <2>4
<1>13. ASSUME NEW h \in Handlers,
              \/ HandlerReply(h) /\ handler[h].caller # c
              \/ HandlerCheck(h) \/ HandlerFail(h) \/ HandlerExport(h)
              \/ \E o \in Objects : HandlerImport(h, o)
       PROVE  client'[c] = cl \/ client'[c] = IdleClient
  BY <1>1, <1>13
     DEF HandlerReply, HandlerCheck, HandlerFail, HandlerExport, HandlerImport, Error
<1>14. ASSUME NEW x \in Clients,
              \/ \E d \in Directions, scope \in SyncScopes : BeginSync(x, d, scope)
              \/ ClientStep(x), x # c
       PROVE  client'[c] = cl
  BY <1>1, <1>14
     DEF ClientStep, BeginSync, ExportForPeer, ClientExport, SendRequest, ReadPeerRow,
         WritePushed, ClientImport, ClientImported, WritePulled
<1>15. ASSUME NEW x \in Clients, ClientFail(x)
       PROVE  client'[c] = cl \/ client'[c] = IdleClient
  BY <1>1, <1>15 DEF ClientFail, Error
<1>16. ASSUME NEW i \in Items, OpenSession(i) \/ AddItem(i)
       PROVE  client'[c] = cl
  BY <1>16 DEF OpenSession, AddItem
<1>17. CASE UNCHANGED vars
  BY <1>2, <1>17 DEF vars
<1>18. CASE ClientStep(c)
  BY <1>4, <1>5, <1>7, <1>8, <1>9, <1>10, <1>11, <1>18 DEF ClientStep
<1>19. CASE \E h \in Handlers : HandlerStep(h) \/ HandlerFail(h)
  BY <1>2, <1>3, <1>12, <1>13, <1>19 DEF HandlerStep
<1>. HIDE DEF cl
<1>. QED
  BY <1>2, <1>3, <1>5, <1>6, <1>14, <1>15, <1>16, <1>17, <1>18, <1>19 DEF Next

\* What may become of a request thread: a new request of c, the end, or a step
\* of the same request, whose caller may have gone.
Starts(h, c) ==
    /\ handler'[h].from = Home[c] /\ handler'[h].to = Remote[c]
    /\ handler'[h].caller = c
    /\ handler'[h].pc # "free"
    /\ handler'[h].ex.objs = {}
    /\ handler'[h].todo \subseteq client[c].ex.objs

Continues(h) ==
    /\ handler[h].pc # "free" => handler'[h].pc # "free"
    /\ handler'[h].pc # "free" => handler[h].pc # "free"
    /\ handler'[h].from = handler[h].from /\ handler'[h].to = handler[h].to
    /\ handler'[h].caller \in {handler[h].caller, NoClient}
    /\ handler'[h].todo \subseteq handler[h].todo
    /\ handler'[h].ex.objs = handler[h].ex.objs

\* Only HandlerExport changes what a thread is about to return.
LEMMA ThreadSteps ==
    ASSUME Provenance, [Next]_vars, NEW h \in Handlers
    PROVE  \/ handler'[h] = FreeHandler
           \/ \E c \in Clients : Starts(h, c)
           \/ Continues(h)
           \/ HandlerExport(h)
<1> DEFINE hd == handler[h]
<1>1. /\ hd \in HandlerState
      /\ handler \in [Handlers -> HandlerState]
  BY DEF Provenance, TypeOK
<1>2. CASE handler'[h] = hd
  BY <1>2 DEF Continues
<1>3. ASSUME NEW c \in Clients, SendRequest(c, h)
      PROVE  Starts(h, c)
  BY <1>1, <1>3 DEF SendRequest, Starts, BeginExport
<1>4. ASSUME NEW c \in Clients, NEW g \in Handlers, SendRequest(c, g), g # h
      PROVE  handler'[h] = hd
  BY <1>1, <1>4 DEF SendRequest
<1>5. ASSUME NEW c \in Clients, ClientFail(c)
      PROVE  Continues(h)
  <2>1. \/ handler'[h] = hd
        \/ handler'[h] = [hd EXCEPT !.caller = NoClient]
    BY <1>5 DEF ClientFail
  <2>. QED
    BY <1>1, <2>1 DEF Continues, HandlerState
<1>6. CASE HandlerCheck(h)
  <2>1. \/ handler'[h] = FreeHandler
        \/ handler'[h] = [hd EXCEPT !.pc = "exporting"] /\ hd.pc = "check"
    BY <1>1, <1>6 DEF HandlerCheck
  <2>. QED
    BY <1>1, <2>1 DEF Continues, HandlerState
<1>7. ASSUME NEW o \in Objects, HandlerImport(h, o)
      PROVE  Continues(h)
  <2>1. handler'[h] = [hd EXCEPT !.todo = StillToImport(store[hd.to], o, @)]
    BY <1>1, <1>7 DEF HandlerImport
  <2>. QED
    BY <1>1, <2>1, StillToImportSubset DEF Continues, HandlerState
<1>8. CASE HandlerReply(h) \/ HandlerFail(h)
  BY <1>1, <1>8 DEF HandlerReply, HandlerFail
<1>9. ASSUME NEW g \in Handlers, g # h, HandlerStep(g) \/ HandlerFail(g)
      PROVE  handler'[h] = hd
  BY <1>1, <1>9
     DEF HandlerStep, HandlerCheck, HandlerExport, HandlerImport, HandlerReply,
         HandlerFail
<1>10. \/ UNCHANGED handler
       \/ \E c \in Clients, g \in Handlers : SendRequest(c, g)
       \/ \E c \in Clients : ClientFail(c)
       \/ \E g \in Handlers : HandlerStep(g) \/ HandlerFail(g)
  BY DEF Next, vars, ClientStep, OpenSession, AddItem, BeginSync, ExportForPeer,
         ClientExport, ReadPeerRow, WritePushed, ClientImport, ClientImported,
         WritePulled
<1>11. CASE HandlerStep(h) \/ HandlerFail(h)
  BY <1>6, <1>7, <1>8, <1>11 DEF HandlerStep
<1>12. CASE \E c \in Clients, g \in Handlers : SendRequest(c, g)
  <2>1. PICK c \in Clients, g \in Handlers : SendRequest(c, g)
    BY <1>12
  <2>2. CASE g = h
    BY <1>3, <2>1, <2>2
  <2>3. CASE g # h
    BY <1>2, <1>4, <2>1, <2>3
  <2>. QED
    BY <2>2, <2>3
<1>13. CASE \E g \in Handlers : HandlerStep(g) \/ HandlerFail(g)
  <2>1. PICK g \in Handlers : HandlerStep(g) \/ HandlerFail(g)
    BY <1>13
  <2>2. CASE g = h
    BY <1>11, <2>1, <2>2
  <2>3. CASE g # h
    BY <1>2, <1>9, <2>1, <2>3
  <2>. QED
    BY <2>2, <2>3
<1>. QED
  BY <1>2, <1>5, <1>10, <1>12, <1>13

\* A request thread holds nothing its two nodes have not committed.
LEMMA ThreadsHold ==
    ASSUME Provenance, [Next]_vars, NEW h \in Handlers
    PROVE  HandlerHolds(store, handler'[h])
<1>1. /\ handler[h] \in HandlerState
      /\ handler[h].ex \in Export
      /\ handler \in [Handlers -> HandlerState]
      /\ store \in [Nodes -> Store] /\ StoreOk(store)
      /\ HandlerHolds(store, handler[h])
      /\ handler[h].pc # "free" => handler[h].from \in Nodes /\ handler[h].to \in Nodes
  BY DEF Provenance, TypeOK, HandlerState, ThreadEnds
<1>2. CASE handler'[h] = FreeHandler
  BY <1>2 DEF HandlerHolds, FreeHandler
<1>3. ASSUME NEW c \in Clients, Starts(h, c)
      PROVE  HandlerHolds(store, handler'[h])
  BY <1>3 DEF Starts, HandlerHolds, Provenance, ClientHolds
<1>4. CASE Continues(h)
  BY <1>1, <1>4 DEF Continues, HandlerHolds
<1>5. CASE HandlerExport(h)
  <2>1. ExportStep(store[handler[h].to], handler[h].ex).objs
            \subseteq store[handler[h].to].rows
    BY <1>1, <1>5, ExportHolds DEF HandlerExport, HandlerHolds
  <2>2. /\ handler'[h].ex = ExportStep(store[handler[h].to], handler[h].ex)
        /\ handler'[h].todo = handler[h].todo
        /\ handler'[h].from = handler[h].from /\ handler'[h].to = handler[h].to
        /\ handler[h].pc # "free"
    BY <1>1, <1>5 DEF HandlerExport, HandlerState
  <2>. QED
    BY <1>1, <2>1, <2>2 DEF HandlerHolds
<1>. QED
  BY <1>2, <1>3, <1>4, <1>5, ThreadSteps

\* A handler that has a caller stands between that caller's two nodes.
LEMMA CallerEndsStep ==
    ASSUME Provenance, [Next]_vars
    PROVE  CallerEnds'
<1> SUFFICES ASSUME NEW h \in Handlers, handler'[h].caller # NoClient
             PROVE  /\ handler'[h].pc # "free"
                    /\ handler'[h].from = Home[handler'[h].caller]
                    /\ handler'[h].to = Remote[handler'[h].caller]
  BY DEF CallerEnds
<1>1. /\ handler[h] \in HandlerState
      /\ handler \in [Handlers -> HandlerState]
      /\ handler[h].caller # NoClient =>
            /\ handler[h].pc # "free"
            /\ handler[h].from = Home[handler[h].caller]
            /\ handler[h].to = Remote[handler[h].caller]
  BY DEF Provenance, TypeOK, CallerEnds
<1>2. CASE handler'[h] = FreeHandler
  BY <1>2 DEF FreeHandler
<1>3. ASSUME NEW c \in Clients, Starts(h, c)
      PROVE  /\ handler'[h].pc # "free"
             /\ handler'[h].from = Home[handler'[h].caller]
             /\ handler'[h].to = Remote[handler'[h].caller]
  BY <1>3 DEF Starts
<1>4. CASE Continues(h)
  BY <1>1, <1>4 DEF Continues
<1>5. CASE HandlerExport(h)
  <2>1. /\ handler'[h].pc # "free"
        /\ handler'[h].caller = handler[h].caller
        /\ handler'[h].from = handler[h].from /\ handler'[h].to = handler[h].to
    BY <1>1, <1>5 DEF HandlerExport, HandlerState
  <2>. QED
    BY <1>1, <2>1
<1>. QED
  BY <1>2, <1>3, <1>4, <1>5, ThreadSteps

\* Before any row there is nothing to come from anywhere.
LEMMA ProvenanceInit == Init => Provenance
<1> SUFFICES ASSUME Init PROVE Provenance
  OBVIOUS
<1>1. TypeOK /\ ThreadEnds
  BY InitialValues, SyncAssumption DEF Init, TypeOK, ThreadEnds, FreeHandler
<1>2. \A n \in Nodes : store[n].rows = {} /\ store[n].changes = << >>
  BY DEF Init, EmptyStore
<1>3. DOMAIN << >> = {} /\ Len(<< >>) = 0
  OBVIOUS
<1>4. StoreOk(store) /\ OriginOk(store) /\ ChangeLogExact
  <2>1. \A n \in Nodes : Len(store[n].changes) = 0
    BY <1>2, <1>3, Zenon
  <2>2. \A n \in Nodes : DOMAIN store[n].changes = {}
    BY <1>2, <1>3, Zenon
  <2>3. StoreOk(store) /\ OriginOk(store)
    BY <1>2, <2>1 DEF StoreOk, OriginOk
  <2>4. ChangeLogExact
    BY <1>2, <2>2 DEF ChangeLogExact
  <2>. QED
    BY <2>3, <2>4
<1>5. \A c \in Clients : ClientHolds(store, c, client[c])
  BY IdleHolds DEF Init
<1>6. CallerEnds /\ \A h \in Handlers : HandlerHolds(store, handler[h])
  BY DEF Init, FreeHandler, CallerEnds, HandlerHolds
<1>. QED
  BY <1>1, <1>4, <1>5, <1>6 DEF Provenance

\* Every step keeps what is in transit tied to what is stored.
LEMMA ProvenanceStep ==
    ASSUME Provenance, [Next]_vars
    PROVE  Provenance'
<1>1. TypeOK' /\ ThreadEnds'
  BY TypeStep, ThreadEndsStep DEF Provenance
<1>2. Grown(store, store') /\ StoreOk(store') /\ OriginOk(store') /\ ChangeLogExact'
  BY StoreSteps, StoreStepKeeps
<1>3. \A c \in Clients : ClientHolds(store', c, client'[c])
  BY <1>2, ClientsHold, HoldingGrows
<1>4. \A h \in Handlers : HandlerHolds(store', handler'[h])
  <2>1. \A h \in Handlers : HandlerHolds(store, handler'[h])
    BY ThreadsHold
  <2>2. \A h \in Handlers : handler'[h].pc # "free" =>
            handler'[h].from \in Nodes /\ handler'[h].to \in Nodes
    BY <1>1 DEF ThreadEnds
  <2>. QED
    BY <1>2, <2>1, <2>2, HoldingGrows
<1>5. CallerEnds'
  BY CallerEndsStep
<1>. QED
  BY <1>1, <1>2, <1>3, <1>4, <1>5 DEF Provenance

\* Provenance, in every behaviour.
LEMMA ProvenanceHolds == Spec => []Provenance
<1>1. Init => Provenance
  BY ProvenanceInit
<1>2. Provenance /\ [Next]_vars => Provenance'
  BY ProvenanceStep
<1>. QED
  BY <1>1, <1>2, PTL DEF Spec

\* However many writers and importers race on a store, each row has one change
\* record and each record names a row: no import makes a log grow twice.
THEOREM LogsStayExact == Spec => []ChangeLogExact
<1>1. Provenance => ChangeLogExact
  BY DEF Provenance
<1>. QED
  BY <1>1, ProvenanceHolds, PTL

\* The row an export leaves out because the peer is its recorded origin is at
\* that peer, whatever the scopes of the syncs: the exclusion loses nothing.
THEOREM ExclusionIsSafe == Spec => []OriginHolds
<1>1. Provenance => OriginHolds
  <2> SUFFICES ASSUME Provenance PROVE OriginHolds
    OBVIOUS
  <2>1. \A n \in Nodes : DOMAIN store[n].changes = 1..Len(store[n].changes)
    BY DEF Provenance, TypeOK, Store
  <2>. QED
    BY <2>1 DEF Provenance, OriginOk, OriginHolds
<1>. QED
  BY <1>1, ProvenanceHolds, PTL

\* The protocol implements ReplicatedRows: whatever is lost, repeated or
\* interrupted, a row is written by its author, spreads only from a node that
\* holds it, follows its session, and is never altered or deleted.
THEOREM RowsAreReplicated == Spec => ReplicatesRows
<1>1. Init => Replica!Init
  BY DEF Init, Replica!Init, EmptyStore
<1>2. Provenance /\ [Next]_vars => [Replica!Next]_([n \in Nodes |-> store[n].rows])
  BY StoreSteps, ReplicaStep
<1>. QED
  BY <1>1, <1>2, ProvenanceHolds, PTL DEF Spec, ReplicatesRows, Replica!Spec

-----------------------------------------------------------------------------
(* Cursors.                                                                 *)

\* No two processes of one node sync with the same remote.
OneProcess ==
    \A c, d \in Clients : Home[c] = Home[d] /\ Remote[c] = Remote[d] => c = d

\* The peers' rows are written by WritePushed and WritePulled alone.
LEMMA RowWriters ==
    ASSUME [Next]_vars
    PROVE  \/ UNCHANGED peers
           \/ \E c \in Clients : WritePushed(c) \/ WritePulled(c)
BY DEF Next, vars, ClientStep, HandlerStep, OpenSession, AddItem, BeginSync,
       ExportForPeer, ClientExport, SendRequest, ReadPeerRow, ClientImport,
       ClientImported, ClientFail, HandlerCheck, HandlerExport, HandlerImport,
       HandlerReply, HandlerFail

\* A process is about to write a row only after it has read it.
LEMMA WritersHaveRead ==
    ASSUME TypeOK, [Next]_vars, NEW c \in Clients,
           client'[c].pc \in {"writePushed", "writePulled"}
    PROVE  \/ client'[c] = client[c]
           \/ client'[c].row = peers[Home[c]][Remote[c]] /\ UNCHANGED peers
<1> DEFINE cl == client[c]
<1>1. /\ client \in [Clients -> ClientState]
      /\ cl \in ClientState
  BY DEF TypeOK
<1>2. client'[c] # IdleClient
  BY DEF IdleClient
<1>3. ASSUME NEW d \in Clients, ClientStep(d), d # c
      PROVE  client'[c] = cl
  BY <1>1, <1>3
     DEF ClientStep, ExportForPeer, ClientExport, SendRequest, ReadPeerRow,
         WritePushed, ClientImport, ClientImported, WritePulled
<1>4. CASE ReadPeerRow(c)
  BY <1>1, <1>4 DEF ReadPeerRow, ClientState
<1>5. CASE \/ ExportForPeer(c) \/ ClientExport(c) \/ WritePushed(c)
           \/ ClientImported(c) \/ WritePulled(c)
           \/ \E h \in Handlers : SendRequest(c, h)
           \/ \E o \in Objects : ClientImport(c, o)
  <2>1. CASE ExportForPeer(c) \/ ClientExport(c)
    BY <1>1, <2>1 DEF ExportForPeer, ClientExport, ClientState
  <2>2. CASE WritePushed(c) \/ WritePulled(c)
    BY <1>1, <1>2, <2>2 DEF WritePushed, WritePulled, ClientState
  <2>3. CASE ClientImported(c)
    BY <1>1, <1>2, <2>3 DEF ClientImported, ClientState
  <2>4. CASE \E h \in Handlers : SendRequest(c, h)
    BY <1>1, <2>4 DEF SendRequest, ClientState
  <2>5. CASE \E o \in Objects : ClientImport(c, o)
    BY <1>1, <2>5 DEF ClientImport, ClientState
  <2>. QED
    BY <1>5, <2>1, <2>2, <2>3, <2>4, <2>5
<1>6. ASSUME NEW d \in Clients, NEW x \in Directions, NEW scope \in SyncScopes,
             BeginSync(d, x, scope)
      PROVE  client'[c] = cl
  BY <1>1, <1>6 DEF BeginSync, IdleClient
<1>7. ASSUME NEW d \in Clients, ClientFail(d)
      PROVE  client'[c] = cl
  BY <1>1, <1>2, <1>7 DEF ClientFail, Error
<1>8. ASSUME NEW h \in Handlers, HandlerStep(h) \/ HandlerFail(h)
      PROVE  client'[c] = cl
  <2>1. CASE ~HandlerReply(h)
    BY <1>1, <1>2, <1>8, <2>1
       DEF HandlerStep, HandlerFail, HandlerCheck, HandlerExport, HandlerImport, Error
  <2>2. CASE HandlerReply(h)
    BY <1>1, <1>2, <2>2 DEF HandlerReply, Receive, ClientState
  <2>. QED
    BY <2>1, <2>2
<1>9. ASSUME NEW i \in Items, OpenSession(i) \/ AddItem(i)
      PROVE  client'[c] = cl
  BY <1>9 DEF OpenSession, AddItem
<1>10. CASE UNCHANGED vars
  BY <1>10 DEF vars
<1>11. CASE ClientStep(c)
  BY <1>4, <1>5, <1>11 DEF ClientStep
<1>. HIDE DEF cl
<1>12. client'[c] = cl \/ (client'[c].row = peers[Home[c]][Remote[c]] /\ UNCHANGED peers)
  BY <1>3, <1>6, <1>7, <1>8, <1>9, <1>10, <1>11 DEF Next, cl
<1>. QED
  BY <1>12 DEF cl

\* With one process at a time, the row it writes from is the row there is.
LEMMA RowIsCurrentStep ==
    ASSUME OneProcess, TypeOK, RowIsCurrent, [Next]_vars
    PROVE  RowIsCurrent'
<1> SUFFICES ASSUME NEW c \in Clients, client'[c].pc \in {"writePushed", "writePulled"}
             PROVE  client'[c].row = peers'[Home[c]][Remote[c]]
  BY DEF RowIsCurrent
<1>1. CASE UNCHANGED peers
  BY <1>1, WritersHaveRead DEF RowIsCurrent
<1>2. ASSUME NEW d \in Clients, WritePushed(d) \/ WritePulled(d)
      PROVE  client'[c].row = peers'[Home[c]][Remote[c]]
  <2>1. client'[d].pc \notin {"writePushed", "writePulled"}
    <3>1. client \in [Clients -> ClientState] /\ client[d] \in ClientState
      BY DEF TypeOK
    <3>2. \/ client'[d] = IdleClient
          \/ client'[d] = [client[d] EXCEPT !.pc = "import", !.row = NoRow]
      BY <1>2, <3>1 DEF WritePushed, WritePulled
    <3>3. IdleClient.pc = "idle"
      BY DEF IdleClient
    <3>4. [client[d] EXCEPT !.pc = "import", !.row = NoRow].pc = "import"
      BY <3>1 DEF ClientState
    <3>5. client'[d].pc = "idle" \/ client'[d].pc = "import"
      BY <3>2, <3>3, <3>4, Zenon
    <3>. QED
      BY <3>5
  <2>2. c # d /\ ~(Home[c] = Home[d] /\ Remote[c] = Remote[d])
    BY <2>1 DEF OneProcess
  <2>3. client'[c] = client[c]
    BY <1>2, <2>2 DEF WritePushed, WritePulled, TypeOK
  <2>4. peers'[Home[c]][Remote[c]] = peers[Home[c]][Remote[c]]
    BY <1>2, <2>2, EndsType DEF WritePushed, WritePulled, TypeOK
  <2>. QED
    BY <2>3, <2>4 DEF RowIsCurrent
<1>. QED
  BY <1>1, <1>2, RowWriters

\* A write of the row that was read raises one column and keeps the other.
LEMMA WritesAdvance ==
    ASSUME TypeOK, RowIsCurrent, [Next]_vars, NEW n \in Nodes, NEW m \in Nodes
    PROVE  /\ peers'[n][m].pushed >= peers[n][m].pushed
           /\ peers'[n][m].pulled >= peers[n][m].pulled
<1>1. /\ peers \in [Nodes -> [Nodes -> Row]]
      /\ peers[n][m].pushed \in Nat
      /\ peers[n][m].pulled \in Nat
  BY DEF TypeOK, Row
<1>2. CASE peers'[n][m] = peers[n][m]
  BY <1>1, <1>2
<1>3. ASSUME NEW c \in Clients, WritePushed(c) \/ WritePulled(c), Home[c] = n, Remote[c] = m
      PROVE  /\ peers'[n][m].pushed >= peers[n][m].pushed
             /\ peers'[n][m].pulled >= peers[n][m].pulled
  <2>1. client[c].row = peers[n][m]
    BY <1>3 DEF RowIsCurrent, WritePushed, WritePulled
  <2>2. client[c].ack \in Nat /\ client[c].cursor \in Nat
    BY DEF TypeOK, ClientState
  <2>3. CASE WritePushed(c)
    <3>1. peers'[n][m] = [pushed |-> Larger(peers[n][m].pushed, client[c].ack),
                          pulled |-> peers[n][m].pulled]
      BY <1>1, <1>3, <2>1, <2>3 DEF WritePushed
    <3>. QED
      BY <1>1, <2>2, <3>1 DEF Larger
  <2>4. CASE WritePulled(c)
    <3>1. peers'[n][m] = [pushed |-> peers[n][m].pushed,
                          pulled |-> Larger(peers[n][m].pulled, client[c].cursor)]
      BY <1>1, <1>3, <2>1, <2>4 DEF WritePulled
    <3>. QED
      BY <1>1, <2>2, <3>1 DEF Larger
  <2>. QED
    BY <1>3, <2>3, <2>4
<1>4. ASSUME NEW c \in Clients, WritePushed(c) \/ WritePulled(c),
             ~(Home[c] = n /\ Remote[c] = m)
      PROVE  peers'[n][m] = peers[n][m]
  BY <1>1, <1>4, EndsType DEF WritePushed, WritePulled
<1>. QED
  BY <1>2, <1>3, <1>4, RowWriters

\* Where no two processes of a node sync with one remote, peer cursors never go
\* back: the maximum is taken against the row that is overwritten.  With two
\* processes they do.
THEOREM CursorsOnlyAdvance ==
    ASSUME OneProcess
    PROVE  Spec => CursorsAdvance
<1>1. Init => RowIsCurrent
  BY DEF Init, IdleClient, RowIsCurrent
<1>2. TypeOK /\ RowIsCurrent /\ [Next]_vars => RowIsCurrent'
  BY RowIsCurrentStep
<1>3. TypeOK /\ RowIsCurrent /\ [Next]_vars =>
          [\A n, m \in Nodes : /\ peers'[n][m].pushed >= peers[n][m].pushed
                               /\ peers'[n][m].pulled >= peers[n][m].pulled]_vars
  BY WritesAdvance
<1>. QED
  BY <1>1, <1>2, <1>3, TypeCorrect, PTL DEF Spec, CursorsAdvance
=============================================================================
