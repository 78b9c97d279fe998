----------------------------- MODULE PhoneProofs -----------------------------
(***************************************************************************)
(* For every set of activities, items and sessions: the cursors the app    *)
(* keeps are backed by its rows, no native model is held by two runtimes,  *)
(* no import that met no other loses the last whole model file, and the    *)
(* responder stops without an error.  The three parts share only the       *)
(* workers: the steps of one are quiet for the others.                     *)
(***************************************************************************)
EXTENDS PhoneApp, MemoryStoreProofs

----------------------------------------------------------------------------
(***************************************************************************)
(* Synchronization: the cursor of every export, and every cursor kept, in  *)
(* memory or on disk, is backed by the rows of the phone.                  *)
(***************************************************************************)

SyncType ==
    /\ rows \subseteq Objects
    /\ node \in Store
    /\ prefs \in [SyncScopes -> Nat] /\ saved \in [SyncScopes -> Nat]
    /\ sync \in [Workers -> [pc : SyncPcs, ex : Export]]
    /\ incoming \in [Workers -> SUBSET Objects]

LogNamesRows(st) == \A k \in 1 .. Len(st.changes) : st.changes[k].entity \in st.rows

\* Every change of st up to the cursor, in the scope, is among the given rows.
Backed(st, cursor, scope, have) ==
    /\ cursor <= Len(st.changes)
    /\ \A k \in 1 .. cursor : InScope(st.changes[k].entity, scope) => st.changes[k].entity \in have

\* The kinds of rows that an export has read at a stage.
ReadBy(stage) ==
    CASE stage = "messages" -> Sessions
      [] stage = "artifacts" -> Sessions \union Messages
      [] stage = "done" -> Objects
      [] OTHER -> {}

\* An export of st carries, of those kinds, every change between its cursors.
Carries(st, ex) ==
    /\ ex.exclude = NoNode
    /\ ex.cursor <= Len(st.changes)
    /\ \A k \in 1 .. ex.cursor :
          k > ex.after /\ InScope(st.changes[k].entity, ex.scope)
          /\ st.changes[k].entity \in ReadBy(ex.stage) => st.changes[k].entity \in ex.objs

\* What the local variables of a synchronization owe to its cursors.
WorkerOk(st, have, s) ==
    s.pc # "idle" =>
        /\ s.ex.scope \in SyncScopes
        /\ Carries(st, s.ex)
        /\ Backed(st, s.ex.after, s.ex.scope, have)
        /\ s.pc = "save" => Backed(st, s.ex.cursor, s.ex.scope, have)

SyncInv ==
    /\ SyncType
    /\ LogNamesRows(node)
    /\ \A scope \in SyncScopes : Backed(node, prefs[scope], scope, rows)
    /\ \A scope \in SyncScopes : Backed(node, saved[scope], scope, rows)
    /\ \A w \in Workers : WorkerOk(node, rows, sync[w])

----------------------------------------------------------------------------
(***************************************************************************)
(* The local model: the file, and the handles.                             *)
(***************************************************************************)

JobState ==
    [kind : {"none", "import", "local"},
     pc : {"idle", "transfer", "delete", "rename", "copy", "load", "loading", "ask", "generating"}]

ModelType ==
    /\ model \in {"none", "whole", "torn"} /\ part \in {"none", "whole", "torn"}
    /\ stream \in [Runners -> {"none", "part", "model", "gone"}] /\ met \subseteq Runners
    /\ job \in [Runners -> JobState]
    /\ assigned \in [Runners -> BOOLEAN]
    /\ made \in Nat
    /\ handle \in [Runners -> 0 .. made]
    /\ alive \subseteq 1 .. made

\* Two imports at once have met; one that has met none writes the .part file, and
\* has a whole copy there before it touches the model file, which a copy has made anew.
FileOk ==
    /\ \A v, w \in Runners : Importing(v) /\ Importing(w) /\ v # w => v \in met
    /\ \A w \in Runners \ met :
        /\ job[w].pc = "transfer" => stream[w] = "part" /\ part = "torn"
        /\ job[w].pc \in {"delete", "rename", "copy"} => part = "whole"
        /\ job[w].pc = "copy" => model # "none"

\* No model is lost when a worker loads another one, and the main thread can see
\* every runtime that has one.
HandleOk ==
    /\ HandlesOwned
    /\ \A w \in Runners : job[w].pc = "loading" => handle[w] = 0
    /\ \A w \in Runners : handle[w] # 0 => assigned[w]

ModelInv == ModelType /\ FileOk /\ HandleOk

----------------------------------------------------------------------------
(***************************************************************************)
(* The app.                                                                *)
(***************************************************************************)

DiscoveryInv ==
    /\ serving \in {"off", "on", "stopping", "closed"}
    /\ serving \in {"stopping", "closed"} => stopped
    /\ thread \in {"none", "loop", "recv", "reply", "gave_up", "ended", "dead"}
    /\ thread = "none" <=> serving = "off"
    /\ thread \in {"reply", "gave_up"} <=> sender # "junk"
    /\ scan \in [Scanners -> {"idle", "test", "recv"}]

\* A worker does one thing at a time, and none before its activity; one whose
\* activity is being destroyed and that was not caught at a task has no model.
AppInv ==
    /\ life \in [Workers -> {"unborn", "live", "closing", "gone"}]
    /\ \A w \in Workers :
        /\ life[w] = "unborn" => sync[w].pc = "idle" /\ job[w] = NoJob /\ ~Scanning(w)
        /\ sync[w].pc # "idle" => job[w] = NoJob
        /\ life[w] \in {"closing", "gone"} /\ w \notin caught => job[w] = NoJob /\ handle[w] = 0

IInv == SyncInv /\ ModelInv /\ DiscoveryInv /\ AppInv

----------------------------------------------------------------------------
(***************************************************************************)
(* Lemmas about the parts of a store.                                      *)
(***************************************************************************)

\* What is backed stays backed when both sides grow.
LEMMA BackedGrows ==
    ASSUME NEW st \in Store, NEW new \in Store, Extends(st, new),
           NEW have, NEW more, have \subseteq more,
           NEW cursor \in Nat, NEW scope,
           Backed(st, cursor, scope, have)
    PROVE  Backed(new, cursor, scope, more)
<1>1. /\ Len(st.changes) \in Nat /\ Len(new.changes) \in Nat
      /\ Len(st.changes) <= Len(new.changes)
      /\ \A k \in 1 .. Len(st.changes) : new.changes[k] = st.changes[k]
      /\ cursor <= Len(st.changes)
  BY DEF Extends, Store, Backed
<1>2. \A k \in 1 .. cursor : k \in 1 .. Len(st.changes)
  BY <1>1
<1>. QED
  BY <1>1, <1>2 DEF Backed

\* So is the bundle of an export.
LEMMA CarriesGrows ==
    ASSUME NEW st \in Store, NEW new \in Store, Extends(st, new),
           NEW ex \in Export, Carries(st, ex)
    PROVE  Carries(new, ex)
<1>1. /\ Len(st.changes) \in Nat /\ Len(new.changes) \in Nat
      /\ Len(st.changes) <= Len(new.changes)
      /\ \A k \in 1 .. Len(st.changes) : new.changes[k] = st.changes[k]
      /\ ex.cursor \in Nat /\ ex.cursor <= Len(st.changes)
  BY DEF Extends, Store, Export, Carries
<1>2. \A k \in 1 .. ex.cursor : k \in 1 .. Len(st.changes)
  BY <1>1
<1>. QED
  BY <1>1, <1>2 DEF Carries

\* A worker that owes nothing more owes nothing more to larger stores.
LEMMA WorkerGrows ==
    ASSUME NEW st \in Store, NEW new \in Store, Extends(st, new),
           NEW have, NEW more, have \subseteq more,
           NEW s \in [pc : SyncPcs, ex : Export], WorkerOk(st, have, s)
    PROVE  WorkerOk(new, more, s)
<1>1. s.ex \in Export /\ s.ex.after \in Nat /\ s.ex.cursor \in Nat
  BY DEF Export
<1>. QED
  BY <1>1, BackedGrows, CarriesGrows DEF WorkerOk

\* Every statement of an export keeps its debt to its cursor.
LEMMA ExportStepCarries ==
    ASSUME NEW st \in Store, LogNamesRows(st), NEW ex \in Export, Carries(st, ex)
    PROVE  Carries(st, ExportStep(st, ex))
<1> DEFINE log == st.changes
           next == ExportStep(st, ex)
<1>1. /\ Len(log) \in Nat
      /\ \A k \in 1 .. Len(log) : log[k].entity \in Objects /\ log[k].entity \in st.rows
  BY StoreFields DEF LogNamesRows
<1>2. /\ ex.exclude = NoNode /\ ex.cursor \in Nat /\ ex.cursor <= Len(log)
      /\ ex.stage \in Stages
      /\ \A k \in 1 .. ex.cursor : k \in 1 .. Len(log)
  BY <1>1 DEF Carries, Export
<1>3. CASE ex.stage = "cursor"
  <2> DEFINE stage == IF ex.after > 0 \/ ex.exclude # NoNode THEN "changes" ELSE "sessions"
  <2>1. next = [ex EXCEPT !.cursor = CurrentCursor(st, ex.scope), !.stage = stage]
    BY <1>3 DEF ExportStep
  <2>2. stage \in {"changes", "sessions"}
    OBVIOUS
  <2>3. next.cursor = CurrentCursor(st, ex.scope) /\ next.stage = stage
        /\ next.exclude = ex.exclude
    BY <2>1 DEF Export
  <2>4. ReadBy(next.stage) = {}
    BY <2>2, <2>3 DEF ReadBy
  <2>5. next.cursor <= Len(log)
    BY <2>3, CurrentCursorType
  <2>. HIDE DEF stage, next
  <2>. QED
    BY <1>2, <2>3, <2>4, <2>5 DEF Carries, next
<1>4. CASE ex.stage = "changes"
  <2>1. /\ next.objs = Delta(st, ex)
        /\ next.exclude = ex.exclude /\ next.cursor = ex.cursor
        /\ next.after = ex.after /\ next.scope = ex.scope
    BY <1>4 DEF ExportStep, Export
  <2>2. ASSUME NEW k \in 1 .. ex.cursor, k > ex.after, InScope(log[k].entity, ex.scope)
        PROVE  log[k].entity \in Delta(st, ex)
    <3>1. k \in ChangedIn(st, ex)
      BY <1>2, <2>2 DEF ChangedIn
    <3>. QED
      BY <3>1 DEF Delta
  <2>. HIDE DEF next
  <2>. QED
    BY <1>2, <2>1, <2>2 DEF Carries, next
<1>5. CASE ex.stage \in {"sessions", "messages", "artifacts", "done"}
  <2> DEFINE kind == IF ex.stage = "sessions" THEN Sessions
                     ELSE IF ex.stage = "messages" THEN Messages ELSE Artifacts
  <2>1. /\ RowsOf(st, kind, ex.scope) \subseteq next.objs
        /\ ex.stage # "sessions" => ex.objs \subseteq next.objs
        /\ next.exclude = ex.exclude /\ next.cursor = ex.cursor
        /\ next.after = ex.after /\ next.scope = ex.scope
    BY <1>5 DEF ExportStep, Export
  <2>2. ReadBy(next.stage) \subseteq
           kind \union (IF ex.stage = "sessions" THEN {} ELSE ReadBy(ex.stage))
    BY <1>5 DEF ReadBy, ExportStep, Export, Objects, Items
  <2>3. ASSUME NEW k \in 1 .. ex.cursor, k > ex.after, InScope(log[k].entity, ex.scope),
               log[k].entity \in ReadBy(next.stage)
        PROVE  log[k].entity \in next.objs
    <3>1. CASE log[k].entity \in kind
      <4>1. log[k].entity \in RowsOf(st, kind, ex.scope)
        BY <1>1, <1>2, <2>3, <3>1 DEF RowsOf
      <4>. QED
        BY <2>1, <4>1
    <3>2. CASE log[k].entity \notin kind
      <4>1. log[k].entity \in ReadBy(ex.stage) /\ ex.stage # "sessions"
        BY <2>2, <2>3, <3>2
      <4>2. log[k].entity \in ex.objs
        BY <2>3, <4>1 DEF Carries
      <4>. QED
        BY <2>1, <4>1, <4>2
    <3>. QED
      BY <3>1, <3>2
  <2>. HIDE DEF next, kind
  <2>. QED
    BY <1>2, <2>1, <2>3 DEF Carries, next
<1>. QED
  BY <1>2, <1>3, <1>4, <1>5 DEF Stages

----------------------------------------------------------------------------
(***************************************************************************)
(* The steps of a synchronization.                                         *)
(***************************************************************************)

\* No worker starts to synchronize.
NoSyncStarts == \A w \in Workers : sync[w].pc = "idle" => sync'[w].pc = "idle"

\* The worker at rest owes nothing.
LEMMA RestingWorker ==
    /\ NoSync \in [pc : SyncPcs, ex : Export]
    /\ NoSync.pc = "idle"
    /\ \A st, have : WorkerOk(st, have, NoSync)
<1>1. NoSync.ex \in Export
  BY BeginExportType DEF NoSync, Scopes, Origins
<1>. QED
  BY <1>1 DEF NoSync, SyncPcs, WorkerOk

\* The stores grow, everything else of the synchronization but the pending
\* import of a push stays: the invariant stays too.
LEMMA StoresGrow ==
    ASSUME SyncInv, node' \in Store, Extends(node, node'), LogNamesRows(node'),
           rows \subseteq rows', rows' \subseteq Objects,
           UNCHANGED <<prefs, saved, sync>>, incoming' \in [Workers -> SUBSET Objects]
    PROVE  SyncInv' /\ NoSyncStarts
<1>1. SyncType'
  BY DEF SyncInv, SyncType
<1>2. LogNamesRows(node)'
  BY DEF LogNamesRows
<1>3. ASSUME NEW scope \in SyncScopes
      PROVE  Backed(node', prefs'[scope], scope, rows') /\ Backed(node', saved'[scope], scope, rows')
  <2>1. prefs[scope] \in Nat /\ saved[scope] \in Nat /\ node \in Store
    BY DEF SyncInv, SyncType
  <2>2. Backed(node, prefs[scope], scope, rows) /\ Backed(node, saved[scope], scope, rows)
    BY DEF SyncInv
  <2>. QED
    BY <2>1, <2>2, BackedGrows
<1>4. ASSUME NEW w \in Workers
      PROVE  WorkerOk(node', rows', sync'[w])
  <2>1. sync[w] \in [pc : SyncPcs, ex : Export] /\ node \in Store
    BY DEF SyncInv, SyncType
  <2>. QED
    BY <2>1, WorkerGrows DEF SyncInv
<1>5. NoSyncStarts
  BY DEF NoSyncStarts
<1>. QED
  BY <1>1, <1>2, <1>3, <1>4, <1>5 DEF SyncInv

\* What a store that grew by an insertion still does.
LEMMA GrownNamesRows ==
    ASSUME NEW st \in Store, NEW new, NEW objs, NEW origin,
           GrownBy(st, new, objs, origin), LogNamesRows(st)
    PROVE  new \in Store /\ Extends(st, new) /\ LogNamesRows(new)
<1>1. /\ new \in Store /\ Extends(st, new)
      /\ \A k \in 1 .. Len(new.changes) :
            k \in 1 .. Len(st.changes) \/ new.changes[k].entity \in new.rows
  BY DEF GrownBy
<1>2. \A k \in 1 .. Len(st.changes) : new.changes[k].entity \in new.rows
  BY <1>1 DEF Extends, LogNamesRows
<1>. QED
  BY <1>1, <1>2 DEF LogNamesRows

\* A user writes on the phone.
LEMMA AddOnPhoneStep ==
    ASSUME SyncInv, NEW m \in Messages, AddOnPhone(m)
    PROVE  SyncInv' /\ NoSyncStarts
<1>1. m \in Objects /\ SessionIn(m) \in Objects
  BY SessionInType, SessionsAreObjects DEF Objects, Items
<1>2. rows' = rows \union {m, SessionIn(m)} /\ UNCHANGED <<node, prefs, saved, sync, incoming>>
  BY DEF AddOnPhone
<1>3. Extends(node, node)
  <2>1. Len(node.changes) \in Nat
    BY DEF SyncInv, SyncType, Store
  <2>. QED
    BY <2>1 DEF Extends
<1>. QED
  BY <1>1, <1>2, <1>3, StoresGrow DEF SyncInv, SyncType

\* Two growths of a store are one.
LEMMA ExtendsTransitive ==
    ASSUME NEW a \in Store, NEW b \in Store, NEW c \in Store, Extends(a, b), Extends(b, c)
    PROVE  Extends(a, c)
<1>1. Len(a.changes) \in Nat /\ Len(b.changes) \in Nat /\ Len(c.changes) \in Nat
  BY DEF Store
<1>2. Len(a.changes) <= Len(b.changes) /\ Len(b.changes) <= Len(c.changes)
  BY DEF Extends
<1>3. \A k \in 1 .. Len(a.changes) : k \in 1 .. Len(b.changes)
  BY <1>1, <1>2
<1>. QED
  BY <1>1, <1>2, <1>3 DEF Extends

\* A user writes on the node.
LEMMA AddOnNodeStep ==
    ASSUME SyncInv, NEW o \in Items, AddOnNode(o)
    PROVE  SyncInv' /\ NoSyncStarts
<1> DEFINE opened == EnsureSession(node, o, NoNode)
<1>1. o \in Objects /\ SessionIn(o) \in Objects /\ NoNode \in Origins
  BY SessionInType, SessionsAreObjects DEF Objects, Origins
<1>2. node \in Store /\ LogNamesRows(node)
  BY DEF SyncInv, SyncType
<1>3. opened \in Store /\ Extends(node, opened) /\ LogNamesRows(opened)
  <2>1. GrownBy(node, opened, {SessionIn(o)}, NoNode)
    BY <1>1, <1>2, InsertProperties DEF EnsureSession
  <2>. QED
    BY <1>2, <2>1, GrownNamesRows
<1>4. node' = Insert(opened, o, NoNode) /\ UNCHANGED <<rows, prefs, saved, sync, incoming>>
  BY DEF AddOnNode
<1>. HIDE DEF opened
<1>5. GrownBy(opened, node', {o}, NoNode)
  BY <1>1, <1>3, <1>4, InsertProperties
<1>6. node' \in Store /\ Extends(opened, node') /\ LogNamesRows(node')
  BY <1>3, <1>5, GrownNamesRows
<1>7. Extends(node, node')
  BY <1>2, <1>3, <1>6, ExtendsTransitive
<1>. QED
  BY <1>4, <1>6, <1>7, StoresGrow DEF SyncInv, SyncType

\* The node imports one object of a push.
LEMMA NodeImportStep ==
    ASSUME SyncInv, NEW w \in Workers, NEW o \in Objects, NodeImport(w, o)
    PROVE  SyncInv' /\ NoSyncStarts
<1>1. node \in Store /\ LogNamesRows(node) /\ phone \in Origins
  BY AndroidAssumption DEF SyncInv, SyncType, Origins
<1>2. /\ node' = ImportStep(node, o, phone)
      /\ incoming' = [incoming EXCEPT ![w] = StillToImport(node, o, @)]
      /\ UNCHANGED <<rows, prefs, saved, sync>>
  BY DEF NodeImport
<1>3. GrownBy(node, node', {o, SessionIn(o)}, phone)
  BY <1>1, <1>2, ImportStepProperties
<1>4. node' \in Store /\ Extends(node, node') /\ LogNamesRows(node')
  BY <1>1, <1>3, GrownNamesRows
<1>5. incoming' \in [Workers -> SUBSET Objects]
  <2>1. incoming \in [Workers -> SUBSET Objects]
    BY DEF SyncInv, SyncType
  <2>2. StillToImport(node, o, incoming[w]) \subseteq Objects
    BY <2>1 DEF StillToImport
  <2>. QED
    BY <1>2, <2>1, <2>2
<1>. QED
  BY <1>2, <1>4, <1>5, StoresGrow DEF SyncInv, SyncType

\* One worker moves, and owes no more than it can account for.
LEMMA WorkerMoves ==
    ASSUME SyncInv, NEW w \in Workers, NEW s \in [pc : SyncPcs, ex : Export],
           sync' = [sync EXCEPT ![w] = s], WorkerOk(node, rows, s),
           UNCHANGED <<rows, node, prefs, saved>>, incoming' \in [Workers -> SUBSET Objects]
    PROVE  /\ SyncInv'
           /\ \A v \in Workers \ {w} : sync'[v] = sync[v]
           /\ sync'[w] = s
<1>1. sync \in [Workers -> [pc : SyncPcs, ex : Export]]
  BY DEF SyncInv, SyncType
<1>2. SyncType'
  BY <1>1 DEF SyncInv, SyncType
<1>3. \A v \in Workers : sync'[v] = IF v = w THEN s ELSE sync[v]
  BY <1>1
<1>4. \A v \in Workers : WorkerOk(node', rows', sync'[v])
  BY <1>3 DEF SyncInv
<1>. QED
  BY <1>2, <1>3, <1>4 DEF SyncInv

\* A worker begins to synchronize: it owes what the cursor owes.
LEMMA BeginSyncStep ==
    ASSUME SyncInv, NEW w \in Workers, NEW scope \in SyncScopes, BeginSync(w, scope)
    PROVE  SyncInv' /\ \A v \in Workers \ {w} : sync'[v] = sync[v]
<1> DEFINE ex == BeginExport(prefs[scope], scope, NoNode)
           s == [pc |-> "export", ex |-> ex]
<1>1. /\ prefs[scope] \in Nat /\ scope \in Scopes /\ NoNode \in Origins
      /\ Backed(node, prefs[scope], scope, rows) /\ Len(node.changes) \in Nat
  BY AndroidAssumption DEF SyncInv, SyncType, Origins, Store
<1>2. ex \in Export
  BY <1>1, BeginExportType
<1>3. ex.after = prefs[scope] /\ ex.scope = scope /\ ex.exclude = NoNode /\ ex.cursor = 0
  BY DEF BeginExport
<1>4. Carries(node, ex)
  BY <1>1, <1>3 DEF Carries
<1>5. s \in [pc : SyncPcs, ex : Export] /\ s.pc = "export" /\ s.ex = ex
  BY <1>2 DEF SyncPcs
<1>6. WorkerOk(node, rows, s)
  BY <1>1, <1>3, <1>4, <1>5 DEF WorkerOk
<1>7. sync' = [sync EXCEPT ![w] = s] /\ UNCHANGED <<rows, node, prefs, saved, incoming>>
  BY DEF BeginSync
<1>. HIDE DEF ex, s
<1>. QED
  BY <1>5, <1>6, <1>7, WorkerMoves DEF SyncInv, SyncType

\* The worker that moves was at work, so that nobody starts.
LEMMA WorkerMovesOn ==
    ASSUME SyncInv, NEW w \in Workers, sync[w].pc # "idle",
           NEW s \in [pc : SyncPcs, ex : Export],
           sync' = [sync EXCEPT ![w] = s], WorkerOk(node, rows, s),
           UNCHANGED <<rows, node, prefs, saved>>, incoming' \in [Workers -> SUBSET Objects]
    PROVE  SyncInv' /\ NoSyncStarts
BY WorkerMoves DEF NoSyncStarts

\* What a worker at work has.
LEMMA WorkerFields ==
    ASSUME SyncInv, NEW w \in Workers
    PROVE  /\ sync[w].ex \in Export /\ sync[w].pc \in SyncPcs
           /\ sync[w].ex.after \in Nat /\ sync[w].ex.cursor \in Nat /\ sync[w].ex.objs \subseteq Objects
           /\ sync[w] = [pc |-> sync[w].pc, ex |-> sync[w].ex]
           /\ sync \in [Workers -> [pc : SyncPcs, ex : Export]]
           /\ incoming \in [Workers -> SUBSET Objects]
           /\ WorkerOk(node, rows, sync[w])
<1>1. sync[w] \in [pc : SyncPcs, ex : Export]
  BY DEF SyncInv, SyncType
<1>. QED
  BY <1>1 DEF SyncInv, SyncType, Export

\* A move to another statement, with the same export.
LEMMA PcMoves ==
    ASSUME SyncInv, NEW w \in Workers, sync[w].pc # "idle", NEW pc \in {"push", "pull"},
           sync' = [sync EXCEPT ![w].pc = pc],
           UNCHANGED <<rows, node, prefs, saved>>, incoming' \in [Workers -> SUBSET Objects]
    PROVE  SyncInv' /\ NoSyncStarts
<1> DEFINE s == [pc |-> pc, ex |-> sync[w].ex]
<1>1. s \in [pc : SyncPcs, ex : Export] /\ s.pc = pc /\ s.ex = sync[w].ex
  BY WorkerFields DEF SyncPcs
<1>2. [sync[w] EXCEPT !.pc = pc] = s
  <2>1. sync[w] \in [pc : SyncPcs, ex : Export]
    BY WorkerFields
  <2>. QED
    BY <2>1
<1>3. sync' = [sync EXCEPT ![w] = s]
  BY <1>2
<1>4. WorkerOk(node, rows, s)
  BY <1>1, WorkerFields DEF WorkerOk
<1>. HIDE DEF s
<1>. QED
  BY <1>1, <1>3, <1>4, WorkerMovesOn

\* The node runs one statement of its export for the worker.
LEMMA NodeExportStep ==
    ASSUME SyncInv, NEW w \in Workers, NodeExport(w)
    PROVE  SyncInv' /\ NoSyncStarts
<1> DEFINE ex == ExportStep(node, sync[w].ex)
           s == [pc |-> sync[w].pc, ex |-> ex]
<1>1. node \in Store /\ LogNamesRows(node) /\ sync[w].ex \in Export /\ sync[w].pc = "pull"
  BY WorkerFields DEF SyncInv, SyncType, NodeExport
<1>2. ex \in Export /\ ex.after = sync[w].ex.after /\ ex.scope = sync[w].ex.scope
  BY <1>1, ExportStepType
<1>3. sync[w].ex.scope \in SyncScopes /\ Carries(node, sync[w].ex)
      /\ Backed(node, sync[w].ex.after, sync[w].ex.scope, rows)
  BY <1>1, WorkerFields DEF WorkerOk
<1>4. Carries(node, ex)
  BY <1>1, <1>3, ExportStepCarries
<1>. HIDE DEF ex
<1>5. s \in [pc : SyncPcs, ex : Export] /\ s.pc = "pull" /\ s.ex = ex
  BY <1>1, <1>2 DEF SyncPcs
<1>6. WorkerOk(node, rows, s)
  BY <1>2, <1>3, <1>4, <1>5 DEF WorkerOk
<1>7. sync' = [sync EXCEPT ![w] = s]
  <2>1. sync' = [sync EXCEPT ![w].ex = ex] /\ sync[w] \in [pc : SyncPcs, ex : Export]
    BY WorkerFields DEF NodeExport, ex
  <2>2. [sync[w] EXCEPT !.ex = ex] = s
    BY <2>1
  <2>. QED
    BY <2>1, <2>2
<1>8. UNCHANGED <<rows, node, prefs, saved>> /\ incoming' \in [Workers -> SUBSET Objects]
  BY WorkerFields DEF NodeExport
<1>. HIDE DEF s
<1>. QED
  BY <1>1, <1>5, <1>6, <1>7, <1>8, WorkerMovesOn

\* The bundle is imported, and its cursor is backed.
LEMMA ImportBundleStep ==
    ASSUME SyncInv, NEW w \in Workers, ImportBundle(w)
    PROVE  SyncInv' /\ NoSyncStarts
<1> DEFINE ex == sync[w].ex
           s == [pc |-> "save", ex |-> ex]
<1>1. /\ sync[w].pc = "pull" /\ ex.stage = "done"
      /\ rows' = rows \union ex.objs \union {SessionIn(o) : o \in ex.objs}
      /\ sync' = [sync EXCEPT ![w].pc = "save"]
      /\ UNCHANGED <<node, prefs, saved, incoming>>
  BY DEF ImportBundle
<1>2. /\ node \in Store /\ LogNamesRows(node) /\ rows \subseteq Objects
      /\ Len(node.changes) \in Nat
      /\ \A k \in 1 .. Len(node.changes) : node.changes[k].entity \in Objects
  BY StoreFields DEF SyncInv, SyncType
<1>3. ex \in Export /\ ex.objs \subseteq Objects /\ ex.cursor \in Nat /\ ex.after \in Nat
  BY WorkerFields
<1>4. rows \subseteq rows' /\ ex.objs \subseteq rows' /\ rows' \subseteq Objects
  BY <1>1, <1>2, <1>3, SessionInType, SessionsAreObjects
<1>5. Extends(node, node)
  BY <1>2 DEF Extends
<1>6. /\ ex.scope \in SyncScopes /\ Carries(node, ex)
      /\ Backed(node, ex.after, ex.scope, rows')
  <2>1. ex.scope \in SyncScopes /\ Carries(node, ex) /\ Backed(node, ex.after, ex.scope, rows)
    BY <1>1, WorkerFields DEF WorkerOk
  <2>. HIDE DEF ex
  <2>. QED
    BY <1>2, <1>3, <1>4, <1>5, <2>1, BackedGrows
<1>. HIDE DEF ex
<1>7. Backed(node, ex.cursor, ex.scope, rows')
  <2>1. ex.cursor <= Len(node.changes)
    BY <1>6 DEF Carries
  <2>2. ASSUME NEW k \in 1 .. ex.cursor, InScope(node.changes[k].entity, ex.scope)
        PROVE  node.changes[k].entity \in rows'
    <3>1. CASE k <= ex.after
      BY <1>3, <1>6, <2>2, <3>1 DEF Backed
    <3>2. CASE k > ex.after
      <4>1. node.changes[k].entity \in ReadBy(ex.stage)
        BY <1>1, <1>2, <1>3, <2>1 DEF ReadBy
      <4>. QED
        BY <1>4, <1>6, <2>2, <3>2, <4>1 DEF Carries
    <3>. QED
      BY <1>3, <3>1, <3>2
  <2>. QED
    BY <2>1, <2>2 DEF Backed
<1>8. s \in [pc : SyncPcs, ex : Export] /\ s.pc = "save" /\ s.ex = ex
  BY <1>3 DEF SyncPcs
<1>9. WorkerOk(node, rows', s)
  BY <1>6, <1>7, <1>8 DEF WorkerOk
<1>10. sync \in [Workers -> [pc : SyncPcs, ex : Export]]
       /\ \A v \in Workers : sync'[v] = IF v = w THEN s ELSE sync[v]
  <2>1. sync[w] = [pc |-> sync[w].pc, ex |-> ex] /\ sync \in [Workers -> [pc : SyncPcs, ex : Export]]
    BY WorkerFields DEF ex
  <2>. QED
    BY <1>1, <2>1
<1>. HIDE DEF s
<1>11. sync' \in [Workers -> [pc : SyncPcs, ex : Export]]
  BY <1>1, <1>8, <1>10
<1>12. SyncType'
  BY <1>1, <1>2, <1>4, <1>11 DEF SyncInv, SyncType
<1>13. ASSUME NEW scope \in SyncScopes
       PROVE  Backed(node, prefs[scope], scope, rows') /\ Backed(node, saved[scope], scope, rows')
  <2>1. prefs[scope] \in Nat /\ saved[scope] \in Nat
        /\ Backed(node, prefs[scope], scope, rows) /\ Backed(node, saved[scope], scope, rows)
    BY DEF SyncInv, SyncType
  <2>. QED
    BY <1>2, <1>4, <1>5, <2>1, BackedGrows
<1>14. ASSUME NEW v \in Workers
       PROVE  WorkerOk(node, rows', sync'[v])
  <2>1. WorkerOk(node, rows, sync[v]) /\ sync[v] \in [pc : SyncPcs, ex : Export]
    BY <1>10 DEF SyncInv
  <2>2. WorkerOk(node, rows', sync[v])
    BY <1>2, <1>4, <1>5, <2>1, WorkerGrows
  <2>. QED
    BY <1>9, <1>10, <2>2
<1>15. NoSyncStarts
  BY <1>1, <1>10 DEF NoSyncStarts
<1>. QED
  BY <1>1, <1>2, <1>12, <1>13, <1>14, <1>15 DEF SyncInv

\* The cursor is kept, for the node and that session.
LEMMA SaveCursorStep ==
    ASSUME SyncInv, NEW w \in Workers, SaveCursor(w)
    PROVE  SyncInv' /\ NoSyncStarts
<1> DEFINE ex == sync[w].ex
<1>1. /\ sync[w].pc = "save"
      /\ prefs' = [prefs EXCEPT ![ex.scope] = ex.cursor]
      /\ sync' = [sync EXCEPT ![w] = NoSync]
      /\ UNCHANGED <<rows, node, saved, incoming>>
  BY DEF SaveCursor
<1>2. /\ ex.scope \in SyncScopes /\ ex.cursor \in Nat
      /\ Backed(node, ex.cursor, ex.scope, rows)
  BY <1>1, WorkerFields DEF WorkerOk
<1>. HIDE DEF ex
<1>3. /\ prefs \in [SyncScopes -> Nat]
      /\ sync \in [Workers -> [pc : SyncPcs, ex : Export]]
  BY DEF SyncInv, SyncType
<1>4. prefs' \in [SyncScopes -> Nat]
      /\ \A scope \in SyncScopes : prefs'[scope] = IF scope = ex.scope THEN ex.cursor ELSE prefs[scope]
  BY <1>1, <1>2, <1>3
<1>5. /\ sync' \in [Workers -> [pc : SyncPcs, ex : Export]]
      /\ \A v \in Workers : sync'[v] = IF v = w THEN NoSync ELSE sync[v]
  BY <1>1, <1>3, RestingWorker
<1>6. SyncType'
  BY <1>1, <1>4, <1>5 DEF SyncInv, SyncType
<1>7. \A scope \in SyncScopes : Backed(node, prefs'[scope], scope, rows)
  BY <1>2, <1>4 DEF SyncInv
<1>8. \A v \in Workers : WorkerOk(node, rows, sync'[v])
  BY <1>5, RestingWorker DEF SyncInv
<1>9. NoSyncStarts
  BY <1>5, RestingWorker DEF NoSyncStarts
<1>. QED
  BY <1>1, <1>6, <1>7, <1>8, <1>9 DEF SyncInv

\* The steps of a worker that synchronizes.
LEMMA SyncStepOk ==
    ASSUME SyncInv, NEW w \in Workers, SyncStep(w)
    PROVE  SyncInv' /\ NoSyncStarts
<1>1. CASE Push(w)
  <2>1. /\ sync[w].pc = "export" /\ sync' = [sync EXCEPT ![w].pc = "push"]
        /\ UNCHANGED <<rows, node, prefs, saved>>
        /\ incoming' = [incoming EXCEPT ![w] = {o \in rows : InScope(o, sync[w].ex.scope)}]
    BY <1>1 DEF Push
  <2>2. incoming' \in [Workers -> SUBSET Objects]
    BY <2>1, WorkerFields DEF SyncInv, SyncType
  <2>. QED
    BY <2>1, <2>2, PcMoves
<1>2. CASE Pushed(w)
  BY <1>2, PcMoves, WorkerFields DEF Pushed
<1>3. CASE SyncFails(w)
  <2>1. /\ sync[w].pc # "idle" /\ sync' = [sync EXCEPT ![w] = NoSync]
        /\ UNCHANGED <<rows, node, prefs, saved, incoming>>
    BY <1>3 DEF SyncFails
  <2>2. incoming' \in [Workers -> SUBSET Objects]
    BY <2>1, WorkerFields
  <2>. QED
    BY <2>1, <2>2, RestingWorker, WorkerMovesOn
<1>. QED
  BY <1>1, <1>2, <1>3, NodeExportStep, ImportBundleStep, SaveCursorStep DEF SyncStep

\* The steps beside the workers: preferences reach the disk, and the node imports.
LEMMA NodeStepOk ==
    ASSUME SyncInv, NodeStep
    PROVE  SyncInv' /\ NoSyncStarts
<1>1. CASE Flush
  <2>1. saved' = prefs /\ UNCHANGED <<rows, node, prefs, sync, incoming>>
    BY <1>1 DEF Flush
  <2>. QED
    BY <2>1 DEF SyncInv, SyncType, NoSyncStarts
<1>. QED
  BY <1>1, NodeImportStep DEF NodeStep

\* The process is killed: the cursors on disk are backed too.
LEMMA SyncKilledStep ==
    ASSUME SyncInv, SyncKilled
    PROVE  SyncInv' /\ NoSyncStarts /\ \A w \in Workers : sync'[w].pc = "idle"
<1>1. /\ prefs' = saved /\ sync' = [w \in Workers |-> NoSync]
      /\ UNCHANGED <<rows, node, saved, incoming>>
  BY DEF SyncKilled
<1>2. sync' \in [Workers -> [pc : SyncPcs, ex : Export]] /\ \A w \in Workers : sync'[w] = NoSync
  BY <1>1, RestingWorker
<1>3. SyncType'
  BY <1>1, <1>2 DEF SyncInv, SyncType
<1>4. \A v \in Workers : WorkerOk(node, rows, sync'[v])
  BY <1>2, RestingWorker
<1>. QED
  BY <1>1, <1>2, <1>3, <1>4, RestingWorker DEF SyncInv, NoSyncStarts

\* The synchronization stands still.
LEMMA SyncSame ==
    ASSUME SyncInv, UNCHANGED syncVars
    PROVE  SyncInv' /\ NoSyncStarts
BY DEF syncVars, SyncInv, SyncType, LogNamesRows, NoSyncStarts

\* Empty stores and cursors at first.
LEMMA SyncInitOk ==
    ASSUME SyncInit
    PROVE  SyncInv /\ \A w \in Workers : sync[w].pc = "idle"
<1>1. /\ rows = {} /\ node = EmptyStore
      /\ prefs = [scope \in SyncScopes |-> 0] /\ saved = prefs
      /\ sync = [w \in Workers |-> NoSync] /\ incoming = [w \in Workers |-> {}]
  BY DEF SyncInit
<1>2. node \in Store /\ Len(node.changes) = 0
  BY <1>1 DEF EmptyStore, Store
<1>3. \A scope, have : Backed(node, 0, scope, have)
  BY <1>2 DEF Backed
<1>4. LogNamesRows(node)
  BY <1>2 DEF LogNamesRows
<1>5. sync \in [Workers -> [pc : SyncPcs, ex : Export]] /\ \A w \in Workers : sync[w] = NoSync
  BY <1>1, RestingWorker
<1>6. SyncType
  BY <1>1, <1>2, <1>5 DEF SyncType
<1>7. \A scope \in SyncScopes : prefs[scope] = 0 /\ saved[scope] = 0
  BY <1>1
<1>. QED
  BY <1>3, <1>4, <1>5, <1>6, <1>7, RestingWorker DEF SyncInv

----------------------------------------------------------------------------
(***************************************************************************)
(* The steps of the local model.                                           *)
(***************************************************************************)

FilePcs == {"transfer", "delete", "rename", "copy"}

\* No worker starts a job, and one without a job gets no model.
NoJobStarts(W) ==
    \A v \in W : job[v] = NoJob => job'[v] = NoJob /\ handle'[v] \in {0, handle[v]}

\* A step that leaves the files and the imports alone.
FileQuiet ==
    /\ UNCHANGED fileVars
    /\ \A v \in Runners : Importing(v) \/ Importing(v)' => job'[v].pc = job[v].pc

\* A step that leaves the runtimes alone.
RuntimeQuiet ==
    /\ UNCHANGED runtimeVars
    /\ \A v \in Runners : job'[v].pc \in {"loading", "generating"} => job'[v].pc = job[v].pc

\* Such a step keeps what is known of the files ...
LEMMA FileQuietOk ==
    ASSUME FileOk, FileQuiet
    PROVE  FileOk'
<1>1. \A v \in Runners : Importing(v)' <=> Importing(v)
  BY DEF FileQuiet, Importing
<1>2. \A v \in Runners : \A pc \in FilePcs : job'[v].pc = pc <=> job[v].pc = pc
  BY DEF FileQuiet, Importing, FilePcs
<1>3. UNCHANGED <<model, part, stream, met>>
  BY DEF FileQuiet, fileVars
<1>. QED
  BY <1>1, <1>2, <1>3 DEF FileOk, FilePcs

\* ... and such a one what is known of the handles.
LEMMA RuntimeQuietOk ==
    ASSUME HandleOk, RuntimeQuiet
    PROVE  HandleOk'
<1>1. UNCHANGED <<assigned, handle, alive, made>>
  BY DEF RuntimeQuiet, runtimeVars
<1>. QED
  BY <1>1 DEF RuntimeQuiet, HandleOk, HandlesOwned

\* The idle worker.
LEMMA IdleJob == NoJob \in JobState /\ NoJob.pc = "idle"
BY DEF NoJob, JobState

\* One worker's job changes.
LEMMA JobChanges ==
    ASSUME ModelType, NEW w \in Runners, NEW j \in JobState, job' = [job EXCEPT ![w] = j]
    PROVE  /\ job' \in [Runners -> JobState] /\ job'[w] = j
           /\ \A v \in Runners \ {w} : job'[v] = job[v]
BY DEF ModelType

\* The worker's job ends ...
LEMMA QuitJob ==
    ASSUME ModelType, NEW w \in Runners, Quit(w)
    PROVE  /\ job' \in [Runners -> JobState] /\ job'[w] = NoJob /\ job'[w].pc = "idle"
           /\ \A v \in Runners \ {w} : job'[v] = job[v]
BY IdleJob, JobChanges DEF Quit

\* ... or goes on to another statement.
LEMMA GotoJob ==
    ASSUME ModelType, NEW w \in Runners,
           NEW pc \in {"delete", "rename", "copy", "load", "loading", "ask", "generating"},
           Goto(w, pc)
    PROVE  /\ job' \in [Runners -> JobState] /\ job'[w].pc = pc
           /\ job'[w].kind = job[w].kind
           /\ \A v \in Runners \ {w} : job'[v] = job[v]
<1> DEFINE j == [kind |-> job[w].kind, pc |-> pc]
<1>1. job[w] \in JobState /\ job' = [job EXCEPT ![w].pc = pc]
  BY DEF ModelType, Goto
<1>2. [job[w] EXCEPT !.pc = pc] = j /\ j \in JobState
  BY <1>1 DEF JobState
<1>3. job' = [job EXCEPT ![w] = j]
  BY <1>1, <1>2
<1>. QED
  BY <1>2, <1>3, JobChanges

\* Files: what a step of one import owes to them.
LEMMA ImportStepFiles ==
    ASSUME FileOk, NEW w \in Runners, Importing(w), met' = met,
           \A v \in Runners \ {w} : job'[v] = job[v],
           job'[w].pc # "transfer",
           w \notin met /\ job'[w].pc \in {"delete", "rename", "copy"} => part' = "whole",
           w \notin met /\ job'[w].pc = "copy" => model' # "none"
    PROVE  FileOk'
<1>1. \A v \in Runners \ {w} : Importing(v)' <=> Importing(v)
  BY DEF Importing
<1>2. \A v \in Runners \ {w} : v \notin met => ~Importing(v)'
  BY <1>1 DEF FileOk
<1>3. \A v, u \in Runners : Importing(v)' /\ Importing(u)' /\ v # u => v \in met
  BY <1>1 DEF FileOk
<1>4. ASSUME NEW v \in Runners \ met
      PROVE  /\ job'[v].pc # "transfer"
             /\ job'[v].pc \in {"delete", "rename", "copy"} => part' = "whole"
             /\ job'[v].pc = "copy" => model' # "none"
  BY <1>2, <1>4 DEF Importing
<1>. QED
  BY <1>3, <1>4 DEF FileOk

\* An import begins.
LEMMA BeginImportStep ==
    ASSUME ModelInv, NEW w \in Runners, BeginImport(w)
    PROVE  ModelInv' /\ NoJobStarts(Runners \ {w})
<1> DEFINE j == [kind |-> "import", pc |-> "transfer"]
           others == {v \in Runners : Importing(v)}
<1>1. /\ job[w] = NoJob /\ job' = [job EXCEPT ![w] = j] /\ part' = "torn"
      /\ stream' = [stream EXCEPT ![w] = "part"]
      /\ met' = IF others = {} THEN met \ {w} ELSE met \union others \union {w}
      /\ UNCHANGED <<model, assigned, handle, alive, made>>
  BY DEF BeginImport, runtimeVars
<1>2. j \in JobState /\ j.pc = "transfer"
  BY DEF JobState
<1>. HIDE DEF j
<1>3. /\ job' \in [Runners -> JobState] /\ job'[w] = j
      /\ \A v \in Runners \ {w} : job'[v] = job[v]
  BY <1>1, <1>2, JobChanges DEF ModelInv
<1>4. /\ met' \subseteq Runners /\ stream' \in [Runners -> {"none", "part", "model", "gone"}]
      /\ stream'[w] = "part"
  BY <1>1 DEF ModelInv, ModelType
<1>5. ModelType'
  BY <1>1, <1>3, <1>4 DEF ModelInv, ModelType
<1>6. FileOk'
  <2>1. \A v \in Runners \ {w} : Importing(v)' <=> v \in others
    BY <1>3 DEF Importing
  <2>2. \A v \in Runners \ {w} : v \in others => v \in met'
    BY <1>1
  <2>3. others # {} => w \in met'
    BY <1>1
  <2>. HIDE DEF others
  <2>4. \A v, u \in Runners : Importing(v)' /\ Importing(u)' /\ v # u => v \in met'
    BY <2>1, <2>2, <2>3
  <2>5. \A v \in Runners \ {w} : v \notin met' =>
           job'[v].pc \notin {"transfer", "delete", "rename", "copy"}
    BY <2>1, <2>2 DEF Importing
  <2>. QED
    BY <1>1, <1>2, <1>3, <1>4, <2>4, <2>5 DEF FileOk
<1>7. RuntimeQuiet
  BY <1>1, <1>2, <1>3 DEF RuntimeQuiet, runtimeVars
<1>. QED
  BY <1>1, <1>3, <1>5, <1>6, <1>7, RuntimeQuietOk DEF ModelInv, NoJobStarts

\* A job of one worker moves on, and the runtimes stay.
LEMMA ImportMoves ==
    ASSUME ModelInv, NEW w \in Runners, job[w] # NoJob,
           job' \in [Runners -> JobState], job'[w].pc \notin {"loading", "generating"},
           \A v \in Runners \ {w} : job'[v] = job[v],
           UNCHANGED runtimeVars
    PROVE  RuntimeQuiet /\ HandleOk' /\ NoJobStarts(Runners)
<1>1. RuntimeQuiet
  BY DEF RuntimeQuiet
<1>. QED
  BY <1>1, RuntimeQuietOk DEF ModelInv, NoJobStarts, runtimeVars

\* What a transfer has put where its stream leads.
LEMMA PutFacts ==
    ASSUME ModelType, NEW w \in Runners, NEW c \in {"torn", "whole"}, Put(w, c)
    PROVE  /\ model' \in {"none", "whole", "torn"} /\ part' \in {"none", "whole", "torn"}
           /\ stream[w] = "part" => part' = c /\ model' = model
BY DEF Put, ModelType

\* The transfer ends: one that met no other has written the .part file alone.
LEMMA TransferStep ==
    ASSUME ModelInv, NEW w \in Runners, Transfer(w)
    PROVE  ModelInv' /\ NoJobStarts(Runners)
<1>1. /\ job[w].pc = "transfer" /\ Importing(w)
      /\ stream' = [stream EXCEPT ![w] = "none"]
      /\ met' = met /\ UNCHANGED runtimeVars
      /\ \/ Goto(w, "delete") /\ \E c \in Written(w) : Put(w, c)
         \/ Quit(w) /\ (Put(w, "torn") \/ UNCHANGED <<model, part>>)
  BY DEF Transfer, Importing
<1>2. /\ job' \in [Runners -> JobState]
      /\ job'[w].pc \in {"delete", "idle"}
      /\ job'[w].pc = "delete" => \E c \in Written(w) : Put(w, c)
      /\ \A v \in Runners \ {w} : job'[v] = job[v]
  BY <1>1, GotoJob, QuitJob DEF ModelInv
<1>3. Written(w) \subseteq {"torn", "whole"} /\ (w \notin met => Written(w) = {"whole"})
  BY DEF Written
<1>4. ModelType'
  <2>1. model' \in {"none", "whole", "torn"} /\ part' \in {"none", "whole", "torn"}
    <3>1. CASE \E c \in Written(w) : Put(w, c)
      BY <1>3, <3>1, PutFacts DEF ModelInv
    <3>2. CASE Put(w, "torn")
      BY <3>2, PutFacts DEF ModelInv
    <3>3. CASE UNCHANGED <<model, part>>
      BY <3>3 DEF ModelInv, ModelType
    <3>. QED
      BY <1>1, <3>1, <3>2, <3>3
  <2>2. stream' \in [Runners -> {"none", "part", "model", "gone"}]
    BY <1>1 DEF ModelInv, ModelType
  <2>. QED
    BY <1>1, <1>2, <2>1, <2>2 DEF ModelInv, ModelType, runtimeVars
<1>5. FileOk'
  <2>1. ASSUME w \notin met, job'[w].pc = "delete"
        PROVE  part' = "whole"
    <3>1. stream[w] = "part"
      BY <1>1, <2>1 DEF ModelInv, FileOk
    <3>2. Put(w, "whole")
      BY <1>2, <1>3, <2>1
    <3>. QED
      BY <3>1, <3>2, PutFacts DEF ModelInv
  <2>. QED
    BY <1>1, <1>2, <2>1, ImportStepFiles DEF ModelInv
<1>6. job[w] # NoJob
  BY <1>1, IdleJob
<1>7. HandleOk' /\ NoJobStarts(Runners)
  BY <1>1, <1>2, <1>6, ImportMoves
<1>. QED
  BY <1>4, <1>5, <1>7 DEF ModelInv

\* The model is deleted: a whole copy is in the .part file.
LEMMA DeleteTargetStep ==
    ASSUME ModelInv, NEW w \in Runners, DeleteTarget(w)
    PROVE  ModelInv' /\ NoJobStarts(Runners)
<1>1. /\ job[w].pc = "delete" /\ Importing(w) /\ model' \in {"none", model}
      /\ Goto(w, "rename") \/ Quit(w)
      /\ \/ stream' = [v \in Runners |-> IF stream[v] = "model" THEN "gone" ELSE stream[v]]
         \/ stream' = stream
      /\ UNCHANGED <<part, met>> /\ UNCHANGED runtimeVars
  BY DEF DeleteTarget, Importing
<1>2. /\ job' \in [Runners -> JobState] /\ job'[w].pc \in {"rename", "idle"}
      /\ \A v \in Runners \ {w} : job'[v] = job[v]
  BY <1>1, GotoJob, QuitJob DEF ModelInv
<1>3. ModelType'
  <2>1. stream' \in [Runners -> {"none", "part", "model", "gone"}]
    BY <1>1 DEF ModelInv, ModelType
  <2>. QED
    BY <1>1, <1>2, <2>1 DEF ModelInv, ModelType, runtimeVars
<1>4. FileOk'
  <2>1. w \notin met => part' = "whole"
    BY <1>1 DEF ModelInv, FileOk
  <2>. QED
    BY <1>1, <1>2, <2>1, ImportStepFiles DEF ModelInv
<1>5. job[w] # NoJob
  BY <1>1, IdleJob
<1>6. HandleOk' /\ NoJobStarts(Runners)
  BY <1>1, <1>2, <1>5, ImportMoves
<1>. QED
  BY <1>3, <1>4, <1>6 DEF ModelInv

\* The .part file takes the model's name, or its copy begins, or an import gives
\* up that met another one.
LEMMA RenameStep ==
    ASSUME ModelInv, NEW w \in Runners, Rename(w)
    PROVE  ModelInv' /\ NoJobStarts(Runners)
<1>1. job[w].pc = "rename" /\ Importing(w) /\ met' = met /\ UNCHANGED runtimeVars
  BY DEF Rename, Importing
<1>2. \/ /\ model' = part /\ part' = "none" /\ Goto(w, "load")
         /\ stream' = [v \in Runners |-> Moved(stream[v], "model")]
      \/ /\ model' = "torn" /\ part' = part /\ Goto(w, "copy")
         /\ stream' = [v \in Runners |-> Moved(stream[v], "part")]
      \/ Quit(w) /\ UNCHANGED <<model, part, stream>>
  BY DEF Rename
<1>3. /\ job' \in [Runners -> JobState]
      /\ job'[w].pc \in {"load", "copy", "idle"}
      /\ job'[w].pc = "copy" => part' = part /\ model' = "torn"
      /\ \A v \in Runners \ {w} : job'[v] = job[v]
  BY <1>2, GotoJob, QuitJob DEF ModelInv
<1>4. ModelType'
  <2>1. model' \in {"none", "whole", "torn"} /\ part' \in {"none", "whole", "torn"}
    BY <1>2 DEF ModelInv, ModelType
  <2>2. stream' \in [Runners -> {"none", "part", "model", "gone"}]
    BY <1>2 DEF ModelInv, ModelType, Moved
  <2>. QED
    BY <1>1, <1>3, <2>1, <2>2 DEF ModelInv, ModelType, runtimeVars
<1>5. FileOk'
  <2>1. w \notin met /\ job'[w].pc = "copy" => part' = "whole"
    BY <1>1, <1>3 DEF ModelInv, FileOk
  <2>. QED
    BY <1>1, <1>3, <2>1, ImportStepFiles DEF ModelInv
<1>6. job[w] # NoJob
  BY <1>1, IdleJob
<1>7. HandleOk' /\ NoJobStarts(Runners)
  BY <1>1, <1>3, <1>6, ImportMoves
<1>. QED
  BY <1>4, <1>5, <1>7 DEF ModelInv

\* A copy ends, or fails.
LEMMA CopyStep ==
    ASSUME ModelInv, NEW w \in Runners, Copy(w)
    PROVE  ModelInv' /\ NoJobStarts(Runners)
<1>1. job[w].pc = "copy" /\ Importing(w) /\ met' = met /\ UNCHANGED runtimeVars
  BY DEF Copy, Importing
<1>2. \/ /\ model' \in {"none", "torn", "whole"} /\ part' = "none" /\ Goto(w, "load")
         /\ stream' = [v \in Runners |-> IF stream[v] = "part" THEN "gone" ELSE stream[v]]
      \/ Quit(w) /\ UNCHANGED <<model, part, stream>>
  BY DEF Copy, Written
<1>3. /\ job' \in [Runners -> JobState]
      /\ job'[w].pc \in {"load", "idle"}
      /\ \A v \in Runners \ {w} : job'[v] = job[v]
  BY <1>2, GotoJob, QuitJob DEF ModelInv
<1>4. ModelType'
  <2>1. model' \in {"none", "whole", "torn"} /\ part' \in {"none", "whole", "torn"}
    BY <1>2 DEF ModelInv, ModelType
  <2>2. stream' \in [Runners -> {"none", "part", "model", "gone"}]
    BY <1>2 DEF ModelInv, ModelType
  <2>. QED
    BY <1>1, <1>3, <2>1, <2>2 DEF ModelInv, ModelType, runtimeVars
<1>5. FileOk'
  BY <1>1, <1>3, ImportStepFiles DEF ModelInv
<1>6. job[w] # NoJob
  BY <1>1, IdleJob
<1>7. HandleOk' /\ NoJobStarts(Runners)
  BY <1>1, <1>3, <1>6, ImportMoves
<1>. QED
  BY <1>4, <1>5, <1>7 DEF ModelInv

\* The runtime of one worker drops its model: the others keep theirs.
LEMMA HandleDropped ==
    ASSUME ModelInv, NEW w \in Runners,
           alive' = alive \ {handle[w]}, handle' = [handle EXCEPT ![w] = 0], made' = made
    PROVE  /\ handle' \in [Runners -> 0 .. made'] /\ alive' \subseteq 1 .. made'
           /\ handle'[w] = 0 /\ \A v \in Runners \ {w} : handle'[v] = handle[v]
           /\ alive' = {handle'[v] : v \in Runners} \ {0}
           /\ \A u, v \in Runners : handle'[u] = handle'[v] /\ handle'[u] # 0 => u = v
<1>1. /\ handle \in [Runners -> 0 .. made] /\ made \in Nat /\ alive \subseteq 1 .. made
      /\ alive = {handle[v] : v \in Runners} \ {0}
      /\ \A u, v \in Runners : handle[u] = handle[v] /\ handle[u] # 0 => u = v
  BY DEF ModelInv, ModelType, HandleOk, HandlesOwned
<1>2. /\ handle' \in [Runners -> 0 .. made']
      /\ \A v \in Runners : handle'[v] = IF v = w THEN 0 ELSE handle[v]
  BY <1>1
<1>3. ASSUME NEW a
      PROVE  a \in alive' <=> a \in {handle'[v] : v \in Runners} \ {0}
  <2>1. ASSUME a \in alive'
        PROVE  a \in {handle'[v] : v \in Runners} \ {0}
    <3>1. PICK v \in Runners : handle[v] = a /\ a # 0 /\ a # handle[w]
      BY <1>1, <2>1
    <3>. QED
      BY <1>2, <3>1
  <2>2. ASSUME a \in {handle'[v] : v \in Runners} \ {0}
        PROVE  a \in alive'
    <3>1. PICK v \in Runners : handle'[v] = a /\ a # 0
      BY <2>2
    <3>2. v # w /\ handle[v] = a
      BY <1>2, <3>1
    <3>. QED
      BY <1>1, <3>1, <3>2
  <2>. QED
    BY <2>1, <2>2
<1>. QED
  BY <1>1, <1>2, <1>3

\* The runtime of one worker, which has none, gets a new model.
LEMMA HandleMade ==
    ASSUME ModelInv, NEW w \in Runners, handle[w] = 0, made' = made + 1,
           alive' = alive \union {made + 1}, handle' = [handle EXCEPT ![w] = made + 1]
    PROVE  /\ handle' \in [Runners -> 0 .. made'] /\ alive' \subseteq 1 .. made'
           /\ handle'[w] # 0 /\ \A v \in Runners \ {w} : handle'[v] = handle[v]
           /\ alive' = {handle'[v] : v \in Runners} \ {0}
           /\ \A u, v \in Runners : handle'[u] = handle'[v] /\ handle'[u] # 0 => u = v
<1>1. /\ handle \in [Runners -> 0 .. made] /\ made \in Nat /\ alive \subseteq 1 .. made
      /\ alive = {handle[v] : v \in Runners} \ {0}
      /\ \A u, v \in Runners : handle[u] = handle[v] /\ handle[u] # 0 => u = v
  BY DEF ModelInv, ModelType, HandleOk, HandlesOwned
<1>2. \A v \in Runners : handle'[v] = IF v = w THEN made + 1 ELSE handle[v]
  BY <1>1
<1>3. handle' \in [Runners -> 0 .. made']
  BY <1>1
<1>4. \A v \in Runners : handle[v] # made + 1
  BY <1>1
<1>5. ASSUME NEW a
      PROVE  a \in alive' <=> a \in {handle'[v] : v \in Runners} \ {0}
  <2>1. ASSUME a \in alive'
        PROVE  a \in {handle'[v] : v \in Runners} \ {0}
    <3>1. CASE a = made + 1
      BY <1>1, <1>2, <3>1
    <3>2. CASE a # made + 1
      <4>1. PICK v \in Runners : handle[v] = a /\ a # 0
        BY <1>1, <2>1, <3>2
      <4>. QED
        BY <1>2, <4>1
    <3>. QED
      BY <3>1, <3>2
  <2>2. ASSUME a \in {handle'[v] : v \in Runners} \ {0}
        PROVE  a \in alive'
    <3>1. PICK v \in Runners : handle'[v] = a /\ a # 0
      BY <2>2
    <3>. QED
      BY <1>1, <1>2, <3>1
  <2>. QED
    BY <2>1, <2>2
<1>. QED
  BY <1>1, <1>2, <1>3, <1>4, <1>5

\* The monitor is taken and the old model freed.
LEMMA LoadStep ==
    ASSUME ModelInv, NEW w \in Runners, Load(w)
    PROVE  ModelInv' /\ NoJobStarts(Runners)
<1>1. /\ job[w].pc = "load" /\ Goto(w, "loading")
      /\ alive' = alive \ {handle[w]} /\ handle' = [handle EXCEPT ![w] = 0]
      /\ assigned' = [assigned EXCEPT ![w] = @ \/ job[w].kind = "import"]
      /\ UNCHANGED fileVars /\ made' = made
  BY DEF Load
<1>2. /\ job' \in [Runners -> JobState] /\ job'[w].pc = "loading"
      /\ \A v \in Runners \ {w} : job'[v] = job[v]
  BY <1>1, GotoJob DEF ModelInv
<1>3. /\ handle' \in [Runners -> 0 .. made'] /\ alive' \subseteq 1 .. made'
      /\ handle'[w] = 0 /\ \A v \in Runners \ {w} : handle'[v] = handle[v]
      /\ alive' = {handle'[v] : v \in Runners} \ {0}
      /\ \A u, v \in Runners : handle'[u] = handle'[v] /\ handle'[u] # 0 => u = v
  BY <1>1, HandleDropped
<1>4. assigned' \in [Runners -> BOOLEAN] /\ \A v \in Runners \ {w} : assigned'[v] = assigned[v]
  BY <1>1 DEF ModelInv, ModelType
<1>5. ModelType'
  BY <1>1, <1>2, <1>3, <1>4 DEF ModelInv, ModelType, fileVars
<1>6. FileOk'
  <2>1. FileQuiet
    BY <1>1, <1>2 DEF FileQuiet, Importing
  <2>. QED
    BY <2>1, FileQuietOk DEF ModelInv
<1>7. HandleOk'
  <2>1. \A v \in Runners : handle'[v] # 0 => assigned'[v]
    BY <1>3, <1>4 DEF ModelInv, HandleOk
  <2>2. \A v \in Runners : job'[v].pc = "loading" => handle'[v] = 0
    BY <1>2, <1>3 DEF ModelInv, HandleOk
  <2>3. \A v \in Runners : job'[v].pc = "generating" => handle'[v] # 0
    BY <1>2, <1>3 DEF ModelInv, HandleOk, HandlesOwned
  <2>. QED
    BY <1>3, <2>1, <2>2, <2>3 DEF HandleOk, HandlesOwned
<1>8. NoJobStarts(Runners)
  BY <1>1, <1>2, <1>3, IdleJob DEF NoJobStarts
<1>. QED
  BY <1>5, <1>6, <1>7, <1>8 DEF ModelInv

\* The native load ends, with a model or without.
LEMMA LoadedStep ==
    ASSUME ModelInv, NEW w \in Runners, Loaded(w)
    PROVE  ModelInv' /\ NoJobStarts(Runners)
<1>1. job[w].pc = "loading" /\ UNCHANGED fileVars /\ job[w] # NoJob
  BY IdleJob DEF Loaded
<1>2. CASE Quit(w) /\ UNCHANGED runtimeVars
  <2>1. /\ job' \in [Runners -> JobState] /\ job'[w].pc = "idle"
        /\ \A v \in Runners \ {w} : job'[v] = job[v]
    BY <1>2, QuitJob DEF ModelInv
  <2>2. HandleOk' /\ NoJobStarts(Runners)
    BY <1>1, <1>2, <2>1, ImportMoves
  <2>3. FileQuiet
    BY <1>1, <2>1 DEF FileQuiet, Importing
  <2>4. ModelType'
    BY <1>1, <1>2, <2>1 DEF ModelInv, ModelType, fileVars, runtimeVars
  <2>. QED
    BY <2>2, <2>3, <2>4, FileQuietOk DEF ModelInv
<1>3. CASE /\ made' = made + 1
           /\ alive' = alive \union {made + 1}
           /\ handle' = [handle EXCEPT ![w] = made + 1]
           /\ assigned' = [assigned EXCEPT ![w] = TRUE]
           /\ IF job[w].kind = "import" THEN Quit(w) ELSE Goto(w, "ask")
  <2>1. /\ job' \in [Runners -> JobState] /\ job'[w].pc \in {"idle", "ask"}
        /\ \A v \in Runners \ {w} : job'[v] = job[v]
    BY <1>3, QuitJob, GotoJob DEF ModelInv
  <2>2. handle[w] = 0
    BY <1>1 DEF ModelInv, HandleOk
  <2>3. /\ handle' \in [Runners -> 0 .. made'] /\ alive' \subseteq 1 .. made'
        /\ handle'[w] # 0 /\ \A v \in Runners \ {w} : handle'[v] = handle[v]
        /\ alive' = {handle'[v] : v \in Runners} \ {0}
        /\ \A u, v \in Runners : handle'[u] = handle'[v] /\ handle'[u] # 0 => u = v
    BY <1>3, <2>2, HandleMade
  <2>4. assigned' \in [Runners -> BOOLEAN] /\ assigned'[w]
        /\ \A v \in Runners \ {w} : assigned'[v] = assigned[v]
    BY <1>3 DEF ModelInv, ModelType
  <2>5. ModelType'
    BY <1>1, <1>3, <2>1, <2>3, <2>4 DEF ModelInv, ModelType, fileVars
  <2>6. FileQuiet
    BY <1>1, <2>1 DEF FileQuiet, Importing
  <2>7. HandleOk'
    <3>1. \A v \in Runners : handle'[v] # 0 => assigned'[v]
      BY <2>3, <2>4 DEF ModelInv, HandleOk
    <3>2. \A v \in Runners : job'[v].pc = "loading" => handle'[v] = 0
      BY <2>1, <2>3 DEF ModelInv, HandleOk
    <3>3. \A v \in Runners : job'[v].pc = "generating" => handle'[v] # 0
      BY <2>1, <2>3 DEF ModelInv, HandleOk, HandlesOwned
    <3>. QED
      BY <2>3, <3>1, <3>2, <3>3 DEF HandleOk, HandlesOwned
  <2>8. NoJobStarts(Runners)
    BY <1>1, <2>1, <2>3 DEF NoJobStarts
  <2>. QED
    BY <2>5, <2>6, <2>7, <2>8, FileQuietOk DEF ModelInv
<1>. QED
  BY <1>2, <1>3 DEF Loaded

\* The file has gone.
LEMMA LoadMissingStep ==
    ASSUME ModelInv, NEW w \in Runners, LoadMissing(w)
    PROVE  ModelInv' /\ NoJobStarts(Runners)
<1>1. /\ job[w].pc = "load" /\ Quit(w) /\ UNCHANGED <<handle, alive, made>> /\ UNCHANGED fileVars
      /\ job[w] # NoJob
  BY IdleJob DEF LoadMissing
<1>2. PICK a \in {assigned[w], assigned[w] \/ job[w].kind = "import"} :
         assigned' = [assigned EXCEPT ![w] = a]
  BY DEF LoadMissing
<1>3. a \in BOOLEAN /\ (assigned[w] => a)
  BY <1>2 DEF ModelInv, ModelType
<1>4. assigned' \in [Runners -> BOOLEAN] /\ \A v \in Runners : assigned[v] => assigned'[v]
  BY <1>2, <1>3 DEF ModelInv, ModelType
<1>5. /\ job' \in [Runners -> JobState] /\ job'[w].pc = "idle"
      /\ \A v \in Runners \ {w} : job'[v] = job[v]
  BY <1>1, QuitJob DEF ModelInv
<1>6. ModelType'
  BY <1>1, <1>4, <1>5 DEF ModelInv, ModelType, fileVars
<1>7. FileQuiet
  BY <1>1, <1>5 DEF FileQuiet, Importing
<1>8. HandleOk'
  BY <1>1, <1>4, <1>5 DEF ModelInv, HandleOk, HandlesOwned
<1>9. NoJobStarts(Runners)
  BY <1>1, <1>5 DEF NoJobStarts
<1>. QED
  BY <1>6, <1>7, <1>8, <1>9, FileQuietOk DEF ModelInv

\* generate begins, with a model only, and ends.
LEMMA TurnStep ==
    ASSUME ModelInv, NEW w \in Runners, Ask(w) \/ Generated(w)
    PROVE  ModelInv' /\ NoJobStarts(Runners)
<1>1. /\ job[w].pc \in {"ask", "generating"} /\ UNCHANGED fileVars /\ UNCHANGED runtimeVars
      /\ job[w] # NoJob
      /\ \/ Goto(w, "generating") /\ handle[w] # 0
         \/ Quit(w)
  BY IdleJob DEF Ask, Generated
<1>2. /\ job' \in [Runners -> JobState]
      /\ job'[w].pc \in {"idle", "generating"}
      /\ job'[w].pc = "generating" => handle[w] # 0
      /\ \A v \in Runners \ {w} : job'[v] = job[v]
  <2>1. CASE Goto(w, "generating") /\ handle[w] # 0
    BY <2>1, GotoJob DEF ModelInv
  <2>2. CASE Quit(w)
    BY <2>2, QuitJob DEF ModelInv
  <2>. QED
    BY <1>1, <2>1, <2>2
<1>3. ModelType'
  BY <1>1, <1>2 DEF ModelInv, ModelType, fileVars, runtimeVars
<1>4. FileQuiet
  BY <1>1, <1>2 DEF FileQuiet, Importing
<1>5. HandleOk'
  BY <1>1, <1>2 DEF ModelInv, HandleOk, HandlesOwned, runtimeVars
<1>6. NoJobStarts(Runners)
  BY <1>1, <1>2 DEF NoJobStarts, runtimeVars
<1>. QED
  BY <1>3, <1>4, <1>5, <1>6, FileQuietOk DEF ModelInv

\* A local turn begins.
LEMMA BeginLocalStep ==
    ASSUME ModelInv, NEW w \in Runners, BeginLocal(w)
    PROVE  ModelInv' /\ NoJobStarts(Runners \ {w})
<1> DEFINE j == [kind |-> "local", pc |-> IF assigned[w] THEN "ask" ELSE "load"]
<1>1. /\ job[w] = NoJob /\ job' = [job EXCEPT ![w] = j]
      /\ UNCHANGED fileVars /\ UNCHANGED runtimeVars
  BY DEF BeginLocal
<1>2. j \in JobState /\ j.pc \in {"ask", "load"}
  BY DEF JobState
<1>. HIDE DEF j
<1>3. /\ job' \in [Runners -> JobState] /\ job'[w] = j
      /\ \A v \in Runners \ {w} : job'[v] = job[v]
  BY <1>1, <1>2, JobChanges DEF ModelInv
<1>4. ModelType'
  BY <1>1, <1>3 DEF ModelInv, ModelType, fileVars, runtimeVars
<1>5. FileQuiet /\ RuntimeQuiet
  BY <1>1, <1>2, <1>3, IdleJob DEF FileQuiet, RuntimeQuiet, Importing
<1>. QED
  BY <1>1, <1>3, <1>4, <1>5, FileQuietOk, RuntimeQuietOk DEF ModelInv, NoJobStarts, runtimeVars

\* onDestroy closes the runtime it can see; a worker at rest has no other.
LEMMA CloseRuntimeStep ==
    ASSUME ModelInv, NEW w \in Runners, CloseRuntime(w), UNCHANGED fileVars, job' = job
    PROVE  /\ ModelInv' /\ NoJobStarts(Runners)
           /\ job[w] = NoJob => handle'[w] = 0
<1>1. UNCHANGED <<model, part, stream, met>> /\ UNCHANGED <<assigned, made>>
  BY DEF CloseRuntime, fileVars
<1>2. FileQuiet
  BY DEF FileQuiet, Importing
<1>3. CASE assigned[w]
  <2>1. /\ job[w].pc \notin {"loading", "generating"}
        /\ alive' = alive \ {handle[w]} /\ handle' = [handle EXCEPT ![w] = 0]
    BY <1>3 DEF CloseRuntime, HoldsMonitor
  <2>2. /\ handle' \in [Runners -> 0 .. made'] /\ alive' \subseteq 1 .. made'
        /\ handle'[w] = 0 /\ \A v \in Runners \ {w} : handle'[v] = handle[v]
        /\ alive' = {handle'[v] : v \in Runners} \ {0}
        /\ \A u, v \in Runners : handle'[u] = handle'[v] /\ handle'[u] # 0 => u = v
    BY <1>1, <2>1, HandleDropped
  <2>3. ModelType'
    BY <1>1, <2>2 DEF ModelInv, ModelType
  <2>4. HandleOk'
    <3>1. \A v \in Runners : handle'[v] # 0 => assigned'[v]
      BY <1>1, <2>2 DEF ModelInv, HandleOk
    <3>2. \A v \in Runners : job'[v].pc = "loading" => handle'[v] = 0
      BY <2>2 DEF ModelInv, HandleOk
    <3>3. \A v \in Runners : job'[v].pc = "generating" => handle'[v] # 0
      BY <2>1, <2>2 DEF ModelInv, HandleOk, HandlesOwned
    <3>. QED
      BY <2>2, <3>1, <3>2, <3>3 DEF HandleOk, HandlesOwned
  <2>. QED
    BY <1>2, <2>2, <2>3, <2>4, FileQuietOk DEF ModelInv, NoJobStarts
<1>4. CASE ~assigned[w]
  <2>1. handle[w] = 0 /\ UNCHANGED <<alive, handle>>
    BY <1>4 DEF CloseRuntime, ModelInv, HandleOk
  <2>2. ModelType'
    BY <1>1, <2>1 DEF ModelInv, ModelType
  <2>3. RuntimeQuiet
    BY <1>1, <2>1 DEF RuntimeQuiet, runtimeVars
  <2>. QED
    BY <1>2, <2>1, <2>2, <2>3, FileQuietOk, RuntimeQuietOk DEF ModelInv, NoJobStarts
<1>. QED
  BY <1>3, <1>4

\* The process is killed: no model is in memory, and no import runs.
LEMMA ModelKilledStep ==
    ASSUME ModelInv, ModelKilled
    PROVE  ModelInv' /\ \A w \in Runners : job'[w] = NoJob /\ handle'[w] = 0
<1>1. /\ stream' = [w \in Runners |-> "none"] /\ met' = {}
      /\ job' = [w \in Runners |-> NoJob] /\ assigned' = [w \in Runners |-> FALSE]
      /\ handle' = [w \in Runners |-> 0] /\ alive' = {}
      /\ UNCHANGED <<model, part, made>>
  BY DEF ModelKilled
<1>2. \A w \in Runners : job'[w] = NoJob /\ job'[w].pc = "idle" /\ handle'[w] = 0
  BY <1>1, IdleJob
<1>3. ModelType'
  BY <1>1, IdleJob DEF ModelInv, ModelType
<1>4. FileOk'
  BY <1>2 DEF FileOk, Importing
<1>5. HandleOk'
  <2>1. alive' = {handle'[w] : w \in Runners} \ {0}
    BY <1>1, <1>2
  <2>. QED
    BY <1>2, <2>1 DEF HandleOk, HandlesOwned
<1>. QED
  BY <1>2, <1>3, <1>4, <1>5 DEF ModelInv

\* The steps of a worker on the model.
LEMMA ModelStepOk ==
    ASSUME ModelInv, NEW w \in Runners, ModelStep(w)
    PROVE  ModelInv' /\ NoJobStarts(Runners)
BY TransferStep, DeleteTargetStep, RenameStep, CopyStep, LoadStep, LoadedStep, LoadMissingStep
   DEF ModelStep

\* The local model stands still.
LEMMA ModelSame ==
    ASSUME ModelInv, UNCHANGED modelVars
    PROVE  ModelInv' /\ NoJobStarts(Runners)
<1>1. UNCHANGED fileVars /\ UNCHANGED runtimeVars /\ job' = job
  BY DEF modelVars
<1>2. FileQuiet /\ RuntimeQuiet
  BY <1>1 DEF FileQuiet, RuntimeQuiet, Importing
<1>. QED
  BY <1>1, <1>2, FileQuietOk, RuntimeQuietOk
     DEF ModelInv, ModelType, NoJobStarts, fileVars, runtimeVars

\* No model and no job at first.
LEMMA ModelInitOk ==
    ASSUME ModelInit
    PROVE  ModelInv /\ \A w \in Runners : job[w] = NoJob /\ handle[w] = 0
<1>1. /\ model = "none" /\ part = "none" /\ met = {} /\ stream = [w \in Runners |-> "none"]
      /\ job = [w \in Runners |-> NoJob] /\ assigned = [w \in Runners |-> FALSE]
      /\ handle = [w \in Runners |-> 0] /\ alive = {} /\ made = 0
  BY DEF ModelInit
<1>2. \A w \in Runners : job[w] = NoJob /\ job[w].pc = "idle" /\ handle[w] = 0
  BY <1>1, IdleJob
<1>3. ModelType
  <2>1. /\ met \subseteq Runners /\ stream \in [Runners -> {"none", "part", "model", "gone"}]
        /\ assigned \in [Runners -> BOOLEAN]
    BY <1>1
  <2>2. handle \in [Runners -> 0 .. made] /\ alive \subseteq 1 .. made /\ made \in Nat
    BY <1>1
  <2>3. job \in [Runners -> JobState]
    BY <1>1, IdleJob
  <2>. QED
    BY <1>1, <2>1, <2>2, <2>3 DEF ModelType
<1>4. FileOk
  BY <1>1, <1>2 DEF FileOk, Importing
<1>5. HandleOk
  <2>1. alive = {handle[w] : w \in Runners} \ {0}
    BY <1>1, <1>2
  <2>. QED
    BY <1>2, <2>1 DEF HandleOk, HandlesOwned
<1>. QED
  BY <1>2, <1>3, <1>4, <1>5 DEF ModelInv

----------------------------------------------------------------------------
(***************************************************************************)
(* Discovery, and the app.                                                 *)
(***************************************************************************)

\* No worker starts a scan.
NoScanStarts == \A w \in Workers : Scanning(w)' => Scanning(w)

\* A step that leaves the responder alone.
LEMMA ScanStepOk ==
    ASSUME DiscoveryInv, UNCHANGED responderVars, NEW x \in Scanners, NEW pc \in {"idle", "test", "recv"},
           scan' = [scan EXCEPT ![x] = pc], scan[x] # "idle" \/ pc = "idle" \/ x \notin Workers
    PROVE  DiscoveryInv' /\ NoScanStarts
<1>1. scan' \in [Scanners -> {"idle", "test", "recv"}]
  BY DEF DiscoveryInv
<1>2. \A w \in Workers : Scanning(w)' => Scanning(w)
  BY DEF Scanning, DiscoveryInv
<1>. QED
  BY <1>1, <1>2 DEF DiscoveryInv, responderVars, NoScanStarts

\* The responder and the network: a thread is there while a node serves, and it
\* is at a reply when it has a probe.
LEMMA DiscoveryOk ==
    ASSUME DiscoveryInv,
           \/ Serve \/ StopServing \/ SocketError \/ Junk \/ CloseSocket \/ Stopped
           \/ ResponderStep \/ LoseAnswer
           \/ \E x \in Scanners : ScanStep(x) \/ TakeForeign(x) \/ DeadlinePasses(x)
           \/ \E x \in Scanners \ Workers : BeginScan(x)
    PROVE  DiscoveryInv' /\ NoScanStarts
<1>0. ASSUME scan' = scan PROVE NoScanStarts
  BY <1>0 DEF NoScanStarts, Scanning
<1>1. CASE Serve
  BY <1>0, <1>1 DEF Serve, DiscoveryInv, scanVars
<1>2. CASE StopServing
  BY <1>0, <1>2 DEF StopServing, DiscoveryInv, scanVars
<1>3. CASE SocketError
  BY <1>0, <1>3 DEF SocketError, SocketRaises, Bound, DiscoveryInv, scanVars
<1>4. CASE Junk
  BY <1>0, <1>4 DEF Junk, DiscoveryInv, scanVars
<1>5. CASE Stopped
  BY <1>0, <1>5 DEF Stopped, DiscoveryInv, scanVars
<1>6. CASE LoopTest
  BY <1>0, <1>6 DEF LoopTest, DiscoveryInv, scanVars
<1>7. CASE Recv
  <2>1. PICK x \in buffered : sender' = x /\ thread' = IF x = "junk" THEN "loop" ELSE "reply"
    BY <1>7 DEF Recv
  <2>. QED
    BY <1>0, <1>7, <2>1 DEF Recv, DiscoveryInv, scanVars
<1>8. CASE RecvTimeout
  BY <1>0, <1>8 DEF RecvTimeout, DiscoveryInv, scanVars
<1>9. CASE Reply
  BY <1>0, <1>9 DEF Reply, DiscoveryInv
<1>10. CASE LoseAnswer
  BY <1>0, <1>10 DEF LoseAnswer, DiscoveryInv, responderVars
<1>11. CASE CloseSocket
  BY <1>0, <1>11 DEF CloseSocket, DiscoveryInv, scanVars
<1>12. CASE FindsClosed
  BY <1>0, <1>12 DEF FindsClosed, SocketRaises, DiscoveryInv, scanVars
<1>13. ASSUME NEW x \in Scanners, ScanStep(x) \/ TakeForeign(x)
       PROVE  DiscoveryInv' /\ NoScanStarts
  <2>1. /\ UNCHANGED responderVars /\ scan[x] # "idle"
        /\ \E pc \in {"idle", "test", "recv"} : scan' = [scan EXCEPT ![x] = pc]
    BY <1>13 DEF ScanStep, ScanTest, TakeAnswer, TakeForeign, NothingCame, ScanGoesTo, EndScan
  <2>. QED
    BY <2>1, ScanStepOk
<1>14. ASSUME NEW x \in Scanners, DeadlinePasses(x)
       PROVE  DiscoveryInv' /\ NoScanStarts
  BY <1>0, <1>14 DEF DeadlinePasses, DiscoveryInv, responderVars
<1>15. ASSUME NEW x \in Scanners \ Workers, BeginScan(x)
       PROVE  DiscoveryInv' /\ NoScanStarts
  <2>1. NoScanStarts
    BY <1>15 DEF BeginScan, NoScanStarts, Scanning, DiscoveryInv
  <2>. QED
    BY <1>15, <2>1 DEF BeginScan, DiscoveryInv
<1>. QED
  BY <1>1, <1>2, <1>3, <1>4, <1>5, <1>6, <1>7, <1>8, <1>9, <1>10, <1>11, <1>12, <1>13, <1>14, <1>15
     DEF ResponderStep

\* A scan begins.
LEMMA BeginScanStep ==
    ASSUME DiscoveryInv, NEW w \in Scanners, BeginScan(w)
    PROVE  DiscoveryInv' /\ \A v \in Workers \ {w} : Scanning(v)' => Scanning(v)
BY DEF BeginScan, DiscoveryInv, Scanning

\* Discovery stands still.
LEMMA DiscoverySame ==
    ASSUME DiscoveryInv, UNCHANGED discoveryVars
    PROVE  DiscoveryInv' /\ NoScanStarts
BY DEF discoveryVars, responderVars, scanVars, DiscoveryInv, NoScanStarts, Scanning

\* A step in which no worker starts anything keeps what the app promises of them.
LEMMA AppOk ==
    ASSUME AppInv, NoSyncStarts, NoJobStarts(Runners), NoScanStarts, UNCHANGED <<life, caught>>
    PROVE  AppInv'
<1>1. ASSUME NEW w \in Workers
      PROVE  /\ sync[w].pc = "idle" => sync'[w].pc = "idle"
             /\ Scanning(w)' => Scanning(w)
             /\ job[w] = NoJob => job'[w] = NoJob /\ handle'[w] \in {0, handle[w]}
  BY PhoneAssumption DEF NoSyncStarts, NoJobStarts, NoScanStarts
<1>. QED
  BY <1>1 DEF AppInv

\* What the executor's taking of a task by one worker may change.
LEMMA TaskOk ==
    ASSUME AppInv, NEW w \in Workers, Takes(w),
           \A v \in Workers \ {w} :
              /\ sync[v].pc = "idle" => sync'[v].pc = "idle"
              /\ Scanning(v)' => Scanning(v)
              /\ job[v] = NoJob => job'[v] = NoJob /\ handle'[v] \in {0, handle[v]},
           job'[w] = NoJob \/ sync'[w].pc = "idle"
    PROVE  AppInv'
<1>1. /\ life[w] \in {"live", "closing"} /\ life' = life
      /\ caught' = IF life[w] = "closing" THEN caught \union {w} ELSE caught
  BY DEF Takes
<1>2. \A v \in Workers \ {w} : v \in caught' <=> v \in caught
  BY <1>1
<1>3. life[w] \in {"closing", "gone"} => w \in caught'
  BY <1>1
<1>. QED
  BY <1>1, <1>2, <1>3 DEF AppInv

\* The tasks that the executor takes: a scan ...
LEMMA DiscoverStep ==
    ASSUME IInv, NEW w \in Workers, Discover(w)
    PROVE  IInv'
<1>1. /\ w \in Scanners /\ Takes(w) /\ BeginScan(w)
      /\ UNCHANGED syncVars /\ UNCHANGED modelVars
  BY DEF Discover
<1>2. SyncInv' /\ NoSyncStarts /\ ModelInv' /\ NoJobStarts(Runners)
  BY <1>1, SyncSame, ModelSame DEF IInv
<1>3. Runners = Workers
  BY PhoneAssumption
<1>4. DiscoveryInv' /\ \A v \in Workers \ {w} : Scanning(v)' => Scanning(v)
  BY <1>1, <1>3, BeginScanStep DEF IInv
<1>5. sync'[w].pc = "idle"
  BY <1>1 DEF Takes, syncVars
<1>6. AppInv'
  BY <1>1, <1>2, <1>3, <1>4, <1>5, TaskOk DEF IInv, NoSyncStarts, NoJobStarts
<1>. QED
  BY <1>2, <1>4, <1>6 DEF IInv

\* ... a synchronization ...
LEMMA SynchronizeStep ==
    ASSUME IInv, NEW w \in Workers, Synchronize(w)
    PROVE  IInv'
<1>1. /\ Takes(w) /\ UNCHANGED modelVars /\ UNCHANGED discoveryVars
      /\ \E scope \in SyncScopes : BeginSync(w, scope)
  BY DEF Synchronize
<1>2. ModelInv' /\ NoJobStarts(Runners) /\ DiscoveryInv' /\ NoScanStarts
  BY <1>1, ModelSame, DiscoverySame DEF IInv
<1>3. SyncInv' /\ \A v \in Workers \ {w} : sync'[v] = sync[v]
  BY <1>1, BeginSyncStep DEF IInv
<1>4. job'[w] = NoJob
  BY <1>1 DEF Takes, modelVars
<1>5. AppInv'
  BY <1>1, <1>2, <1>3, <1>4, TaskOk, PhoneAssumption DEF IInv, NoScanStarts, NoJobStarts
<1>. QED
  BY <1>2, <1>3, <1>5 DEF IInv

\* ... an import of a model, or a local turn.
LEMMA LocalTaskStep ==
    ASSUME IInv, NEW w \in Workers, ImportModel(w) \/ InvokeLocal(w)
    PROVE  IInv'
<1>1. /\ Takes(w) /\ UNCHANGED syncVars /\ UNCHANGED discoveryVars
      /\ BeginImport(w) \/ BeginLocal(w)
  BY DEF ImportModel, InvokeLocal
<1>2. SyncInv' /\ NoSyncStarts /\ DiscoveryInv' /\ NoScanStarts
  BY <1>1, SyncSame, DiscoverySame DEF IInv
<1>3. w \in Runners /\ Runners = Workers
  BY PhoneAssumption
<1>4. ModelInv' /\ NoJobStarts(Runners \ {w})
  BY <1>1, <1>3, BeginImportStep, BeginLocalStep DEF IInv
<1>5. sync'[w].pc = "idle"
  BY <1>1 DEF Takes, syncVars
<1>6. AppInv'
  BY <1>1, <1>2, <1>3, <1>4, <1>5, TaskOk DEF IInv, NoSyncStarts, NoScanStarts, NoJobStarts
<1>. QED
  BY <1>2, <1>4, <1>6 DEF IInv

\* A step of one part, in which nobody starts anything.
LEMMA PartStep ==
    ASSUME IInv, SyncInv' /\ NoSyncStarts, ModelInv' /\ NoJobStarts(Runners),
           DiscoveryInv' /\ NoScanStarts, UNCHANGED <<life, caught>>
    PROVE  IInv'
BY AppOk DEF IInv

\* A local turn is stored.
LEMMA StoreTurnStep ==
    ASSUME IInv, NEW w \in Workers, StoreTurn(w)
    PROVE  IInv'
<1>1. /\ Ask(w) \/ Generated(w)
      /\ (\E m \in Messages : AddOnPhone(m)) \/ UNCHANGED syncVars
      /\ UNCHANGED discoveryVars /\ UNCHANGED <<life, caught>>
  BY DEF StoreTurn
<1>2. SyncInv' /\ NoSyncStarts
  BY <1>1, AddOnPhoneStep, SyncSame DEF IInv
<1>3. ModelInv' /\ NoJobStarts(Runners)
  BY <1>1, TurnStep, PhoneAssumption DEF IInv
<1>4. DiscoveryInv' /\ NoScanStarts
  BY <1>1, DiscoverySame DEF IInv
<1>. QED
  BY <1>1, <1>2, <1>3, <1>4, PartStep

\* An activity is created ...
LEMMA CreateStep ==
    ASSUME IInv, NEW w \in Workers, Create(w)
    PROVE  IInv'
<1>1. /\ life[w] = "unborn" /\ life' = [life EXCEPT ![w] = "live"] /\ caught' = caught
      /\ UNCHANGED syncVars /\ UNCHANGED modelVars /\ UNCHANGED discoveryVars
  BY DEF Create
<1>2. SyncInv' /\ ModelInv' /\ DiscoveryInv'
  BY <1>1, SyncSame, ModelSame, DiscoverySame DEF IInv
<1>3. UNCHANGED <<sync, job, handle>> /\ \A v \in Workers : Scanning(v)' <=> Scanning(v)
  BY <1>1 DEF syncVars, modelVars, runtimeVars, discoveryVars, scanVars, Scanning
<1>4. life' \in [Workers -> {"unborn", "live", "closing", "gone"}]
      /\ \A v \in Workers : life'[v] = IF v = w THEN "live" ELSE life[v]
  BY <1>1 DEF IInv, AppInv
<1>5. AppInv'
  BY <1>1, <1>3, <1>4 DEF IInv, AppInv
<1>. QED
  BY <1>2, <1>5 DEF IInv

\* ... its runtime closed ...
LEMMA CloseStep ==
    ASSUME IInv, NEW w \in Workers, Close(w)
    PROVE  IInv'
<1>1. /\ life[w] = "live" /\ life' = [life EXCEPT ![w] = "closing"]
      /\ CloseRuntime(w) /\ UNCHANGED fileVars /\ job' = job
      /\ caught' = IF job[w] = NoJob THEN caught ELSE caught \union {w}
      /\ UNCHANGED syncVars /\ UNCHANGED discoveryVars
  BY DEF Close
<1>2. SyncInv' /\ NoSyncStarts /\ DiscoveryInv' /\ NoScanStarts
  BY <1>1, SyncSame, DiscoverySame DEF IInv
<1>3. w \in Runners /\ Runners = Workers
  BY PhoneAssumption
<1>4. /\ ModelInv' /\ NoJobStarts(Runners)
      /\ job[w] = NoJob => handle'[w] = 0
  BY <1>1, <1>3, CloseRuntimeStep DEF IInv
<1>5. life' \in [Workers -> {"unborn", "live", "closing", "gone"}]
      /\ \A v \in Workers : life'[v] = IF v = w THEN "closing" ELSE life[v]
  BY <1>1 DEF IInv, AppInv
<1>6. sync' = sync /\ \A v \in Workers : Scanning(v)' <=> Scanning(v)
  BY <1>1 DEF syncVars, discoveryVars, scanVars, Scanning
<1>7. AppInv'
  <2>1. ASSUME NEW v \in Workers
        PROVE  /\ life'[v] = "unborn" => sync'[v].pc = "idle" /\ job'[v] = NoJob /\ ~Scanning(v)'
               /\ sync'[v].pc # "idle" => job'[v] = NoJob
    BY <1>1, <1>5, <1>6 DEF IInv, AppInv
  <2>2. ASSUME NEW v \in Workers, life'[v] \in {"closing", "gone"}, v \notin caught'
        PROVE  job'[v] = NoJob /\ handle'[v] = 0
    <3>1. CASE v = w
      BY <1>1, <1>4, <2>2, <3>1
    <3>2. CASE v # w
      <4>1. life[v] \in {"closing", "gone"} /\ v \notin caught
        BY <1>1, <1>5, <2>2, <3>2
      <4>2. job[v] = NoJob /\ handle[v] = 0
        BY <4>1 DEF IInv, AppInv
      <4>. QED
        BY <1>1, <1>3, <1>4, <4>2 DEF NoJobStarts
    <3>. QED
      BY <3>1, <3>2
  <2>. QED
    BY <1>5, <2>1, <2>2 DEF AppInv
<1>. QED
  BY <1>2, <1>4, <1>7 DEF IInv

\* ... and its executor shut down.
LEMMA ShutDownStep ==
    ASSUME IInv, NEW w \in Workers, ShutDown(w)
    PROVE  IInv'
<1>1. /\ life[w] = "closing" /\ life' = [life EXCEPT ![w] = "gone"] /\ caught' = caught
      /\ UNCHANGED syncVars /\ UNCHANGED modelVars /\ UNCHANGED discoveryVars
  BY DEF ShutDown
<1>2. SyncInv' /\ ModelInv' /\ DiscoveryInv'
  BY <1>1, SyncSame, ModelSame, DiscoverySame DEF IInv
<1>3. UNCHANGED <<sync, job, handle>> /\ \A v \in Workers : Scanning(v)' <=> Scanning(v)
  BY <1>1 DEF syncVars, modelVars, runtimeVars, discoveryVars, scanVars, Scanning
<1>4. life' \in [Workers -> {"unborn", "live", "closing", "gone"}]
      /\ \A v \in Workers : life'[v] = IF v = w THEN "gone" ELSE life[v]
  BY <1>1 DEF IInv, AppInv
<1>5. AppInv'
  BY <1>1, <1>3, <1>4 DEF IInv, AppInv
<1>. QED
  BY <1>2, <1>5 DEF IInv

\* The process is killed, with all its threads.
LEMMA KillStep ==
    ASSUME IInv, Kill
    PROVE  IInv'
<1>1. /\ SyncKilled /\ ModelKilled
      /\ scan' = [x \in Scanners |-> IF x \in Workers THEN "idle" ELSE scan[x]]
      /\ life' = [w \in Workers |-> IF life[w] = "unborn" THEN "unborn" ELSE "gone"]
      /\ UNCHANGED <<responderVars, caught>>
  BY DEF Kill
<1>2. SyncInv' /\ \A w \in Workers : sync'[w].pc = "idle"
  BY <1>1, SyncKilledStep DEF IInv
<1>3. ModelInv' /\ \A w \in Workers : job'[w] = NoJob /\ handle'[w] = 0
  BY <1>1, ModelKilledStep, PhoneAssumption DEF IInv
<1>4. DiscoveryInv' /\ \A w \in Workers : ~Scanning(w)'
  BY <1>1 DEF IInv, DiscoveryInv, responderVars, Scanning
<1>5. AppInv'
  BY <1>1, <1>2, <1>3, <1>4 DEF AppInv
<1>. QED
  BY <1>2, <1>3, <1>4, <1>5 DEF IInv

\* The first state.
LEMMA InvInit == Init => IInv
<1>. SUFFICES ASSUME Init PROVE IInv
  OBVIOUS
<1>1. SyncInv /\ \A w \in Workers : sync[w].pc = "idle"
  BY SyncInitOk DEF Init
<1>2. ModelInv /\ \A w \in Workers : job[w] = NoJob /\ handle[w] = 0
  BY ModelInitOk, PhoneAssumption DEF Init
<1>3. DiscoveryInv /\ \A w \in Workers : ~Scanning(w)
  BY DEF Init, DiscoveryInit, DiscoveryInv, Scanning
<1>4. AppInv
  BY <1>1, <1>2, <1>3 DEF Init, AppInv
<1>. QED
  BY <1>1, <1>2, <1>3, <1>4 DEF IInv

\* Every step of every part keeps the invariant.
LEMMA InvStep == IInv /\ [Next]_vars => IInv'
<1>. SUFFICES ASSUME IInv, [Next]_vars PROVE IInv'
  OBVIOUS
<1>1. ASSUME NEW w \in Workers, SyncStep(w), UNCHANGED <<modelVars, discoveryVars>>, App
      PROVE  IInv'
  BY <1>1, SyncStepOk, ModelSame, DiscoverySame, PartStep DEF IInv, App
<1>2. ASSUME NEW w \in Workers, ModelStep(w), UNCHANGED <<syncVars, discoveryVars>>, App
      PROVE  IInv'
  BY <1>2, ModelStepOk, SyncSame, DiscoverySame, PartStep, PhoneAssumption DEF IInv, App
<1>3. ASSUME NEW o \in Items, AddOnNode(o), UNCHANGED <<modelVars, discoveryVars>>, Outside
      PROVE  IInv'
  BY <1>3, AddOnNodeStep, ModelSame, DiscoverySame, PartStep DEF IInv, Outside
<1>4. ASSUME NodeStep, UNCHANGED <<modelVars, discoveryVars>>, App
      PROVE  IInv'
  BY <1>4, NodeStepOk, ModelSame, DiscoverySame, PartStep DEF IInv, App
<1>5. CASE DiscoveryStep
  <2>1. UNCHANGED <<life, caught>> /\ UNCHANGED syncVars /\ UNCHANGED modelVars
    BY <1>5 DEF DiscoveryStep, App, Outside
  <2>2. \/ Serve \/ StopServing \/ SocketError \/ Junk \/ CloseSocket \/ Stopped
        \/ ResponderStep \/ LoseAnswer
        \/ \E x \in Scanners : ScanStep(x) \/ TakeForeign(x) \/ DeadlinePasses(x)
        \/ \E x \in Scanners \ Workers : BeginScan(x)
    BY <1>5 DEF DiscoveryStep
  <2>. QED
    BY <2>1, <2>2, DiscoveryOk, SyncSame, ModelSame, PartStep DEF IInv
<1>6. CASE UNCHANGED vars
  BY <1>6, SyncSame, ModelSame, DiscoverySame, PartStep DEF IInv, vars
<1>. QED
  BY <1>1, <1>2, <1>3, <1>4, <1>5, <1>6, CreateStep, CloseStep, ShutDownStep, DiscoverStep,
     SynchronizeStep, LocalTaskStep, StoreTurnStep, KillStep DEF Next

----------------------------------------------------------------------------
\* The invariant, of every reachable state of the app.
LEMMA InvHolds == Spec => []IInv
BY InvInit, InvStep, PTL DEF Spec

\* The variables of the app and of its parts have their types, and a worker does
\* one thing at a time.
THEOREM TypeCorrect == Spec => []TypeOK
<1>1. IInv => TypeOK
  BY PhoneAssumption
     DEF IInv, SyncInv, SyncType, ModelInv, ModelType, DiscoveryInv, AppInv, TypeOK
<1>. QED
  BY <1>1, InvHolds, PTL

\* Every change of the node's up to a cursor of the app, in memory or on disk,
\* and in that cursor's session, is on the phone.
THEOREM CursorsAreBacked == Spec => []CursorBacked
<1>1. IInv => CursorBacked
  <2>. SUFFICES ASSUME IInv, NEW scope \in SyncScopes, NEW n \in 1 .. Len(node.changes),
                       n <= prefs[scope] \/ n <= saved[scope],
                       InScope(node.changes[n].entity, scope)
                PROVE  node.changes[n].entity \in rows
    BY DEF CursorBacked
  <2>1. /\ prefs[scope] \in Nat /\ saved[scope] \in Nat
        /\ Backed(node, prefs[scope], scope, rows) /\ Backed(node, saved[scope], scope, rows)
    BY DEF IInv, SyncInv, SyncType
  <2>2. n \in 1 .. prefs[scope] \/ n \in 1 .. saved[scope]
    BY <2>1
  <2>. QED
    BY <2>1, <2>2 DEF Backed
<1>. QED
  BY <1>1, InvHolds, PTL

\* The native models in memory are those that a runtime holds, no two runtimes hold
\* the same one, and a worker that generates has one.
THEOREM ModelsAreOwned == Spec => []HandlesOwned
<1>1. IInv => HandlesOwned
  BY DEF IInv, ModelInv, HandleOk
<1>. QED
  BY <1>1, InvHolds, PTL

\* What a step may do to the files while no two imports have met.
Keeps ==
    ~Meeting =>
        /\ model = "whole" /\ model' # "whole" => part = "whole"
        /\ part = "whole" /\ part' # "whole" =>
              \/ model' = "whole"
              \/ \E w \in Runners : job[w] = NoJob /\ Importing(w)'

\* The steps of an import do no more.
LEMMA ImportKeeps ==
    ASSUME ModelInv, NEW w \in Runners, ModelStep(w)
    PROVE  Keeps
<1>1. CASE UNCHANGED <<model, part>>
  BY <1>1 DEF Keeps
<1>2. CASE Importing(w)
  <2>1. SUFFICES ASSUME ~Meeting PROVE Keeps
    BY DEF Keeps
  <2>2. w \notin met
    BY <1>2, <2>1 DEF Meeting
  <2>3. CASE job[w].pc = "transfer"
    <3>1. stream[w] = "part" /\ part = "torn"
      BY <2>2, <2>3 DEF ModelInv, FileOk
    <3>2. Transfer(w)
      BY <2>3 DEF ModelStep, DeleteTarget, Rename, Copy, Load, Loaded, LoadMissing
    <3>3. model' = model
      BY <3>1, <3>2 DEF Transfer, Put
    <3>. QED
      BY <3>1, <3>3 DEF Keeps
  <2>4. CASE job[w].pc \in {"delete", "rename", "copy"}
    <3>1. part = "whole"
      BY <2>2, <2>4 DEF ModelInv, FileOk
    <3>2. CASE DeleteTarget(w)
      BY <3>1, <3>2 DEF DeleteTarget, Keeps
    <3>3. CASE Rename(w)
      BY <3>1, <3>3 DEF Rename, Keeps
    <3>4. CASE Copy(w)
      <4>1. job[w].pc = "copy"
        BY <3>4 DEF Copy
      <4>2. \/ model' \in (IF model = "none" THEN {"none"} ELSE Written(w)) /\ part' = "none"
            \/ UNCHANGED <<model, part>>
        BY <3>4 DEF Copy
      <4>3. Written(w) = {"whole"}
        BY <2>2 DEF Written
      <4>4. model # "none"
        BY <2>2, <4>1 DEF ModelInv, FileOk
      <4>. QED
        BY <3>1, <4>2, <4>3, <4>4 DEF Keeps
    <3>. QED
      BY <2>4, <3>2, <3>3, <3>4 DEF ModelStep, Transfer, Load, Loaded, LoadMissing
  <2>. QED
    BY <1>2, <2>3, <2>4 DEF Importing
<1>. QED
  BY <1>1, <1>2 DEF ModelStep, Transfer, DeleteTarget, Rename, Copy, Load, Loaded, LoadMissing,
     fileVars, Importing

\* No kill, no transfer, delete, rename or copy that fails, no activity's end and
\* nothing else loses the last whole file, unless two imports have met.
THEOREM ModelIsKept == Spec => ModelKept
<1>1. ASSUME IInv, [Next]_vars
      PROVE  [Keeps]_modelVars
  <2>1. CASE UNCHANGED <<model, part>>
    BY <2>1 DEF Keeps
  <2>2. ASSUME NEW w \in Workers, ModelStep(w)
        PROVE  Keeps
    BY <1>1, <2>2, ImportKeeps, PhoneAssumption DEF IInv
  <2>3. ASSUME NEW w \in Workers, BeginImport(w)
        PROVE  Keeps
    <3>1. job[w] = NoJob /\ model' = model /\ w \in Runners
      BY <2>3, PhoneAssumption DEF BeginImport
    <3>2. job'[w].pc = "transfer"
      BY <1>1, <2>3, <3>1 DEF BeginImport, IInv, ModelInv, ModelType
    <3>. QED
      BY <3>1, <3>2 DEF Keeps, Importing
  <2>4. \/ UNCHANGED <<model, part>>
        \/ \E w \in Workers : ModelStep(w) \/ BeginImport(w)
    <3>1. CASE DiscoveryStep
      BY <3>1 DEF DiscoveryStep, modelVars, fileVars
    <3>2. CASE Kill
      BY <3>2 DEF Kill, ModelKilled
    <3>3. CASE UNCHANGED vars
      BY <3>3 DEF vars, modelVars, fileVars
    <3>4. ASSUME NEW w \in Workers,
                 \/ Create(w) \/ Close(w) \/ ShutDown(w)
                 \/ Discover(w) \/ Synchronize(w) \/ InvokeLocal(w) \/ StoreTurn(w)
          PROVE  UNCHANGED <<model, part>>
      BY <3>4 DEF Create, Close, ShutDown, Discover, Synchronize, InvokeLocal, BeginLocal,
         StoreTurn, Ask, Generated, modelVars, fileVars
    <3>5. ASSUME UNCHANGED modelVars
          PROVE  UNCHANGED <<model, part>>
      BY <3>5 DEF modelVars, fileVars
    <3>. QED
      BY <1>1, <3>1, <3>2, <3>3, <3>4, <3>5 DEF Next, ImportModel
  <2>. QED
    BY <2>1, <2>2, <2>3, <2>4
<1>. QED
  BY <1>1, InvHolds, PTL DEF Spec, ModelKept, Keeps

\* The responder's thread dies of no error while "shufu serve" stops, whatever it
\* does when the event is set and the socket closed.
THEOREM StopsAreQuiet == Spec => StopIsQuiet
<1> DEFINE Quiet == thread' = "dead" /\ thread # "dead" => serving = "on"
<1>1. ASSUME IInv, [Next]_vars
      PROVE  [Quiet]_discoveryVars
  <2>1. CASE UNCHANGED thread
    BY <2>1
  <2>2. CASE DiscoveryStep
    <3>1. CASE SocketError
      BY <1>1, <3>1 DEF SocketError, SocketRaises, Bound, IInv, DiscoveryInv
    <3>2. CASE FindsClosed
      BY <1>1, <3>2 DEF FindsClosed, SocketRaises, IInv, DiscoveryInv
    <3>3. CASE \/ Serve \/ StopServing \/ Junk \/ CloseSocket \/ Stopped
               \/ LoopTest \/ Recv \/ RecvTimeout \/ Reply \/ LoseAnswer
      BY <3>3 DEF Serve, StopServing, Junk, CloseSocket, Stopped, LoopTest, Recv, RecvTimeout,
         Reply, LoseAnswer, responderVars
    <3>4. ASSUME NEW x \in Scanners,
                 ScanStep(x) \/ TakeForeign(x) \/ DeadlinePasses(x) \/ BeginScan(x)
          PROVE  UNCHANGED thread
      BY <3>4 DEF ScanStep, ScanTest, TakeAnswer, NothingCame, TakeForeign, ScanGoesTo, EndScan,
         DeadlinePasses, BeginScan, responderVars
    <3>. QED
      BY <2>1, <2>2, <3>1, <3>2, <3>3, <3>4 DEF DiscoveryStep, ResponderStep
  <2>3. CASE UNCHANGED discoveryVars
    BY <2>3
  <2>4. \/ DiscoveryStep \/ UNCHANGED discoveryVars \/ UNCHANGED thread
    <3>1. ASSUME NEW w \in Workers, Discover(w) \/ StoreTurn(w)
          PROVE  UNCHANGED thread
      BY <3>1 DEF Discover, BeginScan, StoreTurn, discoveryVars, responderVars
    <3>2. CASE Kill
      BY <3>2 DEF Kill, responderVars
    <3>. QED
      BY <1>1, <3>1, <3>2 DEF Next, vars, Create, Close, ShutDown, Synchronize, ImportModel, InvokeLocal
  <2>. QED
    BY <2>1, <2>2, <2>3, <2>4
<1>. QED
  BY <1>1, InvHolds, PTL DEF Spec, StopIsQuiet

\* A destroyed activity keeps a native model only when onDestroy met a task.
THEOREM OnlyCaughtTasksLeak == Spec => []LeaksOnlyWhenCaught
<1>1. IInv => LeaksOnlyWhenCaught
  BY DEF IInv, AppInv, LeaksOnlyWhenCaught
<1>. QED
  BY <1>1, InvHolds, PTL
=============================================================================
