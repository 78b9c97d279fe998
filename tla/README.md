# ShuFu, specified in TLA+

ShuFu is a small personal AI node: a Python service that keeps sessions, messages
and artifacts in SQLite, synchronizes them with other nodes over HTTP, runs models
and a bounded tool loop, and has Android and ESP32 clients. This directory holds TLA+
modules of its core logic, TLC configurations that check them on small instances,
and TLAPS proofs of what matters most for every instance.

    tlasany M.tla                        parse a module
    tlc -config sync_hub.cfg MCMemorySync  check a run
    tlapm MemorySyncProofs.tla           check the proofs of a module

Paths below are relative to the repository; `memory.py` means `src/shufu/memory.py`.

## 1. The system

| component | state it keeps | operations |
| --- | --- | --- |
| MemoryStore (`memory.py`) | tables sessions, messages, artifacts, changes, sync_peers | ensure_session, add_message, export_bundle, export_for_peer, import_bundle, sync_state, update_sync_state |
| artifact store (`memory.py`) | blob files named by digest, artifact rows | add_artifact_bytes, the artifacts of an import, artifact |
| sync protocol (`cli.command_sync`, `service.do_GET/do_POST`, `client.py`) | the local variables of a sync process and of a request thread | v0.2 push and pull, v0.3 pull and exchange |
| Agent Lite (`agent_lite.py`) | observations, audit trail, approvals, one worker thread at a time | run, _call_until, cancel |
| ToolRegistry (`agent.py`) | name to tool | register, get, execute |
| Node (`node.py`) | none of its own | invoke: user turn, history, generate, assistant turn |
| HTTP service (`service.py`) | none of its own, a thread per request | invoke, NDJSON stream, artifacts with ranges |
| clients (`client.py`, `shufu_client.c`, `shufu_stream.c`) | expected sequence; line buffer | invoke_stream, parser feed |
| summaries (`summary.py`) | summaries.db: summaries with a fingerprint of every source message | add, get, list |
| context builder (`context.py`) | none of its own | build: artifacts under a policy, verified summaries, history |
| discovery (`discovery.py`) | responder socket and thread; a scan's socket and deadline | start, stop, discover_nodes |
| Android sync (`ShuFuMemoryStore.kt`, `ShuFuSyncEngine.kt`) | SQLite replica, a cursor per node and session in the preferences | addMessage, sync, importBundle |
| Android model (`ModelManager.kt`, `LlamaCppRuntime.kt`, `shufu_jni.cpp`) | model and .part file, native handle | importFromUri, load, generate, close |
| Android app (`MainActivity.kt`) | an executor thread per activity, the activity's runtime | onCreate, its tasks, onDestroy |
| model runtimes, audit sink, other commands, ESP32 tool registry | see section 5 | |

How they meet. Every `shufu` command opens the same database file with its own
connections: a `shufu serve` process with a thread per request, `shufu sync`
processes and users' commands run at once and share nothing but SQLite. A sync
process of one node talks to a request thread of another; both databases change
meanwhile. Agent Lite runs planner, approver and read-only tools on worker threads
that it may abandon, and side effects on its own thread. Its prompt comes from the context
builder, which opens a connection or a file for each thing it reads. The Android app is a
client of the v0.2 sync routes with its own replica, and finds nodes by discovery.

What is hard: several transactions that are one operation (row after session,
cursor after import, read then write of a peer row), exports that read while others
write, answers that never arrive, threads that answer too late, and an order of
approval, last check and side effect with a clock and a cancellation running.
`PROJECT.json` lists each such place, at its line, with the properties about it.

What makes each component correct:

- store: a row is recorded in the change log exactly once, with its session there first;
- sync: cursors never run past what the peer holds, echo suppression omits nothing,
  cursors only advance, and repeated syncs converge;
- agent: each side effect is the one approved, once, in time, and on record; the
  planner is told what the trail says; the run ends;
- node: the runtime is given the turns of a session in the order they were made;
- streams: a client sees a whole stored answer or an error, never a silent prefix, and in
  a stream an error never stands for an answer that was kept;
- artifacts: an id means its author's bytes everywhere, a row has its file, and writers of
  the same bytes leave the file whole;
- summaries and context: what reaches a prompt was verified, though stores change under
  the reader, and keeps to the byte budget; a summary rests on its messages;
- discovery: a scan ends whatever else arrives, a probe that arrives is answered unless the
  answer's own sendto times out, and a normal stop ends the responder's thread without an error;
- Android: a kept cursor is backed by imported rows; an import that meets no other never loses
  the last whole model file, though it may leave it under its `.part` name only, which nothing
  looks for; no two runtimes hold one native model, and none is freed while it generates. A
  model loaded by a task that onDestroy caught is freed by nobody.

## 2. What is modelled

### MemoryStore

`Store` is the set of row identifiers plus the `changes` table as a sequence, whose
index is `seq`. Rows are immutable (`INSERT OR IGNORE`), so identity is all the
protocol can tell apart. `Insert` is the row and its change in one transaction.
`ExportStep` is one SELECT of `export_bundle`: its cursor is fixed first, then either
one query of the changes in the window or one of each table. The comment at
`memory.py:483` speaks of one snapshot, but in Python's sqlite3 a SELECT opens no
transaction, so each statement sees its own state and the model lets others write in
between. `Importable`, `ImportStep` and `StillToImport` are the loop of
`import_bundle`: sessions, then messages, then artifacts, object by object, each
with its own commits (the missing session of an item is a commit of its own).

### MemorySync

`client[c]` holds the locals of one `command_sync`, `handler[h]` those of one request
thread; `store` and `peers` are the databases, the only state that outlives both.

| action | code |
| --- | --- |
| OpenSession, AddItem | `add_message`, `add_artifact_bytes`: two transactions |
| BeginSync | capabilities and the first `sync_state`, `cli.py:325-344` |
| ExportForPeer, ClientExport | `export_for_peer` (reads the cursor again), `export_bundle` |
| SendRequest | `client.sync_pull`, `sync_push`, `sync_pull_v3`, `sync_exchange` |
| HandlerCheck, HandlerExport, HandlerImport, HandlerReply | `service.py:235-260`, `305-345` |
| ReadPeerRow, WritePushed, WritePulled | the two transactions of `update_sync_state` |
| ClientImport, ClientImported | `import_bundle` of the pulled bundle |
| ClientFail, HandlerFail | lost request or answer, exception, 400, killed process |

The `--protocol` and `--direction` arguments are `Directions`; a v0.2 sync in both
directions is a `v2push` followed by a `v2pull`. A thread whose client is gone goes on
for nobody (`caller = NoClient`), which is how a late or lost answer appears.
`ReplicatedRows` is the abstract promise: rows are written once by their author,
copied from a node that holds them, after their session, and never lost; TLC checks
that MemorySync implements it with `rows <- [n |-> store[n].rows]`.

### AgentLite

One `AgentLite.run`. `pc` is the controller's place, `call` the latest `_call_until`
with its worker thread, `audit` and `observations` what the run recorded, `effects`
the side-effect handlers that were started. A worker may answer at any time, also
after the run has ended, or never. `expired` is the deadline passed, `cancelled` the
token; both may become true between any two steps. Arguments and texts are abstracted
to sound or not (`"bad"` is every planner failure), and a tool's output to one that has a text or
not (`"opaque"`: `_serialize` or the exception's own `str` raises, `agent_lite.py:457`, outside the
`except` for a tool's failure, so the run fails without a result on the trail). What the code does on one thread
without a host call in between is one action. `OneShotApproval` is the abstract promise:
a grant per step in increasing order, at most one execution per grant, before the next
grant and before the end; AgentLite implements it under the mapping in `Promise`.
A tool with a cancel_handler that also has a side effect never has that handler called,
so the model gives none to side effects (`Hooked`).

### NodeInvoke and InvokeStream

`NodeInvoke` is `ShuFuNode.invoke` on one request thread per invocation: `Stamp` is the
`utc_now()` that `add_message` takes before its transaction, `Store` the transaction,
`ReadHistory` the query, `Generate` the runtime and `Raise` a failure before or at any of
them. A message is its author, role and timestamp. `TextBefore` is SQLite's order of the
texts `isoformat()` writes, in which a whole second, written without its microseconds,
comes last in its second; the outer `ORDER BY` leaves equal texts in any order, so
`Histories` is a set.

`InvokeStream` puts an invocation behind HTTP and extends `NodeInvoke`.

| variable | what it is |
| --- | --- |
| thread, wire, link | the request thread and its next sequence; lines written and not read; the connection: open, closed by the node, cut |
| client | the caller: the event iterator, the plain call or the ESP32 component, what it was given and its outcome |
| buffer | the ESP32 parser's length, and where in the line at the head of the wire it stands |

| action | code |
| --- | --- |
| Refuse, StartFails, Accept, EmitDelta, EmitDone, EmitError, Reply | `service.py:101-173`, `293-301`, `356-357` |
| ReadEvent, ReadReply, EndOfStream, Timeout | `client.py:54-131`, with the 120 s of `urlopen` |
| KeepByte, Overflow, Newline | the loop of `shufu_stream_parser_feed`, a byte at a time |
| PerformReturns | `shufu_client.c:92-100` |
| BrokenPipe, Cut, Killed | a write that fails, a connection that loses any tail, the process ends |

A line is its type, sequence, piece of the answer and length. How the bytes are cut into
fragments matters only where the parser drops one, so `Overflow` chooses where the
fragment ends among the lines on the wire. `PerformReturns` may take a cut connection for
the end of the response, as HTTP/1.0 without a length lets it; a device is told nothing
about the last event, so `DeviceExact` promises only lines without gaps.

An event or a reply that cannot be encoded (a lone surrogate) is a ValueError. In a stream, at the
start or the error event, the handler then writes a second response, the 400, behind the headers of the
first: a line of type `"response"`, which the event iterator cannot parse (`"garbled"`). On the
plain route the 400 comes after the answer was stored, so `"refused"` tells a plain caller nothing about
the session, and FailureLeavesNoAnswer is about streaming callers.

### ArtifactStore, SummaryStore and ContextBuilder

`ArtifactStore` counts the bytes of a content in pieces, the units in which a write reaches
the file, and keeps in `file[c]` which pieces are there. A digest is identified with its
content, so a torn or foreign byte string is another member of `Contents`.

| action | code |
| --- | --- |
| AddLocal, Import | a call of `add_artifact_bytes`; the hash check of `import_bundle` before it |
| CheckFile, OpenFile, WritePiece | `target.exists()`, `write_bytes` (truncates, then writes at its own offset), `memory.py:264-266` |
| WriteRow, Fail | `INSERT OR IGNORE` and the change; a killed process or full disk at any place |

`SummaryStore` keeps, for each summary, its session and a fingerprint of each source. A
message is its session and a version of its role and content; `Edit` is the one action
that the program never takes, a raw database altered from outside, which is what the
fingerprints are for.

| action | code |
| --- | --- |
| BeginAdd, LookUp, StoreSummary | `SummaryStore.add`: one connection per source, then one transaction |
| BeginBuild, ReadArtifact, Finish | `ContextBuilder.build` with its artifact policy |
| BeginList, ReadSummary, CheckSource | `list`, `get` and `_verify_sources`, a connection per source |

`ContextBuilder` extends both stores with one reader. `touched` is a history variable, the
messages changed since the reader began: a source checked first and edited later cannot
be noticed, and TrustedSummaries says that nothing else goes unnoticed.

### AndroidSync, LocalModel, Discovery and PhoneApp

`PhoneApp` composes the other three: activities come and go, each with one executor thread
that runs one task at a time, while `onDestroy` on the main thread closes the runtime and
shuts the executor down without waiting for the task.

| action | code |
| --- | --- |
| Create, Close, ShutDown, Kill | `onCreate`, the two halves of `onDestroy`, the system ends the process |
| Discover, Synchronize, ImportModel, InvokeLocal | the tasks of `MainActivity.background` |
| BeginSync, Push, Pushed, NodeExport, ImportBundle, SaveCursor | `ShuFuSyncEngine.sync`; NodeImport is the node's thread |
| Flush, SyncKilled | `SharedPreferences.apply` reaches the disk later, or never |
| BeginImport, Transfer, DeleteTarget, Rename, Copy | `ModelManager.importFromUri` and `replace`, its fall-back copy last |
| Load, Loaded, LoadMissing, Ask, Generated, CloseRuntime | `LlamaCppRuntime` and the native handle behind it |
| Serve; StopServing, CloseSocket, Stopped | `DiscoveryResponder.start` and the three steps of `stop`, under `shufu serve` |
| LoopTest, Recv, RecvTimeout, Reply, FindsClosed, SocketError | `DiscoveryResponder._run`; Reply may time out and drop the answer |
| BeginScan, ScanTest, TakeAnswer, TakeForeign, NothingCame | `discover_nodes` and `ShuFuDiscoveryClient.discover` |
| DeadlinePasses | the clock of a scan passes its deadline; the loop and the socket notice later |

`AndroidSync` extends `MemoryStore`: the node is a store of that module, so the phone meets
the same exports and imports, statement by statement. The phone's own import is one
transaction.

In `LocalModel` the bytes of a transfer follow the file they were opened on: another import may
rename it to the model's name or delete it meanwhile (`stream`). Imports that wrote at the same
time may leave a mixture; the history variable `met` names them, and ModelKept excepts only
steps taken while one of them is under way. Kills and failures of every step are not excepted. What ModelKept
says is the most the code does: after a kill between the delete and the rename the whole
file is there, under the `.part` name, and the app lists no model; the next transfer truncates it.
`caught` in `PhoneApp` is the history variable of LeaksOnlyWhenCaught.

A scan is at the loop's test or in `receive`. `Fragile` are the scanners that run the
Python client, which a datagram of JSON that is no object ends with an AttributeError
(`discovery.py:148` is inside a `try` that does not catch it). The phone's socket timeout
is the whole scan's, fixed at the start, so its last `receive` may begin just before the deadline and wait
nearly as long again: ScansEnd promises an end, not a moment.

## 3. The runs

| run | instance | what it shows |
| --- | --- | --- |
| sync_hub | a and c sync with hub b, both directions, one message and one failure anywhere | TypeOK, the inductive invariant IInv, PushedReached, PulledReached, OriginHolds, CursorsAdvance, ReplicatesRows hold |
| sync_races | two processes of one database, push in v0.2 and v0.3 and pull, users who write a message and an artifact | ChangeLogExact and PushedReached hold, though cursors may rewind |
| sync_converges | one process, two-way or pull, authors at both ends, one failure | Converges holds under fairness |
| sync_cursor_rewind | two pushing processes | CursorsAdvance fails: see findings |
| sync_session_scope | one process, two sessions synced in turn | PulledReached fails: see findings |
| agent_run | three steps, four tools claiming two names, every host behaviour | the agent's properties hold, the run ends |
| agent_budget | the same | BudgetReported fails: see findings |
| invoke_stream | one invocation from any of the three clients, answers of up to two pieces, lines of 1 to 4 bytes in a buffer of 3, two failures | TypeOK, StreamAccepted, WholeAnswer, FailureLeavesNoAnswer, DeviceExact and Answered hold |
| artifact_context | two writers of the same bytes or of damaged ones, one keeper, one reader of both stores, one failure, one edit | TypeOK, BlobBeforeRow, RecordsGenuine, BlobSettles, VerifiedPrompt, WithinBudget, TrustedSummaries, SummariesGrounded hold |
| artifact_torn | two writers of the same bytes, one of them killed | RecordedIsWhole fails: see findings |
| phone_app | two activities, one of which scans, and a scanner of the Python kind; one node and its responder, two sessions, a model file, the process killed | TypeOK, CursorBacked, HandlesOwned, LeaksOnlyWhenCaught, StopIsQuiet, ModelKept, ScansEnd and ProbesAnswered hold |
| history_order | two invocations of a session, four ticks, two to a second | HistoryChronological fails: see findings |

Bounds, all constants of the configurations: at most three nodes, one session
(two in sync_session_scope), one or two items, two processes, two request threads, and
`MaxFailures` 0 to 2; three steps of an agent run (`MaxSteps`). They are enough for
the cases the properties are about. Two logged rows (session and item) make a window
that a writer can split; two processes of one database, or of two databases behind a
hub, make a race; a third node makes an origin that is neither end; one failure
suffices because a failed sync leaves only its committed rows and cursors, from which
the next starts. Three steps are one that is given up or ends late, one that
follows it and a last one, at the loop's bound; each call has its own queue in the code, so a late answer
finds nobody. Invocations share nothing but the rows of their session, so one is enough for
what its caller sees and two, in history_order, for what they do to each other. Lines shorter than,
as long as and longer than the buffer, with a second line behind, let a dropped fragment
end in either. In artifact_context a content has two pieces, so that a file can be
torn, a budget of three pieces admits one artifact and refuses the second, and at most
`MaxOperations` = 4 writes, additions, turns and edits begin: two writers, one of whom
fails, and a reader meet in every order, and so do a summary of two messages, an edit
and a listing. In phone_app `MaxEvents` = 4 bounds what users, the system and the
network do, tasks included and onCreate not: one activity's import and close and a second activity's
import fit, with a kill, and so do a sync, a write on the node and another sync, or a start of the
responder, two scans and a stop. What runs by itself is not bounded. Request threads are interchangeable, and processes with the same two
ends too, so safety runs use symmetry; the liveness runs use none.

Fairness. `MemorySync!Fairness`: a process or thread that has begun goes on (it waits for
nobody but the thread that serves it), and users start a two-way sync again and again
(strong fairness, as another sync may be under way). Nobody has to write and failures
are bounded, so Converges says what happens once both have stopped. `AgentLite!Fairness`:
the controller's thread is scheduled, and the callbacks that run on it, side effects
and cancel handlers, return, an obligation the docstring of `_call_until` puts on tool
authors. Planners, approvers and read-only tools may hang for ever, and `Stops` holds all
the same. `InvokeStream!Fairness`: a caller reads what has arrived and its socket timeout fires
when nothing does; nothing is assumed of the node. `PhoneApp!Fairness`: the responder's thread runs on, a scan's
thread runs on and its socket's timeout fires, and the clock reaches the deadline. Nothing is assumed of the app
or of the network: foreign datagrams may come for ever, and ScansEnd needs the loop's test for that and
the socket's timeout for silence. ProbesAnswered allows for the sendto that times out and the
socket error that ends the thread. The clock does not go back, which the phone's
`currentTimeMillis` could. Deadlock is checked in the sync runs; an
agent run and an invocation end and the last two systems are bounded by what begins, so there
it is not.

### Findings

1. `sync_session_scope`: the cursors are one row per peer, whatever the `--session`
   of the sync that earned them (`memory.py:377`, `cli.py:338`). `docs/protocol-v0.3.md:163`
   says a cursor is interpreted only within its source node and session. After a sync of
   one session, earlier changes of another are never exchanged. The same mechanism
   loses nothing as long as all syncs of a node use the same argument (section 4).
2. `sync_cursor_rewind`: `update_sync_state` promises to advance cursors monotonically
   (`memory.py:369`), but takes the maximum against a row read in an earlier
   transaction. Of two concurrent syncs the slower one stores the older cursor. A rewind
   only costs a repeated transfer: PushedReached and PulledReached still hold.
3. `agent_budget`: a side effect that raises skips the look at the token and clock that
   follows a normal return (`agent_lite.py:434-437`), so in the last step the run ends as
   `max_steps` although `docs/protocol-v0.4.md:102` makes it `timed_out` (or `cancelled`, line 103).
4. `history_order`: `utc_now` (`memory.py:30`) leaves the microseconds of a whole second out,
   and `history` sorts the texts (`memory.py:214`): a turn stamped exactly on a second is put
   behind the later turns of that second, against the docstring at `memory.py:203`.
5. `artifact_torn`: `add_artifact_bytes` writes the blob in place and takes an existing file of
   that name for the content (`memory.py:265`). A writer killed half-way leaves a short file, which every
   later writer of the same bytes keeps and records as whole, so that `artifact` returns
   bytes that nobody verified, against its docstring at `memory.py:314`. The context builder
   hashes what it reads and refuses it (VerifiedPrompt), and so does an importing peer
   (RecordsGenuine), from then on every time.

Divergences met on the way that no run states. A reply of the plain route that cannot be
encoded is answered 400 although the answer was stored; `docs/protocol-v0.3.md:218` calls a 400 an invalid request.
`discover_nodes` lets a datagram of JSON that is no object raise out of it, though its docstring
(`discovery.py:126`) speaks of validated advertisements. `docs/product-v0.2.md:232` has an import
whose digest does not match refused whole. `import_bundle` keeps the objects it
imported before the bad one, as ImportStep and HandlerFail have it; the Android import is one
transaction and does refuse it whole.

## 4. The proofs

The proofs assume only the ASSUMEs of the modules (the sets of identifiers are disjoint, every
process has two different ends, contents have a length, and the like), for any number of nodes,
objects, processes, writers, contents and failures.

### Synchronization

`MemoryStoreProofs` holds what the store's operators return, `MemorySyncProofs` the
theorems about cursors and what they cover, `ReplicationProofs` those about rows.

- `TypeCorrect`: `Spec => []TypeOK`.
- `PushNeverOmits`, `PullNeverOmits`: `Spec => []PushedReached` and `[]PulledReached`, when
  `SameScope`: all syncs use one `--session` argument, or none does. Without that they are
  false; the run sync_session_scope is the counterexample.
- `CursorsAreCovered`: `Spec => []IInv`, the invariant behind them, under the same condition.
- `LogsStayExact`, `ExclusionIsSafe`, `RowsAreReplicated`: `Spec => []ChangeLogExact`,
  `[]OriginHolds` and `ReplicatesRows`, the refinement, whatever the scopes.
- `CursorsOnlyAdvance`: `Spec => CursorsAdvance`, when `OneProcess`: no two processes of a
  node sync with one remote. The run sync_cursor_rewind is the counterexample without that.

The properties speak of the databases only and are not inductive: a cursor is stored
long after the export that earned it. `IInv` (module `MemorySyncInv`) says what each
bundle on its way owes. An export at n for m has, of the kinds of rows it has read so
far, every change up to its cursor that m lacks (`ExportOk`); a process that is about
to store a cursor holds one that is covered, the rows still to be imported counted
(`ClientOk`); so does a thread for the cursor it will acknowledge (`HandlerOk`); and a
process that waits is served by at most one thread, with its own nodes and scope
(`CallerOk`, `OneCaller`).

Its parts are about explicit values, so the argument splits. Stores only grow, and every
part survives that: `CoveredGrows` to `StoreGrows`, applied once in `Frame`. Then one lemma
per action shows what the action changes itself (`InvBeginSync` to `InvClientFail`), with
`ExportStepOk` for one statement of an export and `ImportCovers` for one commit of an
import. `InvInit`, `InvStep` and `InvHolds` put them together. Why concurrent rewinds do
no harm is visible there: a stored cursor is the larger of two that are each covered.
`SameScope` is used where a cursor stored by one sync is read by the next.

What concerns rows needs less, and no scope: `Provenance` says that whatever an export,
a bundle or a list still to be imported holds is committed at its source (`ClientHolds`,
`HandlerHolds`), and that a thread with a caller stands between that caller's two nodes
(`CallerEnds`). From it `StoreSteps` finds that a step of the protocol leaves all stores
alone, is a user's transaction, or imports a row its sender has. Each of the three keeps the
log exact (`StoreStepKeeps`), puts a row whose origin is named where that origin still has it, and
is a step of ReplicatedRows or a stutter (`ReplicaStep`). For the cursors, `RowIsCurrent` says
that what `update_sync_state` read is what its second transaction overwrites; with one process
per peer it is inductive, and then the maximum it takes is a maximum (`WritesAdvance`).

### Artifacts, summaries and their reader

`ContextProofs` proves every property of artifact_context: `ContextTypeCorrect`, `BudgetIsKept`, `RecordsHaveBlobs`, `RecordsAreGenuine`, `BlobsSettle`, `PromptsAreVerified`,
`SummariesAreGrounded` and `SummariesAreTrusted`. The
invariant `IInv` adds what the writers, keepers and the reader carry with them:

- `WritersGenuine`: a writer past the hash check carries its artifact's bytes, and there is
  a file once it is to insert the row.
- `Settles`: while nobody failed, a file is whole or some writer completes it (`Completes`): one
  that is about to truncate it, or one whose every piece so far is in it. A second writer that
  truncates the file starts at piece one and rewrites all, so the last to truncate completes
  it, and BlobSettles holds although each writer may undo another's work.
- `KeepersGrounded`: without edits, the fingerprints a keeper holds still hold, because messages
  are written once.
- `ReaderInv`: what was taken was genuine and whole when it was read; each source of the summary
  at hand is still to be checked, holds, or was touched since the reader began; each source of
  a trusted summary holds or was touched.

The argument has one lemma per action of a store and one per step of the reader; a step of one
store leaves the invariants of the other parts as they are, except that a changed message
goes into `touched`.

`BudgetInv` is an invariant of its own: an artifact taken is not read again, what was taken is finite, and
`reader.total` is the number of its bytes. WithinBudget counts bytes as the set of pairs of
an artifact and a piece of it (`BytesTaken`), so taking an artifact adds a disjoint set of known
size, which the library's facts on cardinality settle without a fold.

### Agent Lite

`AgentProofs` proves, for any host, tools and `MaxSteps` up to 10 (the limit the code
enforces), `AgentTypeCorrect`, `ToolsAreApproved`, `EffectsAreSettled`, `EffectsAreAudited`,
`StatusIsHonest`, `PlannerIsToldTheTrail`, and `AgentKeepsPromise`: that AgentLite implements OneShotApproval. Its `IInv` adds:

- `NamesUnique`, `ToolOK`: no two registered tools share a name, and the side effect the user is
  asked about stays registered, so that the second look-up finds the same tool;
- `EffectsOK`, `GrantsOK`: side effects and approvals have increasing steps, and a step has neither
  before the controller comes to it (`Unstarted`); only the last side effect may run, and only in
  the place `effect`;
- `OutcomesOK`: a step has one outcome on the trail, and none while it is under way;
- `CallOK`, `StepOK`, `StatusOK`: what the controller's place says of its call, step and status.

`RecordAdds` says which events a record adds. The actions of the controller then fall into
three kinds, that end the run (`EndStep`), tell the planner (`TellStep`) or go on (`GoStep`);
each kind keeps the invariant once, and each action is shown to be of its kind. Only the
start and the end of a side effect have a proof of their own. Beside the invariant each of
these lemmas shows that the step is one of the promise (`Keeps`). For the planner's
observations the same steps are sorted again: one that is `Quiet` adds neither a result nor an
observation, one that `Tells` adds a pair that agree; and the results on the trail are
in the order of their steps.

### Invocations

`InvokeProofs` proves every safety property of invoke_stream, for any number of invocations and
any lengths: `TypeCorrect`, `StreamIsAccepted`, `AnswersAreWhole`, `FailuresLeaveNoAnswer` and
`DeviceIsExact`. The properties compare what a caller was given with what the node stored, and
the two never look at each other, so the invariant `RequestOk` follows an answer all the way:

- `Paced`: how far the thread, its invocation and its connection may be apart;
- `Kept`: the user's turn is stored from its transaction on, the assistant's exactly when the
  invocation has returned;
- `Wrote`, `InStep`: a line was written at a place its invocation has come to, where what it
  says is true and stays so, and lines carry sequences without a gap;
- `OnTheWay`, `InHand`: the lines in a caller's hands and on the wire were all written, and
  while it has dropped nothing the wire goes on where its hands end, up to the last line
  written if the connection is open;
- `Told`: an outcome says what became of the invocation.

All the node's writes are one lemma (`ThreadWrites`, with `LastLine` for the line that ends a
stream), all that callers do another (`CallerMoves`, with `LineTaken` and `EndOk`), and `Killed` and
`Cut` are their own: a connection may lose any tail, and the invariant is about what is left.

### The Android app

`PhoneProofs` proves every safety property of phone_app: `TypeCorrect`, `CursorsAreBacked`,
`ModelsAreOwned`, `OnlyCaughtTasksLeak` and the action properties `ModelIsKept` and `StopsAreQuiet`. `IInv` has a part for each module that
PhoneApp composes:

- `SyncInv`: the rows of the phone have every change of the node up to a cursor, in its scope, be
  the cursor in memory, on disk or about to be saved (`Backed`, `WorkerOk`), and a bundle has what
  lies between its two cursors (`Carries`);
- `ModelInv`: imports at the same time have met; one that met none has its stream in the `.part`
  file and a whole copy there from the end of its transfer to its rename, and a copy finds the model file
  it made (`FileOk`), which with the step (`Keeps`) gives ModelKept; no two runtimes have one native model, and none is loaded
  over another (`HandleOk`);
- `DiscoveryInv`: the event is set before the socket is closed, so a thread that finds it closed
  ends quietly; `AppInv`: a worker does one thing at a time
  and none before its activity, and a destroyed activity has no model unless it was caught at
  a task.

The parts share nothing but the workers, so a step of one is quiet for the others, and each
action has a proof for its own part only.

### Only model-checked

Every invariant and every action property that a passing run checks is a theorem. The liveness
properties Converges, Stops, Answered, ScansEnd and ProbesAnswered are not: they rest on
fairness, and ENABLED is out of the prover's reach. Nor are the invariants shown to hold
outside their conditions, SameScope and OneProcess: there they fail, as two runs show.

## 5. Not modelled

- The four representations in which an artifact travels: ArtifactStore has the bytes they
  carry. In MemorySync an artifact that does not verify is a failure of the import.
- Uploads and range reads of artifacts over HTTP; limits of texts, long-term facts and the
  character budget of summaries: checks of one call's arguments, without state.
- `updated_at` of a session; timestamps are in NodeInvoke only.
- Databases of v0.1, whose rows have no change records, and bundles without a
  source_node_id: the models start from an empty database of the current schema.
- A failing audit sink: `record` swallows its exceptions. An exception whose own text raises in the
  last handler of `run`, and Ctrl-C between two statements that are one action.
- A responder started again after stop, which no caller does.
- Android: the artifacts of the phone; its change log, which nothing reads;
  `ModelManager.download`, which the app never calls; the inside of the native library.
- The ESP32 tool registry: a table filled by one task before it is used.
- Model runtimes, argument parsing, printing, HTTP routing and authentication.

## 6. Plan

Done: MemoryStore and MemorySync with ReplicatedRows; AgentLite with OneShotApproval; NodeInvoke and
InvokeStream; ArtifactStore, SummaryStore and ContextBuilder; AndroidSync, LocalModel, Discovery and
PhoneApp; an inductive invariant and the theorems of section 4 for each.

Theorems to add: what the two abstract specifications promise by themselves (a row of ReplicatedRows
is never lost, an execution of OneShotApproval follows its grant), carried over to the
modules that implement them; that under SameScope a sync that has run to its end without a
writer leaves both stores equal, the safety half of Converges; and that a
history is in order when no turn falls on a whole second.
