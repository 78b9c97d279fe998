---------------------------- MODULE ContextBuilder ----------------------------
(***************************************************************************)
(* The readers of the artifact store and the summary store: the context    *)
(* of an Agent Lite task (context.py, shufu agent) and the listing of a    *)
(* session's summaries (shufu summary list).  A reader opens a connection  *)
(* or a file for every object it reads, while writers store artifacts,     *)
(* keepers add summaries, turns arrive and the raw database is edited.     *)
(*                                                                         *)
(* Reading a row and then its file is one step: rows never change once     *)
(* inserted, so the step stands for the moment the file is read.           *)
(***************************************************************************)
EXTENDS ArtifactStore, SummaryStore

CONSTANTS
    ArtifactSession,        \* the session an artifact belongs to
    Readable,               \* contents of an allowed MIME type, in UTF-8
    MaxArtifacts,           \* ArtifactPolicy.max_artifacts
    MaxArtifactBytes,       \* ArtifactPolicy.max_artifact_bytes
    MaxTotalBytes,          \* ArtifactPolicy.max_total_bytes
    MaxSummaries,           \* ContextBuilder.max_summaries
    MaxOperations           \* bound: writes, additions and edits that begin

ASSUME ContextAssumption ==
    /\ ArtifactSession \in [Artifacts -> Sessions]
    /\ Readable \subseteq Contents
    /\ MaxArtifactBytes \in Nat /\ MaxTotalBytes \in Nat
    /\ MaxArtifacts \in Nat /\ MaxSummaries \in Nat /\ MaxOperations \in Nat

VARIABLES
    reader,     \* the reader: see Reading
    touched,    \* history variable: messages changed since the reader began
    begun       \* operations begun so far

vars == <<artifactVars, summaryVars, reader, touched, begun>>

NoReader == [pc |-> "idle"]

\* todo and want are artifacts and summaries still to read; taken and total
\* what the artifacts gave; current the summary whose sources are checked, one
\* element or none, checks its unchecked sources, trusted the checked summaries.
Reading(pc, s, arts, sums) ==
    [pc |-> pc, session |-> s, todo |-> arts, taken |-> {}, total |-> 0,
     want |-> sums, current |-> {}, checks |-> {}, trusted |-> {}]

Taken == [id : Artifacts, digest : Contents, bytes : SUBSET Nat]

ReaderState ==
    [pc : {"build", "list", "done", "failed"}, session : Sessions,
     todo : SUBSET Artifacts, taken : SUBSET Taken, total : 0 .. MaxTotalBytes,
     want : SUBSET Summaries, current : SUBSET Summaries, checks : SUBSET Messages,
     trusted : SUBSET Summaries]

Init ==
    /\ ArtifactInit
    /\ SummaryInit
    /\ reader = NoReader
    /\ touched = {}
    /\ begun = 0

StoresUnchanged == UNCHANGED <<artifactVars, summaryVars, begun>>

----------------------------------------------------------------------------
(***************************************************************************)
(* ContextBuilder.build                                                    *)
(***************************************************************************)

\* Ids are distinct, and not too many.
BeginBuild(s, arts, sums) ==
    /\ reader = NoReader
    /\ Cardinality(arts) <= MaxArtifacts
    /\ Cardinality(sums) <= MaxSummaries
    /\ reader' = Reading("build", s, arts, sums)
    /\ UNCHANGED touched
    /\ StoresUnchanged

\* shufu summary list: the session's ids, and then every summary by itself.
BeginList(s) ==
    /\ reader = NoReader
    /\ reader' = Reading("list", s, {}, {u \in Summaries : summary[u] # NoSummary /\ summary[u].session = s})
    /\ UNCHANGED touched
    /\ StoresUnchanged

\* MemoryStore.artifact: the row, and the bytes in the file it names.
Bytes(i) == IF row[i] = NoRow THEN NoRow ELSE file[row[i]]

\* The bytes read for an artifact have the recorded length and hash.
Intact(i) == row[i] # NoRow /\ Bytes(i) = Whole(row[i])

\* Mutant: the length is compared, the hash is not.
AcceptableByLength(i, s, total) ==
    /\ row[i] # NoRow
    /\ Bytes(i) # NoFile
    /\ Pieces[row[i]] \in Bytes(i)
    /\ ArtifactSession[i] = s
    /\ row[i] \in Readable
    /\ Pieces[row[i]] <= MaxArtifactBytes
    /\ total + Pieces[row[i]] <= MaxTotalBytes

\* Mutant: only the single artifact's limit is enforced.
AcceptableAlone(i, s, total) ==
    /\ Intact(i)
    /\ ArtifactSession[i] = s
    /\ row[i] \in Readable
    /\ Pieces[row[i]] <= MaxArtifactBytes

\* The checks of one selected artifact: recorded, of this session, of an
\* allowed type, intact, within both limits, UTF-8.
Acceptable(i, s, total) ==
    /\ Intact(i)
    /\ ArtifactSession[i] = s
    /\ row[i] \in Readable
    /\ Pieces[row[i]] <= MaxArtifactBytes
    /\ total + Pieces[row[i]] <= MaxTotalBytes

ReadArtifact(i) ==
    /\ reader.pc = "build"
    /\ i \in reader.todo
    /\ reader' =
        IF Acceptable(i, reader.session, reader.total)
        THEN [reader EXCEPT !.todo = @ \ {i},
                            !.taken = @ \union {[id |-> i, digest |-> row[i], bytes |-> Bytes(i)]},
                            !.total = @ + Pieces[row[i]]]
        ELSE [reader EXCEPT !.pc = "failed"]
    /\ UNCHANGED touched
    /\ StoresUnchanged

\* SummaryStore.get: the summary and its sources in one connection.
ReadSummary(u) ==
    /\ reader.pc \in {"build", "list"}
    /\ reader.todo = {}
    /\ reader.current = {}
    /\ u \in reader.want
    /\ reader' =
        IF summary[u] = NoSummary
        THEN [reader EXCEPT !.pc = "failed"]
        ELSE [reader EXCEPT !.want = @ \ {u}, !.current = {u}, !.checks = DOMAIN summary[u].sources]
    /\ UNCHANGED touched
    /\ StoresUnchanged

\* Mutant: a summary is trusted once its first source has been checked.
CheckFirstSource(u, m) ==
    /\ reader.pc \in {"build", "list"}
    /\ u \in reader.current
    /\ m \in reader.checks
    /\ reader' =
        IF ~SourceHolds(u, m)
        THEN [reader EXCEPT !.pc = "failed"]
        ELSE [reader EXCEPT !.checks = {}, !.current = {}, !.trusted = @ \union {u}]
    /\ UNCHANGED touched
    /\ StoresUnchanged

\* _verify_sources: each source is looked up in a connection of its own; one
\* that is missing, moved or altered ends the build, or the whole listing.
CheckSource(u, m) ==
    /\ reader.pc \in {"build", "list"}
    /\ u \in reader.current
    /\ m \in reader.checks
    /\ reader' =
        IF ~SourceHolds(u, m)
        THEN [reader EXCEPT !.pc = "failed"]
        ELSE IF reader.checks = {m}
        THEN [reader EXCEPT !.checks = {}, !.current = {}, !.trusted = @ \union {u}]
        ELSE [reader EXCEPT !.checks = @ \ {m}]
    /\ UNCHANGED touched
    /\ StoresUnchanged

\* The summaries' sessions are compared when all of them have been read; the
\* history is read last.
Finish ==
    /\ reader.pc \in {"build", "list"}
    /\ reader.todo = {} /\ reader.want = {} /\ reader.current = {}
    /\ reader' = [reader EXCEPT !.pc =
            IF \A u \in reader.trusted : summary[u].session = reader.session THEN "done" ELSE "failed"]
    /\ UNCHANGED touched
    /\ StoresUnchanged

----------------------------------------------------------------------------

ReaderNext ==
    \/ \E s \in Sessions, arts \in SUBSET Artifacts, sums \in SUBSET Summaries :
        BeginBuild(s, arts, sums)
    \/ \E s \in Sessions : BeginList(s)
    \/ \E i \in Artifacts : ReadArtifact(i)
    \/ \E u \in Summaries : ReadSummary(u)
    \/ \E u \in Summaries, m \in Messages : CheckSource(u, m)
    \/ Finish

\* While a reader's result counts, a message that changes is noted.
Touch == touched' =
    IF reader.pc \in {"idle", "failed"} THEN touched
    ELSE touched \union {m \in Messages : message'[m] # message[m]}

\* A writer, a keeper, a turn or an edit begins.
Begins ==
    \/ message' # message
    \/ \E w \in Writers : writer[w] = Idle /\ writer'[w] # Idle
    \/ \E k \in Keepers : keeper[k] = Resting /\ keeper'[k] # Resting

Count == IF Begins THEN begun < MaxOperations /\ begun' = begun + 1 ELSE UNCHANGED begun

Next ==
    \/ ArtifactNext /\ UNCHANGED <<summaryVars, reader, touched>> /\ Count
    \/ SummaryNext /\ Touch /\ UNCHANGED <<artifactVars, reader>> /\ Count
    \/ ReaderNext

Spec == Init /\ [][Next]_vars

----------------------------------------------------------------------------
(***************************************************************************)
(* What a reader may rely on.                                              *)
(***************************************************************************)

\* The variables of all three parts have their types.
TypeOK ==
    /\ ArtifactTypeOK
    /\ SummaryTypeOK
    /\ reader \in {NoReader} \union ReaderState
    /\ touched \subseteq Messages
    /\ begun \in 0 .. MaxOperations

\* Every artifact in a context is what its author stored, whole, and of the
\* task's session, although the reader may meet a file that a second writer
\* has just truncated or a killed one has left short (context.py:179-192).
VerifiedPrompt ==
    reader.pc \in {"build", "done"} =>
        \A a \in reader.taken :
            /\ a.digest = ContentOf[a.id]
            /\ a.bytes = Whole(ContentOf[a.id])
            /\ ArtifactSession[a.id] = reader.session

\* The bytes a context holds, each with its artifact.
BytesTaken == UNION {{a.id} \X a.bytes : a \in reader.taken}

\* The artifacts of a context together keep to the policy's byte budget, by
\* the sizes of what was really read (context.py:193-197).
WithinBudget ==
    reader.pc \in {"build", "done"} =>
        /\ reader.total = Cardinality(BytesTaken)
        /\ reader.total <= MaxTotalBytes

\* A summary that reaches a prompt or a listing rests on messages that are
\* what they were when it was made, all of them and not only the first, or
\* that were edited while it was being read (summary.py:258-280).
TrustedSummaries ==
    reader.pc = "done" =>
        \A u \in reader.trusted :
            /\ summary[u].session = reader.session
            /\ \A m \in DOMAIN summary[u].sources : SourceHolds(u, m) \/ m \in touched
=============================================================================
