---------------------------- MODULE ArtifactStore ----------------------------
(***************************************************************************)
(* The artifact bytes of one node (memory.py): a blob file per content,    *)
(* named by the content's SHA-256, and a database row per artifact that    *)
(* points to it.  Request threads and command line processes add local     *)
(* content and import bundles at the same time; each first writes the      *)
(* blob in place, unless a file of that name exists, and then the row.     *)
(*                                                                         *)
(* A content stands for its digest as well: equal digests, equal bytes.    *)
(* Bytes are counted in pieces, the units in which a write reaches the     *)
(* file; file[c] is the set of pieces of c that are in the file, so a      *)
(* prefix is a short file and a set with a gap a file with a hole.         *)
(***************************************************************************)
EXTENDS Naturals, FiniteSets

CONSTANTS
    Artifacts,      \* artifact ids
    Contents,       \* byte strings, and with them their digests
    ContentOf,      \* the bytes an artifact was made from
    Pieces,         \* the length of a content
    Writers,        \* threads and processes that add artifacts
    NoFile,         \* no file of this name
    NoRow,          \* no row with this id
    MaxFailures     \* bound: writers killed, or stopped by a full disk

ASSUME ArtifactAssumption ==
    /\ ContentOf \in [Artifacts -> Contents]
    /\ Pieces \in [Contents -> Nat \ {0}]
    /\ NoRow \notin Contents
    /\ \A c \in Contents : \A S \in SUBSET (1 .. Pieces[c]) : S # NoFile
    /\ MaxFailures \in Nat

VARIABLES
    row,        \* row[i]: the digest recorded for artifact i
    file,       \* file[c]: what the blob file of content c holds
    writer,     \* writer[w]: where w is in add_artifact_bytes
    failures    \* failures so far

artifactVars == <<row, file, writer, failures>>

Whole(c) == 1 .. Pieces[c]

Idle == [pc |-> "idle"]

Busy(pc, i, c, k) == [pc |-> pc, id |-> i, content |-> c, next |-> k]

WriterState == {Idle} \union
    [pc : {"check", "open", "write", "row"}, id : Artifacts, content : Contents, next : Nat \ {0}]

\* w is writing artifact i.
Handles(w, i) == writer[w].pc # "idle" /\ writer[w].id = i

\* w still has something to do to the blob file of c.
MayWrite(w, c) == writer[w].pc \in {"check", "open", "write"} /\ writer[w].content = c

ArtifactInit ==
    /\ row = [i \in Artifacts |-> NoRow]
    /\ file = [c \in Contents |-> NoFile]
    /\ writer = [w \in Writers |-> Idle]
    /\ failures = 0

----------------------------------------------------------------------------
(***************************************************************************)
(* The steps of a writer.                                                  *)
(***************************************************************************)

Begin(w, i, c) ==
    /\ writer[w] = Idle
    /\ writer' = [writer EXCEPT ![w] = Busy("check", i, c, 1)]
    /\ UNCHANGED <<row, file, failures>>

\* A user, an upload or a tool stores new content under a fresh id.
AddLocal(w, i) ==
    /\ row[i] = NoRow
    /\ \A v \in Writers : ~Handles(v, i)
    /\ Begin(w, i, ContentOf[i])

\* Mutant: the import trusts the digest in the metadata.
NotVerified(i, c) == TRUE

\* The bytes of an artifact in a bundle, inline, in chunks or fetched by
\* reference, are hashed whole and compared with the digest in its metadata.
Verified(i, c) == c = ContentOf[i]

\* What a bundle may carry for an artifact: a sender encodes what its file
\* holds, in any of the four representations, and does not verify it.
Carried(i) == Contents

\* Bytes that do not verify end the import before it changes anything for i.
Import(w, i, c) ==
    /\ Verified(i, c)
    /\ Begin(w, i, c)

\* Mutant: content that another writer handles already is not written again.
CheckInFlight(w) ==
    /\ writer[w].pc = "check"
    /\ writer' = [writer EXCEPT ![w].pc =
            IF \E v \in Writers \ {w} : MayWrite(v, writer[w].content) THEN "row" ELSE "open"]
    /\ UNCHANGED <<row, file, failures>>

\* target.exists()
CheckFile(w) ==
    /\ writer[w].pc = "check"
    /\ writer' = [writer EXCEPT ![w].pc =
            IF file[writer[w].content] = NoFile THEN "open" ELSE "row"]
    /\ UNCHANGED <<row, file, failures>>

\* write_bytes opens the file with "wb": it is created, or truncated.
OpenFile(w) ==
    /\ writer[w].pc = "open"
    /\ file' = [file EXCEPT ![writer[w].content] = {}]
    /\ writer' = [writer EXCEPT ![w].pc = "write"]
    /\ UNCHANGED <<row, failures>>

\* Mutant: the last piece is still in the writer's buffer when it inserts the row.
WritePieceUnflushed(w) ==
    LET c == writer[w].content
        k == writer[w].next
    IN  /\ writer[w].pc = "write"
        /\ file' = [file EXCEPT ![c] = @ \union {k}]
        /\ writer' = [writer EXCEPT ![w] =
                Busy(IF k + 1 >= Pieces[c] THEN "row" ELSE "write", writer[w].id, c, k + 1)]
        /\ UNCHANGED <<row, failures>>

\* Mutant: the writer goes one piece past the end of its content.
WritePieceBeyond(w) ==
    LET c == writer[w].content
        k == writer[w].next
    IN  /\ writer[w].pc = "write"
        /\ file' = [file EXCEPT ![c] = @ \union {k}]
        /\ writer' = [writer EXCEPT ![w] =
                Busy(IF k > Pieces[c] THEN "row" ELSE "write", writer[w].id, c, k + 1)]
        /\ UNCHANGED <<row, failures>>

\* A piece goes to the writer's own offset, whatever the file holds by now.
WritePiece(w) ==
    LET c == writer[w].content
        k == writer[w].next
    IN  /\ writer[w].pc = "write"
        /\ file' = [file EXCEPT ![c] = @ \union {k}]
        /\ writer' = [writer EXCEPT ![w] =
                Busy(IF k = Pieces[c] THEN "row" ELSE "write", writer[w].id, c, k + 1)]
        /\ UNCHANGED <<row, failures>>

\* INSERT OR IGNORE: the first row of an id stays.
WriteRow(w) ==
    LET i == writer[w].id
    IN  /\ writer[w].pc = "row"
        /\ row' = IF row[i] = NoRow THEN [row EXCEPT ![i] = writer[w].content] ELSE row
        /\ writer' = [writer EXCEPT ![w] = Idle]
        /\ UNCHANGED <<file, failures>>

\* The process is killed, or a write raises: what it wrote stays.
Fail(w) ==
    /\ failures < MaxFailures
    /\ writer[w] # Idle
    /\ writer' = [writer EXCEPT ![w] = Idle]
    /\ failures' = failures + 1
    /\ UNCHANGED <<row, file>>

ArtifactNext ==
    \E w \in Writers :
        \/ \E i \in Artifacts : AddLocal(w, i)
        \/ \E i \in Artifacts : \E c \in Carried(i) : Import(w, i, c)
        \/ CheckFile(w)
        \/ OpenFile(w)
        \/ WritePiece(w)
        \/ WriteRow(w)
        \/ Fail(w)

ArtifactSpec == ArtifactInit /\ [][ArtifactNext]_artifactVars

----------------------------------------------------------------------------
(***************************************************************************)
(* What the artifact store promises.                                       *)
(***************************************************************************)

\* Every row, file and writer holds what its variable says.
ArtifactTypeOK ==
    /\ row \in [Artifacts -> Contents \union {NoRow}]
    /\ DOMAIN file = Contents
    /\ \A c \in Contents : file[c] = NoFile \/ file[c] \in SUBSET Whole(c)
    /\ writer \in [Writers -> WriterState]
    /\ \A w \in Writers :
        /\ writer[w].pc \in {"check", "open"} => writer[w].next = 1
        /\ writer[w].pc = "write" => writer[w].next \in Whole(writer[w].content)
    /\ failures \in 0 .. MaxFailures

\* A row never points to a missing file: whoever inserts it wrote the blob
\* or saw it (memory.py:264-280), so artifact() and the exports never fail
\* on an absent file, however many writers there are and wherever they stop.
BlobBeforeRow == \A i \in Artifacts : row[i] # NoRow => file[row[i]] # NoFile

\* An id means the same bytes on every node it reaches, although a peer may
\* send the damaged bytes of a torn file: the record holds the digest of
\* what its author stored (memory.py:674).
RecordsGenuine == \A i \in Artifacts : row[i] \in {NoRow, ContentOf[i]}

\* Two writers of one content both find no file, and the second truncates
\* what the first wrote, even after the first inserted its row.  When no
\* writer failed, the file is whole again once both are through with it.
BlobSettles ==
    failures = 0 =>
        \A i \in Artifacts :
            \/ row[i] = NoRow
            \/ \E w \in Writers : MayWrite(w, row[i])
            \/ file[row[i]] = Whole(row[i])

\* "Load artifact metadata and verified-on-import content bytes": once the
\* writers of a recorded content are through, its file holds the content.
\* The code keeps a file that a killed writer left short: a later writer
\* finds it there, skips the write (memory.py:265) and inserts the row.
RecordedIsWhole ==
    \A i \in Artifacts :
        \/ row[i] = NoRow
        \/ \E w \in Writers : MayWrite(w, row[i])
        \/ file[row[i]] = Whole(row[i])

=============================================================================
