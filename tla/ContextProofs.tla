---------------------------- MODULE ContextProofs ----------------------------
(***************************************************************************)
(* For any number of artifacts, writers, summaries, keepers and messages:  *)
(* what the artifact store and the summary store promise, and what a       *)
(* reader may rely on while they change.                                   *)
(***************************************************************************)
EXTENDS ContextBuilder, FiniteSetTheorems, TLAPS

----------------------------------------------------------------------------
(***************************************************************************)
(* The inductive invariant, in three parts.                                *)
(***************************************************************************)

\* A writer carries the genuine bytes of its artifact, and has a file once it
\* has opened or found one.
WritersGenuine ==
    \A w \in Writers : writer[w] # Idle =>
        /\ writer[w].content = ContentOf[writer[w].id]
        /\ writer[w].pc \in {"write", "row"} => file[writer[w].content] # NoFile

\* w is about to truncate the file of c, or all that it wrote to it is there.
Completes(w, c) ==
    /\ writer[w].content = c
    /\ \/ writer[w].pc = "open"
       \/ /\ writer[w].pc = "write"
          /\ \A k \in Whole(c) : k < writer[w].next => k \in file[c]

\* While no writer failed, the one that truncated a file last completes it.
Settles ==
    failures = 0 =>
        \A c \in Contents :
            \/ file[c] = NoFile
            \/ file[c] = Whole(c)
            \/ \E w \in Writers : writer[w] # Idle /\ Completes(w, c)

ArtifactInv == ArtifactTypeOK /\ BlobBeforeRow /\ RecordsGenuine /\ WritersGenuine /\ Settles

\* What a keeper looked up still holds, unless the raw database was edited.
KeepersGrounded ==
    edits = 0 =>
        \A k \in Keepers : keeper[k] # Resting =>
            \A m \in DOMAIN keeper[k].sources :
                /\ InSession(m, keeper[k].session)
                /\ message[m].text = keeper[k].sources[m]

SummaryInv == SummaryTypeOK /\ SummariesGrounded /\ KeepersGrounded

\* Source m of summary u has been checked, or changed since.
Checked(u, m) == SourceHolds(u, m) \/ m \in touched

ReaderInv ==
    reader # NoReader /\ reader.pc # "failed" =>
        /\ \A a \in reader.taken :
            /\ a.digest = ContentOf[a.id]
            /\ a.bytes = Whole(ContentOf[a.id])
            /\ ArtifactSession[a.id] = reader.session
        /\ \A u \in reader.current \union reader.trusted : summary[u] # NoSummary
        /\ \A u, v \in reader.current : u = v
        /\ \A u \in reader.current :
            \A m \in DOMAIN summary[u].sources : m \in reader.checks \/ Checked(u, m)
        /\ \A u \in reader.trusted : \A m \in DOMAIN summary[u].sources : Checked(u, m)
        /\ reader.pc = "done" => \A u \in reader.trusted : summary[u].session = reader.session

ReaderTypeOK ==
    /\ reader \in {NoReader} \union ReaderState
    /\ touched \subseteq Messages
    /\ begun \in 0 .. MaxOperations

IInv == ArtifactInv /\ SummaryInv /\ ReaderTypeOK /\ ReaderInv

----------------------------------------------------------------------------
(***************************************************************************)
(* The artifact store.                                                     *)
(***************************************************************************)

\* A busy writer is not idle, and its fields are what they were set to.
LEMMA BusyFields ==
    ASSUME NEW pc \in {"check", "open", "write", "row"}, NEW i \in Artifacts, NEW c \in Contents,
           NEW k \in Nat \ {0}
    PROVE  /\ Busy(pc, i, c, k) \in WriterState
           /\ Busy(pc, i, c, k) # Idle
           /\ Busy(pc, i, c, k).pc = pc
           /\ Busy(pc, i, c, k).id = i
           /\ Busy(pc, i, c, k).content = c
           /\ Busy(pc, i, c, k).next = k
BY DEF Busy, WriterState, Idle

\* The fields of a busy writer, and its record with another place.
LEMMA WriterFields ==
    ASSUME NEW x \in WriterState, x # Idle
    PROVE  /\ x.pc \in {"check", "open", "write", "row"}
           /\ x.id \in Artifacts
           /\ x.content \in Contents
           /\ x.next \in Nat \ {0}
           /\ x = Busy(x.pc, x.id, x.content, x.next)
           /\ \A pc : [x EXCEPT !.pc = pc] = Busy(pc, x.id, x.content, x.next)
BY DEF Busy, WriterState, Idle

\* The artifact store begins empty.
LEMMA ArtifactInitial == ArtifactInit => ArtifactInv
<1>. SUFFICES ASSUME ArtifactInit PROVE ArtifactInv
  OBVIOUS
<1>1. ArtifactTypeOK
  BY ArtifactAssumption DEF ArtifactInit, ArtifactTypeOK, WriterState, Idle
<1>2. BlobBeforeRow /\ RecordsGenuine /\ WritersGenuine /\ Settles
  BY DEF ArtifactInit, BlobBeforeRow, RecordsGenuine, WritersGenuine, Settles
<1>. QED
  BY <1>1, <1>2 DEF ArtifactInv

\* What a step of writer w does to a part of the state that speaks of writers:
\* every other writer is where it was.
LEMMA OnlyWriter ==
    ASSUME ArtifactTypeOK, NEW w \in Writers, NEW x, writer' = [writer EXCEPT ![w] = x]
    PROVE  /\ writer'[w] = x
           /\ \A v \in Writers : v # w => writer'[v] = writer[v]
           /\ x \in WriterState => writer' \in [Writers -> WriterState]
BY DEF ArtifactTypeOK

\* A writer begins.
LEMMA BeginStep ==
    ASSUME ArtifactInv, NEW w \in Writers, NEW i \in Artifacts, NEW c \in Contents,
           c = ContentOf[i], Begin(w, i, c)
    PROVE  ArtifactInv'
<1> DEFINE x == Busy("check", i, c, 1)
<1>1. /\ x \in WriterState /\ x # Idle /\ x.pc = "check" /\ x.id = i /\ x.content = c /\ x.next = 1
      /\ writer' = [writer EXCEPT ![w] = x]
      /\ writer[w] = Idle
      /\ UNCHANGED <<row, file, failures>>
  BY BusyFields DEF Begin
<1>2. /\ writer'[w] = x
      /\ \A v \in Writers : v # w => writer'[v] = writer[v]
      /\ writer' \in [Writers -> WriterState]
  BY <1>1, OnlyWriter DEF ArtifactInv
<1> HIDE DEF x
<1>3. ArtifactTypeOK'
  BY <1>1, <1>2 DEF ArtifactInv, ArtifactTypeOK, Whole
<1>4. BlobBeforeRow' /\ RecordsGenuine'
  BY <1>1 DEF ArtifactInv, BlobBeforeRow, RecordsGenuine
<1>5. WritersGenuine'
  BY <1>1, <1>2 DEF ArtifactInv, WritersGenuine
<1>6. Settles'
  <2>1. \A v \in Writers, d \in Contents : writer[v] # Idle /\ Completes(v, d) => writer'[v] # Idle /\ Completes(v, d)'
    BY <1>1, <1>2 DEF Completes, Whole
  <2>. QED
    BY <1>1, <2>1 DEF ArtifactInv, Settles, Whole
<1>. QED
  BY <1>3, <1>4, <1>5, <1>6 DEF ArtifactInv

\* A writer that stays at the same artifact and writes no byte keeps all parts
\* of the invariant that its new place asks for.
LEMMA CheckFileStep ==
    ASSUME ArtifactInv, NEW w \in Writers, CheckFile(w)
    PROVE  ArtifactInv'
<1> DEFINE c == writer[w].content
           pc == IF file[c] = NoFile THEN "open" ELSE "row"
           x == Busy(pc, writer[w].id, c, 1)
<1>1. /\ writer[w] \in WriterState /\ writer[w] # Idle /\ writer[w].next = 1
      /\ writer[w].pc = "check"
  BY DEF ArtifactInv, ArtifactTypeOK, CheckFile, Idle
<1>2. /\ writer[w].id \in Artifacts /\ c \in Contents
      /\ writer' = [writer EXCEPT ![w] = x]
      /\ UNCHANGED <<row, file, failures>>
  BY <1>1, WriterFields DEF CheckFile
<1>3. x \in WriterState /\ x # Idle /\ x.pc = pc /\ x.id = writer[w].id /\ x.content = c /\ x.next = 1
  BY <1>2, BusyFields
<1> HIDE DEF x
<1>4. /\ writer'[w] = x
      /\ \A v \in Writers : v # w => writer'[v] = writer[v]
      /\ writer' \in [Writers -> WriterState]
  BY <1>2, <1>3, OnlyWriter DEF ArtifactInv
<1>5. ArtifactTypeOK'
  BY <1>2, <1>3, <1>4 DEF ArtifactInv, ArtifactTypeOK, Whole
<1>6. BlobBeforeRow' /\ RecordsGenuine'
  BY <1>2 DEF ArtifactInv, BlobBeforeRow, RecordsGenuine
<1>7. WritersGenuine'
  BY <1>1, <1>2, <1>3, <1>4 DEF ArtifactInv, WritersGenuine
<1>8. Settles'
  <2>1. \A v \in Writers, d \in Contents :
            writer[v] # Idle /\ Completes(v, d) => writer'[v] # Idle /\ Completes(v, d)'
    BY <1>1, <1>2, <1>4 DEF Completes, Whole
  <2>. QED
    BY <1>2, <2>1 DEF ArtifactInv, Settles, Whole
<1>. QED
  BY <1>5, <1>6, <1>7, <1>8 DEF ArtifactInv

\* The file is created or truncated.
LEMMA OpenFileStep ==
    ASSUME ArtifactInv, NEW w \in Writers, OpenFile(w)
    PROVE  ArtifactInv'
<1> DEFINE c == writer[w].content
           x == Busy("write", writer[w].id, c, 1)
<1>1. /\ writer[w] \in WriterState /\ writer[w] # Idle /\ writer[w].next = 1
      /\ writer[w].pc = "open"
  BY DEF ArtifactInv, ArtifactTypeOK, OpenFile, Idle
<1>2. /\ writer[w].id \in Artifacts /\ c \in Contents
      /\ writer' = [writer EXCEPT ![w] = x]
      /\ file' = [file EXCEPT ![c] = {}]
      /\ UNCHANGED <<row, failures>>
  BY <1>1, WriterFields DEF OpenFile
<1>3. x \in WriterState /\ x # Idle /\ x.pc = "write" /\ x.id = writer[w].id /\ x.content = c /\ x.next = 1
  BY <1>2, BusyFields
<1> HIDE DEF x
<1>4. /\ writer'[w] = x
      /\ \A v \in Writers : v # w => writer'[v] = writer[v]
      /\ writer' \in [Writers -> WriterState]
  BY <1>2, <1>3, OnlyWriter DEF ArtifactInv
<1>5. /\ Pieces[c] \in Nat \ {0} /\ 1 \in Whole(c)
      /\ {} # NoFile
  BY <1>2, ArtifactAssumption DEF Whole
<1>6. /\ file'[c] = {}
      /\ \A d \in Contents : d # c => file'[d] = file[d]
      /\ DOMAIN file' = Contents
  BY <1>2 DEF ArtifactInv, ArtifactTypeOK
<1>7. ArtifactTypeOK'
  <2>1. \A d \in Contents : file'[d] = NoFile \/ file'[d] \in SUBSET Whole(d)
    BY <1>6 DEF ArtifactInv, ArtifactTypeOK
  <2>. QED
    BY <1>2, <1>3, <1>4, <1>5, <1>6, <2>1 DEF ArtifactInv, ArtifactTypeOK, Whole
<1>8. BlobBeforeRow' /\ RecordsGenuine'
  <2>1. \A i \in Artifacts : row[i] # NoRow => row[i] \in Contents
    BY DEF ArtifactInv, ArtifactTypeOK
  <2>. QED
    BY <1>2, <1>5, <1>6, <2>1 DEF ArtifactInv, BlobBeforeRow, RecordsGenuine
<1>9. WritersGenuine'
  <2>1. \A v \in Writers : writer[v] # Idle => writer[v].content \in Contents
    BY WriterFields DEF ArtifactInv, ArtifactTypeOK
  <2>. QED
    BY <1>1, <1>2, <1>3, <1>4, <1>5, <1>6, <2>1 DEF ArtifactInv, WritersGenuine
<1>10. Settles'
  <2>1. \A d \in Contents : d = c => Completes(w, d)' /\ writer'[w] # Idle
    BY <1>2, <1>3, <1>4 DEF Completes, Whole
  <2>2. \A v \in Writers, d \in Contents :
            d # c /\ writer[v] # Idle /\ Completes(v, d) => writer'[v] # Idle /\ Completes(v, d)'
    BY <1>4, <1>6 DEF Completes, Whole
  <2>3. ASSUME failures = 0, NEW d \in Contents
        PROVE  \/ file'[d] = NoFile
               \/ file'[d] = Whole(d)
               \/ \E v \in Writers : writer'[v] # Idle /\ Completes(v, d)'
    <3>1. CASE d = c
      BY <2>1, <3>1
    <3>2. CASE d # c
      <4>1. CASE \E v \in Writers : writer[v] # Idle /\ Completes(v, d)
        <5>1. PICK v \in Writers : writer[v] # Idle /\ Completes(v, d)
          BY <4>1
        <5>. QED
          BY <2>2, <3>2, <5>1
      <4>. QED
        BY <1>6, <2>3, <3>2, <4>1 DEF ArtifactInv, Settles
    <3>. QED
      BY <3>1, <3>2
  <2>4. \A d \in Contents : Whole(d)' = Whole(d)
    BY DEF Whole
  <2>. QED
    BY <1>2, <2>3, <2>4 DEF Settles
<1>. QED
  BY <1>7, <1>8, <1>9, <1>10 DEF ArtifactInv

\* A piece of the content is written.
LEMMA WritePieceStep ==
    ASSUME ArtifactInv, NEW w \in Writers, WritePiece(w)
    PROVE  ArtifactInv'
<1> DEFINE c == writer[w].content
           k == writer[w].next
           pc == IF k = Pieces[c] THEN "row" ELSE "write"
           x == Busy(pc, writer[w].id, c, k + 1)
<1>1. /\ writer[w] \in WriterState /\ writer[w] # Idle
      /\ writer[w].pc = "write" /\ k \in Whole(c)
  BY DEF ArtifactInv, ArtifactTypeOK, WritePiece, Idle
<1>2. /\ writer[w].id \in Artifacts /\ c \in Contents /\ k \in Nat \ {0}
      /\ writer' = [writer EXCEPT ![w] = x]
      /\ file' = [file EXCEPT ![c] = @ \union {k}]
      /\ UNCHANGED <<row, failures>>
  BY <1>1, WriterFields DEF WritePiece
<1>3. x \in WriterState /\ x # Idle /\ x.pc = pc /\ x.id = writer[w].id /\ x.content = c /\ x.next = k + 1
  <2>1. k + 1 \in Nat \ {0}
    BY <1>2
  <2>. QED
    BY <1>2, <2>1, BusyFields
<1> HIDE DEF x
<1>4. /\ writer'[w] = x
      /\ \A v \in Writers : v # w => writer'[v] = writer[v]
      /\ writer' \in [Writers -> WriterState]
  BY <1>2, <1>3, OnlyWriter DEF ArtifactInv
<1>5. /\ Pieces[c] \in Nat \ {0}
      /\ file[c] # NoFile /\ file[c] \in SUBSET Whole(c)
      /\ file[c] \union {k} \in SUBSET Whole(c)
  BY <1>1, <1>2, ArtifactAssumption DEF ArtifactInv, ArtifactTypeOK, WritersGenuine
<1>6. /\ file'[c] = file[c] \union {k}
      /\ \A d \in Contents : d # c => file'[d] = file[d]
      /\ DOMAIN file' = Contents
      /\ file'[c] # NoFile
  BY <1>2, <1>5, ArtifactAssumption DEF ArtifactInv, ArtifactTypeOK, Whole
<1>7. ArtifactTypeOK'
  <2>1. \A d \in Contents : file'[d] = NoFile \/ file'[d] \in SUBSET Whole(d)
    BY <1>5, <1>6 DEF ArtifactInv, ArtifactTypeOK
  <2>2. pc = "write" => k + 1 \in Whole(c)
    BY <1>1, <1>5 DEF Whole
  <2>3. \A v \in Writers :
            /\ writer'[v].pc \in {"check", "open"} => writer'[v].next = 1
            /\ writer'[v].pc = "write" => writer'[v].next \in Whole(writer'[v].content)
    BY <1>3, <1>4, <2>2 DEF ArtifactInv, ArtifactTypeOK
  <2>. QED
    BY <1>2, <1>4, <1>6, <2>1, <2>3 DEF ArtifactInv, ArtifactTypeOK, Whole
<1>8. BlobBeforeRow' /\ RecordsGenuine'
  <2>1. \A i \in Artifacts : row[i] # NoRow => row[i] \in Contents
    BY DEF ArtifactInv, ArtifactTypeOK
  <2>. QED
    BY <1>2, <1>6, <2>1 DEF ArtifactInv, BlobBeforeRow, RecordsGenuine
<1>9. WritersGenuine'
  <2>1. \A v \in Writers : writer[v] # Idle => writer[v].content \in Contents
    BY WriterFields DEF ArtifactInv, ArtifactTypeOK
  <2>. QED
    BY <1>1, <1>2, <1>3, <1>4, <1>6, <2>1 DEF ArtifactInv, WritersGenuine
<1>10. Settles'
  <2>1. \A v \in Writers, d \in Contents :
            v # w /\ writer[v] # Idle /\ Completes(v, d) => writer'[v] # Idle /\ Completes(v, d)'
    BY <1>4, <1>6 DEF Completes, Whole
  <2>2. ASSUME NEW v \in Writers, NEW d \in Contents, v = w, Completes(v, d)
        PROVE  file'[d] = Whole(d) \/ (writer'[v] # Idle /\ Completes(v, d)')
    <3>1. d = c /\ \A j \in Whole(c) : j < k + 1 => j \in file'[c]
      BY <1>1, <1>2, <1>6, <2>2 DEF Completes, Whole
    <3>2. CASE k = Pieces[c]
      <4>1. \A j \in Whole(c) : j \in file'[c]
        BY <1>2, <1>5, <3>1, <3>2 DEF Whole
      <4>2. file'[c] = Whole(c)
        BY <1>5, <1>6, <4>1
      <4>. QED
        BY <3>1, <4>2
    <3>3. CASE k # Pieces[c]
      BY <1>3, <1>4, <2>2, <3>1, <3>3 DEF Completes, Whole
    <3>. QED
      BY <3>2, <3>3
  <2>3. file[c] = Whole(c) => file'[c] = Whole(c)
    BY <1>1, <1>6
  <2>4. \A d \in Contents : Whole(d)' = Whole(d)
    BY DEF Whole
  <2>5. ASSUME failures = 0, NEW d \in Contents
        PROVE  \/ file'[d] = NoFile
               \/ file'[d] = Whole(d)
               \/ \E v \in Writers : writer'[v] # Idle /\ Completes(v, d)'
    <3>1. \/ file[d] = NoFile
          \/ file[d] = Whole(d)
          \/ \E v \in Writers : writer[v] # Idle /\ Completes(v, d)
      BY <2>5 DEF ArtifactInv, Settles
    <3>2. CASE file[d] = NoFile
      BY <1>5, <1>6, <3>2
    <3>3. CASE file[d] = Whole(d)
      BY <1>6, <2>3, <3>3
    <3>4. CASE \E v \in Writers : writer[v] # Idle /\ Completes(v, d)
      <4>1. PICK v \in Writers : writer[v] # Idle /\ Completes(v, d)
        BY <3>4
      <4>2. CASE v = w
        BY <2>2, <4>1, <4>2
      <4>3. CASE v # w
        BY <2>1, <4>1, <4>3
      <4>. QED
        BY <4>2, <4>3
    <3>. QED
      BY <3>1, <3>2, <3>3, <3>4
  <2>. QED
    BY <1>2, <2>4, <2>5 DEF Settles
<1>. QED
  BY <1>7, <1>8, <1>9, <1>10 DEF ArtifactInv

\* The row is inserted, unless there is one.
LEMMA WriteRowStep ==
    ASSUME ArtifactInv, NEW w \in Writers, WriteRow(w)
    PROVE  ArtifactInv'
<1> DEFINE i == writer[w].id
           c == writer[w].content
<1>1. /\ writer[w] \in WriterState /\ writer[w] # Idle /\ writer[w].pc = "row"
      /\ Idle \in WriterState
  BY DEF ArtifactInv, ArtifactTypeOK, WriteRow, Idle, WriterState
<1>2. /\ i \in Artifacts /\ c \in Contents
      /\ row' = IF row[i] = NoRow THEN [row EXCEPT ![i] = c] ELSE row
      /\ writer' = [writer EXCEPT ![w] = Idle]
      /\ UNCHANGED <<file, failures>>
  BY <1>1, WriterFields DEF WriteRow
<1>3. c = ContentOf[i] /\ file[c] # NoFile
  BY <1>1 DEF ArtifactInv, WritersGenuine
<1>4. /\ writer'[w] = Idle
      /\ \A v \in Writers : v # w => writer'[v] = writer[v]
      /\ writer' \in [Writers -> WriterState]
  BY <1>1, <1>2, OnlyWriter DEF ArtifactInv
<1>5. ArtifactTypeOK'
  BY <1>2, <1>4 DEF ArtifactInv, ArtifactTypeOK, Whole, Idle
<1>6. BlobBeforeRow' /\ RecordsGenuine'
  BY <1>2, <1>3 DEF ArtifactInv, ArtifactTypeOK, BlobBeforeRow, RecordsGenuine
<1>7. WritersGenuine'
  BY <1>2, <1>4 DEF ArtifactInv, WritersGenuine
<1>8. Settles'
  <2>1. \A v \in Writers, d \in Contents :
            writer[v] # Idle /\ Completes(v, d) => writer'[v] # Idle /\ Completes(v, d)'
    BY <1>1, <1>2, <1>4 DEF Completes, Whole
  <2>. QED
    BY <1>2, <2>1 DEF ArtifactInv, Settles, Whole
<1>. QED
  BY <1>5, <1>6, <1>7, <1>8 DEF ArtifactInv

\* A writer fails or is killed where it is.
LEMMA FailStep ==
    ASSUME ArtifactInv, NEW w \in Writers, Fail(w)
    PROVE  ArtifactInv'
<1>1. /\ writer' = [writer EXCEPT ![w] = Idle]
      /\ failures \in 0 .. MaxFailures /\ failures < MaxFailures
      /\ failures' = failures + 1
      /\ UNCHANGED <<row, file>>
      /\ Idle \in WriterState
  BY DEF ArtifactInv, ArtifactTypeOK, Fail, WriterState
<1>2. failures' \in 0 .. MaxFailures /\ failures' # 0
  BY <1>1, ArtifactAssumption
<1>3. /\ writer'[w] = Idle
      /\ \A v \in Writers : v # w => writer'[v] = writer[v]
      /\ writer' \in [Writers -> WriterState]
  BY <1>1, OnlyWriter DEF ArtifactInv
<1>4. ArtifactTypeOK'
  BY <1>1, <1>2, <1>3 DEF ArtifactInv, ArtifactTypeOK, Whole, Idle
<1>5. BlobBeforeRow' /\ RecordsGenuine' /\ WritersGenuine' /\ Settles'
  BY <1>1, <1>2, <1>3 DEF ArtifactInv, BlobBeforeRow, RecordsGenuine, WritersGenuine, Settles
<1>. QED
  BY <1>4, <1>5 DEF ArtifactInv

\* A step of the other parts leaves the artifact store as it is.
LEMMA ArtifactSame ==
    ASSUME ArtifactInv, UNCHANGED artifactVars
    PROVE  ArtifactInv'
BY DEF ArtifactInv, ArtifactTypeOK, BlobBeforeRow, RecordsGenuine, WritersGenuine, Settles,
       Completes, Whole, artifactVars

\* Every step of the artifact store keeps its part.
LEMMA ArtifactStep ==
    ASSUME ArtifactInv, ArtifactNext
    PROVE  ArtifactInv'
<1>1. PICK w \in Writers :
        \/ \E i \in Artifacts : AddLocal(w, i)
        \/ \E i \in Artifacts : \E c \in Carried(i) : Import(w, i, c)
        \/ CheckFile(w)
        \/ OpenFile(w)
        \/ WritePiece(w)
        \/ WriteRow(w)
        \/ Fail(w)
  BY DEF ArtifactNext
<1>2. CASE \E i \in Artifacts : AddLocal(w, i)
  <2>1. PICK i \in Artifacts : AddLocal(w, i)
    BY <1>2
  <2>2. ContentOf[i] \in Contents
    BY ArtifactAssumption
  <2>. QED
    BY <2>1, <2>2, BeginStep DEF AddLocal
<1>3. CASE \E i \in Artifacts : \E c \in Carried(i) : Import(w, i, c)
  <2>1. PICK i \in Artifacts : \E c \in Carried(i) : Import(w, i, c)
    BY <1>3
  <2>2. PICK c \in Contents : Import(w, i, c)
    BY <2>1 DEF Carried
  <2>. QED
    BY <2>2, BeginStep DEF Import, Verified
<1>. QED
  BY <1>1, <1>2, <1>3, CheckFileStep, OpenFileStep, WritePieceStep, WriteRowStep, FailStep

\* Writers that are all done have left every file whole.
LEMMA Settled ==
    ASSUME ArtifactInv
    PROVE  BlobSettles
BY DEF ArtifactInv, BlobBeforeRow, Settles, Completes, BlobSettles, MayWrite, ArtifactTypeOK

----------------------------------------------------------------------------
(***************************************************************************)
(* The summary store.                                                      *)
(***************************************************************************)

\* The messages that a fingerprint names.
LEMMA FingerprintFields ==
    ASSUME NEW f \in Fingerprints
    PROVE  DOMAIN f \subseteq Messages /\ \A m \in DOMAIN f : f[m] \in 0 .. MaxEdits
<1>1. PICK S \in SUBSET Messages : f \in [S -> 0 .. MaxEdits]
  BY DEF Fingerprints
<1>. QED
  BY <1>1

\* The empty set of sources.
LEMMA NoFingerprints == [x \in {} |-> 0] \in Fingerprints /\ DOMAIN [x \in {} |-> 0] = {}
<1>1. [x \in {} |-> 0] \in [{} -> 0 .. MaxEdits]
  OBVIOUS
<1>. QED
  BY <1>1 DEF Fingerprints

\* A fingerprint that is noted is the message's, and the others stay.
LEMMA NotedFields ==
    ASSUME NEW f \in Fingerprints, NEW m \in Messages, message[m].text \in 0 .. MaxEdits
    PROVE  /\ Noted(f, m) \in Fingerprints
           /\ DOMAIN Noted(f, m) = DOMAIN f \union {m}
           /\ Noted(f, m)[m] = message[m].text
           /\ \A x \in DOMAIN f : x # m => Noted(f, m)[x] = f[x]
<1> DEFINE S == DOMAIN f \union {m}
<1>1. S \in SUBSET Messages
  BY FingerprintFields
<1>2. \A x \in S : (IF x = m THEN message[m].text ELSE f[x]) \in 0 .. MaxEdits
  BY FingerprintFields
<1>3. Noted(f, m) \in [S -> 0 .. MaxEdits]
  BY <1>2 DEF Noted
<1>. QED
  BY <1>1, <1>3 DEF Fingerprints, Noted

\* The fields of a keeper that is looking up.
LEMMA LookingFields ==
    ASSUME NEW s \in Sessions, NEW T \in SUBSET Messages, NEW f \in Fingerprints
    PROVE  /\ Looking(s, T, f) \in KeeperState
           /\ Looking(s, T, f) # Resting
           /\ Looking(s, T, f).session = s
           /\ Looking(s, T, f).todo = T
           /\ Looking(s, T, f).sources = f
BY DEF Looking, KeeperState, Resting

\* The fields of a keeper.
LEMMA KeeperFields ==
    ASSUME NEW x \in KeeperState, x # Resting
    PROVE  x.session \in Sessions /\ x.todo \in SUBSET Messages /\ x.sources \in Fingerprints
BY DEF KeeperState

\* A keeper at rest.
LEMMA RestingKeeper == Resting \in KeeperState /\ Resting.pc = "idle"
BY DEF Resting, KeeperState

\* The summary store begins empty.
LEMMA SummaryInitial == SummaryInit => SummaryInv
<1>. SUFFICES ASSUME SummaryInit PROVE SummaryInv
  OBVIOUS
<1>1. SummaryTypeOK
  BY SummaryAssumption, RestingKeeper DEF SummaryInit, SummaryTypeOK
<1>2. SummariesGrounded /\ KeepersGrounded
  BY DEF SummaryInit, SummariesGrounded, KeepersGrounded
<1>. QED
  BY <1>1, <1>2 DEF SummaryInv

\* Where messages stay, what held of a source holds on.
LEMMA MessageTypes ==
    ASSUME SummaryTypeOK, NEW m \in Messages, message[m] # NoMessage
    PROVE  message[m].session \in Sessions /\ message[m].text \in 0 .. MaxEdits
BY DEF SummaryTypeOK, Message

\* A message arrives.
LEMMA AddMessageStep ==
    ASSUME SummaryInv, NEW m \in Messages, NEW s \in Sessions, AddMessage(m, s)
    PROVE  SummaryInv'
<1>1. /\ message[m] = NoMessage
      /\ message' = [message EXCEPT ![m] = [session |-> s, text |-> 0]]
      /\ UNCHANGED <<summary, keeper, edits>>
      /\ [session |-> s, text |-> 0] \in Message
  BY SummaryAssumption DEF AddMessage, Message
<1>2. SummaryTypeOK'
  BY <1>1 DEF SummaryInv, SummaryTypeOK
<1>3. /\ \A x \in Messages : message[x] # NoMessage => message'[x] = message[x]
  BY <1>1 DEF SummaryInv, SummaryTypeOK
<1>4. SummariesGrounded'
  <2>1. \A u \in Summaries : summary[u] # NoSummary => DOMAIN summary[u].sources \subseteq Messages
    BY FingerprintFields DEF SummaryInv, SummaryTypeOK
  <2>. QED
    BY <1>1, <1>3, <2>1 DEF SummaryInv, SummariesGrounded, SourceHolds, InSession
<1>5. KeepersGrounded'
  <2>1. \A k \in Keepers : keeper[k] # Resting => DOMAIN keeper[k].sources \subseteq Messages
    BY FingerprintFields, KeeperFields DEF SummaryInv, SummaryTypeOK
  <2>. QED
    BY <1>1, <1>3, <2>1 DEF SummaryInv, KeepersGrounded, InSession
<1>. QED
  BY <1>2, <1>4, <1>5 DEF SummaryInv

\* The raw database is edited.
LEMMA EditStep ==
    ASSUME SummaryInv, NEW m \in Messages, Edit(m)
    PROVE  SummaryInv'
<1>1. /\ edits \in 0 .. MaxEdits /\ edits < MaxEdits /\ MaxEdits \in Nat
      /\ edits' = edits + 1
      /\ UNCHANGED <<summary, keeper>>
  BY SummaryAssumption DEF SummaryInv, SummaryTypeOK, Edit
<1>2. PICK v \in Message \union {NoMessage} : message' = [message EXCEPT ![m] = v]
  BY DEF Edit
<1>3. edits' \in 0 .. MaxEdits /\ edits' # 0
  BY <1>1
<1>. QED
  BY <1>1, <1>2, <1>3 DEF SummaryInv, SummaryTypeOK, SummariesGrounded, KeepersGrounded

\* Steps that change one keeper alone.
LEMMA OnlyKeeper ==
    ASSUME SummaryInv, NEW k \in Keepers, NEW x \in KeeperState,
           keeper' = [keeper EXCEPT ![k] = x],
           UNCHANGED <<message, summary, edits>>,
           x # Resting => x.todo \union DOMAIN x.sources # {},
           x # Resting /\ edits = 0 =>
               \A m \in DOMAIN x.sources : InSession(m, x.session) /\ message[m].text = x.sources[m]
    PROVE  SummaryInv'
<1>1. /\ keeper'[k] = x
      /\ \A j \in Keepers : j # k => keeper'[j] = keeper[j]
      /\ keeper' \in [Keepers -> KeeperState]
  BY DEF SummaryInv, SummaryTypeOK
<1>2. SummaryTypeOK'
  BY <1>1 DEF SummaryInv, SummaryTypeOK
<1>3. SummariesGrounded'
  BY DEF SummaryInv, SummariesGrounded, SourceHolds, InSession
<1>4. KeepersGrounded'
  BY <1>1 DEF SummaryInv, KeepersGrounded, InSession
<1>. QED
  BY <1>2, <1>3, <1>4 DEF SummaryInv

\* A keeper begins to add a summary.
LEMMA BeginAddStep ==
    ASSUME SummaryInv, NEW k \in Keepers, NEW s \in Sessions, NEW S \in SUBSET Messages,
           BeginAdd(k, s, S)
    PROVE  SummaryInv'
<1> DEFINE none == [x \in {} |-> 0]
           x == Looking(s, S, none)
<1>1. none \in Fingerprints /\ DOMAIN none = {}
  BY NoFingerprints
<1> HIDE DEF none
<1>2. /\ x \in KeeperState /\ x.session = s /\ x.todo = S /\ x.sources = none
      /\ keeper' = [keeper EXCEPT ![k] = x]
      /\ UNCHANGED <<message, summary, edits>>
      /\ S # {}
  BY <1>1, LookingFields DEF BeginAdd, none
<1> HIDE DEF x
<1>. QED
  BY <1>1, <1>2, OnlyKeeper

\* A keeper looks a source up.
LEMMA LookUpStep ==
    ASSUME SummaryInv, NEW k \in Keepers, NEW m \in Messages, LookUp(k, m)
    PROVE  SummaryInv'
<1> DEFINE s == keeper[k].session
           f == keeper[k].sources
           T == keeper[k].todo \ {m}
<1>1. /\ keeper[k] \in KeeperState /\ keeper[k] # Resting
      /\ UNCHANGED <<message, summary, edits>>
  BY DEF SummaryInv, SummaryTypeOK, LookUp, Resting
<1>2. s \in Sessions /\ T \in SUBSET Messages /\ f \in Fingerprints
  BY <1>1, KeeperFields
<1>3. CASE InSession(m, s)
  <2> DEFINE x == Looking(s, T, Noted(f, m))
  <2>1. message[m] # NoMessage /\ message[m].session = s /\ message[m].text \in 0 .. MaxEdits
    BY <1>3, MessageTypes DEF InSession, SummaryInv
  <2>2. /\ Noted(f, m) \in Fingerprints
        /\ DOMAIN Noted(f, m) = DOMAIN f \union {m}
        /\ Noted(f, m)[m] = message[m].text
        /\ \A y \in DOMAIN f : y # m => Noted(f, m)[y] = f[y]
    BY <1>2, <2>1, NotedFields
  <2>3. x \in KeeperState /\ x.session = s /\ x.todo = T /\ x.sources = Noted(f, m)
    BY <1>2, <2>2, LookingFields
  <2>4. keeper' = [keeper EXCEPT ![k] = x]
    BY <1>3 DEF LookUp
  <2> HIDE DEF x
  <2>5. ASSUME edits = 0, NEW y \in DOMAIN x.sources
        PROVE  InSession(y, x.session) /\ message[y].text = x.sources[y]
    <3>1. y \in DOMAIN f => InSession(y, s) /\ message[y].text = f[y]
      BY <1>1, <2>5 DEF SummaryInv, KeepersGrounded
    <3>. QED
      BY <1>3, <2>1, <2>2, <2>3, <2>5, <3>1
  <2>. QED
    BY <1>1, <2>2, <2>3, <2>4, <2>5, OnlyKeeper
<1>4. CASE ~InSession(m, s)
  <2>1. keeper' = [keeper EXCEPT ![k] = Resting]
    BY <1>4 DEF LookUp
  <2>. QED
    BY <1>1, <2>1, RestingKeeper, OnlyKeeper
<1>. QED
  BY <1>3, <1>4

\* A keeper stores its summary, on the word of what it looked up.
LEMMA StoreSummaryStep ==
    ASSUME SummaryInv, NEW k \in Keepers, NEW u \in Summaries, StoreSummary(k, u)
    PROVE  SummaryInv'
<1> DEFINE r == [session |-> keeper[k].session, sources |-> keeper[k].sources]
<1>1. /\ keeper[k] \in KeeperState /\ keeper[k] # Resting /\ keeper[k].todo = {}
      /\ keeper' = [keeper EXCEPT ![k] = Resting]
      /\ summary' = IF summary[u] # NoSummary THEN summary ELSE [summary EXCEPT ![u] = r]
      /\ UNCHANGED <<message, edits>>
  BY DEF SummaryInv, SummaryTypeOK, StoreSummary, Resting
<1>2. keeper[k].session \in Sessions /\ keeper[k].sources \in Fingerprints
  BY <1>1, KeeperFields
<1>3. /\ r \in [session : Sessions, sources : Fingerprints]
      /\ r.session = keeper[k].session /\ r.sources = keeper[k].sources
      /\ DOMAIN r.sources # {}
  BY <1>1, <1>2 DEF SummaryInv, SummaryTypeOK
<1> HIDE DEF r
<1>4. /\ \A v \in Summaries : summary'[v] = summary[v] \/ (v = u /\ summary'[v] = r)
      /\ \A j \in Keepers : keeper'[j] = Resting \/ keeper'[j] = keeper[j]
      /\ keeper' \in [Keepers -> KeeperState]
  BY <1>1, RestingKeeper DEF SummaryInv, SummaryTypeOK
<1>5. SummaryTypeOK'
  BY <1>1, <1>3, <1>4 DEF SummaryInv, SummaryTypeOK
<1>6. SummariesGrounded'
  <2>1. edits = 0 => \A m \in DOMAIN r.sources : InSession(m, r.session) /\ message[m].text = r.sources[m]
    BY <1>1, <1>3 DEF SummaryInv, KeepersGrounded
  <2>. QED
    BY <1>1, <1>4, <2>1 DEF SummaryInv, SummariesGrounded, SourceHolds, InSession
<1>7. KeepersGrounded'
  BY <1>1, <1>4 DEF SummaryInv, KeepersGrounded, InSession
<1>. QED
  BY <1>5, <1>6, <1>7 DEF SummaryInv

\* A step of the other parts leaves the summary store as it is.
LEMMA SummarySame ==
    ASSUME SummaryInv, UNCHANGED summaryVars
    PROVE  SummaryInv'
BY DEF SummaryInv, SummaryTypeOK, SummariesGrounded, KeepersGrounded, SourceHolds, InSession, summaryVars

\* Every step of the summary store keeps its part.
LEMMA SummaryStep ==
    ASSUME SummaryInv, SummaryNext
    PROVE  SummaryInv'
BY AddMessageStep, EditStep, BeginAddStep, LookUpStep, StoreSummaryStep DEF SummaryNext

\* A summary, once stored, is there for good.
LEMMA StaysStep ==
    ASSUME SummaryTypeOK, SummaryNext
    PROVE  \A u \in Summaries : summary[u] # NoSummary => summary'[u] = summary[u]
BY DEF SummaryTypeOK, SummaryNext, AddMessage, Edit, BeginAdd, LookUp, StoreSummary

----------------------------------------------------------------------------
(***************************************************************************)
(* The reader.                                                             *)
(***************************************************************************)

\* A reader's record is not that of no reader.
LEMMA ReaderNotIdle ==
    ASSUME NEW x \in ReaderState
    PROVE  x # NoReader /\ x.pc # "idle"
BY DEF ReaderState, NoReader

\* A reader that builds or lists has a record.
LEMMA ReaderActive ==
    ASSUME ReaderTypeOK, reader.pc \in {"build", "list"}
    PROVE  reader \in ReaderState /\ reader # NoReader
BY DEF ReaderTypeOK, NoReader

\* A reader begins.
LEMMA BeginStepOfReader ==
    ASSUME IInv, NEW pc \in {"build", "list"}, NEW s \in Sessions, NEW arts \in SUBSET Artifacts,
           NEW sums \in SUBSET Summaries,
           reader' = Reading(pc, s, arts, sums), UNCHANGED touched, StoresUnchanged
    PROVE  ReaderTypeOK' /\ ReaderInv'
<1> DEFINE x == Reading(pc, s, arts, sums)
<1>1. x \in ReaderState /\ x.pc = pc /\ x.taken = {} /\ x.current = {} /\ x.trusted = {}
  BY ContextAssumption DEF Reading, ReaderState
<1>2. reader' = x /\ x.pc # "done"
  BY <1>1
<1> HIDE DEF x
<1>. QED
  BY <1>1, <1>2 DEF IInv, ReaderTypeOK, ReaderInv, StoresUnchanged

\* A reader that fails keeps its type and owes nothing.
LEMMA ReaderFails ==
    ASSUME ReaderTypeOK, reader \in ReaderState,
           reader' = [reader EXCEPT !.pc = "failed"], UNCHANGED touched, StoresUnchanged
    PROVE  ReaderTypeOK' /\ ReaderInv'
<1>1. reader' \in ReaderState /\ reader'.pc = "failed"
  BY DEF ReaderState
<1>. QED
  BY <1>1 DEF ReaderTypeOK, ReaderInv, StoresUnchanged

\* No source of a summary changes in a reader's step, nor does what was checked.
LEMMA StoresSame ==
    ASSUME StoresUnchanged, UNCHANGED touched
    PROVE  /\ UNCHANGED <<row, file, message, summary, begun>>
           /\ \A u, m : Checked(u, m)' <=> Checked(u, m)
BY DEF StoresUnchanged, artifactVars, summaryVars, Checked, SourceHolds, InSession

\* A reader takes an artifact, or fails on it.
LEMMA ReadArtifactStep ==
    ASSUME IInv, NEW i \in Artifacts, ReadArtifact(i)
    PROVE  ReaderTypeOK' /\ ReaderInv'
<1> DEFINE a == [id |-> i, digest |-> row[i], bytes |-> Bytes(i)]
<1>1. /\ reader \in ReaderState /\ reader # NoReader /\ reader.pc = "build"
      /\ UNCHANGED touched /\ StoresUnchanged
  BY ReaderActive DEF IInv, ReadArtifact
<1>2. CASE Acceptable(i, reader.session, reader.total)
  <2>1. /\ row[i] = ContentOf[i] /\ row[i] \in Contents
        /\ Bytes(i) = Whole(ContentOf[i])
        /\ ArtifactSession[i] = reader.session
        /\ reader.total + Pieces[row[i]] <= MaxTotalBytes
        /\ Pieces[row[i]] \in Nat
    <3>1. row[i] # NoRow /\ Bytes(i) = Whole(row[i])
      BY <1>2 DEF Acceptable, Intact
    <3>2. row[i] = ContentOf[i] /\ row[i] \in Contents
      BY <3>1 DEF IInv, ArtifactInv, RecordsGenuine, ArtifactTypeOK
    <3>. QED
      BY <1>2, <3>1, <3>2, ArtifactAssumption DEF Acceptable
  <2>2. /\ a \in Taken /\ a.id = i /\ a.digest = ContentOf[i] /\ a.bytes = Whole(ContentOf[i])
    BY <2>1 DEF Taken, Whole
  <2> HIDE DEF a
  <2>3. reader' = [reader EXCEPT !.todo = @ \ {i}, !.taken = @ \union {a}, !.total = @ + Pieces[row[i]]]
    BY <1>2 DEF ReadArtifact, a
  <2>4. reader.total + Pieces[row[i]] \in 0 .. MaxTotalBytes
    BY <1>1, <2>1 DEF ReaderState
  <2>5. /\ reader' \in ReaderState
        /\ reader'.pc = reader.pc /\ reader'.session = reader.session
        /\ reader'.taken = reader.taken \union {a}
        /\ reader'.current = reader.current /\ reader'.checks = reader.checks
        /\ reader'.trusted = reader.trusted
    BY <1>1, <2>2, <2>3, <2>4 DEF ReaderState
  <2>6. ReaderInv'
    BY <1>1, <2>1, <2>2, <2>5, StoresSame DEF IInv, ReaderInv, Whole
  <2>. QED
    BY <1>1, <2>5, <2>6, StoresSame DEF IInv, ReaderTypeOK
<1>3. CASE ~Acceptable(i, reader.session, reader.total)
  BY <1>1, <1>3, ReaderFails DEF IInv, ReadArtifact
<1>. QED
  BY <1>2, <1>3

\* A reader reads a summary with its sources, or fails.
LEMMA ReadSummaryStep ==
    ASSUME IInv, NEW u \in Summaries, ReadSummary(u)
    PROVE  ReaderTypeOK' /\ ReaderInv'
<1>1. /\ reader \in ReaderState /\ reader # NoReader /\ reader.pc \in {"build", "list"}
      /\ reader.current = {}
      /\ UNCHANGED touched /\ StoresUnchanged
  BY ReaderActive DEF IInv, ReadSummary
<1>2. CASE summary[u] = NoSummary
  BY <1>1, <1>2, ReaderFails DEF IInv, ReadSummary
<1>3. CASE summary[u] # NoSummary
  <2>1. summary[u].sources \in Fingerprints
    BY <1>3 DEF IInv, SummaryInv, SummaryTypeOK
  <2>2. DOMAIN summary[u].sources \subseteq Messages
    BY <2>1, FingerprintFields
  <2>3. reader' = [reader EXCEPT !.want = @ \ {u}, !.current = {u}, !.checks = DOMAIN summary[u].sources]
    BY <1>3 DEF ReadSummary
  <2>4. /\ reader' \in ReaderState
        /\ reader'.pc = reader.pc /\ reader'.session = reader.session
        /\ reader'.taken = reader.taken
        /\ reader'.current = {u} /\ reader'.checks = DOMAIN summary[u].sources
        /\ reader'.trusted = reader.trusted
    BY <1>1, <2>2, <2>3 DEF ReaderState
  <2>5. ReaderInv'
    BY <1>1, <1>3, <2>4, StoresSame DEF IInv, ReaderInv, Whole
  <2>. QED
    BY <1>1, <2>4, <2>5, StoresSame DEF IInv, ReaderTypeOK
<1>. QED
  BY <1>2, <1>3

\* A reader checks a source, or fails on it.
LEMMA CheckSourceStep ==
    ASSUME IInv, NEW u \in Summaries, NEW m \in Messages, CheckSource(u, m)
    PROVE  ReaderTypeOK' /\ ReaderInv'
<1>1. /\ reader \in ReaderState /\ reader # NoReader /\ reader.pc \in {"build", "list"}
      /\ u \in reader.current /\ m \in reader.checks
      /\ UNCHANGED touched /\ StoresUnchanged
  BY ReaderActive DEF IInv, CheckSource
<1>2. CASE ~SourceHolds(u, m)
  BY <1>1, <1>2, ReaderFails DEF IInv, CheckSource
<1>3. CASE SourceHolds(u, m) /\ reader.checks = {m}
  <2>1. reader' = [reader EXCEPT !.checks = {}, !.current = {}, !.trusted = @ \union {u}]
    BY <1>3 DEF CheckSource
  <2>2. /\ reader' \in ReaderState
        /\ reader'.pc = reader.pc /\ reader'.session = reader.session
        /\ reader'.taken = reader.taken
        /\ reader'.current = {} /\ reader'.checks = {}
        /\ reader'.trusted = reader.trusted \union {u}
    BY <1>1, <2>1 DEF ReaderState
  <2>3. \A x \in DOMAIN summary[u].sources : Checked(u, x)
    BY <1>1, <1>3 DEF IInv, ReaderInv, Checked
  <2>4. ReaderInv'
    BY <1>1, <2>2, <2>3, StoresSame DEF IInv, ReaderInv, Whole
  <2>. QED
    BY <1>1, <2>2, <2>4, StoresSame DEF IInv, ReaderTypeOK
<1>4. CASE SourceHolds(u, m) /\ reader.checks # {m}
  <2>1. reader' = [reader EXCEPT !.checks = @ \ {m}]
    BY <1>4 DEF CheckSource
  <2>2. /\ reader' \in ReaderState
        /\ reader'.pc = reader.pc /\ reader'.session = reader.session
        /\ reader'.taken = reader.taken
        /\ reader'.current = reader.current /\ reader'.checks = reader.checks \ {m}
        /\ reader'.trusted = reader.trusted
    BY <1>1, <2>1 DEF ReaderState
  <2>3. \A v \in reader.current : v = u
    BY <1>1 DEF IInv, ReaderInv
  <2>4. \A v \in reader.current : \A x \in DOMAIN summary[v].sources :
            x \in reader.checks \ {m} \/ Checked(v, x)
    BY <1>1, <1>4, <2>3 DEF IInv, ReaderInv, Checked
  <2>5. ReaderInv'
    BY <1>1, <2>2, <2>4, StoresSame DEF IInv, ReaderInv, Whole
  <2>. QED
    BY <1>1, <2>2, <2>5, StoresSame DEF IInv, ReaderTypeOK
<1>. QED
  BY <1>2, <1>3, <1>4

\* A reader has everything.
LEMMA FinishStep ==
    ASSUME IInv, Finish
    PROVE  ReaderTypeOK' /\ ReaderInv'
<1> DEFINE pc == IF \A u \in reader.trusted : summary[u].session = reader.session
                 THEN "done" ELSE "failed"
<1>1. /\ reader \in ReaderState /\ reader # NoReader /\ reader.pc \in {"build", "list"}
      /\ reader' = [reader EXCEPT !.pc = pc]
      /\ UNCHANGED touched /\ StoresUnchanged
  BY ReaderActive DEF IInv, Finish
<1>2. /\ reader' \in ReaderState
      /\ reader'.pc = pc /\ reader'.session = reader.session
      /\ reader'.taken = reader.taken
      /\ reader'.current = reader.current /\ reader'.checks = reader.checks
      /\ reader'.trusted = reader.trusted
  BY <1>1 DEF ReaderState
<1>3. ReaderInv'
  BY <1>1, <1>2, StoresSame DEF IInv, ReaderInv, Whole
<1>. QED
  BY <1>1, <1>2, <1>3, StoresSame DEF IInv, ReaderTypeOK

\* Every step of the reader keeps the invariant.
LEMMA ReaderStep ==
    ASSUME IInv, ReaderNext
    PROVE  IInv'
<1>1. StoresUnchanged
  BY DEF ReaderNext, BeginBuild, BeginList, ReadArtifact, ReadSummary, CheckSource, Finish
<1>2. ArtifactInv' /\ SummaryInv'
  BY <1>1, ArtifactSame, SummarySame DEF IInv, StoresUnchanged
<1>3. CASE \E s \in Sessions, arts \in SUBSET Artifacts, sums \in SUBSET Summaries :
                BeginBuild(s, arts, sums)
  <2>1. PICK s \in Sessions, arts \in SUBSET Artifacts, sums \in SUBSET Summaries :
            BeginBuild(s, arts, sums)
    BY <1>3
  <2>2. reader' = Reading("build", s, arts, sums) /\ UNCHANGED touched
    BY <2>1 DEF BeginBuild
  <2>3. ReaderTypeOK' /\ ReaderInv'
    BY <1>1, <2>2, BeginStepOfReader
  <2>. QED
    BY <1>2, <2>3 DEF IInv
<1>4. CASE \E s \in Sessions : BeginList(s)
  <2>1. PICK s \in Sessions : BeginList(s)
    BY <1>4
  <2> DEFINE sums == {u \in Summaries : summary[u] # NoSummary /\ summary[u].session = s}
  <2>2. reader' = Reading("list", s, {}, sums) /\ UNCHANGED touched
    BY <2>1 DEF BeginList
  <2>3. sums \in SUBSET Summaries /\ {} \in SUBSET Artifacts
    OBVIOUS
  <2> HIDE DEF sums
  <2>4. ReaderTypeOK' /\ ReaderInv'
    BY <1>1, <2>2, <2>3, BeginStepOfReader
  <2>. QED
    BY <1>2, <2>4 DEF IInv
<1>5. CASE \E i \in Artifacts : ReadArtifact(i)
  BY <1>2, <1>5, ReadArtifactStep DEF IInv
<1>6. CASE \E u \in Summaries : ReadSummary(u)
  BY <1>2, <1>6, ReadSummaryStep DEF IInv
<1>7. CASE \E u \in Summaries, m \in Messages : CheckSource(u, m)
  BY <1>2, <1>7, CheckSourceStep DEF IInv
<1>8. CASE Finish
  BY <1>2, <1>8, FinishStep DEF IInv
<1>. QED
  BY <1>3, <1>4, <1>5, <1>6, <1>7, <1>8 DEF ReaderNext

\* The count of operations keeps its type.
LEMMA CountStep ==
    ASSUME ReaderTypeOK, Count
    PROVE  begun' \in 0 .. MaxOperations
BY ContextAssumption DEF ReaderTypeOK, Count

\* A reader's part does not depend on what writers do to files.
LEMMA ArtifactNextStep ==
    ASSUME IInv, ArtifactNext, UNCHANGED <<summaryVars, reader, touched>>, Count
    PROVE  IInv'
<1>1. ArtifactInv' /\ SummaryInv'
  BY ArtifactStep, SummarySame DEF IInv
<1>2. UNCHANGED <<message, summary, reader, touched>>
  BY DEF summaryVars
<1>3. ReaderTypeOK'
  BY <1>2, CountStep DEF IInv, ReaderTypeOK
<1>4. \A u, m : Checked(u, m)' <=> Checked(u, m)
  BY <1>2 DEF Checked, SourceHolds, InSession
<1>5. ReaderInv'
  BY <1>2, <1>4 DEF IInv, ReaderInv, Whole
<1>. QED
  BY <1>1, <1>3, <1>5 DEF IInv

\* A message that changes is noted, and summaries stay.
LEMMA SummaryNextStep ==
    ASSUME IInv, SummaryNext, Touch, UNCHANGED <<artifactVars, reader>>, Count
    PROVE  IInv'
<1>1. ArtifactInv' /\ SummaryInv'
  BY ArtifactSame, SummaryStep DEF IInv
<1>2. ReaderTypeOK'
  <2>1. touched' \subseteq Messages
    BY DEF IInv, ReaderTypeOK, Touch
  <2>. QED
    BY <2>1, CountStep DEF IInv, ReaderTypeOK
<1>3. \A u \in Summaries : summary[u] # NoSummary => summary'[u] = summary[u]
  BY StaysStep DEF IInv, SummaryInv
<1>4. ASSUME reader # NoReader, reader.pc # "failed"
      PROVE  \A u \in Summaries, m \in Messages :
                summary[u] # NoSummary /\ Checked(u, m) => Checked(u, m)'
  <2>1. reader.pc # "idle"
    BY <1>4, ReaderNotIdle DEF IInv, ReaderTypeOK
  <2>2. touched' = touched \union {m \in Messages : message'[m] # message[m]}
    BY <1>4, <2>1 DEF Touch
  <2>. QED
    BY <1>3, <2>2 DEF Checked, SourceHolds, InSession
<1>5. ReaderInv'
  <2>1. \A u \in Summaries : summary[u] # NoSummary => DOMAIN summary[u].sources \subseteq Messages
    BY FingerprintFields DEF IInv, SummaryInv, SummaryTypeOK
  <2>2. reader # NoReader => reader.current \subseteq Summaries /\ reader.trusted \subseteq Summaries
    BY DEF IInv, ReaderTypeOK, ReaderState
  <2>. QED
    BY <1>3, <1>4, <2>1, <2>2 DEF IInv, ReaderInv, Whole
<1>. QED
  BY <1>1, <1>2, <1>5 DEF IInv

----------------------------------------------------------------------------
(***************************************************************************)
(* The theorems.                                                           *)
(***************************************************************************)

\* Before anything is stored or read.
LEMMA InvariantInitial == Init => IInv
<1>. SUFFICES ASSUME Init PROVE IInv
  OBVIOUS
<1>1. ArtifactInv /\ SummaryInv
  BY ArtifactInitial, SummaryInitial DEF Init
<1>2. ReaderTypeOK /\ ReaderInv
  BY ContextAssumption DEF Init, ReaderTypeOK, ReaderInv
<1>. QED
  BY <1>1, <1>2 DEF IInv

\* Every step keeps the invariant.
LEMMA InvariantStep == IInv /\ [Next]_vars => IInv'
<1>. SUFFICES ASSUME IInv, [Next]_vars PROVE IInv'
  OBVIOUS
<1>1. CASE ArtifactNext /\ UNCHANGED <<summaryVars, reader, touched>> /\ Count
  BY <1>1, ArtifactNextStep
<1>2. CASE SummaryNext /\ Touch /\ UNCHANGED <<artifactVars, reader>> /\ Count
  BY <1>2, SummaryNextStep
<1>3. CASE ReaderNext
  BY <1>3, ReaderStep
<1>4. CASE UNCHANGED vars
  <2>1. ArtifactInv' /\ SummaryInv'
    BY <1>4, ArtifactSame, SummarySame DEF IInv, vars
  <2>2. UNCHANGED <<message, summary, reader, touched, begun>>
    BY <1>4 DEF vars, summaryVars
  <2>3. \A u, m : Checked(u, m)' <=> Checked(u, m)
    BY <2>2 DEF Checked, SourceHolds, InSession
  <2>4. ReaderTypeOK' /\ ReaderInv'
    BY <2>2, <2>3 DEF IInv, ReaderTypeOK, ReaderInv, Whole
  <2>. QED
    BY <2>1, <2>4 DEF IInv
<1>. QED
  BY <1>1, <1>2, <1>3, <1>4 DEF Next

\* The invariant of every behaviour.
LEMMA InvariantHolds == Spec => []IInv
BY InvariantInitial, InvariantStep, PTL DEF Spec

\* Every state has its type, for any number of writers, keepers and contents.
THEOREM ContextTypeCorrect == Spec => []TypeOK
<1>1. IInv => TypeOK
  BY DEF IInv, ArtifactInv, SummaryInv, ReaderTypeOK, TypeOK
<1>. QED
  BY <1>1, InvariantHolds, PTL

\* No recorded artifact lacks its file, wherever writers stop (memory.py:264-280).
THEOREM RecordsHaveBlobs == Spec => []BlobBeforeRow
<1>1. IInv => BlobBeforeRow
  BY DEF IInv, ArtifactInv
<1>. QED
  BY <1>1, InvariantHolds, PTL

\* An id stands for its author's bytes on every node, whatever peers send
\* (memory.py:674).
THEOREM RecordsAreGenuine == Spec => []RecordsGenuine
<1>1. IInv => RecordsGenuine
  BY DEF IInv, ArtifactInv
<1>. QED
  BY <1>1, InvariantHolds, PTL

\* Any number of writers of one content leave it whole when none of them fails,
\* although each may truncate what another wrote (memory.py:265).
THEOREM BlobsSettle == Spec => []BlobSettles
<1>1. IInv => BlobSettles
  BY Settled DEF IInv
<1>. QED
  BY <1>1, InvariantHolds, PTL

\* No torn, damaged or foreign artifact reaches a prompt, whatever writers do
\* while it is read (context.py:179-192).
THEOREM PromptsAreVerified == Spec => []VerifiedPrompt
<1>1. IInv => VerifiedPrompt
  BY DEF IInv, ReaderTypeOK, ReaderInv, ReaderState, NoReader, VerifiedPrompt
<1>. QED
  BY <1>1, InvariantHolds, PTL

\* A summary's sources are what they were when it was made, unless the raw
\* database was edited (summary.py:172-216).
THEOREM SummariesAreGrounded == Spec => []SummariesGrounded
<1>1. IInv => SummariesGrounded
  BY DEF IInv, SummaryInv
<1>. QED
  BY <1>1, InvariantHolds, PTL

\* A summary in a finished prompt or listing has had all its sources checked
\* since they last changed, or they changed while it was read (summary.py:258-280).
THEOREM SummariesAreTrusted == Spec => []TrustedSummaries
<1>1. IInv => TrustedSummaries
  BY DEF IInv, ReaderInv, NoReader, TrustedSummaries, Checked
<1>. QED
  BY <1>1, InvariantHolds, PTL

----------------------------------------------------------------------------
(***************************************************************************)
(* The byte budget.                                                        *)
(***************************************************************************)

\* What is taken is not read again, and the total is the number of its bytes.
BudgetInv ==
    reader # NoReader /\ reader.pc # "failed" =>
        /\ \A a \in reader.taken : a.id \notin reader.todo
        /\ IsFiniteSet(BytesTaken)
        /\ Cardinality(BytesTaken) = reader.total

\* An artifact of n bytes adds n bytes.
LEMMA ArtifactBytes ==
    ASSUME NEW i, NEW n \in Nat
    PROVE  IsFiniteSet({i} \X (1 .. n)) /\ Cardinality({i} \X (1 .. n)) = n
<1> DEFINE f == [k \in 1 .. n |-> <<i, k>>]
<1>1. IsFiniteSet(1 .. n) /\ Cardinality(1 .. n) = n
  BY FS_Interval
<1>2. f \in Bijection(1 .. n, {i} \X (1 .. n))
  BY DEF Bijection, Injection, Surjection, IsInjective
<1>3. ExistsBijection(1 .. n, {i} \X (1 .. n))
  BY <1>2 DEF ExistsBijection
<1>. QED
  BY <1>1, <1>3, FS_Bijection

\* The bytes of one artifact more.
LEMMA OneMoreArtifact ==
    ASSUME NEW S, NEW a
    PROVE  UNION {{b.id} \X b.bytes : b \in S \union {a}}
              = (UNION {{b.id} \X b.bytes : b \in S}) \union ({a.id} \X a.bytes)
<1> DEFINE new == {{b.id} \X b.bytes : b \in S \union {a}}
           old == {{b.id} \X b.bytes : b \in S}
<1>1. new = old \union {{a.id} \X a.bytes}
  OBVIOUS
<1>. HIDE DEF new, old
<1>2. UNION new = (UNION old) \union ({a.id} \X a.bytes)
  BY <1>1
<1>. QED
  BY <1>2 DEF new, old

\* An artifact that is accepted was not among those taken, and its bytes are
\* counted as they are read.
LEMMA BudgetReadStep ==
    ASSUME IInv, BudgetInv, NEW i \in Artifacts, ReadArtifact(i)
    PROVE  BudgetInv'
<1> DEFINE a == [id |-> i, digest |-> row[i], bytes |-> Bytes(i)]
           n == Pieces[row[i]]
<1>1. /\ reader \in ReaderState /\ reader # NoReader /\ reader.pc = "build"
      /\ i \in reader.todo
  BY ReaderActive DEF IInv, ReadArtifact
<1>2. CASE Acceptable(i, reader.session, reader.total)
  <2>1. Bytes(i) = 1 .. n /\ n \in Nat
    <3>1. row[i] # NoRow /\ Bytes(i) = Whole(row[i])
      BY <1>2 DEF Acceptable, Intact
    <3>2. row[i] \in Contents
      BY <3>1 DEF IInv, ArtifactInv, ArtifactTypeOK
    <3>. QED
      BY <3>1, <3>2, ArtifactAssumption DEF Whole
  <2>2. a.id = i /\ a.bytes = 1 .. n
    BY <2>1
  <2>3. reader' = [reader EXCEPT !.todo = @ \ {i}, !.taken = @ \union {a}, !.total = @ + n]
    BY <1>2 DEF ReadArtifact
  <2>. HIDE DEF a, n
  <2>4. /\ reader'.taken = reader.taken \union {a} /\ reader'.todo = reader.todo \ {i}
        /\ reader'.total = reader.total + n
    BY <1>1, <2>3 DEF ReaderState
  <2>5. /\ \A b \in reader.taken : b.id \notin reader.todo
        /\ IsFiniteSet(BytesTaken) /\ Cardinality(BytesTaken) = reader.total
    BY <1>1 DEF BudgetInv
  <2>6. \A b \in reader'.taken : b.id \notin reader'.todo
    BY <2>2, <2>4, <2>5
  <2>7. BytesTaken' = BytesTaken \union ({i} \X (1 .. n))
    <3>1. BytesTaken' = UNION {{b.id} \X b.bytes : b \in reader.taken \union {a}}
      BY <2>4 DEF BytesTaken
    <3>2. BytesTaken' = (UNION {{b.id} \X b.bytes : b \in reader.taken}) \union ({a.id} \X a.bytes)
      BY <3>1, OneMoreArtifact, Zenon
    <3>. QED
      BY <2>2, <3>2 DEF BytesTaken
  <2>8. BytesTaken \cap ({i} \X (1 .. n)) = {}
    <3>1. \A b \in reader.taken : b.id # i
      BY <1>1, <2>5
    <3>. QED
      BY <3>1 DEF BytesTaken
  <2>9. IsFiniteSet({i} \X (1 .. n)) /\ Cardinality({i} \X (1 .. n)) = n
    BY <2>1, ArtifactBytes
  <2>10. /\ IsFiniteSet(BytesTaken')
         /\ Cardinality(BytesTaken') = Cardinality(BytesTaken) + n - Cardinality({})
    BY <2>5, <2>7, <2>8, <2>9, FS_Union
  <2>11. Cardinality({}) = 0 /\ reader.total \in Nat
    BY <1>1, FS_EmptySet, ContextAssumption DEF ReaderState
  <2>12. Cardinality(BytesTaken') = reader'.total
    BY <2>1, <2>4, <2>5, <2>10, <2>11
  <2>. QED
    BY <2>6, <2>10, <2>12 DEF BudgetInv
<1>3. CASE ~Acceptable(i, reader.session, reader.total)
  <2>1. reader' = [reader EXCEPT !.pc = "failed"]
    BY <1>3 DEF ReadArtifact
  <2>2. reader'.pc = "failed"
    BY <1>1, <2>1 DEF ReaderState
  <2>. QED
    BY <2>2 DEF BudgetInv
<1>. QED
  BY <1>2, <1>3

\* Every other step leaves the artifacts of a reader as they are, or begins.
LEMMA BudgetStep == IInv /\ BudgetInv /\ [Next]_vars => BudgetInv'
<1>. SUFFICES ASSUME IInv, BudgetInv, [Next]_vars PROVE BudgetInv'
  OBVIOUS
<1>1. ASSUME reader # NoReader, reader' # NoReader, reader.pc # "failed",
             reader'.taken = reader.taken, reader'.todo = reader.todo, reader'.total = reader.total
      PROVE  BudgetInv'
  BY <1>1 DEF BudgetInv, BytesTaken
<1>2. ASSUME NEW pc, NEW s, NEW arts, NEW sums, reader' = Reading(pc, s, arts, sums)
      PROVE  BudgetInv'
  <2>1. reader'.taken = {} /\ reader'.total = 0
    BY <1>2 DEF Reading
  <2>2. BytesTaken' = {}
    BY <2>1 DEF BytesTaken
  <2>. QED
    BY <2>1, <2>2, FS_EmptySet DEF BudgetInv
<1>3. CASE UNCHANGED reader
  BY <1>3 DEF BudgetInv, BytesTaken
<1>4. ASSUME NEW s \in Sessions, NEW arts \in SUBSET Artifacts, NEW sums \in SUBSET Summaries,
             BeginBuild(s, arts, sums)
      PROVE  BudgetInv'
  BY <1>2, <1>4 DEF BeginBuild
<1>5. ASSUME NEW s \in Sessions, BeginList(s)
      PROVE  BudgetInv'
  BY <1>2, <1>5 DEF BeginList
<1>6. ASSUME NEW i \in Artifacts, ReadArtifact(i)
      PROVE  BudgetInv'
  BY <1>6, BudgetReadStep
<1>7. ASSUME reader.pc \in {"build", "list"},
             \/ reader' = [reader EXCEPT !.pc = "failed"]
             \/ reader' = [reader EXCEPT !.pc = "done"]
             \/ \E w, c, k : reader' = [reader EXCEPT !.want = w, !.current = c, !.checks = k]
             \/ \E c, k, t : reader' = [reader EXCEPT !.checks = k, !.current = c, !.trusted = t]
             \/ \E k : reader' = [reader EXCEPT !.checks = k]
      PROVE  BudgetInv'
  <2>1. reader \in ReaderState /\ reader # NoReader /\ reader.pc # "failed"
    BY <1>7, ReaderActive DEF IInv
  <2>2. /\ reader'.taken = reader.taken /\ reader'.todo = reader.todo
        /\ reader'.total = reader.total
    BY <1>7, <2>1 DEF ReaderState
  <2>3. reader' # NoReader \/ reader' = NoReader
    OBVIOUS
  <2>. QED
    BY <1>1, <2>1, <2>2, <2>3 DEF BudgetInv
<1>8. ASSUME NEW u \in Summaries, ReadSummary(u)
      PROVE  BudgetInv'
  BY <1>7, <1>8 DEF ReadSummary
<1>9. ASSUME NEW u \in Summaries, NEW m \in Messages, CheckSource(u, m)
      PROVE  BudgetInv'
  BY <1>7, <1>9 DEF CheckSource
<1>10. CASE Finish
  BY <1>7, <1>10 DEF Finish
<1>. QED
  BY <1>3, <1>4, <1>5, <1>6, <1>8, <1>9, <1>10 DEF Next, ReaderNext, vars

\* A context holds no more bytes than the policy allows, and counts them as
\* they were read, whatever writers do to the files (context.py:193-197).
THEOREM BudgetIsKept == Spec => []WithinBudget
<1>1. Init => BudgetInv
  BY DEF Init, BudgetInv
<1>2. IInv /\ BudgetInv => WithinBudget
  BY DEF IInv, ReaderTypeOK, ReaderState, NoReader, BudgetInv, WithinBudget
<1>. QED
  BY <1>1, <1>2, BudgetStep, InvariantHolds, PTL DEF Spec
=============================================================================
