---------------------------- MODULE InvokeProofs ----------------------------
(***************************************************************************)
(* For every set of requests, every size of a line, of the device's buffer *)
(* and of an answer: what a caller of InvokeStream holds and is told is    *)
(* what the node wrote and keeps.  A line of the connection is tied to the *)
(* place of the invocation that wrote it (Wrote), and to its place in the  *)
(* order of the lines (InStep).                                            *)
(***************************************************************************)
EXTENDS InvokeStream, TLAPS

----------------------------------------------------------------------------
(***************************************************************************)
(* The invariant, request by request.                                      *)
(***************************************************************************)

\* What the request thread may have written, and what it knew then: nothing of
\* the answer before the turn is stored, and nothing at all after the end.
Wrote(r, e) ==
    IF client[r].kind = "plain"
    THEN \/ e.type = "result" /\ turn[r].pc = "returned" /\ thread[r].pc = "over"
         \/ /\ e.type = "refused" /\ turn[r].pc \in {"idle", "returned", "raised"}
            /\ thread[r].pc = "over"
    ELSE \/ e.type = "start" /\ e.seq = 0
         \/ /\ e.type = "delta" /\ e.seq \in 1 .. turn[r].pieces /\ e.piece = e.seq
            /\ turn[r].pc = "returned"
         \/ /\ e.type = "done" /\ e.seq = turn[r].pieces + 1
            /\ turn[r].pc = "returned" /\ thread[r].pc = "over"
         \/ /\ e.type = "error" /\ e.seq = 1
            /\ turn[r].pc = "raised" /\ thread[r].pc = "over"
         \/ /\ e.type = "refused" /\ e.seq = 0
            /\ turn[r].pc = "idle" /\ thread[r].pc = "over"
         \/ /\ e.type = "response" /\ thread[r].pc = "over"
            /\ \/ e.seq = 0 /\ turn[r].pc = "idle"
               \/ e.seq = 1 /\ turn[r].pc = "raised"

\* The lines of q carry the sequences from n on.
InStep(q, n) == \A j \in DOMAIN q : q[j].seq = n + j - 1

\* How far the thread, its invocation and its connection may be apart.
Paced(r) ==
    /\ thread[r].pc \in {"none", "accepted"} => turn[r].pc = "idle" /\ thread[r].seq = 0
    /\ thread[r].pc = "running" =>
          /\ turn[r].pc # "idle"
          /\ turn[r].pc # "returned" => thread[r].seq = 1
          /\ thread[r].seq \in 1 .. (turn[r].pieces + 1)
    /\ link[r] = "open" => thread[r].pc \in {"accepted", "running"}
    /\ link[r] = "none" =>
          /\ thread[r].pc = "none" /\ wire[r] = << >> /\ client[r].got = << >>
          /\ client[r].outcome = "none" /\ ~client[r].waiting
          /\ buffer[r] = [at |-> 0, held |-> 0, from |-> 0, failed |-> FALSE]

\* What is stored of the invocation, at its places.
Kept(r) ==
    /\ turn[r].pc \in {"stored", "prompted", "answered", "restamped", "returned"}
          => Stored(r, "user")
    /\ turn[r].pc = "returned" <=> Stored(r, "assistant")

\* A caller that has dropped nothing holds the first lines, whole and in order,
\* and the next ones follow, up to the last that the thread wrote.
InHand(r) ==
    /\ InStep(wire[r], Len(client[r].got))
    /\ \A i \in DOMAIN client[r].got :
          /\ client[r].got[i].whole
          /\ client[r].got[i].event.seq = i - 1
          /\ Wrote(r, client[r].got[i].event)
    /\ link[r] = "open" => Len(client[r].got) + Len(wire[r]) = thread[r].seq

\* What is on the way was written by the thread, whatever the device drops.
OnTheWay(r) ==
    /\ \A j \in DOMAIN wire[r] : Wrote(r, wire[r][j])
    /\ client[r].kind = "plain" => client[r].got = << >>
    /\ buffer[r].failed => client[r].kind = "device"
    /\ ~buffer[r].failed => buffer[r].held = buffer[r].at /\ buffer[r].from = 0
    /\ ~buffer[r].failed /\ client[r].kind # "plain" => InHand(r)

\* What tells a caller that there is no answer.
Alarms == {"error", "refused", "garbled"}

\* A caller may be told so.
OverAt(r) ==
    /\ thread[r].pc = "over"
    /\ client[r].kind # "plain" => turn[r].pc \in {"idle", "raised"}

\* What the caller was told.
Told(r) ==
    /\ client[r].outcome # "protocol"
    /\ client[r].outcome # "none" => ~client[r].waiting
    /\ client[r].outcome = "done" =>
          /\ turn[r].pc = "returned"
          /\ client[r].kind = "stream" => Len(client[r].got) = turn[r].pieces + 2
    /\ client[r].outcome \in Alarms => OverAt(r)
    /\ client[r].outcome = "ok" => client[r].kind = "device" /\ ~buffer[r].failed

RequestOk(r) == Paced(r) /\ Kept(r) /\ OnTheWay(r) /\ Told(r)

IInv == TypeOK /\ \A r \in Requests : RequestOk(r)

----------------------------------------------------------------------------
(***************************************************************************)
(* Sequences.                                                              *)
(***************************************************************************)

\* What a sequence holds.
LEMMA SeqFacts ==
    ASSUME NEW S, NEW q \in Seq(S)
    PROVE  /\ Len(q) \in Nat /\ DOMAIN q = 1 .. Len(q)
           /\ \A j \in DOMAIN q : q[j] \in S
  OBVIOUS

\* What it holds with one more at its end ...
LEMMA AppendFacts ==
    ASSUME NEW S, NEW q \in Seq(S), NEW e \in S
    PROVE  /\ Append(q, e) \in Seq(S) /\ Len(Append(q, e)) = Len(q) + 1
           /\ DOMAIN Append(q, e) = 1 .. (Len(q) + 1)
           /\ \A j \in DOMAIN q : Append(q, e)[j] = q[j]
           /\ Append(q, e)[Len(q) + 1] = e
           /\ \A j \in DOMAIN Append(q, e) : j \in DOMAIN q \/ j = Len(q) + 1
  OBVIOUS

\* ... and without its first.
LEMMA TailFacts ==
    ASSUME NEW S, NEW q \in Seq(S), q # << >>
    PROVE  /\ Tail(q) \in Seq(S) /\ Len(Tail(q)) = Len(q) - 1
           /\ 1 \in DOMAIN q /\ Head(q) = q[1] /\ Head(q) \in S
           /\ \A j \in DOMAIN Tail(q) : j \in Nat /\ j + 1 \in DOMAIN q /\ Tail(q)[j] = q[j + 1]
  OBVIOUS

\* A prefix ...
LEMMA PrefixFacts ==
    ASSUME NEW S, NEW q \in Seq(S), NEW k \in 0 .. Len(q)
    PROVE  /\ SubSeq(q, 1, k) \in Seq(S)
           /\ \A j \in DOMAIN SubSeq(q, 1, k) : j \in DOMAIN q /\ SubSeq(q, 1, k)[j] = q[j]
  OBVIOUS

\* ... and a suffix.
LEMMA SuffixFacts ==
    ASSUME NEW S, NEW q \in Seq(S), NEW k \in 1 .. (Len(q) + 1)
    PROVE  /\ SubSeq(q, k, Len(q)) \in Seq(S)
           /\ \A j \in DOMAIN SubSeq(q, k, Len(q)) :
                 j + k - 1 \in DOMAIN q /\ SubSeq(q, k, Len(q))[j] = q[j + k - 1]
  OBVIOUS

\* The empty sequence.
LEMMA EmptyFacts ==
    ASSUME NEW S
    PROVE  << >> \in Seq(S) /\ Len(<< >>) = 0 /\ DOMAIN << >> = {}
  OBVIOUS

\* One element of a function changes.
LEMMA OneChanges ==
    ASSUME NEW D, NEW S, NEW f \in [D -> S], NEW d \in D, NEW v \in S
    PROVE  /\ [f EXCEPT ![d] = v] \in [D -> S]
           /\ [f EXCEPT ![d] = v][d] = v
           /\ \A c \in D \ {d} : [f EXCEPT ![d] = v][c] = f[c]
  OBVIOUS

----------------------------------------------------------------------------
(***************************************************************************)
(* The parts of a request.                                                 *)
(***************************************************************************)

Lines == Seq([event : Event, whole : BOOLEAN])

\* The request thread.
LEMMA ThreadFields ==
    ASSUME TypeOK, NEW r \in Requests
    PROVE  /\ thread[r] \in ThreadState
           /\ thread[r].pc \in {"none", "accepted", "running", "over"}
           /\ thread[r].seq \in 0 .. (MaxPieces + 1) /\ thread[r].seq \in Nat
           /\ thread[r] = [pc |-> thread[r].pc, seq |-> thread[r].seq]
<1>1. thread[r] \in ThreadState
  BY DEF TypeOK
<1>. QED
  BY <1>1, InvokeAssumption DEF ThreadState

\* The invocation.
LEMMA TurnFields ==
    ASSUME TypeOK, NEW r \in Requests
    PROVE  /\ turn[r] \in TurnState
           /\ turn[r].pc \in Places
           /\ turn[r].pieces \in 0 .. MaxPieces /\ turn[r].pieces \in Nat
           /\ turn[r].stamp \in 0 .. Horizon
<1>1. turn[r] \in TurnState
  BY DEF TypeOK
<1>. QED
  BY <1>1, InvokeAssumption DEF TurnState

\* The caller.
LEMMA ClientFields ==
    ASSUME TypeOK, NEW r \in Requests
    PROVE  /\ client[r] \in ClientState
           /\ client[r].kind \in Kinds /\ client[r].outcome \in Outcomes
           /\ client[r].waiting \in BOOLEAN
           /\ client[r].got \in Lines
           /\ Len(client[r].got) \in Nat /\ DOMAIN client[r].got = 1 .. Len(client[r].got)
<1>1. client[r] \in ClientState
  BY DEF TypeOK
<1>2. client[r].got \in Lines
  BY <1>1 DEF ClientState, Lines
<1>3. Len(client[r].got) \in Nat /\ DOMAIN client[r].got = 1 .. Len(client[r].got)
  BY <1>2, SeqFacts DEF Lines
<1>. QED
  BY <1>1, <1>2, <1>3 DEF ClientState

\* The connection.
LEMMA WireFields ==
    ASSUME TypeOK, NEW r \in Requests
    PROVE  /\ wire[r] \in Seq(Event)
           /\ Len(wire[r]) \in Nat /\ DOMAIN wire[r] = 1 .. Len(wire[r])
           /\ \A j \in DOMAIN wire[r] : wire[r][j] \in Event
<1>1. wire[r] \in Seq(Event)
  BY DEF TypeOK
<1>. QED
  BY <1>1, SeqFacts

\* The device's buffer.
LEMMA BufferFields ==
    ASSUME TypeOK, NEW r \in Requests
    PROVE  /\ buffer[r] \in BufferState
           /\ buffer[r].at \in Nat /\ buffer[r].held \in 0 .. (Capacity - 1)
           /\ buffer[r].held \in Nat /\ buffer[r].from \in Nat /\ buffer[r].failed \in BOOLEAN
<1>1. buffer[r] \in BufferState
  BY DEF TypeOK
<1>. QED
  BY <1>1, StreamAssumption DEF BufferState

\* A line.
LEMMA EventFields ==
    ASSUME NEW e \in Event
    PROVE  /\ e.type \in {"start", "delta", "done", "error", "result", "refused", "response"}
           /\ e.seq \in Nat /\ e.piece \in Nat /\ e.size \in Nat \ {0}
<1>1. /\ e.type \in {"start", "delta", "done", "error", "result", "refused", "response"}
      /\ e.seq \in 0 .. (MaxPieces + 1) /\ e.piece \in 0 .. MaxPieces /\ e.size \in Sizes
  BY DEF Event
<1>2. e.seq \in Nat /\ e.piece \in Nat
  BY <1>1, InvokeAssumption
<1>3. e.size \in Nat \ {0}
  BY <1>1, StreamAssumption
<1>. QED
  BY <1>1, <1>2, <1>3

\* The caller's record, field by field.
LEMMA ClientMade ==
    ASSUME TypeOK, NEW r \in Requests, NEW k \in Kinds, NEW o \in Outcomes,
           NEW w \in BOOLEAN, NEW got \in Lines
    PROVE  [kind |-> k, outcome |-> o, waiting |-> w, got |-> got] \in ClientState
BY DEF ClientState, Lines

----------------------------------------------------------------------------
(***************************************************************************)
(* Steps and requests.                                                     *)
(***************************************************************************)

\* A step leaves a request alone.
Alone(r) ==
    /\ turn'[r] = turn[r] /\ thread'[r] = thread[r] /\ link'[r] = link[r]
    /\ wire'[r] = wire[r] /\ client'[r] = client[r] /\ buffer'[r] = buffer[r]
    /\ \A role \in Roles : Stored(r, role)' <=> Stored(r, role)

\* ... and its part of the invariant with it.
LEMMA AloneOk ==
    ASSUME NEW r \in Requests, RequestOk(r), Alone(r)
    PROVE  RequestOk(r)'
<1>1. \A e : Wrote(r, e)' <=> Wrote(r, e)
  BY DEF Alone, Wrote
<1>2. Paced(r)'
  BY DEF RequestOk, Paced, Alone
<1>3. Kept(r)'
  BY DEF RequestOk, Kept, Alone, Roles
<1>4. OnTheWay(r)'
  BY <1>1 DEF RequestOk, OnTheWay, InHand, InStep, Alone
<1>5. Told(r)'
  BY DEF RequestOk, Told, OverAt, Alone
<1>. QED
  BY <1>2, <1>3, <1>4, <1>5 DEF RequestOk

\* What was written stays written: what follows the end or the answer is fixed.
LEMMA WroteStays ==
    ASSUME NEW r \in Requests, client'[r].kind = client[r].kind,
           thread[r].pc = "over" => thread'[r].pc = "over",
           thread[r].pc = "over" \/ turn[r].pc = "returned" => turn'[r] = turn[r]
    PROVE  \A e : Wrote(r, e) => Wrote(r, e)'
BY DEF Wrote

----------------------------------------------------------------------------
(***************************************************************************)
(* The invocation.                                                         *)
(***************************************************************************)

\* Nothing is stored ...
LEMMA StoredSame ==
    ASSUME messages' = messages
    PROVE  \A r, role : Stored(r, role)' <=> Stored(r, role)
BY DEF Stored

\* ... or one message.
LEMMA StoredAppend ==
    ASSUME TypeOK, NEW m \in Turns, messages' = Append(messages, m)
    PROVE  \A r, role : Stored(r, role)' <=> Stored(r, role) \/ (m.of = r /\ m.role = role)
<1>1. messages \in Seq(Turns)
  BY DEF TypeOK
<1>2. /\ DOMAIN messages' = 1 .. (Len(messages) + 1) /\ Len(messages) \in Nat
      /\ DOMAIN messages = 1 .. Len(messages)
      /\ \A j \in DOMAIN messages : messages'[j] = messages[j]
      /\ messages'[Len(messages) + 1] = m
      /\ \A j \in DOMAIN messages' : j \in DOMAIN messages \/ j = Len(messages) + 1
  BY <1>1, AppendFacts, SeqFacts
<1>3. DOMAIN messages \subseteq DOMAIN messages' /\ Len(messages) + 1 \in DOMAIN messages'
  BY <1>2
<1>4. ASSUME NEW r, NEW role, Stored(r, role)'
      PROVE  Stored(r, role) \/ (m.of = r /\ m.role = role)
  <2>1. PICK k \in DOMAIN messages' : messages'[k].of = r /\ messages'[k].role = role
    BY <1>4 DEF Stored
  <2>. QED
    BY <1>2, <2>1 DEF Stored
<1>5. ASSUME NEW r, NEW role, Stored(r, role) \/ (m.of = r /\ m.role = role)
      PROVE  Stored(r, role)'
  <2>1. CASE Stored(r, role)
    BY <1>2, <1>3, <2>1 DEF Stored
  <2>2. CASE m.of = r /\ m.role = role
    BY <1>2, <1>3, <2>2 DEF Stored
  <2>. QED
    BY <1>5, <2>1, <2>2
<1>. QED
  BY <1>4, <1>5

\* The invocation moves on: the caller has at most its start event.
LEMMA TurnMoves ==
    ASSUME IInv, NEW r \in Requests, thread[r].pc = "running",
           turn[r].pc \notin {"idle", "returned", "raised"},
           NEW t \in TurnState, t.pc # "idle",
           turn' = [turn EXCEPT ![r] = t], UNCHANGED transport, Kept(r)',
           \A q \in Requests \ {r} : \A role \in Roles : Stored(q, role)' <=> Stored(q, role)
    PROVE  \A q \in Requests : turn' \in [Requests -> TurnState] /\ RequestOk(q)'
<1>1. UNCHANGED <<thread, link, wire, client, buffer, failures>>
  BY DEF transport
<1>2. /\ turn' \in [Requests -> TurnState] /\ turn'[r] = t
      /\ \A q \in Requests \ {r} : turn'[q] = turn[q]
  BY OneChanges DEF IInv, TypeOK
<1>3. \A q \in Requests \ {r} : RequestOk(q)'
  <2>1. \A q \in Requests \ {r} : Alone(q)
    BY <1>1, <1>2 DEF Alone
  <2>. QED
    BY <2>1, AloneOk DEF IInv
<1>4. TypeOK /\ Paced(r) /\ OnTheWay(r) /\ Told(r)
  BY DEF IInv, RequestOk
<1>5. t.pieces \in Nat
  BY InvokeAssumption DEF TurnState
<1>6. Paced(r)'
  BY <1>1, <1>2, <1>4, <1>5, ThreadFields DEF Paced
<1>7. \A e : Wrote(r, e) => Wrote(r, e)'
  BY <1>1, WroteStays
<1>8. OnTheWay(r)'
  BY <1>1, <1>4, <1>7 DEF OnTheWay, InHand, InStep
<1>9. Told(r)'
  BY <1>1, <1>4 DEF Told, OverAt, Alarms
<1>. QED
  BY <1>2, <1>3, <1>6, <1>8, <1>9 DEF RequestOk

\* A history is of stored turns.
LEMMA HistoryType ==
    ASSUME messages \in Seq(Turns), NEW prompt \in Histories
    PROVE  prompt \in Seq(Turns)
<1> DEFINE size == IF Len(messages) < Window THEN Len(messages) ELSE Window
<1>1. size \in Nat /\ DOMAIN messages = 1 .. Len(messages)
  BY InvokeAssumption
<1>2. \A k \in DOMAIN messages : messages[k] \in Turns
  BY SeqFacts
<1>3. PICK rank \in [1 .. size -> DOMAIN messages] : prompt = [i \in 1 .. size |-> messages[rank[i]]]
  BY DEF Histories
<1>. HIDE DEF size
<1>4. \A i \in 1 .. size : messages[rank[i]] \in Turns
  BY <1>2, <1>3
<1>. QED
  BY <1>1, <1>3, <1>4

\* The invocation's own steps.
LEMMA InvokeOk ==
    ASSUME IInv, NEW r \in Requests, Invoke(r)
    PROVE  IInv'
<1>1. /\ thread[r].pc = "running" /\ InvokeStep(r) /\ UNCHANGED transport
      /\ TypeOK /\ Kept(r)
  BY DEF Invoke, IInv, RequestOk
<1>2. UNCHANGED <<thread, link, wire, client, buffer, failures>>
  BY <1>1 DEF transport
<1>3. turn \in [Requests -> TurnState] /\ turn[r] \in TurnState /\ turn[r].pc \in Places
      /\ clock \in 0 .. Horizon /\ messages \in Seq(Turns)
  BY <1>1, TurnFields DEF TypeOK
<1>4. CASE Stamp(r)
  <2> DEFINE t == [turn[r] EXCEPT !.stamp = clock,
                      !.pc = IF turn[r].pc = "begun" THEN "stamped" ELSE "restamped"]
  <2>1. /\ turn[r].pc \in {"begun", "answered"} /\ turn' = [turn EXCEPT ![r] = t]
        /\ UNCHANGED <<clock, messages>>
    BY <1>4 DEF Stamp
  <2>2. t \in TurnState /\ t.pc = IF turn[r].pc = "begun" THEN "stamped" ELSE "restamped"
    BY <1>3 DEF TurnState, Places
  <2>. HIDE DEF t
  <2>3. turn'[r] = t
    BY <1>3, <2>1
  <2>4. \A q, role : Stored(q, role)' <=> Stored(q, role)
    BY <2>1, StoredSame
  <2>5. Kept(r)'
    BY <1>1, <2>1, <2>2, <2>3, <2>4 DEF Kept
  <2>6. turn' \in [Requests -> TurnState] /\ \A q \in Requests : RequestOk(q)'
    BY <1>1, <2>1, <2>2, <2>4, <2>5, TurnMoves
  <2>. QED
    BY <1>1, <1>2, <2>1, <2>6 DEF IInv, TypeOK
<1>5. CASE Store(r)
  <2> DEFINE asks == turn[r].pc = "stamped"
             m == [of |-> r, role |-> IF asks THEN "user" ELSE "assistant", stamp |-> turn[r].stamp]
             t == [turn[r] EXCEPT !.pc = IF asks THEN "stored" ELSE "returned"]
  <2>1. /\ turn[r].pc \in {"stamped", "restamped"} /\ turn' = [turn EXCEPT ![r] = t]
        /\ messages' = Append(messages, m) /\ clock' = clock
    BY <1>5 DEF Store
  <2>2. t \in TurnState /\ t.pc = IF asks THEN "stored" ELSE "returned"
    BY <1>3 DEF TurnState, Places
  <2>3. m \in Turns /\ m.of = r /\ m.role = IF asks THEN "user" ELSE "assistant"
    BY <1>1, TurnFields DEF Turns, Roles
  <2>. HIDE DEF t, m
  <2>4. messages' \in Seq(Turns)
    BY <1>3, <2>1, <2>3, AppendFacts
  <2>5. turn'[r] = t
    BY <1>3, <2>1
  <2>6. \A q, role : Stored(q, role)' <=> Stored(q, role) \/ (q = r /\ role = m.role)
    BY <1>1, <2>1, <2>3, StoredAppend
  <2>7. Kept(r)'
    BY <1>1, <2>1, <2>2, <2>3, <2>5, <2>6 DEF Kept
  <2>8. turn' \in [Requests -> TurnState] /\ \A q \in Requests : RequestOk(q)'
    <3>1. t.pc # "idle"
      BY <2>2
    <3>2. turn[r].pc \notin {"idle", "returned", "raised"}
      BY <2>1
    <3>3. \A q \in Requests \ {r} : \A role \in Roles : Stored(q, role)' <=> Stored(q, role)
      BY <2>6
    <3>. QED
      BY <1>1, <2>1, <2>2, <2>7, <3>1, <3>2, <3>3, TurnMoves
  <2>. QED
    BY <1>1, <1>2, <2>1, <2>4, <2>8 DEF IInv, TypeOK
<1>6. CASE ReadHistory(r)
  <2>1. PICK prompt \in Histories :
           turn' = [turn EXCEPT ![r].pc = "prompted", ![r].prompt = prompt]
    BY <1>6 DEF ReadHistory
  <2> DEFINE t == [turn[r] EXCEPT !.pc = "prompted", !.prompt = prompt]
  <2>2. turn[r].pc = "stored" /\ turn' = [turn EXCEPT ![r] = t] /\ UNCHANGED <<clock, messages>>
    BY <1>6, <2>1 DEF ReadHistory
  <2>3. t \in TurnState /\ t.pc = "prompted"
    BY <1>3, HistoryType DEF TurnState, Places
  <2>. HIDE DEF t
  <2>4. turn'[r] = t
    BY <1>3, <2>2
  <2>5. \A q, role : Stored(q, role)' <=> Stored(q, role)
    BY <2>2, StoredSame
  <2>6. Kept(r)'
    BY <1>1, <2>2, <2>3, <2>4, <2>5 DEF Kept
  <2>7. turn' \in [Requests -> TurnState] /\ \A q \in Requests : RequestOk(q)'
    BY <1>1, <2>2, <2>3, <2>5, <2>6, TurnMoves
  <2>. QED
    BY <1>1, <1>2, <2>2, <2>7 DEF IInv, TypeOK
<1>7. CASE Generate(r)
  <2>1. PICK n \in 0 .. MaxPieces :
           turn' = [turn EXCEPT ![r].pc = "answered", ![r].pieces = n]
    BY <1>7 DEF Generate
  <2> DEFINE t == [turn[r] EXCEPT !.pc = "answered", !.pieces = n]
  <2>2. turn[r].pc = "prompted" /\ turn' = [turn EXCEPT ![r] = t] /\ UNCHANGED <<clock, messages>>
    BY <1>7, <2>1 DEF Generate
  <2>3. t \in TurnState /\ t.pc = "answered"
    BY <1>3 DEF TurnState, Places
  <2>. HIDE DEF t
  <2>4. turn'[r] = t
    BY <1>3, <2>2
  <2>5. \A q, role : Stored(q, role)' <=> Stored(q, role)
    BY <2>2, StoredSame
  <2>6. Kept(r)'
    BY <1>1, <2>2, <2>3, <2>4, <2>5 DEF Kept
  <2>7. turn' \in [Requests -> TurnState] /\ \A q \in Requests : RequestOk(q)'
    BY <1>1, <2>2, <2>3, <2>5, <2>6, TurnMoves
  <2>. QED
    BY <1>1, <1>2, <2>2, <2>7 DEF IInv, TypeOK
<1>8. CASE Raise(r)
  <2> DEFINE t == [turn[r] EXCEPT !.pc = "raised"]
  <2>1. /\ turn[r].pc \in {"begun", "stamped", "stored", "prompted", "restamped"}
        /\ turn' = [turn EXCEPT ![r] = t] /\ UNCHANGED <<clock, messages>>
    BY <1>8 DEF Raise
  <2>2. t \in TurnState /\ t.pc = "raised"
    BY <1>3 DEF TurnState, Places
  <2>. HIDE DEF t
  <2>3. turn'[r] = t
    BY <1>3, <2>1
  <2>4. \A q, role : Stored(q, role)' <=> Stored(q, role)
    BY <2>1, StoredSame
  <2>5. Kept(r)'
    BY <1>1, <2>1, <2>2, <2>3, <2>4 DEF Kept
  <2>6. turn' \in [Requests -> TurnState] /\ \A q \in Requests : RequestOk(q)'
    BY <1>1, <2>1, <2>2, <2>4, <2>5, TurnMoves
  <2>. QED
    BY <1>1, <1>2, <2>1, <2>6 DEF IInv, TypeOK
<1>. QED
  BY <1>1, <1>4, <1>5, <1>6, <1>7, <1>8 DEF InvokeStep

----------------------------------------------------------------------------
(***************************************************************************)
(* What the request thread writes.                                         *)
(***************************************************************************)

\* A line is written, or lost in a connection that is gone.
LEMMA WriteFacts ==
    ASSUME TypeOK, NEW r \in Requests,
           NEW type \in {"start", "delta", "done", "error", "result", "refused", "response"},
           NEW seq \in 0 .. (MaxPieces + 1), NEW piece \in 0 .. MaxPieces,
           Write(r, type, seq, piece)
    PROVE  /\ wire' \in [Requests -> Seq(Event)]
           /\ \A q \in Requests \ {r} : wire'[q] = wire[q]
           /\ \E e \in Event :
                 /\ e.type = type /\ e.seq = seq /\ e.piece = piece
                 /\ wire'[r] = IF link[r] = "open" THEN Append(wire[r], e) ELSE wire[r]
<1>1. PICK size \in IF client[r].kind = "device" THEN Sizes ELSE {1} :
         wire' = IF link[r] = "open"
                 THEN [wire EXCEPT ![r] = Append(@,
                         [type |-> type, seq |-> seq, piece |-> piece, size |-> size])]
                 ELSE wire
  BY DEF Write
<1> DEFINE e == [type |-> type, seq |-> seq, piece |-> piece, size |-> size]
<1>2. e \in Event /\ e.type = type /\ e.seq = seq /\ e.piece = piece
  BY <1>1, StreamAssumption DEF Event
<1>. HIDE DEF e
<1>3. wire' = IF link[r] = "open" THEN [wire EXCEPT ![r] = Append(wire[r], e)] ELSE wire
  BY <1>1 DEF e
<1>4. wire \in [Requests -> Seq(Event)] /\ wire[r] \in Seq(Event)
  BY DEF TypeOK
<1>5. Append(wire[r], e) \in Seq(Event)
  BY <1>2, <1>4, AppendFacts
<1>. QED
  BY <1>2, <1>3, <1>4, <1>5

\* All the lines on the way are the thread's, in the next state.
LEMMA LinesWritten ==
    ASSUME NEW r \in Requests,
           \A j \in DOMAIN wire'[r] : \E x : x = wire'[r][j] /\ Wrote(r, x)'
    PROVE  (\A j \in DOMAIN wire[r] : Wrote(r, wire[r][j]))'
BY DEF Wrote

\* One line more, on either side.
LEMMA OneMore == \A a, b \in Nat : a + (b + 1) = (a + b) + 1
  OBVIOUS

\* One more line of the thread is on the way.
LEMMA OneMoreLine ==
    ASSUME IInv, NEW r \in Requests, NEW e \in Event,
           wire'[r] = IF link[r] = "open" THEN Append(wire[r], e) ELSE wire[r],
           client'[r] = client[r], buffer'[r] = buffer[r],
           Wrote(r, e)',
           client[r].kind # "plain" => e.seq = thread[r].seq,
           \A x : Wrote(r, x) => Wrote(r, x)',
           link'[r] = "open" => link[r] = "open" /\ thread'[r].seq = thread[r].seq + 1
    PROVE  OnTheWay(r)'
<1>1. TypeOK /\ OnTheWay(r)
  BY DEF IInv, RequestOk
<1>2. /\ wire[r] \in Seq(Event) /\ Len(wire[r]) \in Nat /\ DOMAIN wire[r] = 1 .. Len(wire[r])
      /\ Len(client[r].got) \in Nat /\ thread[r].seq \in Nat /\ e.seq \in Nat
  BY <1>1, WireFields, ClientFields, ThreadFields, EventFields
<1>3. CASE link[r] # "open"
  <2>1. wire'[r] = wire[r] /\ link'[r] # "open"
    BY <1>3
  <2>2. InHand(r) => InHand(r)'
    BY <2>1 DEF InHand, InStep
  <2>. QED
    BY <1>1, <2>1, <2>2 DEF OnTheWay
<1>4. CASE link[r] = "open"
  <2>1. /\ wire'[r] = Append(wire[r], e) /\ Len(wire'[r]) = Len(wire[r]) + 1
        /\ \A j \in DOMAIN wire[r] : wire'[r][j] = wire[r][j]
        /\ wire'[r][Len(wire[r]) + 1] = e
        /\ \A j \in DOMAIN wire'[r] : j \in DOMAIN wire[r] \/ j = Len(wire[r]) + 1
    BY <1>2, <1>4, AppendFacts
  <2>2. (\A j \in DOMAIN wire[r] : Wrote(r, wire[r][j]))'
    <3>1. ASSUME NEW j \in DOMAIN wire'[r]
          PROVE  \E x : x = wire'[r][j] /\ Wrote(r, x)'
      <4>1. CASE j \in DOMAIN wire[r]
        BY <1>1, <2>1, <4>1 DEF OnTheWay
      <4>2. CASE j = Len(wire[r]) + 1
        BY <2>1, <4>2
      <4>. QED
        BY <2>1, <4>1, <4>2
    <3>. QED
      BY <3>1, LinesWritten
  <2>3. ASSUME InHand(r), client[r].kind # "plain"
        PROVE  InHand(r)'
    <3>1. Len(client[r].got) + Len(wire[r]) = thread[r].seq
      BY <1>4, <2>3 DEF InHand
    <3>2. e.seq = Len(client[r].got) + Len(wire[r])
      BY <2>3, <3>1
    <3>3. InStep(wire[r], Len(client[r].got))
      BY <2>3 DEF InHand
    <3>4. ASSUME NEW j \in DOMAIN wire'[r]
          PROVE  wire'[r][j].seq = Len(client[r].got) + j - 1
      <4>1. CASE j \in DOMAIN wire[r]
        <5>1. wire'[r][j] = wire[r][j] /\ wire[r][j].seq = Len(client[r].got) + j - 1
          BY <2>1, <3>3, <4>1 DEF InStep
        <5>. QED
          BY <5>1
      <4>2. CASE j = Len(wire[r]) + 1
        <5>1. wire'[r][j] = e
          BY <2>1, <4>2
        <5>2. Len(client[r].got) \in Nat /\ Len(wire[r]) \in Nat
          BY <1>2
        <5>3. e.seq = Len(client[r].got) + j - 1
          BY <3>2, <4>2, <5>2
        <5>. QED
          BY <5>1, <5>3
      <4>. QED
        BY <2>1, <4>1, <4>2
    <3>5. InStep(wire[r], Len(client[r].got))'
      BY <3>4 DEF InStep
    <3>6. link'[r] = "open" => Len(client'[r].got) + Len(wire'[r]) = thread'[r].seq
      <4>1. Len(wire'[r]) = Len(wire[r]) + 1 /\ client'[r].got = client[r].got
        BY <2>1
      <4>2. Len(client[r].got) \in Nat /\ Len(wire[r]) \in Nat
        BY <1>2
      <4>3. ASSUME link'[r] = "open"
            PROVE  thread'[r].seq = thread[r].seq + 1
        BY <4>3
      <4>4. Len(client[r].got) + (Len(wire[r]) + 1) = (Len(client[r].got) + Len(wire[r])) + 1
        BY <4>2, OneMore, Zenon
      <4>. QED
        BY <3>1, <4>1, <4>3, <4>4, Zenon
    <3>. QED
      BY <2>3, <3>5, <3>6 DEF InHand
  <2>. QED
    BY <1>1, <2>2, <2>3 DEF OnTheWay
<1>. QED
  BY <1>3, <1>4

\* A write of the thread, with all it changes.
LEMMA ThreadWrites ==
    ASSUME IInv, NEW r \in Requests, NEW e \in Event, NEW s \in ThreadState,
           thread[r].pc \in {"accepted", "running"}, s.pc \in {"running", "over"},
           NEW l \in {"none", "open", "closed", "cut"},
           wire' \in [Requests -> Seq(Event)],
           \A q \in Requests \ {r} : wire'[q] = wire[q],
           wire'[r] = IF link[r] = "open" THEN Append(wire[r], e) ELSE wire[r],
           thread' = [thread EXCEPT ![r] = s], link' = [link EXCEPT ![r] = l],
           UNCHANGED <<node, client, buffer, failures>>,
           client[r].kind # "plain" => e.seq = thread[r].seq,
           Wrote(r, e)',
           l = "none" <=> link[r] = "none",
           l = "open" => link[r] = "open" /\ s = [pc |-> "running", seq |-> thread[r].seq + 1],
           s.pc = "running" => turn[r].pc = "returned" /\ s.seq \in 1 .. (turn[r].pieces + 1)
    PROVE  IInv'
<1>1. TypeOK /\ RequestOk(r)
  BY DEF IInv
<1>2. UNCHANGED <<clock, messages, turn>>
  BY DEF node
<1>3. /\ thread' \in [Requests -> ThreadState] /\ thread'[r] = s
      /\ \A q \in Requests \ {r} : thread'[q] = thread[q]
  BY <1>1, OneChanges DEF TypeOK
<1>4. /\ link' \in [Requests -> {"none", "open", "closed", "cut"}] /\ link'[r] = l
      /\ \A q \in Requests \ {r} : link'[q] = link[q]
  BY <1>1, OneChanges DEF TypeOK
<1>5. TypeOK'
  BY <1>1, <1>2, <1>3, <1>4 DEF TypeOK
<1>6. \A q \in Requests \ {r} : RequestOk(q)'
  <2>1. \A q \in Requests \ {r} : Alone(q)
    BY <1>2, <1>3, <1>4, StoredSame DEF Alone
  <2>. QED
    BY <2>1, AloneOk DEF IInv
<1>7. \A x : Wrote(r, x) => Wrote(r, x)'
  BY <1>1, <1>2, <1>3, WroteStays
<1>8. OnTheWay(r)'
  BY <1>3, <1>4, <1>7, OneMoreLine
<1>9. link[r] # "none"
  BY <1>1 DEF RequestOk, Paced
<1>10. Paced(r)'
  <2>1. turn[r].pc = "returned" => turn[r].pc # "idle"
    OBVIOUS
  <2>2. l = "open" => s.pc = "running"
    OBVIOUS
  <2>. QED
    BY <1>2, <1>3, <1>4, <1>9, <2>1, <2>2 DEF Paced
<1>11. Kept(r)'
  BY <1>1, <1>2, StoredSame DEF RequestOk, Kept
<1>12. Told(r)'
  <2>1. thread[r].pc # "over"
    OBVIOUS
  <2>. QED
    BY <1>1, <1>2, <1>3, <2>1 DEF RequestOk, Told, OverAt
<1>. QED
  BY <1>5, <1>6, <1>8, <1>10, <1>11, <1>12 DEF IInv, RequestOk

\* A response ends: the thread is over, and an open connection closes.
LEMMA CloseFacts ==
    ASSUME TypeOK, NEW r \in Requests, Close(r)
    PROVE  LET s == [pc |-> "over", seq |-> thread[r].seq]
               l == IF link[r] = "open" THEN "closed" ELSE link[r]
           IN  /\ s \in ThreadState /\ thread' = [thread EXCEPT ![r] = s]
               /\ l \in {"none", "open", "closed", "cut"} /\ l # "open"
               /\ l = "none" <=> link[r] = "none"
               /\ link' = [link EXCEPT ![r] = l]
<1> DEFINE s == [pc |-> "over", seq |-> thread[r].seq]
           l == IF link[r] = "open" THEN "closed" ELSE link[r]
<1>1. s \in ThreadState
  BY ThreadFields DEF ThreadState
<1>2. thread' = [thread EXCEPT ![r] = s]
  <2>1. thread' = [thread EXCEPT ![r].pc = "over"]
    BY DEF Close
  <2>2. thread[r] \in ThreadState
    BY ThreadFields
  <2>3. [thread[r] EXCEPT !.pc = "over"] = s
    BY <2>2 DEF ThreadState
  <2>. QED
    BY <2>1, <2>3
<1>3. link' = [link EXCEPT ![r] = l] /\ link[r] \in {"none", "open", "closed", "cut"}
  BY DEF Close, TypeOK
<1>. QED
  BY <1>1, <1>2, <1>3

\* The last line of a thread.
LEMMA LastLine ==
    ASSUME IInv, NEW r \in Requests, thread[r].pc \in {"accepted", "running"},
           NEW type \in {"start", "delta", "done", "error", "result", "refused", "response"},
           NEW seq \in 0 .. (MaxPieces + 1),
           Write(r, type, seq, 0), Close(r),
           UNCHANGED <<node, client, buffer, failures>>,
           client[r].kind # "plain" => seq = thread[r].seq,
           \A e : e.type = type /\ e.seq = seq /\ thread'[r].pc = "over" => Wrote(r, e)'
    PROVE  IInv'
<1> DEFINE s == [pc |-> "over", seq |-> thread[r].seq]
           l == IF link[r] = "open" THEN "closed" ELSE link[r]
<1>1. TypeOK /\ 0 \in 0 .. MaxPieces
  BY InvokeAssumption DEF IInv
<1>2. /\ s \in ThreadState /\ thread' = [thread EXCEPT ![r] = s]
      /\ l \in {"none", "open", "closed", "cut"} /\ l # "open"
      /\ l = "none" <=> link[r] = "none"
      /\ link' = [link EXCEPT ![r] = l]
  BY <1>1, CloseFacts
<1>3. s.pc = "over"
  OBVIOUS
<1>. HIDE DEF s, l
<1>4. /\ wire' \in [Requests -> Seq(Event)]
      /\ \A q \in Requests \ {r} : wire'[q] = wire[q]
  BY <1>1, WriteFacts
<1>5. PICK e \in Event :
         /\ e.type = type /\ e.seq = seq
         /\ wire'[r] = IF link[r] = "open" THEN Append(wire[r], e) ELSE wire[r]
  BY <1>1, WriteFacts
<1>6. thread'[r] = s
  BY <1>1, <1>2 DEF TypeOK
<1>7. Wrote(r, e)'
  BY <1>3, <1>5, <1>6
<1>. QED
  BY <1>2, <1>3, <1>4, <1>5, <1>7, ThreadWrites

\* A request is refused before its invocation begins.
LEMMA RefuseOk ==
    ASSUME IInv, NEW r \in Requests, Refuse(r)
    PROVE  IInv'
<1>1. /\ thread[r].pc = "accepted" /\ Write(r, "refused", 0, 0) /\ Close(r)
      /\ UNCHANGED <<node, client, buffer, failures>>
  BY DEF Refuse
<1>2. turn[r].pc = "idle" /\ thread[r].seq = 0
  BY <1>1 DEF IInv, RequestOk, Paced
<1>3. turn'[r].pc = "idle"
  BY <1>1, <1>2 DEF node
<1>4. \A e : e.type = "refused" /\ e.seq = 0 /\ thread'[r].pc = "over" => Wrote(r, e)'
  BY <1>3 DEF Wrote
<1>5. 0 \in 0 .. (MaxPieces + 1)
  BY InvokeAssumption
<1>. QED
  BY <1>1, <1>2, <1>4, <1>5, LastLine

\* The start event fails: a second response follows the headers.
LEMMA StartFailsOk ==
    ASSUME IInv, NEW r \in Requests, StartFails(r)
    PROVE  IInv'
<1>1. /\ thread[r].pc = "accepted" /\ Write(r, "response", 0, 0) /\ Close(r)
      /\ client[r].kind # "plain" /\ UNCHANGED <<node, client, buffer, failures>>
  BY DEF StartFails
<1>2. turn[r].pc = "idle" /\ thread[r].seq = 0
  BY <1>1 DEF IInv, RequestOk, Paced
<1>3. turn'[r].pc = "idle" /\ client'[r].kind # "plain"
  BY <1>1, <1>2 DEF node
<1>4. \A e : e.type = "response" /\ e.seq = 0 /\ thread'[r].pc = "over" => Wrote(r, e)'
  BY <1>3 DEF Wrote
<1>5. 0 \in 0 .. (MaxPieces + 1)
  BY InvokeAssumption
<1>. QED
  BY <1>1, <1>2, <1>4, <1>5, LastLine

\* The answer is out, and what follows it.
LEMMA EmitDoneOk ==
    ASSUME IInv, NEW r \in Requests, EmitDone(r)
    PROVE  IInv'
<1> DEFINE seq == thread[r].seq
<1>1. /\ thread[r].pc = "running" /\ Write(r, "done", seq, 0) /\ Close(r)
      /\ turn[r].pc = "returned" /\ client[r].kind # "plain" /\ seq > turn[r].pieces
      /\ UNCHANGED <<node, client, buffer, failures>> /\ TypeOK
  BY DEF EmitDone, IInv
<1>2. seq \in 0 .. (MaxPieces + 1) /\ turn[r].pieces \in Nat
  BY <1>1, ThreadFields, TurnFields
<1>3. seq = turn[r].pieces + 1
  <2>1. seq \in 1 .. (turn[r].pieces + 1)
    BY <1>1 DEF IInv, RequestOk, Paced
  <2>. QED
    BY <1>1, <1>2, <2>1
<1>4. turn'[r] = turn[r] /\ client'[r] = client[r]
  BY <1>1 DEF node
<1>. HIDE DEF seq
<1>5. \A e : e.type = "done" /\ e.seq = seq /\ thread'[r].pc = "over" => Wrote(r, e)'
  BY <1>1, <1>3, <1>4 DEF Wrote
<1>6. client[r].kind # "plain" => seq = thread[r].seq
  BY DEF seq
<1>. QED
  BY <1>1, <1>2, <1>5, <1>6, LastLine

\* The invocation failed: nothing of an answer has been written.
LEMMA EmitErrorOk ==
    ASSUME IInv, NEW r \in Requests, EmitError(r)
    PROVE  IInv'
<1>1. /\ thread[r].pc = "running" /\ Close(r)
      /\ turn[r].pc = "raised" /\ client[r].kind # "plain"
      /\ UNCHANGED <<node, client, buffer, failures>>
  BY DEF EmitError
<1>6. PICK type \in {"error", "response"} : Write(r, type, 1, 0)
  BY DEF EmitError
<1>2. thread[r].seq = 1
  BY <1>1 DEF IInv, RequestOk, Paced
<1>3. turn'[r] = turn[r] /\ client'[r] = client[r]
  BY <1>1 DEF node
<1>4. \A e : e.type = type /\ e.seq = 1 /\ thread'[r].pc = "over" => Wrote(r, e)'
  BY <1>1, <1>3, <1>6 DEF Wrote
<1>5. 1 \in 0 .. (MaxPieces + 1)
  BY InvokeAssumption
<1>. QED
  BY <1>1, <1>2, <1>4, <1>5, <1>6, LastLine

\* A piece of the stored answer.
LEMMA EmitDeltaOk ==
    ASSUME IInv, NEW r \in Requests, EmitDelta(r)
    PROVE  IInv'
<1> DEFINE seq == thread[r].seq
           s == [pc |-> "running", seq |-> seq + 1]
<1>1. /\ thread[r].pc = "running" /\ Write(r, "delta", seq, seq)
      /\ turn[r].pc = "returned" /\ client[r].kind # "plain" /\ seq <= turn[r].pieces
      /\ thread' = [thread EXCEPT ![r].seq = seq + 1]
      /\ UNCHANGED <<node, link, client, buffer, failures>>
      /\ TypeOK
  BY DEF EmitDelta, IInv
<1>2. /\ seq \in 0 .. (MaxPieces + 1) /\ turn[r].pieces \in 0 .. MaxPieces /\ turn[r].pieces \in Nat
      /\ thread[r] \in ThreadState
  BY <1>1, ThreadFields, TurnFields
<1>3. seq \in 1 .. turn[r].pieces
  <2>1. seq \in 1 .. (turn[r].pieces + 1)
    BY <1>1 DEF IInv, RequestOk, Paced
  <2>. QED
    BY <1>1, <1>2, <2>1
<1>4. /\ seq \in 0 .. MaxPieces /\ seq + 1 \in 0 .. (MaxPieces + 1)
      /\ seq + 1 \in 1 .. (turn[r].pieces + 1)
  BY <1>2, <1>3, InvokeAssumption
<1>5. s \in ThreadState /\ s.pc = "running" /\ s.seq = seq + 1
  BY <1>4 DEF ThreadState
<1>6. thread' = [thread EXCEPT ![r] = s]
  <2>1. [thread[r] EXCEPT !.seq = seq + 1] = s
    BY <1>1, <1>2 DEF ThreadState
  <2>. QED
    BY <1>1, <2>1
<1>7. turn'[r] = turn[r] /\ client'[r] = client[r]
  BY <1>1 DEF node
<1>8. /\ wire' \in [Requests -> Seq(Event)]
      /\ \A q \in Requests \ {r} : wire'[q] = wire[q]
  BY <1>1, <1>2, <1>4, WriteFacts
<1>9. PICK e \in Event :
         /\ e.type = "delta" /\ e.seq = seq /\ e.piece = seq
         /\ wire'[r] = IF link[r] = "open" THEN Append(wire[r], e) ELSE wire[r]
  BY <1>1, <1>2, <1>4, WriteFacts
<1>10. Wrote(r, e)'
  BY <1>1, <1>3, <1>7, <1>9 DEF Wrote
<1>11. link[r] \in {"none", "open", "closed", "cut"} /\ link' = [link EXCEPT ![r] = link[r]]
  BY <1>1 DEF TypeOK
<1>12. s = [pc |-> "running", seq |-> thread[r].seq + 1] /\ e.seq = thread[r].seq
  BY <1>9
<1>. HIDE DEF s, seq
<1>. QED
  BY <1>1, <1>4, <1>5, <1>6, <1>8, <1>9, <1>10, <1>11, <1>12, ThreadWrites

\* A thread ends without a line.
LEMMA EndsSilently ==
    ASSUME IInv, NEW r \in Requests, thread[r].pc \in {"accepted", "running"},
           thread' = [thread EXCEPT ![r].pc = "over"],
           NEW l \in {"closed", "cut"}, link' = [link EXCEPT ![r] = l],
           UNCHANGED <<node, wire, client, buffer, failures>>
    PROVE  IInv'
<1> DEFINE s == [pc |-> "over", seq |-> thread[r].seq]
<1>1. TypeOK /\ RequestOk(r)
  BY DEF IInv
<1>2. UNCHANGED <<clock, messages, turn>>
  BY DEF node
<1>3. thread[r] \in ThreadState /\ s \in ThreadState /\ thread' = [thread EXCEPT ![r] = s]
  <2>1. thread[r] \in ThreadState /\ s \in ThreadState
    BY <1>1, ThreadFields DEF ThreadState
  <2>2. [thread[r] EXCEPT !.pc = "over"] = s
    BY <2>1 DEF ThreadState
  <2>. QED
    BY <2>1, <2>2
<1>4. s.pc = "over"
  OBVIOUS
<1>. HIDE DEF s
<1>5. /\ thread' \in [Requests -> ThreadState] /\ thread'[r] = s
      /\ \A q \in Requests \ {r} : thread'[q] = thread[q]
  <2>1. thread \in [Requests -> ThreadState] /\ s \in ThreadState
    BY <1>1, <1>3 DEF TypeOK
  <2>2. thread' = [thread EXCEPT ![r] = s]
    BY <1>3
  <2>. QED
    BY <2>1, <2>2
<1>6. /\ link' \in [Requests -> {"none", "open", "closed", "cut"}] /\ link'[r] = l
      /\ \A q \in Requests \ {r} : link'[q] = link[q]
  <2>1. link \in [Requests -> {"none", "open", "closed", "cut"}]
    BY <1>1 DEF TypeOK
  <2>. QED
    BY <2>1, OneChanges
<1>7. TypeOK'
  BY <1>1, <1>2, <1>5, <1>6 DEF TypeOK
<1>8. \A q \in Requests \ {r} : RequestOk(q)'
  <2>1. \A q \in Requests \ {r} : Alone(q)
    BY <1>2, <1>5, <1>6, StoredSame DEF Alone
  <2>. QED
    BY <2>1, AloneOk DEF IInv
<1>9. \A x : Wrote(r, x) => Wrote(r, x)'
  BY <1>2, <1>4, <1>5, WroteStays
<1>10. OnTheWay(r)'
  <2>1. InHand(r) => InHand(r)'
    BY <1>6, <1>9 DEF InHand, InStep
  <2>2. (\A j \in DOMAIN wire[r] : Wrote(r, wire[r][j]))'
    BY <1>1, <1>9 DEF RequestOk, OnTheWay
  <2>. QED
    BY <1>1, <2>1, <2>2 DEF RequestOk, OnTheWay
<1>11. Paced(r)'
  BY <1>4, <1>5, <1>6 DEF Paced
<1>12. Kept(r)'
  BY <1>1, <1>2, StoredSame DEF RequestOk, Kept
<1>13. Told(r)'
  BY <1>1, <1>2, <1>4, <1>5 DEF RequestOk, Told, OverAt
<1>. QED
  BY <1>7, <1>8, <1>10, <1>11, <1>12, <1>13 DEF IInv, RequestOk

\* The plain route: its one line, or a connection that ends without one.
LEMMA ReplyOk ==
    ASSUME IInv, NEW r \in Requests, Reply(r)
    PROVE  IInv'
<1>1. /\ thread[r].pc = "running" /\ client[r].kind = "plain" /\ Close(r)
      /\ UNCHANGED <<node, client, buffer, failures>> /\ TypeOK
  BY DEF Reply, IInv
<1>2. turn'[r] = turn[r] /\ client'[r] = client[r] /\ 0 \in 0 .. (MaxPieces + 1)
  BY <1>1, InvokeAssumption DEF node
<1>3. CASE turn[r].pc = "returned" /\ Write(r, "result", 0, 0)
  <2>1. \A e : e.type = "result" /\ e.seq = 0 /\ thread'[r].pc = "over" => Wrote(r, e)'
    BY <1>1, <1>2, <1>3 DEF Wrote
  <2>. QED
    BY <1>1, <1>2, <1>3, <2>1, LastLine
<1>4. CASE turn[r].pc \in {"returned", "raised"} /\ Write(r, "refused", 0, 0)
  <2>1. \A e : e.type = "refused" /\ e.seq = 0 /\ thread'[r].pc = "over" => Wrote(r, e)'
    BY <1>1, <1>2, <1>4 DEF Wrote
  <2>. QED
    BY <1>1, <1>2, <1>4, <2>1, LastLine
<1>5. CASE UNCHANGED wire
  <2>1. thread' = [thread EXCEPT ![r].pc = "over"]
    BY <1>1 DEF Close
  <2>2. link[r] \in {"open", "closed", "cut"}
    <3>1. link[r] # "none"
      BY <1>1 DEF IInv, RequestOk, Paced
    <3>. QED
      BY <1>1, <3>1 DEF TypeOK
  <2>3. \E l \in {"closed", "cut"} : link' = [link EXCEPT ![r] = l]
    <3>1. link' = [link EXCEPT ![r] = IF link[r] = "open" THEN "closed" ELSE link[r]]
      BY <1>1 DEF Close
    <3>. QED
      BY <2>2, <3>1
  <2>. QED
    BY <1>1, <1>5, <2>1, <2>3, EndsSilently
<1>. QED
  BY <1>3, <1>4, <1>5 DEF Reply

\* A write fails: the thread ends.
LEMMA BrokenPipeOk ==
    ASSUME IInv, NEW r \in Requests, BrokenPipe(r)
    PROVE  IInv'
<1>1. /\ link[r] = "cut" /\ thread[r].pc \in {"accepted", "running"}
      /\ thread' = [thread EXCEPT ![r].pc = "over"]
      /\ UNCHANGED <<node, link, wire, client, buffer, failures>>
  BY DEF BrokenPipe
<1>2. link' = [link EXCEPT ![r] = "cut"]
  BY <1>1 DEF IInv, TypeOK
<1>. QED
  BY <1>1, <1>2, EndsSilently

\* The invocation begins, after its start event.
LEMMA AcceptOk ==
    ASSUME IInv, NEW r \in Requests, Accept(r)
    PROVE  IInv'
<1> DEFINE s == [pc |-> "running", seq |-> 1]
           t == [turn[r] EXCEPT !.pc = "begun"]
<1>1. /\ thread[r].pc = "accepted" /\ Begin(r)
      /\ thread' = [thread EXCEPT ![r] = s]
      /\ UNCHANGED <<link, client, buffer, failures>>
      /\ IF client[r].kind = "plain" THEN UNCHANGED wire ELSE Write(r, "start", 0, 0)
      /\ TypeOK /\ RequestOk(r)
  BY DEF Accept, IInv
<1>2. /\ turn[r].pc = "idle" /\ turn' = [turn EXCEPT ![r] = t] /\ UNCHANGED <<clock, messages>>
      /\ thread[r].seq = 0
  BY <1>1 DEF Begin, RequestOk, Paced
<1>3. t \in TurnState /\ t.pc = "begun" /\ t.pieces \in Nat
  <2>1. turn[r] \in TurnState /\ turn[r].pieces \in Nat
    BY <1>1, TurnFields
  <2>. QED
    BY <2>1 DEF TurnState, Places
<1>4. s \in ThreadState /\ s.pc = "running" /\ s.seq = 1
  BY InvokeAssumption DEF ThreadState
<1>. HIDE DEF s, t
<1>5. /\ thread' \in [Requests -> ThreadState] /\ thread'[r] = s
      /\ \A q \in Requests \ {r} : thread'[q] = thread[q]
  BY <1>1, <1>4, OneChanges DEF TypeOK
<1>6. /\ turn' \in [Requests -> TurnState] /\ turn'[r] = t
      /\ \A q \in Requests \ {r} : turn'[q] = turn[q]
  BY <1>1, <1>2, <1>3, OneChanges DEF TypeOK
<1>7. /\ wire' \in [Requests -> Seq(Event)]
      /\ \A q \in Requests \ {r} : wire'[q] = wire[q]
  <2>1. CASE client[r].kind = "plain"
    BY <1>1, <2>1 DEF TypeOK
  <2>2. CASE client[r].kind # "plain"
    <3>1. 0 \in 0 .. (MaxPieces + 1) /\ 0 \in 0 .. MaxPieces /\ Write(r, "start", 0, 0)
      BY <1>1, <2>2, InvokeAssumption
    <3>. QED
      BY <1>1, <3>1, WriteFacts
  <2>. QED
    BY <2>1, <2>2
<1>8. TypeOK'
  BY <1>1, <1>2, <1>5, <1>6, <1>7 DEF TypeOK
<1>9. \A q \in Requests \ {r} : RequestOk(q)'
  <2>1. \A q \in Requests \ {r} : Alone(q)
    BY <1>1, <1>2, <1>5, <1>6, <1>7, StoredSame DEF Alone
  <2>. QED
    BY <2>1, AloneOk DEF IInv
<1>10. \A x : Wrote(r, x) => Wrote(r, x)'
  BY <1>1, <1>2, WroteStays
<1>11. OnTheWay(r)'
  <2>1. CASE client[r].kind = "plain"
    <3>1. (\A j \in DOMAIN wire[r] : Wrote(r, wire[r][j]))'
      BY <1>1, <1>10, <2>1 DEF RequestOk, OnTheWay
    <3>. QED
      BY <1>1, <2>1, <3>1 DEF RequestOk, OnTheWay
  <2>2. CASE client[r].kind # "plain"
    <3>1. 0 \in 0 .. (MaxPieces + 1) /\ 0 \in 0 .. MaxPieces /\ Write(r, "start", 0, 0)
      BY <1>1, <2>2, InvokeAssumption
    <3>2. PICK e \in Event :
             /\ e.type = "start" /\ e.seq = 0
             /\ wire'[r] = IF link[r] = "open" THEN Append(wire[r], e) ELSE wire[r]
      BY <1>1, <3>1, WriteFacts
    <3>3. Wrote(r, e)'
      BY <1>1, <2>2, <3>2 DEF Wrote
    <3>4. thread'[r].seq = thread[r].seq + 1
      BY <1>2, <1>4, <1>5
    <3>5. client'[r] = client[r] /\ buffer'[r] = buffer[r] /\ link'[r] = link[r]
      BY <1>1
    <3>. QED
      BY <1>2, <1>10, <3>2, <3>3, <3>4, <3>5, OneMoreLine
  <2>. QED
    BY <2>1, <2>2
<1>12. Paced(r)'
  <2>1. link[r] # "none"
    BY <1>1 DEF RequestOk, Paced
  <2>. QED
    BY <1>1, <1>3, <1>4, <1>5, <1>6, <2>1 DEF Paced
<1>13. Kept(r)'
  BY <1>1, <1>2, <1>3, <1>6, StoredSame DEF RequestOk, Kept
<1>14. Told(r)'
  BY <1>1, <1>2 DEF RequestOk, Told, OverAt
<1>. QED
  BY <1>8, <1>9, <1>11, <1>12, <1>13, <1>14 DEF IInv, RequestOk

----------------------------------------------------------------------------
(***************************************************************************)
(* The caller's steps.                                                     *)
(***************************************************************************)

\* A step of one connection and its caller: the node and the thread are still.
LEMMA CallerMoves ==
    ASSUME IInv, NEW r \in Requests, UNCHANGED <<node, thread>>,
           failures' \in 0 .. MaxFailures,
           NEW q \in Seq(Event), wire' = [wire EXCEPT ![r] = q],
           NEW l \in {"open", "closed", "cut"}, link' = [link EXCEPT ![r] = l],
           NEW c \in ClientState, client' = [client EXCEPT ![r] = c],
           NEW b \in BufferState, buffer' = [buffer EXCEPT ![r] = b],
           l = "open" => link[r] = "open",
           OnTheWay(r)', Told(r)'
    PROVE  IInv'
<1>1. TypeOK /\ RequestOk(r) /\ UNCHANGED <<clock, messages, turn>>
  BY DEF IInv, node
<1>2. /\ wire' \in [Requests -> Seq(Event)] /\ wire'[r] = q
      /\ \A s \in Requests \ {r} : wire'[s] = wire[s]
  <2>1. wire \in [Requests -> Seq(Event)]
    BY <1>1 DEF TypeOK
  <2>. QED
    BY <2>1
<1>3. /\ link' \in [Requests -> {"none", "open", "closed", "cut"}] /\ link'[r] = l
      /\ \A s \in Requests \ {r} : link'[s] = link[s]
  <2>1. link \in [Requests -> {"none", "open", "closed", "cut"}]
    BY <1>1 DEF TypeOK
  <2>. QED
    BY <2>1
<1>4. /\ client' \in [Requests -> ClientState] /\ client'[r] = c
      /\ \A s \in Requests \ {r} : client'[s] = client[s]
  <2>1. client \in [Requests -> ClientState]
    BY <1>1 DEF TypeOK
  <2>. QED
    BY <2>1
<1>5. /\ buffer' \in [Requests -> BufferState] /\ buffer'[r] = b
      /\ \A s \in Requests \ {r} : buffer'[s] = buffer[s]
  <2>1. buffer \in [Requests -> BufferState]
    BY <1>1 DEF TypeOK
  <2>. QED
    BY <2>1
<1>6. TypeOK'
  BY <1>1, <1>2, <1>3, <1>4, <1>5 DEF TypeOK
<1>7. \A s \in Requests \ {r} : RequestOk(s)'
  <2>1. \A s \in Requests \ {r} : Alone(s)
    BY <1>1, <1>2, <1>3, <1>4, <1>5, StoredSame DEF Alone
  <2>. QED
    BY <2>1, AloneOk DEF IInv
<1>8. Paced(r)'
  <2>1. l # "none"
    OBVIOUS
  <2>. QED
    BY <1>1, <1>3, <2>1 DEF RequestOk, Paced
<1>9. Kept(r)'
  BY <1>1, StoredSame DEF RequestOk, Kept
<1>. QED
  BY <1>6, <1>7, <1>8, <1>9 DEF IInv, RequestOk

\* A caller that waits has a connection, and was told nothing yet.
LEMMA WaitsFacts ==
    ASSUME IInv, NEW r \in Requests, client[r].waiting
    PROVE  /\ TypeOK /\ RequestOk(r)
           /\ link[r] \in {"open", "closed", "cut"}
           /\ client[r].outcome = "none"
<1>1. TypeOK /\ RequestOk(r)
  BY DEF IInv
<1>2. link[r] # "none"
  BY <1>1 DEF RequestOk, Paced
<1>3. link[r] \in {"none", "open", "closed", "cut"}
  BY <1>1 DEF TypeOK
<1>4. client[r].outcome = "none"
  BY <1>1 DEF RequestOk, Told, OverAt
<1>. QED
  BY <1>1, <1>2, <1>3, <1>4

\* The record of a caller that is told an outcome.
Ended(x, got, o) == [x EXCEPT !.got = got, !.outcome = o, !.waiting = FALSE]

\* ... and its fields.
LEMMA EndedFields ==
    ASSUME NEW x \in ClientState, NEW got \in Lines, NEW o \in Outcomes
    PROVE  LET y == Ended(x, got, o)
           IN  /\ y \in ClientState
               /\ y.kind = x.kind /\ y.outcome = o /\ ~y.waiting /\ y.got = got
BY DEF ClientState, Lines, Ended

\* A caller is told the outcome with its hands full of what it had.
LEMMA EndOk ==
    ASSUME IInv, NEW r \in Requests, client[r].waiting,
           NEW got \in Lines, NEW o \in Outcomes \ {"none", "protocol"},
           End(r, got, o), UNCHANGED <<node, thread, buffer, failures>>,
           client[r].kind = "plain" => got = << >>,
           ~buffer[r].failed /\ client[r].kind # "plain" =>
              \A i \in DOMAIN got :
                 /\ got[i].whole /\ got[i].event.seq = i - 1
                 /\ Wrote(r, got[i].event),
           o = "done" =>
              /\ turn[r].pc = "returned"
              /\ client[r].kind = "stream" => Len(got) = turn[r].pieces + 2,
           o \in Alarms => OverAt(r),
           o = "ok" => client[r].kind = "device" /\ ~buffer[r].failed
    PROVE  IInv'
<1> DEFINE k == client[r].kind
           c == Ended(client[r], got, o)
<1>1. TypeOK /\ RequestOk(r) /\ link[r] \in {"open", "closed", "cut"}
  BY WaitsFacts
<1>2. UNCHANGED <<clock, messages, turn>>
  BY DEF node
<1>3. client[r] \in ClientState /\ o \in Outcomes
  BY <1>1, ClientFields
<1>4. /\ c \in ClientState
      /\ c.kind = k /\ c.outcome = o /\ ~c.waiting /\ c.got = got
  BY <1>3, EndedFields
<1>5. client' = [client EXCEPT ![r] = c]
  BY DEF End, Ended
<1>7. client'[r] = c
  BY <1>1, <1>4, <1>5 DEF TypeOK
<1>. HIDE DEF c
<1>8. link' = [link EXCEPT ![r] = "cut"] /\ link'[r] = "cut"
  BY <1>1 DEF End, TypeOK
<1>9. wire' = [wire EXCEPT ![r] = << >>] /\ wire'[r] = << >> /\ << >> \in Seq(Event)
  BY <1>1, EmptyFacts DEF End, TypeOK
<1>10. /\ buffer' = [buffer EXCEPT ![r] = buffer[r]] /\ buffer'[r] = buffer[r]
       /\ buffer[r] \in BufferState /\ failures' \in 0 .. MaxFailures
  BY <1>1 DEF TypeOK
<1>11. \A e : Wrote(r, e) => Wrote(r, e)'
  BY <1>2, <1>4, <1>7, WroteStays
<1>12. (\A j \in DOMAIN wire[r] : Wrote(r, wire[r][j]))'
  BY <1>9, EmptyFacts
<1>13. ~buffer[r].failed /\ k # "plain" => InHand(r)'
  <2>1. SUFFICES ASSUME ~buffer[r].failed /\ k # "plain" PROVE InHand(r)'
    OBVIOUS
  <2>2. InStep(wire[r], Len(client[r].got))'
    BY <1>9, EmptyFacts DEF InStep
  <2>3. (\A i \in DOMAIN client[r].got :
            /\ client[r].got[i].whole
            /\ client[r].got[i].event.seq = i - 1
            /\ Wrote(r, client[r].got[i].event))'
    BY <1>4, <1>7, <1>11, <2>1
  <2>. QED
    BY <1>8, <2>2, <2>3 DEF InHand
<1>14. OnTheWay(r)'
  BY <1>1, <1>4, <1>7, <1>10, <1>12, <1>13 DEF RequestOk, OnTheWay
<1>15. Told(r)'
  BY <1>2, <1>4, <1>7, <1>10 DEF Told, OverAt, Alarms
<1>16. "cut" \in {"open", "closed", "cut"} /\ UNCHANGED <<node, thread>>
  OBVIOUS
<1>. HIDE DEF k
<1>. QED
  BY <1>4, <1>5, <1>8, <1>9, <1>10, <1>14, <1>15, <1>16, CallerMoves

\* ... and of nothing more than it had.
LEMMA EndsAsIs ==
    ASSUME IInv, NEW r \in Requests, client[r].waiting,
           NEW o \in Outcomes \ {"none", "protocol", "done"},
           End(r, client[r].got, o), UNCHANGED <<node, thread, buffer, failures>>,
           o \in Alarms => OverAt(r),
           o = "ok" => client[r].kind = "device" /\ ~buffer[r].failed
    PROVE  IInv'
<1> DEFINE got == client[r].got
<1>1. TypeOK /\ OnTheWay(r)
  BY DEF IInv, RequestOk
<1>2. got \in Lines
  BY <1>1, ClientFields
<1>3. client[r].kind = "plain" => got = << >>
  BY <1>1 DEF OnTheWay
<1>4. ~buffer[r].failed /\ client[r].kind # "plain" =>
         \A i \in DOMAIN got :
            /\ got[i].whole /\ got[i].event.seq = i - 1
            /\ Wrote(r, got[i].event)
  BY <1>1 DEF OnTheWay, InHand
<1>5. o \in Outcomes \ {"none", "protocol"} /\ o # "done"
  OBVIOUS
<1>6. End(r, got, o)
  OBVIOUS
<1>. HIDE DEF got
<1>. QED
  BY <1>2, <1>3, <1>4, <1>5, <1>6, EndOk

\* The connection ends first.
LEMMA EndOfStreamOk ==
    ASSUME IInv, NEW r \in Requests, EndOfStream(r)
    PROVE  IInv'
<1>1. /\ client[r].waiting /\ End(r, client[r].got, "broken")
      /\ UNCHANGED <<node, thread, buffer, failures>>
  BY DEF EndOfStream, Waits
<1>2. "broken" \in Outcomes \ {"none", "protocol", "done"} /\ "broken" \notin Alarms
  BY DEF Outcomes, Alarms
<1>3. "broken" # "ok"
  OBVIOUS
<1>. QED
  BY <1>1, <1>2, <1>3, EndsAsIs

\* The socket timeout fires.
LEMMA TimeoutOk ==
    ASSUME IInv, NEW r \in Requests, Timeout(r)
    PROVE  IInv'
<1>1. /\ client[r].waiting /\ End(r, client[r].got, "timeout")
      /\ UNCHANGED <<node, thread, buffer, failures>>
  BY DEF Timeout
<1>2. "timeout" \in Outcomes \ {"none", "protocol", "done"} /\ "timeout" \notin Alarms
  BY DEF Outcomes, Alarms
<1>3. "timeout" # "ok"
  OBVIOUS
<1>. QED
  BY <1>1, <1>2, <1>3, EndsAsIs

\* The first line of the wire was written by the thread.
LEMMA FirstLine ==
    ASSUME IInv, NEW r \in Requests, wire[r] # << >>
    PROVE  /\ Head(wire[r]) \in Event /\ Wrote(r, Head(wire[r]))
           /\ ~buffer[r].failed /\ client[r].kind # "plain" =>
                 Head(wire[r]).seq = Len(client[r].got)
<1>1. TypeOK /\ OnTheWay(r)
  BY DEF IInv, RequestOk
<1>2. wire[r] \in Seq(Event)
  BY <1>1, WireFields
<1>3. 1 \in DOMAIN wire[r] /\ Head(wire[r]) = wire[r][1] /\ Head(wire[r]) \in Event
  BY <1>2, TailFacts
<1>4. Wrote(r, Head(wire[r]))
  BY <1>1, <1>3 DEF OnTheWay
<1>5. ASSUME ~buffer[r].failed /\ client[r].kind # "plain"
      PROVE  Head(wire[r]).seq = Len(client[r].got)
  <2>1. InStep(wire[r], Len(client[r].got))
    BY <1>1, <1>5 DEF OnTheWay, InHand
  <2>2. Head(wire[r]).seq = Len(client[r].got) + 1 - 1
    BY <1>3, <2>1 DEF InStep
  <2>3. Len(client[r].got) \in Nat
    BY <1>1, ClientFields
  <2>. QED
    BY <2>2, <2>3
<1>. QED
  BY <1>3, <1>4, <1>5

\* A caller may be told it was refused, or that it reads no events.
LEMMA RefusedIsOver ==
    ASSUME IInv, NEW r \in Requests, wire[r] # << >>,
           Head(wire[r]).type \in {"refused", "response"}
    PROVE  OverAt(r)
BY FirstLine DEF Wrote, OverAt

\* The plain call has its one line.
LEMMA ReadReplyOk ==
    ASSUME IInv, NEW r \in Requests, ReadReply(r)
    PROVE  IInv'
<1> DEFINE o == IF Head(wire[r]).type = "result" THEN "done" ELSE "refused"
<1>1. /\ client[r].waiting /\ client[r].kind = "plain" /\ wire[r] # << >>
      /\ End(r, << >>, o) /\ UNCHANGED <<node, thread, buffer, failures>>
  BY DEF ReadReply, Waits
<1>2. Wrote(r, Head(wire[r]))
  BY <1>1, FirstLine
<1>3. o = "done" => turn[r].pc = "returned"
  BY <1>1, <1>2 DEF Wrote
<1>4. o \in Alarms => OverAt(r)
  BY <1>1, <1>2 DEF Wrote, Alarms, OverAt
<1>5. o \in Outcomes \ {"none", "protocol"} /\ o # "ok"
  BY DEF Outcomes
<1>6. << >> \in Lines
  BY EmptyFacts DEF Lines
<1>. HIDE DEF o
<1>. QED
  BY <1>1, <1>3, <1>4, <1>5, <1>6, EndOk

\* What a caller holds with the line it takes.
LEMMA OneMoreHeld ==
    ASSUME IInv, NEW r \in Requests, wire[r] # << >>,
           ~buffer[r].failed, client[r].kind # "plain",
           NEW got, got = Append(client[r].got, [event |-> Head(wire[r]), whole |-> TRUE])
    PROVE  /\ got \in Lines /\ Len(got) = Len(client[r].got) + 1
           /\ \A i \in DOMAIN got :
                 /\ got[i].whole /\ got[i].event.seq = i - 1
                 /\ Wrote(r, got[i].event)
<1> DEFINE line == [event |-> Head(wire[r]), whole |-> TRUE]
           n == Len(client[r].got)
<1>1. TypeOK /\ OnTheWay(r)
  BY DEF IInv, RequestOk
<1>2. client[r].got \in Lines /\ n \in Nat
  BY <1>1, ClientFields
<1>3. Head(wire[r]) \in Event /\ Wrote(r, Head(wire[r])) /\ Head(wire[r]).seq = n
  BY FirstLine
<1>4. line \in [event : Event, whole : BOOLEAN]
  BY <1>3
<1>5. /\ got \in Lines /\ Len(got) = n + 1
      /\ \A j \in DOMAIN client[r].got : got[j] = client[r].got[j]
      /\ got[n + 1] = line
      /\ \A j \in DOMAIN got : j \in DOMAIN client[r].got \/ j = n + 1
  BY <1>2, <1>4, AppendFacts DEF Lines
<1>6. \A i \in DOMAIN client[r].got :
         /\ client[r].got[i].whole /\ client[r].got[i].event.seq = i - 1
         /\ Wrote(r, client[r].got[i].event)
  BY <1>1 DEF OnTheWay, InHand
<1>7. line.whole /\ line.event.seq = (n + 1) - 1 /\ Wrote(r, line.event)
  <2>1. (n + 1) - 1 = n
    BY <1>2
  <2>. QED
    BY <1>3, <2>1
<1>. HIDE DEF line, n
<1>8. ASSUME NEW i \in DOMAIN got
      PROVE  got[i].whole /\ got[i].event.seq = i - 1 /\ Wrote(r, got[i].event)
  <2>1. CASE i \in DOMAIN client[r].got
    BY <1>5, <1>6, <2>1
  <2>2. CASE i = n + 1
    BY <1>5, <1>7, <2>2
  <2>. QED
    BY <1>5, <1>8, <2>1, <2>2
<1>. QED
  BY <1>5, <1>8 DEF n

\* One line from the wire to the hand.
LEMMA Passes ==
    /\ \A a, b \in Nat : (a + 1) + (b - 1) = a + b
    /\ \A a, b \in Nat : a + (b + 1) - 1 = (a + 1) + b - 1
OBVIOUS

\* A line is taken: the rest follows it.
LEMMA LineTaken ==
    ASSUME IInv, NEW r \in Requests, client[r].waiting, wire[r] # << >>,
           UNCHANGED <<node, thread, link, failures>>,
           wire' = [wire EXCEPT ![r] = Tail(@)],
           NEW c \in ClientState, client' = [client EXCEPT ![r] = c],
           c.kind = client[r].kind, c.outcome = client[r].outcome,
           NEW b \in BufferState, buffer' = [buffer EXCEPT ![r] = b],
           b.failed = buffer[r].failed, ~b.failed => b.held = b.at /\ b.from = 0,
           c.kind # "plain",
           ~b.failed => c.got = Append(client[r].got, [event |-> Head(wire[r]), whole |-> TRUE])
    PROVE  IInv'
<1> DEFINE n == Len(client[r].got)
<1>1. TypeOK /\ RequestOk(r) /\ link[r] \in {"open", "closed", "cut"} /\ client[r].outcome = "none"
  BY WaitsFacts
<1>2. UNCHANGED <<clock, messages, turn>>
  BY DEF node
<1>3. wire[r] \in Seq(Event) /\ n \in Nat
  BY <1>1, WireFields, ClientFields
<1>4. /\ Tail(wire[r]) \in Seq(Event) /\ Len(Tail(wire[r])) = Len(wire[r]) - 1
      /\ Len(wire[r]) \in Nat
      /\ \A j \in DOMAIN Tail(wire[r]) :
            j \in Nat /\ j + 1 \in DOMAIN wire[r] /\ Tail(wire[r])[j] = wire[r][j + 1]
  BY <1>3, TailFacts
<1>5. wire' = [wire EXCEPT ![r] = Tail(wire[r])] /\ wire'[r] = Tail(wire[r])
  BY <1>1 DEF TypeOK
<1>6. client'[r] = c /\ buffer'[r] = b
  BY <1>1 DEF TypeOK
<1>7. \A e : Wrote(r, e) => Wrote(r, e)'
  BY <1>2, <1>6, WroteStays
<1>8. (\A j \in DOMAIN wire[r] : Wrote(r, wire[r][j]))'
  BY <1>1, <1>4, <1>5, <1>7 DEF RequestOk, OnTheWay
<1>9. ~b.failed => InHand(r)'
  <2>1. SUFFICES ASSUME ~b.failed PROVE InHand(r)'
    OBVIOUS
  <2>2. /\ Len(c.got) = n + 1
        /\ \A i \in DOMAIN c.got :
              c.got[i].whole /\ c.got[i].event.seq = i - 1 /\ Wrote(r, c.got[i].event)
    BY <2>1, OneMoreHeld
  <2>3. InHand(r)
    BY <1>1, <2>1 DEF RequestOk, OnTheWay
  <2>4. InStep(wire[r], Len(client[r].got))'
    <3>1. InStep(wire[r], n)
      BY <2>3 DEF InHand
    <3>2. \A j \in DOMAIN Tail(wire[r]) : Tail(wire[r])[j].seq = n + (j + 1) - 1
      BY <1>4, <3>1 DEF InStep
    <3>3. \A j \in Nat : n + (j + 1) - 1 = (n + 1) + j - 1
      BY <1>3, Passes
    <3>4. \A j \in DOMAIN Tail(wire[r]) : Tail(wire[r])[j].seq = (n + 1) + j - 1
      BY <1>4, <3>2, <3>3
    <3>5. InStep(Tail(wire[r]), n + 1)
      BY <3>4 DEF InStep
    <3>6. Len(client'[r].got) = n + 1
      BY <1>6, <2>2
    <3>7. InStep(wire'[r], Len(client'[r].got))
      BY <1>5, <3>5, <3>6
    <3>. QED
      BY <3>7
  <2>5. (\A i \in DOMAIN client[r].got :
            /\ client[r].got[i].whole
            /\ client[r].got[i].event.seq = i - 1
            /\ Wrote(r, client[r].got[i].event))'
    BY <1>6, <1>7, <2>2
  <2>6. (link[r] = "open" => Len(client[r].got) + Len(wire[r]) = thread[r].seq)'
    <3>1. link[r] = "open" => n + Len(wire[r]) = thread[r].seq
      BY <2>3 DEF InHand
    <3>2. (n + 1) + (Len(wire[r]) - 1) = n + Len(wire[r])
      BY <1>3, <1>4, Passes, Zenon
    <3>3. Len(client'[r].got) + Len(wire'[r]) = n + Len(wire[r])
      BY <1>4, <1>5, <1>6, <2>2, <3>2
    <3>. QED
      BY <3>1, <3>3
  <2>. QED
    BY <2>4, <2>5, <2>6 DEF InHand
<1>. HIDE DEF n
<1>10. OnTheWay(r)'
  BY <1>1, <1>6, <1>8, <1>9 DEF RequestOk, OnTheWay
<1>11. Told(r)'
  BY <1>1, <1>6 DEF Told, OverAt, Alarms
<1>12. link' = [link EXCEPT ![r] = link[r]] /\ failures' \in 0 .. MaxFailures
  BY <1>1 DEF TypeOK
<1>. QED
  BY <1>1, <1>4, <1>5, <1>10, <1>11, <1>12, CallerMoves

\* The event iterator takes a line.
LEMMA ReadEventOk ==
    ASSUME IInv, NEW r \in Requests, ReadEvent(r)
    PROVE  IInv'
<1> DEFINE e == Head(wire[r])
           got == Append(client[r].got, [event |-> e, whole |-> TRUE])
<1>1. /\ client[r].waiting /\ client[r].kind = "stream" /\ wire[r] # << >>
      /\ UNCHANGED <<node, thread, buffer, failures>>
  BY DEF ReadEvent, Waits
<1>2. TypeOK /\ RequestOk(r)
  BY DEF IInv
<1>3. ~buffer[r].failed
  BY <1>1, <1>2 DEF RequestOk, OnTheWay
<1>4. e \in Event /\ Wrote(r, e) /\ e.seq = Len(client[r].got)
  BY <1>1, <1>3, FirstLine
<1>5. /\ got \in Lines /\ Len(got) = Len(client[r].got) + 1
      /\ \A i \in DOMAIN got :
            got[i].whole /\ got[i].event.seq = i - 1 /\ Wrote(r, got[i].event)
  BY <1>1, <1>3, OneMoreHeld
<1>6. turn[r].pieces \in Nat /\ Len(client[r].got) \in Nat
  BY <1>2, TurnFields, ClientFields
<1>7. \/ e.type = "refused" /\ End(r, client[r].got, "refused")
      \/ e.type = "response" /\ End(r, client[r].got, "garbled")
      \/ e.type \notin {"refused", "response"} /\ ~Expected(r, e)
      \/ e.type \in {"done", "error"} /\ End(r, got, e.type)
      \/ /\ client' = [client EXCEPT ![r].got = got]
         /\ wire' = [wire EXCEPT ![r] = Tail(@)]
         /\ UNCHANGED link
  BY DEF ReadEvent
<1>. HIDE DEF e, got
<1>8. CASE e.type = "refused" /\ End(r, client[r].got, "refused")
  <2>1. "refused" \in Outcomes \ {"none", "protocol", "done"} /\ "refused" # "ok"
    BY DEF Outcomes
  <2>2. OverAt(r)
    BY <1>1, <1>8, RefusedIsOver DEF e
  <2>. QED
    BY <1>1, <1>8, <2>1, <2>2, EndsAsIs
<1>12. CASE e.type = "response" /\ End(r, client[r].got, "garbled")
  <2>1. "garbled" \in Outcomes \ {"none", "protocol", "done"} /\ "garbled" # "ok"
    BY DEF Outcomes
  <2>2. OverAt(r)
    BY <1>1, <1>12, RefusedIsOver DEF e
  <2>. QED
    BY <1>1, <1>12, <2>1, <2>2, EndsAsIs
<1>9. CASE e.type \notin {"refused", "response"} /\ ~Expected(r, e)
  <2>1. \/ e.type = "start" /\ e.seq = 0
        \/ e.type = "delta" /\ e.seq \in 1 .. turn[r].pieces
        \/ e.type = "done" /\ e.seq = turn[r].pieces + 1
        \/ e.type = "error" /\ e.seq = 1
    BY <1>1, <1>4, <1>9 DEF Wrote
  <2>2. IF e.seq = 0 THEN e.type = "start" ELSE e.type \in {"delta", "done", "error"}
    BY <1>6, <2>1
  <2>. QED
    BY <1>4, <1>9, <2>2 DEF Expected
<1>10. CASE e.type \in {"done", "error"} /\ End(r, got, e.type)
  <2>1. e.type \in Outcomes \ {"none", "protocol"} /\ e.type # "ok"
    BY <1>10 DEF Outcomes
  <2>2. e.type = "done" =>
           turn[r].pc = "returned" /\ Len(got) = turn[r].pieces + 2
    <3>1. SUFFICES ASSUME e.type = "done"
                   PROVE  turn[r].pc = "returned" /\ Len(got) = turn[r].pieces + 2
      OBVIOUS
    <3>2. turn[r].pc = "returned" /\ e.seq = turn[r].pieces + 1
      BY <1>1, <1>4, <3>1 DEF Wrote
    <3>3. (turn[r].pieces + 1) + 1 = turn[r].pieces + 2
      BY <1>6
    <3>. QED
      BY <1>4, <1>5, <3>2, <3>3
  <2>3. e.type = "error" => thread[r].pc = "over" /\ turn[r].pc = "raised"
    BY <1>1, <1>4 DEF Wrote
  <2>4. e.type \in Alarms => OverAt(r)
    BY <1>10, <2>3 DEF OverAt, Alarms
  <2>. QED
    BY <1>1, <1>5, <1>10, <2>1, <2>2, <2>4, EndOk
<1>11. CASE /\ client' = [client EXCEPT ![r].got = got]
            /\ wire' = [wire EXCEPT ![r] = Tail(@)]
            /\ UNCHANGED link
  <2> DEFINE c == [client[r] EXCEPT !.got = got]
  <2>1. client[r] \in ClientState
    BY <1>2, ClientFields
  <2>2. /\ c \in ClientState /\ c.kind = client[r].kind /\ c.outcome = client[r].outcome
        /\ c.got = got
    BY <1>5, <2>1 DEF ClientState, Lines
  <2>3. client' = [client EXCEPT ![r] = c]
    BY <1>11
  <2>. HIDE DEF c
  <2>4. /\ buffer' = [buffer EXCEPT ![r] = buffer[r]] /\ buffer[r] \in BufferState
        /\ buffer[r].held = buffer[r].at /\ buffer[r].from = 0
    BY <1>1, <1>2, <1>3 DEF TypeOK, RequestOk, OnTheWay
  <2>5. c.got = Append(client[r].got, [event |-> Head(wire[r]), whole |-> TRUE])
    BY <2>2 DEF got, e
  <2>6. c.kind # "plain"
    BY <1>1, <2>2
  <2>. QED
    BY <1>1, <1>11, <2>2, <2>3, <2>4, <2>5, <2>6, LineTaken
<1>. QED
  BY <1>7, <1>8, <1>9, <1>10, <1>11, <1>12

\* The device keeps a byte ...
LEMMA KeepByteOk ==
    ASSUME IInv, NEW r \in Requests, KeepByte(r)
    PROVE  IInv'
<1> DEFINE b == [buffer[r] EXCEPT !.at = @ + 1, !.held = @ + 1,
                    !.from = IF buffer[r].held = 0 THEN buffer[r].at ELSE @]
<1>1. /\ client[r].waiting /\ client[r].kind = "device" /\ buffer[r].held < Capacity - 1
      /\ buffer' = [buffer EXCEPT ![r] = b]
      /\ UNCHANGED <<node, thread, link, wire, client, failures>>
  BY DEF KeepByte, InLine, Waits
<1>2. TypeOK /\ RequestOk(r) /\ link[r] \in {"open", "closed", "cut"} /\ client[r].outcome = "none"
  BY <1>1, WaitsFacts
<1>3. /\ buffer[r] \in BufferState /\ buffer[r].at \in Nat /\ buffer[r].held \in Nat
      /\ buffer[r].from \in Nat /\ Capacity \in Nat
  BY <1>2, BufferFields, StreamAssumption
<1>4. buffer[r].held + 1 \in 0 .. (Capacity - 1) /\ buffer[r].at + 1 \in Nat
  BY <1>1, <1>3
<1>5. /\ b \in BufferState /\ b.failed = buffer[r].failed
      /\ b.at = buffer[r].at + 1 /\ b.held = buffer[r].held + 1
      /\ b.from = IF buffer[r].held = 0 THEN buffer[r].at ELSE buffer[r].from
  BY <1>3, <1>4 DEF BufferState
<1>. HIDE DEF b
<1>6. ~b.failed => b.held = b.at /\ b.from = 0
  <2>1. SUFFICES ASSUME ~b.failed PROVE b.held = b.at /\ b.from = 0
    OBVIOUS
  <2>2. buffer[r].held = buffer[r].at /\ buffer[r].from = 0
    BY <1>2, <1>5, <2>1 DEF RequestOk, OnTheWay
  <2>. QED
    BY <1>5, <2>2
<1>7. buffer'[r] = b /\ turn'[r] = turn[r]
  BY <1>1, <1>2 DEF TypeOK, node
<1>8. \A e : Wrote(r, e)' <=> Wrote(r, e)
  BY <1>1, <1>7 DEF Wrote
<1>9. OnTheWay(r)'
  <2>1. InHand(r) => InHand(r)'
    BY <1>1, <1>8 DEF InHand, InStep
  <2>2. (\A j \in DOMAIN wire[r] : Wrote(r, wire[r][j]))'
    BY <1>1, <1>2, <1>8 DEF RequestOk, OnTheWay
  <2>. QED
    BY <1>1, <1>2, <1>5, <1>6, <1>7, <2>1, <2>2 DEF RequestOk, OnTheWay
<1>10. Told(r)'
  BY <1>1, <1>2 DEF Told, OverAt, Alarms
<1>11. /\ wire[r] \in Seq(Event) /\ wire' = [wire EXCEPT ![r] = wire[r]]
       /\ link' = [link EXCEPT ![r] = link[r]]
       /\ client[r] \in ClientState /\ client' = [client EXCEPT ![r] = client[r]]
       /\ failures' \in 0 .. MaxFailures
  BY <1>1, <1>2 DEF TypeOK
<1>. QED
  BY <1>1, <1>2, <1>5, <1>9, <1>10, <1>11, CallerMoves

\* ... or drops what it holds and the rest of the fragment.
LEMMA OverflowOk ==
    ASSUME IInv, NEW r \in Requests, Overflow(r)
    PROVE  IInv'
<1>1. /\ client[r].waiting /\ client[r].kind = "device" /\ wire[r] # << >>
      /\ UNCHANGED <<node, thread, link, client, failures>>
  BY DEF Overflow, InLine, Waits
<1>2. TypeOK /\ RequestOk(r) /\ link[r] \in {"open", "closed", "cut"} /\ client[r].outcome = "none"
  BY <1>1, WaitsFacts
<1>3. PICK k \in 1 .. (Len(wire[r]) + 1), at \in 0 .. (Head(wire[r]).size + 1) :
         /\ wire' = [wire EXCEPT ![r] = SubSeq(wire[r], k, Len(wire[r]))]
         /\ buffer' = [buffer EXCEPT
               ![r] = [at |-> at, held |-> 0, from |-> 0, failed |-> TRUE]]
  BY DEF Overflow
<1> DEFINE b == [at |-> at, held |-> 0, from |-> 0, failed |-> TRUE]
           q == SubSeq(wire[r], k, Len(wire[r]))
<1>4. b \in BufferState /\ b.failed
  <2>1. at \in Nat
    OBVIOUS
  <2>2. 0 \in 0 .. (Capacity - 1)
    BY StreamAssumption
  <2>. QED
    BY <2>1, <2>2 DEF BufferState
<1>5. wire[r] \in Seq(Event)
  BY <1>2, WireFields
<1>6. q \in Seq(Event) /\ \A j \in DOMAIN q : \E i \in DOMAIN wire[r] : q[j] = wire[r][i]
  BY <1>5, SuffixFacts
<1>7. buffer' = [buffer EXCEPT ![r] = b] /\ wire' = [wire EXCEPT ![r] = q]
  BY <1>3
<1>. HIDE DEF b, q
<1>8. buffer'[r] = b /\ wire'[r] = q /\ turn'[r] = turn[r]
  BY <1>1, <1>2, <1>7 DEF TypeOK, node
<1>9. \A e : Wrote(r, e)' <=> Wrote(r, e)
  BY <1>1, <1>8 DEF Wrote
<1>10. (\A j \in DOMAIN wire[r] : Wrote(r, wire[r][j]))'
  <2>1. \A i \in DOMAIN wire[r] : Wrote(r, wire[r][i])
    BY <1>2 DEF RequestOk, OnTheWay
  <2>2. \A j \in DOMAIN q : Wrote(r, q[j])
    BY <1>6, <2>1
  <2>. QED
    BY <1>8, <1>9, <2>2
<1>11. OnTheWay(r)'
  BY <1>1, <1>4, <1>8, <1>10 DEF OnTheWay
<1>12. Told(r)'
  BY <1>1, <1>2 DEF Told, OverAt, Alarms
<1>13. /\ link' = [link EXCEPT ![r] = link[r]]
       /\ client[r] \in ClientState /\ client' = [client EXCEPT ![r] = client[r]]
       /\ failures' \in 0 .. MaxFailures
  BY <1>1, <1>2 DEF TypeOK
<1>. QED
  BY <1>1, <1>2, <1>4, <1>6, <1>7, <1>11, <1>12, <1>13, CallerMoves

\* A line ends: what the device holds is all of it, unless bytes were dropped.
LEMMA NewlineOk ==
    ASSUME IInv, NEW r \in Requests, Newline(r)
    PROVE  IInv'
<1> DEFINE e == Head(wire[r])
           line == [event |-> e, whole |-> buffer[r].from = 0 /\ buffer[r].held = e.size]
           c == IF buffer[r].held = 0 THEN client[r]
                ELSE [client[r] EXCEPT !.got = Append(@, line)]
           b == [buffer[r] EXCEPT !.at = 0, !.held = 0, !.from = 0]
<1>1. /\ client[r].waiting /\ client[r].kind = "device" /\ wire[r] # << >>
      /\ buffer[r].at = e.size
      /\ wire' = [wire EXCEPT ![r] = Tail(@)]
      /\ buffer' = [buffer EXCEPT ![r] = b]
      /\ UNCHANGED <<node, thread, link, failures>>
  BY DEF Newline, InLine, AtNewline, Waits
<1>2. TypeOK /\ RequestOk(r)
  BY DEF IInv
<1>3. /\ client[r] \in ClientState /\ client[r].got \in Lines
      /\ buffer[r] \in BufferState /\ buffer[r].held \in Nat
  BY <1>2, ClientFields, BufferFields
<1>4. e \in Event /\ e.size \in Nat \ {0}
  BY <1>1, FirstLine, EventFields
<1>5. line \in [event : Event, whole : BOOLEAN]
  BY <1>4
<1>6. Append(client[r].got, line) \in Lines
  BY <1>3, <1>5, AppendFacts DEF Lines
<1>7. /\ c \in ClientState /\ c.kind = client[r].kind /\ c.outcome = client[r].outcome
      /\ buffer[r].held # 0 => c.got = Append(client[r].got, line)
  <2>. HIDE DEF line
  <2>1. CASE buffer[r].held = 0
    BY <1>3, <2>1
  <2>2. CASE buffer[r].held # 0
    BY <1>3, <1>6, <2>2 DEF ClientState, Lines
  <2>. QED
    BY <2>1, <2>2
<1>8. client' = [client EXCEPT ![r] = c]
  <2>1. client' = IF buffer[r].held = 0 THEN client
                  ELSE [client EXCEPT ![r].got = Append(@, line)]
    BY DEF Newline
  <2>. HIDE DEF line
  <2>2. CASE buffer[r].held = 0
    BY <1>2, <2>1, <2>2 DEF TypeOK
  <2>3. CASE buffer[r].held # 0
    BY <2>1, <2>3
  <2>. QED
    BY <2>2, <2>3
<1>9. /\ b \in BufferState /\ b.failed = buffer[r].failed
      /\ b.held = 0 /\ b.at = 0 /\ b.from = 0
  <2>1. 0 \in 0 .. (Capacity - 1) /\ 0 \in Nat
    BY StreamAssumption
  <2>. QED
    BY <1>3, <2>1 DEF BufferState
<1>10. ~b.failed => c.got = Append(client[r].got, [event |-> Head(wire[r]), whole |-> TRUE])
  <2>1. SUFFICES ASSUME ~buffer[r].failed
                 PROVE  c.got = Append(client[r].got, [event |-> Head(wire[r]), whole |-> TRUE])
    BY <1>9
  <2>2. buffer[r].held = buffer[r].at /\ buffer[r].from = 0
    BY <1>2, <2>1 DEF RequestOk, OnTheWay
  <2>3. buffer[r].held # 0 /\ buffer[r].held = e.size
    BY <1>1, <1>4, <2>2
  <2>4. line = [event |-> Head(wire[r]), whole |-> TRUE]
    BY <2>2, <2>3
  <2>. HIDE DEF c, line, b
  <2>. QED
    BY <1>7, <2>3, <2>4
<1>. HIDE DEF c, b, line, e
<1>11. ~b.failed => b.held = b.at /\ b.from = 0
  BY <1>9
<1>12. c.kind # "plain"
  BY <1>1, <1>7
<1>. QED
  BY <1>1, <1>7, <1>8, <1>9, <1>10, <1>11, <1>12, LineTaken

\* esp_http_client_perform returns.
LEMMA PerformReturnsOk ==
    ASSUME IInv, NEW r \in Requests, PerformReturns(r)
    PROVE  IInv'
<1>1. /\ client[r].waiting /\ client[r].kind = "device"
      /\ UNCHANGED <<node, thread, buffer, failures>>
      /\ \/ ~buffer[r].failed /\ End(r, client[r].got, "ok")
         \/ End(r, client[r].got, "failed")
         \/ /\ wire[r] # << >> /\ Head(wire[r]).type = "refused"
            /\ End(r, client[r].got, "refused")
  BY DEF PerformReturns, Waits
<1>2. /\ {"ok", "failed", "refused"} \subseteq Outcomes \ {"none", "protocol", "done"}
      /\ "ok" \notin Alarms /\ "failed" \notin Alarms
      /\ "failed" # "ok" /\ "refused" # "ok"
  BY DEF Outcomes, Alarms
<1>3. CASE ~buffer[r].failed /\ End(r, client[r].got, "ok")
  BY <1>1, <1>2, <1>3, EndsAsIs
<1>4. CASE End(r, client[r].got, "failed")
  BY <1>1, <1>2, <1>4, EndsAsIs
<1>5. CASE /\ wire[r] # << >> /\ Head(wire[r]).type = "refused"
           /\ End(r, client[r].got, "refused")
  <2>1. OverAt(r)
    BY <1>5, RefusedIsOver
  <2>. QED
    BY <1>1, <1>2, <1>5, <2>1, EndsAsIs
<1>. QED
  BY <1>1, <1>3, <1>4, <1>5

----------------------------------------------------------------------------
(***************************************************************************)
(* Failures, new requests, and time.                                       *)
(***************************************************************************)

\* A connection breaks: what is left on it is a prefix.
LEMMA CutOk ==
    ASSUME IInv, NEW r \in Requests, Cut(r)
    PROVE  IInv'
<1>1. /\ client[r].waiting /\ failures < MaxFailures /\ failures' = failures + 1
      /\ link' = [link EXCEPT ![r] = "cut"]
      /\ UNCHANGED <<node, thread, client, buffer>>
  BY DEF Cut
<1>2. PICK k \in 0 .. Len(wire[r]) : wire' = [wire EXCEPT ![r] = SubSeq(wire[r], 1, k)]
  BY DEF Cut
<1> DEFINE q == SubSeq(wire[r], 1, k)
<1>3. TypeOK /\ RequestOk(r) /\ client[r].outcome = "none"
  BY <1>1, WaitsFacts
<1>4. wire[r] \in Seq(Event)
  BY <1>3, WireFields
<1>5. q \in Seq(Event) /\ \A j \in DOMAIN q : j \in DOMAIN wire[r] /\ q[j] = wire[r][j]
  BY <1>4, PrefixFacts
<1>6. wire' = [wire EXCEPT ![r] = q]
  BY <1>2
<1>. HIDE DEF q
<1>7. wire'[r] = q /\ link'[r] = "cut" /\ turn'[r] = turn[r]
  BY <1>1, <1>3, <1>6 DEF TypeOK, node
<1>8. \A e : Wrote(r, e)' <=> Wrote(r, e)
  BY <1>1, <1>7 DEF Wrote
<1>9. (\A j \in DOMAIN wire[r] : Wrote(r, wire[r][j]))'
  <2>1. \A j \in DOMAIN q : Wrote(r, q[j])
    BY <1>3, <1>5 DEF RequestOk, OnTheWay
  <2>. QED
    BY <1>7, <1>8, <2>1
<1>10. InHand(r) => InHand(r)'
  BY <1>1, <1>5, <1>7, <1>8 DEF InHand, InStep
<1>11. OnTheWay(r)'
  BY <1>1, <1>3, <1>9, <1>10 DEF RequestOk, OnTheWay
<1>12. Told(r)'
  BY <1>1, <1>3 DEF Told, OverAt, Alarms
<1>13. failures' \in 0 .. MaxFailures
  BY <1>1, <1>3, StreamAssumption DEF TypeOK
<1>14. /\ client[r] \in ClientState /\ client' = [client EXCEPT ![r] = client[r]]
       /\ buffer[r] \in BufferState /\ buffer' = [buffer EXCEPT ![r] = buffer[r]]
       /\ "cut" \in {"open", "closed", "cut"}
  BY <1>1, <1>3 DEF TypeOK
<1>15. "cut" # "open" /\ UNCHANGED <<node, thread>>
  BY <1>1
<1>. QED
  BY <1>1, <1>5, <1>6, <1>11, <1>12, <1>13, <1>14, <1>15, CallerMoves

\* The node is killed: every thread is over, every open connection closed.
LEMMA KilledOk ==
    ASSUME IInv, Killed
    PROVE  IInv'
<1>1. /\ thread' = [r \in Requests |->
            IF thread[r].pc = "none" THEN thread[r] ELSE [thread[r] EXCEPT !.pc = "over"]]
      /\ link' = [r \in Requests |-> IF link[r] = "open" THEN "closed" ELSE link[r]]
      /\ failures < MaxFailures /\ failures' = failures + 1
      /\ UNCHANGED <<node, wire, client, buffer>>
  BY DEF Killed
<1>2. TypeOK /\ UNCHANGED <<clock, messages, turn>>
  BY <1>1 DEF IInv, node
<1>3. \A r \in Requests :
         /\ thread'[r] \in ThreadState /\ thread'[r].seq = thread[r].seq
         /\ thread'[r].pc = IF thread[r].pc = "none" THEN "none" ELSE "over"
  <2>1. ASSUME NEW r \in Requests
        PROVE  /\ thread'[r] \in ThreadState /\ thread'[r].seq = thread[r].seq
               /\ thread'[r].pc = IF thread[r].pc = "none" THEN "none" ELSE "over"
    <3> DEFINE s == [thread[r] EXCEPT !.pc = "over"]
    <3>1. thread[r] \in ThreadState
      BY <1>2, ThreadFields
    <3>2. s \in ThreadState /\ s.seq = thread[r].seq /\ s.pc = "over"
      BY <3>1 DEF ThreadState
    <3>3. thread'[r] = IF thread[r].pc = "none" THEN thread[r] ELSE s
      BY <1>1
    <3>. HIDE DEF s
    <3>. QED
      BY <3>1, <3>2, <3>3
  <2>. QED
    BY <2>1
<1>4. \A r \in Requests :
         /\ link'[r] \in {"none", "closed", "cut"}
         /\ link'[r] = "none" <=> link[r] = "none"
  BY <1>1, <1>2 DEF TypeOK
<1>5. failures' \in 0 .. MaxFailures
  BY <1>1, <1>2, StreamAssumption DEF TypeOK
<1>6. TypeOK'
  <2>1. thread' \in [Requests -> ThreadState]
    BY <1>1, <1>3
  <2>2. link' \in [Requests -> {"none", "open", "closed", "cut"}]
    BY <1>1, <1>4
  <2>. QED
    BY <1>1, <1>2, <1>5, <2>1, <2>2 DEF TypeOK
<1>7. ASSUME NEW r \in Requests
      PROVE  RequestOk(r)'
  <2>1. RequestOk(r)
    BY DEF IInv
  <2>2. /\ thread'[r].pc = IF thread[r].pc = "none" THEN "none" ELSE "over"
        /\ thread'[r].seq = thread[r].seq
        /\ link'[r] \in {"none", "closed", "cut"} /\ (link'[r] = "none" <=> link[r] = "none")
    BY <1>3, <1>4
  <2>3. \A e : Wrote(r, e) => Wrote(r, e)'
    BY <1>1, <1>2, <2>2, WroteStays
  <2>4. Paced(r)'
    BY <1>1, <1>2, <2>1, <2>2 DEF RequestOk, Paced
  <2>5. Kept(r)'
    BY <1>2, <2>1, StoredSame DEF RequestOk, Kept
  <2>6. InHand(r) => InHand(r)'
    BY <1>1, <2>2, <2>3 DEF InHand, InStep
  <2>7. (\A j \in DOMAIN wire[r] : Wrote(r, wire[r][j]))'
    BY <1>1, <2>1, <2>3 DEF RequestOk, OnTheWay
  <2>8. OnTheWay(r)'
    BY <1>1, <2>1, <2>6, <2>7 DEF RequestOk, OnTheWay
  <2>9. Told(r)'
    BY <1>1, <1>2, <2>1, <2>2 DEF RequestOk, Told, OverAt
  <2>. QED
    BY <2>4, <2>5, <2>8, <2>9 DEF RequestOk
<1>. QED
  BY <1>6, <1>7 DEF IInv

\* A caller connects: its connection carries nothing yet.
LEMMA RequestStep ==
    ASSUME IInv, NEW r \in Requests, NEW kind \in KindsOf[r], Request(r, kind)
    PROVE  IInv'
<1> DEFINE s == [thread[r] EXCEPT !.pc = "accepted"]
           c == [client[r] EXCEPT !.kind = kind, !.waiting = TRUE]
<1>1. /\ link[r] = "none" /\ link' = [link EXCEPT ![r] = "open"]
      /\ thread' = [thread EXCEPT ![r] = s]
      /\ client' = [client EXCEPT ![r] = c]
      /\ UNCHANGED <<node, wire, buffer, failures>>
  BY DEF Request
<1>2. TypeOK /\ RequestOk(r) /\ UNCHANGED <<clock, messages, turn>>
  BY <1>1 DEF IInv, node
<1>3. /\ thread[r].pc = "none" /\ wire[r] = << >> /\ client[r].got = << >>
      /\ client[r].outcome = "none"
      /\ buffer[r] = [at |-> 0, held |-> 0, from |-> 0, failed |-> FALSE]
      /\ turn[r].pc = "idle" /\ thread[r].seq = 0
  BY <1>1, <1>2 DEF RequestOk, Paced
<1>4. thread[r] \in ThreadState /\ client[r] \in ClientState /\ kind \in Kinds
  BY <1>2, ThreadFields, ClientFields, StreamAssumption
<1>5. s \in ThreadState /\ s.pc = "accepted" /\ s.seq = 0
  BY <1>3, <1>4 DEF ThreadState
<1>6. /\ c \in ClientState /\ c.kind = kind /\ c.outcome = "none" /\ c.got = << >>
  BY <1>3, <1>4 DEF ClientState
<1>. HIDE DEF s, c
<1>7. /\ thread' \in [Requests -> ThreadState] /\ thread'[r] = s
      /\ \A q \in Requests \ {r} : thread'[q] = thread[q]
  <2>1. thread \in [Requests -> ThreadState]
    BY <1>2 DEF TypeOK
  <2>. QED
    BY <1>1, <1>5, <2>1
<1>8. /\ client' \in [Requests -> ClientState] /\ client'[r] = c
      /\ \A q \in Requests \ {r} : client'[q] = client[q]
  <2>1. client \in [Requests -> ClientState]
    BY <1>2 DEF TypeOK
  <2>. QED
    BY <1>1, <1>6, <2>1
<1>9. /\ link' \in [Requests -> {"none", "open", "closed", "cut"}] /\ link'[r] = "open"
      /\ \A q \in Requests \ {r} : link'[q] = link[q]
  <2>1. link \in [Requests -> {"none", "open", "closed", "cut"}]
    BY <1>2 DEF TypeOK
  <2>. QED
    BY <1>1, <2>1
<1>10. TypeOK'
  BY <1>1, <1>2, <1>7, <1>8, <1>9 DEF TypeOK
<1>11. \A q \in Requests \ {r} : RequestOk(q)'
  <2>1. \A q \in Requests \ {r} : Alone(q)
    BY <1>1, <1>2, <1>7, <1>8, <1>9, StoredSame DEF Alone
  <2>. QED
    BY <2>1, AloneOk DEF IInv
<1>12. Paced(r)'
  BY <1>2, <1>3, <1>5, <1>7, <1>9 DEF Paced
<1>13. Kept(r)'
  BY <1>2, StoredSame DEF RequestOk, Kept
<1>14. wire'[r] = << >> /\ client'[r].got = << >>
  BY <1>1, <1>3, <1>6, <1>8
<1>15. (\A j \in DOMAIN wire[r] : Wrote(r, wire[r][j]))'
  BY <1>14, EmptyFacts
<1>16. InHand(r)'
  <2>1. InStep(wire[r], Len(client[r].got))'
    BY <1>14, EmptyFacts DEF InStep
  <2>2. (\A i \in DOMAIN client[r].got :
            /\ client[r].got[i].whole
            /\ client[r].got[i].event.seq = i - 1
            /\ Wrote(r, client[r].got[i].event))'
    BY <1>14, EmptyFacts
  <2>3. Len(client'[r].got) + Len(wire'[r]) = thread'[r].seq
    BY <1>5, <1>7, <1>14, EmptyFacts
  <2>. QED
    BY <2>1, <2>2, <2>3 DEF InHand
<1>17. OnTheWay(r)'
  <2>1. buffer'[r].held = 0 /\ buffer'[r].at = 0 /\ buffer'[r].from = 0 /\ ~buffer'[r].failed
    BY <1>1, <1>3
  <2>. QED
    BY <1>14, <1>15, <1>16, <2>1 DEF OnTheWay
<1>18. Told(r)'
  BY <1>6, <1>8 DEF Told, OverAt, Alarms
<1>. QED
  BY <1>10, <1>11, <1>12, <1>13, <1>17, <1>18 DEF IInv, RequestOk

\* A second passes, or nothing happens.
LEMMA QuietStep ==
    ASSUME IInv, UNCHANGED <<messages, turn, transport>>, clock' \in 0 .. Horizon
    PROVE  IInv'
<1>1. UNCHANGED <<thread, link, wire, client, buffer, failures>>
  BY DEF transport
<1>2. TypeOK'
  BY <1>1 DEF IInv, TypeOK
<1>3. \A r \in Requests : Alone(r)
  BY <1>1, StoredSame DEF Alone
<1>. QED
  BY <1>2, <1>3, AloneOk DEF IInv

----------------------------------------------------------------------------
(***************************************************************************)
(* The theorems.                                                           *)
(***************************************************************************)

\* Before any request.
LEMMA InvInit == Init => IInv
<1>. SUFFICES ASSUME Init PROVE IInv
  OBVIOUS
<1> DEFINE t == [pc |-> "idle", stamp |-> 0, prompt |-> << >>, pieces |-> 0]
           s == [pc |-> "none", seq |-> 0]
           c == [kind |-> "plain", outcome |-> "none", waiting |-> FALSE, got |-> << >>]
           b == [at |-> 0, held |-> 0, from |-> 0, failed |-> FALSE]
<1>1. /\ clock = 0 /\ messages = << >> /\ turn = [r \in Requests |-> t]
      /\ thread = [r \in Requests |-> s] /\ link = [r \in Requests |-> "none"]
      /\ wire = [r \in Requests |-> << >>] /\ client = [r \in Requests |-> c]
      /\ buffer = [r \in Requests |-> b] /\ failures = 0
  BY DEF Init, NodeInit
<1>2. t \in TurnState
  BY InvokeAssumption, EmptyFacts DEF TurnState, Places
<1>3. s \in ThreadState
  BY InvokeAssumption DEF ThreadState
<1>4. c \in ClientState
  BY EmptyFacts DEF ClientState, Kinds, Outcomes
<1>5. b \in BufferState
  BY StreamAssumption DEF BufferState
<1>6. /\ t.pc = "idle" /\ s.pc = "none" /\ s.seq = 0
      /\ c.kind = "plain" /\ c.outcome = "none" /\ ~c.waiting /\ c.got = << >>
      /\ b.at = 0 /\ b.held = 0 /\ b.from = 0 /\ ~b.failed
  OBVIOUS
<1>7. b = [at |-> 0, held |-> 0, from |-> 0, failed |-> FALSE]
  OBVIOUS
<1>. HIDE DEF t, s, c, b
<1>8. TypeOK
  <2>1. clock \in 0 .. Horizon /\ failures \in 0 .. MaxFailures
    BY <1>1, InvokeAssumption, StreamAssumption
  <2>2. messages \in Seq(Turns) /\ wire \in [Requests -> Seq(Event)]
    BY <1>1, EmptyFacts
  <2>3. turn \in [Requests -> TurnState] /\ thread \in [Requests -> ThreadState]
    BY <1>1, <1>2, <1>3
  <2>4. client \in [Requests -> ClientState] /\ buffer \in [Requests -> BufferState]
    BY <1>1, <1>4, <1>5
  <2>5. link \in [Requests -> {"none", "open", "closed", "cut"}]
    BY <1>1
  <2>. QED
    BY <2>1, <2>2, <2>3, <2>4, <2>5 DEF TypeOK
<1>9. ASSUME NEW r \in Requests
      PROVE  RequestOk(r)
  <2>1. /\ turn[r] = t /\ thread[r] = s /\ link[r] = "none" /\ wire[r] = << >>
        /\ client[r] = c /\ buffer[r] = b
    BY <1>1
  <2>2. Paced(r)
    BY <1>6, <1>7, <2>1 DEF Paced
  <2>3. \A role : ~Stored(r, role)
    BY <1>1, EmptyFacts DEF Stored
  <2>4. Kept(r)
    BY <1>6, <2>1, <2>3 DEF Kept
  <2>5. OnTheWay(r)
    BY <1>6, <2>1, EmptyFacts DEF OnTheWay
  <2>6. Told(r)
    BY <1>6, <2>1 DEF Told, OverAt, Alarms
  <2>. QED
    BY <2>2, <2>4, <2>5, <2>6 DEF RequestOk
<1>. QED
  BY <1>8, <1>9 DEF IInv

\* Every step keeps the invariant: one case for each action.
LEMMA InvStep == IInv /\ [Next]_vars => IInv'
<1>. SUFFICES ASSUME IInv, [Next]_vars PROVE IInv'
  OBVIOUS
<1>1. ASSUME NEW r \in Requests, NEW kind \in KindsOf[r], Request(r, kind)
      PROVE  IInv'
  BY <1>1, RequestStep
<1>2. ASSUME NEW r \in Requests, ThreadStep(r)
      PROVE  IInv'
  <2>1. CASE Refuse(r)
    BY <2>1, RefuseOk
  <2>2. CASE Accept(r)
    BY <2>2, AcceptOk
  <2>3. CASE Invoke(r)
    BY <2>3, InvokeOk
  <2>4. CASE EmitDelta(r)
    BY <2>4, EmitDeltaOk
  <2>5. CASE EmitDone(r)
    BY <2>5, EmitDoneOk
  <2>6. CASE EmitError(r)
    BY <2>6, EmitErrorOk
  <2>7. CASE Reply(r)
    BY <2>7, ReplyOk
  <2>8. CASE BrokenPipe(r)
    BY <2>8, BrokenPipeOk
  <2>9. CASE StartFails(r)
    BY <2>9, StartFailsOk
  <2>. QED
    BY <1>2, <2>9, <2>1, <2>2, <2>3, <2>4, <2>5, <2>6, <2>7, <2>8 DEF ThreadStep
<1>3. ASSUME NEW r \in Requests, ClientStep(r)
      PROVE  IInv'
  <2>1. CASE ReadEvent(r)
    BY <2>1, ReadEventOk
  <2>2. CASE ReadReply(r)
    BY <2>2, ReadReplyOk
  <2>3. CASE EndOfStream(r)
    BY <2>3, EndOfStreamOk
  <2>4. CASE Timeout(r)
    BY <2>4, TimeoutOk
  <2>5. CASE KeepByte(r)
    BY <2>5, KeepByteOk
  <2>6. CASE Overflow(r)
    BY <2>6, OverflowOk
  <2>7. CASE Newline(r)
    BY <2>7, NewlineOk
  <2>8. CASE PerformReturns(r)
    BY <2>8, PerformReturnsOk
  <2>. QED
    BY <1>3, <2>1, <2>2, <2>3, <2>4, <2>5, <2>6, <2>7, <2>8 DEF ClientStep
<1>4. ASSUME NEW r \in Requests, Cut(r)
      PROVE  IInv'
  BY <1>4, CutOk
<1>5. CASE Killed
  BY <1>5, KilledOk
<1>6. CASE Tick /\ UNCHANGED transport
  <2>1. UNCHANGED <<messages, turn>> /\ clock' = clock + 1 /\ clock < Horizon
    BY <1>6 DEF Tick
  <2>2. clock' \in 0 .. Horizon
    BY <2>1, InvokeAssumption DEF IInv, TypeOK
  <2>. QED
    BY <1>6, <2>1, <2>2, QuietStep
<1>7. CASE UNCHANGED vars
  <2>1. UNCHANGED <<clock, messages, turn, transport>>
    BY <1>7 DEF vars, node
  <2>2. clock' \in 0 .. Horizon
    BY <2>1 DEF IInv, TypeOK
  <2>. QED
    BY <2>1, <2>2, QuietStep
<1>. QED
  BY <1>1, <1>2, <1>3, <1>4, <1>5, <1>6, <1>7 DEF Next

\* The invariant of every behaviour.
LEMMA InvHolds == Spec => []IInv
BY InvInit, InvStep, PTL DEF Spec

\* Every variable has its type, and the device's buffer keeps room for the
\* final 0 (shufu_stream.c), for every size of a line and of the buffer.
THEOREM TypeCorrect == Spec => []TypeOK
<1>1. IInv => TypeOK
  BY DEF IInv
<1>. QED
  BY <1>1, InvHolds, PTL

\* No event that service._stream_invoke writes is one that
\* client.invoke_stream refuses, whatever fails in the node and when.
THEOREM StreamIsAccepted == Spec => []StreamAccepted
<1>1. IInv => StreamAccepted
  BY DEF IInv, RequestOk, Told, StreamAccepted
<1>. QED
  BY <1>1, InvHolds, PTL

\* A caller told "done" holds every piece in its place, and the question and
\* the answer are stored.
THEOREM AnswersAreWhole == Spec => []WholeAnswer
<1>1. ASSUME IInv
      PROVE  WholeAnswer
  <2>1. SUFFICES ASSUME NEW r \in Requests, client[r].outcome = "done"
                 PROVE  /\ Stored(r, "user") /\ Stored(r, "assistant")
                        /\ client[r].kind = "stream" =>
                              /\ Len(client[r].got) = turn[r].pieces + 2
                              /\ \A i \in 1..turn[r].pieces : client[r].got[i + 1].event.piece = i
    BY DEF WholeAnswer
  <2>2. TypeOK /\ RequestOk(r)
    BY <1>1 DEF IInv
  <2>3. /\ turn[r].pc = "returned"
        /\ client[r].kind = "stream" => Len(client[r].got) = turn[r].pieces + 2
    BY <2>1, <2>2 DEF RequestOk, Told, OverAt
  <2>4. Stored(r, "user") /\ Stored(r, "assistant")
    BY <2>2, <2>3 DEF RequestOk, Kept
  <2>5. ASSUME client[r].kind = "stream", NEW i \in 1 .. turn[r].pieces
        PROVE  client[r].got[i + 1].event.piece = i
    <3>1. InHand(r)
      BY <2>2, <2>5 DEF RequestOk, OnTheWay
    <3>2. turn[r].pieces \in Nat /\ DOMAIN client[r].got = 1 .. (turn[r].pieces + 2)
      BY <2>2, <2>3, <2>5, TurnFields, ClientFields
    <3>3. i \in Nat /\ i # 0 /\ i # turn[r].pieces + 1 /\ i + 1 \in 1 .. (turn[r].pieces + 2)
          /\ (i + 1) - 1 = i
      BY <3>2
    <3>4. /\ client[r].got[i + 1].event.seq = i
          /\ Wrote(r, client[r].got[i + 1].event)
      BY <3>1, <3>2, <3>3 DEF InHand
    <3>. QED
      BY <2>3, <2>5, <3>3, <3>4 DEF Wrote
  <2>. QED
    BY <2>3, <2>4, <2>5
<1>. QED
  BY <1>1, InvHolds, PTL

\* After an error the session holds no answer of a streamed call, and will hold
\* none: its thread is over (service._stream_invoke, 142-174).
THEOREM FailuresLeaveNoAnswer == Spec => []FailureLeavesNoAnswer
<1>1. IInv => FailureLeavesNoAnswer
  BY DEF IInv, RequestOk, Told, Kept, FailureLeavesNoAnswer, Alarms, OverAt
<1>. QED
  BY <1>1, InvHolds, PTL

\* ESP_OK: the lines delivered are the first ones the node wrote, whole and in
\* order, however long they are and however the bytes came.
THEOREM DeviceIsExact == Spec => []DeviceExact
<1>1. ASSUME IInv
      PROVE  DeviceExact
  <2>1. SUFFICES ASSUME NEW r \in Requests, client[r].outcome = "ok"
                 PROVE  \A i \in DOMAIN client[r].got :
                           client[r].got[i].whole /\ client[r].got[i].event.seq = i - 1
    BY DEF DeviceExact
  <2>2. client[r].kind = "device" /\ ~buffer[r].failed
    BY <1>1, <2>1 DEF IInv, RequestOk, Told
  <2>3. InHand(r)
    BY <1>1, <2>2 DEF IInv, RequestOk, OnTheWay
  <2>. QED
    BY <2>3 DEF InHand
<1>. QED
  BY <1>1, InvHolds, PTL
=============================================================================
