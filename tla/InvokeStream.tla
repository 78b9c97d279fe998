---------------------------- MODULE InvokeStream ----------------------------
(***************************************************************************)
(* An invocation over HTTP: the request thread that runs NodeInvoke and    *)
(* writes NDJSON events or one reply (service._stream_invoke, do_POST), a  *)
(* connection that may break anywhere, and its client: the Python event    *)
(* iterator (client.invoke_stream), the plain call (client.invoke) or the  *)
(* ESP32 component with its fixed line buffer (shufu_client.c,             *)
(* shufu_stream.c).  The request_id is left out: it is one per connection. *)
(***************************************************************************)
EXTENDS NodeInvoke

CONSTANTS
    KindsOf,      \* the clients an invocation may come from
    Sizes,        \* bytes of a line, its newline not counted
    Capacity,     \* SHUFU_STREAM_LINE_CAPACITY
    MaxFailures   \* broken connections and killed nodes in a behaviour

Kinds == {"stream", "plain", "device"}

ASSUME StreamAssumption ==
    /\ KindsOf \in [Requests -> SUBSET Kinds]
    /\ Sizes \subseteq Nat \ {0}
    /\ 1 \in Sizes
    /\ Capacity \in Nat \ {0, 1}
    /\ MaxFailures \in Nat

VARIABLES
    thread,       \* thread[r]: the request thread
    link,         \* link[r]: the connection
    wire,         \* wire[r]: the lines written and not read yet
    client,       \* client[r]: what the caller has seen
    buffer,       \* buffer[r]: the device's parser
    failures

transport == <<thread, link, wire, client, buffer, failures>>
vars == <<node, transport>>

\* "response": the 400 that is written into the body of a response already begun;
\* one line stands for all of it.
Event == [type : {"start", "delta", "done", "error", "result", "refused", "response"},
          seq : 0..(MaxPieces + 1), piece : 0..MaxPieces, size : Sizes]

Outcomes == {"none", "done", "error", "refused", "broken", "timeout", "protocol",
             "garbled", "ok", "failed"}

\* seq: the sequence of the next event.
ThreadState == [pc : {"none", "accepted", "running", "over"}, seq : 0..(MaxPieces + 1)]

\* got: the events yielded or the lines delivered; whole: not the tail of a line.
ClientState == [kind : Kinds, outcome : Outcomes, waiting : BOOLEAN,
                got : Seq([event : Event, whole : BOOLEAN])]

\* at: bytes read of the line at the head of the wire; held: parser->length;
\* from: where in the line the held bytes begin; failed: parser_result.
BufferState == [at : Nat, held : 0..(Capacity - 1), from : Nat, failed : BOOLEAN]

Init ==
    /\ NodeInit
    /\ thread = [r \in Requests |-> [pc |-> "none", seq |-> 0]]
    /\ link = [r \in Requests |-> "none"]
    /\ wire = [r \in Requests |-> << >>]
    /\ client = [r \in Requests |->
          [kind |-> "plain", outcome |-> "none", waiting |-> FALSE, got |-> << >>]]
    /\ buffer = [r \in Requests |->
          [at |-> 0, held |-> 0, from |-> 0, failed |-> FALSE]]
    /\ failures = 0

-----------------------------------------------------------------------------
(* The request thread.                                                      *)

Request(r, kind) ==
    /\ link[r] = "none"
    /\ link' = [link EXCEPT ![r] = "open"]
    /\ thread' = [thread EXCEPT ![r].pc = "accepted"]
    /\ client' = [client EXCEPT ![r].kind = kind, ![r].waiting = TRUE]
    /\ UNCHANGED <<node, wire, buffer, failures>>

\* Written into a connection that is gone, an event is lost.
Write(r, type, seq, piece) ==
    \E size \in IF client[r].kind = "device" THEN Sizes ELSE {1} :
        wire' = IF link[r] = "open"
                THEN [wire EXCEPT ![r] = Append(@,
                        [type |-> type, seq |-> seq, piece |-> piece, size |-> size])]
                ELSE wire

\* The response ends with its connection.
Close(r) ==
    /\ thread' = [thread EXCEPT ![r].pc = "over"]
    /\ link' = [link EXCEPT ![r] = IF @ = "open" THEN "closed" ELSE @]

\* 400 or 401, before anything is stored.
Refuse(r) ==
    /\ thread[r].pc = "accepted"
    /\ Write(r, "refused", 0, 0)
    /\ Close(r)
    /\ UNCHANGED <<node, client, buffer, failures>>

\* The start event cannot be encoded, its model or session_id holding a lone
\* surrogate: the ValueError is answered with a 400 behind the headers of the 200.
StartFails(r) ==
    /\ thread[r].pc = "accepted"
    /\ client[r].kind # "plain"
    /\ Write(r, "response", 0, 0)
    /\ Close(r)
    /\ UNCHANGED <<node, client, buffer, failures>>

\* The start event precedes the invocation.
Accept(r) ==
    /\ thread[r].pc = "accepted"
    /\ Begin(r)
    /\ IF client[r].kind = "plain" THEN UNCHANGED wire ELSE Write(r, "start", 0, 0)
    /\ thread' = [thread EXCEPT ![r] = [pc |-> "running", seq |-> 1]]
    /\ UNCHANGED <<link, client, buffer, failures>>

Invoke(r) ==
    /\ thread[r].pc = "running"
    /\ InvokeStep(r)
    /\ UNCHANGED transport

\* A mutant of EmitDelta: deltas leave while the answer is being stored.
EmitDeltaEarly(r) ==
    /\ thread[r].pc = "running"
    /\ turn[r].pc \in {"answered", "restamped", "returned"}
    /\ client[r].kind # "plain"
    /\ thread[r].seq <= turn[r].pieces
    /\ Write(r, "delta", thread[r].seq, thread[r].seq)
    /\ thread' = [thread EXCEPT ![r].seq = @ + 1]
    /\ UNCHANGED <<node, link, client, buffer, failures>>

\* One chunk of the stored answer.
EmitDelta(r) ==
    /\ thread[r].pc = "running"
    /\ turn[r].pc = "returned"
    /\ client[r].kind # "plain"
    /\ thread[r].seq <= turn[r].pieces
    /\ Write(r, "delta", thread[r].seq, thread[r].seq)
    /\ thread' = [thread EXCEPT ![r].seq = @ + 1]
    /\ UNCHANGED <<node, link, client, buffer, failures>>

\* A mutant of EmitDone: the last piece is left out.
EmitDoneShort(r) ==
    /\ thread[r].pc = "running"
    /\ turn[r].pc = "returned"
    /\ client[r].kind # "plain"
    /\ thread[r].seq >= turn[r].pieces
    /\ Write(r, "done", thread[r].seq, 0)
    /\ Close(r)
    /\ UNCHANGED <<node, client, buffer, failures>>

EmitDone(r) ==
    /\ thread[r].pc = "running"
    /\ turn[r].pc = "returned"
    /\ client[r].kind # "plain"
    /\ thread[r].seq > turn[r].pieces
    /\ Write(r, "done", thread[r].seq, 0)
    /\ Close(r)
    /\ UNCHANGED <<node, client, buffer, failures>>

\* Its sequence is written as 1 in the code.  It is no more sure to be encoded than
\* the start event, as it quotes the exception.
EmitError(r) ==
    /\ thread[r].pc = "running"
    /\ turn[r].pc = "raised"
    /\ client[r].kind # "plain"
    /\ \E type \in {"error", "response"} : Write(r, type, 1, 0)
    /\ Close(r)
    /\ UNCHANGED <<node, client, buffer, failures>>

\* The plain route: a reply, a 400 for a ValueError and its like, or nothing.  A reply
\* that cannot be encoded is such a ValueError too, after the answer was stored.
Reply(r) ==
    /\ thread[r].pc = "running"
    /\ client[r].kind = "plain"
    /\ \/ turn[r].pc = "returned" /\ Write(r, "result", 0, 0)
       \/ turn[r].pc \in {"returned", "raised"} /\ Write(r, "refused", 0, 0)
       \/ turn[r].pc = "raised" /\ UNCHANGED wire
    /\ Close(r)
    /\ UNCHANGED <<node, client, buffer, failures>>

\* A write fails: so does the error event after it, and the thread ends.
BrokenPipe(r) ==
    /\ link[r] = "cut"
    /\ \/ thread[r].pc = "accepted"
       \/ thread[r].pc = "running" /\ turn[r].pc \in {"returned", "raised"}
    /\ thread' = [thread EXCEPT ![r].pc = "over"]
    /\ UNCHANGED <<node, link, wire, client, buffer, failures>>

-----------------------------------------------------------------------------
(* Clients.                                                                 *)

\* The caller has its outcome and closes the connection.
End(r, got, outcome) ==
    /\ client' = [client EXCEPT ![r].got = got, ![r].outcome = outcome,
                                ![r].waiting = FALSE]
    /\ link' = [link EXCEPT ![r] = "cut"]
    /\ wire' = [wire EXCEPT ![r] = << >>]

Waits(r, kinds) == client[r].waiting /\ client[r].kind \in kinds

Expected(r, e) ==
    /\ e.seq = Len(client[r].got)
    /\ IF e.seq = 0 THEN e.type = "start" ELSE e.type \in {"delta", "done", "error"}

\* One line of the event iterator; what is no JSON raises.
ReadEvent(r) ==
    /\ Waits(r, {"stream"})
    /\ wire[r] # << >>
    /\ LET e == Head(wire[r])
           got == Append(client[r].got, [event |-> e, whole |-> TRUE])
       IN  \/ /\ e.type = "refused"
              /\ End(r, client[r].got, "refused")
           \/ /\ e.type = "response"
              /\ End(r, client[r].got, "garbled")
           \/ /\ e.type \notin {"refused", "response"}
              /\ ~Expected(r, e)
              /\ End(r, client[r].got, "protocol")
           \/ /\ Expected(r, e)
              /\ e.type \in {"done", "error"}
              /\ End(r, got, e.type)
           \/ /\ Expected(r, e)
              /\ e.type \in {"start", "delta"}
              /\ client' = [client EXCEPT ![r].got = got]
              /\ wire' = [wire EXCEPT ![r] = Tail(@)]
              /\ UNCHANGED link
    /\ UNCHANGED <<node, thread, buffer, failures>>

ReadReply(r) ==
    /\ Waits(r, {"plain"})
    /\ wire[r] # << >>
    /\ End(r, << >>, IF Head(wire[r]).type = "result" THEN "done" ELSE "refused")
    /\ UNCHANGED <<node, thread, buffer, failures>>

\* The connection ends, or breaks, before the outcome.
EndOfStream(r) ==
    /\ Waits(r, {"stream", "plain"})
    /\ wire[r] = << >>
    /\ link[r] # "open"
    /\ End(r, client[r].got, "broken")
    /\ UNCHANGED <<node, thread, buffer, failures>>

\* A mutant of Timeout: it covers the response headers only.
TimeoutBeforeStart(r) ==
    /\ client[r].waiting
    /\ client[r].got = << >>
    /\ wire[r] = << >>
    /\ link[r] = "open"
    /\ End(r, client[r].got, "timeout")
    /\ UNCHANGED <<node, thread, buffer, failures>>

\* Nothing arrived for 120 seconds, or timeout_ms.
Timeout(r) ==
    /\ client[r].waiting
    /\ wire[r] = << >>
    /\ link[r] = "open"
    /\ End(r, client[r].got, "timeout")
    /\ UNCHANGED <<node, thread, buffer, failures>>

-----------------------------------------------------------------------------
(* The device: shufu_stream_parser_feed, byte by byte.                      *)

InLine(r) == Waits(r, {"device"}) /\ wire[r] # << >> /\ Head(wire[r]).type # "refused"
AtNewline(r) == buffer[r].at = Head(wire[r]).size

\* A mutant of KeepByte: the last byte of the buffer is not kept for the 0.
KeepByteFull(r) ==
    /\ InLine(r)
    /\ ~AtNewline(r)
    /\ buffer[r].held <= Capacity - 1
    /\ buffer' = [buffer EXCEPT ![r].at = @ + 1, ![r].held = @ + 1,
          ![r].from = IF buffer[r].held = 0 THEN buffer[r].at ELSE @]
    /\ UNCHANGED <<node, thread, link, wire, client, failures>>

KeepByte(r) ==
    /\ InLine(r)
    /\ ~AtNewline(r)
    /\ buffer[r].held < Capacity - 1
    /\ buffer' = [buffer EXCEPT ![r].at = @ + 1, ![r].held = @ + 1,
          ![r].from = IF buffer[r].held = 0 THEN buffer[r].at ELSE @]
    /\ UNCHANGED <<node, thread, link, wire, client, failures>>

\* The line is too long: what is held and the rest of the fragment are dropped,
\* wherever in the lines received so far the fragment ends.
Overflow(r) ==
    LET lines == wire[r] IN
    /\ InLine(r)
    /\ ~AtNewline(r)
    /\ buffer[r].held = Capacity - 1
    /\ \E k \in 1..(Len(lines) + 1), at \in 0..(Head(lines).size + 1) :
          /\ k = 1 => at > buffer[r].at /\ at <= lines[1].size
          /\ k \in 2..Len(lines) => at <= lines[k].size
          /\ k = Len(lines) + 1 => at = 0
          /\ wire' = [wire EXCEPT ![r] = SubSeq(lines, k, Len(lines))]
          /\ buffer' = [buffer EXCEPT
                ![r] = [at |-> at, held |-> 0, from |-> 0, failed |-> TRUE]]
    /\ UNCHANGED <<node, thread, link, client, failures>>

\* An empty line is not delivered.
Newline(r) ==
    LET b == buffer[r]
        e == Head(wire[r])
        line == [event |-> e, whole |-> b.from = 0 /\ b.held = e.size]
    IN
    /\ InLine(r)
    /\ AtNewline(r)
    /\ client' = IF b.held = 0 THEN client
                 ELSE [client EXCEPT ![r].got = Append(@, line)]
    /\ wire' = [wire EXCEPT ![r] = Tail(@)]
    /\ buffer' = [buffer EXCEPT ![r].at = 0, ![r].held = 0, ![r].from = 0]
    /\ UNCHANGED <<node, thread, link, failures>>

\* A mutant of PerformReturns: the result of the parser is not looked at.
PerformReturnsUnchecked(r) ==
    /\ Waits(r, {"device"})
    /\ \/ /\ wire[r] = << >>
          /\ link[r] # "open"
          /\ \/ End(r, client[r].got, "ok")
             \/ link[r] = "cut" /\ End(r, client[r].got, "failed")
       \/ /\ wire[r] # << >>
          /\ Head(wire[r]).type = "refused"
          /\ End(r, client[r].got, "refused")
    /\ UNCHANGED <<node, thread, buffer, failures>>

\* esp_http_client_perform returns at the end of the response; it may take a
\* broken connection for that, and may stop where the event handler failed.
PerformReturns(r) ==
    /\ Waits(r, {"device"})
    /\ \/ /\ wire[r] = << >>
          /\ link[r] # "open"
          /\ \/ ~buffer[r].failed /\ End(r, client[r].got, "ok")
             \/ link[r] = "cut" /\ End(r, client[r].got, "failed")
       \/ buffer[r].failed /\ End(r, client[r].got, "failed")
       \/ /\ wire[r] # << >>
          /\ Head(wire[r]).type = "refused"
          /\ End(r, client[r].got, "refused")
    /\ UNCHANGED <<node, thread, buffer, failures>>

-----------------------------------------------------------------------------
(* Failures.                                                                *)

\* The connection breaks, with any part of what was written lost.
Cut(r) ==
    /\ failures < MaxFailures
    /\ client[r].waiting
    /\ link[r] # "cut"
    /\ link' = [link EXCEPT ![r] = "cut"]
    /\ \E k \in 0..Len(wire[r]) : wire' = [wire EXCEPT ![r] = SubSeq(@, 1, k)]
    /\ failures' = failures + 1
    /\ UNCHANGED <<node, thread, client, buffer>>

\* The node is killed: its threads vanish and its connections are closed.
Killed ==
    /\ failures < MaxFailures
    /\ thread' = [r \in Requests |->
          IF thread[r].pc = "none" THEN thread[r] ELSE [thread[r] EXCEPT !.pc = "over"]]
    /\ link' = [r \in Requests |-> IF link[r] = "open" THEN "closed" ELSE link[r]]
    /\ failures' = failures + 1
    /\ UNCHANGED <<node, wire, client, buffer>>

-----------------------------------------------------------------------------
ThreadStep(r) ==
    \/ Refuse(r) \/ StartFails(r) \/ Accept(r) \/ Invoke(r) \/ EmitDelta(r) \/ EmitDone(r)
    \/ EmitError(r) \/ Reply(r) \/ BrokenPipe(r)

ClientStep(r) ==
    \/ ReadEvent(r) \/ ReadReply(r) \/ EndOfStream(r) \/ Timeout(r)
    \/ KeepByte(r) \/ Overflow(r) \/ Newline(r) \/ PerformReturns(r)

Next ==
    \/ \E r \in Requests :
          \/ \E kind \in KindsOf[r] : Request(r, kind)
          \/ ThreadStep(r)
          \/ ClientStep(r)
          \/ Cut(r)
    \/ Killed
    \/ Tick /\ UNCHANGED transport

Spec == Init /\ [][Next]_vars

\* A caller reads what is there, and its socket timeout fires when nothing is.
\* Nothing is assumed of the node: its runtime may hang.
Fairness == \A r \in Requests : WF_vars(ClientStep(r))

FairSpec == Spec /\ Fairness
-----------------------------------------------------------------------------
(* Properties.                                                              *)

\* Every variable has its type; the device's buffer keeps room for the final 0.
TypeOK ==
    /\ clock \in 0..Horizon
    /\ messages \in Seq(Turns)
    /\ turn \in [Requests -> TurnState]
    /\ thread \in [Requests -> ThreadState]
    /\ link \in [Requests -> {"none", "open", "closed", "cut"}]
    /\ wire \in [Requests -> Seq(Event)]
    /\ client \in [Requests -> ClientState]
    /\ buffer \in [Requests -> BufferState]
    /\ failures \in 0..MaxFailures

Stored(r, role) == \E k \in DOMAIN messages : messages[k].of = r /\ messages[k].role = role

\* Whatever fails in the node, and when, the events it writes come in the order the
\* iterator accepts: the error event's sequence is 1 because nothing can fail
\* once the first delta has left.
StreamAccepted == \A r \in Requests : client[r].outcome # "protocol"

\* A caller told "done" holds all of the answer in order, and the question and
\* that answer are stored: never a silent prefix, never an answer nobody keeps.
WholeAnswer ==
    \A r \in Requests : client[r].outcome = "done" =>
        /\ Stored(r, "user") /\ Stored(r, "assistant")
        /\ client[r].kind = "stream" =>
              /\ Len(client[r].got) = turn[r].pieces + 2
              /\ \A i \in 1..turn[r].pieces : client[r].got[i + 1].event.piece = i

\* A caller of a stream that is told of an error may ask again: no answer of the
\* failed call is, or will be, in the session.  The plain route makes no such
\* promise: a reply that cannot be encoded is refused when its answer is stored
\* (service.py:300, 44, 356).
FailureLeavesNoAnswer ==
    \A r \in Requests :
        client[r].kind # "plain" /\ client[r].outcome \in {"error", "refused", "garbled"} =>
            ~Stored(r, "assistant") /\ thread[r].pc = "over"

\* ESP_OK means that every line delivered was a line the node wrote, whole, and
\* none before it was skipped, however the bytes were cut into fragments.
DeviceExact ==
    \A r \in Requests : client[r].outcome = "ok" =>
        \A i \in DOMAIN client[r].got :
            client[r].got[i].whole /\ client[r].got[i].event.seq = i - 1

\* Every caller gets an outcome, though the runtime hangs, the connection breaks
\* or the node is killed.
Answered == \A r \in Requests : client[r].waiting ~> ~client[r].waiting
=============================================================================
