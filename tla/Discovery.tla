------------------------------ MODULE Discovery ------------------------------
(***************************************************************************)
(* LAN discovery: the responder thread of a serving node (discovery.py,    *)
(* started and stopped by "shufu serve") and the scans that probe it       *)
(* (discover_nodes, ShuFuDiscoveryClient.kt).  Datagrams may be lost, and  *)
(* anything may be sent to the responder's port and to a scanner's.        *)
(***************************************************************************)
CONSTANTS
    Scanners,       \* who calls discover, one scan at a time each
    Fragile         \* those of them that run discover_nodes of Python

VARIABLES
    serving,    \* command_serve and stop(): "off", "on", "stopping", "closed"
    stopped,    \* _stopped is set
    thread,     \* the responder thread: where it is in _run
    sender,     \* who sent the probe that the thread is answering
    buffered,   \* datagrams in the responder's socket: scanners, or "junk"
    scan,       \* scan[x]: "idle", at the loop's "test", or in "recv"
    late,       \* scanners whose deadline has passed
    answered    \* scanners with an answer on its way, or in their socket

responderVars == <<serving, stopped, thread, sender, buffered>>
scanVars == <<scan, late, answered>>
discoveryVars == <<responderVars, scanVars>>

DiscoveryInit ==
    /\ serving = "off" /\ stopped = FALSE /\ thread = "none" /\ sender = "junk"
    /\ buffered = {} /\ answered = {} /\ late = {}
    /\ scan = [x \in Scanners |-> "idle"]

\* The responder's socket is bound.
Bound == serving \in {"on", "stopping"}

----------------------------------------------------------------------------
(***************************************************************************)
(* The node.                                                               *)
(***************************************************************************)

\* shufu serve: a new responder binds the port and starts its thread.
Serve ==
    /\ serving = "off"
    /\ serving' = "on" /\ stopped' = FALSE /\ thread' = "loop"
    /\ UNCHANGED <<sender, buffered, scanVars>>

\* Mutant: stop() closes the socket before it sets the event.
StopClosesFirst ==
    /\ serving = "on"
    /\ serving' = "closed" /\ buffered' = {}
    /\ UNCHANGED <<stopped, thread, sender, scanVars>>

\* stop(): the event is set ...
StopServing ==
    /\ serving = "on"
    /\ serving' = "stopping" /\ stopped' = TRUE
    /\ UNCHANGED <<thread, sender, buffered, scanVars>>

\* ... the socket is closed ...
CloseSocket ==
    /\ serving = "stopping"
    /\ serving' = "closed" /\ buffered' = {}
    /\ UNCHANGED <<stopped, thread, sender, scanVars>>

\* Mutant: stop() does not join the thread.
StoppedAtOnce ==
    /\ serving = "closed"
    /\ serving' = "off"
    /\ UNCHANGED <<stopped, thread, sender, buffered, scanVars>>

\* ... and the thread joined, which looks at the event every 0.2 s.
Stopped ==
    /\ serving = "closed"
    /\ thread \in {"ended", "dead"}
    /\ serving' = "off" /\ thread' = "none"
    /\ UNCHANGED <<stopped, sender, buffered, scanVars>>

\* while not self._stopped.is_set()
LoopTest ==
    /\ thread \in {"loop", "gave_up"}
    /\ thread' = IF stopped THEN "ended" ELSE "recv"
    /\ sender' = "junk"
    /\ UNCHANGED <<serving, stopped, buffered, scanVars>>

\* A datagram arrives: a probe is answered, anything else is ignored.
Recv ==
    /\ thread = "recv"
    /\ \E x \in buffered :
        /\ buffered' = buffered \ {x}
        /\ sender' = x
        /\ thread' = IF x = "junk" THEN "loop" ELSE "reply"
    /\ UNCHANGED <<serving, stopped, scanVars>>

\* Mutant: the thread stops listening after a quiet 0.2 s.
RecvTimeoutBreaks ==
    /\ thread = "recv"
    /\ buffered = {}
    /\ Bound
    /\ thread' = "ended"
    /\ UNCHANGED <<serving, stopped, sender, buffered, scanVars>>

\* recvfrom times out after 0.2 s.
RecvTimeout ==
    /\ thread = "recv"
    /\ buffered = {}
    /\ Bound
    /\ thread' = "loop"
    /\ UNCHANGED <<serving, stopped, sender, buffered, scanVars>>

\* sendto answers; or it times out, which drops the answer, and the loop goes on.
Reply ==
    /\ thread = "reply"
    /\ Bound
    /\ \/ thread' = "loop" /\ sender' = "junk" /\ answered' = answered \union {sender}
       \/ thread' = "gave_up" /\ UNCHANGED <<sender, answered>>
    /\ UNCHANGED <<serving, stopped, buffered, scan, late>>

\* A socket error that is no timeout: the loop sees the event, or the thread ends.
SocketRaises ==
    /\ thread \in {"recv", "reply"}
    /\ thread' = IF stopped THEN "loop" ELSE "dead"
    /\ sender' = "junk"
    /\ UNCHANGED <<serving, stopped, buffered, scanVars>>

\* The thread finds its socket closed by stop().
FindsClosed == serving = "closed" /\ SocketRaises

\* The network fails.
SocketError == Bound /\ SocketRaises

----------------------------------------------------------------------------
(***************************************************************************)
(* The scanners and the network.                                           *)
(***************************************************************************)

\* The probe is broadcast from a new socket; the network may lose it, or lead it
\* nowhere.  Bound: no probe of an earlier scan of x is still to be answered.
BeginScan(x) ==
    /\ scan[x] = "idle"
    /\ sender # x
    /\ x \in buffered => thread \in {"ended", "dead"}
    /\ scan' = [scan EXCEPT ![x] = "test"]
    /\ answered' = answered \ {x}
    /\ late' = late \ {x}
    /\ \/ Bound /\ buffered' = buffered \union {x}
       \/ UNCHANGED buffered
    /\ UNCHANGED <<serving, stopped, thread, sender>>

ScanGoesTo(x, pc) ==
    /\ scan' = [scan EXCEPT ![x] = pc]
    /\ UNCHANGED <<responderVars, late>>

\* The scan ends, its socket is closed.
EndScan(x) ==
    /\ scan' = [scan EXCEPT ![x] = "idle"]
    /\ late' = late \ {x}
    /\ answered' = answered \ {x}
    /\ UNCHANGED responderVars

\* Mutant: the socket's timeout alone ends a scan.
ScanTestLess(x) ==
    /\ scan[x] = "test"
    /\ ScanGoesTo(x, "recv") /\ UNCHANGED answered

\* The loop compares the clock with the deadline.
ScanTest(x) ==
    /\ scan[x] = "test"
    /\ \/ x \in late /\ EndScan(x)
       \/ x \notin late /\ ScanGoesTo(x, "recv") /\ UNCHANGED answered

\* An answer is taken into found, keyed by node_id, however late it is.
TakeAnswer(x) ==
    /\ scan[x] = "recv"
    /\ x \in answered
    /\ answered' = answered \ {x}
    /\ ScanGoesTo(x, "test")

\* Anything else arrives and is passed over; but JSON that is no object raises
\* an AttributeError out of discover_nodes.
TakeForeign(x) ==
    /\ scan[x] = "recv"
    /\ \/ ScanGoesTo(x, "test") /\ UNCHANGED answered
       \/ x \in Fragile /\ EndScan(x)

\* recvfrom times out.  The phone's waits as long as the whole scan may last, so
\* a scan that took something just before its deadline lasts nearly twice as long.
NothingCame(x) ==
    /\ scan[x] = "recv"
    /\ x \notin answered
    /\ x \in late
    /\ EndScan(x)

DeadlinePasses(x) ==
    /\ scan[x] # "idle"
    /\ late' = late \union {x}
    /\ UNCHANGED <<responderVars, scan, answered>>

\* The network loses an answer.
LoseAnswer ==
    /\ \E x \in answered : answered' = answered \ {x}
    /\ UNCHANGED <<responderVars, scan, late>>

\* Something else is sent to the port.
Junk ==
    /\ Bound
    /\ buffered' = buffered \union {"junk"}
    /\ UNCHANGED <<serving, stopped, thread, sender, scanVars>>

ResponderStep == LoopTest \/ Recv \/ RecvTimeout \/ Reply \/ FindsClosed

ScanStep(x) == ScanTest(x) \/ TakeAnswer(x) \/ NothingCame(x)

----------------------------------------------------------------------------
\* A scan ends although foreign datagrams never stop coming: neither the loop's
\* test nor the socket's timeout would do alone (discovery.py:140-146,
\* ShuFuDiscoveryClient.kt:29-42).
ScansEnd == \A x \in Scanners : scan[x] # "idle" ~> scan[x] = "idle"

\* A probe in the responder's socket is answered, after any number of quiet
\* 0.2 s, junk datagrams and other scans, unless its own sendto times out, the
\* node stops, or a socket error ends the thread while "shufu serve" goes on
\* (discovery.py:90-99).
ProbesAnswered ==
    \A x \in Scanners : x \in buffered ~>
        x \in answered \/ (thread = "gave_up" /\ sender = x) \/ stopped \/ thread = "dead"

\* stop() is quiet: the thread dies of an error only while nobody stops the node,
\* whatever stop() and the thread do at the same time (discovery.py:97-107).
StopIsQuiet == [][thread' = "dead" /\ thread # "dead" => serving = "on"]_discoveryVars
=============================================================================
