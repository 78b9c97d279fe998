----------------------------- MODULE NodeInvoke -----------------------------
(***************************************************************************)
(* Invocations of a node in one session (node.ShuFuNode.invoke), each on a *)
(* request thread of its own: the user's turn, the window of history, the  *)
(* model's answer and its turn.  The session row and the change records of *)
(* add_message are in MemoryStore; here a message is its place in rowid    *)
(* order, its role and its timestamp.                                      *)
(***************************************************************************)
EXTENDS Naturals, Sequences

CONSTANTS
    Requests,     \* invocations; a retry by the user is another one
    Window,       \* memory_window
    PerSecond,    \* clock ticks in a second, microseconds in the code
    Horizon,      \* the last tick of a behaviour
    MaxPieces     \* how many stream chunks an answer fills at most

ASSUME InvokeAssumption ==
    /\ Window \in Nat
    /\ PerSecond \in Nat \ {0}
    /\ Horizon \in Nat
    /\ MaxPieces \in Nat

VARIABLES
    clock,
    messages,     \* the rows of the session, in rowid order
    turn          \* turn[r]: the locals of an invocation

node == <<clock, messages, turn>>

Roles == {"user", "assistant"}
Turns == [of : Requests, role : Roles, stamp : 0..Horizon]

\* stamp: the timestamp of the message about to be inserted; prompt: the turns
\* given to the runtime; pieces: the chunks of its answer.
Places == {"idle", "begun", "stamped", "stored", "prompted", "answered",
           "restamped", "returned", "raised"}
TurnState == [pc : Places, stamp : 0..Horizon, prompt : Seq(Turns),
              pieces : 0..MaxPieces]

NodeInit ==
    /\ clock = 0
    /\ messages = << >>
    /\ turn = [r \in Requests |->
                  [pc |-> "idle", stamp |-> 0, prompt |-> << >>, pieces |-> 0]]

-----------------------------------------------------------------------------
(* Timestamps are isoformat() texts: a whole second is written without its   *)
(* microseconds, "05Z", and sorts behind every "05.000001Z".                 *)

Second(t) == t \div PerSecond
Fraction(t) == t % PerSecond

TextBefore(s, t) ==
    \/ Second(s) < Second(t)
    \/ /\ Second(s) = Second(t)
       /\ Fraction(s) # 0
       /\ Fraction(t) = 0 \/ Fraction(s) < Fraction(t)

\* ORDER BY created_at DESC, rowid DESC: k before j.
Newer(k, j) ==
    \/ TextBefore(messages[j].stamp, messages[k].stamp)
    \/ ~TextBefore(messages[k].stamp, messages[j].stamp) /\ k > j

\* LIMIT, then ORDER BY created_at ASC, which leaves equal texts in any order.
Histories ==
    LET size == IF Len(messages) < Window THEN Len(messages) ELSE Window
        Ranks == {rank \in [1..size -> DOMAIN messages] :
                     \A i, j \in 1..size : i < j =>
                        /\ rank[i] # rank[j]
                        /\ ~TextBefore(messages[rank[j]].stamp, messages[rank[i]].stamp)}
        Newest(rank) ==
            \A k \in DOMAIN messages \ {rank[i] : i \in 1..size} :
                \A i \in 1..size : Newer(rank[i], k)
    IN  {[i \in 1..size |-> messages[rank[i]]] : rank \in {x \in Ranks : Newest(x)}}

-----------------------------------------------------------------------------
Tick ==
    /\ clock < Horizon
    /\ clock' = clock + 1
    /\ UNCHANGED <<messages, turn>>

Begin(r) ==
    /\ turn[r].pc = "idle"
    /\ turn' = [turn EXCEPT ![r].pc = "begun"]
    /\ UNCHANGED <<clock, messages>>

\* add_message takes the time before its transaction.
Stamp(r) ==
    /\ turn[r].pc \in {"begun", "answered"}
    /\ turn' = [turn EXCEPT
          ![r].stamp = clock,
          ![r].pc = IF turn[r].pc = "begun" THEN "stamped" ELSE "restamped"]
    /\ UNCHANGED <<clock, messages>>

Store(r) ==
    LET asks == turn[r].pc = "stamped" IN
    /\ turn[r].pc \in {"stamped", "restamped"}
    /\ messages' = Append(messages,
          [of |-> r, role |-> IF asks THEN "user" ELSE "assistant",
           stamp |-> turn[r].stamp])
    /\ turn' = [turn EXCEPT ![r].pc = IF asks THEN "stored" ELSE "returned"]
    /\ UNCHANGED clock

ReadHistory(r) ==
    /\ turn[r].pc = "stored"
    /\ \E prompt \in Histories :
          turn' = [turn EXCEPT ![r].pc = "prompted", ![r].prompt = prompt]
    /\ UNCHANGED <<clock, messages>>

Generate(r) ==
    /\ turn[r].pc = "prompted"
    /\ \E n \in 0..MaxPieces :
          turn' = [turn EXCEPT ![r].pc = "answered", ![r].pieces = n]
    /\ UNCHANGED <<clock, messages>>

\* A mutant of Raise: what follows the second add_message may fail.
RaiseAfterStore(r) ==
    /\ turn[r].pc \in {"begun", "stamped", "stored", "prompted", "restamped", "returned"}
    /\ turn' = [turn EXCEPT ![r].pc = "raised"]
    /\ UNCHANGED <<clock, messages>>

\* An input is refused, the runtime fails or the database does; what is stored
\* stays.
Raise(r) ==
    /\ turn[r].pc \in {"begun", "stamped", "stored", "prompted", "restamped"}
    /\ turn' = [turn EXCEPT ![r].pc = "raised"]
    /\ UNCHANGED <<clock, messages>>

InvokeStep(r) ==
    Stamp(r) \/ Store(r) \/ ReadHistory(r) \/ Generate(r) \/ Raise(r)

NodeNext == Tick \/ \E r \in Requests : Begin(r) \/ InvokeStep(r)

NodeSpec == NodeInit /\ [][NodeNext]_node
-----------------------------------------------------------------------------
(* Properties.                                                              *)

\* "Return the newest limit messages in chronological prompt order": what the
\* runtime is given is in the order of the clock.
HistoryChronological ==
    \A r \in Requests : \A i, j \in DOMAIN turn[r].prompt :
        i < j => turn[r].prompt[i].stamp <= turn[r].prompt[j].stamp
=============================================================================
