----------------------------- MODULE SummaryStore -----------------------------
(***************************************************************************)
(* Derived summaries (summary.py): a database of their own, in which every *)
(* summary keeps a fingerprint of each raw message it was made from.  The  *)
(* messages live in the store of memory.py and are read one at a time,     *)
(* each in a connection of its own, before the summary is inserted and     *)
(* again whenever it is used.                                              *)
(*                                                                         *)
(* The program never changes or deletes a message.  The fingerprints are   *)
(* there for a raw database that was restored or edited outside of it:     *)
(* the action Edit.                                                        *)
(***************************************************************************)
EXTENDS Naturals

CONSTANTS
    Sessions,
    Messages,       \* message ids
    Summaries,      \* summary ids
    Keepers,        \* processes that add summaries (shufu summary add)
    NoMessage,      \* no row with this message id
    NoSummary,      \* no row with this summary id
    MaxEdits        \* bound: edits of the raw database from outside

\* A raw message: its session, and which version of role and content it has.
Message == [session : Sessions, text : 0 .. MaxEdits]

\* The fingerprints of some messages.
Fingerprints == UNION {[S -> 0 .. MaxEdits] : S \in SUBSET Messages}

\* Where a keeper is, before add and after it, and while it looks sources up.
Resting == [pc |-> "idle"]

KeeperState == {Resting} \union
    [pc : {"look"}, session : Sessions, todo : SUBSET Messages, sources : Fingerprints]

ASSUME SummaryAssumption ==
    /\ MaxEdits \in Nat
    /\ NoMessage \notin Message
    /\ NoSummary \notin [session : Sessions, sources : Fingerprints]

VARIABLES
    message,    \* message[m]: the raw message m
    summary,    \* summary[u]: session of u, and source message -> fingerprint
    keeper,     \* keeper[k]: where k is in SummaryStore.add
    edits       \* edits so far

summaryVars == <<message, summary, keeper, edits>>

SummaryInit ==
    /\ message = [m \in Messages |-> NoMessage]
    /\ summary = [u \in Summaries |-> NoSummary]
    /\ keeper = [k \in Keepers |-> Resting]
    /\ edits = 0

----------------------------------------------------------------------------
(***************************************************************************)
(* Raw messages.                                                           *)
(***************************************************************************)

\* A turn is stored, or arrives with a bundle.
AddMessage(m, s) ==
    /\ message[m] = NoMessage
    /\ message' = [message EXCEPT ![m] = [session |-> s, text |-> 0]]
    /\ UNCHANGED <<summary, keeper, edits>>

\* External: somebody removes, moves or alters a row of the raw database.
Edit(m) ==
    /\ edits < MaxEdits
    /\ \E v \in (Message \union {NoMessage}) \ {message[m]} : message' = [message EXCEPT ![m] = v]
    /\ edits' = edits + 1
    /\ UNCHANGED <<summary, keeper>>

\* Message m exists in session s.
InSession(m, s) == message[m] # NoMessage /\ message[m].session = s

\* The check of one source before a summary is used: still there, still in the
\* summary's session, same role and content hash.
SourceHolds(u, m) ==
    /\ InSession(m, summary[u].session)
    /\ message[m].text = summary[u].sources[m]

----------------------------------------------------------------------------
(***************************************************************************)
(* SummaryStore.add                                                        *)
(***************************************************************************)

Looking(s, todo, sources) == [pc |-> "look", session |-> s, todo |-> todo, sources |-> sources]

\* sources and the fingerprint of m.
Noted(sources, m) ==
    [x \in DOMAIN sources \union {m} |-> IF x = m THEN message[m].text ELSE sources[x]]

\* Sources are distinct, and at least one.
BeginAdd(k, s, S) ==
    /\ keeper[k] = Resting
    /\ S # {}
    /\ keeper' = [keeper EXCEPT ![k] = Looking(s, S, [x \in {} |-> 0])]
    /\ UNCHANGED <<message, summary, edits>>

\* Mutant: the session of a source is not compared.
LookUpAnywhere(k, m) ==
    /\ keeper[k].pc = "look"
    /\ m \in keeper[k].todo
    /\ keeper' = [keeper EXCEPT ![k] =
            IF message[m] # NoMessage
            THEN Looking(@.session, @.todo \ {m}, Noted(@.sources, m))
            ELSE Resting]
    /\ UNCHANGED <<message, summary, edits>>

\* One source is read and its fingerprint taken; a source that is missing or
\* belongs to another session ends the add.
LookUp(k, m) ==
    /\ keeper[k].pc = "look"
    /\ m \in keeper[k].todo
    /\ keeper' = [keeper EXCEPT ![k] =
            IF InSession(m, @.session)
            THEN Looking(@.session, @.todo \ {m}, Noted(@.sources, m))
            ELSE Resting]
    /\ UNCHANGED <<message, summary, edits>>

\* The summary and its sources are inserted in one transaction; an id that is
\* taken raises.
StoreSummary(k, u) ==
    /\ keeper[k].pc = "look"
    /\ keeper[k].todo = {}
    /\ summary' = IF summary[u] # NoSummary THEN summary ELSE [summary EXCEPT ![u] =
            [session |-> keeper[k].session, sources |-> keeper[k].sources]]
    /\ keeper' = [keeper EXCEPT ![k] = Resting]
    /\ UNCHANGED <<message, edits>>

SummaryNext ==
    \/ \E m \in Messages, s \in Sessions : AddMessage(m, s)
    \/ \E m \in Messages : Edit(m)
    \/ \E k \in Keepers :
        \/ \E s \in Sessions, S \in SUBSET Messages : BeginAdd(k, s, S)
        \/ \E m \in Messages : LookUp(k, m)
        \/ \E u \in Summaries : StoreSummary(k, u)

----------------------------------------------------------------------------

\* Rows, summaries and keepers hold what their variables say; a summary has at
\* least one source.
SummaryTypeOK ==
    /\ message \in [Messages -> Message \union {NoMessage}]
    /\ summary \in [Summaries -> [session : Sessions, sources : Fingerprints] \union {NoSummary}]
    /\ \A u \in Summaries : summary[u] # NoSummary => DOMAIN summary[u].sources # {}
    /\ keeper \in [Keepers -> KeeperState]
    /\ \A k \in Keepers :
        keeper[k] # Resting => keeper[k].todo \union DOMAIN keeper[k].sources # {}
    /\ edits \in 0 .. MaxEdits

\* Every source of a summary was a message of the summary's session with the
\* recorded fingerprint, and still is unless the raw database was edited:
\* the lookups and the insert are separate connections (summary.py:172-216),
\* and no message that the program itself writes meanwhile can part them.
SummariesGrounded ==
    edits = 0 =>
        \A u \in Summaries :
            summary[u] # NoSummary => \A m \in DOMAIN summary[u].sources : SourceHolds(u, m)
=============================================================================
