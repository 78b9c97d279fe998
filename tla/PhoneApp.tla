------------------------------- MODULE PhoneApp -------------------------------
(***************************************************************************)
(* The Android app (MainActivity.kt) beside a serving node: activities     *)
(* come and go, each with a single executor thread that runs its tasks one *)
(* after the other (discover, synchronize, import a model, generate), and  *)
(* onDestroy on the main thread does not wait for the running one.         *)
(***************************************************************************)
EXTENDS AndroidSync, LocalModel, Discovery

CONSTANTS
    MaxEvents   \* bound: what users, the system and the network do, besides onCreate

ASSUME PhoneAssumption ==
    /\ Runners = Workers
    /\ Fragile \subseteq Scanners \ Workers
    /\ MaxEvents \in Nat

VARIABLES
    life,       \* life[w]: the activity of w: "unborn", "live", "closing", "gone"
    caught,     \* history variable: activities that onDestroy caught at a task
    events      \* such events so far

vars == <<syncVars, modelVars, discoveryVars, life, caught, events>>

Init ==
    /\ SyncInit
    /\ ModelInit
    /\ DiscoveryInit
    /\ life = [w \in Workers |-> "unborn"]
    /\ caught = {}
    /\ events = 0

Event == events < MaxEvents /\ events' = events + 1

Scanning(w) == w \in Scanners /\ scan[w] # "idle"

----------------------------------------------------------------------------
\* onCreate; the activity before it, if any, has been or is being destroyed.
Create(w) ==
    /\ life[w] = "unborn"
    /\ \A v \in Workers : life[v] # "live"
    /\ life' = [life EXCEPT ![w] = "live"]
    /\ UNCHANGED <<syncVars, modelVars, discoveryVars, caught, events>>

\* The executor takes a task, perhaps one that waited: it is free and not shut down.
Takes(w) ==
    /\ life[w] \in {"live", "closing"}
    /\ sync[w].pc = "idle" /\ job[w] = NoJob /\ ~Scanning(w)
    /\ Event
    /\ caught' = IF life[w] = "closing" THEN caught \union {w} ELSE caught
    /\ UNCHANGED life

Discover(w) ==
    /\ w \in Scanners
    /\ Takes(w)
    /\ BeginScan(w)
    /\ UNCHANGED <<syncVars, modelVars>>

\* Also the second half of invokeRemote; its first half writes on the node.
Synchronize(w) ==
    /\ Takes(w)
    /\ \E scope \in SyncScopes : BeginSync(w, scope)
    /\ UNCHANGED <<modelVars, discoveryVars>>

ImportModel(w) == Takes(w) /\ BeginImport(w) /\ UNCHANGED <<syncVars, discoveryVars>>

InvokeLocal(w) == Takes(w) /\ BeginLocal(w) /\ UNCHANGED <<syncVars, discoveryVars>>

\* invokeLocal stores the user's turn before and the answer after generate.
StoreTurn(w) ==
    /\ Ask(w) \/ Generated(w)
    /\ IF \E m \in Messages \ rows : AuthorOf[m] = phone
       THEN \E m \in Messages : AddOnPhone(m)
       ELSE UNCHANGED syncVars
    /\ UNCHANGED <<discoveryVars, life, caught, events>>

\* Mutant: onDestroy leaves the runtime alone.
CloseWithoutRuntime(w) ==
    /\ life[w] = "live"
    /\ life' = [life EXCEPT ![w] = "closing"]
    /\ caught' = IF job[w] = NoJob THEN caught ELSE caught \union {w}
    /\ Event
    /\ UNCHANGED <<syncVars, modelVars, discoveryVars>>

\* onDestroy: the runtime is closed ...
Close(w) ==
    /\ life[w] = "live"
    /\ life' = [life EXCEPT ![w] = "closing"]
    /\ CloseRuntime(w)
    /\ caught' = IF job[w] = NoJob THEN caught ELSE caught \union {w}
    /\ Event
    /\ UNCHANGED <<syncVars, fileVars, job, discoveryVars>>

\* ... and then the executor shut down; a task that runs by then runs on, and a
\* later use of the store opens its database again.
ShutDown(w) ==
    /\ life[w] = "closing"
    /\ life' = [life EXCEPT ![w] = "gone"]
    /\ UNCHANGED <<syncVars, modelVars, discoveryVars, caught, events>>

\* The system kills the process.
Kill ==
    /\ \E w \in Workers : life[w] # "unborn"
    /\ SyncKilled
    /\ ModelKilled
    /\ scan' = [x \in Scanners |-> IF x \in Workers THEN "idle" ELSE scan[x]]
    /\ late' = late \ Workers /\ answered' = answered \ Workers
    /\ life' = [w \in Workers |-> IF life[w] = "unborn" THEN "unborn" ELSE "gone"]
    /\ Event
    /\ UNCHANGED <<responderVars, caught>>

----------------------------------------------------------------------------
App == UNCHANGED <<life, caught, events>>
Outside == Event /\ UNCHANGED <<life, caught>>

DiscoveryStep ==
    /\ \/ (Serve \/ StopServing \/ SocketError \/ Junk) /\ Outside
       \/ (\E x \in Scanners \ Workers : BeginScan(x)) /\ Outside
       \/ (CloseSocket \/ Stopped \/ ResponderStep \/ LoseAnswer) /\ App
       \/ (\E x \in Scanners : ScanStep(x) \/ TakeForeign(x) \/ DeadlinePasses(x)) /\ App
    /\ UNCHANGED <<syncVars, modelVars>>

Next ==
    \/ \E w \in Workers :
        \/ Create(w) \/ Close(w) \/ ShutDown(w)
        \/ Discover(w) \/ Synchronize(w) \/ ImportModel(w) \/ InvokeLocal(w) \/ StoreTurn(w)
        \/ SyncStep(w) /\ UNCHANGED <<modelVars, discoveryVars>> /\ App
        \/ ModelStep(w) /\ UNCHANGED <<syncVars, discoveryVars>> /\ App
    \/ (\E o \in Items : AddOnNode(o)) /\ UNCHANGED <<modelVars, discoveryVars>> /\ Outside
    \/ NodeStep /\ UNCHANGED <<modelVars, discoveryVars>> /\ App
    \/ DiscoveryStep
    \/ Kill

Alone(A) == A /\ UNCHANGED <<syncVars, modelVars>> /\ App

\* The responder thread runs on, a scan runs on or its socket's timeout fires,
\* and clocks reach a deadline; nothing is assumed of what else is sent.
Fairness ==
    /\ WF_vars(Alone(ResponderStep))
    /\ \A x \in Scanners : WF_vars(Alone(ScanStep(x))) /\ WF_vars(Alone(DeadlinePasses(x)))

Spec == Init /\ [][Next]_vars /\ Fairness

----------------------------------------------------------------------------
\* The variables of the app and of its parts have their types.
TypeOK ==
    /\ rows \subseteq Objects
    /\ node \in Store
    /\ prefs \in [SyncScopes -> Nat] /\ saved \in [SyncScopes -> Nat]
    /\ sync \in [Workers -> [pc : SyncPcs, ex : Export]]
    /\ incoming \in [Workers -> SUBSET Objects]
    /\ {model, part} \subseteq {"none", "whole", "torn"}
    /\ handle \in [Workers -> 0 .. made]
    /\ alive \subseteq 1 .. made
    /\ thread \in {"none", "loop", "recv", "reply", "gave_up", "ended", "dead"}
    /\ thread = "none" <=> serving = "off"
    /\ thread \in {"reply", "gave_up"} <=> sender # "junk"
    /\ scan \in [Scanners -> {"idle", "test", "recv"}]
    /\ \A w \in Workers :
        /\ life[w] = "unborn" => sync[w].pc = "idle" /\ job[w] = NoJob /\ ~Scanning(w)
        /\ sync[w].pc # "idle" => job[w] = NoJob

\* A destroyed activity leaves a native model in memory only when a task ran
\* while onDestroy closed the runtime, or began before it had shut the executor
\* down (MainActivity.kt:233-238): a model loaded then is loaded for nobody.
LeaksOnlyWhenCaught ==
    \A w \in Workers : life[w] = "gone" /\ handle[w] # 0 => w \in caught
=============================================================================
