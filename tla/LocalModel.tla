------------------------------- MODULE LocalModel -------------------------------
(***************************************************************************)
(* The local model of the Android app: the model file and its replacement  *)
(* (ModelManager.kt), and the one native handle of a runtime object        *)
(* (LlamaCppRuntime.kt, shufu_jni.cpp), which the worker thread loads and  *)
(* uses and the main thread closes.  load, generate and close hold the     *)
(* runtime's monitor.                                                      *)
(***************************************************************************)
EXTENDS Naturals

CONSTANT Runners        \* executor threads, one per activity

VARIABLES
    model,      \* the .gguf file: "none", "whole", "torn"
    part,       \* the .part file: the same
    stream,     \* stream[w]: the file that w's transfer writes to: "none", "part",
                \* "model" when it was renamed meanwhile, "gone" when it was deleted
    met,        \* history variable: imports that met another one in the .part file
    job,        \* job[w]: what worker w does
    assigned,   \* assigned[w]: the activity's localRuntime is not null
    handle,     \* handle[w]: the handle of its runtime, 0 when none
    alive,      \* native models allocated
    made        \* native models allocated so far

fileVars == <<model, part, stream, met>>
runtimeVars == <<assigned, handle, alive, made>>
modelVars == <<fileVars, job, runtimeVars>>

NoJob == [kind |-> "none", pc |-> "idle"]

Importing(w) == job[w].pc \in {"transfer", "delete", "rename", "copy"}

\* While it loads or generates, a worker holds the runtime's monitor.
HoldsMonitor(w) == job[w].pc \in {"loading", "generating"}

ModelInit ==
    /\ model = "none" /\ part = "none" /\ met = {}
    /\ stream = [w \in Runners |-> "none"]
    /\ job = [w \in Runners |-> NoJob]
    /\ assigned = [w \in Runners |-> FALSE]
    /\ handle = [w \in Runners |-> 0]
    /\ alive = {} /\ made = 0

Goto(w, pc) == job' = [job EXCEPT ![w].pc = pc]
Quit(w) == job' = [job EXCEPT ![w] = NoJob]

----------------------------------------------------------------------------
(***************************************************************************)
(* ModelManager.importFromUri.                                             *)
(***************************************************************************)

\* What a file holds after import w has written it: its source, or, when another
\* import wrote at the same time, perhaps a mixture.
Written(w) == IF w \in met THEN {"torn", "whole"} ELSE {"whole"}

\* Where a stream leads when the .part file has gone to the given place, and when
\* the model file is deleted or replaced.
Moved(file, place) ==
    CASE file = "part" -> place
      [] file = "model" -> "gone"
      [] OTHER -> file

\* The user has picked a file; its bytes go to the .part file, which is truncated.
BeginImport(w) ==
    LET others == {v \in Runners : Importing(v)}
    IN  /\ job[w] = NoJob
        /\ job' = [job EXCEPT ![w] = [kind |-> "import", pc |-> "transfer"]]
        /\ part' = "torn"
        /\ stream' = [stream EXCEPT ![w] = "part"]
        /\ met' = IF others = {} THEN met \ {w} ELSE met \union others \union {w}
        /\ UNCHANGED <<model, runtimeVars>>

\* The file of w's stream holds c.
Put(w, c) ==
    /\ part' = IF stream[w] = "part" THEN c ELSE part
    /\ model' = IF stream[w] = "model" THEN c ELSE model

\* Mutant: the bytes go straight to the model file.
TransferInPlace(w) ==
    /\ job[w].pc = "transfer"
    /\ \/ model' = "whole" /\ Goto(w, "load")
       \/ model' = "torn" /\ Quit(w)
    /\ stream' = [stream EXCEPT ![w] = "none"]
    /\ UNCHANGED <<part, met, runtimeVars>>

\* The transfer ends, or fails half-way.
Transfer(w) ==
    /\ job[w].pc = "transfer"
    /\ \/ Goto(w, "delete") /\ \E c \in Written(w) : Put(w, c)
       \/ Quit(w) /\ Put(w, "torn")
       \/ Quit(w) /\ UNCHANGED <<model, part>>
    /\ stream' = [stream EXCEPT ![w] = "none"]
    /\ UNCHANGED <<met, runtimeVars>>

\* The old model is deleted; where that fails, the import raises.
DeleteTarget(w) ==
    /\ job[w].pc = "delete"
    /\ \/ /\ model' = "none"
          /\ stream' = [v \in Runners |-> IF stream[v] = "model" THEN "gone" ELSE stream[v]]
          /\ Goto(w, "rename")
       \/ /\ model # "none"
          /\ Quit(w)
          /\ UNCHANGED <<model, stream>>
    /\ UNCHANGED <<part, met, runtimeVars>>

\* renameTo; when it fails, copyTo creates the model file anew; without a .part
\* file, which another import has renamed, it raises.
Rename(w) ==
    /\ job[w].pc = "rename"
    /\ \/ /\ part # "none"
          /\ model' = part /\ part' = "none"
          /\ stream' = [v \in Runners |-> Moved(stream[v], "model")]
          /\ Goto(w, "load")
       \/ /\ part # "none"
          /\ model' = "torn"
          /\ stream' = [v \in Runners |-> Moved(stream[v], "part")]
          /\ Goto(w, "copy")
          /\ UNCHANGED part
       \/ /\ part = "none"
          /\ Quit(w)
          /\ UNCHANGED <<model, part, stream>>
    /\ UNCHANGED <<met, runtimeVars>>

\* The copy ends, in a file that another import may have deleted, and the .part
\* file is deleted; or it fails half-way.
Copy(w) ==
    /\ job[w].pc = "copy"
    /\ \/ /\ model' \in IF model = "none" THEN {"none"} ELSE Written(w)
          /\ part' = "none"
          /\ stream' = [v \in Runners |-> IF stream[v] = "part" THEN "gone" ELSE stream[v]]
          /\ Goto(w, "load")
       \/ /\ Quit(w)
          /\ UNCHANGED <<model, part, stream>>
    /\ UNCHANGED <<met, runtimeVars>>

----------------------------------------------------------------------------
(***************************************************************************)
(* LlamaCppRuntime, and invokeLocal.                                       *)
(***************************************************************************)

\* invokeLocal: the activity's runtime, or a new one for the first model listed;
\* without either it raises.
BeginLocal(w) ==
    /\ job[w] = NoJob
    /\ assigned[w] \/ model # "none"
    /\ job' = [job EXCEPT ![w] = [kind |-> "local", pc |-> IF assigned[w] THEN "ask" ELSE "load"]]
    /\ UNCHANGED <<fileVars, runtimeVars>>

\* load: the old handle is closed, and the native load begins.  An import has
\* assigned localRuntime before it, invokeLocal assigns it afterwards.
Load(w) ==
    /\ job[w].pc = "load"
    /\ model # "none"
    /\ alive' = alive \ {handle[w]}
    /\ handle' = [handle EXCEPT ![w] = 0]
    /\ assigned' = [assigned EXCEPT ![w] = @ \/ job[w].kind = "import"]
    /\ Goto(w, "loading")
    /\ UNCHANGED <<fileVars, made>>

\* The model loads, when its file is whole; or it does not, and the runtime has
\* no handle.
Loaded(w) ==
    /\ job[w].pc = "loading"
    /\ \/ /\ model = "whole"
          /\ made' = made + 1
          /\ alive' = alive \union {made + 1}
          /\ handle' = [handle EXCEPT ![w] = made + 1]
          /\ assigned' = [assigned EXCEPT ![w] = TRUE]
          /\ IF job[w].kind = "import" THEN Quit(w) ELSE Goto(w, "ask")
       \/ /\ Quit(w)
          /\ UNCHANGED runtimeVars
    /\ UNCHANGED fileVars

\* The file has gone: an import's sha256 raises before localRuntime is assigned,
\* or load's require(file.isFile) after it.
LoadMissing(w) ==
    /\ job[w].pc = "load"
    /\ model = "none"
    /\ \E a \in {assigned[w], assigned[w] \/ job[w].kind = "import"} :
            assigned' = [assigned EXCEPT ![w] = a]
    /\ Quit(w)
    /\ UNCHANGED <<fileVars, handle, alive, made>>

\* generate: with a handle it runs, without one it raises.
Ask(w) ==
    /\ job[w].pc = "ask"
    /\ IF handle[w] # 0 THEN Goto(w, "generating") ELSE Quit(w)
    /\ UNCHANGED <<fileVars, runtimeVars>>

Generated(w) ==
    /\ job[w].pc = "generating"
    /\ Quit(w)
    /\ UNCHANGED <<fileVars, runtimeVars>>

\* Mutant: close is not synchronized.
CloseRuntimeAtOnce(w) ==
    /\ alive' = alive \ {handle[w]}
    /\ handle' = [handle EXCEPT ![w] = 0]
    /\ UNCHANGED <<assigned, made>>

\* The main thread's localRuntime?.close(): it waits for the monitor of a
\* runtime it can see, and sees none that invokeLocal is still loading.
CloseRuntime(w) ==
    /\ assigned[w] => ~HoldsMonitor(w)
    /\ alive' = IF assigned[w] THEN alive \ {handle[w]} ELSE alive
    /\ handle' = IF assigned[w] THEN [handle EXCEPT ![w] = 0] ELSE handle
    /\ UNCHANGED <<assigned, made>>

\* The app's process is killed.
ModelKilled ==
    /\ job' = [w \in Runners |-> NoJob]
    /\ stream' = [w \in Runners |-> "none"]
    /\ met' = {}
    /\ assigned' = [w \in Runners |-> FALSE]
    /\ handle' = [w \in Runners |-> 0]
    /\ alive' = {}
    /\ UNCHANGED <<model, part, made>>

ModelStep(w) ==
    \/ Transfer(w) \/ DeleteTarget(w) \/ Rename(w) \/ Copy(w)
    \/ Load(w) \/ Loaded(w) \/ LoadMissing(w)

----------------------------------------------------------------------------
\* The native models in memory are those that a runtime holds, no two runtimes hold
\* the same one, and none is freed while a worker generates with it: load, generate
\* and the main thread's close meet in every order (LlamaCppRuntime.kt:17-40).
HandlesOwned ==
    /\ alive = {handle[w] : w \in Runners} \ {0}
    /\ \A v, w \in Runners : handle[v] = handle[w] /\ handle[v] # 0 => v = w
    /\ \A w \in Runners : job[w].pc = "generating" => handle[w] # 0

Meeting == \E w \in met : Importing(w)

\* "A failed transfer cannot replace a previously usable model" (ModelManager.kt:22),
\* nor can a kill, or a delete, rename or copy that fails, lose the last whole file:
\* the model file stops being whole only when the .part file is, and a whole .part
\* file goes only into the model file or for a new transfer.  Two imports that meet
\* in the .part file may lose both.
ModelKept ==
    [][~Meeting =>
        /\ model = "whole" /\ model' # "whole" => part = "whole"
        /\ part = "whole" /\ part' # "whole" =>
              \/ model' = "whole"
              \/ \E w \in Runners : job[w] = NoJob /\ Importing(w)']_modelVars
=============================================================================
