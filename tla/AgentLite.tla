------------------------------ MODULE AgentLite ------------------------------
(***************************************************************************)
(* One run of the bounded tool loop (agent_lite.AgentLite.run), the worker *)
(* thread it waits for (agent_lite._call_until), the tools of the host     *)
(* (agent.ToolRegistry) and the host itself: planner, approver, tools,     *)
(* cancellation and the clock, each of which may act at any moment.        *)
(* A failing audit sink changes nothing and is left out.                   *)
(***************************************************************************)
EXTENDS Naturals, Sequences

CONSTANTS
    Names,         \* tool names a planner may ask for, registered or not
    Tools,         \* Tool objects a host may register
    NoTool,
    NameOf,        \* tool.name
    SideEffects,   \* the tools with side_effect = True
    Hooked,        \* the tools with a cancel_handler
    MaxSteps       \* limits.max_steps

Ends == {"completed", "max_steps", "timed_out", "cancelled", "failed"}
Answers == {"none", "final", "bad", "yes", "truthy", "no", "ok", "raise", "fatal",
            "opaque"}

ASSUME AgentAssumption ==
    /\ NoTool \notin Tools
    /\ NameOf \in [Tools -> Names]
    /\ SideEffects \subseteq Tools
    /\ Hooked \subseteq Tools \ SideEffects
    /\ MaxSteps \in 1..10
    /\ Names \intersect Answers = {}

VARIABLES
    registry,      \* the tools registered so far
    approver,      \* whether the run has an approval_handler
    cancelled,     \* the CancellationToken
    expired,       \* time.monotonic() >= deadline
    pc,            \* where the controller is
    step,
    tool,          \* the controller's local of that name
    call,          \* the latest _call_until: its worker thread and its queue
    observations,
    audit,         \* the events recorded, in order
    effects,       \* the side-effect handlers that were started, in order
    status         \* of the AgentRunResult; "running" before there is one

vars == <<registry, approver, cancelled, expired, pc, step, tool, call,
          observations, audit, effects, status>>

host == <<registry, approver, cancelled, expired>>

\* ready: approved, before the last look at the token and the clock; start:
\* after it; effect: in the handler; hook: in the cancel_handler of tool.
Places == {"head", "calling", "hook", "ready", "start", "effect", "ended"}

\* look: what _call_until does next, check the token and the clock or wait on
\* the queue, or why it gave up; answer: what the worker put there.
Calls == [op : {"idle", "plan", "approve", "read"},
          look : {"check", "get", "cancelled", "timed_out"},
          answer : Answers \union Names]
Idle == [op |-> "idle", look |-> "check", answer |-> "none"]

Events ==
    {"run_started", "tool_requested", "tool_rejected", "approval_requested",
     "approval_granted", "approval_denied", "tool_completed", "tool_failed",
     "tool_cancelled", "final_answer", "run_error", "run_completed",
     "run_max_steps", "run_timed_out", "run_cancelled", "run_failed"}

Results == {"running", "ok", "raise", "fatal", "opaque"}
Effect == [step : 1..MaxSteps, tool : Tools \union {NoTool}, result : Results,
           late : BOOLEAN]

Init ==
    /\ registry = {}
    /\ approver \in BOOLEAN
    /\ cancelled = FALSE
    /\ expired = FALSE
    /\ pc = "head"
    /\ step = 0
    /\ tool = NoTool
    /\ call = Idle
    /\ observations = << >>
    /\ audit = <<[kind |-> "run_started", step |-> 0]>>
    /\ effects = << >>
    /\ status = "running"

-----------------------------------------------------------------------------
(* The host.                                                                *)

\* A mutant of Register: the new tool takes the name from the old one.
RegisterReplacing(t) ==
    /\ registry' = {u \in registry : NameOf[u] # NameOf[t]} \union {t}
    /\ UNCHANGED <<approver, cancelled, expired, pc, step, tool, call,
                   observations, audit, effects, status>>

\* ToolRegistry.register: a name once taken is never given to another tool.
Register(t) ==
    /\ \A u \in registry : NameOf[u] # NameOf[t]
    /\ registry' = registry \union {t}
    /\ UNCHANGED <<approver, cancelled, expired, pc, step, tool, call,
                   observations, audit, effects, status>>

\* ToolRegistry.get
Lookup(name) ==
    IF \E t \in registry : NameOf[t] = name
    THEN CHOOSE t \in registry : NameOf[t] = name
    ELSE NoTool

Cancel ==
    /\ ~cancelled
    /\ cancelled' = TRUE
    /\ UNCHANGED <<registry, approver, expired, pc, step, tool, call,
                   observations, audit, effects, status>>

DeadlinePasses ==
    /\ ~expired
    /\ expired' = TRUE
    /\ UNCHANGED <<registry, approver, cancelled, pc, step, tool, call,
                   observations, audit, effects, status>>

\* What each host call may end with.  "bad" is anything a planner may do but
\* return a ToolCall with sound arguments or a FinalAnswer; "truthy" is any
\* value of an approval that is neither True nor False; "fatal" is a
\* BaseException that is no Exception; "opaque" is an output, or an exception, of
\* a tool that cannot be turned into text: _serialize or str raises.
PossibleAnswers(op) ==
    CASE op = "plan" -> {"final", "bad"} \union Names
      [] op = "approve" -> {"yes", "truthy", "no", "raise"}
      [] OTHER -> IF Lookup(NameOf[tool]) \in SideEffects
                  THEN {"raise"}    \* PermissionError of registry.execute
                  ELSE {"ok", "raise", "fatal", "opaque"}

\* The worker's operation ends, be anybody waiting or not.
WorkerAnswers(a) ==
    /\ call.op # "idle"
    /\ call.answer = "none"
    /\ a \in PossibleAnswers(call.op)
    /\ call' = [call EXCEPT !.answer = a]
    /\ UNCHANGED <<host, pc, step, tool, observations, audit, effects, status>>

-----------------------------------------------------------------------------
(* The controller.                                                          *)

Record(s, kinds) ==
    audit' = audit \o [i \in 1..Len(kinds) |-> [kind |-> kinds[i], step |-> s]]

EndEvent == [completed |-> "run_completed", max_steps |-> "run_max_steps",
             timed_out |-> "run_timed_out", cancelled |-> "run_cancelled",
             failed |-> "run_failed"]

\* Whatever the caller records, then finish(end, ...) with the step reached.
Finish(s, kinds, end) ==
    /\ Record(s, Append(kinds, EndEvent[end]))
    /\ pc' = "ended"
    /\ status' = end

\* observations.append, the event that goes with it, and on to the next step.
Observe(kinds, ok) ==
    /\ observations' = Append(observations, [step |-> step, ok |-> ok])
    /\ Record(step, kinds)
    /\ pc' = "head"
    /\ UNCHANGED status

Begin(op) ==
    /\ call' = [op |-> op, look |-> "check", answer |-> "none"]
    /\ pc' = "calling"

\* A mutant of NextStep: one step too many.
NextStepInclusive ==
    /\ pc = "head"
    /\ \/ /\ step > MaxSteps
          /\ Finish(step, << >>, "max_steps")
          /\ UNCHANGED <<step, call>>
       \/ /\ step <= MaxSteps
          /\ step' = step + 1
          /\ \/ /\ cancelled
                /\ Finish(step + 1, << >>, "cancelled")
                /\ UNCHANGED call
             \/ /\ ~cancelled
                /\ Begin("plan")
                /\ UNCHANGED <<audit, status>>
    /\ UNCHANGED <<host, tool, observations, effects>>

\* The head of the loop, the worker thread of the planner included.
NextStep ==
    /\ pc = "head"
    /\ \/ /\ step = MaxSteps
          /\ Finish(step, << >>, "max_steps")
          /\ UNCHANGED <<step, call>>
       \/ /\ step < MaxSteps
          /\ step' = step + 1
          /\ \/ /\ cancelled
                /\ Finish(step + 1, << >>, "cancelled")
                /\ UNCHANGED call
             \/ /\ ~cancelled
                /\ Begin("plan")
                /\ UNCHANGED <<audit, status>>
    /\ UNCHANGED <<host, tool, observations, effects>>

\* _call_until gives up: for a read-only tool that has one, its cancel_handler
\* runs first, on the controller's own thread.
GiveUp(end) ==
    /\ call' = [call EXCEPT !.look = end]
    /\ \/ /\ call.op = "read" /\ tool \in Hooked
          /\ pc' = "hook"
          /\ UNCHANGED <<audit, status>>
       \/ /\ ~(call.op = "read" /\ tool \in Hooked)
          /\ Finish(step, IF call.op = "read" THEN <<"tool_cancelled">> ELSE << >>, end)

\* A mutant of Check: the wait has no deadline.
CheckTokenOnly ==
    /\ pc = "calling"
    /\ call.look = "check"
    /\ \/ cancelled /\ GiveUp("cancelled")
       \/ /\ ~cancelled
          /\ call' = [call EXCEPT !.look = "get"]
          /\ UNCHANGED <<pc, audit, status>>
    /\ UNCHANGED <<host, step, tool, observations, effects>>

Check ==
    /\ pc = "calling"
    /\ call.look = "check"
    /\ \/ cancelled /\ GiveUp("cancelled")
       \/ ~cancelled /\ expired /\ GiveUp("timed_out")
       \/ /\ ~cancelled
          /\ ~expired
          /\ call' = [call EXCEPT !.look = "get"]
          /\ UNCHANGED <<pc, audit, status>>
    /\ UNCHANGED <<host, step, tool, observations, effects>>

HookReturns ==
    /\ pc = "hook"
    /\ Finish(step, <<"tool_cancelled">>, call.look)
    /\ UNCHANGED <<host, step, tool, call, observations, effects>>

\* outcomes.get times out after at most 20 ms.
QueueEmpty ==
    /\ pc = "calling"
    /\ call.look = "get"
    /\ call.answer = "none"
    /\ call' = [call EXCEPT !.look = "check"]
    /\ UNCHANGED <<host, pc, step, tool, observations, audit, effects, status>>

Answered(op) ==
    /\ pc = "calling"
    /\ call.op = op
    /\ call.look = "get"
    /\ call.answer # "none"

\* The planner's decision.
Decide ==
    LET found == Lookup(call.answer) IN
    /\ Answered("plan")
    /\ \/ /\ call.answer = "final"
          /\ Finish(step, <<"final_answer">>, "completed")
          /\ call' = Idle
          /\ UNCHANGED <<tool, observations>>
       \/ /\ call.answer = "bad"
          /\ Finish(step, <<"run_error">>, "failed")
          /\ call' = Idle
          /\ UNCHANGED <<tool, observations>>
       \/ /\ call.answer \in Names
          /\ found = NoTool
          /\ Observe(<<"tool_requested", "tool_rejected">>, FALSE)
          /\ call' = Idle
          /\ UNCHANGED tool
       \/ /\ found \in Tools \ SideEffects
          /\ tool' = found
          /\ Record(step, <<"tool_requested">>)
          /\ Begin("read")
          /\ UNCHANGED <<observations, status>>
       \/ /\ found \in SideEffects
          /\ approver
          /\ tool' = found
          /\ Record(step, <<"tool_requested", "approval_requested">>)
          /\ Begin("approve")
          /\ UNCHANGED <<observations, status>>
       \/ /\ found \in SideEffects
          /\ ~approver
          /\ tool' = found
          /\ Observe(<<"tool_requested", "approval_requested", "approval_denied">>, FALSE)
          /\ call' = Idle
    /\ UNCHANGED <<host, step, effects>>

\* A mutant of Approval: a refused call is asked for again under the same step.
ApprovalAskedTwice ==
    /\ Answered("approve")
    /\ \/ /\ call.answer = "yes"
          /\ Record(step, <<"approval_granted">>)
          /\ pc' = "ready"
          /\ call' = Idle
          /\ UNCHANGED <<observations, status>>
       \/ /\ call.answer \in {"no", "truthy"}
          /\ observations' = Append(observations, [step |-> step, ok |-> FALSE])
          /\ Record(step, <<"approval_denied">>)
          /\ Begin("approve")
          /\ UNCHANGED status
       \/ /\ call.answer = "raise"
          /\ Finish(step, <<"run_error">>, "failed")
          /\ call' = Idle
          /\ UNCHANGED observations
    /\ UNCHANGED <<host, step, tool, effects>>

\* Only True approves.
Approval ==
    /\ Answered("approve")
    /\ \/ /\ call.answer = "yes"
          /\ Record(step, <<"approval_granted">>)
          /\ pc' = "ready"
          /\ UNCHANGED <<observations, status>>
       \/ /\ call.answer \in {"no", "truthy"}
          /\ Observe(<<"approval_denied">>, FALSE)
       \/ /\ call.answer = "raise"
          /\ Finish(step, <<"run_error">>, "failed")
          /\ UNCHANGED observations
    /\ call' = Idle
    /\ UNCHANGED <<host, step, tool, effects>>

\* The result is turned into text outside the try that catches a tool's failure.
ReadOnlyResult ==
    /\ Answered("read")
    /\ \/ call.answer = "ok" /\ Observe(<<"tool_completed">>, TRUE)
       \/ call.answer = "raise" /\ Observe(<<"tool_failed">>, FALSE)
       \/ /\ call.answer \in {"fatal", "opaque"}
          /\ Finish(step, <<"run_error">>, "failed")
          /\ UNCHANGED observations
    /\ call' = Idle
    /\ UNCHANGED <<host, step, tool, effects>>

\* The last look at the token and the clock before a side effect.
Recheck ==
    /\ pc = "ready"
    /\ \/ cancelled /\ Finish(step, <<"tool_cancelled">>, "cancelled")
       \/ ~cancelled /\ expired /\ Finish(step, <<"tool_cancelled">>, "timed_out")
       \/ ~cancelled /\ ~expired /\ pc' = "start" /\ UNCHANGED <<audit, status>>
    /\ UNCHANGED <<host, step, tool, call, observations, effects>>

\* A mutant of StartEffect: side effects run on a worker, as read-only tools do.
StartEffectInWorker ==
    /\ pc = "start"
    /\ Begin("read")
    /\ effects' = Append(effects,
          [step |-> step, tool |-> Lookup(NameOf[tool]), result |-> "running",
           late |-> FALSE])
    /\ UNCHANGED <<host, step, tool, observations, audit, status>>

\* registry.execute looks the name up again and calls the handler.
StartEffect ==
    /\ pc = "start"
    /\ pc' = "effect"
    /\ effects' = Append(effects,
          [step |-> step, tool |-> Lookup(NameOf[tool]), result |-> "running",
           late |-> FALSE])
    /\ UNCHANGED <<host, step, tool, call, observations, audit, status>>

\* late: the token was set or the deadline had passed when the handler ended.
Settle(result) ==
    effects' = [effects EXCEPT ![Len(effects)].result = result,
                               ![Len(effects)].late = cancelled \/ expired]

\* A mutant of EffectEnds: the token and the clock are not looked at again.
EffectEndsUnsettled(result) ==
    /\ pc = "effect"
    /\ Settle(result)
    /\ \/ result = "ok" /\ Observe(<<"tool_completed">>, TRUE)
       \/ result = "raise" /\ Observe(<<"tool_failed">>, FALSE)
       \/ /\ result \in {"fatal", "opaque"}
          /\ Finish(step, <<"run_error">>, "failed")
          /\ UNCHANGED observations
    /\ UNCHANGED <<host, step, tool, call>>

\* A mutant of EffectEnds: a run that is over does not record what the tool did.
EffectEndsUnrecorded(result) ==
    /\ pc = "effect"
    /\ Settle(result)
    /\ \/ /\ result \in {"ok", "raise"}
          /\ cancelled \/ expired
          /\ Finish(step, << >>, IF cancelled THEN "cancelled" ELSE "timed_out")
          /\ UNCHANGED observations
       \/ result = "ok" /\ ~cancelled /\ ~expired /\ Observe(<<"tool_completed">>, TRUE)
       \/ result = "raise" /\ ~cancelled /\ ~expired /\ Observe(<<"tool_failed">>, FALSE)
       \/ /\ result \in {"fatal", "opaque"}
          /\ Finish(step, <<"run_error">>, "failed")
          /\ UNCHANGED observations
    /\ UNCHANGED <<host, step, tool, call>>

\* A mutant of EffectEnds: a handler that raised is called again.
EffectEndsRetrying(result) ==
    /\ pc = "effect"
    /\ Settle(result)
    /\ \/ result = "ok" /\ Observe(<<"tool_completed">>, TRUE)
       \/ result = "raise" /\ pc' = "ready" /\ UNCHANGED <<observations, audit, status>>
       \/ /\ result \in {"fatal", "opaque"}
          /\ Finish(step, <<"run_error">>, "failed")
          /\ UNCHANGED observations
    /\ UNCHANGED <<host, step, tool, call>>

\* The handler returns or raises; only when it returned is the token or the
\* clock looked at before the next step.  What it returned is then turned into
\* text, outside the inner try: where that raises, the run fails.
EffectEnds(result) ==
    /\ pc = "effect"
    /\ Settle(result)
    /\ \/ /\ result = "ok"
          /\ observations' = Append(observations, [step |-> step, ok |-> TRUE])
          /\ \/ cancelled /\ Finish(step, <<"tool_completed">>, "cancelled")
             \/ ~cancelled /\ expired /\ Finish(step, <<"tool_completed">>, "timed_out")
             \/ /\ ~cancelled
                /\ ~expired
                /\ Record(step, <<"tool_completed">>)
                /\ pc' = "head"
                /\ UNCHANGED status
       \/ result = "raise" /\ Observe(<<"tool_failed">>, FALSE)
       \/ /\ result \in {"fatal", "opaque"}
          /\ Finish(step, <<"run_error">>, "failed")
          /\ UNCHANGED observations
    /\ UNCHANGED <<host, step, tool, call>>

\* Ctrl-C is delivered to the controller's thread, not to a worker.
Interrupt ==
    /\ pc \in {"head", "calling", "hook", "ready", "start"}
    /\ Finish(step, <<"run_error">>, "failed")
    /\ UNCHANGED <<host, step, tool, call, observations, effects>>

-----------------------------------------------------------------------------
Controller ==
    \/ NextStep \/ Check \/ QueueEmpty \/ Decide \/ Approval
    \/ ReadOnlyResult \/ Recheck \/ StartEffect

Next ==
    \/ \E t \in Tools : Register(t)
    \/ Cancel
    \/ DeadlinePasses
    \/ \E a \in Answers \union Names : WorkerAnswers(a)
    \/ Controller
    \/ HookReturns
    \/ \E result \in Results \ {"running"} : EffectEnds(result)
    \/ Interrupt

Spec == Init /\ [][Next]_vars

\* The controller's thread is scheduled.  Of the host only the callbacks that run
\* on that thread, side effects and cancel handlers, must return: planners,
\* approvers and read-only tools may hang, and nobody has to cancel.
Fairness ==
    /\ WF_vars(Controller)
    /\ WF_vars(HookReturns)
    /\ WF_vars(\E result \in Results \ {"running"} : EffectEnds(result))

FairSpec == Spec /\ Fairness
-----------------------------------------------------------------------------
(* Properties.                                                              *)

\* Every variable has its type.
TypeOK ==
    /\ registry \subseteq Tools
    /\ approver \in BOOLEAN
    /\ cancelled \in BOOLEAN
    /\ expired \in BOOLEAN
    /\ pc \in Places
    /\ step \in 0..MaxSteps
    /\ tool \in Tools \union {NoTool}
    /\ call \in Calls
    /\ observations \in Seq([step : 1..MaxSteps, ok : BOOLEAN])
    /\ audit \in Seq([kind : Events, step : 0..MaxSteps])
    /\ effects \in Seq(Effect)
    /\ status \in Ends \union {"running"}

Logged(kind, s) == \E k \in DOMAIN audit : audit[k] = [kind |-> kind, step |-> s]

\* Side effects are approved one by one and only for their own step: approval
\* is asked on another thread, which may answer after the run has given up, and
\* nothing between the answer and the handler may lose or reuse it.
Promise == INSTANCE OneShotApproval WITH
    Steps <- 1..MaxSteps,
    granted <- {s \in 1..MaxSteps : Logged("approval_granted", s)},
    executed <- [i \in DOMAIN effects |-> effects[i].step],
    over <- pc = "ended"

KeepsPromise == Promise!Spec

\* The handler that runs is the side effect the user was asked about, though the
\* registry is read again after the answer and the host may register meanwhile.
ApprovedToolRuns ==
    \A i \in DOMAIN effects :
        /\ effects[i].tool \in SideEffects
        /\ effects[i].step = step => effects[i].tool = tool

\* The result is never returned while a side effect is still running.
EffectsSettled ==
    pc = "ended" => \A i \in DOMAIN effects : effects[i].result # "running"

\* The audit trail tells which side effects ran and how each ended; one cut off by
\* a BaseException, or whose output has no text (agent_lite.py:457), is told by the
\* failure of the run instead, which it ends.
EffectsAudited ==
    \A i \in DOMAIN effects : LET e == effects[i] IN
        /\ e.result = "ok" => Logged("tool_completed", e.step)
        /\ e.result = "raise" => Logged("tool_failed", e.step)
        /\ e.result \in {"fatal", "opaque"} => status = "failed" /\ Logged("run_error", e.step)
        /\ ~(Logged("tool_completed", e.step) /\ Logged("tool_failed", e.step))

\* What the planner is told about a step is what the trail says of it: it never
\* sees the outcome of a call that was given up, nor two outcomes of one step.
ObservationsMatchAudit ==
    LET Told(k) == audit[k].kind \in {"tool_rejected", "approval_denied",
                                      "tool_failed", "tool_completed"}
    IN  /\ \A s \in 1..MaxSteps :
              {o \in {observations[i] : i \in DOMAIN observations} : o.step = s}
                = {[step |-> s, ok |-> audit[k].kind = "tool_completed"] :
                      k \in {j \in DOMAIN audit : Told(j) /\ audit[j].step = s}}
        /\ \A i, j \in DOMAIN observations :
              i < j => observations[i].step < observations[j].step

\* A run says "cancelled" or "timed_out" only when it was, and a side effect that
\* returned after either is the last thing the run does; the run then says so,
\* unless the output of that side effect has no text and the run has failed.
StatusHonest ==
    /\ status = "cancelled" => cancelled
    /\ status = "timed_out" => expired
    /\ \A i \in DOMAIN effects :
          effects[i].late /\ effects[i].result \in {"ok", "opaque"} =>
              /\ effects[i].step = step
              /\ status \in IF effects[i].result = "ok" THEN {"cancelled", "timed_out"}
                            ELSE {"failed"}

\* "max_steps" means no more than that all steps were used; a run whose time budget a tool
\* has exhausted is "timed_out", one that was cancelled "cancelled".
BudgetReported ==
    status = "max_steps" => \A i \in DOMAIN effects : ~effects[i].late

\* Once cancelled or past its deadline the run ends, whatever hangs: it waits for
\* no planner, no approver and no read-only tool.
Stops == (cancelled \/ expired) ~> pc = "ended"
=============================================================================
