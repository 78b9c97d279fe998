----------------------------- MODULE AgentProofs -----------------------------
(***************************************************************************)
(* For any host, tools and number of steps: what Agent Lite promises about *)
(* side effects, how a run ends, and what its audit trail says of them.    *)
(***************************************************************************)
EXTENDS AgentLite, TLAPS

----------------------------------------------------------------------------
(***************************************************************************)
(* The inductive invariant.                                                *)
(***************************************************************************)

\* No two registered tools share a name.
NamesUnique == \A t, u \in registry : NameOf[t] = NameOf[u] => t = u

\* A call that is waited for is under way, and one that was given up was for a
\* reason.
CallOK ==
    /\ pc = "calling" => call.op # "idle" /\ call.look \in {"check", "get"}
    /\ pc = "hook" =>
        \/ call.look = "cancelled" /\ cancelled
        \/ call.look = "timed_out" /\ expired

\* The side effect that the user is asked about is registered, and stays so.
ToolOK ==
    (call.op = "approve" /\ pc = "calling") \/ pc \in {"ready", "start", "effect"} =>
        tool \in registry \intersect SideEffects

\* There is a step, in which nothing was started yet before its side effect is.
StepOK == pc \notin {"head", "ended"} => step # 0

Unstarted == {"calling", "hook", "ready", "start"}

\* Side effects are approved ones, at most one to a step; the last one may run.
EffectsOK ==
    /\ \A i \in DOMAIN effects :
        /\ effects[i].step <= step
        /\ pc \in Unstarted => effects[i].step < step
        /\ effects[i].result = "running" => pc = "effect" /\ i = Len(effects)
    /\ pc = "effect" => effects # << >> /\ effects[Len(effects)].step = step
    /\ \A i, j \in DOMAIN effects : i < j => effects[i].step < effects[j].step

\* A side effect has its approval, and a step at most one, just before its start.
GrantsOK ==
    \A s \in 1 .. MaxSteps :
        /\ Logged("approval_granted", s) => s <= step
        /\ Logged("approval_granted", s) /\ pc \in {"calling", "hook"} => s < step
        /\ pc \in {"ready", "start"} => Logged("approval_granted", step)

\* A step has at most one outcome, the last thing it records.
OutcomesOK ==
    \A s \in 0 .. MaxSteps :
        /\ Logged("tool_completed", s) \/ Logged("tool_failed", s) =>
            s <= step /\ (pc \notin {"head", "ended"} => s < step)
        /\ ~(Logged("tool_completed", s) /\ Logged("tool_failed", s))

\* A run has a status once it has ended.
StatusOK == status = "running" <=> pc # "ended"

IInv ==
    /\ TypeOK
    /\ NamesUnique /\ CallOK /\ ToolOK /\ StepOK /\ EffectsOK /\ GrantsOK /\ OutcomesOK /\ StatusOK
    /\ ApprovedToolRuns /\ EffectsAudited /\ StatusHonest

----------------------------------------------------------------------------
(***************************************************************************)
(* Records of the audit trail.                                             *)
(***************************************************************************)

\* The events in a tuple of them.
In(e, kinds) == \E k \in 1 .. Len(kinds) : kinds[k] = e

\* Record adds the events it is given, in a sequence of events.
LEMMA RecordAdds ==
    ASSUME audit \in Seq([kind : Events, step : 0 .. MaxSteps]),
           NEW s \in 0 .. MaxSteps, NEW kinds \in Seq(Events), Record(s, kinds)
    PROVE  /\ audit' \in Seq([kind : Events, step : 0 .. MaxSteps])
           /\ \A e, t : Logged(e, t)' <=> Logged(e, t) \/ (t = s /\ In(e, kinds))
<1> DEFINE added == [i \in 1 .. Len(kinds) |-> [kind |-> kinds[i], step |-> s]]
<1>1. audit' = audit \o added
  BY DEF Record
<1>2. \A i \in 1 .. Len(kinds) : kinds[i] \in Events
  OBVIOUS
<1>3. added \in Seq([kind : Events, step : 0 .. MaxSteps]) /\ Len(added) = Len(kinds)
  BY <1>2
<1>4. audit' \in Seq([kind : Events, step : 0 .. MaxSteps])
  BY <1>1, <1>3
<1>5. /\ DOMAIN audit = 1 .. Len(audit) /\ DOMAIN audit' = 1 .. (Len(audit) + Len(kinds))
      /\ \A k \in 1 .. Len(audit) : audit'[k] = audit[k]
      /\ \A k \in 1 .. Len(kinds) : audit'[Len(audit) + k] = [kind |-> kinds[k], step |-> s]
  BY <1>1, <1>3
<1>6. ASSUME NEW e, NEW t
      PROVE  Logged(e, t)' <=> Logged(e, t) \/ (t = s /\ \E k \in 1 .. Len(kinds) : kinds[k] = e)
  <2>1. ASSUME Logged(e, t) PROVE Logged(e, t)'
    BY <1>5, <2>1 DEF Logged
  <2>2. ASSUME t = s, NEW k \in 1 .. Len(kinds), kinds[k] = e PROVE Logged(e, t)'
    <3>1. Len(audit) + k \in DOMAIN audit'
      BY <1>5
    <3>. QED
      BY <1>5, <2>2, <3>1 DEF Logged
  <2>3. ASSUME Logged(e, t)' PROVE Logged(e, t) \/ (t = s /\ \E k \in 1 .. Len(kinds) : kinds[k] = e)
    <3>1. PICK k \in DOMAIN audit' : audit'[k] = [kind |-> e, step |-> t]
      BY <2>3 DEF Logged
    <3>2. CASE k <= Len(audit)
      BY <1>5, <3>1, <3>2 DEF Logged
    <3>3. CASE k > Len(audit)
      <4>1. k - Len(audit) \in 1 .. Len(kinds) /\ k = Len(audit) + (k - Len(audit))
        BY <1>5, <3>3
      <4>2. [kind |-> kinds[k - Len(audit)], step |-> s] = [kind |-> e, step |-> t]
        BY <1>5, <3>1, <4>1
      <4>3. kinds[k - Len(audit)] = e /\ s = t
        BY <4>2
      <4>. QED
        BY <4>1, <4>3
    <3>. QED
      BY <1>5, <3>2, <3>3
  <2>. QED
    BY <2>1, <2>2, <2>3
<1>. QED
  BY <1>4, <1>6 DEF In

\* What the tuples of the controller hold.
LEMMA InTuples ==
    /\ \A e : ~In(e, << >>)
    /\ \A a, e : In(e, <<a>>) <=> e = a
    /\ \A a, b, e : In(e, <<a, b>>) <=> e \in {a, b}
    /\ \A a, b, c, e : In(e, <<a, b, c>>) <=> e \in {a, b, c}
BY DEF In

\* Finish ends the run and records the events it is given and the end.
LEMMA FinishAdds ==
    ASSUME audit \in Seq([kind : Events, step : 0 .. MaxSteps]),
           NEW s \in 0 .. MaxSteps, NEW kinds \in Seq(Events), NEW end \in Ends,
           Finish(s, kinds, end)
    PROVE  /\ audit' \in Seq([kind : Events, step : 0 .. MaxSteps])
           /\ pc' = "ended" /\ status' = end
           /\ \A e, t : Logged(e, t)' <=> Logged(e, t) \/ (t = s /\ (In(e, kinds) \/ e = EndEvent[end]))
<1>1. EndEvent[end] \in Events
  BY DEF EndEvent, Events, Ends
<1> DEFINE x == EndEvent[end]
<1>2. Append(kinds, x) \in Seq(Events) /\ Len(Append(kinds, x)) = Len(kinds) + 1
  BY <1>1
<1>3. ASSUME NEW e PROVE In(e, Append(kinds, x)) <=> In(e, kinds) \/ e = x
  <2> HIDE DEF x
  <2>1. /\ \A k \in 1 .. Len(kinds) : Append(kinds, x)[k] = kinds[k]
        /\ Append(kinds, x)[Len(kinds) + 1] = x
    BY <1>1
  <2>2. Len(kinds) \in Nat
    OBVIOUS
  <2>. QED
    BY <1>2, <2>1, <2>2 DEF In
<1>4. Record(s, Append(kinds, EndEvent[end])) /\ pc' = "ended" /\ status' = end
  BY DEF Finish
<1>. QED
  BY <1>2, <1>3, <1>4, RecordAdds

\* Observe adds an observation and records the events it is given.
LEMMA ObserveAdds ==
    ASSUME audit \in Seq([kind : Events, step : 0 .. MaxSteps]), step \in 1 .. MaxSteps,
           observations \in Seq([step : 1 .. MaxSteps, ok : BOOLEAN]),
           NEW kinds \in Seq(Events), NEW ok \in BOOLEAN, Observe(kinds, ok)
    PROVE  /\ audit' \in Seq([kind : Events, step : 0 .. MaxSteps])
           /\ observations' \in Seq([step : 1 .. MaxSteps, ok : BOOLEAN])
           /\ pc' = "head" /\ status' = status
           /\ \A e, t : Logged(e, t)' <=> Logged(e, t) \/ (t = step /\ In(e, kinds))
<1>1. Record(step, kinds) /\ pc' = "head" /\ status' = status
  BY DEF Observe
<1>2. observations' \in Seq([step : 1 .. MaxSteps, ok : BOOLEAN])
  <2>1. [step |-> step, ok |-> ok] \in [step : 1 .. MaxSteps, ok : BOOLEAN]
    OBVIOUS
  <2>. QED
    BY <2>1 DEF Observe
<1>3. step \in 0 .. MaxSteps
  BY AgentAssumption
<1>. QED
  BY <1>1, <1>2, <1>3, RecordAdds

----------------------------------------------------------------------------
(***************************************************************************)
(* Steps of the promise OneShotApproval.                                   *)
(***************************************************************************)

\* What the promise sees of a state.
Granted == {s \in 1 .. MaxSteps : Logged("approval_granted", s)}
Executed == [i \in DOMAIN effects |-> effects[i].step]

\* The step is one of the promise, or leaves all that it sees alone.
Keeps == [Promise!Next]_(Promise!promise)

\* A step that grants and executes nothing ends the run or is none.
LEMMA KeepsQuietly ==
    ASSUME Granted' = Granted, Executed' = Executed, pc = "ended" => pc' = "ended"
    PROVE  Keeps
<1>1. CASE pc = "ended" <=> pc' = "ended"
  <2>1. (pc = "ended")' = (pc = "ended")
    BY <1>1
  <2>2. UNCHANGED Promise!promise
    BY <2>1 DEF Granted, Executed, Promise!promise
  <2>. QED
    BY <2>2 DEF Keeps
<1>2. CASE pc # "ended" /\ pc' = "ended"
  <2>1. Promise!End
    BY <1>2 DEF Promise!End, Granted, Executed
  <2>. QED
    BY <2>1 DEF Keeps, Promise!Next
<1>. QED
  BY <1>1, <1>2

\* An approval is granted for a step later than any before.
LEMMA KeepsGrant ==
    ASSUME pc # "ended", pc' # "ended", step \in 1 .. MaxSteps, \A t \in Granted : t < step,
           Granted' = Granted \union {step}, Executed' = Executed
    PROVE  Keeps
<1>1. Promise!Grant(step)
  BY DEF Promise!Grant, Granted, Executed
<1>. QED
  BY <1>1 DEF Keeps, Promise!Next

\* A side effect is started, the first one of a step that is granted and the last.
LEMMA KeepsExecute ==
    ASSUME pc # "ended", pc' # "ended", step \in Granted, \A t \in Granted : t <= step,
           \A i \in DOMAIN Executed : Executed[i] # step,
           Granted' = Granted, Executed' = Append(Executed, step)
    PROVE  Keeps
<1>1. PICK s \in 1 .. MaxSteps : s = step
  BY DEF Granted
<1>2. Promise!Execute(s)
  BY <1>1 DEF Promise!Execute, Granted, Executed
<1>. QED
  BY <1>2 DEF Keeps, Promise!Next

----------------------------------------------------------------------------
(***************************************************************************)
(* What the controller's steps have in common.                             *)
(***************************************************************************)

\* The step records the events of K under step s.
Logs(K, s) == \A e, t : Logged(e, t)' <=> Logged(e, t) \/ (t = s /\ e \in K)

\* The host does nothing, and no side effect starts or ends.
NoEffect == UNCHANGED <<registry, cancelled, expired, approver, effects>>

Outcomes == {"tool_completed", "tool_failed"}

\* The run ends outside of a side effect.
EndStep(K, end) ==
    /\ pc \notin {"effect", "ended"} /\ pc' = "ended"
    /\ status' = end /\ end \in Ends
    /\ end = "cancelled" => cancelled
    /\ end = "timed_out" => expired
    /\ step' = step \/ (pc = "head" /\ step < MaxSteps /\ step' = step + 1)
    /\ K \intersect (Outcomes \union {"approval_granted"}) = {}
    /\ Logs(K, step')
    /\ audit' \in Seq([kind : Events, step : 0 .. MaxSteps])
    /\ call' \in Calls
    /\ NoEffect /\ UNCHANGED <<tool, observations>>

\* The side effects of a run are a sequence, and each is a record.
LEMMA EffectTyped ==
    ASSUME TypeOK
    PROVE  /\ DOMAIN effects = 1 .. Len(effects) /\ Len(effects) \in Nat
           /\ \A i \in DOMAIN effects :
                effects[i] \in Effect /\ effects[i].step \in 1 .. MaxSteps /\ effects[i].step \in Nat
<1>1. effects \in Seq(Effect)
  BY DEF TypeOK
<1>2. \A e \in Effect : e.step \in 1 .. MaxSteps /\ e.step \in Nat
  BY AgentAssumption DEF Effect
<1>3. DOMAIN effects = 1 .. Len(effects) /\ Len(effects) \in Nat
  BY <1>1
<1>4. \A i \in DOMAIN effects : effects[i] \in Effect
  BY <1>1, <1>3
<1>. QED
  BY <1>2, <1>3, <1>4

\* A run that ends outside of a side effect keeps the invariant.
LEMMA EndStepOK ==
    ASSUME IInv, NEW K, NEW end, EndStep(K, end)
    PROVE  IInv' /\ Keeps
<1> USE AgentAssumption
<1>1. TypeOK /\ TypeOK'
  BY DEF IInv, TypeOK, EndStep, NoEffect, Places
<1>2. NamesUnique' /\ CallOK' /\ ToolOK' /\ StepOK' /\ StatusOK'
  BY DEF IInv, EndStep, NoEffect, NamesUnique, CallOK, ToolOK, StepOK, StatusOK, Ends
<1>3. step \in Nat /\ step' \in Nat /\ step <= step'
  BY <1>1 DEF EndStep, TypeOK
<1>4. \A i \in DOMAIN effects : effects[i].step \in Nat
  BY <1>1, EffectTyped
<1>5. EffectsOK'
  BY <1>3, <1>4 DEF IInv, EndStep, NoEffect, EffectsOK, Unstarted
<1>6. GrantsOK' /\ OutcomesOK'
  BY <1>3 DEF IInv, EndStep, GrantsOK, OutcomesOK, Logs, Outcomes
<1>7. ApprovedToolRuns'
  BY <1>3, <1>4 DEF IInv, EndStep, NoEffect, ApprovedToolRuns, EffectsOK
<1>8. \A i \in DOMAIN effects : effects[i].result \notin {"fatal", "opaque"}
  BY DEF IInv, EndStep, EffectsAudited, StatusOK
<1>9. EffectsAudited'
  BY <1>8 DEF IInv, EndStep, NoEffect, EffectsAudited, Logs, Outcomes
<1>10. StatusHonest'
  BY DEF IInv, EndStep, NoEffect, StatusHonest, StatusOK
<1>11. Keeps
  <2>1. Granted' = Granted /\ Executed' = Executed /\ pc' = "ended"
    BY DEF EndStep, NoEffect, Logs, Granted, Executed
  <2>. QED
    BY <2>1, KeepsQuietly
<1>. QED
  BY <1>1, <1>2, <1>5, <1>6, <1>7, <1>9, <1>10, <1>11 DEF IInv

\* The planner is told of a call, and the next step begins.
TellStep(K) ==
    /\ pc = "calling" /\ pc' = "head"
    /\ "approval_granted" \notin K /\ ~(Outcomes \subseteq K)
    /\ Logs(K, step)
    /\ audit' \in Seq([kind : Events, step : 0 .. MaxSteps])
    /\ observations' \in Seq([step : 1 .. MaxSteps, ok : BOOLEAN])
    /\ tool' \in Tools \union {NoTool}
    /\ call' \in Calls
    /\ NoEffect /\ UNCHANGED <<step, status>>

\* Telling the planner keeps the invariant.
LEMMA TellStepOK ==
    ASSUME IInv, NEW K, TellStep(K)
    PROVE  IInv' /\ Keeps
<1> USE AgentAssumption
<1>1. TypeOK /\ TypeOK'
  BY DEF IInv, TypeOK, TellStep, NoEffect, Places
<1>2. NamesUnique' /\ CallOK' /\ ToolOK' /\ StepOK' /\ StatusOK'
  BY DEF IInv, TellStep, NoEffect, NamesUnique, CallOK, ToolOK, StepOK, StatusOK
<1>3. /\ step \in 1 .. MaxSteps /\ step \in Nat
      /\ \A i \in DOMAIN effects : effects[i].step < step /\ effects[i].step \in 1 .. MaxSteps
  BY <1>1, EffectTyped DEF IInv, TellStep, EffectsOK, Unstarted, StepOK, TypeOK
<1>4. EffectsOK'
  BY <1>3 DEF IInv, TellStep, NoEffect, EffectsOK, Unstarted
<1>5. GrantsOK'
  BY <1>3 DEF IInv, TellStep, GrantsOK, Logs
<1>6. OutcomesOK'
  BY <1>3 DEF IInv, TellStep, OutcomesOK, Logs, Outcomes
<1>7. ApprovedToolRuns'
  BY <1>3 DEF IInv, TellStep, NoEffect, ApprovedToolRuns
<1>8. EffectsAudited'
  BY <1>3 DEF IInv, TellStep, NoEffect, EffectsAudited, Logs, Outcomes
<1>9. StatusHonest'
  BY DEF IInv, TellStep, NoEffect, StatusHonest
<1>10. Keeps
  <2>1. Granted' = Granted /\ Executed' = Executed /\ pc # "ended"
    BY DEF TellStep, NoEffect, Logs, Granted, Executed
  <2>. QED
    BY <2>1, KeepsQuietly
<1>. QED
  BY <1>1, <1>2, <1>4, <1>5, <1>6, <1>7, <1>8, <1>9, <1>10 DEF IInv

\* The controller goes on towards the answer of its call or a side effect.
GoStep(K) ==
    /\ pc \in {"head", "calling", "ready"} /\ pc' \in Unstarted
    /\ step' = IF pc = "head" THEN step + 1 ELSE step
    /\ step' \in 1 .. MaxSteps
    /\ tool' = tool \/ (pc = "calling" /\ tool' \in Tools)
    /\ K \intersect Outcomes = {}
    /\ Logs(K, step')
    /\ audit' \in Seq([kind : Events, step : 0 .. MaxSteps])
    /\ call' \in Calls
    /\ NoEffect /\ UNCHANGED <<observations, status>>

\* Going on keeps what the invariant says of effects, outcomes and the status.
LEMMA GoStepOK ==
    ASSUME IInv, NEW K, GoStep(K)
    PROVE  /\ TypeOK' /\ NamesUnique' /\ StepOK' /\ StatusOK' /\ EffectsOK' /\ OutcomesOK'
           /\ ApprovedToolRuns' /\ EffectsAudited' /\ StatusHonest'
           /\ ("approval_granted" \notin K \/ (pc = "calling" /\ K = {"approval_granted"}) => Keeps)
<1> USE AgentAssumption
<1>1. TypeOK /\ TypeOK'
  BY DEF IInv, TypeOK, GoStep, NoEffect, Places, Unstarted
<1>2. NamesUnique' /\ StepOK' /\ StatusOK'
  BY DEF IInv, GoStep, NoEffect, NamesUnique, StepOK, StatusOK, Unstarted
<1>3. /\ step \in Nat /\ step' \in Nat /\ step <= step'
      /\ \A i \in DOMAIN effects : effects[i].step < step' /\ effects[i].step \in 1 .. MaxSteps
  BY <1>1, EffectTyped DEF IInv, GoStep, EffectsOK, Unstarted, TypeOK
<1>4. EffectsOK'
  BY <1>3 DEF IInv, GoStep, NoEffect, EffectsOK, Unstarted
<1>5. OutcomesOK'
  BY <1>3 DEF IInv, GoStep, OutcomesOK, Logs, Outcomes, Unstarted
<1>6. ApprovedToolRuns'
  BY <1>3 DEF IInv, GoStep, NoEffect, ApprovedToolRuns
<1>7. EffectsAudited'
  BY <1>3 DEF IInv, GoStep, NoEffect, EffectsAudited, Logs, Outcomes
<1>8. StatusHonest'
  BY <1>3 DEF IInv, GoStep, NoEffect, StatusHonest, StatusOK, Unstarted
<1>9. CASE "approval_granted" \notin K
  <2>1. Granted' = Granted /\ Executed' = Executed /\ pc # "ended"
    BY <1>9 DEF GoStep, NoEffect, Logs, Granted, Executed
  <2>2. Keeps
    BY <2>1, KeepsQuietly
  <2>. QED
    BY <1>1, <1>2, <1>4, <1>5, <1>6, <1>7, <1>8, <2>2
<1>10. CASE pc = "calling" /\ K = {"approval_granted"}
  <2>1. step \in 1 .. MaxSteps /\ pc # "ended" /\ pc' # "ended" /\ step' = step
    BY <1>10 DEF GoStep, Unstarted
  <2>2. \A t \in Granted : t < step
    BY <1>10 DEF IInv, GrantsOK, Granted
  <2>3. Granted' = Granted \union {step} /\ Executed' = Executed
    BY <1>10, <2>1 DEF GoStep, NoEffect, Logs, Granted, Executed
  <2>4. Keeps
    BY <2>1, <2>2, <2>3, KeepsGrant
  <2>. QED
    BY <1>1, <1>2, <1>4, <1>5, <1>6, <1>7, <1>8, <2>4
<1>. QED
  BY <1>1, <1>2, <1>4, <1>5, <1>6, <1>7, <1>8, <1>9, <1>10

----------------------------------------------------------------------------
(***************************************************************************)
(* The host.                                                               *)
(***************************************************************************)

\* The host may register, cancel, let time pass and answer.
HostStep ==
    \/ \E t \in Tools : Register(t)
    \/ Cancel
    \/ DeadlinePasses
    \/ \E a \in Answers \union Names : WorkerAnswers(a)

\* No step of the host disturbs the invariant or the promise.
LEMMA HostStepOK ==
    ASSUME IInv, HostStep
    PROVE  IInv' /\ Keeps
<1>1. /\ UNCHANGED <<approver, pc, step, tool, observations, audit, effects, status>>
      /\ registry \subseteq registry' /\ registry' \subseteq Tools
      /\ (cancelled => cancelled') /\ (expired => expired')
      /\ cancelled' \in BOOLEAN /\ expired' \in BOOLEAN
      /\ call' \in Calls /\ call'.op = call.op /\ call'.look = call.look
  <2>1. TypeOK
    BY DEF IInv
  <2>2. CASE \E t \in Tools : Register(t)
    BY <2>1, <2>2 DEF TypeOK, Register
  <2>3. CASE Cancel
    BY <2>1, <2>3 DEF TypeOK, Cancel
  <2>4. CASE DeadlinePasses
    BY <2>1, <2>4 DEF TypeOK, DeadlinePasses
  <2>5. CASE \E a \in Answers \union Names : WorkerAnswers(a)
    <3>1. PICK a \in Answers \union Names : WorkerAnswers(a)
      BY <2>5
    <3>2. call' = [call EXCEPT !.answer = a] /\ call \in Calls
      BY <2>1, <3>1 DEF TypeOK, WorkerAnswers
    <3>3. call' \in Calls /\ call'.op = call.op /\ call'.look = call.look
      BY <3>2 DEF Calls
    <3>. QED
      BY <2>1, <3>1, <3>3 DEF TypeOK, WorkerAnswers, host
  <2>. QED
    BY <2>2, <2>3, <2>4, <2>5 DEF HostStep
<1>2. TypeOK'
  BY <1>1 DEF IInv, TypeOK
<1>3. NamesUnique'
  BY DEF IInv, NamesUnique, HostStep, Register, Cancel, DeadlinePasses, WorkerAnswers, host
<1>4. ToolOK' /\ StepOK' /\ StatusOK'
  BY <1>1 DEF IInv, ToolOK, StepOK, StatusOK
<1>8. /\ pc' = pc /\ status' = status /\ effects' = effects /\ step' = step
      /\ CallOK /\ StatusHonest
  BY <1>1 DEF IInv
<1>7. StatusHonest'
  BY <1>1, <1>8, Zenon DEF StatusHonest
<1>9. CallOK'
  BY <1>1, <1>8, Zenon DEF CallOK
<1>6. EffectsOK' /\ ApprovedToolRuns'
  BY <1>1 DEF IInv, EffectsOK, ApprovedToolRuns
<1>5. GrantsOK' /\ OutcomesOK' /\ EffectsAudited'
  BY <1>1 DEF IInv, GrantsOK, OutcomesOK, EffectsAudited, Logged
<1>. QED
  <2>1. Granted' = Granted /\ Executed' = Executed
    BY <1>1 DEF Logged, Granted, Executed
  <2>2. Keeps
    BY <1>1, <2>1, KeepsQuietly
  <2>. QED
    BY <1>2, <1>3, <1>4, <1>5, <1>6, <1>7, <1>9, <2>2 DEF IInv

----------------------------------------------------------------------------
(***************************************************************************)
(* The controller: one lemma per action, which keeps the invariant and the *)
(* promise.  Decide and EffectEnds have one step per way they may go on.   *)
(***************************************************************************)

\* Lookup finds the registered tool of a name.
LEMMA LookupFinds ==
    ASSUME NamesUnique
    PROVE  /\ \A name : Lookup(name) \in registry \union {NoTool}
           /\ \A t \in registry : Lookup(NameOf[t]) = t
BY DEF NamesUnique, Lookup

\* The events that the controller records, alone or in tuples.
LEMMA KindsTyped ==
    /\ << >> \in Seq(Events)
    /\ \A e \in Events : <<e>> \in Seq(Events)
    /\ \A e, f \in Events : <<e, f>> \in Seq(Events)
    /\ \A e, f, g \in Events : <<e, f, g>> \in Seq(Events)
OBVIOUS

\* A run that ends with one event, or none, before the end's own.
LEMMA EndsWith ==
    ASSUME IInv, NEW s \in {step, step'}, s \in 0 .. MaxSteps,
           NEW kinds \in {<< >>, <<"final_answer">>, <<"run_error">>, <<"tool_cancelled">>},
           NEW end \in Ends, Finish(s, kinds, end),
           pc \notin {"effect", "ended"}, end = "cancelled" => cancelled, end = "timed_out" => expired,
           step' = s, s = step \/ (pc = "head" /\ step < MaxSteps /\ s = step + 1),
           call' \in Calls, NoEffect, tool' = tool, observations' = observations
    PROVE  IInv' /\ Keeps
<1> DEFINE K == {e \in Events : In(e, kinds) \/ e = EndEvent[end]}
<1>1. kinds \in Seq(Events)
  <2>1. "final_answer" \in Events /\ "run_error" \in Events /\ "tool_cancelled" \in Events
    BY DEF Events
  <2>. QED
    BY <2>1, KindsTyped
<1>2. \A e : In(e, kinds) => e \in {"final_answer", "run_error", "tool_cancelled"}
  BY InTuples
<1>3. EndEvent[end] \in {"run_completed", "run_max_steps", "run_timed_out", "run_cancelled", "run_failed"}
  BY DEF EndEvent, Ends
<1>4. K \intersect (Outcomes \union {"approval_granted"}) = {}
  BY <1>2, <1>3 DEF Outcomes
<1>5. /\ audit' \in Seq([kind : Events, step : 0 .. MaxSteps])
      /\ pc' = "ended" /\ status' = end
      /\ \A e, t : Logged(e, t)' <=> Logged(e, t) \/ (t = s /\ (In(e, kinds) \/ e = EndEvent[end]))
  BY <1>1, FinishAdds DEF IInv, TypeOK
<1>6. \A e : In(e, kinds) \/ e = EndEvent[end] <=> e \in K
  BY <1>2, <1>3 DEF Events
<1>7. Logs(K, s)
  BY <1>5, <1>6 DEF Logs
<1> HIDE DEF K
<1>8. EndStep(K, end)
  BY <1>4, <1>5, <1>7 DEF EndStep
<1>. QED
  BY <1>8, EndStepOK

\* Nothing is recorded by a step that leaves the trail alone.
LEMMA LogsNothing ==
    ASSUME IInv, UNCHANGED audit
    PROVE  Logs({}, step') /\ audit' \in Seq([kind : Events, step : 0 .. MaxSteps])
BY DEF IInv, TypeOK, Logs, Logged

\* A call that begins has its type.
LEMMA CallTyped ==
    ASSUME NEW op \in {"plan", "approve", "read"}
    PROVE  [op |-> op, look |-> "check", answer |-> "none"] \in Calls
BY DEF Calls, Answers

\* The loop's head: the next step, or the end at the last one.
LEMMA NextStepOK ==
    ASSUME IInv, NextStep
    PROVE  IInv' /\ Keeps
<1> USE AgentAssumption
<1>1. /\ pc = "head" /\ step \in 0 .. MaxSteps /\ call \in Calls
      /\ NoEffect /\ tool' = tool /\ observations' = observations
  BY DEF IInv, TypeOK, NextStep, NoEffect, host
<1>2. CASE step = MaxSteps /\ Finish(step, << >>, "max_steps") /\ UNCHANGED <<step, call>>
  BY <1>1, <1>2, EndsWith DEF Ends
<1>3. CASE step < MaxSteps /\ step' = step + 1 /\ cancelled /\ Finish(step + 1, << >>, "cancelled") /\ UNCHANGED call
  <2>1. step' \in 0 .. MaxSteps /\ Finish(step', << >>, "cancelled")
    BY <1>1, <1>3
  <2>. QED
    BY <1>1, <1>3, <2>1, EndsWith DEF Ends
<1>4. CASE step < MaxSteps /\ step' = step + 1 /\ Begin("plan") /\ UNCHANGED <<audit, status>>
  <2>1. pc' = "calling" /\ call' = [op |-> "plan", look |-> "check", answer |-> "none"] /\ call' \in Calls
    BY <1>4, CallTyped DEF Begin
  <2>2. step' \in 1 .. MaxSteps
    BY <1>1, <1>4
  <2>3. GoStep({})
    BY <1>1, <1>4, <2>1, <2>2, LogsNothing DEF GoStep, Unstarted
  <2>4. CallOK' /\ ToolOK'
    BY <2>1 DEF CallOK, ToolOK
  <2>5. GrantsOK'
    BY <1>1, <1>4, <2>1, LogsNothing DEF IInv, GrantsOK, Logs
  <2>. QED
    BY <2>3, <2>4, <2>5, GoStepOK DEF IInv
<1>. QED
  BY <1>2, <1>3, <1>4 DEF NextStep

\* A call is given up: its thread stays behind, and its answer is not used.
LEMMA GiveUpOK ==
    ASSUME IInv, NEW end \in {"cancelled", "timed_out"}, GiveUp(end), pc = "calling",
           end = "cancelled" => cancelled, end = "timed_out" => expired,
           UNCHANGED <<host, step, tool, observations, effects>>
    PROVE  IInv' /\ Keeps
<1>1. /\ step \in 1 .. MaxSteps /\ step \in 0 .. MaxSteps /\ call \in Calls
      /\ call' = [call EXCEPT !.look = end] /\ NoEffect
  BY AgentAssumption DEF IInv, TypeOK, StepOK, GiveUp, NoEffect, host
<1>2. call' \in Calls /\ call'.look = end /\ call'.op = call.op
  BY <1>1 DEF Calls
<1>3. CASE pc' = "hook" /\ UNCHANGED <<audit, status>>
  <2>1. GoStep({})
    BY <1>1, <1>2, <1>3, LogsNothing DEF GoStep, Unstarted
  <2>2. CallOK' /\ ToolOK'
    BY <1>1, <1>2, <1>3, Zenon DEF CallOK, ToolOK, NoEffect
  <2>3. GrantsOK'
    BY <1>1, <1>3, LogsNothing DEF IInv, GrantsOK, Logs
  <2>. QED
    BY <2>1, <2>2, <2>3, GoStepOK DEF IInv
<1>4. CASE Finish(step, IF call.op = "read" THEN <<"tool_cancelled">> ELSE << >>, end)
  <2>1. PICK kinds \in {<< >>, <<"tool_cancelled">>} : Finish(step, kinds, end)
    BY <1>4
  <2>. QED
    BY <1>1, <1>2, <2>1, EndsWith DEF Ends
<1>. QED
  BY <1>3, <1>4 DEF GiveUp

\* A look at the clock and the flag while a call is out.
LEMMA CheckOK ==
    ASSUME IInv, Check
    PROVE  IInv' /\ Keeps
<1>1. CASE cancelled /\ GiveUp("cancelled")
  BY <1>1, GiveUpOK DEF Check
<1>2. CASE expired /\ GiveUp("timed_out")
  BY <1>2, GiveUpOK DEF Check
<1>3. CASE call' = [call EXCEPT !.look = "get"] /\ UNCHANGED <<pc, audit, status>>
  <2>1. /\ pc = "calling" /\ step \in 1 .. MaxSteps /\ call \in Calls /\ NoEffect
        /\ UNCHANGED <<pc, step, tool, observations, audit, status>>
    BY <1>3, AgentAssumption DEF IInv, TypeOK, StepOK, Check, NoEffect, host
  <2>2. call' \in Calls /\ call'.look = "get" /\ call'.op = call.op
    BY <1>3, <2>1 DEF Calls
  <2>3. GoStep({})
    BY <2>1, <2>2, LogsNothing DEF GoStep, Unstarted
  <2>4. CallOK' /\ ToolOK'
    BY <2>1, <2>2 DEF IInv, CallOK, ToolOK, NoEffect
  <2>5. GrantsOK'
    BY <2>1, LogsNothing DEF IInv, GrantsOK, Logs
  <2>. QED
    BY <2>3, <2>4, <2>5, GoStepOK DEF IInv
<1>. QED
  BY <1>1, <1>2, <1>3 DEF Check

\* No answer yet.
LEMMA QueueEmptyOK ==
    ASSUME IInv, QueueEmpty
    PROVE  IInv' /\ Keeps
<1>1. /\ pc = "calling" /\ step \in 1 .. MaxSteps /\ call \in Calls /\ NoEffect
      /\ call' = [call EXCEPT !.look = "check"]
      /\ UNCHANGED <<pc, step, tool, observations, audit, status>>
  BY AgentAssumption DEF IInv, TypeOK, StepOK, QueueEmpty, NoEffect, host
<1>2. call' \in Calls /\ call'.look = "check" /\ call'.op = call.op
  BY <1>1 DEF Calls
<1>3. GoStep({})
  BY <1>1, <1>2, LogsNothing DEF GoStep, Unstarted
<1>4. CallOK' /\ ToolOK'
  BY <1>1, <1>2 DEF IInv, CallOK, ToolOK, NoEffect
<1>5. GrantsOK'
  BY <1>1, LogsNothing DEF IInv, GrantsOK, Logs
<1>. QED
  BY <1>3, <1>4, <1>5, GoStepOK DEF IInv

\* A cancel handler returns, and the run ends.
LEMMA HookReturnsOK ==
    ASSUME IInv, HookReturns
    PROVE  IInv' /\ Keeps
<1>1. /\ step \in 0 .. MaxSteps /\ call \in Calls /\ NoEffect /\ pc = "hook"
      /\ Finish(step, <<"tool_cancelled">>, call.look)
      /\ UNCHANGED <<step, tool, call, observations>>
  BY DEF IInv, TypeOK, HookReturns, NoEffect, host
<1>2. /\ call.look \in Ends
      /\ call.look = "cancelled" => cancelled
      /\ call.look = "timed_out" => expired
  BY <1>1 DEF IInv, CallOK, Ends
<1>. QED
  BY <1>1, <1>2, EndsWith

\* A BaseException ends a run that is in no side effect.
LEMMA InterruptOK ==
    ASSUME IInv, Interrupt
    PROVE  IInv' /\ Keeps
<1>1. /\ step \in 0 .. MaxSteps /\ call \in Calls /\ NoEffect /\ pc \notin {"effect", "ended"}
      /\ Finish(step, <<"run_error">>, "failed")
      /\ UNCHANGED <<step, tool, call, observations>>
  BY DEF IInv, TypeOK, Interrupt, NoEffect, host
<1>. QED
  BY <1>1, EndsWith DEF Ends

\* What an answered call of the controller leaves alone, and its place.
LEMMA AnsweredFacts ==
    ASSUME IInv, NEW op \in {"plan", "approve", "read"}, Answered(op),
           UNCHANGED <<host, step, effects>>
    PROVE  /\ pc = "calling" /\ call.op = op /\ NoEffect /\ step' = step
           /\ step \in 1 .. MaxSteps /\ step \in 0 .. MaxSteps
           /\ tool \in Tools \union {NoTool} /\ Idle \in Calls
           /\ audit \in Seq([kind : Events, step : 0 .. MaxSteps])
           /\ observations \in Seq([step : 1 .. MaxSteps, ok : BOOLEAN])
BY AgentAssumption DEF IInv, TypeOK, StepOK, Answered, NoEffect, host, Idle, Calls, Answers

\* A step that tells the planner of a call without a side effect.
LEMMA TellsWith ==
    ASSUME IInv, NEW kinds \in Seq(Events), NEW ok \in BOOLEAN, Observe(kinds, ok),
           ~In("approval_granted", kinds),
           ~(In("tool_completed", kinds) /\ In("tool_failed", kinds)),
           pc = "calling", step' = step, step \in 1 .. MaxSteps, NoEffect,
           tool' \in Tools \union {NoTool}, call' \in Calls
    PROVE  IInv' /\ Keeps
<1> DEFINE K == {e \in Events : In(e, kinds)}
<1>1. /\ audit' \in Seq([kind : Events, step : 0 .. MaxSteps])
      /\ observations' \in Seq([step : 1 .. MaxSteps, ok : BOOLEAN])
      /\ pc' = "head" /\ status' = status
      /\ \A e, t : Logged(e, t)' <=> Logged(e, t) \/ (t = step /\ In(e, kinds))
  BY ObserveAdds DEF IInv, TypeOK
<1>2. \A e : In(e, kinds) <=> e \in K
  BY DEF In
<1>3. Logs(K, step)
  BY <1>1, <1>2 DEF Logs
<1>4. "approval_granted" \notin K /\ ~(Outcomes \subseteq K)
  BY DEF Outcomes
<1> HIDE DEF K
<1>5. TellStep(K)
  BY <1>1, <1>3, <1>4 DEF TellStep
<1>. QED
  BY <1>5, TellStepOK

\* A step on which events are recorded that are no outcome.
LEMMA RecordsKinds ==
    ASSUME IInv, NEW kinds \in Seq(Events), step \in 0 .. MaxSteps, step' = step, Record(step, kinds)
    PROVE  /\ audit' \in Seq([kind : Events, step : 0 .. MaxSteps])
           /\ Logs({e \in Events : In(e, kinds)}, step')
<1>1. /\ audit' \in Seq([kind : Events, step : 0 .. MaxSteps])
      /\ \A e, t : Logged(e, t)' <=> Logged(e, t) \/ (t = step /\ In(e, kinds))
  BY RecordAdds DEF IInv, TypeOK
<1>2. \A e : In(e, kinds) <=> e \in {x \in Events : In(x, kinds)}
  BY DEF In
<1>. QED
  BY <1>1, <1>2 DEF Logs

\* The planner's answer: an end, a refusal, or a call of a tool.
LEMMA DecideOK ==
    ASSUME IInv, Decide
    PROVE  IInv' /\ Keeps
<1> DEFINE found == Lookup(call.answer)
<1>1. /\ pc = "calling" /\ call.op = "plan" /\ NoEffect /\ step' = step
      /\ step \in 1 .. MaxSteps /\ step \in 0 .. MaxSteps
      /\ tool \in Tools \union {NoTool} /\ Idle \in Calls
  BY AnsweredFacts DEF Decide
<1>2. found \in registry \union {NoTool} /\ registry \subseteq Tools /\ NoTool \notin Tools
  BY LookupFinds, AgentAssumption DEF IInv, TypeOK
<1> HIDE DEF found
<1>3. CASE Finish(step, <<"final_answer">>, "completed") /\ call' = Idle /\ UNCHANGED <<tool, observations>>
  BY <1>1, <1>3, EndsWith DEF Ends
<1>4. CASE Finish(step, <<"run_error">>, "failed") /\ call' = Idle /\ UNCHANGED <<tool, observations>>
  BY <1>1, <1>4, EndsWith DEF Ends
<1>5. CASE Observe(<<"tool_requested", "tool_rejected">>, FALSE) /\ call' = Idle /\ UNCHANGED tool
  <2> DEFINE kinds == <<"tool_requested", "tool_rejected">>
  <2>1. kinds \in Seq(Events)
    BY KindsTyped DEF Events
  <2>2. \A e : In(e, kinds) => e \in {"tool_requested", "tool_rejected"}
    BY InTuples
  <2>3. Observe(kinds, FALSE)
    BY <1>5
  <2> HIDE DEF kinds
  <2>. QED
    <3>1. ~In("approval_granted", kinds) /\ ~(In("tool_completed", kinds) /\ In("tool_failed", kinds))
      BY <2>2
    <3>2. tool' \in Tools \union {NoTool} /\ call' \in Calls
      BY <1>1, <1>5
    <3>. QED
      BY <1>1, <2>1, <2>3, <3>1, <3>2, TellsWith
<1>6. CASE /\ found \in Tools \ SideEffects /\ tool' = found
           /\ Record(step, <<"tool_requested">>) /\ Begin("read")
           /\ UNCHANGED <<observations, status>>
  <2> DEFINE K == {e \in Events : In(e, <<"tool_requested">>)}
  <2>1. <<"tool_requested">> \in Seq(Events)
    BY KindsTyped DEF Events
  <2>2. pc' = "calling" /\ call' = [op |-> "read", look |-> "check", answer |-> "none"] /\ call' \in Calls
    BY <1>6, CallTyped DEF Begin
  <2>3. audit' \in Seq([kind : Events, step : 0 .. MaxSteps]) /\ Logs(K, step')
    BY <1>1, <1>6, <2>1, RecordsKinds
  <2>4. K \intersect Outcomes = {} /\ "approval_granted" \notin K
    BY InTuples DEF Outcomes
  <2> HIDE DEF K
  <2>5. GoStep(K)
    BY <1>1, <1>6, <2>2, <2>3, <2>4 DEF GoStep, Unstarted
  <2>6. CallOK' /\ ToolOK'
    BY <2>2 DEF CallOK, ToolOK
  <2>7. GrantsOK'
    BY <1>1, <2>2, <2>3, <2>4 DEF IInv, GrantsOK, Logs
  <2>. QED
    BY <1>1, <2>3, <2>4, <2>5, <2>6, <2>7, GoStepOK DEF IInv
<1>7. CASE /\ found \in SideEffects /\ tool' = found
           /\ Record(step, <<"tool_requested", "approval_requested">>) /\ Begin("approve")
           /\ UNCHANGED <<observations, status>>
  <2> DEFINE K == {e \in Events : In(e, <<"tool_requested", "approval_requested">>)}
  <2>1. <<"tool_requested", "approval_requested">> \in Seq(Events)
    BY KindsTyped DEF Events
  <2>2. pc' = "calling" /\ call' = [op |-> "approve", look |-> "check", answer |-> "none"] /\ call' \in Calls
    BY <1>7, CallTyped DEF Begin
  <2>3. audit' \in Seq([kind : Events, step : 0 .. MaxSteps]) /\ Logs(K, step')
    BY <1>1, <1>7, <2>1, RecordsKinds
  <2>4. K \intersect Outcomes = {} /\ "approval_granted" \notin K
    BY InTuples DEF Outcomes
  <2>5. found \in registry \intersect SideEffects /\ found \in Tools
    BY <1>2, <1>7, AgentAssumption
  <2> HIDE DEF K
  <2>6. GoStep(K)
    BY <1>1, <1>7, <2>2, <2>3, <2>4, <2>5 DEF GoStep, Unstarted
  <2>7. CallOK' /\ ToolOK'
    BY <1>1, <1>7, <2>2, <2>5 DEF CallOK, ToolOK, NoEffect
  <2>8. GrantsOK'
    BY <1>1, <2>2, <2>3, <2>4 DEF IInv, GrantsOK, Logs
  <2>. QED
    BY <2>4, <2>6, <2>7, <2>8, GoStepOK DEF IInv
<1>8. CASE /\ found \in SideEffects /\ tool' = found
           /\ Observe(<<"tool_requested", "approval_requested", "approval_denied">>, FALSE)
           /\ call' = Idle
  <2> DEFINE kinds == <<"tool_requested", "approval_requested", "approval_denied">>
  <2>1. kinds \in Seq(Events)
    BY KindsTyped DEF Events
  <2>2. found \in Tools
    BY <1>8, AgentAssumption
  <2>3. \A e : In(e, kinds) => e \in {"tool_requested", "approval_requested", "approval_denied"}
    BY InTuples
  <2>4. Observe(kinds, FALSE)
    BY <1>8
  <2> HIDE DEF kinds
  <2>. QED
    <3>1. ~In("approval_granted", kinds) /\ ~(In("tool_completed", kinds) /\ In("tool_failed", kinds))
      BY <2>3
    <3>2. tool' \in Tools \union {NoTool} /\ call' \in Calls
      BY <1>1, <1>8, <2>2
    <3>. QED
      BY <1>1, <2>1, <2>4, <3>1, <3>2, TellsWith
<1>. QED
  BY <1>3, <1>4, <1>5, <1>6, <1>7, <1>8 DEF Decide, found

\* The user's answer: the side effect may start, once, or not.
LEMMA ApprovalOK ==
    ASSUME IInv, Approval
    PROVE  IInv' /\ Keeps
<1>1. /\ pc = "calling" /\ call.op = "approve" /\ NoEffect /\ step' = step /\ tool' = tool
      /\ step \in 1 .. MaxSteps /\ step \in 0 .. MaxSteps
      /\ tool \in Tools \union {NoTool} /\ Idle \in Calls /\ call' = Idle
  BY AnsweredFacts DEF Approval
<1>2. CASE Record(step, <<"approval_granted">>) /\ pc' = "ready" /\ UNCHANGED <<observations, status>>
  <2> DEFINE K == {e \in Events : In(e, <<"approval_granted">>)}
  <2>1. <<"approval_granted">> \in Seq(Events)
    BY KindsTyped DEF Events
  <2>2. audit' \in Seq([kind : Events, step : 0 .. MaxSteps]) /\ Logs(K, step')
    BY <1>1, <1>2, <2>1, RecordsKinds
  <2>3. K = {"approval_granted"}
    BY InTuples DEF Events
  <2>4. K \intersect Outcomes = {}
    BY <2>3 DEF Outcomes
  <2> HIDE DEF K
  <2>5. GoStep(K)
    BY <1>1, <1>2, <2>2, <2>4 DEF GoStep, Unstarted
  <2>6. CallOK' /\ ToolOK'
    BY <1>1, <1>2 DEF IInv, CallOK, ToolOK, NoEffect
  <2>7. GrantsOK'
    BY <1>1, <1>2, <2>2, <2>3 DEF IInv, GrantsOK, Logs
  <2>. QED
    BY <1>1, <2>3, <2>4, <2>5, <2>6, <2>7, GoStepOK DEF IInv
<1>3. CASE Observe(<<"approval_denied">>, FALSE)
  <2>1. <<"approval_denied">> \in Seq(Events)
    BY KindsTyped DEF Events
  <2>2. \A e : In(e, <<"approval_denied">>) => e = "approval_denied"
    BY InTuples
  <2>. QED
    BY <1>1, <1>3, <2>1, <2>2, TellsWith
<1>4. CASE Finish(step, <<"run_error">>, "failed") /\ UNCHANGED observations
  BY <1>1, <1>4, EndsWith DEF Ends
<1>. QED
  BY <1>2, <1>3, <1>4 DEF Approval

\* A read-only tool returns.
LEMMA ReadOnlyResultOK ==
    ASSUME IInv, ReadOnlyResult
    PROVE  IInv' /\ Keeps
<1>1. /\ pc = "calling" /\ NoEffect /\ step' = step /\ tool' = tool
      /\ step \in 1 .. MaxSteps /\ step \in 0 .. MaxSteps
      /\ tool \in Tools \union {NoTool} /\ Idle \in Calls /\ call' = Idle
  BY AnsweredFacts DEF ReadOnlyResult
<1>2. <<"tool_completed">> \in Seq(Events) /\ <<"tool_failed">> \in Seq(Events)
  BY KindsTyped DEF Events
<1>6. /\ \A e : In(e, <<"tool_completed">>) => e = "tool_completed"
      /\ \A e : In(e, <<"tool_failed">>) => e = "tool_failed"
  BY InTuples
<1>3. CASE Observe(<<"tool_completed">>, TRUE)
  BY <1>1, <1>2, <1>3, <1>6, TellsWith
<1>4. CASE Observe(<<"tool_failed">>, FALSE)
  BY <1>1, <1>2, <1>4, <1>6, TellsWith
<1>5. CASE Finish(step, <<"run_error">>, "failed") /\ UNCHANGED observations
  BY <1>1, <1>5, EndsWith DEF Ends
<1>. QED
  BY <1>3, <1>4, <1>5 DEF ReadOnlyResult

\* The last look before the side effect, and the second lookup.
LEMMA RecheckOK ==
    ASSUME IInv, Recheck
    PROVE  IInv' /\ Keeps
<1>1. /\ pc = "ready" /\ step \in 1 .. MaxSteps /\ step \in 0 .. MaxSteps /\ call \in Calls /\ NoEffect
      /\ UNCHANGED <<step, tool, call, observations>>
  BY AgentAssumption DEF IInv, TypeOK, StepOK, Recheck, NoEffect, host
<1>2. CASE cancelled /\ Finish(step, <<"tool_cancelled">>, "cancelled")
  BY <1>1, <1>2, EndsWith DEF Ends
<1>3. CASE expired /\ Finish(step, <<"tool_cancelled">>, "timed_out")
  BY <1>1, <1>3, EndsWith DEF Ends
<1>4. CASE pc' = "start" /\ UNCHANGED <<audit, status>>
  <2>1. GoStep({})
    BY <1>1, <1>4, LogsNothing DEF GoStep, Unstarted
  <2>2. CallOK' /\ ToolOK'
    BY <1>1, <1>4 DEF IInv, CallOK, ToolOK, NoEffect
  <2>3. GrantsOK'
    BY <1>1, <1>4, LogsNothing DEF IInv, GrantsOK, Logs
  <2>. QED
    BY <2>1, <2>2, <2>3, GoStepOK DEF IInv
<1>. QED
  BY <1>2, <1>3, <1>4 DEF Recheck

----------------------------------------------------------------------------
(***************************************************************************)
(* Side effects.                                                           *)
(***************************************************************************)

\* The side effect that starts is the one approved for this step, and the only one.
LEMMA StartEffectOK ==
    ASSUME IInv, StartEffect
    PROVE  IInv' /\ Keeps
<1> DEFINE new == [step |-> step, tool |-> tool, result |-> "running", late |-> FALSE]
<1>1. TypeOK /\ tool \in registry \intersect SideEffects /\ step \in 1 .. MaxSteps /\ step \in Nat
  BY AgentAssumption DEF IInv, TypeOK, ToolOK, StepOK, StartEffect
<1>2. Lookup(NameOf[tool]) = tool
  BY <1>1, LookupFinds DEF IInv
<1>3. /\ pc = "start" /\ pc' = "effect" /\ effects' = Append(effects, new)
      /\ UNCHANGED <<registry, approver, cancelled, expired, step, tool, call, observations, audit, status>>
  BY <1>2 DEF StartEffect, host
<1>4. new \in Effect
  BY <1>1, AgentAssumption DEF Effect, Results, TypeOK
<1>5. /\ new.step = step /\ new.tool = tool /\ new.result = "running" /\ new.late = FALSE
  OBVIOUS
<1> HIDE DEF new
<1>6. effects \in Seq(Effect) /\ Len(effects) \in Nat
  BY <1>1, EffectTyped DEF TypeOK
<1>7. /\ effects' \in Seq(Effect) /\ Len(effects') = Len(effects) + 1
      /\ DOMAIN effects = 1 .. Len(effects) /\ DOMAIN effects' = 1 .. (Len(effects) + 1)
      /\ \A i \in DOMAIN effects : effects'[i] = effects[i]
      /\ effects'[Len(effects) + 1] = new /\ effects' # << >>
  BY <1>3, <1>4, <1>6
<1>8. \A i \in DOMAIN effects' : i \in DOMAIN effects \/ i = Len(effects')
  BY <1>6, <1>7
<1>9. TypeOK'
  BY <1>3, <1>7 DEF IInv, TypeOK, Places
<1>10. NamesUnique' /\ CallOK' /\ ToolOK' /\ StepOK' /\ StatusOK'
  BY <1>1, <1>3 DEF IInv, NamesUnique, CallOK, ToolOK, StepOK, StatusOK
<1>11. /\ \A i \in DOMAIN effects : effects[i].step < step /\ effects[i].step \in Nat /\ effects[i].result # "running"
  BY <1>1, <1>3, EffectTyped DEF IInv, EffectsOK, Unstarted
<1>12. EffectsOK'
  BY <1>1, <1>3, <1>5, <1>6, <1>7, <1>8, <1>11 DEF IInv, EffectsOK, Unstarted
<1>13. GrantsOK' /\ OutcomesOK'
  BY <1>3 DEF IInv, GrantsOK, OutcomesOK, Logged
<1>14. ApprovedToolRuns'
  BY <1>1, <1>3, <1>5, <1>7, <1>8, <1>11 DEF IInv, ApprovedToolRuns
<1>15. \A s : step = s => ~Logged("tool_completed", s) /\ ~Logged("tool_failed", s)
  BY <1>1, <1>3, AgentAssumption DEF IInv, OutcomesOK
<1>16. EffectsAudited'
  BY <1>3, <1>5, <1>7, <1>8, <1>15 DEF IInv, EffectsAudited, Logged
<1>17. StatusHonest'
  BY <1>3, <1>5, <1>7, <1>8, <1>11 DEF IInv, StatusHonest, StatusOK
<1>18. Keeps
  <2>1. step \in Granted /\ \A t \in Granted : t <= step
    BY <1>1, <1>3 DEF IInv, GrantsOK, Granted
  <2>2. \A i \in DOMAIN Executed : Executed[i] # step
    BY <1>1, <1>11 DEF Executed
  <2>3. Granted' = Granted
    BY <1>3 DEF Granted, Logged
  <2>4. Executed' = Append(Executed, step)
    <3>1. Executed \in Seq(1 .. MaxSteps) /\ Len(Executed) = Len(effects) /\ DOMAIN Executed = DOMAIN effects
      BY <1>1, <1>6, <1>7, EffectTyped DEF Executed
    <3>2. /\ DOMAIN Executed' = 1 .. (Len(effects) + 1)
          /\ \A i \in DOMAIN effects : Executed'[i] = Executed[i]
          /\ Executed'[Len(effects) + 1] = step
      BY <1>5, <1>6, <1>7 DEF Executed
    <3>3. Executed' \in Seq(1 .. MaxSteps) /\ Len(Executed') = Len(effects) + 1
      BY <1>1, <1>5, <1>6, <1>7, EffectTyped DEF Executed
    <3>. QED
      BY <1>1, <1>6, <1>7, <3>1, <3>2, <3>3
  <2>. QED
    BY <1>1, <1>3, <2>1, <2>2, <2>3, <2>4, KeepsExecute
<1>. QED
  BY <1>9, <1>10, <1>12, <1>13, <1>14, <1>16, <1>17, <1>18 DEF IInv

\* One event of the controller, recorded alone or with the end of the run.
LEMMA OneEvent ==
    ASSUME IInv, NEW e \in Events, step \in 1 .. MaxSteps
    PROVE  /\ Record(step, <<e>>) => audit' \in Seq([kind : Events, step : 0 .. MaxSteps]) /\ Logs({e}, step)
           /\ \A ok \in BOOLEAN : Observe(<<e>>, ok) =>
                /\ audit' \in Seq([kind : Events, step : 0 .. MaxSteps])
                /\ observations' \in Seq([step : 1 .. MaxSteps, ok : BOOLEAN])
                /\ pc' = "head" /\ status' = status /\ Logs({e}, step)
           /\ \A end \in Ends : Finish(step, <<e>>, end) =>
                /\ audit' \in Seq([kind : Events, step : 0 .. MaxSteps])
                /\ pc' = "ended" /\ status' = end /\ Logs({e, EndEvent[end]}, step)
<1> DEFINE kinds == <<e>>
<1>1. kinds \in Seq(Events) /\ step \in 0 .. MaxSteps
  BY KindsTyped, AgentAssumption
<1>2. \A x : In(x, kinds) <=> x = e
  BY InTuples
<1>3. /\ audit \in Seq([kind : Events, step : 0 .. MaxSteps])
      /\ observations \in Seq([step : 1 .. MaxSteps, ok : BOOLEAN])
  BY DEF IInv, TypeOK
<1> HIDE DEF kinds
<1>4. ASSUME Record(step, kinds)
      PROVE  audit' \in Seq([kind : Events, step : 0 .. MaxSteps]) /\ Logs({e}, step)
  BY <1>1, <1>2, <1>3, <1>4, RecordAdds DEF Logs
<1>5. ASSUME NEW ok \in BOOLEAN, Observe(kinds, ok)
      PROVE  /\ audit' \in Seq([kind : Events, step : 0 .. MaxSteps])
             /\ observations' \in Seq([step : 1 .. MaxSteps, ok : BOOLEAN])
             /\ pc' = "head" /\ status' = status /\ Logs({e}, step)
  <2>1. /\ audit' \in Seq([kind : Events, step : 0 .. MaxSteps])
        /\ observations' \in Seq([step : 1 .. MaxSteps, ok : BOOLEAN])
        /\ pc' = "head" /\ status' = status
        /\ \A x, t : Logged(x, t)' <=> Logged(x, t) \/ (t = step /\ In(x, kinds))
    BY <1>1, <1>3, <1>5, ObserveAdds
  <2>. QED
    BY <1>2, <2>1 DEF Logs
<1>6. ASSUME NEW end \in Ends, Finish(step, kinds, end)
      PROVE  /\ audit' \in Seq([kind : Events, step : 0 .. MaxSteps])
             /\ pc' = "ended" /\ status' = end /\ Logs({e, EndEvent[end]}, step)
  BY <1>1, <1>2, <1>3, <1>6, FinishAdds DEF Logs
<1>. QED
  BY <1>4, <1>5, <1>6 DEF kinds

\* The step records the outcome of a side effect, and no other one.
Tells(K, result) ==
    /\ Logs(K, step) /\ "approval_granted" \notin K
    /\ result = "ok" => "tool_completed" \in K /\ "tool_failed" \notin K
    /\ result = "raise" => "tool_failed" \in K /\ "tool_completed" \notin K
    /\ result \in {"fatal", "opaque"} => "run_error" \in K /\ K \intersect Outcomes = {}

\* How a side effect ends: what is recorded, and whether the run ends with it.
LEMMA EffectEndsWith ==
    ASSUME IInv, NEW result \in {"ok", "raise", "fatal", "opaque"}, EffectEnds(result)
    PROVE  /\ audit' \in Seq([kind : Events, step : 0 .. MaxSteps])
           /\ observations' \in Seq([step : 1 .. MaxSteps, ok : BOOLEAN])
           /\ pc' \in {"head", "ended"}
           /\ pc' = "head" => status' = status
           /\ pc' = "ended" => status' \in Ends
           /\ status' = "cancelled" => cancelled
           /\ status' = "timed_out" => expired
           /\ result \in {"fatal", "opaque"} => status' = "failed"
           /\ result = "ok" /\ (cancelled \/ expired) => status' \in {"cancelled", "timed_out"}
           /\ \E K : Tells(K, result)
<1>1. /\ audit \in Seq([kind : Events, step : 0 .. MaxSteps])
      /\ observations \in Seq([step : 1 .. MaxSteps, ok : BOOLEAN])
      /\ step \in 1 .. MaxSteps /\ step \in 0 .. MaxSteps /\ pc = "effect" /\ status = "running"
  BY AgentAssumption DEF IInv, TypeOK, StepOK, StatusOK, EffectEnds
<1>2. "tool_completed" \in Events /\ "tool_failed" \in Events /\ "run_error" \in Events
  BY DEF Events
<1>3. Append(observations, [step |-> step, ok |-> TRUE]) \in Seq([step : 1 .. MaxSteps, ok : BOOLEAN])
  <2>1. [step |-> step, ok |-> TRUE] \in [step : 1 .. MaxSteps, ok : BOOLEAN]
    BY <1>1
  <2>. QED
    BY <1>1, <2>1
<1>4. CASE /\ result = "ok" /\ observations' = Append(observations, [step |-> step, ok |-> TRUE])
           /\ \/ cancelled /\ Finish(step, <<"tool_completed">>, "cancelled")
              \/ ~cancelled /\ expired /\ Finish(step, <<"tool_completed">>, "timed_out")
  <2>1. PICK end \in {"cancelled", "timed_out"} :
            /\ Finish(step, <<"tool_completed">>, end)
            /\ end = "cancelled" => cancelled
            /\ end = "timed_out" => expired
    BY <1>4
  <2>2. /\ audit' \in Seq([kind : Events, step : 0 .. MaxSteps]) /\ pc' = "ended" /\ status' = end
        /\ Logs({"tool_completed", EndEvent[end]}, step)
    BY <1>1, <1>2, <2>1, OneEvent DEF Ends
  <2>3. EndEvent[end] \in {"run_cancelled", "run_timed_out"}
    BY DEF EndEvent
  <2>4. PICK K : K = {"tool_completed", EndEvent[end]}
    OBVIOUS
  <2>5. Logs(K, step) /\ "approval_granted" \notin K /\ "tool_completed" \in K /\ "tool_failed" \notin K
    BY <2>2, <2>3, <2>4
  <2>. QED
    BY <1>3, <1>4, <2>1, <2>2, <2>5 DEF Ends, Tells
<1>5. CASE /\ result = "ok" /\ ~cancelled /\ ~expired
           /\ observations' = Append(observations, [step |-> step, ok |-> TRUE])
           /\ Record(step, <<"tool_completed">>) /\ pc' = "head" /\ UNCHANGED status
  <2>1. audit' \in Seq([kind : Events, step : 0 .. MaxSteps]) /\ Logs({"tool_completed"}, step)
    BY <1>1, <1>2, <1>5, OneEvent
  <2>. QED
    BY <1>1, <1>3, <1>5, <2>1 DEF Tells
<1>6. CASE result = "raise" /\ Observe(<<"tool_failed">>, FALSE)
  <2>1. /\ audit' \in Seq([kind : Events, step : 0 .. MaxSteps])
        /\ observations' \in Seq([step : 1 .. MaxSteps, ok : BOOLEAN])
        /\ pc' = "head" /\ status' = status /\ Logs({"tool_failed"}, step)
    BY <1>1, <1>2, <1>6, OneEvent
  <2>. QED
    BY <1>1, <1>6, <2>1 DEF Tells
<1>7. CASE result \in {"fatal", "opaque"} /\ Finish(step, <<"run_error">>, "failed") /\ UNCHANGED observations
  <2>1. EndEvent["failed"] = "run_failed"
    BY DEF EndEvent
  <2>2. /\ audit' \in Seq([kind : Events, step : 0 .. MaxSteps]) /\ pc' = "ended" /\ status' = "failed"
        /\ Logs({"run_error", "run_failed"}, step)
    BY <1>1, <1>2, <1>7, <2>1, OneEvent DEF Ends
  <2>3. PICK K : K = {"run_error", "run_failed"}
    OBVIOUS
  <2>4. Logs(K, step) /\ "approval_granted" \notin K /\ "run_error" \in K /\ K \intersect Outcomes = {}
    BY <2>2, <2>3 DEF Outcomes
  <2>. QED
    BY <1>1, <1>7, <2>2, <2>4 DEF Ends, Tells
<1>. QED
  BY <1>4, <1>5, <1>6, <1>7 DEF EffectEnds

\* The end of a side effect is recorded once and changes no earlier one.
LEMMA EffectEndsOK ==
    ASSUME IInv, NEW result \in {"ok", "raise", "fatal", "opaque"}, EffectEnds(result)
    PROVE  IInv' /\ Keeps
<1> DEFINE n == Len(effects)
<1>1. /\ TypeOK /\ pc = "effect" /\ status = "running" /\ step \in 1 .. MaxSteps /\ step \in Nat
      /\ UNCHANGED <<registry, approver, cancelled, expired, step, tool, call>>
  BY AgentAssumption DEF IInv, TypeOK, StepOK, StatusOK, EffectEnds, host
<1>2. /\ DOMAIN effects = 1 .. n /\ n \in Nat /\ n \in DOMAIN effects /\ effects[n].step = step
      /\ \A i \in DOMAIN effects :
            effects[i] \in Effect /\ effects[i].step \in 1 .. MaxSteps /\ effects[i].step \in Nat
  BY <1>1, EffectTyped DEF IInv, EffectsOK
<1>3. effects' = [effects EXCEPT ![n] = [@ EXCEPT !.result = result, !.late = cancelled \/ expired]]
  BY <1>2 DEF EffectEnds, Settle
<1> DEFINE settled == [effects[n] EXCEPT !.result = result, !.late = cancelled \/ expired]
<1>4. /\ settled \in Effect /\ settled.step = step /\ settled.tool = effects[n].tool
      /\ settled.result = result /\ settled.late = (cancelled \/ expired)
  BY <1>2 DEF Effect, Results
<1> HIDE DEF settled
<1>5. /\ DOMAIN effects' = DOMAIN effects /\ Len(effects') = n /\ effects' \in Seq(Effect)
      /\ effects'[n] = settled
      /\ \A i \in DOMAIN effects : i # n => effects'[i] = effects[i]
  BY <1>1, <1>2, <1>3, <1>4 DEF TypeOK, settled
<1> HIDE DEF n
<1>6. /\ audit' \in Seq([kind : Events, step : 0 .. MaxSteps])
      /\ observations' \in Seq([step : 1 .. MaxSteps, ok : BOOLEAN])
      /\ pc' \in {"head", "ended"}
      /\ pc' = "head" => status' = status
      /\ pc' = "ended" => status' \in Ends
      /\ status' = "cancelled" => cancelled
      /\ status' = "timed_out" => expired
      /\ result \in {"fatal", "opaque"} => status' = "failed"
      /\ result = "ok" /\ (cancelled \/ expired) => status' \in {"cancelled", "timed_out"}
  BY EffectEndsWith
<1>7. PICK K : Tells(K, result)
  BY EffectEndsWith
<1>8. TypeOK'
  BY <1>1, <1>5, <1>6 DEF TypeOK, Places
<1>9. NamesUnique' /\ CallOK' /\ ToolOK' /\ StepOK' /\ StatusOK'
  BY <1>1, <1>6 DEF IInv, NamesUnique, CallOK, ToolOK, StepOK, StatusOK, Ends
<1>10. /\ \A i \in DOMAIN effects : effects'[i].step = effects[i].step /\ effects'[i].tool = effects[i].tool
       /\ \A i \in DOMAIN effects : i # n => effects[i].step < step
       /\ \A i \in DOMAIN effects : i # n => effects[i].result # "running"
       /\ \A i \in DOMAIN effects : effects'[i].result # "running"
  BY <1>1, <1>2, <1>4, <1>5 DEF IInv, EffectsOK, n
<1>11. EffectsOK'
  <2>1. \A i \in DOMAIN effects' : effects'[i].step <= step' /\ pc' \notin Unstarted
    BY <1>1, <1>5, <1>6, <1>10 DEF IInv, EffectsOK, Unstarted
  <2>2. \A i, j \in DOMAIN effects' : i < j => effects'[i].step < effects'[j].step
    BY <1>5, <1>10 DEF IInv, EffectsOK
  <2>. QED
    BY <1>5, <1>6, <1>10, <2>1, <2>2 DEF EffectsOK
<1>12. GrantsOK'
  BY <1>1, <1>6, <1>7 DEF IInv, GrantsOK, Logs, Tells
<1>13. \A s : s = step => ~Logged("tool_completed", s) /\ ~Logged("tool_failed", s)
  BY <1>1, AgentAssumption DEF IInv, OutcomesOK
<1>14. OutcomesOK'
  BY <1>1, <1>6, <1>7, <1>13 DEF IInv, OutcomesOK, Logs, Outcomes, Tells
<1>15. ApprovedToolRuns'
  BY <1>1, <1>5, <1>10 DEF IInv, ApprovedToolRuns
<1>16. \A i \in DOMAIN effects : i # n => effects[i].result \notin {"fatal", "opaque"}
  BY <1>1 DEF IInv, EffectsAudited
<1>17. EffectsAudited'
  BY <1>1, <1>2, <1>4, <1>5, <1>6, <1>7, <1>10, <1>13, <1>16 DEF IInv, EffectsAudited, Logs, Outcomes, Tells
<1>18. \A i \in DOMAIN effects : i # n => ~(effects[i].late /\ effects[i].result \in {"ok", "opaque"})
  BY <1>1 DEF IInv, StatusHonest
<1>19. \A i \in DOMAIN effects' :
          effects'[i].late /\ effects'[i].result \in {"ok", "opaque"} =>
              /\ i = n /\ effects'[i].result = result
              /\ result \in {"ok", "opaque"} /\ (cancelled \/ expired)
  BY <1>4, <1>5, <1>18
<1>20. StatusHonest'
  BY <1>1, <1>2, <1>4, <1>5, <1>6, <1>19 DEF StatusHonest
<1>21. Keeps
  <2>1. Executed' = Executed
    BY <1>5, <1>10 DEF Executed
  <2>2. Granted' = Granted
    BY <1>1, <1>7 DEF Granted, Logs, Tells
  <2>. QED
    BY <1>1, <2>1, <2>2, KeepsQuietly
<1>. QED
  BY <1>8, <1>9, <1>11, <1>12, <1>14, <1>15, <1>17, <1>20, <1>21 DEF IInv

----------------------------------------------------------------------------
(***************************************************************************)
(* The theorems.                                                           *)
(***************************************************************************)

\* The invariant holds at first, is kept by every step, and so always.
LEMMA InvInit == Init => IInv
<1>. SUFFICES ASSUME Init PROVE IInv
  OBVIOUS
<1>1. audit = <<[kind |-> "run_started", step |-> 0]>> /\ [kind |-> "run_started", step |-> 0] \in [kind : Events, step : 0 .. MaxSteps]
  BY AgentAssumption DEF Init, Events
<1>2. audit \in Seq([kind : Events, step : 0 .. MaxSteps]) /\ DOMAIN audit = {1} /\ audit[1].kind = "run_started"
  BY <1>1
<1>3. \A e, s : Logged(e, s) => e = "run_started"
  BY <1>1, <1>2 DEF Logged
<1>4. TypeOK
  <2>1. call \in Calls /\ pc \in Places /\ status \in Ends \union {"running"}
    BY DEF Init, Idle, Calls, Answers, Places
  <2>2. step \in 0 .. MaxSteps
    BY AgentAssumption DEF Init
  <2>3. observations \in Seq([step : 1 .. MaxSteps, ok : BOOLEAN]) /\ effects \in Seq(Effect)
    BY DEF Init
  <2>. QED
    BY <1>2, <2>1, <2>2, <2>3 DEF Init, TypeOK
<1>5. NamesUnique /\ CallOK /\ ToolOK /\ StepOK /\ StatusOK
  BY DEF Init, NamesUnique, CallOK, ToolOK, StepOK, StatusOK
<1>6. EffectsOK /\ ApprovedToolRuns /\ EffectsAudited /\ StatusHonest
  BY DEF Init, EffectsOK, ApprovedToolRuns, EffectsAudited, StatusHonest
<1>7. GrantsOK /\ OutcomesOK
  BY <1>3 DEF Init, GrantsOK, OutcomesOK
<1>. QED
  BY <1>4, <1>5, <1>6, <1>7 DEF IInv

\* Every step keeps the invariant, and what KeepsPromise asks of a step.
LEMMA InvStep == IInv /\ [Next]_vars => IInv' /\ Keeps
<1>. SUFFICES ASSUME IInv, [Next]_vars PROVE IInv' /\ Keeps
  OBVIOUS
<1>1. CASE HostStep
  BY <1>1, HostStepOK
<1>2. CASE Controller
  BY <1>2, NextStepOK, CheckOK, QueueEmptyOK, DecideOK, ApprovalOK, ReadOnlyResultOK, RecheckOK,
     StartEffectOK DEF Controller
<1>3. CASE HookReturns
  BY <1>3, HookReturnsOK
<1>4. ASSUME NEW result \in Results \ {"running"}, EffectEnds(result) PROVE IInv' /\ Keeps
  BY <1>4, EffectEndsOK DEF Results
<1>5. CASE Interrupt
  BY <1>5, InterruptOK
<1>6. CASE UNCHANGED vars
  <2>1. Granted' = Granted /\ Executed' = Executed /\ pc' = pc
    BY <1>6 DEF vars, Granted, Executed, Logged
  <2>2. Keeps
    BY <2>1, KeepsQuietly
  <2>. QED
    BY <1>6, <2>2 DEF vars, IInv, TypeOK, NamesUnique, CallOK, ToolOK, StepOK, EffectsOK, GrantsOK,
     OutcomesOK, StatusOK, ApprovedToolRuns, EffectsAudited, StatusHonest, Logged
<1>. QED
  BY <1>1, <1>2, <1>3, <1>4, <1>5, <1>6 DEF Next, HostStep

\* The invariant of every behaviour.
LEMMA InvHolds == Spec => []IInv
BY InvInit, InvStep, PTL DEF Spec

\* Every variable keeps its type.
THEOREM AgentTypeCorrect == Spec => []TypeOK
<1>1. IInv => TypeOK
  BY DEF IInv
<1>. QED
  BY <1>1, InvHolds, PTL

\* The handler that runs is the registered side effect that the user was asked
\* about for this step, whatever the host registers meanwhile.
THEOREM ToolsAreApproved == Spec => []ApprovedToolRuns
<1>1. IInv => ApprovedToolRuns
  BY DEF IInv
<1>. QED
  BY <1>1, InvHolds, PTL

\* No result is returned while a side effect runs.
THEOREM EffectsAreSettled == Spec => []EffectsSettled
<1>1. IInv => EffectsSettled
  BY DEF IInv, EffectsOK, EffectsSettled
<1>. QED
  BY <1>1, InvHolds, PTL

\* The trail says of every side effect that ran how it ended.
THEOREM EffectsAreAudited == Spec => []EffectsAudited
<1>1. IInv => EffectsAudited
  BY DEF IInv
<1>. QED
  BY <1>1, InvHolds, PTL

\* A run that says it was cancelled or timed out was, and a side effect that
\* returned too late is the last thing it did.
THEOREM StatusIsHonest == Spec => []StatusHonest
<1>1. IInv => StatusHonest
  BY DEF IInv
<1>. QED
  BY <1>1, InvHolds, PTL

\* Agent Lite implements OneShotApproval: at most one side effect per approval,
\* before the next approval and before the end.
THEOREM AgentKeepsPromise == Spec => KeepsPromise
<1>1. Init => Promise!Init
  <2>. SUFFICES ASSUME Init PROVE Promise!Init
    OBVIOUS
  <2>1. \A s : ~Logged("approval_granted", s)
    BY DEF Init, Logged
  <2>2. [i \in DOMAIN effects |-> effects[i].step] = << >>
    BY DEF Init
  <2>3. (pc = "ended") = FALSE
    BY DEF Init
  <2>. QED
    BY <2>1, <2>2, <2>3 DEF Promise!Init
<1>2. IInv /\ [Next]_vars => [Promise!Next]_(Promise!promise)
  BY InvStep DEF Keeps
<1>. QED
  BY <1>1, <1>2, InvHolds, PTL DEF Spec, KeepsPromise, Promise!Spec

----------------------------------------------------------------------------
(***************************************************************************)
(* What the planner is told.                                               *)
(***************************************************************************)

\* The events that go with an observation.
ToldKinds == {"tool_rejected", "approval_denied", "tool_failed", "tool_completed"}

Observed(s, ok) ==
    \E i \in DOMAIN observations : observations[i] = [step |-> s, ok |-> ok]

Between == pc \in {"head", "ended"}

\* A step is told of at most once, as the last thing it does.
ObservationsOK ==
    /\ \A i \in DOMAIN observations :
          observations[i].step <= step /\ (Between \/ observations[i].step < step)
    /\ \A i, j \in DOMAIN observations :
          i < j => observations[i].step < observations[j].step

\* So does the trail, and the two agree on what was told.
TrailOK ==
    /\ \A e \in ToldKinds, s \in 1 .. MaxSteps :
          Logged(e, s) => s <= step /\ (Between \/ s < step)
    /\ \A s \in 1 .. MaxSteps :
          /\ Observed(s, TRUE) <=> Logged("tool_completed", s)
          /\ Observed(s, FALSE) <=> \E e \in ToldKinds \ {"tool_completed"} : Logged(e, s)

ObsInv == ObservationsOK /\ TrailOK

\* A step that tells the planner nothing.
Quiet ==
    /\ UNCHANGED observations
    /\ \A e \in ToldKinds : \A t : Logged(e, t)' <=> Logged(e, t)
    /\ \/ step' = step /\ (Between' \/ ~Between)
       \/ step' = step + 1

\* A step that tells it one thing and records it, once in this step.
Tell(e, ok) ==
    /\ observations' = Append(observations, [step |-> step, ok |-> ok])
    /\ \A x \in ToldKinds : \A t : Logged(x, t)' <=> Logged(x, t) \/ (t = step /\ x = e)
    /\ step' = step /\ ~Between /\ Between'

\* What a sequence over S holds is in S.
LEMMA SeqElements ==
    ASSUME NEW S, NEW q \in Seq(S)
    PROVE  DOMAIN q = 1 .. Len(q) /\ \A k \in DOMAIN q : q[k] \in S
  OBVIOUS

\* What is observed after one more observation.
LEMMA ObservedAppend ==
    ASSUME TypeOK, step \in 1 .. MaxSteps, NEW b \in BOOLEAN,
           observations' = Append(observations, [step |-> step, ok |-> b])
    PROVE  /\ DOMAIN observations' = 1 .. (Len(observations) + 1)
           /\ DOMAIN observations = 1 .. Len(observations) /\ Len(observations) \in Nat
           /\ \A i \in DOMAIN observations : observations'[i] = observations[i]
           /\ observations'[Len(observations) + 1] = [step |-> step, ok |-> b]
           /\ \A s, ok : Observed(s, ok)' <=> Observed(s, ok) \/ (s = step /\ ok = b)
<1> DEFINE o == [step |-> step, ok |-> b]
<1>1. observations \in Seq([step : 1 .. MaxSteps, ok : BOOLEAN])
  BY DEF TypeOK
<1>2. o \in [step : 1 .. MaxSteps, ok : BOOLEAN]
  OBVIOUS
<1>3. \A s, ok : [step |-> s, ok |-> ok] = o <=> s = step /\ ok = b
  OBVIOUS
<1> HIDE DEF o
<1>4. /\ DOMAIN observations' = 1 .. (Len(observations) + 1)
      /\ DOMAIN observations = 1 .. Len(observations) /\ Len(observations) \in Nat
      /\ \A i \in DOMAIN observations : observations'[i] = observations[i]
      /\ observations'[Len(observations) + 1] = o
  BY <1>1, <1>2 DEF o
<1>5. \A i \in DOMAIN observations' : i \in DOMAIN observations \/ i = Len(observations) + 1
  BY <1>4
<1>6. Len(observations) + 1 \in DOMAIN observations'
  BY <1>4
<1>7. ASSUME NEW s, NEW ok
      PROVE  Observed(s, ok)' <=> Observed(s, ok) \/ [step |-> s, ok |-> ok] = o
  <2>1. \A i \in DOMAIN observations : i \in DOMAIN observations'
    BY <1>4
  <2>. QED
    BY <1>4, <1>5, <1>6, <2>1, Zenon DEF Observed
<1>. QED
  BY <1>3, <1>4, <1>7 DEF o

\* The observations of a run have a step each.
LEMMA ObservationTyped ==
    ASSUME TypeOK
    PROVE  \A i \in DOMAIN observations :
              observations[i].step \in 1 .. MaxSteps /\ observations[i].step \in Nat
<1>1. observations \in Seq([step : 1 .. MaxSteps, ok : BOOLEAN])
  BY DEF TypeOK
<1>2. \A o \in [step : 1 .. MaxSteps, ok : BOOLEAN] : o.step \in 1 .. MaxSteps /\ o.step \in Nat
  BY AgentAssumption
<1>3. DOMAIN observations = 1 .. Len(observations)
  BY <1>1
<1>4. \A i \in DOMAIN observations : observations[i] \in [step : 1 .. MaxSteps, ok : BOOLEAN]
  BY <1>1, SeqElements, Zenon
<1>. QED
  BY <1>2, <1>4

\* A step that tells the planner nothing also logs nothing it should hear.
LEMMA QuietOK ==
    ASSUME IInv, ObsInv, TypeOK', Quiet
    PROVE  ObsInv'
<1>1. step \in Nat /\ step' \in Nat /\ step <= step'
  BY AgentAssumption DEF IInv, TypeOK, Quiet
<1>2. \A i \in DOMAIN observations : observations[i].step \in Nat
  BY ObservationTyped DEF IInv
<1>3. \A s \in 1 .. MaxSteps : s \in Nat
  BY AgentAssumption
<1>4. \A n \in Nat : n <= step /\ (Between \/ n < step) => n <= step' /\ (Between' \/ n < step')
  BY <1>1 DEF Quiet
<1>5. ObservationsOK'
  BY <1>2, <1>4 DEF ObsInv, ObservationsOK, Quiet
<1>6. \A s, ok : Observed(s, ok)' <=> Observed(s, ok)
  BY DEF Quiet, Observed
<1>7. TrailOK'
  <2>1. \A e \in ToldKinds, s \in 1 .. MaxSteps :
            Logged(e, s)' => s <= step' /\ (Between' \/ s < step')
    BY <1>3, <1>4 DEF ObsInv, TrailOK, Quiet
  <2>2. "tool_completed" \in ToldKinds
    BY DEF ToldKinds
  <2>3. \A e \in ToldKinds : \A t : Logged(e, t)' <=> Logged(e, t)
    BY DEF Quiet
  <2>4. \A s \in 1 .. MaxSteps :
          /\ Observed(s, TRUE)' <=> Logged("tool_completed", s)'
          /\ Observed(s, FALSE)' <=> \E e \in ToldKinds \ {"tool_completed"} : Logged(e, s)'
    BY <1>6, <2>2, <2>3, Zenon DEF ObsInv, TrailOK
  <2>. QED
    BY <2>1, <2>4 DEF TrailOK
<1>. QED
  BY <1>5, <1>7 DEF ObsInv

\* A step that tells the planner a result logs that result, for this step.
LEMMA TellOK ==
    ASSUME IInv, ObsInv, TypeOK', NEW e \in ToldKinds, NEW ok \in BOOLEAN, Tell(e, ok),
           ok => e = "tool_completed", e = "tool_completed" => ok
    PROVE  ObsInv'
<1>1. step \in 1 .. MaxSteps /\ step \in Nat
  BY AgentAssumption DEF IInv, TypeOK, Tell, StepOK, Between
<1>2. \A i \in DOMAIN observations : observations[i].step \in Nat
  BY ObservationTyped DEF IInv
<1>3. /\ DOMAIN observations' = 1 .. (Len(observations) + 1)
      /\ DOMAIN observations = 1 .. Len(observations) /\ Len(observations) \in Nat
      /\ \A i \in DOMAIN observations : observations'[i] = observations[i]
      /\ observations'[Len(observations) + 1] = [step |-> step, ok |-> ok]
      /\ \A s, b : Observed(s, b)' <=> Observed(s, b) \/ (s = step /\ b = ok)
  BY <1>1, ObservedAppend DEF IInv, Tell
<1>4. /\ \A i \in DOMAIN observations : observations[i].step < step
      /\ \A i, j \in DOMAIN observations : i < j => observations[i].step < observations[j].step
  BY DEF ObsInv, ObservationsOK, Tell
<1>5. ObservationsOK'
  <2>1. \A i \in DOMAIN observations' : i \in DOMAIN observations \/ i = Len(observations) + 1
    BY <1>3
  <2>2. observations'[Len(observations) + 1].step = step
    BY <1>3
  <2>3. \A i \in DOMAIN observations' : observations'[i].step <= step
    BY <1>1, <1>2, <1>3, <1>4, <2>1, <2>2
  <2>4. \A i, j \in DOMAIN observations' :
            i < j => i \in DOMAIN observations
    BY <1>3
  <2>5. \A i, j \in DOMAIN observations' :
            i < j => observations'[i].step < observations'[j].step
    BY <1>3, <1>4, <2>1, <2>2, <2>4
  <2>. QED
    BY <2>3, <2>5 DEF ObservationsOK, Tell
<1>6. \A x \in ToldKinds : \A t : Logged(x, t)' <=> Logged(x, t) \/ (t = step /\ x = e)
  BY DEF Tell
<1>7. \A x \in ToldKinds, s \in 1 .. MaxSteps : Logged(x, s)' => s <= step' /\ Between'
  BY <1>1, <1>6 DEF ObsInv, TrailOK, Tell
<1>8. ASSUME NEW s \in 1 .. MaxSteps
      PROVE  /\ Observed(s, TRUE)' <=> Logged("tool_completed", s)'
             /\ Observed(s, FALSE)' <=> \E x \in ToldKinds \ {"tool_completed"} : Logged(x, s)'
  <2>1. /\ Observed(s, TRUE) <=> Logged("tool_completed", s)
        /\ Observed(s, FALSE) <=> \E x \in ToldKinds \ {"tool_completed"} : Logged(x, s)
    BY DEF ObsInv, TrailOK
  <2>2. "tool_completed" \in ToldKinds
    BY DEF ToldKinds
  <2>3. CASE ok = TRUE
    <3>1. e = "tool_completed"
      BY <2>3
    <3>2. /\ Observed(s, TRUE)' <=> Observed(s, TRUE) \/ s = step
          /\ Observed(s, FALSE)' <=> Observed(s, FALSE)
      BY <1>3, <2>3
    <3>3. /\ Logged("tool_completed", s)' <=> Logged("tool_completed", s) \/ s = step
          /\ \A x \in ToldKinds \ {"tool_completed"} : Logged(x, s)' <=> Logged(x, s)
      BY <1>6, <2>2, <3>1
    <3>. QED
      BY <2>1, <3>2, <3>3
  <2>4. CASE ok = FALSE
    <3>1. e # "tool_completed"
      BY <2>4
    <3>2. /\ Observed(s, FALSE)' <=> Observed(s, FALSE) \/ s = step
          /\ Observed(s, TRUE)' <=> Observed(s, TRUE)
      BY <1>3, <2>4
    <3>3. /\ Logged("tool_completed", s)' <=> Logged("tool_completed", s)
          /\ \A x \in ToldKinds \ {"tool_completed"} :
                Logged(x, s)' <=> Logged(x, s) \/ (s = step /\ x = e)
      BY <1>6, <2>2, <3>1
    <3>. QED
      BY <2>1, <3>1, <3>2, <3>3
  <2>. QED
    BY <2>3, <2>4
<1>. QED
  BY <1>5, <1>7, <1>8 DEF ObsInv, TrailOK

\* Ending a run tells nothing but what it is asked to record.
LEMMA FinishIsQuiet ==
    ASSUME IInv, NEW s \in 0 .. MaxSteps, NEW kinds \in Seq(Events), NEW end \in Ends,
           Finish(s, kinds, end)
    PROVE  \A e \in ToldKinds : \A t : Logged(e, t)' <=> Logged(e, t) \/ (t = s /\ In(e, kinds))
<1>1. \A e, t : Logged(e, t)' <=> Logged(e, t) \/ (t = s /\ (In(e, kinds) \/ e = EndEvent[end]))
  BY FinishAdds DEF IInv, TypeOK
<1>2. EndEvent[end] \notin ToldKinds
  BY DEF EndEvent, Ends, ToldKinds
<1>. QED
  BY <1>1, <1>2

\* What a recording of events that say nothing to the planner leaves alone.
LEMMA RecordIsQuiet ==
    ASSUME IInv, NEW s \in 0 .. MaxSteps, NEW kinds \in Seq(Events), Record(s, kinds),
           \A e : In(e, kinds) => e \notin ToldKinds
    PROVE  \A e \in ToldKinds : \A t : Logged(e, t)' <=> Logged(e, t)
BY RecordAdds DEF IInv, TypeOK

\* An observation, with the one event among those recorded that tells it.
LEMMA ObserveTells ==
    ASSUME IInv, NEW kinds \in Seq(Events), NEW ok \in BOOLEAN, NEW e \in ToldKinds,
           Observe(kinds, ok), pc \in {"calling", "effect"}, step' = step,
           \A x \in ToldKinds : In(x, kinds) <=> x = e
    PROVE  Tell(e, ok)
<1>1. step \in 1 .. MaxSteps
  BY AgentAssumption DEF IInv, TypeOK, StepOK
<1>2. \A x, t : Logged(x, t)' <=> Logged(x, t) \/ (t = step /\ In(x, kinds))
  BY <1>1, ObserveAdds DEF IInv, TypeOK
<1>. QED
  BY <1>2 DEF Observe, Tell, Between

\* The tuples that the controller records, and what they tell.
LEMMA ToldTuples ==
    /\ \A e \in ToldKinds : ~In(e, << >>) /\ ~In(e, <<"tool_requested">>)
    /\ \A e \in ToldKinds : ~In(e, <<"run_error">>) /\ ~In(e, <<"final_answer">>)
    /\ \A e \in ToldKinds : ~In(e, <<"tool_cancelled">>) /\ ~In(e, <<"approval_granted">>)
    /\ \A e \in ToldKinds : ~In(e, <<"tool_requested", "approval_requested">>)
    /\ \A e, x \in ToldKinds : In(x, <<e>>) <=> x = e
    /\ \A x \in ToldKinds : In(x, <<"tool_requested", "tool_rejected">>) <=> x = "tool_rejected"
    /\ \A x \in ToldKinds :
          In(x, <<"tool_requested", "approval_requested", "approval_denied">>)
              <=> x = "approval_denied"
BY InTuples DEF ToldKinds

\* What a step logs at once are sequences of events.
LEMMA TupleTypes ==
    /\ \A e \in ToldKinds \union {"tool_requested", "run_error", "final_answer",
                                  "tool_cancelled", "approval_granted"} : <<e>> \in Seq(Events)
    /\ << >> \in Seq(Events)
    /\ <<"tool_requested", "approval_requested">> \in Seq(Events)
    /\ <<"tool_requested", "tool_rejected">> \in Seq(Events)
    /\ <<"tool_requested", "approval_requested", "approval_denied">> \in Seq(Events)
BY KindsTyped DEF Events, ToldKinds

\* What a step may do to the planner's knowledge.
ObsStep ==
    \/ Quiet
    \/ \E e \in ToldKinds, ok \in BOOLEAN : Tell(e, ok) /\ (ok <=> e = "tool_completed")

\* The run ends without telling anything, at s.
LEMMA EndIsQuiet ==
    ASSUME IInv, NEW s \in 0 .. MaxSteps,
           NEW kinds \in {<< >>, <<"final_answer">>, <<"run_error">>, <<"tool_cancelled">>},
           NEW end \in Ends, Finish(s, kinds, end), UNCHANGED observations,
           step' \in {step, step + 1}
    PROVE  ObsStep
<1>1. kinds \in Seq(Events) /\ \A e \in ToldKinds : ~In(e, kinds)
  <2>1. CASE kinds = << >>
    BY <2>1, TupleTypes, ToldTuples, Zenon
  <2>2. CASE kinds = <<"final_answer">>
    BY <2>2, TupleTypes, ToldTuples, Zenon
  <2>3. CASE kinds = <<"run_error">>
    BY <2>3, TupleTypes, ToldTuples, Zenon
  <2>4. CASE kinds = <<"tool_cancelled">>
    BY <2>4, TupleTypes, ToldTuples, Zenon
  <2>. QED
    BY <2>1, <2>2, <2>3, <2>4
<1>2. \A e \in ToldKinds : \A t : Logged(e, t)' <=> Logged(e, t)
  BY <1>1, FinishIsQuiet
<1>3. Between'
  BY DEF Finish, Between
<1>. QED
  BY <1>2, <1>3 DEF ObsStep, Quiet

\* A step that leaves the trail and the observations alone.
LEMMA SameIsQuiet ==
    ASSUME UNCHANGED <<audit, observations>>,
           \/ step' = step /\ (Between' \/ ~Between)
           \/ step' = step + 1
    PROVE  ObsStep
BY DEF ObsStep, Quiet, Logged

\* The steps of a call without an answer are quiet.
LEMMA CallSteps ==
    ASSUME IInv, NextStep \/ Check \/ QueueEmpty \/ HookReturns \/ Recheck
    PROVE  ObsStep
<1>1. step \in 0 .. MaxSteps
  BY DEF IInv, TypeOK
<1>2. CASE NextStep
  <2>1. UNCHANGED observations
    BY <1>2 DEF NextStep
  <2>2. CASE step' = step /\ Finish(step, << >>, "max_steps")
    BY <1>1, <2>1, <2>2, EndIsQuiet DEF Ends
  <2>3. CASE step < MaxSteps /\ step' = step + 1 /\ Finish(step + 1, << >>, "cancelled")
    <3>1. step + 1 \in 0 .. MaxSteps
      BY <1>1, <2>3, AgentAssumption
    <3>. QED
      BY <2>1, <2>3, <3>1, EndIsQuiet DEF Ends
  <2>4. CASE step' = step + 1 /\ UNCHANGED audit
    BY <2>1, <2>4, SameIsQuiet
  <2>. QED
    BY <1>2, <2>2, <2>3, <2>4 DEF NextStep
<1>3. CASE Check
  <2>1. UNCHANGED <<observations, step>> /\ ~Between
    BY <1>3 DEF Check, Between
  <2>2. CASE UNCHANGED audit
    BY <2>1, <2>2, SameIsQuiet
  <2>3. ASSUME NEW end \in {"cancelled", "timed_out"}, NEW kinds \in {<< >>, <<"tool_cancelled">>},
               Finish(step, kinds, end)
        PROVE  ObsStep
    BY <1>1, <2>1, <2>3, EndIsQuiet DEF Ends
  <2>. QED
    BY <1>3, <2>2, <2>3 DEF Check, GiveUp
<1>4. CASE QueueEmpty
  BY <1>4, SameIsQuiet DEF QueueEmpty, Between
<1>5. CASE HookReturns
  <2>1. call.look \in Ends
    BY <1>5 DEF HookReturns, IInv, CallOK, Ends
  <2>. QED
    BY <1>1, <1>5, <2>1, EndIsQuiet DEF HookReturns
<1>6. CASE Recheck
  <2>1. UNCHANGED <<observations, step>> /\ ~Between
    BY <1>6 DEF Recheck, Between
  <2>2. CASE UNCHANGED audit
    BY <2>1, <2>2, SameIsQuiet
  <2>3. ASSUME NEW end \in {"cancelled", "timed_out"}, Finish(step, <<"tool_cancelled">>, end)
        PROVE  ObsStep
    BY <1>1, <2>1, <2>3, EndIsQuiet DEF Ends
  <2>. QED
    BY <1>6, <2>2, <2>3 DEF Recheck
<1>. QED
  BY <1>2, <1>3, <1>4, <1>5, <1>6

\* The controller reads an answer.
LEMMA AnswerSteps ==
    ASSUME IInv, Decide \/ Approval \/ ReadOnlyResult
    PROVE  ObsStep
<1>1. /\ step \in 0 .. MaxSteps /\ step' = step
      /\ pc = "calling" /\ ~Between
  BY DEF IInv, TypeOK, Decide, Approval, ReadOnlyResult, Answered, Between
<1>2. ASSUME NEW kinds \in {<<"final_answer">>, <<"run_error">>}, NEW end \in Ends,
             Finish(step, kinds, end), UNCHANGED observations
      PROVE  ObsStep
  BY <1>1, <1>2, EndIsQuiet
<1>3. ASSUME NEW kinds \in Seq(Events), Record(step, kinds), UNCHANGED observations,
             \A e \in ToldKinds : ~In(e, kinds)
      PROVE  ObsStep
  BY <1>1, <1>3, RecordIsQuiet DEF ObsStep, Quiet
<1>4. ASSUME NEW kinds \in Seq(Events), NEW ok \in BOOLEAN, NEW e \in ToldKinds,
             Observe(kinds, ok), \A x \in ToldKinds : In(x, kinds) <=> x = e,
             ok <=> e = "tool_completed"
      PROVE  ObsStep
  BY <1>1, <1>4, ObserveTells DEF ObsStep
<1>5. CASE Decide
  <2>1. CASE Observe(<<"tool_requested", "tool_rejected">>, FALSE)
    BY <1>4, <2>1, TupleTypes, ToldTuples DEF ToldKinds
  <2>2. CASE Observe(<<"tool_requested", "approval_requested", "approval_denied">>, FALSE)
    BY <1>4, <2>2, TupleTypes, ToldTuples DEF ToldKinds
  <2>3. CASE Record(step, <<"tool_requested">>) /\ UNCHANGED observations
    BY <1>3, <2>3, TupleTypes, ToldTuples
  <2>4. CASE Record(step, <<"tool_requested", "approval_requested">>) /\ UNCHANGED observations
    BY <1>3, <2>4, TupleTypes, ToldTuples
  <2>5. CASE Finish(step, <<"final_answer">>, "completed") /\ UNCHANGED observations
    BY <1>2, <2>5 DEF Ends
  <2>6. CASE Finish(step, <<"run_error">>, "failed") /\ UNCHANGED observations
    BY <1>2, <2>6 DEF Ends
  <2>. QED
    BY <1>5, <2>1, <2>2, <2>3, <2>4, <2>5, <2>6 DEF Decide
<1>6. CASE Approval
  <2>1. CASE Record(step, <<"approval_granted">>) /\ UNCHANGED observations
    BY <1>3, <2>1, TupleTypes, ToldTuples
  <2>2. CASE Observe(<<"approval_denied">>, FALSE)
    BY <1>4, <2>2, TupleTypes, ToldTuples DEF ToldKinds
  <2>3. CASE Finish(step, <<"run_error">>, "failed") /\ UNCHANGED observations
    BY <1>2, <2>3 DEF Ends
  <2>. QED
    BY <1>6, <2>1, <2>2, <2>3 DEF Approval
<1>7. CASE ReadOnlyResult
  <2>1. CASE Observe(<<"tool_completed">>, TRUE)
    BY <1>4, <2>1, TupleTypes, ToldTuples DEF ToldKinds
  <2>2. CASE Observe(<<"tool_failed">>, FALSE)
    BY <1>4, <2>2, TupleTypes, ToldTuples DEF ToldKinds
  <2>3. CASE Finish(step, <<"run_error">>, "failed") /\ UNCHANGED observations
    BY <1>2, <2>3 DEF Ends
  <2>. QED
    BY <1>7, <2>1, <2>2, <2>3 DEF ReadOnlyResult
<1>. QED
  BY <1>5, <1>6, <1>7

\* A side effect ends: its outcome is told, unless it was cut off.
LEMMA EffectStep ==
    ASSUME IInv, NEW result \in Results \ {"running"}, EffectEnds(result)
    PROVE  ObsStep
<1>1. /\ step \in 0 .. MaxSteps /\ step \in 1 .. MaxSteps /\ step' = step
      /\ pc = "effect" /\ ~Between
  BY AgentAssumption DEF IInv, TypeOK, StepOK, EffectEnds, Between
<1>2. <<"tool_completed">> \in Seq(Events) /\ "tool_completed" \in ToldKinds
  BY TupleTypes DEF ToldKinds
<1>3. \A x \in ToldKinds : In(x, <<"tool_completed">>) <=> x = "tool_completed"
  BY <1>2, ToldTuples
<1>4. ASSUME observations' = Append(observations, [step |-> step, ok |-> TRUE]),
             NEW end \in {"cancelled", "timed_out"}, Finish(step, <<"tool_completed">>, end)
      PROVE  ObsStep
  <2>1. \A e \in ToldKinds : \A t : Logged(e, t)' <=>
            Logged(e, t) \/ (t = step /\ In(e, <<"tool_completed">>))
    BY <1>1, <1>2, <1>4, FinishIsQuiet DEF Ends
  <2>2. Between'
    BY <1>4 DEF Finish, Between
  <2>3. Tell("tool_completed", TRUE)
    BY <1>1, <1>3, <1>4, <2>1, <2>2 DEF Tell
  <2>. QED
    BY <1>2, <2>3 DEF ObsStep
<1>5. CASE /\ observations' = Append(observations, [step |-> step, ok |-> TRUE])
           /\ Record(step, <<"tool_completed">>) /\ pc' = "head" /\ UNCHANGED status
  <2>1. Observe(<<"tool_completed">>, TRUE)
    BY <1>5 DEF Observe
  <2>2. Tell("tool_completed", TRUE)
    BY <1>1, <1>2, <1>3, <2>1, ObserveTells
  <2>. QED
    BY <1>2, <2>2 DEF ObsStep
<1>6. CASE Observe(<<"tool_failed">>, FALSE)
  <2>1. <<"tool_failed">> \in Seq(Events) /\ "tool_failed" \in ToldKinds
    BY TupleTypes DEF ToldKinds
  <2>2. \A x \in ToldKinds : In(x, <<"tool_failed">>) <=> x = "tool_failed"
    BY <2>1, ToldTuples
  <2>3. Tell("tool_failed", FALSE)
    BY <1>1, <1>6, <2>1, <2>2, ObserveTells
  <2>. QED
    BY <2>1, <2>3 DEF ObsStep
<1>7. CASE Finish(step, <<"run_error">>, "failed") /\ UNCHANGED observations
  BY <1>1, <1>7, EndIsQuiet DEF Ends
<1>. QED
  BY <1>4, <1>5, <1>6, <1>7 DEF EffectEnds

\* Every step is quiet or tells one result.
LEMMA ObsSteps ==
    ASSUME IInv, [Next]_vars
    PROVE  ObsStep
<1>1. CASE HostStep \/ StartEffect \/ UNCHANGED vars
  <2>1. UNCHANGED <<audit, observations, step>> /\ (Between' \/ ~Between)
    BY <1>1
       DEF HostStep, Register, Cancel, DeadlinePasses, WorkerAnswers, StartEffect, vars,
           Between
  <2>. QED
    BY <2>1, SameIsQuiet
<1>2. CASE Interrupt
  BY <1>2, EndIsQuiet DEF Interrupt, IInv, TypeOK, Ends
<1>. QED
  BY <1>1, <1>2, CallSteps, AnswerSteps, EffectStep DEF Next, Controller, HostStep

\* A run begins with nothing told and nothing to tell.
LEMMA ObsInit == Init => ObsInv
<1> SUFFICES ASSUME Init PROVE ObsInv
  OBVIOUS
<1>1. audit = <<[kind |-> "run_started", step |-> 0]>> /\ observations = << >>
  BY DEF Init
<1>2. \A e, s : Logged(e, s) => e = "run_started"
  BY <1>1 DEF Logged
<1>3. \A s, ok : ~Observed(s, ok)
  BY <1>1 DEF Observed
<1>4. \A e \in ToldKinds : \A s : ~Logged(e, s)
  BY <1>2 DEF ToldKinds
<1>5. ObservationsOK
  BY <1>1 DEF ObservationsOK
<1>6. "tool_completed" \in ToldKinds
  BY DEF ToldKinds
<1>. QED
  BY <1>3, <1>4, <1>5, <1>6 DEF ObsInv, TrailOK

\* Every step keeps the planner's knowledge and the trail together.
LEMMA ObsInvStep == IInv /\ ObsInv /\ TypeOK' /\ [Next]_vars => ObsInv'
<1> SUFFICES ASSUME IInv, ObsInv, TypeOK', [Next]_vars PROVE ObsInv'
  OBVIOUS
<1>1. CASE Quiet
  BY <1>1, QuietOK
<1>2. ASSUME NEW e \in ToldKinds, NEW ok \in BOOLEAN, Tell(e, ok), ok <=> e = "tool_completed"
      PROVE  ObsInv'
  BY <1>2, TellOK
<1>. QED
  BY <1>1, <1>2, ObsSteps DEF ObsStep

\* The two readings of a step: what the planner was told, and what the trail says.
LEMMA ToldAsLogged ==
    ASSUME IInv, ObsInv
    PROVE  ObservationsMatchAudit
<1> DEFINE Told(k) == audit[k].kind \in {"tool_rejected", "approval_denied",
                                         "tool_failed", "tool_completed"}
           Seen(s) == {o \in {observations[i] : i \in DOMAIN observations} : o.step = s}
           Says(s) == {[step |-> s, ok |-> audit[k].kind = "tool_completed"] :
                          k \in {j \in DOMAIN audit : Told(j) /\ audit[j].step = s}}
<1>1. ASSUME NEW i \in DOMAIN observations
      PROVE  /\ observations[i].ok \in BOOLEAN
             /\ observations[i] = [step |-> observations[i].step, ok |-> observations[i].ok]
  <2>1. observations \in Seq([step : 1 .. MaxSteps, ok : BOOLEAN])
    BY DEF IInv, TypeOK
  <2>2. DOMAIN observations = 1 .. Len(observations)
    BY <2>1
  <2>3. observations[i] \in [step : 1 .. MaxSteps, ok : BOOLEAN]
    BY <2>1, SeqElements, Zenon
  <2>. QED
    BY <2>3
<1>2. ASSUME NEW k \in DOMAIN audit
      PROVE  audit[k] = [kind |-> audit[k].kind, step |-> audit[k].step]
  <2>1. audit \in Seq([kind : Events, step : 0 .. MaxSteps])
    BY DEF IInv, TypeOK
  <2>2. DOMAIN audit = 1 .. Len(audit)
    BY <2>1
  <2>3. audit[k] \in [kind : Events, step : 0 .. MaxSteps]
    BY <2>1, SeqElements, Zenon
  <2>. QED
    BY <2>3
<1>3. ASSUME NEW s \in 1 .. MaxSteps, NEW o \in Seen(s)
      PROVE  o \in Says(s)
  <2>1. PICK i \in DOMAIN observations : observations[i] = o /\ o.step = s
    BY <1>3
  <2>2. o = [step |-> s, ok |-> o.ok] /\ o.ok \in BOOLEAN
    BY <1>1, <2>1
  <2>3. Observed(s, o.ok)
    BY <2>1, <2>2 DEF Observed
  <2>4. PICK e \in ToldKinds : Logged(e, s) /\ o.ok = (e = "tool_completed")
    <3>1. CASE o.ok = TRUE
      BY <2>3, <3>1 DEF ObsInv, TrailOK, ToldKinds
    <3>2. CASE o.ok = FALSE
      BY <2>3, <3>2 DEF ObsInv, TrailOK
    <3>. QED
      BY <2>2, <3>1, <3>2
  <2>5. PICK k \in DOMAIN audit : audit[k] = [kind |-> e, step |-> s]
    BY <2>4 DEF Logged
  <2>6. audit[k].kind = e /\ audit[k].step = s /\ Told(k)
    BY <2>5 DEF ToldKinds
  <2>7. [step |-> s, ok |-> audit[k].kind = "tool_completed"] = o
    BY <2>2, <2>4, <2>6
  <2>. QED
    BY <2>6, <2>7
<1>4. ASSUME NEW s \in 1 .. MaxSteps, NEW o \in Says(s)
      PROVE  o \in Seen(s)
  <2>1. PICK k \in DOMAIN audit :
            /\ Told(k) /\ audit[k].step = s
            /\ o = [step |-> s, ok |-> audit[k].kind = "tool_completed"]
    BY <1>4
  <2>2. audit[k].kind \in ToldKinds /\ Logged(audit[k].kind, s)
    BY <1>2, <2>1 DEF ToldKinds, Logged
  <2>3. Observed(s, o.ok)
    <3>1. CASE audit[k].kind = "tool_completed"
      BY <2>1, <2>2, <3>1 DEF ObsInv, TrailOK
    <3>2. CASE audit[k].kind # "tool_completed"
      BY <2>1, <2>2, <3>2 DEF ObsInv, TrailOK
    <3>. QED
      BY <3>1, <3>2
  <2>4. PICK i \in DOMAIN observations : observations[i] = [step |-> s, ok |-> o.ok]
    BY <2>3 DEF Observed
  <2>5. observations[i] = o
    BY <2>1, <2>4
  <2>. QED
    BY <2>1, <2>5
<1>5. \A i, j \in DOMAIN observations : i < j => observations[i].step < observations[j].step
  BY DEF ObsInv, ObservationsOK
<1>6. \A s \in 1 .. MaxSteps : Seen(s) = Says(s)
  BY <1>3, <1>4
<1>. QED
  BY <1>5, <1>6 DEF ObservationsMatchAudit

\* What the planner was told of a step is what the audit trail says of it, once:
\* it never sees the outcome of a call the run had given up.
THEOREM PlannerIsToldTheTrail == Spec => []ObservationsMatchAudit
<1>1. Init => IInv /\ ObsInv
  BY InvInit, ObsInit
<1>2. IInv /\ ObsInv /\ [Next]_vars => (IInv /\ ObsInv)'
  BY InvStep, ObsInvStep DEF IInv
<1>3. IInv /\ ObsInv => ObservationsMatchAudit
  BY ToldAsLogged
<1>. QED
  BY <1>1, <1>2, <1>3, PTL DEF Spec
=============================================================================
