-------------------------- MODULE OneShotApproval --------------------------
(***************************************************************************)
(* What Agent Lite promises about side effects, whatever the planner, the  *)
(* tools and the user do: each one is approved for its step, runs at most  *)
(* once for that approval, before the next approval and before the run is  *)
(* over.                                                                   *)
(***************************************************************************)
EXTENDS Naturals, Sequences

CONSTANT Steps

VARIABLES
    granted,    \* steps whose side effect the user has approved
    executed,   \* the steps whose side effect was started, start by start
    over        \* the run has returned its result

promise == <<granted, executed, over>>

Init ==
    /\ granted = {}
    /\ executed = << >>
    /\ over = FALSE

\* An approval is for a later step than every earlier one.
Grant(s) ==
    /\ ~over
    /\ \A t \in granted : t < s
    /\ granted' = granted \union {s}
    /\ UNCHANGED <<executed, over>>

Execute(s) ==
    /\ ~over
    /\ s \in granted
    /\ \A i \in DOMAIN executed : executed[i] # s
    /\ \A t \in granted : t <= s
    /\ executed' = Append(executed, s)
    /\ UNCHANGED <<granted, over>>

End ==
    /\ ~over
    /\ over' = TRUE
    /\ UNCHANGED <<granted, executed>>

Next == (\E s \in Steps : Grant(s) \/ Execute(s)) \/ End

Spec == Init /\ [][Next]_promise
=============================================================================
