----------------------------- MODULE MCAgentLite -----------------------------
(***************************************************************************)
(* A small host for AgentLite: two read-only tools, one of them with a     *)
(* cancel_handler, that claim one name, and two side effects that claim    *)
(* another.                                                                *)
(***************************************************************************)
EXTENDS AgentLite

CONSTANTS look_up, clock, set_led, set_relay, sensor, actuator

ConstNameOf == [t \in Tools |-> IF t \in {look_up, clock} THEN sensor ELSE actuator]
=============================================================================
