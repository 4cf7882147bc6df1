---------------------------- MODULE MCAgentTurns ----------------------------
(***************************************************************************)
(* Instances of AgentTurns: two workers, a gated and a free call.          *)
(***************************************************************************)
EXTENDS AgentTurns

CONSTANTS g, f

(* A run that is offered everything, and one without the gated tool. *)
TestOffers == {Call, Call \ {g}}

=============================================================================
