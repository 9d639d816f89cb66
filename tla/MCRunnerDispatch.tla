-------------------------- MODULE MCRunnerDispatch --------------------------
(***************************************************************************)
(* A model request in the gateway, the translations it goes through, and   *)
(* its dispatch to two runners, of which one may be disabled.  The         *)
(* specifications share no variable: a behaviour of the run is a behaviour *)
(* of one of them, the others stay in their initial states.                *)
(***************************************************************************)
EXTENDS RunnerDispatch, GatewayRequest, ProtocolAdapters

CONSTANTS r1, r2, q1

VARIABLE part

MCModelOrder == << <<"x">>, <<"x", "fast">> >>
MCRequested == {<<"x", "fast">>, <<"x", "fast", "low">>, <<"x", "standard">>, <<"x", "low", "fast">>}

MCInit ==
  /\ DispatchInit /\ GatewayInit /\ AdapterInit
  /\ part \in {"dispatch", "gateway", "request", "response", "options"}
  /\ part # "request" => protocol = "chat"
  /\ part # "options" => catalog.enabled = {}
  /\ part # "gateway" => endpoint = "responses" /\ streams = FALSE

MCNext ==
  /\ UNCHANGED part
  /\ \/ part = "dispatch" /\ DispatchNext /\ UNCHANGED <<gatewayVars, adapterVars>>
     \/ part = "gateway" /\ GatewayNext /\ UNCHANGED <<dispatchVars, adapterVars>>
     \/ part = "request" /\ RequestNext /\ UNCHANGED <<dispatchVars, gatewayVars>>
     \/ part = "response" /\ ResponseNext /\ UNCHANGED <<dispatchVars, gatewayVars>>
     \/ part = "options" /\ OptionsNext /\ UNCHANGED <<dispatchVars, gatewayVars>>

MCSpec == MCInit /\ [][MCNext]_<<part, dispatchVars, gatewayVars, adapterVars>>
=============================================================================
