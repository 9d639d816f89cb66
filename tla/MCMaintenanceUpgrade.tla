------------------------- MODULE MCMaintenanceUpgrade -------------------------
(***************************************************************************)
(* The jobs of the maintenance executor in one run: "maintenance" covers   *)
(* the jobs that stop the services, "prepare" the candidate slot of an     *)
(* online upgrade up to its handoff or its cancellation.  Each behaviour   *)
(* takes one of them.                                                      *)
(***************************************************************************)
EXTENDS MaintenanceUpgrade, SlotPreparation

CONSTANTS h1, t1, shared

VARIABLE part

\* A candidate's runner has the number of its job as identity.
MCRunner == {h1, shared} \cup {1, 2}

MCInit == /\ part \in {"maintenance", "prepare"}
          /\ MaintenanceInit /\ PreparationInit

MCNext ==
  \/ part = "maintenance" /\ MaintenanceNext /\ UNCHANGED <<part, prepVars>>
  \/ part = "prepare" /\ PreparationNext /\ UNCHANGED <<part, maintenanceVars>>

MCSpec == MCInit /\ [][MCNext]_<<part, maintenanceVars, prepVars>>
=============================================================================
