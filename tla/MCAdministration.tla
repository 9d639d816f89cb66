-------------------------- MODULE MCAdministration --------------------------
(***************************************************************************)
(* What a control administers: the license, members and API keys, the      *)
(* registry of runners, upstream accounts and connections, which models a  *)
(* member may use, and the provider plugins.  The specifications share no  *)
(* variable and no step of one is guarded by another, so a behaviour of    *)
(* the run is a behaviour of one of them, while the others keep their      *)
(* initial state.                                                          *)
(***************************************************************************)
EXTENDS LicenseState, AuditedStore, RunnerRegistry, UpstreamAccounts, ModelAccess, PluginStore

CONSTANTS
  a1, a2, paid1, paid2, unpaid, \* license: actors and documents
  m1,                           \* store: a member
  h1, h2, slot, newer,          \* registry: the runners two requests enroll, that of
                                \* the slot in service, and that of its upgrade
  v1, v2, bad, relA, relB       \* plugins: versions and releases

MCDoc == {paid1, paid2, unpaid}

License(id, since, from, until, isFree, places) ==
  [id |-> id, issued |-> since, seq |-> 0, from |-> from, until |-> until,
   free |-> isFree, seats |-> places]

\* A license in force, one that begins later and ends, and the free one.
MCMeta == [d \in MCDoc |-> CASE d = paid1 -> License(1, 1, 0, 9, FALSE, 1)
                             [] d = paid2 -> License(2, 2, 1, 2, FALSE, 0)
                             [] d = unpaid -> License(3, 0, 0, 9, TRUE, 0)]

MCHolder == [k \in ApiKey |-> m1]

\* The new release no longer accepts v2, and accepts a version the old one rejects.
MCInspects == [r \in Release |-> IF r = relA THEN Bundle ELSE {v1, bad}]
MCRuns == [r \in Release |-> IF r = relA THEN {v1, v2} ELSE {v1, bad}]

VARIABLE part

MCInit ==
  /\ part \in {"license", "store", "registry", "upstream", "access", "plugins"}
  /\ LicenseInit /\ StoreInit /\ RegistryInit({slot}) /\ UpstreamInit /\ AccessInit /\ PluginInit
  /\ part # "access" => policy = NoPolicy

MCNext ==
  /\ \/ part = "license" /\ LicenseNext /\ UNCHANGED <<storeVars, registryVars, upstreamVars, accessVars, pluginVars>>
     \/ part = "store" /\ StoreNext /\ UNCHANGED <<licenseVars, registryVars, upstreamVars, accessVars, pluginVars>>
     \/ part = "registry" /\ RegistryNext({1}) /\ UNCHANGED <<licenseVars, storeVars, upstreamVars, accessVars, pluginVars>>
     \/ part = "upstream" /\ UpstreamNext /\ UNCHANGED <<licenseVars, storeVars, registryVars, accessVars, pluginVars>>
     \/ part = "access" /\ AccessNext /\ UNCHANGED <<licenseVars, storeVars, registryVars, upstreamVars, pluginVars>>
     \/ part = "plugins" /\ PluginNext /\ UNCHANGED <<licenseVars, storeVars, registryVars, upstreamVars, accessVars>>
  /\ UNCHANGED part

MCSpec ==
  MCInit /\ [][MCNext]_<<part, licenseVars, storeVars, registryVars, upstreamVars, accessVars, pluginVars>>
=============================================================================
