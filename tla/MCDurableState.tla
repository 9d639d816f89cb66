---------------------------- MODULE MCDurableState ----------------------------
(***************************************************************************)
(* What has to survive the death of a process: "settlement" covers the     *)
(* records of executed requests, "host" the files of an installation under *)
(* the commands an operator runs, "codex" and "claude" the files of a      *)
(* member under asterctl.  The specifications share no variable; a         *)
(* behaviour takes one of them.                                            *)
(***************************************************************************)
EXTENDS MCDurableSettlement, HostInstallation, ClientConfig

VARIABLE part

MCInit == part \in {"settlement", "host", "codex", "claude"} 
          /\ Init /\ HostInit /\ ClientInit
          /\ (part # "codex" => config = Absent) /\ (part # "claude" => settings = Absent)

MCNext ==
  \/ part = "settlement" /\ Next /\ UNCHANGED <<part, hostVars, clientVars>>
  \/ part = "host" /\ HostNext /\ UNCHANGED <<part, vars, clientVars>>
  \/ part = "codex" /\ CodexNext /\ UNCHANGED <<part, vars, hostVars, claudeVars>>
  \/ part = "claude" /\ ClaudeNext /\ UNCHANGED <<part, vars, hostVars, codexVars>>

MCSpec == MCInit /\ [][MCNext]_<<part, vars, hostVars, clientVars>>
=============================================================================
