------------------------------ MODULE MCReload ------------------------------
(* Three chains in two tables: INPUT is covered by every configuration,     *)
(* FORWARD by one of them, and a global chain belongs to no hook.           *)
EXTENDS FwReloadProps

MCChain == {"zone+input", "zone+forward", "+global"}
MCHook == {"input", "forward"}
MCTable == {"filter4", "filter6"}
MCHookOf == [c \in MCChain |->
  CASE c = "zone+input" -> "input" [] c = "zone+forward" -> "forward" [] OTHER -> "nohook"]
MCTableOf == [c \in MCChain |-> IF c = "zone+forward" THEN "filter6" ELSE "filter4"]
MCConfig == {{"zone+input", "+global"}, {"zone+input", "zone+forward"}}

\* The second one declares no alias.
MCUnaliased == {{"zone+input", "zone+forward"}}
NoConfig == {}

\* One configuration, for the runs whose subject is not what it declares.
MCOneConfig == {{"zone+input", "+global"}}

KillNowhere == {}
\* Outside the trial, and in the commit while its file holds a step: after these
\* the next reload finds the right ruleset in the path.
KillBuildAndCommit == {"build_chains", "prepare", "real_to_delete", "tmp_to_real", "remove_file"}
\* Everything outside the phases of the two disagreements (KillAtPrompt's trial
\* and KillInVersion's change of version): what the theorems assume.
KillSafely == KillBuildAndCommit \cup CleanupPhase \cup SavePhase \cup {"build", "hook"}
KillAnywhere == Phase \ {"idle"}
KillAtPrompt == {"ask"}
KillInVersion == {"truncate_version", "write_version"}
=============================================================================
