------------------------------- MODULE MCBoot -------------------------------
(* The chains of MCReload, INPUT in the IPv4 tables and FORWARD in the IPv6 *)
(* ones.                                                                    *)
EXTENDS FwBoot

MCChain == {"zone+input", "zone+forward", "+global"}
MCHook == {"input", "forward"}
MCTable == {"filter4", "filter6"}
MCHookOf == [c \in MCChain |->
  CASE c = "zone+input" -> "input" [] c = "zone+forward" -> "forward" [] OTHER -> "nohook"]
MCTableOf == [c \in MCChain |-> IF c = "zone+forward" THEN "filter6" ELSE "filter4"]
MCInet6 == {"zone+forward", "forward"}
MCConfig == {{"zone+input", "zone+forward"}, {"zone+input", "+global"}}
\* The second one declares no alias.
MCUnaliased == {{"zone+input", "+global"}}

\* Where a reload leaves the right ruleset in the path, and in every save.
KillSafely ==
  {"build_chains", "prepare", "hook", "real_to_delete", "tmp_to_real", "remove_file"}
    \cup CleanupPhase \cup SavePhase
=============================================================================
