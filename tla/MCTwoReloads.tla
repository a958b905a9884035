---------------------------- MODULE MCTwoReloads ----------------------------
(* One hook, one zone chain and one global chain.                           *)
EXTENDS FwTwoReloads

MCChain == {"zone+input", "+global"}
MCHook == {"input"}
MCTable == {"filter4"}
MCHookOf == [c \in MCChain |-> IF c = "zone+input" THEN "input" ELSE "nohook"]
MCTableOf == [c \in MCChain |-> "filter4"]
MCConfig == {MCChain}
NoConfig == {}
KillNowhere == {}
=============================================================================
