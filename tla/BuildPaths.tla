----------------------------- MODULE BuildPaths -----------------------------
(***************************************************************************)
(* One configuration through the scripts and then through the helper, into  *)
(* a kernel each, as tests/run.sh does to compare what the two leave there. *)
(* And what the helper must guarantee by itself.                            *)
(***************************************************************************)
EXTENDS CfwBuild, ShellBuild

Init == config \in Config /\ SInit /\ HInit

Next ==
  \/ SNext /\ UNCHANGED hvars
  \/ spc # "run" /\ HNext /\ UNCHANGED svars

Spec == Init /\ [][Next]_<<config, svars, hvars>>

-----------------------------------------------------------------------------
RulesAt(chains, w) == IF w \in DOMAIN chains THEN chains[w] ELSE <<>>

\* An alias named like a host that is looked up.
Shadowed == \E a \in AliasNames : a \in DOMAIN resolved

\* The scripts use a set as it is when the rule is met.
AliasesFirst ==
  \A i, j \in DOMAIN config :
    /\ config[i].kind = "rule" /\ config[j].kind = "alias"
    /\ config[j].name \in {config[i].src, config[i].dst}
    => j < i

\* Each name looked up has one answer, and the probe heard what the binaries say.
Steady ==
  /\ \A n \in DOMAIN resolved : Answers[n] = {resolved[n]}
  /\ \A e \in cache : e.families = {f \in Family : <<f, e.key[1], e.key[2]>> \in Accepts}

\* A global chain is jumped to in a family that has no rule of it.
JumpToNoChain(f, t) ==
  \E w \in DOMAIN ruleset : \E i \in DOMAIN ruleset[w] :
    /\ w[1] = f /\ w[2] = t
    /\ ruleset[w][i].jump # NoJump
    /\ <<f, t, ruleset[w][i].jump>> \notin DOMAIN ruleset

\* Every variable of the two paths stays in its range, and the answer kept for a
\* name is one the DNS gave for it.
BuildTypeOK ==
  /\ spc \in {"run", "ok", "failed"}
  /\ hpc \in {"parse", "resolve", "sets", "build_sets", "build_rules", "cleanup",
              "cleanup_failed", "load_sets", "load_v4", "load_v6", "ok", "failed"}
  /\ line \in 1..Len(config) + 1 /\ next \in 1..Len(config) + 1
  /\ DOMAIN resolved \subseteq Dns /\ \A n \in DOMAIN resolved : resolved[n] \in Answers[n]
  /\ prepared \subseteq Table /\ degraded \in BOOLEAN
  /\ scratch \cup unremoved \subseteq Family \X Table
  /\ DOMAIN ruleset \cup DOMAIN kchains \cup DOMAIN schains \subseteq Family \X Table \X Chain

\* A configuration both paths build is the same policy in both: the same sets,
\* and in every chain of every family the same rules in the same order. (The
\* test compares one configuration; aliases have to come before the rules that
\* use them, and not to be named like a host, and the world has to hold still;
\* the scripts do not tell files with a hyphen in their name apart.) It is so
\* with a prober that offers every tail to both families too.
SamePolicy ==
  /\ spc = "ok" /\ hpc = "ok" /\ Steady /\ AliasesFirst /\ ~Shadowed
  /\ \A d \in Rules : d.chain \notin Hyphened
  =>
    /\ ssets = ksets
    /\ \A w \in Family \X Table \X Chain : RulesAt(schains, w) = RulesAt(kchains, w)

-----------------------------------------------------------------------------
(* The helper.                                                              *)

\* Once the helper starts loading, ipset takes all it made but a port that is
\* none, and a table is refused for one reason only: the jump to a chain without
\* a rule in that family. Names, types, families and options were settled before.
LoadsAreTaken ==
  ~degraded =>
    /\ hpc = "load_sets" => (IpsetRefuses(hsets) <=> HoldsNoPort(hsets))
    /\ hpc = "load_v4" \/ hpc = "load_v6" =>
         \A f \in Family, t \in Table : Refused(f, t) => JumpToNoChain(f, t)

\* Nothing reaches the kernel before every alias has its set, also those no rule
\* uses; no chain before all of them have been loaded.
LoadedWhole ==
  /\ ksets # {} \/ kchains # NoChains =>
       \A d \in Aliases :
         \E m \in hsets : m.set \in {d.name, V6Name[d.name]} /\ m.type = SetType(d)
  /\ kchains # NoChains => ksets = hsets

\* A name used by several aliases yields one answer for all of them, whatever
\* the DNS rotates in the meantime.
AliasesAgree ==
  hpc = "ok" =>
    \A d, e \in Aliases :
      /\ d.host = e.host /\ d.host \in Dns
      /\ \A x \in Aliases : x.name \in {d.name, e.name} => x \in {d, e}
      => \A f \in Family :
           {m.entry[1] : m \in {n \in ksets : n.set = SetName(d.name, f)}} =
           {m.entry[1] : m \in {n \in ksets : n.set = SetName(e.name, f)}}

\* However the helper ends by itself, a scratch chain is left in a table it
\* probed only where iptables failed to remove it: one failure keeps neither the
\* other chains nor those of a run before, and no error skips the cleanup.
ScratchRemoved ==
  hpc \in {"load_sets", "load_v4", "load_v6", "ok", "failed"} => Prepared \subseteq unremoved

-----------------------------------------------------------------------------
(* What comments and tests say, and the code does not do.                   *)

\* resolve.rs: "A rule endpoint naming an alias is not a hostname: the alias
\* supplies the set". With aliases as sources only, no rule matches an address.
AliasSuppliesTheSet ==
  (\A d \in Rules : d.src \in AliasNames) =>
    \A w \in DOMAIN kchains : \A i \in DOMAIN kchains[w] :
      \A p \in kchains[w][i].matches : p[1].by = "set"

\* probe.rs: the probe "catches exactly what the shell's try-both caught". A
\* rule that neither family takes, which ends the scripts, ends the helper too.
NoRuleDropped ==
  hpc = "ok" =>
    \A d \in Rules : \E f \in Family :
      \E i \in DOMAIN RulesAt(kchains, <<f, d.table, d.chain>>) :
        kchains[<<f, d.table, d.chain>>][i].opts = d.opts

\* tests/run.sh: "the helper is only correct if it agrees with the BASH
\* implementation it replaces". A table of what the scripts built is taken, in
\* either family (files with a hyphen in their name aside, which rules.rs says
\* the scripts do not tell apart).
HelperTakesWhatShellTakes ==
  /\ spc = "ok" /\ hpc \in {"load_v4", "load_v6"}
  /\ \A d \in Rules : d.chain \notin Hyphened
  => \A f \in Family, t \in Table : ~Refused(f, t)
=============================================================================
