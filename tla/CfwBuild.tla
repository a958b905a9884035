------------------------------ MODULE CfwBuild ------------------------------
(***************************************************************************)
(* The build helper, cfw-build: parse everything, resolve every name once,  *)
(* build the sets, then the rules with the help of scratch chains the tails *)
(* are offered to, and only then load the sets and each family's tables.    *)
(*                                                                          *)
(* Lookups are answered in any order.  Tables of a family are loaded one at *)
(* a time, as iptables-restore commits them; each is taken or refused whole.*)
(* One declaration may give several rules, which share their tail: they are *)
(* one element of their chain, and the set of their matches.                *)
(***************************************************************************)
EXTENDS FwConfig

CONSTANTS
  ProbeMayFail,  \* TRUE: iptables may fail for a reason of its own (xtables lock)
                 \* when it makes, uses or removes a scratch chain
  LeftScratch    \* sets of scratch chains that a killed run may have left

ASSUME HelperAssumption ==
  /\ ProbeMayFail \in BOOLEAN
  /\ LeftScratch \subseteq SUBSET (Family \X Table)

VARIABLES
  hpc,        \* the step of main
  next,       \* the declaration the loops of sets::build and rules::build are at
  resolved,   \* Resolved.addrs: the names looked up so far and their answers
  hsets,      \* Sets.by_name
  ruleset,    \* rules::build's result: <<family, table, chain>> to rules
  cache, prepared, degraded,  \* Prober
  scratch,    \* kernel: <<family, table>> where CFWPROBE exists
  unremoved,  \* history: those of them that the cleanup failed to remove
  ksets,      \* kernel: members of the sets
  kchains     \* kernel: <<family, table, chain>> to rules

prober == <<cache, prepared, degraded, scratch, unremoved>>
hkernel == <<ksets, kchains>>
hvars == <<hpc, next, resolved, hsets, ruleset, prober, hkernel>>

NoChains == [x \in {} |-> <<>>]

Die == hpc' = "failed"

-----------------------------------------------------------------------------
(* Parsing and name resolution.                                             *)

\* A dot in an alias name would make it a literal wherever a rule uses it.
Malformed(d) == d.kind = "alias" /\ d.name \in Dotted

AliasNames == {d.name : d \in Aliases}

\* A rule's endpoint that names an alias is not looked up.
NamesToResolve ==
  ({d.host : d \in Aliases} \cup ((UNION {{d.src, d.dst} : d \in Rules}) \ AliasNames))
    \ ({AnyHost} \cup Address)

Parse ==
  /\ hpc = "parse"
  /\ IF \E i \in DOMAIN config : Malformed(config[i]) THEN Die ELSE hpc' = "resolve"
  /\ UNCHANGED <<config, next, resolved, hsets, ruleset, prober, hkernel>>

\* Fault: an answer is stored for every name.
LookupForAll ==
  /\ hpc = "resolve"
  /\ \E n \in (NamesToResolve \cap Dns) \ DOMAIN resolved :
       \E addrs \in Answers[n] : resolved' = [x \in NamesToResolve \cap Dns |-> addrs]
  /\ UNCHANGED <<config, hpc, next, hsets, ruleset, prober, hkernel>>

\* A name only an alias can have (it has an underscore) is not sent to the DNS.
Lookup ==
  /\ hpc = "resolve"
  /\ \E n \in (NamesToResolve \cap Dns) \ DOMAIN resolved :
       \E addrs \in Answers[n] :
         resolved' = [x \in DOMAIN resolved \cup {n} |-> IF x = n THEN addrs ELSE resolved[x]]
  /\ UNCHANGED <<config, hpc, next, hsets, ruleset, prober, hkernel>>

\* Names without an address, and names that no alias has and no host can have.
Unresolved == {n \in NamesToResolve : n \in Dns => resolved[n] = {}}

\* Fault: a name without an address is let through.
ResolveLeniently ==
  /\ hpc = "resolve"
  /\ NamesToResolve \cap Dns \subseteq DOMAIN resolved
  /\ hpc' = "sets"
  /\ UNCHANGED <<config, next, resolved, hsets, ruleset, prober, hkernel>>

\* One of them, and nothing is built.
ResolveEnds ==
  /\ hpc = "resolve"
  /\ NamesToResolve \cap Dns \subseteq DOMAIN resolved
  /\ IF Unresolved = {} THEN hpc' = "sets" ELSE Die
  /\ UNCHANGED <<config, next, resolved, hsets, ruleset, prober, hkernel>>

-----------------------------------------------------------------------------
(* sets::build                                                              *)

\* check_name_length, on the longer half; check_name_suffix.
BadName(d) ==
  \/ PrefixLength + Length[d.name] + 3 > IpsetNameMax
  \/ \E a \in Alias : d.name = V6Name[a]

Addresses(d) ==
  IF d.host \in Address THEN {d.host} ELSE IF d.host = AnyHost THEN {} ELSE resolved[d.host]

CheckNames ==
  /\ hpc = "sets"
  /\ IF \E d \in Aliases : BadName(d) THEN Die ELSE hpc' = "build_sets"
  /\ next' = 1
  /\ UNCHANGED <<config, resolved, hsets, ruleset, prober, hkernel>>

\* Fault: an alias looks its host up again.
BuildSetAfresh ==
  /\ hpc = "build_sets" /\ next <= Len(config) /\ config[next].kind = "alias"
  /\ \E addrs \in IF config[next].host \in Dns THEN Answers[config[next].host]
                  ELSE {Addresses(config[next])} :
       LET more == Members(config[next], addrs)
       IN  IF Unrepresentable(config[next]) \/ Mixes(hsets, more)
           THEN Die /\ UNCHANGED <<next, hsets>>
           ELSE hsets' = hsets \cup more /\ next' = next + 1 /\ UNCHANGED hpc
  /\ UNCHANGED <<config, resolved, ruleset, prober, hkernel>>

BuildSet ==
  /\ hpc = "build_sets" /\ next <= Len(config) /\ config[next].kind = "alias"
  /\ LET more == Members(config[next], Addresses(config[next]))
     IN  IF Unrepresentable(config[next]) \/ Mixes(hsets, more)
         THEN Die /\ UNCHANGED <<next, hsets>>
         ELSE hsets' = hsets \cup more /\ next' = next + 1 /\ UNCHANGED hpc
  /\ UNCHANGED <<config, resolved, ruleset, prober, hkernel>>

SkipDeclaration ==
  /\ next <= Len(config)
  /\ \/ hpc = "build_sets" /\ config[next].kind = "rule"
     \/ hpc = "build_rules" /\ config[next].kind = "alias"
  /\ next' = next + 1
  /\ UNCHANGED <<config, hpc, resolved, hsets, ruleset, prober, hkernel>>

LoopEnds ==
  /\ next > Len(config)
  /\ \/ hpc = "build_sets" /\ hpc' = "build_rules" /\ next' = 1
     \/ hpc = "build_rules" /\ hpc' = "cleanup" /\ UNCHANGED next
  /\ UNCHANGED <<config, resolved, hsets, ruleset, prober, hkernel>>

-----------------------------------------------------------------------------
(* Prober                                                                   *)

\* Fault: a verdict is looked up by the tail alone.
TailKey(d) == <<"filter", d.opts, d.jump # NoJump>>

\* The jump to a global chain is probed as ACCEPT.
Key(d) == <<d.table, d.opts, d.jump # NoJump>>

Rule == config[next]
Probing == hpc = "build_rules" /\ next <= Len(config) /\ Rule.kind = "rule"
Offering == Probing /\ Rule.chain \notin LongChain \cup Misnamed
Cached == \E e \in cache : e.key = Key(Rule)

\* -N, or -F where a run before this one left the chain; when both fail in a
\* family, every tail is offered to both from now on.
Prepare ==
  /\ Offering /\ ~Cached /\ Rule.table \notin prepared
  /\ prepared' = prepared \cup {Rule.table}
  /\ \E failed \in IF ProbeMayFail THEN SUBSET Family ELSE {{}} :
       /\ degraded' = (degraded \/ failed # {})
       /\ scratch' = scratch \cup ((Family \ failed) \X {Rule.table})
  /\ UNCHANGED <<config, hpc, next, resolved, hsets, ruleset, cache, unremoved, hkernel>>

\* -A in the scratch chain of each family, and -D where it was accepted.
Probe ==
  /\ Offering /\ ~Cached /\ Rule.table \in prepared /\ ~degraded
  /\ \E failed \in IF ProbeMayFail THEN SUBSET Family ELSE {{}} :
       cache' = cache \cup
         {[key |-> Key(Rule),
           families |-> {f \in Family \ failed : <<f, Rule.table, Rule.opts>> \in Accepts}]}
  /\ UNCHANGED <<config, hpc, next, resolved, hsets, ruleset, prepared, degraded, scratch, unremoved,
                 hkernel>>

FamiliesFor(d) ==
  IF \E e \in cache : e.key = Key(d)
  THEN (CHOOSE e \in cache : e.key = Key(d)).families
  ELSE Family

Prepared == scratch \cap (Family \X prepared)

\* -F and -X in every family and table, however the ones before them ended. What
\* rules::build returned is looked at only then.
CleanupProbe ==
  /\ hpc \in {"cleanup", "cleanup_failed"}
  /\ \E failed \in IF ProbeMayFail THEN SUBSET Prepared ELSE {{}} :
       scratch' = (scratch \ Prepared) \cup failed /\ unremoved' = failed
  /\ IF hpc = "cleanup" THEN hpc' = "load_sets" ELSE Die
  /\ UNCHANGED <<config, next, resolved, hsets, ruleset, cache, prepared, degraded, hkernel>>

-----------------------------------------------------------------------------
(* rules::build                                                             *)

\* Fault: the error ends the helper where it is found.
ChainRefusedAtOnce ==
  /\ Probing /\ Rule.chain \in LongChain \cup Misnamed
  /\ Die
  /\ UNCHANGED <<config, next, resolved, hsets, ruleset, prober, hkernel>>

\* chain_name, check_chain_length
ChainRefused ==
  /\ Probing /\ Rule.chain \in LongChain \cup Misnamed
  /\ hpc' = "cleanup_failed"
  /\ UNCHANGED <<config, next, resolved, hsets, ruleset, prober, hkernel>>

\* expand and endpoint: a name that was looked up becomes its addresses, any
\* other is an alias; nothing is left of an endpoint foreign to the family.
Matches(x, f) ==
  IF x = AnyHost THEN {AnyMatch}
  ELSE IF x \in Address THEN LiteralMatches({x}, f)
  ELSE IF x \in DOMAIN resolved /\ resolved[x] # {} THEN LiteralMatches(resolved[x], f)
  ELSE SetMatches(hsets, x, f)

\* Fault: a chain collects its rules in reverse.
Prepended(chains, where, rule) ==
  [w \in DOMAIN chains \cup where |->
     LET old == IF w \in DOMAIN chains THEN chains[w] ELSE <<>>
     IN  IF w \in where THEN <<rule[w[1]]>> \o old ELSE old]

Appended(chains, where, rule) ==
  [w \in DOMAIN chains \cup where |->
     LET old == IF w \in DOMAIN chains THEN chains[w] ELSE <<>>
     IN  IF w \in where THEN Append(old, rule[w[1]]) ELSE old]

BuildRule ==
  /\ Offering /\ (Cached \/ (degraded /\ Rule.table \in prepared))
  /\ LET pairs(f) == Matches(Rule.src, f) \X Matches(Rule.dst, f)
         rule == [f \in Family |-> [opts |-> Rule.opts, jump |-> Rule.jump, matches |-> pairs(f)]]
         where == {<<f, Rule.table, Rule.chain>> : f \in {g \in FamiliesFor(Rule) : pairs(g) # {}}}
     IN  ruleset' = Appended(ruleset, where, rule)
  /\ next' = next + 1
  /\ UNCHANGED <<config, hpc, resolved, hsets, prober, hkernel>>

-----------------------------------------------------------------------------
(* What reaches the kernel.                                                 *)

\* ipset restore -! goes line by line: what precedes the one it refuses stays.
LoadSets ==
  /\ hpc = "load_sets"
  /\ IF IpsetRefuses(hsets)
     THEN Die /\ ksets' \in {s \in SUBSET hsets : ~IpsetRefuses(s)}
     ELSE ksets' = hsets /\ hpc' = "load_v4"
  /\ UNCHANGED <<config, next, resolved, hsets, ruleset, prober, kchains>>

\* iptables-restore takes a table when the options and addresses of every rule
\* are its own, and the chains and sets they name exist. (Chains that jump to
\* each other in a circle, which both paths are refused, are left out.)
Refused(f, t) ==
  \E w \in DOMAIN ruleset : \E i \in DOMAIN ruleset[w] :
    LET r == ruleset[w][i]
    IN  /\ w[1] = f /\ w[2] = t
        /\ \/ <<f, t, r.opts>> \notin Accepts
           \/ r.jump # NoJump /\ <<f, t, r.jump>> \notin DOMAIN ruleset
           \/ \E p \in r.matches : \E k \in {1, 2} :
                \/ p[k].by = "set" /\ ~\E m \in ksets : m.set = p[k].set
                \/ p[k].by = "address" /\ FamilyOf[p[k].is] # f

Unloaded(f) == {w[2] : w \in {x \in DOMAIN ruleset \ DOMAIN kchains : x[1] = f}}

LoadStep == [v4 |-> "load_v4", v6 |-> "load_v6"]

LoadTable(f) ==
  /\ hpc = LoadStep[f]
  /\ \E t \in Unloaded(f) :
       IF Refused(f, t)
       THEN Die /\ UNCHANGED kchains
       ELSE LET loaded == {w \in DOMAIN ruleset : w[1] = f /\ w[2] = t}
            IN  /\ kchains' = [w \in DOMAIN kchains \cup loaded |->
                                 IF w \in loaded THEN ruleset[w] ELSE kchains[w]]
                /\ UNCHANGED hpc
  /\ UNCHANGED <<config, next, resolved, hsets, ruleset, prober, ksets>>

FamilyLoaded ==
  /\ \/ hpc = "load_v4" /\ Unloaded("v4") = {} /\ hpc' = "load_v6"
     \/ hpc = "load_v6" /\ Unloaded("v6") = {} /\ hpc' = "ok"
  /\ UNCHANGED <<config, next, resolved, hsets, ruleset, prober, hkernel>>

-----------------------------------------------------------------------------
HInit ==
  /\ hpc = "parse" /\ next = 1
  /\ resolved = [n \in {} |-> {}]
  /\ hsets = {} /\ ruleset = NoChains
  /\ cache = {} /\ prepared = {} /\ degraded = FALSE
  /\ scratch \in LeftScratch /\ unremoved = {}
  /\ ksets = {} /\ kchains = NoChains

HNext ==
  \/ Parse \/ Lookup \/ ResolveEnds
  \/ CheckNames \/ BuildSet \/ SkipDeclaration \/ LoopEnds
  \/ ChainRefused \/ Prepare \/ Probe \/ BuildRule \/ CleanupProbe
  \/ LoadSets \/ LoadTable("v4") \/ LoadTable("v6") \/ FamilyLoaded

HSpec == HInit /\ config \in Config /\ [][HNext]_<<config, hvars>>
=============================================================================
