--------------------------- MODULE CfwBuildProofs ---------------------------
(***************************************************************************)
(* Facts about the build helper that hold for every configuration, every    *)
(* answer of the DNS, whatever the binaries accept, and with a probe that   *)
(* fails or not.                                                            *)
(***************************************************************************)
EXTENDS BuildPaths, TLAPS, SequenceTheorems

-----------------------------------------------------------------------------
(* The scratch chains.                                                      *)

BeforeRules == {"parse", "resolve", "sets", "build_sets"}
AfterCleanup == {"load_sets", "load_v4", "load_v6", "ok", "failed"}

\* The helper has touched no scratch chain before it builds rules. It can die
\* without a cleanup only then.
ScratchInv ==
  /\ hpc \in BeforeRules => prepared = {}
  /\ ScratchRemoved

LEMMA ScratchInit == Init => ScratchInv
BY DEF Init, HInit, ScratchInv, ScratchRemoved, BeforeRules

LEMMA ScratchNext == ScratchInv /\ [Next]_<<config, svars, hvars>> => ScratchInv'
<1> SUFFICES ASSUME ScratchInv, [Next]_<<config, svars, hvars>>
             PROVE  ScratchInv'
  OBVIOUS
<1> USE DEF ScratchInv, ScratchRemoved, BeforeRules, Prepared
<1>1. CASE UNCHANGED hvars
  BY <1>1 DEF hvars, prober
<1>2. ASSUME Parse \/ Lookup \/ ResolveEnds \/ CheckNames \/ BuildSet
      PROVE  ScratchInv'
  BY <1>2 DEF Parse, Lookup, ResolveEnds, CheckNames, BuildSet, Die, prober
<1>3. ASSUME SkipDeclaration \/ LoopEnds
      PROVE  ScratchInv'
  BY <1>3 DEF SkipDeclaration, LoopEnds, prober
<1>4. ASSUME ChainRefused \/ Probe \/ BuildRule
      PROVE  ScratchInv'
  BY <1>4 DEF ChainRefused, Probe, BuildRule, Offering, Probing, prober
<1>5. CASE Prepare
  BY <1>5 DEF Prepare, Offering, Probing
<1>6. CASE CleanupProbe
  <2>1. Prepared' \subseteq unremoved'
    BY <1>6 DEF CleanupProbe, Prepared
  <2> QED
    BY <1>6, <2>1 DEF CleanupProbe, Die
<1>7. ASSUME LoadSets \/ LoadTable("v4") \/ LoadTable("v6") \/ FamilyLoaded
      PROVE  ScratchInv'
  BY <1>7 DEF LoadSets, LoadTable, LoadStep, FamilyLoaded, Die, prober
<1> QED
  BY <1>1, <1>2, <1>3, <1>4, <1>5, <1>6, <1>7 DEF Next, HNext, hvars

\* However the helper ends by itself, the scratch chains of the tables it probed
\* are gone but for those iptables failed to remove (main.rs: the cleanup comes
\* before the error of rules::build is looked at; probe.rs: it goes on after a
\* command that failed).
THEOREM ScratchGone == Spec => []ScratchRemoved
<1>1. Init => ScratchInv
  BY ScratchInit
<1>2. ScratchInv /\ [Next]_<<config, svars, hvars>> => ScratchInv'
  BY ScratchNext
<1>3. ScratchInv => ScratchRemoved
  BY DEF ScratchInv
<1> QED
  BY <1>1, <1>2, <1>3, PTL DEF Spec

-----------------------------------------------------------------------------
(* Type correctness.                                                        *)

\* A verdict of the probe names families whose binary accepts the tail.
CacheSound ==
  \A e \in cache : e.families \subseteq {f \in Family : <<f, e.key[1], e.key[2]>> \in Accepts}

\* The configuration is made of declarations.
TypeInv == config \in Seq(AliasDecl \cup RuleDecl) /\ BuildTypeOK /\ CacheSound

\* Offering a tail to both families, or to those that took it before.
LEMMA FamiliesForFamily ==
  ASSUME CacheSound, NEW d
  PROVE  /\ FamiliesFor(d) \subseteq Family
         /\ (\E e \in cache : e.key = Key(d)) =>
              FamiliesFor(d) \subseteq {f \in Family : <<f, d.table, d.opts>> \in Accepts}
<1>1. CASE \E e \in cache : e.key = Key(d)
  <2> DEFINE v == CHOOSE e \in cache : e.key = Key(d)
  <2>1. v \in cache /\ v.key = Key(d)
    BY <1>1
  <2>2. FamiliesFor(d) = v.families
    BY <1>1 DEF FamiliesFor
  <2> HIDE DEF v
  <2>3. v.families \subseteq {f \in Family : <<f, v.key[1], v.key[2]>> \in Accepts}
    BY <2>1 DEF CacheSound
  <2>4. v.key[1] = d.table /\ v.key[2] = d.opts
    BY <2>1 DEF Key
  <2> QED
    BY <2>2, <2>3, <2>4
<1>2. CASE ~\E e \in cache : e.key = Key(d)
  BY <1>2 DEF FamiliesFor
<1> QED
  BY <1>1, <1>2

LEMMA Declared ==
  ASSUME config \in Seq(AliasDecl \cup RuleDecl), NEW i \in Nat \ {0}, i <= Len(config)
  PROVE  /\ i \in DOMAIN config
         /\ config[i].kind = "alias" => config[i] \in AliasDecl
         /\ config[i].kind = "rule" => config[i] \in RuleDecl
<1>1. i \in DOMAIN config /\ config[i] \in AliasDecl \cup RuleDecl
  OBVIOUS
<1> QED
  BY <1>1 DEF AliasDecl, RuleDecl

LEMMA TypeInit == Init => TypeInv
<1> SUFFICES ASSUME Init PROVE TypeInv
  OBVIOUS
<1>1. config \in Seq(AliasDecl \cup RuleDecl)
  BY ConfigAssumption DEF Init
<1>2. Len(config) \in Nat
  BY <1>1
<1>3. scratch \subseteq Family \X Table
  BY HelperAssumption DEF Init, HInit
<1>4. degraded \in BOOLEAN
  BY DEF Init, HInit
<1>5. DOMAIN ruleset \cup DOMAIN kchains \cup DOMAIN schains = {}
  BY DEF Init, HInit, SInit, NoChains
<1>6. DOMAIN resolved = {}
  BY DEF Init, HInit
<1>7. line \in 1..Len(config) + 1 /\ next \in 1..Len(config) + 1
  BY <1>2 DEF Init, HInit, SInit
<1> QED
  BY <1>1, <1>3, <1>4, <1>5, <1>6, <1>7
     DEF Init, HInit, SInit, TypeInv, BuildTypeOK, CacheSound

\* A step of the scripts.
LEMMA TypeShell ==
  ASSUME TypeInv, SNext, UNCHANGED hvars
  PROVE  TypeInv'
<1>0. /\ config' = config /\ Len(config) \in Nat
      /\ UNCHANGED <<hpc, next, resolved, ruleset, prober, kchains>>
      /\ UNCHANGED <<cache, prepared, degraded, scratch, unremoved>>
  BY DEF SNext, AddAlias, AddRule, ShellEnds, TypeInv, hvars, prober, hkernel
<1>1. CASE AddAlias
  BY <1>0, <1>1 DEF AddAlias, Abort, TypeInv, BuildTypeOK, CacheSound
<1>2. CASE AddRule
  <2>1. spc' \in {"run", "ok", "failed"} /\ line' \in 1..Len(config) + 1
    BY <1>0, <1>2 DEF AddRule, Abort, TypeInv, BuildTypeOK, CacheSound
  <2>2. DOMAIN schains' \subseteq Family \X Table \X Chain
    <3> DEFINE made == Family \X {config[line].table} \X {ShellChain[config[line].chain]}
    <3>1. config[line] \in RuleDecl
      BY <1>0, <1>2, Declared DEF AddRule, TypeInv, BuildTypeOK, CacheSound
    <3>2. config[line].table \in Table /\ ShellChain[config[line].chain] \in Chain
      BY <3>1, ConfigAssumption DEF RuleDecl
    <3>3. made \subseteq Family \X Table \X Chain
      BY <3>2
    <3>4. DOMAIN schains' \subseteq DOMAIN schains \cup made
      BY <1>2 DEF AddRule, Abort
    <3> QED
      BY <3>3, <3>4 DEF TypeInv, BuildTypeOK, CacheSound
  <2> QED
    BY <1>0, <2>1, <2>2 DEF TypeInv, BuildTypeOK, CacheSound
<1>3. CASE ShellEnds
  BY <1>0, <1>3 DEF ShellEnds, TypeInv, BuildTypeOK, CacheSound
<1> QED
  BY <1>1, <1>2, <1>3 DEF SNext

\* A step of the helper.
LEMMA TypeHelper ==
  ASSUME TypeInv, HNext, UNCHANGED svars
  PROVE  TypeInv'
<1>0. config' = config /\ Len(config) \in Nat /\ UNCHANGED <<spc, line, schains>>
  BY DEF HNext, Parse, Lookup, ResolveEnds, CheckNames, BuildSet, SkipDeclaration, LoopEnds,
         ChainRefused, Prepare, Probe, BuildRule, CleanupProbe, LoadSets, LoadTable,
         FamilyLoaded, TypeInv, svars
<1> USE <1>0 DEF TypeInv, BuildTypeOK, CacheSound
<1>1. ASSUME Parse \/ ResolveEnds \/ CheckNames \/ BuildSet \/ SkipDeclaration \/ LoopEnds
      PROVE  TypeInv'
  BY <1>1 DEF Parse, ResolveEnds, CheckNames, BuildSet, SkipDeclaration, LoopEnds, Die,
              prober, hkernel
<1>2. CASE Lookup
  <2>1. PICK n \in NamesToResolve \cap Dns : \E addrs \in Answers[n] :
          resolved' = [x \in DOMAIN resolved \cup {n} |-> IF x = n THEN addrs ELSE resolved[x]]
    BY <1>2 DEF Lookup
  <2>2. /\ DOMAIN resolved' \subseteq Dns
        /\ \A x \in DOMAIN resolved' : resolved'[x] \in Answers[x]
    BY <2>1
  <2> QED
    BY <1>2, <2>2 DEF Lookup, prober, hkernel
<1>3. ASSUME ChainRefused \/ LoadSets \/ FamilyLoaded
      PROVE  TypeInv'
  BY <1>3 DEF ChainRefused, LoadSets, FamilyLoaded, Probing, Die, prober, hkernel
<1>8. CASE Probe
  <2>1. PICK failed \in SUBSET Family :
          cache' = cache \cup
            {[key |-> Key(Rule),
              families |-> {f \in Family \ failed : <<f, Rule.table, Rule.opts>> \in Accepts}]}
    BY <1>8 DEF Probe
  <2>2. CacheSound'
    BY <2>1 DEF Key
  <2> QED
    BY <1>8, <2>2 DEF Probe, hkernel
<1>4. CASE Prepare
  <2>1. Rule.table \in Table
    BY <1>4, Declared DEF Prepare, Offering, Probing, Rule, RuleDecl
  <2>2. PICK failed \in SUBSET Family :
          /\ degraded' = (degraded \/ failed # {})
          /\ scratch' = scratch \cup ((Family \ failed) \X {Rule.table})
    BY <1>4 DEF Prepare
  <2>3. degraded' \in BOOLEAN
    BY <2>2, Zenon
  <2>4. scratch' \subseteq Family \X Table /\ prepared' \subseteq Table
    BY <1>4, <2>1, <2>2 DEF Prepare
  <2> QED
    BY <1>4, <2>3, <2>4 DEF Prepare, Offering, Probing, hkernel
<1>5. CASE BuildRule
  <2>1. Rule \in RuleDecl
    BY <1>5, Declared DEF BuildRule, Offering, Probing, Rule
  <2>2. FamiliesFor(Rule) \X {Rule.table} \X {Rule.chain} \subseteq Family \X Table \X Chain
    BY <2>1, FamiliesForFamily DEF RuleDecl
  <2>3. DOMAIN ruleset' \subseteq
          DOMAIN ruleset \cup (FamiliesFor(Rule) \X {Rule.table} \X {Rule.chain})
    BY <1>5 DEF BuildRule, Appended
  <2>4. DOMAIN ruleset' \subseteq Family \X Table \X Chain
    BY <2>2, <2>3
  <2>5. next' \in 1..Len(config) + 1
    BY <1>5 DEF BuildRule, Offering, Probing
  <2> QED
    BY <1>5, <2>4, <2>5 DEF BuildRule, prober, hkernel
<1>6. CASE CleanupProbe
  <2>1. scratch' \cup unremoved' \subseteq scratch
    BY <1>6 DEF CleanupProbe, Prepared
  <2> QED
    BY <1>6, <2>1 DEF CleanupProbe, Die, hkernel
<1>7. ASSUME NEW f \in Family, LoadTable(f)
      PROVE  TypeInv'
  BY <1>7 DEF LoadTable, Die, prober
<1> QED
  BY <1>1, <1>2, <1>3, <1>4, <1>5, <1>6, <1>7, <1>8 DEF HNext, Family

LEMMA TypeNext == TypeInv /\ [Next]_<<config, svars, hvars>> => TypeInv'
<1> SUFFICES ASSUME TypeInv, [Next]_<<config, svars, hvars>>
             PROVE  TypeInv'
  OBVIOUS
<1>1. CASE UNCHANGED <<config, svars, hvars>>
  BY <1>1 DEF TypeInv, BuildTypeOK, CacheSound, svars, hvars, prober, hkernel
<1> QED
  BY <1>1, TypeShell, TypeHelper DEF Next

\* Both paths stay in the ranges of their variables, and what is kept for a name
\* is an answer the DNS gave (resolve.rs).
THEOREM BuildTypes == Spec => []BuildTypeOK
<1>1. Init => TypeInv
  BY TypeInit
<1>2. TypeInv /\ [Next]_<<config, svars, hvars>> => TypeInv'
  BY TypeNext
<1>3. TypeInv => BuildTypeOK
  BY DEF TypeInv
<1> QED
  BY <1>1, <1>2, <1>3, PTL DEF Spec

-----------------------------------------------------------------------------
(* The sets: what is settled about names before they are built, and what    *)
(* they are made of.                                                        *)

Built == {"build_rules", "cleanup", "cleanup_failed", "load_sets", "load_v4", "load_v6", "ok"}
AfterNames == {"build_sets"} \cup Built
AfterResolve == {"sets"} \cup AfterNames
AfterParse == {"resolve"} \cup AfterResolve

\* Something has been loaded.
InKernel == ksets # {} \/ kchains # NoChains

NamesParsed == \A d \in Aliases : d.name \in Alias
HostsKnown ==
  \A d \in Aliases : d.host # AnyHost => Addresses(d) # {} /\ Addresses(d) \subseteq Address
NamesFit == \A d \in Aliases : ~BadName(d)

\* The sets of the aliases before declaration n.
SetsBefore(n) ==
  UNION {Members(config[i], Addresses(config[i])) :
           i \in {k \in DOMAIN config : k < n /\ config[k].kind = "alias"}}

NamesInv ==
  /\ hpc \in AfterParse \/ InKernel => NamesParsed
  /\ hpc \in AfterResolve \/ InKernel => HostsKnown
  /\ hpc \in AfterNames \/ InKernel => NamesFit

SetsInv ==
  /\ hpc \in {"parse", "resolve", "sets"} => hsets = {}
  /\ hpc = "build_sets" => hsets = SetsBefore(next)
  /\ hpc \in Built \/ InKernel => hsets = SetsBefore(Len(config) + 1)

\* Nothing is loaded before everything is built, and no chain before the sets.
OrderInv ==
  /\ hpc \in BeforeRules \cup {"build_rules", "cleanup", "cleanup_failed", "load_sets"} =>
       ~InKernel
  /\ hpc \in {"load_v4", "load_v6", "ok"} \/ kchains # NoChains => ksets = hsets

LoadInv == TypeInv /\ NamesInv /\ SetsInv /\ OrderInv

\* The three facts about names depend on the configuration and the answers only.
LEMMA NamesStay ==
  ASSUME UNCHANGED <<config, resolved>>
  PROVE  /\ NamesParsed' <=> NamesParsed
         /\ HostsKnown' <=> HostsKnown
         /\ NamesFit' <=> NamesFit
         /\ \A n : SetsBefore(n)' = SetsBefore(n)
<1>1. Aliases' = Aliases
  BY DEF Aliases
<1>2. \A d : Addresses(d)' = Addresses(d)
  BY DEF Addresses
<1>3. \A d : BadName(d)' <=> BadName(d)
  BY DEF BadName
<1>4. \A n : SetsBefore(n)' = SetsBefore(n)
  BY <1>2 DEF SetsBefore
<1> QED
  BY <1>1, <1>2, <1>3, <1>4 DEF NamesParsed, HostsKnown, NamesFit

LEMMA LoadInit == Init => LoadInv
<1> SUFFICES ASSUME Init PROVE LoadInv
  OBVIOUS
<1>1. hpc = "parse" /\ hsets = {} /\ ~InKernel
  BY DEF Init, HInit, InKernel
<1>2. NamesInv /\ SetsInv /\ OrderInv
  BY <1>1 DEF NamesInv, SetsInv, OrderInv, Built, AfterNames, AfterResolve, AfterParse,
              InKernel
<1> QED
  BY <1>2, TypeInit DEF LoadInv

\* An alias the parser let through has a name without a dot.
LEMMA ParsedNames ==
  ASSUME TypeInv, ~\E i \in DOMAIN config : Malformed(config[i])
  PROVE  NamesParsed
<1> SUFFICES ASSUME NEW d \in Aliases PROVE d.name \in Alias
  BY DEF NamesParsed
<1>1. PICK i \in DOMAIN config : config[i] = d /\ d.kind = "alias"
  BY DEF Aliases
<1>2. d \in AliasDecl
  BY <1>1, Declared DEF TypeInv
<1> QED
  BY <1>1, <1>2 DEF AliasDecl, Malformed

\* When every name has an address, every alias has.
LEMMA ResolvedHosts ==
  ASSUME TypeInv, Unresolved = {}, NamesToResolve \cap Dns \subseteq DOMAIN resolved
  PROVE  HostsKnown
<1> SUFFICES ASSUME NEW d \in Aliases, d.host # AnyHost
             PROVE  Addresses(d) # {} /\ Addresses(d) \subseteq Address
  BY DEF HostsKnown
<1>1. CASE d.host \in Address
  BY <1>1 DEF Addresses
<1>2. CASE d.host \notin Address
  <2>1. d.host \in NamesToResolve
    BY <1>2 DEF NamesToResolve
  <2>2. d.host \in Dns /\ resolved[d.host] # {}
    BY <2>1 DEF Unresolved
  <2>3. resolved[d.host] \in Answers[d.host]
    BY <2>1, <2>2 DEF TypeInv, BuildTypeOK
  <2>4. Answers[d.host] \in SUBSET SUBSET Address
    BY <2>2, ConfigAssumption
  <2> QED
    BY <1>2, <2>2, <2>3, <2>4 DEF Addresses
<1> QED
  BY <1>1, <1>2

\* One more alias, one more declaration that is none, the end of the loop.
LEMMA SetsBeforeNext ==
  ASSUME TypeInv
  PROVE  /\ SetsBefore(1) = {}
         /\ next <= Len(config) /\ config[next].kind = "alias" =>
              SetsBefore(next + 1) =
                SetsBefore(next) \cup Members(config[next], Addresses(config[next]))
         /\ next <= Len(config) /\ config[next].kind # "alias" =>
              SetsBefore(next + 1) = SetsBefore(next)
         /\ next > Len(config) => SetsBefore(next) = SetsBefore(Len(config) + 1)
<1> DEFINE A(n) == {k \in DOMAIN config : k < n /\ config[k].kind = "alias"}
<1>0. /\ Len(config) \in Nat /\ DOMAIN config = 1..Len(config)
      /\ next \in 1..Len(config) + 1
  BY DEF TypeInv, BuildTypeOK
<1>1. A(1) = {}
  BY <1>0
<1>2. next <= Len(config) /\ config[next].kind = "alias" => A(next + 1) = A(next) \cup {next}
  BY <1>0
<1>3. next <= Len(config) /\ config[next].kind # "alias" => A(next + 1) = A(next)
  BY <1>0
<1>4. next > Len(config) => A(next) = A(Len(config) + 1)
  BY <1>0
<1>5. \A n : SetsBefore(n) = UNION {Members(config[i], Addresses(config[i])) : i \in A(n)}
  BY DEF SetsBefore
<1> HIDE DEF A
<1>6. next <= Len(config) /\ config[next].kind = "alias" =>
        SetsBefore(next + 1) =
          SetsBefore(next) \cup Members(config[next], Addresses(config[next]))
  BY <1>2, <1>5
<1> QED
  BY <1>1, <1>3, <1>4, <1>5, <1>6

\* Neither the phase, nor the configuration, nor what is built or loaded changes.
LEMMA LoadStutter ==
  ASSUME LoadInv, TypeInv', UNCHANGED <<config, hpc, next, resolved, hsets, hkernel>>
  PROVE  LoadInv'
BY NamesStay DEF LoadInv, NamesInv, SetsInv, OrderInv, InKernel, hkernel

\* The steps before the sets are built.
LEMMA LoadNames ==
  ASSUME LoadInv, TypeInv', Parse \/ Lookup \/ ResolveEnds \/ CheckNames
  PROVE  LoadInv'
<1> USE DEF Built, AfterNames, AfterResolve, AfterParse, BeforeRules
<1>1. /\ hpc \in {"parse", "resolve", "sets"} /\ ~InKernel /\ ~InKernel'
      /\ hsets = {} /\ hsets' = {}
  BY DEF LoadInv, SetsInv, OrderInv, Parse, Lookup, ResolveEnds, CheckNames, InKernel, hkernel
<1>2. OrderInv'
  BY <1>1 DEF OrderInv, InKernel, Parse, Lookup, ResolveEnds, CheckNames, Die
<1>3. CASE Parse
  <2>1. UNCHANGED <<config, resolved>> /\ hpc' \in {"resolve", "failed"}
    BY <1>3 DEF Parse, Die
  <2>2. hpc' = "resolve" => NamesParsed'
    BY <1>3, <2>1, ParsedNames, NamesStay DEF Parse, Die, LoadInv
  <2> QED
    BY <1>1, <1>2, <2>1, <2>2 DEF LoadInv, NamesInv, SetsInv
<1>4. CASE Lookup
  <2>1. hpc' = "resolve" /\ NamesParsed
    BY <1>4 DEF Lookup, LoadInv, NamesInv
  <2>2. NamesParsed'
    BY <1>4, <2>1 DEF Lookup, NamesParsed, Aliases
  <2> QED
    BY <1>1, <1>2, <2>1, <2>2 DEF LoadInv, NamesInv, SetsInv
<1>5. CASE ResolveEnds
  <2>1. UNCHANGED <<config, resolved>> /\ hpc' \in {"sets", "failed"} /\ NamesParsed
    BY <1>5 DEF ResolveEnds, Die, LoadInv, NamesInv
  <2>2. hpc' = "sets" => HostsKnown
    BY <1>5, ResolvedHosts DEF ResolveEnds, Die, LoadInv
  <2> QED
    BY <1>1, <1>2, <2>1, <2>2, NamesStay DEF LoadInv, NamesInv, SetsInv
<1>6. CASE CheckNames
  <2>1. /\ UNCHANGED <<config, resolved>> /\ next' = 1
        /\ hpc' \in {"build_sets", "failed"} /\ NamesParsed /\ HostsKnown
    BY <1>6 DEF CheckNames, Die, LoadInv, NamesInv
  <2>2. hpc' = "build_sets" => NamesFit
    BY <1>6 DEF CheckNames, Die, NamesFit
  <2>3. SetsBefore(1) = {}
    BY SetsBeforeNext DEF LoadInv
  <2>4. SetsBefore(next') = {}
    BY <2>1, <2>3
  <2>5. SetsBefore(next)' = {}
    BY <2>1, <2>4, NamesStay
  <2> QED
    BY <1>1, <1>2, <2>1, <2>2, <2>5, NamesStay DEF LoadInv, NamesInv, SetsInv
<1> QED
  BY <1>3, <1>4, <1>5, <1>6

\* The loops over the declarations, and the rest of what happens before loading.
LEMMA LoadLoops ==
  ASSUME LoadInv, TypeInv', BuildSet \/ SkipDeclaration \/ LoopEnds \/ BuildRule
                              \/ ChainRefused \/ CleanupProbe
  PROVE  LoadInv'
<1> USE DEF Built, AfterNames, AfterResolve, AfterParse, BeforeRules
<1>1. /\ hpc \in {"build_sets", "build_rules", "cleanup", "cleanup_failed"}
      /\ ~InKernel /\ ~InKernel' /\ UNCHANGED <<config, resolved>>
  BY DEF LoadInv, OrderInv, BuildSet, SkipDeclaration, LoopEnds, BuildRule, ChainRefused,
         CleanupProbe, Probing, Offering, InKernel, hkernel
<1>2. /\ hpc' \in {"build_sets", "build_rules", "cleanup", "cleanup_failed", "load_sets",
                   "failed"}
  BY <1>1 DEF BuildSet, SkipDeclaration, LoopEnds, BuildRule, ChainRefused, CleanupProbe, Die
<1>3. NamesInv'
  BY <1>1, <1>2, NamesStay DEF LoadInv, NamesInv
<1>4. OrderInv'
  BY <1>1, <1>2 DEF OrderInv, InKernel
<1>5. \A n : SetsBefore(n)' = SetsBefore(n)
  BY <1>1, NamesStay
<1>6. Len(config') = Len(config)
  BY <1>1
<1>7. SetsInv'
  <2>1. CASE BuildSet
    <3>1. CASE hpc' = "failed"
      BY <1>1, <3>1 DEF SetsInv
    <3>2. CASE hpc' # "failed"
      <4>1. /\ hpc = "build_sets" /\ hpc' = "build_sets" /\ next' = next + 1
            /\ next <= Len(config) /\ config[next].kind = "alias"
            /\ hsets' = hsets \cup Members(config[next], Addresses(config[next]))
        BY <2>1, <3>2 DEF BuildSet, Die
      <4>2. hsets' = SetsBefore(next + 1)
        BY <4>1, SetsBeforeNext DEF LoadInv, SetsInv
      <4>3. hsets' = SetsBefore(next')
        BY <4>1, <4>2
      <4>4. hsets' = SetsBefore(next)'
        BY <4>3, <1>1, NamesStay
      <4> QED
        BY <1>1, <4>1, <4>4 DEF SetsInv
    <3> QED
      BY <3>1, <3>2
  <2>2. CASE SkipDeclaration
    <3>1. CASE hpc = "build_sets"
      <4>1. /\ hpc' = "build_sets" /\ next' = next + 1 /\ hsets' = hsets
            /\ next <= Len(config) /\ config[next].kind # "alias"
        BY <2>2, <3>1 DEF SkipDeclaration
      <4>2. hsets' = SetsBefore(next + 1)
        BY <3>1, <4>1, SetsBeforeNext DEF LoadInv, SetsInv
      <4>3. hsets' = SetsBefore(next')
        BY <4>1, <4>2
      <4>4. hsets' = SetsBefore(next)'
        BY <4>3, <1>1, NamesStay
      <4> QED
        BY <1>1, <4>1, <4>4 DEF SetsInv
    <3>2. CASE hpc # "build_sets"
      <4>1. hpc = "build_rules" /\ hpc' = "build_rules" /\ hsets' = hsets
        BY <2>2, <3>2 DEF SkipDeclaration
      <4> QED
        BY <1>1, <1>5, <1>6, <4>1 DEF LoadInv, SetsInv
    <3> QED
      BY <3>1, <3>2
  <2>3. CASE LoopEnds
    <3>1. CASE hpc = "build_sets"
      <4>1. hpc' = "build_rules" /\ hsets' = hsets /\ next > Len(config)
        BY <2>3, <3>1 DEF LoopEnds
      <4>2. hsets' = SetsBefore(Len(config) + 1)
        BY <3>1, <4>1, SetsBeforeNext DEF LoadInv, SetsInv
      <4> QED
        BY <1>1, <1>5, <1>6, <4>1, <4>2 DEF SetsInv
    <3>2. CASE hpc # "build_sets"
      <4>1. hpc = "build_rules" /\ hpc' = "cleanup" /\ hsets' = hsets
        BY <2>3, <3>2 DEF LoopEnds
      <4> QED
        BY <1>1, <1>5, <1>6, <4>1 DEF LoadInv, SetsInv
    <3> QED
      BY <3>1, <3>2
  <2>4. ASSUME BuildRule \/ ChainRefused \/ CleanupProbe
        PROVE  SetsInv'
    <3>1. hpc \in Built /\ hpc' \in Built \cup {"failed"} /\ hsets' = hsets
      BY <2>4 DEF BuildRule, ChainRefused, CleanupProbe, Probing, Offering, Die
    <3> QED
      BY <1>1, <1>5, <1>6, <3>1 DEF LoadInv, SetsInv
  <2> QED
    BY <2>1, <2>2, <2>3, <2>4
<1> QED
  BY <1>3, <1>4, <1>7 DEF LoadInv

\* Loading.
LEMMA LoadKernel ==
  ASSUME LoadInv, TypeInv', LoadSets \/ FamilyLoaded \/ LoadTable("v4") \/ LoadTable("v6")
  PROVE  LoadInv'
<1> USE DEF Built, AfterNames, AfterResolve, AfterParse, BeforeRules
<1>1. /\ hpc \in {"load_sets", "load_v4", "load_v6"}
      /\ hpc' \in {"load_v4", "load_v6", "ok", "failed"}
      /\ UNCHANGED <<config, resolved, hsets>>
  BY DEF LoadSets, FamilyLoaded, LoadTable, LoadStep, Die
<1>2. NamesInv'
  BY <1>1, NamesStay DEF LoadInv, NamesInv
<1>3. Len(config') = Len(config) /\ \A n : SetsBefore(n)' = SetsBefore(n)
  BY <1>1, NamesStay
<1>4. SetsInv'
  BY <1>1, <1>3 DEF LoadInv, SetsInv
<1>5. OrderInv'
  <2>1. CASE LoadSets
    BY <2>1 DEF LoadSets, Die, LoadInv, OrderInv, InKernel
  <2>2. ASSUME FamilyLoaded \/ LoadTable("v4") \/ LoadTable("v6")
        PROVE  OrderInv'
    <3>1. hpc \in {"load_v4", "load_v6"} /\ ksets' = ksets
      BY <2>2 DEF FamilyLoaded, LoadTable, LoadStep, hkernel
    <3> QED
      BY <1>1, <3>1 DEF LoadInv, OrderInv
  <2> QED
    BY <2>1, <2>2
<1> QED
  BY <1>2, <1>4, <1>5 DEF LoadInv

LEMMA LoadNext == LoadInv /\ [Next]_<<config, svars, hvars>> => LoadInv'
<1> SUFFICES ASSUME LoadInv, [Next]_<<config, svars, hvars>>
             PROVE  LoadInv'
  OBVIOUS
<1>0. TypeInv'
  BY TypeNext DEF LoadInv
<1>1. CASE UNCHANGED <<config, svars, hvars>>
  BY <1>0, <1>1, LoadStutter DEF hvars
<1>2. CASE SNext /\ UNCHANGED hvars
  <2>1. config' = config
    BY <1>2 DEF SNext, AddAlias, AddRule, ShellEnds
  <2> QED
    BY <1>0, <1>2, <2>1, LoadStutter DEF hvars
<1>3. CASE HNext
  <2>1. ASSUME Prepare \/ Probe PROVE LoadInv'
    BY <1>0, <2>1, LoadStutter DEF Prepare, Probe
  <2> QED
    BY <1>0, <1>3, <2>1, LoadNames, LoadLoops, LoadKernel DEF HNext
<1> QED
  BY <1>1, <1>2, <1>3 DEF Next

\* An alias whose host has addresses is a member of the sets.
LEMMA MembersNotEmpty ==
  ASSUME NEW d, NEW addrs, d.host # AnyHost => addrs # {}
  PROVE  \E m \in Members(d, addrs) : m.set \in {d.name, V6Name[d.name]} /\ m.type = SetType(d)
<1>1. CASE d.host = AnyHost
  BY <1>1 DEF Members, SetType
<1>2. CASE d.host # AnyHost
  <2>1. PICK x \in addrs : TRUE
    BY <1>2
  <2> DEFINE m == [set |-> SetName(d.name, FamilyOf[x]), type |-> SetType(d),
                   family |-> FamilyOf[x], entry |-> <<x, d.port>>]
  <2>2. m \in Members(d, addrs)
    BY <1>2, <2>1 DEF Members
  <2>3. m.set \in {d.name, V6Name[d.name]} /\ m.type = SetType(d)
    BY DEF SetName
  <2> QED
    BY <2>2, <2>3
<1> QED
  BY <1>1, <1>2

LEMMA LoadInvWhole == LoadInv => LoadedWhole
<1> SUFFICES ASSUME LoadInv PROVE LoadedWhole
  OBVIOUS
<1>1. ASSUME InKernel, NEW d \in Aliases
      PROVE  \E m \in hsets : m.set \in {d.name, V6Name[d.name]} /\ m.type = SetType(d)
  <2>1. hsets = SetsBefore(Len(config) + 1) /\ HostsKnown
    BY <1>1 DEF LoadInv, SetsInv, NamesInv
  <2>2. PICK i \in DOMAIN config : config[i] = d /\ config[i].kind = "alias"
    BY DEF Aliases
  <2>3. i < Len(config) + 1
    BY DEF LoadInv, TypeInv
  <2>4. Members(d, Addresses(d)) \subseteq hsets
    BY <2>1, <2>2, <2>3 DEF SetsBefore
  <2>5. d.host # AnyHost => Addresses(d) # {}
    BY <2>1 DEF HostsKnown
  <2> QED
    BY <2>4, <2>5, MembersNotEmpty
<1> QED
  BY <1>1 DEF LoadedWhole, InKernel, LoadInv, OrderInv

\* Nothing is loaded before every alias has its set, and no chain before all the
\* sets (main.rs: load after build, ipset before iptables).
THEOREM LoadsWhole == Spec => []LoadedWhole
<1>1. Init => LoadInv
  BY LoadInit
<1>2. LoadInv /\ [Next]_<<config, svars, hvars>> => LoadInv'
  BY LoadNext
<1>3. LoadInv => LoadedWhole
  BY LoadInvWhole
<1> QED
  BY <1>1, <1>2, <1>3, PTL DEF Spec

-----------------------------------------------------------------------------
(* Members of sets, and the aliases they come from.                         *)

\* What is settled about names once the sets are built.
NamesSettled == NamesParsed /\ HostsKnown /\ NamesFit

LEMMA MemberOfAlias ==
  ASSUME NEW n, NEW m \in SetsBefore(n)
  PROVE  \E d \in Aliases : m \in Members(d, Addresses(d))
<1>1. PICK i \in DOMAIN config :
        config[i].kind = "alias" /\ m \in Members(config[i], Addresses(config[i]))
  BY DEF SetsBefore
<1>2. config[i] \in Aliases
  BY <1>1 DEF Aliases
<1> QED
  BY <1>1, <1>2

\* A member is of the half of its alias that has its family.
LEMMA MemberShape ==
  ASSUME NamesSettled, NEW d \in Aliases, NEW m \in Members(d, Addresses(d))
  PROVE  /\ d.name \in Alias /\ ~BadName(d)
         /\ m.family \in Family
         /\ m.set = SetName(d.name, m.family)
         /\ m.entry[2] = d.port
<1>1. d.name \in Alias /\ ~BadName(d)
  BY DEF NamesSettled, NamesParsed, NamesFit
<1>2. CASE d.host = AnyHost
  <2>1. m = [set |-> d.name, type |-> "port", family |-> "v4", entry |-> <<AnyHost, d.port>>]
    BY <1>2 DEF Members
  <2> QED
    BY <1>1, <2>1 DEF SetName, Family
<1>3. CASE d.host # AnyHost
  <2>1. PICK x \in Addresses(d) :
          m = [set |-> SetName(d.name, FamilyOf[x]), type |-> SetType(d),
               family |-> FamilyOf[x], entry |-> <<x, d.port>>]
    BY <1>3 DEF Members
  <2>2. FamilyOf[x] \in Family
    BY <1>3, <2>1, ConfigAssumption DEF NamesSettled, HostsKnown
  <2> QED
    BY <1>1, <2>1, <2>2
<1> QED
  BY <1>2, <1>3

\* No alias has the name of the IPv6 half of another, so a set name tells alias
\* and family.
LEMMA SetNameInjective ==
  ASSUME NEW a \in Alias, NEW b \in Alias, NEW f \in Family, NEW g \in Family,
         ~\E c \in Alias : a = V6Name[c], ~\E c \in Alias : b = V6Name[c],
         SetName(a, f) = SetName(b, g)
  PROVE  a = b /\ f = g
BY ConfigAssumption DEF SetName, Family

LEMMA SetNameFits ==
  ASSUME NEW d, d.name \in Alias, ~BadName(d), NEW f \in Family
  PROVE  ~(PrefixLength + SetLength(SetName(d.name, f)) > IpsetNameMax)
<1>1. /\ Length[d.name] \in Nat /\ PrefixLength \in Nat
      /\ PrefixLength + Length[d.name] + 3 <= IpsetNameMax
  BY ConfigAssumption DEF BadName, IpsetNameMax
<1>2. CASE f = "v4"
  <2>1. SetLength(SetName(d.name, f)) = Length[d.name]
    BY <1>2 DEF SetName, SetLength, BadName
  <2> QED
    BY <1>1, <2>1 DEF IpsetNameMax
<1>3. CASE f # "v4"
  <2> DEFINE c == CHOOSE a \in Alias : V6Name[d.name] = V6Name[a]
  <2>1. c \in Alias /\ V6Name[d.name] = V6Name[c]
    OBVIOUS
  <2>2. c = d.name
    BY <2>1, ConfigAssumption
  <2>3. SetLength(SetName(d.name, f)) = Length[c] + 3
    BY <1>3 DEF SetName, SetLength
  <2> HIDE DEF c
  <2> QED
    BY <1>1, <2>2, <2>3 DEF IpsetNameMax
<1> QED
  BY <1>2, <1>3

\* ipset has one reason left to refuse what sets::build made.
LEMMA SetsTaken ==
  ASSUME NamesSettled, NEW n
  PROVE  IpsetRefuses(SetsBefore(n)) <=> HoldsNoPort(SetsBefore(n))
<1>1. ASSUME NEW m \in SetsBefore(n)
      PROVE  ~(PrefixLength + SetLength(m.set) > IpsetNameMax)
  <2>1. PICK d \in Aliases : m \in Members(d, Addresses(d))
    BY MemberOfAlias
  <2> QED
    BY <2>1, MemberShape, SetNameFits
<1>2. ASSUME NEW m \in SetsBefore(n), NEW k \in SetsBefore(n), m.set = k.set
      PROVE  m.family = k.family
  <2>1. PICK d \in Aliases : m \in Members(d, Addresses(d))
    BY MemberOfAlias
  <2>2. PICK e \in Aliases : k \in Members(e, Addresses(e))
    BY MemberOfAlias
  <2>3. /\ d.name \in Alias /\ ~BadName(d) /\ m.family \in Family
        /\ m.set = SetName(d.name, m.family)
    BY <2>1, MemberShape
  <2>4. /\ e.name \in Alias /\ ~BadName(e) /\ k.family \in Family
        /\ k.set = SetName(e.name, k.family)
    BY <2>2, MemberShape
  <2> QED
    BY <1>2, <2>3, <2>4, SetNameInjective DEF BadName
<1> QED
  BY <1>1, <1>2 DEF IpsetRefuses

-----------------------------------------------------------------------------
(* The rules.                                                               *)

\* Family f takes rule r in table t, but for the chain it jumps to.
Taken(f, t, r) ==
  /\ <<f, t, r.opts>> \in Accepts
  /\ \A p \in r.matches : \A k \in {1, 2} :
       /\ p[k].by = "set" => \E m \in hsets : m.set = p[k].set
       /\ p[k].by = "address" => FamilyOf[p[k].is] = f

\* Every rule built after a verdict of the probe is taken.
RulesInv ==
  /\ hpc \in BeforeRules => ruleset = NoChains
  /\ ~degraded =>
       \A w \in DOMAIN ruleset :
         /\ \E S : ruleset[w] \in Seq(S)
         /\ \A i \in DOMAIN ruleset[w] : Taken(w[1], w[2], ruleset[w][i])

TakenInv == LoadInv /\ RulesInv

\* A match is by a set that was built or by an address of the family.
LEMMA MatchesSound ==
  ASSUME NEW x, NEW f, NEW q \in Matches(x, f)
  PROVE  /\ q.by = "set" => \E m \in hsets : m.set = q.set
         /\ q.by = "address" => FamilyOf[q.is] = f
<1>1. CASE q = AnyMatch
  BY <1>1 DEF AnyMatch
<1>2. ASSUME NEW addrs, q \in LiteralMatches(addrs, f)
      PROVE  q.by = "address" /\ FamilyOf[q.is] = f
  BY <1>2 DEF LiteralMatches
<1>3. CASE q \in SetMatches(hsets, x, f)
  <2>1. PICK m \in hsets :
          q = [by |-> "set", set |-> m.set, dims |-> Dimensions(m.type)]
    BY <1>3 DEF SetMatches
  <2> QED
    BY <2>1
<1>4. \/ q = AnyMatch
      \/ q \in LiteralMatches({x}, f)
      \/ q \in LiteralMatches(resolved[x], f)
      \/ q \in SetMatches(hsets, x, f)
  BY DEF Matches
<1> QED
  BY <1>1, <1>2, <1>3, <1>4

\* One rule more at the end of some chains.
LEMMA AppendedTaken ==
  ASSUME NEW chains, NEW where, NEW rule,
         \A w \in DOMAIN chains :
           /\ \E S : chains[w] \in Seq(S)
           /\ \A i \in DOMAIN chains[w] : Taken(w[1], w[2], chains[w][i]),
         \A w \in where : Taken(w[1], w[2], rule[w[1]]),
         NEW w \in DOMAIN Appended(chains, where, rule)
  PROVE  /\ \E S : Appended(chains, where, rule)[w] \in Seq(S)
         /\ \A i \in DOMAIN Appended(chains, where, rule)[w] :
              Taken(w[1], w[2], Appended(chains, where, rule)[w][i])
<1> DEFINE old == IF w \in DOMAIN chains THEN chains[w] ELSE <<>>
           new == Appended(chains, where, rule)[w]
<1>1. /\ \E S : old \in Seq(S)
      /\ \A i \in DOMAIN old : Taken(w[1], w[2], old[i])
  <2>1. CASE w \in DOMAIN chains
    BY <2>1
  <2>2. CASE w \notin DOMAIN chains
    <3>1. old \in Seq({}) /\ DOMAIN old = {}
      BY <2>2
    <3> QED
      BY <3>1
  <2> QED
    BY <2>1, <2>2
<1>2. new = IF w \in where THEN Append(old, rule[w[1]]) ELSE old
  BY DEF Appended
<1> HIDE DEF old, new
<1>3. CASE w \in where
  <2>1. PICK S : old \in Seq(S)
    BY <1>1
  <2>2. old \in Seq(S \cup {rule[w[1]]})
    BY <2>1
  <2>3. /\ new \in Seq(S \cup {rule[w[1]]})
        /\ DOMAIN new = 1..Len(old) + 1 /\ DOMAIN old = 1..Len(old)
        /\ \A i \in DOMAIN new : new[i] = IF i \in DOMAIN old THEN old[i] ELSE rule[w[1]]
    BY <1>2, <1>3, <2>2, AppendProperties
  <2> QED
    BY <1>1, <1>3, <2>3 DEF new
<1>4. CASE w \notin where
  BY <1>1, <1>2, <1>4 DEF new
<1> QED
  BY <1>3, <1>4

LEMMA RulesStay ==
  ASSUME UNCHANGED <<hsets, ruleset, degraded>>, RulesInv, hpc' \in BeforeRules => hpc \in BeforeRules
  PROVE  RulesInv'
<1>1. \A f, t, r : Taken(f, t, r)' <=> Taken(f, t, r)
  BY DEF Taken
<1> QED
  BY <1>1 DEF RulesInv

LEMMA RulesBuild ==
  ASSUME TakenInv, BuildRule
  PROVE  RulesInv'
<1> DEFINE pairs(f) == Matches(Rule.src, f) \X Matches(Rule.dst, f)
           rule == [f \in Family |->
                      [opts |-> Rule.opts, jump |-> Rule.jump, matches |-> pairs(f)]]
           where == {<<f, Rule.table, Rule.chain>> : f \in {g \in FamiliesFor(Rule) : pairs(g) # {}}}
<1>1. /\ hpc' = "build_rules" /\ UNCHANGED <<degraded, hsets>>
      /\ Cached \/ degraded
      /\ ruleset' = Appended(ruleset, where, rule)
  BY DEF BuildRule, Offering, Probing, prober
<1>2. \A f, t, r : Taken(f, t, r)' <=> Taken(f, t, r)
  BY <1>1 DEF Taken
<1>3. ASSUME ~degraded, NEW w \in where
      PROVE  Taken(w[1], w[2], rule[w[1]])
  <2>1. PICK f \in FamiliesFor(Rule) : w = <<f, Rule.table, Rule.chain>>
    BY <1>3
  <2>2. f \in Family /\ <<f, Rule.table, Rule.opts>> \in Accepts
    BY <1>1, <1>3, FamiliesForFamily DEF Cached, TakenInv, LoadInv, TypeInv
  <2>3. rule[w[1]] = [opts |-> Rule.opts, jump |-> Rule.jump, matches |-> pairs(f)]
    BY <2>1, <2>2
  <2>4. ASSUME NEW p \in pairs(f), NEW k \in {1, 2}
        PROVE  /\ p[k].by = "set" => \E m \in hsets : m.set = p[k].set
               /\ p[k].by = "address" => FamilyOf[p[k].is] = f
    <3>1. p[1] \in Matches(Rule.src, f) /\ p[2] \in Matches(Rule.dst, f)
      OBVIOUS
    <3> QED
      BY <2>4, <3>1, MatchesSound
  <2> HIDE DEF pairs, rule
  <2> QED
    BY <2>1, <2>2, <2>3, <2>4 DEF Taken
<1> HIDE DEF where, rule
<1>4. ASSUME ~degraded
      PROVE  \A w \in DOMAIN ruleset' :
               /\ \E S : ruleset'[w] \in Seq(S)
               /\ \A i \in DOMAIN ruleset'[w] : Taken(w[1], w[2], ruleset'[w][i])
  BY <1>1, <1>3, <1>4, AppendedTaken DEF TakenInv, RulesInv
<1> QED
  BY <1>1, <1>2, <1>4 DEF RulesInv, BeforeRules

LEMMA TakenInit == Init => TakenInv
<1> SUFFICES ASSUME Init PROVE TakenInv
  OBVIOUS
<1>1. ruleset = NoChains
  BY DEF Init, HInit
<1>2. DOMAIN ruleset = {}
  BY <1>1 DEF NoChains
<1> QED
  BY <1>1, <1>2, LoadInit DEF TakenInv, RulesInv

LEMMA TakenNext == TakenInv /\ [Next]_<<config, svars, hvars>> => TakenInv'
<1> SUFFICES ASSUME TakenInv, [Next]_<<config, svars, hvars>>
             PROVE  RulesInv'
  BY LoadNext DEF TakenInv
<1> USE DEF BeforeRules
<1>1. CASE UNCHANGED hvars
  BY <1>1, RulesStay DEF hvars, prober, TakenInv
<1>2. ASSUME Parse \/ Lookup \/ ResolveEnds \/ CheckNames
      PROVE  RulesInv'
  BY <1>2, RulesStay DEF Parse, Lookup, ResolveEnds, CheckNames, Die, prober, TakenInv
<1>3. CASE BuildSet
  <2>1. hpc = "build_sets" /\ UNCHANGED <<ruleset, degraded>>
    BY <1>3 DEF BuildSet, prober
  <2>2. ruleset' = NoChains
    BY <2>1 DEF TakenInv, RulesInv
  <2>3. DOMAIN ruleset' = {}
    BY <2>2 DEF NoChains
  <2> QED
    BY <2>2, <2>3 DEF RulesInv
<1>4. ASSUME SkipDeclaration \/ LoopEnds \/ ChainRefused \/ Probe \/ CleanupProbe
      PROVE  RulesInv'
  BY <1>4, RulesStay DEF SkipDeclaration, LoopEnds, ChainRefused, Probe, CleanupProbe,
                         Probing, Offering, Die, prober, TakenInv
<1>5. CASE Prepare
  <2>1. hpc' = "build_rules" /\ UNCHANGED <<hsets, ruleset>>
    BY <1>5 DEF Prepare, Offering, Probing
  <2>2. ~degraded' => ~degraded
    BY <1>5 DEF Prepare
  <2>3. \A f, t, r : Taken(f, t, r)' <=> Taken(f, t, r)
    BY <2>1 DEF Taken
  <2> QED
    BY <2>1, <2>2, <2>3 DEF RulesInv, TakenInv
<1>6. CASE BuildRule
  BY <1>6, RulesBuild
<1>7. ASSUME LoadSets \/ LoadTable("v4") \/ LoadTable("v6") \/ FamilyLoaded
      PROVE  RulesInv'
  BY <1>7, RulesStay DEF LoadSets, LoadTable, LoadStep, FamilyLoaded, Die, prober, TakenInv
<1> QED
  BY <1>1, <1>2, <1>3, <1>4, <1>5, <1>6, <1>7 DEF Next, HNext, hvars

\* A table made of rules that are taken, over sets that are there, is refused for
\* the chain a rule jumps to.
LEMMA TableTaken ==
  ASSUME RulesInv, ~degraded, ksets = hsets, NEW f \in Family, NEW t \in Table, Refused(f, t)
  PROVE  JumpToNoChain(f, t)
<1>1. PICK w \in DOMAIN ruleset : \E i \in DOMAIN ruleset[w] :
        LET r == ruleset[w][i]
        IN  /\ w[1] = f /\ w[2] = t
            /\ \/ <<f, t, r.opts>> \notin Accepts
               \/ r.jump # NoJump /\ <<f, t, r.jump>> \notin DOMAIN ruleset
               \/ \E p \in r.matches : \E k \in {1, 2} :
                    \/ p[k].by = "set" /\ ~\E m \in ksets : m.set = p[k].set
                    \/ p[k].by = "address" /\ FamilyOf[p[k].is] # f
  BY DEF Refused
<1>2. \A i \in DOMAIN ruleset[w] : Taken(f, t, ruleset[w][i])
  BY <1>1 DEF RulesInv
<1>3. \E i \in DOMAIN ruleset[w] :
        ruleset[w][i].jump # NoJump /\ <<f, t, ruleset[w][i].jump>> \notin DOMAIN ruleset
  BY <1>1, <1>2 DEF Taken
<1> QED
  BY <1>1, <1>3 DEF JumpToNoChain

\* What the helper loads is taken, but for a port that is none and for a jump to
\* a chain without a rule in that family (sets.rs, rules.rs and probe.rs settle
\* everything else before), unless its prober is degraded.
THEOREM LoadsTaken == Spec => []LoadsAreTaken
<1>1. Init => TakenInv
  BY TakenInit
<1>2. TakenInv /\ [Next]_<<config, svars, hvars>> => TakenInv'
  BY TakenNext
<1>3. TakenInv => LoadsAreTaken
  <2> SUFFICES ASSUME TakenInv, ~degraded PROVE LoadsAreTaken
    BY DEF LoadsAreTaken
  <2>1. ASSUME hpc = "load_sets"
        PROVE  IpsetRefuses(hsets) <=> HoldsNoPort(hsets)
    <3>1. NamesSettled /\ hsets = SetsBefore(Len(config) + 1)
      BY <2>1 DEF TakenInv, LoadInv, NamesInv, SetsInv, NamesSettled, AfterParse, AfterResolve,
                  AfterNames, Built
    <3> QED
      BY <3>1, SetsTaken
  <2>2. ASSUME hpc = "load_v4" \/ hpc = "load_v6", NEW f \in Family, NEW t \in Table,
               Refused(f, t)
        PROVE  JumpToNoChain(f, t)
    <3>1. ksets = hsets
      BY <2>2 DEF TakenInv, LoadInv, OrderInv
    <3> QED
      BY <2>2, <3>1, TableTaken DEF TakenInv
  <2> QED
    BY <2>1, <2>2 DEF LoadsAreTaken
<1> QED
  BY <1>1, <1>2, <1>3, PTL DEF Spec

-----------------------------------------------------------------------------
(* Aliases of one name.                                                     *)

\* The entries of an alias's half, when all the aliases of its name have its host.
LEMMA EntriesOfAlias ==
  ASSUME TypeInv, NamesSettled, NEW d \in Aliases, d.host \in Dns,
         \A x \in Aliases : x.name = d.name => x.host = d.host, NEW f \in Family
  PROVE  {m.entry[1] : m \in {n \in SetsBefore(Len(config) + 1) : n.set = SetName(d.name, f)}} =
           {x \in resolved[d.host] : FamilyOf[x] = f}
<1> DEFINE S == SetsBefore(Len(config) + 1)
<1>1. d.host # AnyHost /\ Addresses(d) = resolved[d.host]
  BY ConfigAssumption DEF Addresses
<1>2. ASSUME NEW m \in S, m.set = SetName(d.name, f)
      PROVE  m.entry[1] \in {x \in resolved[d.host] : FamilyOf[x] = f}
  <2>1. PICK e \in Aliases : m \in Members(e, Addresses(e))
    BY MemberOfAlias
  <2>2. e.name = d.name /\ m.family = f
    <3>1. /\ e.name \in Alias /\ ~BadName(e) /\ m.family \in Family
          /\ m.set = SetName(e.name, m.family)
      BY <2>1, MemberShape
    <3>2. d.name \in Alias /\ ~BadName(d)
      BY DEF NamesSettled, NamesParsed, NamesFit
    <3>3. /\ ~\E c \in Alias : e.name = V6Name[c]
          /\ ~\E c \in Alias : d.name = V6Name[c]
      BY <3>1, <3>2 DEF BadName
    <3>4. SetName(e.name, m.family) = SetName(d.name, f)
      BY <1>2, <3>1
    <3> HIDE DEF S
    <3> QED
      BY ONLY <3>1, <3>2, <3>3, <3>4, f \in Family, SetNameInjective
  <2>3. e.host # AnyHost /\ Addresses(e) = resolved[d.host]
    BY <1>1, <2>2 DEF Addresses
  <2>4. PICK x \in Addresses(e) :
          m = [set |-> SetName(e.name, FamilyOf[x]), type |-> SetType(e),
               family |-> FamilyOf[x], entry |-> <<x, e.port>>]
    BY <2>1, <2>3 DEF Members
  <2> QED
    BY <2>2, <2>3, <2>4
<1>3. ASSUME NEW x \in resolved[d.host], FamilyOf[x] = f
      PROVE  \E m \in S : m.set = SetName(d.name, f) /\ m.entry[1] = x
  <2> DEFINE m == [set |-> SetName(d.name, FamilyOf[x]), type |-> SetType(d),
                   family |-> FamilyOf[x], entry |-> <<x, d.port>>]
  <2>1. m \in Members(d, Addresses(d))
    BY <1>1, <1>3 DEF Members
  <2>2. PICK i \in DOMAIN config : config[i] = d /\ config[i].kind = "alias"
    BY DEF Aliases
  <2>3. i < Len(config) + 1
    BY DEF TypeInv
  <2>4. m \in S
    BY <2>1, <2>2, <2>3 DEF SetsBefore
  <2>5. m.set = SetName(d.name, f) /\ m.entry[1] = x
    BY <1>3
  <2> QED
    BY <2>4, <2>5
<1> QED
  BY <1>2, <1>3

\* Whatever the DNS rotates, aliases of one name are filled with one answer
\* (resolve.rs: every name is looked up once).
THEOREM OneAnswer == Spec => []AliasesAgree
<1>1. Init => LoadInv
  BY LoadInit
<1>2. LoadInv /\ [Next]_<<config, svars, hvars>> => LoadInv'
  BY LoadNext
<1>3. LoadInv => AliasesAgree
  <2> SUFFICES ASSUME LoadInv, hpc = "ok", NEW d \in Aliases, NEW e \in Aliases,
                      d.host = e.host, d.host \in Dns,
                      \A x \in Aliases : x.name \in {d.name, e.name} => x \in {d, e},
                      NEW f \in Family
               PROVE  {m.entry[1] : m \in {n \in ksets : n.set = SetName(d.name, f)}} =
                      {m.entry[1] : m \in {n \in ksets : n.set = SetName(e.name, f)}}
    BY DEF AliasesAgree
  <2>1. NamesSettled /\ ksets = SetsBefore(Len(config) + 1) /\ TypeInv
    BY DEF LoadInv, NamesInv, SetsInv, OrderInv, NamesSettled, AfterParse, AfterResolve,
           AfterNames, Built
  <2>2. /\ \A x \in Aliases : x.name = d.name => x.host = d.host
        /\ \A x \in Aliases : x.name = e.name => x.host = e.host
    OBVIOUS
  <2>3. {m.entry[1] : m \in {n \in ksets : n.set = SetName(d.name, f)}} =
          {x \in resolved[d.host] : FamilyOf[x] = f}
    BY <2>1, <2>2, EntriesOfAlias
  <2>4. {m.entry[1] : m \in {n \in ksets : n.set = SetName(e.name, f)}} =
          {x \in resolved[e.host] : FamilyOf[x] = f}
    BY <2>1, <2>2, EntriesOfAlias
  <2> QED
    BY <2>3, <2>4
<1> QED
  BY <1>1, <1>2, <1>3, PTL DEF Spec
=============================================================================
