-------------------------- MODULE BuildPathsProofs --------------------------
(***************************************************************************)
(* The two build paths make the same policy of a configuration: the         *)
(* invariants of each path, and the theorem.                                *)
(*                                                                          *)
(* Both loops go over the same declarations.  What they have made of those  *)
(* they have passed is compared with a third thing, which only the          *)
(* configuration, the answers and the binaries determine: the sets of the   *)
(* aliases (SetsOf), and for each chain the list of the rules that feed it  *)
(* (Lists).  A list is known by the number of rules before each of its own. *)
(***************************************************************************)
EXTENDS CfwBuildProofs, FiniteSetTheorems

-----------------------------------------------------------------------------
(* What a configuration means, whoever builds it.                           *)

Where == Family \X Table \X Chain

AddressesOf(d) ==
  IF d.host \in Address THEN {d.host}
  ELSE IF d.host = AnyHost THEN {} ELSE CHOOSE a : Answers[d.host] = {a}

SetsOf(n) ==
  UNION {Members(config[i], AddressesOf(config[i])) :
           i \in {k \in DOMAIN config : k < n /\ config[k].kind = "alias"}}
AllSets == SetsOf(Len(config) + 1)

MatchesOf(x, f) ==
  IF x = AnyHost THEN {AnyMatch}
  ELSE IF x \in Address THEN LiteralMatches({x}, f)
  ELSE IF x \in AliasNames THEN SetMatches(AllSets, x, f)
  ELSE LiteralMatches(CHOOSE a : Answers[x] = {a}, f)
PairsOf(d, f) == MatchesOf(d.src, f) \X MatchesOf(d.dst, f)
RuleOf(d, f) == [opts |-> d.opts, jump |-> d.jump, matches |-> PairsOf(d, f)]

\* Declaration i puts a rule in a chain of a family.
Feeds(i, w) ==
  /\ config[i].kind = "rule"
  /\ w[2] = config[i].table /\ w[3] = config[i].chain
  /\ <<w[1], w[2], config[i].opts>> \in Accepts
  /\ PairsOf(config[i], w[1]) # {}
Feeding(n, w) == {i \in DOMAIN config : i < n /\ Feeds(i, w)}

\* s are the rules of the declarations before n that feed w, in their order.
Lists(s, n, w) ==
  /\ s \in Seq({RuleOf(d, f) : d \in Rules, f \in Family})
  /\ Len(s) = Cardinality(Feeding(n, w))
  /\ \A p \in 1..Len(s) : \E i \in Feeding(n, w) :
       /\ p = Cardinality(Feeding(i + 1, w))
       /\ s[p] = RuleOf(config[i], w[1])
ListsAll(chains, n) == \A w \in Where : Lists(RulesAt(chains, w), n, w)

\* What both paths agree on. It depends on the configuration and on what is external.
Agreeable ==
  /\ \A n \in NamesToResolve : n \in Dns /\ \E a : Answers[n] = {a}
  /\ AliasNames \cap NamesToResolve = {}
  /\ \A d \in Aliases : d.name \in Alias /\ ~BadName(d)
  /\ \A d \in Rules : d.chain \notin LongChain \cup Misnamed \cup Hyphened
  /\ AliasesFirst

-----------------------------------------------------------------------------
(* Lists.                                                                   *)

LEMMA FeedingFinite ==
  ASSUME TypeInv, NEW n, NEW w
  PROVE  /\ IsFiniteSet(Feeding(n, w)) /\ Cardinality(Feeding(n, w)) \in Nat
         /\ \A i \in Feeding(n, w) : i \in 1..Len(config)
<1>1. DOMAIN config = 1..Len(config) /\ Len(config) \in Nat
  BY DEF TypeInv
<1>2. IsFiniteSet(1..Len(config))
  BY <1>1, FS_Interval
<1>3. Feeding(n, w) \in SUBSET (1..Len(config))
  BY <1>1 DEF Feeding
<1> QED
  BY <1>2, <1>3, FS_Subset, FS_CardinalityType

\* One more declaration: it feeds the chain or does not.
LEMMA FeedingNext ==
  ASSUME TypeInv, NEW n \in 1..Len(config), NEW w
  PROVE  /\ Feeding(n + 1, w) = IF Feeds(n, w) THEN Feeding(n, w) \cup {n} ELSE Feeding(n, w)
         /\ Cardinality(Feeding(n + 1, w)) =
              Cardinality(Feeding(n, w)) + (IF Feeds(n, w) THEN 1 ELSE 0)
<1>1. DOMAIN config = 1..Len(config) /\ Len(config) \in Nat
  BY DEF TypeInv
<1>2. Feeding(n + 1, w) = IF Feeds(n, w) THEN Feeding(n, w) \cup {n} ELSE Feeding(n, w)
  BY <1>1 DEF Feeding
<1>3. n \notin Feeding(n, w)
  BY <1>1 DEF Feeding
<1>4. IsFiniteSet(Feeding(n, w)) /\ Cardinality(Feeding(n, w)) \in Nat
  BY FeedingFinite
<1>5. Cardinality(Feeding(n, w) \cup {n}) = Cardinality(Feeding(n, w)) + 1
  BY <1>3, <1>4, FS_AddElement
<1> QED
  BY <1>2, <1>4, <1>5

\* The number of declarations that feed a chain up to one of them tells which it is.
LEMMA FeedingDiffer ==
  ASSUME TypeInv, NEW n, NEW w, NEW i \in Feeding(n, w), NEW j \in Feeding(n, w), i < j
  PROVE  Cardinality(Feeding(i + 1, w)) # Cardinality(Feeding(j + 1, w))
<1>1. i \in 1..Len(config) /\ j \in 1..Len(config)
  BY FeedingFinite
<1>2. Feeding(i + 1, w) \in SUBSET Feeding(j + 1, w)
  BY <1>1 DEF Feeding, TypeInv
<1>3. j \in Feeding(j + 1, w) /\ j \notin Feeding(i + 1, w)
  BY <1>1 DEF Feeding, TypeInv
<1>4. IsFiniteSet(Feeding(j + 1, w))
  BY FeedingFinite
<1> QED
  BY <1>2, <1>3, <1>4, FS_Subset

\* There is one list.
LEMMA ListsUnique ==
  ASSUME TypeInv, NEW n, NEW w, NEW s, NEW t, Lists(s, n, w), Lists(t, n, w)
  PROVE  s = t
<1>1. /\ s \in Seq({RuleOf(d, f) : d \in Rules, f \in Family})
      /\ t \in Seq({RuleOf(d, f) : d \in Rules, f \in Family})
      /\ Len(s) = Len(t)
  BY DEF Lists
<1>2. ASSUME NEW p \in 1..Len(s)
      PROVE  s[p] = t[p]
  <2>1. PICK i \in Feeding(n, w) :
          p = Cardinality(Feeding(i + 1, w)) /\ s[p] = RuleOf(config[i], w[1])
    BY DEF Lists
  <2>2. PICK j \in Feeding(n, w) :
          p = Cardinality(Feeding(j + 1, w)) /\ t[p] = RuleOf(config[j], w[1])
    BY <1>1 DEF Lists
  <2>3. i \in Nat /\ j \in Nat
    BY FeedingFinite
  <2>4. i = j
    BY <2>1, <2>2, <2>3, FeedingDiffer
  <2> QED
    BY <2>1, <2>2, <2>4
<1> QED
  BY <1>1, <1>2, SeqEqual

\* A list, one declaration further on.
LEMMA ListsNext ==
  ASSUME TypeInv, NEW n \in 1..Len(config), NEW w \in Where, NEW s, Lists(s, n, w)
  PROVE  Lists(IF Feeds(n, w) THEN Append(s, RuleOf(config[n], w[1])) ELSE s, n + 1, w)
<1>1. CASE ~Feeds(n, w)
  <2>1. Feeding(n + 1, w) = Feeding(n, w)
    BY <1>1, FeedingNext
  <2> QED
    BY <1>1, <2>1 DEF Lists
<1>2. CASE Feeds(n, w)
  <2> DEFINE S == {RuleOf(d, f) : d \in Rules, f \in Family}
             r == RuleOf(config[n], w[1])
             t == Append(s, r)
  <2>1. /\ Feeding(n + 1, w) = Feeding(n, w) \cup {n}
        /\ Cardinality(Feeding(n + 1, w)) = Cardinality(Feeding(n, w)) + 1
    BY <1>2, FeedingNext
  <2>2. s \in Seq(S) /\ Len(s) = Cardinality(Feeding(n, w))
    BY DEF Lists
  <2>3. r \in S
    <3>1. config[n] \in Rules
      BY <1>2 DEF Feeds, Rules, TypeInv
    <3>2. w[1] \in Family
      BY DEF Where
    <3> QED
      BY <3>1, <3>2
  <2> HIDE DEF S, r
  <2>4. /\ t \in Seq(S) /\ Len(t) = Len(s) + 1 /\ Len(s) \in Nat
        /\ \A p \in 1..Len(s) : t[p] = s[p]
        /\ t[Len(s) + 1] = r
    BY <2>2, <2>3, AppendProperties
  <2> HIDE DEF t
  <2>5. ASSUME NEW p \in 1..Len(t)
        PROVE  \E i \in Feeding(n + 1, w) :
                 p = Cardinality(Feeding(i + 1, w)) /\ t[p] = RuleOf(config[i], w[1])
    <3>1. CASE p = Len(s) + 1
      <4>1. n \in Feeding(n + 1, w)
        BY <2>1
      <4> QED
        BY <2>1, <2>2, <2>4, <3>1, <4>1 DEF r
    <3>2. CASE p # Len(s) + 1
      <4>1. p \in 1..Len(s)
        BY <2>4, <3>2
      <4>2. PICK i \in Feeding(n, w) :
              p = Cardinality(Feeding(i + 1, w)) /\ s[p] = RuleOf(config[i], w[1])
        BY <4>1 DEF Lists
      <4> QED
        BY <2>1, <2>4, <4>1, <4>2
    <3> QED
      BY <3>1, <3>2
  <2>6. Lists(t, n + 1, w)
    BY <2>1, <2>2, <2>4, <2>5 DEF Lists, S
  <2> QED
    BY <1>2, <2>6 DEF t, r
<1> QED
  BY <1>1, <1>2

LEMMA ListsStart == ASSUME TypeInv PROVE ListsAll(NoChains, 1)
<1> SUFFICES ASSUME NEW w \in Where
             PROVE  Lists(<<>>, 1, w)
  BY DEF ListsAll, RulesAt, NoChains
<1>1. Feeding(1, w) = {}
  BY DEF Feeding, TypeInv
<1>2. Cardinality(Feeding(1, w)) = 0
  BY <1>1, FS_EmptySet
<1> QED
  BY <1>2 DEF Lists

-----------------------------------------------------------------------------
(* The configuration never changes, and with it what it means.              *)

LEMMA MeaningStays ==
  ASSUME UNCHANGED config
  PROVE  /\ Agreeable' <=> Agreeable
         /\ \A n : SetsOf(n)' = SetsOf(n)
         /\ \A s, n, w : Lists(s, n, w)' <=> Lists(s, n, w)
<1>1. Aliases' = Aliases /\ Rules' = Rules
  BY DEF Aliases, Rules
<1>2. AliasNames' = AliasNames
  BY <1>1 DEF AliasNames
<1>3. NamesToResolve' = NamesToResolve
  BY <1>1, <1>2 DEF NamesToResolve
<1>4. Agreeable' <=> Agreeable
  BY <1>1, <1>2, <1>3 DEF Agreeable, AliasesFirst, BadName
<1>5. \A n : SetsOf(n)' = SetsOf(n)
  BY DEF SetsOf, AddressesOf
<1>6. AllSets' = AllSets
  BY <1>5 DEF AllSets
<1>7. \A x, f : MatchesOf(x, f)' = MatchesOf(x, f)
  BY <1>2, <1>6 DEF MatchesOf
<1>8. \A d, f : PairsOf(d, f)' = PairsOf(d, f) /\ RuleOf(d, f)' = RuleOf(d, f)
  BY <1>7 DEF PairsOf, RuleOf
<1>9. \A n, w : Feeding(n, w)' = Feeding(n, w)
  BY <1>8 DEF Feeding, Feeds
<1>10. \A s, n, w : Lists(s, n, w)' <=> Lists(s, n, w)
  BY <1>1, <1>8, <1>9 DEF Lists
<1> QED
  BY <1>4, <1>5, <1>10

-----------------------------------------------------------------------------
(* The sets of an agreeable configuration.                                  *)

LEMMA AliasAnswers ==
  ASSUME TypeInv, Agreeable, NEW i \in DOMAIN config, config[i].kind = "alias"
  PROVE  /\ config[i] \in AliasDecl /\ config[i] \in Aliases
         /\ config[i].name \in Alias /\ ~BadName(config[i])
         /\ AddressesOf(config[i]) \subseteq Address
         /\ config[i].host \notin Address \cup {AnyHost} =>
              Answers[config[i].host] = {AddressesOf(config[i])}
<1> DEFINE d == config[i]
<1>1. i \in Nat \ {0} /\ i <= Len(config)
  BY DEF TypeInv
<1>2. d \in AliasDecl /\ d \in Aliases
  BY <1>1, Declared DEF TypeInv, Aliases
<1>3. d.name \in Alias /\ ~BadName(d)
  BY <1>2 DEF Agreeable
<1>4. CASE d.host \in Address \cup {AnyHost}
  BY <1>2, <1>3, <1>4 DEF AddressesOf
<1>5. CASE d.host \notin Address \cup {AnyHost}
  <2>1. d.host \in NamesToResolve
    BY <1>2, <1>5 DEF NamesToResolve
  <2>2. d.host \in Dns /\ \E a : Answers[d.host] = {a}
    BY <2>1 DEF Agreeable
  <2>3. Answers[d.host] = {AddressesOf(d)}
    BY <1>5, <2>2 DEF AddressesOf
  <2>4. Answers[d.host] \in SUBSET SUBSET Address
    BY <2>2, ConfigAssumption
  <2>5. AddressesOf(d) \subseteq Address
    BY <2>3, <2>4
  <2> QED
    BY <1>2, <1>3, <2>3, <2>5
<1> QED
  BY <1>4, <1>5

\* A member is of the half of its alias that has its family.
LEMMA MemberHalf ==
  ASSUME NEW d, NEW addrs, addrs \subseteq Address, NEW m \in Members(d, addrs)
  PROVE  m.family \in Family /\ m.set = SetName(d.name, m.family)
<1>1. CASE d.host = AnyHost
  <2>1. m = [set |-> d.name, type |-> "port", family |-> "v4", entry |-> <<AnyHost, d.port>>]
    BY <1>1 DEF Members
  <2> QED
    BY <2>1 DEF SetName, Family
<1>2. CASE d.host # AnyHost
  <2>1. PICK x \in addrs :
          m = [set |-> SetName(d.name, FamilyOf[x]), type |-> SetType(d),
               family |-> FamilyOf[x], entry |-> <<x, d.port>>]
    BY <1>2 DEF Members
  <2>2. FamilyOf[x] \in Family
    BY ConfigAssumption
  <2> QED
    BY <2>1, <2>2
<1> QED
  BY <1>1, <1>2

\* Only an alias declared under its name fills a set that is named after it.
LEMMA SetOfAlias ==
  ASSUME TypeInv, Agreeable, NEW n, NEW m \in SetsOf(n), NEW x \in Alias, NEW f \in Family,
         ~\E a \in Alias : x = V6Name[a], m.set = SetName(x, f)
  PROVE  \E i \in DOMAIN config :
           /\ config[i].kind = "alias" /\ config[i].name = x
           /\ m \in Members(config[i], AddressesOf(config[i]))
<1>1. PICK i \in DOMAIN config :
        config[i].kind = "alias" /\ m \in Members(config[i], AddressesOf(config[i]))
  BY DEF SetsOf
<1>2. /\ config[i].name \in Alias /\ ~BadName(config[i])
      /\ AddressesOf(config[i]) \subseteq Address
  BY <1>1, AliasAnswers
<1>3. m.family \in Family /\ m.set = SetName(config[i].name, m.family)
  BY <1>1, <1>2, MemberHalf
<1>4. ~\E a \in Alias : config[i].name = V6Name[a]
  BY <1>2 DEF BadName
<1>5. SetName(config[i].name, m.family) = SetName(x, f)
  BY <1>3
<1>6. config[i].name = x
  BY <1>2, <1>3, <1>4, <1>5, SetNameInjective
<1> QED
  BY <1>1, <1>6

\* The sets of an alias are complete when all its declarations have been passed.
LEMMA SetsComplete ==
  ASSUME TypeInv, Agreeable, NEW n \in Nat, NEW x \in AliasNames, NEW f \in Family,
         \A i \in DOMAIN config : config[i].kind = "alias" /\ config[i].name = x => i < n
  PROVE  SetMatches(SetsOf(n), x, f) = SetMatches(AllSets, x, f)
<1>1. x \in Alias /\ ~\E a \in Alias : x = V6Name[a]
  <2>1. PICK d \in Aliases : d.name = x
    BY DEF AliasNames
  <2> QED
    BY <2>1 DEF Agreeable, BadName
<1>2. SetsOf(n) \subseteq AllSets
  BY DEF AllSets, SetsOf, TypeInv
<1>3. ASSUME NEW m \in AllSets, m.set = SetName(x, f)
      PROVE  m \in SetsOf(n)
  <2>1. PICK i \in DOMAIN config :
          /\ config[i].kind = "alias" /\ config[i].name = x
          /\ m \in Members(config[i], AddressesOf(config[i]))
    BY <1>1, <1>3, SetOfAlias DEF AllSets
  <2> QED
    BY <2>1 DEF SetsOf
<1>4. {m \in SetsOf(n) : m.set = SetName(x, f)} = {m \in AllSets : m.set = SetName(x, f)}
  BY <1>2, <1>3
<1> QED
  BY <1>4 DEF SetMatches

\* One more alias, one more declaration that is none.
LEMMA SetsOfNext ==
  ASSUME TypeInv, NEW n \in 1..Len(config)
  PROVE  SetsOf(n + 1) =
           IF config[n].kind = "alias"
           THEN SetsOf(n) \cup Members(config[n], AddressesOf(config[n])) ELSE SetsOf(n)
<1> DEFINE I(k) == {i \in DOMAIN config : i < k /\ config[i].kind = "alias"}
<1>1. I(n + 1) = IF config[n].kind = "alias" THEN I(n) \cup {n} ELSE I(n)
  BY DEF TypeInv
<1>2. \A k : SetsOf(k) = UNION {Members(config[i], AddressesOf(config[i])) : i \in I(k)}
  BY DEF SetsOf
<1> HIDE DEF I
<1> QED
  BY <1>1, <1>2

-----------------------------------------------------------------------------
(* The scripts.                                                             *)

\* What they have built of an agreeable configuration. A chain is made in both
\* families at once.
BothFamilies ==
  \A f, g \in Family : \A t, c : <<f, t, c>> \in DOMAIN schains => <<g, t, c>> \in DOMAIN schains
ShellInv ==
  spc # "failed" /\ Agreeable =>
    /\ ssets = SetsOf(line)
    /\ ListsAll(schains, line) /\ BothFamilies
    /\ spc = "ok" => line > Len(config)

LEMMA ShellStays ==
  ASSUME ShellInv, UNCHANGED <<config, svars>>
  PROVE  ShellInv'
<1>1. UNCHANGED <<config, spc, line, ssets, schains>>
  BY DEF svars
<1>2. ListsAll(schains, line)' <=> ListsAll(schains, line)
  BY <1>1, MeaningStays DEF ListsAll, RulesAt
<1> QED
  BY <1>1, <1>2, MeaningStays DEF ShellInv, BothFamilies

LEMMA ShellStarts == Init /\ TypeInv => ShellInv
<1> SUFFICES ASSUME Init, TypeInv
             PROVE  ShellInv
  OBVIOUS
<1>1. line = 1 /\ ssets = {} /\ schains = NoChains /\ spc = "run"
  BY DEF Init, SInit, NoChains
<1>2. SetsOf(1) = {}
  BY DEF SetsOf, TypeInv
<1>3. BothFamilies
  BY <1>1 DEF BothFamilies, NoChains
<1> QED
  BY <1>1, <1>2, <1>3, ListsStart DEF ShellInv

\* One alias: the one answer of its host.
LEMMA ShellAlias ==
  ASSUME TypeInv, ShellInv, AddAlias
  PROVE  ShellInv'
<1>1. /\ spc = "run" /\ line <= Len(config) /\ config[line].kind = "alias"
      /\ UNCHANGED <<config, schains>> /\ line \in 1..Len(config)
  BY DEF AddAlias, TypeInv, BuildTypeOK
<1> SUFFICES ASSUME spc' # "failed", Agreeable
             PROVE  /\ spc' # "ok"
                    /\ ssets' = SetsOf(line')
                    /\ \A w \in Where : Lists(RulesAt(schains, w), line', w)
                    /\ BothFamilies'
  BY <1>1, MeaningStays DEF ShellInv, ListsAll, RulesAt
<1> DEFINE d == config[line]
<1>2. PICK addrs \in AliasAddresses(d) :
        ssets' = ssets \cup Members(d, addrs) /\ line' = line + 1 /\ UNCHANGED spc
  BY DEF AddAlias, Abort
<1>3. /\ d \in AliasDecl
      /\ d.host \notin Address \cup {AnyHost} => Answers[d.host] = {AddressesOf(d)}
  BY <1>1, AliasAnswers DEF TypeInv
<1>4. addrs = AddressesOf(d)
  BY <1>2, <1>3 DEF AliasAddresses, AddressesOf
<1>5. ssets' = SetsOf(line + 1)
  BY <1>1, <1>2, <1>4, SetsOfNext DEF ShellInv
<1>6. \A w : ~Feeds(line, w)
  BY <1>1 DEF Feeds
<1>7. \A w \in Where : Lists(RulesAt(schains, w), line + 1, w)
  BY <1>1, <1>6, ListsNext DEF ShellInv, ListsAll
<1>8. BothFamilies'
  BY <1>1 DEF ShellInv, BothFamilies
<1> QED
  BY <1>1, <1>2, <1>5, <1>7, <1>8

\* An endpoint that matches something at all matches what it means: its alias is
\* complete, or it has a dot and iptables finds its one answer.
LEMMA ShellMatchesAgree ==
  ASSUME TypeInv, Agreeable, line \in 1..Len(config), config[line].kind = "rule",
         ssets = SetsOf(line), NEW x \in {config[line].src, config[line].dst},
         NEW answer, \A n \in Dotted : answer[n] \in Answers[n],
         NEW g \in Family, ShellMatches(x, g, answer) # {}, NEW f \in Family
  PROVE  ShellMatches(x, f, answer) = MatchesOf(x, f)
<1>1. config[line] \in Rules /\ line \in DOMAIN config
  BY DEF Rules, TypeInv
<1>2. CASE x \in Address \cup {AnyHost}
  BY <1>2 DEF ShellMatches, MatchesOf
<1>3. CASE x \in AliasNames
  <2>1. x \in Alias
    BY <1>3 DEF Agreeable, AliasNames
  <2>2. x # AnyHost /\ x \notin Address /\ x \notin Dotted
    BY <2>1, ConfigAssumption
  <2>3. \A i \in DOMAIN config : config[i].kind = "alias" /\ config[i].name = x => i < line
    BY <1>1 DEF Agreeable, AliasesFirst
  <2>4. SetMatches(SetsOf(line), x, f) = SetMatches(AllSets, x, f)
    BY <1>3, <2>3, SetsComplete
  <2> QED
    BY <1>3, <2>2, <2>4 DEF ShellMatches, MatchesOf
<1>4. CASE x \notin Address \cup {AnyHost} /\ x \notin AliasNames
  <2>1. x \in NamesToResolve
    BY <1>1, <1>4 DEF NamesToResolve
  <2>2. x \in Dns /\ \E a : Answers[x] = {a}
    BY <2>1 DEF Agreeable
  <2>3. CASE x \in Dotted
    <3>1. answer[x] = CHOOSE a : Answers[x] = {a}
      BY <2>2, <2>3
    <3> QED
      BY <1>4, <2>3, <3>1 DEF ShellMatches, MatchesOf
  <2>4. CASE x \notin Dotted
    <3>1. x \in Alias /\ ~\E a \in Alias : x = V6Name[a]
      BY <2>2, <2>4, ConfigAssumption
    <3>2. PICK m \in SetsOf(line) : m.set = SetName(x, g)
      BY <1>4, <2>4 DEF ShellMatches, SetMatches
    <3>3. PICK i \in DOMAIN config : config[i].kind = "alias" /\ config[i].name = x
      BY <3>1, <3>2, SetOfAlias
    <3>4. config[i] \in Aliases
      BY <3>3 DEF Aliases
    <3>5. x \in AliasNames
      BY <3>3, <3>4 DEF AliasNames
    <3> QED
      BY <1>4, <3>5
  <2> QED
    BY <2>3, <2>4
<1> QED
  BY <1>2, <1>3, <1>4

\* One rule: the chain in both families, and the rule where it is taken.
LEMMA ShellRule ==
  ASSUME TypeInv, ShellInv, AddRule
  PROVE  ShellInv'
<1>1. /\ spc = "run" /\ line <= Len(config) /\ config[line].kind = "rule"
      /\ UNCHANGED <<config, ssets>> /\ line \in 1..Len(config)
  BY DEF AddRule, TypeInv, BuildTypeOK
<1> SUFFICES ASSUME spc' # "failed", Agreeable
             PROVE  /\ spc' # "ok"
                    /\ ssets = SetsOf(line')
                    /\ \A w \in Where : Lists(RulesAt(schains', w), line', w)
                    /\ BothFamilies'
  BY <1>1, MeaningStays DEF ShellInv, ListsAll, RulesAt
<1> DEFINE d == config[line]
           chain == ShellChain[d.chain]
           made == Family \X {d.table} \X {chain}
           chains == [w \in DOMAIN schains \cup made |->
                        IF w \in DOMAIN schains THEN schains[w] ELSE <<>>]
<1>2. d \in RuleDecl /\ d \in Rules
  BY <1>1, Declared DEF TypeInv, Rules
<1>3. chain = d.chain /\ chain \notin LongChain
  BY <1>2, ConfigAssumption DEF Agreeable, RuleDecl
<1>4. PICK answer \in {a \in Lookups : \A n \in Dotted : a[n] \in Answers[n]} :
        LET pairs(f) == ShellMatches(d.src, f, answer) \X ShellMatches(d.dst, f, answer)
            ok == {f \in Family :
                     /\ pairs(f) # {}
                     /\ <<f, d.table, d.opts>> \in Accepts
                     /\ d.jump # NoJump => <<f, d.table, d.jump>> \in DOMAIN chains}
        IN  /\ schains' = [w \in DOMAIN chains |->
                  IF w \in ok \X {d.table} \X {chain}
                  THEN Append(chains[w], [opts |-> d.opts, jump |-> d.jump,
                                          matches |-> pairs(w[1])])
                  ELSE chains[w]]
            /\ IF ok = {} THEN Abort ELSE line' = line + 1 /\ UNCHANGED spc
  BY <1>3, Zenon DEF AddRule, Abort
<1> DEFINE pairs(f) == ShellMatches(d.src, f, answer) \X ShellMatches(d.dst, f, answer)
           ok == {f \in Family :
                    /\ pairs(f) # {}
                    /\ <<f, d.table, d.opts>> \in Accepts
                    /\ d.jump # NoJump => <<f, d.table, d.jump>> \in DOMAIN chains}
<1>a. ok # {} /\ line' = line + 1 /\ UNCHANGED spc
  BY <1>4 DEF Abort
<1>5. PICK g \in Family : g \in ok
  BY <1>a
<1>6. \A f \in Family : pairs(f) = PairsOf(d, f)
  <2>1. ShellMatches(d.src, g, answer) # {} /\ ShellMatches(d.dst, g, answer) # {}
    BY <1>5
  <2>2. ssets = SetsOf(line)
    BY <1>1 DEF ShellInv
  <2> QED
    BY <1>1, <1>4, <2>1, <2>2, ShellMatchesAgree DEF PairsOf
<1>7. \A f, h \in Family : \A t, c : <<f, t, c>> \in DOMAIN chains => <<h, t, c>> \in DOMAIN chains
  BY <1>1 DEF ShellInv, BothFamilies
<1>8. \A f \in Family : f \in ok <=> PairsOf(d, f) # {} /\ <<f, d.table, d.opts>> \in Accepts
  BY <1>5, <1>6, <1>7
<1>9. DOMAIN schains' = DOMAIN chains
  BY <1>4
<1>10. ASSUME NEW w \in Where
       PROVE  RulesAt(schains', w) =
                IF Feeds(line, w) THEN Append(RulesAt(schains, w), RuleOf(d, w[1]))
                ELSE RulesAt(schains, w)
  <2>1. w[1] \in Family /\ w = <<w[1], w[2], w[3]>>
    BY DEF Where
  <2>2. Feeds(line, w) <=> w \in ok \X {d.table} \X {chain}
    BY <1>1, <1>3, <1>8, <2>1 DEF Feeds
  <2>3. w \in ok \X {d.table} \X {chain} => w \in DOMAIN chains
    OBVIOUS
  <2>4. w \in DOMAIN chains => RulesAt(schains, w) = chains[w]
    BY DEF RulesAt
  <2>5. w \notin DOMAIN chains => RulesAt(schains, w) = <<>>
    BY DEF RulesAt
  <2>6. RuleOf(d, w[1]) = [opts |-> d.opts, jump |-> d.jump, matches |-> pairs(w[1])]
    BY <1>6, <2>1 DEF RuleOf
  <2> HIDE DEF chains, pairs, ok, chain
  <2>7. w \in DOMAIN chains =>
          schains'[w] = IF w \in ok \X {d.table} \X {chain}
                        THEN Append(chains[w], [opts |-> d.opts, jump |-> d.jump,
                                                matches |-> pairs(w[1])])
                        ELSE chains[w]
    BY <1>4 DEF chains, pairs, ok, chain
  <2> QED
    BY <1>9, <2>2, <2>3, <2>4, <2>5, <2>6, <2>7 DEF RulesAt
<1>11. \A w \in Where : Lists(RulesAt(schains', w), line + 1, w)
  BY <1>1, <1>10, ListsNext DEF ShellInv, ListsAll
<1>12. ssets = SetsOf(line + 1)
  BY <1>1, SetsOfNext DEF ShellInv
<1>13. BothFamilies'
  BY <1>7, <1>9 DEF BothFamilies
<1> QED
  BY <1>1, <1>a, <1>11, <1>12, <1>13

LEMMA ShellNext == TypeInv /\ ShellInv /\ [Next]_<<config, svars, hvars>> => ShellInv'
<1> SUFFICES ASSUME TypeInv, ShellInv, [Next]_<<config, svars, hvars>>
             PROVE  ShellInv'
  OBVIOUS
<1>1. CASE ShellEnds
  <2>1. /\ spc = "run" /\ line > Len(config) /\ spc' = "ok"
        /\ UNCHANGED <<config, line, ssets, schains>>
    BY <1>1 DEF ShellEnds
  <2>2. ListsAll(schains, line)' <=> ListsAll(schains, line)
    BY <2>1, MeaningStays DEF ListsAll, RulesAt
  <2> QED
    BY <2>1, <2>2, MeaningStays DEF ShellInv, BothFamilies
<1>2. CASE HNext /\ UNCHANGED svars
  <2>1. config' = config
    BY <1>2 DEF HNext, Parse, Lookup, ResolveEnds, CheckNames, BuildSet, SkipDeclaration,
                LoopEnds, ChainRefused, Prepare, Probe, BuildRule, CleanupProbe, LoadSets,
                LoadTable, FamilyLoaded
  <2> QED
    BY <1>2, <2>1, ShellStays
<1>3. CASE UNCHANGED <<config, svars, hvars>>
  BY <1>3, ShellStays
<1> QED
  BY <1>1, <1>2, <1>3, ShellAlias, ShellRule DEF Next, SNext

-----------------------------------------------------------------------------
(* The helper.                                                              *)

\* The phases in which the rules of the declarations before `next` are made.
RulesMade == {"build_rules", "cleanup", "load_sets", "load_v4", "load_v6", "ok"}

NamesKnown ==
  /\ DOMAIN resolved \subseteq NamesToResolve
  /\ hpc \in AfterResolve =>
       \A n \in NamesToResolve : n \in Dns /\ n \in DOMAIN resolved /\ resolved[n] # {}

\* A rule of a chain with a name that is refused ends the loop.
ChainsNamed ==
  hpc \in RulesMade =>
    /\ \A i \in DOMAIN config :
         i < next /\ config[i].kind = "rule" => config[i].chain \notin LongChain \cup Misnamed
    /\ hpc # "build_rules" => next > Len(config)

\* The probe heard what the binaries say, and they take every rule that was made.
Heard == \A e \in cache : e.families = {f \in Family : <<f, e.key[1], e.key[2]>> \in Accepts}
Accepted(w) == \A i \in DOMAIN ruleset[w] : <<w[1], w[2], ruleset[w][i].opts>> \in Accepts
AllAccepted == \A w \in DOMAIN ruleset : Accepted(w)

RulesListed ==
  /\ \A w \in DOMAIN ruleset : \E S : ruleset[w] \in Seq(S)
  /\ hpc \in BeforeRules => ruleset = NoChains
  /\ hpc \in RulesMade /\ Agreeable /\ Heard /\ AllAccepted => ListsAll(ruleset, next)

\* A table that is in the kernel is the one that was made, and was not refused.
KernelInv ==
  /\ \A w \in DOMAIN kchains : w \in DOMAIN ruleset /\ kchains[w] = ruleset[w] /\ Accepted(w)
  /\ \A w \in DOMAIN ruleset :
       \/ hpc \in {"load_v6", "ok"} /\ w[1] = "v4"
       \/ hpc = "ok" /\ w[1] = "v6"
       => w \in DOMAIN kchains

HelperInv == NamesKnown /\ ChainsNamed /\ RulesListed /\ KernelInv

LEMMA HelperStarts == Init => HelperInv
<1> SUFFICES ASSUME Init
             PROVE  HelperInv
  OBVIOUS
<1>1. /\ hpc = "parse" /\ ruleset = NoChains /\ kchains = NoChains
      /\ DOMAIN resolved = {}
  BY DEF Init, HInit
<1>2. DOMAIN NoChains = {}
  BY DEF NoChains
<1> QED
  BY <1>1, <1>2
  DEF HelperInv, NamesKnown, ChainsNamed, RulesListed, KernelInv, RulesMade, AfterResolve,
      AfterNames, Built

\* Only the phase changes, or the cache grows.
LEMMA HelperStays ==
  ASSUME HelperInv, UNCHANGED <<config, resolved, next, ruleset, kchains>>, cache \subseteq cache',
         \/ UNCHANGED hpc
         \/ hpc' = "failed"
         \/ hpc = "build_rules" /\ hpc' = "cleanup_failed"
         \/ hpc = "parse" /\ hpc' = "resolve"
         \/ hpc = "cleanup" /\ hpc' = "load_sets"
         \/ hpc = "load_sets" /\ hpc' = "load_v4"
  PROVE  HelperInv'
<1>1. NamesToResolve' = NamesToResolve
  BY DEF NamesToResolve, AliasNames, Aliases, Rules
<1>2. NamesKnown' /\ ChainsNamed'
  BY <1>1
  DEF HelperInv, NamesKnown, ChainsNamed, RulesMade, AfterResolve, AfterNames, Built
<1>3. Heard' => Heard
  BY DEF Heard
<1>4. \A w : Accepted(w)' <=> Accepted(w)
  BY DEF Accepted
<1>5. ListsAll(ruleset, next)' <=> ListsAll(ruleset, next)
  BY MeaningStays DEF ListsAll, RulesAt
<1>6. RulesListed'
  BY <1>3, <1>4, <1>5, MeaningStays
  DEF HelperInv, RulesListed, AllAccepted, RulesMade, BeforeRules
<1>7. KernelInv'
  BY <1>4 DEF HelperInv, KernelInv
<1> QED
  BY <1>2, <1>6, <1>7 DEF HelperInv

\* The names and the sets are settled before the rules are made.
LEMMA HelperNames ==
  ASSUME TypeInv, LoadInv, HelperInv, Lookup \/ ResolveEnds \/ CheckNames \/ BuildSet
  PROVE  HelperInv'
<1> USE DEF AfterResolve, AfterNames, Built, BeforeRules, RulesMade
<1>1. /\ hpc \in BeforeRules /\ hpc' \in BeforeRules \cup {"failed"}
      /\ UNCHANGED <<config, ruleset, kchains>>
  BY DEF Lookup, ResolveEnds, CheckNames, BuildSet, Die, hkernel
<1>2. NamesToResolve' = NamesToResolve
  BY <1>1 DEF NamesToResolve, AliasNames, Aliases, Rules
<1>3. ruleset = NoChains /\ DOMAIN NoChains = {} /\ kchains = NoChains
  BY <1>1 DEF HelperInv, RulesListed, LoadInv, OrderInv, InKernel, NoChains
<1>4. ChainsNamed' /\ RulesListed' /\ KernelInv'
  BY <1>1, <1>3 DEF ChainsNamed, RulesListed, KernelInv
<1>5. NamesKnown'
  <2>1. CASE Lookup
    <3>1. /\ hpc' = "resolve"
          /\ \E n \in NamesToResolve : DOMAIN resolved' = DOMAIN resolved \cup {n}
      BY <2>1 DEF Lookup
    <3> QED
      BY <1>2, <3>1 DEF HelperInv, NamesKnown
  <2>2. CASE ResolveEnds
    <3>1. resolved' = resolved /\ NamesToResolve \cap Dns \subseteq DOMAIN resolved
      BY <2>2 DEF ResolveEnds
    <3>2. hpc' = "failed" \/ \A n \in NamesToResolve : n \in Dns /\ resolved[n] # {}
      BY <2>2 DEF ResolveEnds, Die, Unresolved
    <3> QED
      BY <1>2, <3>1, <3>2 DEF HelperInv, NamesKnown
  <2>3. CASE CheckNames \/ BuildSet
    <3>1. resolved' = resolved /\ hpc \in AfterResolve
      BY <2>3 DEF CheckNames, BuildSet
    <3> QED
      BY <1>2, <3>1 DEF HelperInv, NamesKnown
  <2> QED
    BY <2>1, <2>2, <2>3
<1> QED
  BY <1>4, <1>5 DEF HelperInv

\* A declaration that makes no rule, and the ends of both loops.
LEMMA HelperSkips ==
  ASSUME TypeInv, HelperInv, SkipDeclaration \/ LoopEnds
  PROVE  HelperInv'
<1> USE DEF AfterResolve, AfterNames, Built, BeforeRules, RulesMade
<1>1. UNCHANGED <<config, resolved, ruleset, kchains, cache>>
  BY DEF SkipDeclaration, LoopEnds, prober, hkernel
<1>2. NamesToResolve' = NamesToResolve
  BY <1>1 DEF NamesToResolve, AliasNames, Aliases, Rules
<1>3. /\ hpc \in {"build_sets", "build_rules"} /\ hpc' \in {"build_sets", "build_rules", "cleanup"}
      /\ next \in 1..Len(config) + 1
  BY DEF SkipDeclaration, LoopEnds, TypeInv, BuildTypeOK
<1>4. NamesKnown'
  BY <1>1, <1>2, <1>3 DEF HelperInv, NamesKnown
<1>5. (Heard' <=> Heard) /\ \A w : Accepted(w)' <=> Accepted(w)
  BY <1>1 DEF Heard, Accepted
<1>6. KernelInv'
  BY <1>1, <1>3, <1>5 DEF HelperInv, KernelInv
<1>7. ChainsNamed'
  <2>1. CASE hpc = "build_sets"
    <3>1. hpc' = "build_sets" \/ (hpc' = "build_rules" /\ next' = 1)
      BY <2>1 DEF SkipDeclaration, LoopEnds
    <3> QED
      BY <1>1, <3>1 DEF ChainsNamed, TypeInv
  <2>2. CASE hpc = "build_rules"
    <3>1. \/ hpc' = "build_rules" /\ next' = next + 1 /\ config[next].kind = "alias"
          \/ hpc' = "cleanup" /\ next' = next /\ next > Len(config)
      BY <2>2 DEF SkipDeclaration, LoopEnds
    <3>2. \A i \in DOMAIN config : i < next + 1 => i < next \/ i = next
      BY <1>3 DEF TypeInv
    <3> QED
      BY <1>1, <1>3, <2>2, <3>1, <3>2 DEF HelperInv, ChainsNamed
  <2> QED
    BY <1>3, <2>1, <2>2
<1>8. ASSUME hpc' \in RulesMade, Agreeable, Heard, AllAccepted
      PROVE  \A w \in Where : Lists(RulesAt(ruleset, w), next', w)
  <2>1. CASE hpc = "build_sets"
    <3>1. next' = 1
      BY <1>8, <2>1 DEF SkipDeclaration, LoopEnds
    <3>2. ruleset = NoChains
      BY <2>1 DEF HelperInv, RulesListed
    <3> QED
      BY <3>1, <3>2, ListsStart DEF ListsAll
  <2>2. CASE hpc = "build_rules"
    <3>1. \A w \in Where : Lists(RulesAt(ruleset, w), next, w)
      BY <1>8, <2>2 DEF HelperInv, RulesListed, ListsAll
    <3>2. CASE LoopEnds
      BY <2>2, <3>1, <3>2 DEF LoopEnds
    <3>3. CASE SkipDeclaration
      <4>1. next' = next + 1 /\ next \in 1..Len(config) /\ \A w : ~Feeds(next, w)
        BY <1>3, <2>2, <3>3 DEF SkipDeclaration, Feeds
      <4> QED
        BY <3>1, <4>1, ListsNext
    <3> QED
      BY <3>2, <3>3
  <2> QED
    BY <1>3, <2>1, <2>2
<1>9. RulesListed'
  <2>1. (Agreeable' <=> Agreeable) /\ (AllAccepted' <=> AllAccepted)
    BY <1>1, <1>5, MeaningStays DEF AllAccepted
  <2>2. ListsAll(ruleset, next)' <=> \A w \in Where : Lists(RulesAt(ruleset, w), next', w)
    BY <1>1, MeaningStays DEF ListsAll, RulesAt
  <2>3. hpc' \in BeforeRules => ruleset' = NoChains
    BY <1>1, <1>3 DEF HelperInv, RulesListed, SkipDeclaration, LoopEnds
  <2>4. \A w \in DOMAIN ruleset' : \E S : ruleset'[w] \in Seq(S)
    BY <1>1 DEF HelperInv, RulesListed
  <2> QED
    BY <1>5, <1>8, <2>1, <2>2, <2>3, <2>4 DEF RulesListed
<1> QED
  BY <1>4, <1>6, <1>7, <1>9 DEF HelperInv

\* The sets the helper makes are those of the configuration.
LEMMA HelperSets ==
  ASSUME TypeInv, HelperInv, Agreeable, hpc \in AfterResolve
  PROVE  SetsBefore(Len(config) + 1) = AllSets
<1>1. ASSUME NEW i \in DOMAIN config, config[i].kind = "alias"
      PROVE  Addresses(config[i]) = AddressesOf(config[i])
  <2> DEFINE d == config[i]
  <2>1. /\ d \in AliasDecl /\ d \in Aliases
        /\ d.host \notin Address \cup {AnyHost} => Answers[d.host] = {AddressesOf(d)}
    BY <1>1, AliasAnswers
  <2>2. CASE d.host \in Address \cup {AnyHost}
    BY <2>2 DEF Addresses, AddressesOf
  <2>3. CASE d.host \notin Address \cup {AnyHost}
    <3>1. d.host \in NamesToResolve
      BY <2>1, <2>3 DEF NamesToResolve
    <3>2. d.host \in DOMAIN resolved
      BY <3>1 DEF HelperInv, NamesKnown
    <3>3. resolved[d.host] \in Answers[d.host]
      BY <3>2 DEF TypeInv, BuildTypeOK
    <3> QED
      BY <2>1, <2>3, <3>3 DEF Addresses
  <2> QED
    BY <2>2, <2>3
<1>2. SetsBefore(Len(config) + 1) = SetsOf(Len(config) + 1)
  BY <1>1 DEF SetsBefore, SetsOf
<1> QED
  BY <1>2 DEF AllSets

\* An endpoint is matched by what it means.
LEMMA HelperMatches ==
  ASSUME TypeInv, HelperInv, Agreeable, hpc \in AfterResolve, hsets = AllSets,
         NEW d \in Rules, NEW x \in {d.src, d.dst}, NEW f
  PROVE  Matches(x, f) = MatchesOf(x, f)
<1>1. CASE x \in Address \cup {AnyHost}
  BY <1>1 DEF Matches, MatchesOf
<1>2. CASE x \in AliasNames
  <2>1. x \in Alias
    BY <1>2 DEF Agreeable, AliasNames
  <2>2. x # AnyHost /\ x \notin Address
    BY <2>1, ConfigAssumption
  <2>3. x \notin DOMAIN resolved
    BY <1>2 DEF Agreeable, HelperInv, NamesKnown
  <2> QED
    BY <1>2, <2>2, <2>3 DEF Matches, MatchesOf
<1>3. CASE x \notin Address \cup {AnyHost} /\ x \notin AliasNames
  <2>1. x \in NamesToResolve
    BY <1>3 DEF NamesToResolve
  <2>2. /\ x \in DOMAIN resolved /\ resolved[x] # {}
        /\ \E a : Answers[x] = {a}
    BY <2>1 DEF HelperInv, NamesKnown, Agreeable
  <2>3. resolved[x] \in Answers[x]
    BY <2>2 DEF TypeInv, BuildTypeOK
  <2>4. resolved[x] = CHOOSE a : Answers[x] = {a}
    BY <2>2, <2>3
  <2> QED
    BY <1>3, <2>2, <2>4 DEF Matches, MatchesOf
<1> QED
  BY <1>1, <1>2, <1>3

\* One rule more at the end of some chains.
LEMMA AppendedRules ==
  ASSUME NEW chains, NEW where, NEW rule, NEW w,
         \A x \in DOMAIN chains : \E S : chains[x] \in Seq(S)
  PROVE  /\ RulesAt(Appended(chains, where, rule), w) =
              IF w \in where THEN Append(RulesAt(chains, w), rule[w[1]]) ELSE RulesAt(chains, w)
         /\ \E S : RulesAt(chains, w) \in Seq(S)
         /\ \E S : RulesAt(Appended(chains, where, rule), w) \in Seq(S)
<1> DEFINE old == RulesAt(chains, w)
           new == RulesAt(Appended(chains, where, rule), w)
<1>1. new = IF w \in where THEN Append(old, rule[w[1]]) ELSE old
  BY DEF RulesAt, Appended
<1>2. \E S : old \in Seq(S)
  <2>1. CASE w \in DOMAIN chains
    BY <2>1 DEF RulesAt
  <2>2. CASE w \notin DOMAIN chains
    <3>1. old \in Seq({})
      BY <2>2 DEF RulesAt
    <3> QED
      BY <3>1
  <2> QED
    BY <2>1, <2>2
<1> HIDE DEF old, new
<1>3. \E S : new \in Seq(S)
  <2>1. PICK S : old \in Seq(S)
    BY <1>2
  <2>2. old \in Seq(S \cup {rule[w[1]]})
    BY <2>1
  <2>3. new \in Seq(S \cup {rule[w[1]]})
    BY <1>1, <2>2
  <2> QED
    BY <2>3
<1> QED
  BY <1>1, <1>2, <1>3 DEF old, new

\* What the verdict on a tail is, when the probe heard what the binaries say.
LEMMA HeardFamilies ==
  ASSUME Heard, NEW d, \E e \in cache : e.key = Key(d)
  PROVE  FamiliesFor(d) = {f \in Family : <<f, d.table, d.opts>> \in Accepts}
<1> DEFINE v == CHOOSE e \in cache : e.key = Key(d)
<1>1. v \in cache /\ v.key = Key(d)
  OBVIOUS
<1>2. FamiliesFor(d) = v.families
  BY DEF FamiliesFor
<1> HIDE DEF v
<1>3. v.families = {f \in Family : <<f, v.key[1], v.key[2]>> \in Accepts}
  BY <1>1 DEF Heard
<1>4. v.key[1] = d.table /\ v.key[2] = d.opts
  BY <1>1 DEF Key
<1> QED
  BY <1>2, <1>3, <1>4

\* One rule, in the families the probe says or, degraded, in both.
LEMMA HelperRule ==
  ASSUME TypeInv, LoadInv, HelperInv, BuildRule
  PROVE  HelperInv'
<1> USE DEF AfterResolve, AfterNames, Built, BeforeRules, RulesMade
<1> DEFINE d == config[next]
           pairs(f) == Matches(d.src, f) \X Matches(d.dst, f)
           rule == [f \in Family |-> [opts |-> d.opts, jump |-> d.jump, matches |-> pairs(f)]]
           where == {<<f, d.table, d.chain>> : f \in {g \in FamiliesFor(d) : pairs(g) # {}}}
<1>1. /\ hpc = "build_rules" /\ hpc' = hpc /\ next' = next + 1
      /\ next \in 1..Len(config) /\ d.kind = "rule" /\ d.chain \notin LongChain \cup Misnamed
      /\ Cached \/ degraded
      /\ UNCHANGED <<config, resolved, hsets, cache, kchains>>
  BY DEF BuildRule, Offering, Probing, Rule, prober, hkernel, TypeInv, BuildTypeOK
<1>2. ruleset' = Appended(ruleset, where, rule)
  BY DEF BuildRule, Rule
<1>3. d \in RuleDecl /\ d \in Rules
  BY <1>1, Declared DEF TypeInv, Rules
<1>4. NamesToResolve' = NamesToResolve
  BY <1>1 DEF NamesToResolve, AliasNames, Aliases, Rules
<1>5. NamesKnown'
  BY <1>1, <1>4 DEF HelperInv, NamesKnown
<1>6. ChainsNamed'
  <2>1. \A i \in DOMAIN config : i < next + 1 => i < next \/ i = next
    BY <1>1 DEF TypeInv
  <2> QED
    BY <1>1, <2>1 DEF HelperInv, ChainsNamed
<1>7. kchains' = NoChains /\ DOMAIN NoChains = {}
  BY <1>1 DEF LoadInv, OrderInv, InKernel, NoChains
<1>8. KernelInv'
  BY <1>1, <1>7 DEF KernelInv
<1> HIDE DEF where, rule
<1>9. \A w : /\ RulesAt(ruleset', w) =
                  IF w \in where THEN Append(RulesAt(ruleset, w), rule[w[1]])
                  ELSE RulesAt(ruleset, w)
             /\ \E S : RulesAt(ruleset, w) \in Seq(S)
             /\ \E S : RulesAt(ruleset', w) \in Seq(S)
  BY <1>2, AppendedRules DEF HelperInv, RulesListed
<1>10. DOMAIN ruleset' = DOMAIN ruleset \cup where
  BY <1>2 DEF Appended
<1>11. \A w \in DOMAIN ruleset' : \E S : ruleset'[w] \in Seq(S)
  BY <1>9 DEF RulesAt
<1>12. ASSUME AllAccepted', NEW w \in DOMAIN ruleset'
       PROVE  /\ w \in DOMAIN ruleset => Accepted(w)
              /\ w \in where => <<w[1], w[2], rule[w[1]].opts>> \in Accepts
  <2>1. \A i \in DOMAIN ruleset'[w] : <<w[1], w[2], ruleset'[w][i].opts>> \in Accepts
    BY <1>12 DEF AllAccepted, Accepted
  <2>2. ruleset'[w] = IF w \in where THEN Append(RulesAt(ruleset, w), rule[w[1]])
                      ELSE RulesAt(ruleset, w)
    BY <1>9, <1>12 DEF RulesAt
  <2>3. PICK S : RulesAt(ruleset, w) \in Seq(S)
    BY <1>9
  <2>4. RulesAt(ruleset, w) \in Seq(S \cup {rule[w[1]]})
    BY <2>3
  <2>5. w \in where =>
          /\ DOMAIN ruleset'[w] = 1..Len(RulesAt(ruleset, w)) + 1
          /\ DOMAIN RulesAt(ruleset, w) = 1..Len(RulesAt(ruleset, w))
          /\ Len(RulesAt(ruleset, w)) \in Nat
          /\ \A i \in DOMAIN RulesAt(ruleset, w) : ruleset'[w][i] = RulesAt(ruleset, w)[i]
          /\ ruleset'[w][Len(RulesAt(ruleset, w)) + 1] = rule[w[1]]
    BY <2>2, <2>4, AppendProperties
  <2>6. w \in where => <<w[1], w[2], rule[w[1]].opts>> \in Accepts
    BY <2>1, <2>5
  <2>7. \A i \in DOMAIN RulesAt(ruleset, w) :
          <<w[1], w[2], RulesAt(ruleset, w)[i].opts>> \in Accepts
    BY <2>1, <2>2, <2>5
  <2> QED
    BY <2>6, <2>7 DEF Accepted, RulesAt
<1>13. ASSUME Agreeable, Heard, AllAccepted'
       PROVE  \A w \in Where : Lists(RulesAt(ruleset', w), next + 1, w)
  <2>1. AllAccepted
    BY <1>10, <1>12, <1>13 DEF AllAccepted
  <2>2. \A w \in Where : Lists(RulesAt(ruleset, w), next, w)
    BY <1>1, <1>13, <2>1 DEF HelperInv, RulesListed, ListsAll
  <2>3. hsets = AllSets
    BY <1>1, <1>13, HelperSets DEF LoadInv, SetsInv
  <2>4. \A f \in Family : pairs(f) = PairsOf(d, f)
    BY <1>1, <1>3, <1>13, <2>3, HelperMatches DEF PairsOf
  <2> HIDE DEF pairs
  <2>5. FamiliesFor(d) \subseteq Family
    BY FamiliesForFamily DEF TypeInv
  <2>6. ASSUME NEW w \in Where
        PROVE  /\ Feeds(next, w) <=> w \in where
               /\ w \in where => rule[w[1]] = RuleOf(d, w[1])
    <3>1. w[1] \in Family /\ w = <<w[1], w[2], w[3]>>
      BY DEF Where
    <3>2. rule[w[1]] = RuleOf(d, w[1]) /\ rule[w[1]].opts = d.opts
      BY <2>4, <3>1 DEF rule, RuleOf
    <3>3. w \in where <=>
            /\ w[1] \in FamiliesFor(d) /\ PairsOf(d, w[1]) # {}
            /\ w[2] = d.table /\ w[3] = d.chain
      BY <2>4, <2>5, <3>1 DEF where
    <3>4. w \in where => <<w[1], w[2], d.opts>> \in Accepts
      BY <1>10, <1>12, <1>13, <3>2
    <3>5. <<w[1], d.table, d.opts>> \in Accepts => w[1] \in FamiliesFor(d)
      <4>1. CASE \E e \in cache : e.key = Key(d)
        BY <1>13, <3>1, <4>1, HeardFamilies
      <4>2. CASE ~\E e \in cache : e.key = Key(d)
        BY <3>1, <4>2 DEF FamiliesFor
      <4> QED
        BY <4>1, <4>2
    <3> QED
      BY <1>1, <3>2, <3>3, <3>4, <3>5 DEF Feeds
  <2>7. ASSUME NEW w \in Where
        PROVE  RulesAt(ruleset', w) =
                 IF Feeds(next, w) THEN Append(RulesAt(ruleset, w), RuleOf(d, w[1]))
                 ELSE RulesAt(ruleset, w)
    BY <1>9, <2>6
  <2> QED
    BY <1>1, <2>2, <2>7, ListsNext
<1>14. RulesListed'
  <2>1. (Agreeable' <=> Agreeable) /\ (Heard' <=> Heard)
    BY <1>1, MeaningStays DEF Heard
  <2>2. ListsAll(ruleset, next)' <=> \A w \in Where : Lists(RulesAt(ruleset', w), next + 1, w)
    BY <1>1, MeaningStays DEF ListsAll, RulesAt
  <2> QED
    BY <1>1, <1>11, <1>13, <2>1, <2>2 DEF RulesListed
<1> QED
  BY <1>5, <1>6, <1>8, <1>14 DEF HelperInv

\* A table is taken whole or not at all, and the next family's turn comes when
\* no table of this one is left.
LEMMA HelperLoads ==
  ASSUME TypeInv, HelperInv, LoadTable("v4") \/ LoadTable("v6") \/ FamilyLoaded
  PROVE  HelperInv'
<1> USE DEF AfterResolve, AfterNames, Built, BeforeRules, RulesMade
<1>1. /\ UNCHANGED <<config, resolved, next, ruleset, cache>>
      /\ hpc \in {"load_v4", "load_v6"} /\ hpc' \in {"load_v4", "load_v6", "ok", "failed"}
  BY DEF LoadTable, LoadStep, FamilyLoaded, Die, prober, hkernel
<1>2. NamesToResolve' = NamesToResolve
  BY <1>1 DEF NamesToResolve, AliasNames, Aliases, Rules
<1>3. NamesKnown' /\ ChainsNamed'
  BY <1>1, <1>2 DEF HelperInv, NamesKnown, ChainsNamed
<1>4. (Heard' <=> Heard) /\ \A w : Accepted(w)' <=> Accepted(w)
  BY <1>1 DEF Heard, Accepted
<1>5. RulesListed'
  <2>1. (Agreeable' <=> Agreeable) /\ (AllAccepted' <=> AllAccepted)
    BY <1>1, <1>4, MeaningStays DEF AllAccepted
  <2>2. ListsAll(ruleset, next)' <=> ListsAll(ruleset, next)
    BY <1>1, MeaningStays DEF ListsAll, RulesAt
  <2> QED
    BY <1>1, <1>4, <2>1, <2>2 DEF HelperInv, RulesListed
<1>6. ASSUME NEW f \in Family, LoadTable(f)
      PROVE  KernelInv'
  <2>1. hpc' \in {hpc, "failed"}
    BY <1>6 DEF LoadTable, Die
  <2>2. PICK t \in Unloaded(f) :
          IF Refused(f, t)
          THEN Die /\ UNCHANGED kchains
          ELSE LET loaded == {w \in DOMAIN ruleset : w[1] = f /\ w[2] = t}
               IN  /\ kchains' = [w \in DOMAIN kchains \cup loaded |->
                                    IF w \in loaded THEN ruleset[w] ELSE kchains[w]]
                   /\ UNCHANGED hpc
    BY <1>6 DEF LoadTable
  <2>3. CASE Refused(f, t)
    BY <1>1, <1>4, <2>2, <2>3 DEF HelperInv, KernelInv, Die
  <2>4. CASE ~Refused(f, t)
    <3> DEFINE loaded == {w \in DOMAIN ruleset : w[1] = f /\ w[2] = t}
    <3>1. /\ kchains' = [w \in DOMAIN kchains \cup loaded |->
                           IF w \in loaded THEN ruleset[w] ELSE kchains[w]]
          /\ hpc' = hpc
      BY <2>2, <2>4
    <3>2. \A w \in loaded : Accepted(w)
      BY <2>4 DEF Refused, Accepted
    <3> HIDE DEF loaded
    <3>3. DOMAIN kchains' = DOMAIN kchains \cup loaded
      BY <3>1
    <3>4. loaded \subseteq DOMAIN ruleset
      BY DEF loaded
    <3>5. ASSUME NEW w \in DOMAIN kchains'
          PROVE  w \in DOMAIN ruleset /\ kchains'[w] = ruleset[w] /\ Accepted(w)
      BY <3>1, <3>2, <3>3, <3>4 DEF HelperInv, KernelInv
    <3> QED
      BY <1>1, <1>4, <3>1, <3>3, <3>5 DEF HelperInv, KernelInv
  <2> QED
    BY <2>3, <2>4
<1>7. ASSUME FamilyLoaded
      PROVE  KernelInv'
  <2>1. kchains' = kchains
    BY <1>7 DEF FamilyLoaded, hkernel
  <2>2. PICK f \in Family : Unloaded(f) = {} /\ hpc = LoadStep[f]
                            /\ hpc' = IF f = "v4" THEN "load_v6" ELSE "ok"
    BY <1>7 DEF FamilyLoaded, Family, LoadStep
  <2>3. \A w \in DOMAIN ruleset : w[1] = f => w \in DOMAIN kchains
    BY <2>2 DEF Unloaded
  <2>4. \A w \in DOMAIN ruleset' :
          \/ hpc' \in {"load_v6", "ok"} /\ w[1] = "v4"
          \/ hpc' = "ok" /\ w[1] = "v6"
          => w \in DOMAIN kchains'
    BY <1>1, <2>1, <2>2, <2>3 DEF HelperInv, KernelInv, LoadStep, Family
  <2>5. \A w \in DOMAIN kchains' :
          w \in DOMAIN ruleset' /\ kchains'[w] = ruleset'[w] /\ Accepted(w)'
    BY <1>1, <1>4, <2>1 DEF HelperInv, KernelInv
  <2> QED
    BY <2>4, <2>5 DEF KernelInv
<1>8. KernelInv'
  <2>1. "v4" \in Family /\ "v6" \in Family
    BY DEF Family
  <2> QED
    BY <1>6, <1>7, <2>1
<1> QED
  BY <1>3, <1>5, <1>8 DEF HelperInv

LEMMA HelperNext ==
  TypeInv /\ LoadInv /\ HelperInv /\ [Next]_<<config, svars, hvars>> => HelperInv'
<1> SUFFICES ASSUME TypeInv, LoadInv, HelperInv, [Next]_<<config, svars, hvars>>
             PROVE  HelperInv'
  OBVIOUS
<1>1. CASE SNext /\ UNCHANGED hvars
  <2>1. config' = config
    BY <1>1 DEF SNext, AddAlias, AddRule, ShellEnds
  <2> QED
    BY <1>1, <2>1, HelperStays DEF hvars, prober, hkernel
<1>2. CASE UNCHANGED <<config, svars, hvars>>
  BY <1>2, HelperStays DEF hvars, prober, hkernel
<1>3. CASE Parse \/ ChainRefused
  BY <1>3, HelperStays DEF Parse, ChainRefused, Probing, Die, prober, hkernel
<1>4. CASE Prepare \/ Probe
  BY <1>4, HelperStays DEF Prepare, Probe, hkernel
<1>5. CASE CleanupProbe \/ LoadSets
  BY <1>5, HelperStays DEF CleanupProbe, LoadSets, Die, prober, hkernel
<1> QED
  BY <1>1, <1>2, <1>3, <1>4, <1>5, HelperNames, HelperSkips, HelperRule, HelperLoads
  DEF Next, HNext

-----------------------------------------------------------------------------
(* Both.                                                                    *)

\* What the helper has built agrees with what anyone makes of it.
LEMMA BuiltAgrees ==
  ASSUME TypeInv, LoadInv, HelperInv, hpc = "ok", Steady, AliasesFirst, ~Shadowed,
         \A d \in Rules : d.chain \notin Hyphened
  PROVE  Agreeable /\ Heard
<1> USE DEF AfterResolve, AfterNames, Built, RulesMade
<1>1. \A n \in NamesToResolve : n \in Dns /\ n \in DOMAIN resolved
  BY DEF HelperInv, NamesKnown
<1>2. \A n \in NamesToResolve : n \in Dns /\ \E a : Answers[n] = {a}
  BY <1>1 DEF Steady
<1>3. AliasNames \cap NamesToResolve = {}
  BY <1>1 DEF Shadowed
<1>4. \A d \in Aliases : d.name \in Alias /\ ~BadName(d)
  BY DEF LoadInv, NamesInv, NamesParsed, NamesFit, AfterParse
<1>5. ASSUME NEW d \in Rules
      PROVE  d.chain \notin LongChain \cup Misnamed
  <2>1. PICK i \in DOMAIN config : config[i].kind = "rule" /\ d = config[i]
    BY DEF Rules
  <2>2. i < next
    BY <2>1 DEF HelperInv, ChainsNamed, TypeInv, BuildTypeOK
  <2> QED
    BY <2>1, <2>2 DEF HelperInv, ChainsNamed
<1>6. Heard
  BY DEF Steady, Heard
<1> QED
  BY <1>2, <1>3, <1>4, <1>5, <1>6 DEF Agreeable

LEMMA PathsAgree == TypeInv /\ LoadInv /\ ShellInv /\ HelperInv => SamePolicy
<1> SUFFICES ASSUME TypeInv, LoadInv, ShellInv, HelperInv,
                    spc = "ok", hpc = "ok", Steady, AliasesFirst, ~Shadowed,
                    \A d \in Rules : d.chain \notin Hyphened
             PROVE  /\ ssets = ksets
                    /\ \A w \in Where : RulesAt(schains, w) = RulesAt(kchains, w)
  BY DEF SamePolicy, Where
<1> USE DEF AfterResolve, AfterNames, Built, RulesMade
<1>1. Agreeable /\ Heard
  BY BuiltAgrees
<1>2. /\ ssets = SetsOf(line) /\ ListsAll(schains, line)
      /\ line = Len(config) + 1
  BY <1>1 DEF ShellInv, TypeInv, BuildTypeOK
<1>3. next = Len(config) + 1
  BY DEF HelperInv, ChainsNamed, TypeInv, BuildTypeOK
<1>4. ksets = AllSets
  BY <1>1, HelperSets DEF LoadInv, SetsInv, OrderInv
<1>5. ASSUME NEW w \in DOMAIN ruleset
      PROVE  w \in DOMAIN kchains /\ kchains[w] = ruleset[w] /\ Accepted(w)
  <2>1. w[1] \in {"v4", "v6"}
    BY DEF TypeInv, BuildTypeOK, Family
  <2> QED
    BY <2>1 DEF HelperInv, KernelInv
<1>6. ListsAll(ruleset, next)
  BY <1>1, <1>5 DEF HelperInv, RulesListed, AllAccepted
<1>7. DOMAIN kchains = DOMAIN ruleset
  BY <1>5 DEF HelperInv, KernelInv
<1>8. \A w : RulesAt(kchains, w) = RulesAt(ruleset, w)
  BY <1>5, <1>7 DEF RulesAt
<1>9. ASSUME NEW w \in Where
      PROVE  RulesAt(schains, w) = RulesAt(kchains, w)
  <2>1. Lists(RulesAt(schains, w), Len(config) + 1, w)
    BY <1>2 DEF ListsAll
  <2>2. Lists(RulesAt(ruleset, w), Len(config) + 1, w)
    BY <1>3, <1>6 DEF ListsAll
  <2> QED
    BY <1>8, <2>1, <2>2, ListsUnique
<1> QED
  BY <1>2, <1>4, <1>9 DEF AllSets

\* A configuration that the scripts build and the helper builds is one policy:
\* the same sets, and in every chain of every family the same rules in the same
\* order, whatever the configuration, the answers of the DNS, the options the
\* binaries take and the failures of the probe. That is what tests/run.sh compares
\* for one configuration, when sets.rs and rules.rs have taken the place of
\* fw_alias_host, fw_alias_dns, fw_alias_ip and fw_rule.
THEOREM OnePolicy == Spec => []SamePolicy
<1> DEFINE Inv == TypeInv /\ LoadInv /\ ShellInv /\ HelperInv
<1>1. Init => Inv
  BY TypeInit, LoadInit, ShellStarts, HelperStarts
<1>2. Inv /\ [Next]_<<config, svars, hvars>> => Inv'
  BY TypeNext, LoadNext, ShellNext, HelperNext
<1>3. Inv => SamePolicy
  BY PathsAgree
<1> QED
  BY <1>1, <1>2, <1>3, PTL DEF Spec
=============================================================================
