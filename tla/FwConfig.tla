------------------------------ MODULE FwConfig ------------------------------
(***************************************************************************)
(* What firewall.d declares, and what both build paths need of the world:   *)
(* the answers of the DNS and the match options each binary accepts.        *)
(*                                                                          *)
(* Names, addresses and rule tails are opaque.  What is kept of a name is   *)
(* what the code tests: whether it is `any`, reads as an address, has a     *)
(* dot, ends with _v6, is too long.  A tail is its match options and, when  *)
(* it jumps to a global chain, that chain.                                  *)
(***************************************************************************)
EXTENDS Naturals, Sequences, FiniteSets

CONSTANTS
  Address,      \* addresses and networks, as written or as the DNS gives them
  FamilyOf,     \* the family of an address
  Dns,          \* names to look up
  Dotted,       \* those of them with a dot
  Answers,      \* the answers a lookup of a name may give, each a set of addresses
  Alias,        \* names without a dot, which aliases can have; some may be in Dns too
  V6Name,       \* the name with _v6 appended, which no host has
  Length,       \* the length of an alias name
  PrefixLength, \* the length of CFW_<version>_
  Table, ZoneChain, GlobalChain,
  LongChain,    \* chains whose name is over the limit of iptables
  Misnamed,     \* zone chains of a file that is not called NN_name.sh
  Hyphened,     \* zone chains of a file that is, with a hyphen in its name
  ShellChain,   \* the chain the scripts make of one
  Option,       \* match options and target of a tail
  NoJump,       \* the tail jumps to no global chain
  Accepts,      \* <<family, table, options>> the family's binary accepts
  Config        \* the declarations of firewall.d, in order

Family == {"v4", "v6"}
AnyHost == "any"
Host == {AnyHost} \cup Address \cup Dns
Chain == ZoneChain \cup GlobalChain

\* A number outside 1..65535 is a port no set takes.
Port == {"none", "valid", "outside"}

\* The parser refuses the alias names with a dot.
AliasDecl == [kind: {"alias"}, name: Alias \cup Dotted, host: Host, port: Port]
RuleDecl ==
  [kind: {"rule"}, table: Table, chain: Chain, src: Host \cup Alias, dst: Host \cup Alias,
   opts: Option, jump: GlobalChain \cup {NoJump}]

ASSUME ConfigAssumption ==
  /\ FamilyOf \in [Address -> Family]
  /\ Dotted \subseteq Dns
  /\ Answers \in [Dns -> SUBSET SUBSET Address] /\ \A n \in Dns : Answers[n] # {}
  /\ Dns \ Dotted \subseteq Alias /\ Alias \cap Dotted = {}
  /\ DOMAIN V6Name = Alias /\ \A a, b \in Alias : V6Name[a] = V6Name[b] => a = b
  /\ \A a \in Alias : V6Name[a] \notin Dns
  /\ Length \in [Alias -> Nat] /\ PrefixLength \in Nat
  /\ LongChain \subseteq Chain /\ Misnamed \cup Hyphened \subseteq ZoneChain
  /\ ShellChain \in [Chain -> Chain]
  /\ \A c \in Chain : IF c \in Misnamed \cup Hyphened THEN ShellChain[c] \in GlobalChain
                                                    ELSE ShellChain[c] = c
  /\ Accepts \subseteq Family \X Table \X Option
  /\ Config \subseteq Seq(AliasDecl \cup RuleDecl)
  /\ AnyHost \notin Address \cup Dns \cup Alias /\ Address \cap (Dns \cup Alias) = {}

VARIABLE config

Aliases == {config[i] : i \in {k \in DOMAIN config : config[k].kind = "alias"}}
Rules == {config[i] : i \in {k \in DOMAIN config : config[k].kind = "rule"}}

-----------------------------------------------------------------------------
(* The sets an alias fills.  A set is the collection of its members:        *)
(* records of its name, its type, its family and one entry.                 *)

\* The _v6 half of an alias is a set of its own.
SetName(a, f) == IF f = "v4" THEN a ELSE V6Name[a]

SetType(d) == IF d.host = AnyHost THEN "port" ELSE IF d.port # "none" THEN "netport" ELSE "net"

Dimensions(type) == IF type = "netport" THEN 2 ELSE 1

\* A host of `any` makes one port set, under the bare name.
Members(d, addrs) ==
  IF d.host = AnyHost
  THEN {[set |-> d.name, type |-> "port", family |-> "v4", entry |-> <<AnyHost, d.port>>]}
  ELSE {[set |-> SetName(d.name, FamilyOf[x]), type |-> SetType(d), family |-> FamilyOf[x],
         entry |-> <<x, d.port>>] : x \in addrs}

\* A set has the type it was created with.
Mixes(sets, more) == \E m \in sets, n \in more : m.set = n.set /\ m.type # n.type

IpsetNameMax == 31

SetLength(s) ==
  IF \E a \in Alias : s = V6Name[a]
  THEN Length[CHOOSE a \in Alias : s = V6Name[a]] + 3
  ELSE Length[s]

HoldsNoPort(sets) == \E m \in sets : m.entry[2] = "outside"

\* What ipset refuses: a name over its limit, an entry of another family than
\* its set, a port that is none.
IpsetRefuses(sets) ==
  \/ \E m \in sets : PrefixLength + SetLength(m.set) > IpsetNameMax
  \/ \E m, n \in sets : m.set = n.set /\ m.family # n.family
  \/ HoldsNoPort(sets)

\* Without a port, `any` has no representation.
Unrepresentable(d) == d.host = AnyHost /\ d.port = "none"

\* What a rule matches an endpoint with.
AnyMatch == [by |-> "none"]
LiteralMatches(addrs, f) == {[by |-> "address", is |-> x] : x \in {y \in addrs : FamilyOf[y] = f}}
SetMatches(sets, a, f) ==
  {[by |-> "set", set |-> m.set, dims |-> Dimensions(m.type)] :
     m \in {n \in sets : n.set = SetName(a, f)}}
=============================================================================
