----------------------------- MODULE ShellBuild -----------------------------
(***************************************************************************)
(* The same build by the scripts themselves: every declaration acts on the  *)
(* kernel as it is met, one ipset or iptables per entry and per family.     *)
(***************************************************************************)
EXTENDS FwConfig

VARIABLES
  spc,        \* "run", or how it ended
  line,       \* the declaration about to run
  ssets,      \* kernel: members of the sets
  schains     \* kernel: <<family, table, chain>> to rules

svars == <<spc, line, ssets, schains>>

\* The ERR trap of the scripts and of the config files: the reload ends, with
\* what was built so far in the kernel.
Abort == spc' = "failed" /\ UNCHANGED line

\* fw_alias_host, fw_alias_dns, fw_alias_ip: a host that is no address is
\* looked up on the spot, and a name without an answer makes no set.
AliasAddresses(d) ==
  IF d.host \in Address THEN {{d.host}} ELSE IF d.host = AnyHost THEN {{}} ELSE Answers[d.host]

AddAlias ==
  /\ spc = "run" /\ line <= Len(config) /\ config[line].kind = "alias"
  /\ LET d == config[line]
     IN  \E addrs \in AliasAddresses(d) :
           LET more == Members(d, addrs)
           IN  IF /\ more # {}
                  /\ \/ d.name \in Dotted \/ Unrepresentable(d) \/ d.port = "outside"
                     \/ Mixes(ssets, more) \/ IpsetRefuses(ssets \cup more)
               THEN Abort /\ UNCHANGED ssets
               ELSE ssets' = ssets \cup more /\ line' = line + 1 /\ UNCHANGED spc
  /\ UNCHANGED <<config, schains>>

\* alias_to_iptables: a dot or a colon is left to iptables, which looks names up
\* itself; anything else is an alias, whose set has to be there.
ShellMatches(x, f, answer) ==
  IF x = AnyHost THEN {AnyMatch}
  ELSE IF x \in Address THEN LiteralMatches({x}, f)
  ELSE IF x \in Dotted THEN LiteralMatches(answer[x], f)
  ELSE SetMatches(ssets, x, f)

Lookups == [Dotted -> UNION {Answers[n] : n \in Dotted}]

\* ipt: each family in turn; one of them has to accept the rule. The rules of a
\* file whose name the scripts do not read join the global chain.
AddRule ==
  /\ spc = "run" /\ line <= Len(config) /\ config[line].kind = "rule"
  /\ \E answer \in {a \in Lookups : \A n \in Dotted : a[n] \in Answers[n]} :
     LET d == config[line]
         chain == ShellChain[d.chain]
         made == Family \X {d.table} \X {chain}
         chains == [w \in DOMAIN schains \cup made |->
                      IF w \in DOMAIN schains THEN schains[w] ELSE <<>>]
         pairs(f) == ShellMatches(d.src, f, answer) \X ShellMatches(d.dst, f, answer)
         ok == {f \in Family :
                  /\ pairs(f) # {}
                  /\ <<f, d.table, d.opts>> \in Accepts
                  /\ d.jump # NoJump => <<f, d.table, d.jump>> \in DOMAIN chains}
     IN  IF chain \in LongChain
         THEN Abort /\ UNCHANGED schains
         ELSE /\ schains' = [w \in DOMAIN chains |->
                   IF w \in ok \X {d.table} \X {chain}
                   THEN Append(chains[w], [opts |-> d.opts, jump |-> d.jump,
                                           matches |-> pairs(w[1])])
                   ELSE chains[w]]
              /\ IF ok = {} THEN Abort ELSE line' = line + 1 /\ UNCHANGED spc
  /\ UNCHANGED <<config, ssets>>

ShellEnds ==
  /\ spc = "run" /\ line > Len(config)
  /\ spc' = "ok"
  /\ UNCHANGED <<config, line, ssets, schains>>

SInit == spc = "run" /\ line = 1 /\ ssets = {} /\ schains = [w \in {} |-> <<>>]

SNext == AddAlias \/ AddRule \/ ShellEnds
=============================================================================
