------------------------------ MODULE MCBuild ------------------------------
(* Every configuration of up to three declarations out of a pool that holds *)
(* each shape the code tells apart.                                         *)
EXTENDS BuildPaths

MCAddress == {"a4", "b4", "a6"}
MCFamilyOf == [x \in MCAddress |-> IF x = "a6" THEN "v6" ELSE "v4"]
MCDns == {"ns1", "www.", "gone.", "pool."}
MCDotted == {"www.", "gone.", "pool."}
\* A pool of servers gives another answer each time.
MCAnswers == [n \in MCDns |->
  CASE n = "gone." -> {{}} [] n = "pool." -> {{"a4", "a6"}, {"b4"}} [] OTHER -> {{"a4", "a6"}}]
MCAlias == {"lan", "lan_v6", "ns1", "svc", "long"}
MCV6Name == [a \in MCAlias |->
  CASE a = "lan" -> "lan_v6" [] a = "lan_v6" -> "lan_v6_v6" [] a = "ns1" -> "ns1_v6"
    [] a = "svc" -> "svc_v6" [] OTHER -> "long_v6"]
MCLength == [a \in MCAlias |-> IF a = "long" THEN 22 ELSE IF a = "lan_v6" THEN 6 ELSE 3]
MCTable == {"filter", "nat"}
MCZoneChain == {"zone+input", "longzone+input", "my-zone+log", "zone+log"}
MCLongChain == {"longzone+input"}
MCGlobalChain == {"+log"}
\* Of the files 10_my-zone.sh and zone.sh.
MCHyphened == {"my-zone+log"}
MCMisnamed == {"zone+log"}
MCShellChain == [c \in MCZoneChain \cup MCGlobalChain |->
  IF c \in MCHyphened \cup MCMisnamed THEN "+log" ELSE c]
MCOption == {"tcp", "icmp4", "redirect"}
MCAccepts == {<<f, t, o>> \in Family \X MCTable \X MCOption :
  /\ o = "icmp4" => f = "v4"
  /\ o = "redirect" => t = "nat"}
MCLeftScratch == {{}, {<<"v4", "filter">>}}
MCNoScratch == {{}}

A(name, host, port) == [kind |-> "alias", name |-> name, host |-> host, port |-> port]
R(table, chain, src, dst, opts, jump) ==
  [kind |-> "rule", table |-> table, chain |-> chain, src |-> src, dst |-> dst,
   opts |-> opts, jump |-> jump]

Pool == {
  A("lan", "a4", "none"), A("lan", "a6", "none"), A("lan", "a4", "valid"),
  A("lan_v6", "a4", "none"), A("ns1", "ns1", "valid"), A("svc", "www.", "none"),
  A("svc", AnyHost, "valid"), A("svc", "gone.", "none"), A("long", "a4", "none"),
  A("long", "a6", "valid"),
  A("www.", "a4", "none"), A("svc", "a4", "outside"),
  R("filter", "zone+input", "lan", AnyHost, "tcp", NoJump),
  R("filter", "zone+input", "www.", "svc", "tcp", "+log"),
  R("filter", "zone+input", "ns1", AnyHost, "tcp", NoJump),
  R("filter", "zone+input", AnyHost, AnyHost, "tcp", "+log"),
  R("filter", "+log", AnyHost, AnyHost, "icmp4", NoJump),
  R("filter", "+log", "a6", AnyHost, "tcp", NoJump),
  R("filter", "+log", "a4", AnyHost, "tcp", NoJump),
  R("filter", "zone+input", AnyHost, AnyHost, "redirect", NoJump),
  R("nat", "zone+input", AnyHost, AnyHost, "redirect", NoJump),
  R("filter", "my-zone+log", AnyHost, AnyHost, "tcp", NoJump),
  R("filter", "zone+log", AnyHost, AnyHost, "tcp", NoJump),
  R("nat", "longzone+input", AnyHost, AnyHost, "tcp", NoJump)}

UpTo(n, decls) == UNION {[1..k -> decls] : k \in 1..n}

\* Aliases of one rotating name, and a rule that names it.
RotatingPool == {
  A("lan", "pool.", "none"), A("svc", "pool.", "none"), A("ns1", "pool.", "valid"),
  A("svc", "a4", "none"), R("filter", "zone+input", "pool.", "svc", "tcp", NoJump)}

\* An alias of both families, and a global chain fed and jumped to from both.
FourPool == {
  A("lan", "a4", "none"), A("lan", "a6", "none"), A("svc", "a4", "outside"),
  R("filter", "zone+input", "lan", "www.", "tcp", "+log"),
  R("filter", "zone+input", AnyHost, "lan", "tcp", NoJump),
  R("filter", "+log", AnyHost, AnyHost, "icmp4", NoJump),
  R("filter", "+log", "a6", AnyHost, "tcp", NoJump),
  R("filter", "+log", AnyHost, "lan", "tcp", NoJump),
  R("nat", "zone+input", AnyHost, "www.", "redirect", NoJump)}

MCConfig == UpTo(3, Pool) \cup UpTo(3, RotatingPool) \cup [1..4 -> FourPool]
MCSmallConfig == UpTo(2, Pool)
=============================================================================
