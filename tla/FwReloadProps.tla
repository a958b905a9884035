---------------------------- MODULE FwReloadProps ----------------------------
(***************************************************************************)
(* What FwReload must guarantee, whichever phase it dies in.                *)
(***************************************************************************)
EXTENDS FwReload

Naming == [Prefix -> [Name -> Gen \cup {0}]]

KernelOK ==
  /\ named \in Naming
  /\ full \subseteq Gen \X Name
  /\ jump \in [Hook -> Seq(Gen)]
  /\ held \subseteq Gen \X Name
  /\ sets \subseteq Nat \X Gen
  /\ heldSets \subseteq Nat

FilesOK ==
  /\ commitFile \in {NoFile, Empty, "rename_chain_real_to_delete",
                     "rename_chain_tmp_to_real", "done"}
  /\ version \in Nat \cup {NoVersion}
  /\ saved \in [SavedFile -> SUBSET Gen]

ProcessOK ==
  /\ pc \in Phase
  /\ todo \subseteq Name
  /\ site \in {"start", "apply"}
  /\ cur \in Nat
  /\ gen \in Gen \cup {0}
  /\ fail \in BOOLEAN

HistoryOK ==
  /\ content \in [Gen -> SUBSET Chain]
  /\ setver \in [Gen -> Nat]
  /\ confirmed \subseteq Gen
  /\ flawed \subseteq Gen

\* Every variable stays in its range.
TypeOK == KernelOK /\ FilesOK /\ ProcessOK /\ HistoryOK

-----------------------------------------------------------------------------
(* The path of a packet.                                                    *)

\* The ruleset last confirmed; builds are numbered in order.
Running == IF confirmed = {} THEN 0
           ELSE CHOOSE g \in confirmed : \A x \in confirmed : x <= g

HooksOf(g) == {HookOf[c] : c \in content[g]} \ {NoHook}

\* The hooks every configuration has rules for.
CoreHook == {h \in Hook : \A c \in Config : \E x \in c : HookOf[x] = h}

\* The ruleset a packet meets first at a built-in chain.
Decides(h) == IF jump[h] = <<>> THEN 0 ELSE Head(jump[h])

\* No rule of the ruleset is missing on the way from the built-in chain.
Intact(g, h) == <<g, h>> \in full /\ {g} \X content[g] \subseteq full

\* Once a ruleset has been confirmed, a whole one, that one or the one being
\* tried, decides at every hook that all configurations cover: fw_apply hooks
\* before it unhooks, rolls back in the same order, and nothing that precedes
\* or follows takes rules out of the path.
NeverUnfiltered ==
  confirmed # {} =>
    \A h \in CoreHook :
      /\ Decides(h) \in {Running, gen} \ {0}
      /\ Intact(Decides(h), h)

\* Outside a reload the path is the confirmed ruleset alone, once at each of
\* its hooks: rollback and commit leave nothing of the other one behind, and no
\* jump is doubled by running them again.
IdlePathIsRunning ==
  pc = "idle" /\ commitFile = NoFile =>
    \A h \in Hook :
      jump[h] = IF confirmed # {} /\ h \in HooksOf(Running) THEN <<Running>> ELSE <<>>

\* Until an interrupted commit is finished the ruleset being committed stays in
\* the path, alone, at each of its hooks: no resumption, no failed step and no
\* file left empty takes a rule of it away or puts the replaced one back.
PathDuringCommit ==
  commitFile # NoFile =>
    \A h \in Hook : jump[h] = IF h \in HooksOf(Running) THEN <<Running>> ELSE <<>>

-----------------------------------------------------------------------------
(* The committed ruleset.                                                   *)

\* What fw_commit renames to CFW_ is a whole ruleset, whatever the number of
\* interruptions and resumptions: without a commit in progress the CFW_ chains
\* are those of one build, all it declared and its delegates, and no other.
CommittedWhole ==
  commitFile = NoFile /\ Names("real") # {} =>
    \E g \in Gen :
      /\ Names("real") = content[g] \cup HooksOf(g)
      /\ \A n \in Names("real") : named["real"][n] = g

\* Only what the operator confirmed is ever committed or being committed, and
\* the files that restore the firewall at boot hold nothing else.
OnlyConfirmedCommitted ==
  /\ \A n \in Names("real") : named["real"][n] \in confirmed
  /\ commitFile # NoFile => confirmed # {} /\ gen = Running

\* fw_commit "commits what is already applied": when it is done, however often
\* it was resumed, the ruleset that was applied is under CFW_, and it alone
\* decides at its hooks.
CommitsWhatIsApplied ==
  pc = "truncate_version" =>
    \A h \in HooksOf(gen) : named["real"][h] = gen /\ jump[h] = <<gen>>

\* The sets a committed ruleset matches on hold what its own build put there:
\* a build never reaches the sets of the ruleset in charge.
LiveSetsPristine ==
  \A n \in Names("real") :
    LET g == named["real"][n]
    IN  content[g] \notin Unaliased => {s \in sets : s[1] = setver[g]} = {<<setver[g], g>>}

\* What a build puts in its sets: nothing, when no alias is declared.
OwnSets(g) == IF content[g] \in Unaliased THEN {} ELSE {<<setver[g], g>>}

\* At the end of a reload that applied a ruleset, only that ruleset is left in
\* the kernel: no CFWTMP_ or CFWDEL_ chain, no set of another generation.
NothingLeftOver ==
  pc = "check_fail" =>
    /\ Names("tmp") = {} /\ Names("del") = {}
    /\ sets = OwnSets(gen)

\* The boot never brings back a ruleset, or the sets of one, that was not
\* confirmed: leftovers of a build given up are gone before the kernel is saved.
BootIsConfirmed == \A f \in SavedFile : saved[f] \subseteq confirmed

\* Nor a ruleset that lacks a rule: a failure anywhere in a build keeps it out of
\* the saved files, confirmed or not, and the saves of later reloads find no chain
\* and no set of it left.
BootIsFlawless == \A f \in SavedFile : saved[f] \cap flawed = {}

-----------------------------------------------------------------------------
(* The reload as a process.                                                 *)

\* fw_reload keeps the promise of CommitConfirm: what decides at a hook, and
\* the ruleset on trial: while fw_apply runs, and before and after it as long as
\* a delegate of an unconfirmed build is there to be hooked.
OnTrial ==
  /\ gen \notin confirmed
  /\ pc \in ApplyPhase \/ \E n \in Delegates("tmp") : named["tmp"][n] = gen

Promise == INSTANCE CommitConfirm WITH
  running <- Running,
  trial <- IF OnTrial THEN gen ELSE 0,
  covers <- [g \in Gen |-> HooksOf(g)],
  decides <- [h \in Hook |-> Decides(h)]
PromiseKept == Promise!CSpec

\* A reload comes to an end, even when nobody answers the prompt.
ReloadEnds == pc # "idle" ~> pc = "idle"

\* An interrupted commit is finished once reloads are run and stop being
\* interrupted.
Persistent == WF_vars(Start) /\ <>[][~Interrupt]_vars
CommitFinalised == Persistent => (commitFile # NoFile ~> commitFile = NoFile)

-----------------------------------------------------------------------------
(* What the documentation and the comments say, and the code does not do.   *)

\* docs/design-rationale.md: the two orders are there so that there is never
\* "a window with neither ruleset in the path", and fw_reload calls interrupting
\* the prompt "a normal way to abandon a reload".
NoWindowWithoutRuleset ==
  confirmed # {} => \A h \in CoreHook : jump[h] # <<>>

\* docs/design-rationale.md: "generate only into CFWTMP_", so that a build is
\* inert: it adds no entry to a set that the live ruleset matches on.
BuildIsInert ==
  [][StartBuild => \A n \in Names("real") : setver[named["real"][n]] # setver'[gen']]_vars

\* fw_commit's usage text: "Can be run multiple time if failure has occured";
\* fw_cleanup keeps a chain something still jumps to, and "the reload must carry
\* on". Running it again finishes the commit.
CommitCanBeRunAgain == CommitFinalised
=============================================================================
