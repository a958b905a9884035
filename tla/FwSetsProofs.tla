---------------------------- MODULE FwSetsProofs ----------------------------
(***************************************************************************)
(* A build never reaches the sets of the ruleset in charge, the boot never  *)
(* restores those of a build given up, and a reload that applied a ruleset  *)
(* leaves nothing of another: the inductive invariants behind it, and the   *)
(* theorems.                                                                *)
(*                                                                          *)
(* The argument goes by version.  The live ruleset has the sets of Ver, the *)
(* one being built, applied or committed those of Ver + 1 (LiveSets,        *)
(* GenSets), which the cleanup has destroyed before a build fills them      *)
(* (NextGone).  `ipset destroy` is refused for a set a rule matches on, so  *)
(* that the argument has to say whose rules there are: those of a chain     *)
(* that CFW_ or CFWTMP_ names, or of a version long past (FullNumber,       *)
(* HeldNumber).                                                             *)
(*                                                                          *)
(* All of it holds for a reload that is not interrupted between the last    *)
(* rename and the moment the version file says that the ruleset has moved   *)
(* on.  Interrupted there, the next build takes the version of the live     *)
(* sets: the run `version` has the counterexample.                          *)
(***************************************************************************)
EXTENDS FwLiveProofs

NumberPhase == {"write_done", "truncate_version", "write_version"}
KillOutsideNumber == KillAt \cap NumberPhase = {}

\* The version in force: the file's, or what is about to be written plus one.
Numbered == version = NoVersion => pc = "idle" /\ gen = 0 /\ sets = {}
Cur == pc \notin {"idle", "write_version"} => cur = version
Ver == IF pc = "write_version" THEN cur ELSE version

\* What is confirmed is under CFW_ while the version is still that of the last one.
Pending == commitFile \in {"rename_chain_tmp_to_real", "done"} \/ pc \in NumberPhase

\* The last build is not given up.
InHand == pc \in {"build_chains", "prepare"} \cup ApplyPhase \cup CommitPhase \/ commitFile # NoFile

\* The sets of a version, and those of a ruleset that are just what it put there.
At(v) == {s \in sets : s[1] = v}
Pristine(g) == At(setver[g]) = OwnSets(g)

GenSets == InHand => setver[gen] = Ver + 1 /\ Pristine(gen)
LiveSets ==
  ~Pending =>
    \A n \in Names("real") : setver[named["real"][n]] = Ver /\ Pristine(named["real"][n])

\* Whose rules match on sets that the cleanup may want to destroy.
FullNumber ==
  \A o \in full :
    /\ o[1] <= gen
    /\ setver[o[1]] <= Ver \/ o[1] \in {named["tmp"][o[2]], named["real"][o[2]]}
HeldNumber == \A v \in heldSets : v <= IF Pending THEN Ver + 1 ELSE Ver

\* Entries of a build that was not confirmed are in the next version's sets.
SetsConfirmed == \A s \in sets : s[2] \in confirmed \/ s[1] = Ver + 1

VersionPart == Numbered /\ Cur
SetsPart == GenSets /\ LiveSets /\ FullNumber /\ HeldNumber /\ SetsConfirmed

\* What the loops of the cleanup achieve.
TmpFlushed ==
  /\ pc = "flush_tmp" => \A n \in Names("tmp") \ todo : <<gen, n>> \notin full
  /\ pc = "remove_tmp" => \A n \in Names("tmp") : <<gen, n>> \notin full
NextGone == pc = "build" \/ pc \in SavePhase => At(Ver + 1) = {}
NoTmpToSave == pc \in SavePhase => Names("tmp") = {}
CleanPart == TmpFlushed /\ NextGone /\ NoTmpToSave

SetsInv == PathInv /\ DelApart /\ VersionPart /\ SetsPart /\ CleanPart

-----------------------------------------------------------------------------
(* The version.                                                             *)

LEMMA VersionInt ==
  ASSUME TypeInv
  PROVE  Ver \in Int /\ (version # NoVersion => CurrentVersion = version)
BY DEF TypeInv, TypeOK, FilesOK, ProcessOK, Ver, NoVersion, CurrentVersion

LEMMA VersionNext == TypeInv /\ VersionPart /\ [Next]_vars => VersionPart'
<1> SUFFICES ASSUME TypeInv, Numbered, Cur, [Next]_vars
             PROVE  Numbered' /\ Cur'
  BY DEF VersionPart
<1>v. CurrentVersion \in Nat /\ version \in Nat \cup {NoVersion} /\ cur \in Nat
  BY VersionType DEF TypeInv, TypeOK, FilesOK, ProcessOK
<1> USE DEF Numbered, Cur, Enter, Exit, kernel, files, process, history, NoVersion
<1>1. CASE Start
  BY <1>1, <1>v DEF Start, StartCommit, StartCleanup, SourceCommon
<1>2. CASE Cleanup
  BY <1>2, <1>v
  DEF Cleanup, FlushChain, RemoveChain, CleanupLoopEnds, LoopDone, DestroySets, AfterCleanup
<1>3. CASE Build
  <2>1. CASE StartBuild
    BY <2>1, <1>v DEF StartBuild, SourceCommon
  <2> QED
    BY <1>3, <2>1
    DEF Build, RestoreTable, NewChain, FillChain, StartPrepare, LoopDone, PrepareDelegate,
        BuildFails, BuildPhase
<1>4. CASE Apply \/ AnswerYes \/ AnswerNo
  BY <1>4, <1>v
  DEF Apply, StartApply, ModifyBuiltin, StartUnhook, StartAsking, PromptTimesOut, AnswerYes,
      AnswerNo, Rollback, StartRollbackUnhook, RollbackAborts, LoopDone, StartCommit, SourceCommon
<1>5. CASE Commit
  <2>1. CASE RenameChain("real_to_delete", "real", "del") \/ RenameChain("tmp_to_real", "tmp", "real")
    BY <2>1 DEF RenameChain
  <2>2. CASE TruncateVersion \/ WriteVersion
    BY <2>2, <1>v DEF TruncateVersion, WriteVersion, EmptyVersion
  <2> QED
    BY <1>5, <2>1, <2>2
    DEF Commit, DispatchStep, InvalidStep, WriteStep, RenameEnds, RemoveCommitFile
<1>6. CASE Finish \/ Interrupt \/ ForceDeleteCommitFile \/ ForeignRule \/ UNCHANGED vars
  <2>1. pc = "idle" => pc \notin KillAt
    BY ConstantsAssumption
  <2> QED
    BY <1>6, <1>v, <2>1
    DEF Finish, FailFileStops, Redirect, RunPostScripts, Interrupt, ForceDeleteCommitFile,
        ForeignRule, vars
<1> QED
  BY <1>1, <1>2, <1>3, <1>4, <1>5, <1>6 DEF Next, Progress

\* It changes with the end of a commit, and is found out before the first build.
LEMMA VersionKept ==
  ASSUME KillOutsideNumber, TypeInv, VersionPart, [Next]_vars, version # NoVersion, ~WriteVersion
  PROVE  Ver' = Ver
<1>v. CurrentVersion = version
  BY DEF CurrentVersion
<1> USE DEF VersionPart, Numbered, Cur, Ver, Enter, Exit, kernel, files, process, history
<1>1. CASE Start
  BY <1>1, <1>v DEF Start, StartCommit, StartCleanup, SourceCommon
<1>2. CASE Cleanup
  BY <1>2, <1>v
  DEF Cleanup, FlushChain, RemoveChain, CleanupLoopEnds, LoopDone, DestroySets, AfterCleanup
<1>3. CASE Build
  BY <1>3, <1>v
  DEF Build, StartBuild, RestoreTable, NewChain, FillChain, StartPrepare, LoopDone,
      PrepareDelegate, BuildFails, BuildPhase, SourceCommon
<1>4. CASE Apply \/ AnswerYes \/ AnswerNo
  BY <1>4, <1>v
  DEF Apply, StartApply, ModifyBuiltin, StartUnhook, StartAsking, PromptTimesOut, AnswerYes,
      AnswerNo, Rollback, StartRollbackUnhook, RollbackAborts, LoopDone, StartCommit, SourceCommon
<1>5. CASE Commit
  BY <1>5, <1>v
  DEF Commit, DispatchStep, InvalidStep, WriteStep, RenameChain, RenameEnds, RemoveCommitFile,
      TruncateVersion
<1>6. CASE Finish \/ Interrupt \/ ForceDeleteCommitFile \/ ForeignRule \/ UNCHANGED vars
  <2>1. Interrupt => pc # "write_version"
    BY DEF Interrupt, KillOutsideNumber, NumberPhase
  <2> QED
    BY <1>6, <1>v, <2>1
    DEF Finish, FailFileStops, Redirect, RunPostScripts, Interrupt, ForceDeleteCommitFile,
        ForeignRule, vars
<1> QED
  BY <1>1, <1>2, <1>3, <1>4, <1>5, <1>6 DEF Next, Progress

\* Before that there is nothing that has a version.
LEMMA Blank ==
  ASSUME ConfirmInv, Numbered, version = NoVersion
  PROVE  /\ pc = "idle" /\ gen = 0 /\ confirmed = {} /\ commitFile = NoFile
         /\ sets = {} /\ Names("tmp") = {} /\ Names("real") = {}
<1>1. /\ pc = "idle" /\ gen = 0 /\ sets = {}
  BY DEF Numbered
<1>2. confirmed = {}
  BY <1>1 DEF ConfirmInv, NamesInv, ConfirmedBefore, TypeInv, TypeOK, HistoryOK, Gen
<1> QED
  BY <1>1, <1>2
  DEF ConfirmInv, NamesInv, TmpIsCurrent, RealConfirmed, PhaseInv, CommitOfConfirmed, Names
-----------------------------------------------------------------------------
(* The sets.                                                                *)

\* Steps that touch no set and name no chain.
LEMMA SetsStill ==
  ASSUME KernelOK, SetsPart, UNCHANGED <<named, sets, content, setver, gen>>,
         full' \subseteq full, heldSets' \subseteq heldSets, confirmed \subseteq confirmed',
         Ver' = Ver, Ver \in Int, Pending => Pending', InHand' => InHand
  PROVE  SetsPart'
<1>1. \A g : Pristine(g)' <=> Pristine(g)
  BY DEF Pristine, At, OwnSets
<1>2. GenSets' /\ LiveSets'
  BY <1>1 DEF SetsPart, GenSets, LiveSets, Names
<1>3. FullNumber' /\ SetsConfirmed'
  BY DEF SetsPart, FullNumber, SetsConfirmed
<1>4. HeldNumber'
  BY DEF SetsPart, HeldNumber, KernelOK
<1> QED
  BY <1>2, <1>3, <1>4 DEF SetsPart

\* ipset_prefix is created before there is anything to number.
LEMMA SetsFirst ==
  ASSUME ConfirmInv, Numbered, SetsPart, version = NoVersion, Start
  PROVE  SetsPart'
<1>t. KernelOK
  BY DEF ConfirmInv, TypeInv, TypeOK
<1>1. /\ pc = "idle" /\ gen = 0 /\ confirmed = {} /\ commitFile = NoFile
      /\ sets = {} /\ Names("tmp") = {} /\ Names("real") = {}
  BY Blank
<1>2. /\ UNCHANGED <<kernel, gen, history, commitFile>> /\ pc' = "flush_tmp"
  BY <1>1 DEF Start, StartCleanup, Enter
<1>3. full = {} /\ heldSets = {}
  <2>1. \A o \in full : o[1] <= 0 /\ o[1] \in 1..MaxGen
    BY <1>1, <1>t DEF SetsPart, FullNumber, KernelOK, Gen
  <2>2. ~Pending /\ Ver = -1
    BY <1>1 DEF Pending, NumberPhase, Ver, NoFile, NoVersion
  <2>3. \A v \in heldSets : v \in Nat /\ v <= -1
    BY <1>t, <2>2 DEF SetsPart, HeldNumber, KernelOK
  <2> QED
    BY <2>1, <2>3, ConstantsAssumption
<1>4. GenSets' /\ LiveSets'
  BY <1>1, <1>2
  DEF GenSets, LiveSets, InHand, ApplyPhase, CommitPhase, NoFile, Names, kernel
<1> QED
  BY <1>1, <1>2, <1>3, <1>4
  DEF SetsPart, FullNumber, HeldNumber, SetsConfirmed, kernel

LEMMA SetsRemove ==
  ASSUME ConfirmInv, TmpFlushed, SetsPart, NEW phase, NEW p,
         <<phase, p>> \in {<<"remove_tmp", "tmp">>, <<"remove_del", "del">>},
         RemoveChain(phase, p), Ver' = Ver
  PROVE  SetsPart'
<1>t. KernelOK
  BY DEF ConfirmInv, TypeInv, TypeOK
<1>1. /\ UNCHANGED <<full, sets, heldSets, commitFile, content, setver, confirmed, pc, gen>>
      /\ \E n \in todo : named' = named \/ named' = [named EXCEPT ![p][n] = 0]
  BY DEF RemoveChain, files, history
<1>2. PICK m \in todo : named' = named \/ named' = [named EXCEPT ![p][m] = 0]
  BY <1>1
<1>3. /\ named'["real"] = named["real"]
      /\ \A n \in Name : named'["tmp"][n] \in {0, named["tmp"][n]}
      /\ p = "del" => named'["tmp"] = named["tmp"]
  <2>1. CASE p = "tmp"
    BY <1>t, <1>2, <2>1 DEF KernelOK, Naming, Prefix
  <2>2. CASE p = "del"
    BY <1>t, <1>2, <2>2 DEF KernelOK, Naming, Prefix
  <2> QED
    BY <2>1, <2>2
<1>4. \A g : Pristine(g)' <=> Pristine(g)
  BY <1>1 DEF Pristine, At, OwnSets
<1>5. GenSets' /\ LiveSets' /\ HeldNumber' /\ SetsConfirmed'
  BY <1>1, <1>3, <1>4
  DEF SetsPart, GenSets, LiveSets, HeldNumber, SetsConfirmed, Names, InHand, Pending
<1>6. FullNumber'
  <2> SUFFICES ASSUME NEW o \in full
               PROVE  /\ o[1] <= gen
                      /\ setver[o[1]] <= Ver \/ o[1] \in {named'["tmp"][o[2]], named'["real"][o[2]]}
    BY <1>1 DEF FullNumber
  <2>1. /\ o[1] <= gen
        /\ setver[o[1]] <= Ver \/ o[1] \in {named["tmp"][o[2]], named["real"][o[2]]}
    BY DEF SetsPart, FullNumber
  <2>2. CASE o[1] = named["tmp"][o[2]] /\ p = "tmp"
    <3>1. o[2] \in Name /\ o[1] \in Gen /\ o = <<o[1], o[2]>>
      BY <1>t DEF KernelOK
    <3>2. o[1] # 0 /\ named["tmp"][o[2]] # 0
      BY <2>2, <3>1 DEF Gen
    <3>3. o[1] = gen /\ o[2] \in Names("tmp")
      BY <2>2, <3>1, <3>2 DEF ConfirmInv, NamesInv, TmpIsCurrent, Names
    <3>4. phase = "remove_tmp" /\ pc = phase
      BY <2>2 DEF RemoveChain
    <3>5. <<gen, o[2]>> \notin full
      BY <3>3, <3>4 DEF TmpFlushed
    <3> QED
      BY <3>1, <3>3, <3>5
  <2> QED
    BY <1>3, <2>1, <2>2
<1> QED
  BY <1>5, <1>6 DEF SetsPart

\* The cleanup destroys sets of no ruleset that counts.
LEMMA SetsDestroy ==
  ASSUME ConfirmInv, VersionPart, SetsPart, NEW phase, NEW v, NEW next,
         <<phase, v>> \in {<<"destroy_last", cur - 1>>, <<"destroy_next", cur + 1>>},
         next \in {"destroy_next", "build", "check_fail"},
         DestroySets(phase, v, next), Ver' = Ver
  PROVE  SetsPart'
<1>t. KernelOK /\ CommitFileOwner
  BY DEF ConfirmInv, TypeInv, TypeOK, PhaseInv
<1>1. /\ UNCHANGED <<named, full, heldSets, commitFile, content, setver, confirmed, gen>>
      /\ sets' \in {sets, {s \in sets : s[1] # v}}
      /\ pc \in {"destroy_last", "destroy_next"} /\ pc' = next
  BY DEF DestroySets, files, history, Enter
<1>2. commitFile = NoFile /\ cur = Ver
  BY <1>1, <1>t DEF CommitFileOwner, CommitPhase, VersionPart, Cur, Ver
<1>3. v # Ver /\ Ver \in Int
  BY <1>2 DEF ConfirmInv, TypeInv, TypeOK, ProcessOK
<1>4. ~InHand' /\ ~Pending /\ ~Pending'
  BY <1>1, <1>2 DEF InHand, Pending, NumberPhase, ApplyPhase, CommitPhase, NoFile
<1>5. At(Ver)' = At(Ver)
  BY <1>1, <1>3 DEF At
<1>6. LiveSets'
  <2> SUFFICES ASSUME NEW n \in Names("real")
               PROVE  setver[named["real"][n]] = Ver /\ Pristine(named["real"][n])'
    BY <1>1 DEF LiveSets, Names
  <2>1. setver[named["real"][n]] = Ver /\ Pristine(named["real"][n])
    BY <1>4 DEF SetsPart, LiveSets
  <2>2. OwnSets(named["real"][n])' = OwnSets(named["real"][n])
    BY <1>1 DEF OwnSets
  <2> QED
    BY <1>1, <1>5, <2>1, <2>2 DEF Pristine, At
<1>7. GenSets' /\ FullNumber' /\ HeldNumber' /\ SetsConfirmed'
  BY <1>1, <1>4 DEF SetsPart, GenSets, FullNumber, HeldNumber, SetsConfirmed
<1> QED
  BY <1>6, <1>7 DEF SetsPart
\* A build fills the sets of the next version, which the cleanup has emptied.
LEMMA SetsStartBuild ==
  ASSUME ConfirmInv, VersionPart, SetsPart, NextGone, StartBuild, Ver' = Ver
  PROVE  SetsPart'
<1>t. KernelOK /\ ProcessOK /\ HistoryOK /\ CommitFileOwner /\ NamesInv
  BY DEF ConfirmInv, TypeInv, TypeOK, PhaseInv
<1> DEFINE g == gen + 1
<1>1. PICK c \in Config :
        /\ content' = [content EXCEPT ![g] = c]
        /\ sets' = IF c \in Unaliased THEN sets ELSE sets \cup {<<CurrentVersion + 1, g>>}
  BY DEF StartBuild
<1>2. /\ pc = "build" /\ pc' = "build_chains" /\ gen' = g /\ g \in Gen /\ gen \in Nat
      /\ commitFile = NoFile /\ commitFile' = NoFile
      /\ UNCHANGED <<named, full, heldSets, confirmed>>
  BY <1>t, ConstantsAssumption
  DEF StartBuild, Enter, ProcessOK, Gen, CommitFileOwner, CommitPhase
<1>3. CurrentVersion = Ver /\ Ver \in Nat
  BY <1>2, VersionType
  DEF VersionPart, Numbered, CurrentVersion, Ver, ConfirmInv, NoVersion
<1>4. /\ setver' = [setver EXCEPT ![g] = Ver + 1]
      /\ sets' = IF c \in Unaliased THEN sets ELSE sets \cup {<<Ver + 1, g>>}
  BY <1>1, <1>3 DEF StartBuild
<1> HIDE DEF g
<1>5. /\ content'[g] = c /\ setver'[g] = Ver + 1
      /\ \A x \in Gen : x # g => content'[x] = content[x] /\ setver'[x] = setver[x]
  BY <1>t, <1>1, <1>2, <1>4 DEF HistoryOK
<1>6. ~Pending /\ ~Pending'
  BY <1>2 DEF Pending, NumberPhase, NoFile
<1>7. GenSets'
  <2>1. At(Ver + 1)' = IF c \in Unaliased THEN {} ELSE {<<Ver + 1, g>>}
    BY <1>2, <1>4 DEF NextGone, At
  <2> QED
    BY <1>2, <1>5, <2>1 DEF GenSets, Pristine, OwnSets, At
<1>8. LiveSets'
  <2> SUFFICES ASSUME NEW n \in Names("real"), NEW x, x = named["real"][n]
               PROVE  setver'[x] = Ver /\ Pristine(x)'
    BY <1>2 DEF LiveSets, Names
  <2>1. setver[x] = Ver /\ Pristine(x)
    BY <1>6 DEF SetsPart, LiveSets
  <2>2. x \in Gen /\ x <= gen
    BY <1>t DEF NamesInv, RealConfirmed, ConfirmedBefore, HistoryOK
  <2>3. x # g
    BY <1>2, <2>2 DEF g, Gen
  <2>4. At(Ver)' = At(Ver)
    BY <1>3, <1>4 DEF At
  <2> QED
    BY <1>5, <2>1, <2>2, <2>3, <2>4 DEF Pristine, OwnSets, At
<1>9. FullNumber'
  <2> SUFFICES ASSUME NEW o \in full
               PROVE  /\ o[1] <= g
                      /\ setver'[o[1]] <= Ver \/ o[1] \in {named["tmp"][o[2]], named["real"][o[2]]}
    BY <1>2 DEF FullNumber
  <2>1. o[1] <= gen /\ o[1] \in Gen
    BY <1>t DEF SetsPart, FullNumber, KernelOK
  <2>2. o[1] <= g /\ o[1] # g
    BY <1>2, <2>1 DEF g, Gen
  <2> QED
    BY <1>5, <2>1, <2>2 DEF SetsPart, FullNumber
<1>10. HeldNumber' /\ SetsConfirmed'
  BY <1>2, <1>4, <1>6 DEF SetsPart, HeldNumber, SetsConfirmed
<1> QED
  BY <1>7, <1>8, <1>9, <1>10 DEF SetsPart

\* Rules are added to chains that CFWTMP_ names.
LEMMA SetsBuilding ==
  ASSUME ConfirmInv, SetsPart,
         pc \in {"build_chains", "prepare"},
         UNCHANGED <<pc, commitFile, gen, content, setver, sets, heldSets, confirmed>>,
         Ver' = Ver, NEW cs, NameTmp(cs) \/ named' = named,
         \A o \in full' \ full : o[1] = gen /\ named'["tmp"][o[2]] = gen
  PROVE  SetsPart'
<1>t. KernelOK /\ TmpIsCurrent /\ gen \in Nat
  BY DEF ConfirmInv, TypeInv, TypeOK, NamesInv, ProcessOK, Gen
<1>1. /\ named'["real"] = named["real"]
      /\ \A n \in Name : named'["tmp"][n] \in {named["tmp"][n], gen}
  BY <1>t DEF NameTmp, KernelOK, Naming, Prefix
<1>2. \A g : Pristine(g)' <=> Pristine(g)
  BY DEF Pristine, At, OwnSets
<1>3. GenSets' /\ LiveSets' /\ HeldNumber' /\ SetsConfirmed'
  BY <1>1, <1>2
  DEF SetsPart, GenSets, LiveSets, HeldNumber, SetsConfirmed, Names, InHand, Pending
<1>4. FullNumber'
  <2> SUFFICES ASSUME NEW o \in full'
               PROVE  /\ o[1] <= gen
                      /\ setver[o[1]] <= Ver \/ o[1] \in {named'["tmp"][o[2]], named'["real"][o[2]]}
    BY DEF FullNumber
  <2>1. CASE o \notin full
    BY <1>t, <2>1
  <2>2. CASE o \in full
    <3>1. /\ o[1] <= gen /\ o[1] \in Gen /\ o[2] \in Name
          /\ setver[o[1]] <= Ver \/ o[1] \in {named["tmp"][o[2]], named["real"][o[2]]}
      BY <1>t, <2>2 DEF SetsPart, FullNumber, KernelOK
    <3>2. o[1] = named["tmp"][o[2]] => o[1] = gen
      BY <1>t, <3>1 DEF TmpIsCurrent, Gen
    <3> QED
      BY <1>1, <3>1, <3>2
  <2> QED
    BY <2>1, <2>2
<1> QED
  BY <1>3, <1>4 DEF SetsPart

LEMMA SetsRename ==
  ASSUME ConfirmInv, StepOfPhase, SetsPart, Ver \in Int, NEW phase, NEW from, NEW to,
         <<phase, from, to>> \in {<<"real_to_delete", "real", "del">>,
                                  <<"tmp_to_real", "tmp", "real">>},
         RenameChain(phase, from, to), Ver' = Ver
  PROVE  SetsPart'
<1>t. KernelOK
  BY DEF ConfirmInv, TypeInv, TypeOK
<1>1. /\ UNCHANGED <<full, sets, heldSets, commitFile, content, setver, confirmed, gen>>
      /\ pc = phase /\ pc' \in {pc, "idle"}
      /\ commitFile = IF from = "real" THEN "rename_chain_real_to_delete"
                      ELSE "rename_chain_tmp_to_real"
  BY DEF RenameChain, files, history, process, Exit, Enter, StepOfPhase
<1>2. /\ Pending <=> from = "tmp"
      /\ Pending' <=> Pending
      /\ InHand
  BY <1>1 DEF Pending, InHand, NumberPhase, NoFile
<1>3. CASE named' = named
  BY <1>t, <1>1, <1>2, <1>3, SetsStill
<1>4. CASE named' # named
  <2>1. PICK n \in Names(from) :
          named' = [named EXCEPT ![to][n] = named[from][n], ![from][n] = 0]
    BY <1>4 DEF RenameChain
  <2>2. \A g : Pristine(g)' <=> Pristine(g)
    BY <1>1 DEF Pristine, At, OwnSets
  <2>3. GenSets' /\ HeldNumber' /\ SetsConfirmed'
    BY <1>1, <1>2, <2>2 DEF SetsPart, GenSets, HeldNumber, SetsConfirmed
  <2>4. CASE from = "real"
    <3>1. /\ named'["tmp"] = named["tmp"] /\ n \in Names("real")
          /\ \A x \in Name : named'["real"][x] = IF x = n THEN 0 ELSE named["real"][x]
      BY <1>t, <2>1, <2>4 DEF KernelOK, Naming, Prefix, Names
    <3>2. LiveSets'
      BY <1>1, <1>2, <2>2, <3>1 DEF SetsPart, LiveSets, Names
    <3>3. setver[named["real"][n]] <= Ver
      BY <1>2, <2>4, <3>1 DEF SetsPart, LiveSets
    <3>4. FullNumber'
      BY <1>t, <1>1, <3>1, <3>3 DEF SetsPart, FullNumber, KernelOK
    <3> QED
      BY <2>3, <3>2, <3>4 DEF SetsPart
  <2>5. CASE from = "tmp"
    <3>1. /\ \A x \in Name : named'["tmp"][x] = IF x = n THEN 0 ELSE named["tmp"][x]
          /\ \A x \in Name : named'["real"][x] = IF x = n THEN named["tmp"][n] ELSE named["real"][x]
          /\ named["real"][n] = 0 /\ n \in Name
      BY <1>t, <1>4, <2>1, <2>5 DEF KernelOK, Naming, Prefix, Names, RenameChain
    <3>2. LiveSets'
      BY <1>2, <2>5 DEF LiveSets
    <3>3. FullNumber'
      <4> SUFFICES ASSUME NEW o \in full
                   PROVE  /\ o[1] <= gen
                          /\ setver[o[1]] <= Ver \/ o[1] \in {named'["tmp"][o[2]], named'["real"][o[2]]}
        BY <1>1 DEF FullNumber
      <4>1. o[1] # 0 /\ o[2] \in Name
        BY <1>t DEF KernelOK, Gen
      <4> QED
        BY <3>1, <4>1 DEF SetsPart, FullNumber
    <3> QED
      BY <2>3, <3>2, <3>3 DEF SetsPart
  <2> QED
    BY <1>1, <2>4, <2>5
<1> QED
  BY <1>3, <1>4

\* The version moves on, and the sets of the committed ruleset are those in force.
LEMMA SetsWritten ==
  ASSUME CommitInv, VersionPart, SetsPart, WriteVersion
  PROVE  SetsPart'
<1>t. KernelOK /\ ProcessOK /\ StepOfPhase /\ Shared /\ NamesInv /\ CommitOfConfirmed
  BY DEF CommitInv, ConfirmInv, TypeInv, TypeOK, WholeInv, PhaseInv
<1>1. /\ pc = "write_version" /\ pc' = "flush_tmp" /\ commitFile = NoFile /\ commitFile' = NoFile
      /\ UNCHANGED <<named, full, sets, heldSets, content, setver, confirmed, gen>>
  BY <1>t DEF WriteVersion, Enter, kernel, history, StepOfPhase
<1>2. Ver' = Ver + 1 /\ Ver \in Int
  BY <1>1, <1>t DEF WriteVersion, Ver, ProcessOK
<1>3. InHand /\ Pending /\ ~InHand' /\ ~Pending' /\ gen \in confirmed
  BY <1>1, <1>t
  DEF InHand, Pending, NumberPhase, ApplyPhase, CommitPhase, NoFile, CommitOfConfirmed
<1>4. \A g : Pristine(g)' <=> Pristine(g)
  BY <1>1 DEF Pristine, At, OwnSets
<1>5. setver[gen] = Ver + 1 /\ Pristine(gen)
  BY <1>3 DEF SetsPart, GenSets
<1>6. LiveSets'
  BY <1>1, <1>2, <1>4, <1>5, <1>t DEF LiveSets, Names, Shared, RealOf
<1>7. GenSets' /\ HeldNumber'
  BY <1>1, <1>2, <1>3 DEF SetsPart, GenSets, HeldNumber
<1>8. FullNumber'
  <2>1. \A o \in full : setver[o[1]] \in Nat
    BY <1>t DEF KernelOK, CommitInv, ConfirmInv, TypeInv, TypeOK, HistoryOK
  <2> QED
    BY <1>1, <1>2, <2>1 DEF SetsPart, FullNumber
<1>9. SetsConfirmed'
  <2>1. \A s \in sets : s[1] = Ver + 1 => s[2] = gen
    BY <1>5 DEF Pristine, At, OwnSets
  <2> QED
    BY <1>1, <1>3, <2>1 DEF SetsPart, SetsConfirmed
<1> QED
  BY <1>6, <1>7, <1>8, <1>9 DEF SetsPart

\* A foreign rule matches on the sets of the ruleset under CFW_.
LEMMA SetsForeign ==
  ASSUME CommitInv, VersionPart, SetsPart, ForeignRule, Ver' = Ver, Ver \in Int
  PROVE  SetsPart'
<1>t. KernelOK /\ StepOfPhase /\ Shared
  BY DEF CommitInv, ConfirmInv, TypeInv, TypeOK, WholeInv
<1>1. UNCHANGED <<named, full, sets, content, setver, confirmed, gen, commitFile, pc>>
  BY DEF ForeignRule, files, process, history
<1>2. (Pending' <=> Pending) /\ (InHand' <=> InHand)
  BY <1>1 DEF Pending, InHand
<1>3. CASE heldSets' \subseteq heldSets
  BY <1>t, <1>1, <1>2, <1>3, SetsStill
<1>4. ASSUME NEW n \in Names("real"), heldSets' = heldSets \cup {setver[named["real"][n]]}
      PROVE  SetsPart'
  <2>1. \A g : Pristine(g)' <=> Pristine(g)
    BY <1>1 DEF Pristine, At, OwnSets
  <2>2. GenSets' /\ LiveSets' /\ FullNumber' /\ SetsConfirmed'
    BY <1>1, <1>2, <2>1
    DEF SetsPart, GenSets, LiveSets, FullNumber, SetsConfirmed, Names
  <2>3. setver[named["real"][n]] <= IF Pending THEN Ver + 1 ELSE Ver
    <3>1. CASE Pending
      <4>1. named["real"][n] = gen
        BY <1>t, <3>1 DEF Shared, RealOf, Pending, NumberPhase
      <4>2. InHand
        BY <3>1 DEF Pending, InHand, NumberPhase, CommitPhase, NoFile
      <4> QED
        BY <3>1, <4>1, <4>2 DEF SetsPart, GenSets
    <3>2. CASE ~Pending
      BY <3>2 DEF SetsPart, LiveSets
    <3> QED
      BY <3>1, <3>2
  <2>4. HeldNumber'
    BY <1>2, <1>4, <2>3 DEF SetsPart, HeldNumber
  <2> QED
    BY <2>2, <2>4 DEF SetsPart
<1> QED
  BY <1>3, <1>4 DEF ForeignRule
LEMMA SetsNext ==
  ASSUME KillOutsideNumber, CommitInv, VersionPart, SetsPart, CleanPart, [Next]_vars
  PROVE  SetsPart'
<1>t. /\ ConfirmInv /\ TypeInv /\ KernelOK /\ ProcessOK /\ StepOfPhase /\ CommitFileOwner
      /\ Numbered /\ TmpFlushed /\ NextGone /\ Ver \in Int
  BY VersionInt
  DEF CommitInv, ConfirmInv, WholeInv, TypeInv, TypeOK, PhaseInv, VersionPart, CleanPart
<1>v. version # NoVersion /\ ~WriteVersion => Ver' = Ver
  BY <1>t, VersionKept
<1>i. version = NoVersion => pc = "idle"
  BY <1>t DEF Numbered
<1> USE DEF Enter, Exit, files, process, history
<1>1. CASE Start
  <2>1. CASE version = NoVersion
    BY <1>1, <1>t, <2>1, SetsFirst
  <2>2. CASE version # NoVersion
    <3>1. Ver' = Ver
      BY <1>1, <1>v, <2>2 DEF Start, WriteVersion
    <3> QED
      BY <1>1, <1>t, <3>1, SetsStill
      DEF Start, StartCommit, StartCleanup, Pending, InHand, NumberPhase, ApplyPhase,
          CommitPhase, kernel
  <2> QED
    BY <2>1, <2>2
<1>2. CASE FlushChain("flush_tmp", "tmp") \/ FlushChain("flush_del", "del") \/ CleanupLoopEnds
  <2>1. Ver' = Ver
    BY <1>2, <1>i, <1>v DEF FlushChain, CleanupLoopEnds, LoopDone, WriteVersion
  <2> QED
    BY <1>2, <1>t, <2>1, SetsStill
    DEF FlushChain, CleanupLoopEnds, LoopDone, Pending, InHand, NumberPhase, ApplyPhase,
        CommitPhase, kernel
<1>3. CASE RemoveChain("remove_tmp", "tmp") \/ RemoveChain("remove_del", "del")
  <2>1. Ver' = Ver
    BY <1>3, <1>i, <1>v DEF RemoveChain, WriteVersion
  <2> QED
    BY <1>3, <1>t, <2>1, SetsRemove
<1>4. CASE DestroySets("destroy_last", cur - 1, "destroy_next")
           \/ DestroySets("destroy_next", cur + 1, AfterCleanup)
  <2>1. Ver' = Ver
    BY <1>4, <1>i, <1>v DEF DestroySets, WriteVersion
  <2> QED
    BY <1>4, <1>t, <2>1, SetsDestroy DEF AfterCleanup
<1>5. CASE StartBuild
  <2>1. Ver' = Ver
    BY <1>5, <1>i, <1>v DEF StartBuild, WriteVersion
  <2> QED
    BY <1>5, <1>t, <2>1, SetsStartBuild
<1>6. ASSUME RestoreTable \/ NewChain \/ FillChain \/ PrepareDelegate
      PROVE  SetsPart'
  <2>1. /\ pc \in {"build_chains", "prepare"}
        /\ UNCHANGED <<pc, commitFile, gen, content, setver, sets, heldSets, confirmed>>
    BY <1>6 DEF RestoreTable, NewChain, FillChain, PrepareDelegate
  <2>2. Ver' = Ver
    BY <1>i, <1>v, <2>1 DEF WriteVersion
  <2>3. gen \in Gen /\ todo \subseteq Name
    BY <1>t, <2>1 DEF TypeInv, Loops, GenStarted, ProcessOK, Gen
  <2>4. CASE NewChain
    BY <1>t, <2>1, <2>2, <2>4, SetsBuilding DEF NewChain
  <2>5. CASE FillChain
    <3>1. PICK c \in todo : named["tmp"][c] = gen /\ full' = full \cup {<<gen, c>>}
      BY <2>5 DEF FillChain
    <3> QED
      BY <1>t, <2>1, <2>2, <2>5, <3>1, SetsBuilding DEF FillChain
  <2>6. CASE RestoreTable \/ PrepareDelegate
    <3>1. PICK cs \in SUBSET todo : NameTmp(cs) /\ full' \ full \subseteq {gen} \X cs
      <4>1. CASE RestoreTable
        <5>1. PICK t \in {TableOf[c] : c \in todo} :
                /\ NameTmp({c \in todo : TableOf[c] = t})
                /\ full' = full \cup ({gen} \X {c \in todo : TableOf[c] = t})
          BY <4>1, Zenon DEF RestoreTable
        <5> QED
          BY <5>1
      <4>2. CASE PrepareDelegate
        BY <4>2 DEF PrepareDelegate
      <4> QED
        BY <2>6, <4>1, <4>2
    <3>2. \A n \in cs : named'["tmp"][n] = gen
      BY <1>t, <2>3, <3>1 DEF NameTmp, KernelOK, Naming, Prefix
    <3>3. \A o \in full' \ full : o[1] = gen /\ named'["tmp"][o[2]] = gen
      BY <3>1, <3>2
    <3> QED
      BY <1>t, <2>1, <2>2, <3>1, <3>3, SetsBuilding
  <2> QED
    BY <1>6, <2>4, <2>5, <2>6
<1>7. CASE StartPrepare \/ BuildFails
  <2>1. Ver' = Ver
    BY <1>7, <1>i, <1>v DEF StartPrepare, LoopDone, BuildFails, BuildPhase, WriteVersion
  <2> QED
    BY <1>7, <1>t, <2>1, SetsStill
    DEF StartPrepare, LoopDone, BuildFails, BuildPhase, Pending, InHand, NumberPhase,
        ApplyPhase, CommitPhase, kernel
<1>8. CASE Apply \/ AnswerYes \/ AnswerNo
  <2>1. /\ pc \in {"prepare"} \cup ApplyPhase /\ pc' \in {"idle", "commit"} \cup ApplyPhase
        /\ UNCHANGED <<named, full, sets, heldSets, commitFile, content, setver, gen>>
        /\ confirmed \subseteq confirmed'
    BY <1>8
    DEF Apply, StartApply, ModifyBuiltin, StartUnhook, StartAsking, PromptTimesOut, AnswerYes,
        AnswerNo, Rollback, StartRollbackUnhook, RollbackAborts, LoopDone, StartCommit,
        ApplyPhase, kernel
  <2>2. Ver' = Ver
    BY <1>i, <1>v, <2>1 DEF WriteVersion, ApplyPhase
  <2> QED
    BY <1>t, <2>1, <2>2, SetsStill DEF Pending, InHand, NumberPhase, ApplyPhase, CommitPhase
<1>9. CASE Commit
  <2>1. CASE WriteVersion
    BY <1>t, <2>1, SetsWritten DEF CommitInv
  <2>2. CASE ~WriteVersion
    <3>1. pc \in CommitPhase
      BY <1>9
      DEF Commit, DispatchStep, InvalidStep, WriteStep, RenameChain, RenameEnds,
          RemoveCommitFile, TruncateVersion, WriteVersion, CommitPhase
    <3>2. Ver' = Ver
      BY <1>i, <1>v, <2>2, <3>1 DEF CommitPhase
    <3>3. CASE RenameChain("real_to_delete", "real", "del")
               \/ RenameChain("tmp_to_real", "tmp", "real")
      BY <1>t, <3>2, <3>3, SetsRename
    <3>4. ASSUME DispatchStep \/ InvalidStep
                 \/ WriteStep("write_r2d", "rename_chain_real_to_delete")
                 \/ RenameEnds("real_to_delete", "real", "write_t2r")
                 \/ WriteStep("write_t2r", "rename_chain_tmp_to_real")
                 \/ RenameEnds("tmp_to_real", "tmp", "write_done")
                 \/ WriteStep("write_done", "done")
                 \/ RemoveCommitFile \/ TruncateVersion
          PROVE  SetsPart'
      <4>1. UNCHANGED <<named, full, sets, heldSets, content, setver, gen, confirmed>>
        BY <3>4
        DEF DispatchStep, InvalidStep, WriteStep, RenameEnds, RemoveCommitFile, TruncateVersion,
            kernel
      <4>2. InHand
        BY <3>1 DEF InHand
      <4>3. Pending => Pending'
        BY <1>t, <3>4
        DEF DispatchStep, InvalidStep, WriteStep, RenameEnds, RemoveCommitFile, TruncateVersion,
            Pending, NumberPhase, StepOfPhase, Empty, NoFile
      <4> QED
        BY <1>t, <3>2, <4>1, <4>2, <4>3, SetsStill
    <3> QED
      BY <1>9, <2>2, <3>3, <3>4 DEF Commit
  <2> QED
    BY <2>1, <2>2
<1>10. CASE Finish
  <2>1. /\ pc \in SavePhase /\ pc' \in {"idle"} \cup SavePhase
        /\ UNCHANGED <<named, full, sets, heldSets, commitFile, content, setver, gen, confirmed>>
    BY <1>10 DEF Finish, FailFileStops, Redirect, RunPostScripts, SavePhase, kernel
  <2>2. Ver' = Ver
    BY <1>i, <1>v, <2>1 DEF WriteVersion, SavePhase
  <2> QED
    BY <1>t, <2>1, <2>2, SetsStill
    DEF Pending, InHand, NumberPhase, ApplyPhase, CommitPhase, SavePhase
<1>11. CASE Interrupt
  <2>1. /\ pc \notin NumberPhase /\ pc # "idle" /\ pc' = "idle"
        /\ UNCHANGED <<named, full, sets, heldSets, commitFile, content, setver, gen, confirmed>>
    BY <1>11, ConstantsAssumption DEF Interrupt, KillOutsideNumber, kernel
  <2>2. Ver' = Ver
    BY <1>i, <1>v, <2>1 DEF WriteVersion, NumberPhase
  <2> QED
    BY <1>t, <2>1, <2>2, SetsStill DEF Pending, InHand, ApplyPhase, CommitPhase
<1>12. CASE ForceDeleteCommitFile
  <2>1. /\ pc = "idle" /\ commitFile = Empty /\ commitFile' = NoFile
        /\ UNCHANGED <<named, full, sets, heldSets, content, setver, gen, confirmed, pc, version>>
    BY <1>12 DEF ForceDeleteCommitFile, kernel
  <2> QED
    BY <1>t, <2>1, SetsStill DEF Pending, InHand, NumberPhase, Empty, NoFile, Ver
<1>13. CASE ForeignRule
  <2>1. Ver' = Ver
    BY <1>13 DEF ForeignRule, Ver
  <2> QED
    BY <1>13, <1>t, <2>1, SetsForeign DEF CommitInv
<1>14. CASE UNCHANGED vars
  BY <1>14, <1>t, SetsStill DEF vars, kernel, Pending, InHand, Ver
<1> QED
  BY <1>1, <1>2, <1>3, <1>4, <1>5, <1>6, <1>7, <1>8, <1>9, <1>10, <1>11, <1>12, <1>13, <1>14, Zenon
  DEF Next, Progress, Cleanup, Build
-----------------------------------------------------------------------------
(* The cleanup.                                                             *)

\* No rule matches on the next version's sets once CFWTMP_ is gone: what is left
\* belongs to the live ruleset or to those before it.
LEMMA NextIsFree ==
  ASSUME ConfirmInv, VersionPart, SetsPart, pc = "destroy_next"
  PROVE  cur = Ver /\ Ver \in Int /\ ~SetInUse(cur + 1)
<1>t. /\ KernelOK /\ ProcessOK /\ HistoryOK /\ CommitFileOwner /\ Names("tmp") = {}
  BY DEF ConfirmInv, TypeInv, TypeOK, PhaseInv, LoopInv, TmpGone
<1>1. cur = Ver /\ Ver \in Int /\ ~Pending
  BY <1>t
  DEF VersionPart, Cur, Ver, ProcessOK, Pending, NumberPhase, CommitFileOwner, CommitPhase, NoFile
<1>2. Ver + 1 \notin heldSets
  BY <1>1 DEF SetsPart, HeldNumber
<1>3. \A o \in full : setver[o[1]] # Ver + 1
  <2> SUFFICES ASSUME NEW o \in full, setver[o[1]] = Ver + 1
               PROVE  FALSE
    OBVIOUS
  <2>1. o[1] # 0 /\ o[2] \in Name
    BY <1>t DEF KernelOK, Gen
  <2>2. o[1] = named["tmp"][o[2]] \/ o[1] = named["real"][o[2]]
    BY <1>1 DEF SetsPart, FullNumber
  <2>3. o[1] = named["real"][o[2]] /\ o[2] \in Names("real")
    BY <1>t, <2>1, <2>2 DEF Names
  <2>4. setver[o[1]] = Ver
    BY <1>1, <2>3 DEF SetsPart, LiveSets
  <2> QED
    BY <1>1, <2>4
<1> QED
  BY <1>1, <1>2, <1>3 DEF SetInUse

\* What the first two loops of the cleanup take out of the chains of CFWTMP_.
LEMMA FlushedNext == ConfirmInv /\ TmpFlushed /\ [Next]_vars => TmpFlushed'
<1> SUFFICES ASSUME ConfirmInv, TmpFlushed, [Next]_vars
             PROVE  TmpFlushed'
  OBVIOUS
<1>t. KernelOK /\ TmpIsCurrent
  BY DEF ConfirmInv, TypeInv, TypeOK, NamesInv
<1> USE DEF Enter, Exit, LoopDone, kernel, files, process, history
<1>a. ASSUME pc' \notin {"flush_tmp", "remove_tmp"}
      PROVE  TmpFlushed'
  BY <1>a DEF TmpFlushed
<1>b. ASSUME pc' = "flush_tmp", todo' = Names("tmp"), named' = named
      PROVE  TmpFlushed'
  BY <1>b DEF TmpFlushed, Names
<1>1. CASE Start
  BY <1>1, <1>a, <1>b DEF Start, StartCommit, StartCleanup
<1>2. CASE FlushChain("flush_tmp", "tmp")
  <2>1. PICK n \in todo : /\ full' = full \ {<<named["tmp"][n], n>>} /\ todo' = todo \ {n}
                          /\ UNCHANGED <<named, gen, pc>> /\ pc = "flush_tmp"
    BY <1>2 DEF FlushChain
  <2>2. \A m \in Names("tmp") : named["tmp"][m] = gen
    BY <1>t DEF TmpIsCurrent, Names
  <2> QED
    BY <1>t, <2>1, <2>2 DEF TmpFlushed, Names
<1>3. CASE RemoveChain("remove_tmp", "tmp")
  <2>1. PICK m \in todo : named' = named \/ named' = [named EXCEPT !["tmp"][m] = 0]
    BY <1>3 DEF RemoveChain
  <2>2. Names("tmp")' \subseteq Names("tmp")
    BY <1>t, <2>1 DEF KernelOK, Naming, Prefix, Names
  <2>3. UNCHANGED <<full, gen, pc>> /\ pc = "remove_tmp"
    BY <1>3 DEF RemoveChain
  <2> QED
    BY <2>2, <2>3 DEF TmpFlushed
<1>4. CASE CleanupLoopEnds
  <2>1. CASE pc = "flush_tmp"
    <3>1. UNCHANGED <<named, full, gen>> /\ pc' = "remove_tmp" /\ todo = {}
      BY <1>4, <2>1 DEF CleanupLoopEnds
    <3> QED
      BY <2>1, <3>1 DEF TmpFlushed, Names
  <2>2. CASE pc # "flush_tmp"
    BY <1>4, <1>a, <2>2 DEF CleanupLoopEnds
  <2> QED
    BY <2>1, <2>2
<1>5. CASE FlushChain("flush_del", "del") \/ RemoveChain("remove_del", "del")
           \/ DestroySets("destroy_last", cur - 1, "destroy_next")
           \/ DestroySets("destroy_next", cur + 1, AfterCleanup)
  BY <1>5, <1>a DEF FlushChain, RemoveChain, DestroySets, AfterCleanup
<1>6. CASE Build
  BY <1>6, <1>a
  DEF Build, StartBuild, RestoreTable, NewChain, FillChain, StartPrepare, PrepareDelegate,
      BuildFails
<1>7. CASE Apply \/ AnswerYes \/ AnswerNo
  BY <1>7, <1>a
  DEF Apply, StartApply, ModifyBuiltin, StartUnhook, StartAsking, PromptTimesOut, AnswerYes,
      AnswerNo, Rollback, StartRollbackUnhook, RollbackAborts, StartCommit
<1>8. CASE Commit
  <2>1. CASE WriteVersion
    BY <1>b, <2>1 DEF WriteVersion
  <2> QED
    BY <1>8, <1>a, <2>1
    DEF Commit, DispatchStep, InvalidStep, WriteStep, RenameChain, RenameEnds, RemoveCommitFile,
        TruncateVersion
<1>9. CASE Finish \/ Interrupt
  BY <1>9, <1>a DEF Finish, FailFileStops, Redirect, RunPostScripts, Interrupt
<1>10. CASE ForceDeleteCommitFile \/ ForeignRule \/ UNCHANGED vars
  <2>1. UNCHANGED <<named, full, gen, pc, todo>>
    BY <1>10 DEF ForceDeleteCommitFile, ForeignRule, vars
  <2> QED
    BY <2>1 DEF TmpFlushed, Names
<1> QED
  BY <1>1, <1>2, <1>3, <1>4, <1>5, <1>6, <1>7, <1>8, <1>9, <1>10, Zenon
  DEF Next, Progress, Cleanup

LEMMA CleanNext ==
  ASSUME KillOutsideNumber, ConfirmInv, VersionPart, SetsPart, CleanPart, [Next]_vars
  PROVE  CleanPart'
<1>t. /\ TypeInv /\ TmpGone /\ Numbered /\ NextGone /\ NoTmpToSave
  BY DEF ConfirmInv, TypeInv, LoopInv, VersionPart, CleanPart
<1>v. version # NoVersion /\ ~WriteVersion => Ver' = Ver
  BY <1>t, VersionKept
<1>i. version = NoVersion => pc = "idle"
  BY <1>t DEF Numbered
<1>f. TmpFlushed'
  BY FlushedNext DEF CleanPart
<1> USE DEF Enter, Exit, LoopDone, kernel, files, process, history
<1>a. ASSUME pc' \notin {"build"} \cup SavePhase
      PROVE  CleanPart'
  BY <1>a, <1>f DEF CleanPart, NextGone, NoTmpToSave
<1>1. CASE Start
  BY <1>1, <1>a DEF Start, StartCommit, StartCleanup, SavePhase
<1>2. CASE FlushChain("flush_tmp", "tmp") \/ RemoveChain("remove_tmp", "tmp")
           \/ FlushChain("flush_del", "del") \/ RemoveChain("remove_del", "del")
           \/ CleanupLoopEnds \/ DestroySets("destroy_last", cur - 1, "destroy_next")
  BY <1>2, <1>a DEF FlushChain, RemoveChain, CleanupLoopEnds, DestroySets, SavePhase
<1>3. CASE DestroySets("destroy_next", cur + 1, AfterCleanup)
  <2>1. /\ pc = "destroy_next" /\ pc' \in {"build", "check_fail"} /\ UNCHANGED named
        /\ sets' = IF SetInUse(cur + 1) THEN sets ELSE {s \in sets : s[1] # cur + 1}
    BY <1>3 DEF DestroySets, AfterCleanup
  <2>2. Ver' = Ver
    BY <1>i, <1>v, <2>1 DEF WriteVersion
  <2>3. cur = Ver /\ ~SetInUse(cur + 1)
    BY <2>1, NextIsFree
  <2>4. At(Ver + 1)' = {}
    BY <2>1, <2>2, <2>3 DEF At
  <2>5. Names("tmp")' = {}
    BY <1>t, <2>1 DEF TmpGone, Names
  <2> QED
    BY <1>f, <2>4, <2>5 DEF CleanPart, NextGone, NoTmpToSave
<1>4. CASE Build
  BY <1>4, <1>a
  DEF Build, StartBuild, RestoreTable, NewChain, FillChain, StartPrepare, PrepareDelegate,
      BuildFails, SavePhase
<1>5. CASE Apply \/ AnswerYes \/ AnswerNo
  BY <1>5, <1>a
  DEF Apply, StartApply, ModifyBuiltin, StartUnhook, StartAsking, PromptTimesOut, AnswerYes,
      AnswerNo, Rollback, StartRollbackUnhook, RollbackAborts, StartCommit, SavePhase
<1>6. CASE Commit
  BY <1>6, <1>a
  DEF Commit, DispatchStep, InvalidStep, WriteStep, RenameChain, RenameEnds, RemoveCommitFile,
      TruncateVersion, WriteVersion, SavePhase
<1>7. CASE Finish
  <2>1. /\ pc \in SavePhase /\ pc' \in {"idle"} \cup SavePhase /\ UNCHANGED <<named, sets>>
    BY <1>7 DEF Finish, FailFileStops, Redirect, RunPostScripts, SavePhase
  <2>2. Ver' = Ver
    BY <1>i, <1>v, <2>1 DEF WriteVersion, SavePhase
  <2> QED
    BY <1>f, <1>t, <2>1, <2>2 DEF CleanPart, NextGone, NoTmpToSave, SavePhase, Names, At
<1>8. CASE Interrupt
  BY <1>8, <1>a DEF Interrupt, SavePhase
<1>9. CASE ForceDeleteCommitFile \/ ForeignRule \/ UNCHANGED vars
  <2>1. UNCHANGED <<named, sets, pc>> /\ Ver' = Ver
    BY <1>9 DEF ForceDeleteCommitFile, ForeignRule, vars, Ver
  <2> QED
    BY <1>f, <1>t, <2>1 DEF CleanPart, NextGone, NoTmpToSave, Names, At
<1> QED
  BY <1>1, <1>2, <1>3, <1>4, <1>5, <1>6, <1>7, <1>8, <1>9, Zenon
  DEF Next, Progress, Cleanup

LEMMA SetsInit == Init => SetsInv
<1> SUFFICES ASSUME Init PROVE SetsInv
  OBVIOUS
<1>1. PathInv /\ DelApart
  BY LiveInit DEF LiveInv, NamePart
<1>2. VersionPart
  BY DEF Init, VersionPart, Numbered, Cur
<1>3. \A p \in Prefix : Names(p) = {}
  BY DEF Init, Names
<1>4. SetsPart
  BY <1>3
  DEF Init, SetsPart, GenSets, LiveSets, FullNumber, HeldNumber, SetsConfirmed, InHand,
      ApplyPhase, CommitPhase, Prefix
<1>5. CleanPart
  BY DEF Init, CleanPart, TmpFlushed, NextGone, NoTmpToSave, SavePhase
<1> QED
  BY <1>1, <1>2, <1>4, <1>5 DEF SetsInv

LEMMA SetsInvNext == KillOutsideNumber /\ SetsInv /\ [Next]_vars => SetsInv'
<1> SUFFICES ASSUME KillOutsideNumber, SetsInv, [Next]_vars
             PROVE  SetsInv'
  OBVIOUS
<1>1. CommitInv /\ ConfirmInv /\ TypeInv
  BY DEF SetsInv, PathInv, CommitInv, ConfirmInv
<1>2. PathInv'
  BY <1>1, ConfirmNext, WholeNext, PathNext DEF SetsInv, PathInv, CommitInv
<1>3. DelApart' /\ VersionPart'
  BY <1>1, DelNext, VersionNext DEF SetsInv
<1>4. SetsPart' /\ CleanPart'
  BY <1>1, SetsNext, CleanNext DEF SetsInv
<1> QED
  BY <1>2, <1>3, <1>4 DEF SetsInv

-----------------------------------------------------------------------------
\* The sets of the live ruleset hold what its own build put there, whatever
\* configurations are built after it, given up, rolled back or interrupted: every
\* build numbers its sets one above the version file and the cleanup before it has
\* destroyed what was there.
THEOREM SetsStayPristine ==
  ASSUME KillOutsideNumber
  PROVE  Spec => []LiveSetsPristine
<1>1. SetsInv => LiveSetsPristine
  <2> SUFFICES ASSUME SetsInv, NEW n \in Names("real"), NEW g, g = named["real"][n],
                      content[g] \notin Unaliased
               PROVE  At(setver[g]) = {<<setver[g], g>>}
    BY DEF LiveSetsPristine, At
  <2>1. Pristine(g)
    <3>1. CASE ~Pending
      BY <3>1 DEF SetsInv, SetsPart, LiveSets
    <3>2. CASE Pending
      <4>1. g = gen
        BY <3>2
        DEF SetsInv, PathInv, CommitInv, WholeInv, Shared, RealOf, Pending, NumberPhase
      <4>2. InHand
        BY <3>2 DEF Pending, InHand, NumberPhase, CommitPhase, NoFile
      <4> QED
        BY <4>1, <4>2 DEF SetsInv, SetsPart, GenSets
    <3> QED
      BY <3>1, <3>2
  <2> QED
    BY <2>1 DEF Pristine, OwnSets
<1> QED
  BY <1>1, SetsInit, SetsInvNext, PTL DEF Spec
-----------------------------------------------------------------------------
(* What is saved for the boot.                                              *)

LEMMA SavedIsConfirmed ==
  ASSUME SetsInv, pc \in SavePhase
  PROVE  RulesInKernel \subseteq confirmed /\ SetsInKernel \subseteq confirmed
<1>t. KernelOK /\ RealConfirmed
  BY DEF SetsInv, PathInv, CommitInv, ConfirmInv, TypeInv, TypeOK, NamesInv
<1>1. \A n \in Name : named["tmp"][n] = 0
  BY DEF SetsInv, CleanPart, NoTmpToSave, Names
<1>2. \A n \in Name : named["real"][n] \in confirmed \cup {0}
  BY <1>t DEF RealConfirmed, Names
<1>3. \A n \in Name : named["del"][n] \in confirmed \cup {0}
  BY DEF SetsInv, DelApart, Names
<1>4. \A s \in sets : s[2] \in confirmed
  BY DEF SetsInv, CleanPart, NextGone, SetsPart, SetsConfirmed, At
<1> QED
  BY <1>1, <1>2, <1>3, <1>4 DEF RulesInKernel, SetsInKernel, Prefix

LEMMA SavedStill ==
  ASSUME [Next]_vars
  PROVE  saved' = saved \/ Finish
<1> USE DEF kernel, files, process, history
<1>1. CASE Start \/ Cleanup \/ Build
  BY <1>1
  DEF Start, Cleanup, FlushChain, RemoveChain, CleanupLoopEnds, DestroySets, Build, StartBuild,
      RestoreTable, NewChain, FillChain, StartPrepare, PrepareDelegate, BuildFails
<1>2. CASE Apply \/ AnswerYes \/ AnswerNo
  BY <1>2
  DEF Apply, StartApply, ModifyBuiltin, StartUnhook, StartAsking, PromptTimesOut, AnswerYes,
      AnswerNo, Rollback, StartRollbackUnhook, RollbackAborts
<1>3. CASE Commit
  BY <1>3
  DEF Commit, DispatchStep, InvalidStep, WriteStep, RenameChain, RenameEnds, RemoveCommitFile,
      TruncateVersion, WriteVersion
<1>4. CASE Interrupt \/ ForceDeleteCommitFile \/ ForeignRule \/ UNCHANGED vars
  BY <1>4 DEF Interrupt, ForceDeleteCommitFile, ForeignRule, vars
<1> QED
  BY <1>1, <1>2, <1>3, <1>4 DEF Next, Progress

\* Nothing takes back a y.
LEMMA ConfirmedGrows ==
  ASSUME [Next]_vars
  PROVE  confirmed \subseteq confirmed'
<1> USE DEF kernel, files, process, history
<1>1. CASE Start \/ Cleanup \/ Build
  BY <1>1
  DEF Start, Cleanup, FlushChain, RemoveChain, CleanupLoopEnds, DestroySets, Build, StartBuild,
      RestoreTable, NewChain, FillChain, StartPrepare, PrepareDelegate, BuildFails
<1>2. CASE Apply \/ AnswerYes \/ AnswerNo
  BY <1>2
  DEF Apply, StartApply, ModifyBuiltin, StartUnhook, StartAsking, PromptTimesOut, AnswerYes,
      AnswerNo, Rollback, StartRollbackUnhook, RollbackAborts
<1>3. CASE Commit \/ Finish
  BY <1>3
  DEF Commit, DispatchStep, InvalidStep, WriteStep, RenameChain, RenameEnds, RemoveCommitFile,
      TruncateVersion, WriteVersion, Finish, FailFileStops, Redirect, RunPostScripts
<1>4. CASE Interrupt \/ ForceDeleteCommitFile \/ ForeignRule \/ UNCHANGED vars
  BY <1>4 DEF Interrupt, ForceDeleteCommitFile, ForeignRule, vars
<1> QED
  BY <1>1, <1>2, <1>3, <1>4 DEF Next, Progress

LEMMA ConfirmedSaved ==
  ASSUME SetsInv, BootIsConfirmed, [Next]_vars
  PROVE  BootIsConfirmed'
<1>1. confirmed \subseteq confirmed' /\ saved \in [SavedFile -> SUBSET Gen]
  BY ConfirmedGrows
  DEF SetsInv, PathInv, CommitInv, ConfirmInv, TypeInv, TypeOK, FilesOK
<1>2. CASE saved' = saved
  BY <1>1, <1>2 DEF BootIsConfirmed
<1>3. CASE Finish /\ saved' # saved
  <2>1. pc \in SavePhase
    BY <1>3 DEF Finish, FailFileStops, Redirect, RunPostScripts, SavePhase
  <2>2. RulesInKernel \subseteq confirmed /\ SetsInKernel \subseteq confirmed
    BY <2>1, SavedIsConfirmed
  <2>3. \A f \in SavedFile : saved'[f] \in {{}, saved[f], RulesInKernel, SetsInKernel}
    <3> HIDE DEF RulesInKernel, SetsInKernel
    <3> QED
      BY <1>1, <1>3
      DEF Finish, FailFileStops, Redirect, RunPostScripts, SavedFile, files
  <2> QED
    BY <1>1, <2>2, <2>3 DEF BootIsConfirmed
<1> QED
  BY <1>2, <1>3, SavedStill

\* Only the build finds out that a rule fails.
LEMMA FlawedStill ==
  ASSUME [Next]_vars
  PROVE  flawed' = flawed \/ FillChain
<1> USE DEF kernel, files, process, history
<1>1. CASE Start \/ Cleanup \/ Build
  BY <1>1
  DEF Start, Cleanup, FlushChain, RemoveChain, CleanupLoopEnds, DestroySets, Build, StartBuild,
      RestoreTable, NewChain, StartPrepare, PrepareDelegate, BuildFails
<1>2. CASE Apply \/ AnswerYes \/ AnswerNo
  BY <1>2
  DEF Apply, StartApply, ModifyBuiltin, StartUnhook, StartAsking, PromptTimesOut, AnswerYes,
      AnswerNo, Rollback, StartRollbackUnhook, RollbackAborts
<1>3. CASE Commit \/ Finish
  BY <1>3
  DEF Commit, DispatchStep, InvalidStep, WriteStep, RenameChain, RenameEnds, RemoveCommitFile,
      TruncateVersion, WriteVersion, Finish, FailFileStops, Redirect, RunPostScripts
<1>4. CASE Interrupt \/ ForceDeleteCommitFile \/ ForeignRule \/ UNCHANGED vars
  BY <1>4 DEF Interrupt, ForceDeleteCommitFile, ForeignRule, vars
<1> QED
  BY <1>1, <1>2, <1>3, <1>4 DEF Next, Progress

\* The files that restore the firewall at boot hold no ruleset and no set of a
\* build that was not confirmed, whether fw_reload dies before, between or after
\* the three redirects: what a build given up leaves in the kernel is destroyed
\* before the next save.
THEOREM SavesWhatIsConfirmed ==
  ASSUME KillOutsideNumber
  PROVE  Spec => []BootIsConfirmed
<1>1. Init => SetsInv /\ BootIsConfirmed
  BY SetsInit DEF Init, BootIsConfirmed
<1>2. SetsInv /\ BootIsConfirmed /\ [Next]_vars => BootIsConfirmed'
  BY ConfirmedSaved
<1> QED
  BY <1>1, <1>2, SetsInvNext, PTL DEF Spec
-----------------------------------------------------------------------------
(* What a reload leaves, when no foreign rule holds a chain or a set.        *)

Alone == held = {} /\ heldSets = {}

\* From the end of the commit on, the sets in force are those of the last build.
JustCommitted == (pc \in CleanupPhase /\ site = "apply") \/ pc \in SavePhase
NewSets == JustCommitted => setver[gen] = Ver /\ Pristine(gen)

\* A chain has rules only while a prefix names it, and CFWDEL_ is emptied.
FullNamed == \A o \in full : \E p \in Prefix : named[p][o[2]] = o[1]
DelFlushed ==
  /\ pc = "flush_del" => \A n \in Names("del") \ todo : <<named["del"][n], n>> \notin full
  /\ pc = "remove_del" =>
       todo = Names("del") /\ \A n \in Names("del") : <<named["del"][n], n>> \notin full
DelGone ==
  pc \in {"destroy_last", "destroy_next", "build"} \cup SavePhase => Names("del") = {}
ChainPart == FullNamed /\ DelFlushed /\ DelGone

\* Before a build the sets of the version before are gone, so that no others are
\* ever further away than one version.
LastGone == InHand \/ pc \in {"destroy_next", "build"} \cup SavePhase => At(Ver - 1) = {}
Near == \A s \in sets : s[1] \in {Ver - 1, Ver, Ver + 1}
NearPart == LastGone /\ Near

AloneInv == SetsInv /\ Alone /\ NewSets /\ ChainPart /\ NearPart

LEMMA AloneNext ==
  ASSUME ForeignRefs = FALSE, Alone, [Next]_vars
  PROVE  Alone'
<1> USE DEF Alone, kernel
<1>1. CASE Start \/ Cleanup \/ Build
  BY <1>1
  DEF Start, Cleanup, FlushChain, RemoveChain, CleanupLoopEnds, DestroySets, Build, StartBuild,
      RestoreTable, NewChain, FillChain, StartPrepare, PrepareDelegate, BuildFails
<1>2. CASE Apply \/ AnswerYes \/ AnswerNo
  BY <1>2
  DEF Apply, StartApply, ModifyBuiltin, StartUnhook, StartAsking, PromptTimesOut, AnswerYes,
      AnswerNo, Rollback, StartRollbackUnhook, RollbackAborts
<1>3. CASE Commit \/ Finish
  BY <1>3
  DEF Commit, DispatchStep, InvalidStep, WriteStep, RenameChain, RenameEnds, RemoveCommitFile,
      TruncateVersion, WriteVersion, Finish, FailFileStops, Redirect, RunPostScripts
<1>4. CASE Interrupt \/ ForceDeleteCommitFile \/ ForeignRule \/ UNCHANGED vars
  BY <1>4 DEF Interrupt, ForceDeleteCommitFile, ForeignRule, vars
<1> QED
  BY <1>1, <1>2, <1>3, <1>4 DEF Next, Progress

LEMMA NewStill ==
  ASSUME NewSets, JustCommitted' => JustCommitted, UNCHANGED <<gen, content, setver>>,
         Ver' = Ver, At(Ver)' = At(Ver)
  PROVE  NewSets'
BY DEF NewSets, Pristine, OwnSets, At

LEMMA NewNext ==
  ASSUME KillOutsideNumber, SetsInv, NewSets, [Next]_vars
  PROVE  NewSets'
<1>t. TypeInv /\ ProcessOK /\ VersionPart /\ Ver \in Int
  BY VersionInt DEF SetsInv, PathInv, CommitInv, ConfirmInv, TypeInv, TypeOK
<1>v. version # NoVersion /\ ~WriteVersion => Ver' = Ver
  BY <1>t, VersionKept
<1>i. version = NoVersion => pc = "idle"
  BY <1>t DEF VersionPart, Numbered
<1> USE DEF Enter, Exit, LoopDone, kernel, files, process, history
<1>a. ASSUME ~JustCommitted'
      PROVE  NewSets'
  BY <1>a DEF NewSets
<1>b. ASSUME UNCHANGED <<sets, gen, content, setver>>, JustCommitted' => JustCommitted, ~WriteVersion
      PROVE  NewSets'
  <2>1. CASE JustCommitted
    <3>1. Ver' = Ver
      BY <1>b, <1>v, <1>i, <2>1 DEF JustCommitted, CleanupPhase, SavePhase
    <3> QED
      BY <1>b, <3>1, NewStill DEF At
  <2> QED
    BY <1>a, <1>b, <2>1
<1>1. CASE Start
  BY <1>1, <1>a
  DEF Start, StartCommit, StartCleanup, JustCommitted, CleanupPhase, SavePhase
<1>2. CASE FlushChain("flush_tmp", "tmp") \/ RemoveChain("remove_tmp", "tmp")
           \/ FlushChain("flush_del", "del") \/ RemoveChain("remove_del", "del")
           \/ CleanupLoopEnds
  BY <1>2, <1>b
  DEF FlushChain, RemoveChain, CleanupLoopEnds, WriteVersion, JustCommitted, CleanupPhase,
      SavePhase
<1>3. CASE DestroySets("destroy_last", cur - 1, "destroy_next")
           \/ DestroySets("destroy_next", cur + 1, AfterCleanup)
  <2>1. /\ pc \in {"destroy_last", "destroy_next"} /\ UNCHANGED <<gen, content, setver, site>>
        /\ sets' = sets \/ \E v \in {cur - 1, cur + 1} : sets' = {s \in sets : s[1] # v}
        /\ pc' = "destroy_next" \/ (pc' \in {"build", "check_fail"} /\ (pc' = "build" <=> site = "start"))
    BY <1>3 DEF DestroySets, AfterCleanup
  <2>2. Ver' = Ver /\ cur = Ver
    BY <1>i, <1>t, <1>v, <2>1 DEF WriteVersion, VersionPart, Cur, Ver
  <2>3. At(Ver)' = At(Ver)
    BY <1>t, <2>1, <2>2 DEF At, ProcessOK
  <2>4. JustCommitted' => JustCommitted
    BY <1>t, <2>1 DEF JustCommitted, CleanupPhase, SavePhase, ProcessOK
  <2> QED
    BY <2>1, <2>2, <2>3, <2>4, NewStill
<1>4. CASE Build
  BY <1>4, <1>a
  DEF Build, StartBuild, RestoreTable, NewChain, FillChain, StartPrepare, PrepareDelegate,
      BuildFails, JustCommitted, CleanupPhase, SavePhase
<1>5. CASE Apply \/ AnswerYes \/ AnswerNo
  BY <1>5, <1>a
  DEF Apply, StartApply, ModifyBuiltin, StartUnhook, StartAsking, PromptTimesOut, AnswerYes,
      AnswerNo, Rollback, StartRollbackUnhook, RollbackAborts, StartCommit, JustCommitted,
      CleanupPhase, SavePhase
<1>6. CASE Commit
  <2>1. CASE WriteVersion
    <3>1. /\ pc = "write_version" /\ pc' = "flush_tmp" /\ Ver' = Ver + 1
          /\ UNCHANGED <<sets, gen, content, setver>>
      BY <2>1 DEF WriteVersion, Ver
    <3>2. InHand
      BY <3>1 DEF InHand, CommitPhase
    <3>3. setver[gen] = Ver + 1 /\ Pristine(gen)
      BY <3>2 DEF SetsInv, SetsPart, GenSets
    <3> QED
      BY <3>1, <3>3 DEF NewSets, Pristine, OwnSets, At
  <2> QED
    BY <1>6, <1>a, <2>1
    DEF Commit, DispatchStep, InvalidStep, WriteStep, RenameChain, RenameEnds, RemoveCommitFile,
        TruncateVersion, JustCommitted, CleanupPhase, SavePhase
<1>7. CASE Finish
  BY <1>7, <1>b
  DEF Finish, FailFileStops, Redirect, RunPostScripts, WriteVersion, JustCommitted, CleanupPhase,
      SavePhase
<1>8. CASE Interrupt
  BY <1>8, <1>a DEF Interrupt, JustCommitted, CleanupPhase, SavePhase
<1>9. CASE ForceDeleteCommitFile \/ ForeignRule
  BY <1>9, <1>b, <1>a
  DEF ForceDeleteCommitFile, ForeignRule, JustCommitted, WriteVersion, CleanupPhase, SavePhase
<1>10. CASE UNCHANGED vars
  BY <1>10, NewStill DEF vars, Ver, At, JustCommitted
<1> QED
  BY <1>1, <1>2, <1>3, <1>4, <1>5, <1>6, <1>7, <1>8, <1>9, <1>10, Zenon
  DEF Next, Progress, Cleanup
LEMMA NamedRemove ==
  ASSUME KernelOK, TmpIsCurrent, TmpFlushed, DelFlushed, FullNamed, NEW phase, NEW p,
         <<phase, p>> \in {<<"remove_tmp", "tmp">>, <<"remove_del", "del">>},
         RemoveChain(phase, p)
  PROVE  FullNamed'
<1>1. /\ full' = full /\ pc = phase
      /\ \E n \in todo : named' = named \/ named' = [named EXCEPT ![p][n] = 0]
  BY DEF RemoveChain
<1>2. PICK m \in todo : named' = named \/ named' = [named EXCEPT ![p][m] = 0]
  BY <1>1
<1>3. \A q \in Prefix : q # p => named'[q] = named[q]
  BY <1>2 DEF KernelOK, Naming, Prefix
<1> SUFFICES ASSUME NEW o \in full
             PROVE  \E q \in Prefix : named'[q][o[2]] = o[1]
  BY <1>1 DEF FullNamed
<1>4. PICK q \in Prefix : named[q][o[2]] = o[1]
  BY DEF FullNamed
<1>5. o[1] \in Gen /\ o[2] \in Name /\ o = <<o[1], o[2]>>
  BY DEF KernelOK
<1>6. o[2] \in Names(q)
  BY <1>4, <1>5 DEF Names, Gen
<1>7. q # p
  <2>1. CASE p = "tmp"
    <3>1. q = "tmp" => o[1] = gen
      BY <1>4, <1>5 DEF TmpIsCurrent, Gen
    <3> QED
      BY <1>1, <1>5, <1>6, <2>1, <3>1 DEF TmpFlushed
  <2>2. CASE p = "del"
    BY <1>1, <1>4, <1>5, <1>6, <2>2 DEF DelFlushed
  <2> QED
    BY <2>1, <2>2
<1> QED
  BY <1>3, <1>4, <1>7

LEMMA NamedBuilding ==
  ASSUME KernelOK, TmpIsCurrent, FullNamed, NEW cs, NameTmp(cs) \/ named' = named,
         \A o \in full' \ full : o[1] = gen /\ named'["tmp"][o[2]] = gen
  PROVE  FullNamed'
<1>1. /\ \A q \in Prefix : q # "tmp" => named'[q] = named[q]
      /\ \A n \in Name : named'["tmp"][n] \in {named["tmp"][n], gen}
  BY DEF NameTmp, KernelOK, Naming, Prefix
<1> SUFFICES ASSUME NEW o \in full'
             PROVE  \E q \in Prefix : named'[q][o[2]] = o[1]
  BY DEF FullNamed
<1>2. CASE o \notin full
  BY <1>2 DEF Prefix
<1>3. CASE o \in full
  <2>1. PICK q \in Prefix : named[q][o[2]] = o[1]
    BY <1>3 DEF FullNamed
  <2>2. o[1] # 0 /\ o[2] \in Name
    BY <1>3 DEF KernelOK, Gen
  <2>3. CASE q = "tmp"
    <3>1. o[1] = gen
      BY <2>1, <2>2, <2>3 DEF TmpIsCurrent
    <3>2. named'["tmp"][o[2]] = gen
      BY <1>1, <2>1, <2>2, <2>3, <3>1
    <3> QED
      BY <3>1, <3>2 DEF Prefix
  <2> QED
    BY <1>1, <2>1, <2>3
<1> QED
  BY <1>2, <1>3

LEMMA NamedRename ==
  ASSUME KernelOK, FullNamed, NEW phase, NEW from \in Prefix, NEW to \in Prefix, from # to,
         RenameChain(phase, from, to)
  PROVE  FullNamed'
<1>1. full' = full
  BY DEF RenameChain
<1>2. CASE named' = named
  BY <1>1, <1>2 DEF FullNamed
<1>3. CASE named' # named
  <2>1. PICK n \in Names(from) :
          named[to][n] = 0 /\ named' = [named EXCEPT ![to][n] = named[from][n], ![from][n] = 0]
    BY <1>3 DEF RenameChain
  <2>2. /\ \A q \in Prefix, x \in Name : x # n \/ q \notin {from, to} => named'[q][x] = named[q][x]
        /\ named'[to][n] = named[from][n] /\ n \in Name
    BY <2>1 DEF KernelOK, Naming, Names
  <2> SUFFICES ASSUME NEW o \in full
               PROVE  \E q \in Prefix : named'[q][o[2]] = o[1]
    BY <1>1 DEF FullNamed
  <2>3. PICK q \in Prefix : named[q][o[2]] = o[1]
    BY DEF FullNamed
  <2>4. o[1] # 0 /\ o[2] \in Name
    BY DEF KernelOK, Gen
  <2>5. CASE o[2] = n /\ q \in {from, to}
    BY <2>1, <2>2, <2>3, <2>4, <2>5
  <2> QED
    BY <2>2, <2>3, <2>4, <2>5
<1> QED
  BY <1>2, <1>3

LEMMA NamedNext ==
  ASSUME ConfirmInv, TmpFlushed, DelFlushed, FullNamed, [Next]_vars
  PROVE  FullNamed'
<1>t. KernelOK /\ ProcessOK /\ TmpIsCurrent
  BY DEF ConfirmInv, TypeInv, TypeOK, NamesInv
<1> USE DEF kernel
<1>a. ASSUME named' = named, full' \subseteq full
      PROVE  FullNamed'
  BY <1>a, <1>t DEF FullNamed
<1>1. CASE RemoveChain("remove_tmp", "tmp") \/ RemoveChain("remove_del", "del")
  BY <1>1, <1>t, NamedRemove
<1>2. CASE RenameChain("real_to_delete", "real", "del") \/ RenameChain("tmp_to_real", "tmp", "real")
  BY <1>2, <1>t, NamedRename DEF Prefix
<1>3. CASE NewChain
  BY <1>3, <1>t, NamedBuilding DEF NewChain
<1>4. CASE FillChain
  <2>1. PICK c \in todo : named["tmp"][c] = gen /\ full' = full \cup {<<gen, c>>} /\ named' = named
    BY <1>4 DEF FillChain
  <2> QED
    BY <1>t, <2>1, NamedBuilding
<1>5. CASE RestoreTable \/ PrepareDelegate
  <2>1. PICK cs \in SUBSET todo : NameTmp(cs) /\ full' \ full \subseteq {gen} \X cs
    <3>1. CASE RestoreTable
      <4>1. PICK t \in {TableOf[c] : c \in todo} :
              /\ NameTmp({c \in todo : TableOf[c] = t})
              /\ full' = full \cup ({gen} \X {c \in todo : TableOf[c] = t})
        BY <3>1, Zenon DEF RestoreTable
      <4> QED
        BY <4>1
    <3>2. CASE PrepareDelegate
      BY <3>2 DEF PrepareDelegate
    <3> QED
      BY <1>5, <3>1, <3>2
  <2>2. todo \subseteq Name
    BY <1>t DEF ProcessOK
  <2>3. \A n \in cs : named'["tmp"][n] = gen
    BY <1>t, <2>1, <2>2 DEF NameTmp, KernelOK, Naming, Prefix
  <2>4. \A o \in full' \ full : o[1] = gen /\ named'["tmp"][o[2]] = gen
    BY <2>1, <2>3
  <2> QED
    BY <1>t, <2>1, <2>4, NamedBuilding
<1>6. CASE Start \/ Cleanup
  BY <1>1, <1>6, <1>a DEF Start, Cleanup, FlushChain, CleanupLoopEnds, DestroySets
<1>7. CASE Build
  BY <1>3, <1>4, <1>5, <1>7, <1>a DEF Build, StartBuild, StartPrepare, BuildFails
<1>8. CASE Apply \/ AnswerYes \/ AnswerNo
  BY <1>8, <1>a
  DEF Apply, StartApply, ModifyBuiltin, StartUnhook, StartAsking, PromptTimesOut, AnswerYes,
      AnswerNo, Rollback, StartRollbackUnhook, RollbackAborts
<1>9. CASE Commit
  BY <1>2, <1>9, <1>a
  DEF Commit, DispatchStep, InvalidStep, WriteStep, RenameEnds, RemoveCommitFile,
      TruncateVersion, WriteVersion
<1>10. CASE Finish \/ Interrupt \/ ForceDeleteCommitFile \/ ForeignRule \/ UNCHANGED vars
  BY <1>10, <1>a
  DEF Finish, FailFileStops, Redirect, RunPostScripts, Interrupt, ForceDeleteCommitFile,
      ForeignRule, vars
<1> QED
  BY <1>6, <1>7, <1>8, <1>9, <1>10 DEF Next, Progress

\* CFWDEL_ chains can be deleted: no built-in chain jumps to one.
LEMMA DelUnreferenced ==
  ASSUME SetsInv, held = {}, NEW n \in Names("del")
  PROVE  ~Referenced(n, named["del"][n])
<1>1. named["del"][n] \notin {named["real"][n], named["tmp"][n]}
  BY DEF SetsInv, DelApart
<1>2. n \in Hook => \A i \in 1..Len(jump[n]) : jump[n][i] \in {named["real"][n], named["tmp"][n]}
  BY DEF SetsInv, PathInv, PathPart, JumpOwners
<1> QED
  BY <1>1, <1>2 DEF Referenced

LEMMA DelPartNext ==
  ASSUME KernelOK, DelFlushed, DelGone, [Next]_vars,
         pc = "remove_del" => \A n \in Names("del") : ~Referenced(n, named["del"][n])
  PROVE  DelFlushed' /\ DelGone'
<1> USE DEF Enter, Exit, LoopDone, kernel, files, process, history
<1>a. ASSUME pc' \notin {"flush_del", "remove_del", "destroy_last", "destroy_next", "build"}
                          \cup SavePhase
      PROVE  DelFlushed' /\ DelGone'
  BY <1>a DEF DelFlushed, DelGone
<1>b. ASSUME UNCHANGED <<named, full, pc, todo>>
      PROVE  DelFlushed' /\ DelGone'
  BY <1>b DEF DelFlushed, DelGone, Names
<1>1. CASE FlushChain("flush_del", "del")
  <2>1. PICK n \in todo : /\ full' = full \ {<<named["del"][n], n>>} /\ todo' = todo \ {n}
                          /\ UNCHANGED <<named, pc>> /\ pc = "flush_del"
    BY <1>1 DEF FlushChain
  <2> QED
    BY <2>1 DEF DelFlushed, DelGone, SavePhase, Names
<1>2. CASE RemoveChain("remove_del", "del")
  <2>1. /\ pc = "remove_del" /\ pc' = pc /\ full' = full
        /\ \E n \in todo : /\ named' = IF Referenced(n, named["del"][n]) THEN named
                                       ELSE [named EXCEPT !["del"][n] = 0]
                           /\ todo' = todo \ {n}
    BY <1>2 DEF RemoveChain
  <2>2. PICK n \in todo : /\ named' = IF Referenced(n, named["del"][n]) THEN named
                                      ELSE [named EXCEPT !["del"][n] = 0]
                          /\ todo' = todo \ {n}
    BY <2>1
  <2>3. todo = Names("del") /\ ~Referenced(n, named["del"][n])
    BY <2>1, <2>2 DEF DelFlushed
  <2>4. \A m \in Name : named'["del"][m] = IF m = n THEN 0 ELSE named["del"][m]
    BY <2>2, <2>3 DEF KernelOK, Naming, Prefix
  <2>5. Names("del")' = Names("del") \ {n}
    BY <2>4 DEF Names
  <2> QED
    BY <2>1, <2>2, <2>3, <2>4, <2>5 DEF DelFlushed, DelGone, SavePhase, Names
<1>3. CASE CleanupLoopEnds
  <2>1. /\ UNCHANGED <<named, full>> /\ todo = {}
        /\ <<pc, pc'>> \in {<<"flush_tmp", "remove_tmp">>, <<"remove_tmp", "flush_del">>,
                            <<"flush_del", "remove_del">>, <<"remove_del", "destroy_last">>}
        /\ pc' \in {"flush_del", "remove_del"} => todo' = Names("del")
    BY <1>3 DEF CleanupLoopEnds
  <2> QED
    BY <2>1 DEF DelFlushed, DelGone, SavePhase, Names
<1>4. CASE DestroySets("destroy_last", cur - 1, "destroy_next")
           \/ DestroySets("destroy_next", cur + 1, AfterCleanup)
  <2>1. /\ pc \in {"destroy_last", "destroy_next"} /\ UNCHANGED named
        /\ pc' \in {"destroy_next", "build", "check_fail"}
    BY <1>4 DEF DestroySets, AfterCleanup
  <2> QED
    BY <2>1 DEF DelFlushed, DelGone, SavePhase, Names
<1>5. CASE Start \/ FlushChain("flush_tmp", "tmp") \/ RemoveChain("remove_tmp", "tmp") \/ Build
  BY <1>5, <1>a
  DEF Start, StartCommit, StartCleanup, FlushChain, RemoveChain, Build, StartBuild, RestoreTable,
      NewChain, FillChain, StartPrepare, PrepareDelegate, BuildFails, SavePhase
<1>6. CASE Apply \/ AnswerYes \/ AnswerNo
  BY <1>6, <1>a
  DEF Apply, StartApply, ModifyBuiltin, StartUnhook, StartAsking, PromptTimesOut, AnswerYes,
      AnswerNo, Rollback, StartRollbackUnhook, RollbackAborts, StartCommit, SavePhase
<1>7. CASE Commit
  BY <1>7, <1>a
  DEF Commit, DispatchStep, InvalidStep, WriteStep, RenameChain, RenameEnds, RemoveCommitFile,
      TruncateVersion, WriteVersion, SavePhase
<1>8. CASE Finish
  <2>1. pc \in SavePhase /\ pc' \in {"idle"} \cup SavePhase /\ UNCHANGED named
    BY <1>8 DEF Finish, FailFileStops, Redirect, RunPostScripts, SavePhase
  <2> QED
    BY <2>1 DEF DelFlushed, DelGone, SavePhase, Names
<1>9. CASE Interrupt
  BY <1>9, <1>a DEF Interrupt, SavePhase
<1>10. CASE ForceDeleteCommitFile \/ ForeignRule \/ UNCHANGED vars
  BY <1>10, <1>b DEF ForceDeleteCommitFile, ForeignRule, vars
<1> QED
  BY <1>1, <1>2, <1>3, <1>4, <1>5, <1>6, <1>7, <1>8, <1>9, <1>10, Zenon
  DEF Next, Progress, Cleanup
\* No rule matches on the last version's sets once CFWTMP_ and CFWDEL_ are gone.
LEMMA LastIsFree ==
  ASSUME SetsInv, Alone, ChainPart, pc = "destroy_last"
  PROVE  cur = Ver /\ Ver \in Int /\ ~SetInUse(cur - 1)
<1>t. /\ KernelOK /\ ProcessOK /\ CommitFileOwner /\ VersionPart
      /\ Names("tmp") = {} /\ Names("del") = {}
  BY DEF SetsInv, PathInv, CommitInv, ConfirmInv, TypeInv, TypeOK, PhaseInv, LoopInv, TmpGone,
         ChainPart, DelGone
<1>1. cur = Ver /\ Ver \in Int /\ ~Pending
  BY <1>t
  DEF VersionPart, Cur, Ver, ProcessOK, Pending, NumberPhase, CommitFileOwner, CommitPhase, NoFile
<1>2. \A o \in full : setver[o[1]] # Ver - 1
  <2> SUFFICES ASSUME NEW o \in full, setver[o[1]] = Ver - 1
               PROVE  FALSE
    OBVIOUS
  <2>1. o[1] # 0 /\ o[2] \in Name
    BY <1>t DEF KernelOK, Gen
  <2>2. PICK q \in Prefix : named[q][o[2]] = o[1]
    BY DEF ChainPart, FullNamed
  <2>3. o[1] = named["real"][o[2]] /\ o[2] \in Names("real")
    BY <1>t, <2>1, <2>2 DEF Names, Prefix
  <2>4. setver[o[1]] = Ver
    BY <1>1, <2>3 DEF SetsInv, SetsPart, LiveSets
  <2> QED
    BY <1>1, <2>4
<1> QED
  BY <1>1, <1>2 DEF SetInUse, Alone

LEMMA NearStill ==
  ASSUME NearPart, sets' \subseteq sets, Ver' = Ver,
         InHand' \/ pc' \in {"destroy_next", "build"} \cup SavePhase =>
           InHand \/ pc \in {"destroy_next", "build"} \cup SavePhase
  PROVE  NearPart'
BY DEF NearPart, LastGone, Near, At

LEMMA NearNext ==
  ASSUME KillOutsideNumber, SetsInv, Alone, ChainPart, NearPart, [Next]_vars
  PROVE  NearPart'
<1>t. /\ ConfirmInv /\ TypeInv /\ KernelOK /\ ProcessOK /\ StepOfPhase /\ CommitFileOwner
      /\ VersionPart /\ Numbered /\ Ver \in Int
  BY VersionInt
  DEF SetsInv, PathInv, CommitInv, ConfirmInv, WholeInv, TypeInv, TypeOK, PhaseInv, VersionPart
<1>v. version # NoVersion /\ ~WriteVersion => Ver' = Ver
  BY <1>t, VersionKept
<1>i. version = NoVersion => pc = "idle"
  BY <1>t DEF Numbered
<1> USE DEF Enter, Exit, LoopDone, kernel, files, process, history
<1>1. CASE Start
  <2>1. CASE version = NoVersion
    <3>1. sets' = {} /\ pc' = "flush_tmp" /\ commitFile' = NoFile
      BY <1>1, <1>t, <2>1, Blank DEF Start, StartCleanup
    <3> QED
      BY <3>1 DEF NearPart, LastGone, Near, At
  <2>2. CASE version # NoVersion
    <3>1. Ver' = Ver
      BY <1>1, <1>v, <2>2 DEF Start, WriteVersion
    <3> QED
      BY <1>1, <3>1, NearStill
      DEF Start, StartCommit, StartCleanup, InHand, ApplyPhase, CommitPhase, SavePhase
  <2> QED
    BY <2>1, <2>2
<1>2. CASE FlushChain("flush_tmp", "tmp") \/ FlushChain("flush_del", "del") \/ CleanupLoopEnds
           \/ RemoveChain("remove_tmp", "tmp") \/ RemoveChain("remove_del", "del")
  <2>1. Ver' = Ver
    BY <1>2, <1>i, <1>v DEF FlushChain, RemoveChain, CleanupLoopEnds, WriteVersion
  <2> QED
    BY <1>2, <2>1, NearStill
    DEF FlushChain, RemoveChain, CleanupLoopEnds, InHand, ApplyPhase, CommitPhase, SavePhase
<1>3. CASE DestroySets("destroy_last", cur - 1, "destroy_next")
  <2>1. /\ pc = "destroy_last" /\ pc' = "destroy_next"
        /\ sets' = IF SetInUse(cur - 1) THEN sets ELSE {s \in sets : s[1] # cur - 1}
    BY <1>3 DEF DestroySets
  <2>2. Ver' = Ver
    BY <1>i, <1>v, <2>1 DEF WriteVersion
  <2>3. cur = Ver /\ ~SetInUse(cur - 1)
    BY <2>1, LastIsFree
  <2> QED
    BY <2>1, <2>2, <2>3 DEF NearPart, LastGone, Near, At
<1>4. CASE DestroySets("destroy_next", cur + 1, AfterCleanup)
  <2>1. Ver' = Ver
    BY <1>4, <1>i, <1>v DEF DestroySets, WriteVersion
  <2> QED
    BY <1>4, <2>1, NearStill DEF DestroySets
<1>5. CASE StartBuild
  <2>1. /\ pc = "build" /\ pc' = "build_chains"
        /\ sets' \in {sets, sets \cup {<<CurrentVersion + 1, gen + 1>>}}
    BY <1>5 DEF StartBuild
  <2>2. Ver' = Ver /\ CurrentVersion = Ver
    BY <1>i, <1>v, <2>1 DEF WriteVersion, Ver, CurrentVersion
  <2>3. At(Ver - 1)' = {}
    <3>1. At(Ver - 1) = {}
      BY <2>1 DEF NearPart, LastGone
    <3> QED
      BY <1>t, <2>1, <2>2, <3>1 DEF At
  <2>4. Near'
    BY <1>t, <2>1, <2>2 DEF NearPart, Near
  <2> QED
    BY <2>2, <2>3, <2>4 DEF NearPart, LastGone, At
<1>6. CASE Build /\ ~StartBuild
  <2>1. CASE BuildFails
    <3>1. pc \in BuildPhase /\ pc' = "idle" /\ UNCHANGED <<sets, commitFile>>
      BY <2>1 DEF BuildFails
    <3>2. Ver' = Ver
      BY <1>i, <1>v, <3>1 DEF WriteVersion, BuildPhase
    <3> QED
      BY <3>1, <3>2, NearStill DEF InHand, ApplyPhase, CommitPhase, SavePhase
  <2>2. CASE RestoreTable \/ NewChain \/ FillChain \/ StartPrepare \/ PrepareDelegate
    <3>1. pc \in {"build_chains", "prepare"} /\ UNCHANGED <<sets, commitFile>>
      BY <2>2 DEF RestoreTable, NewChain, FillChain, StartPrepare, PrepareDelegate
    <3>2. Ver' = Ver
      BY <1>i, <1>v, <3>1 DEF WriteVersion
    <3>3. InHand
      BY <3>1 DEF InHand
    <3> QED
      BY <3>1, <3>2, <3>3, NearStill
  <2> QED
    BY <1>6, <2>1, <2>2 DEF Build
<1>7. CASE Apply \/ AnswerYes \/ AnswerNo
  <2>1. /\ pc \in {"prepare"} \cup ApplyPhase /\ pc' \in {"idle", "commit"} \cup ApplyPhase
        /\ UNCHANGED <<sets, commitFile>>
    BY <1>7
    DEF Apply, StartApply, ModifyBuiltin, StartUnhook, StartAsking, PromptTimesOut, AnswerYes,
        AnswerNo, Rollback, StartRollbackUnhook, RollbackAborts, StartCommit, ApplyPhase
  <2>2. Ver' = Ver
    BY <1>i, <1>v, <2>1 DEF WriteVersion, ApplyPhase
  <2> QED
    BY <2>1, <2>2, NearStill DEF InHand, ApplyPhase, CommitPhase, SavePhase
<1>8. CASE Commit
  <2>1. pc \in CommitPhase /\ UNCHANGED sets
    BY <1>8
    DEF Commit, DispatchStep, InvalidStep, WriteStep, RenameChain, RenameEnds, RemoveCommitFile,
        TruncateVersion, WriteVersion, CommitPhase
  <2>2. InHand
    BY <2>1 DEF InHand
  <2>3. CASE WriteVersion
    <3>1. pc = "write_version" /\ pc' = "flush_tmp" /\ commitFile' = NoFile /\ Ver' = Ver + 1
      BY <1>t, <2>3 DEF WriteVersion, Ver, StepOfPhase
    <3>2. ~InHand'
      BY <3>1 DEF InHand, ApplyPhase, CommitPhase
    <3>3. Near'
      BY <1>t, <2>1, <2>2, <3>1 DEF NearPart, LastGone, Near, At
    <3> QED
      BY <3>1, <3>2, <3>3 DEF NearPart, LastGone, SavePhase
  <2>4. CASE ~WriteVersion
    <3>1. Ver' = Ver
      BY <1>i, <1>v, <2>1, <2>4 DEF CommitPhase
    <3> QED
      BY <2>1, <2>2, <3>1, NearStill
  <2> QED
    BY <2>3, <2>4
<1>9. CASE Finish
  <2>1. /\ pc \in SavePhase /\ pc' \in {"idle"} \cup SavePhase /\ UNCHANGED <<sets, commitFile>>
    BY <1>9 DEF Finish, FailFileStops, Redirect, RunPostScripts, SavePhase
  <2>2. Ver' = Ver
    BY <1>i, <1>v, <2>1 DEF WriteVersion, SavePhase
  <2> QED
    BY <2>1, <2>2, NearStill
<1>10. CASE Interrupt
  <2>1. /\ pc \notin NumberPhase /\ pc # "idle" /\ pc' = "idle" /\ UNCHANGED <<sets, commitFile>>
    BY <1>10, ConstantsAssumption DEF Interrupt, KillOutsideNumber
  <2>2. Ver' = Ver
    BY <1>i, <1>v, <2>1 DEF WriteVersion, NumberPhase
  <2> QED
    BY <2>1, <2>2, NearStill DEF InHand, ApplyPhase, CommitPhase, SavePhase
<1>11. CASE ForceDeleteCommitFile
  <2>1. Ver' = Ver
    BY <1>11 DEF ForceDeleteCommitFile, Ver
  <2> QED
    BY <1>11, <2>1, NearStill
    DEF ForceDeleteCommitFile, InHand, ApplyPhase, CommitPhase, SavePhase
<1>12. CASE ForeignRule \/ UNCHANGED vars
  <2>1. Ver' = Ver
    BY <1>12 DEF ForeignRule, vars, Ver
  <2> QED
    BY <1>12, <2>1, NearStill DEF ForeignRule, vars, InHand
<1> QED
  BY <1>1, <1>2, <1>3, <1>4, <1>5, <1>6, <1>7, <1>8, <1>9, <1>10, <1>11, <1>12, Zenon
  DEF Next, Progress, Cleanup

LEMMA AloneAlways ==
  ASSUME KillOutsideNumber, ForeignRefs = FALSE
  PROVE  /\ Init => AloneInv
         /\ AloneInv /\ [Next]_vars => AloneInv'
<1>1. Init => AloneInv
  <2> SUFFICES ASSUME Init PROVE AloneInv
    OBVIOUS
  <2>1. SetsInv
    BY SetsInit
  <2>2. Alone /\ NewSets /\ ChainPart /\ NearPart
    BY DEF Init, Alone, NewSets, JustCommitted, CleanupPhase, SavePhase, ChainPart, FullNamed,
           DelFlushed, DelGone, NearPart, LastGone, Near, At
  <2> QED
    BY <2>1, <2>2 DEF AloneInv
<1>2. AloneInv /\ [Next]_vars => AloneInv'
  <2> SUFFICES ASSUME AloneInv, [Next]_vars PROVE AloneInv'
    OBVIOUS
  <2>1. SetsInv' /\ Alone' /\ NewSets' /\ NearPart'
    BY AloneNext, SetsInvNext, NewNext, NearNext DEF AloneInv
  <2>2. ConfirmInv /\ KernelOK /\ TmpFlushed
    BY DEF AloneInv, SetsInv, PathInv, CommitInv, ConfirmInv, TypeInv, TypeOK, CleanPart
  <2>3. \A n \in Names("del") : ~Referenced(n, named["del"][n])
    BY DelUnreferenced DEF AloneInv, Alone
  <2>4. ChainPart'
    BY <2>2, <2>3, NamedNext, DelPartNext DEF AloneInv, ChainPart
  <2> QED
    BY <2>1, <2>4 DEF AloneInv
<1> QED
  BY <1>1, <1>2

\* What the cleanup at the end of a reload leaves, and so what is saved.
LEMMA OnlyTheLast ==
  ASSUME AloneInv, pc \in SavePhase
  PROVE  Names("tmp") = {} /\ Names("del") = {} /\ sets = OwnSets(gen)
<1>1. Names("tmp") = {} /\ Names("del") = {}
  BY DEF AloneInv, SetsInv, CleanPart, NoTmpToSave, ChainPart, DelGone
<1>2. At(Ver - 1) = {} /\ At(Ver + 1) = {} /\ At(Ver) = OwnSets(gen)
  BY DEF AloneInv, NearPart, LastGone, SetsInv, CleanPart, NextGone, NewSets, JustCommitted,
         Pristine
<1>3. \A s \in sets : s[1] \in {Ver - 1, Ver, Ver + 1}
  BY DEF AloneInv, NearPart, Near
<1>4. sets = At(Ver)
  BY <1>2, <1>3 DEF At
<1> QED
  BY <1>1, <1>2, <1>4

\* A reload that applied a ruleset ends with that ruleset alone in the kernel, on a
\* host where no foreign rule holds a chain or a set: every earlier build, given
\* up, rolled back or replaced, has left no chain under CFWTMP_ or CFWDEL_ and no
\* set, however many reloads were interrupted in between.
THEOREM LeavesNothing ==
  ASSUME KillOutsideNumber, ForeignRefs = FALSE
  PROVE  Spec => []NothingLeftOver
<1>1. AloneInv => NothingLeftOver
  BY OnlyTheLast DEF NothingLeftOver, SavePhase
<1> QED
  BY <1>1, AloneAlways, PTL DEF Spec

-----------------------------------------------------------------------------
(* A ruleset that lacks a rule.                                             *)

\* From the build to the save of one reload.
ThisBuild ==
  \/ pc \in {"build_chains", "prepare"} \cup ApplyPhase \cup SavePhase
  \/ pc \in CommitPhase \cup CleanupPhase /\ site = "apply"

\* The failure of a rule is remembered to the end of the reload, which saves the
\* ruleset it applied or nothing.
FlawPart ==
  /\ flawed \subseteq 1..gen
  /\ ThisBuild /\ gen \in flawed => fail
  /\ pc \in SavePhase \ {"check_fail"} => ~fail
  /\ JustCommitted => RealOf(gen)

LEMMA FlawNext ==
  ASSUME CommitInv, FlawPart, [Next]_vars
  PROVE  FlawPart'
<1>t. KernelOK /\ ProcessOK /\ gen \in Nat
  BY DEF CommitInv, ConfirmInv, TypeInv, TypeOK, ProcessOK, Gen
<1> USE DEF Enter, Exit, LoopDone, kernel, files, process, history, FlawPart
\* Most steps neither start a build nor rename a chain to CFW_.
<1>a. ASSUME UNCHANGED <<flawed, gen>>, fail' = fail \/ ~ThisBuild', ThisBuild' => ThisBuild,
             pc' \in SavePhase \ {"check_fail"} => ~fail',
             JustCommitted' => JustCommitted, named'["real"] = named["real"]
      PROVE  FlawPart'
  <2>1. RealOf(gen) => RealOf(gen)'
    BY <1>a DEF RealOf, Names
  <2> QED
    BY <1>a, <2>1
<1>1. CASE Start
  <2>1. ~ThisBuild' /\ ~JustCommitted' /\ pc' \notin SavePhase
    BY <1>1
    DEF Start, StartCommit, StartCleanup, ThisBuild, JustCommitted, ApplyPhase, CommitPhase,
        CleanupPhase, SavePhase
  <2> QED
    BY <1>1, <1>a, <2>1 DEF Start
<1>2. CASE Cleanup
  <2>1. ASSUME NEW phase, NEW p,
               <<phase, p>> \in {<<"remove_tmp", "tmp">>, <<"remove_del", "del">>},
               RemoveChain(phase, p)
        PROVE  FlawPart'
    <3>1. named'["real"] = named["real"]
      BY <1>t, <2>1 DEF RemoveChain, KernelOK, Naming, Prefix
    <3> QED
      BY <1>a, <2>1, <3>1
      DEF RemoveChain, ThisBuild, JustCommitted, CleanupPhase, SavePhase
  <2>2. CASE \/ FlushChain("flush_tmp", "tmp") \/ FlushChain("flush_del", "del")
             \/ CleanupLoopEnds \/ DestroySets("destroy_last", cur - 1, "destroy_next")
    BY <1>a, <2>2
    DEF FlushChain, CleanupLoopEnds, DestroySets, ThisBuild, JustCommitted, CleanupPhase,
        ApplyPhase, CommitPhase, SavePhase
  <2>3. CASE DestroySets("destroy_next", cur + 1, AfterCleanup)
    BY <1>t, <1>a, <2>3
    DEF DestroySets, AfterCleanup, ThisBuild, JustCommitted, CleanupPhase, ApplyPhase,
        CommitPhase, SavePhase, ProcessOK
  <2> QED
    BY <1>2, <2>1, <2>2, <2>3 DEF Cleanup
<1>3. CASE StartBuild
  <2>1. gen' = gen + 1 /\ pc' = "build_chains" /\ flawed' = flawed
    BY <1>3 DEF StartBuild
  <2> QED
    BY <1>t, <2>1 DEF JustCommitted, CleanupPhase, SavePhase
<1>4. CASE FillChain
  <2>1. /\ pc = "build_chains" /\ UNCHANGED <<pc, gen>>
        /\ \/ flawed' = flawed /\ fail' = fail
           \/ flawed' = flawed \cup {gen} /\ fail' = TRUE
    BY <1>4 DEF FillChain, RulesTried
  <2>2. gen \in 1..gen
    BY <1>t, <2>1 DEF CommitInv, ConfirmInv, TypeInv, Loops, GenStarted
  <2> QED
    BY <2>1, <2>2 DEF ThisBuild, JustCommitted, CleanupPhase, SavePhase
<1>5. CASE RestoreTable \/ NewChain \/ StartPrepare \/ PrepareDelegate \/ BuildFails
  <2>1. /\ UNCHANGED <<flawed, gen, fail>> /\ pc \in BuildPhase
        /\ pc' = "idle" \/ (pc' \in {"build_chains", "prepare"} /\ ThisBuild)
    BY <1>5
    DEF RestoreTable, NewChain, StartPrepare, PrepareDelegate, BuildFails, BuildPhase, ThisBuild
  <2> QED
    BY <2>1
    DEF ThisBuild, JustCommitted, BuildPhase, ApplyPhase, CommitPhase, CleanupPhase, SavePhase
<1>6. CASE Apply \/ AnswerYes \/ AnswerNo
  <2>1. /\ UNCHANGED <<flawed, gen, named>> /\ pc \in {"prepare"} \cup ApplyPhase
        /\ \/ pc' = "idle"
           \/ pc' \in {"commit"} \cup ApplyPhase /\ fail' = fail
    BY <1>6
    DEF Apply, StartApply, ModifyBuiltin, StartUnhook, StartAsking, PromptTimesOut, AnswerYes,
        AnswerNo, Rollback, StartRollbackUnhook, RollbackAborts, StartCommit, ApplyPhase
  <2> QED
    BY <1>a, <2>1
    DEF ThisBuild, JustCommitted, ApplyPhase, CommitPhase, CleanupPhase, SavePhase
<1>7. CASE Commit
  <2>1. CASE WriteVersion
    <3>1. /\ pc = "write_version" /\ pc' = "flush_tmp"
          /\ UNCHANGED <<flawed, gen, fail, site, named>>
      BY <2>1 DEF WriteVersion
    <3>2. RealOf(gen)'
      <4>1. RealOf(gen)
        BY <3>1 DEF CommitInv, WholeInv, Shared
      <4> QED
        BY <3>1, <4>1 DEF RealOf, Names
    <3> QED
      BY <3>1, <3>2 DEF ThisBuild, ApplyPhase, CommitPhase, CleanupPhase, SavePhase
  <2>2. CASE ~WriteVersion
    <3>1. /\ UNCHANGED <<flawed, gen>> /\ pc \in CommitPhase
          /\ \/ pc' = "idle"
             \/ pc' \in CommitPhase /\ UNCHANGED <<fail, site>>
      BY <1>7, <2>2
      DEF Commit, DispatchStep, InvalidStep, WriteStep, RenameChain, RenameEnds,
          RemoveCommitFile, TruncateVersion, CommitPhase
    <3> QED
      BY <3>1 DEF ThisBuild, JustCommitted, ApplyPhase, CommitPhase, CleanupPhase, SavePhase
  <2> QED
    BY <2>1, <2>2
<1>8. CASE Finish
  <2>1. /\ UNCHANGED <<flawed, gen, fail, named>> /\ pc \in SavePhase
        /\ pc' \in {"idle"} \cup SavePhase
        /\ pc' \in SavePhase => ~fail
    BY <1>8 DEF Finish, FailFileStops, Redirect, RunPostScripts, SavePhase
  <2> QED
    BY <1>a, <2>1
    DEF ThisBuild, JustCommitted, ApplyPhase, CommitPhase, CleanupPhase, SavePhase
<1>9. CASE Interrupt \/ ForceDeleteCommitFile
  <2>1. UNCHANGED <<flawed, gen, fail>> /\ pc' = "idle"
    BY <1>9 DEF Interrupt, ForceDeleteCommitFile
  <2> QED
    BY <2>1 DEF ThisBuild, JustCommitted, ApplyPhase, CommitPhase, CleanupPhase, SavePhase
<1>10. CASE ForeignRule \/ UNCHANGED vars
  <2>1. UNCHANGED <<flawed, gen, fail, pc, site, named>>
    BY <1>10 DEF ForeignRule, vars
  <2> QED
    BY <2>1 DEF ThisBuild, JustCommitted, RealOf, Names
<1>11. CASE Build
  BY <1>3, <1>4, <1>5, <1>11 DEF Build
<1> QED
  BY <1>1, <1>2, <1>6, <1>7, <1>8, <1>9, <1>10, <1>11, Zenon DEF Next, Progress

LEMMA SavesThisBuild ==
  ASSUME AloneInv, FlawPart, pc \in SavePhase
  PROVE  RulesInKernel \subseteq {gen} /\ SetsInKernel \subseteq {gen}
<1>1. Names("tmp") = {} /\ Names("del") = {} /\ sets = OwnSets(gen) /\ RealOf(gen)
  BY OnlyTheLast DEF FlawPart, JustCommitted
<1>2. \A p \in Prefix, n \in Name : named[p][n] \in {0, gen}
  BY <1>1 DEF Names, RealOf, Prefix
<1> QED
  BY <1>1, <1>2 DEF RulesInKernel, SetsInKernel, OwnSets

\* The boot never brings back a ruleset that lacks a rule: what the three files
\* hold was built without a failure, whatever builds with one were applied,
\* confirmed and committed before, after or in between, and wherever reloads were
\* interrupted.
THEOREM SavesNoFlaw ==
  ASSUME KillOutsideNumber, ForeignRefs = FALSE
  PROVE  Spec => []BootIsFlawless
<1> DEFINE Inv == AloneInv /\ FlawPart /\ BootIsConfirmed /\ BootIsFlawless
<1>1. Init => Inv
  <2> SUFFICES ASSUME Init PROVE Inv
    OBVIOUS
  <2>1. AloneInv
    BY AloneAlways
  <2> QED
    BY <2>1
    DEF Init, FlawPart, ThisBuild, JustCommitted, ApplyPhase, CommitPhase, CleanupPhase,
        SavePhase, BootIsConfirmed, BootIsFlawless
<1>2. Inv /\ [Next]_vars => Inv'
  <2> SUFFICES ASSUME Inv, [Next]_vars PROVE Inv'
    OBVIOUS
  <2>t. SetsInv /\ CommitInv /\ PhaseInv /\ saved \in [SavedFile -> SUBSET Gen]
    BY DEF AloneInv, SetsInv, PathInv, CommitInv, ConfirmInv, TypeInv, TypeOK, FilesOK
  <2>1. AloneInv' /\ FlawPart' /\ BootIsConfirmed'
    BY <2>t, AloneAlways, FlawNext, ConfirmedSaved
  <2>2. BootIsFlawless'
    <3>1. flawed' = flawed \/ saved' = saved
      BY FlawedStill DEF FillChain, files
    <3>2. CASE saved' = saved /\ flawed' # flawed
      <4>1. flawed' = flawed \cup {gen} /\ gen \notin confirmed
        BY <2>t, <3>2, FlawedStill
        DEF FillChain, RulesTried, PhaseInv, Unconfirmed
      <4> QED
        BY <3>2, <4>1 DEF BootIsConfirmed, BootIsFlawless
    <3>3. CASE flawed' = flawed
      <4>1. CASE saved' = saved
        BY <3>3, <4>1 DEF BootIsFlawless
      <4>2. CASE Finish /\ saved' # saved
        <5>1. pc \in SavePhase
          BY <4>2 DEF Finish, FailFileStops, Redirect, RunPostScripts, SavePhase
        <5>2. RulesInKernel \subseteq {gen} /\ SetsInKernel \subseteq {gen}
          BY <5>1, SavesThisBuild
        <5>3. \A f \in SavedFile :
                saved'[f] \in {{}, saved[f]}
                  \cup IF pc = "check_fail" THEN {} ELSE {RulesInKernel, SetsInKernel}
          <6> HIDE DEF RulesInKernel, SetsInKernel
          <6> QED
            BY <2>t, <4>2
            DEF Finish, FailFileStops, Redirect, RunPostScripts, SavedFile, files
        <5>4. pc # "check_fail" => gen \notin flawed
          BY <5>1 DEF FlawPart, ThisBuild
        <5> QED
          BY <3>3, <5>2, <5>3, <5>4 DEF BootIsFlawless
      <4> QED
        BY <4>1, <4>2, SavedStill
    <3> QED
      BY <3>1, <3>2, <3>3
  <2> QED
    BY <2>1, <2>2
<1> QED
  BY <1>1, <1>2, PTL DEF Spec
=============================================================================
