---------------------------- MODULE FwLiveProofs ----------------------------
(***************************************************************************)
(* A ruleset decides at every moment, it is the confirmed one alone between *)
(* reloads, and the reload implements CommitConfirm: the inductive          *)
(* invariants behind them, and the theorems.                                *)
(*                                                                          *)
(* The argument follows the ruleset in charge through the reload.  Its      *)
(* chains are under CFW_ except while a commit renames (Live); its rules    *)
(* are all there, which no flush of the cleanup can change, since the two   *)
(* prefixes it goes over share no chain with CFW_ (LiveFilled); and its     *)
(* delegates come first at their hooks until fw_apply unhooks them behind   *)
(* the ones on trial (LiveFirst, LiveUnhooking, RollingBack).               *)
(*                                                                          *)
(* All of it holds for a reload that is not interrupted between the first   *)
(* unhooking and the moment the commit file names a step that can be        *)
(* resumed.  Interrupted there, CFWTMP_ is in the path and the next cleanup *)
(* flushes it: the run `prompt` has the counterexample.                     *)
(*                                                                          *)
(* For the refinement, a step of the reload is a step of CommitConfirm or   *)
(* moves no packet: the hook loops and the flushes of the cleanup are       *)
(* switches at one hook, the y is the confirmation, the last delegate that  *)
(* goes is the withdrawal.                                                  *)
(***************************************************************************)
EXTENDS FwCommitProofs

TrialPhase == {"unhook", "ask", "rb_hook", "rb_unhook", "commit", "write_r2d", "write_t2r"}
KillOutsideTrial == KillAt \cap TrialPhase = {}

\* Every ruleset is one of the configurations.
Declared == \A g \in Gen : g <= gen => content[g] \in Config

\* CFWDEL_ names chains that were confirmed once, and no others do.
DelApart ==
  \A n \in Names("del") :
    /\ named["del"][n] \in confirmed
    /\ named["del"][n] \notin {named["real"][n], named["tmp"][n]}

\* From the y to the last rename, CFW_ is not what is confirmed.
Committing ==
  commitFile # NoFile \/ pc \in CommitPhase \ {"truncate_version", "write_version"}
IsLive(g) == Names("real") = Whole(g) /\ RealOf(g)
Settled == ~Committing => IF confirmed = {} THEN Names("real") = {} ELSE IsLive(Running)
Renamed == commitFile = Empty /\ pc \notin {"write_r2d", "write_t2r"} => IsLive(gen)
NamePart == Declared /\ DelApart /\ Settled /\ Renamed

\* Which chains hold their rules.
Filled(g, names) == {g} \X names \subseteq full
LiveFilled == confirmed # {} => Filled(Running, Whole(Running))
BuildFilled ==
  /\ pc = "build_chains" => Filled(gen, content[gen] \ todo)
  /\ pc = "prepare" => Filled(gen, Whole(gen) \ todo)
  /\ pc \in ApplyPhase \/ AppliedPhase => Filled(gen, Whole(gen))
FillPart == LiveFilled /\ BuildFilled

\* A packet meets the live ruleset first.
First(h) == named["real"][h] # 0 => jump[h] # <<>> /\ jump[h][1] = named["real"][h]
LiveFirst ==
  ~AppliedPhase /\ pc \notin {"unhook", "rb_hook", "rb_unhook"} => \A h \in Hook : First(h)
LiveUnhooking == pc = "unhook" => \A h \in todo : First(h)
RollingBack ==
  /\ pc = "rb_hook" =>
       /\ \A h \in Delegates("tmp") : Hooked(gen, h)
       /\ \A h \in Delegates("real") \ todo : Hooked(named["real"][h], h)
  /\ pc = "rb_unhook" =>
       /\ \A h \in Delegates("real") : Hooked(named["real"][h], h)
       /\ \A h \in Delegates("tmp") \ todo : Unhooked(gen, h)
       /\ todo \subseteq Delegates("tmp")
FirstPart == LiveFirst /\ LiveUnhooking /\ RollingBack

LiveInv == PathInv /\ NamePart /\ FillPart /\ FirstPart

-----------------------------------------------------------------------------
(* The ruleset in charge.                                                   *)

\* The last one confirmed is one of them.
LEMMA RunningConfirmed ==
  ASSUME HistoryOK, confirmed # {}
  PROVE  Running \in confirmed /\ \A g \in confirmed : g <= Running
<1> DEFINE T == {MaxGen - g : g \in confirmed}
<1>1. MaxGen \in Nat /\ \A g \in confirmed : g \in 1..MaxGen
  BY ConstantsAssumption DEF HistoryOK, Gen
<1>2. T \in SUBSET Nat /\ T # {}
  BY <1>1
<1>3. Min(T) \in T /\ \A y \in T : Min(T) <= y
  <2> HIDE DEF T
  <2> QED  BY <1>2, MinOfNat
<1>4. PICK g \in confirmed : Min(T) = MaxGen - g
  BY <1>3
<1>5. ASSUME NEW x \in confirmed
      PROVE  x <= g
  <2>1. MaxGen - x \in T
    OBVIOUS
  <2>2. MaxGen - g <= MaxGen - x
    BY <1>3, <1>4, <2>1
  <2> QED
    BY <1>1, <2>2
<1> QED
  BY <1>5 DEF Running

\* A generation that is confirmed at all is the last one, as long as it is the
\* one the reload works on.
LEMMA RunningIsGen ==
  ASSUME ConfirmInv, gen \in confirmed
  PROVE  Running = gen /\ gen \in Gen
<1>1. \A g \in confirmed : g <= gen /\ g \in Nat
  BY DEF ConfirmInv, NamesInv, ConfirmedBefore, TypeInv, TypeOK, HistoryOK, Gen
<1>2. gen \in Gen
  BY DEF ConfirmInv, TypeInv, TypeOK, HistoryOK
<1> QED
  BY <1>1, <1>2 DEF Running

-----------------------------------------------------------------------------
(* What CFWDEL_ names, whatever the phases a reload dies in.                *)

LEMMA DelStill ==
  ASSUME DelApart, named' = named, confirmed \subseteq confirmed'
  PROVE  DelApart'
BY DEF DelApart, Names

LEMMA DelRemove ==
  ASSUME KernelOK, DelApart, NEW phase, NEW p \in {"tmp", "del"}, RemoveChain(phase, p)
  PROVE  DelApart'
<1>1. UNCHANGED confirmed /\ \E n \in todo : named' = named \/ named' = [named EXCEPT ![p][n] = 0]
  BY DEF RemoveChain, history
<1>2. PICK m \in todo : named' = named \/ named' = [named EXCEPT ![p][m] = 0]
  BY <1>1
<1>3. /\ named'["real"] = named["real"]
      /\ \A n \in Name : named'["tmp"][n] \in {0, named["tmp"][n]}
      /\ \A n \in Name : named'["del"][n] \in {0, named["del"][n]}
  <2>1. CASE p = "tmp"
    BY <1>2, <2>1 DEF KernelOK, Naming, Prefix
  <2>2. CASE p = "del"
    BY <1>2, <2>2 DEF KernelOK, Naming, Prefix
  <2> QED
    BY <2>1, <2>2
<1> QED
  BY <1>1, <1>3 DEF DelApart, Names

LEMMA DelBuild ==
  ASSUME KernelOK, DelApart, NEW cs, NameTmp(cs), gen \notin confirmed, UNCHANGED confirmed
  PROVE  DelApart'
<1>1. /\ named'["real"] = named["real"] /\ named'["del"] = named["del"]
      /\ \A n \in Name : named'["tmp"][n] \in {gen, named["tmp"][n]}
  BY DEF NameTmp, KernelOK, Naming, Prefix
<1> QED
  BY <1>1 DEF DelApart, Names

LEMMA DelRename ==
  ASSUME KernelOK, NamesInv, DelApart, NEW phase, NEW from, NEW to,
         <<from, to>> \in {<<"real", "del">>, <<"tmp", "real">>},
         RenameChain(phase, from, to)
  PROVE  DelApart'
<1>1. UNCHANGED confirmed
  BY DEF RenameChain, history
<1>2. CASE named' = named
  BY <1>1, <1>2, DelStill
<1>3. CASE named' # named
  <2>1. PICK n \in Names(from) :
          named' = [named EXCEPT ![to][n] = named[from][n], ![from][n] = 0]
    BY <1>3 DEF RenameChain
  <2>2. CASE from = "real"
    <3>1. /\ named'["tmp"] = named["tmp"] /\ n \in Name /\ named["real"][n] # 0
          /\ \A x \in Name : named'["real"][x] = IF x = n THEN 0 ELSE named["real"][x]
          /\ \A x \in Name : named'["del"][x] = IF x = n THEN named["real"][n] ELSE named["del"][x]
      BY <2>1, <2>2 DEF KernelOK, Naming, Prefix, Names
    <3>2. named["real"][n] \in confirmed
      BY <2>1, <2>2 DEF NamesInv, RealConfirmed
    <3>3. named["real"][n] # named["tmp"][n]
      BY <3>1 DEF NamesInv, TmpApart, Names
    <3> QED
      BY <1>1, <3>1, <3>2, <3>3 DEF DelApart, Names
  <2>3. CASE from = "tmp"
    <3>1. /\ named'["del"] = named["del"] /\ n \in Name
          /\ \A x \in Name : named'["tmp"][x] = IF x = n THEN 0 ELSE named["tmp"][x]
          /\ \A x \in Name : named'["real"][x] = IF x = n THEN named["tmp"][n] ELSE named["real"][x]
      BY <2>1, <2>3 DEF KernelOK, Naming, Prefix, Names
    <3> QED
      BY <1>1, <3>1 DEF DelApart, Names
  <2> QED
    BY <2>2, <2>3
<1> QED
  BY <1>2, <1>3

LEMMA DelNext == ConfirmInv /\ DelApart /\ [Next]_vars => DelApart'
<1> SUFFICES ASSUME ConfirmInv, DelApart, [Next]_vars
             PROVE  DelApart'
  OBVIOUS
<1>t. KernelOK /\ NamesInv /\ Unconfirmed
  BY DEF ConfirmInv, TypeInv, TypeOK, PhaseInv
<1>1. CASE named' = named /\ confirmed \subseteq confirmed'
  BY <1>1, DelStill
<1>2. CASE RemoveChain("remove_tmp", "tmp") \/ RemoveChain("remove_del", "del")
  BY <1>2, <1>t, DelRemove
<1>3. ASSUME RestoreTable \/ NewChain \/ PrepareDelegate
      PROVE  DelApart'
  <2>1. PICK cs : NameTmp(cs) /\ pc \in {"build_chains", "prepare"} /\ UNCHANGED confirmed
    BY <1>3 DEF RestoreTable, NewChain, PrepareDelegate, history
  <2>2. gen \notin confirmed
    BY <1>t, <2>1 DEF Unconfirmed
  <2> QED
    BY <1>t, <2>1, <2>2, DelBuild
<1>4. CASE RenameChain("real_to_delete", "real", "del") \/ RenameChain("tmp_to_real", "tmp", "real")
  BY <1>4, <1>t, DelRename
<1>5. CASE Start \/ Cleanup
  BY <1>1, <1>2, <1>5
  DEF Start, Cleanup, FlushChain, CleanupLoopEnds, DestroySets, kernel, history
<1>6. CASE Build
  BY <1>1, <1>3, <1>6
  DEF Build, StartBuild, FillChain, StartPrepare, BuildFails, kernel, history
<1>7. CASE Apply \/ AnswerYes \/ AnswerNo
  BY <1>1, <1>7
  DEF Apply, StartApply, ModifyBuiltin, StartUnhook, StartAsking, PromptTimesOut, AnswerYes,
      AnswerNo, Rollback, StartRollbackUnhook, RollbackAborts, kernel, history
<1>8. CASE Commit
  BY <1>1, <1>4, <1>8
  DEF Commit, DispatchStep, InvalidStep, WriteStep, RenameEnds, RemoveCommitFile,
      TruncateVersion, WriteVersion, kernel, history
<1>9. CASE Finish \/ Interrupt \/ ForceDeleteCommitFile \/ ForeignRule \/ UNCHANGED vars
  BY <1>1, <1>9
  DEF Finish, FailFileStops, Redirect, RunPostScripts, Interrupt, ForceDeleteCommitFile,
      ForeignRule, vars, kernel, history
<1> QED
  BY <1>5, <1>6, <1>7, <1>8, <1>9 DEF Next, Progress

-----------------------------------------------------------------------------
(* The names of the live ruleset.                                           *)

\* A step that leaves the names alone and does not end a commit.
LEMMA NameStill ==
  ASSUME NamePart, DelApart', Still, UNCHANGED confirmed,
         Committing => Committing',
         Renamed' \/ (commitFile' = Empty /\ pc' \notin {"write_r2d", "write_t2r"} =>
                        commitFile = Empty /\ pc \notin {"write_r2d", "write_t2r"})
  PROVE  NamePart'
<1>1. Declared'
  BY DEF NamePart, Declared, Still
<1>2. \A g : IsLive(g)' <=> IsLive(g)
  BY StillNames DEF IsLive
<1>3. Running' = Running /\ gen' = gen
  BY DEF Running, Still
<1>4. Settled'
  BY <1>2, <1>3, StillNames DEF NamePart, Settled
<1>5. Renamed'
  BY <1>2, <1>3 DEF NamePart, Renamed
<1> QED
  BY <1>1, <1>4, <1>5 DEF NamePart

\* A step between two commits that leaves CFW_ alone.
LEMMA NameAside ==
  ASSUME NamePart, UNCHANGED <<content, gen, confirmed, pc, commitFile>>, commitFile = NoFile,
         named'["real"] = named["real"], DelApart'
  PROVE  NamePart'
<1>1. Declared'
  BY DEF NamePart, Declared
<1>2. Names("real")' = Names("real") /\ Running' = Running
  BY DEF Names, Running
<1>3. \A g : IsLive(g)' <=> IsLive(g)
  BY <1>2 DEF IsLive, Whole, HooksOf, RealOf
<1>4. Settled'
  BY <1>2, <1>3 DEF NamePart, Settled, Committing
<1>5. Renamed'
  BY DEF Renamed, NoFile, Empty
<1> QED
  BY <1>1, <1>4, <1>5, Zenon DEF NamePart

LEMMA NameRemove ==
  ASSUME PathInv, NamePart, DelApart', NEW phase, NEW p,
         <<phase, p>> \in {<<"remove_tmp", "tmp">>, <<"remove_del", "del">>},
         RemoveChain(phase, p)
  PROVE  NamePart'
<1>t. KernelOK
  BY DEF PathInv, CommitInv, ConfirmInv, TypeInv, TypeOK
<1>1. /\ UNCHANGED <<content, gen, confirmed, pc, commitFile>> /\ pc = phase
      /\ p \in {"tmp", "del"}
      /\ \E n \in todo : named' = named \/ named' = [named EXCEPT ![p][n] = 0]
  BY DEF RemoveChain, files, history
<1>2. commitFile = NoFile
  BY <1>1 DEF PathInv, CommitInv, ConfirmInv, PhaseInv, CommitFileOwner, CommitPhase
<1>3. named'["real"] = named["real"]
  BY <1>t, <1>1 DEF KernelOK, Naming, Prefix
<1> QED
  BY <1>1, <1>2, <1>3, NameAside

LEMMA NameTmpStep ==
  ASSUME PathInv, NamePart, DelApart', NEW cs, NameTmp(cs), pc \in {"build_chains", "prepare"},
         UNCHANGED <<content, gen, confirmed, pc, commitFile>>
  PROVE  NamePart'
<1>t. KernelOK
  BY DEF PathInv, CommitInv, ConfirmInv, TypeInv, TypeOK
<1>1. commitFile = NoFile
  BY DEF PathInv, CommitInv, ConfirmInv, PhaseInv, CommitFileOwner, CommitPhase
<1>2. named'["real"] = named["real"]
  BY <1>t DEF NameTmp, KernelOK, Naming, Prefix
<1> QED
  BY <1>1, <1>2, NameAside

LEMMA NameStartBuild ==
  ASSUME PathInv, NamePart, DelApart', StartBuild
  PROVE  NamePart'
<1>t. ProcessOK /\ HistoryOK
  BY DEF PathInv, CommitInv, ConfirmInv, TypeInv, TypeOK
<1>1. PICK c \in Config : content' = [content EXCEPT ![gen + 1] = c]
  BY DEF StartBuild
<1>2. /\ pc = "build" /\ pc' = "build_chains" /\ gen' = gen + 1 /\ gen + 1 \in Gen
      /\ gen \in Nat /\ UNCHANGED <<named, commitFile, confirmed>>
  BY <1>t, ConstantsAssumption DEF StartBuild, Enter, ProcessOK, Gen
<1>3. commitFile = NoFile
  BY <1>2 DEF PathInv, CommitInv, ConfirmInv, PhaseInv, CommitFileOwner, CommitPhase
<1>4. content'[gen'] = c /\ \A g \in Gen : g # gen' => content'[g] = content[g]
  BY <1>t, <1>1, <1>2 DEF HistoryOK
<1>5. Declared'
  <2> SUFFICES ASSUME NEW g \in Gen, g <= gen'
               PROVE  content'[g] \in Config
    BY DEF Declared
  <2>1. g = gen' \/ g <= gen
    BY <1>2 DEF Gen
  <2> QED
    BY <1>2, <1>4, <2>1 DEF NamePart, Declared
<1>7. Names("real")' = Names("real") /\ Running' = Running
  BY <1>2 DEF Names, Running
<1>8. Settled'
  <2>1. CASE confirmed = {}
    BY <1>2, <1>3, <1>7, <2>1 DEF NamePart, Settled, Committing, CommitPhase
  <2>2. CASE confirmed # {}
    <3>1. Running \in Gen /\ Running <= gen
      BY <1>t, <2>2, RunningConfirmed
      DEF HistoryOK, PathInv, CommitInv, ConfirmInv, NamesInv, ConfirmedBefore
    <3>2. Running # gen'
      BY <1>2, <3>1 DEF Gen
    <3>3. IsLive(Running)
      BY <1>2, <1>3, <2>2 DEF NamePart, Settled, Committing, CommitPhase
    <3>4. Whole(Running)' = Whole(Running)
      BY <1>4, <1>7, <3>1, <3>2 DEF Whole, HooksOf
    <3>5. IsLive(Running)'
      BY <1>2, <1>7, <3>3, <3>4 DEF IsLive, RealOf
    <3> QED
      BY <1>2, <2>2, <3>5 DEF Settled
  <2> QED
    BY <2>1, <2>2
<1>9. Renamed'
  BY <1>2, <1>3 DEF Renamed, NoFile, Empty
<1> QED
  BY <1>5, <1>8, <1>9 DEF NamePart

LEMMA NameRename ==
  ASSUME PathInv, NamePart, DelApart', NEW phase, NEW from, NEW to,
         <<phase, from, to>> \in {<<"real_to_delete", "real", "del">>,
                                  <<"tmp_to_real", "tmp", "real">>},
         RenameChain(phase, from, to)
  PROVE  NamePart'
<1>t. KernelOK /\ StepOfPhase /\ NamesInv
  BY DEF PathInv, CommitInv, ConfirmInv, TypeInv, TypeOK, WholeInv
<1>1. UNCHANGED <<content, gen, confirmed, commitFile>> /\ pc = phase
  BY DEF RenameChain, files, history, process, Exit
<1>2. commitFile \notin {NoFile, Empty}
  BY <1>t, <1>1 DEF StepOfPhase, NoFile, Empty
<1>3. Declared' /\ Settled' /\ Renamed'
  BY <1>1, <1>2 DEF NamePart, Declared, Settled, Renamed, Committing
<1> QED
  BY <1>3 DEF NamePart

\* The end of a commit: what was renamed is what was confirmed last.
LEMMA NameCommitted ==
  ASSUME PathInv, NamePart, DelApart', Still, UNCHANGED confirmed, gen \in confirmed, IsLive(gen)
  PROVE  NamePart'
<1>1. Declared'
  BY DEF NamePart, Declared, Still
<1>2. IsLive(gen)' /\ gen' = gen
  BY StillNames DEF IsLive, Still
<1>3. Running' = gen
  BY RunningIsGen DEF Running, PathInv, CommitInv
<1> QED
  BY <1>1, <1>2, <1>3 DEF NamePart, Settled, Renamed

LEMMA NameNext == KillOutsideTrial /\ PathInv /\ NamePart /\ [Next]_vars => NamePart'
<1> SUFFICES ASSUME KillOutsideTrial, PathInv, NamePart, [Next]_vars
             PROVE  NamePart'
  OBVIOUS
<1>t. /\ PhaseInv /\ CommitOfConfirmed /\ CommitFileOwner /\ WholeInv /\ StepOfPhase /\ Shared
  BY DEF PathInv, CommitInv, ConfirmInv, PhaseInv, WholeInv
<1>d. DelApart'
  BY DelNext DEF PathInv, CommitInv, NamePart
<1> USE DEF Enter, Exit, kernel, files, process, history, Still, Committing, LoopDone
<1>1. CASE Start
  BY <1>1, <1>d, NameStill DEF Start, StartCommit, StartCleanup, CommitPhase
<1>2. CASE Cleanup
  <2>1. ASSUME FlushChain("flush_tmp", "tmp") \/ FlushChain("flush_del", "del")
               \/ CleanupLoopEnds \/ DestroySets("destroy_last", cur - 1, "destroy_next")
               \/ DestroySets("destroy_next", cur + 1, AfterCleanup)
        PROVE  NamePart'
    BY <2>1, <1>d, NameStill DEF FlushChain, CleanupLoopEnds, DestroySets, CommitPhase
  <2> QED
    BY <1>2, <2>1, <1>d, NameRemove DEF Cleanup
<1>3. CASE Build
  <2>1. CASE FillChain \/ StartPrepare \/ BuildFails
    BY <2>1, <1>d, NameStill DEF FillChain, StartPrepare, BuildFails, CommitPhase, BuildPhase
  <2>2. ASSUME RestoreTable \/ NewChain \/ PrepareDelegate
        PROVE  \E cs : NameTmp(cs) /\ pc \in {"build_chains", "prepare"}
                         /\ UNCHANGED <<content, gen, confirmed, pc, commitFile>>
    BY <2>2 DEF RestoreTable, NewChain, PrepareDelegate
  <2> QED
    BY <1>3, <2>1, <2>2, <1>d, NameTmpStep, NameStartBuild DEF Build
<1>4. CASE Apply \/ AnswerNo
  BY <1>4, <1>d, NameStill
  DEF Apply, StartApply, ModifyBuiltin, StartUnhook, StartAsking, PromptTimesOut, AnswerNo,
      Rollback, StartRollbackUnhook, RollbackAborts, CommitPhase
<1>5. CASE AnswerYes
  <2>1. commitFile = NoFile /\ pc' = "commit" /\ UNCHANGED <<commitFile, named, content, gen>>
        /\ confirmed \subseteq confirmed'
    BY <1>5, <1>t DEF AnswerYes, StartCommit, CommitFileOwner, CommitPhase
  <2>2. Declared'
    BY <2>1 DEF NamePart, Declared
  <2> QED
    BY <2>1, <2>2, <1>d DEF NamePart, Settled, Renamed, CommitPhase, NoFile, Empty
<1>6. CASE Commit
  <2>1. CASE DispatchStep \/ InvalidStep \/ WriteVersion \/ TruncateVersion
             \/ WriteStep("write_r2d", "rename_chain_real_to_delete")
             \/ RenameEnds("real_to_delete", "real", "write_t2r")
             \/ WriteStep("write_t2r", "rename_chain_tmp_to_real")
             \/ WriteStep("write_done", "done")
    BY <2>1, <1>t, <1>d, NameStill
    DEF DispatchStep, InvalidStep, WriteStep, RenameEnds, TruncateVersion, WriteVersion,
        CommitPhase, NoFile, Empty, StepOfPhase
  <2>2. ASSUME RenameEnds("tmp_to_real", "tmp", "write_done") \/ RemoveCommitFile
        PROVE  NamePart'
    <3>1. Still /\ UNCHANGED confirmed /\ gen \in confirmed
      BY <2>2, <1>t DEF RenameEnds, RemoveCommitFile, CommitOfConfirmed, CommitPhase
    <3>2. IsLive(gen)
      BY <2>2, <1>t DEF RenameEnds, RemoveCommitFile, StepOfPhase, Shared, IsLive, NoFile
    <3> QED
      BY <3>1, <3>2, <1>d, NameCommitted
  <2> QED
    BY <1>6, <2>1, <2>2, <1>d, NameRename DEF Commit
<1>7. CASE Finish
  BY <1>7, <1>d, NameStill
  DEF Finish, FailFileStops, Redirect, RunPostScripts, CommitPhase
<1>8. CASE Interrupt
  <2>1. pc \notin TrialPhase /\ pc' = "idle" /\ Still /\ UNCHANGED <<commitFile, confirmed>>
    BY <1>8 DEF Interrupt, KillOutsideTrial
  <2> QED
    BY <2>1, <1>t, <1>d, NameStill DEF TrialPhase, StepOfPhase, CommitPhase, NoFile, Empty
<1>9. CASE ForceDeleteCommitFile
  <2>1. gen \in confirmed /\ IsLive(gen)
    BY <1>9, <1>t DEF ForceDeleteCommitFile, CommitOfConfirmed, NamePart, Renamed, NoFile, Empty
  <2> QED
    BY <1>9, <2>1, <1>d, NameCommitted DEF ForceDeleteCommitFile
<1>10. CASE ForeignRule \/ UNCHANGED vars
  BY <1>10, <1>d, NameStill DEF ForeignRule, vars
<1> QED
  BY <1>1, <1>2, <1>3, <1>4, <1>5, <1>6, <1>7, <1>8, <1>9, <1>10 DEF Next, Progress

-----------------------------------------------------------------------------
(* The rules of the live ruleset.                                           *)

\* A step outside the build that takes no rule away and starts no trial.
LEMMA FillStill ==
  ASSUME FillPart, full \subseteq full', UNCHANGED <<content, gen, confirmed>>,
         pc' \notin {"build_chains", "prepare"},
         pc' \in ApplyPhase \/ AppliedPhase' => pc \in ApplyPhase \/ AppliedPhase
  PROVE  FillPart'
<1>1. Running' = Running /\ \A g : Whole(g)' = Whole(g)
  BY DEF Running, Whole, HooksOf
<1>2. LiveFilled'
  BY <1>1 DEF FillPart, LiveFilled, Filled
<1>3. BuildFilled'
  BY <1>1 DEF FillPart, BuildFilled, Filled
<1> QED
  BY <1>2, <1>3 DEF FillPart

\* A step of the build: what it filled is what its loop has left behind.
LEMMA FillBuild ==
  ASSUME ConfirmInv, FillPart, full \subseteq full', UNCHANGED <<content, gen, confirmed, commitFile>>,
         pc \in {"build_chains", "prepare"}, pc' \in {"build_chains", "prepare", "hook"},
         pc' = "build_chains" => Filled(gen, content[gen] \ todo)',
         pc' = "prepare" => Filled(gen, Whole(gen) \ todo)',
         pc' = "hook" => Filled(gen, Whole(gen))'
  PROVE  FillPart'
<1>1. Running' = Running /\ \A g : Whole(g)' = Whole(g)
  BY DEF Running, Whole, HooksOf
<1>2. LiveFilled'
  BY <1>1 DEF FillPart, LiveFilled, Filled
<1>3. commitFile' = NoFile
  BY DEF ConfirmInv, PhaseInv, CommitFileOwner, CommitPhase
<1>4. BuildFilled'
  BY <1>3 DEF BuildFilled, ApplyPhase, AppliedPhase, CommitPhase
<1> QED
  BY <1>2, <1>4 DEF FillPart

\* Behind the loops of the build, every chain and delegate has its rules.
LEMMA FilledBuilding ==
  ASSUME TypeInv, ChainsBuilt,
         pc = "build_chains" => Filled(gen, content[gen] \ todo),
         pc = "prepare" => Filled(gen, Whole(gen) \ todo),
         RestoreTable \/ NewChain \/ FillChain \/ StartPrepare \/ PrepareDelegate \/ StartApply
  PROVE  /\ pc' = "build_chains" => Filled(gen, content[gen] \ todo)'
         /\ pc' = "prepare" => Filled(gen, Whole(gen) \ todo)'
         /\ pc' = "hook" => Filled(gen, Whole(gen))'
         /\ pc \in {"build_chains", "prepare"} /\ pc' \in {"build_chains", "prepare", "hook"}
         /\ full \subseteq full'
<1>0. UNCHANGED <<content, gen>> /\ \A g : Whole(g)' = Whole(g)
  BY DEF RestoreTable, NewChain, FillChain, StartPrepare, PrepareDelegate, StartApply, history,
         process, Whole, HooksOf
<1> USE DEF Enter, LoopDone, kernel, process, Filled
<1>1. CASE RestoreTable
  <2>1. PICK t \in {TableOf[c] : c \in todo} :
          /\ full' = full \cup ({gen} \X {c \in todo : TableOf[c] = t})
          /\ todo' = todo \ {c \in todo : TableOf[c] = t}
    BY <1>1 DEF RestoreTable
  <2>2. pc = "build_chains" /\ pc' = pc
    BY <1>1 DEF RestoreTable
  <2> QED
    BY <1>0, <2>1, <2>2
<1>2. CASE NewChain
  BY <1>0, <1>2 DEF NewChain
<1>3. CASE FillChain
  <2>1. PICK c \in todo : full' = full \cup {<<gen, c>>} /\ todo' = todo \ {c}
    BY <1>3 DEF FillChain
  <2>2. pc = "build_chains" /\ pc' = pc
    BY <1>3 DEF FillChain
  <2> QED
    BY <1>0, <2>1, <2>2
<1>4. CASE StartPrepare
  <2>1. /\ pc = "build_chains" /\ pc' = "prepare" /\ todo = {} /\ todo' = WantedHooks
        /\ full' = full
    BY <1>4 DEF StartPrepare
  <2>2. gen \in Gen /\ HistoryOK
    BY <2>1 DEF TypeInv, TypeOK, ProcessOK, Loops, GenStarted
  <2>3. Names("tmp") = content[gen]
    BY <2>1 DEF ChainsBuilt
  <2>4. WantedHooks = HooksOf(gen)
    BY <2>2, <2>3, WholeNames DEF WantedHooks, HooksOf
  <2> QED
    BY <1>0, <2>1, <2>4 DEF Whole
<1>5. CASE PrepareDelegate
  <2>1. PICK h \in todo : full' = full \cup {<<gen, h>>} /\ todo' = todo \ {h}
    BY <1>5 DEF PrepareDelegate
  <2>2. pc = "prepare" /\ pc' = pc
    BY <1>5 DEF PrepareDelegate
  <2> QED
    BY <1>0, <2>1, <2>2
<1>6. CASE StartApply
  BY <1>0, <1>6 DEF StartApply
<1> QED
  BY <1>1, <1>2, <1>3, <1>4, <1>5, <1>6

LEMMA FillBuilding ==
  ASSUME PathInv, FillPart,
         RestoreTable \/ NewChain \/ FillChain \/ StartPrepare \/ PrepareDelegate \/ StartApply
  PROVE  FillPart'
<1>t. ConfirmInv /\ TypeInv /\ ChainsBuilt
  BY DEF PathInv, CommitInv, ConfirmInv, WholeInv
<1>1. UNCHANGED <<content, gen, confirmed, commitFile>>
  BY DEF RestoreTable, NewChain, FillChain, StartPrepare, PrepareDelegate, StartApply, files,
         history, process
<1>2. /\ pc = "build_chains" => Filled(gen, content[gen] \ todo)
      /\ pc = "prepare" => Filled(gen, Whole(gen) \ todo)
  BY DEF FillPart, BuildFilled
<1>3. /\ pc' = "build_chains" => Filled(gen, content[gen] \ todo)'
      /\ pc' = "prepare" => Filled(gen, Whole(gen) \ todo)'
      /\ pc' = "hook" => Filled(gen, Whole(gen))'
      /\ pc \in {"build_chains", "prepare"} /\ pc' \in {"build_chains", "prepare", "hook"}
      /\ full \subseteq full'
  BY <1>t, <1>2, FilledBuilding
<1> QED
  BY <1>t, <1>1, <1>3, FillBuild

LEMMA FillStartBuild ==
  ASSUME PathInv, FillPart, StartBuild
  PROVE  FillPart'
<1>t. ProcessOK /\ HistoryOK
  BY DEF PathInv, CommitInv, ConfirmInv, TypeInv, TypeOK
<1>1. PICK c \in Config : content' = [content EXCEPT ![gen + 1] = c] /\ todo' = c
  BY DEF StartBuild, Enter
<1>2. /\ pc = "build" /\ pc' = "build_chains" /\ gen' = gen + 1 /\ gen + 1 \in Gen
      /\ gen \in Nat /\ UNCHANGED <<full, commitFile, confirmed>>
  BY <1>t, ConstantsAssumption DEF StartBuild, Enter, ProcessOK, Gen
<1>3. commitFile = NoFile
  BY <1>2 DEF PathInv, CommitInv, ConfirmInv, PhaseInv, CommitFileOwner, CommitPhase
<1>4. content'[gen'] = c /\ \A g \in Gen : g # gen' => content'[g] = content[g]
  BY <1>t, <1>1, <1>2 DEF HistoryOK
<1>5. LiveFilled'
  <2> SUFFICES ASSUME confirmed # {}
               PROVE  Filled(Running, Whole(Running))'
    BY <1>2 DEF LiveFilled
  <2>1. Running \in Gen /\ Running <= gen
    BY <1>t, RunningConfirmed
    DEF HistoryOK, PathInv, CommitInv, ConfirmInv, NamesInv, ConfirmedBefore
  <2>2. Running # gen' /\ Running' = Running
    BY <1>2, <2>1 DEF Gen, Running
  <2>3. Whole(Running)' = Whole(Running)
    BY <1>4, <2>1, <2>2 DEF Whole, HooksOf
  <2> QED
    BY <1>2, <2>2, <2>3 DEF FillPart, LiveFilled, Filled
<1>6. BuildFilled'
  BY <1>1, <1>2, <1>3, <1>4 DEF BuildFilled, Filled, ApplyPhase, AppliedPhase, CommitPhase
<1> QED
  BY <1>5, <1>6 DEF FillPart

\* The cleanup flushes chains of CFWTMP_ and CFWDEL_, none of which is in charge.
LEMMA FillFlush ==
  ASSUME PathInv, NamePart, FillPart, NEW phase, NEW p,
         <<phase, p>> \in {<<"flush_tmp", "tmp">>, <<"flush_del", "del">>},
         FlushChain(phase, p)
  PROVE  FillPart'
<1>t. ConfirmInv /\ HistoryOK /\ ProcessOK /\ TmpApart
  BY DEF PathInv, CommitInv, ConfirmInv, TypeInv, TypeOK, NamesInv
<1>1. PICK n \in todo : full' = full \ {<<named[p][n], n>>}
  BY DEF FlushChain
<1>2. /\ UNCHANGED <<content, gen, confirmed, commitFile>> /\ pc = phase /\ pc' = phase
      /\ n \in Name
  BY <1>t, <1>1 DEF FlushChain, files, history, ProcessOK
<1>3. commitFile = NoFile
  BY <1>t, <1>2 DEF ConfirmInv, PhaseInv, CommitFileOwner, CommitPhase
<1>4. LiveFilled'
  <2> SUFFICES ASSUME confirmed # {}
               PROVE  Filled(Running, Whole(Running))'
    BY <1>2 DEF LiveFilled
  <2>0. Running \in confirmed
    BY <1>t, RunningConfirmed
  <2>1. Running \in Gen /\ Running # 0
    BY <1>t, <2>0 DEF HistoryOK, Gen
  <2>2. Names("real") = Whole(Running) /\ RealOf(Running)
    BY <1>2, <1>3 DEF NamePart, Settled, Committing, CommitPhase, IsLive
  <2>3. ASSUME n \in Whole(Running)
        PROVE  named[p][n] # Running
    <3>1. named["real"][n] = Running
      BY <2>2, <2>3 DEF RealOf
    <3>2. CASE p = "tmp"
      BY <1>t, <1>2, <2>1, <3>1, <3>2 DEF TmpApart, Names
    <3>3. CASE p = "del"
      BY <1>2, <2>1, <3>1, <3>3 DEF NamePart, DelApart, Names
    <3> QED
      BY <3>2, <3>3
  <2>4. Running' = Running /\ Whole(Running)' = Whole(Running)
    BY <1>2 DEF Running, Whole, HooksOf
  <2> QED
    BY <1>1, <2>3, <2>4 DEF FillPart, LiveFilled, Filled
<1>5. BuildFilled'
  BY <1>2, <1>3 DEF BuildFilled, ApplyPhase, AppliedPhase, CommitPhase
<1> QED
  BY <1>4, <1>5 DEF FillPart

LEMMA FillNext == PathInv /\ NamePart /\ FillPart /\ [Next]_vars => FillPart'
<1> SUFFICES ASSUME PathInv, NamePart, FillPart, [Next]_vars
             PROVE  FillPart'
  OBVIOUS
<1>t. ConfirmInv /\ CommitFileOwner /\ BuildFilled
  BY DEF PathInv, CommitInv, ConfirmInv, PhaseInv, FillPart
<1> USE DEF Enter, Exit, kernel, files, process, history, LoopDone, AppliedPhase
<1>1. CASE Start
  BY <1>1, FillStill DEF Start, StartCommit, StartCleanup, CommitPhase, ApplyPhase
<1>2. CASE Cleanup
  <2>1. ASSUME RemoveChain("remove_tmp", "tmp") \/ RemoveChain("remove_del", "del")
               \/ CleanupLoopEnds \/ DestroySets("destroy_last", cur - 1, "destroy_next")
               \/ DestroySets("destroy_next", cur + 1, AfterCleanup)
        PROVE  FillPart'
    BY <2>1, FillStill
    DEF RemoveChain, CleanupLoopEnds, DestroySets, AfterCleanup, CommitPhase, ApplyPhase
  <2> QED
    BY <1>2, <2>1, FillFlush DEF Cleanup
<1>3. CASE Build
  <2>1. CASE BuildFails
    BY <2>1, <1>t, FillStill DEF BuildFails, ApplyPhase, CommitPhase, BuildPhase, CommitFileOwner
  <2> QED
    BY <1>3, <2>1, FillBuilding, FillStartBuild DEF Build
<1>4. CASE Apply \/ AnswerNo
  <2>1. ASSUME \/ ModifyBuiltin("hook", "tmp", AddJump)
               \/ ModifyBuiltin("unhook", "real", DropJump)
               \/ ModifyBuiltin("rb_hook", "real", AddJump)
               \/ ModifyBuiltin("rb_unhook", "tmp", DropJump)
               \/ StartUnhook \/ StartAsking \/ PromptTimesOut \/ StartRollbackUnhook
               \/ RollbackAborts \/ AnswerNo
        PROVE  FillPart'
    BY <2>1, FillStill
    DEF ModifyBuiltin, StartUnhook, StartAsking, PromptTimesOut, AnswerNo, Rollback,
        StartRollbackUnhook, RollbackAborts, ApplyPhase, CommitPhase
  <2> QED
    BY <1>4, <2>1, FillBuilding, Zenon DEF Apply
<1>5. CASE AnswerYes
  <2>1. /\ UNCHANGED <<full, content, gen>> /\ pc = "ask" /\ pc' = "commit"
        /\ confirmed' = confirmed \cup {gen}
    BY <1>5 DEF AnswerYes, StartCommit
  <2>2. Filled(gen, Whole(gen))
    BY <1>t, <2>1 DEF BuildFilled, ApplyPhase
  <2>3. Filled(gen, Whole(gen))'
    BY <2>1, <2>2 DEF Filled, Whole, HooksOf
  <2>4. Running' = gen'
    <3>1. ConfirmInv' /\ gen' \in confirmed'
      BY <1>t, <2>1, ConfirmNext
    <3>2. \A g \in confirmed' : g <= gen' /\ g \in Nat
      BY <3>1 DEF ConfirmInv, NamesInv, ConfirmedBefore, TypeInv, TypeOK, HistoryOK, Gen
    <3> QED
      BY <3>1, <3>2 DEF Running
  <2> QED
    BY <2>1, <2>3, <2>4 DEF FillPart, LiveFilled, BuildFilled
<1>6. CASE Commit \/ Finish
  BY <1>6, FillStill
  DEF Commit, DispatchStep, InvalidStep, WriteStep, RenameChain, RenameEnds, RemoveCommitFile,
      TruncateVersion, WriteVersion, Finish, FailFileStops, Redirect, RunPostScripts, ApplyPhase,
      CommitPhase
<1>7. CASE Interrupt \/ ForceDeleteCommitFile
  BY <1>7, FillStill DEF Interrupt, ForceDeleteCommitFile, ApplyPhase, CommitPhase, NoFile, Empty
<1>8. CASE ForeignRule \/ UNCHANGED vars
  <2>1. UNCHANGED <<full, content, gen, confirmed, pc, todo, commitFile>>
    BY <1>8 DEF ForeignRule, vars
  <2>2. Running' = Running /\ \A g : Whole(g)' = Whole(g)
    BY <2>1 DEF Running, Whole, HooksOf
  <2> QED
    BY <2>1, <2>2 DEF FillPart, LiveFilled, BuildFilled, Filled
<1> QED
  BY <1>1, <1>2, <1>3, <1>4, <1>5, <1>6, <1>7, <1>8 DEF Next, Progress

-----------------------------------------------------------------------------
(* What comes first at a hook.                                              *)

\* iptables -D of a rule that is not the first one leaves the first one there.
LEMMA RemoveFirstHead ==
  ASSUME NEW S, NEW s \in Seq(S), NEW e, s # <<>>, s[1] # e
  PROVE  RemoveFirst(s, e) # <<>> /\ RemoveFirst(s, e)[1] = s[1]
<1>1. CASE ~ \E i \in 1..Len(s) : s[i] = e
  BY <1>1 DEF RemoveFirst
<1>2. CASE \E i \in 1..Len(s) : s[i] = e
  <2> DEFINE I == {i \in 1..Len(s) : s[i] = e}
             k == Min(I)
             r == RemoveFirst(s, e)
             a == SubSeq(s, 1, k - 1)
             b == SubSeq(s, k + 1, Len(s))
  <2>1. I \in SUBSET Nat /\ I # {}
    BY <1>2, LenProperties
  <2>2. k \in I
    <3> HIDE DEF I
    <3> QED  BY <2>1, MinOfNat
  <2>3. r = a \o b
    BY <1>2 DEF RemoveFirst, RemoveAt, SelectInSeq
  <2>4. k \in 1..Len(s) /\ s[k] = e
    BY <2>2
  <2> HIDE DEF k, r
  <2>5. k # 1 /\ Len(s) \in Nat
    BY <2>4, LenProperties
  <2>6. 1 \in 1..(k - 1)
    BY <2>4, <2>5
  <2>7. a \in Seq(S) /\ Len(a) = k - 1 /\ \A i \in 1..(k - 1) : a[i] = s[i]
    BY <2>4, SubSeqProperties, ElementOfSeq, LenProperties
  <2>8. b \in Seq(S) /\ Len(b) \in Nat
    BY <2>4, <2>5, SubSeqProperties, ElementOfSeq, LenProperties
  <2> HIDE DEF a, b
  <2>9. /\ Len(r) = Len(a) + Len(b)
        /\ \A i \in 1..(Len(a) + Len(b)) : r[i] = IF i <= Len(a) THEN a[i] ELSE b[i - Len(a)]
    BY <2>3, <2>7, <2>8, ConcatProperties
  <2>10. 1 \in 1..(Len(a) + Len(b)) /\ 1 <= Len(a)
    BY <2>4, <2>5, <2>6, <2>7, <2>8
  <2>11. r[1] = s[1]
    BY <2>6, <2>7, <2>9, <2>10
  <2>12. r # <<>>
    <3> SUFFICES ASSUME r = <<>>
                 PROVE  FALSE
      OBVIOUS
    <3>1. Len(r) = 0
      BY EmptySeq
    <3> QED
      BY <2>9, <2>10, <3>1
  <2> QED
    BY <2>11, <2>12 DEF r
<1> QED
  BY <1>1, <1>2

LEMMA DropJumpFirst ==
  ASSUME KernelOK, NEW h \in Hook, NEW g, NEW x \in Hook, jump[x] # <<>>, x # h \/ jump[x][1] # g
  PROVE  DropJump(h, g)[x] # <<>> /\ DropJump(h, g)[x][1] = jump[x][1]
<1>1. jump[x] \in Seq(Gen) /\ DropJump(h, g)[x] = IF x = h THEN RemoveFirst(jump[h], g) ELSE jump[x]
  BY DEF DropJump, KernelOK
<1> QED
  BY <1>1, RemoveFirstHead

LEMMA AddJumpFirst ==
  ASSUME KernelOK, NEW h \in Hook, NEW g \in Gen, NEW x \in Hook, jump[x] # <<>>,
         x # h \/ jump[x][1] # g
  PROVE  AddJump(h, g)[x] # <<>> /\ AddJump(h, g)[x][1] = jump[x][1]
<1> DEFINE r == RemoveFirst(jump[h], g)
<1>1. /\ jump[h] \in Seq(Gen) /\ jump[x] \in Seq(Gen)
      /\ AddJump(h, g)[x] = IF x = h THEN Append(r, g) ELSE jump[x]
  BY DEF AddJump, KernelOK
<1>2. CASE x = h
  <2>1. r \in Seq(Gen) /\ r # <<>> /\ r[1] = jump[x][1]
    BY <1>1, <1>2, RemoveFirstType, RemoveFirstHead
  <2> HIDE DEF r
  <2>2. Len(r) \in Nat /\ Len(r) # 0
    BY <2>1, EmptySeq, LenProperties
  <2>3. 1 \in 1..Len(r)
    BY <2>2
  <2>4. Append(r, g)[1] = r[1] /\ Append(r, g) # <<>>
    BY <2>1, <2>3, AppendProperties
  <2> QED
    BY <1>1, <1>2, <2>1, <2>4
<1>3. CASE x # h
  BY <1>1, <1>3
<1> QED
  BY <1>2, <1>3

\* A hook with a rule, all of whose rules jump to one chain.
LEMMA OnlyFirst ==
  ASSUME KernelOK, NEW h \in Hook, NEW g, Hooked(g, h), \A i \in 1..Len(jump[h]) : jump[h][i] = g
  PROVE  jump[h] # <<>> /\ jump[h][1] = g
<1>1. jump[h] \in Seq(Gen) /\ Len(jump[h]) \in Nat
  BY LenProperties DEF KernelOK
<1>2. 1 \in 1..Len(jump[h])
  BY <1>1 DEF Hooked
<1> QED
  BY <1>2, EmptySeq

\* Steps that leave CFW_ and the jumps alone.
LEMMA FirstStill ==
  ASSUME FirstPart, named'["real"] = named["real"], jump' = jump,
         pc' \notin {"unhook", "rb_hook", "rb_unhook"},
         AppliedPhase' \/ ~(AppliedPhase \/ pc \in {"unhook", "rb_hook", "rb_unhook"})
  PROVE  FirstPart'
BY DEF FirstPart, LiveFirst, LiveUnhooking, RollingBack, First

\* Once a commit is done, what was applied is alone at the hooks, and is CFW_.
LEMMA AppliedFirst ==
  ASSUME PathInv, AppliedPhase, IsLive(gen), NEW h \in Hook
  PROVE  First(h)
<1>1. gen \in Gen
  BY DEF PathInv, CommitInv, ConfirmInv, TypeInv, TypeOK, ProcessOK, Loops, GenStarted, PhaseInv,
         CommitOfConfirmed, HistoryOK, AppliedPhase, ApplyPhase
<1>2. content[gen] \subseteq Chain
  BY <1>1 DEF PathInv, CommitInv, ConfirmInv, TypeInv, TypeOK, HistoryOK
<1> SUFFICES ASSUME named["real"][h] # 0
             PROVE  jump[h] # <<>> /\ jump[h][1] = named["real"][h]
  BY DEF First
<1>3. h \in Names("real")
  BY DEF Names, Name
<1>4. h \in HooksOf(gen) /\ named["real"][h] = gen
  BY <1>2, <1>3, ConstantsAssumption DEF IsLive, Whole, RealOf
<1>5. jump[h] = <<gen>>
  BY <1>4 DEF PathInv, PathPart, Applied
<1> QED
  BY <1>4, <1>5

\* The cleanup unhooks delegates that CFW_ does not name.
LEMMA FirstFlush ==
  ASSUME PathInv, NamePart, FirstPart, NEW phase, NEW p,
         <<phase, p>> \in {<<"flush_tmp", "tmp">>, <<"flush_del", "del">>},
         FlushChain(phase, p)
  PROVE  FirstPart'
<1>t. KernelOK /\ ProcessOK /\ TmpApart /\ CommitFileOwner
  BY DEF PathInv, CommitInv, ConfirmInv, TypeInv, TypeOK, NamesInv, PhaseInv
<1>1. PICK n \in todo : jump' = IF n \in Hook THEN DropJump(n, named[p][n]) ELSE jump
  BY DEF FlushChain
<1>2. UNCHANGED <<named, commitFile, pc>> /\ pc = phase /\ n \in Name
  BY <1>t, <1>1 DEF FlushChain, files, ProcessOK
<1>3. /\ ~AppliedPhase /\ pc \in {"flush_tmp", "flush_del"}
      /\ \A h \in Hook : First(h)
  BY <1>t, <1>2 DEF AppliedPhase, CommitFileOwner, CommitPhase, FirstPart, LiveFirst
<1>4. ASSUME NEW h \in Hook
      PROVE  First(h)'
  <2> SUFFICES ASSUME named["real"][h] # 0
               PROVE  jump'[h] # <<>> /\ jump'[h][1] = named["real"][h]
    BY <1>2 DEF First
  <2>1. jump[h] # <<>> /\ jump[h][1] = named["real"][h]
    BY <1>3 DEF First
  <2>2. CASE n \in Hook
    <3>1. named[p][h] # named["real"][h]
      <4>1. CASE p = "tmp"
        BY <1>t, <4>1 DEF TmpApart, Names, Name
      <4>2. CASE p = "del"
        BY <4>2 DEF NamePart, DelApart, Names, Name
      <4> QED
        BY <4>1, <4>2
    <3>2. h # n \/ jump[h][1] # named[p][n]
      BY <2>1, <3>1
    <3> QED
      BY <1>t, <1>1, <2>1, <2>2, <3>2, DropJumpFirst
  <2>3. CASE n \notin Hook
    BY <1>1, <2>1, <2>3
  <2> QED
    BY <2>2, <2>3
<1> QED
  BY <1>2, <1>3, <1>4 DEF FirstPart, LiveFirst, LiveUnhooking, RollingBack

\* fw_apply, up to the prompt.
LEMMA FirstHook ==
  ASSUME PathInv, FirstPart, ModifyBuiltin("hook", "tmp", AddJump)
  PROVE  FirstPart'
<1>t. KernelOK
  BY DEF PathInv, CommitInv, ConfirmInv, TypeInv, TypeOK
<1>1. PICK h \in todo : jump' = AddJump(h, named["tmp"][h])
  BY DEF ModifyBuiltin
<1>2. pc = "hook" /\ UNCHANGED <<named, gen, pc, commitFile>>
  BY DEF ModifyBuiltin, files
<1>3. h \in Delegates("tmp") /\ h \in Hook
  BY <1>1, <1>2 DEF PathInv, CommitInv, ConfirmInv, TypeInv, Loops, HookLoops, Delegates
<1>4. commitFile = NoFile /\ gen \in Gen /\ named["tmp"][h] = gen /\ named["real"][h] # gen
  BY <1>2, <1>3, TrialNames DEF PathInv, ApplyPhase
<1>5. ASSUME NEW x \in Hook, named["real"][x] # 0
      PROVE  jump'[x] # <<>> /\ jump'[x][1] = named["real"][x]
  <2>1. jump[x] # <<>> /\ jump[x][1] = named["real"][x]
    BY <1>2, <1>4, <1>5 DEF FirstPart, LiveFirst, First, AppliedPhase, CommitPhase
  <2> QED
    BY <1>t, <1>1, <1>3, <1>4, <2>1, AddJumpFirst
<1> QED
  BY <1>2, <1>5 DEF FirstPart, LiveFirst, LiveUnhooking, RollingBack, First

LEMMA FirstUnhook ==
  ASSUME PathInv, FirstPart, ModifyBuiltin("unhook", "real", DropJump)
  PROVE  FirstPart'
<1>t. KernelOK /\ JumpOnce /\ UnhookedSoFar
  BY DEF PathInv, CommitInv, ConfirmInv, TypeInv, TypeOK, PathPart
<1>1. PICK h \in todo : jump' = DropJump(h, named["real"][h]) /\ todo' = todo \ {h}
  BY DEF ModifyBuiltin
<1>2. pc = "unhook" /\ UNCHANGED <<named, gen, pc, commitFile>>
  BY DEF ModifyBuiltin, files
<1>3. todo \subseteq Hook
  BY <1>t, <1>2 DEF UnhookedSoFar, Delegates
<1>4. \A x \in todo' : jump'[x] = jump[x] /\ First(x)
  BY <1>t, <1>1, <1>2, <1>3, DropJumpOnce DEF FirstPart, LiveUnhooking
<1> QED
  BY <1>2, <1>4 DEF FirstPart, LiveFirst, LiveUnhooking, RollingBack, First

\* The rollback: the live delegates are hooked behind the ones on trial, then
\* these are unhooked.
LEMMA FirstRollback ==
  ASSUME PathInv, FirstPart, pc = "ask", Rollback
  PROVE  FirstPart'
<1>1. /\ pc' = "rb_hook" /\ todo' = Delegates("real")
      /\ UNCHANGED <<named, jump, gen, commitFile>>
  BY DEF Rollback, Enter, kernel, files
<1>2. Delegates("tmp") = HooksOf(gen)
  BY TrialNames DEF PathInv, ApplyPhase
<1>3. ASSUME NEW h \in Delegates("tmp")
      PROVE  Hooked(gen, h)
  <2>1. jump[h] = <<gen>>
    BY <1>2 DEF PathInv, PathPart, Applied, AppliedPhase, Delegates
  <2> QED
    BY <2>1 DEF Hooked
<1>4. \A p : Delegates(p)' = Delegates(p)
  BY <1>1 DEF Delegates, Names
<1> QED
  BY <1>1, <1>3, <1>4 DEF FirstPart, LiveFirst, LiveUnhooking, RollingBack, Hooked

LEMMA FirstRbHook ==
  ASSUME PathInv, FirstPart, ModifyBuiltin("rb_hook", "real", AddJump)
  PROVE  FirstPart'
<1>t. KernelOK /\ JumpOnce /\ RollingBack
  BY DEF PathInv, CommitInv, ConfirmInv, TypeInv, TypeOK, FirstPart
<1>1. PICK h \in todo : jump' = AddJump(h, named["real"][h]) /\ todo' = todo \ {h}
  BY DEF ModifyBuiltin
<1>2. pc = "rb_hook" /\ UNCHANGED <<named, gen, pc, commitFile>>
  BY DEF ModifyBuiltin, files
<1>3. h \in Delegates("real")
  BY <1>1, <1>2 DEF PathInv, CommitInv, ConfirmInv, TypeInv, Loops, HookLoops
<1>4. h \in Hook /\ named["real"][h] \in Gen
  BY <1>t, <1>3 DEF Delegates, Names, Name, KernelOK, Naming, Prefix
<1>5. ASSUME NEW x \in Hook, NEW g, Hooked(g, x)
      PROVE  Hooked(g, x)'
  <2>1. CASE x = h
    BY <1>t, <1>1, <1>4, <1>5, <2>1, AddJumpEntries DEF Hooked
  <2>2. CASE x # h
    <3>1. jump'[x] = jump[x]
      BY <1>t, <1>1, <1>4, <2>2, AddJumpEntries
    <3> QED
      BY <1>5, <3>1 DEF Hooked
  <2> QED
    BY <2>1, <2>2
<1>6. Hooked(named["real"][h], h)'
  BY <1>t, <1>1, <1>2, <1>4, AddJumpEntries DEF Hooked
<1>7. \A p : Delegates(p)' = Delegates(p) /\ Delegates(p) \subseteq Hook
  BY <1>2 DEF Delegates, Names
<1>8. /\ \A x \in Delegates("tmp") : Hooked(gen, x)'
      /\ \A x \in Delegates("real") \ todo' : Hooked(named["real"][x], x)'
  BY <1>t, <1>1, <1>2, <1>5, <1>6, <1>7 DEF RollingBack
<1>9. RollingBack'
  BY <1>2, <1>7, <1>8 DEF RollingBack
<1> QED
  BY <1>2, <1>9 DEF FirstPart, LiveFirst, LiveUnhooking

LEMMA FirstRbUnhook ==
  ASSUME PathInv, FirstPart, ModifyBuiltin("rb_unhook", "tmp", DropJump)
  PROVE  FirstPart'
<1>t. KernelOK /\ JumpOnce /\ RollingBack
  BY DEF PathInv, CommitInv, ConfirmInv, TypeInv, TypeOK, FirstPart
<1>1. PICK h \in todo : jump' = DropJump(h, named["tmp"][h]) /\ todo' = todo \ {h}
  BY DEF ModifyBuiltin
<1>2. pc = "rb_unhook" /\ UNCHANGED <<named, gen, pc, commitFile>>
  BY DEF ModifyBuiltin, files
<1>3. h \in Delegates("tmp") /\ h \in Hook
  BY <1>t, <1>1, <1>2 DEF RollingBack, Delegates
<1>4. named["tmp"][h] = gen /\ named["real"][h] # gen
  BY <1>2, <1>3, TrialNames DEF PathInv, ApplyPhase
<1>5. \A p : Delegates(p)' = Delegates(p) /\ Delegates(p) \subseteq Hook
  BY <1>2 DEF Delegates, Names
<1>6. ASSUME NEW x \in Delegates("real")
      PROVE  Hooked(named["real"][x], x)'
  <2>1. x \in Hook /\ Hooked(named["real"][x], x)
    BY <1>t, <1>2, <1>5 DEF RollingBack
  <2>2. CASE x = h
    <3>1. PICK j \in 1..Len(jump[h]) : jump[h][j] = named["real"][h]
      BY <2>1, <2>2 DEF Hooked
    <3>2. \E i \in 1..Len(jump'[h]) : jump'[h][i] = named["real"][h]
      BY <1>t, <1>1, <1>3, <1>4, <3>1, DropJumpEntries
    <3> QED
      BY <1>2, <2>2, <3>2 DEF Hooked
  <2>3. CASE x # h
    <3>1. jump'[x] = jump[x]
      BY <1>t, <1>1, <1>3, <2>1, <2>3, DropJumpEntries
    <3> QED
      BY <1>2, <2>1, <3>1 DEF Hooked
  <2> QED
    BY <2>2, <2>3
<1>7. ASSUME NEW x \in Delegates("tmp"), x \notin todo \/ x = h
      PROVE  Unhooked(gen, x)'
  <2>1. CASE x = h
    BY <1>t, <1>1, <1>2, <1>3, <1>4, <2>1, DropJumpEntries DEF Unhooked
  <2>2. CASE x # h
    <3>1. jump'[x] = jump[x]
      BY <1>t, <1>1, <1>3, <1>5, <2>2, DropJumpEntries
    <3>2. Unhooked(gen, x)
      BY <1>t, <1>2, <1>7, <2>2 DEF RollingBack
    <3> QED
      BY <1>2, <3>1, <3>2 DEF Unhooked
  <2> QED
    BY <2>1, <2>2
<1>8. RollingBack'
  BY <1>t, <1>1, <1>2, <1>5, <1>6, <1>7 DEF RollingBack
<1> QED
  BY <1>2, <1>8 DEF FirstPart, LiveFirst, LiveUnhooking

\* When the rollback is through, the live ruleset is alone in the path.
LEMMA RolledBack ==
  ASSUME PathInv, FirstPart, pc = "rb_unhook", todo = {}, NEW h \in Hook
  PROVE  /\ \A i \in 1..Len(jump[h]) : jump[h][i] = named["real"][h]
         /\ First(h)
<1>t. KernelOK /\ RollingBack /\ JumpOwners
  BY DEF PathInv, CommitInv, ConfirmInv, TypeInv, TypeOK, FirstPart, PathPart
<1>1. ASSUME NEW i \in 1..Len(jump[h])
      PROVE  jump[h][i] = named["real"][h]
  <2>1. jump[h][i] # 0
    BY <1>t, JumpsToGen
  <2>2. h \in Delegates("tmp") => named["tmp"][h] = gen /\ Unhooked(gen, h)
    BY <1>t, TrialNames DEF PathInv, ApplyPhase, RollingBack
  <2>3. h \in Delegates("tmp") \/ named["tmp"][h] = 0
    BY DEF Delegates, Names, Name
  <2>4. jump[h][i] # named["tmp"][h]
    BY <2>1, <2>2, <2>3 DEF Unhooked
  <2> QED
    BY <1>t, <2>4 DEF JumpOwners
<1>2. ASSUME named["real"][h] # 0
      PROVE  Hooked(named["real"][h], h)
  <2>1. h \in Delegates("real")
    BY <1>2 DEF Delegates, Names, Name
  <2> QED
    BY <1>t, <2>1 DEF RollingBack
<1>3. First(h)
  BY <1>t, <1>1, <1>2, OnlyFirst DEF First
<1> QED
  BY <1>1, <1>3

LEMMA FirstNext ==
  KillOutsideTrial /\ PathInv /\ NamePart /\ FirstPart /\ [Next]_vars => FirstPart'
<1> SUFFICES ASSUME KillOutsideTrial, PathInv, NamePart, FirstPart, [Next]_vars
             PROVE  FirstPart'
  OBVIOUS
<1>t. /\ KernelOK /\ CommitFileOwner /\ StepOfPhase /\ Shared
  BY DEF PathInv, CommitInv, ConfirmInv, PhaseInv, WholeInv, TypeInv, TypeOK
<1> USE DEF Enter, Exit, kernel, files, process, history, LoopDone, AppliedPhase
<1>1. CASE Start
  BY <1>1, FirstStill DEF Start, StartCommit, StartCleanup, CommitPhase
<1>2. CASE Cleanup
  <2>1. ASSUME \/ CleanupLoopEnds \/ DestroySets("destroy_last", cur - 1, "destroy_next")
               \/ DestroySets("destroy_next", cur + 1, AfterCleanup)
        PROVE  FirstPart'
    BY <2>1, FirstStill DEF CleanupLoopEnds, DestroySets, AfterCleanup, CommitPhase
  <2>2. ASSUME NEW phase, NEW p,
               <<phase, p>> \in {<<"remove_tmp", "tmp">>, <<"remove_del", "del">>},
               RemoveChain(phase, p)
        PROVE  FirstPart'
    <3>1. named'["real"] = named["real"]
      BY <1>t, <2>2 DEF RemoveChain, KernelOK, Naming, Prefix
    <3> QED
      BY <2>2, <3>1, FirstStill DEF RemoveChain, CommitPhase
  <2> QED
    BY <1>2, <2>1, <2>2, FirstFlush DEF Cleanup
<1>3. CASE Build
  <2>1. ASSUME NEW cs, NameTmp(cs)
        PROVE  named'["real"] = named["real"]
    BY <1>t, <2>1 DEF NameTmp, KernelOK, Naming, Prefix
  <2>2. named'["real"] = named["real"]
    BY <1>3, <2>1
    DEF Build, StartBuild, RestoreTable, NewChain, FillChain, StartPrepare, PrepareDelegate,
        BuildFails
  <2>3. /\ jump' = jump /\ commitFile' = commitFile /\ pc \in {"build", "build_chains", "prepare"}
        /\ pc' \in {"build_chains", "prepare", "idle"}
    BY <1>3
    DEF Build, StartBuild, RestoreTable, NewChain, FillChain, StartPrepare, PrepareDelegate,
        BuildFails, BuildPhase
  <2> QED
    BY <2>2, <2>3, FirstStill DEF CommitPhase
<1>4. CASE StartApply
  BY <1>4, FirstStill DEF StartApply, CommitPhase
<1>5. CASE StartUnhook
  <2>1. /\ pc = "hook" /\ pc' = "unhook" /\ todo' = Delegates("real")
        /\ UNCHANGED <<named, jump, commitFile>> /\ ~AppliedPhase
    BY <1>5, <1>t DEF StartUnhook, CommitFileOwner, CommitPhase
  <2>2. \A h \in todo' : First(h)
    BY <2>1 DEF FirstPart, LiveFirst, Delegates
  <2> QED
    BY <2>1, <2>2 DEF FirstPart, LiveFirst, LiveUnhooking, RollingBack, First
<1>6. CASE StartAsking \/ AnswerYes
  BY <1>6, FirstStill DEF StartAsking, AnswerYes, StartCommit, CommitPhase
<1>7. CASE PromptTimesOut \/ AnswerNo
  BY <1>7, FirstRollback DEF PromptTimesOut, AnswerNo, Rollback
<1>8. CASE StartRollbackUnhook
  <2>1. /\ pc = "rb_hook" /\ todo = {} /\ pc' = "rb_unhook" /\ todo' = Delegates("tmp")
        /\ UNCHANGED <<named, jump, gen, commitFile>>
    BY <1>8 DEF StartRollbackUnhook
  <2>2. \A p : Delegates(p)' = Delegates(p)
    BY <2>1 DEF Delegates, Names
  <2> QED
    BY <2>1, <2>2 DEF FirstPart, LiveFirst, LiveUnhooking, RollingBack, Hooked
<1>9. CASE RollbackAborts
  <2>1. pc' = "idle" /\ UNCHANGED <<named, jump>> /\ \A h \in Hook : First(h)
    BY <1>9, RolledBack DEF RollbackAborts
  <2> QED
    BY <2>1 DEF FirstPart, LiveFirst, LiveUnhooking, RollingBack, First
<1>10. CASE Commit
  <2>1. CASE WriteVersion
    <3>1. IsLive(gen) /\ pc = "write_version"
      BY <2>1, <1>t DEF WriteVersion, Shared, IsLive
    <3>2. \A h \in Hook : First(h)
      BY <3>1, AppliedFirst DEF CommitPhase
    <3>3. pc' = "flush_tmp" /\ UNCHANGED <<named, jump>>
      BY <2>1 DEF WriteVersion
    <3> QED
      BY <3>2, <3>3 DEF FirstPart, LiveFirst, LiveUnhooking, RollingBack, First
  <2>2. CASE InvalidStep
    BY <2>2, FirstStill DEF InvalidStep, CommitPhase, NoFile, Empty
  <2>3. CASE CommitStill
    BY <2>3, FirstStill
    DEF CommitStill, DispatchStep, WriteStep, RenameEnds, RemoveCommitFile, TruncateVersion,
        CommitPhase
  <2>4. ASSUME \/ RenameChain("real_to_delete", "real", "del")
               \/ RenameChain("tmp_to_real", "tmp", "real")
        PROVE  FirstPart'
    <3>1. AppliedPhase' /\ pc' \notin {"unhook", "rb_hook", "rb_unhook"}
      BY <2>4, <1>t DEF RenameChain, StepOfPhase, CommitPhase, NoFile
    <3> QED
      BY <3>1 DEF FirstPart, LiveFirst, LiveUnhooking, RollingBack
  <2> QED
    BY <1>10, <2>1, <2>2, <2>3, <2>4, Zenon DEF Commit, CommitStill
<1>11. CASE Finish
  BY <1>11, FirstStill DEF Finish, FailFileStops, Redirect, RunPostScripts, CommitPhase
<1>12. CASE Interrupt
  <2>1. pc \notin TrialPhase /\ pc' = "idle" /\ UNCHANGED <<named, jump, commitFile>>
    BY <1>12 DEF Interrupt, KillOutsideTrial
  <2>2. CASE pc \in {"truncate_version", "write_version"}
    <3>1. IsLive(gen)
      BY <1>t, <2>2 DEF Shared, IsLive
    <3>2. \A h \in Hook : First(h)
      BY <2>2, <3>1, AppliedFirst DEF CommitPhase
    <3> QED
      BY <2>1, <3>2 DEF FirstPart, LiveFirst, LiveUnhooking, RollingBack, First
  <2>3. CASE pc \notin {"truncate_version", "write_version"}
    BY <2>1, <2>3, <1>t, FirstStill
    DEF TrialPhase, StepOfPhase, CommitPhase, NoFile, Empty
  <2> QED
    BY <2>2, <2>3
<1>13. CASE ForceDeleteCommitFile
  <2>1. /\ pc = "idle" /\ commitFile = Empty /\ UNCHANGED <<named, jump, pc>>
    BY <1>13 DEF ForceDeleteCommitFile
  <2>2. IsLive(gen)
    BY <2>1 DEF NamePart, Renamed
  <2>3. \A h \in Hook : First(h)
    BY <2>1, <2>2, AppliedFirst DEF NoFile, Empty
  <2> QED
    BY <2>1, <2>3 DEF FirstPart, LiveFirst, LiveUnhooking, RollingBack, First
<1>14. CASE ForeignRule \/ UNCHANGED vars
  <2>1. UNCHANGED <<named, jump, gen, pc, todo, commitFile>>
    BY <1>14 DEF ForeignRule, vars
  <2> QED
    BY <2>1
    DEF FirstPart, LiveFirst, LiveUnhooking, RollingBack, First, Hooked, Unhooked, Delegates,
        Names
<1>15. CASE Apply
  BY <1>4, <1>5, <1>6, <1>7, <1>8, <1>9, <1>15, FirstHook, FirstUnhook, FirstRbHook,
     FirstRbUnhook, Zenon
  DEF Apply
<1> QED
  BY <1>1, <1>2, <1>3, <1>6, <1>7, <1>10, <1>11, <1>12, <1>13, <1>14, <1>15, Zenon
  DEF Next, Progress

-----------------------------------------------------------------------------
LEMMA LiveInit == Init => LiveInv
<1> SUFFICES ASSUME Init PROVE LiveInv
  OBVIOUS
<1>1. PathInv
  BY ConfirmInit, WholeInit, PathInit DEF PathInv, CommitInv
<1>2. \A p \in Prefix : Names(p) = {}
  BY DEF Init, Names
<1>3. NamePart
  <2>1. \A g \in Gen : ~ (g <= 0)
    BY DEF Gen
  <2> QED
    BY <1>2, <2>1
    DEF Init, NamePart, Declared, DelApart, Settled, Renamed, Prefix, NoFile, Empty
<1>4. FillPart
  BY DEF Init, FillPart, LiveFilled, BuildFilled, AppliedPhase, ApplyPhase, CommitPhase
<1>5. FirstPart
  BY DEF Init, FirstPart, LiveFirst, LiveUnhooking, RollingBack, First, Prefix, Name
<1> QED
  BY <1>1, <1>3, <1>4, <1>5 DEF LiveInv

LEMMA LiveNext == KillOutsideTrial /\ LiveInv /\ [Next]_vars => LiveInv'
BY ConfirmNext, WholeNext, PathNext, NameNext, FillNext, FirstNext
DEF LiveInv, PathInv, CommitInv

\* A hook that every configuration covers is one of every ruleset.
LEMMA CoreIsHooked ==
  ASSUME Declared, NEW g \in Gen, g <= gen, NEW h \in CoreHook
  PROVE  h \in HooksOf(g) /\ h \in Hook
BY ConstantsAssumption DEF Declared, CoreHook, HooksOf

\* In the two loops of fw_apply and the two of its rollback, both rulesets are
\* in the path of a hook they both cover, and no third one is.
LEMMA TrialDecides ==
  ASSUME LiveInv, pc \in {"unhook", "rb_hook", "rb_unhook"}, confirmed # {},
         NEW h \in Hook, h \in HooksOf(gen), h \in HooksOf(Running)
  PROVE  Decides(h) \in {Running, gen}
<1>t. KernelOK /\ JumpOwners /\ UnhookedSoFar /\ RollingBack
  BY DEF LiveInv, PathInv, CommitInv, ConfirmInv, TypeInv, TypeOK, PathPart, FirstPart
<1>1. commitFile = NoFile /\ h \in Delegates("tmp") /\ named["tmp"][h] = gen
  BY TrialNames DEF LiveInv, PathInv, ApplyPhase
<1>2. IsLive(Running)
  BY <1>1 DEF LiveInv, NamePart, Settled, Committing, CommitPhase
<1>3. h \in Delegates("real") /\ named["real"][h] = Running
  BY <1>2 DEF IsLive, Whole, RealOf, Delegates
<1>4. \E i \in 1..Len(jump[h]) : TRUE
  BY <1>t, <1>1, <1>3 DEF UnhookedSoFar, RollingBack, Hooked
<1>5. jump[h] \in Seq(Gen) /\ Len(jump[h]) \in Nat
  BY <1>t, LenProperties DEF KernelOK
<1>6. 1 \in 1..Len(jump[h]) /\ jump[h] # <<>>
  BY <1>4, <1>5, EmptySeq
<1>7. jump[h][1] \in {Running, gen}
  BY <1>t, <1>1, <1>3, <1>6 DEF JumpOwners
<1> QED
  BY <1>6, <1>7 DEF Decides

LEMMA LiveFiltered == LiveInv => NeverUnfiltered
<1> SUFFICES ASSUME LiveInv, confirmed # {}, NEW h \in CoreHook
             PROVE  Decides(h) \in {Running, gen} \ {0} /\ Intact(Decides(h), h)
  BY DEF NeverUnfiltered
<1>t. /\ ConfirmInv /\ KernelOK /\ HistoryOK /\ ProcessOK /\ GenStarted /\ Declared
      /\ CommitOfConfirmed /\ Applied /\ LiveFilled /\ BuildFilled /\ LiveFirst
  BY DEF LiveInv, PathInv, CommitInv, ConfirmInv, TypeInv, TypeOK, Loops, PhaseInv, NamePart,
         FillPart, FirstPart, PathPart
<1>1. Running \in confirmed
  BY <1>t, RunningConfirmed
<1>2. Running \in Gen /\ Running <= gen
  BY <1>t, <1>1 DEF HistoryOK, ConfirmInv, NamesInv, ConfirmedBefore
<1>3. gen \in Gen /\ gen <= gen /\ Running # 0 /\ gen # 0
  BY <1>t, <1>2, ConstantsAssumption DEF ProcessOK, Gen
<1>4. h \in HooksOf(Running) /\ h \in HooksOf(gen) /\ h \in Hook
  BY <1>t, <1>2, <1>3, CoreIsHooked
<1>5. ASSUME NEW g, Filled(g, Whole(g)), h \in HooksOf(g)
      PROVE  Intact(g, h)
  BY <1>5 DEF Filled, Whole, Intact
<1>6. Intact(Running, h)
  BY <1>t, <1>4, <1>5 DEF LiveFilled
<1>7. CASE AppliedPhase
  <2>1. Decides(h) = gen
    BY <1>t, <1>4, <1>7 DEF Applied, Decides
  <2>2. Intact(gen, h)
    BY <1>t, <1>4, <1>5, <1>7 DEF BuildFilled
  <2> QED
    BY <1>3, <2>1, <2>2
<1>8. CASE pc \in {"unhook", "rb_hook", "rb_unhook"}
  <2>1. Decides(h) \in {Running, gen}
    BY <1>4, <1>8, TrialDecides
  <2>2. Intact(gen, h)
    BY <1>t, <1>4, <1>5, <1>8 DEF BuildFilled, ApplyPhase
  <2> QED
    BY <1>3, <1>6, <2>1, <2>2
<1>9. CASE ~AppliedPhase /\ pc \notin {"unhook", "rb_hook", "rb_unhook"}
  <2>1. IsLive(Running)
    BY <1>9 DEF LiveInv, NamePart, Settled, Committing, AppliedPhase
  <2>2. named["real"][h] = Running
    BY <1>4, <2>1 DEF IsLive, Whole, RealOf
  <2>3. jump[h] # <<>> /\ jump[h][1] = Running
    BY <1>t, <1>3, <1>4, <1>9, <2>2 DEF LiveFirst, First
  <2> QED
    BY <1>3, <1>6, <2>3 DEF Decides
<1> QED
  BY <1>7, <1>8, <1>9

\* Once a ruleset has been confirmed, a whole one, that one or the one being
\* tried, decides at every hook that all configurations cover, in every state
\* of the reload: fw_apply hooks before it unhooks, rolls back in the same
\* order, and neither the cleanup nor the commit takes rules out of the path.
THEOREM AlwaysFiltered ==
  ASSUME KillOutsideTrial
  PROVE  Spec => []NeverUnfiltered
<1>1. Init => LiveInv
  BY LiveInit
<1>2. LiveInv /\ [Next]_vars => LiveInv'
  BY LiveNext
<1> QED
  BY <1>1, <1>2, LiveFiltered, PTL DEF Spec

-----------------------------------------------------------------------------
(* The path between two reloads.                                            *)

\* Interrupted while it hooks, fw_apply leaves delegates of CFWTMP_ in the path
\* behind the live ones, until the next cleanup.
KillNotHooking == KillOutsideTrial /\ "hook" \notin KillAt

NoneLeftHooked ==
  ~AppliedPhase /\ pc \notin ApplyPhase => \A h \in Delegates("tmp") : Unhooked(gen, h)
IdleInv == LiveInv /\ NoneLeftHooked

LEMMA HookedStill ==
  ASSUME NoneLeftHooked, named'["tmp"] = named["tmp"], UNCHANGED <<jump, gen>>,
         AppliedPhase' \/ pc' \in ApplyPhase \/ ~(AppliedPhase \/ pc \in ApplyPhase)
  PROVE  NoneLeftHooked'
BY DEF NoneLeftHooked, Unhooked, Delegates, Names

\* After a commit no name is left in CFWTMP_ for what it renamed.
LEMMA CommittedUnhooked ==
  ASSUME PathInv, AppliedPhase, IsLive(gen), NEW h \in Delegates("tmp")
  PROVE  Unhooked(gen, h)
<1>1. named["tmp"][h] = gen /\ named["real"][h] # gen /\ h \in Hook
  BY DEF PathInv, CommitInv, ConfirmInv, NamesInv, TmpIsCurrent, TmpApart, Delegates, Names
<1>2. h \notin HooksOf(gen)
  BY <1>1 DEF IsLive, Whole, RealOf
<1>3. jump[h] = <<>>
  BY <1>1, <1>2 DEF PathInv, PathPart, Applied
<1> QED
  BY <1>3 DEF Unhooked

LEMMA HookedBuild ==
  ASSUME PathInv, NoneLeftHooked, Build
  PROVE  NoneLeftHooked'
<1>t. KernelOK /\ ProcessOK /\ HistoryOK /\ NamesInv /\ CommitFileOwner /\ WholeInv /\ JumpOwners
  BY DEF PathInv, CommitInv, ConfirmInv, TypeInv, TypeOK, PhaseInv, PathPart
<1> USE DEF Enter, Exit, kernel, files, process, history, LoopDone
<1>0. /\ jump' = jump /\ pc \in BuildPhase /\ ~AppliedPhase
  BY <1>t
  DEF Build, StartBuild, RestoreTable, NewChain, FillChain, StartPrepare, PrepareDelegate,
      BuildFails, BuildPhase, AppliedPhase, CommitPhase, CommitFileOwner
<1>1. CASE FillChain \/ StartPrepare \/ BuildFails
  BY <1>0, <1>1, HookedStill
  DEF FillChain, StartPrepare, BuildFails, BuildPhase, ApplyPhase
<1>2. CASE StartBuild
  <2>1. Delegates("tmp")' = {}
    BY <1>2 DEF StartBuild, PathInv, CommitInv, ConfirmInv, LoopInv, TmpGone, Delegates, Names
  <2> QED
    BY <2>1 DEF NoneLeftHooked
<1>3. ASSUME NEW cs \in SUBSET Name, NameTmp(cs), UNCHANGED <<gen, pc, commitFile>>,
             pc \in {"build_chains", "prepare"},
             \A h \in cs \cap Hook : named["tmp"][h] = 0
      PROVE  NoneLeftHooked'
  <2>1. \A n \in Name : named'["tmp"][n] = IF n \in cs THEN gen ELSE named["tmp"][n]
    BY <1>t, <1>3 DEF NameTmp, KernelOK, Naming, Prefix
  <2>2. gen \notin confirmed
    BY <1>3 DEF PathInv, CommitInv, ConfirmInv, PhaseInv, Unconfirmed
  <2> SUFFICES ASSUME NEW h \in Delegates("tmp")'
               PROVE  Unhooked(gen, h)
    BY <1>0, <1>3 DEF NoneLeftHooked, Unhooked
  <2>3. h \in Hook /\ h \in Name
    BY DEF Delegates, Name
  <2>4. CASE h \in cs
    <3> SUFFICES ASSUME NEW i \in 1..Len(jump[h])
                 PROVE  jump[h][i] # gen
      BY DEF Unhooked
    <3>1. jump[h][i] # 0
      BY <1>t, <2>3, JumpsToGen
    <3>2. jump[h][i] = named["real"][h]
      BY <1>t, <1>3, <2>3, <2>4, <3>1 DEF JumpOwners
    <3>3. jump[h][i] \in confirmed
      BY <1>t, <2>3, <3>1, <3>2 DEF NamesInv, RealConfirmed, Names
    <3> QED
      BY <2>2, <3>3
  <2>5. CASE h \notin cs
    <3>1. h \in Delegates("tmp")
      BY <2>1, <2>3, <2>5 DEF Delegates, Names
    <3> QED
      BY <1>0, <3>1 DEF NoneLeftHooked, BuildPhase, ApplyPhase
  <2> QED
    BY <2>4, <2>5
<1>g. pc \in {"build_chains", "prepare"} => content[gen] \subseteq Chain
  BY <1>t DEF PathInv, CommitInv, ConfirmInv, TypeInv, Loops, GenStarted, ProcessOK, HistoryOK
<1>4. CASE RestoreTable
  <2>1. PICK t \in {TableOf[c] : c \in todo} : NameTmp({c \in todo : TableOf[c] = t})
    BY <1>4 DEF RestoreTable
  <2>2. pc = "build_chains" /\ UNCHANGED <<gen, pc, commitFile>>
    BY <1>4 DEF RestoreTable
  <2>3. todo \subseteq Chain
    BY <1>t, <1>g, <2>2 DEF WholeInv, ChainsBuilt
  <2>4. {c \in todo : TableOf[c] = t} \in SUBSET Name /\ {c \in todo : TableOf[c] = t} \cap Hook = {}
    BY <2>3, ConstantsAssumption DEF Name
  <2> QED
    BY <1>3, <2>1, <2>2, <2>4
<1>5. CASE NewChain
  <2>1. PICK c \in todo : NameTmp({c}) /\ named["tmp"][c] = 0
    BY <1>5 DEF NewChain
  <2>2. {c} \in SUBSET Name /\ pc = "build_chains" /\ UNCHANGED <<gen, pc, commitFile>>
    BY <1>t, <1>5, <2>1 DEF NewChain, ProcessOK
  <2> QED
    BY <1>3, <2>1, <2>2
<1>6. CASE PrepareDelegate
  <2>1. PICK h \in todo : NameTmp({h})
    BY <1>6 DEF PrepareDelegate
  <2>2. {h} \in SUBSET Name /\ pc = "prepare" /\ UNCHANGED <<gen, pc, commitFile>>
    BY <1>t, <1>6, <2>1 DEF PrepareDelegate, ProcessOK
  <2>3. named["tmp"][h] = 0
    BY <1>t, <2>1, <2>2 DEF WholeInv, DelegatesBuilt, Names
  <2> QED
    BY <1>3, <2>1, <2>2, <2>3
<1> QED
  BY <1>1, <1>2, <1>4, <1>5, <1>6 DEF Build

LEMMA HookedNext == KillNotHooking /\ IdleInv /\ [Next]_vars => NoneLeftHooked'
<1> SUFFICES ASSUME KillNotHooking, IdleInv, [Next]_vars
             PROVE  NoneLeftHooked'
  OBVIOUS
<1>t. /\ KernelOK /\ ProcessOK /\ JumpOnce /\ NamesInv /\ CommitFileOwner /\ StepOfPhase /\ Shared
      /\ PathInv /\ NamePart /\ FirstPart /\ NoneLeftHooked
  BY DEF IdleInv, LiveInv, PathInv, CommitInv, ConfirmInv, PhaseInv, WholeInv, TypeInv, TypeOK
<1> USE DEF Enter, Exit, kernel, files, process, history, LoopDone, AppliedPhase
<1>1. CASE Start
  BY <1>1, <1>t, HookedStill DEF Start, StartCommit, StartCleanup, CommitPhase, ApplyPhase
<1>2. CASE Cleanup
  <2>1. ASSUME \/ CleanupLoopEnds \/ DestroySets("destroy_last", cur - 1, "destroy_next")
               \/ DestroySets("destroy_next", cur + 1, AfterCleanup)
        PROVE  NoneLeftHooked'
    BY <2>1, <1>t, HookedStill
    DEF CleanupLoopEnds, DestroySets, AfterCleanup, CommitPhase, ApplyPhase
  <2>2. ASSUME NEW phase, NEW p,
               <<phase, p>> \in {<<"flush_tmp", "tmp">>, <<"flush_del", "del">>},
               FlushChain(phase, p)
        PROVE  NoneLeftHooked'
    <3>1. PICK n \in todo : jump' = IF n \in Hook THEN DropJump(n, named[p][n]) ELSE jump
      BY <2>2 DEF FlushChain
    <3>2. UNCHANGED <<named, gen, commitFile, pc>> /\ pc = phase
      BY <2>2 DEF FlushChain
    <3>3. \A h \in Delegates("tmp") : Unhooked(gen, h)
      BY <1>t, <2>2, <3>2 DEF NoneLeftHooked, CommitFileOwner, CommitPhase, ApplyPhase
    <3>4. ASSUME NEW h \in Delegates("tmp")
          PROVE  Unhooked(gen, h)'
      <4>1. h \in Hook /\ Unhooked(gen, h)
        BY <3>3 DEF Delegates
      <4>2. CASE n \in Hook /\ n = h
        BY <1>t, <3>1, <3>2, <4>1, <4>2, DropJumpEntries DEF Unhooked
      <4>3. CASE ~ (n \in Hook /\ n = h)
        <5>1. jump'[h] = jump[h]
          BY <1>t, <3>1, <4>1, <4>3, DropJumpOnce
        <5> QED
          BY <3>2, <4>1, <5>1 DEF Unhooked
      <4> QED
        BY <4>2, <4>3
    <3>5. Delegates("tmp")' = Delegates("tmp")
      BY <3>2 DEF Delegates, Names
    <3> QED
      BY <3>4, <3>5 DEF NoneLeftHooked
  <2>3. ASSUME NEW phase, NEW p,
               <<phase, p>> \in {<<"remove_tmp", "tmp">>, <<"remove_del", "del">>},
               RemoveChain(phase, p)
        PROVE  NoneLeftHooked'
    <3>1. UNCHANGED <<jump, gen, commitFile, pc>> /\ pc = phase
      BY <2>3 DEF RemoveChain
    <3>2. Delegates("tmp")' \subseteq Delegates("tmp")
      <4>1. PICK n \in todo : named' = named \/ named' = [named EXCEPT ![p][n] = 0]
        BY <2>3 DEF RemoveChain
      <4>2. \A x \in Name : named'["tmp"][x] \in {0, named["tmp"][x]}
        <5>1. CASE p = "tmp"
          BY <1>t, <4>1, <5>1 DEF KernelOK, Naming, Prefix
        <5>2. CASE p = "del"
          BY <1>t, <4>1, <5>2 DEF KernelOK, Naming, Prefix
        <5> QED
          BY <2>3, <5>1, <5>2
      <4> QED
        BY <4>2 DEF Delegates, Names
    <3> QED
      BY <1>t, <2>3, <3>1, <3>2
      DEF NoneLeftHooked, Unhooked, CommitFileOwner, CommitPhase, ApplyPhase
  <2> QED
    BY <1>2, <2>1, <2>2, <2>3 DEF Cleanup
<1>3. CASE Build
  BY <1>3, <1>t, HookedBuild
<1>4. CASE Apply
  <2>1. CASE RollbackAborts
    <3>1. /\ pc = "rb_unhook" /\ todo = {} /\ UNCHANGED <<named, jump, gen>>
          /\ \A h \in Delegates("tmp") : Unhooked(gen, h)
      BY <1>t, <2>1 DEF RollbackAborts, FirstPart, RollingBack
    <3> QED
      BY <3>1 DEF NoneLeftHooked, Unhooked, Delegates, Names
  <2>2. CASE ~RollbackAborts
    <3>1. pc' \in ApplyPhase
      BY <1>4, <2>2
      DEF Apply, StartApply, ModifyBuiltin, StartUnhook, StartAsking, PromptTimesOut, Rollback,
          StartRollbackUnhook, ApplyPhase
    <3> QED
      BY <3>1 DEF NoneLeftHooked
  <2> QED
    BY <2>1, <2>2
<1>5. CASE AnswerYes \/ AnswerNo
  BY <1>5
  DEF AnswerYes, AnswerNo, Rollback, StartCommit, ApplyPhase, CommitPhase, NoneLeftHooked
<1>6. CASE Commit
  <2>1. CASE WriteVersion
    <3>1. IsLive(gen) /\ pc = "write_version" /\ UNCHANGED <<named, jump, gen>>
      BY <2>1, <1>t DEF WriteVersion, Shared, IsLive
    <3>2. \A h \in Delegates("tmp") : Unhooked(gen, h)
      BY <1>t, <3>1, CommittedUnhooked DEF CommitPhase
    <3> QED
      BY <3>1, <3>2 DEF NoneLeftHooked, Unhooked, Delegates, Names
  <2>2. ASSUME \/ InvalidStep \/ CommitStill \/ RenameChain("real_to_delete", "real", "del")
               \/ RenameChain("tmp_to_real", "tmp", "real")
        PROVE  AppliedPhase'
    BY <2>2, <1>t
    DEF InvalidStep, CommitStill, DispatchStep, WriteStep, RenameEnds, RemoveCommitFile,
        TruncateVersion, RenameChain, CommitPhase, StepOfPhase, NoFile, Empty
  <2> QED
    BY <1>6, <2>1, <2>2, Zenon DEF Commit, CommitStill, NoneLeftHooked
<1>7. CASE Finish
  BY <1>7, <1>t, HookedStill
  DEF Finish, FailFileStops, Redirect, RunPostScripts, CommitPhase, ApplyPhase
<1>8. CASE Interrupt
  <2>1. pc \notin TrialPhase \cup {"hook"} /\ UNCHANGED <<named, jump, gen, commitFile>>
    BY <1>8 DEF Interrupt, KillNotHooking, KillOutsideTrial
  <2>2. CASE pc \in {"truncate_version", "write_version"}
    <3>1. IsLive(gen)
      BY <1>t, <2>2 DEF Shared, IsLive
    <3>2. \A h \in Delegates("tmp") : Unhooked(gen, h)
      BY <1>t, <2>2, <3>1, CommittedUnhooked DEF CommitPhase
    <3> QED
      BY <2>1, <3>2 DEF NoneLeftHooked, Unhooked, Delegates, Names
  <2>3. CASE pc \notin {"truncate_version", "write_version"}
    BY <1>t, <2>1, <2>3, HookedStill
    DEF TrialPhase, StepOfPhase, ApplyPhase, CommitPhase, NoFile, Empty
  <2> QED
    BY <2>2, <2>3
<1>9. CASE ForceDeleteCommitFile
  <2>1. /\ pc = "idle" /\ commitFile = Empty /\ UNCHANGED <<named, jump, gen>>
    BY <1>9 DEF ForceDeleteCommitFile
  <2>2. IsLive(gen)
    BY <1>t, <2>1 DEF NamePart, Renamed
  <2>3. \A h \in Delegates("tmp") : Unhooked(gen, h)
    BY <1>t, <2>1, <2>2, CommittedUnhooked DEF NoFile, Empty
  <2> QED
    BY <2>1, <2>3 DEF NoneLeftHooked, Unhooked, Delegates, Names
<1>10. CASE ForeignRule \/ UNCHANGED vars
  BY <1>10, <1>t DEF ForeignRule, vars, NoneLeftHooked, Unhooked, Delegates, Names
<1> QED
  BY <1>1, <1>2, <1>3, <1>4, <1>5, <1>6, <1>7, <1>8, <1>9, <1>10 DEF Next, Progress

\* Outside a reload the path is the confirmed ruleset alone, once at each of its
\* hooks: rollback, commit and cleanup leave nothing of another one behind, and
\* running them again doubles no jump.
THEOREM PathBetweenReloads ==
  ASSUME KillNotHooking
  PROVE  Spec => []IdlePathIsRunning
<1>1. Init => IdleInv
  BY LiveInit DEF Init, IdleInv, NoneLeftHooked, Delegates, Names, Prefix
<1>2. IdleInv /\ [Next]_vars => IdleInv'
  BY LiveNext, HookedNext DEF IdleInv, KillNotHooking
<1>3. IdleInv => IdlePathIsRunning
  <2> SUFFICES ASSUME IdleInv, pc = "idle", commitFile = NoFile, NEW h \in Hook
               PROVE  jump[h] = IF confirmed # {} /\ h \in HooksOf(Running)
                                THEN <<Running>> ELSE <<>>
    BY DEF IdlePathIsRunning
  <2>t. /\ KernelOK /\ HistoryOK /\ JumpOnce /\ JumpOwners /\ TmpIsCurrent /\ Settled /\ LiveFirst
        /\ NoneLeftHooked
    BY DEF IdleInv, LiveInv, PathInv, CommitInv, ConfirmInv, TypeInv, TypeOK, NamesInv, NamePart,
           FirstPart, PathPart
  <2>0. ~AppliedPhase /\ ~Committing /\ pc \notin ApplyPhase
    BY DEF AppliedPhase, Committing, CommitPhase, ApplyPhase
  <2>1. jump[h] \in Seq(Gen) /\ \A i, j \in 1..Len(jump[h]) : jump[h][i] = jump[h][j] => i = j
    BY <2>t DEF KernelOK, JumpOnce, OnceIn
  <2>2. ASSUME NEW i \in 1..Len(jump[h])
        PROVE  jump[h][i] = named["real"][h] /\ jump[h][i] # 0
    <3>1. jump[h][i] # 0
      BY <2>t, JumpsToGen
    <3>2. CASE h \in Delegates("tmp")
      BY <2>t, <2>0, <3>1, <3>2 DEF NoneLeftHooked, Unhooked, JumpOwners, TmpIsCurrent, Delegates, Names
    <3>3. CASE h \notin Delegates("tmp")
      BY <2>t, <3>1, <3>3 DEF JumpOwners, Delegates, Names, Name
    <3> QED
      BY <3>1, <3>2, <3>3
  <2>3. CASE confirmed # {} /\ h \in HooksOf(Running)
    <3>1. named["real"][h] = Running
      BY <2>t, <2>0, <2>3 DEF Settled, IsLive, Whole, RealOf
    <3>2. Running # 0
      BY <2>t, <2>3, RunningConfirmed DEF HistoryOK, Gen
    <3>3. jump[h] # <<>>
      BY <2>t, <2>0, <3>1, <3>2 DEF LiveFirst, First, ApplyPhase
    <3>4. \A i \in 1..Len(jump[h]) : jump[h][i] = Running
      BY <2>2, <3>1
    <3> QED
      BY <2>1, <2>3, <3>3, <3>4, OneRule
  <2>4. CASE ~ (confirmed # {} /\ h \in HooksOf(Running))
    <3>1. named["real"][h] = 0
      <4>1. h \notin Names("real")
        <5>1. CASE confirmed = {}
          BY <2>t, <2>0, <5>1 DEF Settled
        <5>2. CASE confirmed # {}
          <6>1. Running \in confirmed
            BY <2>t, <5>2, RunningConfirmed
          <6>2. content[Running] \subseteq Chain
            BY <2>t, <6>1 DEF HistoryOK
          <6> QED
            BY <2>t, <2>0, <2>4, <5>2, <6>2, ConstantsAssumption DEF Settled, IsLive, Whole
        <5> QED
          BY <5>1, <5>2
      <4> QED
        BY <4>1 DEF Names, Name
    <3>2. \A i \in 1..Len(jump[h]) : FALSE
      BY <2>2, <3>1
    <3> QED
      BY <2>1, <2>4, <3>2, OneRule
  <2> QED
    BY <2>3, <2>4
<1> QED
  BY <1>1, <1>2, <1>3, PTL DEF Spec

-----------------------------------------------------------------------------
(* The promise of CommitConfirm.                                            *)

\* Nothing is left under CFWTMP_ of what is confirmed, once it was renamed.
TmpSpent ==
  /\ gen \in confirmed /\ ~Committing => Names("tmp") = {}
  /\ commitFile \in {Empty, "done"} /\ pc \notin {"write_r2d", "write_t2r"} => Names("tmp") = {}
PromiseInv == LiveInv /\ TmpSpent

LEMMA SpentStill ==
  ASSUME TmpSpent, Names("tmp")' \subseteq Names("tmp"), UNCHANGED <<gen, confirmed>>,
         Committing => Committing',
         commitFile' \in {Empty, "done"} /\ pc' \notin {"write_r2d", "write_t2r"} =>
           commitFile \in {Empty, "done"} /\ pc \notin {"write_r2d", "write_t2r"}
  PROVE  TmpSpent'
BY DEF TmpSpent

LEMMA SpentRemove ==
  ASSUME KernelOK, TmpSpent, NEW phase, NEW p \in {"tmp", "del"}, RemoveChain(phase, p)
  PROVE  TmpSpent'
<1>1. /\ UNCHANGED <<gen, confirmed, pc, commitFile>>
      /\ \E n \in todo : named' = named \/ named' = [named EXCEPT ![p][n] = 0]
  BY DEF RemoveChain, files, history
<1>2. PICK m \in todo : named' = named \/ named' = [named EXCEPT ![p][m] = 0]
  BY <1>1
<1>3. \A n \in Name : named'["tmp"][n] \in {0, named["tmp"][n]}
  <2>1. CASE p = "tmp"
    BY <1>2, <2>1 DEF KernelOK, Naming, Prefix
  <2>2. CASE p = "del"
    BY <1>2, <2>2 DEF KernelOK, Naming, Prefix
  <2> QED
    BY <2>1, <2>2
<1>4. Names("tmp")' \subseteq Names("tmp")
  BY <1>3 DEF Names
<1> QED
  BY <1>1, <1>4, SpentStill DEF Committing

LEMMA SpentNext == KillOutsideTrial /\ PathInv /\ TmpSpent /\ [Next]_vars => TmpSpent'
<1> SUFFICES ASSUME KillOutsideTrial, PathInv, TmpSpent, [Next]_vars
             PROVE  TmpSpent'
  OBVIOUS
<1>t. /\ KernelOK /\ PhaseInv /\ NamesInv /\ StepOfPhase /\ ProcessOK
  BY DEF PathInv, CommitInv, ConfirmInv, WholeInv, TypeInv, TypeOK
<1> USE DEF Enter, Exit, kernel, files, process, history, Committing, LoopDone
<1>n. named' = named => Names("tmp")' \subseteq Names("tmp")
  BY DEF Names
<1>1. CASE Start
  BY <1>1, <1>n, SpentStill DEF Start, StartCommit, StartCleanup, CommitPhase
<1>2. CASE Cleanup
  <2>1. ASSUME FlushChain("flush_tmp", "tmp") \/ FlushChain("flush_del", "del")
               \/ CleanupLoopEnds \/ DestroySets("destroy_last", cur - 1, "destroy_next")
               \/ DestroySets("destroy_next", cur + 1, AfterCleanup)
        PROVE  TmpSpent'
    BY <2>1, <1>n, SpentStill DEF FlushChain, CleanupLoopEnds, DestroySets, CommitPhase
  <2> QED
    BY <1>2, <1>t, <2>1, SpentRemove DEF Cleanup
<1>3. CASE Build
  <2>1. CASE BuildFails
    BY <2>1, <1>n, SpentStill DEF BuildFails, CommitPhase, BuildPhase
  <2>2. CASE StartBuild
    <3>1. pc = "build" /\ gen' = gen + 1 /\ UNCHANGED <<commitFile, confirmed>>
      BY <2>2 DEF StartBuild
    <3>2. commitFile = NoFile
      BY <3>1, <1>t DEF PhaseInv, CommitFileOwner, CommitPhase
    <3>3. gen' \notin confirmed
      BY <1>t, <3>1 DEF NamesInv, ConfirmedBefore, ProcessOK, Gen
    <3> QED
      BY <3>1, <3>2, <3>3 DEF TmpSpent, NoFile, Empty
  <2>3. CASE RestoreTable \/ NewChain \/ FillChain \/ StartPrepare \/ PrepareDelegate
    <3>1. pc \in {"build_chains", "prepare"} /\ UNCHANGED <<commitFile, confirmed, gen>>
      BY <2>3 DEF RestoreTable, NewChain, FillChain, StartPrepare, PrepareDelegate
    <3>2. commitFile = NoFile /\ gen \notin confirmed
      BY <3>1, <1>t DEF PhaseInv, CommitFileOwner, CommitPhase, Unconfirmed
    <3> QED
      BY <3>1, <3>2 DEF TmpSpent, NoFile, Empty
  <2> QED
    BY <1>3, <2>1, <2>2, <2>3 DEF Build
<1>4. CASE Apply \/ AnswerNo
  BY <1>4, <1>n, SpentStill
  DEF Apply, StartApply, ModifyBuiltin, StartUnhook, StartAsking, PromptTimesOut, AnswerNo,
      Rollback, StartRollbackUnhook, RollbackAborts, CommitPhase
<1>5. CASE AnswerYes
  <2>1. pc = "ask" /\ pc' = "commit" /\ UNCHANGED commitFile
    BY <1>5 DEF AnswerYes, StartCommit
  <2>2. commitFile = NoFile
    BY <2>1, <1>t DEF PhaseInv, CommitFileOwner, CommitPhase
  <2> QED
    BY <2>1, <2>2 DEF TmpSpent, CommitPhase, NoFile, Empty
<1>6. CASE Commit
  <2>1. CASE InvalidStep \/ WriteVersion \/ TruncateVersion \/ RemoveCommitFile
             \/ WriteStep("write_done", "done")
    BY <2>1, <1>t, <1>n, SpentStill
    DEF InvalidStep, WriteStep, TruncateVersion, WriteVersion, RemoveCommitFile,
        CommitPhase, NoFile, Empty, StepOfPhase, TmpSpent
  <2>2. CASE DispatchStep \/ WriteStep("write_r2d", "rename_chain_real_to_delete")
             \/ RenameEnds("real_to_delete", "real", "write_t2r")
             \/ WriteStep("write_t2r", "rename_chain_tmp_to_real")
    BY <2>2, <1>t, <1>n, SpentStill
    DEF DispatchStep, WriteStep, RenameEnds, CommitPhase, NoFile, Empty, StepOfPhase
  <2>3. CASE RenameEnds("tmp_to_real", "tmp", "write_done")
    BY <2>3 DEF RenameEnds, TmpSpent, Names
  <2>4. ASSUME RenameChain("real_to_delete", "real", "del") \/ RenameChain("tmp_to_real", "tmp", "real")
        PROVE  TmpSpent'
    <3>1. pc \in {"real_to_delete", "tmp_to_real"} /\ UNCHANGED commitFile
      BY <2>4 DEF RenameChain
    <3> QED
      BY <3>1, <1>t DEF TmpSpent, StepOfPhase, NoFile, Empty
  <2> QED
    BY <1>6, <2>1, <2>2, <2>3, <2>4 DEF Commit
<1>7. CASE Finish
  BY <1>7, <1>n, SpentStill
  DEF Finish, FailFileStops, Redirect, RunPostScripts, CommitPhase
<1>8. CASE Interrupt
  <2>1. /\ pc \notin TrialPhase /\ pc' = "idle"
        /\ UNCHANGED <<named, gen, commitFile, confirmed>>
    BY <1>8 DEF Interrupt, KillOutsideTrial
  <2>2. CASE pc \in {"truncate_version", "write_version"}
    BY <2>1, <2>2, <1>t, <1>n, SpentStill DEF StepOfPhase, NoFile, Empty
  <2>3. CASE pc \notin {"truncate_version", "write_version"}
    BY <2>1, <2>3, <1>t, <1>n, SpentStill
    DEF TrialPhase, StepOfPhase, CommitPhase, NoFile, Empty
  <2> QED
    BY <2>2, <2>3
<1>9. CASE ForceDeleteCommitFile
  <2>1. /\ pc = "idle" /\ commitFile = Empty /\ commitFile' = NoFile
        /\ UNCHANGED <<named, gen, confirmed, pc>>
    BY <1>9 DEF ForceDeleteCommitFile
  <2> QED
    BY <2>1, <1>n DEF TmpSpent, NoFile, Empty
<1>10. CASE ForeignRule \/ UNCHANGED vars
  BY <1>10, <1>n, SpentStill DEF ForeignRule, vars
<1> QED
  BY <1>1, <1>2, <1>3, <1>4, <1>5, <1>6, <1>7, <1>8, <1>9, <1>10 DEF Next, Progress

\* -D of a jump that is not there.
LEMMA DropNothing ==
  ASSUME KernelOK, NEW h \in Hook, NEW g, Unhooked(g, h)
  PROVE  DropJump(h, g) = jump
<1>1. RemoveFirst(jump[h], g) = jump[h]
  BY DEF Unhooked, RemoveFirst
<1> QED
  BY <1>1 DEF DropJump, KernelOK

\* What a ruleset decides at a hook: nothing, if it has no rules there.
VerdictOf(g, h) == IF g # 0 /\ h \in HooksOf(g) THEN g ELSE 0

LEMMA RunningType ==
  ASSUME HistoryOK
  PROVE  /\ Running \in Gen \cup {0}
         /\ confirmed # {} <=> Running # 0
<1>1. 0 \notin Gen
  BY DEF Gen
<1> QED
  BY <1>1, RunningConfirmed DEF Running, HistoryOK

\* Between two commits the delegates of CFW_ are the live ruleset's.
LEMMA LiveVerdict ==
  ASSUME HistoryOK, Settled, ~Committing, NEW h \in Hook
  PROVE  named["real"][h] = VerdictOf(Running, h)
<1>1. CASE confirmed = {}
  <2>1. Names("real") = {} /\ Running = 0
    BY <1>1 DEF Settled, Running
  <2> QED
    BY <2>1 DEF VerdictOf, Names, Name
<1>2. CASE confirmed # {}
  <2>1. IsLive(Running) /\ Running \in Gen /\ Running # 0
    BY <1>2, RunningType DEF Settled
  <2>2. content[Running] \subseteq Chain
    BY <2>1, WholeNames
  <2>3. h \notin content[Running]
    BY <2>2, ConstantsAssumption
  <2>4. h \in Names("real") <=> h \in HooksOf(Running)
    BY <2>1, <2>3 DEF IsLive, Whole
  <2> QED
    BY <2>1, <2>4 DEF VerdictOf, IsLive, RealOf, Names, Name
<1> QED
  BY <1>1, <1>2

\* A hook that only CFW_ is jumped to from is the live ruleset's.
LEMMA OnlyLive ==
  ASSUME LiveInv, ~Committing, NEW h \in Hook, First(h),
         \A i \in 1..Len(jump[h]) : jump[h][i] = named["real"][h]
  PROVE  Decides(h) = VerdictOf(Running, h)
<1>t. KernelOK /\ HistoryOK /\ Settled
  BY DEF LiveInv, PathInv, CommitInv, ConfirmInv, TypeInv, TypeOK, NamePart
<1>1. named["real"][h] = VerdictOf(Running, h)
  BY <1>t, LiveVerdict
<1>2. CASE named["real"][h] = 0
  <2>1. \A i \in 1..Len(jump[h]) : FALSE
    BY <1>t, <1>2, JumpsToGen
  <2>2. jump[h] \in Seq(Gen)
    BY <1>t DEF KernelOK
  <2>3. jump[h] = <<>>
    BY <2>1, <2>2, LenProperties, EmptySeq
  <2> QED
    BY <1>1, <1>2, <2>3 DEF Decides
<1>3. CASE named["real"][h] # 0
  BY <1>1, <1>3 DEF First, Decides
<1> QED
  BY <1>2, <1>3

-----------------------------------------------------------------------------
(* The steps of the promise.                                                *)

\* Nothing of what was promised moves.
LEMMA Unseen ==
  ASSUME UNCHANGED <<jump, gen, content, confirmed>>, OnTrial' <=> OnTrial
  PROVE  UNCHANGED Promise!cvars
<1>1. Running' = Running /\ \A g : HooksOf(g)' = HooksOf(g)
  BY DEF Running, HooksOf
<1>2. \A h : Decides(h)' = Decides(h)
  BY DEF Decides
<1> QED
  BY <1>1, <1>2 DEF Promise!cvars

LEMMA Unmoved ==
  ASSUME UNCHANGED <<named, jump, gen, content, confirmed>>,
         gen \in confirmed \/ (pc' \in ApplyPhase <=> pc \in ApplyPhase)
  PROVE  UNCHANGED Promise!cvars
<1>1. OnTrial' <=> OnTrial
  BY DEF OnTrial, Delegates, Names
<1> QED
  BY <1>1, Unseen

\* Of what is confirmed there is no trial.
LEMMA NoTrial ==
  ASSUME UNCHANGED <<jump, gen, content, confirmed>>, gen \in confirmed
  PROVE  UNCHANGED Promise!cvars
BY Unseen DEF OnTrial

LEMMA HookMoves ==
  ASSUME HistoryOK, gen \in Gen, OnTrial, OnTrial', UNCHANGED <<gen, content, confirmed>>,
         NEW h \in Hook, \A x \in Hook : x # h => jump'[x] = jump[x],
         Decides(h)' \in {VerdictOf(gen, h), VerdictOf(Running, h)}
  PROVE  Promise!Switch
<1>0. gen # 0 /\ Running \in Gen \cup {0}
  BY RunningType DEF Gen
<1>1. Running' = Running /\ \A g : HooksOf(g)' = HooksOf(g)
  BY DEF Running, HooksOf
<1>2. \A x \in Hook : x # h => Decides(x)' = Decides(x)
  BY DEF Decides
<1> DEFINE d == [x \in Hook |-> Decides(x)]
           covers == [g \in Gen |-> HooksOf(g)]
<1>3. d' = [d EXCEPT ![h] = Decides(h)']
  BY <1>2
<1>4. VerdictOf(gen, h) = IF gen # 0 /\ h \in covers[gen] THEN gen ELSE 0
  BY DEF VerdictOf
<1>5. VerdictOf(Running, h) = IF Running # 0 /\ h \in covers[Running] THEN Running ELSE 0
  BY <1>0 DEF VerdictOf
<1> HIDE DEF d, covers
<1>6. d' = [d EXCEPT ![h] = Promise!Verdict(gen, h)] \/ d' = [d EXCEPT ![h] = Promise!Verdict(Running, h)]
  BY <1>3, <1>4, <1>5 DEF Promise!Verdict, covers
<1> QED
  BY <1>0, <1>1, <1>6 DEF Promise!Switch, d, covers, Promise!Verdict

LEMMA TrialStarts ==
  ASSUME ConfirmInv, gen \in Gen, ~OnTrial, OnTrial', UNCHANGED <<jump, gen, content, confirmed>>
  PROVE  Promise!Try
<1>t. HistoryOK /\ ConfirmedBefore
  BY DEF ConfirmInv, TypeInv, TypeOK, NamesInv
<1>1. Running' = Running /\ \A g : HooksOf(g)' = HooksOf(g)
  BY DEF Running, HooksOf
<1>2. \A h : Decides(h)' = Decides(h)
  BY DEF Decides
<1>3. gen > Running
  <2>1. CASE confirmed = {}
    BY <2>1 DEF Running, Gen
  <2>2. CASE confirmed # {}
    <3>1. Running \in confirmed /\ Running \in Gen
      BY <1>t, <2>2, RunningConfirmed DEF HistoryOK
    <3>2. gen \notin confirmed
      BY DEF OnTrial
    <3> QED
      BY <1>t, <3>1, <3>2 DEF ConfirmedBefore, Gen
  <2> QED
    BY <2>1, <2>2
<1> QED
  BY <1>1, <1>2, <1>3 DEF Promise!Try, Promise!Ruleset, Gen

LEMMA TrialEnds ==
  ASSUME HistoryOK, gen \in Gen, OnTrial, ~OnTrial', UNCHANGED <<jump, gen, content, confirmed>>,
         \A h \in Hook : Decides(h) = VerdictOf(Running, h)
  PROVE  Promise!Withdraw
<1>0. gen # 0 /\ Running \in Gen \cup {0}
  BY RunningType DEF Gen
<1>1. Running' = Running /\ \A g : HooksOf(g)' = HooksOf(g)
  BY DEF Running, HooksOf
<1>2. \A h : Decides(h)' = Decides(h)
  BY DEF Decides
<1> DEFINE d == [h \in Hook |-> Decides(h)]
           covers == [g \in Gen |-> HooksOf(g)]
<1>3. \A h \in Hook : d[h] = IF Running # 0 /\ h \in covers[Running] THEN Running ELSE 0
  BY <1>0 DEF VerdictOf
<1>4. d' = d /\ covers' = covers
  BY <1>1, <1>2
<1> HIDE DEF d, covers
<1> QED
  BY <1>0, <1>1, <1>3, <1>4 DEF Promise!Withdraw, Promise!Verdict, d, covers

-----------------------------------------------------------------------------
(* Every step of the reload is one of the promise, or none.                 *)

\* What a step leaves at the hook it moved: the verdict of whoever comes first.
LEMMA OwnersDecide ==
  ASSUME KernelOK', JumpOwners', HistoryOK, Settled, ~Committing, named' = named, NEW h \in Hook,
         \/ named["tmp"][h] = VerdictOf(gen, h)
         \/ \A i \in 1..Len(jump'[h]) : jump'[h][i] # named["tmp"][h],
         jump'[h] = <<>> => 0 \in {VerdictOf(gen, h), named["real"][h]}
  PROVE  Decides(h)' \in {VerdictOf(gen, h), VerdictOf(Running, h)}
<1>1. named["real"][h] = VerdictOf(Running, h)
  BY LiveVerdict
<1>2. CASE jump'[h] = <<>>
  BY <1>1, <1>2 DEF Decides
<1>3. CASE jump'[h] # <<>>
  <2>1. jump'[h] \in Seq(Gen)
    BY DEF KernelOK
  <2>2. 1 \in 1..Len(jump'[h])
    BY <1>3, <2>1, LenProperties, EmptySeq
  <2>3. jump'[h][1] \in {VerdictOf(gen, h), named["real"][h]}
    BY <2>2 DEF JumpOwners
  <2> QED
    BY <1>1, <1>3, <2>3 DEF Decides
<1> QED
  BY <1>2, <1>3

LEMMA TrialMoves ==
  ASSUME LiveInv, LiveInv', pc \in ApplyPhase, pc' \in ApplyPhase,
         UNCHANGED <<named, gen, content, confirmed>>,
         NEW h \in Hook, \A x \in Hook : x # h => jump'[x] = jump[x],
         jump'[h] = <<>> => 0 \in {named["tmp"][h], named["real"][h]}
  PROVE  Promise!Switch
<1>t. /\ HistoryOK /\ Settled /\ KernelOK' /\ JumpOwners' /\ gen \notin confirmed
  BY DEF LiveInv, PathInv, CommitInv, ConfirmInv, TypeInv, TypeOK, NamePart, PathPart, PhaseInv,
         Unconfirmed
<1>1. /\ commitFile = NoFile /\ gen \in Gen /\ Delegates("tmp") = HooksOf(gen)
      /\ \A x \in Delegates("tmp") : named["tmp"][x] = gen
  BY TrialNames DEF LiveInv, PathInv
<1>2. ~Committing /\ gen # 0
  BY <1>1 DEF Gen, Committing, ApplyPhase, CommitPhase
<1>3. named["tmp"][h] = VerdictOf(gen, h)
  BY <1>1, <1>2 DEF VerdictOf, Delegates, Names, Name
<1>4. Decides(h)' \in {VerdictOf(gen, h), VerdictOf(Running, h)}
  BY <1>t, <1>2, <1>3, OwnersDecide
<1>5. OnTrial /\ OnTrial'
  BY <1>t DEF OnTrial
<1> QED
  BY <1>t, <1>1, <1>4, <1>5, HookMoves

LEMMA PromiseApply ==
  ASSUME PromiseInv, LiveInv', Apply \/ AnswerNo
  PROVE  [Promise!CNext]_(Promise!cvars)
<1>t. /\ KernelOK /\ ConfirmInv /\ HistoryOK /\ JumpOnce /\ RollingBack' /\ UnhookedSoFar' /\ GenStarted
      /\ HookLoops /\ UnhookedSoFar /\ RollingBack /\ LiveInv /\ ProcessOK /\ gen \in Gen \cup {0}
  BY DEF PromiseInv, LiveInv, PathInv, CommitInv, ConfirmInv, TypeInv, TypeOK, Loops, PathPart,
         FirstPart, ProcessOK
<1>1. CASE StartApply
  <2>1. /\ pc = "prepare" /\ pc' = "hook"
        /\ UNCHANGED <<named, jump, gen, content, confirmed>>
    BY <1>1 DEF StartApply, LoopDone, Enter, kernel, history
  <2>2. OnTrial' /\ gen \in Gen
    BY <1>t, <2>1 DEF OnTrial, ApplyPhase, ConfirmInv, PhaseInv, Unconfirmed, GenStarted
  <2> QED
    BY <1>t, <2>1, <2>2, Unseen, TrialStarts DEF Promise!CNext
<1>2. CASE StartUnhook \/ StartAsking \/ PromptTimesOut \/ AnswerNo \/ StartRollbackUnhook
  <2>1. /\ pc \in ApplyPhase /\ pc' \in ApplyPhase
        /\ UNCHANGED <<named, jump, gen, content, confirmed>>
    BY <1>2
    DEF StartUnhook, StartAsking, PromptTimesOut, AnswerNo, Rollback, StartRollbackUnhook,
        LoopDone, Enter, ApplyPhase, kernel, history
  <2> QED
    BY <2>1, Unmoved
<1>3. CASE ModifyBuiltin("hook", "tmp", AddJump)
  <2>1. PICK h \in todo : jump' = AddJump(h, named["tmp"][h])
    BY <1>3 DEF ModifyBuiltin
  <2>2. pc = "hook" /\ pc' = "hook" /\ UNCHANGED <<named, gen, content, confirmed>>
    BY <1>3 DEF ModifyBuiltin, history
  <2>3. h \in Hook /\ named["tmp"][h] \in Gen
    BY <1>t, <2>1, <2>2 DEF HookLoops, Delegates, Names, KernelOK, Naming, Prefix, Name
  <2>4. /\ \A x \in Hook : x # h => jump'[x] = jump[x]
        /\ \E i \in 1..Len(jump'[h]) : jump'[h][i] = named["tmp"][h]
    BY <1>t, <2>1, <2>3, AddJumpEntries
  <2>5. jump'[h] # <<>>
    BY <2>4
  <2>6. Promise!Switch
    BY <1>t, <2>2, <2>3, <2>4, <2>5, TrialMoves DEF ApplyPhase
  <2> QED
    BY <2>6 DEF Promise!CNext
<1>4. CASE ModifyBuiltin("unhook", "real", DropJump)
  <2>1. PICK h \in todo : jump' = DropJump(h, named["real"][h])
    BY <1>4 DEF ModifyBuiltin
  <2>2. pc = "unhook" /\ pc' = "unhook" /\ UNCHANGED <<named, gen, content, confirmed>>
    BY <1>4 DEF ModifyBuiltin, history
  <2>3. h \in Hook
    BY <1>t, <2>1, <2>2 DEF UnhookedSoFar, Delegates
  <2>4. \A x \in Hook : x # h => jump'[x] = jump[x]
    BY <1>t, <2>1, <2>3, DropJumpEntries
  <2>5. jump'[h] = <<>> => named["tmp"][h] = 0
    BY <1>t, <2>2, <2>3 DEF UnhookedSoFar, Hooked, Delegates, Names, Name
  <2>6. Promise!Switch
    BY <1>t, <2>2, <2>3, <2>4, <2>5, TrialMoves DEF ApplyPhase
  <2> QED
    BY <2>6 DEF Promise!CNext
<1>5. CASE ModifyBuiltin("rb_hook", "real", AddJump)
  <2>1. PICK h \in todo : jump' = AddJump(h, named["real"][h])
    BY <1>5 DEF ModifyBuiltin
  <2>2. pc = "rb_hook" /\ pc' = "rb_hook" /\ UNCHANGED <<named, gen, content, confirmed>>
    BY <1>5 DEF ModifyBuiltin, history
  <2>3. h \in Hook /\ named["real"][h] \in Gen
    BY <1>t, <2>1, <2>2 DEF HookLoops, Delegates, Names, KernelOK, Naming, Prefix, Name
  <2>4. /\ \A x \in Hook : x # h => jump'[x] = jump[x]
        /\ \E i \in 1..Len(jump'[h]) : jump'[h][i] = named["real"][h]
    BY <1>t, <2>1, <2>3, AddJumpEntries
  <2>5. jump'[h] # <<>>
    BY <2>4
  <2>6. Promise!Switch
    BY <1>t, <2>2, <2>3, <2>4, <2>5, TrialMoves DEF ApplyPhase
  <2> QED
    BY <2>6 DEF Promise!CNext
<1>6. CASE ModifyBuiltin("rb_unhook", "tmp", DropJump)
  <2>1. PICK h \in todo : jump' = DropJump(h, named["tmp"][h])
    BY <1>6 DEF ModifyBuiltin
  <2>2. pc = "rb_unhook" /\ pc' = "rb_unhook" /\ UNCHANGED <<named, gen, content, confirmed>>
    BY <1>6 DEF ModifyBuiltin, history
  <2>3. h \in Hook
    BY <1>t, <2>1, <2>2 DEF RollingBack, Delegates
  <2>4. \A x \in Hook : x # h => jump'[x] = jump[x]
    BY <1>t, <2>1, <2>3, DropJumpEntries
  <2>5. jump'[h] = <<>> => named["real"][h] = 0
    BY <1>t, <2>2, <2>3 DEF RollingBack, Hooked, Delegates, Names, Name
  <2>6. Promise!Switch
    BY <1>t, <2>2, <2>3, <2>4, <2>5, TrialMoves DEF ApplyPhase
  <2> QED
    BY <2>6 DEF Promise!CNext
<1>7. CASE RollbackAborts
  <2>1. /\ pc = "rb_unhook" /\ todo = {}
        /\ UNCHANGED <<named, jump, gen, content, confirmed>>
    BY <1>7 DEF RollbackAborts, LoopDone, kernel, history
  <2>2. OnTrial /\ gen \in Gen /\ ~Committing
    <3>1. commitFile = NoFile /\ gen \in Gen
      BY <2>1, TrialNames DEF PromiseInv, LiveInv, PathInv, ApplyPhase
    <3> QED
      BY <1>t, <2>1, <3>1
      DEF OnTrial, ApplyPhase, ConfirmInv, PhaseInv, Unconfirmed, Committing, CommitPhase
  <2>3. \A h \in Hook : Decides(h) = VerdictOf(Running, h)
    BY <2>1, <2>2, RolledBack, OnlyLive DEF PromiseInv, LiveInv
  <2> QED
    BY <1>t, <2>1, <2>2, <2>3, Unseen, TrialEnds DEF Promise!CNext
<1> QED
  BY <1>1, <1>2, <1>3, <1>4, <1>5, <1>6, <1>7 DEF Apply

\* Where CFWTMP_ is not hooked, what decides is the live ruleset.
LEMMA NotHooked ==
  ASSUME LiveInv, ~Committing, ~AppliedPhase, pc \notin {"unhook", "rb_hook", "rb_unhook"},
         \A h \in Delegates("tmp") : Unhooked(gen, h), NEW h \in Hook
  PROVE  Decides(h) = VerdictOf(Running, h)
<1>t. KernelOK /\ JumpOwners /\ LiveFirst /\ TmpIsCurrent
  BY DEF LiveInv, PathInv, CommitInv, ConfirmInv, TypeInv, TypeOK, PathPart, FirstPart, NamesInv
<1>1. First(h)
  BY <1>t DEF LiveFirst
<1>2. ASSUME NEW i \in 1..Len(jump[h])
      PROVE  jump[h][i] = named["real"][h]
  <2>1. jump[h][i] \in {named["real"][h], named["tmp"][h]} /\ jump[h][i] # 0
    BY <1>t, <1>2, JumpsToGen DEF JumpOwners
  <2>2. CASE jump[h][i] = named["tmp"][h]
    <3>1. h \in Delegates("tmp") /\ named["tmp"][h] = gen
      BY <1>t, <2>1, <2>2 DEF TmpIsCurrent, Delegates, Names, Name
    <3> QED
      BY <1>2, <2>2, <3>1 DEF Unhooked
  <2> QED
    BY <2>1, <2>2
<1> QED
  BY <1>1, <1>2, OnlyLive

LEMMA PromiseFlush ==
  ASSUME PromiseInv, LiveInv', NEW phase, NEW p,
         <<phase, p>> \in {<<"flush_tmp", "tmp">>, <<"flush_del", "del">>},
         FlushChain(phase, p)
  PROVE  [Promise!CNext]_(Promise!cvars)
<1>t. /\ KernelOK /\ HistoryOK /\ ProcessOK /\ ConfirmInv /\ JumpOnce /\ JumpOwners /\ DelApart /\ Settled
      /\ KernelOK' /\ JumpOwners' /\ LiveFirst' /\ TmpIsCurrent /\ TmpApart /\ CommitFileOwner
  BY DEF PromiseInv, LiveInv, PathInv, CommitInv, ConfirmInv, TypeInv, TypeOK, PathPart,
         FirstPart, NamePart, NamesInv, PhaseInv
<1>1. PICK n \in todo : jump' = IF n \in Hook THEN DropJump(n, named[p][n]) ELSE jump
  BY DEF FlushChain
<1>2. /\ pc = phase /\ pc' = phase /\ phase \in {"flush_tmp", "flush_del"}
      /\ UNCHANGED <<named, gen, content, confirmed, commitFile>>
  BY DEF FlushChain, files, history
<1>3. commitFile = NoFile /\ ~Committing
  BY <1>t, <1>2 DEF CommitFileOwner, Committing, CommitPhase
<1>4. CASE jump' = jump
  BY <1>2, <1>4, Unmoved DEF ApplyPhase
<1>5. CASE jump' # jump
  <2>1. n \in Hook /\ ~Unhooked(named[p][n], n)
    BY <1>t, <1>1, <1>5, DropNothing
  <2>2. PICK i \in 1..Len(jump[n]) : jump[n][i] = named[p][n]
    BY <2>1 DEF Unhooked
  <2>3. named[p][n] \in {named["real"][n], named["tmp"][n]} /\ named[p][n] # 0 /\ n \in Name
    BY <1>t, <2>1, <2>2, JumpsToGen DEF JumpOwners, Name
  <2>4. p = "tmp"
    BY <1>t, <2>3 DEF DelApart, Names
  <2>5. /\ n \in Delegates("tmp") /\ named["tmp"][n] = gen /\ gen \notin confirmed /\ gen \in Gen
    BY <1>t, <1>3, <2>1, <2>3, <2>4
    DEF TmpIsCurrent, Delegates, Names, PromiseInv, TmpSpent, ProcessOK
  <2>6. OnTrial /\ OnTrial'
    BY <1>2, <2>5 DEF OnTrial, Delegates, Names
  <2>7. /\ \A x \in Hook : x # n => jump'[x] = jump[x]
        /\ \A j \in 1..Len(jump'[n]) : jump'[n][j] # gen
    BY <1>t, <1>1, <2>1, <2>4, <2>5, DropJumpEntries
  <2>8. jump'[n] = <<>> => named["real"][n] = 0
    BY <1>t, <1>2, <1>3, <2>1 DEF LiveFirst, First, AppliedPhase, CommitPhase
  <2>9. Decides(n)' \in {VerdictOf(gen, n), VerdictOf(Running, n)}
    BY <1>t, <1>2, <1>3, <2>1, <2>5, <2>7, <2>8, OwnersDecide
  <2>10. Promise!Switch
    BY <1>t, <1>2, <2>1, <2>5, <2>6, <2>7, <2>9, HookMoves
  <2> QED
    BY <2>10 DEF Promise!CNext
<1> QED
  BY <1>4, <1>5

LEMMA PromiseRemove ==
  ASSUME PromiseInv, NEW phase, NEW p,
         <<phase, p>> \in {<<"remove_tmp", "tmp">>, <<"remove_del", "del">>},
         RemoveChain(phase, p)
  PROVE  [Promise!CNext]_(Promise!cvars)
<1>t. /\ KernelOK /\ HistoryOK /\ ProcessOK /\ CommitFileOwner /\ Removing /\ TmpIsCurrent
  BY DEF PromiseInv, LiveInv, PathInv, CommitInv, ConfirmInv, TypeInv, TypeOK, PhaseInv, LoopInv,
         NamesInv
<1>1. /\ pc = phase /\ pc' = phase /\ p \in {"tmp", "del"}
      /\ UNCHANGED <<jump, gen, content, confirmed, commitFile>>
      /\ \E n \in todo : named' = named \/ named' = [named EXCEPT ![p][n] = 0]
  BY DEF RemoveChain, files, history
<1>2. PICK m \in todo : named' = named \/ named' = [named EXCEPT ![p][m] = 0]
  BY <1>1
<1>3. CASE OnTrial' <=> OnTrial
  BY <1>1, <1>3, Unseen
<1>4. CASE ~(OnTrial' <=> OnTrial)
  <2>1. pc \notin ApplyPhase /\ pc' \notin ApplyPhase
    BY <1>1 DEF ApplyPhase
  <2>2. p = "tmp"
    <3>1. CASE p = "del"
      <4>1. named'["tmp"] = named["tmp"]
        BY <1>t, <1>2, <3>1 DEF KernelOK, Naming, Prefix
      <4>2. Delegates("tmp")' = Delegates("tmp")
        BY <4>1 DEF Delegates, Names
      <4> QED
        BY <1>1, <1>4, <2>1, <4>1, <4>2 DEF OnTrial
    <3> QED
      BY <1>1, <3>1
  <2>3. \A n \in Name : named'["tmp"][n] \in {0, named["tmp"][n]}
    BY <1>t, <1>2, <2>2 DEF KernelOK, Naming, Prefix
  <2>4. OnTrial' => OnTrial
    BY <1>1, <2>1, <2>3 DEF OnTrial, Delegates, Names
  <2>5. OnTrial /\ ~OnTrial'
    BY <1>4, <2>4
  <2>6. gen \in Gen
    BY <1>t, <2>1, <2>5 DEF OnTrial, Delegates, Names, ProcessOK
  <2>7. commitFile = NoFile /\ ~Committing
    BY <1>t, <1>1 DEF CommitFileOwner, Committing, CommitPhase
  <2>8. \A h \in Delegates("tmp") : Unhooked(gen, h)
    BY <1>t, <1>1, <2>2 DEF Removing
  <2>9. \A h \in Hook : Decides(h) = VerdictOf(Running, h)
    BY <1>1, <2>7, <2>8, NotHooked DEF PromiseInv, AppliedPhase, CommitPhase
  <2>10. Promise!Withdraw
    BY <1>t, <1>1, <2>5, <2>6, <2>9, TrialEnds
  <2> QED
    BY <2>10 DEF Promise!CNext
<1> QED
  BY <1>3, <1>4

LEMMA PromiseCleanup ==
  ASSUME PromiseInv, LiveInv', Cleanup
  PROVE  [Promise!CNext]_(Promise!cvars)
<1>1. CASE CleanupLoopEnds \/ DestroySets("destroy_last", cur - 1, "destroy_next")
             \/ DestroySets("destroy_next", cur + 1, AfterCleanup)
  <2>1. /\ pc \notin ApplyPhase /\ pc' \notin ApplyPhase
        /\ UNCHANGED <<named, jump, gen, content, confirmed>>
    BY <1>1
    DEF CleanupLoopEnds, DestroySets, AfterCleanup, LoopDone, Enter, ApplyPhase, kernel, history
  <2> QED
    BY <2>1, Unmoved
<1> QED
  BY <1>1, PromiseFlush, PromiseRemove DEF Cleanup

LEMMA PromiseDeclare ==
  ASSUME PromiseInv, StartBuild
  PROVE  Promise!Declare
<1>t. /\ ProcessOK /\ HistoryOK /\ TmpGone /\ ConfirmedBefore
  BY DEF PromiseInv, LiveInv, PathInv, CommitInv, ConfirmInv, TypeInv, TypeOK, LoopInv, NamesInv
<1>1. PICK c \in Config : content' = [content EXCEPT ![gen + 1] = c]
  BY DEF StartBuild
<1>2. /\ pc = "build" /\ pc' = "build_chains" /\ gen' = gen + 1 /\ gen + 1 \in Gen /\ gen \in Nat
      /\ UNCHANGED <<named, jump, confirmed>>
  BY <1>t, ConstantsAssumption DEF StartBuild, Enter, ProcessOK, Gen
<1>3. ~OnTrial /\ ~OnTrial'
  BY <1>t, <1>2 DEF TmpGone, OnTrial, ApplyPhase, Delegates, Names
<1>4. Running' = Running /\ gen + 1 > Running
  <2>1. Running' = Running
    BY <1>2 DEF Running
  <2>2. CASE confirmed = {}
    BY <1>2, <2>2 DEF Running
  <2>3. CASE confirmed # {}
    <3>1. Running \in confirmed /\ Running \in Gen
      BY <1>t, <2>3, RunningConfirmed DEF HistoryOK
    <3> QED
      BY <1>t, <1>2, <2>1, <3>1 DEF ConfirmedBefore, Gen
  <2> QED
    BY <2>1, <2>2, <2>3, <1>2 DEF Gen
<1> DEFINE covers == [g \in Gen |-> HooksOf(g)]
           hs == {HookOf[x] : x \in c} \ {NoHook}
<1>5. hs \in SUBSET Hook
  <2>1. content'[gen + 1] = c /\ c \subseteq Chain
    BY <1>t, <1>1, <1>2, ConstantsAssumption DEF HistoryOK
  <2> QED
    BY <2>1, ConstantsAssumption
<1>6. covers' = [covers EXCEPT ![gen + 1] = hs]
  <2>1. \A g \in Gen : g # gen + 1 => content'[g] = content[g]
    BY <1>t, <1>1, <1>2 DEF HistoryOK
  <2>2. content'[gen + 1] = c
    BY <1>t, <1>1, <1>2 DEF HistoryOK
  <2>3. \A g \in Gen : HooksOf(g)' = IF g = gen + 1 THEN hs ELSE HooksOf(g)
    BY <2>1, <2>2 DEF HooksOf
  <2> HIDE DEF hs
  <2> QED
    BY <2>3, <1>2
<1>7. \A h : Decides(h)' = Decides(h)
  BY <1>2 DEF Decides
<1> HIDE DEF covers, hs
<1>8. \E g \in Gen, x \in SUBSET Hook :
        g > Running /\ g # 0 /\ covers' = [covers EXCEPT ![g] = x]
  <2>1. gen + 1 # 0
    BY <1>2
  <2> QED
    BY <1>2, <1>4, <1>5, <1>6, <2>1
<1> QED
  BY <1>3, <1>4, <1>7, <1>8 DEF Promise!Declare, Promise!Ruleset, Gen, covers

LEMMA PromiseBuild ==
  ASSUME PromiseInv, Build
  PROVE  [Promise!CNext]_(Promise!cvars)
<1>t. /\ KernelOK /\ ConfirmInv /\ HistoryOK /\ ProcessOK /\ ChainsBuilt /\ DelegatesBuilt /\ GenStarted
  BY DEF PromiseInv, LiveInv, PathInv, CommitInv, ConfirmInv, TypeInv, TypeOK, WholeInv, Loops
<1>1. CASE StartBuild
  BY <1>1, PromiseDeclare DEF Promise!CNext
<1>2. CASE FillChain \/ StartPrepare \/ BuildFails
  <2>1. /\ pc \notin ApplyPhase /\ pc' \notin ApplyPhase
        /\ UNCHANGED <<named, jump, gen, content, confirmed>>
    BY <1>2
    DEF FillChain, StartPrepare, BuildFails, BuildPhase, LoopDone, Enter, Exit, ApplyPhase,
        kernel, history
  <2> QED
    BY <2>1, Unmoved
<1>3. CASE RestoreTable \/ NewChain
  <2>1. /\ pc = "build_chains" /\ pc' = pc /\ UNCHANGED <<jump, gen, content, confirmed>>
        /\ \E cs \in SUBSET todo : NameTmp(cs)
    BY <1>3 DEF RestoreTable, NewChain, kernel, process, history
  <2>2. PICK cs \in SUBSET todo : NameTmp(cs)
    BY <2>1
  <2>3. gen \in Gen
    BY <1>t, <2>1 DEF GenStarted, ProcessOK
  <2>4. cs \subseteq Chain
    BY <1>t, <2>1, <2>3, WholeNames DEF ChainsBuilt
  <2>5. \A n \in Name : named'["tmp"][n] = IF n \in cs THEN gen ELSE named["tmp"][n]
    BY <1>t, <2>2 DEF NameTmp, KernelOK, Naming, Prefix
  <2>6. \A n \in Hook : named'["tmp"][n] = named["tmp"][n] /\ n \in Name
    BY <2>4, <2>5, ConstantsAssumption DEF Name
  <2>7. Delegates("tmp")' = Delegates("tmp")
    BY <2>6 DEF Delegates, Names
  <2>8. OnTrial' <=> OnTrial
    BY <2>1, <2>6, <2>7 DEF OnTrial, Delegates
  <2> QED
    BY <2>1, <2>8, Unseen
<1>4. CASE PrepareDelegate
  <2>1. /\ pc = "prepare" /\ pc' = "prepare" /\ UNCHANGED <<jump, gen, content, confirmed>>
        /\ \E h \in todo : NameTmp({h})
    BY <1>4 DEF PrepareDelegate, files, history
  <2>2. PICK h \in todo : NameTmp({h})
    BY <2>1
  <2>3. gen \in Gen /\ gen \notin confirmed
    BY <1>t, <2>1 DEF GenStarted, ProcessOK, ConfirmInv, PhaseInv, Unconfirmed
  <2>4. h \in Hook /\ h \in Name
    BY <1>t, <2>1, <2>3, WholeNames DEF DelegatesBuilt, Name
  <2>5. named'["tmp"][h] = gen /\ gen # 0
    BY <1>t, <2>2, <2>3, <2>4 DEF NameTmp, KernelOK, Naming, Prefix, Gen
  <2>6. OnTrial'
    BY <2>1, <2>3, <2>4, <2>5 DEF OnTrial, Delegates, Names
  <2> QED
    BY <1>t, <2>1, <2>3, <2>6, Unseen, TrialStarts DEF Promise!CNext
<1> QED
  BY <1>1, <1>2, <1>3, <1>4 DEF Build

LEMMA PromiseConfirm ==
  ASSUME PromiseInv, AnswerYes
  PROVE  Promise!Confirm
<1>t. /\ HistoryOK /\ ConfirmInv /\ Applied /\ ConfirmedBefore
  BY DEF PromiseInv, LiveInv, PathInv, CommitInv, ConfirmInv, TypeInv, TypeOK, PathPart, NamesInv
<1>1. /\ pc = "ask" /\ confirmed' = confirmed \cup {gen}
      /\ UNCHANGED <<named, jump, gen, content>>
  BY DEF AnswerYes, kernel
<1>2. gen \in Gen /\ gen # 0
  BY <1>1, TrialNames DEF PromiseInv, LiveInv, PathInv, ApplyPhase, Gen
<1>3. OnTrial /\ ~OnTrial'
  BY <1>t, <1>1 DEF OnTrial, ApplyPhase, ConfirmInv, PhaseInv, Unconfirmed
<1>4. Running' = gen
  <2>1. gen \in confirmed' /\ \A x \in confirmed' : x <= gen /\ x \in Nat
    BY <1>t, <1>1, <1>2 DEF ConfirmedBefore, HistoryOK, Gen
  <2>2. \A g \in confirmed' : (\A x \in confirmed' : x <= g) => g = gen
    BY <2>1
  <2>3. (CHOOSE g \in confirmed' : \A x \in confirmed' : x <= g) = gen
    BY <2>1, <2>2
  <2> QED
    BY <2>1, <2>3 DEF Running
<1>5. \A g : HooksOf(g)' = HooksOf(g)
  BY <1>1 DEF HooksOf
<1>6. \A h : Decides(h)' = Decides(h)
  BY <1>1 DEF Decides
<1> DEFINE d == [h \in Hook |-> Decides(h)]
           covers == [g \in Gen |-> HooksOf(g)]
<1>7. \A h \in Hook : d[h] = IF gen # 0 /\ h \in covers[gen] THEN gen ELSE 0
  <2> SUFFICES ASSUME NEW h \in Hook
               PROVE  Decides(h) = IF h \in HooksOf(gen) THEN gen ELSE 0
    BY <1>2
  <2>1. jump[h] = IF h \in HooksOf(gen) THEN <<gen>> ELSE <<>>
    BY <1>t, <1>1 DEF Applied, AppliedPhase
  <2> QED
    BY <2>1 DEF Decides
<1>8. d' = d /\ covers' = covers
  BY <1>5, <1>6
<1> HIDE DEF d, covers
<1> QED
  BY <1>2, <1>3, <1>4, <1>7, <1>8 DEF Promise!Confirm, Promise!Verdict, d, covers

LEMMA PromiseCommit ==
  ASSUME PromiseInv, Commit
  PROVE  UNCHANGED Promise!cvars
<1>1. /\ pc \in CommitPhase /\ UNCHANGED <<jump, gen, content, confirmed>>
  BY DEF Commit, DispatchStep, InvalidStep, WriteStep, RenameChain, RenameEnds, RemoveCommitFile,
         TruncateVersion, WriteVersion, CommitPhase, kernel, process, history
<1>2. gen \in confirmed
  BY <1>1 DEF PromiseInv, LiveInv, PathInv, CommitInv, ConfirmInv, PhaseInv, CommitOfConfirmed
<1> QED
  BY <1>1, <1>2, NoTrial

LEMMA PromiseInterrupt ==
  ASSUME KillOutsideTrial, PromiseInv, Interrupt
  PROVE  [Promise!CNext]_(Promise!cvars)
<1>t. ConfirmInv /\ HistoryOK /\ CommitFileOwner
  BY DEF PromiseInv, LiveInv, PathInv, CommitInv, ConfirmInv, TypeInv, TypeOK, PhaseInv
<1>1. /\ pc \notin TrialPhase /\ pc' = "idle" /\ UNCHANGED <<named, jump, gen, content, confirmed>>
  BY DEF Interrupt, KillOutsideTrial, Exit, Enter, kernel, history
<1>2. CASE pc # "hook"
  <2>1. pc \notin ApplyPhase /\ pc' \notin ApplyPhase
    BY <1>1, <1>2 DEF TrialPhase, ApplyPhase
  <2> QED
    BY <1>1, <2>1, Unmoved
<1>3. CASE pc = "hook"
  <2>1. /\ commitFile = NoFile /\ gen \in Gen
    BY <1>3, TrialNames DEF PromiseInv, LiveInv, PathInv, ApplyPhase
  <2>2. OnTrial
    BY <1>t, <1>3 DEF OnTrial, ApplyPhase, ConfirmInv, PhaseInv, Unconfirmed
  <2>3. CASE OnTrial'
    BY <1>1, <2>2, <2>3, Unseen
  <2>4. CASE ~OnTrial'
    <3>1. Delegates("tmp") = {}
      <4> SUFFICES ASSUME NEW n \in Delegates("tmp")
                   PROVE  FALSE
        OBVIOUS
      <4>1. named["tmp"][n] = gen
        BY <1>3, TrialNames DEF PromiseInv, LiveInv, PathInv, ApplyPhase
      <4> QED
        BY <1>1, <2>2, <2>4, <4>1 DEF OnTrial, Delegates, Names
    <3>2. ~Committing /\ ~AppliedPhase
      BY <1>3, <2>1 DEF Committing, AppliedPhase, CommitPhase
    <3>3. \A h \in Hook : Decides(h) = VerdictOf(Running, h)
      BY <1>3, <3>1, <3>2, NotHooked DEF PromiseInv
    <3>4. Promise!Withdraw
      BY <1>t, <1>1, <2>1, <2>2, <2>4, <3>3, TrialEnds
    <3> QED
      BY <3>4 DEF Promise!CNext
  <2> QED
    BY <2>3, <2>4
<1> QED
  BY <1>2, <1>3

LEMMA PromiseNext ==
  ASSUME KillOutsideTrial, PromiseInv, LiveInv', [Next]_vars
  PROVE  [Promise!CNext]_(Promise!cvars)
<1>1. CASE Start \/ Finish \/ ForceDeleteCommitFile \/ ForeignRule \/ UNCHANGED vars
  <2>1. /\ pc' = pc \/ (pc \notin ApplyPhase /\ pc' \notin ApplyPhase)
        /\ UNCHANGED <<named, jump, gen, content, confirmed>>
    BY <1>1
    DEF Start, StartCommit, StartCleanup, Finish, FailFileStops, Redirect, RunPostScripts,
        ForceDeleteCommitFile, ForeignRule, Enter, Exit, ApplyPhase, kernel, files, process,
        history, vars
  <2> QED
    BY <2>1, Unmoved
<1>2. CASE AnswerYes
  BY <1>2, PromiseConfirm DEF Promise!CNext
<1> QED
  BY <1>1, <1>2, PromiseCleanup, PromiseBuild, PromiseApply, PromiseCommit, PromiseInterrupt
  DEF Next, Progress

LEMMA PromiseStarts == Init => Promise!CInit
<1> SUFFICES ASSUME Init
             PROVE  Promise!CInit
  OBVIOUS
<1>1. Running = 0 /\ ~OnTrial
  BY DEF Init, Running, OnTrial, ApplyPhase, Delegates, Names, Prefix
<1>2. \A g \in Gen : HooksOf(g) = {}
  BY DEF Init, HooksOf
<1>3. \A h \in Hook : Decides(h) = 0
  BY DEF Init, Decides
<1> QED
  BY <1>1, <1>2, <1>3 DEF Promise!CInit, Promise!Ruleset, Gen

\* The reload implements CommitConfirm: whoever sends packets through the host
\* sees, hook by hook, the ruleset last confirmed or the one being tried, and
\* every trial ends with all hooks on one side: fw_apply hands over and its
\* rollback hands back one built-in chain at a time, and neither the cleanup nor
\* the commit moves a packet.
THEOREM KeepsPromise ==
  ASSUME KillOutsideTrial
  PROVE  Spec => PromiseKept
<1>1. Init => PromiseInv /\ Promise!CInit
  BY LiveInit, PromiseStarts
  DEF PromiseInv, TmpSpent, Init, Names, NoFile, Empty, Prefix
<1>2. PromiseInv /\ [Next]_vars => PromiseInv'
  BY LiveNext, SpentNext DEF PromiseInv, LiveInv
<1>3. PromiseInv /\ PromiseInv' /\ [Next]_vars => [Promise!CNext]_(Promise!cvars)
  BY PromiseNext DEF PromiseInv
<1> QED
  BY <1>1, <1>2, <1>3, PTL DEF Spec, PromiseKept, Promise!CSpec
=============================================================================
