--------------------------- MODULE FwCommitProofs ---------------------------
(***************************************************************************)
(* What is committed is one whole ruleset, and the one that is applied: the *)
(* inductive invariants behind it, and the theorems.                        *)
(*                                                                          *)
(* A commit renames chain by chain and can be interrupted between any two   *)
(* of them, so the argument says what the two prefixes hold together for    *)
(* each step the commit file can name.  That the ruleset was whole to begin *)
(* with is followed through the build, where every name the loop has not    *)
(* left is missing and no other.                                            *)
(*                                                                          *)
(* The loops of fw_apply go over names, and what a packet meets are the     *)
(* jumps of the built-in chains.  JumpOwners ties them together: no jump    *)
(* leads to a ruleset that neither CFW_ nor CFWTMP_ names, so that a hook   *)
(* the loops over these two have passed holds no third ruleset.             *)
(***************************************************************************)
EXTENDS FwConfirmProofs

\* The names of a ruleset: its chains and its delegates.
Whole(g) == content[g] \cup HooksOf(g)

\* The step the commit file names, by the phase of the commit.
StepOfPhase ==
  /\ pc \in {"write_r2d", "write_t2r", "write_done"} => commitFile = Empty
  /\ pc = "real_to_delete" => commitFile = "rename_chain_real_to_delete"
  /\ pc = "tmp_to_real" => commitFile = "rename_chain_tmp_to_real"
  /\ pc = "remove_file" => commitFile = "done"
  /\ pc \in {"truncate_version", "write_version"} => commitFile = NoFile

\* What the build has made so far.
ChainsBuilt ==
  pc = "build_chains" =>
    /\ todo \subseteq content[gen] /\ Names("tmp") \subseteq content[gen]
    /\ content[gen] \ todo \subseteq Names("tmp")
DelegatesBuilt ==
  pc = "prepare" => todo \subseteq HooksOf(gen) /\ Names("tmp") = Whole(gen) \ todo

\* From the end of the build to the first rename of tmp_to_real, CFWTMP_ is whole.
BeforeRenames ==
  \/ pc \in ApplyPhase \cup {"write_r2d", "real_to_delete", "write_t2r"}
  \/ pc = "commit" /\ commitFile = NoFile
  \/ commitFile = "rename_chain_real_to_delete"
TmpWhole == BeforeRenames => Names("tmp") = Whole(gen)

\* From then to the last one, the two prefixes share it.
RealOf(g) == \A n \in Names("real") : named["real"][n] = g
Shared ==
  /\ pc = "write_t2r" => Names("real") = {}
  /\ commitFile = "rename_chain_tmp_to_real" =>
       Names("tmp") \cup Names("real") = Whole(gen) /\ RealOf(gen)
  /\ pc \in {"write_done", "truncate_version", "write_version"} \/ commitFile = "done" =>
       Names("real") = Whole(gen) /\ RealOf(gen)

\* Between two commits CFW_ is one ruleset, or nothing.
RealWhole ==
  commitFile \in {NoFile, Empty} /\ Names("real") # {} =>
    \E g \in 1..gen : g \in Gen /\ Names("real") = Whole(g) /\ RealOf(g)

WholeInv ==
  /\ StepOfPhase /\ ChainsBuilt /\ DelegatesBuilt
  /\ TmpWhole /\ Shared /\ RealWhole
CommitInv == ConfirmInv /\ WholeInv

-----------------------------------------------------------------------------
(* Steps that rename nothing and build nothing.                             *)

Still == UNCHANGED <<named, gen, content>>

LEMMA StillNames ==
  ASSUME Still
  PROVE  /\ \A p : Names(p)' = Names(p)
         /\ \A g : Whole(g)' = Whole(g) /\ HooksOf(g)' = HooksOf(g)
         /\ \A g : RealOf(g)' <=> RealOf(g)
<1>1. \A p : Names(p)' = Names(p)
  BY DEF Still, Names
<1>2. \A g : HooksOf(g)' = HooksOf(g)
  BY DEF Still, HooksOf
<1> QED
  BY <1>1, <1>2 DEF Still, Whole, RealOf

LEMMA StillRealWhole ==
  ASSUME RealWhole, Still, commitFile' \in {NoFile, Empty} => commitFile \in {NoFile, Empty}
  PROVE  RealWhole'
<1> SUFFICES ASSUME commitFile' \in {NoFile, Empty}, Names("real") # {}
             PROVE  \E g \in 1..gen : g \in Gen /\ Names("real") = Whole(g) /\ RealOf(g)
  BY StillNames DEF RealWhole, Still
<1> QED
  BY DEF RealWhole

\* The reload is not in its build, in its trial or in a commit.
AtRest == {"idle", "build"} \cup CleanupPhase \cup SavePhase

LEMMA RestStep ==
  ASSUME WholeInv, Still, UNCHANGED commitFile, pc' \in AtRest
  PROVE  WholeInv'
<1>1. RealWhole'
  BY StillRealWhole DEF WholeInv
<1> QED
  BY <1>1, StillNames
  DEF WholeInv, StepOfPhase, ChainsBuilt, DelegatesBuilt, TmpWhole, BeforeRenames, Shared,
      AtRest, CleanupPhase, SavePhase, ApplyPhase, Still

LEMMA TrialStep ==
  ASSUME WholeInv, Still, UNCHANGED commitFile, pc \in ApplyPhase, pc' \in ApplyPhase
  PROVE  WholeInv'
<1>1. RealWhole'
  BY StillRealWhole DEF WholeInv
<1> QED
  BY <1>1, StillNames
  DEF WholeInv, StepOfPhase, ChainsBuilt, DelegatesBuilt, TmpWhole, BeforeRenames, Shared,
      ApplyPhase, Still

LEMMA StutterStep ==
  ASSUME WholeInv, Still, UNCHANGED <<commitFile, pc, todo>>
  PROVE  WholeInv'
<1>1. RealWhole'
  BY StillRealWhole DEF WholeInv
<1> QED
  BY <1>1, StillNames
  DEF WholeInv, StepOfPhase, ChainsBuilt, DelegatesBuilt, TmpWhole, BeforeRenames, Shared,
      ApplyPhase, Still

-----------------------------------------------------------------------------
(* Names.                                                                   *)

\* Delegates and chains are different names, and a ruleset's are of Name.
LEMMA WholeNames ==
  ASSUME HistoryOK, NEW g \in Gen
  PROVE  content[g] \subseteq Chain /\ HooksOf(g) \subseteq Hook
<1>1. content[g] \subseteq Chain
  BY DEF HistoryOK
<1>2. \A c \in content[g] : HookOf[c] \in Hook \cup {NoHook}
  BY <1>1, ConstantsAssumption
<1> QED
  BY <1>1, <1>2 DEF HooksOf

\* What a build adds to CFWTMP_.
LEMMA NameTmpNames ==
  ASSUME KernelOK, gen \in Gen, NEW cs \in SUBSET Name, NameTmp(cs)
  PROVE  /\ Names("tmp")' = Names("tmp") \cup cs
         /\ named'["real"] = named["real"] /\ Names("real")' = Names("real")
<1>1. /\ named'["real"] = named["real"]
      /\ \A n \in Name : named'["tmp"][n] = IF n \in cs THEN gen ELSE named["tmp"][n]
  BY DEF NameTmp, KernelOK, Naming, Prefix
<1>2. gen # 0
  BY DEF Gen
<1> QED
  BY <1>1, <1>2 DEF Names

-----------------------------------------------------------------------------
(* The cleanup and the build.                                               *)

LEMMA WholeRemove ==
  ASSUME CommitInv, NEW phase, NEW p,
         <<phase, p>> \in {<<"remove_tmp", "tmp">>, <<"remove_del", "del">>},
         RemoveChain(phase, p)
  PROVE  WholeInv'
<1>1. /\ UNCHANGED <<pc, gen, content, commitFile>> /\ pc \in {"remove_tmp", "remove_del"}
      /\ commitFile = NoFile
  BY DEF RemoveChain, history, files, CommitInv, ConfirmInv, PhaseInv, CommitFileOwner,
         CommitPhase
<1>2. named'["real"] = named["real"]
  BY DEF RemoveChain, CommitInv, ConfirmInv, TypeInv, TypeOK, KernelOK, Naming, Prefix
<1>3. /\ Names("real")' = Names("real")
      /\ \A g : Whole(g)' = Whole(g) /\ (RealOf(g)' <=> RealOf(g))
  BY <1>1, <1>2 DEF Names, Whole, HooksOf, RealOf
<1>4. RealWhole'
  <2>1. RealWhole
    BY DEF CommitInv, WholeInv
  <2> QED
    BY <1>1, <1>3, <2>1 DEF RealWhole
<1> QED
  BY <1>1, <1>3, <1>4
  DEF WholeInv, StepOfPhase, ChainsBuilt, DelegatesBuilt, TmpWhole, BeforeRenames, Shared,
      ApplyPhase, NoFile

LEMMA WholeStartBuild ==
  ASSUME CommitInv, StartBuild
  PROVE  WholeInv'
<1>t. KernelOK /\ ProcessOK /\ HistoryOK
  BY DEF CommitInv, ConfirmInv, TypeInv, TypeOK
<1>1. PICK c \in Config :
        /\ content' = [content EXCEPT ![gen + 1] = c]
        /\ todo' = c
  BY DEF StartBuild, Enter
<1>2. /\ pc = "build" /\ pc' = "build_chains" /\ gen' = gen + 1 /\ gen + 1 \in Gen
      /\ gen \in Nat /\ UNCHANGED <<named, commitFile>>
  BY <1>t, ConstantsAssumption DEF StartBuild, Enter, ProcessOK, Gen
<1>3. commitFile = NoFile /\ Names("tmp") = {}
  BY <1>2
  DEF CommitInv, ConfirmInv, PhaseInv, CommitFileOwner, CommitPhase, LoopInv, TmpGone
<1>4. content'[gen'] = c /\ \A g \in Gen : g # gen' => content'[g] = content[g]
  BY <1>t, <1>1, <1>2 DEF HistoryOK
<1>5. \A p : Names(p)' = Names(p)
  BY <1>2 DEF Names
<1>6. ChainsBuilt'
  BY <1>1, <1>3, <1>4, <1>5 DEF ChainsBuilt
<1>7. RealWhole'
  <2> SUFFICES ASSUME Names("real") # {}
               PROVE  \E g \in 1..gen' : g \in Gen /\ Names("real") = Whole(g)' /\ RealOf(g)'
    BY <1>5 DEF RealWhole
  <2>1. PICK g \in 1..gen : g \in Gen /\ Names("real") = Whole(g) /\ RealOf(g)
    BY <1>3 DEF CommitInv, WholeInv, RealWhole
  <2>2. g \in 1..gen' /\ g # gen'
    BY <1>2, <2>1
  <2>3. Whole(g)' = Whole(g)
    BY <1>4, <2>1, <2>2 DEF Whole, HooksOf
  <2>4. RealOf(g)'
    BY <1>2, <1>5, <2>1 DEF RealOf
  <2> QED
    BY <2>1, <2>2, <2>3, <2>4
<1> QED
  BY <1>2, <1>3, <1>6, <1>7
  DEF WholeInv, StepOfPhase, DelegatesBuilt, TmpWhole, BeforeRenames, Shared, ApplyPhase, NoFile

\* The build of chains and of delegates; what else there is does not change.
LEMMA BuildStep ==
  ASSUME CommitInv, NEW cs \in SUBSET Name, NameTmp(cs),
         pc \in {"build_chains", "prepare"}, pc' = pc, UNCHANGED <<gen, content, commitFile>>,
         ChainsBuilt', DelegatesBuilt'
  PROVE  WholeInv'
<1>t. KernelOK /\ ProcessOK /\ Loops
  BY DEF CommitInv, ConfirmInv, TypeInv, TypeOK
<1>1. commitFile = NoFile /\ gen \in Gen
  BY <1>t
  DEF CommitInv, ConfirmInv, PhaseInv, CommitFileOwner, CommitPhase, ProcessOK, Loops, GenStarted
<1>2. named'["real"] = named["real"] /\ Names("real")' = Names("real")
  BY <1>t, <1>1, NameTmpNames
<1>3. \A g : Whole(g)' = Whole(g) /\ (RealOf(g)' <=> RealOf(g))
  BY <1>2 DEF Whole, HooksOf, RealOf
<1>4. RealWhole'
  <2>1. RealWhole
    BY DEF CommitInv, WholeInv
  <2> QED
    BY <1>2, <1>3, <2>1 DEF RealWhole
<1> QED
  BY <1>1, <1>4
  DEF WholeInv, StepOfPhase, TmpWhole, BeforeRenames, Shared, ApplyPhase, NoFile

\* Both loops of the build make what they have left behind, and nothing else.
LEMMA Built ==
  ASSUME TypeInv, ChainsBuilt, DelegatesBuilt,
         RestoreTable \/ NewChain \/ FillChain \/ StartPrepare \/ PrepareDelegate
  PROVE  ChainsBuilt' /\ DelegatesBuilt'
<1>t. KernelOK /\ ProcessOK /\ HistoryOK /\ Loops
  BY DEF TypeInv, TypeOK
<1>0. /\ pc \in {"build_chains", "prepare"} /\ gen \in Gen
      /\ UNCHANGED <<gen, content, commitFile>>
      /\ \A g : Whole(g)' = Whole(g) /\ HooksOf(g)' = HooksOf(g)
  BY <1>t
  DEF RestoreTable, NewChain, FillChain, StartPrepare, PrepareDelegate, LoopDone, ProcessOK,
      Loops, GenStarted, history, files, process, Whole, HooksOf
<1>n. content[gen] \subseteq Chain /\ HooksOf(gen) \subseteq Hook
  BY <1>t, <1>0, WholeNames
<1>1. CASE RestoreTable
  <2>1. PICK t \in {TableOf[c] : c \in todo} :
          /\ NameTmp({c \in todo : TableOf[c] = t})
          /\ todo' = todo \ {c \in todo : TableOf[c] = t}
    BY <1>1 DEF RestoreTable
  <2> DEFINE built == {c \in todo : TableOf[c] = t}
  <2>2. built \in SUBSET Name /\ built \subseteq todo
    BY <1>t DEF ProcessOK
  <2>3. Names("tmp")' = Names("tmp") \cup built
    BY <1>t, <1>0, <2>1, <2>2, NameTmpNames
  <2>4. pc = "build_chains" /\ pc' = pc
    BY <1>1 DEF RestoreTable
  <2> HIDE DEF built
  <2> QED
    BY <1>0, <2>1, <2>2, <2>3, <2>4 DEF ChainsBuilt, DelegatesBuilt, built
<1>2. CASE NewChain
  <2>1. PICK c \in todo : NameTmp({c})
    BY <1>2 DEF NewChain
  <2>2. {c} \in SUBSET Name
    BY <1>t DEF ProcessOK
  <2>3. Names("tmp")' = Names("tmp") \cup {c}
    BY <1>t, <1>0, <2>1, <2>2, NameTmpNames
  <2>4. pc = "build_chains" /\ pc' = pc /\ todo' = todo
    BY <1>2 DEF NewChain, process
  <2> QED
    BY <1>0, <2>1, <2>3, <2>4 DEF ChainsBuilt, DelegatesBuilt
<1>3. CASE FillChain
  <2>1. PICK c \in todo : named["tmp"][c] = gen /\ todo' = todo \ {c}
    BY <1>3 DEF FillChain
  <2>2. c \in Names("tmp")
    BY <1>t, <1>0, <2>1 DEF Names, ProcessOK, Gen
  <2>3. pc = "build_chains" /\ pc' = pc /\ Still
    BY <1>3 DEF FillChain, history, Still
  <2> QED
    BY <1>0, <2>1, <2>2, <2>3, StillNames DEF ChainsBuilt, DelegatesBuilt
<1>4. CASE StartPrepare
  <2>1. /\ pc = "build_chains" /\ todo = {} /\ pc' = "prepare" /\ todo' = WantedHooks
        /\ Still
    BY <1>4 DEF StartPrepare, LoopDone, Enter, kernel, history, Still
  <2>2. Names("tmp") = content[gen]
    BY <2>1 DEF ChainsBuilt
  <2>3. WantedHooks = HooksOf(gen)
    BY <1>n, <2>2 DEF WantedHooks, HooksOf
  <2>4. Names("tmp") = Whole(gen) \ HooksOf(gen)
    BY <1>n, <2>2, ConstantsAssumption DEF Whole
  <2> QED
    BY <1>0, <2>1, <2>3, <2>4, StillNames DEF ChainsBuilt, DelegatesBuilt
<1>5. CASE PrepareDelegate
  <2>1. PICK h \in todo : NameTmp({h}) /\ todo' = todo \ {h}
    BY <1>5 DEF PrepareDelegate
  <2>2. {h} \in SUBSET Name
    BY <1>t DEF ProcessOK
  <2>3. Names("tmp")' = Names("tmp") \cup {h}
    BY <1>t, <1>0, <2>1, <2>2, NameTmpNames
  <2>4. pc = "prepare" /\ pc' = pc
    BY <1>5 DEF PrepareDelegate
  <2>5. h \in Whole(gen)
    BY <2>1, <2>4 DEF DelegatesBuilt, Whole
  <2> QED
    BY <1>0, <2>1, <2>3, <2>4, <2>5 DEF ChainsBuilt, DelegatesBuilt
<1> QED
  BY <1>1, <1>2, <1>3, <1>4, <1>5

LEMMA WholeBuild ==
  ASSUME CommitInv, RestoreTable \/ NewChain \/ FillChain \/ StartPrepare \/ PrepareDelegate
  PROVE  WholeInv'
<1>t. KernelOK /\ ProcessOK /\ TypeInv
  BY DEF CommitInv, ConfirmInv, TypeInv, TypeOK
<1>b. ChainsBuilt' /\ DelegatesBuilt'
  BY <1>t, Built DEF CommitInv, WholeInv
<1>1. CASE RestoreTable \/ NewChain \/ PrepareDelegate
  <2>1. PICK cs \in SUBSET todo : NameTmp(cs)
    <3>1. CASE RestoreTable
      <4>1. PICK t \in {TableOf[c] : c \in todo} : NameTmp({c \in todo : TableOf[c] = t})
        BY <3>1 DEF RestoreTable
      <4> QED
        BY <4>1
    <3>2. CASE NewChain \/ PrepareDelegate
      <4>1. PICK c \in todo : NameTmp({c})
        BY <3>2 DEF NewChain, PrepareDelegate
      <4> QED
        BY <4>1
    <3> QED
      BY <1>1, <3>1, <3>2
  <2>2. cs \in SUBSET Name
    BY <1>t DEF ProcessOK
  <2>3. /\ pc \in {"build_chains", "prepare"} /\ pc' = pc /\ UNCHANGED <<gen, content, commitFile>>
    BY <1>1 DEF RestoreTable, NewChain, PrepareDelegate, files, history, process
  <2> QED
    BY <1>b, <2>1, <2>2, <2>3, BuildStep
<1>2. CASE FillChain \/ StartPrepare
  <2>1. pc = "build_chains" /\ pc' \in {pc, "prepare"} /\ Still /\ UNCHANGED commitFile
    BY <1>2 DEF FillChain, StartPrepare, LoopDone, Enter, kernel, files, history, Still
  <2>2. RealWhole'
    BY <2>1, StillRealWhole DEF CommitInv, WholeInv
  <2> QED
    BY <1>b, <2>1, <2>2, StillNames
    DEF CommitInv, WholeInv, StepOfPhase, TmpWhole, BeforeRenames, Shared, ApplyPhase, Still
<1> QED
  BY <1>1, <1>2

-----------------------------------------------------------------------------
(* The commit.                                                              *)

\* A step of the commit that renames nothing changes where it is and what its
\* file names.
CommitStill ==
  \/ DispatchStep
  \/ WriteStep("write_r2d", "rename_chain_real_to_delete")
  \/ RenameEnds("real_to_delete", "real", "write_t2r")
  \/ WriteStep("write_t2r", "rename_chain_tmp_to_real")
  \/ RenameEnds("tmp_to_real", "tmp", "write_done")
  \/ WriteStep("write_done", "done")
  \/ RemoveCommitFile
  \/ TruncateVersion

LEMMA WholeCommitStill ==
  ASSUME CommitInv, CommitStill
  PROVE  WholeInv'
<1>0. Still /\ pc \in CommitPhase /\ pc' \in CommitPhase
  BY DEF CommitStill, DispatchStep, WriteStep, RenameEnds, RemoveCommitFile, TruncateVersion,
         Enter, kernel, history, Still, CommitPhase
<1>w. WholeInv
  BY DEF CommitInv
<1>g. gen \in Gen /\ gen \in 1..gen
  <2>1. gen \in Gen
    BY <1>0
    DEF CommitInv, ConfirmInv, PhaseInv, CommitOfConfirmed, TypeInv, TypeOK, HistoryOK
  <2> QED
    BY <2>1, ConstantsAssumption DEF Gen
<1> USE DEF WholeInv, StepOfPhase, ChainsBuilt, DelegatesBuilt, TmpWhole, BeforeRenames, Shared,
            ApplyPhase, NoFile, Empty, Enter
<1>1. CASE DispatchStep
  <2>1. RealWhole'
    BY <1>0, <1>1, <1>w, StillRealWhole DEF DispatchStep
  <2> QED
    BY <1>0, <1>1, <1>w, <2>1, StillNames DEF DispatchStep, Still
<1>2. CASE WriteStep("write_r2d", "rename_chain_real_to_delete")
  <2>1. RealWhole'
    BY <1>2 DEF WriteStep, RealWhole
  <2> QED
    BY <1>0, <1>2, <1>w, <2>1, StillNames DEF WriteStep, Still
<1>3. CASE RenameEnds("real_to_delete", "real", "write_t2r")
  <2>1. Names("real")' = {}
    BY <1>0, <1>3, StillNames DEF RenameEnds
  <2>2. RealWhole'
    BY <2>1 DEF RealWhole
  <2> QED
    BY <1>0, <1>3, <1>w, <2>1, <2>2, StillNames DEF RenameEnds, Still
<1>4. CASE WriteStep("write_t2r", "rename_chain_tmp_to_real")
  <2>1. RealWhole'
    BY <1>4 DEF WriteStep, RealWhole
  <2>2. Names("real") = {} /\ Names("tmp") = Whole(gen) /\ RealOf(gen)
    BY <1>4, <1>w DEF WriteStep, RealOf
  <2>3. /\ Names("tmp")' \cup Names("real")' = Whole(gen)' /\ RealOf(gen)'
        /\ Names("tmp")' = Whole(gen)'
    BY <1>0, <2>2, StillNames DEF Still
  <2>4. pc' = "commit" /\ commitFile' = "rename_chain_tmp_to_real"
    BY <1>4 DEF WriteStep
  <2> QED
    BY <2>1, <2>3, <2>4
<1>5. CASE RenameEnds("tmp_to_real", "tmp", "write_done")
  <2>1. Names("real") = Whole(gen) /\ RealOf(gen)
    BY <1>5, <1>w DEF RenameEnds
  <2>2. RealWhole'
    BY <1>0, <1>g, <2>1, StillNames DEF RealWhole, Still
  <2> QED
    BY <1>0, <1>5, <1>w, <2>1, <2>2, StillNames DEF RenameEnds, Still
<1>6. CASE WriteStep("write_done", "done")
  <2>1. RealWhole'
    BY <1>6 DEF WriteStep, RealWhole
  <2> QED
    BY <1>0, <1>6, <1>w, <2>1, StillNames DEF WriteStep, Still
<1>7. CASE RemoveCommitFile
  <2>1. Names("real") = Whole(gen) /\ RealOf(gen)
    BY <1>7, <1>w DEF RemoveCommitFile
  <2>2. RealWhole'
    BY <1>0, <1>g, <2>1, StillNames DEF RealWhole, Still
  <2> QED
    BY <1>0, <1>7, <1>w, <2>1, <2>2, StillNames DEF RemoveCommitFile, Still
<1>8. CASE TruncateVersion
  <2>1. RealWhole'
    BY <1>0, <1>8, <1>w, StillRealWhole DEF TruncateVersion
  <2> QED
    BY <1>0, <1>8, <1>w, <2>1, StillNames DEF TruncateVersion, Still
<1> QED
  BY <1>1, <1>2, <1>3, <1>4, <1>5, <1>6, <1>7, <1>8 DEF CommitStill

LEMMA WholeRename ==
  ASSUME CommitInv, NEW phase, NEW from, NEW to,
         <<phase, from, to>> \in {<<"real_to_delete", "real", "del">>,
                                  <<"tmp_to_real", "tmp", "real">>},
         RenameChain(phase, from, to)
  PROVE  WholeInv'
<1>t. KernelOK /\ WholeInv
  BY DEF CommitInv, ConfirmInv, TypeInv, TypeOK
<1>1. CASE named' = named /\ pc' = "idle"
  <2>1. Still /\ UNCHANGED commitFile
    BY <1>1 DEF RenameChain, process, files, history, Still
  <2> QED
    BY <1>1, <1>t, <2>1, RestStep DEF AtRest
<1>2. CASE ~(named' = named /\ pc' = "idle")
  <2>1. PICK n \in Names(from) :
          /\ named' = [named EXCEPT ![to][n] = named[from][n], ![from][n] = 0]
          /\ UNCHANGED process
    BY <1>2 DEF RenameChain, Exit, Enter
  <2>2. /\ pc = phase /\ pc' = phase /\ UNCHANGED <<gen, content, commitFile>>
        /\ \A g : Whole(g)' = Whole(g)
    BY <2>1 DEF RenameChain, process, files, history, Whole, HooksOf
  <2>3. /\ Names(from)' = Names(from) \ {n} /\ Names(to)' = Names(to) \cup {n}
        /\ from = "real" => Names("tmp")' = Names("tmp")
        /\ \A x \in Name : named'[to][x] = IF x = n THEN named[from][n] ELSE named[to][x]
    <3>1. /\ \A x \in Name : named'[from][x] = IF x = n THEN 0 ELSE named[from][x]
          /\ \A x \in Name : named'[to][x] = IF x = n THEN named[from][n] ELSE named[to][x]
          /\ from = "real" => named'["tmp"] = named["tmp"]
      BY <1>t, <2>1 DEF KernelOK, Naming, Prefix, Names
    <3> QED
      BY <3>1 DEF Names
  <2> USE DEF WholeInv, StepOfPhase, ChainsBuilt, DelegatesBuilt, TmpWhole, BeforeRenames,
              Shared, ApplyPhase, NoFile, Empty
  <2>4. CASE from = "real"
    <3>1. phase = "real_to_delete" /\ commitFile = "rename_chain_real_to_delete"
      BY <1>t, <2>2, <2>4
    <3>2. RealWhole'
      BY <2>2, <3>1 DEF RealWhole
    <3> QED
      BY <1>t, <2>2, <2>3, <2>4, <3>1, <3>2
  <2>5. CASE from = "tmp"
    <3>1. /\ phase = "tmp_to_real" /\ to = "real"
          /\ commitFile = "rename_chain_tmp_to_real"
      BY <1>t, <2>2, <2>5
    <3>2. RealWhole'
      BY <2>2, <3>1 DEF RealWhole
    <3>3. named["tmp"][n] = gen
      BY <2>1, <2>5 DEF CommitInv, ConfirmInv, NamesInv, TmpIsCurrent, Names
    <3>4. (Names("tmp") \cup Names("real"))' = Whole(gen)'
      BY <1>t, <2>1, <2>2, <2>3, <2>5, <3>1
    <3>5. RealOf(gen)
      BY <1>t, <3>1
    <3>6. RealOf(gen)'
      <4> SUFFICES ASSUME NEW x \in Names("real")' PROVE named'["real"][x] = gen
        BY <2>2 DEF RealOf
      <4>1. x \in Name /\ x \in Names("real") \cup {n}
        BY <2>3, <3>1 DEF Names
      <4> QED
        BY <2>3, <2>5, <3>1, <3>3, <3>5, <4>1 DEF RealOf
    <3> QED
      BY <1>t, <2>2, <3>1, <3>2, <3>4, <3>6
  <2> QED
    BY <2>4, <2>5
<1> QED
  BY <1>1, <1>2

-----------------------------------------------------------------------------
LEMMA WholeInit == Init => WholeInv
<1> SUFFICES ASSUME Init PROVE WholeInv
  OBVIOUS
<1>1. Names("real") = {}
  BY DEF Init, Names, Prefix
<1> QED
  BY <1>1
  DEF Init, WholeInv, StepOfPhase, ChainsBuilt, DelegatesBuilt, TmpWhole, BeforeRenames, Shared,
      RealWhole, ApplyPhase, NoFile

LEMMA WholeNext == CommitInv /\ [Next]_vars => WholeInv'
<1> SUFFICES ASSUME CommitInv, [Next]_vars
             PROVE  WholeInv'
  OBVIOUS
<1>w. WholeInv
  BY DEF CommitInv
<1> USE DEF Enter, Exit, kernel, files, process, history, Still
<1>1. CASE Start
  <2>1. CASE commitFile # NoFile
    <3>1. Still /\ UNCHANGED commitFile /\ pc = "idle" /\ pc' = "commit"
      BY <1>1, <2>1 DEF Start, StartCommit
    <3>2. RealWhole'
      BY <1>w, <3>1, StillRealWhole DEF WholeInv
    <3> QED
      BY <1>w, <2>1, <3>1, <3>2, StillNames
      DEF WholeInv, StepOfPhase, ChainsBuilt, DelegatesBuilt, TmpWhole, BeforeRenames, Shared,
          ApplyPhase
  <2>2. CASE commitFile = NoFile
    BY <1>1, <1>w, <2>2, RestStep DEF Start, StartCleanup, AtRest, CleanupPhase
  <2> QED
    BY <2>1, <2>2
<1>2. CASE Cleanup
  <2>1. ASSUME FlushChain("flush_tmp", "tmp") \/ FlushChain("flush_del", "del")
               \/ CleanupLoopEnds \/ DestroySets("destroy_last", cur - 1, "destroy_next")
               \/ DestroySets("destroy_next", cur + 1, AfterCleanup)
        PROVE  WholeInv'
    BY <1>w, <2>1, RestStep
    DEF FlushChain, CleanupLoopEnds, DestroySets, AfterCleanup, LoopDone, AtRest, CleanupPhase,
        SavePhase
  <2> QED
    BY <1>2, <2>1, WholeRemove DEF Cleanup
<1>3. CASE Build
  <2>1. CASE BuildFails
    BY <1>w, <2>1, RestStep DEF BuildFails, AtRest
  <2> QED
    BY <1>3, <2>1, WholeStartBuild, WholeBuild DEF Build
<1>4. CASE StartApply
  <2>1. /\ Still /\ UNCHANGED commitFile /\ pc = "prepare" /\ todo = {} /\ pc' = "hook"
    BY <1>4 DEF StartApply, LoopDone
  <2>2. RealWhole'
    BY <1>w, <2>1, StillRealWhole DEF WholeInv
  <2> QED
    BY <1>w, <2>1, <2>2, StillNames
    DEF WholeInv, StepOfPhase, ChainsBuilt, DelegatesBuilt, TmpWhole, BeforeRenames, Shared,
        ApplyPhase
<1>5. ASSUME \/ ModifyBuiltin("hook", "tmp", AddJump)
             \/ ModifyBuiltin("unhook", "real", DropJump)
             \/ ModifyBuiltin("rb_hook", "real", AddJump)
             \/ ModifyBuiltin("rb_unhook", "tmp", DropJump)
             \/ StartUnhook \/ StartAsking \/ PromptTimesOut \/ StartRollbackUnhook
      PROVE  WholeInv'
  BY <1>5, <1>w, TrialStep
  DEF ModifyBuiltin, StartUnhook, StartAsking, PromptTimesOut, Rollback, StartRollbackUnhook,
      LoopDone, ApplyPhase
<1>6. CASE RollbackAborts
  BY <1>6, <1>w, RestStep DEF RollbackAborts, AtRest
<1>7. CASE AnswerYes
  <2>1. Still /\ UNCHANGED commitFile /\ pc = "ask" /\ pc' = "commit"
    BY <1>7 DEF AnswerYes, StartCommit
  <2>2. RealWhole'
    BY <1>w, <2>1, StillRealWhole DEF WholeInv
  <2> QED
    BY <1>w, <2>1, <2>2, StillNames
    DEF WholeInv, StepOfPhase, ChainsBuilt, DelegatesBuilt, TmpWhole, BeforeRenames, Shared,
        ApplyPhase
<1>8. CASE AnswerNo
  BY <1>8, <1>w, TrialStep DEF AnswerNo, Rollback, ApplyPhase
<1>9. CASE Commit
  <2>1. ASSUME InvalidStep \/ WriteVersion
        PROVE  WholeInv'
    BY <1>w, <2>1, RestStep DEF InvalidStep, WriteVersion, AtRest, CleanupPhase
  <2> QED
    BY <1>9, <2>1, WholeCommitStill, WholeRename DEF Commit, CommitStill
<1>10. ASSUME Finish \/ Interrupt
       PROVE  WholeInv'
  BY <1>10, <1>w, RestStep
  DEF Finish, FailFileStops, Redirect, RunPostScripts, Interrupt, AtRest, SavePhase
<1>11. CASE ForceDeleteCommitFile
  <2>1. Still /\ UNCHANGED <<pc, todo>> /\ pc = "idle" /\ commitFile' = NoFile /\ commitFile = Empty
    BY <1>11 DEF ForceDeleteCommitFile
  <2>2. RealWhole'
    BY <1>w, <2>1, StillRealWhole DEF WholeInv
  <2> QED
    BY <1>w, <2>1, <2>2, StillNames
    DEF WholeInv, StepOfPhase, ChainsBuilt, DelegatesBuilt, TmpWhole, BeforeRenames, Shared,
        ApplyPhase, NoFile
<1>12. ASSUME ForeignRule \/ UNCHANGED vars
       PROVE  WholeInv'
  BY <1>12, <1>w, StutterStep DEF ForeignRule, vars
<1> QED
  BY <1>1, <1>2, <1>3, <1>4, <1>5, <1>6, <1>7, <1>8, <1>9, <1>10, <1>11, <1>12
  DEF Next, Progress, Apply

\* Whatever the number of interruptions and resumptions, without a commit in
\* progress CFW_ is one whole ruleset (fw_commit's steps and their file).
THEOREM CommitsWhole == Spec => []CommittedWhole
<1>1. Init => CommitInv
  BY ConfirmInit, WholeInit DEF CommitInv
<1>2. CommitInv /\ [Next]_vars => CommitInv'
  BY ConfirmNext, WholeNext DEF CommitInv
<1>3. CommitInv => CommittedWhole
  BY DEF CommitInv, WholeInv, RealWhole, CommittedWhole, Whole, RealOf
<1> QED
  BY <1>1, <1>2, <1>3, PTL DEF Spec

-----------------------------------------------------------------------------
(* What is committed is what is applied.                                    *)

\* Who is jumped to: nothing but what CFW_ and CFWTMP_ name.
JumpOwners ==
  \A h \in Hook : \A i \in 1..Len(jump[h]) : jump[h][i] \in {named["real"][h], named["tmp"][h]}

\* What the loops of fw_apply have done.
Hooked(g, h) == \E i \in 1..Len(jump[h]) : jump[h][i] = g
HookedSoFar == pc = "hook" => \A h \in Delegates("tmp") \ todo : Hooked(gen, h)
UnhookedSoFar ==
  pc = "unhook" =>
    /\ todo \subseteq Delegates("real")
    /\ \A h \in Delegates("tmp") : Hooked(gen, h)
    /\ \A h \in Delegates("real") \ todo : Unhooked(named["real"][h], h)

\* At the prompt and as long as a commit is pending, what is applied is the path.
AppliedPhase == pc = "ask" \/ pc \in CommitPhase \/ commitFile # NoFile
Applied ==
  AppliedPhase => \A h \in Hook : jump[h] = IF h \in HooksOf(gen) THEN <<gen>> ELSE <<>>

PathPart == JumpOwners /\ HookedSoFar /\ UnhookedSoFar /\ Applied
PathInv == CommitInv /\ PathPart

-----------------------------------------------------------------------------
(* What the two ways of modify_chain_builtin do to the rules.               *)

LEMMA DropJumpEntries ==
  ASSUME KernelOK, JumpOnce, NEW h \in Hook, NEW g
  PROVE  /\ \A x \in Hook : x # h => DropJump(h, g)[x] = jump[x]
         /\ \A i \in 1..Len(DropJump(h, g)[h]) :
              /\ DropJump(h, g)[h][i] # g
              /\ \E j \in 1..Len(jump[h]) : DropJump(h, g)[h][i] = jump[h][j]
         /\ \A j \in 1..Len(jump[h]) :
              jump[h][j] # g => \E i \in 1..Len(DropJump(h, g)[h]) : DropJump(h, g)[h][i] = jump[h][j]
<1> DEFINE r == RemoveFirst(jump[h], g)
<1>1. DropJump(h, g)[h] = r /\ \A x \in Hook : x # h => DropJump(h, g)[x] = jump[x]
  BY DEF DropJump, KernelOK
<1>2. /\ \A i \in 1..Len(r) : r[i] # g
      /\ \A i \in 1..Len(r) : \E j \in 1..Len(jump[h]) : r[i] = jump[h][j]
      /\ \A j \in 1..Len(jump[h]) : jump[h][j] # g => \E i \in 1..Len(r) : r[i] = jump[h][j]
  BY RemoveFirstOnce DEF KernelOK, JumpOnce, OnceIn
<1> HIDE DEF r
<1> QED
  BY <1>1, <1>2

LEMMA AddJumpEntries ==
  ASSUME KernelOK, JumpOnce, NEW h \in Hook, NEW g \in Gen
  PROVE  /\ \A x \in Hook : x # h => AddJump(h, g)[x] = jump[x]
         /\ \E i \in 1..Len(AddJump(h, g)[h]) : AddJump(h, g)[h][i] = g
         /\ \A i \in 1..Len(AddJump(h, g)[h]) :
              \/ AddJump(h, g)[h][i] = g
              \/ \E j \in 1..Len(jump[h]) : AddJump(h, g)[h][i] = jump[h][j]
         /\ \A j \in 1..Len(jump[h]) :
              \E i \in 1..Len(AddJump(h, g)[h]) : AddJump(h, g)[h][i] = jump[h][j]
<1> DEFINE r == RemoveFirst(jump[h], g)
           a == Append(r, g)
<1>1. jump[h] \in Seq(Gen)
  BY DEF KernelOK
<1>2. /\ \A i \in 1..Len(r) : \E j \in 1..Len(jump[h]) : r[i] = jump[h][j]
      /\ \A j \in 1..Len(jump[h]) : jump[h][j] # g => \E i \in 1..Len(r) : r[i] = jump[h][j]
  BY <1>1, RemoveFirstOnce DEF JumpOnce, OnceIn
<1>3. r \in Seq(Gen)
  BY <1>1, RemoveFirstType
<1>4. AddJump(h, g)[h] = a /\ \A x \in Hook : x # h => AddJump(h, g)[x] = jump[x]
  BY DEF AddJump, KernelOK
<1> HIDE DEF r
<1>5. Len(r) \in Nat /\ Len(a) = Len(r) + 1 /\ a[Len(r) + 1] = g /\ \A i \in 1..Len(r) : a[i] = r[i]
  BY <1>3, AppendProperties, LenProperties
<1>6. \A i \in 1..Len(a) : i \in 1..Len(r) \/ i = Len(r) + 1
  BY <1>5
<1>7. Len(r) + 1 \in 1..Len(a) /\ \A i \in 1..Len(r) : i \in 1..Len(a)
  BY <1>5
<1>8. ASSUME NEW j \in 1..Len(jump[h])
      PROVE  \E i \in 1..Len(a) : a[i] = jump[h][j]
  <2>1. CASE jump[h][j] = g
    BY <1>5, <1>7, <2>1
  <2>2. CASE jump[h][j] # g
    <3>1. PICK i \in 1..Len(r) : r[i] = jump[h][j]
      BY <1>2, <2>2
    <3> QED
      BY <1>5, <1>7, <3>1
  <2> QED
    BY <2>1, <2>2
<1>9. ASSUME NEW i \in 1..Len(a)
      PROVE  a[i] = g \/ \E j \in 1..Len(jump[h]) : a[i] = jump[h][j]
  BY <1>2, <1>5, <1>6
<1>10. a[Len(r) + 1] = g
  BY <1>5
<1> HIDE DEF a
<1> QED
  BY <1>4, <1>7, <1>8, <1>9, <1>10

\* A list of rules that all jump to one chain, without duplicates, has one rule.
LEMMA OneRule ==
  ASSUME NEW S, NEW s \in Seq(S), NEW g,
         \A i, j \in 1..Len(s) : s[i] = s[j] => i = j,
         \A i \in 1..Len(s) : s[i] = g
  PROVE  /\ (\E i \in 1..Len(s) : s[i] = g) => s = <<g>>
         /\ ~ (\E i \in 1..Len(s) : s[i] = g) => s = <<>>
<1>1. Len(s) \in Nat
  BY LenProperties
<1>2. CASE \E i \in 1..Len(s) : s[i] = g
  <2>1. 1 \in 1..Len(s)
    BY <1>1, <1>2
  <2>2. Len(s) = 1
    <3>1. ASSUME 2 \in 1..Len(s)
          PROVE  FALSE
      <4>1. s[1] = s[2]
        BY <2>1, <3>1
      <4>2. 1 = 2
        BY <2>1, <3>1, <4>1
      <4> QED
        BY <4>2
    <3> QED
      BY <1>1, <2>1, <3>1
  <2>3. s[1] = g
    BY <2>1
  <2>4. g \in S
    BY <2>1, <2>3, ElementOfSeq
  <2>5. <<g>> \in Seq(S) /\ Len(<<g>>) = 1 /\ <<g>>[1] = g
    BY <2>4
  <2>6. s = <<g>>
    BY <2>2, <2>3, <2>5, SeqEqual
  <2> QED
    BY <1>2, <2>6
<1>3. CASE ~ \E i \in 1..Len(s) : s[i] = g
  <2>1. 1 \notin 1..Len(s)
    BY <1>3
  <2>2. Len(s) = 0
    BY <1>1, <2>1
  <2> QED
    BY <1>3, <2>2, EmptySeq
<1> QED
  BY <1>2, <1>3

-----------------------------------------------------------------------------
(* Steps that leave the jumps and the names alone.                          *)

Calm == UNCHANGED <<named, jump, gen, content>>

LEMMA CalmStep ==
  ASSUME PathPart, Calm, pc' \notin {"hook", "unhook"}, AppliedPhase' => AppliedPhase
  PROVE  PathPart'
BY DEF PathPart, JumpOwners, HookedSoFar, UnhookedSoFar, Applied, Calm, HooksOf

LEMMA SameStep ==
  ASSUME PathPart, Calm, UNCHANGED <<pc, todo, commitFile>>
  PROVE  PathPart'
BY DEF PathPart, JumpOwners, HookedSoFar, UnhookedSoFar, Applied, Calm, HooksOf, AppliedPhase,
       Hooked, Unhooked, Delegates, Names

\* A step outside the trial and the commit only has to keep JumpOwners.
Elsewhere == pc' \notin {"hook", "unhook", "ask"} \cup CommitPhase /\ commitFile' = NoFile

LEMMA ElsewhereStep ==
  ASSUME JumpOwners', Elsewhere
  PROVE  PathPart'
BY DEF PathPart, HookedSoFar, UnhookedSoFar, Applied, AppliedPhase, Elsewhere

-----------------------------------------------------------------------------
(* Who is jumped to.                                                        *)

LEMMA JumpsToGen ==
  ASSUME KernelOK, NEW h \in Hook, NEW i \in 1..Len(jump[h])
  PROVE  jump[h][i] \in Gen /\ jump[h][i] # 0
<1>1. jump[h] \in Seq(Gen)
  BY DEF KernelOK
<1>2. jump[h][i] \in Gen
  BY <1>1, ElementOfSeq
<1> QED
  BY <1>2 DEF Gen

\* -D and -A of a delegate that CFW_ or CFWTMP_ names.
LEMMA OwnersOfDrop ==
  ASSUME KernelOK, JumpOnce, JumpOwners, NEW h \in Hook, NEW g,
         jump' = DropJump(h, g), named' = named
  PROVE  JumpOwners'
<1> SUFFICES ASSUME NEW x \in Hook, NEW i \in 1..Len(jump'[x])
             PROVE  jump'[x][i] \in {named["real"][x], named["tmp"][x]}
  BY DEF JumpOwners
<1>1. CASE x = h
  <2>1. \A k \in 1..Len(DropJump(h, g)[h]) :
          \E j \in 1..Len(jump[h]) : DropJump(h, g)[h][k] = jump[h][j]
    BY DropJumpEntries
  <2>2. \E j \in 1..Len(jump[h]) : jump'[x][i] = jump[h][j]
    BY <1>1, <2>1
  <2> QED
    BY <1>1, <2>2 DEF JumpOwners
<1>2. CASE x # h
  <2>1. \A y \in Hook : y # h => DropJump(h, g)[y] = jump[y]
    BY DropJumpEntries
  <2>2. jump'[x] = jump[x]
    BY <1>2, <2>1
  <2> QED
    BY <2>2 DEF JumpOwners
<1> QED
  BY <1>1, <1>2

LEMMA OwnersOfAdd ==
  ASSUME KernelOK, JumpOnce, JumpOwners, NEW p \in {"real", "tmp"}, NEW h \in Delegates(p),
         jump' = AddJump(h, named[p][h]), named' = named
  PROVE  JumpOwners'
<1>1. h \in Hook /\ named[p][h] \in Gen
  BY DEF KernelOK, Naming, Delegates, Names, Name, Prefix
<1> DEFINE g == named[p][h]
<1> SUFFICES ASSUME NEW x \in Hook, NEW i \in 1..Len(jump'[x])
             PROVE  jump'[x][i] \in {named["real"][x], named["tmp"][x]}
  BY DEF JumpOwners
<1>2. CASE x = h
  <2>1. jump'[h][i] = g \/ \E j \in 1..Len(jump[h]) : jump'[h][i] = jump[h][j]
    BY <1>1, <1>2, AddJumpEntries
  <2> QED
    BY <1>1, <1>2, <2>1 DEF JumpOwners
<1>3. CASE x # h
  <2>1. jump'[x] = jump[x]
    BY <1>1, <1>3, AddJumpEntries
  <2> QED
    BY <2>1 DEF JumpOwners
<1> QED
  BY <1>2, <1>3

\* The cleanup deletes a delegate that nothing jumps to any more.
LEMMA OwnersOfRemove ==
  ASSUME CommitInv, JumpOwners, NEW phase, NEW p,
         <<phase, p>> \in {<<"remove_tmp", "tmp">>, <<"remove_del", "del">>},
         RemoveChain(phase, p)
  PROVE  JumpOwners'
<1>t. KernelOK
  BY DEF CommitInv, ConfirmInv, TypeInv, TypeOK
<1>1. /\ UNCHANGED jump /\ pc = phase
      /\ \E n \in todo : named' = named \/ named' = [named EXCEPT ![p][n] = 0]
  BY DEF RemoveChain
<1>2. CASE p = "del"
  <2>1. named'["real"] = named["real"] /\ named'["tmp"] = named["tmp"]
    BY <1>t, <1>1, <1>2 DEF KernelOK, Naming, Prefix
  <2> QED
    BY <1>1, <2>1 DEF JumpOwners
<1>3. CASE p = "tmp"
  <2>1. \A h \in Delegates("tmp") : Unhooked(gen, h) /\ named["tmp"][h] = gen
    BY <1>1, <1>3
    DEF CommitInv, ConfirmInv, LoopInv, Removing, NamesInv, TmpIsCurrent, Delegates, Names
  <2>2. named'["real"] = named["real"]
    BY <1>t, <1>1, <1>3 DEF KernelOK, Naming, Prefix
  <2> SUFFICES ASSUME NEW h \in Hook, NEW i \in 1..Len(jump[h])
               PROVE  jump[h][i] = named'["real"][h]
    BY <1>1 DEF JumpOwners
  <2>3. jump[h][i] \in Gen /\ jump[h][i] # 0
    BY <1>t, JumpsToGen
  <2>4. h \in Delegates("tmp") \/ named["tmp"][h] = 0
    BY DEF Delegates, Names, Name
  <2>5. jump[h][i] # named["tmp"][h]
    BY <2>1, <2>3, <2>4 DEF Unhooked
  <2> QED
    BY <2>2, <2>5 DEF JumpOwners
<1> QED
  BY <1>2, <1>3

\* A build names new delegates where CFWTMP_ had none.
LEMMA OwnersOfBuild ==
  ASSUME KernelOK, JumpOwners, UNCHANGED jump,
         named'["real"] = named["real"],
         \A h \in Hook : named["tmp"][h] # 0 => named'["tmp"][h] = named["tmp"][h]
  PROVE  JumpOwners'
<1> SUFFICES ASSUME NEW h \in Hook, NEW i \in 1..Len(jump[h])
             PROVE  jump[h][i] \in {named'["real"][h], named'["tmp"][h]}
  BY DEF JumpOwners
<1>1. jump[h][i] \in Gen /\ jump[h][i] # 0
  BY JumpsToGen
<1> QED
  BY <1>1 DEF JumpOwners

\* The renames of the commit take the jumps along.
LEMMA OwnersOfRename ==
  ASSUME PathInv, NEW phase, NEW from, NEW to,
         <<phase, from, to>> \in {<<"real_to_delete", "real", "del">>,
                                  <<"tmp_to_real", "tmp", "real">>},
         RenameChain(phase, from, to)
  PROVE  JumpOwners'
<1>t. KernelOK /\ HistoryOK
  BY DEF PathInv, CommitInv, ConfirmInv, TypeInv, TypeOK
<1>w. WholeInv /\ JumpOwners /\ Applied
  BY DEF PathInv, CommitInv, PathPart
<1>0. UNCHANGED jump /\ pc = phase
  BY DEF RenameChain
<1>1. CASE named' = named
  BY <1>0, <1>1, <1>w DEF JumpOwners
<1>2. CASE named' # named
  <2>1. PICK n \in Names(from) :
          /\ named[to][n] = 0
          /\ named' = [named EXCEPT ![to][n] = named[from][n], ![from][n] = 0]
    BY <1>2 DEF RenameChain
  <2>2. CASE from = "real"
    <3>1. commitFile = "rename_chain_real_to_delete" /\ AppliedPhase
      BY <1>0, <1>w, <2>2 DEF WholeInv, StepOfPhase, AppliedPhase, NoFile
    <3>2. gen \in Gen
      BY <3>1
      DEF PathInv, CommitInv, ConfirmInv, PhaseInv, CommitOfConfirmed, TypeInv, TypeOK,
          HistoryOK, NoFile
    <3>3. HooksOf(gen) \subseteq Names("tmp")
      BY <1>w, <3>1 DEF WholeInv, TmpWhole, BeforeRenames, Whole
    <3>4. named'["tmp"] = named["tmp"]
      BY <1>t, <2>1, <2>2 DEF KernelOK, Naming, Prefix, Names
    <3> SUFFICES ASSUME NEW h \in Hook, NEW i \in 1..Len(jump[h])
                 PROVE  jump[h][i] = named["tmp"][h]
      BY <1>0, <3>4 DEF JumpOwners
    <3>5. h \in HooksOf(gen) /\ jump[h] = <<gen>>
      BY <1>w, <3>1 DEF Applied
    <3>6. named["tmp"][h] = gen
      BY <3>3, <3>5 DEF PathInv, CommitInv, ConfirmInv, NamesInv, TmpIsCurrent, Names
    <3> QED
      BY <3>5, <3>6
  <2>3. CASE from = "tmp"
    <3>1. /\ \A x \in Name : named'["tmp"][x] = IF x = n THEN 0 ELSE named["tmp"][x]
          /\ \A x \in Name : named'["real"][x] = IF x = n THEN named["tmp"][n] ELSE named["real"][x]
          /\ named["real"][n] = 0
      BY <1>t, <2>1, <2>3 DEF KernelOK, Naming, Prefix, Names
    <3> SUFFICES ASSUME NEW h \in Hook, NEW i \in 1..Len(jump[h])
                 PROVE  jump[h][i] \in {named'["real"][h], named'["tmp"][h]}
      BY <1>0 DEF JumpOwners
    <3>2. jump[h][i] \in Gen /\ jump[h][i] # 0
      BY <1>t, JumpsToGen
    <3> QED
      BY <1>w, <3>1, <3>2 DEF JumpOwners, Name
  <2> QED
    BY <2>2, <2>3
<1> QED
  BY <1>1, <1>2

-----------------------------------------------------------------------------
(* The loops of fw_apply.                                                   *)

\* A trial, and what fw_apply knows of CFWTMP_ in it.
LEMMA TrialNames ==
  ASSUME CommitInv, pc \in ApplyPhase
  PROVE  /\ commitFile = NoFile /\ gen \in Gen
         /\ Delegates("tmp") = HooksOf(gen)
         /\ \A h \in Delegates("tmp") : named["tmp"][h] = gen /\ named["real"][h] # gen
<1>1. commitFile = NoFile
  BY DEF CommitInv, ConfirmInv, PhaseInv, CommitFileOwner, CommitPhase, ApplyPhase
<1>2. gen \in Gen
  BY DEF CommitInv, ConfirmInv, TypeInv, TypeOK, ProcessOK, Loops, GenStarted, ApplyPhase
<1>3. Names("tmp") = Whole(gen)
  BY DEF CommitInv, WholeInv, TmpWhole, BeforeRenames, ApplyPhase
<1>4. content[gen] \subseteq Chain /\ HooksOf(gen) \subseteq Hook
  BY <1>2, WholeNames DEF CommitInv, ConfirmInv, TypeInv, TypeOK
<1>5. Delegates("tmp") = HooksOf(gen)
  BY <1>3, <1>4, ConstantsAssumption DEF Delegates, Whole
<1>6. \A h \in Delegates("tmp") : named["tmp"][h] = gen /\ named["real"][h] # gen
  BY DEF CommitInv, ConfirmInv, NamesInv, TmpIsCurrent, TmpApart, Delegates, Names
<1> QED
  BY <1>1, <1>2, <1>5, <1>6

\* What the first loop of fw_apply adds stays hooked.
LEMMA HookLoop ==
  ASSUME KernelOK, JumpOnce, HookLoops, HookedSoFar, gen \in Gen,
         \A x \in Delegates("tmp") : named["tmp"][x] = gen,
         ModifyBuiltin("hook", "tmp", AddJump)
  PROVE  HookedSoFar'
<1>1. PICK h \in todo : jump' = AddJump(h, named["tmp"][h]) /\ todo' = todo \ {h}
  BY DEF ModifyBuiltin
<1>2. pc = "hook" /\ UNCHANGED <<named, gen>>
  BY DEF ModifyBuiltin
<1>3. h \in Delegates("tmp") /\ h \in Hook
  BY <1>1, <1>2 DEF HookLoops, Delegates
<1> SUFFICES ASSUME NEW x \in Delegates("tmp"), x \notin todo \/ x = h
             PROVE  Hooked(gen, x)'
  BY <1>1, <1>2 DEF HookedSoFar, Delegates, Names
<1>4. x \in Hook
  BY DEF Delegates
<1>5. CASE x = h
  BY <1>1, <1>2, <1>3, <1>5, AddJumpEntries DEF Hooked
<1>6. CASE x # h
  <2>1. jump'[x] = jump[x]
    BY <1>1, <1>3, <1>4, <1>6, AddJumpEntries
  <2>2. Hooked(gen, x)
    BY <1>2, <1>6 DEF HookedSoFar
  <2> QED
    BY <1>2, <2>1, <2>2 DEF Hooked
<1> QED
  BY <1>5, <1>6

\* What the second one takes away stays away, and is nothing of the first one's.
LEMMA UnhookLoop ==
  ASSUME KernelOK, JumpOnce, UnhookedSoFar,
         \A x \in Delegates("tmp") : named["real"][x] # gen,
         ModifyBuiltin("unhook", "real", DropJump)
  PROVE  UnhookedSoFar'
<1>1. PICK h \in todo : jump' = DropJump(h, named["real"][h]) /\ todo' = todo \ {h}
  BY DEF ModifyBuiltin
<1>2. pc = "unhook" /\ UNCHANGED <<named, gen>>
  BY DEF ModifyBuiltin
<1>3. h \in Hook
  BY <1>1, <1>2 DEF UnhookedSoFar, Delegates
<1>4. ASSUME NEW x \in Delegates("tmp")
      PROVE  Hooked(gen, x)'
  <2>1. x \in Hook /\ Hooked(gen, x) /\ named["real"][x] # gen
    BY <1>2 DEF UnhookedSoFar, Delegates
  <2>2. CASE x = h
    <3>1. PICK j \in 1..Len(jump[h]) : jump[h][j] = gen
      BY <2>1, <2>2 DEF Hooked
    <3>2. \E i \in 1..Len(jump'[h]) : jump'[h][i] = gen
      BY <1>1, <1>3, <2>1, <2>2, <3>1, DropJumpEntries
    <3> QED
      BY <1>2, <2>2, <3>2 DEF Hooked
  <2>3. CASE x # h
    <3>1. jump'[x] = jump[x]
      BY <1>1, <1>3, <2>1, <2>3, DropJumpEntries
    <3> QED
      BY <1>2, <2>1, <3>1 DEF Hooked
  <2> QED
    BY <2>2, <2>3
<1>5. ASSUME NEW x \in Delegates("real"), x \notin todo \/ x = h
      PROVE  Unhooked(named["real"][x], x)'
  <2>1. x \in Hook
    BY DEF Delegates
  <2>2. CASE x = h
    BY <1>1, <1>2, <1>3, <2>2, DropJumpEntries DEF Unhooked
  <2>3. CASE x # h
    <3>1. jump'[x] = jump[x]
      BY <1>1, <1>3, <2>1, <2>3, DropJumpEntries
    <3>2. Unhooked(named["real"][x], x)
      BY <1>2, <1>5, <2>3 DEF UnhookedSoFar
    <3> QED
      BY <1>2, <3>1, <3>2 DEF Unhooked
  <2> QED
    BY <2>2, <2>3
<1>6. \A p : Delegates(p)' = Delegates(p)
  BY <1>2 DEF Delegates, Names
<1> QED
  BY <1>1, <1>2, <1>4, <1>5, <1>6 DEF UnhookedSoFar

\* When both loops are through, the new ruleset is alone in the path.
LEMMA LoopsThrough ==
  ASSUME KernelOK, JumpOnce, JumpOwners, UnhookedSoFar, pc = "unhook", todo = {},
         Delegates("tmp") = HooksOf(gen), \A x \in Delegates("tmp") : named["tmp"][x] = gen,
         NEW h \in Hook
  PROVE  jump[h] = IF h \in HooksOf(gen) THEN <<gen>> ELSE <<>>
<1>1. \A i \in 1..Len(jump[h]) : jump[h][i] = named["tmp"][h] /\ jump[h][i] # 0
  <2> SUFFICES ASSUME NEW i \in 1..Len(jump[h])
               PROVE  jump[h][i] = named["tmp"][h] /\ jump[h][i] # 0
    OBVIOUS
  <2>1. jump[h][i] # 0
    BY JumpsToGen
  <2>2. h \in Delegates("real") => Unhooked(named["real"][h], h)
    BY DEF UnhookedSoFar
  <2>3. h \in Delegates("real") \/ named["real"][h] = 0
    BY DEF Delegates, Names, Name
  <2>4. jump[h][i] # named["real"][h]
    BY <2>1, <2>2, <2>3 DEF Unhooked
  <2> QED
    BY <2>1, <2>4 DEF JumpOwners
<1>2. jump[h] \in Seq(Gen) /\ \A i, j \in 1..Len(jump[h]) : jump[h][i] = jump[h][j] => i = j
  BY DEF KernelOK, JumpOnce, OnceIn
<1>3. CASE h \in HooksOf(gen)
  <2>1. Hooked(gen, h) /\ named["tmp"][h] = gen
    BY <1>3 DEF UnhookedSoFar
  <2> QED
    BY <1>1, <1>2, <1>3, <2>1, OneRule DEF Hooked
<1>4. CASE h \notin HooksOf(gen)
  <2>1. named["tmp"][h] = 0
    BY <1>4 DEF Delegates, Names, Name
  <2>2. \A i \in 1..Len(jump[h]) : FALSE
    BY <1>1, <2>1
  <2> QED
    BY <1>2, <1>4, <2>2, OneRule
<1> QED
  BY <1>3, <1>4

LEMMA PathHook ==
  ASSUME PathInv, ModifyBuiltin("hook", "tmp", AddJump)
  PROVE  PathPart'
<1>t. KernelOK /\ JumpOnce /\ JumpOwners /\ HookedSoFar /\ HookLoops
  BY DEF PathInv, CommitInv, ConfirmInv, TypeInv, TypeOK, Loops, PathPart
<1>1. PICK h \in todo : jump' = AddJump(h, named["tmp"][h])
  BY DEF ModifyBuiltin
<1>2. pc = "hook" /\ pc' = "hook" /\ UNCHANGED <<named, gen, content, commitFile>>
  BY DEF ModifyBuiltin, files, history
<1>3. h \in Delegates("tmp")
  BY <1>t, <1>1, <1>2 DEF HookLoops
<1>4. /\ commitFile = NoFile /\ gen \in Gen
      /\ \A x \in Delegates("tmp") : named["tmp"][x] = gen
  BY <1>2, TrialNames DEF PathInv, ApplyPhase
<1>5. JumpOwners'
  BY <1>t, <1>1, <1>2, <1>3, OwnersOfAdd
<1>6. HookedSoFar'
  BY <1>t, <1>4, HookLoop
<1>7. UnhookedSoFar' /\ Applied'
  BY <1>2, <1>4 DEF UnhookedSoFar, Applied, AppliedPhase, CommitPhase
<1> QED
  BY <1>5, <1>6, <1>7 DEF PathPart

LEMMA PathUnhook ==
  ASSUME PathInv, ModifyBuiltin("unhook", "real", DropJump)
  PROVE  PathPart'
<1>t. KernelOK /\ JumpOnce /\ JumpOwners /\ UnhookedSoFar
  BY DEF PathInv, CommitInv, ConfirmInv, TypeInv, TypeOK, PathPart
<1>1. PICK h \in todo : jump' = DropJump(h, named["real"][h])
  BY DEF ModifyBuiltin
<1>2. pc = "unhook" /\ pc' = "unhook" /\ UNCHANGED <<named, gen, content, commitFile>>
  BY DEF ModifyBuiltin, files, history
<1>3. h \in Hook
  BY <1>t, <1>1, <1>2 DEF UnhookedSoFar, Delegates
<1>4. commitFile = NoFile /\ \A x \in Delegates("tmp") : named["real"][x] # gen
  BY <1>2, TrialNames DEF PathInv, ApplyPhase
<1>5. JumpOwners'
  BY <1>t, <1>1, <1>2, <1>3, OwnersOfDrop
<1>6. UnhookedSoFar'
  BY <1>t, <1>4, UnhookLoop
<1>7. HookedSoFar' /\ Applied'
  BY <1>2, <1>4 DEF HookedSoFar, Applied, AppliedPhase, CommitPhase
<1> QED
  BY <1>5, <1>6, <1>7 DEF PathPart

LEMMA PathAsk ==
  ASSUME PathInv, StartAsking
  PROVE  PathPart'
<1>t. KernelOK /\ JumpOnce /\ JumpOwners /\ UnhookedSoFar
  BY DEF PathInv, CommitInv, ConfirmInv, TypeInv, TypeOK, PathPart
<1>1. /\ pc = "unhook" /\ todo = {} /\ pc' = "ask"
      /\ UNCHANGED <<named, jump, gen, content, commitFile>>
  BY DEF StartAsking, LoopDone, Enter, kernel, files, history
<1>2. Delegates("tmp") = HooksOf(gen) /\ \A x \in Delegates("tmp") : named["tmp"][x] = gen
  BY <1>1, TrialNames DEF PathInv, ApplyPhase
<1>3. \A h \in Hook : jump[h] = IF h \in HooksOf(gen) THEN <<gen>> ELSE <<>>
  BY <1>t, <1>1, <1>2, LoopsThrough
<1>4. Applied'
  BY <1>1, <1>3 DEF Applied, HooksOf
<1> QED
  BY <1>t, <1>1, <1>4 DEF PathPart, JumpOwners, HookedSoFar, UnhookedSoFar

-----------------------------------------------------------------------------
LEMMA PathInit == Init => PathPart
<1> SUFFICES ASSUME Init PROVE PathPart
  OBVIOUS
<1>1. \A h \in Hook : jump[h] = <<>>
  BY DEF Init
<1>2. JumpOwners
  BY <1>1 DEF JumpOwners
<1> QED
  BY <1>2
  DEF Init, PathPart, HookedSoFar, UnhookedSoFar, Applied, AppliedPhase, CommitPhase

LEMMA PathNext == PathInv /\ [Next]_vars => PathPart'
<1> SUFFICES ASSUME PathInv, [Next]_vars
             PROVE  PathPart'
  OBVIOUS
<1>t. /\ KernelOK /\ ProcessOK /\ HistoryOK /\ Loops /\ JumpOnce /\ NamesInv /\ PhaseInv
      /\ PathPart /\ JumpOwners /\ CommitInv
  BY DEF PathInv, CommitInv, ConfirmInv, TypeInv, TypeOK, PathPart
<1>n. commitFile # NoFile => pc = "idle" \/ pc \in CommitPhase
  BY <1>t DEF PhaseInv, CommitFileOwner
<1> USE DEF Enter, Exit, kernel, files, process, history, Calm, AppliedPhase
<1>1. CASE Start
  BY <1>1, <1>t, CalmStep DEF Start, StartCommit, StartCleanup, CommitPhase
<1>2. CASE Cleanup
  <2>1. ASSUME NEW phase, NEW p,
               <<phase, p>> \in {<<"flush_tmp", "tmp">>, <<"flush_del", "del">>},
               FlushChain(phase, p)
        PROVE  PathPart'
    <3>1. Elsewhere
      BY <1>n, <2>1 DEF FlushChain, Elsewhere, CommitPhase
    <3>2. PICK n \in todo : jump' = IF n \in Hook THEN DropJump(n, named[p][n]) ELSE jump
      BY <2>1 DEF FlushChain
    <3>3. named' = named
      BY <2>1 DEF FlushChain
    <3>4. JumpOwners'
      <4>1. CASE n \in Hook
        BY <1>t, <3>2, <3>3, <4>1, OwnersOfDrop
      <4>2. CASE n \notin Hook
        BY <1>t, <3>2, <3>3, <4>2 DEF JumpOwners
      <4> QED
        BY <4>1, <4>2
    <3> QED
      BY <3>1, <3>4, ElsewhereStep
  <2>2. ASSUME NEW phase, NEW p,
               <<phase, p>> \in {<<"remove_tmp", "tmp">>, <<"remove_del", "del">>},
               RemoveChain(phase, p)
        PROVE  PathPart'
    <3>1. Elsewhere
      BY <1>n, <2>2 DEF RemoveChain, Elsewhere, CommitPhase
    <3> QED
      BY <1>t, <2>2, <3>1, OwnersOfRemove, ElsewhereStep
  <2>3. ASSUME \/ CleanupLoopEnds \/ DestroySets("destroy_last", cur - 1, "destroy_next")
               \/ DestroySets("destroy_next", cur + 1, AfterCleanup)
        PROVE  PathPart'
    BY <1>t, <2>3, CalmStep DEF CleanupLoopEnds, DestroySets, AfterCleanup, LoopDone, CommitPhase
  <2> QED
    BY <1>2, <2>1, <2>2, <2>3 DEF Cleanup
<1>3. CASE Build
  <2>0. pc \in BuildPhase /\ commitFile = NoFile
    BY <1>3, <1>n
    DEF Build, StartBuild, RestoreTable, NewChain, FillChain, StartPrepare, PrepareDelegate,
        BuildFails, LoopDone, BuildPhase, CommitPhase
  <2>1. CASE FillChain \/ StartPrepare \/ BuildFails
    BY <1>t, <2>0, <2>1, CalmStep
    DEF FillChain, StartPrepare, BuildFails, BuildPhase, CommitPhase
  <2>2. CASE StartBuild
    <3>1. Elsewhere /\ UNCHANGED <<jump, named>>
      BY <2>0, <2>2 DEF StartBuild, Elsewhere, CommitPhase
    <3> QED
      BY <1>t, <3>1, ElsewhereStep DEF JumpOwners
  <2>3. ASSUME NEW cs \in SUBSET Name, NameTmp(cs), UNCHANGED <<jump, pc, commitFile>>,
               cs \cap Hook \cap Names("tmp") = {}
        PROVE  PathPart'
    <3>1. Elsewhere
      BY <2>0, <2>3 DEF Elsewhere, BuildPhase, CommitPhase
    <3>2. /\ named'["real"] = named["real"]
          /\ \A n \in Name : named'["tmp"][n] = IF n \in cs THEN gen ELSE named["tmp"][n]
      BY <1>t, <2>3 DEF NameTmp, KernelOK, Naming, Prefix
    <3>3. \A h \in Hook : named["tmp"][h] # 0 => named'["tmp"][h] = named["tmp"][h]
      BY <2>3, <3>2 DEF Names, Name
    <3> QED
      BY <1>t, <2>3, <3>1, <3>2, <3>3, OwnersOfBuild, ElsewhereStep
  <2>g. pc \in {"build_chains", "prepare"} =>
          gen \in Gen /\ content[gen] \subseteq Chain /\ HooksOf(gen) \subseteq Hook
    BY <1>t, WholeNames DEF ProcessOK, Loops, GenStarted
  <2>b. ChainsBuilt /\ DelegatesBuilt
    BY <1>t DEF CommitInv, WholeInv
  <2>4. CASE RestoreTable
    <3>1. PICK t \in {TableOf[c] : c \in todo} : NameTmp({c \in todo : TableOf[c] = t})
      BY <2>4 DEF RestoreTable
    <3>2. pc = "build_chains" /\ UNCHANGED <<jump, pc, commitFile>>
      BY <2>4 DEF RestoreTable
    <3>3. todo \subseteq Chain
      BY <2>g, <2>b, <3>2 DEF ChainsBuilt
    <3>4. /\ {c \in todo : TableOf[c] = t} \in SUBSET Name
          /\ {c \in todo : TableOf[c] = t} \cap Hook \cap Names("tmp") = {}
      BY <3>3, ConstantsAssumption DEF Name
    <3> QED
      BY <2>3, <3>1, <3>2, <3>4
  <2>5. CASE NewChain
    <3>1. PICK c \in todo : NameTmp({c}) /\ named["tmp"][c] = 0
      BY <2>5 DEF NewChain
    <3>2. UNCHANGED <<jump, pc, commitFile>>
      BY <2>5 DEF NewChain
    <3>3. {c} \in SUBSET Name /\ {c} \cap Hook \cap Names("tmp") = {}
      BY <1>t, <3>1 DEF ProcessOK, Names
    <3> QED
      BY <2>3, <3>1, <3>2, <3>3
  <2>6. CASE PrepareDelegate
    <3>1. PICK h \in todo : NameTmp({h})
      BY <2>6 DEF PrepareDelegate
    <3>2. pc = "prepare" /\ UNCHANGED <<jump, pc, commitFile>>
      BY <2>6 DEF PrepareDelegate
    <3>3. {h} \in SUBSET Name /\ {h} \cap Hook \cap Names("tmp") = {}
      BY <1>t, <2>b, <3>1, <3>2 DEF ProcessOK, DelegatesBuilt
    <3> QED
      BY <2>3, <3>1, <3>2, <3>3
  <2> QED
    BY <1>3, <2>1, <2>2, <2>4, <2>5, <2>6 DEF Build
<1>4. CASE StartApply
  <2>1. /\ Calm /\ pc' = "hook" /\ todo' = Delegates("tmp") /\ commitFile' = NoFile
    BY <1>4, <1>n DEF StartApply, LoopDone, CommitPhase
  <2>2. \A p : Delegates(p)' = Delegates(p)
    BY <2>1 DEF Delegates, Names
  <2>3. JumpOwners' /\ HookedSoFar'
    BY <1>t, <2>1, <2>2 DEF JumpOwners, HookedSoFar
  <2> QED
    BY <2>1, <2>3 DEF PathPart, UnhookedSoFar, Applied, CommitPhase
<1>5. CASE StartUnhook
  <2>1. /\ Calm /\ pc = "hook" /\ todo = {} /\ pc' = "unhook" /\ todo' = Delegates("real")
        /\ commitFile' = NoFile
    BY <1>5, <1>n DEF StartUnhook, LoopDone, CommitPhase
  <2>2. \A p : Delegates(p)' = Delegates(p)
    BY <2>1 DEF Delegates, Names
  <2>3. JumpOwners' /\ UnhookedSoFar'
    BY <1>t, <2>1, <2>2 DEF PathPart, JumpOwners, HookedSoFar, UnhookedSoFar, Hooked
  <2> QED
    BY <2>1, <2>3 DEF PathPart, HookedSoFar, Applied, CommitPhase
<1>6. ASSUME \/ ModifyBuiltin("rb_hook", "real", AddJump)
             \/ ModifyBuiltin("rb_unhook", "tmp", DropJump)
      PROVE  PathPart'
  <2>1. Elsewhere /\ named' = named
    BY <1>6, <1>n DEF ModifyBuiltin, Elsewhere, CommitPhase
  <2>2. CASE ModifyBuiltin("rb_hook", "real", AddJump)
    <3>1. PICK h \in todo : jump' = AddJump(h, named["real"][h])
      BY <2>2 DEF ModifyBuiltin
    <3>2. h \in Delegates("real")
      BY <1>t, <2>2, <3>1 DEF ModifyBuiltin, Loops, HookLoops
    <3> QED
      BY <1>t, <2>1, <3>1, <3>2, OwnersOfAdd, ElsewhereStep
  <2>3. CASE ModifyBuiltin("rb_unhook", "tmp", DropJump)
    <3>1. PICK h \in todo : jump' = DropJump(h, named["tmp"][h])
      BY <2>3 DEF ModifyBuiltin
    <3>2. h \in Hook \/ jump' = jump
      BY <1>t, <3>1 DEF DropJump, KernelOK
    <3>3. JumpOwners'
      <4>1. CASE h \in Hook
        BY <1>t, <2>1, <3>1, <4>1, OwnersOfDrop
      <4>2. CASE jump' = jump
        BY <1>t, <2>1, <4>2 DEF JumpOwners
      <4> QED
        BY <3>2, <4>1, <4>2
    <3> QED
      BY <2>1, <3>3, ElsewhereStep
  <2> QED
    BY <1>6, <2>2, <2>3
<1>7. ASSUME \/ PromptTimesOut \/ AnswerNo \/ StartRollbackUnhook \/ RollbackAborts \/ AnswerYes
             \/ InvalidStep \/ WriteVersion \/ Finish \/ Interrupt \/ ForceDeleteCommitFile
      PROVE  PathPart'
  BY <1>t, <1>7, CalmStep
  DEF PromptTimesOut, AnswerNo, Rollback, StartRollbackUnhook, RollbackAborts, AnswerYes,
      StartCommit, InvalidStep, WriteVersion, Finish, FailFileStops, Redirect, RunPostScripts,
      Interrupt, ForceDeleteCommitFile, LoopDone, CommitPhase
<1>8. CASE CommitStill
  <2>1. Calm /\ pc \in CommitPhase /\ pc' \in CommitPhase
    BY <1>8
    DEF CommitStill, DispatchStep, WriteStep, RenameEnds, RemoveCommitFile, TruncateVersion,
        CommitPhase
  <2> QED
    BY <1>t, <2>1, CalmStep DEF CommitPhase
<1>9. ASSUME NEW phase, NEW from, NEW to,
             <<phase, from, to>> \in {<<"real_to_delete", "real", "del">>,
                                      <<"tmp_to_real", "tmp", "real">>},
             RenameChain(phase, from, to)
      PROVE  PathPart'
  <2>1. JumpOwners'
    BY <1>9, OwnersOfRename
  <2>2. UNCHANGED <<jump, gen, content, commitFile>> /\ pc \in CommitPhase
        /\ pc' \in CommitPhase \cup {"idle"}
    BY <1>9 DEF RenameChain, CommitPhase
  <2>3. Applied'
    BY <1>t, <2>2 DEF PathPart, Applied, HooksOf
  <2> QED
    BY <2>1, <2>2, <2>3 DEF PathPart, HookedSoFar, UnhookedSoFar, CommitPhase
<1>10. ASSUME ForeignRule \/ UNCHANGED vars
       PROVE  PathPart'
  BY <1>t, <1>10, SameStep DEF ForeignRule, vars
<1>11. CASE Apply
  BY <1>4, <1>5, <1>6, <1>7, <1>11, PathHook, PathUnhook, PathAsk, Zenon DEF Apply
<1>12. CASE Commit
  <2>1. ASSUME \/ RenameChain("real_to_delete", "real", "del")
               \/ RenameChain("tmp_to_real", "tmp", "real")
        PROVE  PathPart'
    BY <1>9, <2>1
  <2> QED
    BY <1>7, <1>8, <1>12, <2>1, Zenon DEF Commit, CommitStill
<1> QED
  BY <1>1, <1>2, <1>3, <1>7, <1>10, <1>11, <1>12, Zenon DEF Next, Progress

LEMMA PathAlways == Spec => []PathInv
<1>1. Init => PathInv
  BY ConfirmInit, WholeInit, PathInit DEF PathInv, CommitInv
<1>2. PathInv /\ [Next]_vars => PathInv'
  BY ConfirmNext, WholeNext, PathNext DEF PathInv, CommitInv
<1> QED
  BY <1>1, <1>2, PTL DEF Spec

\* "Will commit what is already applied" (fw_commit): when it is done, however
\* often it was interrupted and resumed, the ruleset that the operator tried is
\* under CFW_ and alone in the path.
THEOREM CommitsApplied == Spec => []CommitsWhatIsApplied
<1>1. PathInv => CommitsWhatIsApplied
  <2> SUFFICES ASSUME PathInv, pc = "truncate_version", NEW h \in HooksOf(gen)
               PROVE  named["real"][h] = gen /\ jump[h] = <<gen>>
    BY DEF CommitsWhatIsApplied
  <2>1. gen \in Gen /\ HistoryOK
    BY DEF PathInv, CommitInv, ConfirmInv, PhaseInv, CommitOfConfirmed, CommitPhase, TypeInv,
           TypeOK, HistoryOK
  <2>2. h \in Hook
    BY <2>1, WholeNames
  <2>3. h \in Names("real") /\ RealOf(gen)
    BY DEF PathInv, CommitInv, WholeInv, Shared, Whole
  <2>4. jump[h] = <<gen>>
    BY <2>2 DEF PathInv, PathPart, Applied, AppliedPhase, CommitPhase
  <2> QED
    BY <2>3, <2>4 DEF RealOf
<1> QED
  BY <1>1, PathAlways, PTL

\* From the first write of the commit file to its removal, through every failed
\* step, interruption and resumption, an empty file included, the ruleset being
\* committed is alone in the path.
THEOREM CommitKeepsPath == Spec => []PathDuringCommit
<1>1. PathInv => PathDuringCommit
  <2> SUFFICES ASSUME PathInv, commitFile # NoFile
               PROVE  \A h \in Hook : jump[h] = IF h \in HooksOf(Running) THEN <<Running>> ELSE <<>>
    BY DEF PathDuringCommit
  <2>1. gen = Running
    BY ConfirmedCommitted DEF PathInv, CommitInv, OnlyConfirmedCommitted
  <2> QED
    BY <2>1 DEF PathInv, PathPart, Applied, AppliedPhase
<1> QED
  BY <1>1, PathAlways, PTL
=============================================================================
