--------------------------- MODULE FwReloadProofs ---------------------------
(***************************************************************************)
(* Facts about FwReload that hold for every set of chains, hooks, tables    *)
(* and configurations, every number of builds and every choice of phases to *)
(* be interrupted in.                                                       *)
(***************************************************************************)
EXTENDS FwReloadProps, SequenceTheorems, WellFoundedInduction, TLAPS

-----------------------------------------------------------------------------
(* Lemmas about the operators the model is built from.                      *)

\* A set of naturals that is not empty has a least element, and Min finds it.
LEMMA MinOfNat ==
  ASSUME NEW T \in SUBSET Nat, T # {}
  PROVE  Min(T) \in T /\ \A y \in T : Min(T) <= y
<1>1. PICK x \in T : \A y \in T : ~ (<<y, x>> \in OpToRel(<, Nat))
  BY NatLessThanWellFounded, WFMin
<1>2. \A y \in T : x <= y
  <2> SUFFICES ASSUME NEW y \in T, y < x
               PROVE  FALSE
    OBVIOUS
  <2>1. <<y, x>> \in OpToRel(<, Nat)
    BY Zenon DEF OpToRel
  <2> QED
    BY <1>1, <2>1, Zenon
<1> QED
  BY <1>2 DEF Min

\* iptables -D leaves a list of rules: the list itself, or the list without the
\* first jump to the chain.
LEMMA RemoveFirstType ==
  ASSUME NEW S, NEW s \in Seq(S), NEW e
  PROVE  RemoveFirst(s, e) \in Seq(S)
<1>1. CASE ~ \E i \in 1..Len(s) : s[i] = e
  BY <1>1 DEF RemoveFirst
<1>2. CASE \E i \in 1..Len(s) : s[i] = e
  <2> DEFINE I == {i \in 1..Len(s) : s[i] = e}
             k == Min(I)
  <2>0. I \in SUBSET Nat /\ I # {}
    BY <1>2, LenProperties
  <2>1. k \in 1..Len(s)
    <3>1. k \in I
      <4> HIDE DEF I
      <4> QED  BY <2>0, MinOfNat
    <3> QED  BY <3>1
  <2>2. RemoveFirst(s, e) = SubSeq(s, 1, k - 1) \o SubSeq(s, k + 1, Len(s))
    BY <1>2 DEF RemoveFirst, RemoveAt, SelectInSeq
  <2> HIDE DEF k
  <2>3. SubSeq(s, 1, k - 1) \in Seq(S) /\ SubSeq(s, k + 1, Len(s)) \in Seq(S)
    BY <2>1, SubSeqProperties, ElementOfSeq
  <2> QED
    BY <2>2, <2>3, ConcatProperties
<1> QED
  BY <1>1, <1>2

-----------------------------------------------------------------------------
(* Type correctness.                                                        *)

\* There is a highest version to be found among the sets.
SetsBounded == \E b \in Nat : \A s \in sets : s[1] <= b

\* A generation is being built, applied or committed.
GenStarted == pc \in {"build_chains", "prepare"} \cup ApplyPhase => gen # 0

\* The loops that hook delegates visit delegates that exist.
HookLoops ==
  /\ pc = "hook" => todo \subseteq Delegates("tmp")
  /\ pc = "rb_hook" => todo \subseteq Delegates("real")

Loops == SetsBounded /\ GenStarted /\ HookLoops

TypeInv == TypeOK /\ Loops

LEMMA TypeInit == Init => TypeInv
<1> SUFFICES ASSUME Init PROVE TypeInv
  OBVIOUS
<1>1. KernelOK
  BY EmptySeq DEF Init, KernelOK, Naming
<1>2. FilesOK
  BY DEF Init, FilesOK, NoVersion
<1>3. ProcessOK /\ HistoryOK
  BY DEF Init, ProcessOK, HistoryOK, Phase
<1>4. Loops
  BY DEF Init, Loops, SetsBounded, GenStarted, HookLoops, ApplyPhase
<1> QED
  BY <1>1, <1>2, <1>3, <1>4 DEF TypeInv, TypeOK

\* A set of naturals that has a bound has a greatest element.
LEMMA MaxOfNat ==
  ASSUME NEW T \in SUBSET Nat, T # {}, NEW b \in Nat, \A y \in T : y <= b
  PROVE  \E m \in T : \A y \in T : y <= m
<1> DEFINE D == {b - y : y \in T}
<1>1. D \in SUBSET Nat /\ D # {}
  <2>1. \A y \in T : b - y \in Nat
    OBVIOUS
  <2> QED
    BY <2>1
<1>2. Min(D) \in D /\ \A d \in D : Min(D) <= d
  <2> HIDE DEF D
  <2> QED  BY <1>1, MinOfNat
<1>3. PICK m \in T : Min(D) = b - m
  BY <1>2
<1>4. ASSUME NEW y \in T
      PROVE  y <= m
  <2>1. b - m <= b - y
    BY <1>2, <1>3
  <2> QED
    BY <2>1
<1> QED
  BY <1>4

\* Without its file, the version is the highest among the sets.
LEMMA VersionType ==
  ASSUME TypeInv
  PROVE  /\ CurrentVersion \in Nat
         /\ version = NoVersion => \A w \in SetVersions : w <= CurrentVersion
<1>1. CASE version = NoVersion
  <2>1. PICK b \in Nat : \A s \in sets : s[1] <= b
    BY DEF TypeInv, Loops, SetsBounded
  <2>2. SetVersions \in SUBSET Nat /\ SetVersions # {} /\ b + 1 \in Nat
        /\ \A w \in SetVersions : w <= b + 1
    BY <2>1 DEF TypeInv, TypeOK, KernelOK, SetVersions
  <2>3. \E m \in SetVersions : \A w \in SetVersions : w <= m
    BY <2>2, MaxOfNat
  <2>4. CurrentVersion \in SetVersions /\ \A w \in SetVersions : w <= CurrentVersion
    BY <1>1, <2>3 DEF CurrentVersion
  <2> QED
    BY <2>2, <2>4
<1>2. CASE version # NoVersion
  BY <1>2 DEF TypeInv, TypeOK, FilesOK, CurrentVersion
<1> QED
  BY <1>1, <1>2

\* Hooking a delegate that exists appends a generation to the rules of its hook.
LEMMA AddJumpType ==
  ASSUME KernelOK, NEW p \in Prefix, NEW h \in Delegates(p)
  PROVE  AddJump(h, named[p][h]) \in [Hook -> Seq(Gen)]
<1>1. named[p][h] \in Gen /\ h \in Hook /\ jump[h] \in Seq(Gen)
  BY DEF KernelOK, Naming, Delegates, Names, Name
<1>2. Append(RemoveFirst(jump[h], named[p][h]), named[p][h]) \in Seq(Gen)
  BY <1>1, RemoveFirstType, AppendProperties
<1> QED
  BY <1>1, <1>2 DEF AddJump, KernelOK

\* Unhooking a delegate takes at most one jump to it out of a built-in chain.
LEMMA DropJumpType ==
  ASSUME KernelOK, NEW h, NEW g
  PROVE  DropJump(h, g) \in [Hook -> Seq(Gen)]
BY RemoveFirstType DEF DropJump, KernelOK

\* A build names its chains after its generation.
LEMMA NameTmpType ==
  ASSUME KernelOK, gen \in Gen, NEW cs, NameTmp(cs)
  PROVE  named' \in Naming
<1>1. [n \in Name |-> IF n \in cs THEN gen ELSE named["tmp"][n]] \in [Name -> Gen \cup {0}]
  BY DEF KernelOK, Naming, Prefix
<1> QED
  BY <1>1 DEF NameTmp, KernelOK, Naming

\* Giving one name to a generation, or to none.
LEMMA SetNameType ==
  ASSUME NEW f \in Naming, NEW p \in Prefix, NEW n \in Name, NEW g \in Gen \cup {0}
  PROVE  [f EXCEPT ![p][n] = g] \in Naming
<1> DEFINE fp == [f[p] EXCEPT ![n] = g]
<1>1. fp \in [Name -> Gen \cup {0}]
  BY DEF Naming
<1> QED
  BY <1>1 DEF Naming

LEMMA RemoveChainKernel ==
  ASSUME KernelOK, todo \subseteq Name, NEW phase, NEW p \in Prefix, RemoveChain(phase, p)
  PROVE  KernelOK'
<1>1. PICK n \in todo : named' = named \/ named' = [named EXCEPT ![p][n] = 0]
  BY DEF RemoveChain
<1>2. [named EXCEPT ![p][n] = 0] \in Naming
  BY SetNameType DEF KernelOK
<1> QED
  BY <1>1, <1>2 DEF KernelOK, RemoveChain

LEMMA RenameChainKernel ==
  ASSUME KernelOK, NEW phase, NEW from \in Prefix, NEW to \in Prefix,
         RenameChain(phase, from, to)
  PROVE  KernelOK'
<1>1. PICK n \in Names(from) :
         \/ named' = named
         \/ named' = [named EXCEPT ![to][n] = named[from][n], ![from][n] = 0]
  BY DEF RenameChain
<1>2. n \in Name /\ named[from][n] \in Gen \cup {0}
  BY DEF Names, KernelOK, Naming
<1>3. [named EXCEPT ![to][n] = named[from][n]] \in Naming
  BY <1>2, SetNameType DEF KernelOK
<1>4. [[named EXCEPT ![to][n] = named[from][n]] EXCEPT ![from][n] = 0] \in Naming
  BY <1>2, <1>3, SetNameType
<1> QED
  BY <1>1, <1>4 DEF KernelOK, RenameChain

\* What ends the reload, however it ends.
Exits == Exit /\ UNCHANGED gen /\ fail' \in BOOLEAN

LEMMA ExitProcess == ProcessOK /\ Exits => ProcessOK'
BY DEF ProcessOK, Exits, Exit, Enter, Phase

LEMMA RenameChainProcess ==
  ASSUME ProcessOK, NEW phase, NEW from, NEW to, RenameChain(phase, from, to)
  PROVE  ProcessOK'
<1>1. CASE UNCHANGED process
  BY <1>1 DEF ProcessOK, process
<1>2. CASE Exits
  BY <1>2, ExitProcess
<1> QED
  BY <1>1, <1>2 DEF RenameChain, Exits

LEMMA ForeignRuleKernel ==
  ASSUME KernelOK, HistoryOK, ForeignRule
  PROVE  KernelOK'
<1>1. CASE UNCHANGED heldSets
  BY <1>1 DEF KernelOK, Naming, ForeignRule, Names, Prefix
<1>2. CASE UNCHANGED held
  BY <1>2 DEF KernelOK, Naming, ForeignRule, HistoryOK, Names, Prefix
<1> QED
  BY <1>1, <1>2 DEF ForeignRule

LEMMA TypeNext == TypeInv /\ [Next]_vars => TypeInv'
<1> SUFFICES ASSUME TypeInv, [Next]_vars
             PROVE  TypeInv'
  OBVIOUS
<1>t. KernelOK /\ FilesOK /\ ProcessOK /\ HistoryOK /\ Loops
  BY DEF TypeInv, TypeOK
<1>v. CurrentVersion \in Nat
  BY VersionType
<1>1. CASE Start
  <2>1. KernelOK' /\ HistoryOK'
    BY <1>t, <1>v, <1>1 DEF Start, kernel, history, KernelOK, HistoryOK
  <2>2. FilesOK'
    BY <1>t, <1>v, <1>1
    DEF Start, FilesOK, StartCommit, StartCleanup, SourceCommon, NoFile, Empty, NoVersion
  <2>3. ProcessOK'
    BY <1>t, <1>v, <1>1
    DEF Start, ProcessOK, StartCommit, StartCleanup, SourceCommon, Enter, Phase, CleanupPhase,
        CommitPhase, Names
  <2>4. Loops'
    BY <1>t, <1>v, <1>1
    DEF Start, Loops, SetsBounded, GenStarted, HookLoops, kernel, StartCommit, StartCleanup,
        SourceCommon, Enter, NoVersion, ApplyPhase
  <2> QED
    BY <2>1, <2>2, <2>3, <2>4 DEF TypeInv, TypeOK
<1>2. ASSUME NEW phase \in {"flush_tmp", "flush_del"}, NEW p \in Prefix,
             FlushChain(phase, p)
      PROVE  TypeInv'
  <2>1. FilesOK' /\ HistoryOK'
    BY <1>t, <1>2 DEF FlushChain, files, history, FilesOK, HistoryOK
  <2>2. KernelOK'
    BY <1>t, <1>2, DropJumpType DEF FlushChain, KernelOK
  <2>3. ProcessOK'
    BY <1>t, <1>2 DEF FlushChain, ProcessOK
  <2>4. Loops'
    BY <1>t, <1>2
    DEF FlushChain, Loops, SetsBounded, GenStarted, HookLoops, files, Delegates, Names,
        ApplyPhase
  <2> QED
    BY <2>1, <2>2, <2>3, <2>4 DEF TypeInv, TypeOK
<1>3. ASSUME NEW phase \in {"remove_tmp", "remove_del"}, NEW p \in Prefix,
             RemoveChain(phase, p)
      PROVE  TypeInv'
  <2>1. FilesOK' /\ HistoryOK'
    BY <1>t, <1>3 DEF RemoveChain, files, history, FilesOK, HistoryOK
  <2>2. KernelOK'
    BY <1>t, <1>3, RemoveChainKernel DEF RemoveChain, KernelOK, ProcessOK
  <2>3. ProcessOK'
    BY <1>t, <1>3 DEF RemoveChain, ProcessOK
  <2>4. Loops'
    BY <1>t, <1>3
    DEF RemoveChain, Loops, SetsBounded, GenStarted, HookLoops, files, ApplyPhase
  <2> QED
    BY <2>1, <2>2, <2>3, <2>4 DEF TypeInv, TypeOK
<1>4. CASE CleanupLoopEnds
  <2>1. KernelOK' /\ FilesOK' /\ HistoryOK'
    BY <1>t, <1>4 DEF CleanupLoopEnds, kernel, files, history, KernelOK, FilesOK, HistoryOK
  <2>2. ProcessOK'
    BY <1>t, <1>4 DEF CleanupLoopEnds, ProcessOK, Enter, Phase, CleanupPhase, Names
  <2>3. Loops'
    BY <1>t, <1>4
    DEF CleanupLoopEnds, Loops, SetsBounded, GenStarted, HookLoops, kernel, files, Enter,
        ApplyPhase
  <2> QED
    BY <2>1, <2>2, <2>3 DEF TypeInv, TypeOK
<1>5. ASSUME NEW phase, NEW v, NEW next \in {"destroy_next", "build", "check_fail"},
             DestroySets(phase, v, next)
      PROVE  TypeInv'
  <2>1. FilesOK' /\ HistoryOK'
    BY <1>t, <1>5 DEF DestroySets, files, history, FilesOK, HistoryOK
  <2>2. KernelOK'
    BY <1>t, <1>5 DEF DestroySets, KernelOK
  <2>3. ProcessOK'
    BY <1>t, <1>5 DEF DestroySets, ProcessOK, Enter, Phase, CleanupPhase, BuildPhase, SavePhase
  <2>4. Loops'
    BY <1>t, <1>5
    DEF DestroySets, Loops, SetsBounded, GenStarted, HookLoops, files, Enter, ApplyPhase
  <2> QED
    BY <2>1, <2>2, <2>3, <2>4 DEF TypeInv, TypeOK
<1>6. CASE StartBuild
  <2>1. KernelOK'
    BY <1>t, <1>6, <1>v, ConstantsAssumption DEF StartBuild, KernelOK, ProcessOK, Gen
  <2>2. FilesOK'
    BY <1>t, <1>6, <1>v DEF StartBuild, FilesOK, SourceCommon, NoVersion
  <2>3. ProcessOK'
    BY <1>t, <1>6, <1>v, ConstantsAssumption
    DEF StartBuild, ProcessOK, SourceCommon, Enter, Phase, BuildPhase, Name, Gen
  <2>4. HistoryOK'
    BY <1>t, <1>6, <1>v, ConstantsAssumption DEF StartBuild, HistoryOK, ProcessOK, Gen
  <2>5. SetsBounded'
    <3>1. PICK b \in Nat : \A s \in sets : s[1] <= b
      BY <1>t DEF Loops, SetsBounded
    <3>2. sets' \subseteq sets \cup {<<CurrentVersion + 1, gen + 1>>}
      BY <1>6 DEF StartBuild
    <3>3. b + CurrentVersion + 1 \in Nat /\ \A s \in sets' : s[1] <= b + CurrentVersion + 1
      BY <1>t, <1>v, <3>1, <3>2 DEF KernelOK
    <3> QED
      BY <3>3 DEF SetsBounded
  <2>6. Loops'
    BY <1>t, <1>6, <2>5, ConstantsAssumption
    DEF StartBuild, Loops, GenStarted, HookLoops, Enter, ApplyPhase, ProcessOK, Gen
  <2> QED
    BY <2>1, <2>2, <2>3, <2>4, <2>6 DEF TypeInv, TypeOK
<1>7. CASE RestoreTable
  <2>g. gen \in Gen
    BY <1>t, <1>7 DEF RestoreTable, Loops, GenStarted, ProcessOK, Gen
  <2>1. FilesOK' /\ HistoryOK'
    BY <1>t, <1>7 DEF RestoreTable, files, history, FilesOK, HistoryOK
  <2>2. KernelOK'
    BY <1>t, <1>7, <2>g, NameTmpType DEF RestoreTable, KernelOK, ProcessOK
  <2>3. ProcessOK'
    BY <1>t, <1>7 DEF RestoreTable, ProcessOK
  <2>4. Loops'
    BY <1>t, <1>7 DEF RestoreTable, Loops, SetsBounded, GenStarted, HookLoops, files
  <2> QED
    BY <2>1, <2>2, <2>3, <2>4 DEF TypeInv, TypeOK
<1>8. CASE NewChain
  <2>g. gen \in Gen
    BY <1>t, <1>8 DEF NewChain, Loops, GenStarted, ProcessOK, Gen
  <2>1. FilesOK' /\ ProcessOK' /\ HistoryOK'
    BY <1>t, <1>8 DEF NewChain, files, process, history, FilesOK, ProcessOK, HistoryOK
  <2>2. KernelOK'
    BY <1>t, <1>8, <2>g, NameTmpType DEF NewChain, KernelOK
  <2>3. Loops'
    BY <1>t, <1>8 DEF NewChain, Loops, SetsBounded, GenStarted, HookLoops, files, process
  <2> QED
    BY <2>1, <2>2, <2>3 DEF TypeInv, TypeOK
<1>9. CASE FillChain
  <2>g. gen \in Gen
    BY <1>t, <1>9 DEF FillChain, Loops, GenStarted, ProcessOK, Gen
  <2>1. FilesOK' /\ HistoryOK'
    BY <1>t, <1>9, <2>g DEF FillChain, RulesTried, files, FilesOK, HistoryOK
  <2>2. KernelOK'
    BY <1>t, <1>9, <2>g DEF FillChain, KernelOK, ProcessOK
  <2>3. ProcessOK'
    BY <1>t, <1>9 DEF FillChain, RulesTried, ProcessOK
  <2>4. Loops'
    BY <1>t, <1>9 DEF FillChain, Loops, SetsBounded, GenStarted, HookLoops, files
  <2> QED
    BY <2>1, <2>2, <2>3, <2>4 DEF TypeInv, TypeOK
<1>10. CASE StartPrepare
  <2>1. KernelOK' /\ FilesOK' /\ HistoryOK'
    BY <1>t, <1>10 DEF StartPrepare, kernel, files, history, KernelOK, FilesOK, HistoryOK
  <2>2. ProcessOK'
    BY <1>t, <1>10, ConstantsAssumption
    DEF StartPrepare, ProcessOK, Enter, Phase, BuildPhase, WantedHooks, Names, Name
  <2>3. Loops'
    BY <1>t, <1>10
    DEF StartPrepare, Loops, SetsBounded, GenStarted, HookLoops, kernel, files, Enter,
        LoopDone, ApplyPhase
  <2> QED
    BY <2>1, <2>2, <2>3 DEF TypeInv, TypeOK
<1>11. CASE PrepareDelegate
  <2>g. gen \in Gen
    BY <1>t, <1>11 DEF PrepareDelegate, Loops, GenStarted, ProcessOK, Gen
  <2>1. FilesOK' /\ HistoryOK'
    BY <1>t, <1>11 DEF PrepareDelegate, files, history, FilesOK, HistoryOK
  <2>2. KernelOK'
    BY <1>t, <1>11, <2>g, NameTmpType DEF PrepareDelegate, KernelOK, ProcessOK
  <2>3. ProcessOK'
    BY <1>t, <1>11 DEF PrepareDelegate, ProcessOK
  <2>4. Loops'
    BY <1>t, <1>11 DEF PrepareDelegate, Loops, SetsBounded, GenStarted, HookLoops, files
  <2> QED
    BY <2>1, <2>2, <2>3, <2>4 DEF TypeInv, TypeOK
<1>12. CASE StartApply
  <2>1. KernelOK' /\ HistoryOK'
    BY <1>t, <1>12 DEF StartApply, kernel, history, KernelOK, HistoryOK
  <2>2. FilesOK'
    BY <1>t, <1>12, <1>v DEF StartApply, FilesOK, SourceCommon, NoVersion
  <2>3. ProcessOK'
    BY <1>t, <1>12, <1>v
    DEF StartApply, ProcessOK, SourceCommon, Enter, Phase, ApplyPhase, Delegates, Name
  <2>4. Loops'
    BY <1>t, <1>12, <1>v
    DEF StartApply, Loops, SetsBounded, GenStarted, HookLoops, kernel, LoopDone, Enter,
        SourceCommon, Delegates, Names, NoVersion
  <2> QED
    BY <2>1, <2>2, <2>3, <2>4 DEF TypeInv, TypeOK
<1>13. CASE ModifyBuiltin("hook", "tmp", AddJump)
  <2>1. FilesOK' /\ HistoryOK'
    BY <1>t, <1>13 DEF ModifyBuiltin, files, history, FilesOK, HistoryOK
  <2>2. KernelOK'
    BY <1>t, <1>13, AddJumpType DEF ModifyBuiltin, KernelOK, Loops, HookLoops, Prefix
  <2>3. ProcessOK'
    BY <1>t, <1>13 DEF ModifyBuiltin, ProcessOK
  <2>4. Loops'
    BY <1>t, <1>13
    DEF ModifyBuiltin, Loops, SetsBounded, GenStarted, HookLoops, files, Delegates, Names
  <2> QED
    BY <2>1, <2>2, <2>3, <2>4 DEF TypeInv, TypeOK
<1>14. CASE ModifyBuiltin("unhook", "real", DropJump)
  <2>1. FilesOK' /\ HistoryOK'
    BY <1>t, <1>14 DEF ModifyBuiltin, files, history, FilesOK, HistoryOK
  <2>2. KernelOK'
    BY <1>t, <1>14, DropJumpType DEF ModifyBuiltin, KernelOK
  <2>3. ProcessOK'
    BY <1>t, <1>14 DEF ModifyBuiltin, ProcessOK
  <2>4. Loops'
    BY <1>t, <1>14
    DEF ModifyBuiltin, Loops, SetsBounded, GenStarted, HookLoops, files, Delegates, Names
  <2> QED
    BY <2>1, <2>2, <2>3, <2>4 DEF TypeInv, TypeOK
<1>15. CASE ModifyBuiltin("rb_hook", "real", AddJump)
  <2>1. FilesOK' /\ HistoryOK'
    BY <1>t, <1>15 DEF ModifyBuiltin, files, history, FilesOK, HistoryOK
  <2>2. KernelOK'
    BY <1>t, <1>15, AddJumpType DEF ModifyBuiltin, KernelOK, Loops, HookLoops, Prefix
  <2>3. ProcessOK'
    BY <1>t, <1>15 DEF ModifyBuiltin, ProcessOK
  <2>4. Loops'
    BY <1>t, <1>15
    DEF ModifyBuiltin, Loops, SetsBounded, GenStarted, HookLoops, files, Delegates, Names
  <2> QED
    BY <2>1, <2>2, <2>3, <2>4 DEF TypeInv, TypeOK
<1>16. CASE ModifyBuiltin("rb_unhook", "tmp", DropJump)
  <2>1. FilesOK' /\ HistoryOK'
    BY <1>t, <1>16 DEF ModifyBuiltin, files, history, FilesOK, HistoryOK
  <2>2. KernelOK'
    BY <1>t, <1>16, DropJumpType DEF ModifyBuiltin, KernelOK
  <2>3. ProcessOK'
    BY <1>t, <1>16 DEF ModifyBuiltin, ProcessOK
  <2>4. Loops'
    BY <1>t, <1>16
    DEF ModifyBuiltin, Loops, SetsBounded, GenStarted, HookLoops, files, Delegates, Names
  <2> QED
    BY <2>1, <2>2, <2>3, <2>4 DEF TypeInv, TypeOK
<1>17. CASE StartUnhook \/ StartAsking \/ PromptTimesOut \/ AnswerNo \/ StartRollbackUnhook
  <2>1. KernelOK' /\ FilesOK' /\ HistoryOK'
    BY <1>t, <1>17
    DEF StartUnhook, StartAsking, PromptTimesOut, AnswerNo, Rollback, StartRollbackUnhook,
        kernel, files, history, KernelOK, FilesOK, HistoryOK
  <2>2. ProcessOK'
    BY <1>t, <1>17
    DEF StartUnhook, StartAsking, PromptTimesOut, AnswerNo, Rollback, StartRollbackUnhook,
        ProcessOK, Enter, Phase, ApplyPhase, Delegates, Name
  <2>3. Loops'
    BY <1>t, <1>17
    DEF StartUnhook, StartAsking, PromptTimesOut, AnswerNo, Rollback, StartRollbackUnhook,
        Loops, SetsBounded, GenStarted, HookLoops, kernel, files, Enter, LoopDone, ApplyPhase,
        Delegates, Names
  <2> QED
    BY <2>1, <2>2, <2>3 DEF TypeInv, TypeOK
<1>18. CASE AnswerYes
  <2>g. gen \in Gen
    BY <1>t, <1>18 DEF AnswerYes, Loops, GenStarted, ApplyPhase, ProcessOK, Gen
  <2>1. KernelOK'
    BY <1>t, <1>18 DEF AnswerYes, kernel, KernelOK
  <2>2. FilesOK'
    BY <1>t, <1>18, <1>v DEF AnswerYes, FilesOK, StartCommit, SourceCommon, NoVersion
  <2>3. ProcessOK'
    BY <1>t, <1>18, <1>v
    DEF AnswerYes, ProcessOK, StartCommit, SourceCommon, Enter, Phase, CommitPhase
  <2>4. HistoryOK'
    BY <1>t, <1>18, <2>g DEF AnswerYes, HistoryOK
  <2>5. Loops'
    BY <1>t, <1>18, <1>v
    DEF AnswerYes, Loops, SetsBounded, GenStarted, HookLoops, kernel, StartCommit,
        SourceCommon, Enter, NoVersion, ApplyPhase
  <2> QED
    BY <2>1, <2>2, <2>3, <2>4, <2>5 DEF TypeInv, TypeOK
<1>19. CASE DispatchStep
  <2>1. KernelOK' /\ HistoryOK'
    BY <1>t, <1>19 DEF DispatchStep, kernel, history, KernelOK, HistoryOK
  <2>2. FilesOK'
    BY <1>t, <1>19 DEF DispatchStep, FilesOK, NoFile, Empty
  <2>3. ProcessOK'
    BY <1>t, <1>19 DEF DispatchStep, ProcessOK, Enter, Phase, CommitPhase
  <2>4. Loops'
    BY <1>t, <1>19
    DEF DispatchStep, Loops, SetsBounded, GenStarted, HookLoops, kernel, Enter, ApplyPhase
  <2> QED
    BY <2>1, <2>2, <2>3, <2>4 DEF TypeInv, TypeOK
<1>20. CASE BuildFails \/ RollbackAborts \/ InvalidStep \/ FailFileStops \/ RunPostScripts \/ Interrupt
  <2>1. KernelOK' /\ FilesOK' /\ HistoryOK'
    BY <1>t, <1>20
    DEF BuildFails, RollbackAborts, InvalidStep, FailFileStops, RunPostScripts, Interrupt,
        kernel, files, history, KernelOK, FilesOK, HistoryOK
  <2>2. ProcessOK'
    BY <1>t, <1>20, ExitProcess
    DEF BuildFails, RollbackAborts, InvalidStep, FailFileStops, RunPostScripts, Interrupt,
        ProcessOK, Exits
  <2>3. Loops'
    BY <1>t, <1>20
    DEF BuildFails, RollbackAborts, InvalidStep, FailFileStops, RunPostScripts, Interrupt,
        Loops, SetsBounded, GenStarted, HookLoops, kernel, files, Exit, Enter, ApplyPhase
  <2> QED
    BY <2>1, <2>2, <2>3 DEF TypeInv, TypeOK
<1>21. ASSUME NEW phase,
             NEW step \in {"rename_chain_real_to_delete", "rename_chain_tmp_to_real", "done"},
             WriteStep(phase, step)
      PROVE  TypeInv'
  <2>1. KernelOK' /\ HistoryOK'
    BY <1>t, <1>21 DEF WriteStep, kernel, history, KernelOK, HistoryOK
  <2>2. FilesOK'
    BY <1>t, <1>21 DEF WriteStep, FilesOK, NoFile, Empty
  <2>3. ProcessOK'
    BY <1>t, <1>21 DEF WriteStep, ProcessOK, Enter, Phase, CommitPhase
  <2>4. Loops'
    BY <1>t, <1>21
    DEF WriteStep, Loops, SetsBounded, GenStarted, HookLoops, kernel, Enter, ApplyPhase
  <2> QED
    BY <2>1, <2>2, <2>3, <2>4 DEF TypeInv, TypeOK
<1>22. ASSUME NEW phase \in CommitPhase, NEW from \in Prefix, NEW to \in Prefix,
             RenameChain(phase, from, to)
      PROVE  TypeInv'
  <2>1. FilesOK' /\ HistoryOK'
    BY <1>t, <1>22 DEF RenameChain, files, history, FilesOK, HistoryOK
  <2>2. KernelOK'
    BY <1>t, <1>22, RenameChainKernel DEF RenameChain, KernelOK
  <2>3. ProcessOK'
    BY <1>t, <1>22, RenameChainProcess DEF RenameChain, ProcessOK
  <2>4. Loops'
    BY <1>t, <1>22
    DEF RenameChain, Loops, SetsBounded, GenStarted, HookLoops, files, ApplyPhase,
        CommitPhase, Exit, Enter, process
  <2> QED
    BY <2>1, <2>2, <2>3, <2>4 DEF TypeInv, TypeOK
<1>23. ASSUME NEW phase, NEW from, NEW next \in CommitPhase,
             RenameEnds(phase, from, next)
      PROVE  TypeInv'
  <2>1. KernelOK' /\ HistoryOK'
    BY <1>t, <1>23 DEF RenameEnds, kernel, history, KernelOK, HistoryOK
  <2>2. FilesOK'
    BY <1>t, <1>23 DEF RenameEnds, FilesOK, NoFile, Empty
  <2>3. ProcessOK'
    BY <1>t, <1>23 DEF RenameEnds, ProcessOK, Enter, Phase, CommitPhase
  <2>4. Loops'
    BY <1>t, <1>23
    DEF RenameEnds, Loops, SetsBounded, GenStarted, HookLoops, kernel, Enter, ApplyPhase,
        CommitPhase
  <2> QED
    BY <2>1, <2>2, <2>3, <2>4 DEF TypeInv, TypeOK
<1>24. CASE RemoveCommitFile \/ TruncateVersion \/ WriteVersion
  <2>1. KernelOK' /\ HistoryOK'
    BY <1>t, <1>24
    DEF RemoveCommitFile, TruncateVersion, WriteVersion, kernel, history, KernelOK, HistoryOK
  <2>2. FilesOK'
    BY <1>t, <1>24
    DEF RemoveCommitFile, TruncateVersion, WriteVersion, FilesOK, ProcessOK, NoFile,
        EmptyVersion
  <2>3. ProcessOK'
    BY <1>t, <1>24
    DEF RemoveCommitFile, TruncateVersion, WriteVersion, ProcessOK, Enter, Phase, CommitPhase,
        CleanupPhase, Names
  <2>4. Loops'
    BY <1>t, <1>24
    DEF RemoveCommitFile, TruncateVersion, WriteVersion, Loops, SetsBounded, GenStarted,
        HookLoops, kernel, Enter, ApplyPhase, EmptyVersion, NoVersion, TypeOK, ProcessOK
  <2> QED
    BY <2>1, <2>2, <2>3, <2>4 DEF TypeInv, TypeOK
<1>25. ASSUME NEW phase, NEW next \in SavePhase,
             NEW written \in [SavedFile -> SUBSET Gen],
             Redirect(phase, next, written)
      PROVE  TypeInv'
  <2>1. KernelOK' /\ HistoryOK'
    BY <1>t, <1>25 DEF Redirect, kernel, history, KernelOK, HistoryOK
  <2>2. FilesOK'
    BY <1>t, <1>25 DEF Redirect, FilesOK
  <2>3. ProcessOK'
    BY <1>t, <1>25 DEF Redirect, ProcessOK, Enter, Phase
  <2>4. Loops'
    BY <1>t, <1>25
    DEF Redirect, Loops, SetsBounded, GenStarted, HookLoops, kernel, Enter, ApplyPhase,
        SavePhase
  <2> QED
    BY <2>1, <2>2, <2>3, <2>4 DEF TypeInv, TypeOK
<1>26. CASE ForceDeleteCommitFile
  <2>1. KernelOK' /\ ProcessOK' /\ HistoryOK'
    BY <1>t, <1>26
    DEF ForceDeleteCommitFile, kernel, process, history, KernelOK, ProcessOK, HistoryOK
  <2>2. FilesOK'
    BY <1>t, <1>26 DEF ForceDeleteCommitFile, FilesOK, NoFile
  <2>3. Loops'
    BY <1>t, <1>26
    DEF ForceDeleteCommitFile, Loops, SetsBounded, GenStarted, HookLoops, kernel, process
  <2> QED
    BY <2>1, <2>2, <2>3 DEF TypeInv, TypeOK
<1>27. CASE ForeignRule
  <2>1. FilesOK' /\ ProcessOK' /\ HistoryOK'
    BY <1>t, <1>27 DEF ForeignRule, files, process, history, FilesOK, ProcessOK, HistoryOK
  <2>2. KernelOK'
    BY <1>t, <1>27, ForeignRuleKernel DEF ForeignRule, KernelOK
  <2>3. Loops'
    BY <1>t, <1>27
    DEF ForeignRule, Loops, SetsBounded, GenStarted, HookLoops, files, process, Delegates,
        Names
  <2> QED
    BY <2>1, <2>2, <2>3 DEF TypeInv, TypeOK
<1>28. CASE UNCHANGED vars
  <2>1. KernelOK' /\ FilesOK' /\ ProcessOK' /\ HistoryOK'
    BY <1>t, <1>28
    DEF vars, kernel, files, process, history, KernelOK, FilesOK, ProcessOK, HistoryOK
  <2>2. Loops'
    BY <1>t, <1>28
    DEF vars, Loops, SetsBounded, GenStarted, HookLoops, kernel, files, process, Delegates,
        Names
  <2> QED
    BY <2>1, <2>2 DEF TypeInv, TypeOK
<1>29. RulesInKernel \subseteq Gen /\ SetsInKernel \subseteq Gen
  BY <1>t DEF RulesInKernel, SetsInKernel, KernelOK, Naming, Prefix
<1>30. CASE Cleanup
  BY <1>t, <1>2, <1>3, <1>4, <1>5, <1>30 DEF Cleanup, AfterCleanup, Prefix
<1>31. CASE Build
  BY <1>t, <1>6, <1>7, <1>8, <1>9, <1>10, <1>11, <1>20, <1>31 DEF Build
<1>32. CASE Apply
  BY <1>t, <1>12, <1>13, <1>14, <1>15, <1>16, <1>17, <1>20, <1>32, Zenon DEF Apply
<1>33. CASE Commit
  BY <1>t, <1>19, <1>20, <1>21, <1>22, <1>23, <1>24, <1>33 DEF Commit, CommitPhase, Prefix
<1>34. CASE Finish
  <2>1. /\ [saved EXCEPT !["v4"] = {}] \in [SavedFile -> SUBSET Gen]
        /\ [saved EXCEPT !["v4"] = RulesInKernel, !["v6"] = {}] \in [SavedFile -> SUBSET Gen]
        /\ [saved EXCEPT !["v6"] = RulesInKernel, !["ipset"] = {}] \in [SavedFile -> SUBSET Gen]
        /\ [saved EXCEPT !["ipset"] = SetsInKernel] \in [SavedFile -> SUBSET Gen]
    BY <1>t, <1>29 DEF FilesOK
  <2> QED
    BY <1>t, <1>34, <2>1, <1>20, <1>25 DEF Finish, SavePhase
<1> QED
  BY <1>t, <1>1, <1>17, <1>18, <1>20, <1>26, <1>27, <1>28,
     <1>30, <1>31, <1>32, <1>33, <1>34
  DEF Next, Progress

\* Every variable of the reload stays in its range, for any configuration and
\* any interruptions.
THEOREM TypeCorrect == Spec => []TypeOK
<1>1. Spec => []TypeInv
  BY TypeInit, TypeNext, PTL DEF Spec
<1>2. TypeInv => TypeOK
  BY DEF TypeInv
<1> QED
  BY <1>1, <1>2, PTL
=============================================================================
