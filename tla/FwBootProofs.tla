---------------------------- MODULE FwBootProofs ----------------------------
(***************************************************************************)
(* A boot from a finished save brings back the ruleset that was saved, and  *)
(* what it brings back stays in the path: the inductive invariants behind   *)
(* it, and the theorems.                                                    *)
(*                                                                          *)
(* A host can go down and come up in the middle of anything, with one file  *)
(* of three, with files of different reloads, or with rules and no commit   *)
(* file, and reloads go on from there.  Nothing of what FwCommitProofs and  *)
(* FwLiveProofs say of CFW_ then holds, and a save has to be right all the  *)
(* same.  The argument therefore follows one reload from its build on       *)
(* (RunInv): whatever the kernel held when the build began, by the y the    *)
(* trial ruleset is alone in the path, and by the save it is alone under    *)
(* CFW_ with all its rules.  What lies about from before is ruled out by    *)
(* AnyState, which holds of any leftovers.  A saved file is then the image  *)
(* of one confirmed ruleset (DiskInv), and the boot is followed line by     *)
(* line (BootPart).                                                         *)
(*                                                                          *)
(* The boot of one finished save, with no commit pending, ends in a state   *)
(* of FwLiveProofs' LiveInv, with the restored ruleset as the running one,  *)
(* so that what is proved there goes for the reloads after it.              *)
(***************************************************************************)
EXTENDS FwBoot, FwSetsProofs

\* A jump is to a chain that a prefix names: -X is refused for any other.
JumpNamed ==
  \A h \in Hook : \A i \in 1..Len(jump[h]) : \E p \in Prefix : named[p][h] = jump[h][i]

\* What the loops over CFWDEL_ achieve.
DelUnhooked ==
  /\ pc = "flush_del" => \A h \in Delegates("del") \ todo : Unhooked(named["del"][h], h)
  /\ pc = "remove_del" => \A h \in Delegates("del") : Unhooked(named["del"][h], h)
DelEmpty ==
  pc \in {"destroy_last", "destroy_next"} \cup BuildPhase \cup ApplyPhase \cup SavePhase =>
    Names("del") = {}

\* fw_apply commits, cleans up and then saves; a resumed commit does not.
SiteInv ==
  /\ site = "apply" => pc \in CommitPhase \cup CleanupPhase \cup SavePhase
  /\ pc \in SavePhase => site = "apply"

SetsOwn ==
  \A s \in sets : s[2] <= gen /\ s[1] = setver[s[2]] /\ content[s[2]] \notin Unaliased

AnyState ==
  /\ Alone /\ Declared /\ JumpNamed /\ FullNamed
  /\ TmpFlushed /\ DelFlushed /\ DelUnhooked /\ DelEmpty
  /\ SiteInv /\ SetsOwn

-----------------------------------------------------------------------------
(* What steps of a reload leave as it is.                                   *)

\* Few of them touch the names, the rules or the jumps.
LEMMA Untouched ==
  ASSUME [Next]_vars
  PROVE  \/ UNCHANGED <<named, full, jump>>
         \/ FlushChain("flush_tmp", "tmp") \/ FlushChain("flush_del", "del")
         \/ RemoveChain("remove_tmp", "tmp") \/ RemoveChain("remove_del", "del")
         \/ RestoreTable \/ NewChain \/ FillChain \/ PrepareDelegate
         \/ ModifyBuiltin("hook", "tmp", AddJump) \/ ModifyBuiltin("unhook", "real", DropJump)
         \/ ModifyBuiltin("rb_hook", "real", AddJump)
         \/ ModifyBuiltin("rb_unhook", "tmp", DropJump)
         \/ RenameChain("real_to_delete", "real", "del")
         \/ RenameChain("tmp_to_real", "tmp", "real")
<1> USE DEF kernel
<1>1. CASE Start \/ Cleanup \/ Build
  BY <1>1
  DEF Start, Cleanup, CleanupLoopEnds, DestroySets, Build, StartBuild, StartPrepare, BuildFails
<1>2. CASE Apply \/ AnswerYes \/ AnswerNo
  BY <1>2
  DEF Apply, StartApply, StartUnhook, StartAsking, PromptTimesOut, AnswerYes, AnswerNo, Rollback,
      StartRollbackUnhook, RollbackAborts
<1>3. CASE Commit \/ Finish
  BY <1>3
  DEF Commit, DispatchStep, InvalidStep, WriteStep, RenameEnds, RemoveCommitFile,
      TruncateVersion, WriteVersion, Finish, FailFileStops, Redirect, RunPostScripts
<1>4. CASE Interrupt \/ ForceDeleteCommitFile \/ ForeignRule \/ UNCHANGED vars
  BY <1>4 DEF Interrupt, ForceDeleteCommitFile, ForeignRule, vars
<1> QED
  BY <1>1, <1>2, <1>3, <1>4 DEF Next, Progress

\* What was asked for and which sets it was built with is written once.
LEMMA HistoryKept ==
  ASSUME ProcessOK, HistoryOK, [Next]_vars
  PROVE  /\ StartBuild \/ UNCHANGED <<gen, content, setver>>
         /\ StartBuild => gen' = gen + 1 /\ gen + 1 \in Gen
         /\ gen <= gen'
         /\ \A g \in Gen : g <= gen => content'[g] = content[g] /\ setver'[g] = setver[g]
<1> USE DEF kernel, files, process, history, Exit, Enter
<1>1. StartBuild \/ UNCHANGED <<gen, content, setver>>
  <2>1. CASE Start \/ Cleanup \/ Build
    BY <2>1
    DEF Start, Cleanup, FlushChain, RemoveChain, CleanupLoopEnds, DestroySets, Build,
        RestoreTable, NewChain, FillChain, StartPrepare, PrepareDelegate, BuildFails
  <2>2. CASE Apply \/ AnswerYes \/ AnswerNo
    BY <2>2
    DEF Apply, StartApply, ModifyBuiltin, StartUnhook, StartAsking, PromptTimesOut, AnswerYes,
        AnswerNo, Rollback, StartRollbackUnhook, RollbackAborts
  <2>3. CASE Commit \/ Finish
    BY <2>3
    DEF Commit, DispatchStep, InvalidStep, WriteStep, RenameChain, RenameEnds, RemoveCommitFile,
        TruncateVersion, WriteVersion, Finish, FailFileStops, Redirect, RunPostScripts
  <2>4. CASE Interrupt \/ ForceDeleteCommitFile \/ ForeignRule \/ UNCHANGED vars
    BY <2>4 DEF Interrupt, ForceDeleteCommitFile, ForeignRule, vars
  <2> QED
    BY <2>1, <2>2, <2>3, <2>4 DEF Next, Progress
<1>2. gen \in Nat /\ MaxGen \in Nat
  BY ConstantsAssumption DEF ProcessOK, Gen
<1>3. StartBuild => gen' = gen + 1 /\ gen + 1 \in Gen
  BY <1>2 DEF StartBuild, Gen
<1>4. ASSUME NEW g \in Gen, g <= gen
      PROVE  content'[g] = content[g] /\ setver'[g] = setver[g]
  <2>1. CASE StartBuild
    <3>1. g # gen + 1
      BY <1>2, <1>4 DEF Gen
    <3>2. \E c \in Config : content' = [content EXCEPT ![gen + 1] = c]
      BY <2>1 DEF StartBuild
    <3>3. setver' = [setver EXCEPT ![gen + 1] = CurrentVersion + 1]
      BY <2>1 DEF StartBuild
    <3> QED
      BY <1>4, <3>1, <3>2, <3>3 DEF HistoryOK
  <2> QED
    BY <1>1, <2>1
<1> QED
  BY <1>1, <1>2, <1>3, <1>4

LEMMA DeclaredNext ==
  ASSUME ProcessOK, HistoryOK, Declared, [Next]_vars
  PROVE  Declared'
<1>k. /\ StartBuild \/ UNCHANGED <<gen, content, setver>>
      /\ StartBuild => gen' = gen + 1 /\ gen + 1 \in Gen
      /\ \A g \in Gen : g <= gen => content'[g] = content[g]
  BY HistoryKept
<1>1. CASE StartBuild
  <2>1. PICK c \in Config : content' = [content EXCEPT ![gen + 1] = c]
    BY <1>1 DEF StartBuild
  <2>2. content'[gen'] = c
    BY <1>1, <1>k, <2>1 DEF HistoryOK
  <2> SUFFICES ASSUME NEW g \in Gen, g <= gen'
               PROVE  content'[g] \in Config
    BY DEF Declared
  <2>3. g = gen' \/ g <= gen
    BY <1>1, <1>k DEF Gen, ProcessOK
  <2> QED
    BY <1>k, <2>2, <2>3 DEF Declared
<1> QED
  BY <1>1, <1>k DEF Declared

LEMMA OwnNext ==
  ASSUME TypeInv, SetsOwn, [Next]_vars
  PROVE  SetsOwn'
<1>t. KernelOK /\ ProcessOK /\ HistoryOK
  BY DEF TypeInv, TypeOK
<1>k. /\ StartBuild \/ UNCHANGED <<gen, content, setver>>
      /\ StartBuild => gen' = gen + 1 /\ gen + 1 \in Gen
      /\ gen <= gen'
      /\ \A g \in Gen : g <= gen => content'[g] = content[g] /\ setver'[g] = setver[g]
  BY <1>t, HistoryKept
<1>g. gen \in Int /\ gen' \in Int /\ \A s \in sets : s[2] \in Gen /\ s[2] \in Int
  BY <1>k, <1>t, ConstantsAssumption DEF ProcessOK, KernelOK, Gen
<1>1. CASE StartBuild
  <2>1. PICK c \in Config :
          /\ content' = [content EXCEPT ![gen + 1] = c]
          /\ sets' = IF c \in Unaliased THEN sets ELSE sets \cup {<<CurrentVersion + 1, gen + 1>>}
    BY <1>1 DEF StartBuild
  <2>2. setver' = [setver EXCEPT ![gen + 1] = CurrentVersion + 1]
    BY <1>1 DEF StartBuild
  <2>3. content'[gen + 1] = c /\ setver'[gen + 1] = CurrentVersion + 1
    BY <1>1, <1>k, <1>t, <2>1, <2>2 DEF HistoryOK
  <2> SUFFICES ASSUME NEW s \in sets'
               PROVE  s[2] <= gen' /\ s[1] = setver'[s[2]] /\ content'[s[2]] \notin Unaliased
    BY DEF SetsOwn
  <2>4. CASE s \in sets
    BY <1>g, <1>k, <2>4 DEF SetsOwn
  <2>5. CASE s \notin sets
    <3>1. c \notin Unaliased /\ s = <<CurrentVersion + 1, gen + 1>>
      BY <2>1, <2>5
    <3> QED
      BY <1>1, <1>g, <1>k, <2>3, <3>1
  <2> QED
    BY <2>4, <2>5
<1>2. CASE ~StartBuild
  <2>1. sets' \subseteq sets
    <3> USE DEF kernel
    <3>1. CASE Start \/ Cleanup \/ Build
      BY <1>2, <3>1
      DEF Start, Cleanup, FlushChain, RemoveChain, CleanupLoopEnds, DestroySets, Build,
          RestoreTable, NewChain, FillChain, StartPrepare, PrepareDelegate, BuildFails
    <3>2. CASE Apply \/ AnswerYes \/ AnswerNo
      BY <3>2
      DEF Apply, StartApply, ModifyBuiltin, StartUnhook, StartAsking, PromptTimesOut, AnswerYes,
          AnswerNo, Rollback, StartRollbackUnhook, RollbackAborts
    <3>3. CASE Commit \/ Finish
      BY <3>3
      DEF Commit, DispatchStep, InvalidStep, WriteStep, RenameChain, RenameEnds,
          RemoveCommitFile, TruncateVersion, WriteVersion, Finish, FailFileStops, Redirect,
          RunPostScripts
    <3>4. CASE Interrupt \/ ForceDeleteCommitFile \/ ForeignRule \/ UNCHANGED vars
      BY <3>4 DEF Interrupt, ForceDeleteCommitFile, ForeignRule, vars
    <3> QED
      BY <3>1, <3>2, <3>3, <3>4 DEF Next, Progress
  <2> QED
    BY <1>2, <1>k, <2>1 DEF SetsOwn
<1> QED
  BY <1>1, <1>2

-----------------------------------------------------------------------------
(* Leftovers.                                                               *)

\* -D adds no jump.
LEMMA DropJumpOld ==
  ASSUME KernelOK, JumpOnce, NEW h, NEW g, NEW x \in Hook, NEW i \in 1..Len(DropJump(h, g)[x])
  PROVE  \E j \in 1..Len(jump[x]) : DropJump(h, g)[x][i] = jump[x][j]
<1>1. CASE x = h
  BY <1>1, DropJumpEntries
<1>2. CASE x # h
  <2>1. DropJump(h, g)[x] = jump[x]
    BY <1>2, DropJumpOnce
  <2> QED
    BY <2>1
<1> QED
  BY <1>1, <1>2

LEMMA JumpNamedNext ==
  ASSUME ConfirmInv, JumpNamed, [Next]_vars
  PROVE  JumpNamed'
<1>t. KernelOK /\ ProcessOK /\ JumpOnce /\ TmpIsCurrent /\ HookLoops
  BY DEF ConfirmInv, TypeInv, TypeOK, Loops, NamesInv
<1>a. ASSUME named' = named,
             \A x \in Hook : \A i \in 1..Len(jump'[x]) :
               \/ \E j \in 1..Len(jump[x]) : jump'[x][i] = jump[x][j]
               \/ \E p \in Prefix : named[p][x] = jump'[x][i]
      PROVE  JumpNamed'
  BY <1>a DEF JumpNamed
<1>b. ASSUME jump' = jump,
             \A x \in Hook : \A e \in Gen :
               (\E p \in Prefix : named[p][x] = e) /\ (\E i \in 1..Len(jump[x]) : jump[x][i] = e) =>
                 \E p \in Prefix : named'[p][x] = e
      PROVE  JumpNamed'
  <2> SUFFICES ASSUME NEW x \in Hook, NEW i \in 1..Len(jump[x])
               PROVE  \E p \in Prefix : named'[p][x] = jump[x][i]
    BY <1>b DEF JumpNamed
  <2>1. jump[x][i] \in Gen
    BY <1>t, JumpsToGen
  <2>2. \E p \in Prefix : named[p][x] = jump[x][i]
    BY DEF JumpNamed
  <2> QED
    BY <1>b, <2>1, <2>2
<1>1. ASSUME NEW phase, NEW p, FlushChain(phase, p)
      PROVE  JumpNamed'
  <2>1. PICK n \in todo : jump' = IF n \in Hook THEN DropJump(n, named[p][n]) ELSE jump
    BY <1>1 DEF FlushChain
  <2>2. \A x \in Hook : \A i \in 1..Len(jump'[x]) :
          \E j \in 1..Len(jump[x]) : jump'[x][i] = jump[x][j]
    BY <1>t, <2>1, DropJumpOld
  <2>3. named' = named
    BY <1>1 DEF FlushChain
  <2> QED
    BY <1>a, <2>2, <2>3
<1>2. ASSUME NEW phase, NEW p \in Prefix, RemoveChain(phase, p)
      PROVE  JumpNamed'
  <2>1. PICK n \in todo : named' = IF Referenced(n, named[p][n]) THEN named
                                   ELSE [named EXCEPT ![p][n] = 0]
    BY <1>2 DEF RemoveChain
  <2>2. jump' = jump
    BY <1>2 DEF RemoveChain
  <2>3. ASSUME NEW x \in Hook, NEW e \in Gen, NEW q \in Prefix, named[q][x] = e,
               NEW i \in 1..Len(jump[x]), jump[x][i] = e
        PROVE  named'[q][x] = e
    <3>1. CASE q = p /\ x = n
      <4>1. Referenced(n, named[p][n])
        BY <2>3, <3>1 DEF Referenced
      <4> QED
        BY <2>1, <2>3, <4>1
    <3>2. CASE ~(q = p /\ x = n)
      BY <1>t, <2>1, <2>3, <3>2 DEF KernelOK, Naming, Name
    <3> QED
      BY <3>1, <3>2
  <2> QED
    BY <1>b, <2>2, <2>3
<1>3. ASSUME NEW cs, NameTmp(cs), jump' = jump
      PROVE  JumpNamed'
  <2>1. /\ \A q \in Prefix : q # "tmp" => named'[q] = named[q]
        /\ \A n \in Name : named'["tmp"][n] \in {named["tmp"][n], gen}
    BY <1>3, <1>t DEF NameTmp, KernelOK, Naming, Prefix
  <2>2. ASSUME NEW x \in Hook, NEW e \in Gen, NEW q \in Prefix, named[q][x] = e
        PROVE  named'[q][x] = e
    <3>1. e # 0 /\ x \in Name
      BY DEF Gen, Name
    <3>2. q = "tmp" => e = gen
      BY <1>t, <2>2, <3>1 DEF TmpIsCurrent
    <3> QED
      BY <2>1, <2>2, <3>1, <3>2
  <2> QED
    BY <1>3, <1>b, <2>2
<1>4. ASSUME NEW phase, NEW p \in Prefix, ModifyBuiltin(phase, p, DropJump)
      PROVE  JumpNamed'
  <2>1. PICK h \in todo : jump' = DropJump(h, named[p][h])
    BY <1>4 DEF ModifyBuiltin
  <2>2. \A x \in Hook : \A i \in 1..Len(jump'[x]) :
          \E j \in 1..Len(jump[x]) : jump'[x][i] = jump[x][j]
    <3>1. \A x \in Hook : \A i \in 1..Len(DropJump(h, named[p][h])[x]) :
            \E j \in 1..Len(jump[x]) : DropJump(h, named[p][h])[x][i] = jump[x][j]
      BY <1>t, DropJumpOld
    <3> QED
      BY <2>1, <3>1
  <2>3. named' = named
    BY <1>4 DEF ModifyBuiltin
  <2> QED
    BY <1>a, <2>2, <2>3
<1>5. ASSUME NEW phase, NEW p \in Prefix, ModifyBuiltin(phase, p, AddJump),
             todo \subseteq Delegates(p)
      PROVE  JumpNamed'
  <2>1. PICK h \in todo : jump' = AddJump(h, named[p][h])
    BY <1>5 DEF ModifyBuiltin
  <2>2. h \in Hook /\ named[p][h] \in Gen
    BY <1>5, <1>t, <2>1 DEF KernelOK, Naming, Delegates, Names, Name
  <2>3. ASSUME NEW x \in Hook, NEW i \in 1..Len(jump'[x])
        PROVE  \/ \E j \in 1..Len(jump[x]) : jump'[x][i] = jump[x][j]
               \/ named[p][x] = jump'[x][i]
    <3>1. CASE x = h
      BY <1>t, <2>1, <2>2, <3>1, AddJumpEntries
    <3>2. CASE x # h
      <4>1. jump'[x] = jump[x]
        BY <1>t, <2>1, <2>2, <3>2, AddJumpEntries
      <4> QED
        BY <4>1
    <3> QED
      BY <3>1, <3>2
  <2>4. named' = named
    BY <1>5 DEF ModifyBuiltin
  <2> QED
    BY <1>a, <2>3, <2>4
<1>6. ASSUME NEW phase, NEW from \in Prefix, NEW to \in Prefix, from # to,
             RenameChain(phase, from, to)
      PROVE  JumpNamed'
  <2>1. jump' = jump
    BY <1>6 DEF RenameChain
  <2>2. CASE named' = named
    BY <1>a, <2>1, <2>2
  <2>3. CASE named' # named
    <3>1. PICK n \in Names(from) :
            /\ named[to][n] = 0
            /\ named' = [named EXCEPT ![to][n] = named[from][n], ![from][n] = 0]
      BY <1>6, <2>3 DEF RenameChain
    <3>2. /\ \A q \in Prefix, x \in Name : x # n \/ q \notin {from, to} => named'[q][x] = named[q][x]
          /\ named'[to][n] = named[from][n] /\ n \in Name
      BY <1>6, <1>t, <3>1 DEF KernelOK, Naming, Names
    <3>3. ASSUME NEW x \in Hook, NEW e \in Gen, NEW q \in Prefix, named[q][x] = e
          PROVE  \E r \in Prefix : named'[r][x] = e
      <4>1. e # 0 /\ x \in Name
        BY DEF Gen, Name
      <4>2. CASE x = n /\ q \in {from, to}
        BY <1>6, <3>1, <3>2, <3>3, <4>1, <4>2
      <4> QED
        BY <3>2, <3>3, <4>1, <4>2
    <3> QED
      BY <1>b, <2>1, <3>3
  <2> QED
    BY <2>2, <2>3
<1>7. CASE UNCHANGED <<named, full, jump>>
  BY <1>7, <1>a
<1>8. CASE RestoreTable \/ NewChain \/ FillChain \/ PrepareDelegate
  <2>1. CASE RestoreTable
    BY <1>3, <2>1 DEF RestoreTable
  <2>2. CASE NewChain \/ PrepareDelegate
    BY <1>3, <2>2 DEF NewChain, PrepareDelegate
  <2>3. CASE FillChain
    BY <1>a, <2>3 DEF FillChain
  <2> QED
    BY <1>8, <2>1, <2>2, <2>3
<1>9. CASE ModifyBuiltin("hook", "tmp", AddJump) \/ ModifyBuiltin("rb_hook", "real", AddJump)
  <2>1. CASE ModifyBuiltin("hook", "tmp", AddJump)
    <3>1. todo \subseteq Delegates("tmp") /\ "tmp" \in Prefix
      BY <1>t, <2>1 DEF ModifyBuiltin, HookLoops, Prefix
    <3> QED
      BY <1>5, <2>1, <3>1
  <2>2. CASE ModifyBuiltin("rb_hook", "real", AddJump)
    <3>1. todo \subseteq Delegates("real") /\ "real" \in Prefix
      BY <1>t, <2>2 DEF ModifyBuiltin, HookLoops, Prefix
    <3> QED
      BY <1>5, <2>2, <3>1
  <2> QED
    BY <1>9, <2>1, <2>2
<1>10. "real" \in Prefix /\ "tmp" \in Prefix /\ "del" \in Prefix
  BY DEF Prefix
<1> QED
  BY <1>1, <1>2, <1>4, <1>6, <1>7, <1>8, <1>9, <1>10, Untouched

LEMMA UnhookedNext ==
  ASSUME KernelOK, JumpOnce, DelUnhooked, [Next]_vars
  PROVE  DelUnhooked'
<1> USE DEF Enter, Exit, LoopDone, kernel, files, process, history
<1>a. ASSUME pc' \notin {"flush_del", "remove_del"}
      PROVE  DelUnhooked'
  BY <1>a DEF DelUnhooked
<1>1. CASE FlushChain("flush_del", "del")
  <2>1. PICK n \in todo :
          /\ jump' = IF n \in Hook THEN DropJump(n, named["del"][n]) ELSE jump
          /\ todo' = todo \ {n}
    BY <1>1 DEF FlushChain
  <2>2. pc = "flush_del" /\ pc' = pc /\ named' = named
    BY <1>1 DEF FlushChain
  <2> SUFFICES ASSUME NEW h \in Delegates("del"), h \notin todo \/ h = n
               PROVE  Unhooked(named["del"][h], h)'
    BY <2>1, <2>2 DEF DelUnhooked, Delegates, Names
  <2>3. h \in Hook
    BY DEF Delegates
  <2>4. CASE h = n
    BY <2>1, <2>2, <2>3, <2>4, DropJumpOnce DEF Unhooked
  <2>5. CASE h # n
    <3>1. jump'[h] = jump[h]
      BY <2>1, <2>3, <2>5, DropJumpOnce
    <3>2. Unhooked(named["del"][h], h)
      BY <2>2, <2>5 DEF DelUnhooked
    <3> QED
      BY <2>2, <3>1, <3>2 DEF Unhooked
  <2> QED
    BY <2>4, <2>5
<1>2. CASE RemoveChain("remove_del", "del")
  <2>1. PICK n \in todo : named' = named \/ named' = [named EXCEPT !["del"][n] = 0]
    BY <1>2 DEF RemoveChain
  <2>2. pc = "remove_del" /\ pc' = pc /\ jump' = jump
    BY <1>2 DEF RemoveChain
  <2>3. \A x \in Name : named'["del"][x] \in {0, named["del"][x]}
    BY <2>1 DEF KernelOK, Naming, Prefix
  <2>4. \A h \in Delegates("del")' : h \in Delegates("del") /\ named'["del"][h] = named["del"][h]
    BY <2>3 DEF Delegates, Names
  <2> QED
    BY <2>2, <2>4 DEF DelUnhooked, Unhooked
<1>3. CASE CleanupLoopEnds
  <2>1. /\ UNCHANGED <<named, jump>> /\ todo = {}
        /\ <<pc, pc'>> \in {<<"flush_tmp", "remove_tmp">>, <<"remove_tmp", "flush_del">>,
                            <<"flush_del", "remove_del">>, <<"remove_del", "destroy_last">>}
        /\ pc' = "flush_del" => todo' = Names("del")
    BY <1>3 DEF CleanupLoopEnds
  <2> QED
    BY <2>1 DEF DelUnhooked, Delegates, Names, Unhooked
<1>4. CASE FlushChain("flush_tmp", "tmp") \/ RemoveChain("remove_tmp", "tmp")
           \/ DestroySets("destroy_last", cur - 1, "destroy_next")
           \/ DestroySets("destroy_next", cur + 1, AfterCleanup)
  BY <1>4, <1>a DEF FlushChain, RemoveChain, DestroySets, AfterCleanup
<1>5. CASE Start \/ Build
  BY <1>5, <1>a
  DEF Start, StartCommit, StartCleanup, Build, StartBuild, RestoreTable, NewChain, FillChain,
      StartPrepare, PrepareDelegate, BuildFails
<1>6. CASE Apply \/ AnswerYes \/ AnswerNo
  BY <1>6, <1>a
  DEF Apply, StartApply, ModifyBuiltin, StartUnhook, StartAsking, PromptTimesOut, AnswerYes,
      AnswerNo, Rollback, StartRollbackUnhook, RollbackAborts, StartCommit
<1>7. CASE Commit
  BY <1>7, <1>a
  DEF Commit, DispatchStep, InvalidStep, WriteStep, RenameChain, RenameEnds, RemoveCommitFile,
      TruncateVersion, WriteVersion
<1>8. CASE Finish \/ Interrupt
  BY <1>8, <1>a DEF Finish, FailFileStops, Redirect, RunPostScripts, Interrupt
<1>9. CASE ForceDeleteCommitFile \/ ForeignRule \/ UNCHANGED vars
  <2>1. UNCHANGED <<named, jump, pc, todo>>
    BY <1>9 DEF ForceDeleteCommitFile, ForeignRule, vars
  <2> QED
    BY <2>1 DEF DelUnhooked, Delegates, Names, Unhooked
<1> QED
  BY <1>1, <1>2, <1>3, <1>4, <1>5, <1>6, <1>7, <1>8, <1>9, Zenon DEF Next, Progress, Cleanup

LEMMA EmptyNext ==
  ASSUME KernelOK, DelEmpty, DelGone', [Next]_vars
  PROVE  DelEmpty'
<1> USE DEF Enter, Exit, kernel, files, process, history
<1>a. ASSUME pc' \notin {"build_chains", "prepare"} \cup ApplyPhase
      PROVE  DelEmpty'
  BY <1>a DEF DelEmpty, DelGone, BuildPhase
<1>b. ASSUME pc \in BuildPhase \cup ApplyPhase, \A n \in Name : named'["del"][n] = named["del"][n]
      PROVE  DelEmpty'
  BY <1>b DEF DelEmpty, Names
<1>1. CASE Start \/ Cleanup
  BY <1>1, <1>a
  DEF Start, StartCommit, StartCleanup, Cleanup, FlushChain, RemoveChain, CleanupLoopEnds,
      DestroySets, AfterCleanup, ApplyPhase
<1>2. CASE Build
  <2>1. pc \in BuildPhase
    BY <1>2
    DEF Build, StartBuild, RestoreTable, NewChain, FillChain, StartPrepare, PrepareDelegate,
        BuildFails, LoopDone, BuildPhase
  <2>2. named' = named \/ \E cs : NameTmp(cs)
    BY <1>2, Zenon
    DEF Build, StartBuild, RestoreTable, NewChain, FillChain, StartPrepare, PrepareDelegate,
        BuildFails, kernel
  <2>3. \A n \in Name : named'["del"][n] = named["del"][n]
    BY <2>2 DEF NameTmp, KernelOK, Naming, Prefix
  <2> QED
    BY <1>b, <2>1, <2>3
<1>3. CASE Apply \/ AnswerYes \/ AnswerNo
  <2>1. pc \in BuildPhase \cup ApplyPhase /\ named' = named
    BY <1>3
    DEF Apply, StartApply, ModifyBuiltin, StartUnhook, StartAsking, PromptTimesOut, AnswerYes,
        AnswerNo, Rollback, StartRollbackUnhook, RollbackAborts, LoopDone, BuildPhase, ApplyPhase
  <2> QED
    BY <1>b, <2>1
<1>4. CASE Commit
  <2>1. pc' \in {"idle", "flush_tmp"} \cup CommitPhase
    BY <1>4
    DEF Commit, DispatchStep, InvalidStep, WriteStep, RenameChain, RenameEnds, RemoveCommitFile,
        TruncateVersion, WriteVersion, CommitPhase
  <2> QED
    BY <1>a, <2>1 DEF CommitPhase, ApplyPhase
<1>5. CASE Finish \/ Interrupt
  BY <1>5, <1>a DEF Finish, FailFileStops, Redirect, RunPostScripts, Interrupt, ApplyPhase
<1>6. CASE ForceDeleteCommitFile \/ ForeignRule \/ UNCHANGED vars
  BY <1>6 DEF ForceDeleteCommitFile, ForeignRule, vars, DelEmpty, Names
<1> QED
  BY <1>1, <1>2, <1>3, <1>4, <1>5, <1>6 DEF Next, Progress

LEMMA SiteNext ==
  ASSUME ProcessOK, SiteInv, [Next]_vars
  PROVE  SiteInv'
<1> USE DEF SiteInv, Enter, Exit, LoopDone, kernel, files, process, history, CommitPhase,
            CleanupPhase, SavePhase
<1>1. CASE Start
  BY <1>1 DEF Start, StartCommit, StartCleanup
<1>2. CASE Cleanup
  BY <1>2
  DEF Cleanup, FlushChain, RemoveChain, CleanupLoopEnds, DestroySets, AfterCleanup, ProcessOK
<1>3. CASE Build
  BY <1>3
  DEF Build, StartBuild, RestoreTable, NewChain, FillChain, StartPrepare, PrepareDelegate,
      BuildFails
<1>4. CASE Apply \/ AnswerYes \/ AnswerNo
  BY <1>4
  DEF Apply, StartApply, ModifyBuiltin, StartUnhook, StartAsking, PromptTimesOut, AnswerYes,
      AnswerNo, Rollback, StartRollbackUnhook, RollbackAborts, StartCommit
<1>5. CASE Commit
  BY <1>5
  DEF Commit, DispatchStep, InvalidStep, WriteStep, RenameChain, RenameEnds, RemoveCommitFile,
      TruncateVersion, WriteVersion
<1>6. CASE Finish \/ Interrupt
  BY <1>6 DEF Finish, FailFileStops, Redirect, RunPostScripts, Interrupt
<1>7. CASE ForceDeleteCommitFile \/ ForeignRule \/ UNCHANGED vars
  BY <1>7 DEF ForceDeleteCommitFile, ForeignRule, vars
<1> QED
  BY <1>1, <1>2, <1>3, <1>4, <1>5, <1>6, <1>7 DEF Next, Progress

LEMMA AnyNext ==
  ASSUME ConfirmInv, AnyState, [Next]_vars
  PROVE  AnyState'
<1>t. TypeInv /\ KernelOK /\ ProcessOK /\ HistoryOK /\ JumpOnce
  BY DEF ConfirmInv, TypeInv, TypeOK
<1>1. DelGone
  BY DEF AnyState, DelEmpty, DelGone, BuildPhase
<1>2. ASSUME pc = "remove_del", NEW n \in Names("del")
      PROVE  ~Referenced(n, named["del"][n])
  BY <1>2 DEF AnyState, DelUnhooked, Delegates, Unhooked, Referenced, Alone
<1>3. DelFlushed' /\ DelGone'
  BY <1>1, <1>2, <1>t, DelPartNext DEF AnyState
<1>4. Alone' /\ Declared' /\ JumpNamed' /\ FullNamed'
  BY <1>t, BootAssumption, ConstantsAssumption, AloneNext, DeclaredNext, JumpNamedNext, NamedNext
  DEF AnyState
<1>5. TmpFlushed' /\ DelUnhooked' /\ DelEmpty' /\ SiteInv' /\ SetsOwn'
  BY <1>3, <1>t, FlushedNext, UnhookedNext, EmptyNext, SiteNext, OwnNext DEF AnyState
<1> QED
  BY <1>3, <1>4, <1>5 DEF AnyState

-----------------------------------------------------------------------------
(* One reload, from its build to its save.                                  *)

\* What the build has made so far, rules included.
RunBuild ==
  /\ ChainsBuilt /\ DelegatesBuilt
  /\ pc = "build_chains" => Filled(gen, content[gen] \ todo)
  /\ pc = "prepare" => Filled(gen, Whole(gen) \ todo)

\* The three stretches between the build and the end: before the CFWTMP_ chains
\* are renamed, while they are, and after.
Trying ==
  \/ pc \in ApplyPhase
  \/ /\ site = "apply"
     /\ \/ pc \in {"write_r2d", "real_to_delete"}
        \/ pc = "commit" /\ commitFile \in {NoFile, "rename_chain_real_to_delete"}
Moving ==
  /\ site = "apply"
  /\ \/ pc \in {"write_t2r", "tmp_to_real"}
     \/ pc = "commit" /\ commitFile = "rename_chain_tmp_to_real"
Moved ==
  /\ site = "apply"
  /\ \/ pc \in {"write_done", "remove_file", "truncate_version", "write_version"}
                 \cup CleanupPhase \cup SavePhase
     \/ pc = "commit" /\ commitFile = "done"

NotIn(p) == \A n \in Name : named[p][n] # gen
RunNames ==
  /\ Trying => Names("tmp") = Whole(gen) /\ NotIn("real")
  /\ Moving => Names("tmp") \cup Names("real") = Whole(gen) /\ RealOf(gen)
  /\ Moved => Names("real") = Whole(gen) /\ RealOf(gen) /\ Names("tmp") = {}
  /\ site = "apply" => NotIn("del") /\ gen \in confirmed

\* The trial ruleset is alone in the path.
Tried == \A h \in Hook : jump[h] = IF h \in HooksOf(gen) THEN <<gen>> ELSE <<>>
RunJumps ==
  /\ HookedSoFar /\ UnhookedSoFar
  /\ pc = "ask" \/ site = "apply" => Tried

RunFull == pc \in ApplyPhase \/ site = "apply" => Filled(gen, Whole(gen))

RunInv == RunBuild /\ RunNames /\ RunJumps /\ RunFull

LEMMA RunBuildNext ==
  ASSUME ConfirmInv, RunBuild, [Next]_vars
  PROVE  RunBuild'
<1>t. TypeInv /\ KernelOK /\ ProcessOK /\ HistoryOK
  BY DEF ConfirmInv, TypeInv, TypeOK
<1> USE DEF Enter, Exit, LoopDone, kernel, files, process, history
<1>a. ASSUME pc' \notin {"build_chains", "prepare"}
      PROVE  RunBuild'
  BY <1>a DEF RunBuild, ChainsBuilt, DelegatesBuilt
<1>1. CASE Start \/ Cleanup
  BY <1>1, <1>a
  DEF Start, StartCommit, StartCleanup, Cleanup, FlushChain, RemoveChain, CleanupLoopEnds,
      DestroySets, AfterCleanup
<1>2. CASE StartBuild
  <2>1. PICK c \in Config : content' = [content EXCEPT ![gen + 1] = c] /\ todo' = c
    BY <1>2 DEF StartBuild
  <2>2. pc = "build" /\ pc' = "build_chains" /\ gen' = gen + 1 /\ gen + 1 \in Gen /\ named' = named
    BY <1>t, <1>2, ConstantsAssumption DEF StartBuild, ProcessOK, Gen
  <2>3. Names("tmp") = {}
    BY <2>2 DEF ConfirmInv, LoopInv, TmpGone
  <2>4. content'[gen'] = todo' /\ Names("tmp")' = {}
    BY <1>t, <2>1, <2>2, <2>3 DEF HistoryOK, Names
  <2> QED
    BY <2>2, <2>4 DEF RunBuild, ChainsBuilt, DelegatesBuilt, Filled
<1>3. CASE RestoreTable \/ NewChain \/ FillChain \/ StartPrepare \/ PrepareDelegate
  <2>1. ChainsBuilt' /\ DelegatesBuilt'
    BY <1>t, <1>3, Built DEF RunBuild
  <2>2. /\ pc' = "build_chains" => Filled(gen, content[gen] \ todo)'
        /\ pc' = "prepare" => Filled(gen, Whole(gen) \ todo)'
    BY <1>t, <1>3, FilledBuilding DEF RunBuild
  <2> QED
    BY <2>1, <2>2 DEF RunBuild
<1>4. CASE BuildFails
  BY <1>4, <1>a DEF BuildFails
<1>5. CASE Apply \/ AnswerYes \/ AnswerNo
  BY <1>5, <1>a
  DEF Apply, StartApply, ModifyBuiltin, StartUnhook, StartAsking, PromptTimesOut, AnswerYes,
      AnswerNo, Rollback, StartRollbackUnhook, RollbackAborts, StartCommit
<1>6. CASE Commit
  BY <1>6, <1>a
  DEF Commit, DispatchStep, InvalidStep, WriteStep, RenameChain, RenameEnds, RemoveCommitFile,
      TruncateVersion, WriteVersion
<1>7. CASE Finish \/ Interrupt
  BY <1>7, <1>a DEF Finish, FailFileStops, Redirect, RunPostScripts, Interrupt
<1>8. CASE ForceDeleteCommitFile \/ ForeignRule \/ UNCHANGED vars
  <2>1. UNCHANGED <<named, full, pc, todo, gen, content>>
    BY <1>8 DEF ForceDeleteCommitFile, ForeignRule, vars
  <2> QED
    BY <2>1 DEF RunBuild, ChainsBuilt, DelegatesBuilt, Filled, Whole, HooksOf, Names
<1> QED
  BY <1>1, <1>2, <1>3, <1>4, <1>5, <1>6, <1>7, <1>8, Zenon DEF Next, Progress, Build

-----------------------------------------------------------------------------
(* Steps that end a reload, or leave what it has made alone.                *)

RunPart == RunNames /\ RunJumps /\ RunFull

LEMMA RunAway ==
  ASSUME site' # "apply", pc' \notin ApplyPhase
  PROVE  RunPart'
BY DEF RunPart, RunNames, Trying, Moving, Moved, RunJumps, HookedSoFar, UnhookedSoFar, RunFull,
       ApplyPhase

\* A step that keeps to its stretch.
Along ==
  /\ Trying' => Trying
  /\ Moving' => Moving
  /\ Moved' => Moved
  /\ site' = "apply" => site = "apply"
  /\ pc' \in ApplyPhase => pc \in ApplyPhase

LEMMA NamesAlong ==
  ASSUME RunNames, Along, Still, confirmed \subseteq confirmed'
  PROVE  RunNames'
<1>1. NotIn("real")' <=> NotIn("real")
  BY DEF NotIn, Still
<1>2. NotIn("del")' <=> NotIn("del")
  BY DEF NotIn, Still
<1> QED
  BY <1>1, <1>2, StillNames DEF RunNames, Along, Still

LEMMA FullAlong ==
  ASSUME RunFull, Along, UNCHANGED <<gen, content>>, full \subseteq full'
  PROVE  RunFull'
BY DEF RunFull, Along, Filled, Whole, HooksOf

LEMMA RunAlong ==
  ASSUME RunPart, Along, Still, confirmed \subseteq confirmed', UNCHANGED <<full, jump>>,
         pc' \notin {"hook", "unhook"} \/ UNCHANGED <<pc, todo>>,
         pc' = "ask" => pc = "ask"
  PROVE  RunPart'
<1>1. RunNames' /\ RunFull'
  BY NamesAlong, FullAlong DEF RunPart, Still
<1>2. Tried' <=> Tried
  BY DEF Tried, Still, HooksOf
<1>3. RunJumps'
  <2>1. HookedSoFar' /\ UnhookedSoFar'
    BY DEF RunPart, RunJumps, HookedSoFar, UnhookedSoFar, Hooked, Unhooked, Delegates, Names,
           Still
  <2> QED
    BY <1>2, <2>1 DEF RunPart, RunJumps, Along
<1> QED
  BY <1>1, <1>3 DEF RunPart

-----------------------------------------------------------------------------
(* The cleanup that follows a commit finds nothing of the ruleset.          *)

LEMMA RunFlush ==
  ASSUME ConfirmInv, RunPart, site = "apply", NEW phase, NEW p,
         <<phase, p>> \in {<<"flush_tmp", "tmp">>, <<"flush_del", "del">>},
         FlushChain(phase, p)
  PROVE  RunPart'
<1>t. KernelOK /\ ProcessOK /\ gen # 0
  BY DEF ConfirmInv, TypeInv, TypeOK, HistoryOK, RunPart, RunNames, Gen
<1>1. /\ Still /\ UNCHANGED <<pc, site, commitFile, confirmed>> /\ pc = phase
  BY DEF FlushChain, files, history, Still
<1>2. Moved /\ Names("tmp") = {} /\ NotIn("del") /\ Tried
  BY <1>1 DEF RunPart, RunNames, RunJumps, Moved, CleanupPhase
<1>3. PICK n \in todo : /\ jump' = IF n \in Hook THEN DropJump(n, named[p][n]) ELSE jump
                        /\ full' = full \ {<<named[p][n], n>>}
  BY DEF FlushChain
<1>4. named[p][n] # gen
  BY <1>t, <1>2 DEF ProcessOK, Names, NotIn
<1>5. jump' = jump
  <2>1. CASE n \in Hook
    <3>1. Unhooked(named[p][n], n)
      BY <1>2, <1>4, <2>1 DEF Tried, Unhooked
    <3> QED
      BY <1>t, <1>3, <2>1, <3>1, DropNothing
  <2> QED
    BY <1>3, <2>1
<1>6. RunNames'
  BY <1>1, NamesAlong DEF RunPart, Along, Trying, Moving, Moved
<1>7. RunJumps'
  BY <1>1, <1>2, <1>5 DEF RunJumps, HookedSoFar, UnhookedSoFar, Tried, Still, HooksOf
<1>8. RunFull'
  BY <1>1, <1>3, <1>4 DEF RunPart, RunFull, Filled, Whole, HooksOf, Still
<1> QED
  BY <1>6, <1>7, <1>8 DEF RunPart

LEMMA RunRemove ==
  ASSUME ConfirmInv, RunPart, site = "apply", NEW phase, NEW p,
         <<phase, p>> \in {<<"remove_tmp", "tmp">>, <<"remove_del", "del">>},
         RemoveChain(phase, p)
  PROVE  RunPart'
<1>t. KernelOK /\ gen # 0
  BY DEF ConfirmInv, TypeInv, TypeOK, HistoryOK, RunPart, RunNames, Gen
<1>1. /\ UNCHANGED <<full, jump, gen, content, pc, site, commitFile, confirmed>> /\ pc = phase
  BY DEF RemoveChain, files, history
<1>2. /\ Moved /\ Names("tmp") = {} /\ NotIn("del") /\ Names("real") = Whole(gen) /\ RealOf(gen)
      /\ gen \in confirmed
  BY <1>1 DEF RunPart, RunNames, Moved, CleanupPhase
<1>3. PICK n \in todo : named' = named \/ named' = [named EXCEPT ![p][n] = 0]
  BY DEF RemoveChain
<1>4. /\ named'["real"] = named["real"]
      /\ \A x \in Name : named'["tmp"][x] \in {0, named["tmp"][x]}
      /\ \A x \in Name : named'["del"][x] \in {0, named["del"][x]}
  <2>1. CASE p = "tmp"
    BY <1>t, <1>3, <2>1 DEF KernelOK, Naming, Prefix
  <2>2. CASE p = "del"
    BY <1>t, <1>3, <2>2 DEF KernelOK, Naming, Prefix
  <2> QED
    BY <2>1, <2>2
<1>5. Names("tmp")' = {} /\ Names("real")' = Names("real") /\ NotIn("del")'
  BY <1>t, <1>1, <1>2, <1>4 DEF Names, NotIn
<1>6. Whole(gen)' = Whole(gen) /\ RealOf(gen)'
  BY <1>1, <1>2, <1>4, <1>5 DEF Whole, HooksOf, RealOf
<1>7. RunNames'
  BY <1>1, <1>2, <1>5, <1>6 DEF RunNames, Trying, Moving, Moved, CleanupPhase, ApplyPhase
<1>8. RunJumps' /\ RunFull'
  BY <1>1
  DEF RunPart, RunJumps, RunFull, HookedSoFar, UnhookedSoFar, Tried, Filled, Whole, HooksOf
<1> QED
  BY <1>7, <1>8 DEF RunPart

LEMMA RunCleanup ==
  ASSUME ConfirmInv, RunPart, Cleanup
  PROVE  RunPart'
<1> USE DEF Enter, LoopDone, kernel, files, process, history
<1>1. CASE site # "apply"
  BY <1>1, RunAway
  DEF Cleanup, FlushChain, RemoveChain, CleanupLoopEnds, DestroySets, AfterCleanup, ApplyPhase
<1>2. CASE site = "apply"
  <2>1. CASE CleanupLoopEnds \/ DestroySets("destroy_last", cur - 1, "destroy_next")
             \/ DestroySets("destroy_next", cur + 1, AfterCleanup)
    <3>1. /\ Still /\ UNCHANGED <<full, jump, site, confirmed, commitFile>>
          /\ pc \in CleanupPhase /\ pc' \in CleanupPhase \cup SavePhase
      BY <1>2, <2>1
      DEF CleanupLoopEnds, DestroySets, AfterCleanup, Still, CleanupPhase, SavePhase
    <3>2. Along
      BY <1>2, <3>1 DEF Along, Trying, Moving, Moved, CleanupPhase, SavePhase, ApplyPhase
    <3> QED
      BY <3>1, <3>2, RunAlong DEF CleanupPhase, SavePhase
  <2> QED
    BY <1>2, <2>1, RunFlush, RunRemove DEF Cleanup
<1> QED
  BY <1>1, <1>2

-----------------------------------------------------------------------------
(* The trial.                                                               *)

\* The delegates of a whole CFWTMP_ are those of the hooks of the ruleset.
LEMMA TryingNames ==
  ASSUME TypeInv, NamesInv, gen \in Gen, Names("tmp") = Whole(gen)
  PROVE  /\ Delegates("tmp") = HooksOf(gen)
         /\ \A h \in Delegates("tmp") : named["tmp"][h] = gen
<1>1. content[gen] \subseteq Chain /\ HooksOf(gen) \subseteq Hook
  BY WholeNames DEF TypeInv, TypeOK
<1>2. Delegates("tmp") = HooksOf(gen)
  BY <1>1, ConstantsAssumption DEF Delegates, Whole
<1> QED
  BY <1>2 DEF NamesInv, TmpIsCurrent, Delegates, Names

LEMMA RunStartApply ==
  ASSUME ConfirmInv, AnyState, RunBuild, StartApply
  PROVE  RunPart'
<1>t. TypeInv /\ HistoryOK /\ NamesInv /\ KernelOK
  BY DEF ConfirmInv, TypeInv, TypeOK
<1>1. /\ Still /\ pc = "prepare" /\ todo = {} /\ pc' = "hook" /\ todo' = Delegates("tmp")
      /\ UNCHANGED <<site, full, confirmed>>
  BY DEF StartApply, LoopDone, Enter, kernel, history, Still
<1>2. gen \notin confirmed /\ gen # 0
  BY <1>1 DEF ConfirmInv, PhaseInv, Unconfirmed, TypeInv, Loops, GenStarted
<1>3. Names("tmp") = Whole(gen)
  BY <1>1 DEF RunBuild, DelegatesBuilt
<1>4. NotIn("real")
  BY <1>2, <1>t DEF NotIn, NamesInv, RealConfirmed, Names
<1>5. Filled(gen, Whole(gen))'
  BY <1>t, <1>1, FilledBuilding DEF RunBuild
<1>6. site # "apply"
  BY <1>1 DEF AnyState, SiteInv, CommitPhase, CleanupPhase, SavePhase
<1>7. RunNames'
  BY <1>1, <1>3, <1>4, <1>6, StillNames DEF RunNames, Trying, Moving, Moved, NotIn, Still
<1>8. RunJumps'
  BY <1>1, <1>6, StillNames DEF RunJumps, HookedSoFar, UnhookedSoFar, Delegates
<1> QED
  BY <1>5, <1>7, <1>8 DEF RunPart, RunFull

LEMMA RunLoop ==
  ASSUME ConfirmInv, AnyState, RunPart,
         ModifyBuiltin("hook", "tmp", AddJump) \/ ModifyBuiltin("unhook", "real", DropJump)
           \/ ModifyBuiltin("rb_hook", "real", AddJump)
           \/ ModifyBuiltin("rb_unhook", "tmp", DropJump)
  PROVE  RunPart'
<1>t. TypeInv /\ NamesInv /\ KernelOK /\ JumpOnce /\ HookLoops /\ GenStarted /\ ProcessOK
  BY DEF ConfirmInv, TypeInv, TypeOK, Loops
<1>1. /\ Still /\ UNCHANGED <<pc, site, full, confirmed, commitFile>>
      /\ pc \in {"hook", "unhook", "rb_hook", "rb_unhook"}
  BY DEF ModifyBuiltin, files, history, Still
<1>2. site # "apply"
  BY <1>1 DEF AnyState, SiteInv, CommitPhase, CleanupPhase, SavePhase
<1>3. Names("tmp") = Whole(gen) /\ NotIn("real") /\ gen \in Gen
  BY <1>1, <1>t DEF RunPart, RunNames, Trying, ApplyPhase, GenStarted, ProcessOK
<1>4. \A h \in Delegates("tmp") : named["tmp"][h] = gen /\ named["real"][h] # gen
  BY <1>t, <1>3, TryingNames DEF NotIn, Delegates, Names
<1>5. Along
  BY <1>1 DEF Along, Trying, Moving, Moved
<1>6. RunNames' /\ RunFull'
  BY <1>1, <1>5, NamesAlong, FullAlong DEF RunPart, Still
<1>7. HookedSoFar'
  <2>1. CASE ModifyBuiltin("hook", "tmp", AddJump)
    BY <1>t, <1>3, <1>4, <2>1, HookLoop DEF RunPart, RunJumps
  <2>2. CASE pc # "hook"
    BY <1>1, <2>2 DEF HookedSoFar
  <2> QED
    BY <2>1, <2>2 DEF ModifyBuiltin
<1>8. UnhookedSoFar'
  <2>1. CASE ModifyBuiltin("unhook", "real", DropJump)
    BY <1>t, <1>4, <2>1, UnhookLoop DEF RunPart, RunJumps
  <2>2. CASE pc # "unhook"
    BY <1>1, <2>2 DEF UnhookedSoFar
  <2> QED
    BY <2>1, <2>2 DEF ModifyBuiltin
<1> QED
  BY <1>1, <1>2, <1>6, <1>7, <1>8 DEF RunPart, RunJumps

\* Two loops over names, and no other jump is left: CFWDEL_ is empty.
LEMMA RunAsk ==
  ASSUME ConfirmInv, AnyState, RunPart, StartAsking
  PROVE  RunPart'
<1>t. TypeInv /\ NamesInv /\ KernelOK /\ JumpOnce /\ ProcessOK /\ GenStarted
  BY DEF ConfirmInv, TypeInv, TypeOK, Loops
<1>1. /\ Still /\ UNCHANGED <<full, jump, site, confirmed, commitFile>>
      /\ pc = "unhook" /\ todo = {} /\ pc' = "ask"
  BY DEF StartAsking, LoopDone, Enter, kernel, files, history, Still
<1>2. Names("tmp") = Whole(gen) /\ gen \in Gen /\ Names("del") = {}
  BY <1>1, <1>t
  DEF RunPart, RunNames, Trying, ApplyPhase, GenStarted, ProcessOK, AnyState, DelEmpty
<1>3. Delegates("tmp") = HooksOf(gen) /\ \A h \in Delegates("tmp") : named["tmp"][h] = gen
  BY <1>t, <1>2, TryingNames
<1>4. JumpOwners
  <2> SUFFICES ASSUME NEW h \in Hook, NEW i \in 1..Len(jump[h])
               PROVE  jump[h][i] \in {named["real"][h], named["tmp"][h]}
    BY DEF JumpOwners
  <2>1. jump[h][i] # 0
    BY <1>t, JumpsToGen
  <2>2. PICK p \in Prefix : named[p][h] = jump[h][i]
    BY DEF AnyState, JumpNamed
  <2>3. p # "del"
    BY <1>2, <2>1, <2>2 DEF Names, Name
  <2> QED
    BY <2>2, <2>3 DEF Prefix
<1>5. Tried
  BY <1>t, <1>1, <1>3, <1>4, LoopsThrough DEF RunPart, RunJumps, Tried
<1>6. RunNames' /\ RunFull'
  BY <1>1, NamesAlong, FullAlong
  DEF RunPart, Along, Trying, Moving, Moved, ApplyPhase, CleanupPhase, SavePhase, Still
<1>7. RunJumps'
  BY <1>1, <1>5 DEF RunJumps, HookedSoFar, UnhookedSoFar, Tried, HooksOf, Still
<1> QED
  BY <1>6, <1>7 DEF RunPart

LEMMA RunApply ==
  ASSUME ConfirmInv, AnyState, RunBuild, RunPart, Apply \/ AnswerNo
  PROVE  RunPart'
<1>1. CASE StartUnhook
  <2>1. /\ Still /\ UNCHANGED <<full, jump, site, confirmed, commitFile>>
        /\ pc = "hook" /\ todo = {} /\ pc' = "unhook" /\ todo' = Delegates("real")
    BY <1>1 DEF StartUnhook, LoopDone, Enter, kernel, files, history, Still
  <2>2. site # "apply"
    BY <2>1 DEF AnyState, SiteInv, CommitPhase, CleanupPhase, SavePhase
  <2>3. RunNames' /\ RunFull'
    BY <2>1, NamesAlong, FullAlong
    DEF RunPart, Along, Trying, Moving, Moved, ApplyPhase, CleanupPhase, SavePhase, Still
  <2>4. RunJumps'
    BY <2>1, <2>2, StillNames
    DEF RunPart, RunJumps, HookedSoFar, UnhookedSoFar, Hooked, Delegates, Still
  <2> QED
    BY <2>3, <2>4 DEF RunPart
<1>2. CASE PromptTimesOut \/ AnswerNo \/ StartRollbackUnhook
  <2>1. /\ Still /\ UNCHANGED <<full, jump, site, confirmed, commitFile>>
        /\ pc \in ApplyPhase /\ pc' \in {"rb_hook", "rb_unhook"}
    BY <1>2
    DEF PromptTimesOut, AnswerNo, Rollback, StartRollbackUnhook, LoopDone, Enter, kernel, files,
        history, Still, ApplyPhase
  <2>2. Along
    BY <2>1 DEF Along, Trying, Moving, Moved, ApplyPhase, CleanupPhase, SavePhase
  <2> QED
    BY <2>1, <2>2, RunAlong
<1>3. CASE RollbackAborts
  BY <1>3, RunAway DEF RollbackAborts, Exit, Enter, ApplyPhase
<1> QED
  BY <1>1, <1>2, <1>3, RunStartApply, RunLoop, RunAsk, Zenon DEF Apply

LEMMA RunYes ==
  ASSUME ConfirmInv, AnyState, RunPart, AnswerYes
  PROVE  RunPart'
<1>1. /\ Still /\ UNCHANGED <<full, jump, commitFile>> /\ pc = "ask" /\ pc' = "commit"
      /\ site' = "apply" /\ gen \in confirmed'
  BY DEF AnswerYes, StartCommit, Enter, kernel, history, Still
<1>2. commitFile = NoFile
  BY <1>1 DEF ConfirmInv, PhaseInv, CommitFileOwner, CommitPhase
<1>3. Names("del") = {} /\ gen # 0
  BY <1>1
  DEF AnyState, DelEmpty, ApplyPhase, ConfirmInv, TypeInv, Loops, GenStarted
<1>4. NotIn("del")
  BY <1>3 DEF NotIn, Names
<1>5. Names("tmp") = Whole(gen) /\ NotIn("real") /\ Tried /\ Filled(gen, Whole(gen))
  BY <1>1 DEF RunPart, RunNames, RunJumps, RunFull, Trying, ApplyPhase
<1>6. RunNames'
  BY <1>1, <1>2, <1>4, <1>5, StillNames
  DEF RunNames, Trying, Moving, Moved, NotIn, NoFile, CleanupPhase, SavePhase, Still
<1>7. RunJumps' /\ RunFull'
  BY <1>1, <1>5
  DEF RunJumps, RunFull, HookedSoFar, UnhookedSoFar, Tried, Filled, Whole, HooksOf, Still
<1> QED
  BY <1>6, <1>7 DEF RunPart

-----------------------------------------------------------------------------
(* The commit, as part of the reload that asked.                            *)

LEMMA RunRename ==
  ASSUME ConfirmInv, RunPart, NEW phase, NEW from, NEW to,
         <<phase, from, to>> \in {<<"real_to_delete", "real", "del">>,
                                  <<"tmp_to_real", "tmp", "real">>},
         RenameChain(phase, from, to)
  PROVE  RunPart'
<1>t. KernelOK /\ TmpIsCurrent
  BY DEF ConfirmInv, TypeInv, TypeOK, NamesInv
<1>1. CASE site' # "apply"
  BY <1>1, RunAway DEF RenameChain, process, Exit, Enter, ApplyPhase
<1>2. CASE site' = "apply"
  <2>1. PICK n \in Names(from) :
          /\ named' = [named EXCEPT ![to][n] = named[from][n], ![from][n] = 0]
          /\ UNCHANGED process
    BY <1>2 DEF RenameChain, Exit
  <2>2. /\ pc = phase /\ pc' = phase /\ site = "apply"
        /\ UNCHANGED <<gen, content, commitFile, full, jump, confirmed, todo>>
        /\ Whole(gen)' = Whole(gen)
    BY <1>2, <2>1 DEF RenameChain, process, files, history, Whole, HooksOf
  <2>3. RunJumps' /\ RunFull'
    BY <2>2
    DEF RunPart, RunJumps, RunFull, HookedSoFar, UnhookedSoFar, Tried, Filled, Whole, HooksOf
  <2>4. NotIn("del") /\ gen \in confirmed
    BY <2>2 DEF RunPart, RunNames
  <2>5. CASE from = "real"
    <3>1. Names("tmp") = Whole(gen) /\ NotIn("real") /\ phase = "real_to_delete" /\ to = "del"
      BY <2>2, <2>5 DEF RunPart, RunNames, Trying
    <3>2. /\ named'["tmp"] = named["tmp"] /\ n \in Name
          /\ \A x \in Name : named'["real"][x] = IF x = n THEN 0 ELSE named["real"][x]
          /\ \A x \in Name : named'["del"][x] = IF x = n THEN named["real"][n] ELSE named["del"][x]
      BY <1>t, <2>1, <2>5, <3>1 DEF KernelOK, Naming, Prefix, Names
    <3>3. gen # 0
      BY <2>4 DEF ConfirmInv, TypeInv, TypeOK, HistoryOK, Gen
    <3>4. NotIn("real")' /\ NotIn("del")' /\ Names("tmp")' = Names("tmp")
      BY <2>2, <2>4, <3>1, <3>2, <3>3 DEF NotIn, Names
    <3>5. RunNames'
      BY <2>2, <2>4, <3>1, <3>4
      DEF RunNames, Trying, Moving, Moved, CleanupPhase, SavePhase, ApplyPhase
    <3> QED
      BY <2>3, <3>5 DEF RunPart
  <2>6. CASE from = "tmp"
    <3>1. /\ Names("tmp") \cup Names("real") = Whole(gen) /\ RealOf(gen)
          /\ phase = "tmp_to_real" /\ to = "real"
      BY <2>2, <2>6 DEF RunPart, RunNames, Moving
    <3>2. /\ named'["del"] = named["del"] /\ n \in Name
          /\ \A x \in Name : named'["tmp"][x] = IF x = n THEN 0 ELSE named["tmp"][x]
          /\ \A x \in Name : named'["real"][x] = IF x = n THEN named["tmp"][n] ELSE named["real"][x]
      BY <1>t, <2>1, <2>6, <3>1 DEF KernelOK, Naming, Prefix, Names
    <3>3. named["tmp"][n] = gen /\ named["tmp"][n] # 0
      BY <1>t, <2>1, <2>6 DEF TmpIsCurrent, Names
    <3>4. Names("tmp")' \cup Names("real")' = Names("tmp") \cup Names("real")
      BY <3>2, <3>3 DEF Names
    <3>5. RealOf(gen)'
      BY <2>2, <3>1, <3>2, <3>3 DEF RealOf, Names
    <3>6. RunNames'
      BY <2>2, <2>4, <3>1, <3>2, <3>4, <3>5
      DEF RunNames, Trying, Moving, Moved, NotIn, CleanupPhase, SavePhase, ApplyPhase
    <3> QED
      BY <2>3, <3>6 DEF RunPart
  <2> QED
    BY <2>5, <2>6
<1> QED
  BY <1>1, <1>2

LEMMA RunCommit ==
  ASSUME ConfirmInv, RunPart, Commit
  PROVE  RunPart'
<1> USE DEF Enter, Exit, kernel, files, process, history, Still
<1>1. CASE site' # "apply"
  BY <1>1, RunAway
  DEF Commit, DispatchStep, InvalidStep, WriteStep, RenameChain, RenameEnds, RemoveCommitFile,
      TruncateVersion, WriteVersion, ApplyPhase
<1>2. CASE site' = "apply" /\ RenameEnds("real_to_delete", "real", "write_t2r")
  <2>1. /\ Still /\ UNCHANGED <<site, full, jump, confirmed>> /\ pc = "real_to_delete"
        /\ pc' = "write_t2r" /\ Names("real") = {} /\ site = "apply"
    BY <1>2 DEF RenameEnds
  <2>2. Names("tmp") = Whole(gen) /\ NotIn("del") /\ gen \in confirmed
    BY <2>1 DEF RunPart, RunNames, Trying
  <2>3. RunNames'
    BY <2>1, <2>2, StillNames
    DEF RunNames, Trying, Moving, Moved, RealOf, NotIn, CleanupPhase, SavePhase, ApplyPhase
  <2>4. RunJumps' /\ RunFull'
    BY <2>1
    DEF RunPart, RunJumps, RunFull, HookedSoFar, UnhookedSoFar, Tried, Filled, Whole, HooksOf
  <2> QED
    BY <2>3, <2>4 DEF RunPart
<1>3. CASE site' = "apply" /\ RenameEnds("tmp_to_real", "tmp", "write_done")
  <2>1. /\ Still /\ UNCHANGED <<site, full, jump, confirmed>> /\ pc = "tmp_to_real"
        /\ pc' = "write_done" /\ Names("tmp") = {} /\ site = "apply"
    BY <1>3 DEF RenameEnds
  <2>2. Names("real") = Whole(gen) /\ RealOf(gen) /\ NotIn("del") /\ gen \in confirmed
    BY <2>1 DEF RunPart, RunNames, Moving
  <2>3. RunNames'
    BY <2>1, <2>2, StillNames
    DEF RunNames, Trying, Moving, Moved, NotIn, CleanupPhase, SavePhase, ApplyPhase
  <2>4. RunJumps' /\ RunFull'
    BY <2>1
    DEF RunPart, RunJumps, RunFull, HookedSoFar, UnhookedSoFar, Tried, Filled, Whole, HooksOf
  <2> QED
    BY <2>3, <2>4 DEF RunPart
<1>4. CASE /\ site' = "apply"
           /\ \/ DispatchStep
              \/ WriteStep("write_r2d", "rename_chain_real_to_delete")
              \/ WriteStep("write_t2r", "rename_chain_tmp_to_real")
              \/ WriteStep("write_done", "done")
              \/ RemoveCommitFile \/ TruncateVersion \/ WriteVersion
  <2>1. /\ Still /\ UNCHANGED <<site, full, jump, confirmed>> /\ pc' \notin ApplyPhase
    BY <1>4
    DEF DispatchStep, WriteStep, RemoveCommitFile, TruncateVersion, WriteVersion, ApplyPhase
  <2>2. Along
    BY <1>4
    DEF DispatchStep, WriteStep, RemoveCommitFile, TruncateVersion, WriteVersion, Along, Trying,
        Moving, Moved, ApplyPhase, CleanupPhase, SavePhase, NoFile, Empty
  <2> QED
    BY <2>1, <2>2, RunAlong DEF ApplyPhase
<1>5. CASE site' = "apply" /\ InvalidStep
  BY <1>5 DEF InvalidStep
<1>6. CASE RenameChain("real_to_delete", "real", "del") \/ RenameChain("tmp_to_real", "tmp", "real")
  BY <1>6, RunRename
<1> QED
  BY <1>1, <1>2, <1>3, <1>4, <1>5, <1>6, Zenon DEF Commit

LEMMA RunNext ==
  ASSUME ConfirmInv, AnyState, RunInv, [Next]_vars
  PROVE  RunInv'
<1>t. ProcessOK /\ RunBuild /\ RunPart
  BY DEF ConfirmInv, TypeInv, TypeOK, RunInv, RunPart
<1> USE DEF Enter, Exit, LoopDone, kernel, files, process, history, Still
<1>1. ASSUME Start \/ Interrupt
      PROVE  RunPart'
  BY <1>1, RunAway DEF Start, StartCommit, StartCleanup, Interrupt, ApplyPhase
<1>2. ASSUME Build
      PROVE  RunPart'
  <2>1. pc \in BuildPhase /\ pc' \in BuildPhase \cup {"idle"} /\ site' \in {site, "start"}
    BY <1>2
    DEF Build, StartBuild, RestoreTable, NewChain, FillChain, StartPrepare, PrepareDelegate,
        BuildFails, BuildPhase
  <2>2. site # "apply"
    BY <2>1 DEF AnyState, SiteInv, BuildPhase, CommitPhase, CleanupPhase, SavePhase
  <2> QED
    BY <2>1, <2>2, RunAway DEF BuildPhase, ApplyPhase
<1>3. ASSUME Finish
      PROVE  RunPart'
  <2>1. CASE site' # "apply"
    BY <1>3, <2>1, RunAway
    DEF Finish, FailFileStops, Redirect, RunPostScripts, ApplyPhase
  <2>2. CASE site' = "apply"
    <3>1. /\ Still /\ UNCHANGED <<full, jump, confirmed, site>>
          /\ pc \in SavePhase /\ pc' \in SavePhase
      BY <1>3, <2>2 DEF Finish, FailFileStops, Redirect, RunPostScripts, SavePhase
    <3>2. Along
      BY <2>2, <3>1 DEF Along, Trying, Moving, Moved, ApplyPhase, CleanupPhase, SavePhase
    <3> QED
      BY <1>t, <3>1, <3>2, RunAlong DEF SavePhase
  <2> QED
    BY <2>1, <2>2
<1>4. ASSUME ForceDeleteCommitFile
      PROVE  RunPart'
  <2>1. pc = "idle" /\ UNCHANGED <<pc, site>>
    BY <1>4 DEF ForceDeleteCommitFile
  <2>2. site # "apply"
    BY <2>1 DEF AnyState, SiteInv, CommitPhase, CleanupPhase, SavePhase
  <2> QED
    BY <2>1, <2>2, RunAway DEF ApplyPhase
<1>5. ASSUME ForeignRule \/ UNCHANGED vars
      PROVE  RunPart'
  <2>1. Still /\ UNCHANGED <<full, jump, confirmed, site, pc, todo, commitFile>>
    BY <1>5 DEF ForeignRule, vars
  <2>2. Along
    BY <2>1 DEF Along, Trying, Moving, Moved
  <2> QED
    BY <1>t, <2>1, <2>2, RunAlong
<1>6. RunPart'
  BY <1>t, <1>1, <1>2, <1>3, <1>4, <1>5, RunCleanup, RunApply, RunYes, RunCommit, Zenon
  DEF Next, Progress
<1>7. RunBuild'
  BY <1>t, RunBuildNext
<1> QED
  BY <1>6, <1>7 DEF RunPart, RunInv

-----------------------------------------------------------------------------
(* What is saved.                                                           *)

Rules == {"v4", "v6"}

\* What the kernel has of a file's chains, when that is one ruleset, or nothing.
Holds(f, g) ==
  /\ \A n \in Part(f) :
       /\ named["real"][n] = IF n \in Whole(g) THEN g ELSE 0
       /\ named["tmp"][n] = 0 /\ named["del"][n] = 0
  /\ \A e \in Gen, n \in Part(f) : <<e, n>> \in full <=> e = g /\ n \in Whole(g)
  /\ \A h \in Hook \cap Part(f) : jump[h] = IF h \in HooksOf(g) THEN <<g>> ELSE <<>>
Bare(f) ==
  /\ \A n \in Part(f), p \in Prefix : named[p][n] = 0
  /\ \A e \in Gen, n \in Part(f) : <<e, n>> \notin full
  /\ \A h \in Hook \cap Part(f) : jump[h] = <<>>

\* A file that holds one whole ruleset.
Image(f, g) ==
  [names |-> [p \in Prefix |-> [n \in Part(f) |->
     IF p = "real" /\ n \in Whole(g) THEN g ELSE 0]],
   full |-> {g} \X (Whole(g) \cap Part(f)),
   jump |-> [h \in Hook \cap Part(f) |-> IF h \in HooksOf(g) THEN <<g>> ELSE <<>>]]

RulesSaved(f) ==
  \/ saved[f] = {} /\ disk[f] = NoRules(f)
  \/ \E g \in confirmed : saved[f] = {g} /\ disk[f] = Image(f, g)
SetsSaved ==
  /\ saved["ipset"] = {s[2] : s \in disk["ipset"]}
  /\ disk["ipset"] \subseteq Nat \X Gen
  /\ \A s \in disk["ipset"] :
       s[2] <= gen /\ s[1] = setver[s[2]] /\ content[s[2]] \notin Unaliased
  /\ \E b \in Nat : \A s \in disk["ipset"] : s[1] <= b
DiskInv == (\A f \in Rules : RulesSaved(f)) /\ SetsSaved


LEMMA RulesFiles == Rules \subseteq SavedFile /\ SavedFile = Rules \cup {"ipset"}
BY DEF Rules, SavedFile

\* What a file's command prints, when the kernel has one ruleset for it.
LEMMA SaveIsImage ==
  ASSUME KernelOK, HistoryOK, NEW f, NEW g \in Gen, Holds(f, g)
  PROVE  RulesOf(f) = Image(f, g)
<1>1. \A p \in Prefix, n \in Part(f) : named[p][n] = IF p = "real" /\ n \in Whole(g) THEN g ELSE 0
  BY DEF Holds, Prefix
<1>2. {o \in full : o[2] \in Part(f)} = {g} \X (Whole(g) \cap Part(f))
  <2>1. ASSUME NEW o \in full, o[2] \in Part(f)
        PROVE  o \in {g} \X (Whole(g) \cap Part(f))
    <3>1. o \in Gen \X Name
      BY <2>1 DEF KernelOK
    <3>2. o = <<o[1], o[2]>> /\ o[1] \in Gen
      BY <3>1
    <3>3. o[1] = g /\ o[2] \in Whole(g)
      BY <2>1, <3>2 DEF Holds
    <3> QED
      BY <2>1, <3>2, <3>3
  <2>2. \A n \in Whole(g) \cap Part(f) : <<g, n>> \in full
    BY DEF Holds
  <2> QED
    BY <2>1, <2>2
<1>3. \A h \in Hook \cap Part(f) : jump[h] = IF h \in HooksOf(g) THEN <<g>> ELSE <<>>
  BY DEF Holds
<1>4. [p \in Prefix |-> [n \in Part(f) |-> named[p][n]]]
      = [p \in Prefix |-> [n \in Part(f) |-> IF p = "real" /\ n \in Whole(g) THEN g ELSE 0]]
  BY <1>1
<1>5. [h \in Hook \cap Part(f) |-> jump[h]]
      = [h \in Hook \cap Part(f) |-> IF h \in HooksOf(g) THEN <<g>> ELSE <<>>]
  BY <1>3
<1> QED
  BY <1>2, <1>4, <1>5, Zenon DEF RulesOf, Image

\* A ruleset without a chain leaves nothing to save.
LEMMA EmptyImage ==
  ASSUME NEW f, NEW g, Whole(g) = {}
  PROVE  Image(f, g) = NoRules(f)
<1>1. HooksOf(g) = {}
  BY DEF Whole
<1>2. {g} \X (Whole(g) \cap Part(f)) = {}
  OBVIOUS
<1> QED
  BY <1>1, <1>2, Zenon DEF Image, NoRules

\* From the end of the cleanup on, the kernel is the ruleset that was applied.
LEMMA KernelHolds ==
  ASSUME ConfirmInv, AnyState, RunInv, pc \in SavePhase
  PROVE  /\ gen \in confirmed /\ gen \in Gen
         /\ \A f \in Rules : Holds(f, gen)
         /\ RulesInKernel = IF Whole(gen) = {} THEN {} ELSE {gen}
<1>t. KernelOK /\ HistoryOK /\ FullNamed
  BY DEF ConfirmInv, TypeInv, TypeOK, AnyState
<1>1. site = "apply" /\ Moved /\ Names("del") = {}
  BY DEF AnyState, SiteInv, DelEmpty, Moved
<1>2. /\ Names("real") = Whole(gen) /\ RealOf(gen) /\ Names("tmp") = {}
      /\ gen \in confirmed /\ Tried /\ Filled(gen, Whole(gen))
  BY <1>1 DEF RunInv, RunNames, RunJumps, RunFull
<1>3. gen \in Gen /\ gen # 0
  BY <1>t, <1>2 DEF HistoryOK, Gen
<1>4. \A n \in Name : /\ named["real"][n] = IF n \in Whole(gen) THEN gen ELSE 0
                      /\ named["tmp"][n] = 0 /\ named["del"][n] = 0
  BY <1>1, <1>2 DEF Names, RealOf
<1>5. ASSUME NEW e \in Gen, NEW n \in Name
      PROVE  <<e, n>> \in full <=> e = gen /\ n \in Whole(gen)
  <2>1. ASSUME <<e, n>> \in full
        PROVE  e = gen /\ n \in Whole(gen)
    <3>1. \E p \in Prefix : named[p][n] = e
      BY <1>t, <2>1 DEF FullNamed
    <3>2. e # 0
      BY DEF Gen
    <3> QED
      BY <1>4, <3>1, <3>2 DEF Prefix
  <2> QED
    BY <1>2, <2>1 DEF Filled
<1>6. ASSUME NEW f
      PROVE  Part(f) \subseteq Name
  BY DEF Part
<1>7. \A f \in Rules : Holds(f, gen)
  BY <1>2, <1>4, <1>5, <1>6 DEF Holds, Tried
<1>8. RulesInKernel = IF Whole(gen) = {} THEN {} ELSE {gen}
  <2>1. \A p \in Prefix, n \in Name : named[p][n] \in {0, gen}
    BY <1>4 DEF Prefix
  <2>2. \A p \in Prefix, n \in Name : named[p][n] = gen => Whole(gen) # {}
    BY <1>3, <1>4 DEF Prefix
  <2>3. ASSUME Whole(gen) # {}
        PROVE  \E n \in Name : named["real"][n] = gen
    <3>1. PICK n : n \in Whole(gen)
      BY <2>3
    <3>2. n \in Names("real")
      BY <1>2, <3>1
    <3> QED
      BY <1>4, <3>1, <3>2 DEF Names
  <2> QED
    BY <1>3, <2>1, <2>2, <2>3 DEF RulesInKernel, Prefix
<1> QED
  BY <1>2, <1>3, <1>7, <1>8

\* The files are written by the redirects and by nothing else.
LEMMA OnlyFinishSaves ==
  ASSUME Next
  PROVE  \/ Finish
         \/ /\ saved' = saved
            /\ pc \in {"save_v4", "save_v6", "save_ipset"} => pc' \in {pc, "idle"}
            /\ pc' \in {"save_v4", "save_v6", "save_ipset"} => pc' = pc
<1> USE DEF Enter, Exit, LoopDone, kernel, files, process, history
<1>1. CASE Start \/ Cleanup
  BY <1>1
  DEF Start, StartCommit, StartCleanup, Cleanup, FlushChain, RemoveChain, CleanupLoopEnds,
      DestroySets, AfterCleanup
<1>2. CASE Build
  BY <1>2
  DEF Build, StartBuild, RestoreTable, NewChain, FillChain, StartPrepare, PrepareDelegate,
      BuildFails, BuildPhase
<1>3. CASE Apply \/ AnswerYes \/ AnswerNo
  BY <1>3
  DEF Apply, StartApply, ModifyBuiltin, StartUnhook, StartAsking, PromptTimesOut, AnswerYes,
      AnswerNo, Rollback, StartRollbackUnhook, RollbackAborts, StartCommit
<1>4. CASE Commit
  BY <1>4
  DEF Commit, DispatchStep, InvalidStep, WriteStep, RenameChain, RenameEnds, RemoveCommitFile,
      TruncateVersion, WriteVersion
<1>5. CASE Interrupt \/ ForceDeleteCommitFile \/ ForeignRule
  BY <1>5 DEF Interrupt, ForceDeleteCommitFile, ForeignRule
<1> QED
  BY <1>1, <1>2, <1>3, <1>4, <1>5 DEF Next, Progress

\* What a file holds does not change with the reloads after it.
LEMMA SavedKept ==
  ASSUME ConfirmInv, DiskInv, Next
  PROVE  /\ \A f \in Rules : saved'[f] = saved[f] /\ disk'[f] = disk[f] => RulesSaved(f)'
         /\ saved'["ipset"] = saved["ipset"] /\ disk'["ipset"] = disk["ipset"] => SetsSaved'
<1>t. ProcessOK /\ HistoryOK /\ ConfirmedBefore
  BY DEF ConfirmInv, TypeInv, TypeOK, NamesInv
<1>k. /\ gen <= gen' /\ confirmed \subseteq confirmed'
      /\ \A g \in Gen : g <= gen => content'[g] = content[g] /\ setver'[g] = setver[g]
  BY <1>t, HistoryKept, ConfirmedGrows
<1>1. ASSUME NEW f \in Rules, saved'[f] = saved[f], disk'[f] = disk[f]
      PROVE  RulesSaved(f)'
  <2>1. RulesSaved(f)
    BY DEF DiskInv
  <2>2. CASE saved[f] = {} /\ disk[f] = NoRules(f)
    BY <1>1, <2>2 DEF RulesSaved, NoRules, Part
  <2>3. CASE \E g \in confirmed : saved[f] = {g} /\ disk[f] = Image(f, g)
    <3>1. PICK g \in confirmed : saved[f] = {g} /\ disk[f] = Image(f, g)
      BY <2>3
    <3>2. content'[g] = content[g]
      BY <1>t, <1>k DEF HistoryOK, ConfirmedBefore
    <3>3. Whole(g)' = Whole(g) /\ HooksOf(g)' = HooksOf(g)
      BY <3>2 DEF Whole, HooksOf
    <3>4. Image(f, g)' = Image(f, g)
      BY <3>3 DEF Image, Part
    <3> QED
      BY <1>1, <1>k, <3>1, <3>4 DEF RulesSaved
  <2> QED
    BY <2>1, <2>2, <2>3 DEF RulesSaved
<1>2. ASSUME saved'["ipset"] = saved["ipset"], disk'["ipset"] = disk["ipset"]
      PROVE  SetsSaved'
  <2>1. gen \in Int /\ gen' \in Int /\ \A s \in disk["ipset"] : s[2] \in Gen /\ s[2] \in Int
    BY <1>k, <1>t, TypeNext, ConstantsAssumption
    DEF DiskInv, SetsSaved, ProcessOK, Gen, ConfirmInv, TypeInv, TypeOK
  <2> QED
    BY <1>2, <1>k, <2>1 DEF DiskInv, SetsSaved
<1> QED
  BY <1>1, <1>2

\* A save writes the ruleset that was applied, and nothing spoils what it wrote.
LEMMA DiskNext ==
  ASSUME ConfirmInv, AnyState, RunInv, DiskInv, Next, disk' = [f \in SavedFile |-> Written(f)]
  PROVE  DiskInv'
<1>t. KernelOK /\ FilesOK /\ ProcessOK /\ HistoryOK
  BY DEF ConfirmInv, TypeInv, TypeOK
<1>k. /\ \A f \in Rules : saved'[f] = saved[f] /\ disk'[f] = disk[f] => RulesSaved(f)'
      /\ saved'["ipset"] = saved["ipset"] /\ disk'["ipset"] = disk["ipset"] => SetsSaved'
  BY SavedKept
<1>d. /\ disk'["v4"] = Written("v4") /\ disk'["v6"] = Written("v6")
      /\ disk'["ipset"] = Written("ipset")
  BY DEF SavedFile
<1>p. SavePhaseOf["v4"] = "save_v4" /\ SavePhaseOf["v6"] = "save_v6"
      /\ SavePhaseOf["ipset"] = "save_ipset"
  BY DEF SavePhaseOf
<1>s. "v4" \in Rules /\ "v6" \in Rules /\ \A f \in Rules : f = "v4" \/ f = "v6"
  BY DEF Rules
<1>e. ASSUME NEW f \in Rules, saved'[f] = {}, disk'[f] = NoRules(f)
      PROVE  RulesSaved(f)'
  BY <1>e DEF RulesSaved, NoRules, Part
<1>w. ASSUME NEW f \in Rules, saved'[f] = RulesInKernel, disk'[f] = RulesOf(f),
             pc \in SavePhase, UNCHANGED <<content, confirmed>>
      PROVE  RulesSaved(f)'
  <2>1. /\ gen \in confirmed /\ gen \in Gen
        /\ RulesInKernel = IF Whole(gen) = {} THEN {} ELSE {gen}
        /\ RulesOf(f) = Image(f, gen)
    BY <1>t, <1>w, KernelHolds, SaveIsImage
  <2>2. CASE Whole(gen) = {}
    <3>1. Image(f, gen) = NoRules(f)
      BY <2>2, EmptyImage
    <3> QED
      BY <1>w, <1>e, <2>1, <2>2, <3>1
  <2>3. CASE Whole(gen) # {}
    <3>0. PICK g \in Gen : g = gen
      BY <2>1
    <3>1. g \in confirmed' /\ saved'[f] = {g} /\ disk'[f] = Image(f, g)
      BY <1>w, <2>1, <2>3, <3>0
    <3>2. Whole(g)' = Whole(g) /\ HooksOf(g)' = HooksOf(g)
      BY <1>w DEF Whole, HooksOf
    <3>3. Image(f, g)' = Image(f, g)
      BY <3>2 DEF Image, Part
    <3> QED
      BY <3>1, <3>3 DEF RulesSaved
  <2> QED
    BY <2>2, <2>3
<1> USE DEF Enter, Exit, kernel, files, process, history
<1>1. CASE ~Finish
  <2>1. saved' = saved /\ \A f \in SavedFile : disk'[f] = disk[f]
    BY <1>1, <1>d, <1>p, OnlyFinishSaves DEF Written, SavedFile
  <2> QED
    BY <1>k, <2>1, RulesFiles DEF DiskInv
<1>2. CASE FailFileStops \/ RunPostScripts
  <2>1. saved' = saved /\ pc \in {"check_fail", "post"} /\ pc' = "idle"
    BY <1>2 DEF FailFileStops, RunPostScripts
  <2>2. \A f \in SavedFile : disk'[f] = disk[f]
    BY <1>d, <1>p, <2>1 DEF Written, SavedFile
  <2> QED
    BY <1>k, <2>1, <2>2, RulesFiles DEF DiskInv
<1>3. CASE Redirect("check_fail", "save_v4", [saved EXCEPT !["v4"] = {}])
  <2>1. pc = "check_fail" /\ pc' = "save_v4" /\ saved' = [saved EXCEPT !["v4"] = {}]
    BY <1>3 DEF Redirect
  <2>2. saved'["v4"] = {} /\ saved'["v6"] = saved["v6"] /\ saved'["ipset"] = saved["ipset"]
    BY <1>t, <2>1 DEF FilesOK, SavedFile
  <2>3. disk'["v4"] = NoRules("v4") /\ disk'["v6"] = disk["v6"] /\ disk'["ipset"] = disk["ipset"]
    BY <1>d, <1>p, <2>1 DEF Written, EmptySave
  <2> QED
    BY <1>k, <1>e, <1>s, <2>2, <2>3 DEF DiskInv
<1>4. CASE Redirect("save_v4", "save_v6", [saved EXCEPT !["v4"] = RulesInKernel, !["v6"] = {}])
  <2>1. /\ pc = "save_v4" /\ pc' = "save_v6" /\ UNCHANGED <<content, confirmed>>
        /\ saved' = [saved EXCEPT !["v4"] = RulesInKernel, !["v6"] = {}]
    BY <1>4 DEF Redirect
  <2>2. /\ saved'["v4"] = RulesInKernel /\ saved'["v6"] = {}
        /\ saved'["ipset"] = saved["ipset"]
    BY <1>t, <2>1 DEF FilesOK, SavedFile
  <2>3. /\ disk'["v4"] = RulesOf("v4") /\ disk'["v6"] = NoRules("v6")
        /\ disk'["ipset"] = disk["ipset"]
    BY <1>d, <1>p, <2>1 DEF Written, EmptySave, SaveOf
  <2> QED
    BY <1>k, <1>e, <1>w, <1>s, <2>1, <2>2, <2>3 DEF DiskInv, SavePhase
<1>5. CASE Redirect("save_v6", "save_ipset", [saved EXCEPT !["v6"] = RulesInKernel, !["ipset"] = {}])
  <2>1. /\ pc = "save_v6" /\ pc' = "save_ipset" /\ UNCHANGED <<content, confirmed>>
        /\ saved' = [saved EXCEPT !["v6"] = RulesInKernel, !["ipset"] = {}]
    BY <1>5 DEF Redirect
  <2>2. /\ saved'["v4"] = saved["v4"] /\ saved'["v6"] = RulesInKernel
        /\ saved'["ipset"] = {}
    BY <1>t, <2>1 DEF FilesOK, SavedFile
  <2>3. /\ disk'["v4"] = disk["v4"] /\ disk'["v6"] = RulesOf("v6") /\ disk'["ipset"] = {}
    BY <1>d, <1>p, <2>1 DEF Written, EmptySave, SaveOf
  <2>4. SetsSaved'
    BY <2>2, <2>3 DEF SetsSaved
  <2> QED
    BY <1>k, <1>w, <1>s, <2>1, <2>2, <2>3, <2>4 DEF DiskInv, SavePhase
<1>6. CASE Redirect("save_ipset", "post", [saved EXCEPT !["ipset"] = SetsInKernel])
  <2>1. /\ pc = "save_ipset" /\ pc' = "post" /\ UNCHANGED <<gen, content, setver>>
        /\ saved' = [saved EXCEPT !["ipset"] = SetsInKernel]
    BY <1>6 DEF Redirect
  <2>2. /\ saved'["v4"] = saved["v4"] /\ saved'["v6"] = saved["v6"]
        /\ saved'["ipset"] = SetsInKernel
    BY <1>t, <2>1 DEF FilesOK, SavedFile
  <2>3. /\ disk'["v4"] = disk["v4"] /\ disk'["v6"] = disk["v6"] /\ disk'["ipset"] = sets
    BY <1>d, <1>p, <2>1 DEF Written, SaveOf
  <2>4. sets \subseteq Nat \X Gen /\ SetsBounded /\ SetsOwn
    BY <1>t DEF KernelOK, ConfirmInv, TypeInv, Loops, AnyState
  <2>5. SetsSaved'
    BY <2>1, <2>2, <2>3, <2>4 DEF SetsSaved, SetsInKernel, SetsBounded, SetsOwn
  <2> QED
    BY <1>k, <1>s, <2>2, <2>3, <2>5 DEF DiskInv
<1> QED
  BY <1>1, <1>2, <1>3, <1>4, <1>5, <1>6 DEF Finish
-----------------------------------------------------------------------------
(* The boot, line by line.                                                  *)

BootIdle == bootLine \in 0..4 /\ (bootLine # 0 => pc = "idle")
NotYet ==
  /\ bootLine \in {1, 2} => Bare("v4")
  /\ bootLine \in {1, 2, 3} => Bare("v6")
Back ==
  \A g \in Gen : SavedWhole(g) =>
    /\ bootLine \in {2, 3, 4} => sets = disk["ipset"]
    /\ bootLine \in {3, 4} => Holds("v4", g)
    /\ bootLine = 4 => Holds("v6", g)
BootPart == BootIdle /\ NotYet /\ Back

BootInv == ConfirmInv /\ AnyState /\ RunInv /\ DiskInv /\ BootPart

\* After the boot of one finished save, with no commit pending.
RestoredLive == bootLine = 0 /\ restored # 0 => LiveInv /\ confirmed # {}

LEMMA BootInitInv == BootInit => BootInv /\ RestoredLive
<1> SUFFICES ASSUME BootInit PROVE BootInv /\ RestoredLive
  OBVIOUS
<1>i. Init /\ disk = [f \in SavedFile |-> EmptySave(f)] /\ bootLine = 0 /\ restored = 0
  BY DEF BootInit
<1>0. pc = "idle" /\ site = "start" /\ gen = 0 /\ sets = {} /\ full = {} /\ commitFile = NoFile
  BY <1>i DEF Init
<1>1. ConfirmInv
  BY <1>i, ConfirmInit
<1>2. AnyState
  <2>1. \A g \in Gen : ~ (g <= 0)
    BY DEF Gen
  <2>2. JumpNamed
    BY <1>i, EmptySeq DEF Init, JumpNamed
  <2> QED
    BY <1>0, <1>i, <2>1, <2>2
    DEF Init, AnyState, Alone, Declared, FullNamed, TmpFlushed, DelFlushed, DelUnhooked, DelEmpty,
        SiteInv, SetsOwn, BuildPhase, ApplyPhase, SavePhase
<1>3. RunInv
  BY <1>0
  DEF RunInv, RunBuild, ChainsBuilt, DelegatesBuilt, RunNames, Trying, Moving, Moved, RunJumps,
      HookedSoFar, UnhookedSoFar, RunFull, ApplyPhase
<1>4. DiskInv
  <2>1. /\ \A f \in SavedFile : saved[f] = {}
        /\ \A f \in Rules : disk[f] = NoRules(f)
        /\ disk["ipset"] = {}
    BY <1>i DEF Init, EmptySave, SavedFile, Rules
  <2>2. saved["ipset"] = {} /\ \A f \in Rules : saved[f] = {}
    BY <2>1, RulesFiles
  <2> QED
    BY <2>1, <2>2 DEF DiskInv, RulesSaved, SetsSaved
<1>5. BootPart
  BY <1>i DEF BootPart, BootIdle, NotYet, Back
<1> QED
  BY <1>i, <1>1, <1>2, <1>3, <1>4, <1>5 DEF BootInv, RestoredLive

\* What holds of any host without a reload.
LEMMA NoReload ==
  ASSUME pc' = "idle", site' # "apply"
  PROVE  /\ RunInv' /\ LoopInv' /\ GenStarted' /\ HookLoops'
         /\ TmpFlushed' /\ DelFlushed' /\ DelUnhooked' /\ DelEmpty' /\ SiteInv'
<1>1. RunInv'
  BY
  DEF RunInv, RunBuild, ChainsBuilt, DelegatesBuilt, RunNames, Trying, Moving, Moved, RunJumps,
      HookedSoFar, UnhookedSoFar, RunFull, ApplyPhase
<1>2. LoopInv' /\ GenStarted' /\ HookLoops'
  BY DEF LoopInv, Flushing, Removing, TmpGone, GenStarted, HookLoops, ApplyPhase
<1>3. TmpFlushed' /\ DelFlushed' /\ DelUnhooked' /\ DelEmpty' /\ SiteInv'
  BY
  DEF TmpFlushed, DelFlushed, DelUnhooked, DelEmpty, SiteInv, BuildPhase, ApplyPhase, SavePhase
<1> QED
  BY <1>1, <1>2, <1>3

\* Files, builds and answers are as they were.
LEMMA DiskSame ==
  ASSUME DiskInv, UNCHANGED <<saved, gen, history, disk>>
  PROVE  DiskInv'
<1>0. UNCHANGED <<content, setver, confirmed>>
  BY DEF history
<1>1. ASSUME NEW g
      PROVE  Whole(g)' = Whole(g) /\ HooksOf(g)' = HooksOf(g)
  BY <1>0 DEF Whole, HooksOf
<1>2. ASSUME NEW f, NEW g
      PROVE  Image(f, g)' = Image(f, g)
  <2>1. Whole(g)' = Whole(g) /\ HooksOf(g)' = HooksOf(g)
    BY <1>1
  <2> QED
    BY <2>1 DEF Image, Part
<1>3. \A f \in Rules : RulesSaved(f)'
  BY <1>0, <1>2 DEF DiskInv, RulesSaved, NoRules, Part
<1>4. SetsSaved'
  BY <1>0 DEF DiskInv, SetsSaved
<1> QED
  BY <1>3, <1>4 DEF DiskInv

\* So is the kernel.
LEMMA HoldsStill ==
  ASSUME UNCHANGED <<named, full, jump, content>>
  PROVE  /\ \A f : Bare(f)' <=> Bare(f)
         /\ \A f, g : Holds(f, g)' <=> Holds(f, g)
<1>1. ASSUME NEW g
      PROVE  Whole(g)' = Whole(g) /\ HooksOf(g)' = HooksOf(g)
  BY DEF Whole, HooksOf
<1> QED
  BY <1>1 DEF Bare, Holds, Part

LEMMA StayDown ==
  ASSUME BootInv, UNCHANGED <<vars, disk>>
  PROVE  ConfirmInv' /\ AnyState' /\ RunInv' /\ DiskInv'
BY ConfirmNext, AnyNext, RunNext, DiskSame DEF BootInv, vars, files, process

LEMMA BootStill ==
  ASSUME BootInv, UNCHANGED bvars
  PROVE  BootInv'
<1>0. UNCHANGED <<vars, disk, bootLine, saved, named, full, jump, sets, content, pc>>
  BY DEF bvars, vars, kernel, files, process, history
<1>1. ConfirmInv' /\ AnyState' /\ RunInv' /\ DiskInv'
  BY <1>0, StayDown
<1>2. BootPart'
  BY <1>0, HoldsStill DEF BootInv, BootPart, BootIdle, NotYet, Back, SavedWhole
<1> QED
  BY <1>1, <1>2 DEF BootInv

LEMMA BootReload ==
  ASSUME BootInv, ReloadStep
  PROVE  BootInv'
<1>0. Next /\ bootLine' = 0 /\ disk' = [f \in SavedFile |-> Written(f)]
  BY DEF ReloadStep
<1>1. ConfirmInv' /\ AnyState' /\ RunInv'
  BY <1>0, ConfirmNext, AnyNext, RunNext DEF BootInv
<1>2. DiskInv'
  BY <1>0, DiskNext DEF BootInv
<1>3. BootPart'
  BY <1>0 DEF BootPart, BootIdle, NotYet, Back
<1> QED
  BY <1>1, <1>2, <1>3 DEF BootInv

\* A kernel that has just started is bare.
LEMMA BootGoDown ==
  ASSUME BootInv, GoDown
  PROVE  BootInv'
<1>t. /\ FilesOK /\ ProcessOK /\ HistoryOK /\ ConfirmedBefore /\ CommitOfConfirmed
      /\ Declared /\ SetsOwn /\ DiskInv
  BY DEF BootInv, ConfirmInv, TypeInv, TypeOK, NamesInv, PhaseInv, AnyState
<1>1. /\ named' = [p \in Prefix |-> [n \in Name |-> 0]] /\ jump' = [h \in Hook |-> <<>>]
      /\ full' = {} /\ held' = {} /\ sets' = {} /\ heldSets' = {}
      /\ version' = NoVersion /\ commitFile' \in {commitFile, NoFile}
      /\ pc' = "idle" /\ todo' = {} /\ site' = "start" /\ cur' = 0 /\ fail' = FALSE
      /\ bootLine' = 1
      /\ UNCHANGED <<saved, gen, history, disk, content, setver, confirmed, flawed>>
  BY DEF GoDown, Exit, Enter, history
<1>n. /\ RunInv' /\ LoopInv' /\ GenStarted' /\ HookLoops'
      /\ TmpFlushed' /\ DelFlushed' /\ DelUnhooked' /\ DelEmpty' /\ SiteInv'
  BY <1>1, NoReload
<1>j. \A h \in Hook : jump'[h] = <<>> /\ Len(jump'[h]) = 0 /\ jump'[h] \in Seq(Gen)
  BY <1>1, EmptySeq
<1>2. ConfirmInv'
  <2>1. KernelOK'
    BY <1>1, <1>j DEF KernelOK, Naming
  <2>2. FilesOK' /\ ProcessOK' /\ HistoryOK'
    BY <1>t, <1>1 DEF FilesOK, ProcessOK, HistoryOK, Phase
  <2>3. SetsBounded'
    BY <1>1 DEF SetsBounded
  <2>4. JumpOnce'
    BY <1>j DEF JumpOnce, OnceIn
  <2>5. NamesInv'
    BY <1>t, <1>1
    DEF NamesInv, TmpIsCurrent, RealConfirmed, HeldConfirmed, TmpApart, ConfirmedBefore, Names,
        Prefix
  <2>6. PhaseInv'
    BY <1>t, <1>1
    DEF PhaseInv, CommitOfConfirmed, Unconfirmed, CommitFileOwner, ApplyPhase, CommitPhase
  <2> QED
    BY <1>n, <2>1, <2>2, <2>3, <2>4, <2>5, <2>6 DEF ConfirmInv, TypeInv, TypeOK, Loops
<1>3. AnyState'
  BY <1>n, <1>t, <1>1, <1>j DEF AnyState, Alone, Declared, JumpNamed, FullNamed, SetsOwn
<1>4. DiskInv'
  BY <1>t, <1>1, DiskSame
<1>5. BootPart'
  <2>1. Bare("v4")' /\ Bare("v6")'
    BY <1>1, <1>j DEF Bare, Part
  <2> QED
    BY <1>1, <2>1 DEF BootPart, BootIdle, NotYet, Back
<1> QED
  BY <1>n, <1>2, <1>3, <1>4, <1>5 DEF BootInv

\* Without a set to restore there is no finished save.
LEMMA BootSkip ==
  ASSUME BootInv, SkipUnit
  PROVE  BootInv'
<1>1. /\ UNCHANGED <<vars, disk, saved, pc>> /\ bootLine = 1 /\ bootLine' = 4
      /\ disk["ipset"] = {}
  BY DEF SkipUnit, StartScript, vars, files, process
<1>2. ConfirmInv' /\ AnyState' /\ RunInv' /\ DiskInv'
  BY <1>1, StayDown
<1>3. saved["ipset"] = {}
  BY <1>1 DEF BootInv, DiskInv, SetsSaved
<1>4. \A g : ~SavedWhole(g)'
  BY <1>1, <1>3 DEF SavedWhole, SavedFile
<1>5. BootPart'
  BY <1>1, <1>4 DEF BootInv, BootPart, BootIdle, NotYet, Back
<1> QED
  BY <1>2, <1>5 DEF BootInv

\* What a finished save puts in every file.
LEMMA WholeSave ==
  ASSUME DiskInv, NEW g, SavedWhole(g)
  PROVE  /\ g \in confirmed
         /\ \A f \in Rules : disk[f] = Image(f, g)
         /\ \E s \in disk["ipset"] : s[2] = g /\ s[1] = setver[g]
<1>1. \A f \in Rules : saved[f] = {g}
  BY RulesFiles DEF SavedWhole
<1>2. ASSUME NEW f \in Rules
      PROVE  g \in confirmed /\ disk[f] = Image(f, g)
  <2>1. saved[f] = {g} /\ RulesSaved(f)
    BY <1>1 DEF DiskInv
  <2>2. PICK e \in confirmed : saved[f] = {e} /\ disk[f] = Image(f, e)
    BY <2>1 DEF RulesSaved
  <2>3. e = g
    BY <2>1, <2>2
  <2> QED
    BY <2>2, <2>3
<1>3. saved["ipset"] = {g}
  BY DEF SavedWhole, SavedFile
<1>4. \E s \in disk["ipset"] : s[2] = g
  BY <1>3 DEF DiskInv, SetsSaved
<1> QED
  BY <1>2, <1>4 DEF DiskInv, SetsSaved, Rules

\* Sets first, rules second: a finished save is not refused.
LEMMA NotRefused ==
  ASSUME DiskInv, NEW g, SavedWhole(g), NEW f \in Rules, sets = disk["ipset"]
  PROVE  ~RulesRefused(disk[f])
<1>1. disk[f] = Image(f, g) /\ \E s \in sets : s[1] = setver[g]
  BY WholeSave
<1>2. disk[f].full = {g} \X (Whole(g) \cap Part(f))
  BY <1>1 DEF Image
<1>3. \A o \in disk[f].full : o[1] = g
  BY <1>2
<1> QED
  BY <1>1, <1>3 DEF RulesRefused

\* Restoring a file of rules changes its own chains only.
Restored(f) ==
  /\ named' = [p \in Prefix |-> [n \in Name |->
       IF n \in Part(f) THEN disk[f].names[p][n] ELSE named[p][n]]]
  /\ full' = full \cup disk[f].full
  /\ jump' = [h \in Hook |-> IF h \in Part(f) THEN disk[f].jump[h] ELSE jump[h]]

\* An emptied file restores nothing.
LEMMA RestoreNothing ==
  ASSUME KernelOK, NEW f, Bare(f), disk[f] = NoRules(f), Restored(f)
  PROVE  UNCHANGED <<named, full, jump>>
<1>1. \A p \in Prefix, n \in Part(f) : disk[f].names[p][n] = named[p][n]
  BY DEF NoRules, Bare
<1>2. named' = [p \in Prefix |-> [n \in Name |-> named[p][n]]]
  BY <1>1 DEF Restored
<1>3. \A h \in Hook \cap Part(f) : disk[f].jump[h] = jump[h]
  BY DEF NoRules, Bare
<1>4. jump' = [h \in Hook |-> jump[h]]
  BY <1>3 DEF Restored
<1>5. full' = full
  BY DEF Restored, NoRules
<1>6. named \in [Prefix -> [Name -> Gen \cup {0}]] /\ jump \in [Hook -> Seq(Gen)]
  BY DEF KernelOK, Naming
<1>7. named' = named
  <2>1. \A p \in Prefix : [n \in Name |-> named[p][n]] = named[p]
    BY <1>6
  <2> QED
    BY <1>2, <1>6, <2>1
<1>8. jump' = jump
  BY <1>4, <1>6
<1> QED
  BY <1>5, <1>7, <1>8

\* Any other file restores the ruleset it was saved from.
LEMMA RestoreRules ==
  ASSUME KernelOK, HistoryOK, NEW f, NEW g \in Gen, Bare(f), disk[f] = Image(f, g), Restored(f),
         UNCHANGED <<held, sets, heldSets, content>>
  PROVE  /\ \A p \in Prefix, n \in Name :
              named'[p][n] = IF n \notin Part(f) THEN named[p][n]
                             ELSE IF p = "real" /\ n \in Whole(g) THEN g ELSE 0
         /\ full' = full \cup ({g} \X (Whole(g) \cap Part(f)))
         /\ \A h \in Hook :
              jump'[h] = IF h \notin Part(f) THEN jump[h]
                         ELSE IF h \in HooksOf(g) THEN <<g>> ELSE <<>>
         /\ KernelOK' /\ Holds(f, g)'
<1>0. Part(f) \subseteq Name /\ Whole(g) \subseteq Name
  BY WholeNames DEF Part, Name, Whole
<1>1. \A p \in Prefix, n \in Part(f) :
        disk[f].names[p][n] = IF p = "real" /\ n \in Whole(g) THEN g ELSE 0
  BY DEF Image
<1>2. \A p \in Prefix, n \in Name :
        named'[p][n] = IF n \notin Part(f) THEN named[p][n]
                       ELSE IF p = "real" /\ n \in Whole(g) THEN g ELSE 0
  BY <1>1 DEF Restored
<1>3. full' = full \cup ({g} \X (Whole(g) \cap Part(f)))
  BY DEF Restored, Image
<1>4. \A h \in Hook \cap Part(f) : disk[f].jump[h] = IF h \in HooksOf(g) THEN <<g>> ELSE <<>>
  BY DEF Image
<1>5. \A h \in Hook :
        jump'[h] = IF h \notin Part(f) THEN jump[h]
                   ELSE IF h \in HooksOf(g) THEN <<g>> ELSE <<>>
  BY <1>4 DEF Restored
<1>6. named' \in Naming
  <2>1. \A p \in Prefix, n \in Name : named'[p][n] \in Gen \cup {0}
    BY <1>2 DEF KernelOK, Naming
  <2> QED
    BY <2>1 DEF Restored, Naming
<1>7. full' \subseteq Gen \X Name
  BY <1>0, <1>3 DEF KernelOK
<1>8. jump' \in [Hook -> Seq(Gen)]
  <2>1. <<g>> \in Seq(Gen) /\ <<>> \in Seq(Gen)
    BY EmptySeq
  <2>2. \A h \in Hook : jump'[h] \in Seq(Gen)
    BY <1>5, <2>1 DEF KernelOK
  <2> QED
    BY <2>2 DEF Restored
<1>9. KernelOK'
  BY <1>6, <1>7, <1>8 DEF KernelOK
<1>10. Holds(f, g)'
  <2>1. Whole(g)' = Whole(g) /\ HooksOf(g)' = HooksOf(g) /\ Part(f)' = Part(f)
    BY DEF Whole, HooksOf, Part
  <2>2. \A n \in Part(f) :
          /\ named'["real"][n] = IF n \in Whole(g) THEN g ELSE 0
          /\ named'["tmp"][n] = 0 /\ named'["del"][n] = 0
    BY <1>0, <1>2 DEF Prefix
  <2>3. \A e \in Gen, n \in Part(f) : <<e, n>> \in full' <=> e = g /\ n \in Whole(g)
    BY <1>3 DEF Bare
  <2>4. \A h \in Hook \cap Part(f) : jump'[h] = IF h \in HooksOf(g) THEN <<g>> ELSE <<>>
    BY <1>5
  <2> QED
    BY <2>1, <2>2, <2>3, <2>4 DEF Holds
<1> QED
  BY <1>2, <1>3, <1>5, <1>9, <1>10

\* The chains of the other file are other chains.
LEMMA OtherFile ==
  ASSUME KernelOK, HistoryOK, NEW f \in Rules, NEW g \in Gen, Bare(f), disk[f] = Image(f, g),
         Restored(f), UNCHANGED <<held, sets, heldSets, content>>, NEW e \in Rules, e # f
  PROVE  (Bare(e)' <=> Bare(e)) /\ \A x : Holds(e, x)' <=> Holds(e, x)
<1>1. \A n \in Part(e) : n \in Name /\ n \notin Part(f)
  BY DEF Part, Rules
<1>2. /\ \A p \in Prefix, n \in Part(e) : named'[p][n] = named[p][n]
      /\ \A h \in Hook \cap Part(e) : jump'[h] = jump[h]
      /\ full' = full \cup ({g} \X (Whole(g) \cap Part(f)))
  BY <1>1, RestoreRules
<1>3. \A y \in Gen, n \in Part(e) : <<y, n>> \in full' <=> <<y, n>> \in full
  BY <1>1, <1>2
<1>4. Part(e)' = Part(e)
  BY DEF Part
<1>5. Bare(e)' <=> Bare(e)
  BY <1>2, <1>3, <1>4 DEF Bare
<1>6. ASSUME NEW x
      PROVE  Holds(e, x)' <=> Holds(e, x)
  <2>1. Whole(x)' = Whole(x) /\ HooksOf(x)' = HooksOf(x)
    BY DEF Whole, HooksOf
  <2>2. \A n \in Part(e) : /\ named'["real"][n] = named["real"][n]
                           /\ named'["tmp"][n] = named["tmp"][n]
                           /\ named'["del"][n] = named["del"][n]
    BY <1>2 DEF Prefix
  <2> QED
    BY <1>2, <1>3, <1>4, <2>1, <2>2 DEF Holds
<1> QED
  BY <1>5, <1>6

\* One ruleset more in the kernel, next to those of the other file.
LEMMA RestoreInv ==
  ASSUME BootInv, pc = "idle", NEW f, NEW g \in confirmed, Bare(f), disk[f] = Image(f, g),
         Restored(f), UNCHANGED <<held, sets, heldSets, files, process, history>>
  PROVE  ConfirmInv' /\ AnyState'
<1>t. /\ KernelOK /\ FilesOK /\ ProcessOK /\ HistoryOK /\ SetsBounded /\ JumpOnce
      /\ TmpIsCurrent /\ RealConfirmed /\ HeldConfirmed /\ TmpApart /\ ConfirmedBefore
      /\ PhaseInv /\ Alone /\ Declared /\ JumpNamed /\ FullNamed /\ SiteInv /\ SetsOwn
  BY DEF BootInv, ConfirmInv, TypeInv, TypeOK, Loops, NamesInv, AnyState
<1>u. UNCHANGED <<commitFile, version, saved, pc, todo, site, cur, gen, fail, content, setver,
                  confirmed, flawed>>
  BY DEF files, process, history
<1>g. g \in Gen /\ g # 0
  BY <1>t DEF HistoryOK, Gen
<1>r. /\ \A p \in Prefix, n \in Name :
           named'[p][n] = IF n \notin Part(f) THEN named[p][n]
                          ELSE IF p = "real" /\ n \in Whole(g) THEN g ELSE 0
      /\ full' = full \cup ({g} \X (Whole(g) \cap Part(f)))
      /\ \A h \in Hook :
           jump'[h] = IF h \notin Part(f) THEN jump[h]
                      ELSE IF h \in HooksOf(g) THEN <<g>> ELSE <<>>
      /\ KernelOK'
  BY <1>t, <1>u, <1>g, RestoreRules
<1>n. /\ RunInv' /\ LoopInv' /\ GenStarted' /\ HookLoops'
      /\ TmpFlushed' /\ DelFlushed' /\ DelUnhooked' /\ DelEmpty' /\ SiteInv'
  <2>1. pc' = "idle" /\ site' # "apply"
    BY <1>t, <1>u DEF SiteInv, CommitPhase, CleanupPhase, SavePhase
  <2> QED
    BY <2>1, NoReload
<1>s. \A n \in Name :
        /\ named'["real"][n] = IF n \notin Part(f) THEN named["real"][n]
                               ELSE IF n \in Whole(g) THEN g ELSE 0
        /\ named'["tmp"][n] = IF n \notin Part(f) THEN named["tmp"][n] ELSE 0
  BY <1>r DEF Prefix
<1>1. FilesOK' /\ ProcessOK' /\ HistoryOK' /\ SetsBounded'
  BY <1>t, <1>u DEF FilesOK, ProcessOK, HistoryOK, SetsBounded
<1>2. JumpOnce'
  <2>1. ASSUME NEW h \in Hook, NEW i \in 1..Len(jump'[h]), NEW j \in 1..Len(jump'[h]),
               jump'[h][i] = jump'[h][j]
        PROVE  i = j
    <3>1. CASE h \notin Part(f)
      BY <1>r, <1>t, <2>1, <3>1 DEF JumpOnce, OnceIn
    <3>2. CASE h \in Part(f)
      <4>1. jump'[h] = <<g>> \/ jump'[h] = <<>>
        BY <1>r, <3>2
      <4> QED
        BY <2>1, <4>1
    <3> QED
      BY <3>1, <3>2
  <2> QED
    BY <2>1 DEF JumpOnce, OnceIn
<1>3. NamesInv'
  <2>1. TmpIsCurrent'
    BY <1>s, <1>t, <1>u DEF TmpIsCurrent
  <2>2. RealConfirmed'
    BY <1>s, <1>t, <1>u DEF RealConfirmed, Names
  <2>3. HeldConfirmed' /\ ConfirmedBefore'
    BY <1>t, <1>u DEF HeldConfirmed, ConfirmedBefore
  <2>4. TmpApart'
    BY <1>s, <1>t DEF TmpApart, Names
  <2> QED
    BY <2>1, <2>2, <2>3, <2>4 DEF NamesInv
<1>4. PhaseInv'
  BY <1>t, <1>u DEF PhaseInv, CommitOfConfirmed, Unconfirmed, CommitFileOwner
<1>5. Alone' /\ Declared' /\ SetsOwn'
  BY <1>t, <1>u DEF Alone, Declared, SetsOwn
<1>6. JumpNamed'
  <2> SUFFICES ASSUME NEW h \in Hook, NEW i \in 1..Len(jump'[h])
               PROVE  \E p \in Prefix : named'[p][h] = jump'[h][i]
    BY DEF JumpNamed
  <2>0. h \in Name
    BY DEF Name
  <2>1. CASE h \notin Part(f)
    <3>1. PICK p \in Prefix : named[p][h] = jump[h][i]
      BY <1>r, <1>t, <2>1 DEF JumpNamed
    <3> QED
      BY <1>r, <2>0, <2>1, <3>1
  <2>2. CASE h \in Part(f)
    <3>1. jump'[h] = IF h \in HooksOf(g) THEN <<g>> ELSE <<>>
      BY <1>r, <2>2
    <3>2. h \in HooksOf(g) /\ jump'[h][i] = g
      BY <3>1
    <3> QED
      BY <1>s, <2>0, <2>2, <3>2 DEF Whole, Prefix
  <2> QED
    BY <2>1, <2>2
<1>7. FullNamed'
  <2> SUFFICES ASSUME NEW o \in full'
               PROVE  \E p \in Prefix : named'[p][o[2]] = o[1]
    BY DEF FullNamed
  <2>1. CASE o \in full
    <3>1. o = <<o[1], o[2]>> /\ o[1] \in Gen /\ o[2] \in Name
      BY <1>t, <2>1 DEF KernelOK
    <3>2. o[2] \notin Part(f)
      BY <2>1, <3>1 DEF Bare
    <3>3. PICK p \in Prefix : named[p][o[2]] = o[1]
      BY <1>t, <2>1 DEF FullNamed
    <3> QED
      BY <1>r, <3>1, <3>2, <3>3
  <2>2. CASE o \notin full
    <3>1. o[1] = g /\ o[2] \in Whole(g) /\ o[2] \in Part(f) /\ o[2] \in Name
      BY <1>r, <2>2 DEF Part
    <3> QED
      BY <1>s, <3>1 DEF Prefix
  <2> QED
    BY <2>1, <2>2
<1>8. ConfirmInv'
  BY <1>n, <1>r, <1>1, <1>2, <1>3, <1>4 DEF ConfirmInv, TypeInv, TypeOK, Loops
<1>9. AnyState'
  BY <1>n, <1>5, <1>6, <1>7 DEF AnyState
<1> QED
  BY <1>8, <1>9

\* A line that restores a file of rules.
LEMMA RestoreStep ==
  ASSUME BootInv, pc = "idle", NEW f \in Rules, Bare(f),
         UNCHANGED <<held, sets, heldSets, files, process, history, disk>>,
         \/ RulesRefused(disk[f]) /\ UNCHANGED <<named, full, jump>>
         \/ ~RulesRefused(disk[f]) /\ Restored(f)
  PROVE  /\ ConfirmInv' /\ AnyState' /\ RunInv' /\ DiskInv'
         /\ \A e \in Rules : e # f =>
              (Bare(e)' <=> Bare(e)) /\ \A x : Holds(e, x)' <=> Holds(e, x)
         /\ sets = disk["ipset"] => \A g \in Gen : SavedWhole(g) => Holds(f, g)'
<1>t. KernelOK /\ ProcessOK /\ HistoryOK /\ SiteInv /\ DiskInv /\ RulesSaved(f)
  BY DEF BootInv, ConfirmInv, TypeInv, TypeOK, AnyState, DiskInv
<1>u. UNCHANGED <<content, pc, site, saved>>
  BY DEF files, process, history
<1>1. ASSUME UNCHANGED <<named, full, jump>>
      PROVE  /\ ConfirmInv' /\ AnyState' /\ RunInv' /\ DiskInv'
             /\ \A e \in Rules : e # f =>
                  (Bare(e)' <=> Bare(e)) /\ \A x : Holds(e, x)' <=> Holds(e, x)
  <2>1. UNCHANGED vars
    BY <1>1 DEF vars, kernel
  <2>2. ConfirmInv' /\ AnyState' /\ RunInv' /\ DiskInv'
    BY <2>1, StayDown
  <2> QED
    BY <1>1, <1>u, <2>2, HoldsStill
<1>2. ASSUME sets = disk["ipset"], NEW g \in Gen, SavedWhole(g)
      PROVE  Holds(f, g)'
  <2>1. Restored(f) /\ disk[f] = Image(f, g)
    BY <1>t, <1>2, NotRefused, WholeSave
  <2> QED
    BY <1>t, <1>u, <2>1, RestoreRules
<1>3. CASE RulesRefused(disk[f])
  BY <1>1, <1>2, <1>3
<1>4. CASE Restored(f) /\ disk[f] = NoRules(f)
  <2>1. UNCHANGED <<named, full, jump>>
    BY <1>t, <1>4, RestoreNothing
  <2> QED
    BY <1>1, <1>2, <2>1
<1>5. CASE Restored(f) /\ \E g \in confirmed : disk[f] = Image(f, g)
  <2>1. PICK g \in confirmed : disk[f] = Image(f, g)
    BY <1>5
  <2>2. g \in Gen
    BY <1>t DEF HistoryOK
  <2>3. ConfirmInv' /\ AnyState'
    BY <1>5, <2>1, RestoreInv
  <2>4. RunInv'
    BY <1>t, <1>u, NoReload DEF SiteInv, CommitPhase, CleanupPhase, SavePhase
  <2>5. DiskInv'
    BY <1>t, DiskSame DEF files, process
  <2>6. ASSUME NEW e \in Rules, e # f
        PROVE  (Bare(e)' <=> Bare(e)) /\ \A x : Holds(e, x)' <=> Holds(e, x)
    BY <1>t, <1>u, <1>5, <2>1, <2>2, <2>6, OtherFile
  <2> QED
    BY <1>2, <2>3, <2>4, <2>5, <2>6
<1> QED
  BY <1>t, <1>3, <1>4, <1>5 DEF RulesSaved

\* The line that restores the sets.
LEMMA RestoreSets ==
  ASSUME BootInv, pc = "idle", sets' = disk["ipset"],
         UNCHANGED <<named, full, jump, held, heldSets, files, process, history, disk>>
  PROVE  ConfirmInv' /\ AnyState' /\ RunInv' /\ DiskInv'
<1>t. /\ KernelOK /\ FilesOK /\ ProcessOK /\ HistoryOK /\ DiskInv /\ SetsSaved /\ SiteInv
      /\ JumpOnce /\ NamesInv /\ PhaseInv /\ Alone /\ Declared /\ JumpNamed /\ FullNamed
  BY DEF BootInv, ConfirmInv, TypeInv, TypeOK, AnyState, DiskInv
<1>u. UNCHANGED <<commitFile, version, saved, pc, todo, site, cur, gen, fail, content, setver,
                  confirmed, flawed>>
  BY DEF files, process, history
<1>n. /\ RunInv' /\ LoopInv' /\ GenStarted' /\ HookLoops'
      /\ TmpFlushed' /\ DelFlushed' /\ DelUnhooked' /\ DelEmpty' /\ SiteInv'
  <2>1. pc' = "idle" /\ site' # "apply"
    BY <1>t, <1>u DEF SiteInv, CommitPhase, CleanupPhase, SavePhase
  <2> QED
    BY <2>1, NoReload
<1>1. KernelOK' /\ FilesOK' /\ ProcessOK' /\ HistoryOK' /\ SetsBounded' /\ SetsOwn'
  BY <1>t, <1>u
  DEF KernelOK, FilesOK, ProcessOK, HistoryOK, SetsBounded, SetsOwn, SetsSaved
<1>2. JumpOnce' /\ NamesInv'
  BY <1>t, <1>u
  DEF JumpOnce, OnceIn, NamesInv, TmpIsCurrent, RealConfirmed, HeldConfirmed, TmpApart,
      ConfirmedBefore, Names
<1>3. PhaseInv'
  BY <1>t, <1>u DEF PhaseInv, CommitOfConfirmed, Unconfirmed, CommitFileOwner
<1>4. Alone' /\ Declared' /\ JumpNamed' /\ FullNamed'
  BY <1>t, <1>u DEF Alone, Declared, JumpNamed, FullNamed
<1>5. DiskInv'
  BY <1>t, DiskSame DEF files, process
<1> QED
  BY <1>n, <1>1, <1>2, <1>3, <1>4, <1>5 DEF ConfirmInv, TypeInv, TypeOK, Loops, AnyState

LEMMA BootRestoreFile ==
  ASSUME BootInv, RestoreFile
  PROVE  BootInv'
<1>0. /\ bootLine \in {1, 2, 3} /\ bootLine' = bootLine + 1
      /\ UNCHANGED <<held, heldSets, files, process, history, disk>>
  BY DEF RestoreFile, Booting, StartScript
<1>b. /\ pc = "idle" /\ pc' = "idle" /\ NotYet /\ Back /\ KernelOK
      /\ UNCHANGED <<content, saved>>
  BY <1>0 DEF BootInv, BootPart, BootIdle, process, files, history, ConfirmInv, TypeInv, TypeOK
<1>w. \A g : SavedWhole(g)' <=> SavedWhole(g)
  BY <1>b DEF SavedWhole
<1>1. CASE bootLine = 1
  <2>1. sets' = disk["ipset"] /\ UNCHANGED <<named, full, jump>>
    BY <1>1 DEF RestoreFile, StartScript
  <2>2. ConfirmInv' /\ AnyState' /\ RunInv' /\ DiskInv'
    BY <1>0, <1>b, <2>1, RestoreSets
  <2>3. BootPart'
    BY <1>0, <1>1, <1>b, <2>1, HoldsStill DEF BootPart, BootIdle, NotYet, Back
  <2> QED
    BY <2>2, <2>3 DEF BootInv
<1>2. ASSUME NEW f \in Rules, bootLine \in {2, 3}, StartScript[bootLine] = f
      PROVE  /\ sets' = sets
             /\ \/ RulesRefused(disk[f]) /\ UNCHANGED <<named, full, jump>>
                \/ ~RulesRefused(disk[f]) /\ Restored(f)
  <2>1. f # "ipset"
    BY DEF Rules
  <2> QED
    BY <1>2, <2>1, Zenon DEF RestoreFile, Restored
<1>3. CASE bootLine = 2
  <2>0. StartScript[bootLine] = "v4" /\ "v4" \in Rules /\ "v6" \in Rules /\ Bare("v4")
    BY <1>3, <1>b DEF StartScript, Rules, NotYet
  <2>1. /\ sets' = sets
        /\ \/ RulesRefused(disk["v4"]) /\ UNCHANGED <<named, full, jump>>
           \/ ~RulesRefused(disk["v4"]) /\ Restored("v4")
    BY <1>2, <1>3, <2>0
  <2>2. /\ ConfirmInv' /\ AnyState' /\ RunInv' /\ DiskInv'
        /\ Bare("v6")' <=> Bare("v6")
        /\ sets = disk["ipset"] => \A g \in Gen : SavedWhole(g) => Holds("v4", g)'
    BY <1>0, <1>b, <2>0, <2>1, RestoreStep
  <2>3. BootPart'
    BY <1>0, <1>3, <1>b, <1>w, <2>1, <2>2 DEF BootPart, BootIdle, NotYet, Back
  <2> QED
    BY <2>2, <2>3 DEF BootInv
<1>4. CASE bootLine = 3
  <2>0. StartScript[bootLine] = "v6" /\ "v4" \in Rules /\ "v6" \in Rules /\ Bare("v6")
    BY <1>4, <1>b DEF StartScript, Rules, NotYet
  <2>1. /\ sets' = sets
        /\ \/ RulesRefused(disk["v6"]) /\ UNCHANGED <<named, full, jump>>
           \/ ~RulesRefused(disk["v6"]) /\ Restored("v6")
    BY <1>2, <1>4, <2>0
  <2>2. /\ ConfirmInv' /\ AnyState' /\ RunInv' /\ DiskInv'
        /\ \A x : Holds("v4", x)' <=> Holds("v4", x)
        /\ sets = disk["ipset"] => \A g \in Gen : SavedWhole(g) => Holds("v6", g)'
    BY <1>0, <1>b, <2>0, <2>1, RestoreStep
  <2>3. BootPart'
    BY <1>0, <1>4, <1>b, <1>w, <2>1, <2>2 DEF BootPart, BootIdle, NotYet, Back
  <2> QED
    BY <2>2, <2>3 DEF BootInv
<1> QED
  BY <1>0, <1>1, <1>3, <1>4

-----------------------------------------------------------------------------
(* What a boot brings back.                                                 *)

\* After the last line of a finished save's boot the kernel is that ruleset.
LEMMA BroughtBack ==
  ASSUME BootInv, bootLine = 4, NEW g \in Gen, SavedWhole(g)
  PROVE  /\ g \in confirmed /\ g <= gen
         /\ Names("real") = Whole(g) /\ RealOf(g) /\ Names("tmp") = {} /\ Names("del") = {}
         /\ Filled(g, Whole(g))
         /\ \A h \in Hook : jump[h] = IF h \in HooksOf(g) THEN <<g>> ELSE <<>>
         /\ sets = OwnSets(g)
<1>t. HistoryOK /\ ConfirmedBefore /\ DiskInv /\ SetsSaved
  BY DEF BootInv, ConfirmInv, TypeInv, TypeOK, NamesInv, DiskInv
<1>1. g \in confirmed /\ \E s \in disk["ipset"] : s[2] = g /\ s[1] = setver[g]
  BY <1>t, WholeSave
<1>2. Holds("v4", g) /\ Holds("v6", g) /\ sets = disk["ipset"]
  BY DEF BootInv, BootPart, Back
<1>3. Name = Part("v4") \cup Part("v6")
  BY DEF Part
<1>4. Whole(g) \subseteq Name /\ Hook \subseteq Name /\ g # 0
  BY <1>t, WholeNames DEF Whole, Name, Gen
<1>5. \A n \in Name :
        /\ named["real"][n] = IF n \in Whole(g) THEN g ELSE 0
        /\ named["tmp"][n] = 0 /\ named["del"][n] = 0
  BY <1>2, <1>3 DEF Holds
<1>6. Names("real") = Whole(g) /\ RealOf(g) /\ Names("tmp") = {} /\ Names("del") = {}
  BY <1>4, <1>5 DEF Names, RealOf
<1>7. Filled(g, Whole(g))
  <2>1. \A n \in Whole(g) : <<g, n>> \in full
    BY <1>2, <1>3, <1>4 DEF Holds
  <2> QED
    BY <2>1 DEF Filled
<1>8. \A h \in Hook : jump[h] = IF h \in HooksOf(g) THEN <<g>> ELSE <<>>
  BY <1>2, <1>3, <1>4 DEF Holds
<1>9. sets = OwnSets(g)
  <2>1. saved["ipset"] = {g}
    BY DEF SavedWhole, SavedFile
  <2>2. \A s \in sets : s[2] = g /\ s[1] = setver[g] /\ content[g] \notin Unaliased
    BY <1>t, <1>2, <2>1 DEF SetsSaved
  <2>3. \A s \in sets : s = <<setver[g], g>>
    BY <1>t, <1>2, <2>2 DEF SetsSaved
  <2>4. sets = {<<setver[g], g>>} /\ content[g] \notin Unaliased
    BY <1>1, <1>2, <2>2, <2>3
  <2> QED
    BY <2>4 DEF OwnSets
<1> QED
  BY <1>t, <1>1, <1>6, <1>7, <1>8, <1>9 DEF ConfirmedBefore

LEMMA BootIsRight == BootInv => BootRestores
<1> SUFFICES ASSUME BootInv, bootLine = 4, NEW g \in Gen, SavedWhole(g)
             PROVE  g \in confirmed /\ InCharge(g) /\ sets = OwnSets(g)
  BY DEF BootRestores, StartScript
<1>1. /\ g \in confirmed /\ Filled(g, Whole(g)) /\ sets = OwnSets(g)
      /\ \A h \in Hook : jump[h] = IF h \in HooksOf(g) THEN <<g>> ELSE <<>>
  BY BroughtBack
<1>2. \A h \in HooksOf(g) : Intact(g, h)
  BY <1>1 DEF Filled, Whole, Intact
<1> QED
  BY <1>1, <1>2 DEF InCharge

\* The network starts after nothing was restored that could be told from the files.
LEMMA ComeUpElse ==
  ASSUME BootInv, ComeUp, restored' = 0
  PROVE  BootInv' /\ RestoredLive'
<1>1. UNCHANGED <<vars, disk>> /\ bootLine' = 0
  BY DEF ComeUp, vars, history
<1>2. ConfirmInv' /\ AnyState' /\ RunInv' /\ DiskInv'
  BY <1>1, StayDown
<1>3. BootPart'
  BY <1>1 DEF BootPart, BootIdle, NotYet, Back
<1> QED
  BY <1>2, <1>3 DEF BootInv, RestoredLive

\* Or with the ruleset of a finished save in charge.
LEMMA ComeUpRestored ==
  ASSUME BootInv, ComeUp, restored' # 0
  PROVE  BootInv' /\ RestoredLive'
<1>1. /\ bootLine = 4 /\ bootLine' = 0 /\ commitFile = NoFile /\ confirmed' = {restored'}
      /\ \E g \in Gen : SavedWhole(g)
      /\ restored' = CHOOSE g \in Gen : SavedWhole(g)
      /\ UNCHANGED <<kernel, files, process, content, setver, flawed, disk>>
  BY DEF ComeUp, StartScript
<1>2. PICK g \in Gen : g = restored' /\ SavedWhole(g)
  BY <1>1
<1>3. /\ g \in confirmed /\ g <= gen
      /\ Names("real") = Whole(g) /\ RealOf(g) /\ Names("tmp") = {} /\ Names("del") = {}
      /\ Filled(g, Whole(g))
      /\ \A h \in Hook : jump[h] = IF h \in HooksOf(g) THEN <<g>> ELSE <<>>
  BY <1>1, <1>2, BroughtBack
<1>u. UNCHANGED <<named, full, jump, held, sets, heldSets, commitFile, version, saved, pc, todo,
                  site, cur, gen, fail>>
  BY <1>1 DEF kernel, files, process
<1>c. confirmed' = {g} /\ g \in Gen /\ g # 0 /\ UNCHANGED <<content, setver, flawed, disk>>
  BY <1>1, <1>2 DEF Gen
<1>t. /\ KernelOK /\ FilesOK /\ ProcessOK /\ HistoryOK /\ SetsBounded /\ JumpOnce
      /\ TmpIsCurrent /\ SiteInv /\ pc = "idle"
      /\ Alone /\ Declared /\ JumpNamed /\ FullNamed /\ SetsOwn /\ SetsSaved
      /\ DiskInv
  BY <1>1 DEF BootInv, ConfirmInv, TypeInv, TypeOK, Loops, NamesInv, AnyState, DiskInv, BootPart,
              BootIdle
<1>n. /\ RunInv' /\ LoopInv' /\ GenStarted' /\ HookLoops'
      /\ TmpFlushed' /\ DelFlushed' /\ DelUnhooked' /\ DelEmpty' /\ SiteInv'
  BY <1>t, <1>u, NoReload DEF SiteInv, CommitPhase, CleanupPhase, SavePhase
<1>w. /\ Whole(g)' = Whole(g) /\ HooksOf(g)' = HooksOf(g)
      /\ \A p : Names(p)' = Names(p)
      /\ RealOf(g)'
  BY <1>u, <1>c, <1>3 DEF Whole, HooksOf, Names, RealOf
<1>4. ConfirmInv'
  <2>1. KernelOK' /\ FilesOK' /\ ProcessOK' /\ HistoryOK' /\ SetsBounded' /\ JumpOnce'
    BY <1>t, <1>u, <1>c
    DEF KernelOK, FilesOK, ProcessOK, HistoryOK, SetsBounded, JumpOnce, OnceIn
  <2>2. NamesInv'
    BY <1>t, <1>u, <1>c, <1>w, <1>3
    DEF NamesInv, TmpIsCurrent, RealConfirmed, HeldConfirmed, TmpApart, ConfirmedBefore, Alone,
        RealOf
  <2>3. PhaseInv'
    BY <1>t, <1>u, <1>1
    DEF PhaseInv, CommitOfConfirmed, Unconfirmed, CommitFileOwner, CommitPhase, ApplyPhase
  <2> QED
    BY <1>n, <2>1, <2>2, <2>3 DEF ConfirmInv, TypeInv, TypeOK, Loops
<1>5. AnyState'
  <2>1. Alone' /\ Declared' /\ JumpNamed' /\ FullNamed' /\ SetsOwn'
    BY <1>t, <1>u, <1>c DEF Alone, Declared, JumpNamed, FullNamed, SetsOwn
  <2> QED
    BY <1>n, <2>1 DEF AnyState
<1>6. DiskInv'
  <2>1. \A f \in Rules : saved'[f] = {g} /\ disk'[f] = Image(f, g)
    BY <1>t, <1>u, <1>c, <1>2, WholeSave, RulesFiles DEF SavedWhole
  <2>2. ASSUME NEW f
        PROVE  Image(f, g)' = Image(f, g)
    BY <1>w DEF Image, Part
  <2>3. \A f \in Rules : RulesSaved(f)'
    BY <1>c, <2>1, <2>2 DEF RulesSaved
  <2>4. SetsSaved'
    BY <1>t, <1>u, <1>c DEF SetsSaved
  <2> QED
    BY <2>3, <2>4 DEF DiskInv
<1>7. BootPart'
  BY <1>1 DEF BootPart, BootIdle, NotYet, Back
<1>8. Running' = g
  <2>1. g <= g
    BY <1>c DEF Gen
  <2>2. (CHOOSE x \in {g} : \A y \in {g} : y <= x) = g
    BY <2>1
  <2> QED
    BY <1>c, <2>2 DEF Running
<1>9. WholeInv'
  <2>1. g \in 1..gen'
    BY <1>3, <1>t, <1>u, <1>c DEF Gen, ProcessOK
  <2>2. RealWhole'
    BY <2>1, <1>3, <1>c, <1>w DEF RealWhole
  <2> QED
    BY <2>2, <1>1, <1>t, <1>u
    DEF WholeInv, StepOfPhase, ChainsBuilt, DelegatesBuilt, TmpWhole, BeforeRenames, Shared,
        ApplyPhase, NoFile
<1>10. PathPart'
  <2>1. ASSUME NEW h \in Hook, NEW i \in 1..Len(jump[h])
        PROVE  jump[h][i] = named["real"][h]
    <3>1. h \in HooksOf(g) /\ jump[h][i] = g
      BY <1>3
    <3> QED
      BY <1>3, <3>1 DEF Whole, RealOf
  <2>2. JumpOwners'
    BY <1>u, <2>1 DEF JumpOwners
  <2> QED
    BY <2>2, <1>1, <1>t, <1>u
    DEF PathPart, HookedSoFar, UnhookedSoFar, Applied, AppliedPhase, CommitPhase
<1>11. NamePart'
  <2>1. Declared' /\ DelApart'
    BY <1>5, <1>3, <1>w DEF AnyState, DelApart
  <2>2. Settled'
    <3>1. Names("real")' = Whole(Running)' /\ RealOf(Running)'
      BY <1>3, <1>8, <1>w DEF Whole, HooksOf, RealOf
    <3> QED
      BY <1>c, <3>1 DEF Settled, IsLive
  <2>3. Renamed'
    BY <1>1, <1>u DEF Renamed, NoFile, Empty
  <2> QED
    BY <2>1, <2>2, <2>3 DEF NamePart
<1>12. FillPart'
  BY <1>1, <1>3, <1>8, <1>t, <1>u, <1>w
  DEF FillPart, LiveFilled, BuildFilled, Filled, AppliedPhase, ApplyPhase, CommitPhase
<1>13. FirstPart'
  <2>1. ASSUME NEW h \in Hook, named["real"][h] # 0
        PROVE  jump[h] # <<>> /\ jump[h][1] = named["real"][h]
    <3>1. h \in Names("real") /\ h \in Whole(g)
      BY <1>3, <2>1 DEF Names, Name
    <3>2. h \in HooksOf(g)
      BY <3>1, <1>c, <1>t, WholeNames, ConstantsAssumption DEF Whole
    <3> QED
      BY <1>3, <3>1, <3>2 DEF RealOf
  <2>2. \A h \in Hook : First(h)'
    BY <1>u, <2>1 DEF First
  <2> QED
    BY <1>t, <1>u, <2>2 DEF FirstPart, LiveFirst, LiveUnhooking, RollingBack
<1> QED
  BY <1>4, <1>5, <1>6, <1>7, <1>9, <1>10, <1>11, <1>12, <1>13, <1>n, <1>c
  DEF BootInv, RestoredLive, LiveInv, PathInv, CommitInv

-----------------------------------------------------------------------------
(* The theorems.                                                            *)

LEMMA BootInvNext == BootInv /\ [BootNext]_bvars => BootInv'
BY BootStill, BootReload, BootGoDown, BootSkip, BootRestoreFile, ComeUpElse, ComeUpRestored
DEF BootNext

LEMMA RestoredNext ==
  KillOutsideTrial /\ BootInv /\ RestoredLive /\ [BootNext]_bvars => RestoredLive'
<1> SUFFICES ASSUME KillOutsideTrial, BootInv, RestoredLive, [BootNext]_bvars
             PROVE  RestoredLive'
  OBVIOUS
<1>1. ASSUME [Next]_vars, UNCHANGED <<bootLine, restored>>
      PROVE  RestoredLive'
  BY <1>1, LiveNext, ConfirmedGrows DEF RestoredLive
<1>2. CASE ReloadStep \/ UNCHANGED bvars
  BY <1>1, <1>2 DEF ReloadStep, bvars
<1>3. CASE GoDown \/ SkipUnit \/ RestoreFile
  <2>1. bootLine' # 0
    BY <1>3 DEF GoDown, SkipUnit, RestoreFile, Booting, StartScript
  <2> QED
    BY <2>1 DEF RestoredLive
<1>4. CASE ComeUp
  BY <1>4, ComeUpElse, ComeUpRestored
<1> QED
  BY <1>2, <1>3, <1>4 DEF BootNext

\* A boot from a finished save brings back the ruleset that was saved, whole, in
\* charge of every hook it had and over the sets it was built with, wherever the
\* host went down and whatever had been restored before: a save is right also
\* after boots that restored half of one, because what it writes is what the
\* reload before it built, tried and committed.
THEOREM BootsBringBack == BootSpec => []BootRestores
BY BootInitInv, BootInvNext, BootIsRight, PTL DEF BootSpec

\* What a boot brought back stays in the path until another ruleset takes over,
\* although the version file is gone and the version is found among the sets.
THEOREM RestoredRulesetStays ==
  ASSUME KillOutsideTrial
  PROVE  BootSpec => []RestoredStays
<1>1. BootInit => BootInv /\ RestoredLive
  BY BootInitInv
<1>2. BootInv /\ RestoredLive /\ [BootNext]_bvars => BootInv' /\ RestoredLive'
  BY BootInvNext, RestoredNext
<1>3. RestoredLive => RestoredStays
  BY LiveFiltered DEF RestoredLive, RestoredStays, NeverUnfiltered
<1> QED
  BY <1>1, <1>2, <1>3, PTL DEF BootSpec

\* Reboots included, only what the operator confirmed is ever committed or being
\* committed: a boot restores nothing else, and a commit file that came through
\* one names the generation it was written for.
THEOREM BootCommitsConfirmed == BootSpec => []OnlyConfirmedCommitted
<1>1. BootInv => OnlyConfirmedCommitted
  BY ConfirmedCommitted DEF BootInv
<1> QED
  BY <1>1, BootInitInv, BootInvNext, PTL DEF BootSpec
=============================================================================
