-------------------------- MODULE FwConfirmProofs --------------------------
(***************************************************************************)
(* Nothing is committed that the operator did not confirm: the inductive    *)
(* invariant behind it, and the theorem.                                    *)
(*                                                                          *)
(* What could go wrong is a CFWTMP_ chain of an earlier build that survives *)
(* into a later one and is renamed with it.  The argument therefore follows *)
(* the cleanup: every delegate it flushes is unhooked (JumpOnce: a built-in *)
(* chain jumps to a delegate at most once, so one -D is enough), no foreign *)
(* rule holds a CFWTMP_ chain (TmpApart), so that every -X succeeds and the *)
(* build starts with the prefix empty (TmpGone).                            *)
(***************************************************************************)
EXTENDS FwReloadProofs

Unhooked(g, h) == \A i \in 1..Len(jump[h]) : jump[h][i] # g

OnceIn(js) ==
  \A h \in Hook : \A i, j \in 1..Len(js[h]) : js[h][i] = js[h][j] => i = j
JumpOnce == OnceIn(jump)

\* CFWTMP_ names chains of the last build only; CFW_ names confirmed ones; the
\* two share no chain, and foreign rules hold confirmed chains, none in CFWTMP_.
TmpIsCurrent == \A n \in Name : named["tmp"][n] \in {0, gen}
RealConfirmed == \A n \in Names("real") : named["real"][n] \in confirmed
HeldConfirmed == \A o \in held : o[1] \in confirmed
TmpApart ==
  \A n \in Names("tmp") :
    <<named["tmp"][n], n>> \notin held /\ named["real"][n] # named["tmp"][n]
ConfirmedBefore == \A g \in confirmed : g <= gen
NamesInv == TmpIsCurrent /\ RealConfirmed /\ HeldConfirmed /\ TmpApart /\ ConfirmedBefore

\* A commit is under way only for a generation that was confirmed, and a build
\* is not confirmed before the prompt.
CommitOfConfirmed == commitFile # NoFile \/ pc \in CommitPhase => gen \in confirmed
Unconfirmed == pc \in {"build_chains", "prepare"} \cup ApplyPhase => gen \notin confirmed
CommitFileOwner ==
  commitFile # NoFile => pc \in {"idle"} \cup (CommitPhase \ {"truncate_version", "write_version"})
PhaseInv == CommitOfConfirmed /\ Unconfirmed /\ CommitFileOwner

\* What the first two loops of the cleanup achieve.
Flushing == pc = "flush_tmp" => \A h \in Delegates("tmp") \ todo : Unhooked(gen, h)
Removing ==
  pc = "remove_tmp" =>
    todo = Names("tmp") /\ \A h \in Delegates("tmp") : Unhooked(gen, h)
TmpGone ==
  pc \in {"flush_del", "remove_del", "destroy_last", "destroy_next", "build"} =>
    Names("tmp") = {}
LoopInv == Flushing /\ Removing /\ TmpGone

ConfirmInv == TypeInv /\ JumpOnce /\ NamesInv /\ PhaseInv /\ LoopInv

-----------------------------------------------------------------------------
\* iptables -D on rules without duplicates: the rule is gone, the others stay,
\* none is new, and there are still no duplicates.
LEMMA RemoveFirstOnce ==
  ASSUME NEW S, NEW s \in Seq(S), NEW e,
         \A i, j \in 1..Len(s) : s[i] = s[j] => i = j
  PROVE  /\ \A i \in 1..Len(RemoveFirst(s, e)) : RemoveFirst(s, e)[i] # e
         /\ \A i \in 1..Len(RemoveFirst(s, e)) :
              \E j \in 1..Len(s) : RemoveFirst(s, e)[i] = s[j]
         /\ \A j \in 1..Len(s) :
              s[j] # e => \E i \in 1..Len(RemoveFirst(s, e)) : RemoveFirst(s, e)[i] = s[j]
         /\ \A i, j \in 1..Len(RemoveFirst(s, e)) :
              RemoveFirst(s, e)[i] = RemoveFirst(s, e)[j] => i = j
<1>1. CASE ~ \E i \in 1..Len(s) : s[i] = e
  BY <1>1 DEF RemoveFirst
<1>2. CASE \E i \in 1..Len(s) : s[i] = e
  <2> DEFINE I == {i \in 1..Len(s) : s[i] = e}
             k == Min(I)
             r == RemoveFirst(s, e)
             a == SubSeq(s, 1, k - 1)
             b == SubSeq(s, k + 1, Len(s))
  <2>1. I \in SUBSET Nat /\ I # {}
    BY <1>2, LenProperties
  <2>2. k \in I
    <3> HIDE DEF I
    <3> QED  BY <2>1, MinOfNat
  <2>3. r = a \o b
    BY <1>2 DEF RemoveFirst, RemoveAt, SelectInSeq
  <2>4. k \in 1..Len(s) /\ s[k] = e
    BY <2>2
  <2> HIDE DEF k, r
  <2>5. a \in Seq(S) /\ Len(a) = k - 1 /\ \A i \in 1..(k - 1) : a[i] = s[i]
    BY <2>4, SubSeqProperties, ElementOfSeq, LenProperties
  <2>6. b \in Seq(S) /\ Len(b) = Len(s) - k /\ \A i \in 1..(Len(s) - k) : b[i] = s[k + i]
    BY <2>4, SubSeqProperties, ElementOfSeq, LenProperties
  <2> HIDE DEF a, b
  <2>7. /\ Len(r) = Len(a) + Len(b)
        /\ \A i \in 1..(Len(a) + Len(b)) : r[i] = IF i <= Len(a) THEN a[i] ELSE b[i - Len(a)]
    BY <2>3, <2>5, <2>6, ConcatProperties
  <2>n. Len(s) \in Nat
    BY LenProperties
  <2>m. Len(r) = Len(s) - 1
    BY <2>4, <2>5, <2>6, <2>7, <2>n
  <2>8. \A i \in 1..Len(r) : r[i] = IF i < k THEN s[i] ELSE s[i + 1]
    <3> SUFFICES ASSUME NEW i \in 1..Len(r)
                 PROVE  r[i] = IF i < k THEN s[i] ELSE s[i + 1]
      OBVIOUS
    <3>1. CASE i < k
      BY <3>1, <2>4, <2>5, <2>6, <2>7, <2>m, <2>n
    <3>2. CASE ~ (i < k)
      <4>1. i - (k - 1) \in 1..(Len(s) - k) /\ k + (i - (k - 1)) = i + 1
        BY <3>2, <2>4, <2>m, <2>n
      <4>2. r[i] = b[i - (k - 1)]
        BY <3>2, <2>4, <2>5, <2>6, <2>7, <2>m, <2>n
      <4> QED
        BY <3>2, <4>1, <4>2, <2>6
    <3> QED
      BY <3>1, <3>2
  <2>9. \A i \in 1..Len(r) : i \in 1..Len(s) /\ i + 1 \in 1..Len(s)
    BY <2>m, <2>n
  <2>10. \A i \in 1..Len(r) : r[i] # e
    BY <2>4, <2>8, <2>9
  <2>11. \A i, j \in 1..Len(r) : r[i] = r[j] => i = j
    BY <2>4, <2>8, <2>9
  <2>12. ASSUME NEW j \in 1..Len(s), s[j] # e
         PROVE  \E i \in 1..Len(r) : r[i] = s[j]
    <3>1. CASE j < k
      BY <2>4, <2>8, <2>m, <2>n, <3>1
    <3>2. CASE ~ (j < k)
      <4>1. j - 1 \in 1..Len(r) /\ ~ (j - 1 < k) /\ (j - 1) + 1 = j
        BY <2>4, <2>m, <2>n, <2>12, <3>2
      <4> QED
        BY <2>8, <4>1
    <3> QED
      BY <3>1, <3>2
  <2> QED
    BY <2>8, <2>9, <2>10, <2>11, <2>12 DEF r
<1> QED
  BY <1>1, <1>2

\* After a delegate is unhooked its built-in chain does not jump to it.
LEMMA DropJumpOnce ==
  ASSUME KernelOK, JumpOnce, NEW h, NEW g
  PROVE  /\ OnceIn(DropJump(h, g))
         /\ h \in Hook => \A i \in 1..Len(DropJump(h, g)[h]) : DropJump(h, g)[h][i] # g
         /\ \A x \in Hook : x # h => DropJump(h, g)[x] = jump[x]
<1>1. CASE h \in Hook
  <2> DEFINE r == RemoveFirst(jump[h], g)
  <2>1. /\ \A i \in 1..Len(r) : r[i] # g
        /\ \A i, j \in 1..Len(r) : r[i] = r[j] => i = j
    BY <1>1, RemoveFirstOnce DEF KernelOK, JumpOnce, OnceIn
  <2>2. DropJump(h, g)[h] = r /\ \A x \in Hook : x # h => DropJump(h, g)[x] = jump[x]
    BY <1>1 DEF DropJump, KernelOK
  <2> HIDE DEF r
  <2> QED
    BY <1>1, <2>1, <2>2 DEF JumpOnce, OnceIn
<1>2. CASE h \notin Hook
  <2>1. DropJump(h, g) = jump
    BY <1>2 DEF DropJump, KernelOK
  <2> QED
    BY <1>2, <2>1 DEF JumpOnce
<1> QED
  BY <1>1, <1>2

\* Hooking a delegate again moves its jump and does not double it.
LEMMA AddJumpOnce ==
  ASSUME KernelOK, JumpOnce, NEW p \in Prefix, NEW h \in Delegates(p)
  PROVE  OnceIn(AddJump(h, named[p][h]))
<1> DEFINE g == named[p][h]
           r == RemoveFirst(jump[h], g)
           a == Append(r, g)
<1>1. g \in Gen /\ h \in Hook /\ jump[h] \in Seq(Gen)
  BY DEF KernelOK, Naming, Delegates, Names, Name
<1>2. /\ \A i \in 1..Len(r) : r[i] # g
      /\ \A i, j \in 1..Len(r) : r[i] = r[j] => i = j
  BY <1>1, RemoveFirstOnce DEF JumpOnce, OnceIn
<1>3. r \in Seq(Gen)
  BY <1>1, RemoveFirstType
<1>4. AddJump(h, g)[h] = a /\ \A x \in Hook : x # h => AddJump(h, g)[x] = jump[x]
  BY <1>1 DEF AddJump, KernelOK
<1> HIDE DEF r, g
<1>5. Len(r) \in Nat /\ Len(a) = Len(r) + 1 /\ a[Len(r) + 1] = g /\ \A i \in 1..Len(r) : a[i] = r[i]
  BY <1>1, <1>3, AppendProperties, LenProperties
<1> HIDE DEF a
<1>6. \A i, j \in 1..Len(a) : a[i] = a[j] => i = j
  <2> SUFFICES ASSUME NEW i \in 1..Len(a), NEW j \in 1..Len(a), a[i] = a[j]
               PROVE  i = j
    OBVIOUS
  <2>1. \A l \in 1..Len(a) : l \in 1..Len(r) \/ l = Len(r) + 1
    BY <1>5
  <2> QED
    BY <1>2, <1>5, <2>1
<1> QED
  BY <1>1, <1>4, <1>6 DEF g, JumpOnce, OnceIn

\* What the names, the foreign rules and the prompt have to do with each other
\* changes only when one of them does.
Quiet == UNCHANGED <<named, jump, held, gen, confirmed>>

LEMMA QuietStep ==
  JumpOnce /\ NamesInv /\ Quiet => JumpOnce' /\ NamesInv'
BY DEF Quiet, JumpOnce, OnceIn, NamesInv, TmpIsCurrent, RealConfirmed, HeldConfirmed,
       TmpApart, ConfirmedBefore, Names

\* Renaming gives CFW_ to the generation that is being committed.
LEMMA RenameNames ==
  ASSUME KernelOK, NamesInv, PhaseInv, NEW phase, NEW from, NEW to,
         <<phase, from, to>> \in {<<"real_to_delete", "real", "del">>,
                                  <<"tmp_to_real", "tmp", "real">>},
         RenameChain(phase, from, to)
  PROVE  NamesInv'
<1>0. UNCHANGED <<held, confirmed, gen>> /\ gen \in confirmed
  BY DEF RenameChain, history, process, Exit, PhaseInv, CommitOfConfirmed, CommitPhase
<1>1. CASE named' = named
  BY <1>0, <1>1
  DEF NamesInv, TmpIsCurrent, RealConfirmed, HeldConfirmed, TmpApart, ConfirmedBefore, Names
<1>2. CASE named' # named
  <2>1. PICK n \in Names(from) :
          named' = [named EXCEPT ![to][n] = named[from][n], ![from][n] = 0]
    BY <1>2 DEF RenameChain
  <2>2. CASE from = "real" /\ to = "del"
    <3>1. /\ named'["tmp"] = named["tmp"]
          /\ \A x \in Name : named'["real"][x] = IF x = n THEN 0 ELSE named["real"][x]
      BY <2>1, <2>2 DEF KernelOK, Naming, Prefix, Names
    <3> QED
      BY <1>0, <3>1
      DEF NamesInv, TmpIsCurrent, RealConfirmed, HeldConfirmed, TmpApart, ConfirmedBefore, Names
  <2>3. CASE from = "tmp" /\ to = "real"
    <3>1. /\ \A x \in Name : named'["tmp"][x] = IF x = n THEN 0 ELSE named["tmp"][x]
          /\ \A x \in Name : named'["real"][x] = IF x = n THEN named["tmp"][n] ELSE named["real"][x]
      BY <2>1, <2>3 DEF KernelOK, Naming, Prefix, Names
    <3>2. named["tmp"][n] = gen
      BY <2>1, <2>3 DEF NamesInv, TmpIsCurrent, Names
    <3> QED
      BY <1>0, <3>1, <3>2
      DEF NamesInv, TmpIsCurrent, RealConfirmed, HeldConfirmed, TmpApart, ConfirmedBefore, Names
  <2> QED
    BY <2>2, <2>3
<1> QED
  BY <1>1, <1>2

Goal == JumpOnce /\ NamesInv /\ PhaseInv /\ LoopInv

LEMMA ConfirmInit == Init => ConfirmInv
BY TypeInit
DEF Init, ConfirmInv, JumpOnce, OnceIn, NamesInv, TmpIsCurrent, RealConfirmed, HeldConfirmed,
    TmpApart, ConfirmedBefore, PhaseInv, CommitOfConfirmed, Unconfirmed, CommitFileOwner,
    CommitPhase, ApplyPhase, LoopInv, Flushing, Removing, TmpGone, Names, Prefix

LEMMA ConfirmNext == ConfirmInv /\ [Next]_vars => ConfirmInv'
<1> SUFFICES ASSUME ConfirmInv, [Next]_vars
             PROVE  Goal'
  BY TypeNext DEF ConfirmInv, Goal
<1>t. /\ KernelOK /\ FilesOK /\ ProcessOK /\ HistoryOK /\ Loops
      /\ JumpOnce /\ NamesInv /\ PhaseInv /\ LoopInv
  BY DEF ConfirmInv, TypeInv, TypeOK
<1>1. CASE Start
  <2>1. Quiet
    BY <1>t, <1>1
    DEF Start, Quiet, kernel, history, process
  <2>2. JumpOnce' /\ NamesInv'
    BY <1>t, <2>1, QuietStep
  <2>3. PhaseInv'
    BY <1>t, <1>1, <2>1
    DEF Start, PhaseInv, CommitOfConfirmed, Unconfirmed, CommitFileOwner, CommitPhase,
        ApplyPhase, Enter, LoopDone, NoFile, Empty, files, process, kernel, history,
        StartCommit, StartCleanup, Quiet
  <2>4. LoopInv'
    BY <1>t, <1>1, <2>1
    DEF Start, LoopInv, Flushing, Removing, TmpGone, Enter, LoopDone, Delegates, Names,
        Unhooked, kernel, process, StartCommit, StartCleanup, Quiet
  <2> QED
    BY <2>1, <2>2, <2>3, <2>4 DEF Goal
<1>2. ASSUME NEW phase, NEW p,
             <<phase, p>> \in {<<"flush_tmp", "tmp">>, <<"flush_del", "del">>},
             FlushChain(phase, p)
      PROVE  Goal'
  <2>1. JumpOnce'
    BY <1>t, <1>2, DropJumpOnce
    DEF FlushChain, JumpOnce, OnceIn
  <2>2. NamesInv'
    BY <1>t, <1>2
    DEF FlushChain, history, NamesInv, TmpIsCurrent, RealConfirmed, HeldConfirmed, TmpApart,
        ConfirmedBefore, Names
  <2>3. PhaseInv'
    BY <1>t, <1>2
    DEF FlushChain, PhaseInv, CommitOfConfirmed, Unconfirmed, CommitFileOwner, CommitPhase,
        ApplyPhase, files, history
  <2>4. LoopInv'
    <3>1. PICK n \in todo : /\ jump' = IF n \in Hook THEN DropJump(n, named[p][n]) ELSE jump
                           /\ todo' = todo \ {n}
      BY <1>2 DEF FlushChain
    <3>2. UNCHANGED <<pc, named, gen>> /\ pc = phase
      BY <1>2 DEF FlushChain
    <3>3. CASE phase = "flush_tmp"
      <4>1. p = "tmp"
        BY <1>2, <3>3
      <4>2. SUFFICES ASSUME NEW h \in Delegates("tmp"), h \notin todo \/ h = n
                     PROVE  Unhooked(gen, h)'
        BY <3>1, <3>2, <3>3 DEF LoopInv, Flushing, Removing, TmpGone, Delegates, Names
      <4>3. h \in Hook /\ named["tmp"][h] = gen
        BY <1>t DEF NamesInv, TmpIsCurrent, Delegates, Names
      <4>4. CASE h = n
        BY <1>t, <3>1, <3>2, <4>1, <4>3, <4>4, DropJumpOnce DEF Unhooked
      <4>5. CASE h # n
        <5>1. jump'[h] = jump[h]
          BY <1>t, <3>1, <4>3, <4>5, DropJumpOnce
        <5>2. Unhooked(gen, h)
          BY <1>t, <3>2, <3>3, <4>2, <4>5 DEF LoopInv, Flushing
        <5> QED
          BY <3>2, <5>1, <5>2 DEF Unhooked
      <4> QED
        BY <4>4, <4>5
    <3>4. CASE phase = "flush_del"
      BY <1>t, <3>2, <3>4 DEF LoopInv, Flushing, Removing, TmpGone, Names
    <3> QED
      BY <1>2, <3>3, <3>4
  <2> QED
    BY <2>1, <2>2, <2>3, <2>4 DEF Goal
<1>3. ASSUME NEW phase, NEW p,
             <<phase, p>> \in {<<"remove_tmp", "tmp">>, <<"remove_del", "del">>},
             RemoveChain(phase, p)
      PROVE  Goal'
  <2>1. JumpOnce'
    BY <1>t, <1>3
    DEF RemoveChain, JumpOnce, OnceIn
  <2>2. NamesInv'
    BY <1>t, <1>3
    DEF RemoveChain, history, NamesInv, TmpIsCurrent, RealConfirmed, HeldConfirmed, TmpApart,
        ConfirmedBefore, Names, Prefix, KernelOK, Naming
  <2>3. PhaseInv'
    BY <1>t, <1>3
    DEF RemoveChain, PhaseInv, CommitOfConfirmed, Unconfirmed, CommitFileOwner, CommitPhase,
        ApplyPhase, files, history
  <2>4. LoopInv'
    <3>1. PICK n \in todo : /\ named' = IF Referenced(n, named[p][n])
                                        THEN named ELSE [named EXCEPT ![p][n] = 0]
                           /\ todo' = todo \ {n}
      BY <1>3 DEF RemoveChain
    <3>2. UNCHANGED <<pc, jump, held, gen>> /\ pc = phase
      BY <1>3 DEF RemoveChain
    <3>3. CASE phase = "remove_tmp"
      <4>1. p = "tmp" /\ n \in Names("tmp")
        BY <1>t, <1>3, <3>2, <3>3 DEF LoopInv, Removing
      <4>2. ~ Referenced(n, named["tmp"][n])
        BY <1>t, <3>2, <3>3, <4>1
        DEF Referenced, LoopInv, Removing, Unhooked, NamesInv, TmpApart, TmpIsCurrent,
            Delegates, Names
      <4>3. named' = [named EXCEPT !["tmp"][n] = 0]
        BY <3>1, <4>1, <4>2
      <4>4. Names("tmp")' = Names("tmp") \ {n}
        BY <1>t, <4>3 DEF Names, KernelOK, Naming, Prefix
      <4> QED
        BY <1>t, <3>1, <3>2, <3>3, <4>4
        DEF LoopInv, Flushing, Removing, TmpGone, Delegates, Unhooked
    <3>4. CASE phase = "remove_del"
      <4>1. p = "del"
        BY <1>3, <3>4
      <4>2. Names("tmp")' = Names("tmp")
        BY <1>t, <3>1, <4>1 DEF Names, KernelOK, Naming, Prefix
      <4> QED
        BY <1>t, <3>2, <3>4, <4>2 DEF LoopInv, Flushing, Removing, TmpGone
    <3> QED
      BY <1>3, <3>3, <3>4
  <2> QED
    BY <2>1, <2>2, <2>3, <2>4 DEF Goal
<1>4. CASE CleanupLoopEnds
  <2>1. Quiet
    BY <1>t, <1>4
    DEF CleanupLoopEnds, Quiet, kernel, history, process
  <2>2. JumpOnce' /\ NamesInv'
    BY <1>t, <2>1, QuietStep
  <2>3. PhaseInv'
    BY <1>t, <1>4, <2>1
    DEF CleanupLoopEnds, PhaseInv, CommitOfConfirmed, Unconfirmed, CommitFileOwner,
        CommitPhase, ApplyPhase, Enter, LoopDone, NoFile, Empty, files, process, kernel,
        history, Quiet
  <2>4. LoopInv'
    BY <1>t, <1>4, <2>1
    DEF CleanupLoopEnds, LoopInv, Flushing, Removing, TmpGone, Enter, LoopDone, Delegates,
        Names, Unhooked, kernel, process, Quiet
  <2> QED
    BY <2>1, <2>2, <2>3, <2>4 DEF Goal
<1>5. ASSUME NEW v, NEW phase, NEW next,
             <<phase, next>> \in {<<"destroy_last", "destroy_next">>, <<"destroy_next", "build">>,
                                 <<"destroy_next", "check_fail">>},
             DestroySets(phase, v, next)
      PROVE  Goal'
  <2>1. Quiet
    BY <1>t, <1>5
    DEF DestroySets, Quiet, kernel, history, process
  <2>2. JumpOnce' /\ NamesInv'
    BY <1>t, <2>1, QuietStep
  <2>3. PhaseInv'
    BY <1>t, <1>5, <2>1
    DEF DestroySets, PhaseInv, CommitOfConfirmed, Unconfirmed, CommitFileOwner, CommitPhase,
        ApplyPhase, Enter, LoopDone, NoFile, Empty, files, process, kernel, history, Quiet
  <2>4. LoopInv'
    BY <1>t, <1>5, <2>1
    DEF DestroySets, LoopInv, Flushing, Removing, TmpGone, Enter, LoopDone, Delegates, Names,
        Unhooked, kernel, process, Quiet
  <2> QED
    BY <2>1, <2>2, <2>3, <2>4 DEF Goal
<1>6. CASE StartBuild
  <2>1. JumpOnce'
    BY <1>t, <1>6
    DEF StartBuild, JumpOnce, OnceIn
  <2>2. NamesInv'
    BY <1>t, <1>6, ConstantsAssumption
    DEF StartBuild, NamesInv, TmpIsCurrent, RealConfirmed, HeldConfirmed, TmpApart,
        ConfirmedBefore, Names, LoopInv, TmpGone, KernelOK, Naming, Prefix, ProcessOK,
        HistoryOK, Gen
  <2>3. PhaseInv'
    BY <1>t, <1>6, ConstantsAssumption
    DEF StartBuild, PhaseInv, CommitOfConfirmed, Unconfirmed, CommitFileOwner, CommitPhase,
        ApplyPhase, Enter, NamesInv, ConfirmedBefore, ProcessOK, Gen, HistoryOK
  <2>4. LoopInv'
    BY <1>t, <1>6
    DEF StartBuild, LoopInv, Flushing, Removing, TmpGone, Enter
  <2> QED
    BY <2>1, <2>2, <2>3, <2>4 DEF Goal
<1>7. CASE RestoreTable
  <2>1. JumpOnce'
    BY <1>t, <1>7
    DEF RestoreTable, JumpOnce, process, OnceIn
  <2>2. NamesInv'
    BY <1>t, <1>7
    DEF RestoreTable, history, process, NameTmp, NamesInv, TmpIsCurrent, RealConfirmed,
        HeldConfirmed, TmpApart, ConfirmedBefore, Names, PhaseInv, Unconfirmed, ApplyPhase,
        KernelOK, Naming, Prefix
  <2>3. PhaseInv'
    BY <1>t, <1>7
    DEF RestoreTable, PhaseInv, CommitOfConfirmed, Unconfirmed, CommitFileOwner, CommitPhase,
        ApplyPhase, files, history, process
  <2>4. LoopInv'
    BY <1>t, <1>7
    DEF RestoreTable, LoopInv, Flushing, Removing, TmpGone, process
  <2> QED
    BY <2>1, <2>2, <2>3, <2>4 DEF Goal
<1>8. CASE NewChain
  <2>1. JumpOnce'
    BY <1>t, <1>8
    DEF NewChain, JumpOnce, process, OnceIn
  <2>2. NamesInv'
    BY <1>t, <1>8
    DEF NewChain, history, process, NameTmp, NamesInv, TmpIsCurrent, RealConfirmed,
        HeldConfirmed, TmpApart, ConfirmedBefore, Names, PhaseInv, Unconfirmed, ApplyPhase,
        KernelOK, Naming, Prefix
  <2>3. PhaseInv'
    BY <1>t, <1>8
    DEF NewChain, PhaseInv, CommitOfConfirmed, Unconfirmed, CommitFileOwner, CommitPhase,
        ApplyPhase, files, history, process
  <2>4. LoopInv'
    BY <1>t, <1>8
    DEF NewChain, LoopInv, Flushing, Removing, TmpGone, process
  <2> QED
    BY <2>1, <2>2, <2>3, <2>4 DEF Goal
<1>9. CASE PrepareDelegate
  <2>1. JumpOnce'
    BY <1>t, <1>9
    DEF PrepareDelegate, JumpOnce, process, OnceIn
  <2>2. NamesInv'
    BY <1>t, <1>9
    DEF PrepareDelegate, history, process, NameTmp, NamesInv, TmpIsCurrent, RealConfirmed,
        HeldConfirmed, TmpApart, ConfirmedBefore, Names, PhaseInv, Unconfirmed, ApplyPhase,
        KernelOK, Naming, Prefix
  <2>3. PhaseInv'
    BY <1>t, <1>9
    DEF PrepareDelegate, PhaseInv, CommitOfConfirmed, Unconfirmed, CommitFileOwner,
        CommitPhase, ApplyPhase, files, history, process
  <2>4. LoopInv'
    BY <1>t, <1>9
    DEF PrepareDelegate, LoopInv, Flushing, Removing, TmpGone, process
  <2> QED
    BY <2>1, <2>2, <2>3, <2>4 DEF Goal
<1>10. CASE FillChain
  <2>1. Quiet
    BY <1>t, <1>10
    DEF FillChain, Quiet, kernel, history, process
  <2>2. JumpOnce' /\ NamesInv'
    BY <1>t, <2>1, QuietStep
  <2>3. PhaseInv'
    BY <1>t, <1>10, <2>1
    DEF FillChain, PhaseInv, CommitOfConfirmed, Unconfirmed, CommitFileOwner, CommitPhase,
        ApplyPhase, Enter, LoopDone, NoFile, Empty, files, process, kernel, history, Quiet
  <2>4. LoopInv'
    BY <1>t, <1>10, <2>1
    DEF FillChain, LoopInv, Flushing, Removing, TmpGone, Enter, LoopDone, Delegates, Names,
        Unhooked, kernel, process, Quiet
  <2> QED
    BY <2>1, <2>2, <2>3, <2>4 DEF Goal
<1>11. CASE StartPrepare
  <2>1. Quiet
    BY <1>t, <1>11
    DEF StartPrepare, Quiet, kernel, history, process
  <2>2. JumpOnce' /\ NamesInv'
    BY <1>t, <2>1, QuietStep
  <2>3. PhaseInv'
    BY <1>t, <1>11, <2>1
    DEF StartPrepare, PhaseInv, CommitOfConfirmed, Unconfirmed, CommitFileOwner, CommitPhase,
        ApplyPhase, Enter, LoopDone, NoFile, Empty, files, process, kernel, history, Quiet
  <2>4. LoopInv'
    BY <1>t, <1>11, <2>1
    DEF StartPrepare, LoopInv, Flushing, Removing, TmpGone, Enter, LoopDone, Delegates, Names,
        Unhooked, kernel, process, Quiet
  <2> QED
    BY <2>1, <2>2, <2>3, <2>4 DEF Goal
<1>12. CASE StartApply
  <2>1. Quiet
    BY <1>t, <1>12
    DEF StartApply, Quiet, kernel, history, process
  <2>2. JumpOnce' /\ NamesInv'
    BY <1>t, <2>1, QuietStep
  <2>3. PhaseInv'
    BY <1>t, <1>12, <2>1
    DEF StartApply, PhaseInv, CommitOfConfirmed, Unconfirmed, CommitFileOwner, CommitPhase,
        ApplyPhase, Enter, LoopDone, NoFile, Empty, files, process, kernel, history, Quiet
  <2>4. LoopInv'
    BY <1>t, <1>12, <2>1
    DEF StartApply, LoopInv, Flushing, Removing, TmpGone, Enter, LoopDone, Delegates, Names,
        Unhooked, kernel, process, Quiet
  <2> QED
    BY <2>1, <2>2, <2>3, <2>4 DEF Goal
<1>13. CASE ModifyBuiltin("hook", "tmp", AddJump)
  <2>1. JumpOnce'
    BY <1>t, <1>13, AddJumpOnce
    DEF ModifyBuiltin, JumpOnce, Loops, HookLoops, Prefix, OnceIn
  <2>2. NamesInv'
    BY <1>t, <1>13
    DEF ModifyBuiltin, history, NamesInv, TmpIsCurrent, RealConfirmed, HeldConfirmed, TmpApart,
        ConfirmedBefore, Names
  <2>3. PhaseInv'
    BY <1>t, <1>13
    DEF ModifyBuiltin, PhaseInv, CommitOfConfirmed, Unconfirmed, CommitFileOwner, CommitPhase,
        ApplyPhase, files, history
  <2>4. LoopInv'
    BY <1>t, <1>13
    DEF ModifyBuiltin, LoopInv, Flushing, Removing, TmpGone
  <2> QED
    BY <2>1, <2>2, <2>3, <2>4 DEF Goal
<1>14. CASE ModifyBuiltin("unhook", "real", DropJump)
  <2>1. JumpOnce'
    BY <1>t, <1>14, DropJumpOnce
    DEF ModifyBuiltin, JumpOnce, OnceIn
  <2>2. NamesInv'
    BY <1>t, <1>14
    DEF ModifyBuiltin, history, NamesInv, TmpIsCurrent, RealConfirmed, HeldConfirmed, TmpApart,
        ConfirmedBefore, Names
  <2>3. PhaseInv'
    BY <1>t, <1>14
    DEF ModifyBuiltin, PhaseInv, CommitOfConfirmed, Unconfirmed, CommitFileOwner, CommitPhase,
        ApplyPhase, files, history
  <2>4. LoopInv'
    BY <1>t, <1>14
    DEF ModifyBuiltin, LoopInv, Flushing, Removing, TmpGone
  <2> QED
    BY <2>1, <2>2, <2>3, <2>4 DEF Goal
<1>15. CASE ModifyBuiltin("rb_hook", "real", AddJump)
  <2>1. JumpOnce'
    BY <1>t, <1>15, AddJumpOnce
    DEF ModifyBuiltin, JumpOnce, Loops, HookLoops, Prefix, OnceIn
  <2>2. NamesInv'
    BY <1>t, <1>15
    DEF ModifyBuiltin, history, NamesInv, TmpIsCurrent, RealConfirmed, HeldConfirmed, TmpApart,
        ConfirmedBefore, Names
  <2>3. PhaseInv'
    BY <1>t, <1>15
    DEF ModifyBuiltin, PhaseInv, CommitOfConfirmed, Unconfirmed, CommitFileOwner, CommitPhase,
        ApplyPhase, files, history
  <2>4. LoopInv'
    BY <1>t, <1>15
    DEF ModifyBuiltin, LoopInv, Flushing, Removing, TmpGone
  <2> QED
    BY <2>1, <2>2, <2>3, <2>4 DEF Goal
<1>16. CASE ModifyBuiltin("rb_unhook", "tmp", DropJump)
  <2>1. JumpOnce'
    BY <1>t, <1>16, DropJumpOnce
    DEF ModifyBuiltin, JumpOnce, OnceIn
  <2>2. NamesInv'
    BY <1>t, <1>16
    DEF ModifyBuiltin, history, NamesInv, TmpIsCurrent, RealConfirmed, HeldConfirmed, TmpApart,
        ConfirmedBefore, Names
  <2>3. PhaseInv'
    BY <1>t, <1>16
    DEF ModifyBuiltin, PhaseInv, CommitOfConfirmed, Unconfirmed, CommitFileOwner, CommitPhase,
        ApplyPhase, files, history
  <2>4. LoopInv'
    BY <1>t, <1>16
    DEF ModifyBuiltin, LoopInv, Flushing, Removing, TmpGone
  <2> QED
    BY <2>1, <2>2, <2>3, <2>4 DEF Goal
<1>17. CASE StartUnhook \/ StartAsking \/ PromptTimesOut \/ AnswerNo \/ StartRollbackUnhook
  <2>1. Quiet
    BY <1>t, <1>17
    DEF StartUnhook, StartAsking, PromptTimesOut, AnswerNo, Rollback, StartRollbackUnhook,
        Quiet, kernel, history, process
  <2>2. JumpOnce' /\ NamesInv'
    BY <1>t, <2>1, QuietStep
  <2>3. PhaseInv'
    BY <1>t, <1>17, <2>1
    DEF StartUnhook, StartAsking, PromptTimesOut, AnswerNo, Rollback, StartRollbackUnhook,
        PhaseInv, CommitOfConfirmed, Unconfirmed, CommitFileOwner, CommitPhase, ApplyPhase,
        Enter, LoopDone, NoFile, Empty, files, process, kernel, history, Quiet
  <2>4. LoopInv'
    BY <1>t, <1>17, <2>1
    DEF StartUnhook, StartAsking, PromptTimesOut, AnswerNo, Rollback, StartRollbackUnhook,
        LoopInv, Flushing, Removing, TmpGone, Enter, LoopDone, Delegates, Names, Unhooked,
        kernel, process, Quiet
  <2> QED
    BY <2>1, <2>2, <2>3, <2>4 DEF Goal
<1>18. CASE AnswerYes
  <2>1. JumpOnce'
    BY <1>t, <1>18
    DEF AnswerYes, JumpOnce, kernel, OnceIn
  <2>2. NamesInv'
    <3>1. UNCHANGED <<named, held, gen>> /\ confirmed' = confirmed \cup {gen}
      BY <1>18 DEF AnswerYes, kernel
    <3>2. gen <= gen
      BY <1>t, ConstantsAssumption DEF ProcessOK, Gen
    <3>3. ConfirmedBefore'
      BY <1>t, <3>1, <3>2 DEF NamesInv, ConfirmedBefore
    <3> QED
      BY <1>t, <3>1, <3>3
      DEF NamesInv, TmpIsCurrent, RealConfirmed, HeldConfirmed, TmpApart, Names
  <2>3. PhaseInv'
    BY <1>t, <1>18
    DEF AnswerYes, PhaseInv, CommitOfConfirmed, Unconfirmed, CommitFileOwner, CommitPhase,
        ApplyPhase, StartCommit, Enter
  <2>4. LoopInv'
    BY <1>t, <1>18
    DEF AnswerYes, LoopInv, Flushing, Removing, TmpGone, StartCommit, Enter
  <2> QED
    BY <2>1, <2>2, <2>3, <2>4 DEF Goal
<1>19. CASE DispatchStep
  <2>1. Quiet
    BY <1>t, <1>19
    DEF DispatchStep, Quiet, kernel, history, process
  <2>2. JumpOnce' /\ NamesInv'
    BY <1>t, <2>1, QuietStep
  <2>3. PhaseInv'
    BY <1>t, <1>19, <2>1
    DEF DispatchStep, PhaseInv, CommitOfConfirmed, Unconfirmed, CommitFileOwner, CommitPhase,
        ApplyPhase, Enter, LoopDone, NoFile, Empty, files, process, kernel, history, Quiet
  <2>4. LoopInv'
    BY <1>t, <1>19, <2>1
    DEF DispatchStep, LoopInv, Flushing, Removing, TmpGone, Enter, LoopDone, Delegates, Names,
        Unhooked, kernel, process, Quiet
  <2> QED
    BY <2>1, <2>2, <2>3, <2>4 DEF Goal
<1>20. CASE BuildFails \/ RollbackAborts \/ InvalidStep \/ FailFileStops \/ RunPostScripts \/ Interrupt
  <2>1. Quiet
    BY <1>t, <1>20
    DEF BuildFails, RollbackAborts, InvalidStep, FailFileStops, RunPostScripts, Interrupt,
        Quiet, kernel, history, process
  <2>2. JumpOnce' /\ NamesInv'
    BY <1>t, <2>1, QuietStep
  <2>3. PhaseInv'
    BY <1>t, <1>20, <2>1
    DEF BuildFails, RollbackAborts, InvalidStep, FailFileStops, RunPostScripts, Interrupt,
        PhaseInv, CommitOfConfirmed, Unconfirmed, CommitFileOwner, CommitPhase, ApplyPhase,
        Enter, LoopDone, NoFile, Empty, files, process, kernel, history, Exit, BuildPhase,
        Quiet
  <2>4. LoopInv'
    BY <1>t, <1>20, <2>1
    DEF BuildFails, RollbackAborts, InvalidStep, FailFileStops, RunPostScripts, Interrupt,
        LoopInv, Flushing, Removing, TmpGone, Enter, LoopDone, Delegates, Names, Unhooked,
        kernel, process, Exit, Quiet
  <2> QED
    BY <2>1, <2>2, <2>3, <2>4 DEF Goal
<1>21. ASSUME NEW phase \in {"write_r2d", "write_t2r", "write_done"}, NEW step,
             WriteStep(phase, step)
      PROVE  Goal'
  <2>1. Quiet
    BY <1>t, <1>21
    DEF WriteStep, Quiet, kernel, history, process
  <2>2. JumpOnce' /\ NamesInv'
    BY <1>t, <2>1, QuietStep
  <2>3. PhaseInv'
    BY <1>t, <1>21, <2>1
    DEF WriteStep, PhaseInv, CommitOfConfirmed, Unconfirmed, CommitFileOwner, CommitPhase,
        ApplyPhase, Enter, LoopDone, NoFile, Empty, files, process, kernel, history, Quiet
  <2>4. LoopInv'
    BY <1>t, <1>21, <2>1
    DEF WriteStep, LoopInv, Flushing, Removing, TmpGone, Enter, LoopDone, Delegates, Names,
        Unhooked, kernel, process, Quiet
  <2> QED
    BY <2>1, <2>2, <2>3, <2>4 DEF Goal
<1>22. ASSUME NEW phase, NEW from, NEW to,
             <<phase, from, to>> \in {<<"real_to_delete", "real", "del">>,
                                     <<"tmp_to_real", "tmp", "real">>},
             RenameChain(phase, from, to)
      PROVE  Goal'
  <2>1. JumpOnce'
    BY <1>t, <1>22
    DEF RenameChain, JumpOnce, OnceIn
  <2>2. NamesInv'
    BY <1>t, <1>22, RenameNames
  <2>3. PhaseInv'
    BY <1>t, <1>22
    DEF RenameChain, PhaseInv, CommitOfConfirmed, Unconfirmed, CommitFileOwner, CommitPhase,
        ApplyPhase, files, history, process, Exit, Enter
  <2>4. LoopInv'
    BY <1>t, <1>22
    DEF RenameChain, LoopInv, Flushing, Removing, TmpGone, process, Exit, Enter
  <2> QED
    BY <2>1, <2>2, <2>3, <2>4 DEF Goal
<1>23. ASSUME NEW from, NEW phase \in {"real_to_delete", "tmp_to_real"},
             NEW next \in {"write_t2r", "write_done"},
             RenameEnds(phase, from, next)
      PROVE  Goal'
  <2>1. Quiet
    BY <1>t, <1>23
    DEF RenameEnds, Quiet, kernel, history, process
  <2>2. JumpOnce' /\ NamesInv'
    BY <1>t, <2>1, QuietStep
  <2>3. PhaseInv'
    BY <1>t, <1>23, <2>1
    DEF RenameEnds, PhaseInv, CommitOfConfirmed, Unconfirmed, CommitFileOwner, CommitPhase,
        ApplyPhase, Enter, LoopDone, NoFile, Empty, files, process, kernel, history, Quiet
  <2>4. LoopInv'
    BY <1>t, <1>23, <2>1
    DEF RenameEnds, LoopInv, Flushing, Removing, TmpGone, Enter, LoopDone, Delegates, Names,
        Unhooked, kernel, process, Quiet
  <2> QED
    BY <2>1, <2>2, <2>3, <2>4 DEF Goal
<1>24. CASE RemoveCommitFile \/ TruncateVersion \/ WriteVersion
  <2>1. Quiet
    BY <1>t, <1>24
    DEF RemoveCommitFile, TruncateVersion, WriteVersion, Quiet, kernel, history, process
  <2>2. JumpOnce' /\ NamesInv'
    BY <1>t, <2>1, QuietStep
  <2>3. PhaseInv'
    BY <1>t, <1>24, <2>1
    DEF RemoveCommitFile, TruncateVersion, WriteVersion, PhaseInv, CommitOfConfirmed,
        Unconfirmed, CommitFileOwner, CommitPhase, ApplyPhase, Enter, LoopDone, NoFile, Empty,
        files, process, kernel, history, Quiet
  <2>4. LoopInv'
    BY <1>t, <1>24, <2>1
    DEF RemoveCommitFile, TruncateVersion, WriteVersion, LoopInv, Flushing, Removing, TmpGone,
        Enter, LoopDone, Delegates, Names, Unhooked, kernel, process, Quiet
  <2> QED
    BY <2>1, <2>2, <2>3, <2>4 DEF Goal
<1>25. ASSUME NEW phase \in {"check_fail", "save_v4", "save_v6", "save_ipset"}, NEW written,
             NEW next \in {"save_v4", "save_v6", "save_ipset", "post"},
             Redirect(phase, next, written)
      PROVE  Goal'
  <2>1. Quiet
    BY <1>t, <1>25
    DEF Redirect, Quiet, kernel, history, process
  <2>2. JumpOnce' /\ NamesInv'
    BY <1>t, <2>1, QuietStep
  <2>3. PhaseInv'
    BY <1>t, <1>25, <2>1
    DEF Redirect, PhaseInv, CommitOfConfirmed, Unconfirmed, CommitFileOwner, CommitPhase,
        ApplyPhase, Enter, LoopDone, NoFile, Empty, files, process, kernel, history, Quiet
  <2>4. LoopInv'
    BY <1>t, <1>25, <2>1
    DEF Redirect, LoopInv, Flushing, Removing, TmpGone, Enter, LoopDone, Delegates, Names,
        Unhooked, kernel, process, Quiet
  <2> QED
    BY <2>1, <2>2, <2>3, <2>4 DEF Goal
<1>26. CASE ForceDeleteCommitFile
  <2>1. Quiet
    BY <1>t, <1>26
    DEF ForceDeleteCommitFile, Quiet, kernel, history, process
  <2>2. JumpOnce' /\ NamesInv'
    BY <1>t, <2>1, QuietStep
  <2>3. PhaseInv'
    BY <1>t, <1>26, <2>1
    DEF ForceDeleteCommitFile, PhaseInv, CommitOfConfirmed, Unconfirmed, CommitFileOwner,
        CommitPhase, ApplyPhase, Enter, LoopDone, NoFile, Empty, files, process, kernel,
        history, Quiet
  <2>4. LoopInv'
    BY <1>t, <1>26, <2>1
    DEF ForceDeleteCommitFile, LoopInv, Flushing, Removing, TmpGone, Enter, LoopDone,
        Delegates, Names, Unhooked, kernel, process, Quiet
  <2> QED
    BY <2>1, <2>2, <2>3, <2>4 DEF Goal
<1>27. CASE ForeignRule
  <2>1. JumpOnce'
    BY <1>t, <1>27
    DEF ForeignRule, JumpOnce, OnceIn
  <2>2. NamesInv'
    BY <1>t, <1>27
    DEF ForeignRule, NamesInv, TmpIsCurrent, RealConfirmed, HeldConfirmed, TmpApart,
        ConfirmedBefore, Names, process, history
  <2>3. PhaseInv'
    BY <1>t, <1>27
    DEF ForeignRule, PhaseInv, CommitOfConfirmed, Unconfirmed, CommitFileOwner, CommitPhase,
        ApplyPhase, files, process, history
  <2>4. LoopInv'
    BY <1>t, <1>27
    DEF ForeignRule, LoopInv, Flushing, Removing, TmpGone, process, Delegates, Names, Unhooked
  <2> QED
    BY <2>1, <2>2, <2>3, <2>4 DEF Goal
<1>28. CASE UNCHANGED vars
  <2>1. Quiet
    BY <1>t, <1>28
    DEF vars, Quiet, kernel, history, process
  <2>2. JumpOnce' /\ NamesInv'
    BY <1>t, <2>1, QuietStep
  <2>3. PhaseInv'
    BY <1>t, <1>28, <2>1
    DEF vars, PhaseInv, CommitOfConfirmed, Unconfirmed, CommitFileOwner, CommitPhase,
        ApplyPhase, Enter, LoopDone, NoFile, Empty, files, process, kernel, history, Quiet
  <2>4. LoopInv'
    BY <1>t, <1>28, <2>1
    DEF vars, LoopInv, Flushing, Removing, TmpGone, Enter, LoopDone, Delegates, Names,
        Unhooked, kernel, process, Quiet
  <2> QED
    BY <2>1, <2>2, <2>3, <2>4 DEF Goal
<1>30. CASE Cleanup
  BY <1>2, <1>3, <1>4, <1>5, <1>30 DEF Cleanup, AfterCleanup
<1>31. CASE Build
  BY <1>6, <1>7, <1>8, <1>10, <1>11, <1>9, <1>20, <1>31 DEF Build
<1>32. CASE Apply
  BY <1>12, <1>13, <1>14, <1>15, <1>16, <1>17, <1>20, <1>32, Zenon DEF Apply
<1>33. CASE Commit
  BY <1>19, <1>20, <1>21, <1>22, <1>23, <1>24, <1>33 DEF Commit
<1>34. CASE Finish
  BY <1>34, <1>20, <1>25 DEF Finish
<1> QED
  BY <1>1, <1>17, <1>18, <1>20, <1>26, <1>27, <1>28,
     <1>30, <1>31, <1>32, <1>33, <1>34
  DEF Next, Progress

LEMMA ConfirmedCommitted == ConfirmInv => OnlyConfirmedCommitted
<1> SUFFICES ASSUME ConfirmInv
             PROVE  OnlyConfirmedCommitted
  OBVIOUS
<1>1. \A n \in Names("real") : named["real"][n] \in confirmed
  BY DEF ConfirmInv, NamesInv, RealConfirmed
<1>2. CASE commitFile # NoFile
  <2>1. gen \in confirmed /\ \A g \in confirmed : g <= gen /\ g \in Nat
    BY <1>2
    DEF ConfirmInv, PhaseInv, CommitOfConfirmed, NamesInv, ConfirmedBefore, TypeInv, TypeOK,
        HistoryOK, Gen
  <2>2. gen = Running
    BY <2>1 DEF Running
  <2> QED
    BY <1>1, <2>1, <2>2 DEF OnlyConfirmedCommitted
<1> QED
  BY <1>1, <1>2 DEF OnlyConfirmedCommitted

\* Only what the operator answered y to is ever committed or being committed,
\* however often the reload is interrupted and whatever foreign rules hold.
THEOREM ConfirmedOnly == Spec => []OnlyConfirmedCommitted
<1>1. Spec => []ConfirmInv
  BY ConfirmInit, ConfirmNext, PTL DEF Spec
<1> QED
  BY <1>1, ConfirmedCommitted, PTL
=============================================================================
