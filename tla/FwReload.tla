------------------------------ MODULE FwReload ------------------------------
(***************************************************************************)
(* One fw_reload at a time, against the kernel and the files it works on:   *)
(* resume an interrupted commit, clean up, build the new ruleset under      *)
(* CFWTMP_, hook it beside the live one, unhook the live one, ask, commit   *)
(* or roll back, clean up again, save.  The reload can die in every phase   *)
(* listed in KillAt, which leaves kernel and files as they are and the      *)
(* operator free to run fw_reload again.                                    *)
(*                                                                          *)
(* A chain is identified by <<g, n>>: the build attempt g that created it   *)
(* and its name n without the prefix.  Renaming a chain changes which       *)
(* prefix names it and nothing else, as in the kernel, where the jumps to a *)
(* chain follow it through a rename.                                        *)
(*                                                                          *)
(* Loops over the chains of a prefix visit them in any order: `sort -n` and *)
(* the order of tables and families are one of the orders modelled.         *)
(***************************************************************************)
EXTENDS Integers, Sequences, FiniteSets, SequencesExt

CONSTANTS
  Chain,        \* zone chains (ZONE+HOOK) and global chains (+NAME), by family and table
  Hook,         \* the built-in chains of each family and table
  Table,        \* a family and a table of it: what iptables-restore commits at once
  NoHook,       \* what HookOf gives for a global chain
  HookOf,       \* the built-in chain a zone chain's name ends with
  TableOf,      \* the table a chain belongs to
  Config,       \* the sets of chains firewall.d can declare
  Unaliased,    \* those of them that come without an alias, and so without a set
  MaxGen,       \* bound: number of builds
  KillAt,       \* phases in which the reload may be interrupted or a command fail
  HelperPath,   \* TRUE: built by cfw-build, FALSE: by the bash scripts
  ForeignRefs   \* TRUE: rules outside cfirewalld may jump to its chains, match its sets

Gen == 1..MaxGen
Name == Chain \cup Hook         \* a Hook names the delegate chain of that hook
Prefix == {"real", "tmp", "del"}  \* CFW_, CFWTMP_, CFWDEL_
SavedFile == {"v4", "v6", "ipset"}  \* iptables.rules, ip6tables.rules, ipset.list

NoFile == "none"                \* the commit file does not exist
Empty == ""                     \* a file truncated by `>` and not yet written
NoVersion == -1                 \* ipset_prefix does not exist
EmptyVersion == 0               \* ipset_prefix is empty: $(( )) reads it as 0

CleanupPhase == {"flush_tmp", "remove_tmp", "flush_del", "remove_del",
                 "destroy_last", "destroy_next"}
BuildPhase == {"build", "build_chains", "prepare"}
ApplyPhase == {"hook", "unhook", "ask", "rb_hook", "rb_unhook"}
CommitPhase == {"commit", "write_r2d", "real_to_delete", "write_t2r",
                "tmp_to_real", "write_done", "remove_file",
                "truncate_version", "write_version"}
SavePhase == {"check_fail", "save_v4", "save_v6", "save_ipset", "post"}
Phase == {"idle"} \cup CleanupPhase \cup BuildPhase \cup ApplyPhase
           \cup CommitPhase \cup SavePhase

ASSUME ConstantsAssumption ==
  /\ MaxGen \in Nat
  /\ Chain \cap Hook = {}
  /\ NoHook \notin Hook
  /\ HookOf \in [Chain -> Hook \cup {NoHook}]
  /\ TableOf \in [Chain -> Table]
  /\ Config \subseteq SUBSET Chain
  /\ Unaliased \subseteq Config
  /\ KillAt \subseteq Phase \ {"idle"}
  /\ HelperPath \in BOOLEAN
  /\ ForeignRefs \in BOOLEAN

VARIABLES
  named,       \* kernel: the generation of the chain each prefix names, 0 for none
  full,        \* kernel: the chains whose rules have all been tried
  jump,        \* kernel: the delegates each built-in chain jumps to, in rule order
  held,        \* kernel: the chains a foreign rule jumps to
  sets,        \* kernel: <<v, g>> when the sets CFW_v_* hold entries of generation g
  heldSets,    \* kernel: the versions a foreign rule matches on
  commitFile,  \* COMMIT_FILE
  version,     \* IPSET_PREFIX_FILE
  saved,       \* /var/lib/cfirewalld: the generations each file would restore
  pc, todo,    \* the phase and what its loop has left
  site,        \* where fw_commit and fw_cleanup were called from
  cur,         \* CURRENT_IPSET_VER of the running subcommand
  gen,         \* builds started so far: the generation being built or applied
  fail,        \* the file $FAIL exists
  content,     \* history: what generation g was asked to declare
  setver,      \* history: the set version generation g was built with
  confirmed,   \* history: the generations the operator answered y to
  flawed       \* history: the generations a rule of which failed

kernel == <<named, full, jump, held, sets, heldSets>>
files == <<commitFile, version, saved>>
process == <<pc, todo, site, cur, gen, fail>>
history == <<content, setver, confirmed, flawed>>
vars == <<kernel, files, process, history>>

-----------------------------------------------------------------------------
(* The kernel's side of the commands.                                       *)

Names(p) == {n \in Name : named[p][n] # 0}
Delegates(p) == Names(p) \cap Hook

\* modify_chain_builtin add, remove: -D drops the first match if there is one,
\* -A appends.
AddJump(h, g) == [jump EXCEPT ![h] = Append(RemoveFirst(@, g), g)]
DropJump(h, g) == [jump EXCEPT ![h] = RemoveFirst(@, g)]

\* iptables -X is refused while anything jumps to the chain.
Referenced(n, g) ==
  \/ <<g, n>> \in held
  \/ n \in Hook /\ \E i \in 1..Len(jump[n]) : jump[n][i] = g

\* ipset destroy is refused while a rule matches on the set.
SetInUse(v) ==
  \/ v \in heldSets
  \/ \E o \in full : o[2] \in Chain /\ content[o[1]] \notin Unaliased /\ setver[o[1]] = v

\* Fault: the loop over the sets loses what it finds.
VersionOne == IF version = NoVersion THEN 1 ELSE version

\* get_current_ips_version: without the file, the highest version there is.
SetVersions == {1} \cup {s[1] : s \in sets}
CurrentVersion ==
  IF version = NoVersion
  THEN CHOOSE v \in SetVersions : \A w \in SetVersions : w <= v
  ELSE version

-----------------------------------------------------------------------------
(* The shell's side: moving from a phase to the next.                       *)

Enter(phase, names) == pc' = phase /\ todo' = names

\* A subcommand starts by sourcing fw_common.sh, which reads the version and
\* creates its file when there is none.
SourceCommon == cur' = CurrentVersion /\ version' = CurrentVersion

StartCleanup(from) == Enter("flush_tmp", Names("tmp")) /\ SourceCommon /\ site' = from
StartCommit(from) == Enter("commit", {}) /\ SourceCommon /\ site' = from

\* The reload ends, whatever the reason; kernel and files stay as they are.
Exit == Enter("idle", {}) /\ site' = "start" /\ cur' = 0

LoopDone(phase) == pc = phase /\ todo = {}

-----------------------------------------------------------------------------
(* fw_reload, up to the build.                                              *)

\* Fault: the commit file is not looked for.
StartWithoutResume ==
  /\ pc = "idle"
  /\ StartCleanup("start")
  /\ fail' = FALSE
  /\ UNCHANGED <<kernel, commitFile, saved, gen, history>>

Start ==
  /\ pc = "idle"
  /\ IF commitFile # NoFile THEN StartCommit("start") ELSE StartCleanup("start")
  /\ fail' = FALSE
  /\ UNCHANGED <<kernel, commitFile, saved, gen, history>>

(* fw_cleanup *)

FlushChain(phase, p) ==
  /\ pc = phase
  /\ \E n \in todo :
       /\ full' = full \ {<<named[p][n], n>>}
       /\ jump' = IF n \in Hook THEN DropJump(n, named[p][n]) ELSE jump
       /\ todo' = todo \ {n}
  /\ UNCHANGED <<named, held, sets, heldSets, files, pc, site, cur, gen, fail, history>>

RemoveChain(phase, p) ==
  /\ pc = phase
  /\ \E n \in todo :
       /\ named' = IF Referenced(n, named[p][n])
                   THEN named
                   ELSE [named EXCEPT ![p][n] = 0]
       /\ todo' = todo \ {n}
  /\ UNCHANGED <<full, jump, held, sets, heldSets, files, pc, site, cur, gen, fail, history>>

DestroySets(phase, v, next) ==
  /\ pc = phase
  /\ sets' = IF SetInUse(v) THEN sets ELSE {s \in sets : s[1] # v}
  /\ Enter(next, {})
  /\ UNCHANGED <<named, full, jump, held, heldSets, files, site, cur, gen, fail, history>>

\* Fault: the CFWDEL_ chains are flushed and not deleted.
CleanupKeepsDel ==
  /\ \/ LoopDone("flush_tmp") /\ Enter("remove_tmp", Names("tmp"))
     \/ LoopDone("remove_tmp") /\ Enter("flush_del", Names("del"))
     \/ LoopDone("flush_del") /\ Enter("destroy_last", {})
  /\ UNCHANGED <<kernel, files, site, cur, gen, fail, history>>

CleanupLoopEnds ==
  /\ \/ LoopDone("flush_tmp") /\ Enter("remove_tmp", Names("tmp"))
     \/ LoopDone("remove_tmp") /\ Enter("flush_del", Names("del"))
     \/ LoopDone("flush_del") /\ Enter("remove_del", Names("del"))
     \/ LoopDone("remove_del") /\ Enter("destroy_last", {})
  /\ UNCHANGED <<kernel, files, site, cur, gen, fail, history>>

AfterCleanup == IF site = "start" THEN "build" ELSE "check_fail"

\* Fault: the sets of a build that was given up are not destroyed.
CleanupKeepsNextSets ==
  \/ FlushChain("flush_tmp", "tmp") \/ RemoveChain("remove_tmp", "tmp")
  \/ FlushChain("flush_del", "del") \/ RemoveChain("remove_del", "del")
  \/ CleanupLoopEnds
  \/ DestroySets("destroy_last", cur - 1, AfterCleanup)

Cleanup ==
  \/ FlushChain("flush_tmp", "tmp")
  \/ RemoveChain("remove_tmp", "tmp")
  \/ FlushChain("flush_del", "del")
  \/ RemoveChain("remove_del", "del")
  \/ CleanupLoopEnds
  \/ DestroySets("destroy_last", cur - 1, "destroy_next")
  \/ DestroySets("destroy_next", cur + 1, AfterCleanup)

-----------------------------------------------------------------------------
(* The build: fw_build or the scripts of firewall.d, then fw_prepare_zones. *)

\* The declarations are read and their sets filled: created when missing,
\* added to when there (`ipset restore -!`, `ipset -exist add`).
StartBuild ==
  /\ pc = "build"
  /\ gen < MaxGen
  /\ \E c \in Config :
       /\ content' = [content EXCEPT ![gen + 1] = c]
       /\ Enter("build_chains", c)
       /\ sets' = IF c \in Unaliased THEN sets ELSE sets \cup {<<CurrentVersion + 1, gen + 1>>}
  /\ gen' = gen + 1
  /\ SourceCommon
  /\ setver' = [setver EXCEPT ![gen + 1] = CurrentVersion + 1]
  /\ UNCHANGED <<named, full, jump, held, heldSets, commitFile, saved, site, fail, confirmed, flawed>>

NameTmp(cs) ==
  named' = [named EXCEPT !["tmp"] = [n \in Name |-> IF n \in cs THEN gen ELSE @[n]]]

\* The helper submits a whole table at once.
RestoreTable ==
  /\ pc = "build_chains" /\ HelperPath
  /\ \E t \in {TableOf[c] : c \in todo} :
       LET built == {c \in todo : TableOf[c] = t}
       IN  /\ NameTmp(built)
           /\ full' = full \cup ({gen} \X built)
           /\ todo' = todo \ built
  /\ UNCHANGED <<jump, held, sets, heldSets, files, pc, site, cur, gen, fail, history>>

\* The scripts run one iptables per rule: the chain exists before it is whole.
NewChain ==
  /\ pc = "build_chains" /\ ~HelperPath
  /\ \E c \in todo : named["tmp"][c] = 0 /\ NameTmp({c})
  /\ UNCHANGED <<full, jump, held, sets, heldSets, files, process, history>>

\* Fault: the script that goes on after a rule that failed leaves no $FAIL behind.
RulesTriedSilently == UNCHANGED fail /\ flawed' \in {flawed, flawed \cup {gen}}

\* A script may go on after an fw_rule that failed, which leaves $FAIL behind.
RulesTried ==
  \/ UNCHANGED <<fail, flawed>>
  \/ fail' = TRUE /\ flawed' = flawed \cup {gen}

\* A full chain holds every rule but those its script lets fail.
FillChain ==
  /\ pc = "build_chains" /\ ~HelperPath
  /\ \E c \in todo :
       /\ named["tmp"][c] = gen
       /\ full' = full \cup {<<gen, c>>}
       /\ todo' = todo \ {c}
  /\ RulesTried
  /\ UNCHANGED <<named, jump, held, sets, heldSets, files, pc, site, cur, gen,
                 content, setver, confirmed>>

\* Fault: global chains are not left out.
WantedForEveryChain == {HookOf[c] : c \in Names("tmp") \cap Chain}

\* The hooks fw_prepare_zones finds in the names of the chains just built.
WantedHooks == {HookOf[c] : c \in Names("tmp") \cap Chain} \ {NoHook}

StartPrepare ==
  /\ LoopDone("build_chains")
  /\ Enter("prepare", WantedHooks)
  /\ UNCHANGED <<kernel, files, site, cur, gen, fail, history>>

PrepareDelegate ==
  /\ pc = "prepare"
  /\ \E h \in todo :
       /\ NameTmp({h})
       /\ full' = full \cup {<<gen, h>>}
       /\ todo' = todo \ {h}
  /\ UNCHANGED <<jump, held, sets, heldSets, files, pc, site, cur, gen, fail, history>>

\* A config file fails, a name does not resolve, the kernel refuses a rule.
BuildFails ==
  /\ pc \in BuildPhase
  /\ Exit
  /\ UNCHANGED <<kernel, files, gen, fail, history>>

Build ==
  \/ StartBuild \/ RestoreTable \/ NewChain \/ FillChain
  \/ StartPrepare \/ PrepareDelegate \/ BuildFails

-----------------------------------------------------------------------------
(* fw_apply *)

StartApply ==
  /\ LoopDone("prepare")
  /\ Enter("hook", Delegates("tmp"))
  /\ SourceCommon
  /\ UNCHANGED <<kernel, commitFile, saved, site, gen, fail, history>>

\* One iteration of a loop over the delegates of a prefix.
ModifyBuiltin(phase, p, Modify(_, _)) ==
  /\ pc = phase
  /\ \E h \in todo :
       /\ jump' = Modify(h, named[p][h])
       /\ todo' = todo \ {h}
  /\ UNCHANGED <<named, full, held, sets, heldSets, files, pc, site, cur, gen, fail, history>>

\* Fault: the loop over the live delegates matches none of them.
UnhookNothing ==
  /\ LoopDone("hook")
  /\ Enter("unhook", {})
  /\ UNCHANGED <<kernel, files, site, cur, gen, fail, history>>

StartUnhook ==
  /\ LoopDone("hook")
  /\ Enter("unhook", Delegates("real"))
  /\ UNCHANGED <<kernel, files, site, cur, gen, fail, history>>

StartAsking ==
  /\ LoopDone("unhook")
  /\ Enter("ask", {})
  /\ UNCHANGED <<kernel, files, site, cur, gen, fail, history>>

AnswerYes ==
  /\ pc = "ask"
  /\ confirmed' = confirmed \cup {gen}
  /\ StartCommit("apply")
  /\ UNCHANGED <<kernel, commitFile, saved, gen, fail, content, setver, flawed>>

Rollback ==
  /\ pc = "ask"
  /\ Enter("rb_hook", Delegates("real"))
  /\ UNCHANGED <<kernel, files, site, cur, gen, fail, history>>

\* Fault: what ask_user returns is not looked at.
NoMeansYes ==
  /\ pc = "ask"
  /\ StartCommit("apply")
  /\ UNCHANGED <<kernel, commitFile, saved, gen, fail, history>>

\* Any other key.
AnswerNo == Rollback

\* Fault: the prompt has no time limit.
WaitForever == pc = "ask" /\ UNCHANGED vars

\* Fault: the trial ruleset is unhooked without putting the live one back.
RollbackDropsOnly ==
  /\ pc = "ask"
  /\ Enter("rb_unhook", Delegates("tmp"))
  /\ UNCHANGED <<kernel, files, site, cur, gen, fail, history>>

\* 60 seconds without a key, or the end of the input.
PromptTimesOut == Rollback

\* Fault: the rollback forgets the trial ruleset.
RollbackAddsOnly ==
  /\ LoopDone("rb_hook")
  /\ Enter("rb_unhook", {})
  /\ UNCHANGED <<kernel, files, site, cur, gen, fail, history>>

StartRollbackUnhook ==
  /\ LoopDone("rb_hook")
  /\ Enter("rb_unhook", Delegates("tmp"))
  /\ UNCHANGED <<kernel, files, site, cur, gen, fail, history>>

RollbackAborts ==
  /\ LoopDone("rb_unhook")
  /\ Exit
  /\ fail' = TRUE
  /\ UNCHANGED <<kernel, files, gen, history>>

Apply ==
  \/ StartApply
  \/ ModifyBuiltin("hook", "tmp", AddJump)
  \/ StartUnhook
  \/ ModifyBuiltin("unhook", "real", DropJump)
  \/ StartAsking \/ PromptTimesOut
  \/ ModifyBuiltin("rb_hook", "real", AddJump)
  \/ StartRollbackUnhook
  \/ ModifyBuiltin("rb_unhook", "tmp", DropJump)
  \/ RollbackAborts

-----------------------------------------------------------------------------
(* fw_commit *)

\* The head of the loop: get_step, which creates the file when there is none.
DispatchStep ==
  /\ pc = "commit"
  /\ \/ commitFile = NoFile /\ Enter("write_r2d", {}) /\ commitFile' = Empty
     \/ /\ commitFile = "rename_chain_real_to_delete"
        /\ Enter("real_to_delete", {}) /\ UNCHANGED commitFile
     \/ /\ commitFile = "rename_chain_tmp_to_real"
        /\ Enter("tmp_to_real", {}) /\ UNCHANGED commitFile
     \/ commitFile = "done" /\ Enter("remove_file", {}) /\ UNCHANGED commitFile
  /\ UNCHANGED <<kernel, version, saved, site, cur, gen, fail, history>>

\* Fault: the abort does not end the reload, and the cleanup follows.
InvalidStepGoesOn ==
  /\ pc = "commit" /\ commitFile = Empty
  /\ StartCleanup(site)
  /\ fail' = TRUE
  /\ UNCHANGED <<kernel, commitFile, saved, gen, history>>

\* A step the case does not know.
InvalidStep ==
  /\ pc = "commit" /\ commitFile = Empty
  /\ Exit
  /\ fail' = TRUE
  /\ UNCHANGED <<kernel, files, gen, history>>

\* Fault: the step is not advanced.
WriteFirstStep(phase, step) ==
  /\ pc = phase
  /\ commitFile' = "rename_chain_real_to_delete"
  /\ Enter("commit", {})
  /\ UNCHANGED <<kernel, version, saved, site, cur, gen, fail, history>>

\* set_step: `>` has truncated the file, the step is now written to it.
WriteStep(phase, step) ==
  /\ pc = phase
  /\ commitFile' = step
  /\ Enter("commit", {})
  /\ UNCHANGED <<kernel, version, saved, site, cur, gen, fail, history>>

\* iptables -E, refused when the new name is taken.
RenameChain(phase, from, to) ==
  /\ pc = phase
  /\ \E n \in Names(from) :
       IF named[to][n] = 0
       THEN /\ named' = [named EXCEPT ![to][n] = named[from][n], ![from][n] = 0]
            /\ UNCHANGED process
       ELSE /\ Exit
            /\ fail' = TRUE
            /\ UNCHANGED <<named, gen>>
  /\ UNCHANGED <<full, jump, held, sets, heldSets, files, history>>

\* Fault: the loop stops at the first chain it fails to read.
RenameStopsEarly(phase, from, next) ==
  /\ pc = phase
  /\ Enter(next, {})
  /\ commitFile' = Empty
  /\ UNCHANGED <<kernel, version, saved, site, cur, gen, fail, history>>

RenameEnds(phase, from, next) ==
  /\ pc = phase /\ Names(from) = {}
  /\ Enter(next, {})
  /\ commitFile' = Empty
  /\ UNCHANGED <<kernel, version, saved, site, cur, gen, fail, history>>

RemoveCommitFile ==
  /\ pc = "remove_file"
  /\ commitFile' = NoFile
  /\ Enter("truncate_version", {})
  /\ UNCHANGED <<kernel, version, saved, site, cur, gen, fail, history>>

\* set_current_ips_version $NEXT_IPSET_VER
TruncateVersion ==
  /\ pc = "truncate_version"
  /\ version' = EmptyVersion
  /\ Enter("write_version", {})
  /\ UNCHANGED <<kernel, commitFile, saved, site, cur, gen, fail, history>>

\* Fault: the version is not advanced.
WriteSameVersion ==
  /\ pc = "write_version"
  /\ version' = cur
  /\ cur' = cur
  /\ Enter("flush_tmp", Names("tmp"))
  /\ UNCHANGED <<kernel, commitFile, saved, site, gen, fail, history>>

\* fw_commit ends; fw_cleanup follows at both call sites, and reads the version
\* just written.
WriteVersion ==
  /\ pc = "write_version"
  /\ version' = cur + 1
  /\ cur' = cur + 1
  /\ Enter("flush_tmp", Names("tmp"))
  /\ UNCHANGED <<kernel, commitFile, saved, site, gen, fail, history>>

Commit ==
  \/ DispatchStep
  \/ InvalidStep
  \/ WriteStep("write_r2d", "rename_chain_real_to_delete")
  \/ RenameChain("real_to_delete", "real", "del")
  \/ RenameEnds("real_to_delete", "real", "write_t2r")
  \/ WriteStep("write_t2r", "rename_chain_tmp_to_real")
  \/ RenameChain("tmp_to_real", "tmp", "real")
  \/ RenameEnds("tmp_to_real", "tmp", "write_done")
  \/ WriteStep("write_done", "done")
  \/ RemoveCommitFile
  \/ TruncateVersion
  \/ WriteVersion

-----------------------------------------------------------------------------
(* The end of fw_reload.                                                    *)

\* Each redirect empties its file before the command writes it.
Redirect(phase, next, truncate) ==
  /\ pc = phase
  /\ Enter(next, {})
  /\ saved' = truncate
  /\ UNCHANGED <<kernel, commitFile, version, site, cur, gen, fail, history>>

RulesInKernel == {named[p][n] : p \in Prefix, n \in Name} \ {0}
SetsInKernel == {s[2] : s \in sets}

FailFileStops ==
  /\ pc = "check_fail" /\ fail
  /\ Exit
  /\ UNCHANGED <<kernel, files, gen, fail, history>>

RunPostScripts ==
  /\ pc = "post"
  /\ Exit
  /\ UNCHANGED <<kernel, files, gen, fail, history>>

Finish ==
  \/ FailFileStops
  \/ ~fail /\ Redirect("check_fail", "save_v4", [saved EXCEPT !["v4"] = {}])
  \/ Redirect("save_v4", "save_v6", [saved EXCEPT !["v4"] = RulesInKernel, !["v6"] = {}])
  \/ Redirect("save_v6", "save_ipset", [saved EXCEPT !["v6"] = RulesInKernel, !["ipset"] = {}])
  \/ Redirect("save_ipset", "post", [saved EXCEPT !["ipset"] = SetsInKernel])
  \/ RunPostScripts

-----------------------------------------------------------------------------
(* What happens around the reload.                                          *)

\* A signal, a lost session, or a command that fails: no trap of the
\* subcommands undoes anything.
Interrupt ==
  /\ pc \in KillAt
  /\ Exit
  /\ UNCHANGED <<kernel, files, gen, fail, history>>

\* "to force operation, delete $COMMIT_FILE": the operator follows InvalidStep.
ForceDeleteCommitFile ==
  /\ pc = "idle" /\ fail /\ commitFile = Empty
  /\ commitFile' = NoFile
  /\ UNCHANGED <<kernel, version, saved, process, history>>

\* post-run.d or another program adds or deletes a rule that uses the
\* committed chains and sets.
ForeignRule ==
  /\ ForeignRefs
  /\ \/ /\ \E n \in Names("real") : held' = held \cup {<<named["real"][n], n>>}
        /\ UNCHANGED heldSets
     \/ /\ \E n \in Names("real") :
             /\ content[named["real"][n]] \notin Unaliased
             /\ heldSets' = heldSets \cup {setver[named["real"][n]]}
        /\ UNCHANGED held
     \/ \E o \in held : held' = held \ {o} /\ UNCHANGED heldSets
     \/ \E v \in heldSets : heldSets' = heldSets \ {v} /\ UNCHANGED held
  /\ UNCHANGED <<named, full, jump, sets, files, process, history>>

-----------------------------------------------------------------------------
Init ==
  /\ named = [p \in Prefix |-> [n \in Name |-> 0]]
  /\ full = {}
  /\ jump = [h \in Hook |-> <<>>]
  /\ held = {}
  /\ sets = {}
  /\ heldSets = {}
  /\ commitFile = NoFile
  /\ version = NoVersion
  /\ saved = [f \in SavedFile |-> {}]
  /\ pc = "idle" /\ todo = {} /\ site = "start" /\ cur = 0
  /\ gen = 0 /\ fail = FALSE
  /\ content = [g \in Gen |-> {}]
  /\ setver = [g \in Gen |-> 0]
  /\ confirmed = {} /\ flawed = {}

\* What a reload does by itself once it runs.
Progress == Cleanup \/ Build \/ Apply \/ Commit \/ Finish

Next ==
  \/ Start \/ Progress
  \/ AnswerYes \/ AnswerNo
  \/ Interrupt \/ ForceDeleteCommitFile \/ ForeignRule

Spec == Init /\ [][Next]_vars

\* The shell runs and its commands return; nobody has to answer the prompt.
FairSpec == Spec /\ WF_vars(Progress)
=============================================================================
