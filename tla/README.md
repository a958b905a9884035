# cfirewalld in TLA+

cfirewalld keeps two rulesets in the kernel. The one in charge has chains called
`CFW_...`; a reload builds the next one as `CFWTMP_...`, moves the jumps of the
built-in chains over to it, asks the operator, and then renames its chains to
`CFW_...` or moves the jumps back. The declarations of `firewall.d/*.sh` become
chains and sets either through bash scripts, one `iptables` per rule, or through a
Rust helper, `cfw-build`, that emits everything in a few restores.

The two halves are modelled apart: `FwReload` is the reload as a process that can
die anywhere, with chains as units; `CfwBuild` and `ShellBuild` are the two ways of
building, with the reload reduced to the kernel they build into. `FwBoot` and
`FwTwoReloads` put the reload where it runs: on a host that goes down, and next to
another one.

## The system

| Part | State | Operations | Correct when |
|---|---|---|---|
| `fw_reload` | the phase it is in, `$CACHEDIR/failed`, the files of `/var/lib/cfirewalld` | resume a commit, clean up, build, prepare, apply, save, run `post-run.d` | a confirmed ruleset is always in the path; what is saved was confirmed; it ends |
| `fw_common.sh` | `ipset_prefix`, the number of the current sets | loops over chains and sets, `modify_chain_builtin`, error traps | a build never uses the sets in charge |
| `fw_cleanup` | the `CFWTMP_`, `CFWDEL_` chains, sets of the neighbouring versions | flush, unhook, delete, destroy | nothing of another generation is left after a reload |
| `fw_prepare_zones` | the delegate chains | one delegate per hook that was built for | |
| `fw_apply` | the jumps of the built-in chains | hook, unhook, prompt of 60 s, roll back | a hook has at every moment one of the two rulesets |
| `fw_commit` | `/tmp/cfw_commit_in_progress` | rename `CFW_` to `CFWDEL_`, `CFWTMP_` to `CFW_`, advance the version | any number of interruptions and resumptions commits one whole ruleset |
| `_fw_rule`, `fw_alias_*` | chains and sets, as they go | create, add, append, look names up | |
| `cfw-build` | declarations, answers of the DNS, sets, rules, verdicts of the probe | parse, resolve, build, probe, load | the policy of the scripts; refused before it is loaded, or loaded whole; no scratch chain left that `iptables` lets it remove |
| boot (`cfirewalld-start`) | what the three files of `/var/lib/cfirewalld` really hold | restore them, line by line | the ruleset of the last finished save is back, whole and in charge, and stays until another takes over |

The parts talk through the kernel's tables and sets, two small files, and exit
codes. A reload runs one command after the other: the interleavings are those with
the operator, with other programs that use the committed chains and sets, with
whatever ends the process between two commands or the host with it, and with a second
reload, which nothing forbids. Inside the helper the lookups are concurrent.

What is hard here is what no container test reaches: dying between two renames, two
redirects or two loops; the state a second reload finds then; a kernel that refuses
to delete or rename something that is in use; the names and versions three
generations share; a load that is refused halfway; a build path that must agree
with the one it replaces for every configuration.

## The modules

| Module | Models |
|---|---|
| `FwReload` | `fw_reload`, `fw_cleanup`, `fw_prepare_zones`, `fw_apply`, `fw_commit`, the versions of `fw_common.sh` |
| `CommitConfirm` | what a reload promises, abstractly: at each hook the running ruleset decides, or the one on trial |
| `FwReloadProps` | the properties of `FwReload`, the refinement of `CommitConfirm`, and what the documentation claims |
| `FwBoot` | `FwReload` on a host that goes down and boots from the saved files |
| `FwTwoReloads` | `FwReload` with a second reload during the first one's prompt |
| `FwReloadProofs`, `FwConfirmProofs`, `FwCommitProofs`, `FwLiveProofs`, `FwSetsProofs` | proofs about the reload, each on top of the one before |
| `FwBootProofs` | proofs about the host that goes down, on top of those about the reload |
| `FwConfig` | declarations, the sets they mean, what `ipset` refuses |
| `CfwBuild` | the helper |
| `ShellBuild` | `_fw_rule`, `fw_alias_ip`, `fw_alias_dns`, `fw_alias_host` |
| `BuildPaths` | both, one after the other on the same configuration, and the properties that relate them |
| `CfwBuildProofs` | proofs about the helper |
| `BuildPathsProofs` | the proof that both paths build one policy |
| `MCReload`, `MCBoot`, `MCTwoReloads`, `MCBuild` | small instances |

Some actions are preceded by an operator marked `Fault:`. It is the same action with
the mistake that the comment names, and is used by nothing in the specification: it
is there to show that a property notices the mistake.

### FwReload

A chain is `<<g, n>>`: the build that created it and its name without the prefix.
`named[p][n]` says which generation's chain a prefix names, so a rename is two
entries of `named`, and the jumps in `jump[h]` follow a renamed chain because they
hold generations and not names. `full` holds the chains whose rules have
all been tried; flushing takes one out. Whole therefore means whole up to the rules that a
script lets fail, and `flawed` remembers the builds that had one. `sets` holds `<<v, g>>` when sets of version `v` contain what
generation `g` put there: more than one `g` for a `v` is a mixture. `held` and
`heldSets` are what rules from elsewhere jump to and match on.

`pc` and `todo` are the phase and the names its loop has left. The loops list the
chains of a table when they get to it, and nothing else changes them meanwhile, so
`todo` is filled when the loop starts; the rename loops of `fw_commit` use the names
themselves, as a resumed loop does. Chains of a loop are visited in any order, which
includes that of the code (family, table, `sort -n`).

| Actions | Code |
|---|---|
| `Start` | `fw_reload:66-86`: resume when the commit file exists, then clean up |
| `FlushChain`, `RemoveChain`, `DestroySets`, `CleanupLoopEnds` | `fw_cleanup`. `-X` and `destroy` are refused while something refers to the chain or set, and the loop goes on |
| `StartBuild`, `RestoreTable` or `NewChain` and `FillChain`, `BuildFails` | `fw_reload:88-101`. The helper loads a table at once; the scripts create a chain and fill it later, and may go on after an error, which leaves `$FAIL` behind |
| `StartPrepare`, `PrepareDelegate` | `fw_prepare_zones` |
| `StartApply`, `ModifyBuiltin`, `StartUnhook`, `StartAsking` | `fw_apply:12-18`. `-D` and `-A` of one jump are one step: in between the delegate is not hooked, which was so before it |
| `AnswerYes`, `AnswerNo`, `PromptTimesOut`, `StartRollbackUnhook`, `RollbackAborts` | `fw_apply:20-43` |
| `DispatchStep`, `WriteStep`, `RenameChain`, `RenameEnds`, `InvalidStep`, `RemoveCommitFile`, `TruncateVersion`, `WriteVersion` | `fw_commit`. Each `>` is two steps: the file is empty in between |
| `FailFileStops`, `Redirect`, `RunPostScripts` | `fw_reload:109-136` |
| `Interrupt` | `fw_reload:53-64` and the `ERR` traps. No trap undoes anything, so a signal, `kill -9` and a failing command do the same |
| `ForceDeleteCommitFile`, `ForeignRule` | the operator following `fw_commit:60-64`; other programs |

`Unaliased` are the configurations that declare no alias. A build of one makes no set,
none of its chains matches on one, and the sets of the ruleset before it can be
destroyed as soon as it is committed.

`history` (`content`, `setver`, `confirmed`, `flawed`) is not state of the program: it
records what each generation was asked to declare, the version it was built with,
whether the operator answered y, and whether one of its rules failed.

`-A` and `-D` of the built-in chains are atomic in the kernel. `modify_chain_builtin
add` of a delegate that is already hooked would unhook it for a moment. In a first
apply it is not hooked; a rollback after an incomplete unhook loop cannot happen, for
the loop that was interrupted does not go on to the prompt; so the only jumps that
`rb_hook` moves are those that were just removed.

### FwBoot

`saved` says whose chains a file holds; `disk` is what they are: for the two files of
rules the names, the filled chains and the jumps of their family, for `ipset.list` the
sets. Entering a file's phase truncates it, the step that leaves it writes it from the
kernel as it is then, and dying in between leaves it empty. `GoDown` may happen in any
state of the reload: the kernel and `/run` (with the version file and `$FAIL`) are
gone, `/tmp` with the commit file may come through or not, as the host has it.

`StartScript` are the three lines of `cfirewalld-start`, `RestoreFile` one of them,
which runs however the one before ended. `SkipUnit` is `ConditionFileNotEmpty` of the
unit. A table with a rule that matches on a missing set is refused; each chain of a
configuration with aliases is taken to have such a rule, so that this is decided for a
family. The reload runs again when the boot is over, with `version` found again from
the restored sets. The ruleset of a finished save is then the one in force, unless a commit
is pending, and `confirmed` names it alone: a confirmation that had not been saved yet is
lost with the kernel, and nothing on the host tells of it any more.

Whether a finished save has reached the disk is the file system's business: a save whose
command has ended is taken to be there.

### FwTwoReloads

While the first reload is at its prompt a second one is started, gets as far as it can,
and the first one goes on with its own `gen`, `cur` and phase (`waiting`). The bound is
one such encounter: neither is started a third time after it, and the second one does
not go on beside the first, which would only add to what goes wrong. The run is there
for the disagreement it shows.

### The build paths

Names, addresses, tails and chains are model values. Of a name the model keeps what the
code tests: is it `any`, an address, dotted, an alias, too long, the `_v6` half of
another. A port is none, valid, or outside of 1..65535, which `fw_alias_ip` refuses as
it reads it and the helper leaves to `ipset`, in the middle of its load (`HoldsNoPort`).
A set is its members, records of name, type, family and entry. A declaration with
several sources or destinations makes several rules with one tail, which are one element
of their chain: their order among each other is lost, their order with other
declarations kept.

`CfwBuild` has the steps of `main.rs` as `hpc` and the loops of `sets::build` and
`rules::build` as `next`. `Lookup` stores the answers in any order. `Prepare` and
`Probe` model `Prober`: with `ProbeMayFail` a scratch chain may not be created and a
probe may fail for no reason in the rule, and the cleanup at the end, whose exit codes nobody
looks at, may fail to remove any of the scratch chains (`unremoved` remembers which). `LoadTable` is one table of
`iptables-restore --noflush`, which takes a table whole or not at all.

The file a rule is in gives its chain a zone and a hook. The scripts take them from the
file's name by one pattern and the helper by another (`rules.rs:18-41`): `Misnamed` and
`Hyphened` are the chains of the files that are read differently, `ShellChain` the chain
the scripts then use.

`ShellBuild` has one action per declaration. `AddRule` creates the chain in both
families, then tries the rule in both. What is external, the commands and the DNS, is
`Accepts` and `Answers`.

## What is checked

Bounds. Three chains and two hooks in two tables are the smallest instance with a hook
every configuration covers (`input`), one that a reload may add or drop (`forward`)
and a global chain that belongs to none. `MaxGen` bounds the builds: with three there
is a confirmed ruleset, one on its way out and one being built, while the cleanup of
versions `cur - 1` and `cur + 1` still meets sets of another reload; a fourth differs
from the third only in its number, as nothing in the code looks at more than the
neighbouring versions. Where `MaxGen` is reached the reload stays in `build` and can
only fail. `KillAt` names the phases in which a run lets the reload die.

| Run | States | Shows |
|---|---|---|
| `safely` | 377,365 | three builds by the scripts, with and without aliases, interrupted in every phase, the saves included, but those of the two disagreements below, `prompt` (from the first unhooking to the moment the commit file names a step) and `version` (from the last rename to the new version): `NeverUnfiltered`, `LiveSetsPristine`, `NothingLeftOver`, `BootIsConfirmed`, `BootIsFlawless`, the refinement `PromiseKept`, and, under fairness, `ReloadEnds` and `CommitFinalised` |
| `anywhere` | 3,746,336 | three builds interrupted in every phase: `TypeOK`, `CommittedWhole`, `OnlyConfirmedCommitted`, `CommitsWhatIsApplied`, `PathDuringCommit` |
| `helper` | 1,658,589 | two builds by the helper, while other programs hold chains and sets: `IdlePathIsRunning`, `NeverUnfiltered` |
| `boot` | 264,502 | three builds on a host that goes down in any state, saves and commits included, with `/tmp` kept or not: `BootRestores`, `RestoredStays`, `LiveSetsPristine`, `OnlyConfirmedCommitted` |
| `paths` | 6,324,306 | every configuration of up to three declarations out of twenty-four, which hold every shape the code tells apart, of up to three out of five around a name whose answer changes, and of four out of nine around a global chain fed and jumped to from both families: `BuildTypeOK`, `SamePolicy`, `LoadsAreTaken`, `LoadedWhole`, `AliasesAgree`, `ScratchRemoved` |

Three declarations are enough for an alias, a rule and a global chain it jumps to, for
two aliases and a rule that uses one, and for three rules in an order; four for an alias
of both families, a jump and two rules of the chain jumped to. `MCBuild_paths` does not
check deadlock: both builds end, and then nothing happens.

`boot` interrupts reloads by themselves only where the next one finds the right ruleset
(the disagreement `prompt` would otherwise hide what the boot does), but the host may go
down in every state. Two of its properties have a condition. `BootRestores` speaks of
finished saves with a set in them. `RestoredStays` leaves out a boot that finds a commit
file: its step is then resumed on the restored chains, which a first step renames to
`CFWDEL_` and the cleanup deletes, with nothing under `CFWTMP_` to replace them.

Every property has a fault of the code under which its run finds it violated.

### Fairness

`safely` runs under `FairSpec`: `WF_vars(Progress)`: the shell keeps running and every command
returns. The operator is not part of it, so that in `ReloadEnds` the prompt ends by its timeout.
`CommitFinalised` says besides, as a hypothesis, that reloads are started again and
that from some time on nothing interrupts them; that is what the code asks of its
operator. No strong fairness is used.

### Where the code and what is said of it differ

Each of these has a run that TLC ends with a counterexample.

- `prompt`: `fw_reload:53-54` calls interrupting the prompt a normal way to abandon a
  reload, and `docs/design-rationale.md:13-14` speaks of the order that keeps one
  ruleset in the path. Interrupted at the prompt, the trial is hooked alone; the next
  reload's cleanup flushes and unhooks it before anything else, and until that reload
  applies its own ruleset no hook has one.
- `version`: `docs/design-rationale.md:27-33` has builds inert. `fw_commit` removes
  the commit file (68) before it writes the version (69). A commit that dies between
  the two is never resumed, and the next build adds to the sets in charge. The run also
  interrupts after `>` has emptied the version file, which is then read as 0; the shortest
  trace is the first of the two.
- `kept_chain`: `fw_commit:9` can be run "multiple time", and `fw_cleanup:27-28` keeps a
  chain that is still jumped to. The kept `CFWDEL_` chain makes the next commit's rename
  fail, each time it is run, and nothing deletes it even when the foreign jump is gone:
  `fw_reload` runs `fw_commit` (80-83) before `fw_cleanup` (86) and ends when it fails.
- `shadow`: `resolve.rs:46-50` says a rule's endpoint that names an alias is not a
  hostname. Because the hosts of aliases are looked up too, an alias with the name of its
  own short hostname is: rules then match its addresses, and an alias with a port loses
  it.
- `dropped`: `probe.rs:4-5` says the probe catches what the scripts' attempt in both
  families caught. A rule that neither family accepts ends the scripts, and is silently
  left out by the helper.
- `jump`: `tests/run.sh:6-7` wants both paths to agree. A jump that is made in both families
  to a global chain that has rules in one of them only is refused by the other family's
  restore, with the whole table, while the scripts create every chain in both families.
  Files with a hyphen in their names, which `rules.rs:25-27` documents, are left out of it.

- `two`: `fw_commit:8` commits "what is already applied". A second reload, started while
  the first one waits at its prompt, deletes the `CFWTMP_` chains the first one has
  applied; answered y, the first one then commits what is there now.

`SamePolicy` is therefore conditional: both paths ended well, no alias is `Shadowed`,
each name has one answer and each verdict of the probe is what the binaries say
(`Steady`), aliases precede the rules that use them (`AliasesFirst`: the scripts use a set
as it stands when the rule is met, the helper the finished one), and no file has a hyphen
in its name, which `rules.rs:25-27` says the scripts do not tell apart. The degraded
prober, which offers every tail to both families, is not an exception: what is taken then
is the same policy. `LoadsAreTaken` excludes it, since its loads are refused where the
scripts would have tried the other family, and excludes a port that is none and the jump
above.

Seen on the way, without a run of their own:

- `fw_commit:63` has the operator delete the commit file "to force operation". When the file
  was left empty after `CFW_` had been renamed away, the confirmed chains are still under
  `CFWTMP_`, in the path, and the next reload's cleanup takes them for leftovers.
- `fw_alias_host:18` takes for an address what has seven or more characters of `[0-9./]`, and
  `any` as it is written; `resolve.rs:25-37`, which says it matches that, takes a leading
  digit without letters, and `any` in any case.
- A configuration without aliases is saved with an empty `ipset.list`, and
  `ConditionFileNotEmpty` (`cfirewalld.service:2`) then skips the restore of its rules,
  which `packaging/DEBIAN/postinst:8` has the unit restore.
- `docs/plan-1.4.md:155-157` lists a bug in `get_current_ips_version`, that the highest
  number is lost with the pipeline's subshell. The loop writes it to the file, which
  outlives the subshell: the number is right. The mutant `VersionOne` of `boot` is that bug.
- `probe.rs:22-24` says that offering every tail to both families is what the shell did.
  The shell tried each rule by itself, `iptables-restore` refuses the whole table.
- `fw_cleanup:33-36` says of a set kept because a rule matches on it that "the next reload
  takes it". The cleanup looks at the neighbours of the current number only (45-46): once
  another ruleset is committed, the set is not looked at again.

## What is proved

Every theorem holds for all values of the constants that satisfy the module's
assumption. For the reload (`ConstantsAssumption`): any chains, hooks, tables and
configurations, any number of builds, dying in any phase, either build path, with or
without foreign rules; the seven theorems of `FwLiveProofs` and `FwSetsProofs` state in their
hypotheses where the reload does not die, because there they are false. For the boot
(`BootAssumption`): besides, any chains and hooks in either family, `/tmp` kept or not, the
host going down in any state, and no foreign rules, as the files of a boot hold only
what the reload saved. For the two build paths (`ConfigAssumption`): any configurations, any addresses and answers, any tails and
whatever the binaries accept, with probes that fail or not. What is external is assumed as the module says: that `iptables` and `ipset` refuse
what `Referenced`, `SetInUse`, `Refused` and `IpsetRefuses` say.

### The reload

**`TypeCorrect`: `Spec => []TypeOK`** (`FwReloadProofs`). `TypeOK` alone is not
inductive: the invariant adds that there is a highest version among the sets
(`SetsBounded`), which is where the version is looked for without a file, that something
is built when it is applied (`GenStarted`), and that the hook loops visit delegates that
exist (`HookLoops`). One lemma per group of actions, one
step per action.

**`ConfirmedOnly`: `Spec => []OnlyConfirmedCommitted`** (`FwConfirmProofs`). Every
`CFW_` chain belongs to a generation the operator answered y to, and a commit file
exists only for the last one. What makes it an invariant:

- `CommitOfConfirmed`, `CommitFileOwner`: a commit file, and every phase of the
  commit, belongs to a confirmed generation, and during cleanup, build and apply there
  is no commit file. This is what lets a resumed commit be trusted.
- `TmpIsCurrent`: when a commit renames `CFWTMP_` to `CFW_`, what it renames is of the
  generation that was confirmed, and not a chain of an earlier build that the cleanup
  failed to delete. This is the heart of it, and needs that the cleanup does delete every
  `CFWTMP_` chain (`TmpGone`): that nothing refers to one after the flush.
- That holds because foreign rules refer to confirmed chains only (`HeldConfirmed`,
  `TmpApart`), and because `-D` removes the jump altogether (`Flushing`, `Removing`),
  which it does only if no built-in chain jumps twice to one delegate: `JumpOnce`. The
  lemmas `RemoveFirstOnce`, `DropJumpOnce` and `AddJumpOnce` are about `-D` and `-A`.

**`CommitsWhole`: `Spec => []CommittedWhole`** (`FwCommitProofs`). Without a commit in
progress `CFW_` is one whole ruleset. A commit can be interrupted between any two
renames, so the invariant says what the prefixes hold for each step the commit file can
name:

- `ChainsBuilt`, `DelegatesBuilt`: through the build, `CFWTMP_` has every name its loop
  has left behind and no other; `TmpWhole`: from the end of the build up to the first
  rename of `tmp_to_real` it is whole.
- `Shared`: from then to the last rename each name of the ruleset is under one of the two
  prefixes, and what `CFW_` has is all of this generation, because the step before it ends
  with `CFW_` empty.
- `RealWhole`: with no commit file, or an empty one, `CFW_` is one ruleset or nothing; it
  is re-established when the last rename is done, and an interrupted reload keeps it.
- `StepOfPhase` ties the phase to the step in the file, which is what the resumed commit
  goes by.

**`CommitsApplied`: `Spec => []CommitsWhatIsApplied`** (`FwCommitProofs`). When a commit is
done, what the operator tried is alone in the path at each of its hooks. The loops of
`fw_apply` go over the names of two prefixes, packets go over jumps: `JumpOwners` says
that no built-in chain jumps to a ruleset that neither `CFW_` nor `CFWTMP_` names, so that a
hook both loops have passed (`HookedSoFar`, `UnhookedSoFar`) holds one jump, to the new
ruleset (`Applied`), and the renames that follow take it along. It rests on all of the
invariants above: `JumpOnce` for one jump and not two, `TmpApart` for the unhook loop not
to touch the new ruleset, `TmpWhole` for the hooks to be the ruleset's. It is also the
property that `two` refutes as soon as there is a second reload: what the proof
needs of the world is that one reload runs at a time.

**`CommitKeepsPath`: `Spec => []PathDuringCommit`** (`FwCommitProofs`), from the same
invariant: `Applied` holds as long as there is a commit file, in the phases of a commit and
between two attempts at it, and the ruleset of a commit file is the one last confirmed
(`CommitOfConfirmed`, `ConfirmedBefore`). It is what remains when `fw_commit` finds its file
empty and stops.

**`AlwaysFiltered`: `Spec => []NeverUnfiltered`** (`FwLiveProofs`). Hypothesis
`KillOutsideTrial`: `KillAt` has none of `TrialPhase`, the phases from the first unhooking to
the first step in the commit file. In each of them an interrupted reload leaves `CFWTMP_`
alone in the path, which is the disagreement `prompt`. The invariant follows the
ruleset in charge:

- `Settled`, `Renamed`: it is what `CFW_` names, all of it, from the end of a commit to the
  next y, and again as soon as `fw_commit` has emptied its file.
- `LiveFilled`: its rules are all there. No flush of the cleanup reaches them, since
  neither `CFWTMP_` (`TmpApart`) nor `CFWDEL_` (`DelApart`) names a chain of it.
- `LiveFirst`, `LiveUnhooking`, `RollingBack`: its delegate comes first at its hook
  until `fw_apply` unhooks it behind one on trial, and the rollback puts it back there before
  it takes the other away. `BuildFilled` says that what is on trial has its rules.

**`PathBetweenReloads`: `Spec => []IdlePathIsRunning`** (`FwLiveProofs`). Hypothesis
`KillNotHooking`: not in `hook` either, where a dead reload has left jumps of
both rulesets, which the next cleanup takes out. The addition is `NoneLeftHooked`: outside
of the trial and the commit no built-in chain jumps to what `CFWTMP_` names.

**`KeepsPromise`: `Spec => PromiseKept`** (`FwLiveProofs`), the refinement of
`CommitConfirm`, under `KillOutsideTrial`. `PromiseStarts` maps the initial states,
`PromiseNext` each action to a step or a stutter: `StartBuild` is `Declare`; the first
delegate of a new ruleset, or without one `StartApply`, is `Try`; a step of a hook loop and a
flush of the cleanup that meets a trial is `Switch` at one hook or nothing; `AnswerYes` is `Confirm`,
with every hook on the new side; the removal of the last delegate, the end of a
rollback and of a trial without delegates is `Withdraw`, with every hook back. Every other
action is a stutter, the whole commit included. `TmpSpent` is the addition: once a
y, `CFWTMP_` has no delegate that a later step could put on trial.

**`SetsStayPristine`: `Spec => []LiveSetsPristine`** (`FwSetsProofs`). Hypothesis
`KillOutsideNumber`: not between the last rename and the end of `fw_commit`, where an
interruption leaves the old version in force for a ruleset that has the next one, which is the
disagreement `version`. The live ruleset has the sets of `Ver`, the one being built those
of `Ver + 1` (`LiveSets`, `GenSets`), and nothing is in `Ver + 1` when a build begins
(`NextGone`). `destroy` is refused while a rule matches on the set, so this needs to say
whose rules are left (`FullNumber`: those of a chain `CFW_` or `CFWTMP_` names, or of
an earlier version) and which sets foreign rules can hold (`HeldNumber`: none that is not
confirmed).

**`SavesWhatIsConfirmed`: `Spec => []BootIsConfirmed`** (`FwSetsProofs`), under the same
hypothesis: entries of a build that was not confirmed are in the sets of `Ver + 1` and
nowhere else (`SetsConfirmed`), and these are gone, with `CFWTMP_`, before the first redirect
(`NextGone`, `NoTmpToSave`).

**`LeavesNothing`: `Spec => []NothingLeftOver`** (`FwSetsProofs`), under the same hypothesis
and `ForeignRefs = FALSE`: a foreign jump keeps a `CFWDEL_` chain (`fw_cleanup:27-28`),
which is not left over by mistake, and the run `kept_chain` is about it. Every
filled chain is one a prefix names (`FullNamed`), so that the flushes of `CFWDEL_` leave no
rule of the ruleset before (`DelFlushed`, `DelGone`) and its sets can be destroyed; and the
sets there are, of any number of reloads, are those of the version and its two neighbours
(`Near`), the only ones the cleanup looks at.

**`SavesNoFlaw`: `Spec => []BootIsFlawless`** (`FwSetsProofs`), under the hypotheses of
`LeavesNothing`: a failure is remembered in `$FAIL` to the end of the reload that met it
(`FlawPart`), which then does not save; and what a later reload saves is its own build and
nothing else (`OnlyTheLast`, `SavesThisBuild`), so that the chains of a committed ruleset with
a failed rule are gone from the kernel by then. With foreign rules they need not be.

`TmpIsCurrent`, `TmpApart`, `TmpWhole` and the other invariants above are what all seven start from.
The hypotheses leave out as little as the code lets them: `KillSafely`, what the run `safely`
interrupts, is every phase outside `TrialPhase` and `NumberPhase`.

### The host that goes down

After a boot nothing holds that the reload leaves behind by itself: a boot may have
restored one family and not the other, rules without their sets or sets without rules,
or a commit file may name a step of a commit whose chains are gone. The theorems of
`FwBootProofs` therefore start from an invariant that any leftovers satisfy.

**`BootsBringBack`: `BootSpec => []BootRestores`**, with no hypothesis on `KillAt`: host and
reload may stop in any state. The argument goes from the kernel to the disk and back:

- `AnyState`: what is true of any leftovers: a jump is to a chain that a prefix names, and
  so is every chain with rules; a set has the version its build chose; nothing from
  elsewhere holds a chain or a set. What `ConfirmedOnly` rests on holds across boots too.
- `RunInv`: what one reload makes of them, followed from its build to its save. The chains
  it builds, hooks and renames (`RunBuild`, `RunNames`, `RunJumps`, `RunFull`) are its own
  whatever was there before, because each step builds on one it did itself (`SiteInv`:
  only `fw_apply` goes on to save, a resumed commit does not). At the save the kernel is
  the ruleset that was tried and nothing else.
- `DiskInv`: so a file of rules that names a generation is what that generation, confirmed,
  prints (`Image`), and the sets in `ipset.list` are those their builds made.
- `BootPart`: the lines of `cfirewalld-start` one by one. A family not yet restored is
  bare (`NotYet`); with a finished save each line brings back its part (`Back`), and no table
  is refused, because the sets are there before.

**`RestoredRulesetStays`: `BootSpec => []RestoredStays`**. Hypothesis `KillOutsideTrial`, as
for `AlwaysFiltered`; the host may still go down in every state. `RestoredLive` is the
bridge: when the boot of a finished save is over and no commit is pending, the state
satisfies the invariant behind `AlwaysFiltered` (`LiveInv`), although its version is only
found among the sets and no reload led to it. From there on `LiveNext` applies unchanged,
up to the next time the host goes down.

**`BootCommitsConfirmed`: `BootSpec => []OnlyConfirmedCommitted`**, with no hypothesis on
`KillAt`. A chain that comes back is of a confirmed generation (`DiskInv`), and a commit file
that comes through the reboot names the one it was written for, which is confirmed still:
`ComeUp` changes `confirmed` only where there is no commit file.

### The helper

**`ScratchGone`: `Spec => []ScratchRemoved`** (`CfwBuildProofs`). A scratch chain that is
left is one the cleanup failed to remove (`unremoved`). Inductive with one addition: nothing
is prepared before rules are built, which is when the helper dies without a cleanup.

**`BuildTypes`: `Spec => []BuildTypeOK`** (`CfwBuildProofs`). Needs that a cached verdict
names families that do accept the tail (`CacheSound`).

**`LoadsWhole`: `Spec => []LoadedWhole`** (`CfwBuildProofs`). `NamesInv`: what each phase
has settled about names stays settled, as configuration and answers no longer change.
`SetsInv`: the sets are those of the aliases the loop has passed, and after it of all.
`OrderInv`: nothing is in the kernel before everything is built, and no chain before the
sets. That an alias has a member follows from its name having an answer.

**`LoadsTaken`: `Spec => []LoadsAreTaken`** (`CfwBuildProofs`). That `ipset` takes the sets
is a fact about names: the name of a set tells its alias and family (`SetNameInjective`, from
`check_name_suffix`) and is short enough (`SetNameFits`), so no two aliases meet in one set.
That the tables are taken follows rule by rule (`RulesInv`, `Taken`): accepted by the family's
binary, matching on a set that was built or an address of that family.

**`OneAnswer`: `Spec => []AliasesAgree`** (`CfwBuildProofs`). The sets of an alias are its
host's one answer, and no other alias adds to them.

### Both paths

**`OnePolicy`: `Spec => []SamePolicy`** (`BuildPathsProofs`). The two paths keep nothing in
common while they run, so each is compared with a third thing that only the configuration,
the answers and the binaries determine: the sets of all aliases (`SetsOf`), and for each
chain the list of the declarations that feed it (`Feeds`, `Lists`). Induction over the
declarations is out of the prover's reach, so a list is not computed: it is known by its
length and by where each feeding declaration stands in it, which is how many feed the chain
up to that one. One more declaration appends to it or leaves it (`ListsNext`), and there is
one such list (`ListsUnique`).

`ShellInv` says that what the scripts have in the kernel is the list and the sets of the
declarations before `line`; `HelperInv` says the same of the rules the helper has made before
`next`, and that a loaded table is the one that was made. Where each hypothesis is needed:

- `AliasesFirst`: the scripts match on a set as it stands. That the declarations of the alias
  have all been passed makes it the finished one (`SetsComplete`), as no other alias has a
  set of that name.
- `~Shadowed`: an endpoint with an alias's name is looked up by the helper otherwise.
- `Steady`: a name is looked up by the scripts whenever it is met, by the helper once.
- That the scripts end well: a rule whose endpoint has no set, or that jumps to a chain
  which is not there, ends them. A chain is made in both families at once
  (`BothFamilies`), so a jump one family takes is taken by the other too.
- That the helper ends well: its rules are offered to families that do not take them when the
  prober is degraded, and the list is then the right one only because every table was taken
  (`AllAccepted`, from `KernelInv`).

The proof needs two facts about names that `ConfigAssumption` states: a name is written with a
dot or could be an alias's, and no host has a name with `_v6` appended, as a host has no
underscore (`decl.rs`, `resolve.rs`).

Model-checked only: `ReloadEnds` and `CommitFinalised`, as fairness is outside the prover's
reach; and `LiveSetsPristine` under `BootSpec`, which `boot` checks. `SetsStayPristine` goes
by the version file, which a boot loses: the version is then the highest among the restored
sets, of a save that need not have been finished, and the proof would have to say what
that can be.

## What is not modelled

- More than one encounter of two reloads, and two that run command by command beside each
  other: nothing in the code makes either right, so there is no property to check.
- What a power failure leaves of a file whose command had ended.
- `conntrackd`, the traps around it, the log socket, `sudo`, tracing and messages: they
  touch no ruleset.
- The rules inside a delegate chain: it is filled in one step with the chain.
- Texts: the encoding of declarations, quoting, the restore streams, protocols, the digits
  of a port, and what makes a host an address, which both paths are given alike. Tails are opaque in the code too.
- Wrappers, templates and the example configuration: data, and a change of directory.
- `get_current_ips_version` finding the highest version among sets of hundreds: the
  model takes the maximum of what is there, at least 1, which is what the loop leaves in
  the file.
- The refusal of a loop of chains by `iptables-restore` and by the scripts' `iptables`.
- Packaging, Makefile, CI, hooks, tests and the virtual machine harness.

## Plan

Done: the reload with its properties and refinement; the boot; a second reload; both build
paths, the degraded prober included; twenty-one theorems.

Left, in this order:

1. `LiveSetsPristine` for `BootSpec`, with the version found among the restored sets.
2. The set that is kept for good (`fw_cleanup:45`), if the code is to promise anything about it.
