------------------------------- MODULE FwBoot -------------------------------
(***************************************************************************)
(* A host that goes down and comes up again: the kernel and /run are lost,  *)
(* /var/lib/cfirewalld stays as far as it was written, and at boot, before  *)
(* the network and any fw_reload, cfirewalld-start restores its three files.*)
(*                                                                          *)
(* FwReload only says whose chains a saved file holds; `disk` is what they  *)
(* are.  The files are written while kernel and files are at rest, so that  *)
(* a save is the kernel as it is when its command ends.                     *)
(***************************************************************************)
EXTENDS FwReloadProps

CONSTANTS
  Inet6,      \* the chains and hooks of the ip6tables tables
  KeepsTmp    \* TRUE: /tmp may come through a reboot

ASSUME BootAssumption ==
  /\ Inet6 \subseteq Name
  /\ \A c \in Chain : HookOf[c] # NoHook => (c \in Inet6 <=> HookOf[c] \in Inet6)
  /\ KeepsTmp \in BOOLEAN
  /\ ~ForeignRefs

VARIABLES
  disk,      \* what each file of /var/lib/cfirewalld would restore
  bootLine,  \* the line cfirewalld-start is at, 0 when the host is up
  restored   \* history: the ruleset the last boot brought back with no commit
             \* pending, 0 when that is none or not all of one

bvars == <<vars, disk, bootLine, restored>>

\* The names a file of rules is about.
Part(f) == IF f = "v6" THEN Name \cap Inet6 ELSE Name \ Inet6

-----------------------------------------------------------------------------
(* What the three commands print, and what a truncated file holds.          *)

RulesOf(f) ==
  [names |-> [p \in Prefix |-> [n \in Part(f) |-> named[p][n]]],
   full |-> {o \in full : o[2] \in Part(f)},
   jump |-> [h \in Hook \cap Part(f) |-> jump[h]]]

NoRules(f) ==
  [names |-> [p \in Prefix |-> [n \in Part(f) |-> 0]],
   full |-> {},
   jump |-> [h \in Hook \cap Part(f) |-> <<>>]]

SaveOf(f) == IF f = "ipset" THEN sets ELSE RulesOf(f)
EmptySave(f) == IF f = "ipset" THEN {} ELSE NoRules(f)

SavePhaseOf == [v4 |-> "save_v4", v6 |-> "save_v6", ipset |-> "save_ipset"]

\* Entering a file's phase has truncated it; the command that leaves it has
\* written it, unless the reload died in between.
Written(f) ==
  IF pc' = SavePhaseOf[f] /\ pc # pc' THEN EmptySave(f)
  ELSE IF pc = SavePhaseOf[f] /\ pc' \notin {pc, "idle"} THEN SaveOf(f)
  ELSE disk[f]

ReloadStep ==
  /\ bootLine = 0
  /\ Next
  /\ disk' = [f \in SavedFile |-> Written(f)]
  /\ UNCHANGED <<bootLine, restored>>

-----------------------------------------------------------------------------
(* Going down, in the middle of whatever runs, and coming up.               *)

GoDown ==
  /\ bootLine = 0 /\ gen > 0
  /\ bootLine' = 1 /\ restored' = 0
  /\ named' = [p \in Prefix |-> [n \in Name |-> 0]]
  /\ full' = {} /\ held' = {} /\ sets' = {} /\ heldSets' = {}
  /\ jump' = [h \in Hook |-> <<>>]
  /\ version' = NoVersion
  /\ commitFile' \in IF KeepsTmp THEN {commitFile, NoFile} ELSE {NoFile}
  /\ Exit /\ fail' = FALSE
  /\ UNCHANGED <<saved, gen, history, disk>>

\* Fault: the rules are restored before the sets they match on.
RulesFirst == <<"v4", "v6", "ipset">>

\* The lines of cfirewalld-start, each of which runs whatever the one before did.
StartScript == <<"ipset", "v4", "v6">>
Booting == bootLine \in 1..Len(StartScript)

\* ConditionFileNotEmpty: without a set to restore the unit does not start.
SkipUnit ==
  /\ bootLine = 1 /\ disk["ipset"] = {}
  /\ bootLine' = Len(StartScript) + 1
  /\ UNCHANGED <<vars, disk, restored>>

\* iptables-restore refuses a table with a rule that matches on a missing set,
\* and each of a ruleset's chains has such a rule when there are aliases.
RulesRefused(rules) ==
  \E o \in rules.full :
    /\ o[2] \in Chain /\ content[o[1]] \notin Unaliased
    /\ ~\E s \in sets : s[1] = setver[o[1]]

RestoreFile ==
  /\ Booting /\ disk["ipset"] # {}
  /\ LET f == StartScript[bootLine]
     IN  \/ /\ f = "ipset"
            /\ sets' = disk[f]
            /\ UNCHANGED <<named, full, jump>>
         \/ /\ f # "ipset" /\ RulesRefused(disk[f])
            /\ UNCHANGED <<named, full, jump, sets>>
         \/ /\ f # "ipset" /\ ~RulesRefused(disk[f])
            /\ named' = [p \in Prefix |-> [n \in Name |->
                 IF n \in Part(f) THEN disk[f].names[p][n] ELSE named[p][n]]]
            /\ full' = full \cup disk[f].full
            /\ jump' = [h \in Hook |-> IF h \in Part(f) THEN disk[f].jump[h] ELSE jump[h]]
            /\ UNCHANGED sets
  /\ bootLine' = bootLine + 1
  /\ UNCHANGED <<held, heldSets, files, process, history, disk, restored>>

\* The files of one finished save, of the ruleset g.
SavedWhole(g) == \A f \in SavedFile : saved[f] = {g}

\* The network starts, and operators log in.  The ruleset a boot brought back is
\* the one in force: what was confirmed after it was not saved, and is lost.
ComeUp ==
  /\ bootLine = Len(StartScript) + 1
  /\ bootLine' = 0
  /\ restored' = IF commitFile = NoFile /\ \E g \in Gen : SavedWhole(g)
                 THEN CHOOSE g \in Gen : SavedWhole(g) ELSE 0
  /\ confirmed' = IF restored' = 0 THEN confirmed ELSE {restored'}
  /\ UNCHANGED <<kernel, files, process, content, setver, flawed, disk>>

BootInit ==
  /\ Init
  /\ disk = [f \in SavedFile |-> EmptySave(f)]
  /\ bootLine = 0 /\ restored = 0

BootNext == ReloadStep \/ GoDown \/ SkipUnit \/ RestoreFile \/ ComeUp

BootSpec == BootInit /\ [][BootNext]_bvars

-----------------------------------------------------------------------------
\* The whole of a ruleset decides at each of its hooks and at no other.
InCharge(g) ==
  \A h \in Hook :
    /\ jump[h] = IF h \in HooksOf(g) THEN <<g>> ELSE <<>>
    /\ h \in HooksOf(g) => Intact(g, h)

\* A boot from a finished save brings back the ruleset that was saved, whole, in
\* charge of every hook it had, and over the sets it was built with.
BootRestores ==
  bootLine = Len(StartScript) + 1 =>
    \A g \in Gen : SavedWhole(g) => g \in confirmed /\ InCharge(g) /\ sets = OwnSets(g)

\* What a boot brought back stays in the path until another ruleset takes over:
\* a reload that finds no version file and whose numbers start from what was
\* restored does not touch it.
RestoredStays ==
  bootLine = 0 /\ restored # 0 =>
    /\ confirmed # {}
    /\ \A h \in CoreHook : Decides(h) \in {Running, gen} \ {0} /\ Intact(Decides(h), h)
=============================================================================
