---------------------------- MODULE CommitConfirm ----------------------------
(***************************************************************************)
(* What a reload promises whoever sends packets through the host: at every  *)
(* hook the confirmed ruleset decides, except while a new one is on trial,  *)
(* when some hooks may already have been switched to it.  A trial ends with *)
(* every hook switched and the ruleset confirmed, or with every hook back.  *)
(* There is no third verdict: a hook both rulesets cover is never left to   *)
(* neither of them.                                                         *)
(***************************************************************************)
EXTENDS Naturals

CONSTANTS Hook, MaxGen

VARIABLES
  running,   \* the ruleset last confirmed, 0 before the first
  trial,     \* the ruleset on trial, 0 when there is none
  covers,    \* the hooks each ruleset has rules for
  decides    \* what decides at each hook, 0 for nothing

cvars == <<running, trial, covers, decides>>

Ruleset == 1..MaxGen

Verdict(g, h) == IF g # 0 /\ h \in covers[g] THEN g ELSE 0

CInit ==
  /\ running = 0 /\ trial = 0
  /\ covers = [g \in Ruleset |-> {}]
  /\ decides = [h \in Hook |-> 0]

\* A ruleset not tried before is written down.
Declare ==
  /\ \E g \in Ruleset, hs \in SUBSET Hook :
       /\ g > running /\ g # trial
       /\ covers' = [covers EXCEPT ![g] = hs]
  /\ UNCHANGED <<running, trial, decides>>

Try ==
  /\ trial = 0
  /\ trial' \in {g \in Ruleset : g > running}
  /\ UNCHANGED <<running, covers, decides>>

\* A hook goes from one verdict to the other, forwards or backwards.
Switch ==
  /\ trial # 0
  /\ \E h \in Hook :
       \/ decides' = [decides EXCEPT ![h] = Verdict(trial, h)]
       \/ decides' = [decides EXCEPT ![h] = Verdict(running, h)]
  /\ UNCHANGED <<running, trial, covers>>

Confirm ==
  /\ trial # 0
  /\ \A h \in Hook : decides[h] = Verdict(trial, h)
  /\ running' = trial /\ trial' = 0
  /\ UNCHANGED <<covers, decides>>

Withdraw ==
  /\ trial # 0
  /\ \A h \in Hook : decides[h] = Verdict(running, h)
  /\ trial' = 0
  /\ UNCHANGED <<running, covers, decides>>

CNext == Declare \/ Try \/ Switch \/ Confirm \/ Withdraw

CSpec == CInit /\ [][CNext]_cvars
=============================================================================
