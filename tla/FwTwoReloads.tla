---------------------------- MODULE FwTwoReloads ----------------------------
(***************************************************************************)
(* A second fw_reload, started by somebody else while the first one waits   *)
(* at its prompt: no lock keeps them apart, and each has a $CACHEDIR of its *)
(* own.  The second one gets as far as it can in the time the prompt is     *)
(* open; then the first one is answered, or is not, and goes on.            *)
(*                                                                          *)
(* Bound: one such encounter.  While the first reload is at its prompt its  *)
(* loops have nothing left, and once it goes on the second one stands still:*)
(* what each loop lists is what is there while it runs, as in FwReload.     *)
(***************************************************************************)
EXTENDS FwReloadProps

VARIABLES
  turn,     \* which reload runs: "first", "second", or the "first_again"
  waiting   \* pc, site, cur, gen and fail of the reload that does not run

tvars == <<vars, turn, waiting>>

Parked == [pc |-> pc, site |-> site, cur |-> cur, gen |-> gen, fail |-> fail]

\* The prompt is open, and another terminal runs fw_reload.
SecondReload ==
  /\ turn = "first" /\ pc = "ask"
  /\ turn' = "second" /\ waiting' = Parked
  /\ IF commitFile # NoFile THEN StartCommit("start") ELSE StartCleanup("start")
  /\ fail' = FALSE
  /\ UNCHANGED <<kernel, commitFile, saved, gen, history>>

\* The prompt of the first one is answered or runs out of time.
FirstGoesOn ==
  /\ turn = "second"
  /\ turn' = "first_again" /\ waiting' = Parked
  /\ pc' = waiting.pc /\ site' = waiting.site /\ cur' = waiting.cur
  /\ gen' = waiting.gen /\ fail' = waiting.fail
  /\ todo' = {}
  /\ UNCHANGED <<kernel, files, history>>

\* Neither of them is run a second time after they have met.
ReloadStep ==
  /\ Next
  /\ turn # "first" => pc # "idle"
  /\ UNCHANGED <<turn, waiting>>

TwoInit == Init /\ turn = "first" /\ waiting = Parked
TwoNext == ReloadStep \/ SecondReload \/ FirstGoesOn
TwoSpec == TwoInit /\ [][TwoNext]_tvars
=============================================================================
