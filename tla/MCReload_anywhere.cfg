SPECIFICATION Spec
CONSTANTS
  Chain <- MCChain
  Hook <- MCHook
  Table <- MCTable
  NoHook = "nohook"
  HookOf <- MCHookOf
  TableOf <- MCTableOf
  Config <- MCConfig
  Unaliased <- MCUnaliased
  MaxGen = 3
  KillAt <- KillAnywhere
  HelperPath = FALSE
  ForeignRefs = FALSE
INVARIANTS
  TypeOK
  CommittedWhole
  OnlyConfirmedCommitted
  CommitsWhatIsApplied
  PathDuringCommit
