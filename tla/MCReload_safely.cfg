SPECIFICATION FairSpec
CONSTANTS
  Chain <- MCChain
  Hook <- MCHook
  Table <- MCTable
  NoHook = "nohook"
  HookOf <- MCHookOf
  TableOf <- MCTableOf
  Config <- MCConfig
  Unaliased <- MCUnaliased
  MaxGen = 3
  KillAt <- KillSafely
  HelperPath = FALSE
  ForeignRefs = FALSE
INVARIANTS
  NeverUnfiltered
  LiveSetsPristine
  NothingLeftOver
  BootIsConfirmed
  BootIsFlawless
PROPERTIES
  PromiseKept
  ReloadEnds
  CommitFinalised
