SPECIFICATION Spec
CONSTANTS
  Chain <- MCChain
  Hook <- MCHook
  Table <- MCTable
  NoHook = "nohook"
  HookOf <- MCHookOf
  TableOf <- MCTableOf
  Config <- MCConfig
  Unaliased <- NoConfig
  MaxGen = 2
  KillAt <- KillBuildAndCommit
  HelperPath = TRUE
  ForeignRefs = TRUE
INVARIANTS
  IdlePathIsRunning
  NeverUnfiltered
