SPECIFICATION Spec
CONSTANTS
  Chain <- MCChain
  Hook <- MCHook
  Table <- MCTable
  NoHook = "nohook"
  HookOf <- MCHookOf
  TableOf <- MCTableOf
  Config <- MCConfig
  Unaliased <- NoConfig
  MaxGen = 3
  KillAt <- KillInVersion
  HelperPath = TRUE
  ForeignRefs = FALSE
PROPERTY BuildIsInert
