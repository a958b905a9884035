SPECIFICATION Spec
CONSTANTS
  Chain <- MCChain
  Hook <- MCHook
  Table <- MCTable
  NoHook = "nohook"
  HookOf <- MCHookOf
  TableOf <- MCTableOf
  Config <- MCConfig
  Unaliased <- NoConfig
  MaxGen = 2
  KillAt <- KillAtPrompt
  HelperPath = TRUE
  ForeignRefs = FALSE
INVARIANT NoWindowWithoutRuleset
