SPECIFICATION FairSpec
CONSTANTS
  Chain <- MCChain
  Hook <- MCHook
  Table <- MCTable
  NoHook = "nohook"
  HookOf <- MCHookOf
  TableOf <- MCTableOf
  Config <- MCOneConfig
  Unaliased <- NoConfig
  MaxGen = 3
  KillAt <- KillNowhere
  HelperPath = TRUE
  ForeignRefs = TRUE
PROPERTY CommitCanBeRunAgain
