SPECIFICATION TwoSpec
CONSTANTS
  Chain <- MCChain
  Hook <- MCHook
  Table <- MCTable
  NoHook = "nohook"
  HookOf <- MCHookOf
  TableOf <- MCTableOf
  Config <- MCConfig
  Unaliased <- NoConfig
  MaxGen = 3
  KillAt <- KillNowhere
  HelperPath = TRUE
  ForeignRefs = FALSE
INVARIANT CommitsWhatIsApplied
CHECK_DEADLOCK FALSE
