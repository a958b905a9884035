SPECIFICATION BootSpec
CONSTANTS
  Chain <- MCChain
  Hook <- MCHook
  Table <- MCTable
  NoHook = "nohook"
  HookOf <- MCHookOf
  TableOf <- MCTableOf
  Config <- MCConfig
  Unaliased <- MCUnaliased
  MaxGen = 3
  KillAt <- KillSafely
  HelperPath = TRUE
  ForeignRefs = FALSE
  Inet6 <- MCInet6
  KeepsTmp = TRUE
INVARIANTS
  BootRestores
  RestoredStays
  LiveSetsPristine
  OnlyConfirmedCommitted
