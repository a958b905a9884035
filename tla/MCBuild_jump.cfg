SPECIFICATION Spec
CONSTANTS
  Address <- MCAddress
  FamilyOf <- MCFamilyOf
  Dns <- MCDns
  Dotted <- MCDotted
  Answers <- MCAnswers
  Alias <- MCAlias
  V6Name <- MCV6Name
  Length <- MCLength
  PrefixLength = 7
  Table <- MCTable
  ZoneChain <- MCZoneChain
  GlobalChain <- MCGlobalChain
  LongChain <- MCLongChain
  Misnamed <- MCMisnamed
  Hyphened <- MCHyphened
  ShellChain <- MCShellChain
  Option <- MCOption
  NoJump = "nojump"
  Accepts <- MCAccepts
  Config <- MCSmallConfig
  ProbeMayFail = FALSE
  LeftScratch <- MCNoScratch
INVARIANTS
  HelperTakesWhatShellTakes
CHECK_DEADLOCK FALSE
