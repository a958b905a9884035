SPECIFICATION Spec
CONSTANTS
  Address <- MCAddress
  FamilyOf <- MCFamilyOf
  Dns <- MCDns
  Dotted <- MCDotted
  Answers <- MCAnswers
  Alias <- MCAlias
  V6Name <- MCV6Name
  Length <- MCLength
  PrefixLength = 7
  Table <- MCTable
  ZoneChain <- MCZoneChain
  GlobalChain <- MCGlobalChain
  LongChain <- MCLongChain
  Misnamed <- MCMisnamed
  Hyphened <- MCHyphened
  ShellChain <- MCShellChain
  Option <- MCOption
  NoJump = "nojump"
  Accepts <- MCAccepts
  Config <- MCConfig
  ProbeMayFail = TRUE
  LeftScratch <- MCLeftScratch
INVARIANTS
  BuildTypeOK
  SamePolicy
  LoadsAreTaken
  LoadedWhole
  AliasesAgree
  ScratchRemoved
CHECK_DEADLOCK FALSE
