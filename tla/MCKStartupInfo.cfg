CONSTANTS
  Pids = {1, 2}
  ClassNames = {"", "0", "a", "b"}
  HostNames = {"", "h"}
  Ids = {1, 2}
  Payloads <- MCPayloads
  WindowKinds <- MCWindowKinds
  FlagChoices <- MCFlagChoices
  Timeouts = {1, 2}
  SilentFactor = 2
  EnvTimeout = {}
  MaxMessages = 3
  MaxWindows = 1
SPECIFICATION FairSpec
CHECK_DEADLOCK FALSE
INVARIANTS
  TypeOK
  MapsDisjoint
  ListenersAgree
  TimerRunsWhileNeeded
PROPERTY EverythingForgotten
