CONSTANTS
  Owners = {o1, o2}
  Watchers = {}
  MaxWindow = 3
  MaxTime = 2
  MaxAccidents = 1
SPECIFICATION FairSpec
CHECK_DEADLOCK FALSE
INVARIANTS
  TypeOK
  OwnershipIsReal
  ClearIsNeverStale
  NoWindowLeak
  ClaimAnsweredOnce
  KillsOnlyUnresponsive
PROPERTY EveryClaimAnswered
