CONSTANTS
  Owners = {o1, o2}
  Watchers = {}
  MaxWindow = 2
  MaxTime = 1
  MaxAccidents = 0
SPECIFICATION Spec
CHECK_DEADLOCK FALSE
PROPERTY ClaimedMeansOwned
