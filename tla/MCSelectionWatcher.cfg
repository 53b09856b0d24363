CONSTANTS
  Owners = {o1, o2}
  Watchers = {w1}
  MaxWindow = 2
  MaxTime = 1
  MaxAccidents = 0
SPECIFICATION Spec
CHECK_DEADLOCK FALSE
SYMMETRY Symmetry
INVARIANT WatcherConverges
