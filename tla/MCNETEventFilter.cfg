CONSTANTS
  Windows = {1, 2}
  Struts = {0, 1}
  MaxChanges = 2
SPECIFICATION Spec
CHECK_DEADLOCK FALSE
INVARIANTS
  ListsFollow
  OnlyChangesAnnounced
  StrutCacheFresh
  StrutListenerUpToDate
  CompositingKnown
