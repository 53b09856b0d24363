CONSTANTS
  Word = 256
  MaxChanges = 3
  Topics <- MCTopics
  States <- MCStates
  StateCalls <- MCStateCalls
  Desktops <- MCDesktops
  WindowTypes <- MCWindowTypes
  TextValues <- MCTexts
  FourValues <- MCFours
  IconValues <- MCIcons
  ApplicationValues <- MCApplicationValues
SPECIFICATION Spec
CHECK_DEADLOCK FALSE
INVARIANTS
  BothKnow
  WishesHonoured
  IconFits
  GettersSuffice
