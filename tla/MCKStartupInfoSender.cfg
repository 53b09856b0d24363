SPECIFICATION Spec
CONSTANTS
  MaxNumber = 12
  Modulus = 10
  Payloads <- PayloadsDef
  Changes <- ChangesDef
  ForeignNames <- ForeignNamesDef
  Screen = 0
  StartTime = 8
  MaxTime = 11
  MaxIds = 2
  MaxMessages = 3
  MaxInFlight = 1
INVARIANTS Understood LaunchEnds UserTimeLatest
\* Bounded messages and time run out.
CHECK_DEADLOCK FALSE
