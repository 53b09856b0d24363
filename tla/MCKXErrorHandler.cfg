SPECIFICATION Spec
CONSTANTS
  Modulus = 10
  Codes <- CodesDef
  Accepts <- AcceptsDef
  MaxRequests = 11
  MaxInFlight = 2
  MaxDepth = 3
INVARIANTS ErrorsRouted FirstErrorKept
\* A thread that waits for a lock it holds stops; so do bounded requests.
CHECK_DEADLOCK FALSE
