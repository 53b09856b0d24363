SPECIFICATION Spec
CONSTANTS
  Modulus = 10
  Codes <- CodesDef
  Accepts <- AcceptsDef
  MaxRequests = 11
  MaxInFlight = 2
  MaxDepth = 3
INVARIANT OlderErrorsPassed
