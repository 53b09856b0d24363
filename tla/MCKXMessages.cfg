CONSTANTS
  Senders = {s1, s2}
  Receivers = {r1}
  FragmentSize = 2
  Messages <- MCMessages
  MaxSent = 3
  MaxNesting = 0
SPECIFICATION FairSpec
CHECK_DEADLOCK FALSE
PROPERTY BroadcastIsAtomic
PROPERTY EverythingDelivered
