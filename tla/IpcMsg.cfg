SPECIFICATION FairSpec
CONSTANTS
  s1 = s1
  s2 = s2
  Senders = {s1, s2}
  Instances = {i1, i2}
  MaxSends <- Sends
  Backlog = 1
  FdLimit = 1
  NoOne = NoOne
INVARIANTS
  OnlyOverlapHides
PROPERTIES
  ImplementsMailbox
  SendsReturn
  WrittenIsHandedOver
CHECK_DEADLOCK FALSE
