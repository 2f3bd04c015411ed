SPECIFICATION FairSpec
CONSTANTS
  eth0 = eth0
  eth1 = eth1
  eth2 = eth2
  lo = lo
  usb0 = usb0
  Ifs = {eth0, eth1, eth2}
  Ignored = {lo, usb0}
  Files <- AnyDevices
  Slots = 2
  Addrs = {a1}
  Ports = {p1, p2}
  RxMax = 1
  MaxChanged = 1
  Garbage = {"dev_num", "hdl", "ip_addr"}
  Junk = Junk
  Nothing = Nothing
INVARIANTS
  CorruptOnlyIf
  NoSocketLeft
  RepliesTruthful
PROPERTIES
  ImplementsResponder
  ReleaseReturns
  LowerSlotFirst
CHECK_DEADLOCK FALSE
