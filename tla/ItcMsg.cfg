SPECIFICATION FairSpec
CONSTANTS
  Senders = {sender, both}
  Receivers = {receiver, both}
  Values = {v1, v2}
  Capacity = 2
  MaxSignals = 1
PROPERTIES
  SendsReturn
  ImplementsFifo
