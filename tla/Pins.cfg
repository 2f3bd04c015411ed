SPECIFICATION PinsFairSpec
CONSTANTS
  led = led
  wdi = wdi
  lamp = lamp
  di = di
  Script <- SomePins
  Led = led
  Wdi = wdi
  Lamp = lamp
  Targets = {wdi, di}
INVARIANTS
  FedUnlessTaken
PROPERTIES
  BothToggle
  EdgesReported
