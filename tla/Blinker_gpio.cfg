\* The gpio server with the blinker and another client.
SPECIFICATION Spec
CONSTANTS
  blink = blink  c1 = c1
  Scoid = {blink, c1}
  Null = Null
  PortSize = 4
  CfgPins = 2
  GPIO_L = 1
  PinWidth = 256
  PinRequests <- SomePins
  LedPin = 1
CHECK_DEADLOCK FALSE
INVARIANTS
  TypeOK
  EveryClientFound
PROPERTIES
  PinsIsolated
  ImplementsSessions
  Blinks
