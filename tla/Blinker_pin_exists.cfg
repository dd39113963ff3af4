\* A pin that the check of an open lets through and no register is behind.
SPECIFICATION Spec
CONSTANTS
  blink = blink  c1 = c1
  Scoid = {blink, c1}
  Null = Null
  PortSize = 4
  CfgPins = 2
  GPIO_L = 1
  PinWidth = 256
  PinRequests <- OddPins
  LedPin = 1
INVARIANT
  OpenedPinsExist
