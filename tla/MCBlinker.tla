----------------------------- MODULE MCBlinker -----------------------------
(***************************************************************************)
(* Small instances of Blinker: ports of four pins, one of them mapped.     *)
(***************************************************************************)
EXTENDS Blinker

CONSTANT c1

\* Pins of the same port and register and of another port, one behind the other
\* base, and one past GPIO_PINS.
SomePins == {1, 0, 4, 9}
\* The pins that the check of GpioOpen lets through or should not: the largest
\* mapped, the first behind the other base, GPIO_PINS itself and negative ones.
OddPins == {1, 3, 4, 8, 9, -1, -2}
=============================================================================
