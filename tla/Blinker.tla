------------------------------ MODULE Blinker ------------------------------
(***************************************************************************)
(* The blinker (timer/main.c, sunxi/timer.c, sunxi/led.c) composed with    *)
(* the gpio server it drives its LED through, among other clients of it.   *)
(*                                                                         *)
(* Three things run: the main loop, the interrupt routine, and the timer.  *)
(* A call of the server is the server's handler together with the return   *)
(* of the call, for the caller waits for the response.                     *)
(***************************************************************************)
EXTENDS GpioServer

CONSTANTS
  blink,      \* the connection of the blinker, one of Scoid
  LedPin      \* 15, led.c's LED_PATH

ASSUME BlinkerAssumption ==
  /\ blink \in Scoid
  /\ LedPin \in PinRequests \cap MappedPins

LED_OFF == 0
LED_ON  == 1

VARIABLES
  main,      \* where main is
  led,       \* the state the LED is given next
  irqen,     \* the interrupt of TIMER is enabled
  irqsta,    \* and pending
  running,   \* TIMER is counting
  woken      \* InterruptWait has an interrupt to return with

timer == <<irqen, irqsta, running, woken>>
vars == <<gpioVars, main, led, timer>>

Init ==
  /\ GpioInit
  /\ main = "start" /\ led = LED_OFF
  /\ irqen \in BOOLEAN /\ irqsta = FALSE
  /\ running = FALSE /\ woken = FALSE

(***************************************************************************)
(* main.                                                                   *)
(***************************************************************************)
\* LedDriverInit: open(LED_PATH, O_WRONLY) attaches, then asks for the pin.
LedConnect ==
  /\ main = "start" /\ main' = "open"
  /\ GpioConnect(blink)
  /\ UNCHANGED <<led, timer>>

LedDriverInit ==
  /\ main = "open" /\ main' = "timer"
  /\ GpioOpen(blink, 1, LedPin, "O_WRONLY")
  /\ UNCHANGED <<led, timer>>

\* TimerInit(AUTO_RELOAD_TIMER) with TimerConfig, or mmap gave NULL: main
\* returns and the kernel disconnects what it had open.
TimerInit ==
  /\ main = "timer"
  /\ \/ main' = "enable" /\ irqen' = FALSE /\ running' = FALSE
     \/ main' = "exit" /\ UNCHANGED <<irqen, running>>
  /\ UNCHANGED <<gpioVars, led, irqsta, woken>>

Exit ==
  /\ main = "exit" /\ main' = "ended"
  /\ GpioDisconnect(blink)
  /\ UNCHANGED <<led, timer>>

\* Mutant: the interrupt is attached but not enabled in the timer.
AttachOnly ==
  /\ main = "enable" /\ main' = "timer_start"
  /\ UNCHANGED <<gpioVars, led, timer>>

TimerEnableInterrupt ==
  /\ main = "enable" /\ main' = "timer_start"
  /\ irqen' = TRUE
  /\ UNCHANGED <<gpioVars, led, irqsta, running, woken>>

TimerStart ==
  /\ main = "timer_start" /\ main' = "wait"
  /\ running' = TRUE
  /\ UNCHANGED <<gpioVars, led, irqen, irqsta, woken>>

TimerTickWait ==
  /\ main = "wait" /\ woken
  /\ main' = "led" /\ woken' = FALSE
  /\ UNCHANGED <<gpioVars, led, irqen, irqsta, running>>

\* Mutant: the state of the LED is counted up.
LedCount ==
  /\ main = "led" /\ main' = "wait"
  /\ GpioWrite(blink, 4, led)
  /\ led' = led + 1
  /\ UNCHANGED timer

\* Its result is not looked at.
LedSetState ==
  /\ main = "led" /\ main' = "wait"
  /\ GpioWrite(blink, 4, led)
  /\ led' = IF led = LED_ON THEN LED_OFF ELSE LED_ON
  /\ UNCHANGED timer

(***************************************************************************)
(* TIMER reloads itself.  An expiry while one is pending is merged with it *)
(* and so is an interrupt while main has not come back to wait.            *)
(***************************************************************************)
Expire ==
  /\ running /\ ~irqsta
  /\ irqsta' = TRUE
  /\ UNCHANGED <<gpioVars, main, led, irqen, running, woken>>

\* TimerISR: nothing reads the tick its user handler counts.  TimerInterruptAck
\* writes the pending bit, which clears it; the kernel lets InterruptWait return.
TimerISR ==
  /\ irqen /\ irqsta
  /\ irqsta' = FALSE
  /\ woken' = TRUE
  /\ UNCHANGED <<gpioVars, main, led, irqen, running>>

Blink ==
  \/ LedConnect \/ LedDriverInit \/ TimerInit \/ Exit
  \/ TimerEnableInterrupt \/ TimerStart \/ TimerTickWait \/ LedSetState

Others == \E c \in Scoid \ {blink} : GpioNext(c) /\ UNCHANGED <<main, led, timer>>

Next == Blink \/ TimerISR \/ Expire \/ Others

(***************************************************************************)
(* The kernel schedules main and takes pending interrupts; a timer that is *)
(* running expires.  Nothing is asked of the other clients.                *)
(***************************************************************************)
Spec == Init /\ [][Next]_vars /\ WF_vars(Blink) /\ WF_vars(TimerISR) /\ WF_vars(Expire)
-----------------------------------------------------------------------------
\* Type correctness of the blinker's own variables.
TypeOK ==
  /\ GpioTypeOK
  /\ main \in {"start", "open", "timer", "enable", "timer_start", "wait", "led",
               "exit", "ended"}
  /\ led \in {LED_OFF, LED_ON}
  /\ irqen \in BOOLEAN /\ irqsta \in BOOLEAN /\ running \in BOOLEAN /\ woken \in BOOLEAN

Stopped == fault # "none" \/ main = "ended"

\* timer/main.c:46-53 with the gpio server: while the server lives, the LED
\* goes on and off for ever, whatever the other clients do with its pin and
\* whenever ticks come.
Blinks ==
  \/ <>Stopped
  \/ []<>(dat[DatBit(LedPin)] = "high") /\ []<>(dat[DatBit(LedPin)] = "low")
=============================================================================
