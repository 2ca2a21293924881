------------------------------- MODULE OutPin -------------------------------
(***************************************************************************)
(* The driver of a relay.  Turning it on or off, and the delayed callback  *)
(* of a turn on, first set what the software believes and call onOutpin(), *)
(* which logs, and then write the pin; any task may call them, and any may *)
(* ask isOn(), which corrects the belief to the pin, in between.           *)
(***************************************************************************)
EXTENDS Naturals

CONSTANTS
    Loop,       \* the task of the loop
    PinTasks    \* the tasks that use the pin

ASSUME OutPinAssumption == Loop \in PinTasks

VARIABLES
    percentOn,      \* _percentOn > 0: what the software believes
    level,          \* the pin, HIGH for on
    transitioning,  \* _transitioning
    armed,          \* whether _tsk, the delayed callback, is enabled
    call,           \* what each task is doing with the pin
    lastCall,       \* whether the last turnOn() or turnOff() was turnOn()
    overlapped      \* whether calls overlapped since a call that did not

pinVars ==
    <<percentOn, level, transitioning, armed, call, lastCall, overlapped>>

Calls == {"none", "on", "off", "delayed on", "delayed off"}

PinTypeOK ==
    /\ percentOn \in BOOLEAN /\ level \in BOOLEAN
    /\ transitioning \in BOOLEAN /\ armed \in BOOLEAN
    /\ call \in [PinTasks -> Calls]
    /\ lastCall \in BOOLEAN /\ overlapped \in BOOLEAN

Idle == \A t \in PinTasks : call[t] = "none"
Enter(t, what) == call[t] = "none" /\ call' = [call EXCEPT ![t] = what]
Leave(t) == call' = [call EXCEPT ![t] = "none"]

-----------------------------------------------------------------------------
\* turnOn() and turnOff() up to the callback.
TurnBegins(t, on) ==
    /\ Enter(t, IF on THEN "on" ELSE "off")
    /\ percentOn' = on
    /\ transitioning' = TRUE
    /\ lastCall' = on
    /\ overlapped' = ~Idle
    /\ UNCHANGED <<level, armed>>

\* The callback accepted: the task is started anew or stopped, the pin written.
TurnEnds(t) ==
    /\ call[t] \in {"on", "off"}
    /\ level' = (call[t] = "on") /\ armed' = (call[t] = "on")
    /\ transitioning' = FALSE
    /\ Leave(t)
    /\ UNCHANGED <<percentOn, lastCall, overlapped>>

\* Callback(), once, after the delay: turnOnPercent() of the percentage there is
\* now ...
DelayBegins ==
    /\ armed
    /\ armed' = FALSE
    /\ Enter(Loop, IF percentOn THEN "delayed on" ELSE "delayed off")
    /\ transitioning' = TRUE
    /\ overlapped' = (overlapped \/ ~Idle)
    /\ UNCHANGED <<percentOn, level, lastCall>>

\* ... and was when it began.
DelayEnds ==
    /\ call[Loop] \in {"delayed on", "delayed off"}
    /\ level' = (call[Loop] = "delayed on")
    /\ transitioning' = FALSE
    /\ Leave(Loop)
    /\ UNCHANGED <<percentOn, armed, lastCall, overlapped>>

WrongCorrects == percentOn # level

Corrects == ~transitioning /\ percentOn # level

\* isOn() at rest takes the pin's word.
IsOn ==
    /\ Corrects
    /\ percentOn' = level
    /\ UNCHANGED <<level, transitioning, armed, call, lastCall, overlapped>>

\* initPin() and the turnOff() of begin().
PinStart ==
    /\ percentOn' = FALSE /\ level' = FALSE
    /\ transitioning' = FALSE /\ armed' = FALSE
    /\ call' = [t \in PinTasks |-> "none"]
    /\ lastCall' = FALSE /\ overlapped' = FALSE

PinInit ==
    /\ percentOn = FALSE /\ level = FALSE
    /\ transitioning = FALSE /\ armed = FALSE
    /\ call = [t \in PinTasks |-> "none"]
    /\ lastCall = FALSE /\ overlapped = FALSE

PinNext ==
    \/ \E t \in PinTasks, on \in BOOLEAN : TurnBegins(t, on)
    \/ \E t \in PinTasks : TurnEnds(t)
    \/ DelayBegins \/ DelayEnds \/ IsOn \/ PinStart

PinSpec == PinInit /\ [][PinNext]_pinVars

-----------------------------------------------------------------------------
(* Properties *)

\* Between calls that do not overlap the relay is where the last one wanted
\* it, and the software knows: neither the delayed callback nor an isOn() of
\* another task while the relay changes gets in the way; and one call alone
\* sets right what calls that overlapped left behind.
PinFollows ==
    Idle /\ ~overlapped => level = lastCall /\ percentOn = lastCall

=============================================================================
