-------------------------------- MODULE Input --------------------------------
(***************************************************************************)
(* The input service (applications/services/input/input.c): its thread     *)
(* debounces the pins and publishes Press, Short and Release; the press    *)
(* timer of each key, a FreeRTOS software timer, publishes Long and Repeat *)
(* from the timer task.  The service thread commands the timer through the *)
(* timer task's queue, and polls until the timer has stopped.              *)
(*                                                                         *)
(* Pins change at any moment.  A timer may expire whenever it is active;   *)
(* time enters only in that the first expiry comes 150 ticks after the     *)
(* start: after the Press that is published in the same scan, and after    *)
(* the commands that were queued together with the start.                  *)
(***************************************************************************)
EXTENDS Integers

CONSTANTS
    PinCount,           \* input_pins_count
    Debounce            \* INPUT_DEBOUNCE_TICKS

ASSUME InputAssumption ==
    /\ PinCount \in Nat \ {0}
    /\ Debounce \in Nat /\ Debounce % 2 = 0 /\ Debounce > 0

(* The keys, in the order of input_pins.                                   *)
PinKeys == 1..PinCount

LongPressCounts == 2

NoEvent == [key |-> 0, type |-> "none"]

VARIABLES
    pin,                \* the level of each pin, TRUE for pressed
    isr_flag,           \* INPUT_THREAD_FLAG_ISR of the service thread
    state,              \* pin_states[k].state
    debounce,           \* pin_states[k].debounce
    press_counter,      \* pin_states[k].press_counter
    numbered,           \* pin_states[k].counter has been assigned
    is_changing,        \* local of the scan
    at,                 \* the pin the scan is at
    scan_pc,            \* "scan", "stopping", "released" or "wait"
    active,             \* the press timer of k is active
    command,            \* the last command for k in the timer task's queue
    event               \* the event published last

inputVars == <<pin, isr_flag, state, debounce, press_counter, numbered, is_changing,
               at, scan_pc, active, command, event>>

InputInit ==
    /\ pin \in [PinKeys -> BOOLEAN]
    /\ isr_flag = FALSE
    /\ state = pin
    /\ debounce = [k \in PinKeys |-> Debounce \div 2]
    /\ press_counter = [k \in PinKeys |-> 0]
    /\ numbered = [k \in PinKeys |-> FALSE]
    /\ is_changing = FALSE /\ at = 1 /\ scan_pc = "scan"
    /\ active = [k \in PinKeys |-> FALSE]
    /\ command = [k \in PinKeys |-> "none"]
    /\ event = NoEvent

-----------------------------------------------------------------------------
(* furi_pubsub_publish: every subscriber is called under the pubsub's      *)
(* mutex, so the events of the two threads come one after the other.       *)
PublishEvent(k, type) == event' = [key |-> k, type |-> type]

(* The pins, and input_isr, which sets the thread's flag on either edge.   *)
PinChanges(k) ==
    /\ pin' = [pin EXCEPT ![k] = ~@]
    /\ isr_flag' = TRUE
    /\ UNCHANGED <<state, debounce, press_counter, numbered, is_changing, at, scan_pc, active,
                   command, event>>

-----------------------------------------------------------------------------
(* Mutant: the bound is tested too late.                                   *)
Debounced_OffByOne(k) ==
    CASE pin[k] /\ debounce[k] <= Debounce -> debounce[k] + 1
      [] ~pin[k] /\ debounce[k] > 0        -> debounce[k] - 1
      [] OTHER                             -> debounce[k]

(* The service thread.                                                     *)
Debounced(k) ==
    CASE pin[k] /\ debounce[k] < Debounce -> debounce[k] + 1
      [] ~pin[k] /\ debounce[k] > 0       -> debounce[k] - 1
      [] OTHER                            -> debounce[k]

IsStable(k) == Debounced(k) \in {0, Debounce}

(* The scan reads a pin; the next one follows, or the end of the scan.     *)
Advance(changing) ==
    /\ is_changing' = changing
    /\ IF at + 1 \in PinKeys
       THEN at' = at + 1 /\ scan_pc' = "scan"
       ELSE at' = 1 /\ scan_pc' = "wait"

(* Mutant: is_changing is assigned for every pin.                          *)
ScanQuiet_LastPinOnly ==
    /\ scan_pc = "scan"
    /\ IsStable(at) => state[at] = pin[at]
    /\ debounce' = [debounce EXCEPT ![at] = Debounced(at)]
    /\ Advance(~IsStable(at))
    /\ UNCHANGED <<pin, isr_flag, state, press_counter, numbered, active, command, event>>

(* A pin that bounces, or one that has its old level.                      *)
ScanQuiet ==
    /\ scan_pc = "scan"
    /\ IsStable(at) => state[at] = pin[at]
    /\ debounce' = [debounce EXCEPT ![at] = Debounced(at)]
    /\ Advance(is_changing \/ ~IsStable(at))
    /\ UNCHANGED <<pin, isr_flag, state, press_counter, numbered, active, command, event>>

(* A stable new level: the press timer is started and Press published.     *)
ScanPress ==
    /\ scan_pc = "scan" /\ IsStable(at) /\ ~state[at] /\ pin[at]
    /\ debounce' = [debounce EXCEPT ![at] = Debounced(at)]
    /\ state' = [state EXCEPT ![at] = TRUE]
    /\ numbered' = [numbered EXCEPT ![at] = TRUE]
    /\ command' = [command EXCEPT ![at] = "start"]
    /\ PublishEvent(at, "Press")
    /\ Advance(is_changing)
    /\ UNCHANGED <<pin, isr_flag, press_counter, active>>

(* ... or the stop of the timer is requested, and waited for.              *)
ScanRelease ==
    /\ scan_pc = "scan" /\ IsStable(at) /\ state[at] /\ ~pin[at]
    /\ debounce' = [debounce EXCEPT ![at] = Debounced(at)]
    /\ state' = [state EXCEPT ![at] = FALSE]
    /\ command' = [command EXCEPT ![at] = "stop"]
    /\ scan_pc' = "stopping"
    /\ UNCHANGED <<pin, isr_flag, press_counter, numbered, is_changing, at, active, event>>

(* Mutant: the queued stop is taken for a stopped timer.                   *)
TimerStopped_NoWait ==
    /\ scan_pc = "stopping"
    /\ scan_pc' = "released"
    /\ IF press_counter[at] < LongPressCounts THEN PublishEvent(at, "Short") ELSE UNCHANGED event
    /\ UNCHANGED <<pin, isr_flag, state, debounce, press_counter, numbered, is_changing, at,
                   active, command>>

(* furi_timer_is_running is false: a press that was not long becomes a     *)
(* Short.                                                                  *)
TimerStopped ==
    /\ scan_pc = "stopping" /\ ~active[at]
    /\ scan_pc' = "released"
    /\ IF press_counter[at] < LongPressCounts THEN PublishEvent(at, "Short") ELSE UNCHANGED event
    /\ UNCHANGED <<pin, isr_flag, state, debounce, press_counter, numbered, is_changing, at,
                   active, command>>

(* The press is over.                                                      *)
Release ==
    /\ scan_pc = "released"
    /\ press_counter' = [press_counter EXCEPT ![at] = 0]
    /\ PublishEvent(at, "Release")
    /\ Advance(is_changing)
    /\ UNCHANGED <<pin, isr_flag, state, debounce, numbered, active, command>>

(* Between scans: a tick while a pin is changing, else the interrupt flag. *)
NextScan ==
    /\ scan_pc = "wait"
    /\ is_changing \/ isr_flag
    /\ isr_flag' = (is_changing /\ isr_flag)
    /\ scan_pc' = "scan" /\ is_changing' = FALSE
    /\ UNCHANGED <<pin, state, debounce, press_counter, numbered, at, active, command, event>>

-----------------------------------------------------------------------------
(* The timer task.                                                         *)
(* It drains its queue before it looks at the time again.                  *)
TimerCommands ==
    /\ \E k \in PinKeys : command[k] # "none"
    /\ active' =
         [k \in PinKeys |-> IF command[k] = "none" THEN active[k] ELSE command[k] = "start"]
    /\ command' = [k \in PinKeys |-> "none"]
    /\ UNCHANGED <<pin, isr_flag, state, debounce, press_counter, numbered, is_changing, at,
                   scan_pc, event>>

(* input_press_timer_callback: Long at the second expiry, then Repeats.    *)
TimerCallback(k) ==
    /\ active[k]
    /\ \/ /\ press_counter[k] + 1 < LongPressCounts
          /\ press_counter' = [press_counter EXCEPT ![k] = @ + 1]
          /\ UNCHANGED event
       \/ /\ press_counter[k] + 1 = LongPressCounts
          /\ press_counter' = [press_counter EXCEPT ![k] = @ + 1]
          /\ PublishEvent(k, "Long")
       \/ /\ press_counter[k] + 1 > LongPressCounts
          /\ UNCHANGED press_counter
          /\ PublishEvent(k, "Repeat")
    /\ UNCHANGED <<pin, isr_flag, state, debounce, numbered, is_changing, at, scan_pc, active,
                   command>>

-----------------------------------------------------------------------------
ServiceStep == ScanQuiet \/ ScanPress \/ ScanRelease \/ TimerStopped \/ Release \/ NextScan

InputNext ==
    \/ \E k \in PinKeys : PinChanges(k) \/ TimerCallback(k)
    \/ ServiceStep
    \/ TimerCommands

InputSpec == InputInit /\ [][InputNext]_inputVars

(* The service thread and the timer task are scheduled; nothing makes pins *)
(* change or timers expire.                                                *)
InputFairSpec == InputSpec /\ WF_inputVars(ServiceStep) /\ WF_inputVars(TimerCommands)

-----------------------------------------------------------------------------
InputTypeOK ==
    /\ pin \in [PinKeys -> BOOLEAN] /\ state \in [PinKeys -> BOOLEAN]
    /\ numbered \in [PinKeys -> BOOLEAN] /\ active \in [PinKeys -> BOOLEAN]
    /\ isr_flag \in BOOLEAN /\ is_changing \in BOOLEAN
    /\ debounce \in [PinKeys -> 0..Debounce]
    /\ press_counter \in [PinKeys -> 0..LongPressCounts]
    /\ at \in PinKeys /\ scan_pc \in {"scan", "stopping", "released", "wait"}
    /\ command \in [PinKeys -> {"none", "start", "stop"}]

(* How far the press of k has been told, in the terms of KeySource.        *)
PhaseOf(k) ==
    LET releasing(step) == at = k /\ scan_pc = step
        long            == press_counter[k] = LongPressCounts
    IN CASE releasing("released")                -> IF long THEN "long" ELSE "short"
         [] state[k] \/ releasing("stopping") ->
                IF long THEN "long" ELSE IF numbered[k] THEN "pressed" ELSE "boot"
         [] OTHER                                -> "up"

Grammar == INSTANCE KeySource WITH Keys <- PinKeys, phase <- [k \in PinKeys |-> PhaseOf(k)]

(* The service implements KeySource: whatever the pins, the service thread *)
(* and the timer task do, the published events of a key are Press, then    *)
(* Short or Long Repeat*, then Release.                                    *)
ImplementsKeySource == Grammar!KeySpec

(* A pin that keeps its level is told: the key is up or down as the pin is.*)
(* No edge is lost between the last read of a pin and the sleep on the flag*)
LevelReported ==
    \A k \in PinKeys, level \in BOOLEAN :
        <>[](pin[k] = level) => <>[](state[k] = level /\ (PhaseOf(k) = "up") = ~level)
=============================================================================
