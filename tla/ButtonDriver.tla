---------------------------- MODULE ButtonDriver ----------------------------
(* extras/button-sensor.c: both edges of the user button interrupt; an edge  *)
(* within the debounce time of the last one that counted is dropped; while   *)
(* the button is held, a timer counts press durations if the program set     *)
(* one.  A finger presses and lets go; after each the contacts bounce for a  *)
(* while, and what the interrupt then finds at the pin may be either level.  *)
EXTENDS Integers

CONSTANTS
  DEBOUNCE_DURATION,  \* ticks
  Durations,          \* what press_duration may be configured to, 0 for none
  Settle,             \* ticks for which the contacts bounce
  Counters,           \* values of press_event_counter, 256 in the code
  MaxClicks           \* bound on the clicks (model only)

ASSUME ButtonAssumption ==
  /\ DEBOUNCE_DURATION \in Nat \ {0} /\ Settle \in Nat
  /\ Settle < DEBOUNCE_DURATION
  /\ Durations \subseteq Nat /\ Counters \in Nat \ {0} /\ MaxClicks \in Nat

VARIABLES
  finger, settle,       \* the finger is down; ticks the contacts still bounce
  debouncetimer,        \* ticks left
  press_duration,
  press_counter,        \* ticks left of the ctimer, -1 when it is stopped
  press_event_counter,
  changed,              \* sensors_changed() was called, sensors_process not yet
  clicks,               \* history: times the finger went down
  taken,                \* history: edges that counted
  sinceEdge             \* history: ticks since the last of them, capped

buttonVars == <<finger, settle, debouncetimer, press_duration, press_counter,
                press_event_counter, changed, clicks, taken, sinceEdge>>

\* Further back than this no duration count looks.
MaxSince == Counters * press_duration

ButtonTypeOK ==
  /\ finger \in BOOLEAN /\ changed \in BOOLEAN
  /\ settle \in 0..Settle
  /\ debouncetimer \in 0..DEBOUNCE_DURATION
  /\ press_duration \in Durations
  /\ press_counter \in -1..press_duration
  /\ press_event_counter \in 0..(Counters - 1)
  /\ clicks \in 0..MaxClicks /\ taken \in Nat /\ sinceEdge \in 0..MaxSince

\* config_user() before the button is activated.
ButtonInit ==
  /\ finger = FALSE /\ settle = 0
  /\ debouncetimer = 0
  /\ press_duration \in Durations
  /\ press_counter = -1 /\ press_event_counter = 0
  /\ changed = FALSE
  /\ clicks = 0 /\ taken = 0 /\ sinceEdge = 0
-----------------------------------------------------------------------------
EdgeTaken(pressed) ==
  /\ debouncetimer' = DEBOUNCE_DURATION
  /\ IF press_duration = 0
     THEN UNCHANGED <<press_counter, press_event_counter>>
     ELSE /\ press_event_counter' = 0
          /\ press_counter' = IF pressed THEN press_duration ELSE -1
  /\ changed' = TRUE
  /\ taken' = taken + 1
  /\ sinceEdge' = 0

EdgeDropped ==
  UNCHANGED <<debouncetimer, press_counter, press_event_counter, changed, taken,
              sinceEdge>>

\* Mutant: every edge counts.
CallbackUndebounced(pressed) == EdgeTaken(pressed)

\* btn_callback(), which reads the level of the pin itself.
Callback(pressed) == IF debouncetimer > 0 THEN EdgeDropped ELSE EdgeTaken(pressed)

\* The finger goes down or up, or a contact bounces; only an activated button
\* interrupts.
Interrupt(active) ==
  \E pressed \in (IF settle' > 0 THEN BOOLEAN ELSE {finger'}) :
    IF active THEN Callback(pressed) ELSE EdgeDropped

Press(active) ==
  /\ ~finger /\ clicks < MaxClicks
  /\ finger' = TRUE /\ settle' = Settle
  /\ clicks' = clicks + 1
  /\ Interrupt(active)
  /\ UNCHANGED press_duration

LetGo(active) ==
  /\ finger
  /\ finger' = FALSE /\ settle' = Settle
  /\ Interrupt(active)
  /\ UNCHANGED <<clicks, press_duration>>

Bounce(active) ==
  /\ settle > 0
  /\ UNCHANGED <<finger, settle, clicks, press_duration>>
  /\ Interrupt(active)

\* Mutant: the duration timer starts from 0, not from press_duration.
DurationExceededAgain ==
  /\ press_counter = 0
  /\ press_event_counter' = (press_event_counter + 1) % Counters
  /\ UNCHANGED <<finger, settle, debouncetimer, press_duration, press_counter,
                 changed, clicks, taken, sinceEdge>>

\* duration_exceeded_callback().
DurationExceeded ==
  /\ press_counter = 0
  /\ press_event_counter' = (press_event_counter + 1) % Counters
  /\ press_counter' = press_duration
  /\ UNCHANGED <<finger, settle, debouncetimer, press_duration, changed, clicks,
                 taken, sinceEdge>>

OneLess(t) == IF t > 0 THEN t - 1 ELSE t

ButtonTick ==
  /\ settle' = OneLess(settle)
  /\ debouncetimer' = OneLess(debouncetimer)
  /\ press_counter' = OneLess(press_counter)
  /\ sinceEdge' = IF sinceEdge < MaxSince THEN sinceEdge + 1 ELSE sinceEdge
  /\ UNCHANGED <<finger, press_duration, press_event_counter, changed, clicks, taken>>
=============================================================================
