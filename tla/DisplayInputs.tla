---------------------------- MODULE DisplayInputs ----------------------------
(***************************************************************************)
(* What the display's background task does with its user: encoder_poll,    *)
(* touch_poll and backlight_check_idle_timeout of display_hal.c, polled    *)
(* one after the other.  The knob turns and the clock interrupt advances   *)
(* the millisecond counter between any two of their steps, also between    *)
(* the readings of the two pins of the encoder.  How late a poll comes is  *)
(* left open.                                                              *)
(***************************************************************************)
EXTENDS Integers, Sequences, FiniteSets

CONSTANTS
  Users,        \* what a user does: "turning", "pressing" or "touching"
  Positions,    \* bound: the encoder position is counted modulo this
  HistoryLen,   \* samples in button_history (8)
  IdleTimeout,  \* milliseconds without activity before the screen goes dark
  Ticks         \* values of the millisecond counter, which wraps (2^32)

ASSUME UserAssumption == Users \subseteq {"turning", "pressing", "touching"}
ASSUME PositionAssumption == Positions \in Nat \ {0} /\ Positions % 4 = 0
ASSUME HistoryAssumption == HistoryLen \in Nat \ {0}
ASSUME TimeAssumption == /\ IdleTimeout \in Nat \ {0} /\ Ticks \in Nat
                         /\ IdleTimeout < Ticks - 1

VARIABLES
  user,
  turned,                      \* the knob: the steps it was turned, modulo Positions
  monotonic_milliseconds,
  encoder_position, encoder_state,
  button_history, button_reported_pressed,
  touch_reported_pressed,
  last_activity_ms,
  backlight_enabled, knob_led_enabled,
  pc, aPin,                    \* where the poll is, and the first pin as it was read
  since, window,               \* history: where the knob was since this poll read the
                               \* first pin, and since the one before did
  skipped,                     \* history: it was at three places within a window
  level, agreed, steady,       \* history: the button's last sample, how many were
                               \* alike, and the last level that HistoryLen agreed on
  quiet                        \* history: milliseconds since the user was noticed

knob == <<turned, since, window, skipped>>
encoder == <<encoder_position, encoder_state, aPin>>
button == <<button_history, button_reported_pressed, level, agreed, steady>>
activity == <<last_activity_ms, backlight_enabled, knob_led_enabled, quiet>>
vars == <<user, monotonic_milliseconds, knob, encoder, button, touch_reported_pressed,
          activity, pc>>

At(from, to) == pc = from /\ pc' = to

-----------------------------------------------------------------------------
(* The environment.                                                        *)

\* The two tracks of a quadrature encoder; one step changes one of them.
PinA(n) == IF n % 4 \in {1, 2} THEN 1 ELSE 0
PinB(n) == IF n % 4 \in {2, 3} THEN 1 ELSE 0

Turn ==
  /\ user = "turning"
  /\ \E d \in {-1, 1} : turned' = (turned + d) % Positions
  /\ since' = since \cup {turned'} /\ window' = window \cup {turned'}
  /\ skipped' = (skipped \/ Cardinality(window') > 2)
  /\ UNCHANGED <<user, monotonic_milliseconds, encoder, button, touch_reported_pressed,
                 activity, pc>>

\* The bound: the main loop is not kept from its polls for a whole turn of the
\* counter while the screen is lit.
SysTick_Handler ==
  /\ ~(backlight_enabled /\ quiet = Ticks - 1)
  /\ monotonic_milliseconds' = (monotonic_milliseconds + 1) % Ticks
  /\ quiet' = IF quiet = Ticks - 1 THEN quiet ELSE quiet + 1
  /\ UNCHANGED <<user, knob, encoder, button, touch_reported_pressed, last_activity_ms,
                 backlight_enabled, knob_led_enabled, pc>>

-----------------------------------------------------------------------------
(* The background task.                                                    *)

record_activity_when_dark ==
  /\ last_activity_ms' = IF backlight_enabled THEN last_activity_ms
                         ELSE monotonic_milliseconds
  /\ backlight_enabled' = TRUE /\ knob_led_enabled' = TRUE
  /\ quiet' = 0
record_activity ==
  /\ last_activity_ms' = monotonic_milliseconds
  /\ backlight_enabled' = TRUE /\ knob_led_enabled' = TRUE
  /\ quiet' = 0

ActivityIf(noticed) ==
  \/ noticed /\ record_activity
  \/ ~noticed /\ UNCHANGED activity

encoder_sample_a ==
  /\ At("idle", "second pin")
  /\ aPin' = PinA(turned)
  /\ since' = {turned}
  /\ UNCHANGED <<user, monotonic_milliseconds, turned, window, skipped, encoder_position,
                 encoder_state, button, touch_reported_pressed, activity>>

\* Indexed by the last sample and this one: the direction of a step, and 0 for no
\* step or for two, whose direction cannot be known.
TransitionsOneSided == <<0, 1, 1, 0, 1, 0, 0, -1, -1, 0, 0, 1, 0, 1, -1, 0>>
Transitions == <<0, -1, 1, 0, 1, 0, 0, -1, -1, 0, 0, 1, 0, 1, -1, 0>>

encoder_poll ==
  LET sample == 2 * aPin + PinB(turned)
      delta == Transitions[4 * encoder_state + sample + 1] IN
  /\ At("second pin", "button")
  /\ encoder_position' = (encoder_position + delta) % Positions
  /\ encoder_state' = sample
  /\ ActivityIf(delta # 0)
  /\ window' = since
  /\ UNCHANGED <<user, monotonic_milliseconds, turned, since, skipped, aPin, button,
                 touch_reported_pressed>>

\* A shift register: the new sample pushes out the oldest.
ShiftedUncut(up) == Append(button_history, up)
Shifted(up) == Append(Tail(button_history), up)

AllOne(history) == \A i \in DOMAIN history : history[i]
AllZeroAtOnce(history) == ~history[Len(history)]
AllZero(history) == \A i \in DOMAIN history : ~history[i]

\* The pin is high while the button is up; a contact that bounces may be read as
\* either at any poll.  The history's own count of equal samples is kept beside it.
button_poll ==
  \E up \in IF user = "pressing" THEN BOOLEAN ELSE {TRUE} :
    LET pressed == AllZero(button_history') /\ ~button_reported_pressed
        count == IF up # level THEN 1 ELSE IF agreed = HistoryLen THEN agreed ELSE agreed + 1 IN
    /\ At("button", "touch")
    /\ button_history' = Shifted(up)
    /\ button_reported_pressed' =
         (pressed \/ (button_reported_pressed /\ ~AllOne(button_history')))
    /\ ActivityIf(pressed)
    /\ level' = up /\ agreed' = count
    /\ steady' = IF count = HistoryLen THEN up ELSE steady
    /\ UNCHANGED <<user, monotonic_milliseconds, knob, encoder, touch_reported_pressed>>

\* The pen may be down without a valid sample, which is tried again.
touch_poll ==
  \E down, valid \in IF user = "touching" THEN BOOLEAN ELSE {FALSE} :
    /\ At("touch", "backlight")
    /\ touch_reported_pressed' = (down /\ (touch_reported_pressed \/ valid))
    /\ ActivityIf(touch_reported_pressed' /\ ~touch_reported_pressed)
    /\ UNCHANGED <<user, monotonic_milliseconds, knob, encoder, button>>

IdleForUnwrapped == monotonic_milliseconds - last_activity_ms
IdleFor == (monotonic_milliseconds - last_activity_ms) % Ticks

GoDark ==
  /\ backlight_enabled /\ IdleFor >= IdleTimeout
  /\ backlight_enabled' = FALSE /\ knob_led_enabled' = FALSE

backlight_check_idle_timeout ==
  /\ At("backlight", "idle")
  /\ \/ GoDark
     \/ ~(backlight_enabled /\ IdleFor >= IdleTimeout)
        /\ UNCHANGED <<backlight_enabled, knob_led_enabled>>
  /\ UNCHANGED <<user, monotonic_milliseconds, knob, encoder, button,
                 touch_reported_pressed, last_activity_ms, quiet>>

display_run_background_tasks ==
  \/ encoder_sample_a \/ encoder_poll \/ button_poll \/ touch_poll
  \/ backlight_check_idle_timeout

-----------------------------------------------------------------------------
\* display_initialize_hardware: lit, with the knob at rest and the button up.
Init ==
  /\ user \in Users /\ turned = 0 /\ monotonic_milliseconds = 0
  /\ encoder_position = 0 /\ encoder_state = 0
  /\ button_history = [i \in 1..HistoryLen |-> TRUE] /\ button_reported_pressed = FALSE
  /\ touch_reported_pressed = FALSE
  /\ last_activity_ms = 0 /\ backlight_enabled = TRUE /\ knob_led_enabled = TRUE
  /\ pc = "idle" /\ aPin = 0
  /\ since = {turned} /\ window = {turned} /\ skipped = FALSE
  /\ level = TRUE /\ agreed = HistoryLen /\ steady = TRUE
  /\ quiet = 0

Next == Turn \/ SysTick_Handler \/ display_run_background_tasks

\* The scheduler keeps running the background task.
Spec == Init /\ [][Next]_vars /\ WF_vars(display_run_background_tasks)

-----------------------------------------------------------------------------
(* Properties.                                                             *)

\* Every variable keeps its type: the shift register its length, the transition
\* table is indexed within its sixteen entries, and the timestamps wrap.
TypeOK ==
  /\ user \in Users /\ turned \in 0..(Positions - 1)
  /\ encoder_position \in 0..(Positions - 1) /\ encoder_state \in 0..3
  /\ monotonic_milliseconds \in 0..(Ticks - 1) /\ last_activity_ms \in 0..(Ticks - 1)
  /\ button_history \in [1..HistoryLen -> BOOLEAN]
  /\ button_reported_pressed \in BOOLEAN /\ touch_reported_pressed \in BOOLEAN
  /\ backlight_enabled \in BOOLEAN /\ knob_led_enabled \in BOOLEAN
  /\ pc \in {"idle", "second pin", "button", "touch", "backlight"} /\ aPin \in {0, 1}
  /\ since \subseteq 0..(Positions - 1) /\ window \subseteq 0..(Positions - 1)
  /\ skipped \in BOOLEAN /\ level \in BOOLEAN /\ agreed \in 1..HistoryLen
  /\ steady \in BOOLEAN /\ quiet \in 0..(Ticks - 1)

\* The position counts the turns of the knob: once the knob has rested for a whole
\* reading it is exact, whatever bounced and whichever reading was torn by a step
\* between its two pins, unless the knob was at three places between two polls.
EncoderFollowsKnob ==
  ~skipped /\ window = {turned} => encoder_position = turned

\* The reported button is the debounced one: it follows the last level on which
\* HistoryLen polls in a row agreed, so that one press is one report and one chirp.
PressIsDebounced == button_reported_pressed = ~steady

\* The screen goes dark only when the user was not noticed for the whole timeout,
\* wherever the counter wrapped and however often it advanced during a poll.
DarkOnlyWhenIdle ==
  [][backlight_enabled /\ ~backlight_enabled' => quiet >= IdleTimeout]_vars

\* After an idle timeout the screen and the knob go dark, unless the user comes back;
\* a finger that stays on the screen or on the button does not keep them lit.
IdleGoesDark ==
  quiet >= IdleTimeout ~> quiet < IdleTimeout \/ ~(backlight_enabled \/ knob_led_enabled)
=============================================================================
