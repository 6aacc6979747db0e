------------------------- MODULE DisplayInputs_proofs -------------------------
(***************************************************************************)
(* The safety properties of the display's inputs for every length of the   *)
(* button's history, every range of the encoder's position and of the      *)
(* clock, and every timeout.  The three inputs share no variable but the   *)
(* activity they report, so each has an invariant of its own.              *)
(***************************************************************************)
EXTENDS DisplayInputs, FiniteSetTheorems, SequenceTheorems, TLAPS

-----------------------------------------------------------------------------
(* The invariants.                                                          *)

Place == 0..(Positions - 1)

\* The two pins at one place of the knob, as encoder_poll packs them.
Gray(n) == 2 * PinA(n) + PinB(n)

\* The same place, or one step to either side.
Adjacent(x, y) == x = y \/ y = (x + 1) % Positions \/ x = (y + 1) % Positions

\* As long as no window held three places: the position is a place of the window, the
\* last sample is that of the position, and the pin read first is that of a place
\* since.
EncoderInv ==
  /\ turned \in since /\ since \subseteq window
  /\ ~skipped =>
       /\ \A x, y \in window : Adjacent(x, y)
       /\ encoder_position \in window /\ encoder_state = Gray(encoder_position)
       /\ pc = "second pin" => \E x \in since : aPin = PinA(x)

\* The history's count of equal samples is the length of its tail of equal samples.
ButtonInv ==
  /\ \A i \in 1..HistoryLen : i > HistoryLen - agreed => button_history[i] = level
  /\ agreed < HistoryLen => button_history[HistoryLen - agreed] = ~level
  /\ button_reported_pressed = ~steady

\* While the screen is lit the timestamps measure the time without activity.
LitInv == backlight_enabled => quiet = IdleFor

InputsInv == TypeOK /\ EncoderInv /\ ButtonInv /\ LitInv

-----------------------------------------------------------------------------
(* Arithmetic modulo a range.                                               *)

\* A number within the range is its own remainder.
LEMMA ModInside ==
  ASSUME NEW S \in Nat \ {0}, NEW x \in Int, 0 <= x, x < S
  PROVE  x % S = x
BY Z3

\* One range beyond, the remainder is what exceeds it.
LEMMA ModAfterEnd ==
  ASSUME NEW S \in Nat \ {0}, NEW x \in Int, S <= x, x < 2 * S
  PROVE  x % S = x - S
BY Z3

\* One range before, it is what is left to the end.
LEMMA ModBeforeStart ==
  ASSUME NEW S \in Nat \ {0}, NEW x \in Int, -S <= x, x < 0
  PROVE  x % S = x + S
BY Z3

\* A remainder lies within the range.
LEMMA ModRange ==
  ASSUME NEW S \in Nat \ {0}, NEW x \in Int
  PROVE  x % S \in 0..(S - 1)
BY Z3

-----------------------------------------------------------------------------
(* The encoder.                                                             *)

\* There are at least four places.
LEMMA FourPlaces == Positions \in Nat \ {0} /\ Positions >= 4
BY PositionAssumption, Z3

\* The next place is one further, or the first after the last.
LEMMA NextPlace ==
  ASSUME NEW n \in Place
  PROVE  /\ (n + 1) % Positions \in Place
         /\ \/ n + 1 < Positions /\ (n + 1) % Positions = n + 1
            \/ n + 1 = Positions /\ (n + 1) % Positions = 0
<1>1. n \in Nat /\ n < Positions /\ Positions \in Nat \ {0}
  BY FourPlaces DEF Place
<1>2. CASE n + 1 < Positions
  <2>1. (n + 1) % Positions = n + 1
    BY <1>1, <1>2, ModInside
  <2> QED BY <1>1, <1>2, <2>1 DEF Place
<1>3. CASE n + 1 = Positions
  <2>1. (n + 1) % Positions = 0
    BY <1>1, <1>3, ModAfterEnd, Z3
  <2> QED BY <1>1, <1>3, <2>1, FourPlaces DEF Place
<1> QED BY <1>1, <1>2, <1>3

\* The place before is one back, or the last before the first.
LEMMA PlaceBefore ==
  ASSUME NEW n \in Place
  PROVE  /\ (n - 1) % Positions \in Place
         /\ n = (((n - 1) % Positions) + 1) % Positions
<1>1. n \in Nat /\ n < Positions /\ Positions \in Nat \ {0}
  BY FourPlaces DEF Place
<1>2. CASE n > 0
  <2>1. (n - 1) % Positions = n - 1 /\ n % Positions = n
    BY <1>1, <1>2, ModInside
  <2> QED BY <1>1, <1>2, <2>1 DEF Place
<1>3. CASE n = 0
  <2>1. (n - 1) % Positions = Positions - 1
    BY <1>1, <1>3, ModBeforeStart, Z3
  <2>2. Positions % Positions = 0
    BY <1>1, ModAfterEnd, Z3
  <2> QED BY <1>1, <1>3, <2>1, <2>2 DEF Place
<1> QED BY <1>1, <1>2, <1>3

\* The pins of a place depend on the quarter of a cycle it lies in.
LEMMA GrayCases ==
  ASSUME NEW n \in Place
  PROVE  \/ n % 4 = 0 /\ PinA(n) = 0 /\ PinB(n) = 0 /\ Gray(n) = 0
         \/ n % 4 = 1 /\ PinA(n) = 1 /\ PinB(n) = 0 /\ Gray(n) = 2
         \/ n % 4 = 2 /\ PinA(n) = 1 /\ PinB(n) = 1 /\ Gray(n) = 3
         \/ n % 4 = 3 /\ PinA(n) = 0 /\ PinB(n) = 1 /\ Gray(n) = 1
<1>1. n % 4 \in 0..3
  BY FourPlaces, Z3 DEF Place
<1> QED BY <1>1 DEF PinA, PinB, Gray

\* A step goes on to the next quarter, also from the last place to the first.
LEMMA NextQuarter ==
  ASSUME NEW n \in Place
  PROVE  \/ n % 4 = 0 /\ ((n + 1) % Positions) % 4 = 1
         \/ n % 4 = 1 /\ ((n + 1) % Positions) % 4 = 2
         \/ n % 4 = 2 /\ ((n + 1) % Positions) % 4 = 3
         \/ n % 4 = 3 /\ ((n + 1) % Positions) % 4 = 0
<1>1. n \in Nat /\ Positions \in Nat /\ Positions % 4 = 0
  BY PositionAssumption DEF Place
<1>2. \/ n % 4 = 0 /\ (n + 1) % 4 = 1
      \/ n % 4 = 1 /\ (n + 1) % 4 = 2
      \/ n % 4 = 2 /\ (n + 1) % 4 = 3
      \/ n % 4 = 3 /\ (n + 1) % 4 = 0
  BY <1>1, Z3
<1>3. ((n + 1) % Positions) % 4 = (n + 1) % 4
  <2>1. 0 % 4 = 0
    BY Z3
  <2> QED BY <1>1, <2>1, NextPlace
<1> QED BY <1>2, <1>3

\* A sample torn by a step between its two pins is the sample of one of the places.
LEMMA TornSample ==
  ASSUME NEW x \in Place, NEW y \in Place, Adjacent(x, y)
  PROVE  2 * PinA(x) + PinB(y) \in {Gray(x), Gray(y)}
<1>1. CASE x = y
  BY <1>1 DEF Gray
<1>2. CASE y = (x + 1) % Positions
  <2>1. \/ x % 4 = 0 /\ y % 4 = 1
        \/ x % 4 = 1 /\ y % 4 = 2
        \/ x % 4 = 2 /\ y % 4 = 3
        \/ x % 4 = 3 /\ y % 4 = 0
    BY <1>2, NextQuarter
  <2> QED BY <2>1, GrayCases
<1>3. CASE x = (y + 1) % Positions
  <2>1. \/ y % 4 = 0 /\ x % 4 = 1
        \/ y % 4 = 1 /\ x % 4 = 2
        \/ y % 4 = 2 /\ x % 4 = 3
        \/ y % 4 = 3 /\ x % 4 = 0
    BY <1>3, NextQuarter
  <2> QED BY <2>1, GrayCases
<1> QED BY <1>1, <1>2, <1>3 DEF Adjacent

\* The transition table knows the direction of every single step.
LEMMA TableFollowsStep ==
  ASSUME NEW p \in Place, NEW z \in Place, Adjacent(p, z)
  PROVE  (p + Transitions[4 * Gray(p) + Gray(z) + 1]) % Positions = z
<1> DEFINE delta == Transitions[4 * Gray(p) + Gray(z) + 1]
<1>0. p \in Nat /\ z \in Nat /\ p < Positions /\ z < Positions /\ Positions \in Nat \ {0}
  BY FourPlaces DEF Place
<1>1. CASE p = z
  <2>1. delta = 0
    BY <1>1, GrayCases DEF Transitions
  <2>2. p % Positions = p
    BY <1>0, ModInside
  <2> QED BY <1>0, <1>1, <2>1, <2>2
<1>2. CASE z = (p + 1) % Positions
  <2>1. \/ p % 4 = 0 /\ z % 4 = 1
        \/ p % 4 = 1 /\ z % 4 = 2
        \/ p % 4 = 2 /\ z % 4 = 3
        \/ p % 4 = 3 /\ z % 4 = 0
    BY <1>2, NextQuarter
  <2>2. \/ Gray(p) = 0 /\ Gray(z) = 2
        \/ Gray(p) = 2 /\ Gray(z) = 3
        \/ Gray(p) = 3 /\ Gray(z) = 1
        \/ Gray(p) = 1 /\ Gray(z) = 0
    BY <2>1, GrayCases
  <2>3. delta = 1
    BY <2>2 DEF Transitions
  <2> QED BY <1>2, <2>3
<1>3. CASE p = (z + 1) % Positions
  <2>1. \/ z % 4 = 0 /\ p % 4 = 1
        \/ z % 4 = 1 /\ p % 4 = 2
        \/ z % 4 = 2 /\ p % 4 = 3
        \/ z % 4 = 3 /\ p % 4 = 0
    BY <1>3, NextQuarter
  <2>2. \/ Gray(z) = 0 /\ Gray(p) = 2
        \/ Gray(z) = 2 /\ Gray(p) = 3
        \/ Gray(z) = 3 /\ Gray(p) = 1
        \/ Gray(z) = 1 /\ Gray(p) = 0
    BY <2>1, GrayCases
  <2>3. delta = -1
    BY <2>2 DEF Transitions
  <2>4. (p - 1) % Positions = z
    <3>1. CASE z + 1 < Positions
      <4>1. p = z + 1
        BY <1>0, <1>3, <3>1, NextPlace
      <4>2. z % Positions = z
        BY <1>0, ModInside
      <4> QED BY <1>0, <4>1, <4>2
    <3>2. CASE z + 1 = Positions
      <4>1. p = 0
        BY <1>0, <1>3, <3>2, NextPlace
      <4>2. (-1) % Positions = Positions - 1
        BY <1>0, ModBeforeStart, Z3
      <4> QED BY <1>0, <3>2, <4>1, <4>2
    <3> QED BY <1>0, <3>1, <3>2
  <2> QED BY <1>0, <2>3, <2>4
<1> QED BY <1>1, <1>2, <1>3 DEF Adjacent

\* A set of at most two places holds no third.
LEMMA NoThird ==
  ASSUME NEW W, W \subseteq Place, Cardinality(W) <= 2,
         NEW a \in W, NEW b \in W, a # b
  PROVE  W = {a, b}
<1>1. IsFiniteSet(W)
  <2>1. IsFiniteSet(Place)
    BY FS_Interval, FourPlaces DEF Place
  <2> QED BY <2>1, FS_Subset
<1>2. SUFFICES ASSUME NEW c \in W, c # a, c # b PROVE FALSE
  OBVIOUS
<1>3. IsFiniteSet({a, b, c}) /\ {a, b, c} \subseteq W
  BY <1>1, FS_Subset
<1>4. Cardinality({a, b}) = 2 /\ IsFiniteSet({a, b})
  <2>1. IsFiniteSet({a}) /\ Cardinality({a}) = 1
    BY FS_Singleton
  <2>2. {a, b} = {a} \cup {b}
    OBVIOUS
  <2> QED BY <2>1, <2>2, FS_AddElement
<1>5. Cardinality({a, b, c}) = 3
  <2>1. {a, b, c} = {a, b} \cup {c}
    OBVIOUS
  <2> QED BY <1>2, <1>4, <2>1, FS_AddElement
<1>6. Cardinality({a, b, c}) <= Cardinality(W)
  BY <1>1, <1>3, FS_Subset
<1>7. Cardinality(W) \in Nat
  BY <1>1, FS_CardinalityType
<1> QED BY <1>5, <1>6, <1>7

-----------------------------------------------------------------------------
(* The button.                                                              *)

\* The shift register keeps its length, moves every sample one place and takes the
\* new one at its end.
LEMMA ShiftedIs ==
  ASSUME button_history \in [1..HistoryLen -> BOOLEAN], NEW up \in BOOLEAN
  PROVE  /\ Shifted(up) \in [1..HistoryLen -> BOOLEAN]
         /\ Shifted(up)[HistoryLen] = up
         /\ \A i \in 1..HistoryLen : i < HistoryLen => Shifted(up)[i] = button_history[i + 1]
<1>1. HistoryLen \in Nat \ {0}
  BY HistoryAssumption
<1>2. button_history \in Seq(BOOLEAN) /\ Len(button_history) = HistoryLen
  BY <1>1, SeqDef
<1>3. Tail(button_history) \in Seq(BOOLEAN) /\ Len(Tail(button_history)) = HistoryLen - 1
  BY <1>1, <1>2
<1>4. \A i \in 1..(HistoryLen - 1) : Tail(button_history)[i] = button_history[i + 1]
  BY <1>1, <1>2
<1>5. Shifted(up) \in Seq(BOOLEAN) /\ Len(Shifted(up)) = HistoryLen
  BY <1>1, <1>3 DEF Shifted
<1>6. Shifted(up)[HistoryLen] = up
  BY <1>1, <1>3 DEF Shifted
<1>7. \A i \in 1..(HistoryLen - 1) : Shifted(up)[i] = button_history[i + 1]
  BY <1>1, <1>3, <1>4 DEF Shifted
<1> QED BY <1>1, <1>5, <1>6, <1>7

\* The sample before a tail that is not the whole history.
LEMMA BeforeTail ==
  ASSUME NEW n \in 1..HistoryLen, n # HistoryLen
  PROVE  n < HistoryLen /\ HistoryLen - n \in 1..HistoryLen /\ HistoryLen - n < HistoryLen
BY HistoryAssumption

\* The samples of the button agree as the history says, and the report follows the
\* level they last agreed on.
LEMMA ButtonPollKeeps ==
  ASSUME TypeOK, ButtonInv, button_poll
  PROVE  ButtonInv' /\ button_history' \in [1..HistoryLen -> BOOLEAN] /\ level' \in BOOLEAN
         /\ agreed' \in 1..HistoryLen /\ steady' \in BOOLEAN
         /\ button_reported_pressed' \in BOOLEAN
<1> DEFINE L == HistoryLen
<1>1. PICK up \in BOOLEAN :
        /\ button_history' = Shifted(up)
        /\ button_reported_pressed' =
             ((AllZero(button_history') /\ ~button_reported_pressed)
              \/ (button_reported_pressed /\ ~AllOne(button_history')))
        /\ level' = up
        /\ agreed' = IF up # level THEN 1 ELSE IF agreed = L THEN agreed ELSE agreed + 1
        /\ steady' = IF agreed' = L THEN up ELSE steady
  <2>1. (IF user = "pressing" THEN BOOLEAN ELSE {TRUE}) \subseteq BOOLEAN
    OBVIOUS
  <2>2. PICK up \in (IF user = "pressing" THEN BOOLEAN ELSE {TRUE}) :
          /\ button_history' = Shifted(up)
          /\ button_reported_pressed' =
               ((AllZero(button_history') /\ ~button_reported_pressed)
                \/ (button_reported_pressed /\ ~AllOne(button_history')))
          /\ level' = up
          /\ agreed' = IF up # level THEN 1 ELSE IF agreed = L THEN agreed ELSE agreed + 1
          /\ steady' = IF (IF up # level THEN 1 ELSE IF agreed = L THEN agreed ELSE agreed + 1)
                          = L THEN up ELSE steady
    BY Zenon DEF button_poll
  <2> QED BY <2>1, <2>2
<1>2. /\ L \in Nat \ {0} /\ agreed \in 1..L /\ level \in BOOLEAN /\ steady \in BOOLEAN
      /\ button_history \in [1..L -> BOOLEAN] /\ button_reported_pressed \in BOOLEAN
  BY HistoryAssumption DEF TypeOK
<1>3. /\ button_history' \in [1..L -> BOOLEAN]
      /\ button_history'[L] = up
      /\ \A i \in 1..L : i < L => button_history'[i] = button_history[i + 1]
  BY <1>1, <1>2, ShiftedIs
<1>4. agreed' \in 1..L /\ level' \in BOOLEAN /\ steady' \in BOOLEAN
      /\ button_reported_pressed' \in BOOLEAN
  BY <1>1, <1>2
<1>5. /\ \A i \in 1..L : i > L - agreed => button_history[i] = level
      /\ agreed < L => button_history[L - agreed] = ~level
      /\ button_reported_pressed = ~steady
  BY DEF ButtonInv
<1>6. \A i \in 1..L : i > L - agreed' => button_history'[i] = up
  <2> SUFFICES ASSUME NEW i \in 1..L, i > L - agreed'
               PROVE  button_history'[i] = up
    OBVIOUS
  <2>1. CASE i = L
    BY <1>3, <2>1
  <2>2. CASE i < L
    <3>1. button_history'[i] = button_history[i + 1] /\ i + 1 \in 1..L
      BY <1>2, <1>3, <2>2
    <3>2. up = level /\ i + 1 > L - agreed
      BY <1>1, <1>2, <2>2
    <3> QED BY <1>5, <3>1, <3>2
  <2> QED BY <1>2, <2>1, <2>2
<1>7. ASSUME agreed' < L PROVE button_history'[L - agreed'] = ~up
  <2>1. L - agreed' \in 1..L /\ L - agreed' < L
    BY <1>4, <1>7, BeforeTail
  <2>2. button_history'[L - agreed'] = button_history[L - agreed' + 1]
    BY <1>3, <2>1
  <2>3. CASE up # level
    <3>1. L - agreed' + 1 = L /\ L > L - agreed /\ L \in 1..L
      BY <1>1, <1>2, <2>3
    <3>2. button_history[L] = level
      BY <1>5, <3>1
    <3> QED BY <1>2, <2>2, <2>3, <3>1, <3>2
  <2>4. CASE up = level
    <3>1. L - agreed' + 1 = L - agreed /\ agreed < L
      BY <1>1, <1>2, <1>7, <2>4
    <3> QED BY <1>5, <2>2, <2>4, <3>1
  <2> QED BY <2>3, <2>4
<1>8. DOMAIN button_history' = 1..L /\ L \in 1..L
  BY <1>2, <1>3
<1>9. AllZero(button_history') <=> agreed' = L /\ ~up
  <2>1. ASSUME agreed' = L PROVE \A i \in 1..L : button_history'[i] = up
    BY <1>2, <1>6, <2>1
  <2>2. ASSUME agreed' # L
        PROVE  L - agreed' \in 1..L /\ button_history'[L - agreed'] = ~up
    BY <1>4, <1>7, <2>2, BeforeTail
  <2> QED BY <1>3, <1>8, <2>1, <2>2, Zenon DEF AllZero
<1>10. AllOne(button_history') <=> agreed' = L /\ up
  <2>1. ASSUME agreed' = L PROVE \A i \in 1..L : button_history'[i] = up
    BY <1>2, <1>6, <2>1
  <2>2. ASSUME agreed' # L
        PROVE  L - agreed' \in 1..L /\ button_history'[L - agreed'] = ~up
    BY <1>4, <1>7, <2>2, BeforeTail
  <2> QED BY <1>3, <1>8, <2>1, <2>2, Zenon DEF AllOne
<1>11. button_reported_pressed' = ~steady'
  <2>1. CASE agreed' = L /\ up
    BY <1>1, <1>9, <1>10, <2>1, Zenon
  <2>2. CASE agreed' = L /\ ~up
    BY <1>1, <1>2, <1>9, <1>10, <2>2, Zenon
  <2>3. CASE agreed' # L
    <3>1. steady' = steady
      BY <1>1, <2>3
    <3>2. button_reported_pressed' = button_reported_pressed
      BY <1>1, <1>2, <1>9, <1>10, <2>3, Zenon
    <3> QED BY <1>5, <3>1, <3>2
  <2> QED BY <2>1, <2>2, <2>3
<1> QED BY <1>1, <1>3, <1>4, <1>6, <1>7, <1>11, Zenon DEF ButtonInv

-----------------------------------------------------------------------------
(* Every step keeps the types.                                              *)

\* Noticing the user keeps the types of what it touches.
LEMMA ActivityTypes ==
  ASSUME TypeOK, NEW noticed \in BOOLEAN, ActivityIf(noticed)
  PROVE  /\ last_activity_ms' \in 0..(Ticks - 1) /\ quiet' \in 0..(Ticks - 1)
         /\ backlight_enabled' \in BOOLEAN /\ knob_led_enabled' \in BOOLEAN
<1>1. 0 \in 0..(Ticks - 1)
  BY TimeAssumption
<1>2. CASE noticed /\ record_activity
  BY <1>1, <1>2 DEF TypeOK, record_activity
<1>3. CASE ~noticed /\ UNCHANGED activity
  BY <1>3 DEF TypeOK, activity
<1> QED BY <1>2, <1>3 DEF ActivityIf

\* The first state has the types.
LEMMA InitTypes == Init => TypeOK
<1> SUFFICES ASSUME Init PROVE TypeOK
  OBVIOUS
<1>1. 0 \in 0..(Positions - 1) /\ 0 \in 0..(Ticks - 1) /\ HistoryLen \in 1..HistoryLen
  BY FourPlaces, TimeAssumption, HistoryAssumption
<1>2. button_history \in [1..HistoryLen -> BOOLEAN]
  BY DEF Init
<1>3. /\ since \subseteq 0..(Positions - 1) /\ window \subseteq 0..(Positions - 1)
      /\ encoder_position \in 0..(Positions - 1) /\ turned \in 0..(Positions - 1)
  BY <1>1 DEF Init
<1>4. /\ monotonic_milliseconds \in 0..(Ticks - 1) /\ last_activity_ms \in 0..(Ticks - 1)
      /\ quiet \in 0..(Ticks - 1)
  BY <1>1 DEF Init
<1>5. encoder_state \in 0..3 /\ aPin \in {0, 1} /\ agreed \in 1..HistoryLen
  BY <1>1 DEF Init
<1> QED BY <1>2, <1>3, <1>4, <1>5 DEF Init, TypeOK

\* A turn leads to a place.
LEMMA TurnTypes == TypeOK /\ Turn => TypeOK'
<1> SUFFICES ASSUME TypeOK, Turn PROVE TypeOK'
  OBVIOUS
<1>1. turned' \in Place
  <2>1. PICK d \in {-1, 1} : turned' = (turned + d) % Positions
    BY DEF Turn
  <2>2. turned \in 0..(Positions - 1)
    BY DEF TypeOK
  <2>3. turned + d \in Int
    BY <2>2
  <2> QED BY <2>1, <2>3, FourPlaces, ModRange DEF Place
<1>2. since' \subseteq Place /\ window' \subseteq Place /\ skipped' \in BOOLEAN
  BY <1>1 DEF TypeOK, Turn, Place
<1> QED BY <1>1, <1>2 DEF TypeOK, Turn, Place, encoder, button, activity

\* The clock wraps, and the history of quiet stops at its end.
LEMMA TickTypes == TypeOK /\ SysTick_Handler => TypeOK'
<1> SUFFICES ASSUME TypeOK, SysTick_Handler PROVE TypeOK'
  OBVIOUS
<1>1. monotonic_milliseconds' \in 0..(Ticks - 1)
  <2>1. Ticks \in Nat \ {0} /\ monotonic_milliseconds \in 0..(Ticks - 1)
    <3>1. monotonic_milliseconds \in 0..(Ticks - 1)
      BY DEF TypeOK
    <3> QED BY <3>1, TimeAssumption
  <2> QED BY <2>1, ModRange DEF SysTick_Handler
<1>2. quiet' \in 0..(Ticks - 1)
  <2>1. quiet \in 0..(Ticks - 1) /\ Ticks \in Nat
    BY TimeAssumption DEF TypeOK
  <2> QED BY <2>1 DEF SysTick_Handler
<1> QED BY <1>1, <1>2 DEF TypeOK, SysTick_Handler, knob, encoder, button

\* The first pin is a bit.
LEMMA SampleTypes == TypeOK /\ encoder_sample_a => TypeOK'
BY DEF TypeOK, encoder_sample_a, At, PinA, button, activity

\* A sample is one of four, so the table is indexed within its sixteen entries.
LEMMA EncoderPollTypes == TypeOK /\ encoder_poll => TypeOK'
<1> SUFFICES ASSUME TypeOK, encoder_poll PROVE TypeOK'
  OBVIOUS
<1> DEFINE sample == 2 * aPin + PinB(turned)
           delta == Transitions[4 * encoder_state + sample + 1]
<1>1. sample \in 0..3
  <2>1. PinB(turned) \in {0, 1}
    BY DEF PinB
  <2>2. aPin \in {0, 1}
    BY DEF TypeOK
  <2> QED BY <2>1, <2>2
<1>2. delta \in {-1, 0, 1}
  <2> HIDE DEF sample
  <2>1. 4 * encoder_state + sample + 1 \in 1..16
    <3>1. encoder_state \in 0..3
      BY DEF TypeOK
    <3> QED BY <1>1, <3>1
  <2> QED BY <2>1 DEF Transitions
<1>3. encoder_position' \in Place /\ encoder_state' \in 0..3
  <2>1. encoder_position' = (encoder_position + delta) % Positions /\ encoder_state' = sample
    BY DEF encoder_poll
  <2>2. encoder_position + delta \in Int
    <3>1. encoder_position \in 0..(Positions - 1)
      BY DEF TypeOK
    <3> HIDE DEF delta
    <3> QED BY <1>2, <3>1
  <2> HIDE DEF delta, sample
  <2> QED BY <1>1, <2>1, <2>2, FourPlaces, ModRange DEF Place
<1>4. /\ last_activity_ms' \in 0..(Ticks - 1) /\ quiet' \in 0..(Ticks - 1)
      /\ backlight_enabled' \in BOOLEAN /\ knob_led_enabled' \in BOOLEAN
  <2>1. ActivityIf(delta # 0)
    BY DEF encoder_poll
  <2> HIDE DEF delta
  <2> QED BY <2>1, ActivityTypes
<1>5. window' \subseteq Place /\ pc' = "button"
  BY DEF encoder_poll, At, TypeOK, Place
<1> HIDE DEF sample, delta
<1> QED BY <1>3, <1>4, <1>5 DEF TypeOK, Place, encoder_poll, button

\* The poll of the button only touches the button and the activity.
LEMMA ButtonPollTypes == TypeOK /\ ButtonInv /\ button_poll => TypeOK'
<1> SUFFICES ASSUME TypeOK, ButtonInv, button_poll PROVE TypeOK'
  OBVIOUS
<1>1. /\ button_history' \in [1..HistoryLen -> BOOLEAN] /\ level' \in BOOLEAN
      /\ agreed' \in 1..HistoryLen /\ steady' \in BOOLEAN
      /\ button_reported_pressed' \in BOOLEAN
  BY ButtonPollKeeps
<1>2. PICK noticed \in BOOLEAN : ActivityIf(noticed)
  BY DEF button_poll, AllZero
<1>3. /\ last_activity_ms' \in 0..(Ticks - 1) /\ quiet' \in 0..(Ticks - 1)
      /\ backlight_enabled' \in BOOLEAN /\ knob_led_enabled' \in BOOLEAN
  BY <1>2, ActivityTypes
<1>4. pc' = "touch" /\ UNCHANGED <<user, monotonic_milliseconds, knob, encoder,
                                   touch_reported_pressed>>
  BY DEF button_poll, At
<1> QED BY <1>1, <1>3, <1>4 DEF TypeOK, knob, encoder

\* The poll of the touch screen only touches its report and the activity.
LEMMA TouchPollTypes == TypeOK /\ touch_poll => TypeOK'
<1> SUFFICES ASSUME TypeOK, touch_poll PROVE TypeOK'
  OBVIOUS
<1>1. PICK down \in BOOLEAN, valid \in BOOLEAN :
        /\ touch_reported_pressed' = (down /\ (touch_reported_pressed \/ valid))
        /\ ActivityIf(touch_reported_pressed' /\ ~touch_reported_pressed)
  BY Zenon DEF touch_poll
<1>2. touch_reported_pressed' \in BOOLEAN
  BY <1>1, Zenon
<1>3. /\ last_activity_ms' \in 0..(Ticks - 1) /\ quiet' \in 0..(Ticks - 1)
      /\ backlight_enabled' \in BOOLEAN /\ knob_led_enabled' \in BOOLEAN
  BY <1>1, ActivityTypes
<1>4. pc' = "backlight" /\ UNCHANGED <<user, monotonic_milliseconds, knob, encoder, button>>
  BY DEF touch_poll, At
<1> QED BY <1>2, <1>3, <1>4 DEF TypeOK, knob, encoder, button

\* The idle check only darkens.
LEMMA BacklightTypes == TypeOK /\ backlight_check_idle_timeout => TypeOK'
BY DEF TypeOK, backlight_check_idle_timeout, At, GoDark, knob, encoder, button

-----------------------------------------------------------------------------
(* The encoder follows the knob.                                            *)

\* A turn that does not skip leaves the place it came from and the one it leads to.
LEMMA TurnKeepsEncoder == TypeOK /\ EncoderInv /\ Turn => EncoderInv'
<1> SUFFICES ASSUME TypeOK, EncoderInv, Turn PROVE EncoderInv'
  OBVIOUS
<1>1. turned \in Place /\ window \subseteq Place /\ since \subseteq Place
  BY DEF TypeOK, Place
<1>2. /\ turned' \in Place /\ turned' # turned /\ Adjacent(turned, turned')
  <2>1. (turned + 1) % Positions \in Place /\ (turned + 1) % Positions # turned
    <3>1. turned \in Nat
      BY <1>1 DEF Place
    <3> QED BY <1>1, <3>1, NextPlace, FourPlaces
  <2>2. (turned - 1) % Positions \in Place
        /\ turned = (((turned - 1) % Positions) + 1) % Positions
    BY <1>1, PlaceBefore
  <2>3. (turned - 1) % Positions # turned
    <3>1. turned \in Nat
      BY <1>1 DEF Place
    <3> QED BY <1>1, <3>1, <2>1, <2>2
  <2>4. turned' = (turned + 1) % Positions \/ turned' = (turned - 1) % Positions
    <3>1. \E d \in {-1, 1} : turned' = (turned + d) % Positions
      BY DEF Turn
    <3>2. turned + (-1) = turned - 1
      BY <1>1 DEF Place
    <3> QED BY <3>1, <3>2
  <2> QED BY <2>1, <2>2, <2>3, <2>4 DEF Adjacent
<1>3. /\ turned \in since /\ since \subseteq window /\ turned' \in since'
      /\ since' = since \cup {turned'} /\ window' = window \cup {turned'}
      /\ since' \subseteq window'
  BY DEF EncoderInv, Turn
<1>4. ASSUME ~skipped'
      PROVE  /\ \A x, y \in window' : Adjacent(x, y)
             /\ encoder_position' \in window' /\ encoder_state' = Gray(encoder_position)
             /\ pc' = "second pin" => \E x \in since' : aPin' = PinA(x)
  <2>1. ~skipped /\ Cardinality(window') <= 2
    <3>1. ~skipped /\ ~(Cardinality(window') > 2)
      BY <1>4 DEF Turn
    <3>2. IsFiniteSet(window')
      <4>1. IsFiniteSet(Place)
        BY FS_Interval, FourPlaces DEF Place
      <4> QED BY <1>1, <1>2, <1>3, <4>1, FS_Subset
    <3>3. Cardinality(window') \in Nat
      BY <3>2, FS_CardinalityType
    <3> QED BY <3>1, <3>3
  <2>2. window' = {turned, turned'}
    <3>1. window' \subseteq Place /\ turned \in window' /\ turned' \in window'
      BY <1>1, <1>2, <1>3
    <3> QED BY <2>1, <3>1, <1>2, NoThird
  <2>3. \A x, y \in window' : Adjacent(x, y)
    BY <1>2, <2>2 DEF Adjacent
  <2>4. encoder_position \in window /\ encoder_state = Gray(encoder_position)
        /\ (pc = "second pin" => \E x \in since : aPin = PinA(x))
    BY <2>1 DEF EncoderInv
  <2>5. UNCHANGED <<encoder_position, encoder_state, aPin, pc>>
    BY DEF Turn, encoder
  <2> QED BY <1>3, <2>3, <2>4, <2>5
<1> QED BY <1>3, <1>4 DEF EncoderInv, Turn, Gray, PinA, PinB, Adjacent, encoder

\* Reading the first pin starts a window within the one before.
LEMMA SampleKeepsEncoder == TypeOK /\ EncoderInv /\ encoder_sample_a => EncoderInv'
<1> SUFFICES ASSUME EncoderInv, encoder_sample_a PROVE EncoderInv'
  OBVIOUS
<1>1. /\ turned \in since /\ since \subseteq window
      /\ turned' = turned /\ since' = {turned} /\ window' = window /\ skipped' = skipped
      /\ aPin' = PinA(turned)
      /\ encoder_position' = encoder_position /\ encoder_state' = encoder_state
  BY DEF EncoderInv, encoder_sample_a
<1>2. ASSUME ~skipped
      PROVE  /\ \A x, y \in window : Adjacent(x, y)
             /\ encoder_position \in window /\ encoder_state = Gray(encoder_position)
  BY <1>2 DEF EncoderInv
<1> QED BY <1>1, <1>2 DEF EncoderInv, Gray, PinA, PinB, Adjacent

\* Reading the second pin leads to the place of one of the two readings.
LEMMA EncoderPollKeeps == TypeOK /\ EncoderInv /\ encoder_poll => EncoderInv'
<1> SUFFICES ASSUME TypeOK, EncoderInv, encoder_poll PROVE EncoderInv'
  OBVIOUS
<1>1. turned \in Place /\ window \subseteq Place /\ since \subseteq Place
  BY DEF TypeOK, Place
<1>2. /\ turned \in since /\ since \subseteq window
      /\ turned' = turned /\ since' = since /\ window' = since /\ skipped' = skipped
      /\ pc = "second pin" /\ pc' = "button"
  BY DEF EncoderInv, encoder_poll, At
<1>3. ASSUME ~skipped
      PROVE  /\ \A x, y \in since : Adjacent(x, y)
             /\ encoder_position' \in since /\ encoder_state' = Gray(encoder_position')
  <2>1. /\ \A x, y \in window : Adjacent(x, y)
        /\ encoder_position \in window /\ encoder_state = Gray(encoder_position)
    BY <1>3 DEF EncoderInv
  <2>2. PICK x \in since : aPin = PinA(x)
    BY <1>2, <1>3 DEF EncoderInv
  <2>3. 2 * aPin + PinB(turned) \in {Gray(x), Gray(turned)}
    BY <1>1, <1>2, <2>1, <2>2, TornSample
  <2>4. PICK z \in since : 2 * aPin + PinB(turned) = Gray(z)
    BY <1>2, <2>3
  <2>5. (encoder_position + Transitions[4 * Gray(encoder_position) + Gray(z) + 1]) % Positions
          = z
    BY <1>1, <1>2, <2>1, TableFollowsStep
  <2>6. encoder_position' = z /\ encoder_state' = Gray(z)
    BY <2>1, <2>4, <2>5 DEF encoder_poll
  <2> QED BY <1>2, <2>1, <2>6
<1> QED BY <1>2, <1>3 DEF EncoderInv, Gray, PinA, PinB, Adjacent

-----------------------------------------------------------------------------
(* The screen.                                                              *)

\* A millisecond makes the difference to a timestamp one longer, wherever either wraps.
LEMMA TickAdvances ==
  ASSUME NEW m \in 0..(Ticks - 1), NEW l \in 0..(Ticks - 1), (m - l) % Ticks # Ticks - 1
  PROVE  (((m + 1) % Ticks) - l) % Ticks = ((m - l) % Ticks) + 1
<1>1. Ticks \in Nat \ {0} /\ m \in Nat /\ l \in Nat /\ m < Ticks /\ l < Ticks
  BY TimeAssumption
<1>2. CASE l <= m
  <2>1. (m - l) % Ticks = m - l
    BY <1>1, <1>2, ModInside
  <2>2. CASE m + 1 < Ticks
    <3>1. (m + 1) % Ticks = m + 1
      BY <1>1, <2>2, ModInside
    <3>2. (m + 1 - l) % Ticks = m + 1 - l
      BY <1>1, <1>2, <2>2, ModInside
    <3> QED BY <1>1, <2>1, <3>1, <3>2
  <2>3. CASE m + 1 = Ticks
    <3>1. (m + 1) % Ticks = 0
      BY <1>1, <2>3, ModAfterEnd
    <3>2. l > 0 /\ -l < 0 /\ -Ticks <= -l /\ -l \in Int
      BY <1>1, <2>1, <2>3
    <3>3. (-l) % Ticks = -l + Ticks
      BY <1>1, <3>2, ModBeforeStart
    <3>4. 0 - l = -l
      BY <1>1
    <3> QED BY <1>1, <2>1, <2>3, <3>1, <3>3, <3>4
  <2> QED BY <1>1, <2>2, <2>3
<1>3. CASE m < l
  <2>1. (m - l) % Ticks = m - l + Ticks
    BY <1>1, <1>3, ModBeforeStart
  <2>2. (m + 1) % Ticks = m + 1
    BY <1>1, <1>3, ModInside
  <2>3. m + 1 - l < 0
    BY <1>1, <1>3, <2>1
  <2>4. (m + 1 - l) % Ticks = m + 1 - l + Ticks
    BY <1>1, <1>3, <2>3, ModBeforeStart
  <2> QED BY <1>1, <2>1, <2>2, <2>4
<1> QED BY <1>1, <1>2, <1>3

\* The clock keeps pace with the history of quiet.
LEMMA TickKeepsLit == TypeOK /\ LitInv /\ SysTick_Handler => LitInv'
<1> SUFFICES ASSUME TypeOK, LitInv, SysTick_Handler, backlight_enabled'
             PROVE  quiet' = IdleFor'
  BY DEF LitInv
<1>1. /\ backlight_enabled /\ quiet # Ticks - 1 /\ quiet' = quiet + 1
      /\ monotonic_milliseconds' = (monotonic_milliseconds + 1) % Ticks
      /\ last_activity_ms' = last_activity_ms
  BY DEF SysTick_Handler
<1>2. quiet = (monotonic_milliseconds - last_activity_ms) % Ticks
  BY <1>1 DEF LitInv, IdleFor
<1>3. monotonic_milliseconds \in 0..(Ticks - 1) /\ last_activity_ms \in 0..(Ticks - 1)
  BY DEF TypeOK
<1> QED BY <1>1, <1>2, <1>3, TickAdvances DEF IdleFor

\* Noticing the user lights the screen, and the measure begins anew.
LEMMA ActivityKeepsLit ==
  ASSUME TypeOK, LitInv, NEW noticed \in BOOLEAN, ActivityIf(noticed),
         UNCHANGED monotonic_milliseconds
  PROVE  LitInv' /\ ~(backlight_enabled /\ ~backlight_enabled')
<1>1. CASE record_activity
  <2>1. monotonic_milliseconds \in 0..(Ticks - 1) /\ Ticks \in Nat \ {0}
    <3>1. monotonic_milliseconds \in 0..(Ticks - 1)
      BY DEF TypeOK
    <3> QED BY <3>1, TimeAssumption
  <2>2. monotonic_milliseconds - monotonic_milliseconds = 0
    BY <2>1
  <2>3. 0 % Ticks = 0
    BY <2>1, ModInside
  <2> QED BY <1>1, <2>2, <2>3 DEF LitInv, IdleFor, record_activity
<1>2. CASE UNCHANGED activity
  BY <1>2 DEF LitInv, IdleFor, activity
<1> QED BY <1>1, <1>2 DEF ActivityIf

-----------------------------------------------------------------------------
(* The theorems.                                                            *)

\* What a step leaves alone keeps its invariant.
LEMMA UnchangedKeeps ==
  /\ EncoderInv /\ UNCHANGED <<knob, encoder>> /\ (pc' = "second pin" => pc = "second pin")
       => EncoderInv'
  /\ ButtonInv /\ UNCHANGED button => ButtonInv'
  /\ LitInv /\ UNCHANGED <<monotonic_milliseconds, activity>> => LitInv'
<1>1. EncoderInv /\ UNCHANGED <<knob, encoder>> /\ (pc' = "second pin" => pc = "second pin")
        => EncoderInv'
  <2> SUFFICES ASSUME EncoderInv, UNCHANGED <<knob, encoder>>,
                      pc' = "second pin" => pc = "second pin"
               PROVE  EncoderInv'
    OBVIOUS
  <2>1. /\ turned' = turned /\ since' = since /\ window' = window /\ skipped' = skipped
        /\ encoder_position' = encoder_position /\ encoder_state' = encoder_state
        /\ aPin' = aPin
    BY DEF knob, encoder
  <2>2. /\ turned \in since /\ since \subseteq window
        /\ ~skipped =>
             /\ \A x, y \in window : Adjacent(x, y)
             /\ encoder_position \in window /\ encoder_state = Gray(encoder_position)
             /\ pc' = "second pin" => \E x \in since : aPin = PinA(x)
    BY DEF EncoderInv
  <2> QED BY <2>1, <2>2 DEF EncoderInv, Gray, PinA, PinB, Adjacent
<1>2. ButtonInv /\ UNCHANGED button => ButtonInv'
  BY DEF ButtonInv, button
<1>3. LitInv /\ UNCHANGED <<monotonic_milliseconds, activity>> => LitInv'
  BY DEF LitInv, IdleFor, activity
<1> QED BY <1>1, <1>2, <1>3

\* The first state satisfies the invariant.
LEMMA InitInputsInv == Init => InputsInv
<1> SUFFICES ASSUME Init PROVE InputsInv
  OBVIOUS
<1>1. TypeOK
  BY InitTypes
<1>2. EncoderInv
  <2>1. 0 \in Place /\ 0 % 4 = 0
    BY FourPlaces, Z3 DEF Place
  <2>2. Gray(0) = 0
    BY <2>1, GrayCases
  <2> QED BY <2>2 DEF Init, EncoderInv, Adjacent
<1>3. ButtonInv
  <2>1. \A i \in 1..HistoryLen : button_history[i] = TRUE
    BY DEF Init
  <2>2. level = TRUE /\ agreed = HistoryLen /\ ~(agreed < HistoryLen)
    BY HistoryAssumption DEF Init
  <2>3. button_reported_pressed = FALSE /\ steady = TRUE
    BY DEF Init
  <2> QED BY <2>1, <2>2, <2>3 DEF ButtonInv
<1>4. LitInv
  <2>1. 0 % Ticks = 0 /\ 0 - 0 = 0
    BY TimeAssumption, ModInside
  <2> QED BY <2>1 DEF Init, LitInv, IdleFor
<1> QED BY <1>1, <1>2, <1>3, <1>4 DEF InputsInv

\* Every step keeps the invariant, and a step that darkens the screen finds it idle.
LEMMA NextInputsInv ==
  InputsInv /\ [Next]_vars
    => InputsInv' /\ (backlight_enabled /\ ~backlight_enabled' => quiet >= IdleTimeout)
<1> DEFINE Dark == backlight_enabled /\ ~backlight_enabled' => quiet >= IdleTimeout
<1> SUFFICES ASSUME InputsInv, [Next]_vars PROVE InputsInv' /\ Dark
  OBVIOUS
<1>0. TypeOK /\ EncoderInv /\ ButtonInv /\ LitInv
  BY DEF InputsInv
<1>1. CASE Turn
  <2>1. UNCHANGED <<button, monotonic_milliseconds, activity>>
    BY <1>1 DEF Turn
  <2>2. TypeOK' /\ EncoderInv'
    BY <1>0, <1>1, TurnTypes, TurnKeepsEncoder
  <2>3. ButtonInv' /\ LitInv' /\ Dark
    BY <1>0, <2>1, UnchangedKeeps DEF activity
  <2> QED BY <2>2, <2>3 DEF InputsInv
<1>2. CASE SysTick_Handler
  <2>1. UNCHANGED <<knob, encoder, button, pc, backlight_enabled>>
    BY <1>2 DEF SysTick_Handler
  <2>2. TypeOK' /\ LitInv'
    BY <1>0, <1>2, TickTypes, TickKeepsLit
  <2>3. EncoderInv' /\ ButtonInv' /\ Dark
    BY <1>0, <2>1, UnchangedKeeps
  <2> QED BY <2>2, <2>3 DEF InputsInv
<1>3. CASE encoder_sample_a
  <2>1. UNCHANGED <<button, monotonic_milliseconds, activity>>
    BY <1>3 DEF encoder_sample_a
  <2>2. TypeOK' /\ EncoderInv'
    BY <1>0, <1>3, SampleTypes, SampleKeepsEncoder
  <2>3. ButtonInv' /\ LitInv' /\ Dark
    BY <1>0, <2>1, UnchangedKeeps DEF activity
  <2> QED BY <2>2, <2>3 DEF InputsInv
<1>4. CASE encoder_poll
  <2>1. UNCHANGED <<button, monotonic_milliseconds>>
    BY <1>4 DEF encoder_poll
  <2>2. PICK noticed \in BOOLEAN : ActivityIf(noticed)
    BY <1>4 DEF encoder_poll
  <2>3. TypeOK' /\ EncoderInv'
    BY <1>0, <1>4, EncoderPollTypes, EncoderPollKeeps
  <2>4. ButtonInv'
    BY <1>0, <2>1, UnchangedKeeps
  <2>5. LitInv' /\ Dark
    BY <1>0, <2>1, <2>2, ActivityKeepsLit
  <2> QED BY <2>3, <2>4, <2>5 DEF InputsInv
<1>5. CASE button_poll
  <2>1. UNCHANGED <<knob, encoder, monotonic_milliseconds>> /\ pc' = "touch"
    BY <1>5 DEF button_poll, At
  <2>2. PICK noticed \in BOOLEAN : ActivityIf(noticed)
    BY <1>5 DEF button_poll, AllZero
  <2>3. TypeOK' /\ ButtonInv'
    BY <1>0, <1>5, ButtonPollTypes, ButtonPollKeeps
  <2>4. EncoderInv'
    BY <1>0, <2>1, UnchangedKeeps
  <2>5. LitInv' /\ Dark
    BY <1>0, <2>1, <2>2, ActivityKeepsLit
  <2> QED BY <2>3, <2>4, <2>5 DEF InputsInv
<1>6. CASE touch_poll
  <2>1. UNCHANGED <<knob, encoder, button, monotonic_milliseconds>> /\ pc' = "backlight"
    BY <1>6 DEF touch_poll, At
  <2>2. ActivityIf(touch_reported_pressed' /\ ~touch_reported_pressed)
    BY <1>6 DEF touch_poll
  <2>3. TypeOK'
    BY <1>0, <1>6, TouchPollTypes
  <2>4. EncoderInv' /\ ButtonInv'
    BY <1>0, <2>1, UnchangedKeeps
  <2>5. LitInv' /\ Dark
    BY <1>0, <2>1, <2>2, ActivityKeepsLit
  <2> QED BY <2>3, <2>4, <2>5 DEF InputsInv
<1>7. CASE backlight_check_idle_timeout
  <2>1. UNCHANGED <<knob, encoder, button, monotonic_milliseconds, last_activity_ms, quiet>>
        /\ pc' = "idle"
    BY <1>7 DEF backlight_check_idle_timeout, At
  <2>2. TypeOK'
    BY <1>0, <1>7, BacklightTypes
  <2>3. EncoderInv' /\ ButtonInv'
    BY <1>0, <2>1, UnchangedKeeps
  <2>4. GoDark \/ UNCHANGED backlight_enabled
    BY <1>7 DEF backlight_check_idle_timeout
  <2>5. LitInv'
    BY <1>0, <2>1, <2>4 DEF GoDark, LitInv, IdleFor
  <2>6. Dark
    BY <1>0, <2>4 DEF GoDark, LitInv
  <2> QED BY <2>2, <2>3, <2>5, <2>6 DEF InputsInv
<1>8. CASE UNCHANGED vars
  <2>1. UNCHANGED <<knob, encoder, button, monotonic_milliseconds, activity, pc>>
    BY <1>8 DEF vars
  <2>2. TypeOK'
    BY <1>0, <1>8 DEF vars, TypeOK, knob, encoder, button, activity
  <2>3. EncoderInv' /\ ButtonInv' /\ LitInv' /\ Dark
    BY <1>0, <2>1, UnchangedKeeps DEF activity
  <2> QED BY <2>2, <2>3 DEF InputsInv
<1> QED
  BY <1>1, <1>2, <1>3, <1>4, <1>5, <1>6, <1>7, <1>8 DEF Next, display_run_background_tasks

\* The three inputs and the screen keep their invariants (the display's background task).
THEOREM InputsInvariant == Spec => []InputsInv
BY InitInputsInv, NextInputsInv, PTL DEF Spec

\* Every variable keeps its type: the shift register of the button keeps its length
\* and the encoder's table is indexed within its entries.
THEOREM InputsTypeCorrect == Spec => []TypeOK
<1>1. InputsInv => TypeOK
  BY DEF InputsInv
<1> QED BY <1>1, InputsInvariant, PTL

\* For every range of positions the encoder's position is that of the knob once it
\* has rested for a reading, whichever reading was torn between its two pins, as long
\* as the knob was not at three places between two polls (encoder_poll).
THEOREM KnobIsFollowed == Spec => []EncoderFollowsKnob
<1>1. InputsInv => EncoderFollowsKnob
  BY DEF InputsInv, EncoderInv, EncoderFollowsKnob
<1> QED BY <1>1, InputsInvariant, PTL

\* For every length of the history, the reported button is the last level on which a
\* whole history of samples agreed (button_poll).
THEOREM ButtonIsDebounced == Spec => []PressIsDebounced
<1>1. InputsInv => PressIsDebounced
  BY DEF InputsInv, ButtonInv, PressIsDebounced
<1> QED BY <1>1, InputsInvariant, PTL

\* For every width of the counter and every timeout below it, the screen goes dark
\* only after the whole timeout without activity (backlight_check_idle_timeout).
THEOREM DarkMeansIdle == Spec => DarkOnlyWhenIdle
<1>1. InputsInv /\ [Next]_vars
        => [backlight_enabled /\ ~backlight_enabled' => quiet >= IdleTimeout]_vars
  BY NextInputsInv
<1> QED BY <1>1, InputsInvariant, PTL DEF Spec, DarkOnlyWhenIdle
=============================================================================
