-------------------------- MODULE UsartDriver_proofs --------------------------
(***************************************************************************)
(* The safety properties of the mainboard's serial driver, for rings,      *)
(* frames and numbers of bytes of every size.  The two directions share no *)
(* variable but the handler's entry, so each has an invariant of its own.  *)
(***************************************************************************)
EXTENDS UsartDriver, TLAPS

-----------------------------------------------------------------------------
(* The invariant of the transmit direction.                                 *)

TxSlot == 0..(TxSize - 1)

txVars == <<ringTx, txEnabled, lineTx, writer, raced>>

TxTypes ==
  /\ txBuffer \in [TxSlot -> Number]
  /\ txHead \in 0..TxSize /\ txTail \in TxSlot
  /\ txHead = TxSize => sender \in {"store", "wrap"}
  /\ sender = "store" => txHead >= 1
  /\ txEnabled \in BOOLEAN /\ tdr \in Number \cup {Empty} /\ sent \in Number
  /\ sender \in {"idle", "disable", "add", "store", "increment", "wrap", "enable"}
  /\ left \in 0..FrameSize /\ (sender # "idle" => left >= 1) /\ byte \in Number
  /\ raced \in BOOLEAN

\* Bytes of the ring that hold a byte of the stream: the two stores of one byte come
\* in either order.
Filled == CASE sender = "store" -> Used - 1
            [] sender = "increment" -> Used + 1
            [] OTHER -> Used

\* Bytes of the ring before the one that is being sent.
Before == IF sender \in {"store", "wrap", "enable"} THEN Used - 1 ELSE Used

\* The n-th byte of the stream behind the one on the line.
Upcoming(n) == (sent + 1 + n) % Modulus

\* There is room for the rest of the frame, and one byte more.
RoomInv ==
  /\ sender \in {"disable", "add", "increment"} => left < TxSize - Used
  /\ sender \in {"store", "wrap", "enable"} => left <= TxSize - Used

\* The ring holds the stream from the byte on the line to the one being sent.
OrderInv ==
  /\ byte = Upcoming(Before)
  /\ \A i \in TxSlot : LET k == (i - txTail) % TxSize IN
       k < Filled => txBuffer[i] = Upcoming(k)

TxInv == TxTypes /\ (~raced => RoomInv /\ OrderInv)

-----------------------------------------------------------------------------
(* The invariant of the receive direction.                                  *)

rxVars == <<ringRx, rxEnabled, received, taker, overrun, wrapped>>

RxTypes ==
  /\ rxHead \in 0..(RxSize - 1) /\ rxTail \in 0..(RxSize - 1) /\ rxCount \in Counts
  /\ rxEnabled \in BOOLEAN /\ received \in BOOLEAN
  /\ reader \in {"idle", "take", "load", "store", "clear", "enable"}
  /\ count \in Counts /\ announced \in Counts
  /\ overrun \in BOOLEAN /\ wrapped \in BOOLEAN

\* The reader takes the byte out before it counts it down, and what it stores is the
\* count it loaded.  The reads that were announced are counted all the time, so the
\* count they are taken from is not zero.
CountInv ==
  /\ reader \in {"idle", "take", "enable"} => announced <= rxCount /\ rxCount <= Unread
  /\ reader = "load" => announced <= rxCount /\ rxCount <= Unread + 1
  /\ reader = "store" => announced <= count /\ count <= Unread + 1

RxInv == RxTypes /\ (~overrun /\ ~wrapped => CountInv)

UsartInv == TxInv /\ RxInv

-----------------------------------------------------------------------------
(* Arithmetic of indexes and of byte numbers.                               *)

\* Remainders of numbers that are at most one modulus out of range.
LEMMA ModInside ==
  ASSUME NEW S \in Nat \ {0}, NEW x \in Int, 0 <= x, x < S PROVE x % S = x
  BY Z3
\* A number less than one turn past the end of the range.
LEMMA ModOnce ==
  ASSUME NEW S \in Nat \ {0}, NEW x \in Int, 0 <= x, x < 2 * S
  PROVE  x % S = IF x < S THEN x ELSE x - S
  BY Z3
\* A number at most one turn before the start of the range.
LEMMA ModBeforeStart ==
  ASSUME NEW S \in Nat \ {0}, NEW x \in Int, -S <= x, x < 0 PROVE x % S = x + S
  BY Z3

\* The distance of a slot behind another.
LEMMA SlotDistance ==
  ASSUME NEW S \in Nat \ {0}, NEW i \in 0..(S - 1), NEW t \in 0..(S - 1)
  PROVE  (i - t) % S = IF i >= t THEN i - t ELSE i - t + S
<1>1. CASE i >= t
  BY <1>1, ModInside
<1>2. CASE ~(i >= t)
  BY <1>2, ModBeforeStart
<1>3. QED
  BY <1>1, <1>2

\* An index is moved on by one and wraps.
LEMMA AfterSlot ==
  ASSUME NEW S \in Nat \ {0}, NEW i \in 0..(S - 1)
  PROVE  /\ After(i, S) \in 0..(S - 1)
         /\ After(i, S) = IF i = S - 1 THEN 0 ELSE i + 1
  BY DEF After

\* Numbers wrap once at most among the bytes that a ring can hold.
LEMMA UpcomingIs ==
  ASSUME sent \in Number, NEW n \in -1..(Modulus - 2)
  PROVE  /\ Upcoming(n) = IF sent + 1 + n < Modulus THEN sent + 1 + n
                                                  ELSE sent + 1 + n - Modulus
         /\ Upcoming(n) \in Number
<1> DEFINE x == sent + 1 + n
<1>1. Modulus \in Nat \ {0} /\ x \in Int /\ 0 <= x /\ x < 2 * Modulus
  BY FrameAssumption, RingAssumption DEF Number
<1>2. Upcoming(n) = x % Modulus
  BY DEF Upcoming
<1> HIDE DEF x
<1>3. x % Modulus = IF x < Modulus THEN x ELSE x - Modulus
  BY <1>1, ModOnce
<1>4. QED
  BY <1>1, <1>2, <1>3 DEF x, Number

\* The number after another, without the remainder.
LEMMA FollowsIs ==
  ASSUME NEW n \in Number
  PROVE  /\ Follows(n) = IF n + 1 < Modulus THEN n + 1 ELSE 0
         /\ Follows(n) \in Number
<1> DEFINE x == n + 1
<1>1. Modulus \in Nat \ {0, 1} /\ n \in 0..(Modulus - 1)
  BY FrameAssumption, RingAssumption DEF Number
<1>2. x \in Int /\ 0 <= x /\ x < 2 * Modulus
  BY <1>1
<1>3. Follows(n) = x % Modulus
  BY DEF Follows
<1> HIDE DEF x
<1>4. x % Modulus = IF x < Modulus THEN x ELSE x - Modulus
  BY <1>1, <1>2, ModOnce
<1>5. QED
  BY <1>1, <1>3, <1>4 DEF x, Number

\* What the steps use of the transmit direction's types.
LEMMA TxFacts ==
  ASSUME TxTypes
  PROVE  /\ TxSize \in Nat \ {0, 1} /\ Modulus \in Nat /\ Modulus > TxSize
         /\ FrameSize \in Nat \ {0} /\ left \in Nat
         /\ txHead \in 0..TxSize /\ txTail \in 0..(TxSize - 1)
         /\ sent \in Number /\ byte \in Number
         /\ txBuffer \in [TxSlot -> Number]
         /\ Used \in 0..TxSize
         /\ Used = IF txHead >= txTail THEN txHead - txTail ELSE TxSize - txTail + txHead
<1>1. /\ TxSize \in Nat \ {0, 1} /\ Modulus \in Nat /\ Modulus > TxSize
      /\ FrameSize \in Nat \ {0}
  BY RingAssumption, FrameAssumption
<1>2. /\ txHead \in 0..TxSize /\ txTail \in 0..(TxSize - 1) /\ left \in 0..FrameSize
      /\ sent \in Number /\ byte \in Number /\ txBuffer \in [TxSlot -> Number]
  BY DEF TxTypes, TxSlot
<1>3. QED
  BY <1>1, <1>2 DEF Used

\* Sending nothing and writing nothing changes nothing.
LEMMA TxUnchanged ==
  ASSUME TxInv, UNCHANGED <<ringTx, sent, writer, raced>>, txEnabled' \in BOOLEAN,
         tdr' \in Number \cup {Empty}
  PROVE  TxInv'
<1> USE DEF ringTx, writer
<1>1. TxTypes'
  BY DEF TxInv, TxTypes
<1>2. Used' = Used /\ Before' = Before /\ Filled' = Filled
  BY DEF Used, Before, Filled
<1>3. RoomInv => RoomInv'
  BY <1>2 DEF RoomInv
<1>4. OrderInv => OrderInv'
  BY <1>2 DEF OrderInv, Upcoming
<1>5. QED
  BY <1>1, <1>3, <1>4 DEF TxInv

\* The handler puts the oldest byte in the data register: the next one of the stream
\* unless it came in the middle of usart_send.
LEMMA TransmitKeeps ==
  ASSUME TxInv, Transmit, UNCHANGED writer
  PROVE  TxInv' /\ (tdr' \notin {tdr, Empty} => tdr' = Follows(sent) \/ raced')
<1> USE DEF ringTx, lineTx, writer
<1>1. CASE tdr # Empty
  BY <1>1, TxUnchanged DEF Transmit, TxInv, TxTypes
<1>2. CASE tdr = Empty /\ TransmitEmpty
  BY <1>2, TxUnchanged DEF TransmitEmpty, TxInv, TxTypes
<1>3. CASE tdr = Empty /\ TransmitNext
  <2>1. /\ txTail # txHead /\ tdr' = txBuffer[txTail] /\ sent' = txBuffer[txTail]
        /\ txTail' = After(txTail, TxSize)
        /\ raced' = (raced \/ sender \in {"store", "increment", "wrap"})
        /\ UNCHANGED <<txBuffer, txHead, txEnabled, sender, left, byte>>
    BY <1>3 DEF TransmitNext
  <2>2. /\ txTail' \in 0..(TxSize - 1)
        /\ txTail' = IF txTail = TxSize - 1 THEN 0 ELSE txTail + 1
    BY <2>1, TxFacts, AfterSlot DEF TxInv
  <2>3. TxTypes'
    <3>1. txBuffer[txTail] \in Number /\ raced' \in BOOLEAN
      BY <2>1 DEF TxInv, TxTypes
    <3>2. QED
      BY <2>1, <2>2, <3>1 DEF TxInv, TxTypes, TxSlot
  <2>4. ASSUME ~raced'
        PROVE  RoomInv' /\ OrderInv' /\ sent' = Follows(sent)
    <3>1. RoomInv /\ OrderInv /\ sender \notin {"store", "increment", "wrap"}
      BY <2>1, <2>4 DEF TxInv
    <3>2. txHead < TxSize
      BY <3>1, TxFacts DEF TxInv, TxTypes
    <3>3. Used \in 1..(TxSize - 1) /\ Used' = Used - 1
      BY <2>1, <2>2, <3>2, TxFacts DEF TxInv, Used
    <3>4. Filled = Used /\ Filled' = Used'
      BY <2>1, <3>1 DEF Filled
    <3>5. sent' = Upcoming(0) /\ sent' = Follows(sent)
      <4>1. (txTail - txTail) % TxSize = 0
        BY TxFacts, SlotDistance DEF TxInv
      <4>2. txTail \in TxSlot
        BY DEF TxInv, TxTypes
      <4>3. txBuffer[txTail] = Upcoming(0)
        BY <3>1, <3>3, <3>4, <4>1, <4>2 DEF OrderInv
      <4>4. Upcoming(0) = Follows(sent)
        BY TxFacts DEF Upcoming, Follows, TxInv, Number
      <4>5. QED
        BY <2>1, <4>3, <4>4
    <3>6. ASSUME NEW n \in 0..(TxSize - 1) PROVE Upcoming(n) = (sent' + 1 + (n - 1)) % Modulus
      <4>1. sent' = (IF sent + 1 < Modulus THEN sent + 1 ELSE 0) /\ sent' \in Number
        BY <3>5, FollowsIs, TxFacts DEF TxInv
      <4>2. Upcoming(n) = IF sent + 1 + n < Modulus THEN sent + 1 + n
                                                  ELSE sent + 1 + n - Modulus
        BY TxFacts, UpcomingIs DEF TxInv
      <4> DEFINE x == sent' + n
      <4>3. /\ x \in Int /\ 0 <= x /\ x < 2 * Modulus /\ Modulus \in Nat \ {0}
            /\ x = IF sent + 1 < Modulus THEN sent + 1 + n ELSE n
            /\ sent + 1 <= Modulus /\ n < Modulus /\ sent \in Nat
        BY <4>1, TxFacts DEF TxInv, Number
      <4>4. sent' + 1 + (n - 1) = x
        BY <4>1, <4>3, TxFacts DEF TxInv, Number
      <4> HIDE DEF x
      <4>5. x % Modulus = IF x < Modulus THEN x ELSE x - Modulus
        BY <4>3, ModOnce
      <4>6. QED
        BY <4>2, <4>3, <4>4, <4>5
    <3>7. RoomInv'
      BY <2>1, <3>1, <3>3, TxFacts DEF RoomInv, TxInv
    <3>8. byte' = Upcoming(Before)'
      <4>1. CASE sender = "enable"
        <5>1. Before = Used - 1 /\ Before' = Used' - 1
          BY <2>1, <4>1 DEF Before
        <5>2. QED
          BY <2>1, <3>1, <3>3, <3>6, <5>1, TxFacts DEF OrderInv, Upcoming, TxInv
      <4>2. CASE sender # "enable"
        <5>1. Before = Used /\ Before' = Used'
          BY <2>1, <3>1, <4>2 DEF Before
        <5>2. QED
          BY <2>1, <3>1, <3>3, <3>6, <5>1, TxFacts DEF OrderInv, Upcoming, TxInv
      <4>3. QED
        BY <4>1, <4>2
    <3>9. ASSUME NEW i \in TxSlot, ((i - txTail) % TxSize < Filled)'
          PROVE  txBuffer'[i] = Upcoming((i - txTail) % TxSize)'
      <4> DEFINE k == (i - txTail) % TxSize
                 j == (i - txTail') % TxSize
      <4>1. k = IF i >= txTail THEN i - txTail ELSE i - txTail + TxSize
        BY TxFacts, SlotDistance DEF TxInv, TxSlot
      <4>2. j = IF i >= txTail' THEN i - txTail' ELSE i - txTail' + TxSize
        BY <2>2, TxFacts, SlotDistance DEF TxInv, TxSlot
      <4>3. j < Used - 1
        BY <3>3, <3>4, <3>9
      <4> HIDE DEF k, j
      <4>4. i \in 0..(TxSize - 1) /\ TxSize \in Nat /\ txTail \in 0..(TxSize - 1)
        BY TxFacts DEF TxInv, TxSlot
      <4>5. k \in 0..(TxSize - 1) /\ j \in 0..(TxSize - 1)
        BY <2>2, <4>1, <4>2, <4>4
      <4>6. i # txTail
        BY <2>2, <3>3, <4>2, <4>3, <4>4
      <4>7. j = k - 1 /\ k < Used
        BY <2>2, <3>3, <4>1, <4>2, <4>3, <4>4, <4>5, <4>6
      <4>8. txBuffer[i] = Upcoming(k)
        BY <3>1, <3>4, <4>7 DEF OrderInv, k
      <4>9. Upcoming(k) = (sent' + 1 + j) % Modulus
        BY <3>6, <4>5, <4>7
      <4>10. QED
        BY <2>1, <4>8, <4>9 DEF Upcoming, j
    <3>10. QED
      BY <3>5, <3>7, <3>8, <3>9 DEF OrderInv
  <2>5. QED
    BY <2>1, <2>3, <2>4 DEF TxInv
<1>4. QED
  BY <1>1, <1>2, <1>3 DEF Transmit

\* The byte after the n-th upcoming one.
LEMMA FollowsUpcoming ==
  ASSUME sent \in Number, NEW n \in -1..(Modulus - 3)
  PROVE  Follows(Upcoming(n)) = Upcoming(n + 1)
<1>1. Modulus \in Nat \ {0} /\ sent \in 0..(Modulus - 1)
  BY FrameAssumption, RingAssumption DEF Number
<1>2. /\ Upcoming(n) = IF sent + 1 + n < Modulus THEN sent + 1 + n ELSE sent + 1 + n - Modulus
      /\ Upcoming(n) \in Number
  BY <1>1, UpcomingIs
<1>3. Upcoming(n + 1) = IF sent + 2 + n < Modulus THEN sent + 2 + n
                                                  ELSE sent + 2 + n - Modulus
  BY <1>1, UpcomingIs
<1>4. Follows(Upcoming(n)) = IF Upcoming(n) + 1 < Modulus THEN Upcoming(n) + 1 ELSE 0
  BY <1>2, FollowsIs
<1>5. QED
  BY <1>1, <1>2, <1>3, <1>4

\* A frame is begun when it fits.
LEMMA BeginFrameKeeps ==
  ASSUME TxInv, BeginFrame PROVE TxInv'
<1> USE DEF ringTx, lineTx, history
<1>1. /\ sender = "idle" /\ FrameSize < TxSize - Used
      /\ sender' = "disable" /\ left' = FrameSize
      /\ UNCHANGED <<ringTx, txEnabled, lineTx, byte, raced>>
  BY DEF BeginFrame, SpaceAvailable
<1>2. TxTypes'
  BY <1>1, TxFacts DEF TxInv, TxTypes
<1>3. Used' = Used /\ Before' = Before /\ Filled' = Filled
  BY <1>1 DEF Used, Before, Filled
<1>4. RoomInv'
  BY <1>1, <1>3 DEF RoomInv
<1>5. OrderInv => OrderInv'
  BY <1>1, <1>3 DEF OrderInv, Upcoming
<1>6. QED
  BY <1>1, <1>2, <1>4, <1>5 DEF TxInv

\* The writer masks the transmit interrupt: ring and message stay as they are.
LEMMA DisableTransmitKeeps ==
  ASSUME TxInv, DisableTransmit PROVE TxInv'
<1> USE DEF ringTx, lineTx, history
<1>1. /\ sender = "disable" /\ sender' = "add" /\ txEnabled' = FALSE
      /\ UNCHANGED <<ringTx, lineTx, left, byte, raced>>
  BY DEF DisableTransmit, SendStep
<1>2. TxTypes'
  BY <1>1 DEF TxInv, TxTypes
<1>3. Used' = Used /\ Before' = Before /\ Filled' = Filled
  BY <1>1 DEF Used, Before, Filled
<1>4. RoomInv => RoomInv'
  BY <1>1, <1>3 DEF RoomInv
<1>5. OrderInv => OrderInv'
  BY <1>1, <1>3 DEF OrderInv, Upcoming
<1>6. QED
  BY <1>1, <1>2, <1>4, <1>5 DEF TxInv

\* The byte is stored behind those that the ring holds, whether head has moved already
\* or not.
LEMMA StoreByteKeeps ==
  ASSUME TxInv, StoreByte PROVE TxInv'
<1> DEFINE slot == IF sender = "add" THEN txHead ELSE txHead - 1
<1> USE DEF ringTx, lineTx, history
<1>1. /\ \/ sender = "add" /\ sender' = "increment"
         \/ sender = "store" /\ sender' = "wrap"
      /\ txBuffer' = [txBuffer EXCEPT ![slot] = byte]
      /\ UNCHANGED <<txHead, txTail, txEnabled, lineTx, left, byte, raced>>
  BY DEF StoreByte, SendStep
<1>2. slot \in TxSlot /\ slot \in 0..(TxSize - 1)
  BY <1>1, TxFacts DEF TxInv, TxTypes, TxSlot
<1>3. TxTypes'
  <2>1. txBuffer' \in [TxSlot -> Number]
    BY <1>1, <1>2, TxFacts DEF TxInv
  <2>2. QED
    BY <1>1, <2>1 DEF TxInv, TxTypes
<1>4. Used' = Used
  BY <1>1 DEF Used
<1>5. ASSUME RoomInv PROVE RoomInv'
  BY <1>1, <1>4, <1>5 DEF RoomInv
<1>6. ASSUME RoomInv, OrderInv PROVE OrderInv'
  <2>1. Before' = Before
    BY <1>1, <1>4 DEF Before
  <2>2. Filled' = Before + 1 /\ Filled = Before
    BY <1>1, <1>4, TxFacts DEF TxInv, Filled, Before
  <2>3. Before \in -1..(TxSize - 2) /\ (Before >= 0 => (slot - txTail) % TxSize = Before)
    <3>1. (slot - txTail) % TxSize
            = IF slot >= txTail THEN slot - txTail ELSE slot - txTail + TxSize
      BY <1>2, TxFacts, SlotDistance DEF TxInv
    <3>2. left >= 1
      BY <1>1 DEF TxInv, TxTypes
    <3>3. CASE sender = "add"
      <4>1. Before = Used /\ slot = txHead /\ left < TxSize - Used
        BY <1>6, <3>3 DEF Before, RoomInv
      <4>2. QED
        BY <1>2, <3>1, <3>2, <4>1, TxFacts DEF TxInv
    <3>4. CASE sender = "store"
      <4>1. Before = Used - 1 /\ slot = txHead - 1 /\ left <= TxSize - Used
        BY <1>6, <3>4 DEF Before, RoomInv
      <4>2. QED
        BY <1>2, <3>1, <3>2, <4>1, TxFacts DEF TxInv
    <3>5. QED
      BY <1>1, <3>3, <3>4
  <2>4. ASSUME NEW i \in TxSlot, (i - txTail) % TxSize < Before + 1
        PROVE  txBuffer'[i] = Upcoming((i - txTail) % TxSize)
    <3> DEFINE k == (i - txTail) % TxSize
    <3>1. k = IF i >= txTail THEN i - txTail ELSE i - txTail + TxSize
      BY TxFacts, SlotDistance DEF TxInv, TxSlot
    <3>2. i \in 0..(TxSize - 1) /\ k \in 0..(TxSize - 1) /\ k < Before + 1
      <4>1. i \in 0..(TxSize - 1) /\ txTail \in 0..(TxSize - 1) /\ TxSize \in Nat
        BY TxFacts DEF TxInv, TxSlot
      <4>2. k \in 0..(TxSize - 1)
        <5> HIDE DEF k
        <5>1. QED
          BY <3>1, <4>1
      <4>3. QED
        BY <2>4, <4>1, <4>2
    <3>3. CASE i = slot
      <4> HIDE DEF k
      <4>1. Before >= 0
        BY <2>3, <3>2
      <4>2. k = Before
        BY <2>3, <3>3, <4>1 DEF k
      <4>3. txBuffer'[i] = byte
        BY <1>1, <1>2, <3>3 DEF TxInv, TxTypes
      <4>4. QED
        BY <1>6, <4>2, <4>3 DEF OrderInv, k
    <3>4. CASE i # slot
      <4>1. (slot - txTail) % TxSize
              = IF slot >= txTail THEN slot - txTail ELSE slot - txTail + TxSize
        BY <1>2, TxFacts, SlotDistance DEF TxInv
      <4> HIDE DEF k, slot
      <4>2. k # Before
        BY <1>2, <2>3, <3>1, <3>2, <3>4, <4>1, TxFacts DEF TxInv
      <4>3. k < Filled
        BY <2>2, <2>3, <3>2, <4>2
      <4>4. txBuffer'[i] = txBuffer[i]
        BY <1>1, <3>4 DEF TxInv, TxTypes
      <4>5. QED
        BY <1>6, <4>3, <4>4 DEF OrderInv, k
    <3>5. QED
      BY <3>3, <3>4
  <2>5. QED
    BY <1>1, <1>6, <2>1, <2>2, <2>4 DEF OrderInv, Upcoming
<1>7. QED
  BY <1>1, <1>3, <1>5, <1>6 DEF TxInv

\* While there is room head moves on without reaching tail, so the ring holds one more.
LEMMA IncrementHeadKeeps ==
  ASSUME TxInv, IncrementHead PROVE TxInv'
<1> USE DEF ringTx, lineTx, history
<1>1. /\ \/ sender = "add" /\ sender' = "store"
         \/ sender = "increment" /\ sender' = "wrap"
      /\ txHead' = txHead + 1
      /\ UNCHANGED <<txBuffer, txTail, txEnabled, lineTx, left, byte, raced>>
  BY DEF IncrementHead, SendStep
<1>2. txHead \in 0..(TxSize - 1) /\ left >= 1
  BY <1>1, TxFacts DEF TxInv, TxTypes
<1>3. TxTypes'
  BY <1>1, <1>2, TxFacts DEF TxInv, TxTypes
<1>4. ASSUME RoomInv PROVE RoomInv' /\ (OrderInv => OrderInv')
  <2>1. left < TxSize - Used
    BY <1>1, <1>4 DEF RoomInv
  <2>2. Used' = Used + 1
    BY <1>1, <1>2, <2>1, TxFacts DEF TxInv, Used
  <2>3. RoomInv'
    BY <1>1, <2>1, <2>2, TxFacts DEF TxInv, RoomInv
  <2>4. Before' = Before /\ Filled' = Filled
    BY <1>1, <2>2, TxFacts DEF TxInv, Before, Filled
  <2>5. OrderInv => OrderInv'
    BY <1>1, <2>4 DEF OrderInv, Upcoming
  <2>6. QED
    BY <2>3, <2>5
<1>5. QED
  BY <1>1, <1>3, <1>4 DEF TxInv

\* The writer wraps its index at the end of the ring.
LEMMA WrapHeadKeeps ==
  ASSUME TxInv, WrapHead PROVE TxInv'
<1> USE DEF ringTx, lineTx, history
<1>1. /\ sender = "wrap" /\ sender' = "enable"
      /\ txHead' = IF txHead >= TxSize THEN 0 ELSE txHead
      /\ UNCHANGED <<txBuffer, txTail, txEnabled, lineTx, left, byte, raced>>
  BY DEF WrapHead, SendStep
<1>2. txHead' \in 0..(TxSize - 1) /\ left >= 1
  BY <1>1, TxFacts DEF TxInv, TxTypes
<1>3. TxTypes'
  BY <1>1, <1>2, TxFacts DEF TxInv, TxTypes
<1>4. ASSUME RoomInv PROVE RoomInv' /\ (OrderInv => OrderInv')
  <2>1. left <= TxSize - Used
    BY <1>1, <1>4 DEF RoomInv
  <2>2. Used' = Used
    BY <1>1, <1>2, <2>1, TxFacts DEF TxInv, Used
  <2>3. RoomInv'
    BY <1>1, <2>1, <2>2 DEF RoomInv
  <2>4. Before' = Before /\ Filled' = Filled
    BY <1>1, <2>2 DEF Before, Filled
  <2>5. OrderInv => OrderInv'
    BY <1>1, <2>4 DEF OrderInv, Upcoming
  <2>6. QED
    BY <2>3, <2>5
<1>5. QED
  BY <1>1, <1>3, <1>4 DEF TxInv

\* The byte is sent, and the next one of the frame is up.
LEMMA EnableTransmitKeeps ==
  ASSUME TxInv, EnableTransmit PROVE TxInv'
<1> USE DEF ringTx, lineTx, history
<1>1. /\ sender = "enable" /\ txEnabled' = TRUE
      /\ sender' = IF left > 1 THEN "disable" ELSE "idle"
      /\ left' = left - 1 /\ byte' = Follows(byte)
      /\ UNCHANGED <<ringTx, lineTx, raced>>
  BY DEF EnableTransmit
<1>2. left \in 1..FrameSize /\ byte' \in Number
  BY <1>1, TxFacts, FollowsIs DEF TxInv, TxTypes
<1>3. TxTypes'
  <2>1. /\ sender' \in {"idle", "disable"} /\ left' \in 0..FrameSize
        /\ sender' # "idle" => left' >= 1
    BY <1>1, <1>2, TxFacts DEF TxInv
  <2>2. QED
    BY <1>1, <1>2, <2>1 DEF TxInv, TxTypes
<1>4. Used' = Used /\ Filled' = Filled
  BY <1>1 DEF Used, Filled
<1>5. ASSUME RoomInv PROVE RoomInv' /\ (OrderInv => OrderInv')
  <2>1. left <= TxSize - Used
    BY <1>1, <1>5 DEF RoomInv
  <2>2. RoomInv'
    <3>1. left' < TxSize - Used'
      BY <1>1, <1>2, <1>4, <2>1, TxFacts DEF TxInv
    <3>2. QED
      BY <1>1, <3>1 DEF RoomInv
  <2>3. Used - 1 \in -1..(Modulus - 3) /\ (Used - 1) + 1 = Used
    BY <1>2, <2>1, TxFacts DEF TxInv
  <2>4. Before = Used - 1 /\ Before' = Used
    BY <1>1, <1>4 DEF Before
  <2>5. ASSUME OrderInv PROVE OrderInv'
    <3>1. byte' = Upcoming(Used)
      BY <1>1, <2>3, <2>4, <2>5, FollowsUpcoming, TxFacts DEF TxInv, OrderInv
    <3>2. QED
      BY <1>1, <1>4, <2>4, <2>5, <3>1 DEF OrderInv, Upcoming
  <2>6. QED
    BY <2>2, <2>5
<1>6. QED
  BY <1>1, <1>3, <1>5 DEF TxInv

-----------------------------------------------------------------------------
(* The receive direction.                                                   *)

\* The indices of the receive ring, and the number of bytes between them.
LEMMA RxFacts ==
  ASSUME RxTypes
  PROVE  /\ RxSize \in Nat \ {0, 1} /\ CountRange \in Nat /\ CountRange > RxSize
         /\ rxCount \in 0..(CountRange - 1) /\ count \in 0..(CountRange - 1)
         /\ announced \in 0..(CountRange - 1)
         /\ rxHead \in 0..(RxSize - 1) /\ rxTail \in 0..(RxSize - 1)
         /\ Unread \in 0..(RxSize - 1)
         /\ Unread = IF rxHead >= rxTail THEN rxHead - rxTail ELSE rxHead - rxTail + RxSize
<1>1. RxSize \in Nat \ {0, 1} /\ rxHead \in 0..(RxSize - 1) /\ rxTail \in 0..(RxSize - 1)
  BY RingAssumption DEF RxTypes
<1>2. Unread = IF rxHead >= rxTail THEN rxHead - rxTail ELSE rxHead - rxTail + RxSize
  BY <1>1, SlotDistance DEF Unread
<1>3. /\ rxCount \in 0..(CountRange - 1) /\ count \in 0..(CountRange - 1)
      /\ announced \in 0..(CountRange - 1)
  BY DEF RxTypes, Counts
<1>4. QED
  BY <1>1, <1>2, <1>3, CountAssumption

\* What the count becomes by one more or one less, of a number that wraps.
LEMMA CountSteps ==
  ASSUME NEW n \in Counts
  PROVE  /\ (n + 1) % CountRange \in Counts /\ (n - 1) % CountRange \in Counts
         /\ n + 1 < CountRange => (n + 1) % CountRange = n + 1
         /\ n > 0 => (n - 1) % CountRange = n - 1
<1> DEFINE x == n + 1
           y == n - 1
<1>1. CountRange \in Nat \ {0} /\ n \in 0..(CountRange - 1)
  BY CountAssumption, RingAssumption DEF Counts
<1>2. /\ x \in Int /\ 0 <= x /\ x < 2 * CountRange
      /\ y \in Int /\ -CountRange <= y /\ y < CountRange
  BY <1>1
<1> HIDE DEF x, y
<1>3. x % CountRange = IF x < CountRange THEN x ELSE x - CountRange
  BY <1>1, <1>2, ModOnce
<1>4. y >= 0 => y % CountRange = y
  BY <1>1, <1>2, ModInside
<1>5. y < 0 => y % CountRange = y + CountRange
  BY <1>1, <1>2, ModBeforeStart
<1>6. x % CountRange \in Counts /\ y % CountRange \in Counts
  BY <1>1, <1>2, <1>3, <1>4, <1>5 DEF x, y, Counts
<1>7. (x < CountRange => x % CountRange = x) /\ (n > 0 => y % CountRange = y)
  BY <1>1, <1>3, <1>4 DEF y
<1>8. QED
  BY <1>6, <1>7 DEF x, y

\* Steps that leave the ring and the reader alone.
LEMMA RxUnchanged ==
  ASSUME RxInv, UNCHANGED <<ringRx, taker, overrun, wrapped>>,
         rxEnabled' \in BOOLEAN, received' \in BOOLEAN
  PROVE  RxInv'
<1> USE DEF ringRx, taker
<1>1. RxTypes'
  BY DEF RxInv, RxTypes
<1>2. Unread' = Unread
  BY DEF Unread
<1>3. CountInv => CountInv'
  BY <1>2 DEF CountInv
<1>4. QED
  BY <1>1, <1>3 DEF RxInv

\* The handler counts a byte and puts it in the ring, which holds one more unless it
\* overflows.
LEMMA ReceiveKeeps ==
  ASSUME RxInv, Receive, UNCHANGED <<rxEnabled, taker, wrapped>>
  PROVE  RxInv'
<1> USE DEF ringRx, taker
<1>1. CASE ~received
  BY <1>1, RxUnchanged DEF Receive, RxInv, RxTypes
<1>2. CASE received
  <2>1. /\ rxHead' = After(rxHead, RxSize) /\ rxCount' = (rxCount + 1) % CountRange
        /\ received' = FALSE /\ overrun' = (overrun \/ rxHead' = rxTail)
        /\ UNCHANGED <<rxTail, rxEnabled, reader, count, announced, wrapped>>
    BY <1>2 DEF Receive
  <2>2. /\ rxHead' \in 0..(RxSize - 1)
        /\ rxHead' = IF rxHead = RxSize - 1 THEN 0 ELSE rxHead + 1
    BY <2>1, RxFacts, AfterSlot DEF RxInv
  <2>3. /\ rxCount \in Counts /\ rxCount' \in Counts
        /\ rxCount + 1 < CountRange => rxCount' = rxCount + 1
    BY <2>1, CountSteps DEF RxInv, RxTypes
  <2>4. RxTypes'
    <3>1. overrun' \in BOOLEAN
      BY <2>1 DEF RxInv, RxTypes
    <3>2. QED
      BY <2>1, <2>2, <2>3, <3>1 DEF RxInv, RxTypes
  <2>5. ASSUME ~overrun', ~wrapped' PROVE CountInv'
    <3>a. overrun' = (overrun \/ rxHead' = rxTail) /\ wrapped' = wrapped
      BY <2>1
    <3>b. ~(overrun \/ rxHead' = rxTail)
      BY <2>5, <3>a, Zenon
    <3>c. ~wrapped
      BY <2>5, <3>a
    <3>1. CountInv /\ rxHead' # rxTail
      BY <3>b, <3>c DEF RxInv
    <3>2. Unread' = IF rxHead' >= rxTail THEN rxHead' - rxTail ELSE rxHead' - rxTail + RxSize
      BY <2>1, <2>2, SlotDistance, RxFacts DEF Unread, RxInv
    <3>3. Unread' = Unread + 1 /\ Unread + 1 < RxSize
      BY <2>2, <3>1, <3>2, RxFacts DEF RxInv
    <3>4. rxCount <= Unread + 1 => rxCount' = rxCount + 1
      BY <2>3, <3>3, RxFacts DEF RxInv
    <3>5. rxCount <= Unread + 1
            => (rxCount' <= Unread' + 1 /\ (rxCount <= Unread => rxCount' <= Unread')
                /\ (announced <= rxCount => announced <= rxCount'))
      BY <3>3, <3>4, RxFacts DEF RxInv
    <3>6. rxCount <= Unread => rxCount <= Unread + 1
      BY RxFacts DEF RxInv
    <3>7. count <= Unread + 1 => count <= Unread' + 1
      BY <3>3, RxFacts DEF RxInv
    <3>8. QED
      BY <2>1, <3>1, <3>5, <3>6, <3>7 DEF CountInv
  <2>6. QED
    BY <2>4, <2>5 DEF RxInv
<1>3. QED
  BY <1>1, <1>2

\* The looks at the count, and the steps of usart_read that leave the ring as it is.
LEMMA ReaderKeeps ==
  ASSUME RxInv,
         \/ \E n \in 1..(RxSize - 1) : WaitForCount(n)
         \/ StopReading \/ DisableReceive \/ LoadCount \/ StoreCount \/ FindNoByte
         \/ ClearCount \/ EnableReceive
  PROVE  RxInv'
<1> USE DEF ringRx, taker, history
<1>1. Unread' = Unread
  BY DEF Unread, WaitForCount, StopReading, DisableReceive, LoadCount, StoreCount,
         FindNoByte, ClearCount, EnableReceive
<1>2. CASE \E n \in 1..(RxSize - 1) : WaitForCount(n)
  <2> PICK n \in 1..(RxSize - 1) : WaitForCount(n)
    BY <1>2
  <2>1. /\ reader = "idle" /\ rxCount >= n /\ announced' = n
        /\ UNCHANGED <<ringRx, rxEnabled, received, reader, count, overrun, wrapped>>
    BY DEF WaitForCount
  <2>2. n \in Counts /\ n <= rxCount
    BY <2>1, RxFacts DEF RxInv, Counts
  <2>3. RxTypes'
    BY <2>1, <2>2 DEF RxInv, RxTypes
  <2>4. QED
    BY <1>1, <2>1, <2>2, <2>3 DEF RxInv, CountInv
<1>3. CASE StopReading
  <2>1. /\ reader = "idle" /\ announced' = 0
        /\ UNCHANGED <<ringRx, rxEnabled, received, reader, count, overrun, wrapped>>
    BY <1>3 DEF StopReading
  <2>2. 0 \in Counts /\ 0 <= rxCount
    BY RxFacts DEF RxInv, Counts
  <2>3. RxTypes'
    BY <2>1, <2>2 DEF RxInv, RxTypes
  <2>4. QED
    BY <1>1, <2>1, <2>2, <2>3 DEF RxInv, CountInv
<1>4. CASE DisableReceive
  <2>1. RxTypes'
    BY <1>4 DEF DisableReceive, RxInv, RxTypes
  <2>2. QED
    BY <1>1, <1>4, <2>1 DEF DisableReceive, RxInv, CountInv
<1>5. CASE LoadCount
  <2>1. RxTypes'
    BY <1>5 DEF LoadCount, RxInv, RxTypes
  <2>2. QED
    BY <1>1, <1>5, <2>1 DEF LoadCount, RxInv, CountInv
<1>6. CASE StoreCount
  <2>1. /\ reader = "store" /\ reader' = "enable"
        /\ rxCount' = (count - 1) % CountRange /\ count' = 0 /\ announced' = OneReadLess
        /\ wrapped' = (wrapped \/ (count = 0 /\ announced = 0))
        /\ UNCHANGED <<rxHead, rxTail, rxEnabled, received, overrun>>
    BY <1>6 DEF StoreCount
  <2>2. rxCount' \in Counts /\ (count > 0 => rxCount' = count - 1)
    BY <2>1, CountSteps DEF RxInv, RxTypes
  <2>3. announced' \in Counts /\ 0 \in Counts
        /\ announced' = IF announced = 0 THEN 0 ELSE announced - 1
    BY <2>1, RxFacts DEF RxInv, OneReadLess, Counts
  <2>4. RxTypes'
    <3>1. wrapped' \in BOOLEAN
      BY <2>1 DEF RxInv, RxTypes
    <3>2. QED
      BY <2>1, <2>2, <2>3, <3>1 DEF RxInv, RxTypes
  <2>5. ASSUME ~overrun', ~wrapped' PROVE CountInv'
    <3>1. announced <= count /\ count <= Unread + 1
      BY <2>1, <2>5 DEF RxInv, CountInv
    <3>a. wrapped' = (wrapped \/ (count = 0 /\ announced = 0))
      BY <2>1
    <3>b. ~(count = 0 /\ announced = 0)
      BY <2>5, <3>a, Zenon
    <3>2. count > 0
      BY <3>1, <3>b, RxFacts DEF RxInv
    <3>3. announced' <= rxCount' /\ rxCount' <= Unread'
      BY <1>1, <2>2, <2>3, <3>1, <3>2, RxFacts DEF RxInv
    <3>4. QED
      BY <2>1, <3>3 DEF CountInv
  <2>6. QED
    BY <2>4, <2>5 DEF RxInv
<1>7. CASE FindNoByte
  <2>1. RxTypes'
    BY <1>7 DEF FindNoByte, RxInv, RxTypes
  <2>2. QED
    BY <1>1, <1>7, <2>1 DEF FindNoByte, RxInv, CountInv
<1>8. CASE ClearCount
  <2>1. /\ reader' = "enable" /\ rxCount' = 0 /\ announced' = 0
        /\ overrun' = FALSE /\ wrapped' = FALSE
        /\ UNCHANGED <<rxHead, rxTail, rxEnabled, received, count>>
    BY <1>8 DEF ClearCount
  <2>2. 0 \in Counts /\ 0 <= Unread'
    BY <1>1, RxFacts DEF RxInv, Counts
  <2>3. RxTypes'
    BY <2>1, <2>2 DEF RxInv, RxTypes
  <2>4. QED
    BY <2>1, <2>2, <2>3 DEF RxInv, CountInv
<1>9. CASE EnableReceive
  <2>1. RxTypes'
    BY <1>9 DEF EnableReceive, RxInv, RxTypes
  <2>2. QED
    BY <1>1, <1>9, <2>1 DEF EnableReceive, RxInv, CountInv
<1>10. QED
  BY <1>2, <1>3, <1>4, <1>5, <1>6, <1>7, <1>8, <1>9

\* A byte is taken from a ring that is not empty, before the count says so.
LEMMA TakeByteKeeps ==
  ASSUME RxInv, TakeByte PROVE RxInv'
<1> USE DEF ringRx, taker, history
<1>1. /\ reader = "take" /\ rxTail # rxHead /\ reader' = "load"
      /\ rxTail' = After(rxTail, RxSize)
      /\ UNCHANGED <<rxHead, rxCount, rxEnabled, received, count, announced, overrun, wrapped>>
  BY DEF TakeByte
<1>2. /\ rxTail' \in 0..(RxSize - 1)
      /\ rxTail' = IF rxTail = RxSize - 1 THEN 0 ELSE rxTail + 1
  BY <1>1, RxFacts, AfterSlot DEF RxInv
<1>3. RxTypes'
  BY <1>1, <1>2 DEF RxInv, RxTypes
<1>4. Unread' = IF rxHead >= rxTail' THEN rxHead - rxTail' ELSE rxHead - rxTail' + RxSize
  BY <1>1, <1>2, SlotDistance, RxFacts DEF Unread, RxInv
<1>5. Unread = Unread' + 1
  BY <1>1, <1>2, <1>4, RxFacts DEF RxInv
<1>6. CountInv => CountInv'
  BY <1>1, <1>5 DEF CountInv
<1>7. QED
  BY <1>1, <1>3, <1>6 DEF RxInv

-----------------------------------------------------------------------------
(* Both directions together.                                                *)

\* Both rings are empty and the transmit interrupt is off.
LEMMA InitUsartInv == Init => UsartInv
<1> SUFFICES ASSUME Init PROVE UsartInv
  OBVIOUS
<1>1. /\ TxSize \in Nat \ {0, 1} /\ RxSize \in Nat \ {0, 1} /\ FrameSize \in Nat
      /\ Modulus \in Nat \ {0, 1} /\ 0 \in TxSlot /\ 0 \in Number /\ Modulus - 1 \in Number
  BY RingAssumption, FrameAssumption DEF TxSlot, Number
<1>2. TxTypes
  <2>1. txBuffer \in [TxSlot -> Number]
    BY <1>1 DEF Init, TxSlot
  <2>2. txHead = 0 /\ txTail = 0 /\ 0 \in 0..TxSize /\ TxSize # 0 /\ left = 0 /\ 0 \in 0..FrameSize
    BY <1>1 DEF Init
  <2>3. txEnabled = FALSE /\ tdr = Empty /\ sent \in Number /\ sender = "idle" /\ byte \in Number
        /\ raced = FALSE
    BY <1>1 DEF Init
  <2>4. QED
    BY <1>1, <2>1, <2>2, <2>3 DEF TxTypes
<1>3. RxTypes
  <2>1. /\ rxHead = 0 /\ rxTail = 0 /\ 0 \in 0..(RxSize - 1)
        /\ rxCount = 0 /\ count = 0 /\ announced = 0 /\ 0 \in Counts
    BY <1>1, CountAssumption DEF Init, Counts
  <2>2. /\ rxEnabled = TRUE /\ received = FALSE /\ reader = "idle"
        /\ overrun = FALSE /\ wrapped = FALSE
    BY DEF Init
  <2>3. QED
    BY <2>1, <2>2 DEF RxTypes
<1>4. Used = 0 /\ Before = 0 /\ Filled = 0
  BY <1>1 DEF Init, Used, Before, Filled
<1>5. RoomInv
  BY DEF Init, RoomInv
<1>6. OrderInv
  <2>1. Upcoming(0) = 0
    BY <1>1, UpcomingIs DEF Init
  <2>2. ASSUME NEW i \in TxSlot PROVE ~((i - txTail) % TxSize < Filled)
    <3>1. i \in 0..(TxSize - 1) /\ txTail = 0
      BY DEF Init, TxSlot
    <3>2. (i - txTail) % TxSize = i
      BY <1>1, <3>1, SlotDistance
    <3>3. QED
      BY <1>4, <3>1, <3>2
  <2>3. QED
    BY <1>4, <2>1, <2>2 DEF Init, OrderInv
<1>7. CountInv
  BY <1>3, RxFacts DEF Init, CountInv
<1>8. QED
  BY <1>2, <1>3, <1>5, <1>6, <1>7 DEF UsartInv, TxInv, RxInv

\* A step is one of the line, the handler, the writer or the reader.
LEMMA NextUsartInv ==
  UsartInv /\ [Next]_vars
    => UsartInv' /\ (tdr' \notin {tdr, Empty} => tdr' = Follows(sent) \/ raced')
<1> SUFFICES ASSUME UsartInv, [Next]_vars
             PROVE  UsartInv' /\ (tdr' \notin {tdr, Empty} => tdr' = Follows(sent) \/ raced')
  OBVIOUS
<1> USE DEF UsartInv
<1>tx. ASSUME UNCHANGED txVars PROVE TxInv'
  BY <1>tx, TxUnchanged DEF txVars, lineTx, TxInv, TxTypes
<1>rx. ASSUME UNCHANGED rxVars PROVE RxInv'
  BY <1>rx, RxUnchanged DEF rxVars, RxInv, RxTypes
<1>1. CASE UNCHANGED vars
  BY <1>1, <1>tx, <1>rx DEF vars, txVars, rxVars, lineTx, history
<1>2. CASE Shift
  <2>1. tdr' = Empty /\ UNCHANGED <<ringTx, sent, writer, raced, txEnabled>> /\ UNCHANGED rxVars
    BY <1>2 DEF Shift, rxVars, history
  <2>2. QED
    BY <2>1, <1>rx, TxUnchanged DEF TxInv, TxTypes
<1>3. CASE ByteArrives
  <2>1. /\ received' = TRUE /\ UNCHANGED <<ringRx, taker, overrun, wrapped, rxEnabled>>
        /\ UNCHANGED txVars
    BY <1>3 DEF ByteArrives, txVars, history
  <2>2. tdr' = tdr
    BY <2>1 DEF txVars, lineTx
  <2>3. QED
    BY <2>1, <2>2, <1>tx, RxUnchanged DEF RxInv, RxTypes
<1>4. CASE Handler
  BY <1>4, TransmitKeeps, ReceiveKeeps DEF Handler
<1>5. CASE MainLoopWrites
  <2>1. UNCHANGED rxVars /\ tdr' = tdr
    BY <1>5 DEF MainLoopWrites, Writer, BeginFrame, DisableTransmit, StoreByte,
                IncrementHead, WrapHead, EnableTransmit, rxVars, lineTx, history
  <2>2. TxInv'
    BY <1>5, BeginFrameKeeps, DisableTransmitKeeps, StoreByteKeeps, IncrementHeadKeeps,
       WrapHeadKeeps, EnableTransmitKeeps DEF MainLoopWrites, Writer
  <2>3. QED
    BY <2>1, <2>2, <1>rx
<1>6. CASE Reader
  <2>1. UNCHANGED txVars /\ tdr' = tdr
    BY <1>6 DEF Reader, WaitForCount, StopReading, DisableReceive, TakeByte, LoadCount,
                StoreCount, FindNoByte, ClearCount, EnableReceive, txVars, lineTx, history
  <2>2. RxInv'
    BY <1>6, ReaderKeeps, TakeByteKeeps DEF Reader
  <2>3. QED
    BY <2>1, <2>2, <1>tx
<1>7. QED
  BY <1>1, <1>2, <1>3, <1>4, <1>5, <1>6 DEF Next

-----------------------------------------------------------------------------
(* The theorems.                                                            *)

\* Both directions keep their invariants under every interleaving of the line, the
\* handler, usart_send and usart_read.
THEOREM UsartInvariant == Spec => []UsartInv
<1>1. Init => UsartInv
  BY InitUsartInv
<1>2. UsartInv /\ [Next]_vars => UsartInv'
  BY NextUsartInv
<1>3. QED
  BY <1>1, <1>2, PTL DEF Spec

\* The indexes wrap inside their storage, and only between the two halves of a send is
\* head past it, even while the handler transmits out of turn or the receive ring
\* overflows.
THEOREM UsartTypeCorrect == Spec => []TypeOK
<1>1. UsartInv => TypeOK
  BY DEF UsartInv, TxInv, RxInv, TxTypes, RxTypes, TypeOK, TxSlot
<1>2. QED
  BY <1>1, UsartInvariant, PTL

\* A frame that was found to fit has room until its last byte is stored, unless the
\* handler transmitted from within usart_send.
THEOREM FramesHaveRoom == Spec => []FrameHasRoom
<1>1. UsartInv => FrameHasRoom
  BY DEF UsartInv, TxInv, RoomInv, FrameHasRoom
<1>2. QED
  BY <1>1, UsartInvariant, PTL

\* Bytes go on the line in the order they were written, each once, unless the handler
\* transmitted from within usart_send.
THEOREM BytesSentInOrder == Spec => SentInOrder
<1>1. UsartInv /\ [Next]_vars
        => [tdr' \notin {tdr, Empty} => tdr' = Follows(sent) \/ raced']_vars
  BY NextUsartInv
<1>2. QED
  BY <1>1, UsartInvariant, PTL DEF Spec, SentInOrder

\* The counter never announces a byte that the ring does not hold, whatever increments
\* of the handler the reader overwrites, and covers the reads that were announced,
\* unless the ring overflowed or a read that was not announced made it wrap.
THEOREM AnnouncedBytesAreThere == Spec => []AnnouncedByteIsThere
<1>1. UsartInv => AnnouncedByteIsThere
  BY DEF UsartInv, RxInv, CountInv, AnnouncedByteIsThere
<1>2. QED
  BY <1>1, UsartInvariant, PTL
=============================================================================
