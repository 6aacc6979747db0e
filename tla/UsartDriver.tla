----------------------------- MODULE UsartDriver -----------------------------
(***************************************************************************)
(* The buffered serial driver of the mainboard, usart_hal.c, with the      *)
(* frame writer above it (mainboard_hal.c and usart2.c).  The main loop    *)
(* puts bytes in a transmit ring and takes bytes from a receive ring; one  *)
(* interrupt handler serves both directions.                               *)
(*                                                                         *)
(* A byte to send is its number in the stream, modulo Modulus: that tells  *)
(* order, loss, repetition and a stale slot apart.  Of the receive ring    *)
(* only the indexes and the counter are kept.                              *)
(*                                                                         *)
(* Three things go wrong in this driver: the handler, entered for a byte   *)
(* received, also transmits while usart_send is half done (raced); the     *)
(* receive ring overflows (overrun); and the count of received bytes falls *)
(* below zero in a read that no look at the count announced (wrapped).     *)
(* History variables record them, and the properties say that nothing else *)
(* goes wrong.                                                             *)
(***************************************************************************)
EXTENDS Integers

CONSTANTS
  TxSize, RxSize,  \* bytes of storage of the two rings
  FrameSize,       \* bytes of a frame
  Modulus,         \* bytes are numbered modulo this, more than are ever queued
  CountRange       \* rx_count is taken modulo this, 2^32 in the code

ASSUME RingAssumption == TxSize \in Nat \ {0, 1} /\ RxSize \in Nat \ {0, 1}
ASSUME FrameAssumption == FrameSize \in Nat \ {0} /\ Modulus \in Nat /\ Modulus > TxSize
ASSUME CountAssumption == CountRange \in Nat /\ CountRange > RxSize

Number == 0..(Modulus - 1)
Counts == 0..(CountRange - 1)
Empty  == Modulus  \* of the transmit data register

VARIABLES
  txBuffer, txHead, txTail,  \* tx_buffer, tx_buffer_head, tx_buffer_tail
  txEnabled,                 \* TXEIE, the transmit interrupt enable
  tdr,                       \* the transmit data register, TXE when Empty
  sent,                      \* the last byte put in it
  sender, left, byte,        \* the writer, the bytes left of its frame, the next byte
  rxHead, rxTail, rxCount,   \* rx_buffer_head, rx_buffer_tail, rx_count
  rxEnabled,                 \* RXNEIE, the receive interrupt enable
  received,                  \* RXNE, a byte is in the receive data register
  reader, count,             \* usart_read and the count it loaded
  announced,                 \* reads still covered by the last look at rx_count
  raced, overrun, wrapped    \* history: transmitted inside usart_send; ring overflowed;
                             \* count below zero in a read that was not announced

ringTx == <<txBuffer, txHead, txTail>>
ringRx == <<rxHead, rxTail, rxCount>>
lineTx == <<tdr, sent>>
writer == <<sender, left, byte>>
taker  == <<reader, count, announced>>
history == <<raced, overrun, wrapped>>
vars == <<ringTx, txEnabled, lineTx, writer, ringRx, rxEnabled, received, taker, history>>

After(index, size) == IF index + 1 >= size THEN 0 ELSE index + 1
Follows(n) == (n + 1) % Modulus

-----------------------------------------------------------------------------
(* The hardware.                                                           *)

\* The shift register takes the byte of the data register.
Shift ==
  /\ tdr # Empty
  /\ tdr' = Empty
  /\ UNCHANGED <<ringTx, txEnabled, sent, writer, ringRx, rxEnabled, received, taker, history>>

ByteArrives ==
  /\ ~received
  /\ received' = TRUE
  /\ UNCHANGED <<ringTx, txEnabled, lineTx, writer, ringRx, rxEnabled, taker, history>>

-----------------------------------------------------------------------------
(* usart_irq_handler.  Either enabled source enters it; inside, it looks at *)
(* the status flags of both and not at their enables.                       *)

TransmitNext ==
  /\ txTail # txHead
  /\ tdr' = txBuffer[txTail] /\ sent' = txBuffer[txTail]
  /\ txTail' = After(txTail, TxSize)
  /\ raced' = (raced \/ sender \in {"store", "increment", "wrap"})
  /\ UNCHANGED <<txBuffer, txHead, txEnabled>>

TransmitEmpty ==
  /\ txTail = txHead
  /\ txEnabled' = FALSE
  /\ UNCHANGED <<ringTx, lineTx, raced>>

Transmit ==
  IF tdr = Empty THEN TransmitNext \/ TransmitEmpty
                 ELSE UNCHANGED <<ringTx, txEnabled, lineTx, raced>>

Receive ==
  IF received
    THEN /\ rxHead' = After(rxHead, RxSize) /\ rxCount' = (rxCount + 1) % CountRange
         /\ received' = FALSE
         /\ overrun' = (overrun \/ rxHead' = rxTail)
         /\ UNCHANGED rxTail
    ELSE UNCHANGED <<ringRx, received, overrun>>

Handler ==
  /\ (txEnabled /\ tdr = Empty) \/ (rxEnabled /\ received)
  /\ Transmit /\ Receive
  /\ UNCHANGED <<writer, rxEnabled, taker, wrapped>>

-----------------------------------------------------------------------------
(* write_display_serial_frame: the check of space, then usart_send for each *)
(* byte with the transmit interrupt disabled.                               *)

Used == IF txHead >= txTail THEN txHead - txTail ELSE TxSize - txTail + txHead

SpaceAvailableForAll(n) == n <= TxSize - Used
SpaceAvailable(n) == n < TxSize - Used

BeginFrame ==
  /\ sender = "idle" /\ SpaceAvailable(FrameSize)
  /\ sender' = "disable" /\ left' = FrameSize
  /\ UNCHANGED <<ringTx, txEnabled, lineTx, byte, ringRx, rxEnabled, received, taker,
                 history>>

SendStep(from, to) == sender = from /\ sender' = to

DisableTransmit ==
  /\ SendStep("disable", "add")
  /\ txEnabled' = FALSE
  /\ UNCHANGED <<ringTx, lineTx, left, byte, ringRx, rxEnabled, received, taker,
                 history>>

\* tx_buffer[tx_buffer_head++] = b: C leaves open which of the two stores, to the
\* slot and to the head, comes first.
StoreByte ==
  /\ SendStep("add", "increment") \/ SendStep("store", "wrap")
  /\ txBuffer' =
       [txBuffer EXCEPT ![IF sender = "add" THEN txHead ELSE txHead - 1] = byte]
  /\ UNCHANGED <<txHead, txTail, txEnabled, lineTx, left, byte, ringRx, rxEnabled,
                 received, taker, history>>

IncrementHead ==
  /\ SendStep("add", "store") \/ SendStep("increment", "wrap")
  /\ txHead' = txHead + 1
  /\ UNCHANGED <<txBuffer, txTail, txEnabled, lineTx, left, byte, ringRx, rxEnabled,
                 received, taker, history>>

WrapHeadTooLate ==
  /\ SendStep("wrap", "enable")
  /\ txHead' = IF txHead > TxSize THEN 0 ELSE txHead
  /\ UNCHANGED <<txBuffer, txTail, txEnabled, lineTx, left, byte, ringRx, rxEnabled,
                 received, taker, history>>
WrapHead ==
  /\ SendStep("wrap", "enable")
  /\ txHead' = IF txHead >= TxSize THEN 0 ELSE txHead
  /\ UNCHANGED <<txBuffer, txTail, txEnabled, lineTx, left, byte, ringRx, rxEnabled,
                 received, taker, history>>

EnableForgotten ==
  /\ sender = "enable"
  /\ sender' = IF left > 1 THEN "disable" ELSE "idle"
  /\ left' = left - 1 /\ byte' = Follows(byte)
  /\ UNCHANGED <<ringTx, txEnabled, lineTx, ringRx, rxEnabled, received, taker,
                 history>>
EnableTransmit ==
  /\ sender = "enable"
  /\ txEnabled' = TRUE
  /\ sender' = IF left > 1 THEN "disable" ELSE "idle"
  /\ left' = left - 1 /\ byte' = Follows(byte)
  /\ UNCHANGED <<ringTx, lineTx, ringRx, rxEnabled, received, taker, history>>

Writer == \/ BeginFrame \/ DisableTransmit \/ StoreByte \/ IncrementHead
          \/ WrapHead \/ EnableTransmit

-----------------------------------------------------------------------------
(* usart_read.  It does not look at the count: a caller looks once and then *)
(* reads as often as was announced, twelve times in tmc2209_parse_response, *)
(* or gives up before, or reads without a look.                             *)

\* usart2_byte_available for one byte, usart_wait_for_count for more.
WaitForCount(n) ==
  /\ reader = "idle" /\ rxCount >= n
  /\ announced' = n
  /\ UNCHANGED <<ringTx, txEnabled, lineTx, writer, ringRx, rxEnabled, received, reader,
                 count, history>>

\* A byte was not the one expected.
StopReading ==
  /\ reader = "idle" /\ announced > 0
  /\ announced' = 0
  /\ UNCHANGED <<ringTx, txEnabled, lineTx, writer, ringRx, rxEnabled, received, reader,
                 count, history>>

DisableReceive ==
  /\ reader = "idle"
  /\ reader' = "take" /\ rxEnabled' = FALSE
  /\ UNCHANGED <<ringTx, txEnabled, lineTx, writer, ringRx, received, count, announced,
                 history>>

TakeByte ==
  /\ reader = "take" /\ rxTail # rxHead
  /\ reader' = "load" /\ rxTail' = After(rxTail, RxSize)
  /\ UNCHANGED <<ringTx, txEnabled, lineTx, writer, rxHead, rxCount, rxEnabled,
                 received, count, announced, history>>

LoadCount ==
  /\ reader = "load"
  /\ reader' = "store" /\ count' = rxCount
  /\ UNCHANGED <<ringTx, txEnabled, lineTx, writer, ringRx, rxEnabled, received,
                 announced, history>>

OneReadLess == IF announced = 0 THEN 0 ELSE announced - 1

\* rx_count-- of an unsigned number: zero wraps.
StoreCountUndecremented ==
  /\ reader = "store"
  /\ reader' = "enable" /\ rxCount' = count /\ count' = 0
  /\ announced' = OneReadLess
  /\ UNCHANGED <<ringTx, txEnabled, lineTx, writer, rxHead, rxTail, rxEnabled, received,
                 history>>
StoreCount ==
  /\ reader = "store"
  /\ reader' = "enable" /\ rxCount' = (count - 1) % CountRange /\ count' = 0
  /\ announced' = OneReadLess
  /\ wrapped' = (wrapped \/ (count = 0 /\ announced = 0))
  /\ UNCHANGED <<ringTx, txEnabled, lineTx, writer, rxHead, rxTail, rxEnabled, received,
                 raced, overrun>>

\* The ring was found empty, as it also looks after an overflow; the store comes
\* after the comparison.  What was announced before is void.
FindNoByte ==
  /\ reader = "take" /\ rxTail = rxHead
  /\ reader' = "clear"
  /\ UNCHANGED <<ringTx, txEnabled, lineTx, writer, ringRx, rxEnabled, received, count,
                 announced, history>>

ClearCount ==
  /\ reader = "clear"
  /\ reader' = "enable" /\ rxCount' = 0 /\ announced' = 0
  /\ overrun' = FALSE /\ wrapped' = FALSE
  /\ UNCHANGED <<ringTx, txEnabled, lineTx, writer, rxHead, rxTail, rxEnabled, received,
                 count, raced>>

EnableReceive ==
  /\ reader = "enable"
  /\ reader' = "idle" /\ rxEnabled' = TRUE
  /\ UNCHANGED <<ringTx, txEnabled, lineTx, writer, ringRx, received, count, announced,
                 history>>

\* The main loop is in one driver function at a time, and a caller that waited for
\* bytes reads them before anything is sent.
Reader ==
  /\ sender = "idle"
  /\ \/ \E n \in 1..(RxSize - 1) : WaitForCount(n)
     \/ StopReading \/ DisableReceive \/ TakeByte \/ LoadCount \/ StoreCount
     \/ FindNoByte \/ ClearCount \/ EnableReceive

-----------------------------------------------------------------------------
\* The static instance and usart_init_hal, which enables receive interrupts only.
Init ==
  /\ txBuffer = [i \in 0..(TxSize - 1) |-> 0] /\ txHead = 0 /\ txTail = 0
  /\ txEnabled = FALSE /\ tdr = Empty /\ sent = Modulus - 1
  /\ sender = "idle" /\ left = 0 /\ byte = 0
  /\ rxHead = 0 /\ rxTail = 0 /\ rxCount = 0
  /\ rxEnabled = TRUE /\ received = FALSE
  /\ reader = "idle" /\ count = 0 /\ announced = 0
  /\ raced = FALSE /\ overrun = FALSE /\ wrapped = FALSE

MainLoopWrites == reader = "idle" /\ announced = 0 /\ Writer

Next == Shift \/ ByteArrives \/ Handler \/ MainLoopWrites \/ Reader

\* The line shifts, interrupts are served, and a frame begun is finished.
Spec ==
  /\ Init /\ [][Next]_vars
  /\ WF_vars(Shift) /\ WF_vars(Handler)
  /\ WF_vars(sender # "idle" /\ MainLoopWrites)

-----------------------------------------------------------------------------
(* Properties.                                                             *)

\* Every variable keeps its type: the indexes of both rings wrap inside their
\* storage, and only between the two halves of a send is head past it (usart_hal.c).
TypeOK ==
  /\ txBuffer \in [0..(TxSize - 1) -> Number]
  /\ txHead \in 0..TxSize /\ txTail \in 0..(TxSize - 1)
  /\ txHead = TxSize => sender \in {"store", "wrap"}
  /\ txEnabled \in BOOLEAN /\ tdr \in Number \cup {Empty} /\ sent \in Number
  /\ sender \in {"idle", "disable", "add", "store", "increment", "wrap", "enable"}
  /\ left \in 0..FrameSize /\ byte \in Number
  /\ rxHead \in 0..(RxSize - 1) /\ rxTail \in 0..(RxSize - 1) /\ rxCount \in Counts
  /\ rxEnabled \in BOOLEAN /\ received \in BOOLEAN
  /\ reader \in {"idle", "take", "load", "store", "clear", "enable"}
  /\ count \in Counts /\ announced \in Counts
  /\ raced \in BOOLEAN /\ overrun \in BOOLEAN /\ wrapped \in BOOLEAN

\* Bytes go on the line in the order they were written, none lost, repeated or
\* invented, unless the handler has transmitted from within usart_send: "Disable
\* transmit empty interrupt while sending" is all that the order depends on.
SentInOrder ==
  [][tdr' \notin {tdr, Empty} => tdr' = Follows(sent) \/ raced']_vars

\* "This lets a protocol frame be queued atomically when the caller has already
\* checked the whole frame length": while a frame is being written the ring has
\* room for the rest of it, so head never comes round to tail.  A handler that
\* transmits from within usart_send may run past a head that is not wrapped yet, and
\* a ring that holds nothing then counts as nearly full.
FrameHasRoom == sender \in {"disable", "add"} => left < TxSize - Used \/ raced

\* Every byte of every frame reaches the line: a frame that was begun is finished, and
\* the ring does not stay filled with a tail that stands still.
Drains ==
  /\ []<>(sender = "idle")
  /\ []<>(txTail = txHead) \/ []<><<txTail' # txTail>>_vars \/ <>raced

Unread == (rxHead - rxTail) % RxSize

\* A byte that the counter announces is in the ring, and as many reads as a look at
\* the counter announced leave it at zero or above, so usart2_read_byte makes up no
\* zero and tmc2209_parse_response, with twelve reads to one look, finds twelve bytes:
\* increments of the handler that the reader's store overwrites only make the counter
\* too small.  An overflow of the ring breaks this, and so does a read that was not
\* announced, of a byte that was not counted: the counter wraps.  Both last until
\* the next read that finds the ring empty.
AnnouncedByteIsThere ==
  reader = "idle" =>
    (announced <= rxCount /\ rxCount <= Unread) \/ overrun \/ wrapped
=============================================================================
