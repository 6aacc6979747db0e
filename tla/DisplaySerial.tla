---------------------------- MODULE DisplaySerial ----------------------------
(***************************************************************************)
(* The display board's receive path from the mainboard:                    *)
(* boards/display/btt_tft35_e3/usart1.c over the ring of CircularBuffer.   *)
(* USART1_IRQHandler stores each byte that arrives; the background task    *)
(* asks for a byte and takes it, and the interrupt can come between any    *)
(* two of its accesses to the ring.                                        *)
(*                                                                         *)
(* The ring computes a count by comparing head with tail and then reading  *)
(* head again, so an interrupt can move head in between: the reader has a  *)
(* step for each of the two reads.                                         *)
(***************************************************************************)
EXTENDS CircularBuffer

CONSTANTS Byte, NoByte

ASSUME RingAssumption == Size > 1 /\ Byte # {} /\ NoByte \notin Byte

VARIABLES
  buffer, head, tail,  \* mainboard_serial_rx_buffer
  arrived,             \* a byte in the data register, or none (RBNE clear)
  reader,              \* where the background task is
  ahead,               \* its comparison head >= tail
  value,               \* the byte it copied out of the ring
  delivered            \* the last byte given to the frame parser

ring == <<buffer, head, tail>>
task == <<reader, ahead, value>>
vars == <<ring, arrived, task, delivered>>

-----------------------------------------------------------------------------
(* The interrupt: it runs to its end before the reader continues.           *)

\* The line delivers a byte.  One that comes before the handler has collected the
\* byte before it is lost in the USART and never reaches the ring.
ByteArrives(b) ==
  /\ arrived = NoByte
  /\ arrived' = b
  /\ UNCHANGED <<ring, task, delivered>>

\* One byte is left free, so that a full ring does not read as an empty one.
UsartHandlerUnguarded ==
  /\ arrived # NoByte
  /\ arrived' = NoByte
  /\ buffer' = Stored(buffer, head, <<arrived>>, Accepted(head, tail, 1))
  /\ head' = Advanced(head, Accepted(head, tail, 1))
  /\ UNCHANGED <<tail, task, delivered>>
UsartHandler ==
  /\ arrived # NoByte
  /\ arrived' = NoByte
  /\ IF Count(head, tail) < Size - 1
       THEN /\ buffer' = Stored(buffer, head, <<arrived>>, Accepted(head, tail, 1))
            /\ head' = Advanced(head, Accepted(head, tail, 1))
       ELSE UNCHANGED <<buffer, head>>
  /\ UNCHANGED <<tail, task, delivered>>

-----------------------------------------------------------------------------
(* The background task.  A count is of unsigned arithmetic: a head that     *)
(* wrapped between the two reads makes it huge instead of negative.         *)

UnsignedCount == IF ahead THEN head - tail ELSE Size - tail + head

Compare(from, to) ==
  /\ reader = from
  /\ ahead' = (head >= tail)
  /\ reader' = to
  /\ UNCHANGED <<ring, arrived, value, delivered>>

\* display_mainboard_serial_byte_available: is the count not zero?
AskAvailable == Compare("idle", "asked")
Answer ==
  /\ reader = "asked"
  /\ reader' = IF UnsignedCount # 0 THEN "available" ELSE "idle"
  /\ ahead' = FALSE
  /\ UNCHANGED <<ring, arrived, value, delivered>>

\* display_mainboard_serial_read_byte: circular_buffer_read of one byte takes
\* at most one, and none when the count is zero; value starts as 0.
BeginRead == Compare("available", "reading")
CopyByte ==
  /\ reader = "reading"
  /\ reader' = IF UnsignedCount # 0 THEN "copied" ELSE "nothing"
  /\ value' = IF UnsignedCount # 0 THEN buffer[tail] ELSE NoByte
  /\ ahead' = FALSE
  /\ UNCHANGED <<ring, arrived, delivered>>

\* tail moves on by what was copied, and the byte goes to the parser.
FreeSlot ==
  /\ reader \in {"copied", "nothing"}
  /\ tail' = Advanced(tail, IF reader = "copied" THEN 1 ELSE 0)
  /\ delivered' = value
  /\ value' = NoByte
  /\ reader' = "idle"
  /\ UNCHANGED <<buffer, head, arrived, ahead>>

-----------------------------------------------------------------------------
\* mainboard_serial_usart1_init clears the ring before it enables the interrupt.
Init ==
  /\ \E b \in Byte : buffer = [i \in Slot |-> b] /\ delivered = b
  /\ head = 0 /\ tail = 0
  /\ arrived = NoByte
  /\ reader = "idle" /\ ahead = FALSE /\ value = NoByte

Reader == AskAvailable \/ Answer \/ BeginRead \/ CopyByte \/ FreeSlot

Next == UsartHandler \/ Reader \/ \E b \in Byte : ByteArrives(b)

\* The scheduler keeps running the background task.  The interrupt is served.
Spec == Init /\ [][Next]_vars /\ WF_vars(Reader) /\ WF_vars(UsartHandler)

-----------------------------------------------------------------------------
(* Properties.                                                             *)

\* Every variable keeps its type: head and tail stay inside the storage of the
\* ring when they pass its end (circular_buffer.c).
TypeOK ==
  /\ buffer \in [Slot -> Byte] /\ head \in Slot /\ tail \in Slot
  /\ arrived \in Byte \cup {NoByte}
  /\ reader \in {"idle", "asked", "available", "reading", "copied", "nothing"}
  /\ ahead \in BOOLEAN
  /\ value \in Byte \cup {NoByte}
  /\ delivered \in Byte

\* A byte that was announced is there when it is read: between the count and the
\* read, and between the two reads of head in each of them, the interrupt can
\* fill the ring but never make it look empty.  And the byte copied out is still
\* the oldest of the ring when its slot is freed.
AnnouncedByteIsThere ==
  /\ reader # "nothing"
  /\ reader \in {"available", "reading", "copied"} => Count(head, tail) > 0
  /\ reader = "copied" => value = Head(Contents(buffer, head, tail))

\* The ring with its interrupt and its reader implements a queue of Size - 1
\* bytes: order kept, nothing delivered twice, nothing dropped with room left.
Fifo == INSTANCE ByteFifo WITH
          Room  <- Size - 1,
          queue <- Contents(buffer, head, tail)
ImplementsFifo == Fifo!Spec
=============================================================================
