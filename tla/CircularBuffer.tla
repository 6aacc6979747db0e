---------------------------- MODULE CircularBuffer ----------------------------
(***************************************************************************)
(* The byte ring of core/runtime/circular_buffer.c as operators over its   *)
(* storage and its two indexes.  head is where the next byte is written,   *)
(* tail the oldest unread byte; head = tail means empty, so a ring that is *)
(* filled to its Size reads as empty again.                                *)
(***************************************************************************)
EXTENDS Integers, Sequences

CONSTANT Size  \* bytes of storage

ASSUME SizeAssumption == Size \in Nat \ {0}

Slot == 0..(Size - 1)

\* circular_buffer_count, and the same expression inside circular_buffer_read.
Count(head, tail) == IF head >= tail THEN head - tail ELSE Size - tail + head

\* The free space as circular_buffer_write computes it: all of Size when empty.
Capacity(head, tail) == IF head >= tail THEN Size - head + tail ELSE tail - head

\* Writes stop at what fits.
Accepted(head, tail, n) == IF n > Capacity(head, tail) THEN Capacity(head, tail) ELSE n

AdvancedTooLate(index, n) == IF index + n > Size THEN index + n - Size ELSE index + n
Advanced(index, n) == (index + n) % Size

\* The storage after the first n bytes of data are copied in from head on, in
\* the two pieces on either side of the end of the storage.
Stored(buffer, head, data, n) ==
  [i \in Slot |->
     IF (i - head) % Size < n THEN data[((i - head) % Size) + 1] ELSE buffer[i]]

\* The unread bytes, oldest first.
Contents(buffer, head, tail) ==
  [k \in 1..Count(head, tail) |-> buffer[(tail + k - 1) % Size]]
=============================================================================
