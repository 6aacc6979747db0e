------------------------- MODULE DisplaySerial_proofs -------------------------
(***************************************************************************)
(* DisplaySerial implements ByteFifo for every ring size and every byte    *)
(* alphabet: the safety part, the fairness of the reader is for TLC.       *)
(***************************************************************************)
EXTENDS DisplaySerial, SequenceTheorems, TLAPS

-----------------------------------------------------------------------------
(* Index arithmetic around the end of the storage.                         *)

\* A number below the modulus is its own remainder.
LEMMA ModInside ==
  ASSUME NEW S \in Nat \ {0}, NEW x \in Int, 0 <= x, x < S PROVE x % S = x
  BY Z3
\* A number one turn past the end of the range.
LEMMA ModAfterEnd ==
  ASSUME NEW S \in Nat \ {0}, NEW x \in Int, S <= x, x < 2 * S PROVE x % S = x - S
  BY Z3
\* A number at most one turn before the start of the range.
LEMMA ModBeforeStart ==
  ASSUME NEW S \in Nat \ {0}, NEW x \in Int, -S <= x, x < 0 PROVE x % S = x + S
  BY Z3

\* An index moves on by at most one slot and wraps at the end.
LEMMA AdvancedByOne ==
  ASSUME NEW i \in Slot
  PROVE  /\ Advanced(i, 0) = i
         /\ Advanced(i, 1) = IF i = Size - 1 THEN 0 ELSE i + 1
         /\ Advanced(i, 1) \in Slot
<1>1. Size \in Nat \ {0} /\ i \in Int /\ 0 <= i /\ i < Size
  BY SizeAssumption DEF Slot
<1>2. (i + 0) % Size = i
  BY <1>1, ModInside
<1>3. CASE i = Size - 1
  <2>1. (i + 1) % Size = 0
    BY <1>1, <1>3, ModAfterEnd
  <2>2. QED
    BY <1>1, <1>2, <1>3, <2>1 DEF Advanced, Slot
<1>4. CASE i # Size - 1
  <2>1. (i + 1) % Size = i + 1
    BY <1>1, <1>4, ModInside
  <2>2. QED
    BY <1>1, <1>2, <1>4, <2>1 DEF Advanced, Slot
<1>5. QED
  BY <1>3, <1>4

\* circular_buffer_write of one byte changes the slot at head and no other.
LEMMA StoredOne ==
  ASSUME NEW b, NEW h \in Slot, NEW buf \in [Slot -> Byte]
  PROVE  Stored(buf, h, <<b>>, 1) = [buf EXCEPT ![h] = b]
<1>1. Size \in Nat \ {0} /\ h \in Int /\ 0 <= h /\ h < Size
  BY SizeAssumption DEF Slot
<1>2. ASSUME NEW i \in Slot PROVE (i - h) % Size < 1 <=> i = h
  <2>1. i \in Int /\ 0 <= i /\ i < Size
    BY <1>1 DEF Slot
  <2>2. CASE i >= h
    BY <1>1, <2>1, <2>2, ModInside
  <2>3. CASE i < h
    <3>1. (i - h) % Size = i - h + Size
      BY <1>1, <2>1, <2>3, ModBeforeStart
    <3>2. QED
      BY <1>1, <2>1, <2>3, <3>1
  <2>4. QED
    BY <1>1, <2>1, <2>2, <2>3
<1>3. (h - h) % Size = 0
  BY <1>1, ModInside
<1>4. ASSUME NEW i \in Slot
      PROVE  (IF (i - h) % Size < 1 THEN <<b>>[((i - h) % Size) + 1] ELSE buf[i])
               = [buf EXCEPT ![h] = b][i]
  <2>1. CASE i = h
    <3>1. (i - h) % Size = 0
      BY <1>3, <2>1
    <3>2. QED
      BY <2>1, <3>1
  <2>2. CASE i # h
    <3>1. ~((i - h) % Size < 1)
      BY <1>2, <2>2
    <3>2. QED
      BY <2>2, <3>1
  <2>3. QED
    BY <2>1, <2>2
<1>5. Stored(buf, h, <<b>>, 1) = [i \in Slot |-> [buf EXCEPT ![h] = b][i]]
  BY <1>4, Zenon DEF Stored
<1>6. QED
  BY <1>5

\* The slot of the k-th unread byte.
SlotOf(t, k) == IF t + k - 1 < Size THEN t + k - 1 ELSE t + k - 1 - Size

\* The queue in the ring has as many bytes as the indices tell, from the tail on.
LEMMA ContentsFacts ==
  ASSUME NEW buf \in [Slot -> Byte], NEW h \in Slot, NEW t \in Slot
  PROVE  /\ Count(h, t) \in 0..(Size - 1)
         /\ Contents(buf, h, t) = [k \in 1..Count(h, t) |-> buf[SlotOf(t, k)]]
         /\ \A k \in 1..Count(h, t) : SlotOf(t, k) \in Slot
         /\ Contents(buf, h, t) \in Seq(Byte)
         /\ Len(Contents(buf, h, t)) = Count(h, t)
<1>1. Size \in Nat \ {0} /\ h \in 0..(Size - 1) /\ t \in 0..(Size - 1)
  BY SizeAssumption DEF Slot
<1>2. Count(h, t) \in 0..(Size - 1)
  BY <1>1 DEF Count
<1>3. ASSUME NEW k \in 1..Count(h, t)
      PROVE  (t + k - 1) % Size = SlotOf(t, k) /\ SlotOf(t, k) \in Slot
  <2>1. t + k - 1 \in Int /\ 0 <= t + k - 1 /\ t + k - 1 < 2 * Size
    BY <1>1, <1>2
  <2>2. CASE t + k - 1 < Size
    <3>1. (t + k - 1) % Size = t + k - 1
      <4> DEFINE x == t + k - 1
      <4>1. x \in Int /\ 0 <= x /\ x < Size
        BY <2>1, <2>2
      <4> HIDE DEF x
      <4>2. x % Size = x
        BY <1>1, <4>1, ModInside
      <4>3. QED
        BY <4>2 DEF x
    <3>2. SlotOf(t, k) = t + k - 1
      BY <2>2 DEF SlotOf
    <3>3. t + k - 1 \in Slot
      BY <1>1, <2>1, <2>2 DEF Slot
    <3>4. QED
      BY <3>1, <3>2, <3>3
  <2>3. CASE Size <= t + k - 1
    <3>1. (t + k - 1) % Size = t + k - 1 - Size
      <4> DEFINE x == t + k - 1
      <4>1. x \in Int /\ Size <= x /\ x < 2 * Size
        BY <2>1, <2>3
      <4> HIDE DEF x
      <4>2. x % Size = x - Size
        BY <1>1, <4>1, ModAfterEnd
      <4>3. QED
        BY <1>1, <1>2, <4>2 DEF x
    <3>2. QED
      BY <1>1, <2>1, <2>3, <3>1 DEF SlotOf, Slot
  <2>4. QED
    BY <1>1, <2>1, <2>2, <2>3
<1>4. Contents(buf, h, t) = [k \in 1..Count(h, t) |-> buf[SlotOf(t, k)]]
  BY <1>3 DEF Contents
<1>5. Contents(buf, h, t) \in [1..Count(h, t) -> Byte]
  BY <1>3, <1>4
<1>6. Contents(buf, h, t) \in Seq(Byte) /\ Len(Contents(buf, h, t)) = Count(h, t)
  <2>1. Count(h, t) \in Nat
    BY <1>1, <1>2
  <2>2. Contents(buf, h, t) \in Seq(Byte)
    BY <1>5, <2>1, SeqDef
  <2>3. Len(Contents(buf, h, t)) = Count(h, t)
    BY <1>5, <2>1, <2>2
  <2>4. QED
    BY <2>2, <2>3
<1>7. QED
  BY <1>2, <1>3, <1>4, <1>6

\* Storing a byte at head appends it, as long as one more slot stays free.
LEMMA StoreAppends ==
  ASSUME NEW buf \in [Slot -> Byte], NEW h \in Slot, NEW t \in Slot, NEW b \in Byte,
         Count(h, t) < Size - 1
  PROVE  Contents([buf EXCEPT ![h] = b], Advanced(h, 1), t) = Append(Contents(buf, h, t), b)
<1> DEFINE new == [buf EXCEPT ![h] = b]
           next == Advanced(h, 1)
           n == Count(h, t)
<1>1. Size \in Nat \ {0} /\ h \in 0..(Size - 1) /\ t \in 0..(Size - 1)
  BY SizeAssumption DEF Slot
<1>2. next \in Slot /\ next = IF h = Size - 1 THEN 0 ELSE h + 1
  BY AdvancedByOne
<1>3. n \in Nat /\ Count(next, t) = n + 1
  BY <1>1, <1>2 DEF Count
<1>4. new \in [Slot -> Byte]
  OBVIOUS
<1>5. /\ Contents(buf, h, t) = [k \in 1..n |-> buf[SlotOf(t, k)]]
      /\ \A k \in 1..n : SlotOf(t, k) \in Slot
      /\ Contents(buf, h, t) \in Seq(Byte) /\ Len(Contents(buf, h, t)) = n
  BY ContentsFacts
<1>6. Contents(new, next, t) = [k \in 1..(n + 1) |-> new[SlotOf(t, k)]]
  <2> HIDE DEF new, next
  <2>1. Contents(new, next, t) = [k \in 1..Count(next, t) |-> new[SlotOf(t, k)]]
    BY <1>2, <1>4, ContentsFacts
  <2>2. QED
    BY <1>3, <2>1
<1>7. SlotOf(t, n + 1) = h
  BY <1>1, <1>3 DEF SlotOf, Count
<1>8. ASSUME NEW k \in 1..n PROVE SlotOf(t, k) # h
  BY <1>1, <1>3 DEF SlotOf, Count
<1>9. Append(Contents(buf, h, t), b)
        = [k \in 1..(n + 1) |-> IF k = n + 1 THEN b ELSE Contents(buf, h, t)[k]]
  BY <1>3, <1>5
<1>10. ASSUME NEW k \in 1..(n + 1)
       PROVE  new[SlotOf(t, k)] = IF k = n + 1 THEN b ELSE Contents(buf, h, t)[k]
  <2>1. CASE k = n + 1
    BY <1>1, <1>7, <2>1 DEF Slot
  <2>2. CASE k # n + 1
    <3>1. k \in 1..n
      BY <1>3, <2>2
    <3>2. new[SlotOf(t, k)] = buf[SlotOf(t, k)]
      BY <1>5, <1>8, <3>1
    <3>3. QED
      BY <1>5, <2>2, <3>1, <3>2
  <2>3. QED
    BY <2>1, <2>2
<1>11. QED
  BY <1>6, <1>9, <1>10, Zenon

\* Moving tail on by one drops the oldest byte, the one that tail pointed to.
LEMMA FreeDropsOldest ==
  ASSUME NEW buf \in [Slot -> Byte], NEW h \in Slot, NEW t \in Slot, h # t
  PROVE  /\ Contents(buf, h, t) # <<>>
         /\ Head(Contents(buf, h, t)) = buf[t]
         /\ Contents(buf, h, Advanced(t, 1)) = Tail(Contents(buf, h, t))
<1> DEFINE next == Advanced(t, 1)
           n == Count(h, t)
           old == Contents(buf, h, t)
<1>1. Size \in Nat \ {0} /\ h \in 0..(Size - 1) /\ t \in 0..(Size - 1)
  BY SizeAssumption DEF Slot
<1>2. next \in Slot /\ next = IF t = Size - 1 THEN 0 ELSE t + 1
  BY AdvancedByOne
<1>3. n \in Nat \ {0} /\ Count(h, next) = n - 1
  BY <1>1, <1>2 DEF Count
<1>4. old = [k \in 1..n |-> buf[SlotOf(t, k)]] /\ old \in Seq(Byte) /\ Len(old) = n
  BY ContentsFacts
<1>5. SlotOf(t, 1) = t
  BY <1>1 DEF SlotOf
<1>6. old # <<>> /\ Head(old) = buf[t]
  BY <1>3, <1>4, <1>5
<1>7. Contents(buf, h, next) = [k \in 1..(n - 1) |-> buf[SlotOf(next, k)]]
  BY <1>2, <1>3, ContentsFacts
<1>8. Tail(old) = [k \in 1..(n - 1) |-> old[k + 1]]
  BY <1>3, <1>4
<1>9. ASSUME NEW k \in 1..(n - 1) PROVE buf[SlotOf(next, k)] = old[k + 1]
  <2>1. k + 1 \in 1..n
    BY <1>3
  <2>2. SlotOf(next, k) = SlotOf(t, k + 1)
    BY <1>1, <1>2, <1>3 DEF SlotOf, Count
  <2>3. QED
    BY <1>4, <2>1, <2>2
<1>10. QED
  BY <1>6, <1>7, <1>8, <1>9, Zenon

-----------------------------------------------------------------------------
(* The inductive invariant.  The reader relies on a ring that is not empty  *)
(* staying so while only the interrupt runs.                                *)

ReaderInv ==
  /\ reader \in {"asked", "reading"} /\ ~ahead => head # tail
  /\ reader \in {"available", "reading", "copied"} => head # tail
  /\ reader = "copied" => value = buffer[tail]
  /\ reader # "nothing"

SerialInv == TypeOK /\ ReaderInv

\* An empty ring with its reader at rest.
LEMMA InitSerialInv == Init => SerialInv
<1> SUFFICES ASSUME Init PROVE SerialInv
  OBVIOUS
<1>1. buffer \in [Slot -> Byte] /\ delivered \in Byte
  BY DEF Init
<1>2. head \in Slot /\ tail \in Slot
  BY SizeAssumption DEF Init, Slot
<1>3. arrived = NoByte /\ reader = "idle" /\ ahead = FALSE /\ value = NoByte
  BY DEF Init
<1>4. QED
  BY <1>1, <1>2, <1>3 DEF SerialInv, TypeOK, ReaderInv

\* The interrupt stores a byte only while two slots are free, so head does not
\* reach tail.
LEMMA HandlerKeepsRing ==
  ASSUME SerialInv, UsartHandler
  PROVE  \/ /\ Count(head, tail) = Size - 1
            /\ UNCHANGED <<buffer, head, tail>>
         \/ /\ Count(head, tail) < Size - 1
            /\ buffer' = [buffer EXCEPT ![head] = arrived]
            /\ head' = IF head = Size - 1 THEN 0 ELSE head + 1
            /\ head' \in Slot /\ head' # tail /\ tail' = tail
<1>1. head \in Slot /\ tail \in Slot /\ buffer \in [Slot -> Byte] /\ Size \in Nat \ {0}
  BY SizeAssumption DEF SerialInv, TypeOK
<1>2. CASE Count(head, tail) < Size - 1
  <2>1. Accepted(head, tail, 1) = 1
    BY <1>1, <1>2 DEF Accepted, Capacity, Count, Slot
  <2>2. buffer' = Stored(buffer, head, <<arrived>>, 1) /\ head' = Advanced(head, 1) /\ tail' = tail
    BY <1>2, <2>1 DEF UsartHandler
  <2>3. buffer' = [buffer EXCEPT ![head] = arrived]
    BY <1>1, <2>2, StoredOne
  <2>4. head' = (IF head = Size - 1 THEN 0 ELSE head + 1) /\ head' \in Slot
    BY <1>1, <2>2, AdvancedByOne
  <2>5. head' # tail
    BY <1>1, <1>2, <2>4 DEF Count, Slot
  <2>6. QED
    BY <1>2, <2>2, <2>3, <2>4, <2>5
<1>3. CASE ~(Count(head, tail) < Size - 1)
  BY <1>1, <1>3 DEF UsartHandler, Count, Slot
<1>4. QED
  BY <1>2, <1>3

\* Every step of the interrupt, of the line and of the reader keeps the invariant.
LEMMA NextSerialInv == SerialInv /\ [Next]_vars => SerialInv'
<1> SUFFICES ASSUME SerialInv, [Next]_vars PROVE SerialInv'
  OBVIOUS
<1>0. head \in Slot /\ tail \in Slot /\ Size \in Nat \ {0}
  BY SizeAssumption DEF SerialInv, TypeOK
<1> USE DEF SerialInv, TypeOK, ReaderInv, ring, task
<1>1. CASE UNCHANGED vars
  BY <1>1 DEF vars
<1>2. ASSUME NEW b \in Byte, ByteArrives(b) PROVE SerialInv'
  BY <1>2 DEF ByteArrives
<1>3. CASE UsartHandler
  <2>1. UNCHANGED <<tail, reader, ahead, value, delivered>> /\ arrived' = NoByte /\ arrived \in Byte
    BY <1>3 DEF UsartHandler
  <2>2. CASE UNCHANGED <<buffer, head>>
    BY <2>1, <2>2
  <2>3. CASE /\ buffer' = [buffer EXCEPT ![head] = arrived]
             /\ head' \in Slot /\ head' # tail
    BY <2>1, <2>3
  <2>4. QED
    BY <1>3, <2>2, <2>3, HandlerKeepsRing
<1>4. CASE AskAvailable
  <2>1. UNCHANGED <<buffer, head, tail, arrived, value, delivered>> /\ reader' = "asked"
    BY <1>4 DEF AskAvailable, Compare
  <2>2. ahead' = (head >= tail)
    BY <1>4 DEF AskAvailable, Compare
  <2>3. CASE head >= tail
    <3>1. ahead' = TRUE
      BY <2>2, <2>3
    <3>2. QED
      BY <2>1, <3>1
  <2>4. CASE ~(head >= tail)
    <3>1. ahead' \in BOOLEAN
      BY <2>2
    <3>2. head # tail
      BY <1>0, <2>4 DEF Slot
    <3>3. QED
      BY <2>1, <3>1, <3>2
  <2>5. QED
    BY <2>3, <2>4
<1>5. CASE Answer
  <2>1. UNCHANGED <<buffer, head, tail, arrived, value, delivered>> /\ ahead' = FALSE
    BY <1>5 DEF Answer
  <2>2. CASE UnsignedCount # 0
    <3>1. reader' = "available"
      BY <1>5, <2>2 DEF Answer
    <3>2. head # tail
      <4>1. CASE ahead = TRUE
        BY <1>0, <2>2, <4>1 DEF UnsignedCount, Slot
      <4>2. CASE ahead = FALSE
        BY <1>5, <4>2 DEF Answer
      <4>3. QED
        BY <4>1, <4>2
    <3>3. QED
      BY <2>1, <3>1, <3>2
  <2>3. CASE ~(UnsignedCount # 0)
    <3>1. reader' = "idle"
      BY <1>5, <2>3 DEF Answer
    <3>2. QED
      BY <2>1, <3>1
  <2>4. QED
    BY <2>2, <2>3
<1>6. CASE BeginRead
  BY <1>0, <1>6 DEF BeginRead, Compare, Slot
<1>7. CASE CopyByte
  <2>1. UnsignedCount # 0
    BY <1>0, <1>7 DEF CopyByte, UnsignedCount, Slot
  <2>2. QED
    BY <1>0, <1>7, <2>1 DEF CopyByte
<1>8. CASE FreeSlot
  <2>1. Advanced(tail, 1) \in Slot
    BY <1>0, AdvancedByOne
  <2>2. QED
    BY <1>0, <1>8, <2>1 DEF FreeSlot
<1>9. QED
  BY <1>1, <1>2, <1>3, <1>4, <1>5, <1>6, <1>7, <1>8 DEF Next, Reader

\* The types of the ring and of its reader.
THEOREM SerialInvariant == Spec => []SerialInv
<1>1. Init => SerialInv
  BY InitSerialInv
<1>2. SerialInv /\ [Next]_vars => SerialInv'
  BY NextSerialInv
<1>3. QED
  BY <1>1, <1>2, PTL DEF Spec

\* Every variable of the receiver keeps its type, its indices within the ring.
THEOREM SerialTypeCorrect == Spec => []TypeOK
<1>1. SerialInv => TypeOK
  BY DEF SerialInv
<1>2. QED
  BY <1>1, SerialInvariant, PTL

\* A byte announced by the availability check is there to be read, and the byte
\* read is the oldest, for every size of the ring and every interleaving.
THEOREM AnnouncedBytesAreThere == Spec => []AnnouncedByteIsThere
<1>1. SerialInv => AnnouncedByteIsThere
  <2> SUFFICES ASSUME SerialInv PROVE AnnouncedByteIsThere
    OBVIOUS
  <2>1. buffer \in [Slot -> Byte] /\ head \in Slot /\ tail \in Slot /\ Size \in Nat
    BY SizeAssumption DEF SerialInv, TypeOK
  <2>2. head # tail => Count(head, tail) > 0
    BY <2>1 DEF Count, Slot
  <2>3. head # tail => Head(Contents(buffer, head, tail)) = buffer[tail]
    BY <2>1, FreeDropsOldest
  <2>4. QED
    BY <2>2, <2>3 DEF AnnouncedByteIsThere, SerialInv, ReaderInv
<1>2. QED
  BY <1>1, SerialInvariant, PTL

-----------------------------------------------------------------------------
(* The refinement: only the interrupt's store and the reader's last step    *)
(* change the queue of ByteFifo.                                            *)

\* An empty ring is an empty queue.
LEMMA InitRefines == Init => Fifo!Init
<1> SUFFICES ASSUME Init PROVE Fifo!Init
  OBVIOUS
<1>1. SerialInv /\ head = tail
  BY InitSerialInv DEF Init
<1>2. Contents(buffer, head, tail) \in Seq(Byte) /\ Len(Contents(buffer, head, tail)) = 0
  <2>1. Count(head, tail) = 0
    BY SizeAssumption DEF Init, Count
  <2>2. QED
    BY <1>1, <2>1, ContentsFacts DEF SerialInv, TypeOK
<1>3. Contents(buffer, head, tail) = <<>>
  BY <1>2
<1>4. QED
  BY <1>1, <1>3 DEF Fifo!Init, Init, SerialInv, TypeOK

\* Every step of the ring is a step of the queue, or leaves the queue as it is.
LEMMA StepRefines == SerialInv /\ [Next]_vars => [Fifo!Next]_(Fifo!fifoVars)
<1> SUFFICES ASSUME SerialInv, [Next]_vars PROVE [Fifo!Next]_(Fifo!fifoVars)
  OBVIOUS
<1>0. buffer \in [Slot -> Byte] /\ head \in Slot /\ tail \in Slot
  BY DEF SerialInv, TypeOK
<1> DEFINE queue == Contents(buffer, head, tail)
<1>s. ASSUME UNCHANGED <<ring, arrived, delivered>> PROVE UNCHANGED Fifo!fifoVars
  BY <1>s DEF Fifo!fifoVars, ring
<1>1. CASE UNCHANGED vars
  BY <1>1, <1>s DEF vars
<1>2. ASSUME NEW b \in Byte, ByteArrives(b) PROVE Fifo!Next
  BY <1>2 DEF ByteArrives, ring, Fifo!Next, Fifo!Arrive
<1>3. CASE UsartHandler
  <2>1. arrived # NoByte /\ arrived' = NoByte /\ delivered' = delivered /\ tail' = tail
    BY <1>3 DEF UsartHandler
  <2>2. Len(queue) = Count(head, tail)
    BY <1>0, ContentsFacts
  <2>3. queue' = IF Len(queue) < Size - 1 THEN Append(queue, arrived) ELSE queue
    <3>1. CASE Count(head, tail) = Size - 1 /\ UNCHANGED <<buffer, head, tail>>
      BY <2>2, <3>1, SizeAssumption
    <3>2. CASE /\ Count(head, tail) < Size - 1
               /\ buffer' = [buffer EXCEPT ![head] = arrived]
               /\ head' = IF head = Size - 1 THEN 0 ELSE head + 1
      <4>1. head' = Advanced(head, 1) /\ arrived \in Byte
        BY <1>0, <2>1, <3>2, AdvancedByOne DEF SerialInv, TypeOK
      <4>2. QED
        BY <1>0, <2>1, <2>2, <3>2, <4>1, StoreAppends
    <3>3. QED
      BY <1>3, <3>1, <3>2, HandlerKeepsRing
  <2>4. QED
    BY <2>1, <2>3 DEF Fifo!Next, Fifo!Collect
<1>4. CASE FreeSlot
  <2>1. reader = "copied" /\ head # tail /\ value = buffer[tail]
    BY <1>4 DEF FreeSlot, SerialInv, ReaderInv
  <2>2. buffer' = buffer /\ head' = head /\ arrived' = arrived
    BY <1>4 DEF FreeSlot
  <2>3. tail' = Advanced(tail, 1) /\ delivered' = buffer[tail]
    BY <1>4, <2>1 DEF FreeSlot
  <2>4. queue # <<>> /\ delivered' = Head(queue) /\ queue' = Tail(queue)
    BY <1>0, <2>1, <2>2, <2>3, FreeDropsOldest
  <2>5. QED
    BY <2>2, <2>4 DEF Fifo!Next, Fifo!Get
<1>5. CASE AskAvailable \/ Answer \/ BeginRead \/ CopyByte
  BY <1>5, <1>s DEF AskAvailable, Answer, BeginRead, CopyByte, Compare
<1>6. QED
  BY <1>1, <1>2, <1>3, <1>4, <1>5 DEF Next, Reader

\* The ring, its interrupt and its reader implement a queue of Size - 1 bytes:
\* bytes are delivered in order, once each, and none is dropped while there is
\* room.
THEOREM SerialImplementsFifo == Spec => Fifo!SafetySpec
<1>1. Init => Fifo!Init
  BY InitRefines
<1>2. SerialInv /\ [Next]_vars => [Fifo!Next]_(Fifo!fifoVars)
  BY StepRefines
<1>3. QED
  BY <1>1, <1>2, SerialInvariant, PTL DEF Spec, Fifo!SafetySpec
=============================================================================
