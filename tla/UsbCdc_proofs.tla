----------------------------- MODULE UsbCdc_proofs -----------------------------
(***************************************************************************)
(* The safety properties of the USB serial port for every size of the ring *)
(* and every number of bytes: it keeps listening, and what it echoes stays *)
(* in order.  That a typed byte comes back at all is for TLC.              *)
(***************************************************************************)
EXTENDS UsbCdc, SequenceTheorems, TLAPS

-----------------------------------------------------------------------------
(* Index arithmetic around the end of the storage.                         *)

\* A remainder lies below the modulus.
LEMMA ModRange ==
  ASSUME NEW S \in Nat \ {0}, NEW x \in Int PROVE x % S \in 0..(S - 1)
  BY Z3
\* A number below the modulus is its own remainder.
LEMMA ModInside ==
  ASSUME NEW S \in Nat \ {0}, NEW x \in Int, 0 <= x, x < S PROVE x % S = x
  BY Z3
\* A number one turn past the end of the range.
LEMMA ModAfterEnd ==
  ASSUME NEW S \in Nat \ {0}, NEW x \in Int, S <= x, x < 2 * S PROVE x % S = x - S
  BY Z3
\* A number at most one turn before the start of the range.
LEMMA ModBeforeStart ==
  ASSUME NEW S \in Nat \ {0}, NEW x \in Int, -S <= x, x < 0 PROVE x % S = x + S
  BY Z3

\* The distance of a slot behind another.
LEMMA SlotDistance ==
  ASSUME NEW i \in Slot, NEW t \in Slot
  PROVE  (i - t) % Size = IF i >= t THEN i - t ELSE i - t + Size
<1>1. Size \in Nat \ {0} /\ i \in 0..(Size - 1) /\ t \in 0..(Size - 1)
  BY SizeAssumption DEF Slot
<1>2. CASE i >= t
  BY <1>1, <1>2, ModInside
<1>3. CASE ~(i >= t)
  BY <1>1, <1>3, ModBeforeStart
<1>4. QED
  BY <1>2, <1>3

\* An index that moves on by no more than the storage wraps once at most.
LEMMA AdvancedOnce ==
  ASSUME NEW i \in Slot, NEW n \in 0..Size
  PROVE  /\ Advanced(i, n) \in Slot
         /\ Advanced(i, n) = IF i + n < Size THEN i + n ELSE i + n - Size
<1>1. Size \in Nat \ {0} /\ i \in 0..(Size - 1)
  BY SizeAssumption DEF Slot
<1>2. CASE i + n < Size
  <2>1. (i + n) % Size = i + n
    BY <1>1, <1>2, ModInside
  <2>2. QED
    BY <1>1, <1>2, <2>1 DEF Advanced, Slot
<1>3. CASE ~(i + n < Size)
  <2>1. (i + n) % Size = i + n - Size
    <3> DEFINE x == i + n
    <3>1. x \in Int /\ Size <= x /\ x < 2 * Size
      BY <1>1, <1>3
    <3> HIDE DEF x
    <3>2. x % Size = x - Size
      BY <1>1, <3>1, ModAfterEnd
    <3>3. QED
      BY <1>1, <3>2 DEF x
  <2>2. QED
    BY <1>1, <1>3, <2>1 DEF Advanced, Slot
<1>4. QED
  BY <1>2, <1>3

\* An empty ring counts nothing and has room for Size bytes, any other for less.
LEMMA CountFacts ==
  ASSUME NEW h \in Slot, NEW t \in Slot
  PROVE  /\ Count(h, t) \in 0..(Size - 1)
         /\ Count(h, t) = 0 <=> h = t
         /\ Capacity(h, t) >= Size <=> h = t
         /\ h = t => Capacity(h, t) = Size
  BY SizeAssumption DEF Count, Capacity, Slot

\* A packet stored in an empty ring is counted, but one of Size bytes leaves the
\* ring as empty as it was.
LEMMA StoredInEmpty ==
  ASSUME NEW h \in Slot, NEW n \in 0..Size
  PROVE  /\ Accepted(h, h, n) = n
         /\ Count(Advanced(h, n), h) = IF n = Size THEN 0 ELSE n
<1>1. Size \in Nat \ {0} /\ h \in 0..(Size - 1)
  BY SizeAssumption DEF Slot
<1>2. Accepted(h, h, n) = n
  BY <1>1 DEF Accepted, Capacity
<1>3. Advanced(h, n) = IF h + n < Size THEN h + n ELSE h + n - Size
  BY AdvancedOnce
<1>4. Count(Advanced(h, n), h) = IF n = Size THEN 0 ELSE n
  BY <1>1, <1>3 DEF Count
<1>5. QED
  BY <1>2, <1>4

\* Taking a byte out counts one less and brings the others one nearer to tail.
LEMMA TakenFromRing ==
  ASSUME NEW h \in Slot, NEW t \in Slot, h # t
  PROVE  /\ Advanced(t, 1) \in Slot
         /\ Count(h, Advanced(t, 1)) = Count(h, t) - 1
         /\ \A i \in Slot :
              (i - Advanced(t, 1)) % Size < Count(h, Advanced(t, 1)) =>
                (i - t) % Size = ((i - Advanced(t, 1)) % Size) + 1
<1> DEFINE next == Advanced(t, 1)
<1>1. Size \in Nat \ {0} /\ h \in 0..(Size - 1) /\ t \in 0..(Size - 1)
  BY SizeAssumption DEF Slot
<1>2. next \in Slot /\ next = IF t + 1 < Size THEN t + 1 ELSE t + 1 - Size
  BY <1>1, AdvancedOnce
<1> HIDE DEF next
<1>3. Count(h, next) = Count(h, t) - 1
  BY <1>1, <1>2 DEF Count
<1>4. ASSUME NEW i \in Slot, (i - next) % Size < Count(h, next)
      PROVE  (i - t) % Size = ((i - next) % Size) + 1
  <2>1. (i - t) % Size = IF i >= t THEN i - t ELSE i - t + Size
    BY SlotDistance
  <2>2. (i - next) % Size = IF i >= next THEN i - next ELSE i - next + Size
    BY <1>2, SlotDistance
  <2>3. Count(h, t) <= Size - 1
    BY CountFacts, <1>1 DEF Slot
  <2>4. i \in 0..(Size - 1)
    BY DEF Slot
  <2>5. i # t
    BY <1>1, <1>2, <1>3, <1>4, <2>2, <2>3, <2>4 DEF Count
  <2>6. QED
    BY <1>1, <1>2, <2>1, <2>2, <2>4, <2>5
<1>5. QED
  BY <1>2, <1>3, <1>4 DEF next

-----------------------------------------------------------------------------
(* The inductive invariant.                                                *)

Taking  == pc \in {"clear rx", "write rx", "take"}
Echoing == pc \in {"callback", "queue", "write queue"}

\* The endpoint is armed only while the ring is empty and nothing received is
\* waiting, so no packet comes in while the handler works on one.
ArmedInv ==
  /\ chep.stRx = "VALID" => ~chep.vtRx /\ ~Taking /\ ~Echoing
  /\ ~Echoing => head = tail
  /\ Echoing \/ pc = "take" => ~chep.vtRx
  /\ pc \in {"clear rx", "write rx"} => chep.vtRx

\* Whenever the handler is not on the way to arm it, it is armed, or a packet is
\* waiting, or the flag of one was lost.
ListenInv == Taking \/ Echoing \/ chep.stRx = "VALID" \/ chep.vtRx \/ flagLost

\* The bytes of the last packet that are not echoed yet, in the packet memory or in
\* the ring.
Unechoed == IF chep.vtRx \/ pc = "take" THEN Len(outPacket) ELSE Count(head, tail)

\* The k-th of them is the k-th but Unechoed byte sent.
DataInv ==
  /\ outPacket \in Seq(Nat)
  /\ chep.vtRx \/ pc = "take" =>
       \A i \in 1..Len(outPacket) : outPacket[i] = sent - Len(outPacket) + i
  /\ \A i \in Slot : LET k == (i - tail) % Size IN
       k < Count(head, tail) => buffer[i] = sent - Count(head, tail) + k + 1

\* Bytes echoed that the host has not acknowledged; one in flight counts as long as
\* its packet is VALID.
InMemory == IF chep.stTx = "VALID" THEN 1 ELSE 0
InHandler == IF pc \in {"queue", "write queue"} THEN 1 ELSE 0
Owed == InMemory + InHandler

\* A byte in the IN direction is on its way to the host.
Leaving == chep.stTx = "VALID" \/ pc \in {"queue", "write queue"}

\* The byte in flight was the last one echoed when it was fetched: it is not behind
\* what the host has nor ahead of what is echoed now, and its packet stays VALID until
\* it is acknowledged.
FlightInv == flight # None => chep.stTx = "VALID" /\ echo <= flight /\ flight <= wanted

\* What the host has is not ahead of what the callback echoed, which is what the packet
\* memory holds while it is on its way; of every byte sent at most one echo is on its
\* way or was received.  If the host has not the last one, it is on its way, or the
\* handler is about to send it, or it came too late.
EchoInv ==
  /\ echo <= wanted /\ wanted <= sent - Unechoed
  /\ Leaving => inPacket = wanted
  /\ got + Owed <= sent - Unechoed
  /\ \/ echo = wanted \/ missed \/ chep.stTx = "VALID" \/ pc = "queue"
     \/ pc = "write queue" /\ copy.stTx = "NAK"

CdcInv == TypeOK /\ ArmedInv /\ ListenInv /\ DataInv /\ FlightInv /\ EchoInv

-----------------------------------------------------------------------------
(* It holds initially and every step keeps it.                              *)

\* The types as the steps use them.
LEMMA CdcTypes ==
  ASSUME CdcInv
  PROVE  /\ Size \in Nat \ {0} /\ MaxSent \in Nat
         /\ sent \in Nat /\ sent <= MaxSent
         /\ echo \in Nat /\ echo <= sent /\ got \in Nat /\ got <= sent
         /\ inPacket \in Nat /\ inPacket <= sent /\ wanted \in Nat /\ wanted <= sent
         /\ flight \in Nat /\ flight <= sent /\ missed \in BOOLEAN
         /\ chep \in Register /\ copy \in Register /\ snapshot \in Register
         /\ buffer \in [Slot -> 0..sent] /\ head \in Slot /\ tail \in Slot
         /\ outPacket \in Seq(Nat) /\ Len(outPacket) \in 0..Size
         /\ Count(head, tail) \in 0..(Size - 1) /\ Unechoed \in Nat /\ Owed \in 0..2
         /\ InMemory \in 0..1 /\ InHandler \in 0..1
<1>1. TypeOK
  BY DEF CdcInv
<1>2. sent \in 0..MaxSent /\ MaxSent \in Nat
  BY <1>1, HostAssumption DEF TypeOK
<1>3. /\ echo \in 0..sent /\ got \in 0..sent /\ inPacket \in 0..sent /\ wanted \in 0..sent
      /\ flight \in 0..sent /\ missed \in BOOLEAN
  BY <1>1 DEF TypeOK
<1>4. chep \in Register /\ copy \in Register /\ snapshot \in Register
  BY <1>1 DEF TypeOK
<1>5. buffer \in [Slot -> 0..sent] /\ head \in Slot /\ tail \in Slot /\ Len(outPacket) <= Size
  BY <1>1 DEF TypeOK
<1>6. outPacket \in Seq(Nat)
  BY DEF CdcInv, DataInv
<1>7. Len(outPacket) \in 0..Size /\ Size \in Nat \ {0}
  BY <1>5, <1>6, SizeAssumption
<1>8. Count(head, tail) \in 0..(Size - 1)
  BY <1>5, CountFacts
<1>9. Unechoed \in Nat
  BY <1>7, <1>8 DEF Unechoed
<1>10. InMemory \in 0..1 /\ InHandler \in 0..1
  BY DEF InMemory, InHandler
<1>11. Owed \in 0..2
  BY <1>10 DEF Owed
<1>12. QED
  BY <1>2, <1>3, <1>4, <1>5, <1>6, <1>7, <1>8, <1>9, <1>10, <1>11

\* Nothing is received, buffered or queued.
LEMMA InitCdcInv == Init => CdcInv
<1> SUFFICES ASSUME Init PROVE CdcInv
  OBVIOUS
<1>1. 0 \in Slot /\ Size \in Nat
  BY SizeAssumption DEF Slot
<1>2. Count(head, tail) = 0
  BY <1>1, CountFacts DEF Init
<1>3. TypeOK
  <2>1. chep \in Register /\ copy \in Register /\ snapshot \in Register
    BY DEF Init, Register, Nak
  <2>2. buffer \in [Slot -> 0..0] /\ Len(outPacket) = 0 /\ DOMAIN outPacket = {}
    BY DEF Init, None
  <2>3. sent \in 0..MaxSent /\ echo \in 0..sent /\ got \in 0..sent /\ inPacket \in 0..sent
        /\ wanted \in 0..sent /\ flight \in 0..sent /\ sent = 0
    BY HostAssumption DEF Init, None
  <2>4. host \in Hosts /\ head \in Slot /\ tail \in Slot /\ pc = "idle"
        /\ flagLost = FALSE /\ missed = FALSE
    BY <1>1 DEF Init
  <2>5. QED
    BY <1>1, <2>1, <2>2, <2>3, <2>4 DEF TypeOK
<1>4. ArmedInv /\ ListenInv
  BY DEF Init, ArmedInv, ListenInv, Nak, Taking, Echoing
<1>5. DataInv
  <2>1. \A i \in Slot : ~((i - tail) % Size < Count(head, tail))
    BY <1>1, <1>2, ModRange, SizeAssumption DEF Slot, Init
  <2>2. QED
    BY <2>1 DEF Init, DataInv, Nak
<1>6. EchoInv
  BY <1>2 DEF Init, EchoInv, Nak, Unechoed, Owed, InMemory, InHandler, Leaving, None
<1>7. FlightInv
  BY DEF Init, FlightInv
<1>8. QED
  BY <1>3, <1>4, <1>5, <1>6, <1>7 DEF CdcInv

\* What leaves room for the bytes not echoed yet leaves room for fewer of them.
LEMMA FewerFit ==
  ASSUME NEW s \in Nat, NEW u \in Nat, NEW v \in Nat, v <= u,
         NEW x \in Nat, x <= s - u
  PROVE  x <= s - v
  OBVIOUS

\* What is received and owed fits all the more when less is owed.
LEMMA LessOwed ==
  ASSUME NEW s \in Nat, NEW u \in Nat, NEW g \in Nat, NEW o \in Nat, NEW p \in Nat,
         p <= o, g + o <= s - u
  PROVE  g + p <= s - u
  OBVIOUS

\* Steps that concern neither the byte in flight nor the status of its endpoint.
LEMMA FlightUnchanged ==
  ASSUME CdcInv, UNCHANGED <<flight, echo, wanted>>, chep'.stTx = chep.stTx
  PROVE  FlightInv'
  BY DEF CdcInv, FlightInv

\* Between transactions nothing is in flight.
LEMMA NothingInFlight ==
  ASSUME flight' = None PROVE FlightInv'
  BY DEF FlightInv

\* An empty ring holds nothing to be said about.
LEMMA EmptyRing ==
  ASSUME NEW t \in Slot
  PROVE  \A i \in Slot : ~((i - t) % Size < Count(t, t))
<1>1. Count(t, t) = 0
  BY CountFacts
<1>2. ASSUME NEW i \in Slot PROVE (i - t) % Size \in Nat
  BY SizeAssumption, ModRange DEF Slot
<1>3. QED
  BY <1>1, <1>2

\* The host sends a packet.
LEMMA HostOutKeeps ==
  ASSUME CdcInv, NEW k \in 1..Size, HostOut(k) PROVE CdcInv'
<1> USE DEF hosts, line, ring, handler, history
<1>1. k \in Nat \ {0} /\ k <= Size /\ sent \in Nat
  BY CdcTypes
<1>2. /\ sent' = sent + k /\ sent' <= MaxSent
      /\ chep' = [chep EXCEPT !.stRx = "NAK", !.vtRx = TRUE]
      /\ UNCHANGED <<host, echo, got, inPacket, flight, copy, ring, handler, history>>
  BY DEF HostOut
<1>3. /\ outPacket' \in Seq(Nat) /\ Len(outPacket') = k
      /\ \A i \in 1..k : outPacket'[i] = sent + i
  <2>1. outPacket' = [i \in 1..k |-> sent + i]
    BY DEF HostOut
  <2>2. outPacket' \in [1..k -> Nat]
    BY <1>1, <2>1
  <2>3. outPacket' \in Seq(Nat)
    BY <1>1, <2>2, SeqDef
  <2>4. Len(outPacket') = k
    BY <1>1, <2>2, <2>3
  <2>5. QED
    BY <2>1, <2>3, <2>4
<1>4. chep \in Register /\ chep.stRx = "VALID" /\ ~chep.vtRx /\ ~Taking /\ ~Echoing
  BY DEF HostOut, CdcInv, ArmedInv, TypeOK
<1>5. chep' \in Register /\ chep'.stRx = "NAK" /\ chep'.vtRx = TRUE /\ chep'.stTx = chep.stTx
  BY <1>2, <1>4 DEF Register
<1>6. head = tail /\ tail \in Slot
  BY <1>4, CdcTypes DEF CdcInv, ArmedInv
<1>7. TypeOK'
  <2>1. \A i \in DOMAIN outPacket' : outPacket'[i] \in 1..sent'
    BY <1>1, <1>2, <1>3
  <2>2. buffer' \in [Slot -> 0..sent'] /\ sent' \in 0..MaxSent /\ Len(outPacket') <= Size
    <3>1. buffer \in [Slot -> 0..sent] /\ MaxSent \in Nat
      BY CdcTypes
    <3>2. 0..sent \subseteq 0..(sent + k)
      BY <1>1
    <3>3. QED
      BY <1>1, <1>2, <1>3, <3>1, <3>2
  <2>3. /\ echo' \in 0..sent' /\ got' \in 0..sent'
        /\ inPacket' \in 0..sent' /\ wanted' \in 0..sent' /\ flight' \in 0..sent'
    BY <1>1, <1>2, CdcTypes
  <2>4. QED
    BY <1>2, <1>5, <2>1, <2>2, <2>3 DEF CdcInv, TypeOK
<1>8. ArmedInv' /\ ListenInv'
  BY <1>2, <1>4, <1>5, <1>6 DEF ArmedInv, ListenInv, Taking, Echoing
<1>9. DataInv'
  <2>1. \A i \in Slot : ~((i - tail') % Size < Count(head', tail'))
    BY <1>2, <1>6, EmptyRing
  <2>2. outPacket' \in Seq(Nat)
    BY <1>3
  <2>3. \A i \in 1..Len(outPacket') : outPacket'[i] = sent' - Len(outPacket') + i
    BY <1>1, <1>2, <1>3
  <2>4. QED
    BY <2>1, <2>2, <2>3 DEF DataInv
<1>10. EchoInv'
  <2>1. Unechoed = 0
    BY <1>4, <1>6, CountFacts DEF Unechoed, Taking
  <2>2. Unechoed' = k
    BY <1>3, <1>5 DEF Unechoed
  <2>3. sent' - Unechoed' = sent - Unechoed
    BY <1>1, <1>2, <2>1, <2>2
  <2>4. QED
    BY <1>2, <1>5, <2>3 DEF CdcInv, EchoInv, Leaving, Owed, InMemory, InHandler
<1>11. FlightInv'
  BY <1>2, <1>5, FlightUnchanged
<1>12. QED
  BY <1>7, <1>8, <1>9, <1>10, <1>11 DEF CdcInv

\* The host fetches the byte in the IN direction, the last one echoed.
LEMMA FetchKeeps ==
  ASSUME CdcInv, Fetch PROVE CdcInv'
<1> USE DEF hosts, line, ring, handler, history
<1>1. /\ chep.stTx = "VALID" /\ flight' = inPacket
      /\ UNCHANGED <<hosts, outPacket, inPacket, chep, copy, ring, handler, history>>
  BY DEF Fetch
<1>2. inPacket = wanted /\ echo <= wanted
  BY <1>1 DEF CdcInv, EchoInv, Leaving
<1>3. TypeOK'
  BY <1>1 DEF CdcInv, TypeOK
<1>4. ArmedInv' /\ ListenInv' /\ DataInv'
  BY <1>1 DEF CdcInv, ArmedInv, ListenInv, DataInv, Taking, Echoing
<1>5. Unechoed' = Unechoed /\ Owed' = Owed
  BY <1>1 DEF Unechoed, Owed, InMemory, InHandler
<1>6. EchoInv'
  BY <1>1, <1>5 DEF CdcInv, EchoInv, Leaving
<1>7. FlightInv'
  BY <1>1, <1>2, CdcTypes DEF FlightInv
<1>8. QED
  BY <1>3, <1>4, <1>6, <1>7 DEF CdcInv

\* The host acknowledges the byte in flight.  If it was replaced meanwhile, the one in
\* its place is sent by the handler, which has still to read the register, or missed.
LEMMA AcknowledgeKeeps ==
  ASSUME CdcInv, Acknowledge PROVE CdcInv' /\ echo' >= echo
<1> USE DEF hosts, line, ring, handler, history
<1>1. /\ flight # None /\ echo' = flight /\ got' = got + 1 /\ flight' = None
      /\ chep' = [chep EXCEPT !.stTx = "NAK", !.vtTx = TRUE]
      /\ missed' = (flight # inPacket /\ pc # "queue")
      /\ UNCHANGED <<host, sent, outPacket, inPacket, copy, ring, handler, flagLost, wanted>>
  BY DEF Acknowledge
<1>2. chep \in Register /\ chep.stTx = "VALID" /\ echo <= flight /\ flight <= wanted
  BY <1>1 DEF CdcInv, FlightInv, TypeOK
<1>3. chep' \in Register /\ chep'.stTx = "NAK" /\ chep'.stRx = chep.stRx /\ chep'.vtRx = chep.vtRx
  BY <1>1, <1>2 DEF Register
<1>4. Unechoed \in Nat /\ Unechoed' = Unechoed
  BY <1>1, <1>3, CdcTypes DEF Unechoed
<1>5. inPacket = wanted /\ got + 1 <= sent
  <2>1. inPacket = wanted /\ got + Owed <= sent - Unechoed
    BY <1>2 DEF CdcInv, EchoInv, Leaving
  <2>2. Owed >= 1
    BY <1>2, CdcTypes DEF Owed, InMemory
  <2>3. QED
    BY <2>1, <2>2, CdcTypes
<1>6. TypeOK'
  <2>1. echo' \in 0..sent' /\ got' \in 0..sent' /\ flight' \in 0..sent'
    BY <1>1, <1>5, CdcTypes DEF None
  <2>2. missed' \in BOOLEAN
    BY <1>1
  <2>3. QED
    BY <1>1, <1>3, <2>1, <2>2 DEF CdcInv, TypeOK
<1>7. ArmedInv' /\ ListenInv' /\ DataInv'
  BY <1>1, <1>3 DEF CdcInv, ArmedInv, ListenInv, DataInv, Taking, Echoing
<1>8. EchoInv'
  <2>1. got' + Owed' = got + Owed
    <3>1. InMemory = 1 /\ InMemory' = 0 /\ InHandler' = InHandler
      BY <1>1, <1>2, <1>3 DEF InMemory, InHandler
    <3>2. got \in Nat /\ InHandler \in 0..1
      BY CdcTypes
    <3>3. QED
      BY <1>1, <3>1, <3>2 DEF Owed
  <2>2. got' + Owed' <= sent' - Unechoed' /\ wanted' <= sent' - Unechoed'
    BY <1>1, <1>4, <2>1 DEF CdcInv, EchoInv
  <2>3. echo' <= wanted' /\ inPacket' = wanted'
    BY <1>1, <1>2, <1>5, CdcTypes
  <2>4. CASE flight = inPacket
    BY <1>1, <1>5, <2>2, <2>3, <2>4 DEF EchoInv
  <2>5. CASE flight # inPacket /\ pc = "queue"
    BY <1>1, <2>2, <2>3, <2>5 DEF EchoInv
  <2>6. CASE flight # inPacket /\ pc # "queue"
    <3>1. missed'
      BY <1>1, <2>6
    <3>2. QED
      BY <2>2, <2>3, <3>1 DEF EchoInv
  <2>7. QED
    BY <2>4, <2>5, <2>6
<1>9. FlightInv'
  BY <1>1, NothingInFlight
<1>10. QED
  BY <1>1, <1>2, <1>6, <1>7, <1>8, <1>9, CdcTypes DEF CdcInv

\* The handler's readings of the register change nothing that the invariant speaks of
\* but the values they read.
LEMMA SnapshotKeeps ==
  ASSUME CdcInv, Snapshot PROVE CdcInv'
<1> USE DEF hosts, line, ring, handler, history
<1>1. /\ pc = "idle" /\ snapshot' = chep
      /\ pc' = IF chep.vtRx THEN "clear rx" ELSE "clear tx"
      /\ UNCHANGED <<hosts, line, chep, copy, ring, history>>
  BY DEF Snapshot
<1>2. chep \in Register /\ snapshot' \in Register
  BY <1>1, CdcTypes
<1>3. TypeOK'
  BY <1>1, <1>2 DEF CdcInv, TypeOK
<1>4. ArmedInv' /\ ListenInv'
  BY <1>1, <1>2 DEF CdcInv, ArmedInv, ListenInv, Taking, Echoing, Register
<1>5. DataInv'
  BY <1>1, <1>2 DEF CdcInv, DataInv
<1>6. Unechoed' = Unechoed /\ Owed' = Owed
  BY <1>1, <1>2 DEF Unechoed, Owed, InMemory, InHandler
<1>7. EchoInv'
  BY <1>1, <1>6 DEF CdcInv, EchoInv, Leaving
<1>8. FlightInv'
  BY <1>1, FlightUnchanged
<1>9. QED
  BY <1>3, <1>4, <1>5, <1>7, <1>8 DEF CdcInv

\* A copy of the register is read to clear a flag in: the endpoint stays as it is.
LEMMA ReadToClearKeeps ==
  ASSUME CdcInv, ReadToClear PROVE CdcInv'
<1> USE DEF hosts, line, ring, handler, history
<1>1. /\ \/ pc = "clear rx" /\ pc' = "write rx"
         \/ pc = "clear tx" /\ pc' = "write tx"
      /\ copy' = chep
      /\ UNCHANGED <<hosts, line, chep, ring, snapshot, history>>
  BY DEF ReadToClear, At
<1>2. copy' \in Register
  BY <1>1, CdcTypes
<1>3. TypeOK'
  BY <1>1, <1>2 DEF CdcInv, TypeOK
<1>4. ArmedInv' /\ ListenInv' /\ DataInv'
  BY <1>1 DEF CdcInv, ArmedInv, ListenInv, DataInv, Taking, Echoing
<1>5. Unechoed' = Unechoed /\ Owed' = Owed
  BY <1>1 DEF Unechoed, Owed, InMemory, InHandler
<1>6. EchoInv'
  BY <1>1, <1>5 DEF CdcInv, EchoInv, Leaving
<1>7. FlightInv'
  BY <1>1, FlightUnchanged
<1>8. QED
  BY <1>3, <1>4, <1>6, <1>7 DEF CdcInv

\* A copy of the register is read to queue a packet with: the endpoint stays as it is.
LEMMA ReadToQueueKeeps ==
  ASSUME CdcInv, ReadToQueue PROVE CdcInv'
<1> USE DEF hosts, line, ring, handler, history
<1>1. /\ pc = "queue" /\ pc' = "write queue" /\ copy' = chep
      /\ UNCHANGED <<hosts, line, chep, ring, snapshot, history>>
  BY DEF ReadToQueue, At
<1>2. copy' \in Register /\ chep.stTx \in {"NAK", "VALID"}
  BY <1>1, CdcTypes DEF Register
<1>3. TypeOK'
  BY <1>1, <1>2 DEF CdcInv, TypeOK
<1>4. ArmedInv' /\ ListenInv' /\ DataInv'
  BY <1>1 DEF CdcInv, ArmedInv, ListenInv, DataInv, Taking, Echoing
<1>5. Unechoed' = Unechoed /\ Owed' = Owed
  BY <1>1 DEF Unechoed, Owed, InMemory, InHandler
<1>6. EchoInv'
  BY <1>1, <1>2, <1>5 DEF CdcInv, EchoInv, Leaving
<1>7. FlightInv'
  BY <1>1, FlightUnchanged
<1>8. QED
  BY <1>3, <1>4, <1>6, <1>7 DEF CdcInv

\* Clearing the flag of a reception hands the packet from the flag to the handler.
LEMMA ClearReceivedKeeps ==
  ASSUME CdcInv, ClearReceived PROVE CdcInv'
<1> USE DEF hosts, line, ring, handler, history
<1>1. /\ pc = "write rx" /\ pc' = "take"
      /\ chep' = [chep EXCEPT !.vtRx = FALSE, !.vtTx = @ /\ copy.vtTx]
      /\ UNCHANGED <<hosts, line, copy, ring, snapshot, history>>
  BY DEF ClearReceived, At
<1>2. chep \in Register /\ copy \in Register
  BY CdcTypes
<1>3. chep' \in Register /\ chep'.vtRx = FALSE /\ chep'.stRx = chep.stRx /\ chep'.stTx = chep.stTx
  BY <1>1, <1>2 DEF Register
<1>4. chep.vtRx
  BY <1>1 DEF CdcInv, ArmedInv
<1>5. TypeOK'
  BY <1>1, <1>3 DEF CdcInv, TypeOK
<1>6. ArmedInv' /\ ListenInv' /\ DataInv'
  BY <1>1, <1>3, <1>4 DEF CdcInv, ArmedInv, ListenInv, DataInv, Taking, Echoing
<1>7. Unechoed' = Unechoed /\ Owed' = Owed
  BY <1>1, <1>3, <1>4 DEF Unechoed, Owed, InMemory, InHandler
<1>8. EchoInv'
  BY <1>1, <1>3, <1>7 DEF CdcInv, EchoInv, Leaving
<1>9. FlightInv'
  BY <1>1, <1>3, FlightUnchanged
<1>10. QED
  BY <1>5, <1>6, <1>8, <1>9 DEF CdcInv

\* Clearing the flag of a transmission may clear that of a reception too, and then
\* the packet is gone.
LEMMA ClearTransmittedKeeps ==
  ASSUME CdcInv, ClearTransmitted PROVE CdcInv'
<1> USE DEF hosts, line, ring, handler, history
<1>1. /\ pc = "write tx" /\ pc' = "idle"
      /\ chep' = [chep EXCEPT !.vtTx = FALSE, !.vtRx = @ /\ copy.vtRx]
      /\ flagLost' = (flagLost \/ (chep.vtRx /\ ~copy.vtRx))
      /\ UNCHANGED <<hosts, line, copy, ring, snapshot, wanted, missed>>
  BY DEF ClearTransmitted, At
<1>2. chep \in Register /\ copy \in Register /\ flagLost \in BOOLEAN
  BY CdcTypes DEF CdcInv, TypeOK
<1>3. /\ chep' \in Register /\ chep'.vtRx = (chep.vtRx /\ copy.vtRx)
      /\ chep'.stRx = chep.stRx /\ chep'.stTx = chep.stTx
  BY <1>1, <1>2 DEF Register
<1>4. TypeOK'
  <2>1. flagLost' \in BOOLEAN
    BY <1>1, <1>2
  <2>2. QED
    BY <1>1, <1>3, <2>1 DEF CdcInv, TypeOK
<1>5. ArmedInv' /\ ListenInv'
  BY <1>1, <1>3 DEF CdcInv, ArmedInv, ListenInv, Taking, Echoing
<1>6. DataInv'
  BY <1>1, <1>3 DEF CdcInv, DataInv
<1>7. Unechoed' <= Unechoed /\ Unechoed' \in Nat
  <2>1. Count(head, tail) = 0
    BY <1>1, CdcTypes, CountFacts DEF CdcInv, ArmedInv, Echoing
  <2>2. CASE chep.vtRx /\ copy.vtRx
    <3>1. Unechoed' = Unechoed
      BY <1>1, <1>3, <2>2 DEF Unechoed
    <3>2. QED
      BY <3>1, CdcTypes
  <2>3. CASE ~(chep.vtRx /\ copy.vtRx)
    <3>1. Unechoed' = 0
      BY <1>1, <1>3, <2>1, <2>3 DEF Unechoed
    <3>2. QED
      BY <3>1, CdcTypes
  <2>4. QED
    BY <2>2, <2>3
<1>8. EchoInv'
  <2>1. Owed' = Owed
    BY <1>1, <1>3 DEF Owed, InMemory, InHandler
  <2>2. wanted <= sent - Unechoed /\ got + Owed <= sent - Unechoed
    BY DEF CdcInv, EchoInv
  <2>3. wanted' <= sent' - Unechoed' /\ got' + Owed' <= sent' - Unechoed'
    <3>1. sent' = sent /\ wanted' = wanted /\ got' = got
      BY <1>1
    <3>2. /\ sent \in Nat /\ wanted \in Nat /\ got \in Nat /\ Owed \in Nat
          /\ Unechoed \in Nat
      BY CdcTypes
    <3>3. wanted <= sent - Unechoed'
      BY <1>7, <2>2, <3>2, FewerFit
    <3>4. got + Owed <= sent - Unechoed'
      <4>1. got + Owed \in Nat
        BY <3>2
      <4>2. QED
        BY <1>7, <2>2, <3>2, <4>1, FewerFit
    <3>5. QED
      BY <2>1, <3>1, <3>3, <3>4
  <2>4. QED
    BY <1>1, <1>3, <2>3 DEF CdcInv, EchoInv, Leaving
<1>9. FlightInv'
  BY <1>1, <1>3, FlightUnchanged
<1>10. QED
  BY <1>4, <1>5, <1>6, <1>8, <1>9 DEF CdcInv

\* The packet goes to the ring, all of it, since the ring is empty; one as long as the
\* ring leaves it empty, and is lost.
LEMMA TakePacketKeeps ==
  ASSUME CdcInv, TakePacket PROVE CdcInv'
<1> DEFINE n == Len(outPacket)
<1> USE DEF hosts, line, ring, handler, history
<1>1. /\ Size \in Nat \ {0} /\ n \in 0..Size /\ head \in Slot /\ tail = head
      /\ sent \in Nat /\ buffer \in [Slot -> 0..sent] /\ pc = "take" /\ pc' = "callback"
  BY CdcTypes DEF CdcInv, ArmedInv, TakePacket, At, Echoing
<1>2. UNCHANGED <<hosts, line, chep, copy, tail, snapshot, history>>
  BY DEF TakePacket
<1>3. Accepted(head, tail, n) = n
  BY <1>1, StoredInEmpty
<1>4. buffer' = Stored(buffer, head, outPacket, n) /\ head' = Advanced(head, n)
  BY <1>3 DEF TakePacket
<1>5. head' \in Slot
  BY <1>1, <1>4, AdvancedOnce
<1>6. Count(head', tail') = IF n = Size THEN 0 ELSE n
  BY <1>1, <1>2, <1>4, StoredInEmpty
<1>7. \A i \in 1..n : outPacket[i] = sent - n + i /\ outPacket[i] \in 1..sent
  <2>1. \A i \in 1..n : outPacket[i] = sent - n + i
    BY <1>1 DEF CdcInv, DataInv
  <2>2. DOMAIN outPacket = 1..n
    BY CdcTypes
  <2>3. QED
    BY <2>1, <2>2 DEF CdcInv, TypeOK
<1>8. ASSUME NEW i \in Slot
      PROVE  /\ (i - head) % Size \in 0..(Size - 1)
             /\ (i - head) % Size < n => ((i - head) % Size) + 1 \in 1..n
             /\ buffer'[i] = IF (i - head) % Size < n THEN outPacket[((i - head) % Size) + 1]
                                                     ELSE buffer[i]
  <2>1. (i - head) % Size \in 0..(Size - 1)
    <3>1. i - head \in Int
      BY <1>1 DEF Slot
    <3>2. QED
      BY <1>1, <3>1, ModRange
  <2>2. buffer'[i] = IF (i - head) % Size < n THEN outPacket[((i - head) % Size) + 1] ELSE buffer[i]
    BY <1>4 DEF Stored
  <2>3. QED
    BY <1>1, <2>1, <2>2
<1>9. buffer' \in [Slot -> 0..sent]
  <2>1. ASSUME NEW i \in Slot PROVE buffer'[i] \in 0..sent
    <3>1. CASE (i - head) % Size < n
      <4>1. outPacket[((i - head) % Size) + 1] \in 1..sent
        BY <1>7, <1>8, <3>1
      <4>2. QED
        BY <1>8, <3>1, <4>1
    <3>2. CASE ~((i - head) % Size < n)
      BY <1>1, <1>8, <3>2
    <3>3. QED
      BY <3>1, <3>2
  <2>2. buffer' = [i \in Slot |-> buffer'[i]]
    BY <1>4 DEF Stored
  <2>3. QED
    BY <2>1, <2>2
<1>10. TypeOK'
  BY <1>1, <1>2, <1>5, <1>9 DEF CdcInv, TypeOK
<1>11. ArmedInv' /\ ListenInv'
  BY <1>1, <1>2 DEF CdcInv, ArmedInv, ListenInv, Taking, Echoing
<1>12. DataInv'
  <2>1. ASSUME NEW i \in Slot, (i - tail') % Size < Count(head', tail')
        PROVE  buffer'[i] = sent' - Count(head', tail') + ((i - tail') % Size) + 1
    <3> DEFINE k == (i - head) % Size
    <3>1. k \in Nat /\ tail' = head /\ sent' = sent
      BY <1>1, <1>2, <1>8
    <3>2. k < Count(head', tail')
      BY <2>1, <3>1
    <3>3. n # Size /\ Count(head', tail') = n /\ k < n
      BY <1>6, <3>1, <3>2
    <3>4. k + 1 \in 1..n /\ buffer'[i] = outPacket[k + 1]
      BY <1>8, <3>3
    <3>5. buffer'[i] = sent - n + (k + 1)
      BY <1>7, <3>4
    <3> HIDE DEF k
    <3>6. buffer'[i] = sent - n + k + 1
      BY <1>1, <3>1, <3>5
    <3>7. QED
      BY <3>1, <3>3, <3>6 DEF k
  <2>2. ~(chep'.vtRx \/ pc' = "take")
    BY <1>1, <1>2 DEF CdcInv, ArmedInv
  <2>3. outPacket' \in Seq(Nat)
    BY <1>2, CdcTypes
  <2>4. QED
    BY <2>1, <2>2, <2>3 DEF DataInv
<1>13. EchoInv'
  <2>1. Unechoed = n /\ Unechoed' = Count(head', tail')
    BY <1>1, <1>2 DEF Unechoed, CdcInv, ArmedInv
  <2>2. Unechoed' <= Unechoed /\ Unechoed' \in Nat
    BY <1>1, <1>6, <2>1
  <2>3. Owed' = Owed
    BY <1>1, <1>2 DEF Owed, InMemory, InHandler
  <2>4. wanted <= sent - Unechoed /\ got + Owed <= sent - Unechoed
    BY DEF CdcInv, EchoInv
  <2>5. wanted' <= sent' - Unechoed' /\ got' + Owed' <= sent' - Unechoed'
    <3>1. sent' = sent /\ wanted' = wanted /\ got' = got
      BY <1>2
    <3>2. sent \in Nat /\ wanted \in Nat /\ got + Owed \in Nat /\ Unechoed \in Nat
      BY CdcTypes
    <3>3. wanted <= sent - Unechoed' /\ got + Owed <= sent - Unechoed'
      BY <2>2, <2>4, <3>2, FewerFit
    <3>4. QED
      BY <2>3, <3>1, <3>3
  <2>6. QED
    BY <1>1, <1>2, <2>5 DEF CdcInv, EchoInv, Leaving
<1>14. FlightInv'
  BY <1>2, FlightUnchanged
<1>15. QED
  BY <1>10, <1>11, <1>12, <1>13, <1>14 DEF CdcInv

\* The next byte leaves the ring for the packet memory.
LEMMA EchoCharKeeps ==
  ASSUME CdcInv, EchoChar PROVE CdcInv'
<1> DEFINE n == Count(head, tail)
<1> USE DEF hosts, line, ring, handler, history
<1>1. /\ pc = "callback" /\ pc' = "queue" /\ n > 0 /\ tail' = Advanced(tail, 1)
      /\ inPacket' = buffer[tail] /\ wanted' = buffer[tail] /\ missed' = FALSE
      /\ UNCHANGED <<hosts, outPacket, flight, copy, buffer, head, snapshot, flagLost>>
  BY DEF EchoChar, At
<1>2. /\ Size \in Nat \ {0} /\ head \in Slot /\ tail \in Slot /\ sent \in Nat
      /\ buffer \in [Slot -> 0..sent] /\ n \in 0..(Size - 1)
  BY CdcTypes
<1>3. head # tail /\ chep' = chep
  <2>1. head # tail
    BY <1>1, <1>2, CountFacts
  <2>2. ~(Capacity(head, tail) >= Size)
    BY <1>2, <2>1, CountFacts
  <2>3. QED
    BY <2>1, <2>2 DEF EchoChar, ReadEp
<1>4. tail' \in Slot /\ Count(head', tail') = n - 1
  BY <1>1, <1>2, <1>3, TakenFromRing
<1>5. buffer[tail] = sent - n + 1 /\ buffer[tail] \in 0..sent
  <2>1. (tail - tail) % Size = 0
    BY <1>2, SlotDistance DEF Slot
  <2>2. buffer[tail] = sent - n + 0 + 1
    BY <1>1, <1>2, <2>1 DEF CdcInv, DataInv
  <2>3. QED
    BY <1>2, <2>2
<1>6. ~chep.vtRx
  BY <1>1 DEF CdcInv, ArmedInv, Echoing
<1>7. TypeOK'
  BY <1>1, <1>3, <1>4, <1>5 DEF CdcInv, TypeOK
<1>8. ArmedInv' /\ ListenInv'
  BY <1>1, <1>3, <1>6 DEF CdcInv, ArmedInv, ListenInv, Taking, Echoing
<1>9. DataInv'
  <2>1. ASSUME NEW i \in Slot, (i - tail') % Size < Count(head', tail')
        PROVE  buffer'[i] = sent' - Count(head', tail') + ((i - tail') % Size) + 1
    <3> DEFINE k == (i - tail') % Size
               j == (i - tail) % Size
    <3>1. k \in Nat
      <4>1. i - tail' \in Int
        BY <1>2, <1>4 DEF Slot
      <4>2. QED
        BY <1>2, <4>1, ModRange
    <3>2. j = k + 1 /\ k < n - 1
      BY <1>1, <1>2, <1>3, <1>4, <2>1, TakenFromRing
    <3>3. j < n
      <4> HIDE DEF j, k
      <4>1. QED
        BY <1>2, <3>1, <3>2
    <3>4. buffer[i] = sent - n + j + 1
      BY <3>3 DEF CdcInv, DataInv
    <3>5. buffer[i] = sent - (n - 1) + k + 1
      <4> HIDE DEF j, k
      <4>1. QED
        BY <1>2, <3>1, <3>2, <3>4
    <3>6. QED
      BY <1>1, <1>4, <3>5
  <2>2. ~(chep'.vtRx \/ pc' = "take")
    BY <1>1, <1>3, <1>6
  <2>3. outPacket' \in Seq(Nat)
    BY <1>1, CdcTypes
  <2>4. QED
    BY <2>1, <2>2, <2>3 DEF DataInv
<1>10. EchoInv'
  <2>1. Unechoed = n /\ Unechoed' = n - 1
    BY <1>1, <1>3, <1>4, <1>6 DEF Unechoed
  <2>2. Owed' = Owed + 1
    <3>1. InHandler = 0 /\ InHandler' = 1 /\ InMemory' = InMemory
      BY <1>1, <1>3 DEF InHandler, InMemory
    <3>2. QED
      BY <3>1, CdcTypes DEF Owed
  <2>3. echo <= wanted /\ wanted <= sent - n /\ got + Owed <= sent - n
    BY <2>1 DEF CdcInv, EchoInv
  <2>4. sent' = sent /\ got' = got /\ echo' = echo /\ wanted' = sent - n + 1
    BY <1>1, <1>5
  <2>5. /\ echo' <= wanted' /\ wanted' <= sent' - Unechoed'
        /\ got' + Owed' <= sent' - Unechoed'
    <3>1. Owed \in Nat /\ got \in Nat /\ echo \in Nat /\ wanted \in Nat
      BY CdcTypes
    <3>2. wanted' <= sent' - Unechoed' /\ got' + Owed' <= sent' - Unechoed'
      BY <1>2, <2>1, <2>2, <2>3, <2>4, <3>1
    <3>3. echo' <= wanted'
      BY <1>2, <2>3, <2>4, <3>1
    <3>4. QED
      BY <3>2, <3>3
  <2>6. QED
    BY <1>1, <2>5 DEF EchoInv
<1>11. FlightInv'
  <2>1. wanted <= sent - n /\ wanted' = sent - n + 1
    BY <1>1, <1>3, <1>5, <1>6 DEF CdcInv, EchoInv, Unechoed
  <2>2. wanted <= wanted'
    <3>1. wanted \in Nat
      BY CdcTypes
    <3>2. QED
      BY <1>2, <2>1, <3>1
  <2>3. flight <= wanted => flight <= wanted'
    BY <1>1, <1>2, <1>5, <2>2, CdcTypes
  <2>4. QED
    BY <1>1, <1>3, <2>3 DEF CdcInv, FlightInv
<1>12. QED
  BY <1>7, <1>8, <1>9, <1>10, <1>11 DEF CdcInv

\* The status is toggled to VALID if it was NAK when it was read; if it was VALID the
\* host has either still to acknowledge a byte or has acknowledged this one, unless
\* this one is missed.
LEMMA QueueKeeps ==
  ASSUME CdcInv, Queue PROVE CdcInv'
<1> USE DEF hosts, line, ring, handler, history
<1>1. /\ pc = "write queue" /\ pc' = "callback"
      /\ chep' = [chep EXCEPT !.stTx = IF copy.stTx = "VALID" THEN @ ELSE "VALID"]
      /\ UNCHANGED <<hosts, line, copy, ring, snapshot, history>>
  BY DEF Queue, At
<1>2. chep \in Register /\ copy.stTx \in {"NAK", "VALID"}
  BY CdcTypes DEF Register
<1>3. /\ chep' \in Register /\ chep'.vtRx = chep.vtRx /\ chep'.stRx = chep.stRx
      /\ chep'.stTx = (IF copy.stTx = "VALID" THEN chep.stTx ELSE "VALID")
  BY <1>1, <1>2 DEF Register
<1>4. TypeOK'
  BY <1>1, <1>3 DEF CdcInv, TypeOK
<1>5. ArmedInv' /\ ListenInv' /\ DataInv'
  BY <1>1, <1>3 DEF CdcInv, ArmedInv, ListenInv, DataInv, Taking, Echoing
<1>6. EchoInv'
  <2>1. Unechoed' = Unechoed
    BY <1>1, <1>3 DEF Unechoed
  <2>2. Owed' <= Owed
    <3>1. InHandler = 1 /\ InHandler' = 0
      BY <1>1 DEF InHandler
    <3>2. InMemory' \in {0, 1}
      BY DEF InMemory
    <3>3. QED
      BY <3>1, <3>2, CdcTypes DEF Owed
  <2>3. Owed' \in Nat
    <3>1. InHandler' = 0 /\ (InMemory' = 0 \/ InMemory' = 1)
      BY <1>1 DEF InHandler, InMemory
    <3>2. QED
      BY <3>1 DEF Owed
  <2>4. got + Owed <= sent - Unechoed /\ wanted <= sent - Unechoed /\ echo <= wanted
    BY DEF CdcInv, EchoInv
  <2>5. sent' = sent /\ got' = got /\ wanted' = wanted /\ echo' = echo
    BY <1>1
  <2>6. /\ got' + Owed' <= sent' - Unechoed' /\ wanted' <= sent' - Unechoed'
        /\ echo' <= wanted'
    <3>1. sent \in Nat /\ got \in Nat /\ Unechoed \in Nat /\ Owed \in Nat
      BY CdcTypes
    <3>2. got + Owed' <= sent - Unechoed
      BY <2>2, <2>3, <2>4, <3>1, LessOwed
    <3>3. QED
      BY <2>1, <2>4, <2>5, <3>2
  <2>7. inPacket' = wanted'
    BY <1>1 DEF CdcInv, EchoInv, Leaving
  <2>8. echo' = wanted' \/ missed' \/ chep'.stTx = "VALID"
    BY <1>1, <1>2, <1>3 DEF CdcInv, EchoInv
  <2>9. QED
    BY <2>6, <2>7, <2>8 DEF EchoInv
<1>7. FlightInv'
  BY <1>1, <1>3 DEF CdcInv, FlightInv
<1>8. QED
  BY <1>4, <1>5, <1>6, <1>7 DEF CdcInv

\* The callback has emptied the ring: the endpoint is armed.
LEMMA EndReceiveKeeps ==
  ASSUME CdcInv, EndReceive PROVE CdcInv'
<1> USE DEF hosts, line, ring, handler, history
<1>1. /\ pc = "callback" /\ Count(head, tail) = 0
      /\ pc' \in {"clear tx", "idle"}
      /\ UNCHANGED <<hosts, line, copy, ring, snapshot, history>>
  BY DEF EndReceive
<1>2. head = tail
  BY <1>1, CdcTypes, CountFacts
<1>3. chep' = [chep EXCEPT !.stRx = "VALID"]
  <2>1. Capacity(head, tail) >= Size
    BY <1>2, CdcTypes, CountFacts
  <2>2. QED
    BY <2>1 DEF EndReceive, ReadEp
<1>4. chep \in Register /\ ~chep.vtRx
  BY <1>1, CdcTypes DEF CdcInv, ArmedInv, Echoing
<1>5. /\ chep' \in Register /\ chep'.vtRx = FALSE /\ chep'.stRx = "VALID"
      /\ chep'.stTx = chep.stTx
  BY <1>3, <1>4 DEF Register
<1>6. TypeOK'
  BY <1>1, <1>5 DEF CdcInv, TypeOK
<1>7. ArmedInv' /\ ListenInv' /\ DataInv'
  BY <1>1, <1>2, <1>4, <1>5 DEF CdcInv, ArmedInv, ListenInv, DataInv, Taking, Echoing
<1>8. Unechoed' = Unechoed /\ Owed' = Owed
  BY <1>1, <1>4, <1>5 DEF Unechoed, Owed, InMemory, InHandler
<1>9. EchoInv'
  BY <1>1, <1>5, <1>8 DEF CdcInv, EchoInv, Leaving
<1>10. FlightInv'
  BY <1>1, <1>5, FlightUnchanged
<1>11. QED
  BY <1>6, <1>7, <1>9, <1>10 DEF CdcInv

\* A new configuration starts over with an armed endpoint and an empty ring.
LEMMA ReconfigureKeeps ==
  ASSUME CdcInv, Reconfigure PROVE CdcInv' /\ echo' >= echo
<1> USE DEF hosts, line, ring, handler, history
<1>1. /\ pc = "idle" /\ flight = None /\ chep' = [Nak EXCEPT !.stRx = "VALID"]
      /\ head' = 0 /\ tail' = 0 /\ echo' = sent /\ got' = sent /\ wanted' = sent
      /\ flagLost' = FALSE /\ missed' = FALSE
      /\ UNCHANGED <<host, sent, line, copy, buffer, handler>>
  BY DEF Reconfigure
<1>2. 0 \in Slot /\ sent \in Nat
  BY CdcTypes DEF Slot
<1>3. /\ chep' \in Register /\ chep'.stRx = "VALID" /\ chep'.vtRx = FALSE
      /\ chep'.stTx = "NAK"
  BY <1>1 DEF Nak, Register
<1>4. TypeOK'
  <2>1. echo' \in 0..sent /\ got' \in 0..sent /\ wanted' \in 0..sent
    BY <1>1, <1>2
  <2>2. QED
    BY <1>1, <1>2, <1>3, <2>1 DEF CdcInv, TypeOK
<1>5. ArmedInv' /\ ListenInv'
  BY <1>1, <1>3 DEF CdcInv, ArmedInv, ListenInv, Taking, Echoing
<1>6. DataInv'
  <2>1. \A i \in Slot : ~((i - tail') % Size < Count(head', tail'))
    BY <1>1, <1>2, EmptyRing
  <2>2. outPacket' \in Seq(Nat)
    BY <1>1, CdcTypes
  <2>3. QED
    BY <1>1, <1>3, <2>1, <2>2 DEF DataInv
<1>7. EchoInv'
  <2>1. Unechoed' = 0
    BY <1>1, <1>2, <1>3, CountFacts DEF Unechoed
  <2>2. Owed' = 0
    BY <1>1, <1>3 DEF Owed, InMemory, InHandler
  <2>3. /\ echo' <= wanted' /\ wanted' <= sent' - Unechoed'
        /\ got' + Owed' <= sent' - Unechoed'
    BY <1>1, <1>2, <2>1, <2>2
  <2>4. QED
    BY <1>1, <1>3, <2>3 DEF EchoInv, Leaving
<1>8. FlightInv'
  BY <1>1, NothingInFlight
<1>9. QED
  BY <1>1, <1>4, <1>5, <1>6, <1>7, <1>8, CdcTypes DEF CdcInv

\* No step breaks the invariant, and what the host received never goes back.
LEMMA NextCdcInv == CdcInv /\ [Next]_vars => CdcInv' /\ echo' >= echo
<1> SUFFICES ASSUME CdcInv, [Next]_vars PROVE CdcInv' /\ echo' >= echo
  OBVIOUS
<1>s. ASSUME CdcInv', UNCHANGED hosts PROVE CdcInv' /\ echo' >= echo
  BY <1>s, CdcTypes DEF hosts
<1>1. CASE UNCHANGED vars
  <2>1. CdcInv'
    BY <1>1 DEF vars, hosts, line, ring, handler, history, CdcInv, TypeOK, ArmedInv,
                ListenInv, DataInv, FlightInv, EchoInv, Taking, Echoing, Leaving,
                Unechoed, Owed, InMemory, InHandler
  <2>2. QED
    BY <1>1, <1>s, <2>1 DEF vars
<1>2. CASE Snapshot
  BY <1>2, <1>s, SnapshotKeeps DEF Snapshot
<1>3. CASE ReadToClear
  BY <1>3, <1>s, ReadToClearKeeps DEF ReadToClear
<1>4. CASE ClearReceived
  BY <1>4, <1>s, ClearReceivedKeeps DEF ClearReceived
<1>5. CASE ClearTransmitted
  BY <1>5, <1>s, ClearTransmittedKeeps DEF ClearTransmitted
<1>6. CASE TakePacket
  BY <1>6, <1>s, TakePacketKeeps DEF TakePacket
<1>7. CASE EchoChar
  BY <1>7, <1>s, EchoCharKeeps DEF EchoChar
<1>8. CASE ReadToQueue
  BY <1>8, <1>s, ReadToQueueKeeps DEF ReadToQueue
<1>9. CASE Queue
  BY <1>9, <1>s, QueueKeeps DEF Queue
<1>10. CASE EndReceive
  BY <1>10, <1>s, EndReceiveKeeps DEF EndReceive
<1>11. CASE HostIn
  BY <1>11, <1>s, FetchKeeps, AcknowledgeKeeps DEF HostIn, Fetch
<1>12. CASE Reconfigure
  BY <1>12, ReconfigureKeeps
<1>13. ASSUME NEW k \in 1..Size, HostOut(k) PROVE CdcInv' /\ echo' >= echo
  <2>1. CdcInv' /\ echo' = echo
    BY <1>13, HostOutKeeps DEF HostOut
  <2>2. QED
    BY <2>1, CdcTypes
<1>14. QED
  BY <1>1, <1>2, <1>3, <1>4, <1>5, <1>6, <1>7, <1>8, <1>9, <1>10, <1>11, <1>12, <1>13
     DEF Next, Handler

-----------------------------------------------------------------------------
(* The theorems.                                                            *)

\* The serial port keeps to its invariant, whatever packets the host sends, whenever it
\* fetches a byte and acknowledges it and however often it configures the device.
THEOREM CdcInvariant == Spec => []CdcInv
<1>1. Init => CdcInv
  BY InitCdcInv
<1>2. CdcInv /\ [Next]_vars => CdcInv'
  BY NextCdcInv
<1>3. QED
  BY <1>1, <1>2, PTL DEF Spec

\* The indexes stay inside the ring, and no more bytes come back than were sent.
THEOREM CdcTypeCorrect == Spec => []TypeOK
<1>1. CdcInv => TypeOK
  BY DEF CdcInv
<1>2. QED
  BY <1>1, CdcInvariant, PTL

\* When the handler has returned the endpoint is armed or has a packet waiting, unless
\* the write that cleared a transmission wiped out a reception.
THEOREM CdcKeepsListening == Spec => []KeepsListening
<1>1. CdcInv => KeepsListening
  BY DEF CdcInv, ListenInv, KeepsListening, Taking, Echoing
<1>2. QED
  BY <1>1, CdcInvariant, PTL

\* When all is quiet the host has the last byte that the callback echoed, wherever the
\* fetch and the acknowledgement of the one before fall in its queueing, unless that
\* one was in flight when the register was read: only then nothing sends it.
THEOREM CdcQuietMeansEchoed == Spec => []QuietMeansEchoed
<1>1. CdcInv => QuietMeansEchoed
  BY DEF CdcInv, EchoInv, QuietMeansEchoed, Quiet
<1>2. QED
  BY <1>1, CdcInvariant, PTL

\* The host never receives a byte that lies before one it received already.
THEOREM CdcEchoInOrder == Spec => EchoInOrder
<1>1. CdcInv /\ [Next]_vars => [echo' >= echo]_vars
  BY NextCdcInv
<1>2. QED
  BY <1>1, CdcInvariant, PTL DEF Spec, EchoInOrder
=============================================================================
