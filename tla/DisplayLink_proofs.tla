-------------------------- MODULE DisplayLink_proofs --------------------------
(***************************************************************************)
(* What holds of the link between the boards for every timing of its two   *)
(* sides, every width of the clock and every size of a service.  The       *)
(* checksum is only used as a function on 16 bits.                         *)
(***************************************************************************)
EXTENDS DisplayLink, SequenceTheorems, TLAPS

\* rs232_display_protocol_crc16_update returns a uint16_t.
CrcIs16Bits == \A c \in Word, b \in Byte : CrcUpdate(c, b) \in Word

\* The display waits longer than the mainboard takes at its latest.
TimeoutSpansHeartbeats == Interval + MaxLate < Timeout

-----------------------------------------------------------------------------
(* The invariants.                                                          *)

HeartbeatCrc == CrcUpdate(CrcUpdate(CrcInitial, HeartbeatType), 0)

ParserStates == {"start", "type", "length", "payload", "crc_high", "crc_low"}
Parser == [state : ParserStates, type : Byte, length : Byte, index : Byte,
           crc : Word, received : Word]

\* The parser takes no more payload than was announced.
WithinPayload(p) == p.state = "payload" => p.index < p.length

\* TypeOK with the parser in one piece; the length of the line is bounded below.
Types ==
  /\ now \in Clock /\ lastSent \in Clock /\ lastHeartbeat \in Clock
  /\ up \in BOOLEAN /\ served \in BOOLEAN
  /\ line \in Seq(Byte) /\ parser \in Parser /\ WithinPayload(parser)
  /\ link \in {"waiting", "ok", "lost"}
  /\ service \in 0..Waiting /\ faults \in 0..MaxFaults /\ silence \in 0..MaxSilence

\* The line holds what faults put there and at most one frame, sent in this tick.
LineBound == (MaxFaults - faults) + (IF lastSent = now THEN 5 ELSE 0)

LinkInv == Types /\ Len(line) <= LineBound

\* As long as nothing went wrong, the parser has taken the part of a frame that the
\* line no longer holds, and the line is empty or was written in this tick.
ParserHas(n) ==
  \/ n = 0 /\ parser.state = "start"
  \/ n = 1 /\ parser.state = "type" /\ parser.crc = CrcInitial
  \/ n = 2 /\ parser.state = "length" /\ parser.type = HeartbeatType
     /\ parser.crc = CrcUpdate(CrcInitial, HeartbeatType)
  \/ n = 3 /\ parser.state = "crc_high" /\ parser.type = HeartbeatType
     /\ parser.crc = HeartbeatCrc
  \/ n = 4 /\ parser.state = "crc_low" /\ parser.type = HeartbeatType
     /\ parser.crc = HeartbeatCrc /\ parser.received = 256 * HeartbeatFrame[4]

CleanInv ==
  faults = MaxFaults =>
    /\ up
    /\ \/ line = <<>> /\ parser.state = "start"
       \/ /\ lastSent = now /\ silence = 0
          /\ \E n \in 0..4 : /\ ParserHas(n)
                             /\ Len(line) = 5 - n
                             /\ \A i \in 1..(5 - n) : line[i] = HeartbeatFrame[n + i]

\* As long as nothing went wrong, the last heartbeat that was read is the last that
\* was sent, or the next is being read.
TimelyInv ==
  faults = MaxFaults =>
    /\ link # "lost"
    /\ Since(now, lastSent) <= Interval + MaxLate
    /\ Since(now, lastHeartbeat) <= Interval + MaxLate
    /\ line = <<>> => lastHeartbeat = lastSent

\* Bytes on the line are of this tick, but for one that a fault put in front of a
\* parser that waits for a frame: it completes no heartbeat.
LineInv ==
  line # <<>> => \/ silence = 0
                 \/ faults < MaxFaults /\ Len(line) = 1 /\ parser.state = "start"

\* While the link is shown as up, the mainboard has been silent no longer than the
\* display has waited for a heartbeat, and after a service that is less than the
\* timeout.
AliveInv ==
  link = "ok" =>
    /\ silence <= Since(now, lastHeartbeat) /\ Since(now, lastHeartbeat) <= Timeout
    /\ served /\ service = Waiting => Since(now, lastHeartbeat) < Timeout

-----------------------------------------------------------------------------
(* The clock.                                                               *)

\* The counter has values.
LEMMA ClockFacts ==
  ClockRange \in Nat \ {0} /\ 0 \in Clock /\ Timeout \in Nat /\ Interval \in Nat \ {0}
BY LinkAssumption DEF Clock

\* The time since a moment lies within the range, and is zero at that moment only.
LEMMA SinceRange ==
  ASSUME NEW t \in Clock, NEW u \in Clock
  PROVE  Since(t, u) \in 0..(ClockRange - 1) /\ (Since(t, u) = 0 <=> t = u)
<1>1. t \in Nat /\ u \in Nat /\ t < ClockRange /\ u < ClockRange /\ ClockRange \in Nat \ {0}
  BY ClockFacts DEF Clock
<1>2. CASE u <= t
  <2>1. (t - u) % ClockRange = t - u
    BY <1>1, <1>2, Z3
  <2> QED BY <1>1, <1>2, <2>1 DEF Since
<1>3. CASE t < u
  <2>1. (t - u) % ClockRange = t - u + ClockRange
    BY <1>1, <1>3, Z3
  <2> QED BY <1>1, <1>3, <2>1 DEF Since
<1> QED BY <1>1, <1>2, <1>3

\* A tick makes it one longer, wherever the counter wraps.
LEMMA SinceTick ==
  ASSUME NEW t \in Clock, NEW u \in Clock
  PROVE  /\ (t + 1) % ClockRange \in Clock
         /\ Since((t + 1) % ClockRange, u)
              = IF Since(t, u) = ClockRange - 1 THEN 0 ELSE Since(t, u) + 1
<1>1. t \in Nat /\ u \in Nat /\ t < ClockRange /\ u < ClockRange /\ ClockRange \in Nat \ {0}
  BY ClockFacts DEF Clock
<1> DEFINE next == (t + 1) % ClockRange
<1>2. next = IF t + 1 = ClockRange THEN 0 ELSE t + 1
  <2>1. CASE t + 1 = ClockRange
    <3>1. (t + 1) % ClockRange = 0
      BY <1>1, <2>1, Z3
    <3> QED BY <2>1, <3>1, Zenon
  <2>2. CASE t + 1 < ClockRange
    <3>1. (t + 1) % ClockRange = t + 1
      BY <1>1, <2>2, Z3
    <3>2. t + 1 # ClockRange
      BY <1>1, <2>2
    <3> QED BY <3>1, <3>2, Zenon
  <2>3. t + 1 = ClockRange \/ t + 1 < ClockRange
    BY <1>1
  <2> QED BY <2>1, <2>2, <2>3, Zenon
<1> HIDE DEF next
<1>3. next \in Clock /\ next \in Nat /\ next < ClockRange
  BY <1>1, <1>2 DEF Clock
<1>4. ASSUME NEW a \in Nat, a < ClockRange
      PROVE  (a - u) % ClockRange = IF u <= a THEN a - u ELSE a - u + ClockRange
  <2>1. CASE u <= a
    <3>1. (a - u) % ClockRange = a - u
      BY <1>1, <1>4, <2>1, Z3
    <3> QED BY <2>1, <3>1
  <2>2. CASE a < u
    <3>1. (a - u) % ClockRange = a - u + ClockRange
      BY <1>1, <1>4, <2>2, Z3
    <3> QED BY <1>1, <2>2, <3>1
  <2> QED BY <1>1, <2>1, <2>2
<1>5. Since(t, u) = IF u <= t THEN t - u ELSE t - u + ClockRange
  BY <1>1, <1>4 DEF Since
<1>6. Since(next, u) = IF u <= next THEN next - u ELSE next - u + ClockRange
  BY <1>3, <1>4 DEF Since
<1> QED BY <1>1, <1>2, <1>3, <1>5, <1>6 DEF next

-----------------------------------------------------------------------------
(* The protocol.                                                            *)

\* The bytes, and an index into a payload.
LEMMA ByteIs ==
  /\ \A x \in Int : 0 <= x /\ x < 256 => x \in Byte
  /\ \A i, l \in Byte : i < l => i + 1 \in Byte /\ (i + 1 >= l \/ i + 1 < l)
<1>1. ASSUME NEW x \in Int, 0 <= x, x < 256 PROVE x \in Byte
  BY <1>1 DEF Byte
<1>2. ASSUME NEW i \in Byte, NEW l \in Byte, i < l
      PROVE  i + 1 \in Byte /\ (i + 1 >= l \/ i + 1 < l)
  BY <1>2 DEF Byte
<1> QED BY <1>1, <1>2, Zenon

\* A heartbeat is five bytes.
LEMMA FrameIs ==
  ASSUME CrcIs16Bits
  PROVE  /\ HeartbeatFrame \in Seq(Byte) /\ Len(HeartbeatFrame) = 5
         /\ HeartbeatFrame[1] = StartByte /\ HeartbeatFrame[2] = HeartbeatType
         /\ HeartbeatFrame[3] = 0
         /\ 256 * HeartbeatFrame[4] + HeartbeatFrame[5] = HeartbeatCrc
         /\ \A i \in 1..5 : HeartbeatFrame[i] \in Byte
<1> DEFINE crc == HeartbeatCrc
<1>1. crc \in Word
  <2>1. CrcInitial \in Word /\ HeartbeatType \in Byte /\ 0 \in Byte
    BY DEF CrcInitial, HeartbeatType, Word, Byte
  <2>2. CrcUpdate(CrcInitial, HeartbeatType) \in Word
    BY <2>1 DEF CrcIs16Bits
  <2> QED BY <2>1, <2>2 DEF CrcIs16Bits, HeartbeatCrc
<1>2. HeartbeatFrame = <<StartByte, HeartbeatType, 0, crc \div 256, crc % 256>>
  BY DEF HeartbeatFrame, HeartbeatCrc
<1> HIDE DEF crc
<1>3. crc \div 256 \in Byte /\ crc % 256 \in Byte /\ 256 * (crc \div 256) + (crc % 256) = crc
  <2>1. crc \in Int /\ 0 <= crc /\ crc < 65536
    BY <1>1 DEF Word
  <2>2. 0 <= crc \div 256 /\ crc \div 256 < 256 /\ crc \div 256 \in Int
    BY <2>1, Z3
  <2>3. 0 <= crc % 256 /\ crc % 256 < 256 /\ crc % 256 \in Int
    BY <2>1, Z3
  <2>4. 256 * (crc \div 256) + (crc % 256) = crc
    BY <2>1, Z3
  <2> QED BY <2>2, <2>3, <2>4, ByteIs, Zenon
<1>4. 165 \in Byte /\ 1 \in Byte /\ 0 \in Byte
  BY DEF Byte
<1> QED BY <1>2, <1>3, <1>4 DEF crc, StartByte, HeartbeatType

\* The first state of the parser.
LEMMA InitialParserIs == InitialParser \in Parser /\ WithinPayload(InitialParser)
BY DEF InitialParser, Parser, ParserStates, WithinPayload, Byte, Word, CrcInitial

\* The parser stays one.
LEMMA ParsedTypes ==
  ASSUME CrcIs16Bits, NEW p \in Parser, WithinPayload(p), NEW b \in Byte
  PROVE  Parsed(p, b) \in Parser /\ WithinPayload(Parsed(p, b))
<1>1. CrcUpdate(p.crc, b) \in Word
  BY DEF CrcIs16Bits, Parser
<1>2. CASE p.state = "start"
  <2>1. Parsed(p, b) = IF b = StartByte THEN [InitialParser EXCEPT !.state = "type"] ELSE p
    BY <1>2 DEF Parsed, ParsedWithoutReset
  <2>2. ASSUME b = StartByte
        PROVE  Parsed(p, b) \in Parser /\ Parsed(p, b).state = "type"
    <3>1. InitialParser \in Parser /\ Parsed(p, b) = [InitialParser EXCEPT !.state = "type"]
      BY <2>1, <2>2, InitialParserIs
    <3> HIDE DEF InitialParser
    <3> QED BY <3>1 DEF Parser, ParserStates
  <2> QED BY <2>1, <2>2 DEF WithinPayload
<1>3. CASE p.state = "type"
  <2>1. Parsed(p, b) = [p EXCEPT !.state = "length", !.type = b, !.crc = CrcUpdate(@, b)]
    BY <1>3 DEF Parsed, ParsedWithoutReset
  <2> QED BY <1>1, <2>1 DEF Parser, ParserStates, WithinPayload
<1>4. CASE p.state = "length"
  <2>1. Parsed(p, b) = [p EXCEPT !.state = IF b = 0 THEN "crc_high" ELSE "payload",
                                 !.length = b, !.index = 0, !.crc = CrcUpdate(@, b)]
    BY <1>4 DEF Parsed, ParsedWithoutReset
  <2>2. b \in Int /\ 0 \in Byte /\ (b # 0 => 0 < b)
    BY DEF Byte
  <2>3. CASE b = 0
    <3>1. Parsed(p, b) \in Parser /\ Parsed(p, b).state = "crc_high"
      BY <1>1, <2>1, <2>2, <2>3 DEF Parser, ParserStates
    <3> QED BY <3>1 DEF WithinPayload
  <2>4. CASE b # 0
    <3>1. Parsed(p, b) = [p EXCEPT !.state = "payload",
                                   !.length = b, !.index = 0, !.crc = CrcUpdate(@, b)]
      BY <2>1, <2>4
    <3>2. Parsed(p, b) \in Parser
      BY <1>1, <2>2, <3>1 DEF Parser, ParserStates
    <3>3. Parsed(p, b).length = b /\ Parsed(p, b).index = 0
      BY <3>1 DEF Parser
    <3> QED BY <2>2, <2>4, <3>2, <3>3 DEF WithinPayload
  <2> QED BY <2>3, <2>4
<1>5. CASE p.state = "payload"
  <2>1. Parsed(p, b) = [p EXCEPT !.state = IF PayloadEnds(p) THEN "crc_high" ELSE "payload",
                                 !.index = @ + 1, !.crc = CrcUpdate(@, b)]
    BY <1>5 DEF Parsed, ParsedWithoutReset
  <2>2. p.index + 1 \in Byte /\ (~PayloadEnds(p) => p.index + 1 < p.length)
    <3>1. p.index \in Byte /\ p.length \in Byte /\ p.index < p.length
      BY <1>5 DEF Parser, WithinPayload
    <3> QED BY <3>1, ByteIs, Zenon DEF PayloadEnds
  <2>3. CASE PayloadEnds(p)
    BY <1>1, <2>1, <2>2, <2>3 DEF Parser, ParserStates, WithinPayload
  <2>4. CASE ~PayloadEnds(p)
    <3>1. Parsed(p, b) = [p EXCEPT !.index = @ + 1, !.crc = CrcUpdate(@, b)]
      BY <1>5, <2>1, <2>4 DEF Parser
    <3>2. Parsed(p, b) \in Parser
      BY <1>1, <2>2, <3>1 DEF Parser
    <3>3. Parsed(p, b).index = p.index + 1 /\ Parsed(p, b).length = p.length
      BY <3>1 DEF Parser
    <3> QED BY <2>2, <2>4, <3>2, <3>3 DEF WithinPayload
  <2> QED BY <2>3, <2>4
<1>6. CASE p.state = "crc_high"
  <2>1. Parsed(p, b) = [p EXCEPT !.state = "crc_low", !.received = 256 * b]
    BY <1>6 DEF Parsed, ParsedWithoutReset
  <2>2. 256 * b \in Word
    BY DEF Byte, Word
  <2>3. Parsed(p, b) \in Parser /\ Parsed(p, b).state = "crc_low"
    <3> DEFINE high == 256 * b
    <3> HIDE DEF high
    <3>1. Parsed(p, b) = [p EXCEPT !.state = "crc_low", !.received = high] /\ high \in Word
      BY <2>1, <2>2 DEF high
    <3> QED BY <3>1 DEF Parser, ParserStates
  <2> QED BY <2>3 DEF WithinPayload
<1>7. CASE p.state = "crc_low"
  BY <1>7, InitialParserIs DEF Parsed
<1> QED BY <1>2, <1>3, <1>4, <1>5, <1>6, <1>7 DEF Parser, ParserStates

-----------------------------------------------------------------------------
(* The types, and what the line can hold.                                   *)

\* Numbers of the model.
LEMMA Bounds ==
  MaxFaults \in Nat /\ Waiting \in Nat /\ ServiceBytes \in Nat /\ ServiceBytes < Waiting
  /\ MaxSilence \in Nat /\ Timeout < MaxSilence
BY LinkAssumption DEF Waiting, MaxSilence

\* Taking the first byte off the line, and putting one before it.
LEMMA LineOps ==
  ASSUME NEW q \in Seq(Byte)
  PROVE  /\ Len(q) \in Nat
         /\ q # <<>> => /\ Head(q) \in Byte /\ Tail(q) \in Seq(Byte) /\ Len(q) >= 1
                        /\ Len(Tail(q)) = Len(q) - 1 /\ Head(q) = q[1]
                        /\ \A i \in 1..(Len(q) - 1) : Tail(q)[i] = q[i + 1]
         /\ \A b \in Byte : <<b>> \o q \in Seq(Byte) /\ Len(<<b>> \o q) = Len(q) + 1
         /\ \A n \in 0..Len(q) : SubSeq(q, 1, n) \in Seq(Byte) /\ Len(SubSeq(q, 1, n)) = n
<1>1. Len(q) \in Nat
  OBVIOUS
<1>2. ASSUME q # <<>>
      PROVE  /\ Head(q) \in Byte /\ Tail(q) \in Seq(Byte) /\ Len(q) >= 1
             /\ Len(Tail(q)) = Len(q) - 1 /\ Head(q) = q[1]
             /\ \A i \in 1..(Len(q) - 1) : Tail(q)[i] = q[i + 1]
  BY <1>2
<1>3. ASSUME NEW b \in Byte PROVE <<b>> \o q \in Seq(Byte) /\ Len(<<b>> \o q) = Len(q) + 1
  OBVIOUS
<1>4. ASSUME NEW n \in 0..Len(q)
      PROVE  SubSeq(q, 1, n) \in Seq(Byte) /\ Len(SubSeq(q, 1, n)) = n
  OBVIOUS
<1> QED BY <1>1, <1>2, <1>3, <1>4

\* The invariant has the types.
LEMMA LinkInvTypes == CrcIs16Bits /\ LinkInv => TypeOK
<1> SUFFICES ASSUME CrcIs16Bits, LinkInv PROVE TypeOK
  OBVIOUS
<1>1. Len(line) <= Len(HeartbeatFrame) + MaxFaults
  <2>1. Len(HeartbeatFrame) = 5
    BY FrameIs
  <2>2. /\ faults \in 0..MaxFaults /\ MaxFaults \in Nat /\ Len(line) \in Nat
        /\ Len(line) <= (MaxFaults - faults) + (IF lastSent = now THEN 5 ELSE 0)
    BY Bounds, LineOps DEF LinkInv, Types, LineBound
  <2> QED BY <2>1, <2>2
<1>2. parser \in Parser /\ WithinPayload(parser) /\ line \in Seq(Byte)
  BY DEF LinkInv, Types
<1>3. /\ now \in Clock /\ lastSent \in Clock /\ lastHeartbeat \in Clock
      /\ up \in BOOLEAN /\ served \in BOOLEAN /\ link \in {"waiting", "ok", "lost"}
      /\ service \in 0..Waiting /\ faults \in 0..MaxFaults /\ silence \in 0..MaxSilence
  BY Zenon DEF LinkInv, Types
<1> QED
  BY <1>1, <1>2, <1>3 DEF TypeOK, Parser, ParserStates, WithinPayload

\* A fault is counted, and makes the line longer by a byte at most.
LEMMA FaultKeeps ==
  ASSUME LinkInv, Fault, UNCHANGED <<now, lastSent, up, silence>>,
         line' \in Seq(Byte), Len(line') <= Len(line) + 1,
         parser' \in Parser, WithinPayload(parser'), link' \in {"waiting", "ok", "lost"},
         lastHeartbeat' \in Clock, service' \in 0..Waiting, UNCHANGED served
  PROVE  LinkInv' /\ faults' < MaxFaults
<1>1. /\ faults \in 0..MaxFaults /\ Len(line) \in Nat /\ MaxFaults \in Nat
      /\ Len(line') \in Nat
  BY Bounds, LineOps DEF LinkInv, Types
<1>2. Len(line) <= (MaxFaults - faults) + (IF lastSent = now THEN 5 ELSE 0)
  BY DEF LinkInv, LineBound
<1>3. faults > 0 /\ faults' = faults - 1 /\ now' = now /\ lastSent' = lastSent
  BY DEF Fault
<1>4. /\ faults' \in 0..MaxFaults /\ faults' < MaxFaults
      /\ Len(line') <= (MaxFaults - faults') + (IF lastSent' = now' THEN 5 ELSE 0)
  BY <1>1, <1>2, <1>3
<1> QED BY <1>4, <1>3 DEF LinkInv, Types, LineBound

\* The first state.
LEMMA InitLinkInv == Init => LinkInv
<1> SUFFICES ASSUME Init PROVE LinkInv
  OBVIOUS
<1>1. line = <<>> /\ line \in Seq(Byte) /\ Len(line) = 0
  BY DEF Init
<1>2. parser \in Parser /\ WithinPayload(parser)
  BY InitialParserIs DEF Init
<1>3. now \in Clock /\ lastSent \in Clock /\ lastHeartbeat \in Clock
  BY ClockFacts DEF Init
<1>4. service \in 0..Waiting /\ faults \in 0..MaxFaults /\ silence \in 0..MaxSilence
  BY Bounds DEF Init
<1>5. Len(line) <= LineBound
  BY <1>1, Bounds DEF Init, LineBound
<1>6. up \in BOOLEAN /\ served \in BOOLEAN /\ link \in {"waiting", "ok", "lost"}
  BY DEF Init
<1> QED BY <1>1, <1>2, <1>3, <1>4, <1>5, <1>6, Zenon DEF LinkInv, Types

\* A heartbeat is sent onto a line that holds no other: the clock has advanced since.
LEMMA SendKeepsLink ==
  ASSUME CrcIs16Bits, LinkInv, SendHeartbeat
  PROVE  LinkInv' /\ lastSent # now
<1>1. now \in Clock /\ lastSent \in Clock /\ Since(now, lastSent) >= Interval
  BY DEF LinkInv, Types, SendHeartbeat
<1>2. lastSent # now
  <2>1. /\ Since(now, lastSent) \in 0..(ClockRange - 1)
        /\ Since(now, lastSent) = 0 <=> now = lastSent
    BY <1>1, SinceRange
  <2> QED BY <1>1, <2>1, ClockFacts
<1>3. line' \in Seq(Byte) /\ Len(line') = Len(line) + 5 /\ Len(line) \in Nat
  <2> DEFINE frame == HeartbeatFrame
  <2>1. frame \in Seq(Byte) /\ Len(frame) = 5 /\ line \in Seq(Byte) /\ line' = line \o frame
    BY FrameIs DEF LinkInv, Types, SendHeartbeat
  <2> HIDE DEF frame
  <2>2. line \o frame \in Seq(Byte) /\ Len(line \o frame) = Len(line) + Len(frame)
    BY <2>1, ConcatProperties, Zenon
  <2>3. Len(line) \in Nat
    BY <2>1, LineOps
  <2> QED BY <2>1, <2>2, <2>3
<1>4. /\ faults \in 0..MaxFaults /\ MaxFaults \in Nat
      /\ Len(line) <= (MaxFaults - faults) + 0
  BY <1>2, Bounds DEF LinkInv, Types, LineBound
<1>5. /\ lastSent' = now /\ silence' = 0
      /\ UNCHANGED <<now, up, parser, link, lastHeartbeat, service, served, faults>>
  BY DEF SendHeartbeat, display
<1>6. Len(line') <= (MaxFaults - faults') + (IF lastSent' = now' THEN 5 ELSE 0)
  BY <1>3, <1>4, <1>5
<1>7. silence' \in 0..MaxSilence
  BY <1>5, Bounds
<1> QED BY <1>1, <1>2, <1>3, <1>5, <1>6, <1>7 DEF LinkInv, Types, LineBound

\* A byte that is read keeps the parser within a payload.
LEMMA ReceiveKeepsLink ==
  ASSUME CrcIs16Bits, LinkInv, ReceiveByte
  PROVE  LinkInv'
<1>1. /\ line \in Seq(Byte) /\ line # <<>> /\ parser \in Parser /\ WithinPayload(parser)
      /\ faults \in 0..MaxFaults /\ MaxFaults \in Nat /\ service \in 0..Waiting
      /\ now \in Clock
  BY Bounds DEF LinkInv, Types, ReceiveByte
<1>2. Head(line) \in Byte /\ line' \in Seq(Byte) /\ Len(line') = Len(line) - 1 /\ Len(line) \in Nat
  BY <1>1, LineOps DEF ReceiveByte
<1>3. parser' \in Parser /\ WithinPayload(parser')
  <2>1. Parsed(parser, Head(line)) \in Parser /\ WithinPayload(Parsed(parser, Head(line)))
    BY <1>1, <1>2, ParsedTypes
  <2> QED BY <2>1 DEF ReceiveByte, WithinPayload
<1>4. service' \in 0..Waiting
  BY <1>1, Bounds DEF ReceiveByte
<1>5. /\ UNCHANGED <<now, up, lastSent, silence, served, faults>>
      /\ \/ lastHeartbeat' = now /\ link' = "ok"
         \/ UNCHANGED <<lastHeartbeat, link>>
  BY DEF ReceiveByte, mainboard
<1>6. Len(line') <= (MaxFaults - faults') + (IF lastSent' = now' THEN 5 ELSE 0)
  <2>1. Len(line) <= (MaxFaults - faults) + (IF lastSent = now THEN 5 ELSE 0)
    BY DEF LinkInv, LineBound
  <2> QED BY <1>1, <1>2, <1>5, <2>1
<1>7. lastHeartbeat' \in Clock /\ link' \in {"waiting", "ok", "lost"}
  BY <1>1, <1>5 DEF LinkInv, Types
<1> QED BY <1>2, <1>3, <1>4, <1>5, <1>6, <1>7 DEF LinkInv, Types, LineBound

\* Every step keeps the types and the bound of the line.
LEMMA NextLinkInv ==
  ASSUME CrcIs16Bits, LinkInv, [Next]_vars
  PROVE  LinkInv'
<1>1. CASE SendHeartbeat
  BY <1>1, SendKeepsLink
<1>2. CASE BeginService
  <2>1. service' \in 0..Waiting
    BY <1>2, Bounds DEF BeginService
  <2> QED BY <1>2, <2>1 DEF BeginService, mainboard, LinkInv, Types, LineBound
<1>3. CASE ReceiveByte
  BY <1>3, ReceiveKeepsLink
<1>4. CASE EndService
  <2>1. service' \in 0..Waiting
    BY <1>4, Bounds DEF EndService
  <2>2. link' \in {"waiting", "ok", "lost"} /\ served' \in BOOLEAN
    BY <1>4 DEF EndService, LinkInv, Types
  <2> QED BY <1>4, <2>1, <2>2 DEF EndService, mainboard, LinkInv, Types, LineBound
<1>5. CASE Tick
  <2>1. now' \in Clock
    BY <1>5, SinceTick DEF Tick, LinkInv, Types
  <2>2. silence' \in 0..MaxSilence
    <3>1. silence \in 0..MaxSilence
      BY DEF LinkInv, Types
    <3> QED BY <1>5, <3>1, Bounds DEF Tick
  <2>3. Len(line') <= (MaxFaults - faults') + (IF lastSent' = now' THEN 5 ELSE 0)
    <3>1. Len(line') = 0 /\ faults' = faults /\ faults \in 0..MaxFaults /\ MaxFaults \in Nat
      BY <1>5, Bounds DEF Tick, LinkInv, Types
    <3> QED BY <3>1
  <2>4. served' \in BOOLEAN
    BY <1>5 DEF Tick
  <2> QED BY <1>5, <2>1, <2>2, <2>3, <2>4 DEF Tick, LinkInv, Types, LineBound
<1>6. CASE LoseByte \/ \E b \in Noise : GarbleByte(b) \/ InsertByte(b)
  <2>1. /\ Fault /\ line' \in Seq(Byte) /\ Len(line') <= Len(line) + 1
        /\ UNCHANGED <<now, mainboard, display>>
    <3>1. line \in Seq(Byte) /\ Noise \subseteq Byte
      BY LinkAssumption DEF LinkInv, Types, Byte
    <3>2. CASE LoseByte
      BY <3>1, <3>2, LineOps DEF LoseByte
    <3>3. ASSUME NEW b \in Noise, GarbleByte(b)
          PROVE  Fault /\ line' \in Seq(Byte) /\ Len(line') <= Len(line) + 1
                 /\ UNCHANGED <<now, mainboard, display>>
      <4>1. /\ Tail(line) \in Seq(Byte) /\ Len(Tail(line)) = Len(line) - 1
            /\ Len(line) \in Nat /\ line' = <<b>> \o Tail(line)
        BY <3>1, <3>3, LineOps DEF GarbleByte
      <4>2. line' \in Seq(Byte) /\ Len(line') = Len(Tail(line)) + 1
        BY <3>1, <4>1, LineOps
      <4> QED BY <3>3, <4>1, <4>2 DEF GarbleByte
    <3>4. ASSUME NEW b \in Noise, InsertByte(b)
          PROVE  Fault /\ line' \in Seq(Byte) /\ Len(line') <= Len(line) + 1
                 /\ UNCHANGED <<now, mainboard, display>>
      <4>1. line' = <<b>> \o line
        BY <3>4 DEF InsertByte
      <4>2. line' \in Seq(Byte) /\ Len(line') = Len(line) + 1 /\ Len(line) \in Nat
        BY <3>1, <4>1, LineOps
      <4> QED BY <3>4, <4>2 DEF InsertByte
    <3> QED BY <1>6, <3>2, <3>3, <3>4
  <2> QED BY <2>1, FaultKeeps DEF LinkInv, Types, mainboard, display, WithinPayload
<1>7. CASE StopMainboard
  <2>1. PICK n \in 0..Len(line) : line' = SubSeq(line, 1, n)
    BY <1>7 DEF StopMainboard
  <2>2. line' \in Seq(Byte) /\ Len(line') = n /\ Len(line) \in Nat
    BY <2>1, LineOps DEF LinkInv, Types
  <2>3. /\ faults \in 0..MaxFaults /\ faults' = faults - 1 /\ faults > 0 /\ MaxFaults \in Nat
        /\ Len(line) <= (MaxFaults - faults) + (IF lastSent = now THEN 5 ELSE 0)
        /\ now' = now /\ lastSent' = lastSent
    BY <1>7, Bounds DEF StopMainboard, Fault, LinkInv, Types, LineBound
  <2>4. /\ faults' \in 0..MaxFaults
        /\ Len(line') <= (MaxFaults - faults') + (IF lastSent' = now' THEN 5 ELSE 0)
    BY <2>2, <2>3
  <2>5. up' \in BOOLEAN
    BY <1>7 DEF StopMainboard
  <2> QED BY <1>7, <2>2, <2>4, <2>5 DEF StopMainboard, display, LinkInv, Types, LineBound
<1>8. CASE StartMainboard
  <2>1. Len(line') <= (MaxFaults - faults') + 5
    <3>1. /\ faults \in 0..MaxFaults /\ MaxFaults \in Nat /\ Len(line) \in Nat
          /\ Len(line) <= (MaxFaults - faults) + (IF lastSent = now THEN 5 ELSE 0)
      BY Bounds, LineOps DEF LinkInv, Types, LineBound
    <3>2. line' = line /\ faults' = faults
      BY <1>8 DEF StartMainboard
    <3> QED BY <3>1, <3>2
  <2>2. lastSent' = now' /\ lastSent' \in Clock /\ up' \in BOOLEAN
    BY <1>8 DEF StartMainboard, LinkInv, Types
  <2> QED BY <1>8, <2>1, <2>2 DEF StartMainboard, display, LinkInv, Types, LineBound
<1>9. CASE StartDisplay
  <2>1. line' = <<>> /\ line' \in Seq(Byte) /\ Len(line') <= Len(line) + 1
    BY <1>9, LineOps DEF StartDisplay, LinkInv, Types
  <2>2. parser' \in Parser /\ WithinPayload(parser') /\ service' \in 0..Waiting
    BY <1>9, InitialParserIs, Bounds DEF StartDisplay, WithinPayload
  <2>3. lastHeartbeat' \in Clock
    BY <1>9 DEF StartDisplay, LinkInv, Types
  <2> QED BY <1>9, <2>1, <2>2, <2>3, FaultKeeps DEF StartDisplay, mainboard
<1>10. CASE UNCHANGED vars
  BY <1>10 DEF vars, mainboard, display, LinkInv, Types, LineBound, WithinPayload
<1> QED
  BY <1>1, <1>2, <1>3, <1>4, <1>5, <1>6, <1>7, <1>8, <1>9, <1>10
  DEF Next, Service, LineFault, Restart

-----------------------------------------------------------------------------
(* While nothing goes wrong.                                                *)

\* Numbers of a type-correct state.
LEMMA LinkFacts ==
  ASSUME LinkInv
  PROVE  /\ now \in Clock /\ lastSent \in Clock /\ lastHeartbeat \in Clock
         /\ line \in Seq(Byte) /\ Len(line) \in Nat /\ parser \in Parser
         /\ service \in Nat /\ faults \in Nat /\ faults <= MaxFaults /\ MaxFaults \in Nat
         /\ silence \in Nat /\ silence <= MaxSilence
         /\ Since(now, lastSent) \in Nat /\ Since(now, lastHeartbeat) \in Nat
<1>1. /\ now \in Clock /\ lastSent \in Clock /\ lastHeartbeat \in Clock
      /\ line \in Seq(Byte) /\ parser \in Parser
      /\ service \in 0..Waiting /\ faults \in 0..MaxFaults /\ silence \in 0..MaxSilence
  BY DEF LinkInv, Types
<1>2. Since(now, lastSent) \in Nat /\ Since(now, lastHeartbeat) \in Nat
  BY <1>1, SinceRange, ClockFacts
<1> QED BY <1>1, <1>2, Bounds, LineOps

\* What goes wrong is not undone.
LEMMA FaultCounts == LinkInv /\ Fault => faults' < MaxFaults /\ faults' # MaxFaults
<1> SUFFICES ASSUME LinkInv, Fault PROVE faults' < MaxFaults /\ faults' # MaxFaults
  OBVIOUS
<1>1. faults \in Nat /\ faults <= MaxFaults /\ MaxFaults \in Nat /\ faults' = faults - 1
  BY LinkFacts DEF Fault
<1> QED BY <1>1

\* The part of a frame that is on the line once the parser has taken n bytes of it.
Remains(n) ==
  Len(line) = 5 - n /\ \A i \in 1..(5 - n) : line[i] = HeartbeatFrame[n + i]

\* A byte of a frame takes the parser on to the next, and the last completes it.
LEMMA ReceiveOfFrame ==
  ASSUME CrcIs16Bits, LinkInv, ReceiveByte, NEW n \in 0..4, ParserHas(n), Remains(n)
  PROVE  \/ n < 4 /\ n + 1 \in 0..4 /\ ParserHas(n + 1)' /\ Remains(n + 1)'
            /\ line' # <<>> /\ ~CompletesHeartbeat(parser, Head(line))
         \/ n = 4 /\ line' = <<>> /\ parser'.state = "start"
            /\ CompletesHeartbeat(parser, Head(line))
<1>1. /\ line \in Seq(Byte) /\ line # <<>> /\ line' = Tail(line) /\ line' \in Seq(Byte)
      /\ Len(line') = 5 - (n + 1) /\ Head(line) = HeartbeatFrame[n + 1]
      /\ \A i \in 1..(5 - (n + 1)) : line'[i] = HeartbeatFrame[(n + 1) + i]
  <2>1. line \in Seq(Byte) /\ line # <<>> /\ line' = Tail(line) /\ parser \in Parser
    BY LinkFacts DEF ReceiveByte
  <2>2. /\ line' \in Seq(Byte) /\ Len(line') = Len(line) - 1 /\ Head(line) = line[1]
        /\ \A i \in 1..(Len(line) - 1) : line'[i] = line[i + 1]
    BY <2>1, LineOps
  <2>3. Len(line) = 5 - n /\ \A i \in 1..(5 - n) : line[i] = HeartbeatFrame[n + i]
    BY DEF Remains
  <2>4. line[1] = HeartbeatFrame[n + 1] /\ Len(line') = 5 - (n + 1)
    BY <2>2, <2>3
  <2>5. ASSUME NEW i \in 1..(5 - (n + 1)) PROVE line'[i] = HeartbeatFrame[(n + 1) + i]
    <3>1. i + 1 \in 1..(5 - n) /\ i \in 1..(Len(line) - 1) /\ n + (i + 1) = (n + 1) + i
      BY <2>3
    <3>2. line'[i] = line[i + 1] /\ line[i + 1] = HeartbeatFrame[n + (i + 1)]
      BY <2>2, <2>3, <3>1, Zenon
    <3> QED BY <3>1, <3>2
  <2> QED BY <2>1, <2>2, <2>4, <2>5
<1> DEFINE b == Head(line)
<1>2. parser' = Parsed(parser, b) /\ parser \in Parser
  BY LinkFacts DEF ReceiveByte
<1>3. Remains(n + 1)'
  BY <1>1 DEF Remains
<1>9. n < 4 => line' # <<>>
  <2> SUFFICES ASSUME n < 4, line' = <<>> PROVE FALSE
    OBVIOUS
  <2>1. Len(line') = 0 /\ 5 - (n + 1) > 0
    OBVIOUS
  <2> QED BY <1>1, <2>1
<1>4. CASE n = 0
  <2>1. parser.state = "start" /\ b = StartByte
    BY <1>1, <1>4, FrameIs DEF ParserHas
  <2>2. parser' = [InitialParser EXCEPT !.state = "type"]
    BY <1>2, <2>1 DEF Parsed, ParsedWithoutReset
  <2>3. parser'.state = "type" /\ parser'.crc = CrcInitial
    BY <2>2 DEF InitialParser
  <2>4. ParserHas(1)'
    BY <2>3 DEF ParserHas
  <2>5. line' # <<>>
    BY <1>9, <1>4
  <2> QED BY <1>3, <1>4, <2>1, <2>4, <2>5 DEF CompletesHeartbeat
<1>5. CASE n = 1
  <2>1. parser.state = "type" /\ parser.crc = CrcInitial /\ b = HeartbeatType
    BY <1>1, <1>5, FrameIs DEF ParserHas
  <2>2. parser' = [parser EXCEPT !.state = "length", !.type = b, !.crc = CrcUpdate(@, b)]
    BY <1>2, <2>1 DEF Parsed, ParsedWithoutReset
  <2>3. parser'.state = "length" /\ parser'.type = HeartbeatType
        /\ parser'.crc = CrcUpdate(CrcInitial, HeartbeatType)
    BY <1>2, <2>1, <2>2 DEF Parser
  <2>4. ParserHas(2)'
    BY <2>3 DEF ParserHas
  <2>5. line' # <<>>
    BY <1>9, <1>5
  <2> QED BY <1>3, <1>5, <2>1, <2>4, <2>5 DEF CompletesHeartbeat
<1>6. CASE n = 2
  <2>1. /\ parser.state = "length" /\ parser.type = HeartbeatType /\ b = 0
        /\ parser.crc = CrcUpdate(CrcInitial, HeartbeatType)
    BY <1>1, <1>6, FrameIs DEF ParserHas
  <2>2. parser' = [parser EXCEPT !.state = "crc_high", !.length = b, !.index = 0,
                                 !.crc = CrcUpdate(@, b)]
    BY <1>2, <2>1 DEF Parsed, ParsedWithoutReset
  <2>3. parser'.state = "crc_high" /\ parser'.type = HeartbeatType
        /\ parser'.crc = HeartbeatCrc
    BY <1>2, <2>1, <2>2 DEF Parser, HeartbeatCrc
  <2>4. ParserHas(3)'
    BY <2>3 DEF ParserHas, HeartbeatCrc
  <2>5. line' # <<>>
    BY <1>9, <1>6
  <2> QED BY <1>3, <1>6, <2>1, <2>4, <2>5 DEF CompletesHeartbeat
<1>7. CASE n = 3
  <2>1. /\ parser.state = "crc_high" /\ parser.type = HeartbeatType /\ b = HeartbeatFrame[4]
        /\ parser.crc = HeartbeatCrc
    BY <1>1, <1>7 DEF ParserHas
  <2>2. parser' = [parser EXCEPT !.state = "crc_low", !.received = 256 * b]
    BY <1>2, <2>1 DEF Parsed, ParsedWithoutReset
  <2>3. parser'.state = "crc_low" /\ parser'.type = HeartbeatType
        /\ parser'.crc = HeartbeatCrc /\ parser'.received = 256 * HeartbeatFrame[4]
    BY <1>2, <2>1, <2>2 DEF Parser
  <2>4. ParserHas(4)'
    BY <2>3 DEF ParserHas, HeartbeatCrc, HeartbeatFrame
  <2>5. line' # <<>>
    BY <1>9, <1>7
  <2> QED BY <1>3, <1>7, <2>1, <2>4, <2>5 DEF CompletesHeartbeat
<1>8. CASE n = 4
  <2>1. /\ parser.state = "crc_low" /\ parser.type = HeartbeatType /\ b = HeartbeatFrame[5]
        /\ parser.crc = HeartbeatCrc /\ parser.received = 256 * HeartbeatFrame[4]
    BY <1>1, <1>8 DEF ParserHas
  <2>2. parser'.state = "start"
    BY <1>2, <2>1 DEF Parsed, InitialParser
  <2>3. line' = <<>>
    BY <1>1, <1>8
  <2> QED BY <1>8, <2>1, <2>2, <2>3, FrameIs DEF CompletesHeartbeat
<1> QED BY <1>4, <1>5, <1>6, <1>7, <1>8

\* CleanInv by what is left of a frame.
LEMMA CleanIs ==
  CleanInv <=>
    (faults = MaxFaults =>
       /\ up
       /\ \/ line = <<>> /\ parser.state = "start"
          \/ lastSent = now /\ silence = 0 /\ \E n \in 0..4 : ParserHas(n) /\ Remains(n))
BY DEF CleanInv, Remains

\* An idle line and a waiting parser, before anything went wrong.
LEMMA CleanLine ==
  ASSUME LinkInv, CleanInv, faults = MaxFaults, line = <<>>
  PROVE  up /\ parser.state = "start"
<1>1. ASSUME NEW n \in 0..4, Remains(n) PROVE FALSE
  <2>1. Len(line) = 5 - n /\ Len(line) = 0
    BY <1>1 DEF Remains
  <2> QED BY <2>1
<1> QED BY <1>1, CleanIs

\* Nothing going wrong, the parser follows the frames.
LEMMA NextClean ==
  ASSUME CrcIs16Bits, LinkInv, CleanInv, [Next]_vars
  PROVE  CleanInv'
<1> SUFFICES ASSUME faults' = MaxFaults
             PROVE  /\ up'
                    /\ \/ line' = <<>> /\ parser'.state = "start"
                       \/ /\ lastSent' = now' /\ silence' = 0
                          /\ \E n \in 0..4 : ParserHas(n)' /\ Remains(n)'
  BY DEF CleanInv, Remains
<1>0. ~Fault
  BY FaultCounts
<1>1. CASE SendHeartbeat
  <2>1. up /\ line = <<>> /\ parser.state = "start" /\ faults = MaxFaults
    BY <1>1, SendKeepsLink, CleanIs DEF SendHeartbeat
  <2>2. up' /\ lastSent' = now' /\ silence' = 0 /\ parser' = parser
        /\ line' = line \o HeartbeatFrame
    BY <1>1, <2>1 DEF SendHeartbeat, display
  <2>3. line' = HeartbeatFrame
    <3> DEFINE frame == HeartbeatFrame
    <3>1. frame \in Seq(Byte) /\ line' = <<>> \o frame
      BY <2>1, <2>2, FrameIs
    <3> HIDE DEF frame
    <3> QED BY <3>1 DEF frame
  <2>4. Remains(0)'
    <3>1. 5 - 0 = 5 /\ \A i \in 1..5 : 0 + i = i
      OBVIOUS
    <3>2. Len(line') = 5
      BY <2>3, FrameIs
    <3> QED BY <2>3, <3>1, <3>2 DEF Remains, HeartbeatFrame
  <2>5. ParserHas(0)'
    BY <2>1, <2>2 DEF ParserHas
  <2> QED BY <2>2, <2>4, <2>5
<1>2. CASE BeginService \/ EndService
  <2>1. UNCHANGED <<faults, up, line, parser, lastSent, now, silence>>
    BY <1>2 DEF BeginService, EndService, mainboard
  <2> QED BY <2>1, CleanIs DEF ParserHas, Remains, HeartbeatFrame, HeartbeatCrc
<1>3. CASE ReceiveByte
  <2>1. line # <<>> /\ faults = MaxFaults /\ up' = up /\ lastSent' = lastSent /\ now' = now
        /\ silence' = silence
    BY <1>3 DEF ReceiveByte, mainboard
  <2>2. PICK n \in 0..4 : ParserHas(n) /\ Remains(n)
    BY <2>1, CleanIs
  <2>3. lastSent = now /\ silence = 0 /\ up
    BY <2>1, CleanIs
  <2>4. CASE n < 4 /\ n + 1 \in 0..4 /\ ParserHas(n + 1)' /\ Remains(n + 1)'
    BY <2>1, <2>3, <2>4
  <2>5. CASE line' = <<>> /\ parser'.state = "start"
    BY <2>1, <2>3, <2>5
  <2> QED BY <1>3, <2>2, <2>4, <2>5, ReceiveOfFrame
<1>4. CASE Tick
  <2>1. line = <<>> /\ UNCHANGED <<faults, up, line, parser>>
    BY <1>4 DEF Tick
  <2> QED BY <2>1, CleanLine
<1>5. CASE LineFault \/ StopMainboard \/ StartDisplay
  BY <1>0, <1>5 DEF LineFault, LoseByte, GarbleByte, InsertByte, StopMainboard, StartDisplay
<1>6. CASE StartMainboard
  BY <1>6, CleanIs DEF StartMainboard
<1>7. CASE UNCHANGED vars
  <2>1. UNCHANGED <<faults, up, line, parser, lastSent, now, silence>>
    BY <1>7 DEF vars, mainboard, display
  <2> QED BY <2>1, CleanIs DEF ParserHas, Remains, HeartbeatFrame, HeartbeatCrc
<1> QED BY <1>1, <1>2, <1>3, <1>4, <1>5, <1>6, <1>7 DEF Next, Service, Restart

\* Nothing going wrong, each heartbeat is read in the tick it is sent in, and the
\* display never waits longer for one than the mainboard is late.
LEMMA NextTimely ==
  ASSUME CrcIs16Bits, TimeoutSpansHeartbeats, LinkInv, CleanInv, TimelyInv, [Next]_vars
  PROVE  TimelyInv'
<1> SUFFICES ASSUME faults' = MaxFaults
             PROVE  /\ link' # "lost"
                    /\ Since(now, lastSent)' <= Interval + MaxLate
                    /\ Since(now, lastHeartbeat)' <= Interval + MaxLate
                    /\ line' = <<>> => lastHeartbeat' = lastSent'
  BY DEF TimelyInv, Since
<1>0. ~Fault
  BY FaultCounts
<1> DEFINE Timely == /\ link # "lost"
                     /\ Since(now, lastSent) <= Interval + MaxLate
                     /\ Since(now, lastHeartbeat) <= Interval + MaxLate
                     /\ line = <<>> => lastHeartbeat = lastSent
<1>t. faults = MaxFaults => Timely
  BY DEF TimelyInv
<1>n. Interval + MaxLate \in Nat /\ Interval \in Nat /\ MaxLate \in Nat /\ Timeout \in Nat
      /\ Interval + MaxLate < Timeout
  BY LinkAssumption DEF TimeoutSpansHeartbeats
<1>z. Since(now, now) = 0
  BY LinkFacts, SinceRange
<1>1. CASE SendHeartbeat
  <2>1. /\ faults = MaxFaults /\ lastSent' = now /\ line' = line \o HeartbeatFrame
        /\ UNCHANGED <<now, link, lastHeartbeat>>
    BY <1>1 DEF SendHeartbeat, display
  <2>2. line' # <<>>
    <3> DEFINE frame == HeartbeatFrame
    <3>1. frame \in Seq(Byte) /\ Len(frame) = 5 /\ line \in Seq(Byte) /\ line' = line \o frame
      BY <2>1, FrameIs, LinkFacts
    <3> HIDE DEF frame
    <3>2. Len(line \o frame) = Len(line) + 5 /\ Len(line) \in Nat
      <4>1. Len(line \o frame) = Len(line) + Len(frame)
        BY <3>1, ConcatProperties, Zenon
      <4> QED BY <3>1, <4>1, LineOps
    <3>3. Len(<<>>) = 0
      OBVIOUS
    <3> QED BY <3>1, <3>2, <3>3
  <2>3. Since(now, lastSent)' = 0
    BY <1>z, <2>1 DEF Since
  <2> QED BY <1>n, <1>t, <2>1, <2>2, <2>3 DEF Since
<1>2. CASE BeginService
  BY <1>2, <1>t DEF BeginService, mainboard, Since
<1>3. CASE EndService
  <2>1. UNCHANGED <<faults, now, lastSent, line, lastHeartbeat>>
    BY <1>3 DEF EndService, mainboard
  <2>2. ~(Since(now, lastHeartbeat) >= Timeout)
    BY <1>n, <1>t, <2>1, LinkFacts
  <2>3. link' = link
    BY <1>3, <2>2 DEF EndService
  <2> QED BY <1>t, <2>1, <2>3 DEF Since
<1>4. CASE ReceiveByte
  <2>1. /\ line # <<>> /\ faults = MaxFaults /\ UNCHANGED <<now, lastSent>>
        /\ IF CompletesHeartbeat(parser, Head(line))
           THEN lastHeartbeat' = now /\ link' = "ok"
           ELSE UNCHANGED <<lastHeartbeat, link>>
    BY <1>4 DEF ReceiveByte, mainboard
  <2>2. PICK n \in 0..4 : ParserHas(n) /\ Remains(n)
    BY <2>1, CleanIs
  <2>3. lastSent = now
    BY <2>1, CleanIs
  <2>4. CASE line' # <<>> /\ ~CompletesHeartbeat(parser, Head(line))
    BY <1>t, <2>1, <2>4 DEF Since
  <2>5. CASE line' = <<>> /\ CompletesHeartbeat(parser, Head(line))
    BY <1>t, <1>n, <1>z, <2>1, <2>3, <2>5 DEF Since
  <2> QED BY <1>4, <2>2, <2>4, <2>5, ReceiveOfFrame
<1>5. CASE Tick
  <2>1. /\ line = <<>> /\ now' = (now + 1) % ClockRange
        /\ UNCHANGED <<faults, up, lastSent, line, link, lastHeartbeat>>
        /\ up => Since(now, lastSent) < Interval + MaxLate
    BY <1>5 DEF Tick
  <2>2. up /\ lastHeartbeat = lastSent
    BY <1>t, <2>1, CleanLine
  <2>3. Since(now', lastSent) = IF Since(now, lastSent) = ClockRange - 1 THEN 0
                                ELSE Since(now, lastSent) + 1
    BY <2>1, LinkFacts, SinceTick
  <2>4. Since(now', lastSent) <= Interval + MaxLate
    BY <1>n, <2>1, <2>2, <2>3, LinkFacts
  <2> QED BY <1>t, <2>1, <2>2, <2>4 DEF Since
<1>6. CASE LineFault \/ StopMainboard \/ StartDisplay
  BY <1>0, <1>6 DEF LineFault, LoseByte, GarbleByte, InsertByte, StopMainboard, StartDisplay
<1>7. CASE StartMainboard
  BY <1>7, CleanIs DEF StartMainboard
<1>8. CASE UNCHANGED vars
  BY <1>8, <1>t DEF vars, mainboard, display, Since
<1> QED BY <1>1, <1>2, <1>3, <1>4, <1>5, <1>6, <1>7, <1>8 DEF Next, Service, Restart

-----------------------------------------------------------------------------
(* With one fault at most.                                                  *)

\* A byte that outlasts the tick it was sent in was put there by the only fault, in
\* front of a parser that waits for a frame.
LEMMA NextLine ==
  ASSUME CrcIs16Bits, MaxFaults <= 1, LinkInv, CleanInv, LineInv, [Next]_vars
  PROVE  LineInv'
<1> SUFFICES ASSUME line' # <<>>
             PROVE  \/ silence' = 0
                    \/ faults' < MaxFaults /\ Len(line') = 1 /\ parser'.state = "start"
  BY DEF LineInv
<1>1. CASE SendHeartbeat
  BY <1>1 DEF SendHeartbeat
<1>2. CASE BeginService \/ EndService \/ StartMainboard
  <2>1. UNCHANGED <<line, silence, faults, parser>>
    BY <1>2 DEF BeginService, EndService, StartMainboard, mainboard, display
  <2> QED BY <2>1 DEF LineInv
<1>3. CASE ReceiveByte
  <2>1. line # <<>> /\ line' = Tail(line) /\ UNCHANGED <<silence, faults>>
    BY <1>3 DEF ReceiveByte, mainboard
  <2>2. Len(line') = Len(line) - 1 /\ Len(line) \in Nat /\ line' \in Seq(Byte)
    BY <2>1, LineOps, LinkFacts
  <2>3. Len(line') # 0
    BY <2>2, EmptySeq, Zenon
  <2> QED BY <2>1, <2>2, <2>3 DEF LineInv
<1>4. CASE Tick
  BY <1>4 DEF Tick
<1>5. ASSUME Fault, UNCHANGED silence
      PROVE  faults = MaxFaults /\ faults' < MaxFaults /\ (line # <<>> => silence' = 0)
  <2>1. faults = MaxFaults
    BY <1>5, LinkFacts DEF Fault
  <2> QED BY <1>5, <2>1, FaultCounts, LinkFacts DEF LineInv
<1>6. CASE LoseByte
  BY <1>5, <1>6 DEF LoseByte, mainboard
<1>7. ASSUME NEW b \in Noise, GarbleByte(b)
      PROVE  silence' = 0
  BY <1>5, <1>7 DEF GarbleByte, mainboard
<1>8. ASSUME NEW b \in Noise, InsertByte(b)
      PROVE  \/ silence' = 0
             \/ faults' < MaxFaults /\ Len(line') = 1 /\ parser'.state = "start"
  <2>1. Fault /\ line' = <<b>> \o line /\ UNCHANGED <<silence, parser>>
    BY <1>8 DEF InsertByte, mainboard, display
  <2>2. CASE line = <<>>
    <3>1. Len(line') = 1
      <4>1. b \in Byte /\ line \in Seq(Byte) /\ Len(line) = 0
        BY <2>2, LinkFacts, LinkAssumption
      <4> QED BY <2>1, <4>1, LineOps
    <3>2. faults = MaxFaults /\ faults' < MaxFaults
      BY <1>5, <2>1
    <3>3. parser.state = "start"
      BY <2>2, <3>2, CleanLine
    <3> QED BY <2>1, <3>1, <3>2, <3>3
  <2>3. CASE line # <<>>
    BY <1>5, <2>1, <2>3
  <2> QED BY <2>2, <2>3
<1>9. CASE StopMainboard
  <2>1. Fault /\ UNCHANGED silence /\ \E n \in 0..Len(line) : line' = SubSeq(line, 1, n)
    BY <1>9 DEF StopMainboard
  <2>2. line # <<>>
    <3> SUFFICES ASSUME line = <<>> PROVE FALSE
      OBVIOUS
    <3>1. PICK n \in 0..Len(line) : line' = SubSeq(line, 1, n)
      BY <2>1
    <3>2. n = 0 /\ line' \in Seq(Byte) /\ Len(line') = n
      BY <3>1, LineOps, LinkFacts
    <3> QED BY <3>2
  <2> QED BY <1>5, <2>1, <2>2
<1>10. CASE StartDisplay
  BY <1>10 DEF StartDisplay
<1>11. CASE UNCHANGED vars
  BY <1>11 DEF vars, mainboard, display, LineInv
<1> QED
  BY <1>1, <1>2, <1>3, <1>4, <1>6, <1>7, <1>8, <1>9, <1>10, <1>11
  DEF Next, Service, LineFault, Restart

\* A heartbeat is completed by a byte of this tick.
LEMMA CompletedAtOnce ==
  ASSUME LinkInv, LineInv, line # <<>>, CompletesHeartbeat(parser, Head(line))
  PROVE  silence = 0
BY DEF LineInv, CompletesHeartbeat

\* While the link is shown as up, its age bounds the mainboard's silence.
LEMMA NextAlive ==
  ASSUME LinkInv, LineInv, AliveInv, [Next]_vars
  PROVE  AliveInv'
<1> DEFINE age == Since(now, lastHeartbeat)
<1> SUFFICES ASSUME link' = "ok"
             PROVE  /\ silence' <= age' /\ age' <= Timeout
                    /\ served' /\ service' = Waiting => age' < Timeout
  BY DEF AliveInv, Since
<1>0. link = "ok" => /\ silence <= age /\ age <= Timeout
                     /\ served /\ service = Waiting => age < Timeout
  BY DEF AliveInv
<1>n. /\ silence \in Nat /\ age \in Nat /\ Timeout \in Nat /\ Timeout < ClockRange
      /\ ClockRange \in Nat /\ service \in Nat
  BY LinkFacts, LinkAssumption
<1>1. CASE SendHeartbeat
  <2>1. silence' = 0 /\ UNCHANGED <<now, link, lastHeartbeat, served, service>>
    BY <1>1 DEF SendHeartbeat, display
  <2> QED BY <1>0, <1>n, <2>1 DEF Since
<1>2. CASE BeginService
  <2>1. service' = 0 /\ UNCHANGED <<now, silence, link, lastHeartbeat, served>>
    BY <1>2 DEF BeginService, mainboard
  <2> QED BY <1>0, <2>1, Bounds DEF Since, Waiting
<1>3. CASE EndService
  <2>1. UNCHANGED <<now, silence, lastHeartbeat>>
    BY <1>3 DEF EndService, mainboard
  <2>2. link = "ok" /\ ~(age >= Timeout)
    BY <1>3 DEF EndService
  <2> QED BY <1>0, <1>n, <2>1, <2>2 DEF Since
<1>4. CASE ReceiveByte
  <2>1. /\ line # <<>> /\ service < ServiceBytes /\ service' = service + 1
        /\ UNCHANGED <<now, silence, served>>
        /\ IF CompletesHeartbeat(parser, Head(line))
           THEN lastHeartbeat' = now ELSE UNCHANGED <<lastHeartbeat, link>>
    BY <1>4 DEF ReceiveByte, mainboard
  <2>2. service' # Waiting
    BY <1>n, <2>1, Bounds DEF Waiting
  <2>3. CASE CompletesHeartbeat(parser, Head(line))
    <3>1. silence' = 0 /\ age' = 0
      BY <2>1, <2>3, CompletedAtOnce, LinkFacts, SinceRange DEF Since
    <3> QED BY <1>n, <2>2, <3>1
  <2>4. CASE ~CompletesHeartbeat(parser, Head(line))
    BY <1>0, <2>1, <2>2, <2>4 DEF Since
  <2> QED BY <2>3, <2>4
<1>5. CASE Tick
  <2>1. /\ service = Waiting /\ served /\ served' = FALSE
        /\ now' = (now + 1) % ClockRange /\ UNCHANGED <<link, lastHeartbeat>>
        /\ silence' = IF silence < MaxSilence THEN silence + 1 ELSE silence
    BY <1>5 DEF Tick
  <2>2. silence <= age /\ age < Timeout
    BY <1>0, <2>1
  <2>3. age' = IF age = ClockRange - 1 THEN 0 ELSE age + 1
    BY <2>1, LinkFacts, SinceTick DEF Since
  <2>4. age' = age + 1 /\ silence' <= silence + 1
    BY <1>n, <2>1, <2>2, <2>3
  <2> QED BY <1>n, <2>1, <2>2, <2>4, Bounds
<1>6. CASE LoseByte \/ (\E b \in Noise : GarbleByte(b) \/ InsertByte(b)) \/ StopMainboard
           \/ StartMainboard
  <2>1. UNCHANGED <<now, silence, link, lastHeartbeat, served, service>>
    BY <1>6 DEF LoseByte, GarbleByte, InsertByte, StopMainboard, StartMainboard, mainboard,
                display
  <2> QED BY <1>0, <2>1 DEF Since
<1>7. CASE StartDisplay
  BY <1>7 DEF StartDisplay
<1>8. CASE UNCHANGED vars
  <2>1. UNCHANGED <<now, silence, link, lastHeartbeat, served, service>>
    BY <1>8 DEF vars, mainboard, display
  <2> QED BY <1>0, <2>1 DEF Since
<1> QED
  BY <1>1, <1>2, <1>3, <1>4, <1>5, <1>6, <1>7, <1>8 DEF Next, Service, LineFault, Restart

-----------------------------------------------------------------------------
(* The theorems.                                                            *)

\* The first state satisfies every invariant.
LEMMA InitAll == Init => LinkInv /\ CleanInv /\ TimelyInv /\ LineInv /\ AliveInv
<1> SUFFICES ASSUME Init PROVE CleanInv /\ TimelyInv /\ LineInv /\ AliveInv
  BY InitLinkInv
<1>1. now = 0 /\ lastSent = 0 /\ lastHeartbeat = 0 /\ Since(0, 0) = 0
  BY ClockFacts, SinceRange DEF Init
<1>2. Interval + MaxLate >= 0
  BY LinkAssumption
<1> QED
  BY <1>1, <1>2 DEF Init, CleanInv, TimelyInv, LineInv, AliveInv, InitialParser

\* Every variable keeps its type: whatever bytes arrive, the parser takes no more
\* payload than the length byte announced, and the line holds at most a frame beside
\* what faults put there (rs232_display_protocol_receive_byte).
THEOREM LinkTypeCorrect ==
  ASSUME CrcIs16Bits
  PROVE  Spec => []TypeOK
<1>1. LinkInv /\ [Next]_vars => LinkInv'
  BY NextLinkInv
<1>2. LinkInv => TypeOK
  BY LinkInvTypes
<1>3. Init => LinkInv
  BY InitAll
<1> QED BY <1>1, <1>2, <1>3, PTL DEF Spec

\* While nothing goes wrong the link is never shown as lost, for every interval,
\* lateness and clock, as long as the display waits longer than the mainboard is late:
\* each heartbeat is read within the service, or the services, of the tick it is sent
\* in (service_mainboard_serial_link).
THEOREM OnlyFaultsLoseTheLink ==
  ASSUME CrcIs16Bits, TimeoutSpansHeartbeats
  PROVE  Spec => []LostMeansFault
<1> DEFINE Inv == LinkInv /\ CleanInv /\ TimelyInv
<1>1. Inv /\ [Next]_vars => Inv'
  BY NextLinkInv, NextClean, NextTimely
<1>2. Inv => LostMeansFault
  BY LinkFacts DEF TimelyInv, LostMeansFault
<1>3. Init => Inv
  BY InitAll
<1> HIDE DEF Inv
<1> QED BY <1>1, <1>2, <1>3, PTL DEF Spec

\* After any one fault - a byte lost, garbled or inserted anywhere, or a restart of
\* either board - a link that is shown as up has a mainboard that sent within the
\* timeout, whatever the checksum makes of the bytes
\* (rs232_display_protocol_receive_byte, service_mainboard_serial_link).
THEOREM UpMeansAlive ==
  ASSUME CrcIs16Bits, MaxFaults <= 1
  PROVE  Spec => []OkMeansAlive
<1> DEFINE Inv == LinkInv /\ CleanInv /\ LineInv /\ AliveInv
<1>1. Inv /\ [Next]_vars => Inv'
  BY NextLinkInv, NextClean, NextLine, NextAlive
<1>2. Inv => OkMeansAlive
  BY LinkFacts, LinkAssumption DEF AliveInv, OkMeansAlive
<1>3. Init => Inv
  BY InitAll
<1> HIDE DEF Inv
<1> QED BY <1>1, <1>2, <1>3, PTL DEF Spec
===============================================================================
