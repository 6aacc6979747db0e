----------------------------- MODULE DisplayLink -----------------------------
(***************************************************************************)
(* The link that tells the display whether the mainboard is alive.  The    *)
(* mainboard's background task (mainboard_hal.c) sends a heartbeat frame   *)
(* at an interval; the display's (display_hal.c) parses what arrives       *)
(* (rs232_display_protocol.c) and shows the link as lost when no valid     *)
(* heartbeat came for a time.  The serial line with its two rings is one   *)
(* queue of bytes, as DisplaySerial and UsartDriver show them to be; it    *)
(* may lose, garble or insert bytes, and either board may restart.         *)
(***************************************************************************)
EXTENDS Integers, Sequences

CONSTANTS
  CrcUpdate(_, _),  \* rs232_display_protocol_crc16_update
  Noise,            \* the bytes that interference can put on the line
  Interval,         \* DISPLAY_SERIAL_HEARTBEAT_INTERVAL_MS, in ticks
  Timeout,          \* MAINBOARD_SERIAL_LINK_TIMEOUT_MS, in ticks
  ServiceBytes,     \* MAINBOARD_SERIAL_RECEIVE_BYTES_PER_SERVICE
  ClockRange,       \* the millisecond counters wrap here
  MaxLate,          \* bound: ticks the mainboard is late with a heartbeat
  MaxFaults         \* bound: faults of the line and restarts of the boards

Clock == 0..(ClockRange - 1)
Byte  == 0..255
Word  == 0..65535

ASSUME LinkAssumption ==
  /\ Interval \in Nat \ {0} /\ MaxLate \in Nat /\ MaxFaults \in Nat
  /\ Timeout \in Nat /\ Timeout < ClockRange /\ ClockRange \in Nat
  /\ ServiceBytes \in Nat \ {0} /\ Noise \subseteq Byte

StartByte     == 165
HeartbeatType == 1
CrcInitial    == 65535

VARIABLES
  now,            \* both boards count milliseconds; here the counter ticks coarsely
  up,             \* the mainboard runs
  lastSent,       \* last_display_serial_heartbeat_ms
  line,           \* bytes sent and not yet read
  parser,         \* mainboard_serial_parser
  link,           \* mainboard_link_state
  lastHeartbeat,  \* last_mainboard_heartbeat_ms
  service,        \* bytes read by the service in progress, or Waiting
  served,         \* a service has ended since the last tick
  faults,         \* faults left
  silence         \* history: ticks since the mainboard last sent, up to a limit

mainboard == <<up, lastSent, silence>>
display   == <<parser, link, lastHeartbeat, service, served>>
vars == <<now, mainboard, line, display, faults>>

Waiting == ServiceBytes + 1
MaxSilence == Timeout + Interval + MaxLate + 1

Since(t1, t2) == (t1 - t2) % ClockRange

-----------------------------------------------------------------------------
(* The protocol.                                                           *)

\* rs232_display_protocol_build_heartbeat_frame
HeartbeatFrameSwapped ==
  LET crc == CrcUpdate(CrcUpdate(CrcInitial, HeartbeatType), 0)
  IN  <<StartByte, HeartbeatType, 0, crc % 256, crc \div 256>>
HeartbeatFrame ==
  LET crc == CrcUpdate(CrcUpdate(CrcInitial, HeartbeatType), 0)
  IN  <<StartByte, HeartbeatType, 0, crc \div 256, crc % 256>>

\* rs232_display_protocol_initialize_parser
InitialParser ==
  [state |-> "start", type |-> 0, length |-> 0, index |-> 0, crc |-> CrcInitial, received |-> 0]

PayloadEndsLate(p) == p.index + 1 > p.length
PayloadEnds(p) == p.index + 1 >= p.length

\* rs232_display_protocol_receive_byte: the parser after a byte.
ParsedWithoutReset(p, b) ==
  CASE p.state = "start" ->
         IF b = StartByte THEN [InitialParser EXCEPT !.state = "type"] ELSE p
    [] p.state = "type" ->
         [p EXCEPT !.state = "length", !.type = b, !.crc = CrcUpdate(@, b)]
    [] p.state = "length" ->
         [p EXCEPT !.state = IF b = 0 THEN "crc_high" ELSE "payload",
                   !.length = b, !.index = 0, !.crc = CrcUpdate(@, b)]
    [] p.state = "payload" ->
         [p EXCEPT !.state = IF PayloadEnds(p) THEN "crc_high" ELSE "payload",
                   !.index = @ + 1, !.crc = CrcUpdate(@, b)]
    [] p.state = "crc_high" -> [p EXCEPT !.state = "crc_low", !.received = 256 * b]
    [] p.state = "crc_low" -> p
Parsed(p, b) == IF p.state = "crc_low" THEN InitialParser ELSE ParsedWithoutReset(p, b)

\* The byte completes a heartbeat.  A bad checksum or another type completes
\* nothing that the display acts on.
CompletesHeartbeat(p, b) ==
  /\ p.state = "crc_low"
  /\ p.received + b = p.crc
  /\ p.type = HeartbeatType

-----------------------------------------------------------------------------
(* The mainboard: mainboard_run_background_tasks.                          *)

SendHeartbeat ==
  /\ up /\ Since(now, lastSent) >= Interval
  /\ line' = line \o HeartbeatFrame
  /\ lastSent' = now /\ silence' = 0
  /\ UNCHANGED <<now, up, display, faults>>

-----------------------------------------------------------------------------
(* The display: service_mainboard_serial_link.                             *)

\* A service that would find no byte, in a tick that already saw one end, does
\* nothing and is left out.
BeginService ==
  /\ service = Waiting /\ (~served \/ line # <<>>)
  /\ service' = 0
  /\ UNCHANGED <<now, mainboard, line, parser, link, lastHeartbeat, served, faults>>

ReceiveByte ==
  /\ service < ServiceBytes /\ line # <<>>
  /\ service' = service + 1
  /\ parser' = Parsed(parser, Head(line))
  /\ line' = Tail(line)
  /\ IF CompletesHeartbeat(parser, Head(line))
       THEN lastHeartbeat' = now /\ link' = "ok"
       ELSE UNCHANGED <<lastHeartbeat, link>>
  /\ UNCHANGED <<now, mainboard, served, faults>>

EndServiceIfRead ==
  /\ service # Waiting /\ (service = ServiceBytes \/ line = <<>>)
  /\ service' = Waiting /\ served' = TRUE
  /\ link' = IF service > 0 /\ Since(now, lastHeartbeat) >= Timeout THEN "lost" ELSE link
  /\ UNCHANGED <<now, mainboard, line, parser, lastHeartbeat, faults>>
EndServiceLate ==
  /\ service # Waiting /\ (service = ServiceBytes \/ line = <<>>)
  /\ service' = Waiting /\ served' = TRUE
  /\ link' = IF Since(now, lastHeartbeat) > Timeout THEN "lost" ELSE link
  /\ UNCHANGED <<now, mainboard, line, parser, lastHeartbeat, faults>>
EndService ==
  /\ service # Waiting /\ (service = ServiceBytes \/ line = <<>>)
  /\ service' = Waiting /\ served' = TRUE
  /\ link' = IF Since(now, lastHeartbeat) >= Timeout THEN "lost" ELSE link
  /\ UNCHANGED <<now, mainboard, line, parser, lastHeartbeat, faults>>

-----------------------------------------------------------------------------
(* Time.  A tick is long beside a frame and a pass of the main loops: what  *)
(* was sent has been read and a service has ended before the next.  A       *)
(* running mainboard is at most MaxLate ticks late.                         *)
Tick ==
  /\ line = <<>> /\ service = Waiting /\ served
  /\ up => Since(now, lastSent) < Interval + MaxLate
  /\ now' = (now + 1) % ClockRange
  /\ served' = FALSE
  /\ silence' = IF silence < MaxSilence THEN silence + 1 ELSE silence
  /\ UNCHANGED <<up, lastSent, line, parser, link, lastHeartbeat, service, faults>>

-----------------------------------------------------------------------------
(* Faults.                                                                 *)

Fault == faults > 0 /\ faults' = faults - 1

LoseByte ==
  /\ Fault /\ line # <<>>
  /\ line' = Tail(line)
  /\ UNCHANGED <<now, mainboard, display>>

GarbleByte(b) ==
  /\ Fault /\ line # <<>>
  /\ line' = <<b>> \o Tail(line)
  /\ UNCHANGED <<now, mainboard, display>>

InsertByte(b) ==
  /\ Fault
  /\ line' = <<b>> \o line
  /\ UNCHANGED <<now, mainboard, display>>

\* The mainboard stops, perhaps with part of a frame still in its ring.
StopMainboard ==
  /\ Fault /\ up
  /\ up' = FALSE
  /\ \E n \in 0..Len(line) : line' = SubSeq(line, 1, n)
  /\ UNCHANGED <<now, lastSent, silence, display>>

\* mainboard_initialize_hardware takes the current time as the last heartbeat.
StartMainboard ==
  /\ ~up
  /\ up' = TRUE /\ lastSent' = now
  /\ UNCHANGED <<now, silence, line, display, faults>>

\* display_initialize_hardware, which empties the receive ring.
StartDisplay ==
  /\ Fault
  /\ line' = <<>> /\ parser' = InitialParser
  /\ link' = "waiting" /\ lastHeartbeat' = now
  /\ service' = Waiting
  /\ UNCHANGED <<now, mainboard, served>>

-----------------------------------------------------------------------------
Init ==
  /\ now = 0 /\ lastSent = 0 /\ lastHeartbeat = 0
  /\ up = TRUE /\ silence = MaxSilence
  /\ line = <<>> /\ parser = InitialParser /\ link = "waiting"
  /\ service = Waiting /\ served = FALSE
  /\ faults = MaxFaults

Service == BeginService \/ ReceiveByte \/ EndService
LineFault == LoseByte \/ \E b \in Noise : GarbleByte(b) \/ InsertByte(b)
Restart == StopMainboard \/ StartMainboard \/ StartDisplay

Next == SendHeartbeat \/ Service \/ Tick \/ LineFault \/ Restart

\* The main loops and the clock go on; faults and restarts need not happen.  No
\* loop goes round without a tick, so fairness of the three together is enough.
Spec == Init /\ [][Next]_vars /\ WF_vars(SendHeartbeat \/ Service \/ Tick)

-----------------------------------------------------------------------------
(* Properties.                                                             *)

\* Every variable keeps its type: the parser takes exactly the payload that the
\* length byte announced (rs232_display_protocol_receive_byte).
TypeOK ==
  /\ now \in Clock /\ lastSent \in Clock /\ lastHeartbeat \in Clock
  /\ up \in BOOLEAN /\ served \in BOOLEAN
  /\ line \in Seq(Byte) /\ Len(line) <= Len(HeartbeatFrame) + MaxFaults
  /\ parser \in [state : {"start", "type", "length", "payload", "crc_high", "crc_low"},
                 type : Byte, length : Byte, index : Byte, crc : Word, received : Word]
  /\ parser.state = "payload" => parser.index < parser.length
  /\ link \in {"waiting", "ok", "lost"}
  /\ service \in 0..Waiting
  /\ faults \in 0..MaxFaults
  /\ silence \in 0..MaxSilence

\* The display says that the link is up only while the mainboard is sending: a
\* whole heartbeat was put on the line within the timeout and a tick, whatever
\* was lost, garbled or left in the parser by a restart.  This is of one fault: a
\* second can complete, long after, the heartbeat that the first cut short.
OkMeansAlive == link = "ok" => silence <= Timeout

\* While nothing goes wrong a link once up is not shown as lost, for all the
\* lateness of the mainboard and across the wrap of the counters.
LostMeansFault == link = "lost" => faults < MaxFaults

\* A mainboard that stays silent is noticed.
SilenceIsNoticed == ~up ~> up \/ link = "lost"

\* Faults that end do no lasting harm: with both boards running, the parser finds
\* the frames again and the link stays up.
Recovers == <>[]up => <>[](link = "ok")
=============================================================================
