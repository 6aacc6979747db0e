----------------------------- MODULE MCMainboard -----------------------------
(* UsartDriver, and what the mainboard's sequential drivers compute, as facts   *)
(* on their operators.                                                          *)
EXTENDS UsartDriver, Tmc2209, Delays, Configuration

-----------------------------------------------------------------------------
(* The checksum as the remainder of the message times x^8 by x^8+x^2+x+1.      *)
(* A polynomial over GF(2) is the set of the exponents with coefficient 1.     *)

Plus(p, q) == (p \ q) \cup (q \ p)

\* A byte's lowest bit is sent first and is its highest coefficient.
Polynomial(data) ==
  {e \in 8..(8 * Len(data) + 7) :
     LET i == 8 * Len(data) + 7 - e IN LowestFirst(data[1 + (i \div 8)])[1 + (i % 8)] = 1}

Rest(data) ==
  FoldLeft(LAMBDA p, e : IF e \in p THEN Plus(p, {e, e - 6, e - 7, e - 8}) ELSE p,
           Polynomial(data), [k \in 1..(8 * Len(data)) |-> 8 * Len(data) + 8 - k])

ASSUME Crc8IsRemainder ==
  \A a \in {0, 1, 5, 128, 255} : \A b \in 0..255 :
    Crc8(<<a, b>>) = FoldSet(LAMBDA e, sum : sum + 2^e, 0, Rest(<<a, b>>))

Datum == {<<0, 0, 0, 0>>, <<16, 0, 0, 83>>, <<255, 254, 1, 128>>}
Register == {0, 2, 108}

\* An answer is read as what the device sent, behind the echo of the request.
ASSUME AnswerIsRead ==
  \A reg \in Register : \A data \in Datum :
    LET reply == ReadRequest(1, reg) \o Answer(reg, data)
    IN  ParseResponse(reply, 4, reg) = 0 /\ ResponseData(reply, 4) = data

\* Any one bit that changes in the answer, and any answer to another request, is refused;
\* what the echo looks like does not matter.
Flipped(b, bit) == b ^^ (2^bit)
ASSUME BitErrorIsRefused ==
  \A reg \in Register : \A data \in Datum : \A bit \in 0..7 :
    LET reply == ReadRequest(1, reg) \o Answer(reg, data)
        broken(i) == [reply EXCEPT ![i] = Flipped(@, bit)]
    IN  /\ \A i \in 5..12 : ParseResponse(broken(i), 4, reg) < 0
        /\ \A i \in 1..4 : ParseResponse(broken(i), 4, reg) = 0
ASSUME OtherAnswerIsRefused ==
  \A asked, answered \in Register :
    ParseResponse(ReadRequest(1, asked) \o Answer(answered, <<0, 0, 0, 0>>), 4, asked)
      = IF asked = answered THEN 0 ELSE -4

\* A write datagram is as long as the transmit ring and an answer with the echo of its
\* request fits the receive ring.
ASSUME DatagramsFitRings ==
  /\ Len(WriteRequest(1, 108, <<0, 0, 0, 0>>)) = 8
  /\ Len(ReadRequest(1, 108)) + Len(Answer(108, <<0, 0, 0, 0>>)) <= 16 - 1

-----------------------------------------------------------------------------
(* The set-up: fourteen exchanges, of which 2, 6, 9 and 13 are writes.        *)

Device(ifcnt) == [gstat |-> {0, 1}, gconf |-> {0, 2, 9}, ihold_irun |-> {},
                  chopconf |-> {0, 1, 4, 6, 28}, ifcnt |-> ifcnt]
Succeeded == <<TRUE, TRUE, TRUE, TRUE>>
IsSetUp(s) == /\ s.gconf = {2, 6, 7} /\ s.chopconf = {0, 1, 4, 6, 26, 28}
              /\ s.ihold_irun # {}

\* With nothing lost the device is set up, and that is reported unless ifcnt wraps on
\* the way: a wrap is reported as a failure.
ASSUME SetUpWithoutLoss ==
  \A ifcnt \in 0..255 :
    LET s == device_initialise(Device(ifcnt), {})
    IN  IsSetUp(s) /\ s.exchanges = 14 /\ (s.results = Succeeded <=> ifcnt + 4 <= 255)

\* A write alone that is lost is reported.
ASSUME LostWriteIsReported ==
  \A ifcnt \in 1..251 : \A k \in 1..4 :
    device_initialise(Device(ifcnt), {<<2, 6, 9, 13>>[k]}).results[k] = FALSE

\* Success is reported all the same when the count before the write was not read either,
\* and when a register was not read and is written as if it had been 0: the chopper
\* is switched off (the low four bits of CHOPCONF).
ASSUME LossIsReportedAsSuccess ==
  /\ LET s == device_initialise(Device(1), {12, 13})
     IN  s.results = Succeeded /\ s.chopconf = Device(1).chopconf
  /\ LET s == device_initialise(Device(1), {11})
     IN  s.results = Succeeded /\ s.chopconf = {26}

\* 0xb111 is not 0b111: the reset flag is cleared, the driver error is not.
ASSUME OneFlagIsCleared == device_initialise(Device(1), {}).gstat = {1}

-----------------------------------------------------------------------------
(* Delays.                                                                    *)

\* Milliseconds are counted right across a wrap.
ASSUME MillisecondsAreExact ==
  \A start, ms \in 0..(Word - 1) : delay_milliseconds(start, ms) = ms

\* Microseconds are, if the timer does not wrap: at its wrap the delay ends.
ASSUME MicrosecondsEndAtWrap ==
  \A start, us \in 0..(Narrow - 1) :
    delay_microseconds(start, us) = IF start + us < Narrow THEN us ELSE Narrow - start

\* The polling gives up at once when the time of expiry is behind the wrap, and lasts
\* as long as it should if it is not.
ASSUME PollingEndsAtWrap ==
  \A start \in 0..(Word - 1) : \A wait \in 1..20 :
    ack_polling(start, wait) = IF start + wait < Word THEN wait ELSE 0

-----------------------------------------------------------------------------
(* The version record.                                                        *)

Versions == {<<0, 1, 0, 0>>, <<0, 1, 2, 0>>, <<3, 0, 0, 4>>}
Memories == {Key \o v : v \in Versions} \cup {<<255, 255, 255, 255, 255, 255>>}

\* A reset that was completed is read back.
ASSUME ResetIsReadBack ==
  \A memory \in Memories : \A v \in Versions :
    config_get_version(config_reset(memory, v)) = v

\* One that was not leaves the old record or none while the key is being written ...
ASSUME KeyComesFirst ==
  \A memory \in Memories : \A v \in Versions : \A n \in 0..1 :
    config_get_version(ResetUpTo(n, memory, v)) \in {config_get_version(memory), Invalid}

\* ... and a version that nobody wrote behind it.
ASSUME TornVersion ==
  \E memory \in Memories : \E v \in Versions : \E n \in 3..5 :
    config_get_version(ResetUpTo(n, memory, v)) \notin Versions \cup {Invalid}
=============================================================================
