---------------------------- MODULE MCDisplayLink ----------------------------
(* DisplayLink with the checksum of the code and 500 ms to a tick.          *)
EXTENDS DisplayLink, Crc16

\* CRC-16/CCITT-FALSE by its check value, and against long division.
ASSUME CheckValue == Crc16([i \in 1..9 |-> 48 + i]) = 10673 \* 0x29B1
ASSUME CrcIsRemainder ==
  \A a \in {0, 1, 46, 128, 165, 255} : \A b \in 0..255 :
    Crc16(<<a, b>>) = Remainder(<<a, b>>)

\* The checksum is a function on 16 bits: every turn of its loop is, and so is its
\* first step, which changes the register's high byte.
ASSUME TurnIs16Bits == \A c \in Word : ShiftedBit(c) \in Word
ASSUME FirstIs16Bits ==
  \A high, b \in {0, 1, 127, 128, 255} : ((256 * high + 255) ^^ (b * 2^8)) \in Word

\* No change of one byte of a heartbeat is accepted as a heartbeat, and the start
\* byte occurs in a heartbeat once.
ASSUME OneByteChangesDetected ==
  \A i \in 2..5 : \A b \in 0..255 :
    LET f == [HeartbeatFrame EXCEPT ![i] = b]
    IN  /\ b # HeartbeatFrame[i] => Crc16(<<f[2], f[3]>>) # 256 * f[4] + f[5]
        /\ HeartbeatFrame[i] # StartByte
=============================================================================
