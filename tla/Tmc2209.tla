------------------------------- MODULE Tmc2209 -------------------------------
(***************************************************************************)
(* The stepper driver's datagrams and its set-up, tmc2209.c: one request   *)
(* after the other over a wire on which the mainboard hears itself, in one *)
(* thread.  Everything is a function of the registers of the device and of *)
(* the datagrams that get lost.                                            *)
(***************************************************************************)
EXTENDS Integers, Sequences, SequencesExt, Bitwise

-----------------------------------------------------------------------------
(* Datagrams.                                                              *)

\* tmc2209_crc8: the bits of a byte go in from the lowest.
CrcBit(crc, bit) ==
  IF crc \div 128 # bit THEN ((2 * crc) % 256) ^^ 7 ELSE (2 * crc) % 256
LowestFirst(byte) == [k \in 1..8 |-> (byte \div 2^(k - 1)) % 2]
Crc8(data) == FoldLeft(LAMBDA crc, byte : FoldLeft(CrcBit, crc, LowestFirst(byte)), 0, data)

Sync == 5
Sealed(body) == Append(body, Crc8(body))
ReadRequest(addr, reg) == Sealed(<<Sync, addr, reg>>)
WriteRequest(addr, reg, data) == Sealed(<<Sync, addr, reg + 128>> \o data)
\* The device's answer to a read request; 255 is the address of the master.
Answer(reg, data) == Sealed(<<Sync, 255, reg>> \o data)

\* tmc2209_parse_response: the checks in their order, on the answer behind the echo of
\* what was sent; the first that fails gives the error, -1 to -5.
Refused(check, received, sent, reg) ==
  LET answer == SubSeq(received, sent + 1, sent + 8) IN
  CASE check = 1 -> Len(received) < sent + 8
    [] check = 2 -> answer[1] # Sync
    [] check = 3 -> answer[2] # 255
    [] check = 4 -> answer[3] # reg
    [] check = 5 -> answer[8] # Crc8(SubSeq(answer, 1, 7))

ParseResponse(received, sent, reg) ==
  LET failed == SelectSeq(<<1, 2, 3, 4, 5>>, LAMBDA c : Refused(c, received, sent, reg))
  IN  IF Refused(1, received, sent, reg) THEN -1
      ELSE IF failed # <<>> THEN -Head(failed) ELSE 0

ResponseData(received, sent) == SubSeq(received, sent + 4, sent + 7)

-----------------------------------------------------------------------------
(* The set-up of one device.  Registers are sets of bits, and the device   *)
(* counts the writes it has accepted in ifcnt, modulo 256.  The exchanges  *)
(* are numbered; those in lost get no answer, or are not heard.            *)

\* tmc2209_read_reg: an error reads as 0.
Read(s, reg, lost) ==
  IF s.exchanges + 1 \in lost THEN (IF reg = "ifcnt" THEN 0 ELSE {}) ELSE s[reg]

\* A one written to GSTAT clears its flag.
Written(s, reg, bits) == IF reg = "gstat" THEN s[reg] \ bits ELSE bits

Exchanged(s) == [s EXCEPT !.exchanges = @ + 1]
Write(s, reg, bits, lost) ==
  IF s.exchanges + 1 \in lost THEN Exchanged(s)
  ELSE [Exchanged(s) EXCEPT ![reg] = Written(s, reg, bits), !.ifcnt = (@ + 1) % 256]

\* "Should have incremented": a write between two reads of ifcnt.
Verified(s, reg, bits, lost) ==
  LET before == Read(s, "ifcnt", lost)
      write == Write(Exchanged(s), reg, bits, lost)
      after == Read(write, "ifcnt", lost)
  IN  [Exchanged(write) EXCEPT !.results = Append(@, after > before)]

gstat_init(s, lost) == Verified(s, "gstat", {0, 4, 8, 12, 13, 15}, lost)
hold_run_init(s, lost) == Verified(s, "ihold_irun", {1, 3, 8, 9, 10, 11, 12, 17, 18}, lost)
gconf_init(s, lost) ==
  Verified(Exchanged(s), "gconf", (Read(s, "gconf", lost) \ {0, 9}) \cup {6, 7}, lost)
mstep_init(s, lost) ==
  Verified(Exchanged(s), "chopconf", (Read(s, "chopconf", lost) \ (24..27)) \cup {26}, lost)

device_initialise(device, lost) ==
  LET start == device @@ [exchanges |-> 0, results |-> <<>>]
  IN  mstep_init(hold_run_init(gconf_init(gstat_init(start, lost), lost), lost), lost)
=============================================================================
