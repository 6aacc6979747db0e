-------------------------------- MODULE UsbCdc --------------------------------
(***************************************************************************)
(* The data path of the USB serial port: usb_cdc.c over the endpoint       *)
(* registers of usb_hal.c, with the callback of the mainboard's main.c     *)
(* that sends back every character it receives.  All of the device's part  *)
(* runs in the USB interrupt; the host and the peripheral act between any  *)
(* two of its accesses to the endpoint register, which both write.         *)
(*                                                                         *)
(* The host numbers the bytes it sends 1, 2, 3, ...  The transmit ring     *)
(* takes a byte and gives it up within one call of usb_cdc_write, so it is *)
(* empty between the steps and not kept.                                   *)
(***************************************************************************)
EXTENDS CircularBuffer

CONSTANTS
  Hosts,    \* kinds of host: "typing" sends a byte when all is quiet,
            \* "streaming" sends packets whenever they are accepted
  MaxSent   \* bound: bytes that the host sends

ASSUME HostAssumption == Hosts \subseteq {"typing", "streaming"} /\ MaxSent \in Nat
\* A packet is longer than the one byte that is echoed at a time.
ASSUME PacketAssumption == Size > 1

Byte == 1..MaxSent
None == 0

VARIABLES
  host,          \* the kind of host
  sent, echo,    \* the last byte it sent and the last one it received
  got,           \* how many it received
  outPacket,     \* the packet memory of the OUT endpoint: its bytes
  inPacket,      \* the packet memory of the IN endpoint: one byte
  flight,        \* the byte fetched from there that the host has still to acknowledge
  chep,          \* CHEPnR: status and valid transaction flag of both directions
  copy,          \* the value of it that the handler is about to write back
  buffer, head, tail,  \* rx_buffer
  pc, snapshot,  \* where the handler is, and its first reading of chep
  flagLost,      \* history: a VTRX was cleared unseen
  wanted,        \* history: the last byte that the callback echoed
  missed         \* history: it came too late for a packet already in flight, and its
                 \* own transmission was taken for that one

line == <<outPacket, inPacket, flight>>
ring == <<buffer, head, tail>>
hosts == <<host, sent, echo, got>>
handler == <<pc, snapshot>>
history == <<flagLost, wanted, missed>>
vars == <<hosts, line, chep, copy, ring, handler, history>>

-----------------------------------------------------------------------------
(* The host and the peripheral.  A direction in state VALID takes one      *)
(* transaction, becomes NAK and sets its flag.  The bus carries one        *)
(* transaction at a time.                                                  *)

Quiet == pc = "idle" /\ ~chep.vtRx /\ ~chep.vtTx /\ chep.stTx = "NAK"

HostOut(k) ==
  /\ sent + k <= MaxSent /\ chep.stRx = "VALID" /\ flight = None
  /\ host = "typing" => k = 1 /\ Quiet /\ echo = sent
  /\ outPacket' = [i \in 1..k |-> sent + i] /\ sent' = sent + k
  /\ chep' = [chep EXCEPT !.stRx = "NAK", !.vtRx = TRUE]
  /\ UNCHANGED <<host, echo, got, inPacket, flight, copy, ring, handler, history>>

\* The host's IN token: the peripheral sends what the packet memory holds now.
Fetch ==
  /\ chep.stTx = "VALID" /\ flight = None
  /\ flight' = inPacket
  /\ UNCHANGED <<hosts, outPacket, inPacket, chep, copy, ring, handler, history>>

\* The host's handshake, which ends the transaction.  A byte that has replaced the
\* one in flight is still to be queued only if its handler has not read the register.
Acknowledge ==
  /\ flight # None
  /\ echo' = flight /\ got' = got + 1 /\ flight' = None
  /\ chep' = [chep EXCEPT !.stTx = "NAK", !.vtTx = TRUE]
  /\ missed' = (flight # inPacket /\ pc # "queue")
  /\ UNCHANGED <<host, sent, outPacket, inPacket, copy, ring, handler, flagLost, wanted>>

HostIn == Fetch \/ Acknowledge

-----------------------------------------------------------------------------
(* The interrupt handler, USB_UCPD1_2_IRQHandler.                          *)

At(from, to) == pc = from /\ pc' = to

\* One reading of the register decides what this round of the loop serves.
Snapshot ==
  /\ pc = "idle" /\ (chep.vtRx \/ chep.vtTx)
  /\ snapshot' = chep
  /\ pc' = IF chep.vtRx THEN "clear rx" ELSE "clear tx"
  /\ UNCHANGED <<hosts, line, chep, copy, ring, history>>

\* usb_ep_clear_correct_transfer: a read ...
ReadToClear ==
  /\ At("clear rx", "write rx") \/ At("clear tx", "write tx")
  /\ copy' = chep
  /\ UNCHANGED <<hosts, line, chep, ring, snapshot, history>>

\* ... and a write, in which the flag of the other direction is as it was read: a
\* zero clears it.
ClearReceived ==
  /\ At("write rx", "take")
  /\ chep' = [chep EXCEPT !.vtRx = FALSE, !.vtTx = @ /\ copy.vtTx]
  /\ UNCHANGED <<hosts, line, copy, ring, snapshot, history>>

ClearBoth ==
  /\ At("write tx", "idle")
  /\ chep' = [chep EXCEPT !.vtTx = FALSE, !.vtRx = FALSE]
  /\ UNCHANGED <<hosts, line, copy, ring, snapshot, history>>
\* With nothing in the transmit ring, and a transfer that was no whole packet, the
\* completed transmission needs no more.
ClearTransmitted ==
  /\ At("write tx", "idle")
  /\ chep' = [chep EXCEPT !.vtTx = FALSE, !.vtRx = @ /\ copy.vtRx]
  /\ flagLost' = (flagLost \/ (chep.vtRx /\ ~copy.vtRx))
  /\ UNCHANGED <<hosts, line, copy, ring, snapshot, wanted, missed>>

\* usb_rx_packet and the first half of usb_ep_buffer_transfer: the packet is
\* appended to the ring.
TakePacket ==
  LET n == Accepted(head, tail, Len(outPacket)) IN
  /\ At("take", "callback")
  /\ buffer' = Stored(buffer, head, outPacket, n) /\ head' = Advanced(head, n)
  /\ UNCHANGED <<hosts, line, chep, copy, tail, snapshot, history>>

\* usb_cdc_read_ep: the OUT direction is armed when a whole packet fits.  The
\* peripheral leaves a direction that is NAK alone, so the read and the write of
\* the register are one step.
ReadEp ==
  chep' = IF Capacity(head, tail) >= Size THEN [chep EXCEPT !.stRx = "VALID"] ELSE chep

EchoCharAfterStep ==
  /\ Count(head, tail) > 0 /\ At("callback", "queue")
  /\ ReadEp
  /\ tail' = Advanced(tail, 1)
  /\ inPacket' = buffer[tail'] /\ wanted' = inPacket' /\ missed' = FALSE
  /\ UNCHANGED <<hosts, outPacket, flight, copy, buffer, head, snapshot, flagLost>>
\* usb_cdc_rx_cb: one character is read, and written to the packet memory whether
\* or not the host has fetched the one before, or is fetching it.
EchoChar ==
  /\ Count(head, tail) > 0 /\ At("callback", "queue")
  /\ ReadEp
  /\ inPacket' = buffer[tail] /\ wanted' = inPacket' /\ missed' = FALSE
  /\ tail' = Advanced(tail, 1)
  /\ UNCHANGED <<hosts, outPacket, flight, copy, buffer, head, snapshot, flagLost>>

\* usb_tx_packet: the register is read, to toggle its status to VALID ...
ReadToQueue ==
  /\ At("queue", "write queue")
  /\ copy' = chep
  /\ UNCHANGED <<hosts, line, chep, ring, snapshot, history>>

QueueForgotten ==
  /\ At("write queue", "callback")
  /\ UNCHANGED <<hosts, line, chep, copy, ring, snapshot, history>>
\* ... and written: the toggle is that of the status read, so a packet that the host
\* acknowledges in between stays sent.  It is the new one, unless the old one was in
\* flight when the new one was put in its place.
Queue ==
  /\ At("write queue", "callback")
  /\ chep' = [chep EXCEPT !.stTx = IF copy.stTx = "VALID" THEN @ ELSE "VALID"]
  /\ UNCHANGED <<hosts, line, copy, ring, snapshot, history>>

\* No character is left: the endpoint is armed again, and the transmission of the
\* same snapshot is served.
EndReceive ==
  /\ pc = "callback" /\ Count(head, tail) = 0
  /\ pc' = IF snapshot.vtTx THEN "clear tx" ELSE "idle"
  /\ ReadEp
  /\ UNCHANGED <<hosts, line, copy, ring, snapshot, history>>

Handler == \/ Snapshot \/ ReadToClear \/ ClearReceived \/ ClearTransmitted
           \/ TakePacket \/ EchoChar \/ ReadToQueue \/ Queue \/ EndReceive

-----------------------------------------------------------------------------
(* The host configures the device: SET_CONFIGURATION, after a bus reset or *)
(* after it had taken the configuration away.                              *)

Nak == [stRx |-> "NAK", stTx |-> "NAK", vtRx |-> FALSE, vtTx |-> FALSE]

\* The endpoints are closed and opened again, the rings reset, and usb_cdc_open arms
\* the OUT direction at its end.  The host forgets the bytes it waits for.
Reconfigure ==
  /\ pc = "idle" /\ flight = None
  /\ chep' = [Nak EXCEPT !.stRx = "VALID"] /\ head' = 0 /\ tail' = 0
  /\ echo' = sent /\ got' = sent /\ wanted' = sent
  /\ flagLost' = FALSE /\ missed' = FALSE
  /\ UNCHANGED <<host, sent, line, copy, buffer, handler>>

Init ==
  /\ host \in Hosts /\ sent = None /\ echo = None /\ got = 0
  /\ outPacket = <<>> /\ inPacket = None /\ flight = None
  /\ chep = [Nak EXCEPT !.stRx = "VALID"] /\ copy = Nak
  /\ buffer = [i \in Slot |-> None] /\ head = 0 /\ tail = 0
  /\ pc = "idle" /\ snapshot = Nak
  /\ flagLost = FALSE /\ wanted = None /\ missed = FALSE

Next == Handler \/ HostIn \/ Reconfigure \/ \E k \in 1..Size : HostOut(k)

\* The handler runs while its interrupt is pending, and the host polls and
\* acknowledges what it gets.
Spec == Init /\ [][Next]_vars /\ WF_vars(Handler) /\ WF_vars(HostIn)

-----------------------------------------------------------------------------
(* Properties.                                                             *)

Register == [stRx : {"NAK", "VALID"}, stTx : {"NAK", "VALID"},
             vtRx : BOOLEAN, vtTx : BOOLEAN]

\* Every variable keeps its type: the ring's indexes stay in its storage and no more
\* bytes come back than were sent.
TypeOK ==
  /\ host \in Hosts /\ sent \in 0..MaxSent /\ echo \in 0..sent /\ got \in 0..sent
  /\ Len(outPacket) <= Size /\ \A i \in DOMAIN outPacket : outPacket[i] \in 1..sent
  /\ inPacket \in 0..sent /\ flight \in 0..sent /\ wanted \in 0..sent
  /\ chep \in Register /\ copy \in Register /\ snapshot \in Register
  /\ buffer \in [Slot -> 0..sent] /\ head \in Slot /\ tail \in Slot
  /\ pc \in {"idle", "clear rx", "clear tx", "write rx", "write tx", "take", "callback",
             "queue", "write queue"}
  /\ flagLost \in BOOLEAN /\ missed \in BOOLEAN

\* The serial port keeps listening (usb_ep_buffer_transfer: "Read from endpoint RX
\* buffer to CDC RX buffer"): whenever the handler has returned the endpoint accepts
\* a packet or has one to be served, whatever packets came and when, unless a
\* completed reception was wiped out by the write that cleared a transmission.  From
\* that only a new configuration recovers.
KeepsListening ==
  pc = "idle" => chep.stRx = "VALID" \/ chep.vtRx \/ flagLost

\* "Echo data": what the host receives never goes back behind what it received
\* before; bytes may be missing, and the last one may come twice.
EchoInOrder == [][echo' >= echo]_vars

\* When all is quiet the last character that the callback wrote has reached the
\* host, although characters before it may have been overwritten in the one packet
\* buffer, and whether the host acknowledges one before this one is written, while
\* its register is read and written, or after.  The one exception is by name: it was
\* written while the one before was in flight, and its register was read as VALID
\* before that one was acknowledged.  Then nothing sends it.
QuietMeansEchoed == Quiet => echo = wanted \/ missed

\* A host that types, one byte at a time, gets every byte back, once.
TypedIsEchoed ==
  \A n \in Byte : host = "typing" /\ sent = n ~> echo = n /\ got = n
=============================================================================
