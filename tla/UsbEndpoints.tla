----------------------------- MODULE UsbEndpoints -----------------------------
(***************************************************************************)
(* How SET_CONFIGURATION opens the data endpoints: the walk over the       *)
(* configuration descriptor (usb_device.c, usb_cdc.c), and the assignment  *)
(* of endpoint registers and packet memory (usb_hal.c).  All of it is      *)
(* computed once, from constant tables; here it is operators over them.    *)
(***************************************************************************)
EXTENDS Integers, Sequences
LOCAL INSTANCE SequencesExt

-----------------------------------------------------------------------------
(* The descriptors: their types, their lengths and what the walk looks at. *)

Other(type, length) == [type |-> type, length |-> length, class |-> "none"]
Interface(class) == [type |-> "interface", length |-> 9, class |-> class]
Endpoint(number, in, transfer, size) ==
  [type |-> "endpoint", length |-> 7, class |-> "none",
   number |-> number, in |-> in, transfer |-> transfer, size |-> size]

CdcFunction ==
  <<Other("association", 8), Interface("cdc"), Other("functional", 5),
    Other("functional", 5), Other("functional", 4), Other("functional", 5),
    Endpoint(1, TRUE, "interrupt", 8), Interface("data"),
    Endpoint(2, FALSE, "bulk", 64), Endpoint(2, TRUE, "bulk", 64)>>

ConfigurationDescriptor == <<Other("configuration", 9)>> \o CdcFunction

TotalLength(ds) == FoldLeft(LAMBDA sum, d : sum + d.length, 0, ds)

\* The byte at which descriptor i begins.
Offset(ds, i) == TotalLength(SubSeq(ds, 1, i - 1))

-----------------------------------------------------------------------------
(* The walk.                                                               *)

\* usb_cdc_open, from the control interface at i: the functional descriptors are
\* skipped, the notification endpoint and the pair of the data interface opened.
\* The result is the length it has gone through, and the endpoints.
Open(ds, i) ==
  LET isFunctional(j) == j <= Len(ds) /\ ds[j].type = "functional"
      j == CHOOSE k \in (i + 1)..(Len(ds) + 1) :
             ~isFunctional(k) /\ \A m \in (i + 1)..(k - 1) : isFunctional(m)
      notification == ds[j].type = "endpoint"
      d == IF notification THEN j + 1 ELSE j
      pair == ds[d].type = "interface" /\ ds[d].class = "data"
  IN  [length |-> TotalLength(SubSeq(ds, i, IF pair THEN d + 2 ELSE d - 1)),
       endpoints |-> (IF notification THEN <<ds[j]>> ELSE <<>>)
                     \o (IF pair THEN <<ds[d + 1], ds[d + 2]>> ELSE <<>>)]

\* descriptor += descriptor_len: the pointer is to a base descriptor of two bytes, so
\* the walk goes on at twice the distance.
BaseSize == 2

\* The configurations to walk: the one there is, and one with a second function.
Configurations == {ConfigurationDescriptor, ConfigurationDescriptor \o CdcFunction}

\* usb_reset_configuration: what it opens, from the byte at which it goes on.  Beyond
\* the end it stops; where no interface descriptor begins, what it makes of the bytes
\* is left out: it opens nothing known.
OpenedFrom[ds \in Configurations, offset \in Nat] ==
  LET skipped == offset + (IF \E i \in DOMAIN ds : Offset(ds, i) = offset
                                                   /\ ds[i].type = "association"
                             THEN 8 ELSE 0)
      found == {i \in DOMAIN ds : Offset(ds, i) = skipped /\ ds[i].class = "cdc"}
  IN  IF offset >= TotalLength(ds) \/ found = {} THEN <<>>
      ELSE LET open == Open(ds, CHOOSE i \in found : TRUE)
           IN  open.endpoints \o OpenedFrom[ds, skipped + BaseSize * open.length]

Opened(ds) == OpenedFrom[ds, ds[1].length]

-----------------------------------------------------------------------------
(* Endpoint registers.  Both directions of an endpoint share one.          *)

Registers == 0..7
Unassigned == [number |-> -1, transfer |-> "none", in |-> FALSE, out |-> FALSE]

\* usb_ep_reset and usb_ep_control_init.
ControlOnly ==
  [r \in Registers |->
     IF r = 0 THEN [number |-> 0, transfer |-> "control", in |-> TRUE, out |-> TRUE]
     ELSE Unassigned]

HasDirection(entry, in) == IF in THEN entry.in ELSE entry.out

\* usb_ep_assign takes the first register that has the endpoint's direction already,
\* or has it free and belongs to the same endpoint or to none.
Suits(entry, ep) ==
  LET same == entry.number = ep.number /\ entry.transfer = ep.transfer
  IN  IF HasDirection(entry, ep.in) THEN same
      ELSE /\ entry.number \in {-1, ep.number}
           /\ entry.transfer \in {"none", ep.transfer}

AssignedTo(table, ep) ==
  LET suiting == {r \in Registers : Suits(table[r], ep)}
  IN  CHOOSE r \in suiting : \A s \in suiting : r <= s

Assign(table, ep) ==
  [table EXCEPT ![AssignedTo(table, ep)] =
     [number |-> ep.number, transfer |-> ep.transfer,
      in |-> @.in \/ ep.in, out |-> @.out \/ ~ep.in]]

Assignment(eps) == FoldLeft(Assign, ControlOnly, eps)

-----------------------------------------------------------------------------
(* Packet memory: 2048 bytes, the descriptor table at their beginning.     *)

PacketMemory == 2048
\* usb_ep_close_all leaves the table and the two buffers of endpoint 0.
FirstFree == 8 * 8 + 2 * 64

\* usb_pma_next_addr for one endpoint after the other.
Address(eps, i) == FoldLeft(LAMBDA a, ep : a + ep.size, FirstFree, SubSeq(eps, 1, i - 1))

\* usb_ep_calc_rx_buffer_block_size: blocks of 2 bytes, of 32 for more than 62 bytes,
\* counted in eight bits; BLSIZE and NUM_BLOCK as they go to the register.
Block(size) == IF size > 62 THEN 32 ELSE 2
BlockCount(size) == ((size + Block(size) - 1) \div Block(size)) % 256
BlSize(size) == IF size > 62 THEN 1 ELSE 0
NumBlock(size) == BlockCount(size) - BlSize(size)

\* The size that the peripheral makes of the two fields.
Granted(blsize, numBlock) == IF blsize = 1 THEN 32 * (numBlock + 1) ELSE 2 * numBlock

\* Packets are moved in words of four bytes, the last one padded with zeros.
Words(n) == (n + 3) \div 4
Packed(bytes) ==
  [w \in 1..Words(Len(bytes)) |->
     [k \in 1..4 |-> IF 4 * (w - 1) + k <= Len(bytes) THEN bytes[4 * (w - 1) + k] ELSE 0]]
Unpacked(words, n) == [i \in 1..n |-> words[Words(i)][1 + ((i - 1) % 4)]]
=============================================================================
