----------------------------- MODULE UsbControl -----------------------------
(***************************************************************************)
(* Control transfers on endpoint 0: the setup, data and status stages of   *)
(* usb_device.c over the endpoint registers of usb_hal.c.  The host and    *)
(* the USB peripheral run while the interrupt handler is pending or        *)
(* between two of its steps, so a transaction may complete before the      *)
(* handler has seen the one before it.                                     *)
(*                                                                         *)
(* Bytes of a response are numbered 1, 2, ...; a packet is a sequence of   *)
(* them.  The state of the data endpoints, which a halt feature or a       *)
(* configuration changes too, is not part of this module.                  *)
(***************************************************************************)
EXTENDS Integers, Sequences, FiniteSetsExt

CONSTANTS
  Requests,    \* the requests the host makes
  PacketSize,  \* USB_EP0_BUFFER_SIZE
  PromptAck,   \* the handler has always seen an acknowledged IN before the next setup
  MaxAborts,   \* bound: transfers the host gives up
  MaxResets    \* bound: bus resets

Kinds == {"describe", "address", "configure", "wakeup", "lineCoding",
          "lineState", "halt", "refuse"}

\* A request: its kind, direction (in: device to host), wLength, and the value
\* its kind gives a meaning to (the response's length for "describe").
ASSUME UsbAssumption ==
  /\ Requests \subseteq [kind : Kinds, in : BOOLEAN, length : Nat, value : Nat]
  /\ PacketSize \in Nat \ {0} /\ MaxAborts \in Nat /\ MaxResets \in Nat
  /\ PromptAck \in BOOLEAN

\* A request has the direction and the length of its kind; lengths have 16 bits.
ASSUME RequestAssumption ==
  \A r \in Requests :
    /\ r.length < 65536
    /\ r.kind = "describe" => r.in
    /\ r.kind = "lineCoding" => ~r.in /\ r.length > 0
    /\ r.kind \in {"address", "configure", "wakeup", "lineState", "halt"}
         => ~r.in /\ r.length = 0

VARIABLES
  dev,      \* usb_device, with the CDC line coding and line state
  daddr,    \* the peripheral's address, or Off while it does not answer
  control,  \* control_transfer: request, feed buffer and counts, callback
  ep0,      \* endpoint 0: status of either direction and the packet memory
  pending,  \* the interrupt flags: bus reset, VTRX with its SETUP bit, VTTX
  isr,      \* where the handler is, and whether its snapshot had VTTX
  host,     \* the transfer the host makes and what it knows of the device
  aborts, resets

device == <<dev, daddr, control>>
vars == <<device, ep0, pending, isr, host, aborts, resets>>

Off     == -1
Unknown == -1
Status  == {"DISABLED", "STALL", "NAK", "VALID"}

NoRequest == [kind |-> "refuse", in |-> FALSE, length |-> 0, value |-> 0]
NoPacket  == [setup |-> FALSE, request |-> NoRequest, count |-> 0]

\* usb_configuration_reset: memset of usb_device, and the configuration then set.
ResetDevice(config) ==
  [dev EXCEPT !.connected = FALSE, !.addressed = FALSE, !.address = 0,
              !.addressPending = 0, !.wakeup = FALSE, !.config = config]

ResetControl == [request |-> NoRequest, filled |-> FALSE, fed |-> 0, total |-> 0,
                 callback |-> "none"]

\* usb_ep_control_init: both directions answer NAK and the flags are cleared.
ResetEp0 == [rx |-> "NAK", tx |-> "NAK", sent |-> <<>>, received |-> NoPacket]

Flags == [reset |-> FALSE, vtrx |-> FALSE, vttx |-> FALSE]

Init ==
  /\ dev = [connected |-> FALSE, addressed |-> FALSE, address |-> 0, addressPending |-> 0,
            wakeup |-> FALSE, config |-> 0, lineState |-> 0, coding |-> 0]
  /\ daddr = 0
  /\ control = ResetControl /\ ep0 = ResetEp0 /\ pending = Flags
  /\ isr = [at |-> "idle", vttx |-> FALSE]
  /\ host = [phase |-> "idle", request |-> NoRequest, got |-> <<>>, address |-> 0,
             lineState |-> Unknown, coding |-> Unknown]
  /\ aborts = 0 /\ resets = 0

-----------------------------------------------------------------------------
(* Queueing a stage: usb_ep_queue_transfer_hal on endpoint 0.              *)

ArmIn(packet) == [ep0 EXCEPT !.tx = "VALID", !.sent = packet]
ArmOut        == [ep0 EXCEPT !.rx = "VALID"]

\* usb_control_status_stage: opposite to the direction of the request.
StatusStageAlwaysIn(request) == ArmIn(<<>>)
StatusStage(request) == IF request.in THEN ArmOut ELSE ArmIn(<<>>)

\* feed_forward_remaining_count, in 16 bits, and the bytes copied to ep0_control_buffer.
ChunkFromStart(transfer) ==
  [i \in 1..Min({(transfer.total - transfer.fed) % 65536, PacketSize}) |-> i]
ChunkUnbounded(transfer) ==
  [i \in 1..((transfer.total - transfer.fed) % 65536) |-> transfer.fed + i]
Chunk(transfer) ==
  [i \in 1..Min({(transfer.total - transfer.fed) % 65536, PacketSize}) |-> transfer.fed + i]

\* usb_control_data_stage
DataStage(transfer) == IF transfer.request.in THEN ArmIn(Chunk(transfer)) ELSE ArmOut

\* usb_ep_initiate_control_response
Respond(request, length, callback) ==
  LET transfer == [request |-> request, filled |-> TRUE, fed |-> 0,
                   total |-> Min({length, request.length}), callback |-> callback]
  IN  /\ control' = transfer
      /\ ep0' = IF request.length > 0 THEN DataStage(transfer) ELSE StatusStage(request)

\* usb_control_init_status_stage
OnlyStatus(request, callback) ==
  /\ control' = [request |-> request, filled |-> FALSE, fed |-> 0, total |-> 0,
                 callback |-> callback]
  /\ ep0' = StatusStage(request)

-----------------------------------------------------------------------------
(* USB_UCPD1_2_IRQHandler.                                                 *)

\* A bus reset: usb_reset, and the handler returns without looking further.
BusReset ==
  /\ isr.at = "idle" /\ pending.reset
  /\ dev' = ResetDevice(0) /\ daddr' = 0
  /\ control' = ResetControl /\ ep0' = ResetEp0 /\ pending' = Flags
  /\ UNCHANGED <<isr, host, aborts, resets>>

\* One turn of the loop on CTR reads the endpoint register once.
Snapshot ==
  /\ isr.at = "idle" /\ ~pending.reset /\ (pending.vtrx \/ pending.vttx)
  /\ isr' = [at |-> IF pending.vtrx THEN "receive" ELSE "transmit", vttx |-> pending.vttx]
  /\ UNCHANGED <<device, ep0, pending, host, aborts, resets>>

\* usb_ep_setup up to the request's own handler: the flag is cleared, the
\* callback of the transfer before is forgotten, the device is connected.
Setup(kind) ==
  /\ isr.at = "receive" /\ ep0.received.setup /\ ep0.received.request.kind = kind
  /\ pending' = [pending EXCEPT !.vtrx = FALSE]
  /\ isr' = [isr EXCEPT !.at = IF isr.vttx THEN "transmit" ELSE "idle"]
  /\ UNCHANGED <<daddr, host, aborts, resets>>

Connected == [dev EXCEPT !.connected = TRUE]
Received  == ep0.received.request

\* GET_DESCRIPTOR, GET_STATUS, GET_CONFIGURATION, GET_INTERFACE, GET_LINE_CODING
Describe ==
  /\ Setup("describe")
  /\ Respond(Received, Received.value, "none")
  /\ dev' = Connected

\* SET_ADDRESS waits for the status stage, which it queues twice.
SetAddress ==
  /\ Setup("address")
  /\ OnlyStatus(Received, "address")
  /\ dev' = [Connected EXCEPT !.addressPending = Received.value]

\* SET_CONFIGURATION: the whole device record is cleared when the number changes.
Configure ==
  /\ Setup("configure")
  /\ OnlyStatus(Received, "none")
  /\ dev' = IF dev.config # Received.value THEN ResetDevice(Received.value) ELSE Connected

\* SET_FEATURE and CLEAR_FEATURE of remote wakeup
SetWakeup ==
  /\ Setup("wakeup")
  /\ OnlyStatus(Received, "none")
  /\ dev' = [Connected EXCEPT !.wakeup = Received.value = 1]

\* CDC SET_LINE_CODING: the bytes go straight into usb_cdc.line_coding.
SetLineCoding ==
  /\ Setup("lineCoding")
  /\ Respond(Received, 7, "cdc")
  /\ dev' = Connected

\* CDC SET_CONTROL_LINE_STATE takes effect after the status stage.
SetLineState ==
  /\ Setup("lineState")
  /\ OnlyStatus(Received, "cdc")
  /\ dev' = Connected

\* SET_FEATURE and CLEAR_FEATURE of an endpoint: no stage is queued.
Halt ==
  /\ Setup("halt")
  /\ control' = [control EXCEPT !.callback = "none"]
  /\ dev' = Connected
  /\ UNCHANGED ep0

\* A request that is not supported.  process_control_request_hal stalls by the
\* endpoint's direction, which usb_ep_stall_set_hal takes for an index: both
\* calls stall the OUT direction.  A class request leaves the CDC callback behind.
Refuse ==
  /\ Setup("refuse")
  /\ \E callback \in {"none", "cdc"} : control' = [control EXCEPT !.callback = callback]
  /\ ep0' = [ep0 EXCEPT !.rx = "STALL"]
  /\ dev' = Connected

\* The status stage calls the request's callback, which the CDC one and
\* usb_device_set_address_complete act on.
StatusCompleteStale(transferred) ==
  /\ daddr' = IF transferred = 0 /\ control.callback = "address" THEN dev.address ELSE daddr
  /\ dev' = [dev EXCEPT !.address = dev.addressPending, !.addressPending = 0]
  /\ UNCHANGED <<control, ep0>>
StatusComplete(transferred) ==
  /\ \/ /\ transferred = 0 /\ control.callback = "address"
        /\ dev' = [dev EXCEPT !.address = dev.addressPending, !.addressPending = 0,
                              !.addressed = dev.addressPending # 0]
        /\ daddr' = dev.addressPending
     \/ /\ transferred = 0 /\ control.callback = "cdc" /\ control.request.kind = "lineState"
        /\ dev' = [dev EXCEPT !.lineState = control.request.value]
        /\ UNCHANGED daddr
     \/ /\ ~ /\ transferred = 0
             /\ \/ control.callback = "address"
                \/ control.callback = "cdc" /\ control.request.kind = "lineState"
        /\ UNCHANGED <<dev, daddr>>
  /\ UNCHANGED <<control, ep0>>

\* A packet of the data stage: count it, then the status stage or the next packet.
DataCompleteByLength(transferred) ==
  LET transfer == [control EXCEPT !.fed = @ + transferred]
  IN  /\ control' = transfer
      /\ ep0' = IF control.request.length = transfer.fed
                THEN StatusStage(control.request) ELSE DataStage(transfer)
      /\ UNCHANGED <<dev, daddr>>
DataComplete(transferred) ==
  /\ UNCHANGED daddr
  /\ dev' = IF ~control.request.in /\ control.filled
            THEN [dev EXCEPT !.coding = control.request.value] ELSE dev
  /\ IF ~control.request.in /\ ~control.filled
     THEN UNCHANGED <<control, ep0>>
     ELSE LET fed == control.fed + transferred
              transfer == [control EXCEPT !.fed = fed]
          IN  /\ control' = transfer
              /\ ep0' = IF control.request.length = fed \/ transferred < PacketSize
                        THEN StatusStage(control.request)
                        ELSE DataStage(transfer)

\* usb_control_transfer: a packet against the request's direction is its status.
TransferComplete(in, transferred) ==
  IF control.request.in # in THEN StatusComplete(transferred) ELSE DataComplete(transferred)

\* usb_rx_packet
ReceivePacket ==
  /\ isr.at = "receive" /\ ~ep0.received.setup
  /\ pending' = [pending EXCEPT !.vtrx = FALSE]
  /\ isr' = [isr EXCEPT !.at = IF isr.vttx THEN "transmit" ELSE "idle"]
  /\ TransferComplete(FALSE, ep0.received.count)
  /\ UNCHANGED <<host, aborts, resets>>

\* An IN packet was acknowledged; on endpoint 0 every packet is a transfer of its own.
TransmitComplete ==
  /\ isr.at = "transmit"
  /\ pending' = [pending EXCEPT !.vttx = FALSE]
  /\ isr' = [at |-> "idle", vttx |-> FALSE]
  /\ TransferComplete(TRUE, Len(ep0.sent))
  /\ UNCHANGED <<host, aborts, resets>>

-----------------------------------------------------------------------------
(* The host and the peripheral.                                            *)

\* A setup packet is accepted whatever the status bits say, and makes both NAK.
HostSetup(request) ==
  /\ daddr = host.address /\ ~pending.reset /\ ~pending.vtrx
  /\ PromptAck => ~pending.vttx
  /\ \/ host.phase = "idle" /\ UNCHANGED aborts
     \/ host.phase # "idle" /\ aborts < MaxAborts /\ aborts' = aborts + 1
  /\ host' = [host EXCEPT !.phase = IF request.length > 0 THEN "data" ELSE "status",
                          !.request = request, !.got = <<>>,
                          !.coding = IF request.kind = "lineCoding" THEN Unknown ELSE @]
  /\ ep0' = [ep0 EXCEPT !.rx = "NAK", !.tx = "NAK",
                        !.received = [setup |-> TRUE, request |-> request, count |-> 8]]
  /\ pending' = [pending EXCEPT !.vtrx = TRUE]
  /\ UNCHANGED <<device, isr, resets>>

WaitsForIn ==
  \/ host.phase = "data" /\ host.request.in
  \/ host.phase = "status" /\ (~host.request.in \/ host.request.length = 0)
WaitsForOut == host.phase # "idle" /\ ~WaitsForIn

\* The transfer is over for the host.
Done == [host EXCEPT !.phase = "idle", !.request = NoRequest, !.got = <<>>]

Answers == daddr = host.address /\ ~pending.reset

HostIn ==
  /\ Answers /\ WaitsForIn /\ ep0.tx = "VALID"
  /\ ep0' = [ep0 EXCEPT !.tx = "NAK"]
  /\ pending' = [pending EXCEPT !.vttx = TRUE]
  /\ IF host.phase = "data"
     THEN LET got == host.got \o ep0.sent
              over == Len(got) >= host.request.length \/ Len(ep0.sent) < PacketSize
          IN  host' = [host EXCEPT !.got = got, !.phase = IF over THEN "status" ELSE @]
     ELSE host' = [Done EXCEPT
            !.address = IF host.request.kind = "address" THEN host.request.value ELSE @,
            !.lineState = IF host.request.kind = "lineState" THEN host.request.value ELSE @,
            !.coding = IF host.request.kind = "lineCoding" THEN host.request.value ELSE @]
  /\ UNCHANGED <<device, isr, aborts, resets>>

\* The data of an OUT request fits one packet; the status of an IN one is empty.
HostOut ==
  /\ Answers /\ WaitsForOut /\ ep0.rx = "VALID" /\ ~pending.vtrx
  /\ ep0' = [ep0 EXCEPT !.rx = "NAK",
               !.received = [setup |-> FALSE, request |-> NoRequest,
                             count |-> IF host.phase = "data" THEN host.request.length ELSE 0]]
  /\ pending' = [pending EXCEPT !.vtrx = TRUE]
  /\ host' = IF host.phase = "data" THEN [host EXCEPT !.phase = "status"] ELSE Done
  /\ UNCHANGED <<device, isr, aborts, resets>>

HostSeesStall ==
  /\ Answers
  /\ \/ WaitsForIn /\ ep0.tx = "STALL"
     \/ WaitsForOut /\ ep0.rx = "STALL"
  /\ host' = Done
  /\ UNCHANGED <<device, ep0, pending, isr, aborts, resets>>

\* A bus reset turns the function off until the handler has seen it.
HostReset ==
  /\ resets < MaxResets /\ ~pending.reset
  /\ resets' = resets + 1
  /\ daddr' = Off
  /\ ep0' = [ep0 EXCEPT !.rx = "DISABLED", !.tx = "DISABLED"]
  /\ pending' = [pending EXCEPT !.reset = TRUE]
  /\ host' = [Done EXCEPT !.address = 0, !.lineState = Unknown, !.coding = Unknown]
  /\ UNCHANGED <<dev, control, isr, aborts>>

Interrupt ==
  \/ BusReset \/ Snapshot \/ ReceivePacket \/ TransmitComplete
  \/ Describe \/ SetAddress \/ Configure \/ SetWakeup \/ SetLineCoding \/ SetLineState
  \/ Halt \/ Refuse

Host == HostIn \/ HostOut \/ HostSeesStall \/ HostReset \/ \E r \in Requests : HostSetup(r)

Next == Interrupt \/ Host

Spec == Init /\ [][Next]_vars

-----------------------------------------------------------------------------
(* Properties.                                                             *)

\* Every variable keeps its type, and a packet never exceeds the packet memory
\* given to endpoint 0 (usb_control_data_stage, usb_tx_packet).
TypeOK ==
  /\ dev \in [connected : BOOLEAN, addressed : BOOLEAN, address : Nat, addressPending : Nat,
              wakeup : BOOLEAN, config : Nat, lineState : Nat, coding : Nat]
  /\ daddr \in Nat \union {Off}
  /\ control.callback \in {"none", "address", "cdc"}
  /\ control.filled \in BOOLEAN /\ control.fed \in Nat /\ control.total \in Nat
  /\ ep0.rx \in Status /\ ep0.tx \in Status /\ Len(ep0.sent) \in 0..PacketSize
  /\ pending \in [reset : BOOLEAN, vtrx : BOOLEAN, vttx : BOOLEAN]
  /\ isr \in [at : {"idle", "receive", "transmit"}, vttx : BOOLEAN]
  /\ host.phase \in {"idle", "data", "status"} /\ host.request \in Requests \union {NoRequest}
  /\ aborts \in 0..MaxAborts /\ resets \in 0..MaxResets

\* The device has seen everything the host has done so far.
Quiet == isr.at = "idle" /\ pending = Flags

\* Requests the device implements: all but the refused ones, the halt features,
\* and reads of no bytes.
Supported(request) ==
  request.kind \notin {"halt", "refuse"} /\ (request.in => request.length > 0)

Answered ==
  /\ WaitsForIn => ep0.tx \in {"VALID", "STALL"}
  /\ WaitsForOut => ep0.rx \in {"VALID", "STALL"}

\* Once the interrupts are served, the stage the host waits for is queued (or
\* stalled): no transfer of a supported request hangs, whatever transfer was
\* given up before it (usb_control_transfer, usb_control_status_stage).
SupportedIsAnswered == Quiet /\ Supported(host.request) => Answered

\* The same of every request: "If a device detects a condition that prevents it
\* from completing the request, it must indicate the error by returning a STALL
\* handshake" (usb_hal.c, process_control_request_hal).
RequestIsAnswered == Quiet => Answered

\* The host reads the bytes of a response in order, each once, and all that it
\* asked for and the device has, over any number of packets
\* (usb_control_data_stage, usb_control_transfer).
ResponseInOrder ==
  host.phase # "idle" /\ host.request.kind = "describe" =>
    /\ host.got = [i \in 1..Len(host.got) |-> i]
    /\ host.phase = "status" /\ host.request.length > 0 =>
         Len(host.got) = Min({host.request.length, host.request.value})

\* A packet is queued only for the host that waits for it: none is left armed
\* by a transfer that ended or was given up, and a status stage is empty.
NoStalePacket ==
  Quiet /\ ep0.tx = "VALID" =>
    WaitsForIn /\ (host.phase = "status" => ep0.sent = <<>>)

\* What the host saw acknowledged has taken effect, and an address change that
\* was never acknowledged has not: the peripheral answers to the address the
\* host uses, and the line state and coding are the ones it set (the status
\* callbacks of usb_device_set_address and usb_cdc_control_transfer).
AcknowledgedIsApplied ==
  Quiet => /\ daddr = host.address
           /\ host.lineState # Unknown => dev.lineState = host.lineState
           /\ host.coding # Unknown => dev.coding = host.coding
=============================================================================
