--------------------------- MODULE UsbControl_proofs ---------------------------
(***************************************************************************)
(* The safety properties of the control transfers for every set of         *)
(* requests, every packet size and any number of transfers given up and    *)
(* bus resets, as long as the handler is prompt (PromptAck).               *)
(***************************************************************************)
EXTENDS UsbControl, SequenceTheorems, TLAPS

-----------------------------------------------------------------------------
(* The invariant.                                                           *)

Asked == Requests \union {NoRequest}

Devices ==
  [connected : BOOLEAN, addressed : BOOLEAN, address : Nat, addressPending : Nat,
   wakeup : BOOLEAN, config : Nat, lineState : Nat, coding : Nat]
Transfers ==
  [request : Asked, filled : BOOLEAN, fed : Nat, total : Nat,
   callback : {"none", "address", "cdc"}]
Packets   == [setup : BOOLEAN, request : Asked, count : Nat]
Endpoints == [rx : Status, tx : Status, sent : Seq(Nat), received : Packets]
FlagSets  == [reset : BOOLEAN, vtrx : BOOLEAN, vttx : BOOLEAN]
Handlers  == [at : {"idle", "receive", "transmit"}, vttx : BOOLEAN]
Hosts ==
  [phase : {"idle", "data", "status"}, request : Asked, got : Seq(Nat),
   address : Nat, lineState : Nat \union {Unknown}, coding : Nat \union {Unknown}]

\* TypeOK, and the fields that it leaves out.
Types ==
  /\ dev \in Devices /\ daddr \in Nat \union {Off} /\ control \in Transfers
  /\ ep0 \in Endpoints /\ Len(ep0.sent) <= PacketSize
  /\ pending \in FlagSets /\ isr \in Handlers /\ host \in Hosts
  /\ aborts \in 0..MaxAborts /\ resets \in 0..MaxResets

\* One transaction at a time waits for the handler, which works on that one.
HandlerInv ==
  /\ ~(pending.vtrx /\ pending.vttx)
  /\ isr.at = "receive" => pending.vtrx /\ ~isr.vttx
  /\ isr.at = "transmit" => pending.vttx
  /\ host.phase = "idle" => host.request = NoRequest
  /\ host.phase # "idle" => host.request \in Requests

\* What the host saw acknowledged, when nothing of it is left to the handler.
LineApplied == host.lineState # Unknown => dev.lineState = host.lineState
CodingApplied == host.coding # Unknown => dev.coding = host.coding
Applied == daddr = host.address /\ LineApplied /\ CodingApplied

\* The bytes the host has read are the first ones of the response, which is as long
\* as the host asked for or the device has.
Ordered ==
  /\ host.got = [i \in 1..Len(host.got) |-> i]
  /\ control.request = host.request /\ host.request.kind = "describe"
  /\ control.filled /\ control.callback = "none"
  /\ host.request.length > 0
  /\ control.total = Min({host.request.value, host.request.length})
  /\ Len(host.got) <= control.total

\* A setup packet waits for the handler.
SetupWaits ==
  /\ ep0.rx = "NAK" /\ ep0.tx = "NAK"
  /\ ep0.received.request = host.request /\ host.got = <<>>
  /\ host.phase = IF host.request.length > 0 THEN "data" ELSE "status"
  /\ host.request \in Requests
  /\ host.request.kind = "lineCoding" => host.coding = Unknown
  /\ Applied

\* A packet from the host waits: the status of a response, or the line coding.
OutWaits ==
  /\ ep0.rx = "NAK" /\ ep0.tx = "NAK" /\ Applied
  /\ \/ host.phase = "idle" /\ control.request.in /\ control.callback = "none"
     \/ /\ host.phase = "status" /\ host.request.kind = "lineCoding"
        /\ control.request = host.request /\ control.filled /\ control.fed = 0
        /\ control.callback = "cdc" /\ ep0.received.count = host.request.length
        /\ host.coding = Unknown

\* What the acknowledged status of a request without a response will do.
EffectWaits ==
  \/ /\ control.callback = "address" /\ dev.addressPending = host.address
     /\ LineApplied /\ CodingApplied
  \/ /\ control.callback = "cdc" /\ control.request.kind = "lineState"
     /\ host.lineState = control.request.value /\ daddr = host.address /\ CodingApplied
  \/ /\ control.callback # "address"
     /\ ~(control.callback = "cdc" /\ control.request.kind = "lineState")
     /\ Applied

\* A packet to the host was acknowledged: part of a response, or a status.
InWaits ==
  /\ ep0.tx = "NAK"
  /\ \/ /\ Ordered /\ Applied /\ host.phase # "idle" /\ ep0.rx = "NAK"
        /\ Len(host.got) = control.fed + Len(ep0.sent)
        /\ host.phase = "status" <=>
             Len(host.got) = host.request.length \/ Len(ep0.sent) < PacketSize
        /\ host.phase = "status" => Len(host.got) = control.total
     \/ /\ host.phase = "idle" /\ ~control.request.in /\ ep0.sent = <<>>
        /\ EffectWaits

\* The callback and the effect of a request that waits for its status.
CallbackOf(request) ==
  CASE request.kind = "address" -> "address"
    [] request.kind \in {"lineState", "lineCoding"} -> "cdc"
    [] OTHER -> "none"

\* Nothing waits for the handler: the host's transfer and endpoint 0 agree.
Sending ==
  /\ host.phase = "data" /\ Ordered /\ ep0.tx = "VALID" /\ ep0.rx = "NAK"
  /\ control.fed = Len(host.got) /\ ep0.sent = Chunk(control)
StatusOut ==
  /\ host.phase = "status" /\ Ordered /\ ep0.tx = "NAK" /\ ep0.rx = "VALID"
  /\ Len(host.got) = control.total
Receiving ==
  /\ host.phase = "data" /\ host.request.kind = "lineCoding"
  /\ control.request = host.request /\ control.filled /\ control.fed = 0
  /\ control.callback = "cdc" /\ ep0.tx = "NAK" /\ ep0.rx = "VALID" /\ host.coding = Unknown
StatusIn ==
  /\ host.phase = "status" /\ control.request = host.request
  /\ host.request.kind \in {"address", "configure", "wakeup", "lineState", "lineCoding"}
  /\ ep0.tx = "VALID" /\ ep0.sent = <<>>
  /\ control.callback = CallbackOf(host.request)
  /\ host.request.kind = "address" => dev.addressPending = host.request.value
  /\ host.request.kind = "lineCoding" =>
       dev.coding = host.request.value /\ host.coding = Unknown
Unanswered ==
  /\ host.phase # "idle" /\ ~Supported(host.request) /\ ep0.tx = "NAK"
  /\ WaitsForOut => ep0.rx # "VALID"
  /\ host.request.kind = "describe" =>
       host.phase = "status" /\ host.got = <<>> /\ host.request.length = 0
Agreed ==
  \/ host.phase = "idle" /\ ep0.tx = "NAK"
  \/ Sending \/ StatusOut \/ Receiving \/ StatusIn \/ Unanswered

\* While a bus reset waits for the handler, the host has forgotten the device.
Forgotten ==
  /\ host.phase = "idle" /\ host.address = 0
  /\ host.lineState = Unknown /\ host.coding = Unknown

StageInv ==
  /\ pending.reset => Forgotten
  /\ ~pending.reset =>
       /\ pending.vtrx /\ ep0.received.setup => SetupWaits
       /\ pending.vtrx /\ ~ep0.received.setup => OutWaits
       /\ pending.vttx => InWaits
       /\ ~pending.vtrx /\ ~pending.vttx => Agreed /\ Applied

ControlInv == Types /\ HandlerInv /\ StageInv
-----------------------------------------------------------------------------
(* The operators of the stages.                                             *)

\* The smaller of two numbers.
LEMMA MinOfTwo ==
  ASSUME NEW a \in Int, NEW b \in Int
  PROVE  Min({a, b}) = IF a <= b THEN a ELSE b
<1>1. CASE a <= b
  <2>1. \E x \in {a, b} : \A y \in {a, b} : x <= y
    BY <1>1
  <2>2. QED
    BY <1>1, <2>1 DEF Min
<1>2. CASE ~(a <= b)
  <2>1. \E x \in {a, b} : \A y \in {a, b} : x <= y
    BY <1>2
  <2>2. QED
    BY <1>2, <2>1 DEF Min
<1>3. QED
  BY <1>1, <1>2

\* A 16-bit remainder, and the numbers it leaves as they are.
LEMMA Remainder16 ==
  ASSUME NEW x \in Int
  PROVE  /\ x % 65536 \in Nat
         /\ 0 <= x /\ x < 65536 => x % 65536 = x
  BY Z3

\* What is known of every request, the absent one included.
LEMMA RequestFacts ==
  ASSUME NEW r \in Asked
  PROVE  /\ r \in [kind : Kinds, in : BOOLEAN, length : Nat, value : Nat]
         /\ r.length < 65536
         /\ r.kind = "describe" => r.in
         /\ r.kind = "lineCoding" => ~r.in /\ r.length > 0
         /\ r.kind \in {"address", "configure", "wakeup", "lineState", "halt"}
              => ~r.in /\ r.length = 0
<1>1. CASE r = NoRequest
  BY <1>1 DEF NoRequest, Kinds
<1>2. CASE r \in Requests
  <2>1. r \in [kind : Kinds, in : BOOLEAN, length : Nat, value : Nat]
    BY <1>2, UsbAssumption
  <2>2. QED
    BY <1>2, <2>1, RequestAssumption
<1>3. QED
  BY <1>1, <1>2 DEF Asked

\* A packet of a response is the bytes after the ones fed, as many as are left
\* or fit the packet memory.
LEMMA ChunkFacts ==
  ASSUME NEW t, t.fed \in Nat, t.total \in Nat
  PROVE  /\ Chunk(t) \in Seq(Nat) /\ Len(Chunk(t)) <= PacketSize
         /\ \A i \in 1..Len(Chunk(t)) : Chunk(t)[i] = t.fed + i
         /\ t.fed <= t.total /\ t.total < 65536 =>
              Len(Chunk(t)) =
                IF t.total - t.fed <= PacketSize THEN t.total - t.fed ELSE PacketSize
<1> DEFINE left == t.total - t.fed
           n == Min({left % 65536, PacketSize})
<1>1. left \in Int /\ PacketSize \in Nat \ {0}
  BY UsbAssumption
<1>2. left % 65536 \in Nat /\ (0 <= left /\ left < 65536 => left % 65536 = left)
  <2> HIDE DEF left
  <2> QED BY <1>1, Remainder16
<1>3. n = IF left % 65536 <= PacketSize THEN left % 65536 ELSE PacketSize
  <2> HIDE DEF left
  <2> QED BY <1>1, <1>2, MinOfTwo
<1>4. n \in Nat /\ n <= PacketSize
  <2> HIDE DEF left
  <2> QED BY <1>1, <1>2, <1>3
<1>5. Chunk(t) = [i \in 1..n |-> t.fed + i]
  BY DEF Chunk
<1> HIDE DEF n
<1>6. Chunk(t) \in Seq(Nat) /\ Len(Chunk(t)) = n
  BY <1>4, <1>5
<1>7. \A i \in 1..Len(Chunk(t)) : Chunk(t)[i] = t.fed + i
  BY <1>5, <1>6
<1>8. t.fed <= t.total /\ t.total < 65536 =>
        n = IF left <= PacketSize THEN left ELSE PacketSize
  BY <1>2, <1>3
<1>9. QED
  BY <1>4, <1>6, <1>7, <1>8

\* Queueing a packet for the host, or room for one from it.
LEMMA ArmFacts ==
  ASSUME Types, NEW packet \in Seq(Nat), Len(packet) <= PacketSize
  PROVE  /\ ArmIn(packet) \in Endpoints /\ ArmOut \in Endpoints
         /\ ArmIn(packet).tx = "VALID" /\ ArmIn(packet).rx = ep0.rx
         /\ ArmIn(packet).sent = packet
         /\ ArmOut.rx = "VALID" /\ ArmOut.tx = ep0.tx /\ ArmOut.sent = ep0.sent
  BY DEF Types, Endpoints, ArmIn, ArmOut, Status

\* The stages that follow leave endpoint 0 within its types.
LEMMA StageTypes ==
  ASSUME Types, NEW request, request.in \in BOOLEAN, NEW t, t.fed \in Nat, t.total \in Nat
  PROVE  /\ StatusStage(request) \in Endpoints
         /\ Len(StatusStage(request).sent) <= PacketSize
         /\ DataStage(t) \in Endpoints /\ Len(DataStage(t).sent) <= PacketSize
<1>1. <<>> \in Seq(Nat) /\ Len(<<>>) = 0 /\ 0 <= PacketSize
  BY UsbAssumption
<1>2. Chunk(t) \in Seq(Nat) /\ Len(Chunk(t)) <= PacketSize
  BY ChunkFacts
<1>3. Len(ep0.sent) <= PacketSize
  BY DEF Types
<1>4. ArmOut \in Endpoints /\ Len(ArmOut.sent) <= PacketSize
  BY <1>1, <1>3, ArmFacts
<1>5. ArmIn(<<>>) \in Endpoints /\ Len(ArmIn(<<>>).sent) <= PacketSize
  BY <1>1, ArmFacts
<1>6. ArmIn(Chunk(t)) \in Endpoints /\ Len(ArmIn(Chunk(t)).sent) <= PacketSize
  BY <1>2, ArmFacts
<1>7. QED
  BY <1>4, <1>5, <1>6 DEF StatusStage, DataStage

-----------------------------------------------------------------------------
(* The invariant holds initially.                                           *)

\* A device without a host: nothing waits and nothing was acknowledged.
LEMMA InitControlInv == Init => ControlInv
<1> SUFFICES ASSUME Init PROVE ControlInv
  OBVIOUS
<1>1. Types
  <2>1. dev \in Devices /\ daddr \in Nat \union {Off}
    BY DEF Init, Devices
  <2>2. NoRequest \in Asked
    BY DEF Asked
  <2>3. control \in Transfers
    BY <2>2 DEF Init, Transfers, ResetControl
  <2>4. ep0.received \in Packets
    BY <2>2 DEF Init, Packets, ResetEp0, NoPacket
  <2>5. ep0 \in Endpoints /\ Len(ep0.sent) <= PacketSize
    BY <2>4, UsbAssumption DEF Init, Endpoints, ResetEp0, Status
  <2>6. pending \in FlagSets /\ isr \in Handlers
    BY DEF Init, FlagSets, Handlers, Flags
  <2>7. host \in Hosts
    BY <2>2 DEF Init, Hosts
  <2>8. aborts \in 0..MaxAborts /\ resets \in 0..MaxResets
    BY UsbAssumption DEF Init
  <2>9. QED
    BY <2>1, <2>3, <2>5, <2>6, <2>7, <2>8 DEF Types
<1>2. HandlerInv
  BY DEF Init, HandlerInv, Flags
<1>3. Agreed
  BY DEF Init, Agreed, ResetEp0
<1>4. Applied
  BY DEF Init, Applied, LineApplied, CodingApplied
<1>5. ~pending.reset /\ ~pending.vtrx /\ ~pending.vttx
  BY DEF Init, Flags
<1>6. QED
  BY <1>1, <1>2, <1>3, <1>4, <1>5 DEF ControlInv, StageInv

-----------------------------------------------------------------------------
(* The handler: the setup packets.                                          *)

\* A step of the handler that serves what was received leaves nothing waiting.
LEMMA ReceiveServed ==
  ASSUME ControlInv, isr.at = "receive",
         pending' = [pending EXCEPT !.vtrx = FALSE],
         isr' = [isr EXCEPT !.at = IF isr.vttx THEN "transmit" ELSE "idle"]
  PROVE  /\ pending.vtrx /\ pending' \in FlagSets /\ isr' \in Handlers
         /\ ~pending'.vtrx /\ ~pending'.vttx /\ pending'.reset = pending.reset
         /\ isr'.at = "idle"
<1>1. pending \in FlagSets /\ isr \in Handlers
  BY DEF ControlInv, Types
<1>2. pending.vtrx /\ ~pending.vttx /\ ~isr.vttx
  BY DEF ControlInv, HandlerInv
<1>3. pending' \in FlagSets /\ ~pending'.vtrx /\ ~pending'.vttx
      /\ pending'.reset = pending.reset
  BY <1>1, <1>2 DEF FlagSets
<1>4. isr' \in Handlers /\ isr'.at = "idle"
  BY <1>1, <1>2 DEF Handlers
<1>5. QED
  BY <1>2, <1>3, <1>4

\* A request's own handler keeps the invariant when it agrees with the host on
\* the stage that follows.
LEMMA SetupKeeps ==
  ASSUME ControlInv, NEW kind, Setup(kind),
         dev' \in Devices, dev'.lineState = dev.lineState, dev'.coding = dev.coding,
         control' \in Transfers, ep0' \in Endpoints, Len(ep0'.sent) <= PacketSize,
         SetupWaits => Agreed'
  PROVE  ControlInv'
<1>1. /\ pending.vtrx /\ pending' \in FlagSets /\ isr' \in Handlers
      /\ ~pending'.vtrx /\ ~pending'.vttx /\ pending'.reset = pending.reset
      /\ isr'.at = "idle"
  BY ReceiveServed DEF Setup
<1>2. daddr' = daddr /\ host' = host /\ aborts' = aborts /\ resets' = resets
  BY DEF Setup
<1>3. Types'
  BY <1>1, <1>2 DEF ControlInv, Types
<1>4. HandlerInv'
  BY <1>1, <1>2 DEF ControlInv, HandlerInv
<1>5. StageInv'
  <2>1. CASE pending.reset
    BY <1>1, <1>2, <2>1 DEF ControlInv, StageInv, Forgotten
  <2>2. CASE ~pending.reset
    <3>1. SetupWaits
      BY <1>1, <2>2 DEF ControlInv, StageInv, Setup
    <3>2. Applied'
      BY <1>2, <3>1 DEF SetupWaits, Applied, LineApplied, CodingApplied
    <3>3. QED
      BY <1>1, <2>2, <3>1, <3>2 DEF StageInv
  <2>3. QED
    BY <2>1, <2>2
<1>6. QED
  BY <1>3, <1>4, <1>5 DEF ControlInv

\* The request a handler serves, and the device it leaves connected.
LEMMA SetupFacts ==
  ASSUME ControlInv, NEW kind, Setup(kind)
  PROVE  /\ Received \in Asked /\ Received.kind = kind
         /\ Connected \in Devices /\ dev \in Devices
         /\ Connected.lineState = dev.lineState /\ Connected.coding = dev.coding
         /\ Connected.addressPending = dev.addressPending
         /\ host' = host
         /\ SetupWaits => Received = host.request
<1>1. dev \in Devices /\ ep0 \in Endpoints
  BY DEF ControlInv, Types
<1>2. ep0.received.request \in Asked
  BY <1>1 DEF Endpoints, Packets
<1>3. Received.kind = kind /\ host' = host
  BY DEF Setup, Received
<1>4. /\ Connected \in Devices
      /\ Connected.lineState = dev.lineState /\ Connected.coding = dev.coding
      /\ Connected.addressPending = dev.addressPending
  BY <1>1 DEF Devices, Connected
<1>5. QED
  BY <1>1, <1>2, <1>3, <1>4 DEF Received, SetupWaits

\* A request without a data stage, whose status the handler queues for the host.
LEMMA OnlyStatusKeeps ==
  ASSUME ControlInv, NEW kind \in {"address", "configure", "wakeup", "lineState"},
         NEW callback, callback = CallbackOf([kind |-> kind]),
         Setup(kind), OnlyStatus(Received, callback),
         dev' \in Devices, dev'.lineState = dev.lineState, dev'.coding = dev.coding,
         kind = "address" => dev'.addressPending = Received.value
  PROVE  ControlInv'
<1>1. /\ Received \in Asked /\ Received.kind = kind /\ host' = host
      /\ SetupWaits => Received = host.request
  BY SetupFacts
<1>2. Received.in = FALSE /\ Received.length = 0
  BY <1>1, RequestFacts
<1>3. callback \in {"none", "address", "cdc"}
      /\ (SetupWaits => callback = CallbackOf(host.request))
  BY <1>1 DEF CallbackOf
<1>4. Types /\ <<>> \in Seq(Nat) /\ Len(<<>>) <= PacketSize
  BY UsbAssumption DEF ControlInv
<1>5. ep0' = ArmIn(<<>>)
  BY <1>2 DEF OnlyStatus, StatusStage
<1>6. ep0' \in Endpoints /\ Len(ep0'.sent) <= PacketSize
      /\ ep0'.tx = "VALID" /\ ep0'.sent = <<>>
  BY <1>4, <1>5, ArmFacts
<1>7. control' \in Transfers /\ control'.request = Received /\ control'.callback = callback
  BY <1>1, <1>3 DEF OnlyStatus, Transfers
<1>8. ASSUME SetupWaits PROVE Agreed'
  <2>1. host'.request = Received /\ host'.phase = "status"
    BY <1>1, <1>2, <1>8 DEF SetupWaits
  <2>2. StatusIn'
    BY <1>1, <1>3, <1>6, <1>7, <1>8, <2>1 DEF StatusIn, CallbackOf
  <2>3. QED
    BY <2>2 DEF Agreed
<1>9. QED
  BY <1>6, <1>7, <1>8, SetupKeeps

\* SET_ADDRESS, whose effect waits for the status stage.
LEMMA SetAddressKeeps == ControlInv /\ SetAddress => ControlInv'
<1> SUFFICES ASSUME ControlInv, SetAddress PROVE ControlInv'
  OBVIOUS
<1>1. Setup("address") /\ OnlyStatus(Received, "address")
  BY DEF SetAddress
<1>2. /\ Received \in Asked /\ Connected \in Devices
      /\ Connected.lineState = dev.lineState /\ Connected.coding = dev.coding
  BY <1>1, SetupFacts
<1>3. Received.value \in Nat
  BY <1>2, RequestFacts
<1>4. dev' = [Connected EXCEPT !.addressPending = Received.value]
  BY DEF SetAddress
<1>5. dev' \in Devices /\ dev'.lineState = dev.lineState /\ dev'.coding = dev.coding
      /\ dev'.addressPending = Received.value
  BY <1>2, <1>3, <1>4 DEF Devices
<1>6. CallbackOf([kind |-> "address"]) = "address"
  BY DEF CallbackOf
<1>7. QED
  BY <1>1, <1>5, <1>6, OnlyStatusKeeps

\* SET_CONFIGURATION, which may clear the device but not the line it reports.
LEMMA ConfigureKeeps == ControlInv /\ Configure => ControlInv'
<1> SUFFICES ASSUME ControlInv, Configure PROVE ControlInv'
  OBVIOUS
<1>1. Setup("configure") /\ OnlyStatus(Received, "none")
  BY DEF Configure
<1>2. /\ Received \in Asked /\ Connected \in Devices /\ dev \in Devices
      /\ Connected.lineState = dev.lineState /\ Connected.coding = dev.coding
  BY <1>1, SetupFacts
<1>3. Received.value \in Nat
  BY <1>2, RequestFacts
<1>4. LET r == ResetDevice(Received.value)
      IN  r \in Devices /\ r.lineState = dev.lineState /\ r.coding = dev.coding
  BY <1>2, <1>3 DEF Devices, ResetDevice
<1>5. dev' \in Devices /\ dev'.lineState = dev.lineState /\ dev'.coding = dev.coding
  BY <1>2, <1>4 DEF Configure
<1>6. CallbackOf([kind |-> "configure"]) = "none"
  BY DEF CallbackOf
<1>7. QED
  BY <1>1, <1>5, <1>6, OnlyStatusKeeps

\* The remote wakeup feature.
LEMMA SetWakeupKeeps == ControlInv /\ SetWakeup => ControlInv'
<1> SUFFICES ASSUME ControlInv, SetWakeup PROVE ControlInv'
  OBVIOUS
<1>1. Setup("wakeup") /\ OnlyStatus(Received, "none")
  BY DEF SetWakeup
<1>2. /\ Connected \in Devices
      /\ Connected.lineState = dev.lineState /\ Connected.coding = dev.coding
  BY <1>1, SetupFacts
<1>3. dev' \in Devices /\ dev'.lineState = dev.lineState /\ dev'.coding = dev.coding
  BY <1>2 DEF SetWakeup, Devices
<1>4. CallbackOf([kind |-> "wakeup"]) = "none"
  BY DEF CallbackOf
<1>5. QED
  BY <1>1, <1>3, <1>4, OnlyStatusKeeps

\* SET_CONTROL_LINE_STATE, whose effect waits for the status stage.
LEMMA SetLineStateKeeps == ControlInv /\ SetLineState => ControlInv'
<1> SUFFICES ASSUME ControlInv, SetLineState PROVE ControlInv'
  OBVIOUS
<1>1. Setup("lineState") /\ OnlyStatus(Received, "cdc") /\ dev' = Connected
  BY DEF SetLineState
<1>2. dev' \in Devices /\ dev'.lineState = dev.lineState /\ dev'.coding = dev.coding
  BY <1>1, SetupFacts
<1>3. CallbackOf([kind |-> "lineState"]) = "cdc"
  BY DEF CallbackOf
<1>4. QED
  BY <1>1, <1>2, <1>3, OnlyStatusKeeps

\* The endpoint halt features: the host waits for a status that nobody queues.
LEMMA HaltKeeps == ControlInv /\ Halt => ControlInv'
<1> SUFFICES ASSUME ControlInv, Halt PROVE ControlInv'
  OBVIOUS
<1>1. Setup("halt") /\ dev' = Connected /\ ep0' = ep0
      /\ control' = [control EXCEPT !.callback = "none"]
  BY DEF Halt
<1>2. /\ Received \in Asked /\ Received.kind = "halt" /\ host' = host
      /\ dev' \in Devices /\ dev'.lineState = dev.lineState /\ dev'.coding = dev.coding
      /\ SetupWaits => Received = host.request
  BY <1>1, SetupFacts
<1>3. Received.in = FALSE /\ Received.length = 0
  BY <1>2, RequestFacts
<1>4. ep0' \in Endpoints /\ Len(ep0'.sent) <= PacketSize /\ control \in Transfers
  BY <1>1 DEF ControlInv, Types
<1>5. control' \in Transfers
  BY <1>1, <1>4 DEF Transfers
<1>6. ASSUME SetupWaits PROVE Agreed'
  <2>1. host'.request = Received /\ host'.phase = "status"
    BY <1>2, <1>3, <1>6 DEF SetupWaits
  <2>2. Unanswered'
    BY <1>1, <1>2, <1>3, <1>6, <2>1 DEF Unanswered, SetupWaits, Supported, WaitsForOut
  <2>3. QED
    BY <2>2 DEF Agreed
<1>7. QED
  BY <1>1, <1>2, <1>4, <1>5, <1>6, SetupKeeps

\* A request that is not supported: the direction the host may wait for is stalled.
LEMMA RefuseKeeps == ControlInv /\ Refuse => ControlInv'
<1> SUFFICES ASSUME ControlInv, Refuse PROVE ControlInv'
  OBVIOUS
<1>1. Setup("refuse") /\ dev' = Connected /\ ep0' = [ep0 EXCEPT !.rx = "STALL"]
  BY DEF Refuse
<1>2. PICK callback \in {"none", "cdc"} : control' = [control EXCEPT !.callback = callback]
  BY DEF Refuse
<1>3. /\ Received.kind = "refuse" /\ host' = host
      /\ dev' \in Devices /\ dev'.lineState = dev.lineState /\ dev'.coding = dev.coding
      /\ SetupWaits => Received = host.request
  BY <1>1, SetupFacts
<1>4. ep0 \in Endpoints /\ Len(ep0.sent) <= PacketSize /\ control \in Transfers
  BY DEF ControlInv, Types
<1>5. ep0' \in Endpoints /\ Len(ep0'.sent) <= PacketSize
      /\ ep0'.rx = "STALL" /\ ep0'.tx = ep0.tx
  BY <1>1, <1>4 DEF Endpoints, Status
<1>6. control' \in Transfers
  BY <1>2, <1>4 DEF Transfers
<1>7. ASSUME SetupWaits PROVE Agreed'
  <2>1. host'.request.kind = "refuse" /\ host'.phase # "idle" /\ ep0'.tx = "NAK"
    BY <1>3, <1>5, <1>7 DEF SetupWaits
  <2>2. Unanswered'
    BY <1>5, <2>1 DEF Unanswered, Supported
  <2>3. QED
    BY <2>2 DEF Agreed
<1>8. QED
  BY <1>1, <1>3, <1>5, <1>6, <1>7, SetupKeeps

\* A response, of which the first packet is queued, or nothing if nothing is asked for.
LEMMA DescribeKeeps == ControlInv /\ Describe => ControlInv'
<1> SUFFICES ASSUME ControlInv, Describe PROVE ControlInv'
  OBVIOUS
<1> DEFINE size == Min({Received.value, Received.length})
           t == [request |-> Received, filled |-> TRUE, fed |-> 0, total |-> size,
                 callback |-> "none"]
<1>1. Setup("describe") /\ Respond(Received, Received.value, "none") /\ dev' = Connected
  BY DEF Describe
<1>2. /\ Received \in Asked /\ Received.kind = "describe" /\ host' = host
      /\ dev' \in Devices /\ dev'.lineState = dev.lineState /\ dev'.coding = dev.coding
      /\ SetupWaits => Received = host.request
  BY <1>1, SetupFacts
<1>3. Received.in = TRUE /\ Received.length \in Nat /\ Received.value \in Nat
  BY <1>2, RequestFacts
<1>4. size \in Nat
  BY <1>3, MinOfTwo
<1>5. control' = t
      /\ ep0' = IF Received.length > 0 THEN DataStage(t) ELSE StatusStage(Received)
  BY <1>1 DEF Respond
<1>6. /\ t.request = Received /\ t.filled = TRUE /\ t.fed = 0 /\ t.total = size
      /\ t.callback = "none"
  OBVIOUS
<1>7. t \in Transfers
  BY <1>2, <1>4 DEF Transfers
<1> HIDE DEF t
<1>8. Types /\ Chunk(t) \in Seq(Nat) /\ Len(Chunk(t)) <= PacketSize
  BY <1>4, <1>6, ChunkFacts DEF ControlInv
<1>9. ep0' \in Endpoints /\ Len(ep0'.sent) <= PacketSize
  <2> HIDE DEF size
  <2>1. t.fed \in Nat /\ t.total \in Nat
    BY <1>4, <1>6
  <2>2. Received.in \in BOOLEAN
    BY <1>2, RequestFacts
  <2>3. /\ StatusStage(Received) \in Endpoints /\ Len(StatusStage(Received).sent) <= PacketSize
        /\ DataStage(t) \in Endpoints /\ Len(DataStage(t).sent) <= PacketSize
    BY <1>8, <2>1, <2>2, StageTypes
  <2>4. QED
    BY <1>5, <2>3
<1>10. ASSUME SetupWaits PROVE Agreed'
  <2>1. /\ host'.request = Received /\ host'.got = <<>> /\ ep0.tx = "NAK" /\ ep0.rx = "NAK"
        /\ host'.phase = IF Received.length > 0 THEN "data" ELSE "status"
    BY <1>2, <1>10 DEF SetupWaits
  <2>2. CASE Received.length > 0
    <3>1. ep0' = ArmIn(Chunk(t))
      BY <1>3, <1>5, <1>6, <2>2 DEF DataStage
    <3>2. ep0'.tx = "VALID" /\ ep0'.rx = "NAK" /\ ep0'.sent = Chunk(t)
      BY <1>8, <2>1, <3>1, ArmFacts
    <3>3. Len(host'.got) = 0 /\ host'.got = [i \in 1..Len(host'.got) |-> i]
      BY <2>1
    <3>4. host'.got = [i \in 1..Len(host'.got) |-> i] /\ Len(host'.got) <= size
      BY <1>4, <3>3
    <3>5. Ordered'
      BY <1>2, <1>5, <1>6, <2>1, <2>2, <3>4 DEF Ordered
    <3>6. Sending'
      BY <1>5, <1>6, <2>1, <2>2, <3>2, <3>3, <3>5 DEF Sending, Chunk
    <3>7. QED
      BY <3>6 DEF Agreed
  <2>3. CASE ~(Received.length > 0)
    <3>1. ep0' = ArmOut /\ Received.length = 0
      BY <1>3, <1>5, <2>3 DEF StatusStage
    <3>2. ep0'.tx = "NAK"
      BY <1>8, <2>1, <3>1, ArmFacts
    <3>3. Unanswered'
      BY <1>2, <1>3, <2>1, <3>1, <3>2 DEF Unanswered, Supported, WaitsForOut, WaitsForIn
    <3>4. QED
      BY <3>3 DEF Agreed
  <2>4. QED
    BY <2>2, <2>3
<1>11. QED
  BY <1>1, <1>2, <1>5, <1>7, <1>9, <1>10, SetupKeeps

\* CDC SET_LINE_CODING: the handler makes room for the packet of the data stage.
LEMMA SetLineCodingKeeps == ControlInv /\ SetLineCoding => ControlInv'
<1> SUFFICES ASSUME ControlInv, SetLineCoding PROVE ControlInv'
  OBVIOUS
<1> DEFINE size == Min({7, Received.length})
           t == [request |-> Received, filled |-> TRUE, fed |-> 0, total |-> size,
                 callback |-> "cdc"]
<1>1. Setup("lineCoding") /\ Respond(Received, 7, "cdc") /\ dev' = Connected
  BY DEF SetLineCoding
<1>2. /\ Received \in Asked /\ Received.kind = "lineCoding" /\ host' = host
      /\ dev' \in Devices /\ dev'.lineState = dev.lineState /\ dev'.coding = dev.coding
      /\ SetupWaits => Received = host.request
  BY <1>1, SetupFacts
<1>3. Received.in = FALSE /\ Received.length \in Nat /\ Received.length > 0
  BY <1>2, RequestFacts
<1>4. size \in Nat
  BY <1>3, MinOfTwo
<1>5. control' = t /\ ep0' = DataStage(t)
  BY <1>1, <1>3 DEF Respond
<1>6. /\ t.request = Received /\ t.filled = TRUE /\ t.fed = 0 /\ t.callback = "cdc"
  OBVIOUS
<1>7. t \in Transfers
  BY <1>2, <1>4 DEF Transfers
<1>8. ep0' = ArmOut
  BY <1>3, <1>5 DEF DataStage
<1>9. Types /\ <<>> \in Seq(Nat) /\ Len(<<>>) <= PacketSize
      /\ ep0.sent = ep0.sent /\ Len(ep0.sent) <= PacketSize
  BY UsbAssumption DEF ControlInv, Types
<1>10. ep0' \in Endpoints /\ Len(ep0'.sent) <= PacketSize
       /\ ep0'.rx = "VALID" /\ ep0'.tx = ep0.tx
  BY <1>8, <1>9, ArmFacts
<1> HIDE DEF t
<1>11. ASSUME SetupWaits PROVE Agreed'
  <2>1. /\ host'.request = Received /\ host'.phase = "data" /\ host'.coding = Unknown
        /\ ep0'.tx = "NAK"
    BY <1>2, <1>3, <1>10, <1>11 DEF SetupWaits
  <2>2. Receiving'
    BY <1>2, <1>5, <1>6, <1>10, <2>1 DEF Receiving
  <2>3. QED
    BY <2>2 DEF Agreed
<1>12. QED
  BY <1>1, <1>2, <1>5, <1>7, <1>10, <1>11, SetupKeeps

-----------------------------------------------------------------------------
(* The handler: the packets of the data and status stages.                  *)

\* Whatever a completed packet does, it stays within the types.
LEMMA CompleteTypes ==
  ASSUME Types, NEW in \in BOOLEAN, NEW transferred \in Nat,
         TransferComplete(in, transferred)
  PROVE  /\ dev' \in Devices /\ daddr' \in Nat \union {Off} /\ control' \in Transfers
         /\ ep0' \in Endpoints /\ Len(ep0'.sent) <= PacketSize
<1>1. /\ dev \in Devices /\ daddr \in Nat \union {Off} /\ control \in Transfers
      /\ ep0 \in Endpoints /\ Len(ep0.sent) <= PacketSize
  BY DEF Types
<1>2. /\ dev.addressPending \in Nat /\ control.request \in Asked /\ control.fed \in Nat
      /\ control.total \in Nat
  BY <1>1 DEF Devices, Transfers
<1>3. control.request.value \in Nat /\ control.request.in \in BOOLEAN
  BY <1>2, RequestFacts
<1>4. CASE control.request.in # in
  <2>1. StatusComplete(transferred)
    BY <1>4 DEF TransferComplete
  <2>2. control' = control /\ ep0' = ep0
    BY <2>1 DEF StatusComplete
  <2>3. dev' \in Devices /\ daddr' \in Nat \union {Off}
    <3>1. [dev EXCEPT !.address = dev.addressPending, !.addressPending = 0,
                      !.addressed = dev.addressPending # 0] \in Devices
      BY <1>1, <1>2 DEF Devices
    <3>2. [dev EXCEPT !.lineState = control.request.value] \in Devices
      BY <1>1, <1>3 DEF Devices
    <3>3. QED
      BY <1>1, <1>2, <2>1, <3>1, <3>2 DEF StatusComplete
  <2>4. QED
    BY <1>1, <2>2, <2>3
<1>5. CASE control.request.in = in
  <2>1. DataComplete(transferred)
    BY <1>5 DEF TransferComplete
  <2>2. daddr' = daddr
    BY <2>1 DEF DataComplete
  <2>3. dev' \in Devices
    <3>1. [dev EXCEPT !.coding = control.request.value] \in Devices
      BY <1>1, <1>3 DEF Devices
    <3>2. QED
      BY <1>1, <2>1, <3>1 DEF DataComplete
  <2>4. CASE ~control.request.in /\ ~control.filled
    BY <1>1, <2>1, <2>2, <2>3, <2>4 DEF DataComplete
  <2>5. CASE ~(~control.request.in /\ ~control.filled)
    <3> DEFINE fed == control.fed + transferred
               t == [control EXCEPT !.fed = fed]
    <3>1. control' = t
          /\ (ep0' = StatusStage(control.request) \/ ep0' = DataStage(t))
      BY <2>1, <2>5 DEF DataComplete
    <3>2. t \in Transfers
      BY <1>1, <1>2 DEF Transfers
    <3>3. t.fed \in Nat /\ t.total \in Nat
      BY <3>2 DEF Transfers
    <3> HIDE DEF t
    <3>4. ep0' \in Endpoints /\ Len(ep0'.sent) <= PacketSize
      BY <1>3, <3>1, <3>3, StageTypes
    <3>5. QED
      BY <1>1, <2>2, <2>3, <3>1, <3>2, <3>4
  <2>6. QED
    BY <2>4, <2>5
<1>6. QED
  BY <1>4, <1>5

\* A packet from the host: the status of a response, or the bytes of a line coding.
LEMMA ReceivePacketKeeps == ControlInv /\ ReceivePacket => ControlInv'
<1> SUFFICES ASSUME ControlInv, ReceivePacket PROVE ControlInv'
  OBVIOUS
<1> DEFINE count == ep0.received.count
<1>1. /\ pending.vtrx /\ pending' \in FlagSets /\ isr' \in Handlers
      /\ ~pending'.vtrx /\ ~pending'.vttx /\ pending'.reset = pending.reset
      /\ isr'.at = "idle"
  BY ReceiveServed DEF ReceivePacket
<1>2. host' = host /\ aborts' = aborts /\ resets' = resets /\ ~ep0.received.setup
      /\ TransferComplete(FALSE, count)
  BY DEF ReceivePacket
<1>3. Types /\ dev \in Devices /\ control \in Transfers /\ ep0 \in Endpoints
  BY DEF ControlInv, Types
<1>4. count \in Nat
  BY <1>3 DEF Endpoints, Packets
<1>5. /\ dev' \in Devices /\ daddr' \in Nat \union {Off} /\ control' \in Transfers
      /\ ep0' \in Endpoints /\ Len(ep0'.sent) <= PacketSize
  BY <1>2, <1>3, <1>4, CompleteTypes
<1>6. Types'
  BY <1>1, <1>2, <1>3, <1>5 DEF Types
<1>7. HandlerInv'
  BY <1>1, <1>2 DEF ControlInv, HandlerInv
<1>8. ASSUME ~pending.reset PROVE Agreed' /\ Applied'
  <2>1. OutWaits
    BY <1>1, <1>2, <1>8 DEF ControlInv, StageInv
  <2>2. ep0.tx = "NAK" /\ Applied
    BY <2>1 DEF OutWaits
  <2>3. CASE host.phase = "idle" /\ control.request.in /\ control.callback = "none"
    <3>1. StatusComplete(count)
      BY <1>2, <2>3 DEF TransferComplete
    <3>2. dev' = dev /\ daddr' = daddr /\ ep0' = ep0
      BY <2>3, <3>1 DEF StatusComplete
    <3>3. QED
      BY <1>2, <2>2, <2>3, <3>2 DEF Agreed, Applied, LineApplied, CodingApplied
  <2>4. CASE /\ host.phase = "status" /\ host.request.kind = "lineCoding"
             /\ control.request = host.request /\ control.filled /\ control.fed = 0
             /\ control.callback = "cdc" /\ count = host.request.length
             /\ host.coding = Unknown
    <3>1. control.request \in Asked
      BY <1>3 DEF Transfers
    <3>2. control.request.in = FALSE
      BY <2>4, <3>1, RequestFacts
    <3>3. DataComplete(count)
      BY <1>2, <3>2 DEF TransferComplete
    <3>4. dev' = [dev EXCEPT !.coding = host.request.value] /\ daddr' = daddr
      BY <2>4, <3>2, <3>3 DEF DataComplete
    <3>5. dev'.coding = host.request.value /\ dev'.lineState = dev.lineState
      BY <1>3, <3>4 DEF Devices
    <3>6. control.fed + count = control.request.length
      BY <1>4, <2>4
    <3>7. control' = [control EXCEPT !.fed = control.fed + count]
          /\ ep0' = StatusStage(control.request)
      BY <2>4, <3>2, <3>3, <3>6 DEF DataComplete
    <3>8. control'.request = host.request /\ control'.callback = "cdc"
      BY <1>3, <2>4, <3>7 DEF Transfers
    <3>9. ep0' = ArmIn(<<>>)
      BY <3>2, <3>7 DEF StatusStage
    <3>10. <<>> \in Seq(Nat) /\ Len(<<>>) <= PacketSize
      BY UsbAssumption
    <3>11. ep0'.tx = "VALID" /\ ep0'.sent = <<>>
      BY <1>3, <3>9, <3>10, ArmFacts
    <3>12. StatusIn'
      BY <1>2, <2>4, <3>5, <3>8, <3>11 DEF StatusIn, CallbackOf
    <3>13. Applied'
      BY <1>2, <2>2, <2>4, <3>4, <3>5 DEF Applied, LineApplied, CodingApplied
    <3>14. QED
      BY <3>12, <3>13 DEF Agreed
  <2>5. QED
    BY <2>1, <2>3, <2>4 DEF OutWaits
<1>9. StageInv'
  <2>1. CASE pending.reset
    BY <1>1, <1>2, <2>1 DEF ControlInv, StageInv, Forgotten
  <2>2. CASE ~pending.reset
    BY <1>1, <1>8, <2>2 DEF StageInv
  <2>3. QED
    BY <2>1, <2>2
<1>10. QED
  BY <1>6, <1>7, <1>9 DEF ControlInv

\* The status of a request without a response was acknowledged: it takes effect.
LEMMA EffectHappens ==
  ASSUME Types, EffectWaits, StatusComplete(0), host' = host
  PROVE  Applied'
<1>1. dev \in Devices
  BY DEF Types
<1>2. CASE /\ control.callback = "address" /\ dev.addressPending = host.address
           /\ LineApplied /\ CodingApplied
  <2>1. daddr' = host.address
        /\ dev' = [dev EXCEPT !.address = dev.addressPending, !.addressPending = 0,
                              !.addressed = dev.addressPending # 0]
    BY <1>2 DEF StatusComplete
  <2>2. dev'.lineState = dev.lineState /\ dev'.coding = dev.coding
    BY <1>1, <2>1 DEF Devices
  <2>3. QED
    BY <1>2, <2>1, <2>2 DEF Applied, LineApplied, CodingApplied
<1>3. CASE /\ control.callback = "cdc" /\ control.request.kind = "lineState"
           /\ host.lineState = control.request.value /\ daddr = host.address
           /\ CodingApplied
  <2>1. daddr' = daddr /\ dev' = [dev EXCEPT !.lineState = control.request.value]
    BY <1>3 DEF StatusComplete
  <2>2. dev'.lineState = control.request.value /\ dev'.coding = dev.coding
    BY <1>1, <2>1 DEF Devices
  <2>3. QED
    BY <1>3, <2>1, <2>2 DEF Applied, LineApplied, CodingApplied
<1>4. CASE /\ control.callback # "address"
           /\ ~(control.callback = "cdc" /\ control.request.kind = "lineState")
           /\ Applied
  <2>1. daddr' = daddr /\ dev' = dev
    BY <1>4 DEF StatusComplete
  <2>2. QED
    BY <1>4, <2>1 DEF Applied, LineApplied, CodingApplied
<1>5. QED
  BY <1>2, <1>3, <1>4 DEF EffectWaits

\* An acknowledged packet: the next one of the response, its status stage, or the
\* effect of a request that was only waiting for its status.
LEMMA TransmitCompleteKeeps == ControlInv /\ TransmitComplete => ControlInv'
<1> SUFFICES ASSUME ControlInv, TransmitComplete PROVE ControlInv'
  OBVIOUS
<1> DEFINE count == Len(ep0.sent)
<1>1. /\ host' = host /\ aborts' = aborts /\ resets' = resets
      /\ pending' = [pending EXCEPT !.vttx = FALSE]
      /\ isr' = [at |-> "idle", vttx |-> FALSE] /\ isr.at = "transmit"
      /\ TransferComplete(TRUE, count)
  BY DEF TransmitComplete
<1>2. /\ Types /\ dev \in Devices /\ control \in Transfers /\ ep0 \in Endpoints
      /\ pending \in FlagSets /\ host \in Hosts
  BY DEF ControlInv, Types
<1>3. pending.vttx /\ ~pending.vtrx
  BY <1>1 DEF ControlInv, HandlerInv
<1>4. /\ pending' \in FlagSets /\ isr' \in Handlers /\ isr'.at = "idle"
      /\ ~pending'.vtrx /\ ~pending'.vttx /\ pending'.reset = pending.reset
  BY <1>1, <1>2, <1>3 DEF FlagSets, Handlers
<1>5. ep0.sent \in Seq(Nat) /\ count \in Nat
  BY <1>2 DEF Endpoints
<1>6. /\ dev' \in Devices /\ daddr' \in Nat \union {Off} /\ control' \in Transfers
      /\ ep0' \in Endpoints /\ Len(ep0'.sent) <= PacketSize
  BY <1>1, <1>2, <1>5, CompleteTypes
<1>7. Types'
  BY <1>1, <1>2, <1>4, <1>6 DEF Types
<1>8. HandlerInv'
  BY <1>1, <1>4 DEF ControlInv, HandlerInv
<1>9. ASSUME ~pending.reset PROVE Agreed' /\ Applied'
  <2>1. InWaits
    BY <1>3, <1>9 DEF ControlInv, StageInv
  <2>2. ep0.tx = "NAK"
    BY <2>1 DEF InWaits
  <2>3. CASE /\ Ordered /\ Applied /\ host.phase # "idle" /\ ep0.rx = "NAK"
             /\ Len(host.got) = control.fed + count
             /\ host.phase = "status" <=>
                  Len(host.got) = host.request.length \/ count < PacketSize
             /\ host.phase = "status" => Len(host.got) = control.total
    <3> DEFINE t == [control EXCEPT !.fed = control.fed + count]
    <3>1. control.request \in Asked /\ control.request = host.request
          /\ control.request.kind = "describe"
      BY <1>2, <2>3 DEF Transfers, Ordered
    <3>2. control.request.in = TRUE
      BY <3>1, RequestFacts
    <3>3. DataComplete(count)
      BY <1>1, <3>2 DEF TransferComplete
    <3>4. control' = t /\ dev' = dev /\ daddr' = daddr
          /\ ep0' = IF control.request.length = control.fed + count \/ count < PacketSize
                    THEN StatusStage(control.request) ELSE DataStage(t)
      BY <3>2, <3>3 DEF DataComplete
    <3>5. /\ t.request = control.request /\ t.filled = control.filled
          /\ t.callback = control.callback /\ t.total = control.total
          /\ t.fed = control.fed + count /\ t.fed \in Nat /\ t.total \in Nat
      BY <1>2, <1>5 DEF Transfers
    <3> HIDE DEF t
    <3>6. Ordered'
      BY <1>1, <2>3, <3>4, <3>5 DEF Ordered
    <3>7. Applied'
      BY <1>1, <2>3, <3>4 DEF Applied, LineApplied, CodingApplied
    <3>8. CASE host.phase = "status"
      <4>1. ep0' = ArmOut
        BY <2>3, <3>1, <3>2, <3>4, <3>8 DEF StatusStage
      <4>2. <<>> \in Seq(Nat) /\ Len(<<>>) <= PacketSize
        BY UsbAssumption
      <4>3. ep0'.rx = "VALID" /\ ep0'.tx = "NAK"
        BY <1>2, <2>2, <4>1, <4>2, ArmFacts
      <4>4. StatusOut'
        BY <1>1, <2>3, <3>4, <3>5, <3>6, <3>8, <4>3 DEF StatusOut
      <4>5. QED
        BY <3>7, <4>4 DEF Agreed
    <3>9. CASE host.phase # "status"
      <4>1. ep0' = ArmIn(Chunk(t))
        BY <2>3, <3>1, <3>2, <3>4, <3>5, <3>9 DEF DataStage
      <4>2. Chunk(t) \in Seq(Nat) /\ Len(Chunk(t)) <= PacketSize
        BY <3>5, ChunkFacts
      <4>3. ep0'.tx = "VALID" /\ ep0'.sent = Chunk(t) /\ ep0'.rx = "NAK"
        BY <1>2, <2>3, <4>1, <4>2, ArmFacts
      <4>4. host'.phase = "data"
        BY <1>1, <1>2, <2>3, <3>9 DEF Hosts
      <4>5. Sending'
        BY <1>1, <2>3, <3>4, <3>5, <3>6, <4>3, <4>4 DEF Sending, Chunk
      <4>6. QED
        BY <3>7, <4>5 DEF Agreed
    <3>10. QED
      BY <3>8, <3>9
  <2>4. CASE host.phase = "idle" /\ ~control.request.in /\ ep0.sent = <<>> /\ EffectWaits
    <3>1. control.request \in Asked
      BY <1>2 DEF Transfers
    <3>2. control.request.in # TRUE
      BY <2>4
    <3>3. StatusComplete(0)
      BY <1>1, <2>4, <3>2 DEF TransferComplete
    <3>4. Applied'
      BY <1>1, <1>2, <2>4, <3>3, EffectHappens
    <3>5. ep0' = ep0
      BY <3>3 DEF StatusComplete
    <3>6. QED
      BY <1>1, <2>2, <2>4, <3>4, <3>5 DEF Agreed
  <2>5. QED
    BY <2>1, <2>3, <2>4 DEF InWaits
<1>10. StageInv'
  <2>1. CASE pending.reset
    BY <1>1, <1>4, <2>1 DEF ControlInv, StageInv, Forgotten
  <2>2. CASE ~pending.reset
    BY <1>4, <1>9, <2>2 DEF StageInv
  <2>3. QED
    BY <2>1, <2>2
<1>11. QED
  BY <1>7, <1>8, <1>10 DEF ControlInv

-----------------------------------------------------------------------------
(* The host.                                                                *)

\* A host that sees an answer has nothing waiting for the handler.
LEMMA AnswerIsSeen ==
  ASSUME ControlInv, ~pending.reset,
         \/ WaitsForIn /\ ep0.tx # "NAK"
         \/ WaitsForOut /\ ep0.rx # "NAK"
  PROVE  ~pending.vtrx /\ ~pending.vttx /\ isr.at = "idle" /\ Agreed /\ Applied
<1>1. host.phase # "idle"
  BY DEF WaitsForIn, WaitsForOut
<1>2. ~pending.vtrx
  BY <1>1 DEF ControlInv, StageInv, SetupWaits, OutWaits
<1>3. ~pending.vttx
  BY <1>1 DEF ControlInv, StageInv, InWaits
<1>4. isr.at = "idle"
  BY <1>2, <1>3 DEF ControlInv, HandlerInv, Types, Handlers
<1>5. QED
  BY <1>2, <1>3, <1>4 DEF ControlInv, StageInv

\* The host starts a transfer: the handler has seen all of the one before.
LEMMA HostSetupKeeps ==
  ASSUME PromptAck, ControlInv, NEW request \in Requests, HostSetup(request)
  PROVE  ControlInv'
<1>1. /\ ~pending.reset /\ ~pending.vtrx /\ ~pending.vttx
      /\ dev' = dev /\ daddr' = daddr /\ control' = control /\ isr' = isr
      /\ resets' = resets
      /\ ep0' = [ep0 EXCEPT !.rx = "NAK", !.tx = "NAK",
                   !.received = [setup |-> TRUE, request |-> request, count |-> 8]]
      /\ pending' = [pending EXCEPT !.vtrx = TRUE]
      /\ host' = [host EXCEPT !.phase = IF request.length > 0 THEN "data" ELSE "status",
                     !.request = request, !.got = <<>>,
                     !.coding = IF request.kind = "lineCoding" THEN Unknown ELSE @]
  BY DEF HostSetup, device
<1>2. /\ Types /\ ep0 \in Endpoints /\ Len(ep0.sent) <= PacketSize
      /\ pending \in FlagSets /\ host \in Hosts /\ request \in Asked
      /\ aborts \in 0..MaxAborts
  BY DEF ControlInv, Types, Asked
<1>3. isr.at = "idle"
  BY <1>1 DEF ControlInv, HandlerInv, Types, Handlers
<1>4. pending' \in FlagSets /\ pending'.vtrx /\ ~pending'.vttx /\ ~pending'.reset
  BY <1>1, <1>2 DEF FlagSets
<1>5. [setup |-> TRUE, request |-> request, count |-> 8] \in Packets
  BY <1>2 DEF Packets
<1>6. /\ ep0' \in Endpoints /\ Len(ep0'.sent) <= PacketSize
      /\ ep0'.rx = "NAK" /\ ep0'.tx = "NAK"
      /\ ep0'.received = [setup |-> TRUE, request |-> request, count |-> 8]
  BY <1>1, <1>2, <1>5 DEF Endpoints, Status
<1>7. ep0'.received.setup /\ ep0'.received.request = request
  BY <1>6
<1>8. /\ host' \in Hosts /\ host'.request = request /\ host'.got = <<>>
      /\ host'.phase = IF request.length > 0 THEN "data" ELSE "status"
      /\ host'.address = host.address /\ host'.lineState = host.lineState
      /\ host'.coding = IF request.kind = "lineCoding" THEN Unknown ELSE host.coding
  <2>1. host.coding \in Nat \union {Unknown}
    BY <1>2 DEF Hosts
  <2>2. <<>> \in Seq(Nat)
    OBVIOUS
  <2>3. QED
    BY <1>1, <1>2, <2>1, <2>2 DEF Hosts
<1>9. aborts' \in 0..MaxAborts
  BY <1>2, UsbAssumption DEF HostSetup
<1>10. Types'
  BY <1>1, <1>2, <1>4, <1>6, <1>8, <1>9 DEF Types
<1>11. HandlerInv'
  BY <1>1, <1>3, <1>4, <1>8 DEF HandlerInv
<1>12. Applied
  BY <1>1 DEF ControlInv, StageInv
<1>13. Applied'
  BY <1>1, <1>8, <1>12 DEF Applied, LineApplied, CodingApplied
<1>14. SetupWaits'
  BY <1>6, <1>7, <1>8, <1>13 DEF SetupWaits
<1>15. StageInv'
  BY <1>4, <1>7, <1>14 DEF StageInv
<1>16. QED
  BY <1>10, <1>11, <1>15 DEF ControlInv

\* A packet that goes on counting where the bytes read before it ended.
LEMMA CountsOn ==
  ASSUME NEW g \in Seq(Nat), NEW p \in Seq(Nat), g = [i \in 1..Len(g) |-> i],
         \A i \in 1..Len(p) : p[i] = Len(g) + i
  PROVE  /\ g \o p \in Seq(Nat) /\ Len(g \o p) = Len(g) + Len(p)
         /\ g \o p = [i \in 1..Len(g \o p) |-> i]
<1>1. g \o p \in Seq(Nat) /\ Len(g \o p) = Len(g) + Len(p)
  BY ConcatProperties
<1>2. \A i \in 1..Len(g \o p) : (g \o p)[i] = i
  <2> SUFFICES ASSUME NEW i \in 1..Len(g \o p) PROVE (g \o p)[i] = i
    OBVIOUS
  <2>1. CASE i <= Len(g)
    <3>1. (g \o p)[i] = g[i] /\ i \in 1..Len(g)
      BY <1>1, <2>1, ConcatProperties
    <3>2. QED
      BY <3>1
  <2>2. CASE ~(i <= Len(g))
    <3>1. (g \o p)[i] = p[i - Len(g)] /\ i - Len(g) \in 1..Len(p)
      BY <1>1, <2>2, ConcatProperties
    <3>2. QED
      BY <3>1
  <2>3. QED
    BY <2>1, <2>2
<1>3. \A q \in Seq(Nat) : (\A i \in 1..Len(q) : q[i] = i) => q = [i \in 1..Len(q) |-> i]
  OBVIOUS
<1>4. QED
  BY <1>1, <1>2, <1>3

\* The host reads a packet of the response.
LEMMA ReadsOn ==
  ASSUME ControlInv, HostIn, Sending, Applied
  PROVE  /\ host' \in Hosts /\ host'.phase # "idle" /\ host'.request = host.request
         /\ InWaits'
<1> DEFINE n == Len(ep0.sent)
           got == host.got \o ep0.sent
           over == Len(got) >= host.request.length \/ n < PacketSize
<1>1. /\ dev' = dev /\ daddr' = daddr /\ control' = control
      /\ ep0' = [ep0 EXCEPT !.tx = "NAK"] /\ host.phase = "data"
      /\ host' = [host EXCEPT !.got = got, !.phase = IF over THEN "status" ELSE @]
  BY DEF HostIn, Sending, device
<1>2. /\ ep0 \in Endpoints /\ host \in Hosts /\ control \in Transfers
      /\ control.request \in Asked /\ control.request = host.request
      /\ control.total \in Nat /\ control.fed \in Nat
      /\ host.got \in Seq(Nat) /\ ep0.sent \in Seq(Nat)
  BY DEF ControlInv, Types, Endpoints, Hosts, Transfers, Sending, Ordered
<1>3. host.request.length \in Nat /\ host.request.value \in Nat /\ host.request.length < 65536
  BY <1>2, RequestFacts
<1>4. control.total <= host.request.length
  <2>1. control.total = Min({host.request.value, host.request.length})
    BY DEF Sending, Ordered
  <2>2. host.request.value \in Int /\ host.request.length \in Int
    BY <1>3
  <2>3. control.total = IF host.request.value <= host.request.length
                        THEN host.request.value ELSE host.request.length
    BY <2>1, <2>2, MinOfTwo, Zenon
  <2>4. QED
    BY <1>3, <2>3
<1>5. /\ host.got = [i \in 1..Len(host.got) |-> i] /\ Len(host.got) <= control.total
      /\ control.fed = Len(host.got) /\ ep0.sent = Chunk(control) /\ ep0.rx = "NAK"
  BY DEF Sending, Ordered
<1>6. \A i \in 1..n : ep0.sent[i] = Len(host.got) + i
  <2>1. \A i \in 1..Len(Chunk(control)) : Chunk(control)[i] = control.fed + i
    BY <1>2, ChunkFacts
  <2>2. QED
    BY <1>5, <2>1
<1>7. n \in Nat /\ Len(host.got) \in Nat /\ PacketSize \in Nat
  BY <1>2, UsbAssumption
<1>8. n = IF control.total - control.fed <= PacketSize
          THEN control.total - control.fed ELSE PacketSize
  <2>1. control.fed <= control.total /\ control.total < 65536
    BY <1>2, <1>3, <1>4, <1>5
  <2>2. QED
    BY <1>2, <1>5, <2>1, ChunkFacts
<1>9. got \in Seq(Nat) /\ Len(got) = Len(host.got) + n /\ got = [i \in 1..Len(got) |-> i]
  BY <1>2, <1>5, <1>6, CountsOn
<1> HIDE DEF got
<1>10. Len(got) <= control.total /\ Len(got) \in Nat
  BY <1>2, <1>5, <1>7, <1>8, <1>9
<1>11. /\ over <=> (Len(got) = host.request.length \/ n < PacketSize)
       /\ over => Len(got) = control.total
  BY <1>2, <1>3, <1>4, <1>5, <1>7, <1>8, <1>9, <1>10
<1> HIDE DEF over
<1>12. /\ host' \in Hosts /\ host'.got = got /\ host'.request = host.request
       /\ host'.phase = IF over THEN "status" ELSE "data"
       /\ host'.address = host.address /\ host'.lineState = host.lineState
       /\ host'.coding = host.coding
  BY <1>1, <1>2, <1>9 DEF Hosts
<1>13. ep0'.tx = "NAK" /\ ep0'.rx = "NAK" /\ ep0'.sent = ep0.sent
  BY <1>1, <1>2, <1>5 DEF Endpoints
<1>14. Ordered'
  BY <1>1, <1>9, <1>10, <1>12 DEF Ordered, Sending
<1>15. Applied'
  BY <1>1, <1>12 DEF Applied, LineApplied, CodingApplied
<1>16. Len(host'.got) = control'.fed + Len(ep0'.sent)
  BY <1>1, <1>5, <1>9, <1>12, <1>13
<1>17. InWaits'
  BY <1>1, <1>11, <1>12, <1>13, <1>14, <1>15, <1>16 DEF InWaits
<1>18. QED
  BY <1>12, <1>17

\* A host without a transfer keeps what it knows of the device.
LEMMA DoneFacts ==
  ASSUME Types
  PROVE  /\ Done \in Hosts /\ Done.phase = "idle" /\ Done.request = NoRequest
         /\ Done.address = host.address /\ Done.lineState = host.lineState
         /\ Done.coding = host.coding
<1>1. NoRequest \in Asked /\ <<>> \in Seq(Nat) /\ host \in Hosts
  BY DEF Types, Asked
<1>2. QED
  BY <1>1 DEF Hosts, Done

\* The host reads the empty status of a request: it takes the request for done.
LEMMA ReadsStatus ==
  ASSUME ControlInv, HostIn, StatusIn, Applied
  PROVE  /\ host' \in Hosts /\ host'.phase = "idle" /\ host'.request = NoRequest
         /\ InWaits'
<1>1. /\ dev' = dev /\ daddr' = daddr /\ control' = control
      /\ ep0' = [ep0 EXCEPT !.tx = "NAK"] /\ host.phase = "status"
      /\ host' = [Done EXCEPT
            !.address = IF host.request.kind = "address" THEN host.request.value ELSE @,
            !.lineState = IF host.request.kind = "lineState" THEN host.request.value ELSE @,
            !.coding = IF host.request.kind = "lineCoding" THEN host.request.value ELSE @]
  BY DEF HostIn, StatusIn, device
<1>2. /\ ep0 \in Endpoints /\ host \in Hosts /\ control.request = host.request
      /\ host.request \in Asked
  BY DEF ControlInv, Types, Hosts, StatusIn
<1>3. host.request.value \in Nat
  BY <1>2, RequestFacts
<1>4. /\ Done \in Hosts /\ Done.phase = "idle" /\ Done.request = NoRequest
      /\ Done.address = host.address /\ Done.lineState = host.lineState
      /\ Done.coding = host.coding
  BY DoneFacts DEF ControlInv
<1>5. /\ host' \in Hosts /\ host'.phase = "idle" /\ host'.request = NoRequest
      /\ host'.address = IF host.request.kind = "address" THEN host.request.value
                         ELSE host.address
      /\ host'.lineState = IF host.request.kind = "lineState" THEN host.request.value
                           ELSE host.lineState
      /\ host'.coding = IF host.request.kind = "lineCoding" THEN host.request.value
                        ELSE host.coding
  BY <1>1, <1>3, <1>4 DEF Hosts
<1>6. ep0'.tx = "NAK" /\ ep0'.sent = <<>>
  BY <1>1, <1>2 DEF Endpoints, StatusIn
<1>7. control'.request.in = FALSE
  <2>1. control'.request = host.request
        /\ host.request.kind \in {"address", "configure", "wakeup", "lineState", "lineCoding"}
    BY <1>1, <1>2 DEF StatusIn
  <2>2. QED
    BY <1>2, <2>1, RequestFacts
<1>8. EffectWaits'
  BY <1>1, <1>2, <1>5
  DEF StatusIn, CallbackOf, EffectWaits, Applied, LineApplied, CodingApplied
<1>9. InWaits'
  BY <1>5, <1>6, <1>7, <1>8 DEF InWaits
<1>10. QED
  BY <1>5, <1>9

\* The host reads a packet.
LEMMA HostInKeeps == ControlInv /\ HostIn => ControlInv'
<1> SUFFICES ASSUME ControlInv, HostIn PROVE ControlInv'
  OBVIOUS
<1>1. /\ ~pending.reset /\ WaitsForIn /\ ep0.tx = "VALID"
      /\ dev' = dev /\ daddr' = daddr /\ control' = control /\ isr' = isr
      /\ aborts' = aborts /\ resets' = resets
      /\ ep0' = [ep0 EXCEPT !.tx = "NAK"] /\ pending' = [pending EXCEPT !.vttx = TRUE]
  BY DEF HostIn, Answers, device
<1>2. ~pending.vtrx /\ ~pending.vttx /\ isr.at = "idle" /\ Agreed /\ Applied
  BY <1>1, AnswerIsSeen
<1>3. Types /\ ep0 \in Endpoints /\ pending \in FlagSets
  BY DEF ControlInv, Types
<1>4. Sending \/ StatusIn
  BY <1>1, <1>2 DEF Agreed, StatusOut, Receiving, Unanswered, WaitsForIn
<1>5. host' \in Hosts /\ InWaits' /\ (host'.phase = "idle" => host'.request = NoRequest)
      /\ (host'.phase # "idle" => host'.request \in Requests)
  <2>1. CASE Sending
    <3>1. host.request \in Requests
      BY <2>1 DEF ControlInv, HandlerInv, Sending
    <3>2. QED
      BY <1>2, <2>1, <3>1, ReadsOn
  <2>2. CASE StatusIn
    BY <1>2, <2>2, ReadsStatus
  <2>3. QED
    BY <1>4, <2>1, <2>2
<1>6. ep0' \in Endpoints /\ ep0'.sent = ep0.sent
  BY <1>1, <1>3 DEF Endpoints, Status
<1>7. pending' \in FlagSets /\ ~pending'.vtrx /\ pending'.vttx /\ ~pending'.reset
  BY <1>1, <1>2, <1>3 DEF FlagSets
<1>8. Types'
  BY <1>1, <1>3, <1>5, <1>6, <1>7 DEF Types
<1>9. HandlerInv'
  BY <1>1, <1>2, <1>5, <1>7 DEF HandlerInv
<1>10. StageInv'
  BY <1>5, <1>7 DEF StageInv
<1>11. QED
  BY <1>8, <1>9, <1>10 DEF ControlInv

\* The host sends a packet: the bytes of a line coding, or the status of a response.
LEMMA HostOutKeeps == ControlInv /\ HostOut => ControlInv'
<1> SUFFICES ASSUME ControlInv, HostOut PROVE ControlInv'
  OBVIOUS
<1> DEFINE packet == [setup |-> FALSE, request |-> NoRequest,
                      count |-> IF host.phase = "data" THEN host.request.length ELSE 0]
<1>1. /\ ~pending.reset /\ WaitsForOut /\ ep0.rx = "VALID"
      /\ dev' = dev /\ daddr' = daddr /\ control' = control /\ isr' = isr
      /\ aborts' = aborts /\ resets' = resets
      /\ ep0' = [ep0 EXCEPT !.rx = "NAK", !.received = packet]
      /\ pending' = [pending EXCEPT !.vtrx = TRUE]
      /\ host' = IF host.phase = "data" THEN [host EXCEPT !.phase = "status"] ELSE Done
  BY DEF HostOut, Answers, device
<1>2. ~pending.vtrx /\ ~pending.vttx /\ isr.at = "idle" /\ Agreed /\ Applied
  BY <1>1, AnswerIsSeen
<1>3. /\ Types /\ ep0 \in Endpoints /\ pending \in FlagSets /\ host \in Hosts
      /\ control.request \in Asked /\ host.request \in Asked
  BY DEF ControlInv, Types, Transfers, Hosts
<1>4. host.request.length \in Nat /\ NoRequest \in Asked
  BY <1>3, RequestFacts DEF Asked
<1>5. packet \in Packets /\ packet.setup = FALSE
      /\ packet.count = IF host.phase = "data" THEN host.request.length ELSE 0
  BY <1>4 DEF Packets
<1> HIDE DEF packet
<1>6. /\ ep0' \in Endpoints /\ ep0'.rx = "NAK" /\ ep0'.tx = ep0.tx
      /\ ep0'.received = packet /\ ep0'.sent = ep0.sent
  BY <1>1, <1>3, <1>5 DEF Endpoints, Status
<1>7. pending' \in FlagSets /\ pending'.vtrx /\ ~pending'.vttx /\ ~pending'.reset
  BY <1>1, <1>2, <1>3 DEF FlagSets
<1>8. StatusOut \/ Receiving
  <2>1. host.phase # "idle" /\ ~WaitsForIn
    BY <1>1 DEF WaitsForOut
  <2>2. ~Sending
    <3>1. Sending => host.request.in /\ host.phase = "data"
      BY <1>3, RequestFacts DEF Sending, Ordered
    <3>2. QED
      BY <2>1, <3>1 DEF WaitsForIn
  <2>3. ~StatusIn
    <3>1. StatusIn => ~host.request.in /\ host.phase = "status"
      BY <1>3, RequestFacts DEF StatusIn
    <3>2. QED
      BY <2>1, <3>1 DEF WaitsForIn
  <2>4. QED
    BY <1>1, <1>2, <2>1, <2>2, <2>3 DEF Agreed, Unanswered
<1>9. CASE StatusOut
  <2>1. host.phase = "status" /\ control.request.in /\ control.callback = "none"
        /\ ep0.tx = "NAK"
    <3>1. control.request.kind = "describe" /\ control.callback = "none"
          /\ host.phase = "status" /\ ep0.tx = "NAK"
      BY <1>9 DEF StatusOut, Ordered
    <3>2. QED
      BY <1>3, <3>1, RequestFacts
  <2>2. host' = Done
    BY <1>1, <2>1
  <2>3. /\ host' \in Hosts /\ host'.phase = "idle" /\ host'.request = NoRequest
        /\ host'.address = host.address /\ host'.lineState = host.lineState
        /\ host'.coding = host.coding
    BY <1>3, <2>2, DoneFacts
  <2>4. Applied'
    BY <1>1, <1>2, <2>3 DEF Applied, LineApplied, CodingApplied
  <2>5. OutWaits'
    BY <1>1, <1>6, <2>1, <2>3, <2>4 DEF OutWaits
  <2>6. Types'
    BY <1>1, <1>3, <1>6, <1>7, <2>3 DEF Types
  <2>7. HandlerInv'
    BY <1>1, <1>2, <1>7, <2>3 DEF HandlerInv
  <2>8. StageInv'
    BY <1>5, <1>6, <1>7, <2>5 DEF StageInv
  <2>9. QED
    BY <2>6, <2>7, <2>8 DEF ControlInv
<1>10. CASE Receiving
  <2>1. /\ host.phase = "data" /\ host.request.kind = "lineCoding"
        /\ control.request = host.request /\ control.filled /\ control.fed = 0
        /\ control.callback = "cdc" /\ ep0.tx = "NAK" /\ host.coding = Unknown
    BY <1>10 DEF Receiving
  <2>2. host' = [host EXCEPT !.phase = "status"] /\ packet.count = host.request.length
    BY <1>1, <1>5, <2>1
  <2>3. /\ host' \in Hosts /\ host'.phase = "status" /\ host'.request = host.request
        /\ host'.address = host.address /\ host'.lineState = host.lineState
        /\ host'.coding = host.coding
    BY <1>3, <2>2 DEF Hosts
  <2>4. Applied'
    BY <1>1, <1>2, <2>3 DEF Applied, LineApplied, CodingApplied
  <2>5. OutWaits'
    BY <1>1, <1>6, <2>1, <2>2, <2>3, <2>4 DEF OutWaits
  <2>6. Types'
    BY <1>1, <1>3, <1>6, <1>7, <2>3 DEF Types
  <2>7. host.request \in Requests
    BY <2>1 DEF ControlInv, HandlerInv
  <2>8. HandlerInv'
    BY <1>1, <1>2, <1>7, <2>3, <2>7 DEF HandlerInv
  <2>9. StageInv'
    BY <1>5, <1>6, <1>7, <2>5 DEF StageInv
  <2>10. QED
    BY <2>6, <2>8, <2>9 DEF ControlInv
<1>11. QED
  BY <1>8, <1>9, <1>10

\* The host gives up a transfer that is answered by STALL.
LEMMA HostSeesStallKeeps == ControlInv /\ HostSeesStall => ControlInv'
<1> SUFFICES ASSUME ControlInv, HostSeesStall PROVE ControlInv'
  OBVIOUS
<1>1. /\ ~pending.reset /\ host' = Done
      /\ (WaitsForIn /\ ep0.tx = "STALL") \/ (WaitsForOut /\ ep0.rx = "STALL")
      /\ dev' = dev /\ daddr' = daddr /\ control' = control /\ isr' = isr
      /\ ep0' = ep0 /\ pending' = pending /\ aborts' = aborts /\ resets' = resets
  BY DEF HostSeesStall, Answers, device
<1>2. ~pending.vtrx /\ ~pending.vttx /\ isr.at = "idle" /\ Agreed /\ Applied
  BY <1>1, AnswerIsSeen
<1>3. Types /\ host \in Hosts /\ host.request \in Asked /\ NoRequest \in Asked
  BY DEF ControlInv, Types, Hosts, Asked
<1>4. /\ host' \in Hosts /\ host'.phase = "idle" /\ host'.request = NoRequest
      /\ host'.address = host.address /\ host'.lineState = host.lineState
      /\ host'.coding = host.coding
  BY <1>1, <1>3, DoneFacts
<1>5. ep0.tx = "NAK"
  <2>1. Agreed => ep0.tx \in {"VALID", "NAK"}
    BY DEF Agreed, Sending, StatusOut, Receiving, StatusIn, Unanswered
  <2>2. WaitsForOut /\ ep0.rx = "STALL"
    BY <1>1, <1>2, <2>1
  <2>3. host.phase # "idle" /\ ~WaitsForIn
    BY <2>2 DEF WaitsForOut
  <2>4. ~Sending
    BY <2>2 DEF Sending
  <2>5. ~StatusIn
    <3>1. StatusIn => ~host.request.in /\ host.phase = "status"
      BY <1>3, RequestFacts DEF StatusIn
    <3>2. QED
      BY <2>3, <3>1 DEF WaitsForIn
  <2>6. QED
    BY <1>2, <2>3, <2>4, <2>5 DEF Agreed, StatusOut, Receiving, Unanswered
<1>6. Agreed'
  BY <1>1, <1>4, <1>5 DEF Agreed
<1>7. Applied'
  BY <1>1, <1>2, <1>4 DEF Applied, LineApplied, CodingApplied
<1>8. Types'
  BY <1>1, <1>3, <1>4 DEF Types
<1>9. HandlerInv'
  BY <1>1, <1>2, <1>4 DEF HandlerInv
<1>10. StageInv'
  BY <1>1, <1>2, <1>6, <1>7 DEF StageInv
<1>11. QED
  BY <1>8, <1>9, <1>10 DEF ControlInv

\* A bus reset: the host forgets the device, which no longer answers.
LEMMA HostResetKeeps == ControlInv /\ HostReset => ControlInv'
<1> SUFFICES ASSUME ControlInv, HostReset PROVE ControlInv'
  OBVIOUS
<1>1. /\ dev' = dev /\ daddr' = Off /\ control' = control /\ isr' = isr
      /\ aborts' = aborts /\ resets < MaxResets /\ resets' = resets + 1
      /\ ep0' = [ep0 EXCEPT !.rx = "DISABLED", !.tx = "DISABLED"]
      /\ pending' = [pending EXCEPT !.reset = TRUE]
      /\ host' = [Done EXCEPT !.address = 0, !.lineState = Unknown, !.coding = Unknown]
  BY DEF HostReset
<1>2. /\ Types /\ ep0 \in Endpoints /\ pending \in FlagSets /\ host \in Hosts
      /\ NoRequest \in Asked /\ resets \in 0..MaxResets
  BY DEF ControlInv, Types, Asked
<1>3. ep0' \in Endpoints /\ ep0'.sent = ep0.sent
  BY <1>1, <1>2 DEF Endpoints, Status
<1>4. pending' \in FlagSets /\ pending'.reset
      /\ pending'.vtrx = pending.vtrx /\ pending'.vttx = pending.vttx
  BY <1>1, <1>2 DEF FlagSets
<1>5. /\ host' \in Hosts /\ host'.phase = "idle" /\ host'.request = NoRequest
      /\ host'.address = 0 /\ host'.lineState = Unknown /\ host'.coding = Unknown
  <2>1. 0 \in Nat /\ Unknown \in Nat \union {Unknown}
    OBVIOUS
  <2>2. QED
    BY <1>1, <1>2, <2>1, DoneFacts DEF Hosts
<1>6. resets' \in 0..MaxResets
  BY <1>1, <1>2, UsbAssumption
<1>7. Types'
  BY <1>1, <1>2, <1>3, <1>4, <1>5, <1>6 DEF Types
<1>8. HandlerInv'
  BY <1>1, <1>4, <1>5 DEF ControlInv, HandlerInv
<1>9. StageInv'
  BY <1>4, <1>5 DEF StageInv, Forgotten
<1>10. QED
  BY <1>7, <1>8, <1>9 DEF ControlInv

\* The handler has seen a bus reset: the device starts afresh, as the host did.
LEMMA BusResetKeeps == ControlInv /\ BusReset => ControlInv'
<1> SUFFICES ASSUME ControlInv, BusReset PROVE ControlInv'
  OBVIOUS
<1>1. /\ isr.at = "idle" /\ pending.reset /\ isr' = isr /\ host' = host
      /\ aborts' = aborts /\ resets' = resets
      /\ dev' = ResetDevice(0) /\ daddr' = 0
      /\ control' = ResetControl /\ ep0' = ResetEp0 /\ pending' = Flags
  BY DEF BusReset
<1>2. Types /\ dev \in Devices /\ NoRequest \in Asked
  BY DEF ControlInv, Types, Asked
<1>3. Forgotten
  BY <1>1 DEF ControlInv, StageInv
<1>4. dev' \in Devices
  BY <1>1, <1>2 DEF Devices, ResetDevice
<1>5. control' \in Transfers
  BY <1>1, <1>2 DEF Transfers, ResetControl
<1>6. NoPacket \in Packets
  BY <1>2 DEF Packets, NoPacket
<1>7. ep0' \in Endpoints /\ Len(ep0'.sent) <= PacketSize /\ ep0'.tx = "NAK"
  BY <1>1, <1>6, UsbAssumption DEF Endpoints, ResetEp0, Status
<1>8. pending' \in FlagSets /\ ~pending'.reset /\ ~pending'.vtrx /\ ~pending'.vttx
  BY <1>1 DEF FlagSets, Flags
<1>9. Types'
  BY <1>1, <1>2, <1>4, <1>5, <1>7, <1>8 DEF Types
<1>10. HandlerInv'
  BY <1>1, <1>8 DEF ControlInv, HandlerInv
<1>11. Agreed' /\ Applied'
  BY <1>1, <1>3, <1>7 DEF Forgotten, Agreed, Applied, LineApplied, CodingApplied
<1>12. StageInv'
  BY <1>8, <1>11 DEF StageInv
<1>13. QED
  BY <1>9, <1>10, <1>12 DEF ControlInv

\* The handler reads the endpoint register.
LEMMA SnapshotKeeps == ControlInv /\ Snapshot => ControlInv'
<1> SUFFICES ASSUME ControlInv, Snapshot PROVE ControlInv'
  OBVIOUS
<1>1. /\ dev' = dev /\ daddr' = daddr /\ control' = control /\ ep0' = ep0
      /\ pending' = pending /\ host' = host /\ aborts' = aborts /\ resets' = resets
      /\ (pending.vtrx \/ pending.vttx)
      /\ isr' = [at |-> IF pending.vtrx THEN "receive" ELSE "transmit", vttx |-> pending.vttx]
  BY DEF Snapshot, device
<1>2. isr' \in Handlers
  BY <1>1 DEF ControlInv, Types, FlagSets, Handlers
<1>3. Types'
  BY <1>1, <1>2 DEF ControlInv, Types
<1>4. HandlerInv'
  BY <1>1 DEF ControlInv, HandlerInv
<1>5. StageInv'
  BY <1>1
  DEF ControlInv, StageInv, Forgotten, SetupWaits, OutWaits, InWaits, EffectWaits, Agreed,
      Sending, StatusOut, Receiving, StatusIn, Unanswered, Ordered, Applied, LineApplied,
      CodingApplied, WaitsForOut, WaitsForIn, Chunk
<1>6. QED
  BY <1>3, <1>4, <1>5 DEF ControlInv

-----------------------------------------------------------------------------
(* The theorems.                                                            *)

\* With a prompt handler, every state of the control transfers is one of the
\* stages named above.
THEOREM ControlInvariant == ASSUME PromptAck PROVE Spec => []ControlInv
<1>1. Init => ControlInv
  BY InitControlInv
<1>2. ControlInv /\ [Next]_vars => ControlInv'
  <2> SUFFICES ASSUME ControlInv, [Next]_vars PROVE ControlInv'
    OBVIOUS
  <2>1. CASE Interrupt
    BY <2>1, BusResetKeeps, SnapshotKeeps, ReceivePacketKeeps, TransmitCompleteKeeps,
       DescribeKeeps, SetAddressKeeps, ConfigureKeeps, SetWakeupKeeps, SetLineCodingKeeps,
       SetLineStateKeeps, HaltKeeps, RefuseKeeps
    DEF Interrupt
  <2>2. CASE Host
    <3>1. CASE \E r \in Requests : HostSetup(r)
      BY <3>1, HostSetupKeeps
    <3>2. CASE HostIn \/ HostOut \/ HostSeesStall \/ HostReset
      BY <3>2, HostInKeeps, HostOutKeeps, HostSeesStallKeeps, HostResetKeeps
    <3>3. QED
      BY <2>2, <3>1, <3>2 DEF Host
  <2>3. CASE UNCHANGED vars
    BY <2>3
    DEF vars, device, ControlInv, Types, HandlerInv, StageInv, Forgotten, SetupWaits,
        OutWaits, InWaits, EffectWaits, Agreed, Sending, StatusOut, Receiving, StatusIn,
        Unanswered, Ordered, Applied, LineApplied, CodingApplied, WaitsForOut, WaitsForIn,
        Chunk
  <2>4. QED
    BY <2>1, <2>2, <2>3 DEF Next
<1>3. QED
  BY <1>1, <1>2, PTL DEF Spec

\* Every variable of the control transfers keeps its type, and a packet never
\* exceeds the packet memory of endpoint 0 (usb_control_data_stage, usb_tx_packet).
THEOREM ControlTypeCorrect == ASSUME PromptAck PROVE Spec => []TypeOK
<1>1. ControlInv => TypeOK
  <2> SUFFICES ASSUME ControlInv PROVE TypeOK
    OBVIOUS
  <2>1. Types
    BY DEF ControlInv
  <2>2. dev \in [connected : BOOLEAN, addressed : BOOLEAN, address : Nat,
                 addressPending : Nat, wakeup : BOOLEAN, config : Nat, lineState : Nat,
                 coding : Nat]
        /\ daddr \in Nat \union {Off}
    BY <2>1 DEF Types, Devices
  <2>3. control.callback \in {"none", "address", "cdc"}
        /\ control.filled \in BOOLEAN /\ control.fed \in Nat /\ control.total \in Nat
    BY <2>1 DEF Types, Transfers
  <2>4. ep0.rx \in Status /\ ep0.tx \in Status /\ Len(ep0.sent) \in 0..PacketSize
    <3>1. ep0.rx \in Status /\ ep0.tx \in Status /\ ep0.sent \in Seq(Nat)
      BY <2>1 DEF Types, Endpoints
    <3>2. QED
      BY <2>1, <3>1, UsbAssumption DEF Types
  <2>5. pending \in [reset : BOOLEAN, vtrx : BOOLEAN, vttx : BOOLEAN]
        /\ isr \in [at : {"idle", "receive", "transmit"}, vttx : BOOLEAN]
    BY <2>1 DEF Types, FlagSets, Handlers
  <2>6. host.phase \in {"idle", "data", "status"}
        /\ host.request \in Requests \union {NoRequest}
    BY <2>1 DEF Types, Hosts, Asked
  <2>7. aborts \in 0..MaxAborts /\ resets \in 0..MaxResets
    BY <2>1 DEF Types
  <2>8. QED
    BY <2>2, <2>3, <2>4, <2>5, <2>6, <2>7 DEF TypeOK
<1>2. QED
  BY <1>1, ControlInvariant, PTL

\* No transfer of a supported request hangs: once the interrupts are served, the
\* stage the host waits for is queued or stalled (usb_control_transfer,
\* usb_control_status_stage).
THEOREM SupportedGetsAnswer == ASSUME PromptAck PROVE Spec => []SupportedIsAnswered
<1>1. ControlInv => SupportedIsAnswered
  <2> SUFFICES ASSUME ControlInv, Quiet, Supported(host.request) PROVE Answered
    BY DEF SupportedIsAnswered
  <2>1. ~pending.reset /\ ~pending.vtrx /\ ~pending.vttx
    BY DEF Quiet, Flags
  <2>2. Agreed
    BY <2>1 DEF ControlInv, StageInv
  <2>3. host.request \in Asked
    BY DEF ControlInv, Types, Hosts
  <2>4. CASE host.phase = "idle" /\ ep0.tx = "NAK"
    BY <2>4 DEF Answered, WaitsForIn, WaitsForOut
  <2>5. CASE Sending
    <3>1. host.phase = "data" /\ host.request.kind = "describe" /\ ep0.tx = "VALID"
      BY <2>5 DEF Sending, Ordered
    <3>2. host.request.in
      BY <2>3, <3>1, RequestFacts
    <3>3. QED
      BY <3>1, <3>2 DEF Answered, WaitsForIn, WaitsForOut
  <2>6. CASE StatusOut
    <3>1. host.phase = "status" /\ host.request.kind = "describe" /\ ep0.rx = "VALID"
          /\ host.request.length > 0
      BY <2>6 DEF StatusOut, Ordered
    <3>2. host.request.in /\ host.request.length \in Nat
      BY <2>3, <3>1, RequestFacts
    <3>3. QED
      BY <3>1, <3>2 DEF Answered, WaitsForIn, WaitsForOut
  <2>7. CASE Receiving
    <3>1. host.phase = "data" /\ host.request.kind = "lineCoding" /\ ep0.rx = "VALID"
      BY <2>7 DEF Receiving
    <3>2. ~host.request.in
      BY <2>3, <3>1, RequestFacts
    <3>3. QED
      BY <3>1, <3>2 DEF Answered, WaitsForIn, WaitsForOut
  <2>8. CASE StatusIn
    <3>1. /\ host.phase = "status" /\ ep0.tx = "VALID"
          /\ host.request.kind \in {"address", "configure", "wakeup", "lineState", "lineCoding"}
      BY <2>8 DEF StatusIn
    <3>2. ~host.request.in
      BY <2>3, <3>1, RequestFacts
    <3>3. QED
      BY <3>1, <3>2 DEF Answered, WaitsForIn, WaitsForOut
  <2>9. CASE Unanswered
    BY <2>9 DEF Unanswered
  <2>10. QED
    BY <2>2, <2>4, <2>5, <2>6, <2>7, <2>8, <2>9 DEF Agreed
<1>2. QED
  BY <1>1, ControlInvariant, PTL

\* The host reads the bytes of a response in order, each once, and all of them, over
\* any number of packets of any size (usb_control_data_stage, usb_control_transfer).
THEOREM ResponseIsRead == ASSUME PromptAck PROVE Spec => []ResponseInOrder
<1>1. ControlInv => ResponseInOrder
  <2> SUFFICES ASSUME ControlInv, host.phase # "idle", host.request.kind = "describe"
               PROVE  /\ host.got = [i \in 1..Len(host.got) |-> i]
                      /\ host.phase = "status" /\ host.request.length > 0 =>
                           Len(host.got) = Min({host.request.length, host.request.value})
    BY DEF ResponseInOrder
  <2>1. ~pending.reset
    BY DEF ControlInv, StageInv, Forgotten
  <2>2. host.request \in Asked /\ host.request.length \in Nat
    BY RequestFacts DEF ControlInv, Types, Hosts
  <2>3. \/ host.got = <<>> /\ ~(host.phase = "status" /\ host.request.length > 0)
        \/ Ordered /\ (host.phase = "status" => Len(host.got) = control.total)
    <3>1. CASE pending.vtrx /\ ep0.received.setup
      <4>1. SetupWaits
        BY <2>1, <3>1 DEF ControlInv, StageInv
      <4>2. QED
        BY <4>1 DEF SetupWaits
    <3>2. CASE pending.vtrx /\ ~ep0.received.setup
      <4>1. OutWaits
        BY <2>1, <3>2 DEF ControlInv, StageInv
      <4>2. QED
        BY <4>1 DEF OutWaits
    <3>3. CASE pending.vttx
      <4>1. InWaits
        BY <2>1, <3>3 DEF ControlInv, StageInv
      <4>2. QED
        BY <4>1 DEF InWaits
    <3>4. CASE ~pending.vtrx /\ ~pending.vttx
      <4>1. Agreed
        BY <2>1, <3>4 DEF ControlInv, StageInv
      <4>2. QED
        BY <2>2, <4>1 DEF Agreed, Sending, StatusOut, Receiving, StatusIn, Unanswered
    <3>5. QED
      BY <3>1, <3>2, <3>3, <3>4
  <2>4. CASE host.got = <<>> /\ ~(host.phase = "status" /\ host.request.length > 0)
    BY <2>4
  <2>5. CASE Ordered /\ (host.phase = "status" => Len(host.got) = control.total)
    <3>1. {host.request.length, host.request.value} = {host.request.value, host.request.length}
      OBVIOUS
    <3>2. QED
      BY <2>5, <3>1 DEF Ordered
  <2>6. QED
    BY <2>3, <2>4, <2>5
<1>2. QED
  BY <1>1, ControlInvariant, PTL

\* A packet is queued only for the host that waits for it: no transfer that ended or
\* was given up leaves one behind for the next.
THEOREM NothingStaleIsQueued == ASSUME PromptAck PROVE Spec => []NoStalePacket
<1>1. ControlInv => NoStalePacket
  <2> SUFFICES ASSUME ControlInv, Quiet, ep0.tx = "VALID"
               PROVE  WaitsForIn /\ (host.phase = "status" => ep0.sent = <<>>)
    BY DEF NoStalePacket
  <2>1. ~pending.reset /\ ~pending.vtrx /\ ~pending.vttx
    BY DEF Quiet, Flags
  <2>2. Agreed
    BY <2>1 DEF ControlInv, StageInv
  <2>3. host.request \in Asked
    BY DEF ControlInv, Types, Hosts
  <2>4. Sending \/ StatusIn
    BY <2>2 DEF Agreed, StatusOut, Receiving, Unanswered
  <2>5. CASE Sending
    <3>1. host.phase = "data" /\ host.request.kind = "describe"
      BY <2>5 DEF Sending, Ordered
    <3>2. host.request.in
      BY <2>3, <3>1, RequestFacts
    <3>3. QED
      BY <3>1, <3>2 DEF WaitsForIn
  <2>6. CASE StatusIn
    <3>1. /\ host.phase = "status" /\ ep0.sent = <<>>
          /\ host.request.kind \in {"address", "configure", "wakeup", "lineState", "lineCoding"}
      BY <2>6 DEF StatusIn
    <3>2. ~host.request.in
      BY <2>3, <3>1, RequestFacts
    <3>3. QED
      BY <3>1, <3>2 DEF WaitsForIn
  <2>7. QED
    BY <2>4, <2>5, <2>6
<1>2. QED
  BY <1>1, ControlInvariant, PTL

\* What the host saw acknowledged has taken effect: the address it uses, the line
\* state and the line coding (usb_device_set_address_complete,
\* usb_cdc_control_transfer).
THEOREM AcknowledgedTakesEffect == ASSUME PromptAck PROVE Spec => []AcknowledgedIsApplied
<1>1. ControlInv => AcknowledgedIsApplied
  <2> SUFFICES ASSUME ControlInv, Quiet PROVE Applied
    BY DEF AcknowledgedIsApplied, Applied, LineApplied, CodingApplied
  <2>1. ~pending.reset /\ ~pending.vtrx /\ ~pending.vttx
    BY DEF Quiet, Flags
  <2>2. QED
    BY <2>1 DEF ControlInv, StageInv
<1>2. QED
  BY <1>1, ControlInvariant, PTL

=============================================================================
