------------------------------- MODULE MCUsbCdc -------------------------------
(* UsbCdc, and the way its endpoints come to be, as facts on constant tables. *)
EXTENDS UsbCdc, UsbEndpoints

Endpoints == Opened(ConfigurationDescriptor)

\* wTotalLength is the length of what follows, and the walk ends with all three
\* endpoints open.
ASSUME AllIsOpened ==
  /\ TotalLength(ConfigurationDescriptor) = 75
  /\ Endpoints = SelectSeq(ConfigurationDescriptor, LAMBDA d : d.type = "endpoint")

\* It ends because the step of twice the length leaves the table: a second function
\* behind the first would not be opened.
ASSUME SecondFunctionIsSkipped ==
  Opened(ConfigurationDescriptor \o CdcFunction) = Endpoints

\* An endpoint is queued by its number (usb_ep_queue_transfer) and assigned by search
\* (usb_ep_assign).  In the order of these descriptors the two agree, before and after
\* the endpoint is opened ...
ASSUME AssignedByNumber ==
  \A i \in DOMAIN Endpoints :
    /\ AssignedTo(Assignment(SubSeq(Endpoints, 1, i - 1)), Endpoints[i])
         = Endpoints[i].number
    /\ AssignedTo(Assignment(Endpoints), Endpoints[i]) = Endpoints[i].number

\* ... which is due to that order: with the data endpoints in front they get register 1
\* and are queued on register 2.
ASSUME OrderMatters ==
  \E i \in DOMAIN Endpoints :
    AssignedTo(Assignment(Tail(Endpoints)), Endpoints[i]) # Endpoints[i].number

\* A receive buffer is granted in full and at most a block more than asked for, for
\* every size a packet may have, and the fields fit their five bits and one.
ASSUME BufferIsGranted ==
  \A size \in 1..1023 :
    LET granted == Granted(BlSize(size), NumBlock(size))
    IN  granted >= size /\ granted < size + Block(size) /\ NumBlock(size) \in 0..31

\* The buffers of the endpoints, with what is granted or padded, lie within packet
\* memory and do not overlap.
ASSUME BuffersAreDisjoint ==
  \A i \in DOMAIN Endpoints :
    LET used == IF Endpoints[i].in THEN 4 * Words(Endpoints[i].size)
                ELSE Granted(BlSize(Endpoints[i].size), NumBlock(Endpoints[i].size))
        next == IF i = Len(Endpoints) THEN PacketMemory ELSE Address(Endpoints, i + 1)
    IN  Address(Endpoints, i) % 4 = 0 /\ Address(Endpoints, i) + used <= next

\* What was written in words is what is read from them.
ASSUME WordsKeepBytes ==
  \A n \in 0..9 : LET bytes == [i \in 1..n |-> i] IN Unpacked(Packed(bytes), n) = bytes
=============================================================================
