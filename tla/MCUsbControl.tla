---------------------------- MODULE MCUsbControl ----------------------------
(***************************************************************************)
(* The requests of a host that enumerates the device and opens its serial  *)
(* port, in packets of two bytes: responses of less than a packet, of      *)
(* exactly two, and longer than what is asked for.                         *)
(***************************************************************************)
EXTENDS UsbControl

Request(kind, in, length, value) ==
  [kind |-> kind, in |-> in, length |-> length, value |-> value]

EnumerationRequests ==
  {Request("describe", TRUE, 1, 5), Request("describe", TRUE, 9, 4),
   Request("describe", TRUE, 9, 5), Request("describe", TRUE, 4, 5),
   Request("describe", TRUE, 0, 1),
   Request("address", FALSE, 0, 1), Request("address", FALSE, 0, 2),
   Request("configure", FALSE, 0, 1), Request("configure", FALSE, 0, 0),
   Request("wakeup", FALSE, 0, 1), Request("wakeup", FALSE, 0, 0),
   Request("lineCoding", FALSE, 1, 1), Request("lineCoding", FALSE, 1, 2),
   Request("lineState", FALSE, 0, 1), Request("lineState", FALSE, 0, 2),
   Request("halt", FALSE, 0, 0),
   Request("refuse", TRUE, 3, 0), Request("refuse", FALSE, 1, 0)}

\* A host that also asks for what the device does not have.
RefusedRequests ==
  {Request("describe", TRUE, 9, 5), Request("address", FALSE, 0, 1),
   Request("refuse", FALSE, 1, 0), Request("refuse", TRUE, 3, 0)}
=============================================================================
