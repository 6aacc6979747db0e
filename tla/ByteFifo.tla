------------------------------- MODULE ByteFifo -------------------------------
(* What an interrupt-filled receive ring promises its reader: the bytes that  *)
(* the hardware handed over, in order, each once, and none of them dropped    *)
(* while there is room for it.                                                *)
EXTENDS Integers, Sequences

CONSTANTS Byte, NoByte, Room

VARIABLES arrived, queue, delivered

fifoVars == <<arrived, queue, delivered>>

Init == arrived = NoByte /\ queue = <<>> /\ delivered \in Byte

Arrive(b) ==
  /\ arrived = NoByte
  /\ arrived' = b
  /\ UNCHANGED <<queue, delivered>>

Collect ==
  /\ arrived # NoByte
  /\ arrived' = NoByte
  /\ queue' = IF Len(queue) < Room THEN Append(queue, arrived) ELSE queue
  /\ UNCHANGED delivered

Get ==
  /\ queue # <<>>
  /\ delivered' = Head(queue)
  /\ queue' = Tail(queue)
  /\ UNCHANGED arrived

Next == Collect \/ Get \/ \E b \in Byte : Arrive(b)

SafetySpec == Init /\ [][Next]_fifoVars
Spec == SafetySpec /\ WF_fifoVars(Collect) /\ WF_fifoVars(Get)
=============================================================================
