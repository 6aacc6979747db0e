-------------------------------- MODULE Chirp --------------------------------
(***************************************************************************)
(* The buzzer tone of chirp.c: a request is recorded at once, and a        *)
(* low-priority task toggles the output at the edges of the tone.  The     *)
(* service reads the clock up to three times, and time passes between the  *)
(* reads.  Requests come from tasks of the same thread, so never while a   *)
(* service runs.                                                           *)
(***************************************************************************)
EXTENDS Integers

CONSTANTS
  Frequencies, Durations,  \* what callers ask for
  MicrosPerSecond, MillisPerSecond,
  ClockRange,              \* the microsecond counter wraps here
  MaxLate,                 \* bound: how late an edge is served
  MaxRequests              \* bound: requests

ASSUME ChirpAssumption ==
  /\ Frequencies \subseteq Nat /\ Durations \subseteq Nat
  /\ MicrosPerSecond \in Nat \ {0} /\ MillisPerSecond \in Nat \ {0}
  /\ ClockRange \in Nat /\ ClockRange > 2 * MicrosPerSecond
  /\ MaxLate \in 0..(ClockRange \div 2 - 1) /\ MaxRequests \in Nat

VARIABLES
  now,        \* get_monotonic_microseconds
  pending,    \* request_pending
  requested,  \* requested_half_period_microseconds and requested_edges
  active,     \* a tone is played
  half,       \* active_half_period_microseconds
  remaining,  \* remaining_edges
  nextEdge,   \* next_edge_microseconds
  output,     \* output_high, and the level of the pin
  at,         \* the clock read that runtime_chirp_service comes to next
  requests,   \* bound: requests so far
  age,        \* history: microseconds since the tone began
  edges       \* history: edges of the tone that is played

tone == <<active, half, remaining, nextEdge, output, edges>>
vars == <<now, pending, requested, tone, at, requests, age>>

Largest(a, b) == IF a > b THEN a ELSE b

HalfPeriod(frequency) == Largest(MicrosPerSecond \div (frequency * 2), 1)
Edges(frequency, duration) == Largest((duration * frequency * 2) \div MillisPerSecond, 2)

NoRequest == [half |-> 0, edges |-> 0]

\* (int32_t)(now - t) >= 0
ArrivedUnsigned(t) == now >= t
Arrived(t) == (now - t) % ClockRange < ClockRange \div 2

LaterUnwrapped(t, d) == t + d
Later(t, d) == (t + d) % ClockRange

Init ==
  /\ now \in {0, ClockRange - 1}
  /\ pending = FALSE /\ requested = NoRequest
  /\ active = FALSE /\ half = 0 /\ remaining = 0 /\ nextEdge = 0 /\ output = FALSE
  /\ at = "idle" /\ requests = 0 /\ age = 0 /\ edges = 0

-----------------------------------------------------------------------------
\* runtime_chirp_request: only records the newest request; nothing for no tone.
Request(frequency, duration) ==
  /\ at = "idle" /\ requests < MaxRequests
  /\ requests' = requests + 1
  /\ IF frequency = 0 \/ duration = 0
     THEN UNCHANGED <<pending, requested>>
     ELSE /\ pending' = TRUE
          /\ requested' = [half |-> HalfPeriod(frequency), edges |-> Edges(frequency, duration)]
  /\ UNCHANGED <<now, tone, at, age>>

\* A pending request replaces the tone that is played.
StartRepeated ==
  /\ at = "idle" /\ pending
  /\ active' = TRUE /\ output' = TRUE
  /\ half' = requested.half
  /\ remaining' = requested.edges - 1 /\ edges' = requested.edges
  /\ nextEdge' = Later(now, requested.half)
  /\ at' = "edge" /\ age' = 0
  /\ UNCHANGED <<now, pending, requested, requests>>
Start ==
  /\ at = "idle" /\ pending
  /\ pending' = FALSE /\ active' = TRUE /\ output' = TRUE
  /\ half' = requested.half
  /\ remaining' = requested.edges - 1 /\ edges' = requested.edges
  /\ nextEdge' = Later(now, requested.half)
  /\ at' = "edge" /\ age' = 0
  /\ UNCHANGED <<now, requested, requests>>

Resume ==
  /\ at = "idle" /\ ~pending /\ active
  /\ at' = "edge"
  /\ UNCHANGED <<now, pending, requested, tone, requests, age>>

\* runtime_chirp_stop
StopOutputKept ==
  /\ active' = FALSE /\ pending' = FALSE /\ requested' = NoRequest
  /\ half' = 0 /\ remaining' = 0 /\ nextEdge' = 0 /\ edges' = 0 /\ age' = 0
  /\ UNCHANGED output
Stop ==
  /\ active' = FALSE /\ pending' = FALSE /\ requested' = NoRequest
  /\ half' = 0 /\ remaining' = 0 /\ nextEdge' = 0 /\ edges' = 0 /\ age' = 0
  /\ output' = FALSE

\* The loop: at most RUNTIME_CHIRP_MAX_EDGES_PER_SERVICE, one, edge.
Toggle ==
  /\ at = "edge" /\ Arrived(nextEdge) /\ remaining > 0
  /\ output' = ~output /\ nextEdge' = Later(nextEdge, half)
  /\ remaining' = remaining - 1
  /\ at' = "finish"
  /\ UNCHANGED <<now, pending, requested, active, half, edges, requests, age>>

TooEarly ==
  /\ at = "edge" /\ ~Arrived(nextEdge)
  /\ at' = "finish"
  /\ UNCHANGED <<now, pending, requested, tone, requests, age>>

EndInLoop ==
  /\ at = "edge" /\ Arrived(nextEdge) /\ remaining = 0
  /\ Stop /\ at' = "idle"
  /\ UNCHANGED <<now, requests>>

\* The last half period has passed.
EndsAfterLastEdge == remaining = 0
Ends == remaining = 0 /\ Arrived(nextEdge)

EndAfterLoop ==
  /\ at = "finish" /\ Ends
  /\ Stop /\ at' = "idle"
  /\ UNCHANGED <<now, requests>>

Wait ==
  /\ at = "finish" /\ ~Ends
  /\ at' = "idle"
  /\ UNCHANGED <<now, pending, requested, tone, requests, age>>

Service == Start \/ Resume \/ Toggle \/ TooEarly \/ EndInLoop \/ EndAfterLoop \/ Wait

\* A microsecond; the scheduler serves an edge at most MaxLate after its time.
Tick ==
  /\ active => ~Arrived(nextEdge) \/ (now - nextEdge) % ClockRange < MaxLate
  /\ now' = Later(now, 1)
  /\ age' = IF active THEN age + 1 ELSE age
  /\ UNCHANGED <<pending, requested, tone, at, requests>>

Next == Service \/ Tick \/ \E f \in Frequencies, d \in Durations : Request(f, d)

\* The buzzer task has no period, so every pass of the scheduler serves it.
Spec == Init /\ [][Next]_vars /\ WF_vars(Service) /\ WF_vars(Tick)

-----------------------------------------------------------------------------
(* Properties.                                                             *)

\* Every variable keeps its type; remaining edges never wrap below zero.
TypeOK ==
  /\ now \in 0..(ClockRange - 1) /\ nextEdge \in 0..(ClockRange - 1)
  /\ pending \in BOOLEAN /\ active \in BOOLEAN /\ output \in BOOLEAN
  /\ requested.half \in Nat /\ requested.edges \in Nat
  /\ half \in Nat /\ remaining \in Nat /\ edges \in Nat /\ age \in Nat
  /\ at \in {"idle", "edge", "finish"} /\ requests \in 0..MaxRequests

\* The buzzer is driven only while a tone is played, also when the tone had an
\* odd number of edges or was replaced (runtime_chirp_stop).
SilentWhenDone == ~active => ~output

\* However the clock wraps and however late edges were served, no edge comes
\* before its time: the tone is never faster than asked (runtime_chirp_service).
NotTooFast == active => (edges - 1 - remaining) * half <= age

\* A tone that is not replaced has all its edges and its whole length; the
\* bound on edges per service drops none (runtime_chirp_service).
LastsWholeTone == [][active /\ ~active' => remaining = 0 /\ age >= edges * half]_vars

\* A tone ends and the buzzer falls silent once requests stop.
EndsSilent == <>[](~pending /\ ~active /\ ~output)
=============================================================================
