----------------------------- MODULE Chirp_proofs -----------------------------
(***************************************************************************)
(* The safety properties of the buzzer's tone for every pitch, every       *)
(* length, every width of the clock that is wider than two seconds, and    *)
(* every lateness.                                                         *)
(***************************************************************************)
EXTENDS Chirp, TLAPS

-----------------------------------------------------------------------------
(* The invariant.                                                           *)

\* A half period is within a second, and a request has at least two edges.
RequestInv ==
  /\ requested.half \in 0..MicrosPerSecond /\ requested.edges \in Nat
  /\ pending => requested.edges >= 2
  /\ half \in 0..MicrosPerSecond /\ remaining <= edges

\* The time by which the next edge is late, from the length of the tone so far;
\* negative while the edge is still to come.
Late == age - (edges - remaining) * half

\* While a tone is played the difference of the clock and the next edge is how late
\* that edge is, as the clock wraps, and an edge is never further off than one half
\* period: a clock read that finds it arrived is never early.
ToneInv ==
  /\ ~active => ~output
  /\ at # "idle" => active
  /\ active => Late >= -half /\ (now - nextEdge) % ClockRange = Late % ClockRange

ChirpInv == TypeOK /\ RequestInv /\ ToneInv

-----------------------------------------------------------------------------
(* Arithmetic.                                                              *)

\* A remainder lies within the range.
LEMMA ModRange ==
  ASSUME NEW S \in Nat \ {0}, NEW x \in Int
  PROVE  x % S \in 0..(S - 1)
BY Z3

\* A number is its quotient and its remainder, and they are the only ones.
LEMMA ModSplit ==
  ASSUME NEW S \in Nat \ {0}, NEW x \in Int
  PROVE  x = S * (x \div S) + (x % S) /\ x \div S \in Int
BY Z3

\* The remainder is what is left beside any multiple, if it lies within the range.
LEMMA ModUnique ==
  ASSUME NEW S \in Nat \ {0}, NEW q \in Int, NEW r \in 0..(S - 1)
  PROVE  (S * q + r) % S = r
BY Z3

\* Products distribute over sums.
LEMMA Distribute ==
  ASSUME NEW a \in Int, NEW b \in Int, NEW c \in Int
  PROVE  a * (b + c) = a * b + a * c
BY Z3

\* A multiple of the range leaves the remainder.
LEMMA ModPeriod ==
  ASSUME NEW S \in Nat \ {0}, NEW x \in Int, NEW q \in Int
  PROVE  (x + S * q) % S = x % S
<1> DEFINE p == x \div S
           r == x % S
<1>1. x = S * p + r /\ p \in Int /\ r \in 0..(S - 1)
  BY ModSplit, ModRange
<1> HIDE DEF p, r
<1>2. S * (p + q) = S * p + S * q /\ S * p \in Int /\ S * q \in Int
  BY <1>1, Distribute
<1>3. x + S * q = S * (p + q) + r
  BY <1>1, <1>2
<1>4. (S * (p + q) + r) % S = r
  BY <1>1, ModUnique
<1> QED BY <1>3, <1>4 DEF r

\* A shift of both sides leaves a congruence.
LEMMA ModShift ==
  ASSUME NEW S \in Nat \ {0}, NEW x \in Int, NEW y \in Int, NEW d \in Int,
         x % S = y % S
  PROVE  (x + d) % S = (y + d) % S
<1> DEFINE p == x \div S
           q == y \div S
           r == x % S
<1>1. x = S * p + r /\ y = S * q + r /\ p \in Int /\ q \in Int /\ r \in 0..(S - 1)
  BY ModSplit, ModRange
<1> HIDE DEF p, q, r
<1>2. S * p \in Int /\ S * q \in Int /\ r \in Int
  BY <1>1
<1>3. x + d = (r + d) + S * p /\ y + d = (r + d) + S * q
  BY <1>1, <1>2
<1> DEFINE z == r + d
<1>z. z \in Int
  BY <1>2
<1> HIDE DEF z
<1>4. (z + S * p) % S = z % S /\ (z + S * q) % S = z % S
  BY <1>1, <1>z, ModPeriod
<1> QED BY <1>3, <1>4 DEF z

\* A remainder can be taken before the shift as well.
LEMMA ModInner ==
  ASSUME NEW S \in Nat \ {0}, NEW x \in Int, NEW d \in Int
  PROVE  ((x % S) + d) % S = (x + d) % S
<1>1. x % S \in Int /\ (x % S) % S = x % S
  <2>1. x % S \in 0..(S - 1)
    BY ModRange
  <2>2. (S * 0 + (x % S)) % S = x % S
    BY <2>1, ModUnique
  <2>3. S * 0 + (x % S) = x % S
    BY <2>1
  <2> QED BY <2>1, <2>2, <2>3
<1> QED BY <1>1, ModShift

\* A quotient of natural numbers is one too and no larger.
LEMMA QuotientBound ==
  ASSUME NEW a \in Nat, NEW b \in Nat \ {0}
  PROVE  a \div b \in Nat /\ a \div b <= a
BY Z3

\* A remainder can be subtracted in place of the number.
LEMMA ModSubtract ==
  ASSUME NEW S \in Nat \ {0}, NEW x \in Int, NEW t \in Int
  PROVE  (x - (t % S)) % S = (x - t) % S
<1> DEFINE q == t \div S
           r == t % S
<1>1. t = S * q + r /\ q \in Int /\ r \in Int
  BY ModSplit, ModRange
<1> HIDE DEF q, r
<1>2. S * q \in Int
  BY <1>1
<1>3. x - r = (x - t) + S * q /\ x - t \in Int
  BY <1>1, <1>2
<1> DEFINE z == x - t
<1>z. z \in Int
  BY <1>3
<1> HIDE DEF z
<1>4. (z + S * q) % S = z % S
  BY <1>1, <1>z, ModPeriod
<1> QED BY <1>3, <1>4 DEF z, r

-----------------------------------------------------------------------------
(* What a request asks for, and what a clock read tells.                    *)

\* The clock is wider than two seconds.
LEMMA Clock ==
  /\ ClockRange \in Nat \ {0} /\ MicrosPerSecond \in Nat \ {0} /\ MillisPerSecond \in Nat \ {0}
  /\ MicrosPerSecond < ClockRange /\ ClockRange \div 2 + MicrosPerSecond <= ClockRange
BY ChirpAssumption, Z3

\* A half period lies within a second, and there are at least two edges.
LEMMA RequestIs ==
  ASSUME NEW f \in Nat \ {0}, NEW d \in Nat
  PROVE  HalfPeriod(f) \in 0..MicrosPerSecond /\ Edges(f, d) \in Nat /\ Edges(f, d) >= 2
<1> DEFINE twice == f * 2
           count == d * f * 2
<1>1. twice \in Nat \ {0} /\ count \in Nat
  BY Z3
<1> HIDE DEF twice, count
<1>2. /\ MicrosPerSecond \div twice \in Nat
      /\ MicrosPerSecond \div twice <= MicrosPerSecond
      /\ count \div MillisPerSecond \in Nat
  BY <1>1, Clock, QuotientBound
<1>3. HalfPeriod(f) \in 0..MicrosPerSecond
  <2>1. HalfPeriod(f) = Largest(MicrosPerSecond \div twice, 1)
    BY DEF HalfPeriod, twice
  <2> QED BY <1>2, <2>1, Clock DEF Largest
<1>4. Edges(f, d) \in Nat /\ Edges(f, d) >= 2
  <2>1. Edges(f, d) = Largest(count \div MillisPerSecond, 2)
    BY DEF Edges, count
  <2> QED BY <1>2, <2>1 DEF Largest
<1> QED BY <1>3, <1>4

\* The sums and products of a tone are integers.
LEMMA ToneTypes ==
  ASSUME ChirpInv
  PROVE  /\ now \in 0..(ClockRange - 1) /\ nextEdge \in 0..(ClockRange - 1)
         /\ half \in Nat /\ half <= MicrosPerSecond /\ remaining \in Nat /\ edges \in Nat
         /\ remaining <= edges /\ age \in Nat
         /\ (edges - remaining) * half \in Int /\ Late \in Int
<1>1. /\ now \in 0..(ClockRange - 1) /\ nextEdge \in 0..(ClockRange - 1)
      /\ remaining \in Nat /\ edges \in Nat /\ age \in Nat
  BY DEF ChirpInv, TypeOK
<1>2. half \in 0..MicrosPerSecond /\ remaining <= edges
  BY DEF ChirpInv, RequestInv
<1>3. half \in Nat /\ half <= MicrosPerSecond
  BY <1>2, Clock
<1>4. (edges - remaining) * half \in Int
  BY <1>1, <1>3, Z3
<1> QED BY <1>1, <1>2, <1>3, <1>4 DEF Late

\* An edge the clock read finds arrived has come: the tone is at least as old.
LEMMA ArrivedMeansCome ==
  ASSUME ChirpInv, active, Arrived(nextEdge)
  PROVE  Late >= 0
<1>1. /\ Late \in Int /\ half \in Nat /\ half <= MicrosPerSecond
      /\ Late >= -half /\ (now - nextEdge) % ClockRange = Late % ClockRange
  BY ToneTypes DEF ChirpInv, ToneInv
<1>2. SUFFICES ASSUME Late < 0 PROVE FALSE
  BY <1>1
<1>3. Late % ClockRange = Late + ClockRange
  <2> DEFINE x == Late
  <2>1. x \in Int /\ x < 0 /\ -ClockRange <= x
    BY <1>1, <1>2, Clock
  <2> HIDE DEF x
  <2>2. x % ClockRange = x + ClockRange
    BY <2>1, Clock, Z3
  <2> QED BY <2>2 DEF x
<1>4. Late % ClockRange < ClockRange \div 2
  BY <1>1 DEF Arrived
<1>5. ClockRange \div 2 \in Int
  BY Clock, Z3
<1> QED BY <1>1, <1>3, <1>4, <1>5, Clock

-----------------------------------------------------------------------------
(* The steps.                                                               *)

\* What a step that ends a tone finds: the tone's whole length has passed.
WholeTone == active /\ ~active' => remaining = 0 /\ age >= edges * half

\* The first state satisfies the invariant.
LEMMA InitChirpInv == Init => ChirpInv
<1> SUFFICES ASSUME Init PROVE ChirpInv
  OBVIOUS
<1>1. now \in 0..(ClockRange - 1) /\ nextEdge \in 0..(ClockRange - 1)
  BY Clock DEF Init
<1>2. requested.half = 0 /\ requested.edges = 0
  BY DEF Init, NoRequest
<1>3. requests \in 0..MaxRequests
  BY ChirpAssumption DEF Init
<1>4. TypeOK
  <2>1. half = 0 /\ remaining = 0 /\ edges = 0 /\ age = 0 /\ at = "idle"
        /\ pending = FALSE /\ active = FALSE /\ output = FALSE
    BY DEF Init
  <2>2. /\ half \in Nat /\ remaining \in Nat /\ edges \in Nat /\ age \in Nat
        /\ requested.half \in Nat /\ requested.edges \in Nat
    BY <1>2, <2>1
  <2>3. pending \in BOOLEAN /\ active \in BOOLEAN /\ output \in BOOLEAN
        /\ at \in {"idle", "edge", "finish"}
    BY <2>1
  <2> QED BY <1>1, <1>3, <2>2, <2>3, Zenon DEF TypeOK
<1>5. RequestInv
  BY <1>2, Clock DEF Init, RequestInv
<1>6. ToneInv
  BY DEF Init, ToneInv
<1> QED BY <1>4, <1>5, <1>6 DEF ChirpInv

\* A tone that is over leaves nothing behind.
LEMMA StopKeeps ==
  ASSUME ChirpInv, Stop, at' = "idle", UNCHANGED <<now, requests>>
  PROVE  ChirpInv'
<1>1. nextEdge' \in 0..(ClockRange - 1) /\ half' \in 0..MicrosPerSecond
  BY Clock DEF Stop
<1>2. requested'.half = 0 /\ requested'.edges = 0
  BY DEF Stop, NoRequest
<1>3. TypeOK'
  <2>1. /\ now \in 0..(ClockRange - 1) /\ requests \in 0..MaxRequests
        /\ now' = now /\ requests' = requests
    BY DEF ChirpInv, TypeOK
  <2>2. half' = 0 /\ remaining' = 0 /\ edges' = 0 /\ age' = 0 /\ nextEdge' = 0
        /\ pending' = FALSE /\ active' = FALSE /\ output' = FALSE
    BY DEF Stop
  <2>3. nextEdge' \in 0..(ClockRange - 1) /\ now' \in 0..(ClockRange - 1)
        /\ requests' \in 0..MaxRequests
    BY <1>1, <2>1
  <2>4. /\ half' \in Nat /\ remaining' \in Nat /\ edges' \in Nat /\ age' \in Nat
        /\ requested'.half \in Nat /\ requested'.edges \in Nat
    BY <1>2, <2>2
  <2>5. pending' \in BOOLEAN /\ active' \in BOOLEAN /\ output' \in BOOLEAN
        /\ at' \in {"idle", "edge", "finish"}
    BY <2>2
  <2> QED BY <2>3, <2>4, <2>5, Zenon DEF TypeOK
<1>4. RequestInv'
  BY <1>1, <1>2, Clock DEF RequestInv, Stop
<1>5. ToneInv'
  BY DEF ToneInv, Stop
<1> QED BY <1>3, <1>4, <1>5 DEF ChirpInv

\* A step that only moves the service on keeps the tone.
LEMMA MoveKeeps ==
  ASSUME ChirpInv, UNCHANGED <<now, pending, requested, tone, requests, age>>,
         at' \in {"idle", "edge", "finish"}, at' # "idle" => active
  PROVE  ChirpInv' /\ WholeTone
BY DEF ChirpInv, TypeOK, RequestInv, ToneInv, Late, WholeTone, tone

\* A request is recorded with a half period and edges of its own.
LEMMA RequestKeeps ==
  ASSUME ChirpInv, NEW f \in Frequencies, NEW d \in Durations, Request(f, d)
  PROVE  ChirpInv' /\ WholeTone
<1>1. f \in Nat /\ d \in Nat
  BY ChirpAssumption
<1>2. requested'.half \in 0..MicrosPerSecond /\ requested'.edges \in Nat
      /\ (pending' => requested'.edges >= 2) /\ pending' \in BOOLEAN
  <2>1. CASE f = 0 \/ d = 0
    BY <2>1 DEF Request, ChirpInv, TypeOK, RequestInv
  <2>2. CASE ~(f = 0 \/ d = 0)
    <3>1. requested' = [half |-> HalfPeriod(f), edges |-> Edges(f, d)] /\ pending' = TRUE
      BY <2>2 DEF Request
    <3>2. HalfPeriod(f) \in 0..MicrosPerSecond /\ Edges(f, d) \in Nat /\ Edges(f, d) >= 2
      BY <1>1, <2>2, RequestIs
    <3> QED BY <3>1, <3>2
  <2> QED BY <2>1, <2>2
<1>3. requested'.half \in Nat
  BY <1>2, Clock
<1>4. requests' \in 0..MaxRequests
  <2>1. requests \in 0..MaxRequests /\ requests < MaxRequests /\ requests' = requests + 1
    BY DEF ChirpInv, TypeOK, Request
  <2> QED BY <2>1, ChirpAssumption
<1>5. UNCHANGED <<now, active, half, remaining, nextEdge, output, edges, at, age>>
  BY DEF Request, tone
<1>6. TypeOK'
  BY <1>2, <1>3, <1>4, <1>5 DEF ChirpInv, TypeOK
<1>7. RequestInv'
  BY <1>2, <1>5 DEF ChirpInv, RequestInv
<1>8. ToneInv'
  BY <1>5 DEF ChirpInv, ToneInv, Late
<1> QED BY <1>5, <1>6, <1>7, <1>8 DEF ChirpInv, WholeTone

\* A tone begins with its first edge made and the next a half period away.
LEMMA StartKeeps ==
  ASSUME ChirpInv, Start
  PROVE  ChirpInv' /\ WholeTone
<1>1. /\ requested.half \in 0..MicrosPerSecond /\ requested.edges \in Nat
      /\ requested.edges >= 2 /\ now \in 0..(ClockRange - 1)
  BY DEF ChirpInv, TypeOK, RequestInv, Start
<1>2. requested.half \in Nat /\ now \in Nat
  BY <1>1, Clock
<1>3. /\ half' = requested.half /\ edges' = requested.edges
      /\ remaining' = requested.edges - 1 /\ age' = 0 /\ now' = now
      /\ nextEdge' = (now + requested.half) % ClockRange
      /\ active' = TRUE /\ output' = TRUE /\ pending' = FALSE /\ at' = "edge"
      /\ requested' = requested /\ requests' = requests
  BY DEF Start, Later
<1>4. nextEdge' \in 0..(ClockRange - 1)
  <2> DEFINE t == now + requested.half
  <2>1. t \in Int
    BY <1>2
  <2> HIDE DEF t
  <2>2. t % ClockRange \in 0..(ClockRange - 1)
    BY <2>1, Clock, ModRange
  <2> QED BY <1>3, <2>2 DEF t
<1>5. TypeOK'
  <2>1. half' \in Nat /\ remaining' \in Nat /\ edges' \in Nat /\ age' \in Nat
    BY <1>1, <1>2, <1>3
  <2> QED BY <1>3, <1>4, <2>1 DEF ChirpInv, TypeOK
<1>6. RequestInv'
  BY <1>1, <1>3 DEF ChirpInv, RequestInv
<1>7. Late' = -half'
  <2>1. edges' - remaining' = 1
    BY <1>1, <1>3
  <2>2. 1 * half' = half'
    BY <1>2, <1>3
  <2> QED BY <1>2, <1>3, <2>1, <2>2 DEF Late
<1>8. (now' - nextEdge') % ClockRange = (-half') % ClockRange
  <2> DEFINE h == requested.half
             t == now + h
  <2>1. now \in Int /\ h \in Int /\ t \in Int
    BY <1>2
  <2>2. now - t = -h
    BY <2>1
  <2> HIDE DEF t
  <2>3. (now - (t % ClockRange)) % ClockRange = (now - t) % ClockRange
    BY <2>1, Clock, ModSubtract
  <2> QED BY <1>3, <2>2, <2>3 DEF t
<1>9. ToneInv'
  <2>1. -half' >= -half'
    BY <1>2, <1>3
  <2> QED BY <1>3, <1>7, <1>8, <2>1 DEF ToneInv
<1> QED BY <1>3, <1>5, <1>6, <1>9 DEF ChirpInv, WholeTone

\* An edge is made no earlier than its time, and the next is one half period later.
LEMMA ToggleKeeps ==
  ASSUME ChirpInv, Toggle
  PROVE  ChirpInv' /\ WholeTone
<1>1. /\ now \in Int /\ nextEdge \in Int /\ half \in Nat /\ half <= MicrosPerSecond
      /\ remaining \in Nat /\ edges \in Nat /\ remaining <= edges /\ age \in Nat
      /\ (edges - remaining) * half \in Int /\ Late \in Int
  BY ToneTypes
<1>2. active /\ Late >= 0
  BY ArrivedMeansCome DEF ChirpInv, ToneInv, Toggle
<1>3. /\ UNCHANGED <<now, pending, requested, active, half, edges, requests, age>>
      /\ output' = ~output /\ nextEdge' = (nextEdge + half) % ClockRange
      /\ remaining > 0 /\ remaining' = remaining - 1 /\ at' = "finish"
  BY DEF Toggle, Later
<1> DEFINE t == nextEdge + half
<1>4. nextEdge' \in 0..(ClockRange - 1)
  <2>1. t \in Int
    BY <1>1
  <2> HIDE DEF t
  <2>2. t % ClockRange \in 0..(ClockRange - 1)
    BY <2>1, Clock, ModRange
  <2> QED BY <1>3, <2>2 DEF t
<1>5. TypeOK'
  <2>1. remaining' \in Nat
    BY <1>1, <1>3
  <2>2. output' \in BOOLEAN
    BY <1>3
  <2> QED BY <1>3, <1>4, <2>1, <2>2 DEF ChirpInv, TypeOK
<1>6. RequestInv'
  BY <1>1, <1>3 DEF ChirpInv, RequestInv
<1>7. Late' = Late - half
  <2> DEFINE made == edges - remaining
  <2>1. made \in Int /\ (edges - (remaining - 1)) = made + 1
    BY <1>1
  <2> HIDE DEF made
  <2>2. (made + 1) * half = made * half + half /\ made * half \in Int
    BY <1>1, <2>1, Z3
  <2>3. Late = age - made * half /\ Late' = age - (made + 1) * half
    BY <1>3, <2>1 DEF Late, made
  <2> QED BY <1>1, <2>2, <2>3
<1>8. (now' - nextEdge') % ClockRange = Late' % ClockRange
  <2> DEFINE apart == now - nextEdge
             late == Late
             h == half
  <2>1. apart \in Int /\ late \in Int /\ -h \in Int /\ t \in Int
    BY <1>1
  <2>2. apart % ClockRange = late % ClockRange
    BY <1>2 DEF ChirpInv, ToneInv
  <2>3. now - t = apart + (-h) /\ Late' = late + (-h)
    BY <1>1, <1>7
  <2> HIDE DEF apart, late, h, t
  <2>4. (apart + (-h)) % ClockRange = (late + (-h)) % ClockRange
    BY <2>1, <2>2, Clock, ModShift
  <2>5. (now - (t % ClockRange)) % ClockRange = (now - t) % ClockRange
    BY <1>1, <2>1, Clock, ModSubtract
  <2> QED BY <1>3, <2>3, <2>4, <2>5 DEF t
<1>9. ToneInv'
  <2>1. Late' >= -half'
    BY <1>1, <1>2, <1>3, <1>7
  <2> QED BY <1>2, <1>3, <1>8, <2>1 DEF ToneInv
<1> QED BY <1>2, <1>3, <1>5, <1>6, <1>9 DEF ChirpInv, WholeTone

\* A tone ends when its last half period has passed.
LEMMA EndKeeps ==
  ASSUME ChirpInv, EndInLoop \/ EndAfterLoop
  PROVE  ChirpInv' /\ WholeTone
<1>1. /\ Stop /\ at' = "idle" /\ UNCHANGED <<now, requests>>
      /\ at # "idle" /\ remaining = 0 /\ Arrived(nextEdge)
  BY DEF EndInLoop, EndAfterLoop, Ends
<1>2. active
  BY <1>1 DEF ChirpInv, ToneInv
<1>3. Late >= 0
  BY <1>1, <1>2, ArrivedMeansCome
<1>4. age >= edges * half
  <2>1. edges - remaining = edges
    BY <1>1, ToneTypes
  <2>2. age - edges * half >= 0 /\ age \in Int
    BY <1>3, <2>1, ToneTypes DEF Late
  <2>3. edges * half \in Int
    BY <2>1, ToneTypes
  <2> QED BY <2>2, <2>3
<1>5. ChirpInv'
  BY <1>1, StopKeeps
<1> QED BY <1>1, <1>4, <1>5 DEF WholeTone

\* As the clock advances, the tone grows older and its next edge later.
LEMMA TickKeeps ==
  ASSUME ChirpInv, Tick
  PROVE  ChirpInv' /\ WholeTone
<1>1. /\ now \in 0..(ClockRange - 1) /\ now \in Int /\ nextEdge \in Int
      /\ half \in Nat /\ age \in Nat /\ (edges - remaining) * half \in Int /\ Late \in Int
  BY ToneTypes
<1>2. /\ UNCHANGED <<pending, requested, active, half, remaining, nextEdge, output, edges, at,
                     requests>>
      /\ now' = (now + 1) % ClockRange
      /\ age' = IF active THEN age + 1 ELSE age
  BY DEF Tick, Later, tone
<1>3. TypeOK'
  <2>1. now' \in 0..(ClockRange - 1)
    <3> DEFINE t == now + 1
    <3>1. t \in Int
      BY <1>1
    <3> HIDE DEF t
    <3>2. t % ClockRange \in 0..(ClockRange - 1)
      BY <3>1, Clock, ModRange
    <3> QED BY <1>2, <3>2 DEF t
  <2>2. age' \in Nat
    BY <1>1, <1>2
  <2> QED BY <1>2, <2>1, <2>2 DEF ChirpInv, TypeOK
<1>4. RequestInv'
  BY <1>2 DEF ChirpInv, RequestInv
<1>5. ASSUME active
      PROVE  Late' >= -half' /\ (now' - nextEdge') % ClockRange = Late' % ClockRange
  <2>1. Late >= -half /\ (now - nextEdge) % ClockRange = Late % ClockRange
    BY <1>5 DEF ChirpInv, ToneInv
  <2>2. Late' = Late + 1
    BY <1>1, <1>2, <1>5 DEF Late
  <2>3. (((now + 1) % ClockRange) - nextEdge) % ClockRange = (Late + 1) % ClockRange
    <3> DEFINE t == now + 1
               apart == now - nextEdge
               late == Late
               e == -nextEdge
    <3>1. t \in Int /\ apart \in Int /\ late \in Int /\ e \in Int
          /\ t + e = apart + 1 /\ apart % ClockRange = late % ClockRange
      BY <1>1, <2>1
    <3> HIDE DEF t, apart, late, e
    <3>2. ((t % ClockRange) + e) % ClockRange = (t + e) % ClockRange
      BY <3>1, Clock, ModInner
    <3>3. (apart + 1) % ClockRange = (late + 1) % ClockRange
      <4>1. apart \in Int /\ late \in Int /\ apart % ClockRange = late % ClockRange
        BY <3>1
      <4>2. ClockRange \in Nat \ {0} /\ 1 \in Int
        BY Clock
      <4> QED BY <4>1, <4>2, ModShift, Zenon
    <3>4. ((t % ClockRange) + e) = (t % ClockRange) - nextEdge
      <4>1. t % ClockRange \in Int
        BY <3>1, Clock, ModRange
      <4> QED BY <1>1, <4>1 DEF e
    <3> QED BY <3>1, <3>2, <3>3, <3>4 DEF t, late
  <2>4. Late' >= -half
    BY <1>1, <2>1, <2>2
  <2> QED BY <1>2, <2>2, <2>3, <2>4
<1>6. ToneInv'
  BY <1>2, <1>5 DEF ChirpInv, ToneInv
<1> QED BY <1>2, <1>3, <1>4, <1>6 DEF ChirpInv, WholeTone

\* Every step keeps the invariant, and a step that ends a tone finds it whole.
LEMMA NextChirpInv == ChirpInv /\ [Next]_vars => ChirpInv' /\ WholeTone
<1> SUFFICES ASSUME ChirpInv, [Next]_vars PROVE ChirpInv' /\ WholeTone
  OBVIOUS
<1>0. at # "idle" => active
  BY DEF ChirpInv, ToneInv
<1>1. CASE Start
  BY <1>1, StartKeeps
<1>2. CASE Resume
  BY <1>0, <1>2, MoveKeeps DEF Resume
<1>3. CASE Toggle
  BY <1>3, ToggleKeeps
<1>4. CASE TooEarly
  BY <1>0, <1>4, MoveKeeps DEF TooEarly
<1>5. CASE EndInLoop \/ EndAfterLoop
  BY <1>5, EndKeeps
<1>6. CASE Wait
  BY <1>0, <1>6, MoveKeeps DEF Wait
<1>7. CASE Tick
  BY <1>7, TickKeeps
<1>8. CASE \E f \in Frequencies, d \in Durations : Request(f, d)
  BY <1>8, RequestKeeps
<1>9. CASE UNCHANGED vars
  <2>1. at' \in {"idle", "edge", "finish"}
    BY <1>9 DEF vars, ChirpInv, TypeOK
  <2> QED BY <1>0, <1>9, <2>1, MoveKeeps DEF vars
<1> QED
  BY <1>1, <1>2, <1>3, <1>4, <1>5, <1>6, <1>7, <1>8, <1>9 DEF Next, Service

-----------------------------------------------------------------------------
(* The theorems.                                                            *)

\* A tone's next edge is never further off than a half period, and the difference of
\* the clock to it tells how late it is, wherever the clock wraps.
THEOREM ChirpInvariant == Spec => []ChirpInv
<1>1. ChirpInv /\ [Next]_vars => ChirpInv'
  BY NextChirpInv
<1> QED BY <1>1, InitChirpInv, PTL DEF Spec

\* Every variable keeps its type; the remaining edges never go below zero.
THEOREM ChirpTypeCorrect == Spec => []TypeOK
<1>1. ChirpInv => TypeOK
  BY DEF ChirpInv
<1> QED BY <1>1, ChirpInvariant, PTL

\* The buzzer is driven only while a tone is played (runtime_chirp_stop).
THEOREM SilentUnlessPlaying == Spec => []SilentWhenDone
<1>1. ChirpInv => SilentWhenDone
  BY DEF ChirpInv, ToneInv, SilentWhenDone
<1> QED BY <1>1, ChirpInvariant, PTL

\* For every pitch, clock width and lateness, no edge comes before its time
\* (runtime_chirp_service).
THEOREM NeverTooFast == Spec => []NotTooFast
<1>1. ChirpInv => NotTooFast
  <2> SUFFICES ASSUME ChirpInv, active PROVE (edges - 1 - remaining) * half <= age
    BY DEF NotTooFast
  <2> DEFINE made == edges - remaining
  <2>1. /\ made \in Int /\ half \in Nat /\ age \in Nat /\ made * half \in Int
        /\ edges - 1 - remaining = made - 1
    BY ToneTypes
  <2>2. age - made * half >= -half
    BY DEF ChirpInv, ToneInv, Late
  <2> HIDE DEF made
  <2>3. (made - 1) * half = made * half - half
    BY <2>1, Z3
  <2> QED BY <2>1, <2>2, <2>3
<1> QED BY <1>1, ChirpInvariant, PTL

\* For every pitch, length, clock width and lateness, a tone that is not replaced has
\* all its edges and its whole length (runtime_chirp_service).
THEOREM WholeToneIsPlayed == Spec => LastsWholeTone
<1>1. ChirpInv /\ [Next]_vars
        => [active /\ ~active' => remaining = 0 /\ age >= edges * half]_vars
  BY NextChirpInv DEF WholeTone
<1> QED BY <1>1, ChirpInvariant, PTL DEF Spec, LastsWholeTone
=============================================================================
