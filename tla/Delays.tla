-------------------------------- MODULE Delays --------------------------------
(***************************************************************************)
(* The busy waits: timers.c and the polling of eeprom_hal.c.  Each spins   *)
(* until a comparison of two readings of a counter says so; what matters   *)
(* is how long that takes when the counter wraps meanwhile.  The counters  *)
(* are scaled down: Word is the number of values of a 32-bit word, Narrow  *)
(* that of the 16-bit microsecond timer.                                   *)
(***************************************************************************)
EXTENDS Integers, FiniteSets

Word == 64
Narrow == 16

\* The ticks after which a loop ends that goes on while Goes of the ticks passed, or
\* Word if it does not within a turn of the widest counter.
LoopTime(Goes(_)) ==
  Cardinality({n \in 0..(Word - 1) : \A passed \in 0..n : Goes(passed)})

\* The timer's counter is narrow, the subtraction is not.
delay_microseconds(start, us) ==
  LoopTime(LAMBDA passed : (((start + passed) % Narrow) - start) % Word < us)

delay_milliseconds(start, ms) ==
  LoopTime(LAMBDA passed : (((start + passed) % Word) - start) % Word < ms)

\* eeprom_ack_polling compares with the time of expiry instead.
ack_polling(start, wait) ==
  LoopTime(LAMBDA passed : (start + passed) % Word < (start + wait) % Word)
=============================================================================
