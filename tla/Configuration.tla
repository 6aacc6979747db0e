---------------------------- MODULE Configuration ----------------------------
(***************************************************************************)
(* The version record in the EEPROM, configuration_hal.c: a key of two     *)
(* bytes and the version in four, written one byte after the other.        *)
(***************************************************************************)
EXTENDS Integers, Sequences

Key == <<170, 85>>
Invalid == <<255, 255, 255, 255>>

\* config_reset: what is in memory when the power goes after n of its writes.
ResetUpTo(n, memory, version) ==
  SubSeq(Key \o version, 1, n) \o SubSeq(memory, n + 1, Len(memory))

config_get_version(memory) ==
  IF SubSeq(memory, 1, 2) = Key THEN SubSeq(memory, 3, 6) ELSE Invalid

config_reset(memory, version) == ResetUpTo(6, memory, version)
=============================================================================
