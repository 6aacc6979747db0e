-------------------------------- MODULE Crc16 --------------------------------
(* rs232_display_protocol_crc16_update, and the same checksum as the           *)
(* remainder of a division of polynomials over GF(2).                          *)
EXTENDS Integers, Sequences, SequencesExt, Bitwise

Polynomial == 4129 \* 0x1021, its x^16 left out

\* One turn of the loop over the bits of a byte, on a 16-bit register.
ShiftedBit(crc) ==
  IF crc >= 2^15 THEN ((2 * crc) % 2^16) ^^ Polynomial ELSE 2 * crc

Shifted[crc \in 0..65535, bits \in 0..8] ==
  IF bits = 0 THEN crc ELSE Shifted[ShiftedBit(crc), bits - 1]

Crc16Update(crc, byte) == Shifted[crc ^^ (byte * 2^8), 8]

Crc16(bytes) == FoldLeft(Crc16Update, 65535, bytes)

-----------------------------------------------------------------------------
(* The reference: the message, its first 16 bits inverted (the initial value  *)
(* 0xFFFF), times x^16, modulo the polynomial.  A polynomial over GF(2) is the *)
(* set of the exponents whose coefficient is 1.                               *)

Plus(p, q) == (p \ q) \cup (q \ p)

Divisor(shift) == {e + shift : e \in {16, 12, 5, 0}}

\* The bytes as a polynomial, the first bit sent being the highest coefficient.
Exponents(bytes) ==
  LET n == Len(bytes)
  IN  {e \in 0..(8 * n - 1) : (bytes[n - (e \div 8)] \div 2^(e % 8)) % 2 = 1}

Dividend(bytes) ==
  Plus({e + 16 : e \in Exponents(bytes)}, {8 * Len(bytes) + k : k \in 0..15})

\* Cancel the coefficients from the highest down to that of x^16.
Remainder(bytes) ==
  LET n == 8 * Len(bytes)
      cancel(p, shift) == IF shift + 16 \in p THEN Plus(p, Divisor(shift)) ELSE p
      rest == FoldLeft(cancel, Dividend(bytes), [i \in 1..n |-> n - i])
  IN  FoldSet(LAMBDA e, sum : sum + 2^e, 0, rest)
=============================================================================
