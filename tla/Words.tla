-------------------------------- MODULE Words --------------------------------
(***************************************************************************)
(* The words of the processor: WORD bits, in two's complement where their  *)
(* sign matters.                                                           *)
(***************************************************************************)
EXTENDS Integers, Bitwise

CONSTANT WORD  \* bits of a word

\* More than the 16 of an immediate; halves multiply within TLC's integers.
ASSUME WordAssumption == WORD \in {18, 20}

Modulus == 2^WORD
Half    == 2^(WORD \div 2)
Signed(w) == IF w >= 2^(WORD - 1) THEN w - Modulus ELSE w
Truth(b) == IF b THEN 1 ELSE 0

\* The low word of a product.
Product(a, b) == (a * (b % Half) + ((a * (b \div Half)) % Half) * Half) % Modulus

\* Truncated; by zero it is whatever the processor says, 0 here.
Quotient(a, b) ==
  LET Abs(n) == IF n < 0 THEN -n ELSE n
      q == Abs(Signed(a)) \div Abs(Signed(b))
  IN  IF b = 0 THEN 0
      ELSE (IF (Signed(a) < 0) = (Signed(b) < 0) THEN q ELSE -q) % Modulus

\* A 16-bit immediate as a number with a sign.
Extended(low) == IF low >= 2^15 THEN low - 2^16 ELSE low

=============================================================================
