-------------------------------- MODULE Bytes --------------------------------
(***************************************************************************)
(* Byte strings as sequences over 0..255, with the numeric readings the    *)
(* EMV books use: big-endian binary and packed decimal (format n).  Bits   *)
(* are numbered as the books number them, b8 the most significant.         *)
(***************************************************************************)
EXTENDS Integers, Sequences, SequencesExt, Optional

Byte == 0..255

\* Bit b of a byte, b8 the most significant.
HasBit(byte, b) == (byte \div 2^(b - 1)) % 2 = 1
\* The byte with exactly these bits set.
ByteOf(bits) == FoldFunctionOnSet(+, 0, [b \in 1..8 |-> 2^(b - 1)], bits)

\* Byte strings one after the other.
Joined(strings) ==
  LET upTo[n \in 0..Len(strings)] == IF n = 0 THEN <<>> ELSE upTo[n - 1] \o strings[n]
  IN  upTo[Len(strings)]

\* u32::from_be_bytes and its shorter forms, and the inverse over n bytes.
Number(bytes) ==
  LET upTo[n \in 0..Len(bytes)] == IF n = 0 THEN 0 ELSE (256 * upTo[n - 1]) + bytes[n]
  IN  upTo[Len(bytes)]
be_bytes(value, n) == [i \in 1..n |-> (value \div 256^(n - i)) % 256]

\* Annex B format n: the decimal digits of value modulo 10^(2n), two a byte.
bcd_u64(value, n) ==
  LET Put(pair, right) == <<(16 * (pair \div 10)) + (pair % 10)>> \o right
      Step(done, i) == [rest |-> done.rest \div 100, out |-> Put(done.rest % 100, done.out)]
  IN  FoldLeft(Step, [rest |-> value, out |-> <<>>], [i \in 1..n |-> i]).out
\* The number a string of packed decimal digits stands for.
Decimal(bytes) ==
  FoldLeft(LAMBDA n, byte : (100 * n) + (10 * (byte \div 16)) + (byte % 16), 0, bytes)

Repeat(byte, n) == [i \in 1..n |-> byte]
First(bytes, n) == SubSeq(bytes, 1, n)
Ending(bytes, n) == SubSeq(bytes, Len(bytes) - n + 1, Len(bytes))
From(bytes, n) == SubSeq(bytes, n, Len(bytes))

(* Results: None is an error, whatever its kind; every caller that matters *)
(* here only looks at whether there was one.                               *)
Then(result, Continue(_)) ==
  IF result = None THEN None ELSE Continue(Unwrap(result))
Check(condition, result) == IF condition THEN result ELSE None
=============================================================================
