-------------------------------- MODULE Words --------------------------------
(* Words of four bytes, as the guest's 32 bits, with bytes of B bits.       *)
EXTENDS Integers, Sequences, FiniteSets, TLC

CONSTANT B    \* 8: bits of a byte

ASSUME WordsAssumption == B \in Nat \ {0}

Two[n \in Nat] == IF n = 0 THEN 1 ELSE 2 * Two[n - 1]    \* the powers of two

W == 4 * B
Word == 0..(Two[W] - 1)
Byte == 0..(Two[B] - 1)
U(x) == x % Two[W]                                               \* modulo 2^32
I(x) == IF U(x) < Two[W - 1] THEN U(x) ELSE U(x) - Two[W]        \* as a signed number
Extended(x, bits) ==
  IF x % Two[bits] < Two[bits - 1] THEN x % Two[bits] ELSE (x % Two[bits]) - Two[bits]

(* A word as the set of its bits that are one, and back.                   *)
Bits(x) == {i \in 0..(W - 1) : (U(x) \div Two[i]) % 2 = 1}
Number(bits) ==
  LET upTo[n \in 0..W] ==
        IF n = 0 THEN 0 ELSE upTo[n - 1] + (IF n - 1 \in bits THEN Two[n - 1] ELSE 0)
  IN upTo[W]

(* A word as its bytes, the lowest first, in a memory from address a on.   *)
ByteOf(x, i) == (U(x) \div Two[B * i]) % Two[B]
Joined(bytes) == bytes[0] + bytes[1] * Two[B] + bytes[2] * Two[2 * B] + bytes[3] * Two[3 * B]
Aligned(a) == a - (a % 4)                      \* where the word begins that a is in
WordAt(mem, a) == Joined([i \in 0..3 |-> mem[U(a + i)]])
(* A memory with the lowest n bytes of x at a, and with words from a on.   *)
WithBytes(mem, a, x, n) == [b \in Word |-> IF U(b - a) < n THEN ByteOf(x, U(b - a)) ELSE mem[b]]
WithWords(mem, a, words) ==
  [b \in Word |-> IF U(b - a) < 4 * Len(words) THEN ByteOf(words[U(b - a) \div 4 + 1], U(b - a) % 4)
                  ELSE mem[b]]

(* Quotient and remainder of truncated division.                           *)
Abs(x) == IF x < 0 THEN -x ELSE x
Quotient(x, y) == IF (x < 0) = (y < 0) THEN Abs(x) \div Abs(y) ELSE -(Abs(x) \div Abs(y))
Remainder(x, y) == x - y * Quotient(x, y)
==============================================================================
