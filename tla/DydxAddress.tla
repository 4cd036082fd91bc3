----------------------------- MODULE DydxAddress -----------------------------
(***************************************************************************)
(* The last part of DydxTrader::deriveKeys: the 20 bytes of the public     *)
(* key's digest are regrouped into values of five bits, in an int that     *)
(* overflows without harm, and encoded as the address.  The hashes before  *)
(* that are library code: a digest is any 20 bytes.                        *)
(***************************************************************************)
EXTENDS Bech32

Hrp == <<100, 121, 100, 120>>  \* "dydx"

Zeros(n) == [i \in 1 .. n |-> 0]

\* The bits of a value of up to eight bits, the highest first.
Weights == <<128, 64, 32, 16, 8, 4, 2, 1>>
Bits(n, width) == [i \in 1 .. width |-> (n \div Weights[8 - width + i]) % 2]

\* The k-th bit, from 0 on, of a sequence of such values.
BitAt(values, width, k) == Bits(values[(k \div width) + 1], width)[(k % width) + 1]

\* acc << 8 | b in the 32 bits of an int, the highest first.
Shifted(acc, b) == SubSeq(acc, 9, 32) \o Bits(b, 8)

\* (acc >> bits) & 31
Low5(acc, bits) ==
  LET bit(n) == acc[32 - bits - n]
  IN  bit(0) + 2 * bit(1) + 4 * bit(2) + 8 * bit(3) + 16 * bit(4)

\* A slip the properties must notice: an accumulator of a single byte.
RegroupInAByte(r, b) ==
  LET acc  == Zeros(24) \o Bits(b, 8)
      bits == r.bits + 8
  IN  [acc |-> acc, bits |-> bits % 5,
       out |-> r.out \o [i \in 1 .. bits \div 5 |-> Low5(acc, bits - 5 * i)]]

\* One round of the loop over the digest.
Regroup(r, b) ==
  LET acc  == Shifted(r.acc, b)
      bits == r.bits + 8
  IN  [acc |-> acc, bits |-> bits % 5,
       out |-> r.out \o [i \in 1 .. bits \div 5 |-> Low5(acc, bits - 5 * i)]]

FiveBitAddr(digest) ==
  LET r[n \in 0 .. Len(digest)] ==
        IF n = 0 THEN [acc |-> Zeros(32), bits |-> 0, out |-> <<>>]
                 ELSE Regroup(r[n - 1], digest[n])
  IN  r[Len(digest)].out

Address(digest) == Encode("BECH32", Hrp, FiveBitAddr(digest))
==============================================================================
