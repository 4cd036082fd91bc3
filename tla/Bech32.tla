-------------------------------- MODULE Bech32 --------------------------------
(***************************************************************************)
(* bech32::Encode and Decode.  A string is a sequence of character codes;  *)
(* a 30-bit integer is a sequence of its six 5-bit groups, the highest     *)
(* first.  LocateErrors and the tables that only it uses are left out.     *)
(***************************************************************************)
EXTENDS Integers, SequencesExt

CHARSET ==  \* "qpzry9x8gf2tvdw0s3jn54khce6mua7l"
  <<113, 112, 122, 114, 121, 57, 120, 56, 103, 102, 50, 116, 118, 100, 119, 48,
    115, 51, 106, 110, 53, 52, 107, 104, 99, 101, 54, 109, 117, 97, 55, 108>>

\* CHARSET_REV from '0' on; every character before that one has -1.
CHARSET_REV ==
  <<15, -1, 10, 17, 21, 20, 26, 30,  7,  5, -1, -1, -1, -1, -1, -1,
    -1, 29, -1, 24, 13, 25,  9,  8, 23, -1, 18, 22, 31, 27, 19, -1,
     1,  0,  3, 16, 11, 28, 12, 14,  6,  4,  2, -1, -1, -1, -1, -1,
    -1, 29, -1, 24, 13, 25,  9,  8, 23, -1, 18, 22, 31, 27, 19, -1,
     1,  0,  3, 16, 11, 28, 12, 14,  6,  4,  2, -1, -1, -1, -1, -1>>

Rev(c) == IF c < 48 THEN -1 ELSE CHARSET_REV[c - 47]

Lower == 97 .. 122
Upper == 65 .. 90
One == 49

LowerCase(c) == IF c \in Upper THEN c + 32 ELSE c

------------------------------------------------------------------------------
Places == <<33554432, 1048576, 32768, 1024, 32, 1>>
Groups(n) == [i \in 1 .. 6 |-> (n \div Places[i]) % 32]

\* ^ on values of five bits.
Xor(a, b) ==
  LET bit(n) == (a \div n + b \div n) % 2
  IN  bit(1) + 2 * bit(2) + 4 * bit(4) + 8 * bit(8) + 16 * bit(16)

Plus(c, d) == [i \in 1 .. 6 |-> Xor(c[i], d[i])]

\* {2^n}k(x), where k(x) is x^6 mod the generator g(x): 0x3b6a57b2, 0x26508e6d,
\* 0x1ea119fa, 0x3d4233dd, 0x2a1462b3.
K == <<Groups(996825010), Groups(642813549), Groups(513874426),
       Groups(1027748829), Groups(705979059)>>

\* The sum of those of five terms that a value's bits select, the lowest first.
Selected(c, terms) ==
  LET term(n, bit) == IF (c \div bit) % 2 = 1 THEN terms[n] ELSE 0
  IN  Xor(term(1, 1), Xor(term(2, 2), Xor(term(3, 4), Xor(term(4, 8), term(5, 16)))))

\* What the five conditions of a round add up to, for each value of c0.
Added ==
  [c0 \in 0 .. 31 |->
     [i \in 1 .. 6 |-> Selected(c0, <<K[1][i], K[2][i], K[3][i], K[4][i], K[5][i]>>)]]

\* One round of PolyMod's loop: c(x) * x + v_i mod g(x).
WithNext(c, v_i) ==
  Plus([i \in 1 .. 6 |-> IF i < 6 THEN c[i + 1] ELSE v_i], Added[c[1]])

PolyMod(v) ==
  LET c[i \in 0 .. Len(v)] == IF i = 0 THEN Groups(1) ELSE WithNext(c[i - 1], v[i])
  IN  c[Len(v)]

EncodingConstant(encoding) ==
  Groups(IF encoding = "BECH32" THEN 1 ELSE 734539939)  \* 0x2bc830a3

ExpandHRP(hrp) ==
  [i \in DOMAIN hrp |-> hrp[i] \div 32] \o <<0>> \o [i \in DOMAIN hrp |-> hrp[i] % 32]

VerifyChecksum(hrp, values) ==
  LET check == PolyMod(ExpandHRP(hrp) \o values)
  IN  IF check = EncodingConstant("BECH32") THEN "BECH32"
      ELSE IF check = EncodingConstant("BECH32M") THEN "BECH32M" ELSE "INVALID"

CreateChecksum(encoding, hrp, values) ==
  Plus(PolyMod(ExpandHRP(hrp) \o values \o Groups(0)), EncodingConstant(encoding))

Encode(encoding, hrp, values) ==
  LET combined == values \o CreateChecksum(encoding, hrp, values)
  IN  hrp \o <<One>> \o [i \in DOMAIN combined |-> CHARSET[combined[i] + 1]]

------------------------------------------------------------------------------
\* No character that cannot be printed, and not both cases.
CheckCharacters(str) ==
  /\ ToSet(str) \subseteq 33 .. 126
  /\ ToSet(str) \cap Lower = {} \/ ToSet(str) \cap Upper = {}

Failed == [encoding |-> "INVALID", hrp |-> <<>>, data |-> <<>>]

Decode(str) ==
  LET pos    == SelectLastInSeq(str, LAMBDA c : c = One)
      values == [i \in 1 .. Len(str) - pos |-> Rev(str[pos + i])]
      hrp    == [i \in 1 .. pos - 1 |-> LowerCase(str[i])]
      result == VerifyChecksum(hrp, values)
  IN  IF \/ ~ CheckCharacters(str)
         \/ Len(str) > 90 \/ pos <= 1 \/ pos + 6 > Len(str)
         \/ -1 \in ToSet(values)
         \/ result = "INVALID"
      THEN Failed
      ELSE [encoding |-> result, hrp |-> hrp,
            data |-> SubSeq(values, 1, Len(values) - 6)]

------------------------------------------------------------------------------
\* The reference: GF(32) as polynomials over GF(2) mod a^5 + a^3 + 1, and
\* v(x) mod g(x) by long division, as the comment in PolyMod defines them.
TimesA(a) == IF a < 16 THEN 2 * a ELSE Xor(2 * a - 32, 9)

Times(a, b) ==
  LET p1 == TimesA(a)   p2 == TimesA(p1)   p3 == TimesA(p2)   p4 == TimesA(p3)
  IN  Selected(b, <<a, p1, p2, p3, p4>>)

Generator == <<29, 22, 20, 21, 29, 18>>

\* The dividend loses its leading coefficient, once it is divided out.
Divided(p) ==
  [i \in 1 .. Len(p) - 1 |->
     IF i <= 6 THEN Xor(p[i + 1], Times(Generator[i], p[1])) ELSE p[i + 1]]

Remainder(v) ==
  LET p[i \in 0 .. Len(v)] == IF i = 0 THEN Groups(1) \o v ELSE Divided(p[i - 1])
  IN  p[Len(v)]
===============================================================================
