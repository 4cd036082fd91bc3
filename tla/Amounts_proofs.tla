--------------------------- MODULE Amounts_proofs ----------------------------
(***************************************************************************)
(* Bounds on the amounts checkArbitrage computes, and the arithmetic that   *)
(* other proofs need as well.                                              *)
(***************************************************************************)
EXTENDS Amounts, Functions, FiniteSetTheorems, TLAPS

LEMMA ProductMonotone ==
  ASSUME NEW a \in Int, NEW b \in Int, NEW c \in Nat, a <= b
  PROVE  c * a <= c * b
<1>1. c * (b - a) >= 0
  OBVIOUS
<1> QED
  BY <1>1

LEMMA ProductType == ASSUME NEW a \in Nat, NEW b \in Nat PROVE a * b \in Nat
OBVIOUS

Less == {ss \in Nat \X Nat : ss[1] < ss[2]}

\* The induction of these proofs: the least number with a property.
LEMMA LeastExists ==
  ASSUME NEW S, S \subseteq Nat, S # {}
  PROVE  \E x \in S : \A y \in S : x <= y
<1>1. IsWellFoundedOn(Less, Nat)
  BY NatLessThanWellFounded, Zenon DEF OpToRel, Less
<1>2. PICK x \in S : \A y \in S : <<y, x>> \notin Less
  BY <1>1, WFMin
<1>3. ASSUME NEW y \in S PROVE x <= y
  <2>1. <<y, x>> \in Nat \X Nat /\ <<y, x>> \notin Less
    BY <1>2
  <2>2. ~ (y < x)
    BY <2>1 DEF Less
  <2> QED
    BY <2>2
<1> QED
  BY <1>3

------------------------------------------------------------------------------
\* std::round is off by at most one half.
LEMMA RoundBounds ==
  ASSUME NEW n \in Nat, NEW d \in Nat \ {0}
  PROVE  /\ Round(n, d) \in Nat
         /\ (2 * d) * Round(n, d) <= 2 * n + d
         /\ 2 * n + d < (2 * d) * (Round(n, d) + 1)
BY DEF Round

\* Rounding does not lift an amount above a whole limit: this is why a cost
\* that is rounded up cannot exceed maxPosUsd.
LEMMA RoundAtMost ==
  ASSUME NEW n \in Nat, NEW d \in Nat \ {0}, NEW r \in Nat, n <= r * d
  PROVE  Round(n, d) <= r
<1> DEFINE R == Round(n, d)
<1>1. R \in Nat /\ (2 * d) * R <= 2 * n + d
  BY RoundBounds
<1> SUFFICES ASSUME r + 1 <= R PROVE FALSE
  BY <1>1
<1> HIDE DEF R
<1>2. (2 * d) * (r + 1) <= (2 * d) * R
  BY <1>1, ProductMonotone
<1>3. (2 * d) * (r + 1) = 2 * (r * d) + 2 * d
  OBVIOUS
<1> QED
  BY <1>1, <1>2, <1>3

LEMMA RoundAtLeast ==
  ASSUME NEW n \in Nat, NEW d \in Nat \ {0}, NEW r \in Nat, r * d <= n
  PROVE  r <= Round(n, d)
<1> DEFINE R == Round(n, d)
<1>1. R \in Nat /\ 2 * n + d < (2 * d) * (R + 1)
  BY RoundBounds
<1> SUFFICES ASSUME R + 1 <= r PROVE FALSE
  BY <1>1
<1> HIDE DEF R
<1>2. (2 * d) * (R + 1) <= (2 * d) * r
  BY <1>1, ProductMonotone
<1>3. (2 * d) * r = 2 * (r * d)
  OBVIOUS
<1> QED
  BY <1>1, <1>2, <1>3

LEMMA RoundMonotone ==
  ASSUME NEW n \in Nat, NEW m \in Nat, NEW d \in Nat \ {0}, n <= m
  PROVE  Round(n, d) <= Round(m, d)
<1> DEFINE R == Round(n, d)
           S == Round(m, d)
<1>1. /\ R \in Nat /\ (2 * d) * R <= 2 * n + d
      /\ S \in Nat /\ 2 * m + d < (2 * d) * (S + 1)
  BY RoundBounds
<1> SUFFICES ASSUME S + 1 <= R PROVE FALSE
  BY <1>1
<1> HIDE DEF R, S
<1>2. (2 * d) * (S + 1) <= (2 * d) * R
  BY <1>1, ProductMonotone
<1> QED
  BY <1>1, <1>2

------------------------------------------------------------------------------
\* n2/d2 <= n1/d1 and n1/d1 * a <= r give n2/d2 * a <= r.
LEMMA FractionTrans ==
  ASSUME NEW n1 \in Nat, NEW d1 \in Nat \ {0}, NEW n2 \in Nat, NEW d2 \in Nat \ {0},
         NEW a \in Nat, NEW r \in Nat,
         n2 * d1 <= n1 * d2, n1 * a <= r * d1
  PROVE  n2 * a <= r * d2
<1> SUFFICES ASSUME r * d2 + 1 <= n2 * a PROVE FALSE
  BY ProductType
<1>1. d1 * (r * d2 + 1) <= d1 * (n2 * a)
  BY ProductMonotone, ProductType
<1>2. a * (n2 * d1) <= a * (n1 * d2)
  BY ProductMonotone, ProductType
<1>3. d2 * (n1 * a) <= d2 * (r * d1)
  BY ProductMonotone, ProductType
<1>4. d1 * (n2 * a) = a * (n2 * d1)
  OBVIOUS
<1>5. a * (n1 * d2) = d2 * (n1 * a)
  OBVIOUS
<1>6. d1 * (r * d2 + 1) = d2 * (r * d1) + d1
  OBVIOUS
<1> DEFINE x == d2 * (r * d1)
           y == d2 * (n1 * a)
           z == a * (n2 * d1)
<1>7. x \in Nat /\ y \in Nat /\ z \in Nat
  BY ProductType
<1>8. x + d1 <= z /\ z <= y /\ y <= x
  BY <1>1, <1>2, <1>3, <1>4, <1>5, <1>6
<1> HIDE DEF x, y, z
<1> QED
  BY <1>7, <1>8

\* A cap limits the quantity, and what it costs to the room in USD.
LEMMA CappedQtyBounds ==
  ASSUME NEW cap \in Fractions, NEW room \in Nat, NEW price \in Nat
  PROVE  LET c == CappedQty(cap, room, price) IN
         /\ c \in Fractions
         /\ c[1] * price <= room * c[2]
         /\ c[1] * cap[2] <= cap[1] * c[2]
         /\ cap[1] > 0 /\ room > 0 => c[1] > 0
<1> DEFINE c == CappedQty(cap, room, price)
<1>1. cap[1] \in Nat /\ cap[2] \in Nat \ {0} /\ cap = <<cap[1], cap[2]>>
  BY DEF Fractions
<1>2. CASE price = 0
  <2>1. c = cap
    BY <1>2 DEF CappedQty
  <2>2. 0 <= room * cap[2] /\ cap[1] * price = 0
    BY <1>1, <1>2, ProductType
  <2> QED
    BY <1>1, <2>1, <2>2
<1>3. CASE price # 0 /\ cap[1] * price <= room * cap[2]
  <2>1. c = cap
    BY <1>3 DEF CappedQty, SmallerOf
  <2> QED
    BY <1>1, <1>3, <2>1
<1>4. CASE price # 0 /\ ~ (cap[1] * price <= room * cap[2])
  <2>1. c = <<room, price>>
    BY <1>4 DEF CappedQty, SmallerOf
  <2>2. c \in Fractions /\ c[1] = room /\ c[2] = price
    BY <1>4, <2>1 DEF Fractions
  <2>3. room * cap[2] <= cap[1] * price
    BY <1>1, <1>4, ProductType
  <2> QED
    BY <2>2, <2>3
<1> QED
  BY <1>2, <1>3, <1>4

\* A whole number of lots is no more than the quantity asked for.
LEMMA FloorToStepBounds ==
  ASSUME NEW q \in Fractions, NEW step \in Nat \ {0}
  PROVE  /\ FloorToStep(q, step) \in Nat
         /\ FloorToStep(q, step) * q[2] <= q[1]
<1> DEFINE n == q[1]
           d == q[2]
           w == n \div d
           k == w \div step
<1>1. n \in Nat /\ d \in Nat \ {0}
  BY DEF Fractions
<1>2. w \in Nat /\ w * d <= n
  BY <1>1
<1>3. k \in Nat /\ k * step <= w
  <2> HIDE DEF w
  <2> QED
    BY <1>2
<1>4. FloorToStep(q, step) = k * step
  BY DEF FloorToStep
<1> HIDE DEF w, k
<1>5. k * step \in Nat
  BY <1>3, ProductType
<1>6. d * (k * step) <= d * w
  BY <1>1, <1>2, <1>3, <1>5, ProductMonotone
<1>7. (k * step) * d = d * (k * step) /\ d * w = w * d
  BY <1>1, <1>2, <1>5
<1> QED
  BY <1>1, <1>2, <1>4, <1>5, <1>6, <1>7

\* What a fraction of a unit costs: at most the room it was cut to.
LEMMA LotsCostAtMost ==
  ASSUME NEW q \in Fractions, NEW step \in Nat \ {0}, NEW price \in Nat, NEW room \in Nat,
         q[1] * price <= room * q[2]
  PROVE  FloorToStep(q, step) * price \in Nat /\ FloorToStep(q, step) * price <= room
<1> DEFINE f == FloorToStep(q, step)
<1>1. q[1] \in Nat /\ q[2] \in Nat \ {0} /\ f \in Nat /\ f * q[2] <= q[1]
  BY FloorToStepBounds DEF Fractions
<1> HIDE DEF f
<1>2. f * price <= room * 1
  BY <1>1, FractionTrans
<1> QED
  BY <1>1, <1>2, ProductType DEF f

------------------------------------------------------------------------------
LEMMA DivBounds ==
  ASSUME NEW n \in Nat, NEW d \in Nat \ {0}
  PROVE  n \div d \in Nat /\ d * (n \div d) <= n /\ n < d * (n \div d + 1)
OBVIOUS

------------------------------------------------------------------------------
(* The total of a row of a ledger.                                         *)

Total(f) == FoldFunction(+, 0, f)

\* The element a fold takes first.
First(s) == CHOOSE x \in s : TRUE

\* it[s] is the total of f over s, for the sets s in D.
Totals(f, D, it) ==
  it = [s \in D |-> IF s = {} THEN 0 ELSE f[First(s)] + it[s \ {First(s)}]]

LEMMA FirstIsElement == ASSUME NEW s, s # {} PROVE First(s) \in s
BY DEF First

LEMMA TotalsExist ==
  ASSUME NEW f, NEW S, IsFiniteSet(S)
  PROVE  \E it : Totals(f, SUBSET S, it)
<1> DEFINE Small(n) == {s \in SUBSET S : Cardinality(s) <= n}
           Bad == {n \in Nat : ~ \E it : Totals(f, Small(n), it)}
<1>1. \A s \in SUBSET S : IsFiniteSet(s) /\ Cardinality(s) \in Nat
  BY FS_Subset, FS_CardinalityType
<1>2. 0 \notin Bad
  <2> DEFINE it == [s \in Small(0) |-> 0]
  <2>1. \A s \in Small(0) : s = {}
    BY <1>1, FS_EmptySet
  <2>2. Totals(f, Small(0), it)
    BY <2>1 DEF Totals
  <2> QED
    BY <2>2
<1>3. ASSUME NEW n \in Nat, n \notin Bad PROVE n + 1 \notin Bad
  <2>1. PICK it : Totals(f, Small(n), it)
    BY <1>3
  <2> DEFINE more == [s \in Small(n + 1) |->
                        IF s = {} THEN 0 ELSE f[First(s)] + it[s \ {First(s)}]]
  <2>2. ASSUME NEW s \in Small(n + 1), s # {}
        PROVE  s \ {First(s)} \in Small(n) /\ s \ {First(s)} \in Small(n + 1)
    <3>1. First(s) \in s /\ IsFiniteSet(s) /\ Cardinality(s) \in Nat
      BY <1>1, <2>2, FirstIsElement
    <3>2. Cardinality(s \ {First(s)}) = Cardinality(s) - 1
      BY <3>1, FS_RemoveElement
    <3> QED
      BY <3>1, <3>2
  <2>3. ASSUME NEW s \in Small(n) PROVE more[s] = it[s]
    <3>1. s \in Small(n + 1)
      BY <1>1
    <3> QED
      BY <2>1, <3>1 DEF Totals
  <2>4. Totals(f, Small(n + 1), more)
    <3> SUFFICES ASSUME NEW s \in Small(n + 1), s # {}
                 PROVE  it[s \ {First(s)}] = more[s \ {First(s)}]
      BY DEF Totals
    <3> QED
      BY <2>2, <2>3
  <2> QED
    BY <2>4
<1>4. Bad = {}
  <2> SUFFICES ASSUME Bad # {} PROVE FALSE
    OBVIOUS
  <2>1. PICK n \in Bad : \A m \in Bad : n <= m
    BY LeastExists
  <2>2. n \in Nat /\ n # 0
    BY <1>2
  <2>3. n - 1 \in Nat /\ n - 1 \notin Bad
    <3> HIDE DEF Bad
    <3> QED
      BY <2>1, <2>2
  <2>4. (n - 1) + 1 \notin Bad
    <3> HIDE DEF Bad
    <3> QED
      BY <1>3, <2>3
  <2> HIDE DEF Bad
  <2> QED
    BY <2>1, <2>2, <2>4
<1>5. Cardinality(S) \in Nat /\ Small(Cardinality(S)) = SUBSET S
  BY FS_Subset, FS_CardinalityType
<1> QED
  BY <1>4, <1>5

\* The fold of a function over its finite domain is such a total.
LEMMA TotalIsATotal ==
  ASSUME NEW f, NEW S, IsFiniteSet(S), DOMAIN f = S
  PROVE  \E it : Totals(f, SUBSET S, it) /\ Total(f) = it[S]
<1> DEFINE Rec(it) == it = [s \in SUBSET S |->
                        IF s = {} THEN 0 ELSE f[CHOOSE x \in s : TRUE]
                                                + it[s \ {CHOOSE x \in s : TRUE}]]
           total == CHOOSE it : Rec(it)
<1>1. Total(f) = total[S]
  BY DEF Total, FoldFunction, FoldFunctionOnSet, MapThenFoldSet
<1>2. \A it : Rec(it) <=> Totals(f, SUBSET S, it)
  BY DEF Totals, First
<1>3. Rec(total)
  <2>1. \E it : Rec(it)
    <3> HIDE DEF Rec
    <3> QED
      BY <1>2, TotalsExist
  <2> HIDE DEF Rec
  <2> QED
    BY <2>1
<1> HIDE DEF Rec, total
<1> QED
  BY <1>1, <1>2, <1>3

\* Induction over the subsets of a finite set: a smallest one with a property.
LEMMA SmallestSet ==
  ASSUME NEW S, IsFiniteSet(S), NEW B, B \subseteq SUBSET S, B # {}
  PROVE  \E T \in B : \A x \in T : T \ {x} \notin B
<1> DEFINE Sizes == {Cardinality(T) : T \in B}
<1>1. \A T \in SUBSET S : IsFiniteSet(T) /\ Cardinality(T) \in Nat
  BY FS_Subset, FS_CardinalityType
<1>2. PICK n \in Sizes : \A m \in Sizes : n <= m
  <2>1. Sizes \subseteq Nat /\ Sizes # {}
    BY <1>1
  <2> HIDE DEF Sizes
  <2> QED
    BY <2>1, LeastExists
<1>3. PICK T \in B : Cardinality(T) = n
  OBVIOUS
<1>4. ASSUME NEW x \in T, T \ {x} \in B PROVE FALSE
  <2>1. Cardinality(T \ {x}) = Cardinality(T) - 1 /\ Cardinality(T) \in Nat
    BY <1>1, FS_RemoveElement
  <2>2. n <= Cardinality(T \ {x})
    BY <1>2, <1>4
  <2> QED
    BY <1>3, <2>1, <2>2
<1> QED
  BY <1>4

\* The total over T, one element at a time.
AddsFirst(f, it, T) == First(T) \in T /\ it[T] = f[First(T)] + it[T \ {First(T)}]

LEMMA TotalsStep ==
  ASSUME NEW S, NEW f, NEW it, NEW T, Totals(f, SUBSET S, it), T \subseteq S, T # {}
  PROVE  AddsFirst(f, it, T)
BY FirstIsElement DEF Totals, AddsFirst

\* Totals of integers are integers.
LEMMA TotalsType ==
  ASSUME NEW S, IsFiniteSet(S), NEW f \in [S -> Int], NEW it, Totals(f, SUBSET S, it)
  PROVE  \A T \in SUBSET S : it[T] \in Int
<1> DEFINE B == {T \in SUBSET S : it[T] \notin Int}
<1> SUFFICES ASSUME B # {} PROVE FALSE
  OBVIOUS
<1>1. PICK T \in B : \A x \in T : T \ {x} \notin B
  BY SmallestSet
<1>2. T # {}
  BY DEF Totals
<1>3. PICK x \in T : it[T] = f[x] + it[T \ {x}]
  <2>1. T \subseteq S
    OBVIOUS
  <2>2. AddsFirst(f, it, T)
    BY <1>2, <2>1, TotalsStep, Zenon
  <2> QED
    BY <2>2 DEF AddsFirst
<1>4. T \ {x} \in B
  BY <1>3
<1> QED
  BY <1>1, <1>4

LEMMA TotalType ==
  ASSUME NEW S, IsFiniteSet(S), NEW f \in [S -> Int]
  PROVE  Total(f) \in Int
<1>1. PICK F : Totals(f, SUBSET S, F) /\ Total(f) = F[S]
  BY TotalIsATotal
<1> QED
  BY <1>1, TotalsType

\* One entry grows by c and one falls by p.
MovedByPair(f, g, S, b, s, c, p) ==
  \A v \in S : g[v] = f[v] + (IF v = b THEN c ELSE 0) - (IF v = s THEN p ELSE 0)

\* What the row adds up to then.
TotalMoves(f, g, c, p) == Total(f) \in Int /\ Total(g) = Total(f) + c - p

LEMMA TotalAfterPair ==
  ASSUME NEW S, IsFiniteSet(S), NEW f \in [S -> Int], NEW g \in [S -> Int],
         NEW b \in S, NEW s \in S, NEW c \in Int, NEW p \in Int,
         MovedByPair(f, g, S, b, s, c, p)
  PROVE  TotalMoves(f, g, c, p)
<1>1. PICK F : Totals(f, SUBSET S, F) /\ Total(f) = F[S]
  BY TotalIsATotal
<1>2. PICK G : Totals(g, SUBSET S, G) /\ Total(g) = G[S]
  BY TotalIsATotal
<1>3. \A T \in SUBSET S : F[T] \in Int /\ G[T] \in Int
  BY <1>1, <1>2, TotalsType
<1> DEFINE Gain(T) == (IF b \in T THEN c ELSE 0) - (IF s \in T THEN p ELSE 0)
           B == {T \in SUBSET S : G[T] # F[T] + Gain(T)}
<1>4. B = {}
  <2> SUFFICES ASSUME B # {} PROVE FALSE
    OBVIOUS
  <2>1. PICK T \in B : \A x \in T : T \ {x} \notin B
    BY SmallestSet
  <2>2. T # {}
    BY <1>1, <1>2 DEF Totals
  <2>3. PICK x \in T : F[T] = f[x] + F[T \ {x}] /\ G[T] = g[x] + G[T \ {x}]
    <3>1. T \subseteq S
      OBVIOUS
    <3> HIDE DEF B, Gain
    <3>2. AddsFirst(f, F, T)
      BY <1>1, <2>2, <3>1, TotalsStep, Zenon
    <3>3. AddsFirst(g, G, T)
      BY <1>2, <2>2, <3>1, TotalsStep, Zenon
    <3> QED
      BY <3>2, <3>3 DEF AddsFirst
  <2>4. G[T \ {x}] = F[T \ {x}] + Gain(T \ {x})
    BY <2>1
  <2>5. /\ F[T \ {x}] \in Int /\ F[T] \in Int /\ f[x] \in Int
        /\ Gain(T) = Gain(T \ {x}) + (IF x = b THEN c ELSE 0) - (IF x = s THEN p ELSE 0)
    BY <1>3
  <2>6. Gain(T \ {x}) \in Int /\ Gain(T) \in Int
    OBVIOUS
  <2>7. G[T] # F[T] + Gain(T)
    OBVIOUS
  <2>8. /\ x \in S /\ g[x] \in Int
        /\ g[x] = f[x] + (IF x = b THEN c ELSE 0) - (IF x = s THEN p ELSE 0)
    BY DEF MovedByPair
  <2> HIDE DEF Gain, B
  <2> QED
    BY <2>3, <2>4, <2>5, <2>6, <2>7, <2>8
<1> QED
  BY <1>1, <1>2, <1>3, <1>4 DEF TotalMoves
==============================================================================
