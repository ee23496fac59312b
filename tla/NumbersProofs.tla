----------------------------- MODULE NumbersProofs -----------------------------
(***************************************************************************)
(* For ints of every width, in a wide type that holds their products: what *)
(* + - * / % ^ and abs leave is exact, and nothing else stops them; loops  *)
(* over ints make the passes they promise; grids line up where they are    *)
(* printed; loops over reals, with mantissas of every length, keep to      *)
(* start, step and end.  A line of arguments for each, in that order.      *)
(***************************************************************************)
EXTENDS Numbers, IntLoop, RealLoop, Console, WellFoundedInduction, TLAPS

-------------------------------------------------------------------------------
\* Induction up to a bound, by sets: the order of the naturals is well founded.
LEMMA SmallestExists ==
  ASSUME NEW T, T \subseteq Nat, T # {}
  PROVE  \E m \in T : \A k \in T : m <= k
<1> DEFINE Less == OpToRel(<, Nat)
<1>1. \A k, m \in Nat : k < m => <<k, m>> \in Less
  BY Zenon DEF OpToRel
<1>2. IsWellFoundedOn(Less, Nat)
  BY NatLessThanWellFounded, Zenon
<1> HIDE DEF Less
<1>3. PICK m \in T : \A k \in T : ~(<<k, m>> \in Less)
  BY ONLY <1>2, T \subseteq Nat, T # {}, WFMin
<1>4. \A k \in T : m <= k
  <2>1. ASSUME NEW k \in T PROVE m <= k
    <3>1. k \in Nat /\ m \in Nat
      OBVIOUS
    <3>2. ~(k < m)
      BY <1>1, <1>3, <3>1
    <3> QED BY <3>1, <3>2
  <2> QED BY <2>1
<1> QED BY <1>4

\* Counting up from 0 stays inside what each count takes along.
LEMMA Upward ==
  ASSUME NEW k \in Nat, NEW S, 0 \in S, \A i \in 1..k : i - 1 \in S => i \in S
  PROVE  \A i \in 0..k : i \in S
<1> SUFFICES ASSUME (0..k) \ S # {} PROVE FALSE
  OBVIOUS
<1>1. PICK m \in (0..k) \ S : \A i \in (0..k) \ S : m <= i
  <2>1. (0..k) \ S \subseteq Nat
    OBVIOUS
  <2> QED BY <2>1, SmallestExists
<1>2. m # 0 /\ m \in 1..k /\ m - 1 \in 0..k /\ ~(m <= m - 1)
  BY <1>1
<1> QED BY <1>1, <1>2

-------------------------------------------------------------------------------
\* int64_t does not wrap where it is not left.
LEMMA WideIsExact ==
  ASSUME NEW x \in Int, -WideLargest - 1 <= x, x <= WideLargest
  PROVE  Wide(x) = x
<1> DEFINE n == 2 * (WideLargest + 1)
<1>1. x + WideLargest + 1 \in 0..n - 1 /\ n \in Nat \ {0}
  BY NumbersAssumption
<1>2. ASSUME NEW y \in Int, NEW k \in Nat \ {0}, y \in 0..k - 1
      PROVE  y % k = y
  BY <1>2
<1>3. (x + WideLargest + 1) % n = x + WideLargest + 1
  BY <1>1, <1>2
<1> QED
  BY <1>3, NumbersAssumption DEF Wide

\* A product of two numbers no larger than m is no larger than m * m.
LEMMA ProductBound ==
  ASSUME NEW m \in Nat, NEW a \in -m..m, NEW b \in -m..m
  PROVE  a * b \in Int /\ -(m * m) <= a * b /\ a * b <= m * m
<1>1. ASSUME NEW x \in 0..m, NEW y \in 0..m
      PROVE  0 <= x * y /\ x * y <= m * m
  <2>1. x * y <= x * m /\ 0 <= x * y
    BY <1>1
  <2>2. x * m <= m * m
    BY <1>1
  <2> QED
    BY <2>1, <2>2
<1>2. CASE a >= 0 /\ b >= 0
  BY <1>1, <1>2
<1>3. CASE a >= 0 /\ b < 0
  <2>1. a * b = -(a * (-b))
    OBVIOUS
  <2>2. 0 <= a * (-b) /\ a * (-b) <= m * m
    BY <1>1, <1>3
  <2> QED
    BY <2>1, <2>2
<1>4. CASE a < 0 /\ b >= 0
  <2>1. a * b = -((-a) * b)
    OBVIOUS
  <2>2. 0 <= (-a) * b /\ (-a) * b <= m * m
    BY <1>1, <1>4
  <2> QED
    BY <2>1, <2>2
<1>5. CASE a < 0 /\ b < 0
  <2>1. a * b = (-a) * (-b)
    OBVIOUS
  <2>2. 0 <= (-a) * (-b) /\ (-a) * (-b) <= m * m
    BY <1>1, <1>5
  <2> QED
    BY <2>1, <2>2
<1> QED
  BY <1>2, <1>3, <1>4, <1>5

\* Every wide result + - * and the negative can have.
LEMMA WideHolds ==
  ASSUME NEW a \in Ints, NEW b \in Ints
  PROVE  /\ Wide(a + b) = a + b
         /\ Wide(a - b) = a - b
         /\ Wide(a * b) = a * b
         /\ Wide(-a) = -a
<1> DEFINE m == Largest + 1
<1>1. a \in -m..m /\ b \in -m..m /\ m \in Nat
  BY NumbersAssumption DEF Ints, Smallest
<1>2. a * b \in Int /\ -(m * m) <= a * b /\ a * b <= m * m
  BY <1>1, ProductBound
<1>3. m * m <= WideLargest
  BY NumbersAssumption
<1>4. Wide(a * b) = a * b
  <2>1. -WideLargest - 1 <= a * b /\ a * b <= WideLargest
    BY <1>2, <1>3, NumbersAssumption
  <2> QED
    BY <1>2, <2>1, WideIsExact
<1>5. 2 * Largest + 1 <= WideLargest
  <2>1. (Largest + 1) * (Largest + 1) = Largest * Largest + 2 * Largest + 1
    BY NumbersAssumption
  <2>2. Largest * Largest >= 0
    BY NumbersAssumption
  <2> QED
    BY <2>1, <2>2, NumbersAssumption
<1>6. /\ -WideLargest - 1 <= a + b /\ a + b <= WideLargest
      /\ -WideLargest - 1 <= a - b /\ a - b <= WideLargest
      /\ -WideLargest - 1 <= -a /\ -a <= WideLargest
  <2>1. -Largest - 1 <= a /\ a <= Largest /\ -Largest - 1 <= b /\ b <= Largest
    BY NumbersAssumption DEF Ints, Smallest
  <2>2. a \in Int /\ b \in Int
    BY NumbersAssumption DEF Ints, Smallest
  <2> QED
    BY <1>5, <2>1, <2>2, NumbersAssumption
<1>7. a + b \in Int /\ a - b \in Int /\ -a \in Int
  BY <1>1
<1> QED
  BY <1>4, <1>6, <1>7, WideIsExact

\* Of natural numbers, \div is the quotient.
LEMMA NaturalQuotient ==
  ASSUME NEW x \in Nat, NEW y \in Nat \ {0}
  PROVE  /\ x \div y \in 0..x
         /\ (x \div y) * y <= x
         /\ x - (x \div y) * y < y
<1> DEFINE q == x \div y
<1>1. q \in Int /\ x % y \in 0..y - 1 /\ x = (y * q) + (x % y)
  OBVIOUS
<1> HIDE DEF q
<1>2. q >= 0
  <2>1. ASSUME q <= -1 PROVE FALSE
    <3>1. y * q <= y * (-1)
      BY <1>1, <2>1
    <3> QED
      BY <1>1, <3>1
  <2> QED
    BY <1>1, <2>1
<1>3. q <= x
  <2>1. y * q >= 1 * q
    BY <1>1, <1>2
  <2> QED
    BY <1>1, <2>1
<1>4. q * y = y * q
  BY <1>1
<1> QED
  BY <1>1, <1>2, <1>3, <1>4 DEF q

\* Quotient() is the quotient toward zero, and Remainder() its remainder.
LEMMA QuotientTruncates ==
  ASSUME NEW a \in Int, NEW b \in Int, b # 0
  PROVE  /\ Quotient(a, b) \in -Magnitude(a)..Magnitude(a)
         /\ IsQuotient(Quotient(a, b), a, b)
         /\ IsRemainder(Remainder(a, b), a, b)
<1> DEFINE x == Magnitude(a)
           y == Magnitude(b)
           n == x \div y
           q == Quotient(a, b)
<1>1. x \in Nat /\ y \in Nat \ {0}
  BY DEF Magnitude
<1>2. n \in 0..x /\ n * y <= x /\ x - n * y < y
  BY <1>1, NaturalQuotient
<1>3. q = n \/ q = -n
  BY DEF Quotient
<1> HIDE DEF n
<1>4. /\ a >= 0 => a = x
      /\ a < 0 => a = -x
      /\ b > 0 => b = y
      /\ b < 0 => b = -y
  BY DEF Magnitude
<1>5. q * b = IF a < 0 THEN -(n * y) ELSE n * y
  <2>1. n \in Int /\ n * (-y) = -(n * y) /\ (-n) * y = -(n * y) /\ (-n) * (-y) = n * y
    BY <1>1, <1>2
  <2>2. q = IF (a < 0) = (b < 0) THEN n ELSE -n
    BY DEF Quotient, n
  <2> QED
    BY <1>4, <2>1, <2>2
<1> HIDE DEF q
<1>6. n * y \in Int /\ 0 <= n * y
  BY <1>1, <1>2
<1>7. IsQuotient(q, a, b)
  BY <1>1, <1>2, <1>4, <1>5, <1>6 DEF IsQuotient, Magnitude
<1>8. q \in -x..x
  BY <1>2, <1>3, <1>1
<1>9. IsRemainder(Remainder(a, b), a, b)
  <2>1. q \in Int /\ q * b = b * q
    BY <1>8, <1>1
  <2>2. Remainder(a, b) = a - q * b
    BY <2>1 DEF Remainder, q
  <2> DEFINE r == Remainder(a, b)
  <2>3. Magnitude(r) < Magnitude(b) /\ (r < 0 => a < 0) /\ (r > 0 => a > 0)
    BY <1>1, <1>2, <1>4, <1>5, <1>6, <2>2 DEF Magnitude
  <2>4. a = q * b + r
    BY <1>5, <1>6, <1>1, <2>2
  <2> QED
    BY <1>8, <2>3, <2>4 DEF IsRemainder
<1> QED
  BY <1>7, <1>8, <1>9 DEF q

-------------------------------------------------------------------------------
\* While shm_int_pow() runs it is what was done last: its steps touch no other
\* operation's result.
PowerIsLast == power.on => did.op = "^"

NumbersInv ==
  NumbersTypeOK /\ PowerIsLast /\ ExactOrStopped /\ DivisionTruncates /\ ConversionsTruncate

\* What of the constants the steps below need.
LEMMA Sizes ==
  /\ Ints \subseteq Int /\ 0 \in Ints /\ 1 \in Ints
  /\ \A x \in Int : Narrows(x) <=> x \in Ints
  /\ \A x \in Ints : 2 * x \in Reals
  /\ Reals \subseteq Int /\ 0 \in Reals
  /\ 0..LargestChar \subseteq Ints
BY NumbersAssumption DEF Ints, Smallest, Reals, NaN, Narrows

\* A wide result that narrow() returns or stops.
LEMMA Narrowing ==
  ASSUME NumbersInv, Ready, NEW op \in {"+", "-", "*", "/", "%", "abs", "max", "min"},
         NEW left \in Int, NEW right \in Int, Noted(op, left, right),
         NEW wide \in Int, Narrowed(wide)
  PROVE  /\ NumbersTypeOK' /\ PowerIsLast' /\ ConversionsTruncate'
         /\ IF wide \in Ints THEN value' = wide /\ failure' = "" ELSE failure' = "overflow"
         /\ did'.op = op /\ did'.left = left /\ did'.right = right
<1>1. NumbersTypeOK
  BY DEF NumbersInv
<1>2. did' = [op |-> op, left |-> left, right |-> right]
  BY DEF Noted
<1>3. /\ IF wide \in Ints THEN value' = wide /\ failure' = ""
         ELSE failure' = "overflow" /\ value' = value
      /\ power' = power /\ real' = real
  BY <1>1, Sizes DEF Narrowed, Yields, Fail, Ready
<1>4. NumbersTypeOK'
  BY <1>1, <1>2, <1>3 DEF NumbersTypeOK
<1>5. PowerIsLast'
  BY <1>3 DEF Ready, PowerIsLast
<1>6. ConversionsTruncate'
  BY <1>2 DEF ConversionsTruncate
<1> QED
  BY <1>2, <1>3, <1>4, <1>5, <1>6

\* Every machine begins between two operations.
LEMMA InitInv == NumbersInit => NumbersInv
<1> SUFFICES ASSUME NumbersInit PROVE NumbersInv
  OBVIOUS
<1>1. NumbersTypeOK
  BY Sizes DEF NumbersInit, NumbersTypeOK, NoPower
<1>2. PowerIsLast
  BY DEF NumbersInit, PowerIsLast, NoPower
<1>3. ExactOrStopped /\ DivisionTruncates /\ ConversionsTruncate
  BY DEF NumbersInit, ExactOrStopped, DivisionTruncates, ConversionsTruncate
<1> QED
  BY <1>1, <1>2, <1>3 DEF NumbersInv

\* The invariant gives the types.
LEMMA TypedInv ==
  ASSUME NumbersInv
  PROVE  NumbersTypeOK /\ PowerIsLast /\ value \in Ints /\ value \in Int /\ real \in Int
<1>1. NumbersTypeOK /\ PowerIsLast
  BY DEF NumbersInv
<1> QED
  BY <1>1, Sizes DEF NumbersTypeOK

\* Sums, differences, products and negations are exact or stop: the wide type holds them.
LEMMA AddSubMulNeg ==
  ASSUME NumbersInv, (\E b \in Ints : Add(b) \/ Sub(b) \/ Mul(b)) \/ Neg
  PROVE  NumbersInv'
<1>1. value \in Ints /\ value \in Int
  BY TypedInv
<1>2. ASSUME NEW op \in {"+", "-", "*"}, NEW left \in Int, NEW right \in Int, NEW wide \in Int,
             Ready, Noted(op, left, right), Narrowed(wide),
             \/ op = "+" /\ wide = left + right
             \/ op = "-" /\ wide = left - right
             \/ op = "*" /\ wide = left * right
      PROVE  NumbersInv'
  <2>1. /\ NumbersTypeOK' /\ PowerIsLast' /\ ConversionsTruncate'
        /\ IF wide \in Ints THEN value' = wide /\ failure' = "" ELSE failure' = "overflow"
        /\ did'.op = op /\ did'.left = left /\ did'.right = right
    BY <1>2, Narrowing
  <2>2. ExactOrStopped'
    BY <1>2, <2>1 DEF ExactOrStopped, Exact
  <2>3. DivisionTruncates'
    BY <1>2, <2>1 DEF DivisionTruncates
  <2> QED
    BY <2>1, <2>2, <2>3 DEF NumbersInv
<1>3. ASSUME NEW b \in Ints, Add(b) \/ Sub(b) \/ Mul(b)
      PROVE  NumbersInv'
  <2>1. b \in Int /\ value + b \in Int /\ value - b \in Int /\ value * b \in Int
    BY <1>1, Sizes
  <2>2. /\ Wide(value + b) = value + b /\ Wide(value - b) = value - b
        /\ Wide(value * b) = value * b
    BY <1>1, WideHolds
  <2>3. CASE Add(b)
    BY <1>1, <1>2, <2>1, <2>2, <2>3 DEF Add
  <2>4. CASE Sub(b)
    BY <1>1, <1>2, <2>1, <2>2, <2>4 DEF Sub
  <2>5. CASE Mul(b)
    BY <1>1, <1>2, <2>1, <2>2, <2>5 DEF Mul
  <2> QED
    BY <1>3, <2>3, <2>4, <2>5
<1>4. CASE Neg
  <2>1. Wide(-value) = -value /\ -value = 0 - value /\ -value \in Int
    BY <1>1, WideHolds
  <2> QED
    BY <1>1, <1>2, <1>4, <2>1 DEF Neg
<1> QED
  BY <1>3, <1>4

\* What is done of two operands and narrowed, and is none of + - * / %.
LEMMA Selecting ==
  ASSUME NumbersInv, Abs \/ \E b \in Ints : MaxInt(b) \/ MinInt(b)
  PROVE  NumbersInv'
<1>1. value \in Ints /\ value \in Int
  BY TypedInv
<1>2. CASE Abs
  <2> DEFINE wide == IF Wide(-value) < 0 THEN value ELSE Wide(-value)
  <2>1. wide = Magnitude(value) /\ wide \in Int
    <3>1. Wide(-value) = -value
      BY <1>1, WideHolds
    <3> QED
      BY <1>1, <3>1 DEF Magnitude
  <2> HIDE DEF wide
  <2>2. Ready /\ Noted("abs", value, 0) /\ Narrowed(wide)
    BY <1>2 DEF Abs, wide
  <2>3. /\ NumbersTypeOK' /\ PowerIsLast' /\ ConversionsTruncate'
        /\ IF wide \in Ints THEN value' = wide /\ failure' = "" ELSE failure' = "overflow"
        /\ did'.op = "abs" /\ did'.left = value /\ did'.right = 0
    <3>1. wide \in Int /\ 0 \in Int /\ value \in Int
      BY <1>1, <2>1
    <3> QED
      BY ONLY <2>2, <3>1, NumbersInv, Narrowing
  <2>4. Exact' = Magnitude(value)
    BY <2>3 DEF Exact, Magnitude
  <2>5. ExactOrStopped'
    BY <2>1, <2>3, <2>4 DEF ExactOrStopped, Ints, Smallest
  <2>6. DivisionTruncates'
    BY <2>3 DEF DivisionTruncates
  <2> QED
    BY <2>3, <2>5, <2>6 DEF NumbersInv
<1>3. ASSUME NEW b \in Ints, NEW op \in {"max", "min"}, Ready, Noted(op, 0, 0),
             NEW x \in Ints, Yields(x)
      PROVE  NumbersInv'
  <2>1. x \in Int /\ 0 \in Int /\ Narrowed(x)
    BY <1>3, Sizes DEF Yields, Narrowed
  <2>2. /\ NumbersTypeOK' /\ PowerIsLast' /\ ConversionsTruncate' /\ did'.op = op
    BY ZenonT(30), <1>1, <1>3, <2>1, Narrowing
  <2> QED
    BY <2>2 DEF NumbersInv, ExactOrStopped, DivisionTruncates
<1>4. ASSUME NEW b \in Ints, MaxInt(b) \/ MinInt(b)
      PROVE  NumbersInv'
  BY <1>1, <1>3, <1>4 DEF MaxInt, MinInt
<1> QED
  BY <1>2, <1>4

\* What divides two ints, or stops at zero.
LEMMA Dividing ==
  ASSUME NumbersInv, NEW b \in Ints, Div(b) \/ Mod(b)
  PROVE  NumbersInv'
<1>1. value \in Ints /\ value \in Int /\ b \in Int
  BY TypedInv, Sizes
<1>2. CASE b = 0
  <2>1. /\ did' = [op |-> IF Div(b) THEN "/" ELSE "%", left |-> value, right |-> b]
        /\ UNCHANGED <<value, real, power>> /\ failure' = "Division by zero" /\ Ready
    BY <1>2 DEF Div, Mod, Noted, Fail
  <2>2. NumbersTypeOK' /\ PowerIsLast'
    BY <1>1, <2>1, TypedInv DEF NumbersTypeOK, PowerIsLast, Ready
  <2>3. ExactOrStopped' /\ DivisionTruncates' /\ ConversionsTruncate'
    BY <1>2, <2>1 DEF ExactOrStopped, DivisionTruncates, ConversionsTruncate
  <2> QED
    BY <2>2, <2>3 DEF NumbersInv
<1>3. CASE b # 0
  <2> DEFINE q == Quotient(value, b)
             r == Remainder(value, b)
  <2>1. /\ q \in -Magnitude(value)..Magnitude(value)
        /\ IsQuotient(q, value, b) /\ IsRemainder(r, value, b)
    BY <1>1, <1>3, QuotientTruncates
  <2>2. q \in Int /\ r \in Int
    BY <1>1, <2>1 DEF Remainder, Magnitude
  <2> HIDE DEF q, r
  <2>3. /\ Wide(q) = q /\ Wide(r) = r
        /\ q \in Ints \/ (value = Smallest /\ b = -1)
        /\ r \in Ints
    <3>1. /\ -Largest - 1 <= value /\ value <= Largest
          /\ -Largest - 1 <= b /\ b <= Largest /\ Largest \in Nat
          /\ \A x \in Int : x \in Ints <=> -Largest - 1 <= x /\ x <= Largest
      BY <1>1, NumbersAssumption DEF Ints, Smallest
    <3>2. -Largest - 1 <= q /\ q <= Largest + 1
      BY <1>1, <2>1, <2>2, <3>1 DEF Magnitude
    <3>3. r \in Ints
      BY <1>1, <2>1, <2>2, <3>1 DEF IsRemainder, Magnitude
    <3>4. ASSUME q = Largest + 1 PROVE value = Smallest /\ b = -1
      <4>1. value = -Largest - 1
        BY <1>1, <2>1, <2>2, <3>1, <3>4 DEF Magnitude
      <4>2. q * b \in Int /\ Magnitude(q * b) <= Largest + 1 /\ Magnitude(value - q * b) < Magnitude(b)
        BY <1>1, <2>1, <2>2, <3>1, <4>1 DEF IsQuotient, Magnitude
      <4>3. ASSUME b >= 1 PROVE FALSE
        <5>1. q * b >= q * 1
          BY <1>1, <2>2, <3>1, <3>4, <4>3
        <5>2. q * b = Largest + 1
          BY <2>2, <3>1, <3>4, <4>2, <5>1 DEF Magnitude
        <5> QED
          BY <1>1, <3>1, <4>1, <4>2, <4>3, <5>2 DEF Magnitude
      <4>4. ASSUME b <= -2 PROVE FALSE
        <5>1. q * b <= q * (-2)
          BY <1>1, <2>2, <3>1, <3>4, <4>4
        <5> QED
          BY <2>2, <3>1, <3>4, <4>2, <5>1 DEF Magnitude
      <4> QED
        BY <1>1, <1>3, <4>1, <4>3, <4>4 DEF Smallest
    <3>5. q \in Ints \/ (value = Smallest /\ b = -1)
      BY <2>2, <3>1, <3>2, <3>4
    <3>6. Largest + 1 <= WideLargest
      <4>1. (Largest + 1) * (Largest + 1) >= (Largest + 1) * 1
        BY <3>1
      <4> QED
        BY <3>1, <4>1, NumbersAssumption
    <3>7. Wide(q) = q /\ Wide(r) = r
      BY <2>2, <3>1, <3>2, <3>3, <3>6, WideIsExact, NumbersAssumption
    <3> QED
      BY <3>3, <3>5, <3>7
  <2>4. CASE Div(b)
    <3>1. Ready /\ Noted("/", value, b) /\ Narrowed(q)
      BY <1>3, <2>3, <2>4 DEF Div, q
    <3>2. /\ NumbersTypeOK' /\ PowerIsLast' /\ ConversionsTruncate'
          /\ IF q \in Ints THEN value' = q /\ failure' = "" ELSE failure' = "overflow"
          /\ did'.op = "/" /\ did'.left = value /\ did'.right = b
      BY ONLY <1>1, <2>2, <3>1, NumbersInv, Narrowing
    <3>3. ExactOrStopped'
      BY <3>2 DEF ExactOrStopped
    <3>4. DivisionTruncates'
      BY <2>1, <2>3, <3>2 DEF DivisionTruncates
    <3> QED
      BY <3>2, <3>3, <3>4 DEF NumbersInv
  <2>5. CASE Mod(b)
    <3>1. Ready /\ Noted("%", value, b) /\ Narrowed(r)
      BY <1>3, <2>3, <2>5 DEF Mod, r
    <3>2. /\ NumbersTypeOK' /\ PowerIsLast' /\ ConversionsTruncate' /\ value' = r /\ failure' = ""
          /\ did'.op = "%" /\ did'.left = value /\ did'.right = b
      BY ONLY <1>1, <2>2, <2>3, <3>1, NumbersInv, Narrowing
    <3>3. ExactOrStopped'
      BY <3>2 DEF ExactOrStopped
    <3>4. DivisionTruncates'
      BY <2>1, <3>2 DEF DivisionTruncates
    <3> QED
      BY <3>2, <3>3, <3>4 DEF NumbersInv
  <2> QED
    BY <2>4, <2>5
<1> QED
  BY <1>1, <1>2, <1>3

\* A power and its factors: only what was done before it is forgotten.
LEMMA Raising ==
  ASSUME NumbersInv, PowFactor \/ \E b \in Ints : Pow(b)
  PROVE  NumbersInv'
<1>1. value \in Ints /\ value \in Int /\ NumbersTypeOK /\ PowerIsLast
  BY TypedInv
<1>2. ASSUME did'.op = "^" PROVE ExactOrStopped' /\ DivisionTruncates' /\ ConversionsTruncate'
  BY <1>2 DEF ExactOrStopped, DivisionTruncates, ConversionsTruncate
<1>3. CASE PowFactor
  <2>1. did' = did /\ did.op = "^" /\ failure = "" /\ real' = real
    BY <1>1, <1>3 DEF PowFactor, PowerIsLast, Fail
  <2>2. power.base \in Ints /\ power.times \in Ints /\ power.i \in Nat
    BY <1>1 DEF NumbersTypeOK
  <2>3. value * power.base \in Int /\ Wide(value * power.base) = value * power.base
    <3>1. \A x \in Ints, y \in Ints : x * y \in Int /\ Wide(x * y) = x * y
      BY WideHolds, Sizes
    <3> QED
      BY ONLY <1>1, <2>2, <3>1
  <2> DEFINE wide == value * power.base
  <2>4. NumbersTypeOK'
    <3>1. CASE power' = NoPower /\ UNCHANGED <<value, real, failure>>
      BY <1>1, <2>1, <3>1, Sizes DEF NumbersTypeOK, NoPower
    <3>2. CASE failure' = "overflow" /\ UNCHANGED <<value, real, power>>
      BY <1>1, <2>1, <3>2 DEF NumbersTypeOK
    <3>3. CASE /\ wide \in Ints /\ value' = wide
               /\ power' = [power EXCEPT !.i = @ + 1] /\ UNCHANGED <<real, failure>>
      <4> HIDE DEF wide
      <4>1. power' \in [base : Ints, times : Ints, i : Nat, on : BOOLEAN]
        <5>1. power \in [base : Ints, times : Ints, i : Nat, on : BOOLEAN]
          BY <1>1 DEF NumbersTypeOK
        <5>2. power.i + 1 \in Nat
          BY <2>2
        <5> QED
          BY ONLY <3>3, <5>1, <5>2
      <4> QED
        BY <1>1, <2>1, <3>3, <4>1 DEF NumbersTypeOK
    <3>4. Narrows(wide) <=> wide \in Ints
      BY <2>3, Sizes
    <3> QED
      BY <1>3, <2>3, <3>1, <3>2, <3>3, <3>4 DEF PowFactor, Fail
  <2>5. PowerIsLast'
    BY <2>1 DEF PowerIsLast
  <2> QED
    BY <1>2, <2>1, <2>4, <2>5 DEF NumbersInv
<1>4. ASSUME NEW b \in Ints, Pow(b) PROVE NumbersInv'
  <2>1. did' = [op |-> "^", left |-> value, right |-> b] /\ real' = real
    BY <1>4 DEF Pow, Noted, Fail
  <2>2. NumbersTypeOK'
    <3>1. CASE failure' = "Negative power needs reals" /\ UNCHANGED <<value, power>>
      BY <1>1, <1>4, <2>1, <3>1, Sizes DEF NumbersTypeOK
    <3>2. CASE /\ power' = [base |-> value, times |-> b, i |-> 0, on |-> TRUE]
               /\ value' = 1 /\ failure' = failure
      BY <1>1, <1>4, <2>1, <3>2, Sizes DEF NumbersTypeOK
    <3> QED
      BY <1>4, <3>1, <3>2 DEF Pow, Fail
  <2>3. PowerIsLast'
    BY <2>1 DEF PowerIsLast
  <2> QED
    BY <1>2, <2>1, <2>2, <2>3 DEF NumbersInv
<1> QED
  BY <1>3, <1>4

\* A real has one integer next to it toward zero, and Trunc() is it.
LEMMA TruncIsNear ==
  ASSUME NEW r \in Int
  PROVE  Trunc(r) \in Int /\ \A n \in Int : Near(r, n) <=> n = Trunc(r)
<1> DEFINE q == Trunc(r)
<1>1. IsQuotient(q, r, 2) /\ q \in -Magnitude(r)..Magnitude(r)
  BY QuotientTruncates DEF Trunc
<1> HIDE DEF q
<1>2. q \in Int /\ q * 2 = 2 * q
  BY <1>1
<1>3. Near(r, q)
  BY <1>1, <1>2 DEF IsQuotient, Near, Magnitude
<1>4. ASSUME NEW n \in Int, Near(r, n) PROVE n = q
  BY <1>2, <1>3, <1>4 DEF Near, Magnitude
<1> QED
  BY <1>2, <1>3, <1>4 DEF q

\* Into int and into char.
LEMMA Converting ==
  ASSUME NumbersInv, ToInt \/ RealToChar \/ IntToChar
  PROVE  NumbersInv'
<1>1. value \in Ints /\ value \in Int /\ real \in Int /\ NumbersTypeOK /\ PowerIsLast
  BY TypedInv
<1>2. Trunc(real) \in Int /\ \A n \in Int : Near(real, n) <=> n = Trunc(real)
  BY <1>1, TruncIsNear
<1>3. Trunc(2 * value) = value /\ \A n \in Int : Near(2 * value, n) <=> n = value
  <2>1. 2 * value \in Int /\ Near(2 * value, value)
    BY <1>1 DEF Near, Magnitude
  <2>2. \A n \in Int : Near(2 * value, n) <=> n = Trunc(2 * value)
    BY <2>1, TruncIsNear
  <2> QED
    BY <1>1, <2>1, <2>2
<1>4. ASSUME NEW op \in {"int", "char"}, NEW x \in Int, NEW t \in Int, NEW S \in SUBSET Ints,
             S = (IF op = "int" THEN Ints ELSE 0..LargestChar),
             \A n \in Int : Near(x, n) <=> n = t,
             Ready, did' = [op |-> op, left |-> x, right |-> 0], power' = power, real' = real,
             IF Finite(x) /\ t \in S THEN value' = t /\ failure' = ""
             ELSE value' = value /\ failure' \in {"Cannot convert to int", "not a char"}
      PROVE  NumbersInv'
  <2>1. NumbersTypeOK'
    <3>1. value' \in Ints
      BY <1>1, <1>4
    <3>2. did' \in [op : {"int", "char"}, left : Int, right : Int]
      <4>1. did' = [op |-> op, left |-> x, right |-> 0]
        BY <1>4
      <4>2. op \in {"int", "char"} /\ x \in Int /\ 0 \in Int
        OBVIOUS
      <4> QED
        BY ONLY <4>1, <4>2
    <3>3. failure' \in {"", "Cannot convert to int", "not a char"}
      BY <1>4
    <3> QED
      BY <1>1, <1>4, <3>1, <3>2, <3>3 DEF NumbersTypeOK
  <2>2. PowerIsLast' /\ ExactOrStopped' /\ DivisionTruncates'
    BY <1>4 DEF PowerIsLast, Ready, ExactOrStopped, DivisionTruncates
  <2>3. failure' = "" <=> Finite(x) /\ t \in S
    BY <1>4
  <2>4. S \subseteq Int /\ ((\E n \in S : Near(x, n)) => t \in S)
    BY <1>4, Sizes
  <2>5. ConversionsTruncate'
    <3>1. /\ did'.op = op /\ did'.left = x
          /\ failure' = "" => value' = t /\ t \in S /\ Near(x, t)
          /\ failure' # "" => ~Finite(x) \/ ~\E n \in S : Near(x, n)
      BY <1>4, <2>3, <2>4
    <3>2. CASE op = "int"
      BY <1>4, <3>1, <3>2 DEF ConversionsTruncate, Finite, Near, Magnitude
    <3>3. CASE op = "char"
      BY <1>4, <3>1, <3>3 DEF ConversionsTruncate, Finite, Near, Magnitude
    <3> QED
      BY <1>4, <3>2, <3>3
  <2> QED
    BY <2>1, <2>2, <2>5 DEF NumbersInv
<1>5. /\ \A n \in Int : n \in Ints <=> Smallest <= n /\ n <= Largest
      /\ \A n \in Int : n \in 0..LargestChar <=> 0 <= n /\ n <= LargestChar
      /\ 0..LargestChar \subseteq Ints
  BY NumbersAssumption, Sizes DEF Ints, Smallest
<1>6. 2 * value \in Int /\ Finite(2 * value)
  BY <1>1, NumbersAssumption DEF Finite, Ints, Smallest
<1> DEFINE t == Trunc(real)
<1>7. CASE ToInt
  <2>1. /\ did' = [op |-> "int", left |-> real, right |-> 0] /\ Ready
        /\ power' = power /\ real' = real
        /\ IF Finite(real) /\ t \in Ints THEN value' = t /\ failure' = ""
           ELSE value' = value /\ failure' = "Cannot convert to int"
    BY <1>2, <1>5, <1>7 DEF ToInt, Noted, Yields, Fail, Ready
  <2> QED
    BY <1>1, <1>2, <1>4, <2>1
<1>8. CASE RealToChar
  <2>1. /\ did' = [op |-> "char", left |-> real, right |-> 0] /\ Ready
        /\ power' = power /\ real' = real
        /\ IF Finite(real) /\ t \in 0..LargestChar THEN value' = t /\ failure' = ""
           ELSE value' = value /\ failure' = "not a char"
    BY <1>2, <1>5, <1>8 DEF RealToChar, Noted, Yields, Fail, Ready
  <2> QED
    BY <1>1, <1>2, <1>4, <1>5, <2>1
<1>9. CASE IntToChar
  <2>1. /\ did' = [op |-> "char", left |-> 2 * value, right |-> 0] /\ Ready
        /\ power' = power /\ real' = real
        /\ IF Finite(2 * value) /\ value \in 0..LargestChar THEN value' = value /\ failure' = ""
           ELSE value' = value /\ failure' = "not a char"
    <3>1. value \in 0..LargestChar <=> ~(value < 0 \/ value > LargestChar)
      BY <1>1, <1>5, NumbersAssumption
    <3>2. Noted("char", 2 * value, 0) /\ Ready
      BY <1>9 DEF IntToChar
    <3>3. IF value \in 0..LargestChar THEN UNCHANGED <<value, real, power, failure>>
          ELSE failure' = "not a char" /\ UNCHANGED <<value, real, power>>
      BY <1>9, <3>1 DEF IntToChar, Fail
    <3> QED
      BY <1>6, <3>2, <3>3 DEF Noted, Ready
  <2> QED
    BY <1>1, <1>3, <1>4, <1>5, <1>6, <2>1
<1> QED
  BY <1>7, <1>8, <1>9

\* What is done to the real only.
LEMMA Reckoning ==
  ASSUME NumbersInv, AnyReal \/ ToReal \/ \E b \in Reals : MaxReal(b) \/ MinReal(b)
  PROVE  NumbersInv'
<1>1. value \in Ints /\ value \in Int /\ real \in Int /\ NumbersTypeOK /\ PowerIsLast
  BY TypedInv
<1>2. UNCHANGED <<value, power, failure>>
  BY DEF AnyReal, ToReal, MaxReal, MinReal
<1>3. real' \in Reals
  BY <1>1, Sizes DEF AnyReal, ToReal, MaxReal, MinReal, NumbersTypeOK
<1>4. did' \in [op : {"real", "maxreal", "minreal"}, left : Int, right : Int]
  BY <1>1, Sizes DEF AnyReal, ToReal, MaxReal, MinReal, Noted
<1>5. NumbersTypeOK'
  BY <1>1, <1>2, <1>3, <1>4 DEF NumbersTypeOK
<1>6. PowerIsLast'
  BY <1>2 DEF PowerIsLast, AnyReal, ToReal, MaxReal, MinReal, Ready
<1>7. ExactOrStopped' /\ DivisionTruncates' /\ ConversionsTruncate'
  BY <1>4 DEF ExactOrStopped, DivisionTruncates, ConversionsTruncate
<1> QED
  BY <1>5, <1>6, <1>7 DEF NumbersInv

\* Every operation keeps arithmetic exact or stopped.
LEMMA NextInv == NumbersInv /\ [NumbersNext]_numberVars => NumbersInv'
<1> SUFFICES ASSUME NumbersInv, [NumbersNext]_numberVars PROVE NumbersInv'
  OBVIOUS
<1>1. CASE (\E b \in Ints : Add(b) \/ Sub(b) \/ Mul(b)) \/ Neg
  BY <1>1, AddSubMulNeg
<1>2. CASE Abs \/ \E b \in Ints : MaxInt(b) \/ MinInt(b)
  BY <1>2, Selecting
<1>3. CASE \E b \in Ints : Div(b) \/ Mod(b)
  BY <1>3, Dividing
<1>4. CASE PowFactor \/ \E b \in Ints : Pow(b)
  BY <1>4, Raising
<1>5. CASE ToInt \/ RealToChar \/ IntToChar
  BY <1>5, Converting
<1>6. CASE AnyReal \/ ToReal \/ \E b \in Reals : MaxReal(b) \/ MinReal(b)
  BY <1>6, Reckoning
<1>7. CASE UNCHANGED numberVars
  BY <1>7 DEF numberVars, NumbersInv, NumbersTypeOK, PowerIsLast, ExactOrStopped, Exact,
              DivisionTruncates, ConversionsTruncate
<1> QED
  BY <1>1, <1>2, <1>3, <1>4, <1>5, <1>6, <1>7 DEF NumbersNext

\* Only values of their types are ever held: no wide result gets by.
THEOREM NumbersTypes == NumbersSpec => []NumbersTypeOK
<1>1. NumbersInv => NumbersTypeOK
  BY DEF NumbersInv
<1> QED
  BY InitInv, NextInv, <1>1, PTL DEF NumbersSpec

\* In every width + - * and abs are those of the integers, or stop for want of an int.
THEOREM NothingWraps == NumbersSpec => []ExactOrStopped
<1>1. NumbersInv => ExactOrStopped
  BY DEF NumbersInv
<1> QED
  BY InitInv, NextInv, <1>1, PTL DEF NumbersSpec

\* In every width / and % are one division toward zero; zero stops both, and the
\* smallest by -1 stops / alone.
THEOREM DivisionIsExact == NumbersSpec => []DivisionTruncates
<1>1. NumbersInv => DivisionTruncates
  BY DEF NumbersInv
<1> QED
  BY InitInv, NextInv, <1>1, PTL DEF NumbersSpec

\* In every width a real becomes the int or char next to it toward zero, or stops for
\* want of one.
THEOREM ConversionsAreNear == NumbersSpec => []ConversionsTruncate
<1>1. NumbersInv => ConversionsTruncate
  BY DEF NumbersInv
<1> QED
  BY InitInv, NextInv, <1>1, PTL DEF NumbersSpec

\* In every width arithmetic is that of the integers, or stops.
THEOREM ArithmeticExact == NumbersSpec => []ArithmeticIsExact
<1>1. NumbersTypeOK /\ ExactOrStopped /\ DivisionTruncates /\ ConversionsTruncate
        => ArithmeticIsExact
  BY DEF ArithmeticIsExact
<1> QED
  BY <1>1, NumbersTypes, NothingWraps, DivisionIsExact, ConversionsAreNear, PTL

-------------------------------------------------------------------------------
(***************************************************************************)
(* shm_int_pow(): while it runs the accumulator is a power of its base, and *)
(* a power that is no int has no int above it.                             *)
(***************************************************************************)
LEMMA PowersAre ==
  ASSUME NEW a \in Int, NEW n \in Nat
  PROVE  /\ Powers(a, n)[0] = 1
         /\ \A i \in 1..n : Powers(a, n)[i] = a * Powers(a, n)[i - 1]
         /\ \A i \in 0..n : Powers(a, n)[i] \in Int
<1> DEFINE Next1(g, i) == IF i = 0 THEN 1 ELSE a * g[i - 1]
           Good(g, m) == g = [i \in 0..m |-> Next1(g, i)]
           T == {m \in 0..n : \E g : Good(g, m)}
<1>1. 0 \in T
  <2> DEFINE g0 == [i \in 0..0 |-> 1]
  <2>1. Good(g0, 0) /\ 0 \in 0..n
    OBVIOUS
  <2> HIDE DEF Good, g0
  <2> QED BY <2>1
<1>2. ASSUME NEW m \in 1..n, m - 1 \in T PROVE m \in T
  <2>1. PICK g : Good(g, m - 1)
    BY <1>2
  <2> DEFINE g2 == [i \in 0..m |-> IF i = m THEN a * g[m - 1] ELSE g[i]]
  <2>2. \A i \in 0..m - 1 : g2[i] = g[i]
    OBVIOUS
  <2>3. ASSUME NEW i \in 0..m PROVE g2[i] = Next1(g2, i)
    <3>1. CASE i = m
      BY <2>2, <3>1
    <3>2. CASE i # m
      <4>1. i \in 0..m - 1 /\ (i # 0 => i - 1 \in 0..m - 1)
        BY <3>2
      <4>2. g[i] = Next1(g, i)
        BY <2>1, <4>1
      <4> QED BY <2>2, <4>1, <4>2
    <3> QED BY <3>1, <3>2
  <2>4. Good(g2, m) /\ m \in 0..n
    BY <2>3
  <2> HIDE DEF Good, g2
  <2> QED BY <2>4
<1>3. n \in T
  <2> HIDE DEF T
  <2>1. \A i \in 0..n : i \in T
    BY <1>1, <1>2, Upward
  <2> QED BY <2>1
<1>4. PICK g : Good(g, n)
  BY <1>3
<1>5. Powers(a, n) = CHOOSE f : Good(f, n)
  BY DEF Powers
<1> DEFINE p == Powers(a, n)
<1>6. Good(p, n)
  BY <1>4, <1>5
<1> HIDE DEF p
<1>7. p[0] = 1 /\ \A i \in 1..n : p[i] = a * p[i - 1]
  <2>1. 0 \in 0..n /\ \A i \in 1..n : i \in 0..n /\ i # 0
    OBVIOUS
  <2> QED BY <1>6, <2>1
<1> DEFINE S == {i \in 0..n : p[i] \in Int}
<1>8. 0 \in S /\ \A i \in 1..n : i - 1 \in S => i \in S
  BY <1>7
<1> HIDE DEF S
<1>9. \A i \in 0..n : i \in S
  BY <1>8, Upward
<1> QED BY <1>7, <1>9 DEF p, S

\* Of something no int, times two or more, something no int is left.
LEMMA FurtherOut ==
  ASSUME NEW a \in Int, a >= 2 \/ a <= -2, NEW x \in Int, x \notin Ints
  PROVE  a * x \notin Ints
<1>1. Largest \in Nat /\ (x >= Largest + 1 \/ x <= -Largest - 2)
  BY NumbersAssumption DEF Ints, Smallest
<1>2. ASSUME NEW b \in Nat, NEW y \in Nat, b >= 2, y >= Largest + 1 PROVE b * y >= Largest + 2
  <2>1. b * y >= 2 * y
    BY <1>2
  <2> QED BY <1>1, <1>2, <2>1
<1> DEFINE b == Magnitude(a)
           y == Magnitude(x)
<1>3. b \in Nat /\ b >= 2 /\ y \in Nat /\ y >= Largest + 1
  BY <1>1 DEF Magnitude
<1> HIDE DEF b, y
<1>4. b * y >= Largest + 2 /\ b * y \in Int
  <2>1. b * y >= Largest + 2
    BY ONLY <1>2, <1>3, Zenon
  <2>2. b * y \in Int
    BY ONLY <1>3
  <2> QED BY <2>1, <2>2
<1>5. a * x = b * y \/ a * x = -(b * y)
  <2>1. (-a) * (-x) = a * x /\ (-a) * x = -(a * x) /\ a * (-x) = -(a * x) /\ a * x \in Int
    OBVIOUS
  <2> QED BY <2>1 DEF Magnitude, b, y
<1> QED BY <1>1, <1>4, <1>5 DEF Ints, Smallest

\* A power that is no int has no int above it.
LEMMA NoWayBack ==
  ASSUME NEW a \in Int, NEW n \in Nat, NEW k \in 0..n, Powers(a, n)[k] \notin Ints
  PROVE  Powers(a, n)[n] \notin Ints
<1> DEFINE p == Powers(a, n)
<1>1. p[0] = 1 /\ (\A i \in 1..n : p[i] = a * p[i - 1]) /\ \A i \in 0..n : p[i] \in Int
  BY PowersAre
<1>2. p[k] \notin Ints
  OBVIOUS
<1> HIDE DEF p
<1>3. a >= 2 \/ a <= -2
  <2> SUFFICES ASSUME a \in {-1, 0, 1} PROVE FALSE
    OBVIOUS
  <2> DEFINE S == {i \in 0..n : p[i] \in {-1, 0, 1}}
  <2>1. 0 \in S /\ \A i \in 1..n : i - 1 \in S => i \in S
    BY <1>1
  <2> HIDE DEF S
  <2>2. k \in S
    BY <2>1, Upward
  <2>3. {-1, 0, 1} \subseteq Ints
    BY NumbersAssumption DEF Ints, Smallest
  <2> QED BY <1>2, <2>2, <2>3 DEF S
<1> DEFINE S == {i \in 0..n - k : p[k + i] \notin Ints}
<1>4. 0 \in S
  BY <1>2
<1>5. ASSUME NEW i \in 1..n - k, i - 1 \in S PROVE i \in S
  <2>1. /\ k + i \in 1..n /\ k + i - 1 \in 0..n /\ k + (i - 1) = k + i - 1 /\ i \in 0..n - k
    OBVIOUS
  <2>2. p[k + i] = a * p[k + i - 1] /\ p[k + i - 1] \in Int /\ p[k + i - 1] \notin Ints
    BY <1>1, <1>5, <2>1
  <2>3. p[k + i] \notin Ints
    BY <1>3, <2>2, FurtherOut
  <2> QED BY <2>1, <2>3
<1> HIDE DEF S
<1>6. n - k \in Nat /\ n - k \in 0..n - k /\ k + (n - k) = n
  OBVIOUS
<1>7. n - k \in S
  BY <1>4, <1>5, <1>6, Upward
<1> QED BY <1>6, <1>7 DEF S, p

\* Where shm_int_pow() is, and what it came to.
PowerOnItsWay ==
  did.op = "^" /\ did.right >= 0 =>
    /\ power.on => /\ power.base = did.left /\ power.times = did.right
                   /\ power.i \in 0..did.right
                   /\ value = Powers(did.left, did.right)[power.i]
    /\ failure = "" /\ ~power.on => value = Powers(did.left, did.right)[did.right]
    /\ failure # "" => Powers(did.left, did.right)[did.right] \notin Ints

PowersNeverNegative == power.on => did.right >= 0

PowerInv == NumbersInv /\ PowerOnItsWay /\ PowersNeverNegative

\* Where a machine begins no power is under way.
LEMMA PowerInitInv == NumbersInit => PowerInv
<1> SUFFICES ASSUME NumbersInit PROVE PowerOnItsWay /\ PowersNeverNegative
  BY InitInv DEF PowerInv
<1> QED BY DEF NumbersInit, PowerOnItsWay, PowersNeverNegative, NoPower

\* One more factor: the product so far is the power so far, and a stop is no int.
LEMMA PowerStep ==
  ASSUME PowerInv, PowFactor
  PROVE  PowerOnItsWay' /\ PowersNeverNegative'
<1> DEFINE a == did.left
           n == did.right
           i == power.i
           p == Powers(a, n)
<1>1. NumbersTypeOK /\ PowerIsLast /\ value \in Ints /\ value \in Int
  BY TypedInv DEF PowerInv
<1>2. did' = did /\ did.op = "^" /\ failure = "" /\ power.on
  BY <1>1, Zenon DEF PowFactor, PowerIsLast
<1>3. power.base \in Ints /\ a \in Int /\ n \in Int
  BY <1>1 DEF NumbersTypeOK
<1>4. n >= 0
  BY <1>2, Zenon DEF PowerInv, PowersNeverNegative
<1>5. power.base = a /\ power.times = n /\ i \in 0..n /\ value = p[i]
  BY <1>2, <1>4, Zenon DEF PowerInv, PowerOnItsWay
<1>6. n \in Nat /\ a \in Ints
  BY <1>3, <1>4, <1>5
<1>7. p[0] = 1 /\ (\A j \in 1..n : p[j] = a * p[j - 1]) /\ \A j \in 0..n : p[j] \in Int
  BY ONLY <1>3, <1>6, PowersAre
<1>8. Wide(value * power.base) = value * a /\ value * a \in Int
  <2>1. \A x \in Ints, y \in Ints : x * y \in Int /\ Wide(x * y) = x * y
    BY WideHolds, Sizes
  <2> QED BY ONLY <1>1, <1>5, <1>6, <2>1
<1>9. Narrows(value * a) <=> value * a \in Ints
  BY <1>8, Sizes
<1>10. CASE i >= n
  <2>1. power' = NoPower /\ value' = value /\ failure' = failure
    BY <1>5, <1>10, Zenon DEF PowFactor
  <2>2. i = n
    BY ONLY <1>5, <1>6, <1>10
  <2>3. ~power'.on
    BY <2>1 DEF NoPower
  <2> QED BY <1>2, <1>5, <2>1, <2>2, <2>3, Zenon DEF PowerOnItsWay, PowersNeverNegative
<1>11. CASE i < n /\ value * a \notin Ints
  <2>0. ~(i >= n)
    BY ONLY <1>5, <1>6, <1>11
  <2>1. failure' = "overflow" /\ value' = value /\ power' = power
    BY <1>5, <1>8, <1>9, <1>11, <2>0, Zenon DEF PowFactor, Fail
  <2>2. i + 1 \in 1..n /\ i + 1 \in 0..n /\ (i + 1) - 1 = i
    BY ONLY <1>5, <1>6, <1>11
  <2>3. p[i + 1] = value * a
    BY ONLY <1>1, <1>3, <1>5, <1>7, <2>2
  <2>4. p[n] \notin Ints
    BY ONLY <1>3, <1>6, <1>11, <2>2, <2>3, NoWayBack
  <2>5. failure' # ""
    BY <2>1
  <2> QED BY <1>2, <1>4, <1>5, <2>1, <2>4, <2>5, Zenon DEF PowerOnItsWay, PowersNeverNegative
<1>12. CASE i < n /\ value * a \in Ints
  <2>0. ~(i >= n)
    BY ONLY <1>5, <1>6, <1>12
  <2>1. failure' = failure /\ value' = value * a /\ power' = [power EXCEPT !.i = @ + 1]
    BY <1>5, <1>8, <1>9, <1>12, <2>0, Zenon DEF PowFactor
  <2>2. i + 1 \in 1..n /\ i + 1 \in 0..n /\ (i + 1) - 1 = i
    BY ONLY <1>5, <1>6, <1>12
  <2>3. p[i + 1] = value'
    BY ONLY <1>1, <1>3, <1>5, <1>7, <2>1, <2>2
  <2>4. power'.on /\ power'.base = a /\ power'.times = n /\ power'.i = i + 1
    <3>1. power \in [base : Ints, times : Ints, i : Nat, on : BOOLEAN]
      BY <1>1 DEF NumbersTypeOK
    <3> QED BY ONLY <1>2, <1>5, <2>1, <3>1, Zenon
  <2> QED BY <1>2, <1>4, <2>1, <2>2, <2>3, <2>4, Zenon DEF PowerOnItsWay, PowersNeverNegative
<1>13. i >= n \/ i < n
  BY ONLY <1>5, <1>6
<1> QED BY <1>10, <1>11, <1>12, <1>13

\* Every operation keeps the power under way on its way.
LEMMA PowerNextInv == PowerInv /\ [NumbersNext]_numberVars => PowerInv'
<1> SUFFICES ASSUME PowerInv, [NumbersNext]_numberVars PROVE PowerOnItsWay' /\ PowersNeverNegative'
  BY NextInv DEF PowerInv
<1>1. NumbersTypeOK /\ PowerIsLast /\ value \in Ints /\ value \in Int
  BY TypedInv DEF PowerInv
<1>2. NumbersTypeOK' /\ PowerIsLast'
  BY NextInv DEF PowerInv, NumbersInv
<1>3. CASE PowFactor
  BY <1>3, PowerStep
<1>4. ASSUME NEW b \in Ints, Pow(b) PROVE PowerOnItsWay' /\ PowersNeverNegative'
  <2>0. b \in Int
    BY Sizes
  <2>1. did'.op = "^" /\ did'.left = value /\ did'.right = b
    BY <1>4 DEF Pow, Noted
  <2>a. failure = "" /\ ~power.on
    BY <1>4, Zenon DEF Pow, Ready
  <2>2. CASE b < 0
    <3>1. power' = power /\ ~(b >= 0)
      <4>1. power' = power
        BY <1>4, <2>2, Zenon DEF Pow, Fail
      <4> QED BY <2>0, <2>2, <4>1
    <3> QED BY <2>1, <2>a, <3>1, Zenon DEF PowerOnItsWay, PowersNeverNegative
  <2>3. CASE b >= 0
    <3>0. ~(b < 0) /\ b \in Nat /\ 0 \in 0..b
      BY ONLY <2>0, <2>3
    <3>1. power' = [base |-> value, times |-> b, i |-> 0, on |-> TRUE] /\ value' = 1 /\ failure' = ""
      BY <1>4, <2>a, <3>0, Zenon DEF Pow
    <3>2. power'.base = value /\ power'.times = b /\ power'.i = 0 /\ power'.on
      BY ONLY <3>1, Zenon
    <3>3. Powers(value, b)[0] = 1
      BY ONLY <1>1, <3>0, PowersAre
    <3> QED BY <2>1, <2>3, <3>0, <3>1, <3>2, <3>3, Zenon DEF PowerOnItsWay, PowersNeverNegative
  <2> QED BY <2>0, <2>2, <2>3
<1>5. ASSUME did'.op # "^" PROVE PowerOnItsWay' /\ PowersNeverNegative'
  BY <1>2, <1>5 DEF PowerOnItsWay, PowersNeverNegative, PowerIsLast
<1>6. CASE UNCHANGED numberVars
  BY <1>6 DEF PowerInv, PowerOnItsWay, PowersNeverNegative, numberVars
<1>7. CASE \E b \in Ints : \/ Add(b) \/ Sub(b) \/ Mul(b) \/ Div(b) \/ Mod(b)
                           \/ MaxInt(b) \/ MinInt(b)
  <2>1. \E op \in {"+", "-", "*", "/", "%", "max", "min"} : \E left, right : Noted(op, left, right)
    BY <1>7, Zenon DEF Add, Sub, Mul, Div, Mod, MaxInt, MinInt
  <2>2. did'.op # "^"
    BY <2>1 DEF Noted
  <2> QED BY <1>5, <2>2
<1>8. CASE \/ Neg \/ Abs \/ AnyReal \/ ToReal \/ ToInt \/ IntToChar \/ RealToChar
           \/ \E b \in Reals : MaxReal(b) \/ MinReal(b)
  <2>1. \E op \in {"-", "abs", "real", "int", "char", "maxreal", "minreal"} : \E left, right : Noted(op, left, right)
    BY <1>8, Zenon DEF Neg, Abs, AnyReal, ToReal, ToInt, IntToChar, RealToChar, MaxReal, MinReal
  <2>2. did'.op # "^"
    BY <2>1 DEF Noted
  <2> QED BY <1>5, <2>2
<1> QED BY <1>3, <1>4, <1>6, <1>7, <1>8 DEF NumbersNext

\* In every width ^ is the power of the integers, and it is stopped on the way only when
\* the power it was on its way to is no int: no factor takes it back among them.
THEOREM PowersExact == NumbersSpec => []PowersAreExact
<1>1. PowerInv => PowersAreExact
  BY DEF PowerInv, PowerOnItsWay, PowersAreExact
<1> QED BY PowerInitInv, PowerNextInv, <1>1, PTL DEF NumbersSpec

-------------------------------------------------------------------------------
(***************************************************************************)
(* The int loop makes the passes the language promises, whatever the width *)
(* of an int, the start, the end, the step and what its bodies assign.     *)
(* The invariant ties the pass slot, which no body can reach, to the       *)
(* number of passes, and remembers that the pass before it still ran.      *)
(***************************************************************************)
\* The pass slot is where the passes made so far put it, and is at most one step
\* past the end.
Reached ==
  pc \in {"top", "body", "step", "done"} =>
    /\ stepSlot # 0
    /\ passSlot = first + passes * stepSlot
    /\ (IF stepSlot > 0 THEN first <= passSlot ELSE passSlot <= first)
    /\ passes > 0 => Runs(passSlot - stepSlot, endSlot, stepSlot)

Inside == pc \in {"body", "step"} => Runs(passSlot, endSlot, stepSlot)

CounterIsPass == pc = "body" => counter = passSlot

RanOut == pc = "done" /\ ~broke => ~Runs(passSlot, endSlot, stepSlot)

NothingYet == pc \in {"end", "by", "start"} => passes = 0

StepIsThere == pc = "start" => stepSlot # 0

LoopInv ==
  LoopTypeOK /\ Reached /\ Inside /\ CounterIsPass /\ RanOut /\ NothingYet /\ StepIsThere

\* No pass is no step.
LEMMA NoneYet ==
  ASSUME NEW from \in Int, NEW n \in Int, NEW by \in Int, n = 0
  PROVE  from = from + n * by
BY SMT

\* One pass more is one step more.
LEMMA OneMore ==
  ASSUME NEW from \in Int, NEW n \in Nat, NEW by \in Int
  PROVE  (from + n * by) + by = from + (n + 1) * by
BY SMT

\* A quotient is the number of times the divisor fits.
LEMMA TimesItFits ==
  ASSUME NEW d \in Nat, NEW by \in Nat, by > 0, NEW q \in Nat,
         q * by <= d, d < q * by + by
  PROVE  d \div by = q
BY SMT

\* Before the first pass the slots are still to be filled, in the order of the code.
LEMMA LoopInitInv == LoopInit => LoopInv
<1> SUFFICES ASSUME LoopInit PROVE LoopInv
  OBVIOUS
<1>1. LoopTypeOK
  <2>1. broke \in BOOLEAN
    BY DEF LoopInit
  <2>2. /\ LeastInt \in Int /\ GreatestInt \in Int /\ 0 \in LoopInts
        /\ LeastInt + LeastInt <= 0 /\ 0 <= GreatestInt + GreatestInt
    BY RangeAssumption DEF LoopInts
  <2> QED BY <2>1, <2>2 DEF LoopInit, LoopTypeOK
<1>2. Reached /\ Inside /\ CounterIsPass /\ RanOut /\ NothingYet /\ StepIsThere
  BY DEF LoopInit, Reached, Inside, CounterIsPass, RanOut, NothingYet, StepIsThere
<1> QED BY <1>1, <1>2 DEF LoopInv

\* Every step of a loop over ints keeps slot, counter and passes together.
LEMMA LoopNextInv == LoopInv /\ [LoopNext]_loopVars => LoopInv'
<1> SUFFICES ASSUME LoopInv, [LoopNext]_loopVars PROVE LoopInv'
  OBVIOUS
<1> USE RangeAssumption DEF LoopInv, LoopTypeOK, LoopInts
<1>1. CASE EvaluateEnd
  BY <1>1 DEF EvaluateEnd, history, Reached, Inside, CounterIsPass, RanOut, NothingYet, StepIsThere
<1>2. CASE EvaluateStep
  BY <1>2 DEF EvaluateStep, history, Reached, Inside, CounterIsPass, RanOut, NothingYet, StepIsThere
<1>3. CASE EvaluateStart
  <2>1. passes = 0 /\ stepSlot # 0
    BY <1>3 DEF EvaluateStart, NothingYet, StepIsThere
  <2>2. /\ passSlot' \in Int /\ first' = passSlot' /\ passes' = 0 /\ stepSlot' = stepSlot
        /\ stepSlot \in Int /\ pc' = "top"
    BY <1>3, <2>1 DEF EvaluateStart
  <2>3. Reached'
    <3>1. first' \in Int /\ passes' \in Int /\ stepSlot' \in Int
      BY <2>2
    <3>2. first' = first' + passes' * stepSlot'
      BY ONLY ZenonT(30), <2>2, <3>1, NoneYet
    <3>3. passSlot' = first' + passes' * stepSlot'
      BY <2>2, <3>2, Zenon
    <3>4. stepSlot' # 0 /\ passSlot' = first' /\ ~(passes' > 0)
      BY <2>1, <2>2
    <3>5. IF stepSlot' > 0 THEN first' <= passSlot' ELSE passSlot' <= first'
      BY <2>2
    <3> QED BY <3>3, <3>4, <3>5 DEF Reached
  <2>4. LoopTypeOK'
    BY <1>3 DEF EvaluateStart
  <2>5. (Inside /\ CounterIsPass /\ RanOut /\ NothingYet /\ StepIsThere)'
    BY <1>3 DEF EvaluateStart, Inside, CounterIsPass, RanOut, NothingYet, StepIsThere
  <2> QED BY <2>3, <2>4, <2>5
<1>4. CASE Top
  <2>1. Reached' /\ passSlot' = passSlot
    BY <1>4 DEF Top, history, Reached
  <2>2. LoopTypeOK'
    BY <1>4 DEF Top, history, Reached, Runs
  <2>3. Inside' /\ RanOut'
    BY <1>4 DEF Top, history, Inside, RanOut, Runs
  <2>4. CounterIsPass' /\ NothingYet' /\ StepIsThere'
    BY <1>4 DEF Top, history, CounterIsPass, NothingYet, StepIsThere
  <2> QED BY <2>1, <2>2, <2>3, <2>4
<1>5. CASE Body
  BY <1>5 DEF Body, history, Reached, Inside, CounterIsPass, RanOut, NothingYet, StepIsThere
<1>6. CASE Break
  BY <1>6 DEF Break, Reached, Inside, CounterIsPass, RanOut, NothingYet, StepIsThere
<1>7. CASE Step
  <2>1. passSlot' = first' + passes' * stepSlot'
    BY <1>7, OneMore DEF Step, Advanced, Reached
  <2>2. LoopTypeOK'
    BY <1>7 DEF Step, Advanced, Reached, Inside, Runs
  <2>3. Reached'
    BY <1>7, <2>1 DEF Step, Advanced, Reached, Inside, Runs
  <2>4. (Inside /\ CounterIsPass /\ RanOut /\ NothingYet /\ StepIsThere)'
    BY <1>7 DEF Step, Inside, CounterIsPass, RanOut, NothingYet, StepIsThere
  <2> QED BY <2>2, <2>3, <2>4
<1>8. CASE UNCHANGED loopVars
  BY <1>8 DEF loopVars, Reached, Inside, CounterIsPass, RanOut, NothingYet, StepIsThere
<1> QED BY <1>1, <1>2, <1>3, <1>4, <1>5, <1>6, <1>7, <1>8 DEF LoopNext

\* The invariant the other results follow from.
THEOREM LoopInvariant == LoopSpec => []LoopInv
<1>1. LoopInit => LoopInv BY LoopInitInv
<1>2. LoopInv /\ [LoopNext]_loopVars => LoopInv' BY LoopNextInv
<1> QED BY <1>1, <1>2, PTL DEF LoopSpec

\* The hidden slots and the counter keep their types; the pass slot leaves the
\* ints by one step at most, so 64 bits hold it for ints of 32.
THEOREM LoopTypes == LoopSpec => []LoopTypeOK
<1>1. LoopInv => LoopTypeOK BY DEF LoopInv
<1> QED BY <1>1, LoopInvariant, PTL

\* Every pass begins where the language says, whatever bodies assign.
THEOREM InOrder == LoopSpec => []PassesInOrder
<1>1. LoopInv => PassesInOrder
  BY DEF LoopInv, PassesInOrder, Reached, CounterIsPass
<1> QED BY <1>1, LoopInvariant, PTL

\* No pass is made outside the range of the loop.
THEOREM NeverBeyond == LoopSpec => []WithinTheEnd
<1>1. LoopInv => WithinTheEnd
  BY DEF LoopInv, LoopTypeOK, LoopInts, WithinTheEnd, Reached, CounterIsPass, Inside, Runs
<1> QED BY <1>1, LoopInvariant, PTL

\* A loop that runs to its end makes exactly the passes of the language.
THEOREM AllPasses == LoopSpec => []EveryPassIsMade
<1>1. LoopInv => EveryPassIsMade
  <2> SUFFICES ASSUME LoopInv, pc = "done", ~broke
               PROVE  passes = PassesFrom(first, endSlot, stepSlot)
    BY DEF EveryPassIsMade
  <2>1. /\ first \in Int /\ endSlot \in Int /\ stepSlot \in Int /\ passes \in Nat
        /\ passSlot \in Int
    BY RangeAssumption DEF LoopInv, LoopTypeOK, LoopInts
  <2>2. /\ stepSlot # 0 /\ passSlot = first + passes * stepSlot
        /\ passes > 0 => Runs(passSlot - stepSlot, endSlot, stepSlot)
        /\ ~Runs(passSlot, endSlot, stepSlot)
        /\ IF stepSlot > 0 THEN first <= passSlot ELSE passSlot <= first
    BY DEF LoopInv, Reached, RanOut
  <2>3. CASE passes = 0
    <3>1. passSlot = first
      BY <2>1, <2>2, <2>3
    <3> QED BY <2>2, <2>3, <3>1 DEF PassesFrom
  <2>4. CASE passes > 0 /\ stepSlot > 0
    <3> DEFINE q == passes - 1
               d == endSlot - first
    <3>1. q \in Nat BY <2>1, <2>4
    <3>2. passSlot = first + q * stepSlot + stepSlot
      BY <2>1, <2>2, <3>1
    <3>3. q * stepSlot \in Nat
      BY <2>1, <2>4, <3>1
    <3>4. q * stepSlot <= d /\ d < q * stepSlot + stepSlot /\ d \in Nat
      BY <2>1, <2>2, <2>4, <3>2, <3>3 DEF Runs
    <3>5. d \div stepSlot = q
      BY <2>1, <2>4, <3>1, <3>4, TimesItFits
    <3>6. Runs(first, endSlot, stepSlot)
      BY <2>1, <2>4, <3>4 DEF Runs
    <3> QED BY <2>1, <2>4, <3>5, <3>6 DEF PassesFrom
  <2>5. CASE passes > 0 /\ stepSlot < 0
    <3> DEFINE q == passes - 1
               d == first - endSlot
               by == 0 - stepSlot
    <3>1. q \in Nat /\ by \in Nat /\ by > 0 BY <2>1, <2>5
    <3>2. passSlot = first - q * by - by
      BY <2>1, <2>2, <3>1
    <3>3. q * by \in Nat
      BY <2>1, <3>1
    <3>4. q * by <= d /\ d < q * by + by /\ d \in Nat
      BY <2>1, <2>2, <2>5, <3>2, <3>3 DEF Runs
    <3>5. d \div by = q
      BY <2>1, <3>1, <3>4, TimesItFits
    <3>6. Runs(first, endSlot, stepSlot)
      BY <2>1, <2>5, <3>4 DEF Runs
    <3>7. by = -stepSlot
      BY <2>1
    <3> QED BY <2>1, <2>5, <3>5, <3>6, <3>7 DEF PassesFrom
  <2> QED BY <2>1, <2>2, <2>3, <2>4, <2>5
<1> QED BY <1>1, LoopInvariant, PTL

\* For every range of ints: the passes are those the language promises.
THEOREM AsPromised == LoopSpec => []PassesAsPromised
<1>1. LoopTypeOK /\ PassesInOrder /\ EveryPassIsMade /\ WithinTheEnd => PassesAsPromised
  BY DEF PassesAsPromised
<1> QED BY <1>1, LoopTypes, InOrder, AllPasses, NeverBeyond, PTL

-------------------------------------------------------------------------------
(***************************************************************************)
(* Printing: a line that was printed on is never empty and one that was    *)
(* not is, which is what printArray() asks lineHasText_ for.               *)
(***************************************************************************)
ConsoleInv ==
  /\ column \in Nat /\ scalarPlaces \in Nat /\ gridPlaces \in Nat
  /\ lineHasText \in BOOLEAN /\ (lineHasText <=> column > 0)
  /\ GridsLineUp

\* Some number is the largest of a set of numbers no larger than m.
LEMMA LargestExists ==
  ASSUME NEW S, S \subseteq Nat, S # {}, NEW m \in Nat, \A x \in S : x <= m
  PROVE  Max(S) \in Nat
<1> DEFINE T == {m - x : x \in S}
<1>1. T \subseteq Nat /\ T # {}
  <2>1. \A x \in S : x \in Nat /\ m - x \in Nat
    OBVIOUS
  <2> QED BY <2>1
<1>2. PICK t \in T : \A u \in T : t <= u
  BY <1>1, SmallestExists
<1>3. PICK x \in S : t = m - x
  BY <1>2
<1>4. ASSUME NEW y \in S PROVE x >= y
  <2>1. m - y \in T
    OBVIOUS
  <2>2. t <= m - y
    BY <1>2, <2>1
  <2>3. x \in Nat /\ y \in Nat
    OBVIOUS
  <2> QED BY <1>3, <2>2, <2>3
<1> QED BY <1>3, <1>4 DEF Max

\* The numbers of a row have a bound.
LEMMA RowBounded ==
  ASSUME NEW row \in Seq(Nat)
  PROVE  \E m \in Nat : \A c \in DOMAIN row : row[c] <= m
<1> DEFINE S == {i \in 0..Len(row) : \E m \in Nat : \A c \in 1..i : row[c] <= m}
<1>1. Len(row) \in Nat /\ DOMAIN row = 1..Len(row) /\ \A c \in DOMAIN row : row[c] \in Nat
  OBVIOUS
<1>2. 0 \in S
  BY <1>1
<1>3. \A i \in 1..Len(row) : i - 1 \in S => i \in S
  <2> SUFFICES ASSUME NEW i \in 1..Len(row), i - 1 \in S PROVE i \in S
    OBVIOUS
  <2>1. PICK m \in Nat : \A c \in 1..i - 1 : row[c] <= m
    OBVIOUS
  <2> DEFINE m2 == m + row[i]
  <2>2. m2 \in Nat /\ \A c \in 1..i : row[c] <= m2
    <3>1. row[i] \in Nat BY <1>1
    <3>2. \A c \in 1..i : c = i \/ c \in 1..i - 1 BY <1>1
    <3>3. \A c \in 1..i : row[c] \in Nat BY <1>1
    <3> QED BY <2>1, <3>1, <3>2, <3>3
  <2> HIDE DEF m2
  <2>3. i \in 0..Len(row)
    BY <1>1
  <2> QED BY <2>2, <2>3
<1> HIDE DEF S
<1>4. Len(row) \in S
  <2>1. \A i \in 0..Len(row) : i \in S
    BY <1>1, <1>2, <1>3, Upward
  <2> QED BY <1>1, <2>1
<1> QED BY <1>1, <1>4 DEF S

\* The width of a grid's columns is a number: arrays are finite and not empty.
LEMMA GridIs ==
  ASSUME NEW grid \in Grids, gridPlaces \in Nat
  PROVE  /\ Max(Widths(grid)) \in Nat
         /\ Len(grid.rows) \in Nat \ {0} /\ DOMAIN grid.rows = 1..Len(grid.rows)
         /\ \A i \in DOMAIN grid.rows : /\ Len(grid.rows[i]) \in Nat \ {0}
                                        /\ DOMAIN grid.rows[i] = 1..Len(grid.rows[i])
<1> DEFINE rows == grid.rows
           places == IF grid.reals THEN Fraction(gridPlaces) ELSE 0
           W(i) == {rows[i][c] + places : c \in DOMAIN rows[i]}
<1>1. rows \in Seq(Seq(Nat) \ {<<>>}) /\ rows # <<>>
  BY ConsoleAssumption
<1>2. Len(rows) \in Nat \ {0} /\ DOMAIN rows = 1..Len(rows)
  BY <1>1
<1>3. \A i \in DOMAIN rows : rows[i] \in Seq(Nat) /\ rows[i] # <<>>
  BY <1>1
<1>4. \A i \in DOMAIN rows : Len(rows[i]) \in Nat \ {0} /\ DOMAIN rows[i] = 1..Len(rows[i])
  BY <1>3
<1>5. places \in Nat
  BY DEF Fraction
<1> DEFINE Bound(i) == CHOOSE m \in Nat : \A c \in DOMAIN rows[i] : rows[i][c] <= m
           widest == [i \in 1..Len(rows) |-> Bound(i)]
<1>6. \A i \in DOMAIN rows : Bound(i) \in Nat /\ \A c \in DOMAIN rows[i] : rows[i][c] <= Bound(i)
  BY <1>3, RowBounded
<1>7. widest \in Seq(Nat) /\ DOMAIN widest = DOMAIN rows /\ \A i \in DOMAIN rows : widest[i] = Bound(i)
  <2> HIDE DEF Bound
  <2>1. widest \in [1..Len(rows) -> Nat] BY <1>2, <1>6
  <2> QED BY <1>2, <2>1
<1> HIDE DEF widest, Bound
<1>8. PICK m \in Nat : \A i \in DOMAIN rows : widest[i] <= m
  BY <1>7, RowBounded
<1> HIDE DEF places
<1>9. ASSUME NEW x \in Widths(grid) PROVE x \in Nat /\ x <= m + places
  <2>1. PICK i \in DOMAIN rows : \E c \in DOMAIN rows[i] : x = rows[i][c] + places
    BY DEF Widths, places
  <2>a. PICK c \in DOMAIN rows[i] : x = rows[i][c] + places
    BY <2>1
  <2>2. rows[i][c] \in Nat /\ widest[i] \in Nat /\ rows[i][c] <= widest[i] /\ widest[i] <= m
    BY <1>3, <1>6, <1>7, <1>8
  <2> QED BY <1>5, <2>a, <2>2
<1>10. Widths(grid) # {}
  <2>1. 1 \in DOMAIN rows
    BY <1>2
  <2>2. 1 \in DOMAIN rows[1]
    BY <1>4, <2>1
  <2>3. rows[1][1] + places \in Widths(grid)
    BY <2>1, <2>2 DEF Widths, places
  <2> QED BY <2>3
<1>11. Widths(grid) \subseteq Nat /\ m + places \in Nat /\ \A x \in Widths(grid) : x <= m + places
  BY <1>5, <1>9
<1>12. Max(Widths(grid)) \in Nat
  BY <1>10, <1>11, LargestExists
<1> QED BY <1>2, <1>4, <1>12

\* The first line is empty and has no text.
LEMMA ConsoleInitInv == ConsoleInit => ConsoleInv
<1> SUFFICES ASSUME ConsoleInit PROVE ConsoleInv
  OBVIOUS
<1>1. /\ column = 0 /\ lineHasText = FALSE /\ printed = Something
      /\ scalarPlaces \in Nat /\ gridPlaces \in Nat
  BY DEF ConsoleInit, DefaultScalarPlaces, DefaultGridPlaces
<1>2. GridsLineUp
  BY <1>1 DEF GridsLineUp, Something
<1>3. column \in Nat /\ ~(column > 0)
  BY <1>1
<1> QED BY <1>1, <1>2, <1>3, Zenon DEF ConsoleInv

\* Whatever is no grid, and leaves the line as lineHasText_ says.
LEMMA OtherThanGrid ==
  ASSUME column' \in Nat, scalarPlaces' \in Nat, gridPlaces' \in Nat, printed' = Something,
         NEW some \in BOOLEAN, lineHasText' = some, some <=> column' > 0
  PROVE  ConsoleInv'
<1>1. lineHasText' \in BOOLEAN /\ (lineHasText' <=> column' > 0)
  BY Zenon
<1>2. GridsLineUp'
  BY DEF GridsLineUp, Something
<1> QED BY <1>1, <1>2 DEF ConsoleInv

\* A grid printed where lineHasText_ says where the line stands.
LEMMA PrintedGrid ==
  ASSUME ConsoleInv, NEW grid \in Grids, PrintArray(grid)
  PROVE  ConsoleInv'
<1> DEFINE rows == grid.rows
           width == Max(Widths(grid))
           breaks == Len(rows) > 1 /\ lineHasText
           begin(i) == IF i = 1 /\ ~breaks THEN column ELSE 0
           last == Ends(rows[Len(rows)], width, begin(Len(rows)))
           ends == [i \in DOMAIN rows |-> Ends(rows[i], width, begin(i))]
<1>1. /\ column' = last[Len(last)] + 1 /\ lineHasText' = TRUE
      /\ printed' = [what |-> "grid", empty |-> breaks /\ column = 0, ends |-> ends]
      /\ scalarPlaces' = scalarPlaces /\ gridPlaces' = gridPlaces
  BY DEF PrintArray
<1>0. scalarPlaces \in Nat /\ gridPlaces \in Nat
  BY DEF ConsoleInv
<1>2. /\ width \in Nat /\ Len(rows) \in Nat \ {0} /\ DOMAIN rows = 1..Len(rows)
      /\ \A i \in DOMAIN rows : Len(rows[i]) \in Nat \ {0} /\ DOMAIN rows[i] = 1..Len(rows[i])
  BY GridIs DEF ConsoleInv
<1> HIDE DEF width
<1>3. column \in Nat /\ lineHasText \in BOOLEAN /\ (lineHasText <=> column > 0)
  BY DEF ConsoleInv
<1>4. column' \in Nat /\ column' > 0
  <2> DEFINE n == Len(rows[Len(rows)])
             b == begin(Len(rows))
  <2>1. n \in Nat \ {0} /\ DOMAIN rows[Len(rows)] = 1..n /\ b \in Nat
    BY <1>2, <1>3
  <2> HIDE DEF n, b
  <2>2. last = [c \in 1..n |-> b + c * width + 2 * (c - 1)]
    BY <2>1 DEF Ends, b
  <2>3. Len(last) = n
    BY <2>1, <2>2
  <2>4. last[n] = b + n * width + 2 * (n - 1)
    BY <2>1, <2>2
  <2>5. n * width \in Nat
    BY <1>2, <2>1
  <2> QED BY <1>1, <2>1, <2>3, <2>4, <2>5
<1>5. ~(breaks /\ column = 0)
  BY <1>3
<1>6. \A i, j \in DOMAIN rows : begin(i) = begin(j)
  <2>1. CASE breaks
    BY <2>1
  <2>2. CASE Len(rows) = 1
    BY <1>2, <2>2
  <2>3. CASE ~lineHasText
    BY <1>3, <2>3
  <2> QED BY <1>2, <2>1, <2>2, <2>3
<1> HIDE DEF begin
<1>7. ASSUME NEW i \in DOMAIN rows, NEW j \in DOMAIN rows, NEW c \in DOMAIN ends[i] \cap DOMAIN ends[j]
      PROVE  ends[i][c] = ends[j][c]
  BY <1>6, <1>7 DEF Ends
<1>8. DOMAIN ends = DOMAIN rows
  OBVIOUS
<1> HIDE DEF ends, breaks
<1>9. GridsLineUp'
  <2>1. printed'.ends = ends /\ printed'.empty = (breaks /\ column = 0)
    BY <1>1, Zenon
  <2>2. ~printed'.empty
    BY <1>5, <2>1, Zenon
  <2>3. \A i, j \in DOMAIN ends : \A c \in DOMAIN ends[i] \cap DOMAIN ends[j] : ends[i][c] = ends[j][c]
    BY <1>7, <1>8
  <2>4. \A i, j \in DOMAIN printed'.ends :
          \A c \in DOMAIN printed'.ends[i] \cap DOMAIN printed'.ends[j] :
            printed'.ends[i][c] = printed'.ends[j][c]
    BY ONLY <2>1, <2>3, Zenon
  <2> QED BY <2>2, <2>4, Zenon DEF GridsLineUp
<1> QED BY <1>0, <1>1, <1>4, <1>9, Zenon DEF ConsoleInv

\* Whatever is printed, a line has text exactly when its column is positive.
LEMMA ConsoleNextInv == ConsoleInv /\ [ConsoleNext]_consoleVars => ConsoleInv'
<1> SUFFICES ASSUME ConsoleInv, [ConsoleNext]_consoleVars PROVE ConsoleInv'
  OBVIOUS
<1>0. /\ column \in Nat /\ scalarPlaces \in Nat /\ gridPlaces \in Nat
      /\ lineHasText \in BOOLEAN /\ (lineHasText <=> column > 0)
  BY DEF ConsoleInv
<1>1. ASSUME NEW w \in Nat, PrintText(w) PROVE ConsoleInv'
  <2>1. /\ column' \in Nat /\ column' > 0 /\ lineHasText' = TRUE /\ printed' = Something
        /\ scalarPlaces' = scalarPlaces /\ gridPlaces' = gridPlaces
    BY <1>0, <1>1 DEF PrintText, Emit
  <2> QED BY ONLY <1>0, <2>1, OtherThanGrid
<1>2. CASE \E w \in Cells : PrintInt(w) \/ PrintText(w) \/ PrintFixed(w)
  <2>1. PICK w \in Cells : PrintText(w) \/ PrintFixed(w)
    BY <1>2 DEF PrintInt, PrintText
  <2>2. w \in Nat /\ w + Fraction(scalarPlaces) \in Nat
    BY <1>0, ConsoleAssumption DEF Fraction
  <2> QED BY <1>1, <2>1, <2>2 DEF PrintFixed
<1>3. CASE \E c \in {"NUL", "newline", "letter"} : PrintChar(c)
  <2>1. PICK c \in {"NUL", "newline", "letter"} : PrintChar(c)
    BY <1>3
  <2>2. /\ column' = CASE c = "NUL" -> column + 1 [] c = "newline" -> 1 [] c = "letter" -> column + 2
        /\ lineHasText' = TRUE /\ printed' = Something
        /\ scalarPlaces' = scalarPlaces /\ gridPlaces' = gridPlaces
    BY <2>1, Zenon DEF PrintChar
  <2>3. column' = column + 1 \/ column' = 1 \/ column' = column + 2
    BY <2>2, Zenon
  <2>4. column' \in Nat /\ column' > 0
    BY <1>0, <2>3
  <2> QED BY ONLY <1>0, <2>2, <2>4, OtherThanGrid
<1>4. CASE \E grid \in Grids : PrintArray(grid)
  BY <1>4, PrintedGrid
<1>5. CASE EndLine
  <2>1. /\ column' = 0 /\ lineHasText' = FALSE /\ printed' = Something
        /\ scalarPlaces' = scalarPlaces /\ gridPlaces' = gridPlaces
    BY <1>5 DEF EndLine
  <2>2. column' \in Nat /\ ~(column' > 0)
    BY <2>1
  <2> QED BY ONLY <1>0, <2>1, <2>2, OtherThanGrid
<1>6. CASE \E n \in Asked : SetPlaces(n)
  <2>1. PICK n \in Asked : SetPlaces(n)
    BY <1>6
  <2>2. n \in Int
    BY ConsoleAssumption
  <2>3. n >= 0 => Min({n, MostPlaces}) \in Nat
    <3>1. ASSUME n >= 0 PROVE \E x \in {n, MostPlaces} : \A y \in {n, MostPlaces} : x =< y
      BY <2>2, <3>1 DEF MostPlaces
    <3>2. n >= 0 => {n, MostPlaces} \subseteq Nat
      BY <2>2 DEF MostPlaces
    <3> QED BY <3>1, <3>2 DEF Min
  <2>4. scalarPlaces' \in Nat /\ gridPlaces' \in Nat
    BY <2>1, <2>2, <2>3 DEF SetPlaces, DefaultScalarPlaces, DefaultGridPlaces
  <2>5. column' = column /\ lineHasText' = lineHasText /\ printed' = Something
    BY <2>1 DEF SetPlaces
  <2>6. column' \in Nat /\ (lineHasText <=> column' > 0)
    BY <1>0, <2>5, Zenon
  <2> QED BY ONLY <1>0, <2>4, <2>5, <2>6, OtherThanGrid
<1>7. CASE UNCHANGED consoleVars
  BY <1>7 DEF consoleVars, ConsoleInv, GridsLineUp
<1> QED BY <1>2, <1>3, <1>4, <1>5, <1>6, <1>7 DEF ConsoleNext

\* Whatever was printed before, in whatever places, a grid's columns line up and no
\* empty line sets it off.
THEOREM ColumnsLineUp == ConsoleSpec => []GridsLineUp
<1>1. ConsoleInv => GridsLineUp
  BY DEF ConsoleInv
<1> QED BY ConsoleInitInv, ConsoleNextInv, <1>1, PTL DEF ConsoleSpec
-------------------------------------------------------------------------------
(***************************************************************************)
(* Loops over reals.  First powers of two, then rounding to a unit, to a   *)
(* mantissa, and never past a real; then one product and one sum; then the *)
(* loop.                                                                   *)
(***************************************************************************)
\* g holds the powers of two up to the n-th.
Doubling(g, n) == g \in [0..n -> Nat \ {0}] /\ g[0] = 1 /\ \A k \in 1..n : g[k] = 2 * g[k - 1]

\* There is one for every length.
LEMMA DoublingSome ==
  ASSUME NEW n \in Nat
  PROVE  \E g : Doubling(g, n)
<1> DEFINE T == {m \in 0..n : \E g : Doubling(g, m)}
<1>1. 0 \in T
  <2> DEFINE g0 == [i \in 0..0 |-> 1]
  <2>1. Doubling(g0, 0) /\ 0 \in 0..n
    BY DEF Doubling
  <2> HIDE DEF g0
  <2> QED BY <2>1
<1>2. ASSUME NEW m \in 1..n, m - 1 \in T PROVE m \in T
  <2>1. PICK g : Doubling(g, m - 1)
    BY <1>2
  <2> DEFINE h == [i \in 0..m |-> IF i = m THEN 2 * g[m - 1] ELSE g[i]]
  <2>2. m \in Nat /\ m > 0 /\ m - 1 \in 0..m - 1 /\ g[m - 1] \in Nat \ {0}
    BY <2>1 DEF Doubling
  <2>3. \A i \in 0..m - 1 : i \in 0..m /\ i # m /\ h[i] = g[i] /\ g[i] \in Nat \ {0}
    BY <2>1 DEF Doubling
  <2>4. h[m] = 2 * g[m - 1] /\ h[m] \in Nat \ {0}
    BY <2>2
  <2>5. h \in [0..m -> Nat \ {0}]
    <3>1. \A i \in 0..m : i = m \/ i \in 0..m - 1
      BY <2>2
    <3>2. \A i \in 0..m : h[i] \in Nat \ {0}
      <4> HIDE DEF h
      <4> QED BY <2>3, <2>4, <3>1
    <3> QED BY <3>2
  <2> HIDE DEF h
  <2>6. h[0] = 1
    <3>1. 0 \in 0..m - 1
      BY <2>2
    <3> QED BY <2>1, <2>3, <3>1 DEF Doubling
  <2>7. ASSUME NEW k \in 1..m PROVE h[k] = 2 * h[k - 1]
    <3>1. CASE k = m
      BY <2>2, <2>3, <2>4, <3>1
    <3>2. CASE k # m
      <4>1. k \in 1..m - 1 /\ k \in 0..m - 1 /\ k - 1 \in 0..m - 1
        BY <2>2, <3>2
      <4> QED BY <2>1, <2>3, <4>1 DEF Doubling
    <3> QED BY <3>1, <3>2
  <2>8. Doubling(h, m)
    BY <2>5, <2>6, <2>7 DEF Doubling
  <2> QED BY <2>8
<1>3. n \in T
  <2> HIDE DEF T
  <2>1. \A i \in 0..n : i \in T
    BY <1>1, <1>2, Upward
  <2> QED BY <2>1
<1> QED BY <1>3

\* And two of them agree.
LEMMA DoublingOne ==
  ASSUME NEW n \in Nat, NEW m \in Nat, n <= m, NEW g, Doubling(g, n), NEW h, Doubling(h, m)
  PROVE  g[n] = h[n]
<1> DEFINE T == {k \in 0..n : g[k] = h[k]}
<1>1. 0 \in T
  BY DEF Doubling
<1>2. ASSUME NEW k \in 1..n, k - 1 \in T PROVE k \in T
  <2>1. k \in 1..m /\ k \in 0..n
    OBVIOUS
  <2> QED BY <1>2, <2>1 DEF Doubling
<1> HIDE DEF T
<1>3. \A k \in 0..n : k \in T
  BY <1>1, <1>2, Upward
<1>4. n \in T
  BY <1>3
<1> QED BY <1>4 DEF T

\* The powers of two are what their recursion says, and positive.
LEMMA TwoToIs ==
  /\ TwoTo[0] = 1
  /\ \A k \in Nat : TwoTo[k] \in Nat \ {0} /\ TwoTo[k + 1] = 2 * TwoTo[k]
<1> DEFINE Of(k) == CHOOSE g : Doubling(g, k)
           f == [k \in Nat |-> Of(k)[k]]
<1>1. \A k \in Nat : Doubling(Of(k), k)
  BY DoublingSome
<1> HIDE DEF Of
<1>2. \A k \in Nat : f[k] = Of(k)[k] /\ f[k] \in Nat \ {0}
  <2>1. \A k \in Nat : k \in 0..k
    OBVIOUS
  <2> QED BY <1>1, <2>1 DEF Doubling
<1>3. \A k \in Nat : f[k] = IF k = 0 THEN 1 ELSE 2 * f[k - 1]
  <2> SUFFICES ASSUME NEW k \in Nat PROVE f[k] = IF k = 0 THEN 1 ELSE 2 * f[k - 1]
    OBVIOUS
  <2> HIDE DEF f
  <2>1. CASE k = 0
    BY <1>1, <1>2, <2>1 DEF Doubling
  <2>2. CASE k # 0
    <3>1. k - 1 \in Nat /\ k - 1 <= k /\ k \in 1..k
      BY <2>2
    <3>2. Of(k)[k] = 2 * Of(k)[k - 1]
      BY <1>1, <3>1 DEF Doubling
    <3>3. Of(k - 1)[k - 1] = Of(k)[k - 1]
      BY <1>1, <3>1, DoublingOne
    <3> QED BY <1>2, <2>2, <3>1, <3>2, <3>3
  <2> QED BY <2>1, <2>2
<1>4. f = [k \in Nat |-> IF k = 0 THEN 1 ELSE 2 * f[k - 1]]
  BY <1>3
<1> HIDE DEF f
<1>5. TwoTo = [k \in Nat |-> IF k = 0 THEN 1 ELSE 2 * TwoTo[k - 1]]
  BY <1>4 DEF TwoTo
<1>6. \A k \in Nat : TwoTo[k] = IF k = 0 THEN 1 ELSE 2 * TwoTo[k - 1]
  BY <1>5
<1>7. ASSUME NEW k \in Nat PROVE TwoTo[k + 1] = 2 * TwoTo[k]
  <2>1. k + 1 \in Nat /\ k + 1 # 0 /\ (k + 1) - 1 = k
    OBVIOUS
  <2>2. TwoTo[k + 1] = 2 * TwoTo[(k + 1) - 1]
    BY <1>6, <2>1
  <2> QED BY <2>1, <2>2
<1>8. ASSUME NEW n \in Nat PROVE TwoTo[n] \in Nat \ {0}
  <2> DEFINE T == {k \in 0..n : TwoTo[k] \in Nat \ {0}}
  <2>1. 0 \in T
    BY <1>6
  <2>2. ASSUME NEW k \in 1..n, k - 1 \in T PROVE k \in T
    BY <1>6, <2>2
  <2> HIDE DEF T
  <2>3. \A k \in 0..n : k \in T
    BY <2>1, <2>2, Upward
  <2>4. n \in T
    BY <2>3
  <2> QED BY <2>4 DEF T
<1> QED BY <1>6, <1>7, <1>8

\* A power of two is greater than its exponent.
LEMMA TwoToGrows == \A n \in Nat : n < TwoTo[n]
<1> SUFFICES ASSUME NEW n \in Nat PROVE n < TwoTo[n]
  OBVIOUS
<1> DEFINE T == {k \in 0..n : k < TwoTo[k]}
<1>1. 0 \in T
  BY TwoToIs
<1>2. ASSUME NEW k \in 1..n, k - 1 \in T PROVE k \in T
  <2>1. k - 1 \in Nat /\ k - 1 < TwoTo[k - 1] /\ (k - 1) + 1 = k
    BY <1>2
  <2>2. TwoTo[k] = 2 * TwoTo[k - 1] /\ TwoTo[k - 1] \in Nat
    <3> DEFINE j == k - 1
    <3>1. j \in Nat /\ j + 1 = k
      BY <2>1
    <3> HIDE DEF j
    <3>2. TwoTo[k] = 2 * TwoTo[j] /\ TwoTo[j] \in Nat
      BY <3>1, TwoToIs
    <3> QED BY <3>2 DEF j
  <2> QED BY <2>1, <2>2
<1> HIDE DEF T
<1>3. \A k \in 0..n : k \in T
  BY <1>1, <1>2, Upward
<1>4. n \in T
  BY <1>3
<1> QED BY <1>4 DEF T

\* x is a whole number of units u.
Multiple(x, u) == \E m \in Int : x = m * u

\* A greater power is a multiple of a smaller, and no less.
LEMMA TwoToDivides ==
  ASSUME NEW i \in Nat, NEW j \in Nat, i <= j
  PROVE  TwoTo[i] <= TwoTo[j] /\ Multiple(TwoTo[j], TwoTo[i])
<1> DEFINE n == j - i
           T == {k \in 0..n : \E m \in Nat \ {0} : TwoTo[i + k] = m * TwoTo[i]}
<1>0. n \in Nat /\ i + n = j /\ TwoTo[i] \in Nat \ {0}
  BY TwoToIs
<1>1. 0 \in T
  <2>1. i + 0 = i /\ TwoTo[i] = 1 * TwoTo[i] /\ 0 \in 0..n
    BY <1>0
  <2> QED BY <2>1
<1>2. ASSUME NEW k \in 1..n, k - 1 \in T PROVE k \in T
  <2> DEFINE l == i + (k - 1)
  <2>1. l \in Nat /\ l + 1 = i + k /\ k \in 0..n
    BY <1>0
  <2>2. PICK m \in Nat \ {0} : TwoTo[l] = m * TwoTo[i]
    BY <1>2
  <2> HIDE DEF l
  <2>3. TwoTo[i + k] = 2 * TwoTo[l]
    BY <2>1, TwoToIs
  <2>4. 2 * m \in Nat \ {0} /\ TwoTo[i + k] = (2 * m) * TwoTo[i]
    BY <1>0, <2>2, <2>3
  <2> QED BY <2>1, <2>4
<1> HIDE DEF T, n
<1>3. \A k \in 0..n : k \in T
  BY <1>0, <1>1, <1>2, Upward
<1>4. n \in T
  BY <1>0, <1>3
<1>5. PICK m \in Nat \ {0} : TwoTo[j] = m * TwoTo[i]
  BY <1>0, <1>4 DEF T
<1> QED BY <1>0, <1>5 DEF Multiple

\* Numbers of units compare as the units do.
LEMMA Scaled ==
  ASSUME NEW u \in Nat \ {0}, NEW a \in Int, NEW b \in Int
  PROVE  /\ a * u \in Int
         /\ a <= b => a * u <= b * u
         /\ a * u < (b + 1) * u => a <= b
         /\ (b + 1) * u = b * u + u
<1>1. a * u \in Int /\ b * u \in Int /\ (b + 1) * u = b * u + u
  OBVIOUS
<1>2. ASSUME a <= b PROVE a * u <= b * u
  <2>1. b - a \in Nat /\ (b - a) * u >= 0
    BY <1>2
  <2>2. (b - a) * u = b * u - a * u
    OBVIOUS
  <2> QED BY <1>1, <2>1, <2>2
<1>3. ASSUME a * u < (b + 1) * u, ~(a <= b) PROVE FALSE
  <2>1. a - (b + 1) \in Nat /\ (a - (b + 1)) * u >= 0
    BY <1>3
  <2>2. (a - (b + 1)) * u = a * u - (b + 1) * u
    OBVIOUS
  <2> QED BY <1>1, <1>3, <2>1, <2>2
<1> QED BY <1>1, <1>2, <1>3

\* What a number is in whole units, and what is left of it.
LEMMA WholeUnits ==
  ASSUME NEW x \in Int, NEW u \in Nat \ {0}
  PROVE  /\ x \div u \in Int /\ x % u \in Nat /\ x % u < u
         /\ x = (x \div u) * u + (x % u)
  OBVIOUS

\* Rounding to a unit: to a multiple, half a unit off at most, past no multiple.
LEMMA RoundTo ==
  ASSUME NEW x \in Int, NEW u \in Nat \ {0}, Ulp(x) = u
  PROVE  /\ Round(x) \in Int /\ Multiple(Round(x), u)
         /\ 2 * (Round(x) - x) <= u /\ 2 * (x - Round(x)) <= u
         /\ Multiple(x, u) => Round(x) = x
         /\ \A c \in Int : Multiple(c, u) => (c <= x => c <= Round(x)) /\ (x <= c => Round(x) <= c)
<1> DEFINE q == x \div u
           r == x % u
           p == q * u
<1>1. q \in Int /\ r \in Nat /\ r < u /\ p \in Int /\ x = p + r
  BY WholeUnits, Scaled
<1>2. \/ 2 * r <= u /\ Round(x) = x - r
      \/ 2 * r >= u /\ Round(x) = x - r + u
  BY <1>1 DEF Round
<1>3. p = q * u /\ p + u = (q + 1) * u
  BY <1>1, Scaled
<1> HIDE DEF q, r, p
<1>4. Round(x) = p \/ (Round(x) = p + u /\ r # 0)
  BY <1>1, <1>2
<1>5. Round(x) \in Int /\ 2 * (Round(x) - x) <= u /\ 2 * (x - Round(x)) <= u
  BY <1>1, <1>2
<1>6. Multiple(Round(x), u)
  <2>1. q + 1 \in Int
    BY <1>1
  <2> QED BY <1>1, <1>3, <1>4, <2>1 DEF Multiple
<1>7. ASSUME NEW c \in Int, Multiple(c, u), c <= x PROVE c <= p
  <2>1. PICK m \in Int : c = m * u
    BY <1>7 DEF Multiple
  <2>2. m * u < (q + 1) * u
    BY <1>1, <1>3, <1>7, <2>1
  <2>3. m <= q
    BY <1>1, <2>2, Scaled
  <2> QED BY <1>1, <1>3, <2>1, <2>3, Scaled
<1>8. ASSUME NEW c \in Int, Multiple(c, u), x <= c, r # 0 PROVE p + u <= c
  <2>1. PICK m \in Int : c = m * u
    BY <1>8 DEF Multiple
  <2>2. ~(m <= q)
    <3> SUFFICES ASSUME m <= q PROVE FALSE
      OBVIOUS
    <3>1. m * u <= q * u
      BY <1>1, Scaled
    <3> QED BY <1>1, <1>3, <1>8, <2>1, <3>1
  <2>3. q + 1 \in Int /\ q + 1 <= m
    BY <1>1, <2>2
  <2>4. (q + 1) * u <= m * u
    BY <2>3, Scaled
  <2> QED BY <1>3, <2>1, <2>4
<1>9. ASSUME Multiple(x, u) PROVE Round(x) = x
  <2>1. x <= p
    BY <1>7, <1>9, <1>1
  <2> QED BY <1>1, <1>4, <2>1
<1>10. ASSUME NEW c \in Int, Multiple(c, u), c <= x PROVE c <= Round(x)
  BY <1>1, <1>4, <1>7, <1>10
<1>11. ASSUME NEW c \in Int, Multiple(c, u), x <= c PROVE Round(x) <= c
  BY <1>1, <1>4, <1>8, <1>11
<1> QED BY <1>5, <1>6, <1>9, <1>10, <1>11

-------------------------------------------------------------------------------
\* x is of the size whose last bit is worth TwoTo[k].
OfSize(x, k) ==
  /\ k \in Nat /\ Size(x) < TwoTo[Digits + k]
  /\ k > 0 => Size(x) >= TwoTo[Digits + k - 1]

\* The size of a number is the number or its opposite.
LEMMA SizeIs ==
  ASSUME NEW x \in Int
  PROVE  Size(x) \in Nat /\ x <= Size(x) /\ -x <= Size(x) /\ (x = Size(x) \/ -x = Size(x))
  BY DEF Size

\* Every number has a size, and its last bit the worth of that size.
LEMMA UlpIs ==
  ASSUME NEW x \in Int
  PROVE  \E k \in Nat : OfSize(x, k) /\ Ulp(x) = TwoTo[k]
<1> DEFINE s == Size(x)
           Fits(k) == s < TwoTo[Digits + k] /\ (k > 0 => s >= TwoTo[Digits + k - 1])
           T == {k \in Nat : s < TwoTo[Digits + k]}
<1>0. s \in Nat /\ Digits \in Nat
  BY SizeIs, DigitsAssumption
<1> HIDE DEF s
<1>1. s \in T
  <2>1. Digits + s \in Nat /\ s <= Digits + s
    BY <1>0
  <2>2. Digits + s < TwoTo[Digits + s] /\ TwoTo[Digits + s] \in Nat
    BY <2>1, TwoToGrows, TwoToIs
  <2> QED BY <1>0, <2>1, <2>2
<1>2. PICK k \in T : \A l \in T : k <= l
  <2>1. T \subseteq Nat /\ T # {}
    BY <1>1
  <2> HIDE DEF T
  <2> QED BY <2>1, SmallestExists
<1>3. k \in 0..s /\ Fits(k)
  <2>1. k \in Nat /\ k <= s /\ s < TwoTo[Digits + k]
    BY <1>0, <1>1, <1>2
  <2>2. ASSUME k > 0, ~(s >= TwoTo[Digits + k - 1]) PROVE FALSE
    <3>1. k - 1 \in Nat /\ Digits + (k - 1) = Digits + k - 1 /\ Digits + (k - 1) \in Nat
      BY <1>0, <2>1, <2>2
    <3>2. TwoTo[Digits + (k - 1)] \in Nat
      BY <3>1, TwoToIs
    <3>3. s < TwoTo[Digits + (k - 1)]
      BY <1>0, <2>2, <3>1, <3>2
    <3>4. k - 1 \in T
      BY <3>1, <3>3
    <3> QED BY <1>2, <2>1, <3>4
  <2> QED BY <1>0, <2>1, <2>2
<1> DEFINE c == CHOOSE l \in 0..s : Fits(l)
<1>4. c \in 0..s /\ Fits(c)
  <2> HIDE DEF Fits
  <2> QED BY <1>3
<1>5. Ulp(x) = TwoTo[c]
  BY DEF Ulp, s
<1> HIDE DEF c
<1>6. c \in Nat /\ OfSize(x, c)
  BY <1>0, <1>4 DEF OfSize, s
<1> QED BY <1>5, <1>6

\* The size of a number is where its powers of two say.
LEMMA SizeBelow ==
  ASSUME NEW x \in Int, NEW k, OfSize(x, k), NEW j \in Nat
  PROVE  /\ Size(x) < TwoTo[Digits + j] => k <= j
         /\ TwoTo[Digits + j] <= Size(x) => j < k
<1>0. k \in Nat /\ Digits \in Nat /\ Size(x) \in Nat /\ Digits + j \in Nat /\ Digits + k \in Nat
  BY SizeIs, DigitsAssumption DEF OfSize
<1>p. TwoTo[Digits + j] \in Nat /\ TwoTo[Digits + k] \in Nat
  BY <1>0, TwoToIs
<1>1. ASSUME Size(x) < TwoTo[Digits + j], ~(k <= j) PROVE FALSE
  <2>1. k > 0 /\ Digits + k - 1 \in Nat /\ Digits + j <= Digits + k - 1
    BY <1>0, <1>1
  <2> DEFINE n == Digits + k - 1
  <2>2. n \in Nat /\ Digits + j <= n /\ Size(x) >= TwoTo[n]
    BY <2>1 DEF OfSize
  <2> HIDE DEF n
  <2>3. TwoTo[Digits + j] <= TwoTo[n] /\ TwoTo[n] \in Nat
    BY <1>0, <2>2, TwoToDivides, TwoToIs
  <2> QED BY <1>0, <1>p, <1>1, <2>2, <2>3
<1>2. ASSUME TwoTo[Digits + j] <= Size(x), ~(j < k) PROVE FALSE
  <2>1. Digits + k <= Digits + j /\ Size(x) < TwoTo[Digits + k]
    BY <1>0, <1>2 DEF OfSize
  <2>2. TwoTo[Digits + k] <= TwoTo[Digits + j]
    BY <1>0, <2>1, TwoToDivides
  <2> QED BY <1>0, <1>p, <1>2, <2>1, <2>2
<1> QED BY <1>1, <1>2

\* Sums, opposites and multiples of multiples are multiples.
LEMMA MultiplesAre ==
  /\ \A x, y, u \in Int : Multiple(x, u) /\ Multiple(y, u) => Multiple(x + y, u) /\ Multiple(-x, u)
  /\ \A x, u, v \in Int : Multiple(x, u) /\ Multiple(u, v) => Multiple(x, v)
<1>1. ASSUME NEW x \in Int, NEW y \in Int, NEW u \in Int, Multiple(x, u), Multiple(y, u)
      PROVE  Multiple(x + y, u) /\ Multiple(-x, u)
  <2>1. PICK m \in Int : x = m * u
    BY <1>1 DEF Multiple
  <2>2. PICK n \in Int : y = n * u
    BY <1>1 DEF Multiple
  <2>3. m + n \in Int /\ -m \in Int /\ x + y = (m + n) * u /\ -x = (-m) * u
    BY <2>1, <2>2
  <2> QED BY <2>3 DEF Multiple
<1>2. ASSUME NEW x \in Int, NEW u \in Int, NEW v \in Int, Multiple(x, u), Multiple(u, v)
      PROVE  Multiple(x, v)
  <2>1. PICK m \in Int : x = m * u
    BY <1>2 DEF Multiple
  <2>2. PICK n \in Int : u = n * v
    BY <1>2 DEF Multiple
  <2>3. m * n \in Int /\ x = (m * n) * v
    BY <2>1, <2>2
  <2> QED BY <2>3 DEF Multiple
<1> QED BY <1>1, <1>2

\* A multiple of a power of two is a multiple of a smaller one.
LEMMA MultipleOfLess ==
  ASSUME NEW x \in Int, NEW j \in Nat, NEW k \in Nat, k <= j, Multiple(x, TwoTo[j])
  PROVE  Multiple(x, TwoTo[k])
<1>1. TwoTo[j] \in Int /\ TwoTo[k] \in Int /\ Multiple(TwoTo[j], TwoTo[k])
  BY TwoToIs, TwoToDivides
<1> QED BY <1>1, MultiplesAre

\* What a mantissa can hold is a real: so many units of a power of two, or one more.
LEMMA MantissaHolds ==
  ASSUME NEW x \in Int, NEW j \in Nat, Multiple(x, TwoTo[j]), Size(x) <= TwoTo[Digits + j]
  PROVE  Round(x) = x
<1>0. Digits \in Nat \ {0} /\ Size(x) \in Nat /\ Digits + j \in Nat /\ TwoTo[Digits + j] \in Nat \ {0}
  BY DigitsAssumption, SizeIs, TwoToIs
<1>1. ASSUME NEW i \in Nat, Multiple(x, TwoTo[i]), Size(x) < TwoTo[Digits + i]
      PROVE  Round(x) = x
  <2>1. PICK k \in Nat : OfSize(x, k) /\ Ulp(x) = TwoTo[k]
    BY UlpIs
  <2>2. k <= i
    BY <1>1, <2>1, SizeBelow
  <2>3. Multiple(x, TwoTo[k]) /\ TwoTo[k] \in Nat \ {0}
    BY <1>1, <2>2, MultipleOfLess, TwoToIs
  <2> QED BY <2>1, <2>3, RoundTo
<1>2. CASE Size(x) < TwoTo[Digits + j]
  BY <1>1, <1>2
<1>3. CASE Size(x) = TwoTo[Digits + j]
  <2> DEFINE i == j + 1
             w == TwoTo[Digits + j]
  <2>1. i \in Nat /\ i <= Digits + j /\ Digits + i = (Digits + j) + 1
    BY <1>0
  <2>2. TwoTo[Digits + i] = 2 * w
    BY <1>0, <2>1, TwoToIs
  <2>3. Multiple(w, TwoTo[i]) /\ TwoTo[i] \in Int /\ w \in Int
    BY <1>0, <2>1, TwoToDivides, TwoToIs
  <2> HIDE DEF i
  <2>4. x = w \/ x = -w
    BY <1>3, SizeIs
  <2>5. Size(x) = w /\ w \in Nat \ {0}
    BY <1>0, <1>3
  <2> HIDE DEF w
  <2>6. Multiple(x, TwoTo[i])
    BY <2>3, <2>4, MultiplesAre
  <2> QED BY <1>1, <2>1, <2>2, <2>5, <2>6
<1> QED BY <1>0, <1>2, <1>3

\* Every number rounds, by half of its last bit at most.
LEMMA Rounded ==
  ASSUME NEW x \in Int
  PROVE  Round(x) \in Int /\ \E k \in Nat : /\ OfSize(x, k) /\ Ulp(x) = TwoTo[k] /\ TwoTo[k] \in Nat \ {0}
                                            /\ Multiple(Round(x), TwoTo[k])
                                            /\ 2 * (Round(x) - x) <= TwoTo[k] /\ 2 * (x - Round(x)) <= TwoTo[k]
<1>1. PICK k \in Nat : OfSize(x, k) /\ Ulp(x) = TwoTo[k]
  BY UlpIs
<1>2. TwoTo[k] \in Nat \ {0}
  BY TwoToIs
<1>3. Round(x) \in Int /\ Multiple(Round(x), TwoTo[k]) /\ 2 * (Round(x) - x) <= TwoTo[k] /\ 2 * (x - Round(x)) <= TwoTo[k]
  BY <1>1, <1>2, RoundTo
<1> QED BY <1>1, <1>2, <1>3

\* Rounding never goes past a real.
LEMMA NeverPast ==
  ASSUME NEW c \in Int, Round(c) = c, NEW x \in Int
  PROVE  (c <= x => c <= Round(x)) /\ (x <= c => Round(x) <= c)
<1>0. Digits \in Nat \ {0} /\ Size(x) \in Nat /\ Size(c) \in Nat
  BY DigitsAssumption, SizeIs
<1>1. PICK k \in Nat : OfSize(x, k) /\ Ulp(x) = TwoTo[k] /\ TwoTo[k] \in Nat \ {0}
  BY Rounded
<1>2. PICK j \in Nat : OfSize(c, j) /\ Multiple(c, TwoTo[j])
  BY Rounded
<1>3. \A d \in Int : Multiple(d, TwoTo[k]) => (d <= x => d <= Round(x)) /\ (x <= d => Round(x) <= d)
  BY <1>1, RoundTo
<1>4. Round(x) \in Int
  BY Rounded
<1>5. CASE k <= j
  BY <1>2, <1>3, <1>5, MultipleOfLess
<1>6. CASE ~(k <= j)
  <2> DEFINE n == Digits + k - 1
             b == TwoTo[n]
  <2>1. n \in Nat /\ k <= n /\ Digits + j \in Nat /\ Digits + j <= n /\ k > 0
    BY <1>0, <1>6
  <2>2. Size(x) >= b /\ Size(c) < TwoTo[Digits + j]
    BY <1>1, <1>2, <2>1 DEF OfSize
  <2> HIDE DEF n
  <2>3. b \in Nat /\ TwoTo[Digits + j] \in Nat /\ TwoTo[Digits + j] <= b /\ Multiple(b, TwoTo[k])
    BY <2>1, TwoToIs, TwoToDivides
  <2> HIDE DEF b
  <2>4. Size(c) < b
    BY <1>0, <2>2, <2>3
  <2>5. Multiple(-b, TwoTo[k])
    BY <1>1, <2>3, MultiplesAre
  <2>6. ASSUME c <= x PROVE c <= Round(x)
    <3>1. b <= x /\ c < b
      BY <1>0, <2>2, <2>3, <2>4, <2>6 DEF Size
    <3>2. b <= Round(x)
      BY <1>3, <2>3, <3>1
    <3> QED BY <1>4, <2>3, <3>1, <3>2
  <2>7. ASSUME x <= c PROVE Round(x) <= c
    <3>1. x <= -b /\ -b < c
      BY <1>0, <2>2, <2>3, <2>4, <2>7 DEF Size
    <3>2. Round(x) <= -b
      BY <1>3, <2>3, <2>5, <3>1
    <3> QED BY <1>4, <2>3, <3>1, <3>2
  <2> QED BY <2>6, <2>7
<1> QED BY <1>5, <1>6

\* What was rounded is a real.
LEMMA RoundedOnce ==
  ASSUME NEW x \in Int
  PROVE  Round(x) \in Int /\ Round(Round(x)) = Round(x)
<1>1. PICK k \in Nat : OfSize(x, k) /\ Ulp(x) = TwoTo[k] /\ TwoTo[k] \in Nat \ {0} /\ Multiple(Round(x), TwoTo[k])
  BY Rounded
<1> DEFINE w == TwoTo[Digits + k]
<1>2. w \in Nat /\ Multiple(w, TwoTo[k])
  <2>1. Digits + k \in Nat /\ k <= Digits + k
    BY DigitsAssumption
  <2> QED BY <2>1, TwoToIs, TwoToDivides
<1>3. Size(x) < w
  BY <1>1 DEF OfSize
<1> HIDE DEF w
<1>4. x <= w /\ -w <= x
  BY <1>2, <1>3, SizeIs
<1>5. Multiple(-w, TwoTo[k])
  BY <1>1, <1>2, MultiplesAre
<1>6. Round(x) \in Int /\ Round(x) <= w /\ -w <= Round(x)
  BY <1>1, <1>2, <1>4, <1>5, RoundTo
<1>7. Size(Round(x)) <= w
  BY <1>2, <1>6 DEF Size
<1>8. Size(Round(x)) <= TwoTo[Digits + k]
  BY <1>7 DEF w
<1> QED BY <1>1, <1>6, <1>8, MantissaHolds

\* A rounded product and a rounded sum: two halves of a last bit, whatever the numbers.
LEMMA RoundedProductAndSum ==
  ASSUME NEW start \in Int, Round(start) = start, NEW product \in Int
  PROVE  LET exact == start + product
         IN  2 * Size(Round(start + Round(product)) - exact) <= Ulp(product) + Ulp(Size(exact) + Ulp(exact))
<1> DEFINE p == Round(product)
           s == start + p
           exact == start + product
           y == Size(exact) + Ulp(exact)
<1>d. Digits \in Nat \ {0}
  BY DigitsAssumption
<1>1. p \in Int /\ s \in Int /\ exact \in Int /\ s - exact = p - product
  BY Rounded
<1>2. PICK k \in Nat : /\ OfSize(product, k) /\ Ulp(product) = TwoTo[k] /\ TwoTo[k] \in Nat \ {0} /\ Multiple(p, TwoTo[k])
                       /\ 2 * (p - product) <= TwoTo[k] /\ 2 * (product - p) <= TwoTo[k]
  BY Rounded
<1> HIDE DEF p, s, exact
<1>3. PICK l \in Nat : OfSize(exact, l) /\ Ulp(exact) = TwoTo[l] /\ TwoTo[l] \in Nat \ {0}
  BY <1>1, Rounded
<1>4. y = Size(exact) + TwoTo[l] /\ y \in Nat /\ Size(exact) \in Nat
  BY <1>1, <1>3, SizeIs
<1> HIDE DEF y
<1>y. y \in Int
  BY <1>4
<1>5. PICK n \in Nat : OfSize(y, n) /\ Ulp(y) = TwoTo[n] /\ TwoTo[n] \in Nat \ {0}
  BY <1>y, Rounded
<1>6. PICK i \in Nat : /\ OfSize(s, i) /\ TwoTo[i] \in Nat \ {0}
                       /\ 2 * (Round(s) - s) <= TwoTo[i] /\ 2 * (s - Round(s)) <= TwoTo[i]
  BY <1>1, Rounded
<1>7. Round(s) \in Int
  BY <1>1, Rounded
\* The product is not much larger than the sum: the sum's own rounding is no worse.
<1>8. CASE k <= l + 1
  <2>1. TwoTo[k] <= 2 * TwoTo[l]
    BY <1>8, TwoToIs, TwoToDivides
  <2>2. Size(s) <= y
    BY <1>1, <1>2, <1>3, <1>4, <2>1 DEF Size
  <2>3. Size(y) = y /\ Digits + n \in Nat
    BY <1>d, <1>4 DEF Size
  <2>4. y < TwoTo[Digits + n] /\ TwoTo[Digits + n] \in Nat /\ Size(s) \in Nat
    BY <1>1, <1>5, <2>3, TwoToIs, SizeIs DEF OfSize
  <2>5. Size(s) < TwoTo[Digits + n]
    BY <1>4, <2>2, <2>4
  <2>6. i <= n
    BY <1>1, <1>6, <2>5, SizeBelow
  <2>7. TwoTo[i] <= TwoTo[n]
    BY <2>6, TwoToDivides
  <2>8. 2 * Size(Round(s) - exact) <= TwoTo[k] + TwoTo[n]
    BY <1>1, <1>2, <1>5, <1>6, <1>7, <2>7 DEF Size
  <2> QED BY <1>2, <1>5, <2>8 DEF s, p, y, exact
\* It is: then start and product nearly cancel, and the sum is exact.
<1>9. CASE ~(k <= l + 1)
  <2> DEFINE h == TwoTo[Digits + (k - 2)]
             t == TwoTo[k - 1]
  <2>1. /\ k - 2 \in Nat /\ k - 1 \in Nat /\ k > 0 /\ l <= k - 2 /\ (k - 1) + 1 = k
        /\ Digits + (k - 2) \in Nat /\ Digits + (k - 1) \in Nat /\ Digits + l \in Nat
        /\ (Digits + (k - 2)) + 1 = Digits + (k - 1) /\ Digits + k - 1 = Digits + (k - 1)
        /\ Digits + l <= Digits + (k - 2) /\ k - 1 <= Digits + (k - 2)
    BY <1>d, <1>9
  <2>2. TwoTo[k] = 2 * t /\ t \in Nat \ {0}
    BY <2>1, TwoToIs
  <2>3. TwoTo[Digits + (k - 1)] = 2 * h /\ h \in Nat \ {0}
    BY <2>1, TwoToIs
  <2>4. TwoTo[Digits + l] <= h /\ t <= h /\ TwoTo[Digits + l] \in Nat
    BY <2>1, TwoToDivides, TwoToIs
  <2>5. Size(exact) < TwoTo[Digits + l] /\ Size(product) >= TwoTo[Digits + (k - 1)]
    BY <1>2, <1>3, <2>1 DEF OfSize
  <2> HIDE DEF h, t
  <2>6. Size(exact) < h /\ Size(product) >= 2 * h
    BY <1>4, <2>3, <2>4, <2>5
  <2>7. h <= Size(start)
    BY <2>3, <2>6 DEF Size, exact
  <2>8. PICK j \in Nat : OfSize(start, j) /\ Multiple(start, TwoTo[j])
    BY Rounded
  <2>9. k - 2 < j
    BY <2>1, <2>7, <2>8, SizeBelow DEF h
  <2>10. Multiple(start, TwoTo[k - 1])
    BY <2>1, <2>8, <2>9, MultipleOfLess
  <2>11. Multiple(p, TwoTo[k - 1])
    BY <1>1, <1>2, <2>1, MultipleOfLess
  <2>12. Multiple(s, TwoTo[k - 1])
    BY <1>1, <2>1, <2>10, <2>11, TwoToIs, MultiplesAre DEF s
  <2>13. Size(s) <= 2 * h
    BY <1>1, <1>2, <2>2, <2>3, <2>4, <2>6 DEF Size
  <2>14. Round(s) = s
    BY <1>1, <2>1, <2>3, <2>12, <2>13, MantissaHolds
  <2>15. 2 * Size(Round(s) - exact) <= TwoTo[k] + TwoTo[n]
    BY <1>1, <1>2, <1>5, <2>14 DEF Size
  <2> QED BY <1>2, <1>5, <2>15 DEF s, p, y, exact
<1> QED BY <1>8, <1>9

\* Zero rounds to itself.
LEMMA ZeroIsReal == Round(0) = 0
<1>1. PICK k \in Nat : Ulp(0) = TwoTo[k] /\ TwoTo[k] \in Nat \ {0}
  BY Rounded
<1>2. Multiple(0, TwoTo[k])
  <2>1. 0 = 0 * TwoTo[k]
    BY <1>1
  <2> QED BY <2>1 DEF Multiple
<1> QED BY <1>1, <1>2, RoundTo

\* The counter is never on the wrong side of the start.
LEMMA ValueIsOnItsSide ==
  ASSUME NEW start \in Int, Round(start) = start, NEW step \in Int, NEW pass \in Nat
  PROVE  /\ Value(start, step, pass) \in Int /\ Round(Value(start, step, pass)) = Value(start, step, pass)
         /\ step > 0 => start <= Value(start, step, pass)
         /\ step < 0 => Value(start, step, pass) <= start
<1> DEFINE t == pass * step
<1>1. t \in Int /\ (step > 0 => 0 <= t) /\ (step < 0 => t <= 0)
  OBVIOUS
<1> HIDE DEF t
<1>2. Round(t) \in Int /\ (0 <= t => 0 <= Round(t)) /\ (t <= 0 => Round(t) <= 0)
  <2>1. 0 \in Int /\ Round(0) = 0
    BY ZeroIsReal
  <2>2. Round(t) \in Int
    BY <1>1, Rounded
  <2> QED BY <1>1, <2>1, <2>2, NeverPast
<1> DEFINE s == start + Round(t)
<1>3. s \in Int /\ (0 <= Round(t) => start <= s) /\ (Round(t) <= 0 => s <= start)
  BY <1>2
<1>4. Value(start, step, pass) = Round(s)
  BY DEF Value, t
<1> HIDE DEF s
<1>5. Round(s) \in Int /\ Round(Round(s)) = Round(s)
  BY <1>3, RoundedOnce
<1>6. (start <= s => start <= Round(s)) /\ (s <= start => Round(s) <= start)
  BY <1>3, NeverPast
<1> QED BY <1>1, <1>2, <1>3, <1>4, <1>5, <1>6

\* What a mantissa holds.
IsReal(x) == x \in Int /\ Round(x) = x

\* Slots hold reals, and a body finds the counter computed from the pass, before the end.
RealLoopInv ==
  /\ realPc \in {"check", "top", "body", "step", "done", "failed"}
  /\ IsReal(startReal) /\ IsReal(endReal) /\ IsReal(stepReal) /\ IsReal(passReal) /\ IsReal(realCounter)
  /\ passReal >= 0
  /\ realPc \in {"top", "body", "step"} => stepReal # 0
  /\ realPc = "body" => /\ realCounter = Value(startReal, stepReal, passReal)
                        /\ RealRuns(realCounter, endReal, stepReal)

\* Where a loop starts its slots hold reals.
LEMMA RealInitInv == RealInit => RealLoopInv
<1> SUFFICES ASSUME RealInit PROVE RealLoopInv
  OBVIOUS
<1>1. \A x \in LoopReals : IsReal(x)
  BY DigitsAssumption DEF LoopReals, IsReal
<1>2. IsReal(0)
  BY ZeroIsReal DEF IsReal
<1> QED BY <1>1, <1>2 DEF RealInit, RealLoopInv

\* A step leaves reals in the slots: it copies, rounds or computes anew.
LEMMA RealNextInv == RealLoopInv /\ [RealNext]_realVars => RealLoopInv'
<1> SUFFICES ASSUME RealLoopInv, [RealNext]_realVars PROVE RealLoopInv'
  OBVIOUS
<1>1. CASE Check
  BY <1>1 DEF Check, RealLoopInv, bounds
<1>2. CASE RealTop
  <2> DEFINE v == Value(startReal, stepReal, passReal)
  <2>1. IsReal(v)
    <3>1. startReal \in Int /\ Round(startReal) = startReal /\ stepReal \in Int /\ passReal \in Nat
      BY DEF RealLoopInv, IsReal
    <3> QED BY <3>1, ValueIsOnItsSide DEF IsReal
  <2>2. realCounter' = v /\ (realPc' = "body" => RealRuns(realCounter', endReal, stepReal))
    BY <1>2 DEF RealTop
  <2>3. realPc' \in {"body", "done"} /\ stepReal # 0 /\ UNCHANGED <<startReal, endReal, stepReal, passReal>>
    BY <1>2 DEF RealTop, RealLoopInv, bounds
  <2>4. v = Value(startReal', stepReal', passReal')
    BY <2>3
  <2> HIDE DEF v
  <2> QED BY <2>1, <2>2, <2>3, <2>4 DEF RealLoopInv
<1>3. CASE RealBody
  <2>1. IsReal(0)
    BY ZeroIsReal DEF IsReal
  <2> QED BY <1>3, <2>1 DEF RealBody, RealLoopInv, bounds
<1>4. CASE RealBreak
  BY <1>4 DEF RealBreak, RealLoopInv, bounds
<1>5. CASE RealStep
  <2>1. passReal \in Int /\ passReal + 1 \in Int /\ 0 <= passReal + 1
    BY DEF RealLoopInv, IsReal
  <2>2. 0 \in Int /\ Round(0) = 0
    BY ZeroIsReal
  <2> DEFINE n == passReal + 1
  <2>3. n \in Int /\ 0 <= n
    BY <2>1
  <2> HIDE DEF n
  <2>4. IsReal(Round(n)) /\ 0 <= Round(n)
    BY <2>2, <2>3, RoundedOnce, NeverPast DEF IsReal
  <2>5. passReal' = Round(n)
    BY <1>5 DEF RealStep, n
  <2>6. IsReal(passReal') /\ passReal' >= 0
    BY <2>4, <2>5 DEF IsReal
  <2> QED BY <1>5, <2>6 DEF RealStep, RealLoopInv, bounds
<1>6. CASE UNCHANGED realVars
  BY <1>6 DEF realVars, RealLoopInv
<1> QED BY <1>1, <1>2, <1>3, <1>4, <1>5, <1>6 DEF RealNext

\* The invariant the promise follows from.
THEOREM RealLoopInvariant == RealSpec => []RealLoopInv
<1> QED BY RealInitInv, RealNextInv, PTL DEF RealSpec

\* What is promised of the passes follows from the invariant.
LEMMA RealsFollow == RealLoopInv => RealPassesAsPromised
<1> SUFFICES ASSUME RealLoopInv PROVE RealPassesAsPromised
  OBVIOUS
<1>1. /\ startReal \in Int /\ Round(startReal) = startReal /\ stepReal \in Int /\ passReal \in Nat
      /\ endReal \in Int
  BY DEF RealLoopInv, IsReal
<1>2. RealTypeOK
  BY DEF RealLoopInv, IsReal, RealTypeOK
<1>3. ASSUME realPc = "body" PROVE realCounter = Value(startReal, stepReal, passReal)
                                   /\ RealRuns(realCounter, endReal, stepReal) /\ stepReal # 0
  BY <1>3 DEF RealLoopInv
<1>4. NoDrift
  <2> DEFINE product == passReal * stepReal
  <2>1. product \in Int
    BY <1>1
  <2> HIDE DEF product
  <2>2. LET exact == startReal + product
        IN  2 * Size(Round(startReal + Round(product)) - exact) <= Ulp(product) + Ulp(Size(exact) + Ulp(exact))
    BY <1>1, <2>1, RoundedProductAndSum
  <2> QED BY <1>3, <2>2 DEF NoDrift, Value, product
<1>5. RealWithinTheEnd
  <2> SUFFICES ASSUME realPc = "body"
               PROVE  IF stepReal > 0 THEN startReal <= realCounter /\ realCounter <= endReal
                                      ELSE endReal <= realCounter /\ realCounter <= startReal
    BY DEF RealWithinTheEnd
  <2>1. /\ (stepReal > 0 => startReal <= realCounter) /\ (stepReal < 0 => realCounter <= startReal)
        /\ realCounter \in Int
    BY <1>1, <1>3, ValueIsOnItsSide
  <2>2. IF stepReal > 0 THEN realCounter <= endReal ELSE realCounter >= endReal
    BY <1>3 DEF RealRuns
  <2> QED BY <1>1, <1>3, <2>1, <2>2
<1> QED BY <1>2, <1>4, <1>5 DEF RealPassesAsPromised

\* For mantissas of every length: a body of a loop over reals finds the counter within
\* two roundings of start + pass * step, and between the start and the end.
THEOREM RealsAsPromised == RealSpec => []RealPassesAsPromised
<1> QED BY RealLoopInvariant, RealsFollow, PTL
===============================================================================
