-------------------------------- MODULE Shortest --------------------------------
(***************************************************************************)
(* The spelling of a double that is not printed to fixed places            *)
(* (src/runtime/Shortest.cpp): the fewest digits that read back as it,     *)
(* laid out plainly or with a power of ten.  Doubles are those of a short  *)
(* mantissa and few exponents; they and decimals are counted in a unit     *)
(* that divides them all.                                                  *)
(***************************************************************************)
EXTENDS Integers, SequencesExt

CONSTANTS
  MantissaBits,     \* 53
  LeastPower,       \* of two, that a mantissa is multiplied by
  GreatestPower,
  MaxPrecision,     \* digits that always suffice, 17
  SmallestPlain,    \* exponents laid out without a power of ten: -3 to 16
  LargestPlain

VARIABLE spelled  \* the double spelled, and how

\* Of one: a multiple of every mantissa's and every decimal's last place.
Unit == 2 ^ (-LeastPower) * 5 ^ (MaxPrecision - SmallestPlain + 1)

ASSUME ShortestAssumption ==
  /\ MantissaBits \in Nat \ {0} /\ LeastPower \in Int /\ GreatestPower \in Nat /\ LeastPower < 0
  /\ 10 ^ (MaxPrecision - 1) > 2 ^ MantissaBits
  /\ SmallestPlain \in Int /\ SmallestPlain <= 0 /\ LargestPlain \in Nat

Mantissas == 2 ^ (MantissaBits - 1)..2 ^ MantissaBits - 1

Double == [mantissa: Mantissas, power: LeastPower..GreatestPower]

Of(r) == IF r.power >= 0 THEN r.mantissa * 2 ^ r.power * Unit
         ELSE r.mantissa * (Unit \div 2 ^ (-r.power))

Tens(x) == IF x >= 0 THEN Unit * 10 ^ x ELSE Unit \div 10 ^ (-x)

-------------------------------------------------------------------------------
Apart(a, b) == IF a < b THEN b - a ELSE a - b

\* strtod(): the double nearest to so many units, the even one of two.
ReadBack(units) ==
  CHOOSE r \in Double : \A s \in Double \ {r} :
    \/ Apart(Of(r), units) < Apart(Of(s), units)
    \/ Apart(Of(r), units) = Apart(Of(s), units) /\ r.mantissa % 2 = 0

\* printf("%.*e"): the decimal of so many digits nearest to r, the even one of two.
Nearest(r, precision) ==
  LET reached == {x \in (SmallestPlain - 1 - precision)..(LargestPlain + 1 - precision) :
                    Tens(precision - 1 + x) <= Of(r)}
      ten == CHOOSE x \in reached : \A y \in reached : y <= x
      below == Of(r) \div Tens(ten)
      over == 2 * (Of(r) % Tens(ten))
      up == over > Tens(ten) \/ (over = Tens(ten) /\ below % 2 = 1)
  IN  [digits |-> IF up THEN below + 1 ELSE below, ten |-> ten]

\* The digits of a number, most significant first.
DigitsOf(n) ==
  LET count == CHOOSE k \in 1..(MaxPrecision + 1) : 10 ^ (k - 1) <= n /\ n < 10 ^ k
  IN  [i \in 1..count |-> (n \div 10 ^ (count - i)) % 10]

\* Mutant: the point stands after the first digit, as printf has it.
UnpackAsPrinted(decimal) ==
  LET all == DigitsOf(decimal.digits)
      count == CHOOSE k \in DOMAIN all : all[k] # 0 /\ \A i \in (k + 1)..Len(all) : all[i] = 0
  IN  [digits |-> SubSeq(all, 1, count), exponent |-> Len(all) + decimal.ten - 1]

\* unpack(): without the zeros at the end; the point stands before the first digit.
Unpack(decimal) ==
  LET all == DigitsOf(decimal.digits)
      count == CHOOSE k \in DOMAIN all : all[k] # 0 /\ \A i \in (k + 1)..Len(all) : all[i] = 0
  IN  [digits |-> SubSeq(all, 1, count), exponent |-> Len(all) + decimal.ten]

ReadsBackAs(decimal, r) == ReadBack(decimal.digits * Tens(decimal.ten)) = r

\* shortestDigits(): the first precision that reads back.
ShortestDigits(r) ==
  LET good == {p \in 1..MaxPrecision : ReadsBackAs(Nearest(r, p), r)}
      first == IF good = {} THEN MaxPrecision + 1 ELSE CHOOSE p \in good : \A q \in good : p <= q
  IN  Unpack(Nearest(r, first))

Zeros(n) == [i \in 1..n |-> 0]

\* write(): the digits before and after the point, and the power of ten.
Write(r) ==
  LET short == ShortestDigits(r)
      d == short.digits
      e == short.exponent
  IN  CASE e > LargestPlain \/ e < SmallestPlain ->
             [whole |-> <<d[1]>>, fraction |-> Tail(d), ten |-> e - 1]
        [] e \in SmallestPlain..0 ->
             [whole |-> <<0>>, fraction |-> Zeros(-e) \o d, ten |-> 0]
        [] e \in 1..LargestPlain /\ Len(d) <= e ->
             [whole |-> d \o Zeros(e - Len(d)), fraction |-> <<0>>, ten |-> 0]
        [] e \in 1..LargestPlain /\ Len(d) > e ->
             [whole |-> SubSeq(d, 1, e), fraction |-> SubSeq(d, e + 1, Len(d)), ten |-> 0]

ShortestInit == spelled = [of |-> "nothing"]

\* A finite double is printed, or named in a message (shm_real_to_int(), shm_real_to_char());
\* one with others about it on either side.
Spell(r) ==
  /\ spelled.of = "nothing"
  /\ spelled' = [of |-> "double", double |-> r, text |-> Write(r)]

ShortestNext == \E r \in Double : r.power \in (LeastPower + 1)..(GreatestPower - 1) /\ Spell(r)

-------------------------------------------------------------------------------
Number(digits) == FoldLeft(LAMBDA n, d : 10 * n + d, 0, digits)

\* What a text means, read by its places.
Meaning(text) == Number(text.whole \o text.fraction) * Tens(text.ten - Len(text.fraction))

\* Some decimal of fewer digits than were written reads back as r as well.
ShorterExists(r) ==
  \E p \in 1..(Len(ShortestDigits(r).digits) - 1) :
    LET near == Nearest(r, p)
    IN  \E d \in {near.digits - 1, near.digits, near.digits + 1} :
          ReadsBackAs([near EXCEPT !.digits = d], r)

\* A power of two has doubles half as far below it as above it.
Lopsided(r) == r.mantissa = 2 ^ (MantissaBits - 1)

\* A real is spelled as "the shortest decimal that reads back as the same double"
\* (tests/shortest.sh:6-7), but for powers of two, which may get a digit too many.
RealsReadBack ==
  spelled.of = "double" =>
    /\ ReadBack(Meaning(spelled.text)) = spelled.double
    /\ Lopsided(spelled.double) \/ ~ShorterExists(spelled.double)
===============================================================================
