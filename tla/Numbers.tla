-------------------------------- MODULE Numbers --------------------------------
(***************************************************************************)
(* The runtime's arithmetic on int and char, and the ways into and out of  *)
(* real: computed in the wide type, narrowed, and stopped rather than      *)
(* wrapped.  An accumulator of each type; every operation is a step, and   *)
(* shm_int_pow() one per factor.  A real is given in halves; what is not   *)
(* finite lies beyond every finite one, and NaN is none of them.           *)
(***************************************************************************)
EXTENDS Integers

CONSTANTS
  Largest,      \* of int: 2^31 - 1 in the code
  WideLargest,  \* of int64_t
  LargestChar,
  Infinite      \* bound: halves below it are finite reals

ASSUME NumbersAssumption ==
  /\ Largest \in Nat \ {0} /\ WideLargest \in Nat /\ LargestChar \in Nat /\ Infinite \in Nat
  /\ WideLargest >= (Largest + 1) * (Largest + 1)
  /\ LargestChar <= Largest
  /\ Infinite > 2 * Largest + 2

VARIABLES
  value,    \* the accumulator of ints, the smaller of the two the chars are held in
  real,
  power,    \* shm_int_pow() under way: its base, how many factors, how many are done
  did,      \* the operation last done, and on what where a property asks
  failure

numberVars == <<value, real, power, did, failure>>

Smallest == -Largest - 1
Ints == Smallest..Largest

NaN == Infinite + 1
Reals == -Infinite..NaN

NoPower == [base |-> 0, times |-> 0, i |-> 0, on |-> FALSE]

NumbersInit ==
  /\ value = 0 /\ real = 0 /\ power = NoPower /\ failure = ""
  /\ did = [op |-> "none", left |-> 0, right |-> 0]

-------------------------------------------------------------------------------
\* int64_t: wraps, were it reached.
Wide(x) == ((x + WideLargest + 1) % (2 * (WideLargest + 1))) - WideLargest - 1

\* Mutant: the lower end is the upper's negative.
NarrowsEvenly(x) == -Largest <= x /\ x <= Largest

\* narrow()
Narrows(x) == Smallest <= x /\ x <= Largest

Fail(why) == failure' = why /\ UNCHANGED <<value, real, power>>

Noted(op, left, right) == did' = [op |-> op, left |-> left, right |-> right]

Yields(x) == value' = x /\ UNCHANGED <<real, power, failure>>

\* What narrow() returns, or stops.
Narrowed(wide) ==
  IF Narrows(wide) THEN Yields(wide) ELSE Fail("overflow")

Ready == failure = "" /\ ~power.on

Add(b) == Ready /\ Noted("+", value, b) /\ Narrowed(Wide(value + b))
Sub(b) == Ready /\ Noted("-", value, b) /\ Narrowed(Wide(value - b))
Mul(b) == Ready /\ Noted("*", value, b) /\ Narrowed(Wide(value * b))
Neg == Ready /\ Noted("-", 0, value) /\ Narrowed(Wide(-value))

\* C++ division truncates; its remainder is what is left.
Magnitude(a) == IF a < 0 THEN -a ELSE a

Quotient(a, b) ==
  IF (a < 0) = (b < 0) THEN Magnitude(a) \div Magnitude(b)
  ELSE -(Magnitude(a) \div Magnitude(b))

Remainder(a, b) == a - b * Quotient(a, b)

Div(b) ==
  /\ Ready /\ Noted("/", value, b)
  /\ IF b = 0 THEN Fail("Division by zero") ELSE Narrowed(Wide(Quotient(value, b)))

Mod(b) ==
  /\ Ready /\ Noted("%", value, b)
  /\ IF b = 0 THEN Fail("Division by zero") ELSE Narrowed(Wide(Remainder(value, b)))

\* shm_fn_abs_int(), and the larger and the smaller of two.
Abs == Ready /\ Noted("abs", value, 0)
       /\ Narrowed(IF Wide(-value) < 0 THEN value ELSE Wide(-value))
MaxInt(b) == Ready /\ Noted("max", 0, 0) /\ Yields(IF value > b THEN value ELSE b)
MinInt(b) == Ready /\ Noted("min", 0, 0) /\ Yields(IF value < b THEN value ELSE b)

\* shm_int_pow(): one factor after another, each product narrowed.
Pow(b) ==
  /\ Ready /\ Noted("^", value, b)
  /\ IF b < 0 THEN Fail("Negative power needs reals")
     ELSE /\ power' = [base |-> value, times |-> b, i |-> 0, on |-> TRUE]
          /\ value' = 1
          /\ UNCHANGED <<real, failure>>

\* Mutant: one product beyond the last factor is tried before the loop ends.
PowFactorBefore ==
  /\ failure = "" /\ power.on
  /\ LET wide == Wide(value * power.base)
     IN  IF ~Narrows(wide) THEN Fail("overflow")
         ELSE /\ value' = IF power.i < power.times THEN wide ELSE value
              /\ power' = IF power.i < power.times THEN [power EXCEPT !.i = @ + 1] ELSE NoPower
              /\ UNCHANGED <<real, failure>>
  /\ UNCHANGED did

PowFactor ==
  /\ failure = "" /\ power.on
  /\ IF power.i >= power.times THEN power' = NoPower /\ UNCHANGED <<value, real, failure>>
     ELSE LET wide == Wide(value * power.base)
          IN  IF ~Narrows(wide) THEN Fail("overflow")
              ELSE /\ value' = wide
                   /\ power' = [power EXCEPT !.i = @ + 1]
                   /\ UNCHANGED <<real, failure>>
  /\ UNCHANGED did

-------------------------------------------------------------------------------
\* Arithmetic on reals may come to anything.
AnyReal == Ready /\ Noted("real", 0, 0) /\ real' \in Reals /\ UNCHANGED <<value, power, failure>>

ToReal == /\ Ready /\ Noted("real", value, 0)
          /\ real' = 2 * value
          /\ UNCHANGED <<value, power, failure>>

Finite(r) == -Infinite < r /\ r < Infinite

\* std::trunc(), of what is finite.
Trunc(r) == Quotient(r, 2)

ToInt ==
  /\ Ready /\ Noted("int", real, 0)
  /\ IF Finite(real) /\ Smallest <= Trunc(real) /\ Trunc(real) <= Largest
     THEN Yields(Trunc(real))
     ELSE Fail("Cannot convert to int")

IntToChar ==
  /\ Ready /\ Noted("char", 2 * value, 0)
  /\ IF value < 0 \/ value > LargestChar THEN Fail("not a char") ELSE UNCHANGED <<value, real, power, failure>>

RealToChar ==
  /\ Ready /\ Noted("char", real, 0)
  /\ IF Finite(real) /\ 0 <= Trunc(real) /\ Trunc(real) <= LargestChar
     THEN Yields(Trunc(real))
     ELSE Fail("not a char")

Greater(a, b) == a # NaN /\ b # NaN /\ a > b

MaxReal(b) == /\ Ready /\ Noted("maxreal", 0, 0)
              /\ real' = IF Greater(real, b) THEN real ELSE b
              /\ UNCHANGED <<value, power, failure>>

MinReal(b) == /\ Ready /\ Noted("minreal", 0, 0)
              /\ real' = IF Greater(b, real) THEN real ELSE b
              /\ UNCHANGED <<value, power, failure>>

NumbersNext ==
  \/ \E b \in Ints : \/ Add(b) \/ Sub(b) \/ Mul(b) \/ Div(b) \/ Mod(b) \/ Pow(b)
                     \/ MaxInt(b) \/ MinInt(b)
  \/ Neg \/ Abs \/ PowFactor
  \/ AnyReal \/ ToReal \/ ToInt \/ IntToChar \/ RealToChar
  \/ \E b \in Reals : MaxReal(b) \/ MinReal(b)

NumbersSpec == NumbersInit /\ [][NumbersNext]_numberVars

-------------------------------------------------------------------------------
\* Every variable has its type; the accumulators are an int and a real.
NumbersTypeOK ==
  /\ value \in Ints /\ real \in Reals
  /\ power \in [base : Ints, times : Ints, i : Nat, on : BOOLEAN]
  /\ did \in [op : {"none", "+", "-", "*", "/", "%", "^", "abs", "max", "min", "real", "int",
                    "char", "maxreal", "minreal"},
              left : Int, right : Int]
  /\ failure \in {"", "overflow", "Division by zero", "Negative power needs reals",
                  "Cannot convert to int", "not a char"}

\* What + - * and abs are of two integers, of no width.
Exact == CASE did.op = "+" -> did.left + did.right
           [] did.op = "-" -> did.left - did.right
           [] did.op = "*" -> did.left * did.right
           [] did.op = "abs" -> Magnitude(did.left)

\* Whatever two ints + - * and abs are given, the result is the one the integers have,
\* and the program is stopped exactly when no int is.
ExactOrStopped ==
  did.op \in {"+", "-", "*", "abs"} =>
    IF failure = "" THEN value = Exact ELSE Exact \notin Ints

\* / and % are the two parts of one division, toward zero, which only zero stops, and
\* the one quotient that does not fit; % is never stopped for that.
IsQuotient(q, a, b) ==
  Magnitude(q * b) <= Magnitude(a) /\ Magnitude(a - q * b) < Magnitude(b)

IsRemainder(r, a, b) ==
  /\ Magnitude(r) < Magnitude(b) /\ (r < 0 => a < 0) /\ (r > 0 => a > 0)
  /\ \E q \in -Magnitude(a)..Magnitude(a) : a = q * b + r

DivisionTruncates ==
  /\ did.op = "/" =>
       IF failure = "" THEN IsQuotient(value, did.left, did.right)
       ELSE did.right = 0 \/ (did.left = Smallest /\ did.right = -1)
  /\ did.op = "%" =>
       IF failure = "" THEN IsRemainder(value, did.left, did.right) ELSE did.right = 0

\* The powers of a up to the n-th.
Powers(a, n) ==
  LET raised[i \in 0..n] == IF i = 0 THEN 1 ELSE a * raised[i - 1] IN raised

\* ^ is stopped on the way only when the power it was on its way to is no int.
PowersAreExact ==
  did.op = "^" /\ did.right >= 0 =>
    /\ failure = "" /\ ~power.on => value = Powers(did.left, did.right)[did.right]
    /\ failure # "" => Powers(did.left, did.right)[did.right] \notin Ints

\* A real becomes the int or the char next to it toward zero, and is stopped when there
\* is none: a half below the smallest still becomes it.
Near(r, n) == Magnitude(r - 2 * n) < 2 /\ Magnitude(2 * n) <= Magnitude(r)

ConversionsTruncate ==
  /\ did.op = "int" =>
       IF failure = "" THEN Near(did.left, value)
       ELSE ~Finite(did.left) \/ ~\E n \in Ints : Near(did.left, n)
  /\ did.op = "char" =>
       IF failure = "" THEN Near(did.left, value) /\ value \in 0..LargestChar
       ELSE ~Finite(did.left) \/ ~\E n \in 0..LargestChar : Near(did.left, n)

\* Arithmetic is that of the integers or stops: nothing wraps, and nothing stops that
\* need not.
ArithmeticIsExact ==
  NumbersTypeOK /\ ExactOrStopped /\ DivisionTruncates /\ ConversionsTruncate
===============================================================================
