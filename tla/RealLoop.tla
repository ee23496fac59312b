------------------------------- MODULE RealLoop -------------------------------
(***************************************************************************)
(* for x: start to end step s { body } over reals, as                      *)
(* CodeGen::generateRealLoop lowers it: the pass is counted in a real slot *)
(* and the counter computed anew from it, so rounding does not add up.  A  *)
(* real here is a whole number a mantissa of Digits bits can hold; sums    *)
(* and products round to the nearest, ties to the even mantissa.           *)
(***************************************************************************)
EXTENDS Integers

CONSTANTS
  Digits,      \* bits of a mantissa
  LargestReal   \* reals a loop may start at, end at and step by

ASSUME DigitsAssumption == Digits \in Nat \ {0} /\ LargestReal \in Nat

VARIABLES
  realPc,     \* the code reached
  startReal, endReal, stepReal, passReal,  \* the hidden slots
  realCounter  \* the loop's variable

realVars == <<realPc, startReal, endReal, stepReal, passReal, realCounter>>

bounds == <<startReal, endReal, stepReal>>

-------------------------------------------------------------------------------
Size(x) == IF x < 0 THEN -x ELSE x

TwoTo[k \in Nat] == IF k = 0 THEN 1 ELSE 2 * TwoTo[k - 1]

\* What the last bit of a mantissa is worth in numbers of the size of x.
Ulp(x) ==
  TwoTo[CHOOSE k \in 0..Size(x) :
          /\ Size(x) < TwoTo[Digits + k]
          /\ k > 0 => Size(x) >= TwoTo[Digits + k - 1]]

Round(x) ==
  LET u == Ulp(x)
      over == x % u
  IN  IF 2 * over < u \/ (2 * over = u /\ (x \div u) % 2 = 0) THEN x - over
      ELSE x - over + u

LoopReals == {x \in (-LargestReal)..LargestReal : Round(x) = x}

\* Mutant: the next value is the one before and a step.
ValueAdded(start, step, pass) == IF pass = 0 THEN start ELSE Round(realCounter + step)

\* shm_loop_real_value()
Value(start, step, pass) == Round(start + Round(pass * step))

\* shm_loop_real_run()
RealRuns(value, end, step) == IF step > 0 THEN value <= end ELSE value >= end

RealInit ==
  /\ realPc = "check"
  /\ startReal \in LoopReals /\ endReal \in LoopReals /\ stepReal \in LoopReals
  /\ passReal = 0 /\ realCounter = 0

\* shm_loop_real_check() does not come back from a step of zero, nor from a start, an
\* end or a step that is not finite: here all are.
Check ==
  /\ realPc = "check"
  /\ realPc' = IF stepReal = 0 THEN "failed" ELSE "top"
  /\ UNCHANGED <<bounds, passReal, realCounter>>

RealTop ==
  /\ realPc = "top"
  /\ realCounter' = Value(startReal, stepReal, passReal)
  /\ realPc' = IF RealRuns(realCounter', endReal, stepReal) THEN "body" ELSE "done"
  /\ UNCHANGED <<bounds, passReal>>

\* The body, to its end or a continue; it may assign the counter.
RealBody ==
  /\ realPc = "body"
  /\ realCounter' \in {realCounter, 0}
  /\ realPc' = "step"
  /\ UNCHANGED <<bounds, passReal>>

RealBreak ==
  /\ realPc = "body"
  /\ realPc' = "done"
  /\ UNCHANGED <<bounds, passReal, realCounter>>

RealStep ==
  /\ realPc = "step"
  /\ passReal' = Round(passReal + 1)
  /\ realPc' = "top"
  /\ UNCHANGED <<bounds, realCounter>>

RealNext == Check \/ RealTop \/ RealBody \/ RealBreak \/ RealStep

\* The program keeps running, and every body comes to its end.
RealSpec == RealInit /\ [][RealNext]_realVars /\ WF_realVars(RealNext)

-------------------------------------------------------------------------------
\* Every slot holds a real.
RealTypeOK ==
  /\ realPc \in {"check", "top", "body", "step", "done", "failed"}
  /\ \A x \in {startReal, endReal, stepReal, passReal, realCounter} : Round(x) = x
  /\ passReal >= 0

\* The counter is off by the rounding of one product and one sum, however many
\* passes went before and whatever their bodies assigned.
NoDrift ==
  realPc = "body" =>
    LET exact == startReal + passReal * stepReal
    IN  2 * Size(realCounter - exact) <= Ulp(passReal * stepReal) + Ulp(Size(exact) + Ulp(exact))

\* No body sees the counter before the start or beyond the end.
RealWithinTheEnd ==
  realPc = "body" => IF stepReal > 0 THEN startReal <= realCounter /\ realCounter <= endReal
                                 ELSE endReal <= realCounter /\ realCounter <= startReal

\* The passes over reals are true to start, step and end.
RealPassesAsPromised == RealTypeOK /\ NoDrift /\ RealWithinTheEnd

\* Half the passes a mantissa counts lead to the end.  (More need not: the last of
\* them may be rounded to the end itself.)
Countable == Size(endReal - startReal) < Size(stepReal) * TwoTo[Digits - 1]

\* The count is so large that one more is lost on it.
CountedOut == Round(passReal + 1) = passReal

Over == realPc \in {"done", "failed"}

\* A loop whose passes a mantissa counts ends, also where the step is too small to
\* move the counter: it is computed from the count.  Any other ends or goes on until
\* the count itself stands still, and if it still runs then, it runs for ever.
RealLoopEnds == (stepReal = 0 \/ Countable => <>Over) /\ <>(Over \/ CountedOut)
===============================================================================
