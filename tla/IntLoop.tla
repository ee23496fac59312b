-------------------------------- MODULE IntLoop --------------------------------
(***************************************************************************)
(* for i: start to end step s { body } over ints, as                       *)
(* CodeGen::generateIntLoop lowers it: the end, the step and the pass live *)
(* in hidden slots of the frame, the pass in 64 bits, and the counter the  *)
(* body sees is a copy of it.  The body may assign the counter and         *)
(* whatever the three expressions read; it ends, continues or breaks.      *)
(***************************************************************************)
EXTENDS Integers

CONSTANTS LeastInt, GreatestInt  \* the range of an int

ASSUME RangeAssumption ==
  /\ LeastInt \in Int /\ GreatestInt \in Int
  /\ LeastInt < 0 /\ 0 < GreatestInt

LoopInts == LeastInt..GreatestInt

VARIABLES
  pc,        \* the code reached
  endSlot, stepSlot, passSlot,   \* the hidden slots
  counter,   \* the loop's variable
  first,     \* what start gave
  passes,    \* passes finished
  broke      \* did a break end the loop

loopVars == <<pc, endSlot, stepSlot, passSlot, counter, first, passes, broke>>

history == <<first, passes, broke>>

LoopInit ==
  /\ pc = "end"
  /\ endSlot = 0 /\ stepSlot = 0 /\ passSlot = 0 /\ counter = 0
  /\ first = 0 /\ passes = 0 /\ broke = FALSE

-------------------------------------------------------------------------------
\* shm_loop_int_run()
Runs(value, last, by) == IF by > 0 THEN value <= last ELSE value >= last

\* Mutant: the pass is no wider than the counter.
AdvancedNarrow(value, by) == ((value + by - LeastInt) % (GreatestInt - LeastInt + 1)) + LeastInt

\* shm_loop_int_advance(): 64 bits hold every sum of two ints.
Advanced(value, by) == value + by

EvaluateEnd ==
  /\ pc = "end"
  /\ endSlot' \in LoopInts
  /\ pc' = "by"
  /\ UNCHANGED <<stepSlot, passSlot, counter, history>>

\* shm_loop_int_check() does not come back from a step of zero.
EvaluateStep ==
  /\ pc = "by"
  /\ stepSlot' \in LoopInts
  /\ pc' = IF stepSlot' = 0 THEN "failed" ELSE "start"
  /\ UNCHANGED <<endSlot, passSlot, counter, history>>

EvaluateStart ==
  /\ pc = "start"
  /\ passSlot' \in LoopInts
  /\ first' = passSlot'
  /\ pc' = "top"
  /\ UNCHANGED <<endSlot, stepSlot, counter, passes, broke>>

Top ==
  /\ pc = "top"
  /\ IF Runs(passSlot, endSlot, stepSlot)
     THEN pc' = "body" /\ counter' = passSlot
     ELSE pc' = "done" /\ UNCHANGED counter
  /\ UNCHANGED <<endSlot, stepSlot, passSlot, history>>

\* Mutant: continue goes to the label a while loop uses.
BodyToTop ==
  /\ pc = "body"
  /\ counter' \in LoopInts
  /\ pc' \in {"step", "top"}
  /\ UNCHANGED <<endSlot, stepSlot, passSlot, history>>

\* The body, to its end or a continue: both reach the label of the step.
Body ==
  /\ pc = "body"
  /\ counter' \in LoopInts
  /\ pc' = "step"
  /\ UNCHANGED <<endSlot, stepSlot, passSlot, history>>

Break ==
  /\ pc = "body"
  /\ counter' \in LoopInts
  /\ pc' = "done"
  /\ broke' = TRUE
  /\ UNCHANGED <<endSlot, stepSlot, passSlot, first, passes>>

Step ==
  /\ pc = "step"
  /\ passSlot' = Advanced(passSlot, stepSlot)
  /\ passes' = passes + 1
  /\ pc' = "top"
  /\ UNCHANGED <<endSlot, stepSlot, counter, first, broke>>

LoopNext ==
  \/ EvaluateEnd \/ EvaluateStep \/ EvaluateStart
  \/ Top \/ Body \/ Break \/ Step

\* The program keeps running, and every body comes to its end.
LoopSpec == LoopInit /\ [][LoopNext]_loopVars /\ WF_loopVars(LoopNext)

-------------------------------------------------------------------------------
\* The counter is an int whatever the 64 bits of the pass hold, which stay one
\* step beyond the ints at most.
LoopTypeOK ==
  /\ pc \in {"end", "by", "start", "top", "body", "step", "done", "failed"}
  /\ endSlot \in LoopInts /\ stepSlot \in LoopInts /\ first \in LoopInts /\ counter \in LoopInts
  /\ passSlot \in Int
  /\ LeastInt + LeastInt <= passSlot /\ passSlot <= GreatestInt + GreatestInt
  /\ passes \in Nat /\ broke \in BOOLEAN

\* Pass k begins with the counter at start + k * step, whatever the bodies before
\* it assigned.
PassesInOrder == pc = "body" => counter = first + passes * stepSlot

\* The passes from start to end, by the language.
PassesFrom(from, last, by) ==
  IF ~Runs(from, last, by) THEN 0
  ELSE IF by > 0 THEN (last - from) \div by + 1 ELSE (from - last) \div (-by) + 1

\* A loop no break ended has made a pass for every value from start to end,
\* among them an end that is the largest or the smallest int.
EveryPassIsMade == pc = "done" /\ ~broke => passes = PassesFrom(first, endSlot, stepSlot)

\* No body sees the counter beyond the end: no pass wraps around.
WithinTheEnd ==
  pc = "body" => IF stepSlot > 0 THEN first <= counter /\ counter <= endSlot
                                 ELSE endSlot <= counter /\ counter <= first

\* The passes are those from start to end by step, each begun where it belongs.
PassesAsPromised == LoopTypeOK /\ PassesInOrder /\ EveryPassIsMade /\ WithinTheEnd

\* The loop comes to its end.
LoopEnds == <>(pc \in {"done", "failed"})
===============================================================================
