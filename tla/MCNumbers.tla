------------------------------- MODULE MCNumbers -------------------------------
(***************************************************************************)
(* What src/runtime/Numbers.cpp and Console.cpp serve: arithmetic, loops   *)
(* over ints, loops over reals, printing, the spelling of reals.  A        *)
(* behaviour is about one of them and the others rest.                     *)
(* Arithmetic is on ints of four bits, in eight, chars of two and halves a *)
(* little beyond the ints; int loops are over ints of three bits, with     *)
(* every start, end, step and value a body may leave in the counter; real  *)
(* loops over reals to 20 with mantissas of three bits, where the last bit *)
(* is worth four and the count of the passes comes to a stand at eight;    *)
(* printing is of doubles with mantissas of four bits from 2^-7 to 120, of *)
(* ints, texts and grids of up to three rows.                              *)
(***************************************************************************)
EXTENDS Numbers, IntLoop, RealLoop, Shortest, Console

VARIABLE about

vars == <<about, numberVars, loopVars, realVars, spelled, consoleVars>>

Init ==
  /\ about \in {"arithmetic", "ints", "reals", "printing", "spelling"}
  /\ NumbersInit /\ LoopInit /\ RealInit /\ ShortestInit /\ ConsoleInit
  /\ about # "reals" => startReal = 0 /\ endReal = 0 /\ stepReal = 1

Arithmetic == about = "arithmetic" /\ NumbersNext /\ UNCHANGED <<about, loopVars, realVars, spelled, consoleVars>>

OverInts == about = "ints" /\ LoopNext /\ UNCHANGED <<about, numberVars, realVars, spelled, consoleVars>>

OverReals == about = "reals" /\ RealNext /\ UNCHANGED <<about, numberVars, loopVars, spelled, consoleVars>>

Printing == about = "printing" /\ ConsoleNext /\ UNCHANGED <<about, numberVars, loopVars, realVars, spelled>>

Spelling == about = "spelling" /\ ShortestNext /\ UNCHANGED <<about, numberVars, loopVars, realVars, consoleVars>>

\* A loop keeps running, and every body comes to its end.
Spec == Init /\ [][Arithmetic \/ OverInts \/ OverReals \/ Printing \/ Spelling]_vars
             /\ WF_vars(OverInts) /\ WF_vars(OverReals)

\* A for over ints comes to its end, at the edges of int too; one over reals does if
\* its passes can be counted, however small its step; if not, it ends or goes on until
\* the count stands still, and may then run for ever (CodeGen.cpp: generateIntLoop(),
\* generateRealLoop()).
LoopsEnd == (about = "ints" => LoopEnds) /\ (about = "reals" => RealLoopEnds)

SmallestInt == -4

MCLeastPower == -11
MCSmallestPlain == -1
MCAsked == {-2, 0, 3, 25}

\* A row of three, tables with a wide cell in each row, one with rows of different
\* lengths, texts with empty cells, reals.
MCGrids ==
  {[reals |-> FALSE, rows |-> rows] : rows \in
     {<<<<1, 2, 1>>>>, <<<<1, 3>>, <<2, 1>>>>, <<<<1, 1>>, <<1>>, <<4>>>>, <<<<1, 0>>, <<0, 0>>>>}}
  \cup {[reals |-> TRUE, rows |-> <<<<1, 2>>, <<1, 1>>>>]}
===============================================================================
