-------------------------------- MODULE Places --------------------------------
(***************************************************************************)
(* Where the arguments of a call travel (CodeGen::planArguments in         *)
(* src/src/CodeGen.cpp): in a register while there is one, then in a block *)
(* of the caller's frame.  m is a target, given by its argument registers  *)
(* (src/src/backend), and files is the sequence of register files the      *)
(* arguments belong to: "int" for Slot::Int and Slot::Wide, "real" for     *)
(* Slot::Real.                                                             *)
(***************************************************************************)
EXTENDS Integers, Sequences, FiniteSets

Files == {"int", "real"}

\* A positional target counts both files together, and has as many of each.
IsMachine(m) ==
  /\ m \in [ints: Nat, reals: Nat, positional: BOOLEAN, shared: BOOLEAN]
  /\ m.positional => m.ints = m.reals

Capacity(m, file) == IF file = "real" THEN m.reals ELSE m.ints

\* The arguments counted before i when i is given its place.
Earlier(m, files, i) ==
  {j \in DOMAIN files : j < i /\ (m.positional \/ files[j] = files[i])}

Fits(m, files, i) == Cardinality(Earlier(m, files, i)) < Capacity(m, files[i])

Spilled(m, files, i) == {j \in DOMAIN files : j < i /\ ~Fits(m, files, j)}

\* Place::index: a register number, or a position in the overflow block.
PlaceIndex(m, files, i) ==
  IF Fits(m, files, i) THEN Cardinality(Earlier(m, files, i))
                       ELSE Cardinality(Spilled(m, files, i))

Place(m, files, i) ==
  <<IF Fits(m, files, i) THEN files[i] ELSE "overflow", PlaceIndex(m, files, i)>>

\* overflowCount
OverflowCount(m, files) == Cardinality({i \in DOMAIN files : ~Fits(m, files, i)})
===============================================================================
