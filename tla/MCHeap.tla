-------------------------------- MODULE MCHeap --------------------------------
(***************************************************************************)
(* A body with two texts, one with two tables and a row, and one with two  *)
(* tables and room for all their rows; elements 0 and 1.                   *)
(***************************************************************************)
EXTENDS Heap, TLC

CONSTANTS s, t, r, A, B

MCShapes == ("char" :> {<<n, 1>> : n \in 1..3})
              @@ [kind \in {"int", "ref"} |-> {<<1, 2>>, <<2, 1>>}]

MCBodies == {{s, t}, {A, B, r}, {A, B}}

MCMaxHeap == ({s, t} :> 3) @@ ({A, B, r} :> 4) @@ ({A, B} :> 7)

\* Nothing tells the tables apart.
Symmetry == Permutations(Tables)
===============================================================================
