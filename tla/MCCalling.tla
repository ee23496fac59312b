------------------------------ MODULE MCCalling -------------------------------
(* Calls alone, on the targets and of the shapes of MCCalls. *)
EXTENDS Calling

Shapes == INSTANCE MCCalls

MCRealElements == Shapes!MCRealElements
===============================================================================
