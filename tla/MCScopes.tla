------------------------------- MODULE MCScopes -------------------------------
(***************************************************************************)
(* Every function of a few items over one name, with and without a global  *)
(* of that name, and every way through it.                                 *)
(***************************************************************************)
EXTENDS Scopes

CONSTANT x
===============================================================================
