------------------------------ MODULE MCSession -------------------------------
(***************************************************************************)
(* A main that may call itself once and a function of another file that no *)
(* counter of its own stops, so both ceilings are met.  The editor knows   *)
(* three places, one more than the table of breakpoints holds.             *)
(***************************************************************************)
EXTENDS Session

CONSTANTS main, f, globals

MCFunctions == {main, f}
MCId == (main :> 0) @@ (f :> 1)
MCLimit == (main :> 1) @@ (f :> 1)
MCUnitOf == (main :> 0) @@ (f :> 1) @@ (globals :> 0)
MCLines == (main :> {1, 4}) @@ (f :> {2}) @@ (globals :> {3})
MCPlaces == {<<0, 1>>, <<0, 4>>, <<1, 2>>}
===============================================================================
