-------------------------------- MODULE MCCode ---------------------------------
(***************************************************************************)
(* Generated code: what statements become, what calls pass and bring back, *)
(* and what the emitters make of each operation.  A behaviour is about one *)
(* of the three and the others rest.                                       *)
(***************************************************************************)
EXTENDS MCEvaluation, MCBackends, Calling

VARIABLE about

Shapes == INSTANCE MCCalls

MCCases == Shapes!MCCases

StatementsRest ==
  /\ machine = 0 /\ statement = 0 /\ accepted = FALSE /\ code = <<>> /\ depth = 0 /\ deepest = 0 /\ hidden = 0
  /\ pc = 0 /\ reg = 0 /\ slots = <<>> /\ log = <<>>

CallsRest ==
  /\ convention = 0 /\ call = 0 /\ part = "none" /\ next = 0 /\ registers = 0 /\ elements = 0 /\ block = 0
  /\ home = 0 /\ assigned = 0 /\ moved = 0 /\ callFrame = 0

TargetsRest ==
  /\ target = "none" /\ frame = 0 /\ stage = "none" /\ left = 0 /\ processor = 0 /\ promise = 0 /\ texts = 0 /\ data = 0

CodeInit ==
  \/ about = "statements" /\ Init /\ CallsRest /\ TargetsRest
  \/ about = "calls" /\ CallInit /\ StatementsRest /\ TargetsRest
  \/ about = "targets" /\ BackInit /\ StatementsRest /\ CallsRest

AStatement == about = "statements" /\ Next /\ UNCHANGED <<about, callVars, backVars>>

ACall == about = "calls" /\ CallNext /\ UNCHANGED <<about, vars, backVars>>

ATarget == about = "targets" /\ BackNext /\ UNCHANGED <<about, vars, callVars>>

CodeSpec == CodeInit /\ [][AStatement \/ ACall \/ ATarget]_<<about, vars, callVars, backVars>>
===============================================================================
