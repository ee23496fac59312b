------------------------------- MODULE Closure --------------------------------
(***************************************************************************)
(* What docs/CROSSFILE.md promises of the search for other files, with no  *)
(* stack, no file and no moving of parts: rule 2 (nothing arrives that was *)
(* not asked for, and what a function that arrived calls is asked for in   *)
(* turn) and rule 3 (a name asked for that two files answer is refused).   *)
(* Arrivals may come in any order.                                         *)
(***************************************************************************)
CONSTANT Names

VARIABLES
  roots,    \* names the program's own file calls
  calls,    \* calls[n]: what the function n of another file calls
  single,   \* names exactly one other file answers to
  rivals,   \* names several other files answer to
  arrived,  \* functions in the program so far that came from another file
  verdict   \* "open", then "resolved" or "refused"

facts == <<roots, calls, single, rivals>>

vars == <<facts, arrived, verdict>>

AskedFor == roots \cup UNION {calls[n] : n \in arrived}

Init ==
  /\ roots \subseteq Names
  /\ calls \in [Names -> SUBSET Names]
  /\ single \subseteq Names
  /\ rivals \subseteq Names \ single
  /\ arrived = {}
  /\ verdict = "open"

Arrive(n) ==
  /\ verdict = "open"
  /\ n \in (AskedFor \cap single) \ arrived
  /\ arrived' = arrived \cup {n}
  /\ UNCHANGED <<facts, verdict>>

Settle ==
  /\ verdict = "open"
  /\ AskedFor \cap single \subseteq arrived
  /\ verdict' = IF AskedFor \cap rivals = {} THEN "resolved" ELSE "refused"
  /\ UNCHANGED <<facts, arrived>>

Next == (\E n \in Names : Arrive(n)) \/ Settle

Spec == Init /\ [][Next]_vars /\ WF_vars(Next)
===============================================================================
