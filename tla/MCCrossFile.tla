----------------------------- MODULE MCCrossFile ------------------------------
(***************************************************************************)
(* Two families of projects of three files.  One is for the search: main   *)
(* files that call up to two names, and companions that may define f, g,   *)
(* x, rivals, cycles and their own main.  The other is for what follows:   *)
(* a global x or y in several files, a library name that is also a         *)
(* function or a variable, initializers that call, a foreign function h.   *)
(***************************************************************************)
EXTENDS CrossFile

MCNames == {"main", "f", "g", "h", "abs", "x", "y"}

Fun(n, calls, reads, writes) ==
  [kind |-> "function", name |-> n, calls |-> calls, reads |-> reads, writes |-> writes]

Glob(n, calls, reads) ==
  [kind |-> "global", name |-> n, calls |-> calls, reads |-> reads, writes |-> {}]

CONSTANTS program, geometry, rival

Concat(s) == FoldLeft(LAMBDA a, d : a \o d.calls, <<>>, s)

CalledNames(s) ==
  Concat(SelectSeq(s, LAMBDA d : d.kind = "function"))
    \o Concat(SelectSeq(s, LAMBDA d : d.kind = "global"))

\* m, g and r are the three files' declarations; who borrows abs, whose declares h.
Project(m, g, r, who, whose) ==
  [decls   |-> (program :> m) @@ (geometry :> g) @@ (rival :> r),
   called  |-> CalledNames(m),
   borrows |-> [f \in Files |-> IF f \in who THEN {"abs"} ELSE {}],
   foreign |-> [f \in Files |-> IF f \in whose THEN {"h"} ELSE {}]]

-------------------------------------------------------------------------------
Body(n, calls, mentions) == Fun(n, calls, mentions, {})

Callers ==
  {<<Body("main", calls, {"x"})>> :
     calls \in {<<"f">>, <<"g", "f">>, <<"f", "abs">>, <<"main", "f">>}}
  \cup {<<Body("main", <<>>, {}), Glob("x", <<"g">>, {})>>,
        <<Body("f", <<"g">>, {}), Body("main", <<"f">>, {})>>}

\* Two globals of one name and two functions of one name are included: the
\* checker refuses them later, the search does not look.
Answers ==
  {<<>>,
   <<Body("abs", <<>>, {}), Body("main", <<"f">>, {})>>,
   <<Body("f", <<>>, {"x"}), Glob("x", <<"g">>, {}), Body("f", <<"g">>, {})>>}
  \cup {<<Glob("x", <<>>, {}), Body("f", cf, {"x"}), Body("g", cg, {"x"})>> :
          cf \in {<<>>, <<"g", "abs">>, <<"f">>}, cg \in {<<"f">>, <<"abs">>}}
  \cup {<<Glob("x", <<"f">>, {}), Body("g", cg, {})>> : cg \in {<<"f">>, <<"abs">>}}
  \cup {<<Body("f", cf, {}), Glob("x", <<>>, {})>> : cf \in {<<"g">>, <<"x", "abs">>}}

Searches ==
  {Project(m, g, r, who, {}) : m \in Callers, g \in Answers, r \in Answers,
                               who \in {{}} \cup {{f} : f \in Files}}

-------------------------------------------------------------------------------
MainFiles ==
  {<<Glob("x", <<>>, {}), Fun("main", <<"f">>, {"x"}, {})>>,
   <<Fun("main", <<"g", "f">>, {"x"}, {"x"}), Glob("x", <<"f">>, {})>>,
   <<Glob("x", <<"g">>, {}), Fun("g", <<"f">>, {}, {}), Fun("main", <<"g">>, {}, {"y"})>>,
   <<Glob("y", <<>>, {}), Glob("x", <<"main">>, {"y"}), Fun("main", <<"abs", "f">>, {"x"}, {})>>,
   <<Fun("main", <<"h", "f">>, {}, {"abs"})>>,
   <<Fun("g", <<>>, {}, {}), Fun("g", <<"f">>, {}, {})>>}

Geometry ==
  {<<>>,
   <<Glob("y", <<>>, {}), Fun("f", <<"g">>, {"y"}, {}), Fun("g", <<>>, {}, {"y"})>>,
   <<Glob("y", <<"g">>, {}), Fun("f", <<>>, {"y"}, {}), Fun("g", <<>>, {}, {})>>,
   <<Glob("x", <<>>, {}), Glob("y", <<>>, {"x"}), Fun("f", <<>>, {"y"}, {})>>,
   <<Fun("f", <<"f">>, {"x"}, {"x"}), Fun("main", <<"f">>, {}, {})>>,
   <<Glob("x", <<>>, {}), Fun("f", <<"abs", "h">>, {"x"}, {"abs"})>>}

Rivals ==
  {<<>>,
   <<Fun("abs", <<>>, {}, {}), Fun("h", <<"g">>, {}, {})>>,
   <<Glob("x", <<"h">>, {}), Fun("g", <<"f">>, {"x"}, {}), Fun("f", <<>>, {}, {})>>,
   <<Glob("y", <<>>, {}), Fun("g", <<"abs">>, {"y", "x"}, {})>>}

Neighbours ==
  {Project(m, g, r, {who}, {whose}) : m \in MainFiles, g \in Geometry, r \in Rivals,
                                      who \in Files, whose \in {program, geometry}}

MCTrees == Searches \cup Neighbours
===============================================================================
