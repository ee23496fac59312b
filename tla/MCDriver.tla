------------------------------- MODULE MCDriver -------------------------------
(***************************************************************************)
(* Two files with the extension, one without; a stale program and somebody *)
(* else's assembly where the compiler writes; archives of the runtime in   *)
(* one of its places, in both or in none.                                  *)
(***************************************************************************)
EXTENDS Driver, TLC

p == <<"p", "shl">>
q == <<"q", "shl">>
r == <<"r", "shl">>
bare == <<"bare">>

Src(fault, wants, offers, foreign) ==
  [kind |-> "source", fault |-> fault, wants |-> wants, offers |-> offers, foreign |-> foreign]

Mains ==
  {Src(fault, wants, FALSE, FALSE) : fault \in {"none", "lex", "parse", "check"}, wants \in BOOLEAN}
  \cup {Src("none", wants, FALSE, TRUE) : wants \in BOOLEAN}

\* Beside it: a link to nothing, files that fail, files that have what is wanted.
Others ==
  {[kind |-> "nothing"], Src("lex", FALSE, FALSE, FALSE), Src("parse", FALSE, TRUE, FALSE),
   Src("check", FALSE, FALSE, FALSE)}
  \cup {Src(fault, FALSE, TRUE, FALSE) : fault \in {"none", "check"}}

Stale == [kind |-> "program", by |-> 0, of |-> {}, with |-> <<>>]

Archives(S) == [f \in S |-> [kind |-> "archive"]]

Lib == Archives({<<"here", "shmrt">>, <<"above", "shmrt-debug">>})

MCInputs == {p, q, bare}
MCRuntimes == {<<"mine">>}
MCOutputs == {<<"out">>, <<"p", "s">>}
Neighbours ==
  {(p :> main) @@ (q :> beside) @@ rest @@ (<<"p">> :> Stale) @@ (<<"p", "s">> :> Stale) @@ Lib :
     main \in Mains, beside \in Others,
     rest \in {bare :> Src("none", FALSE, FALSE, FALSE),
                     r :> Src("none", FALSE, TRUE, FALSE)}}

\* One program that takes a function from the file beside it, and a file left out.
Pair(lib) ==
  (p :> Src("none", TRUE, FALSE, FALSE)) @@ (q :> Src("none", FALSE, TRUE, FALSE))
    @@ (r :> Src("lex", FALSE, FALSE, FALSE)) @@ (<<"p">> :> Stale) @@ (<<"p", "s">> :> Stale) @@ lib

\* Two compilations of the pair, the second on what the first left; one of the others.
MCDisks ==
  {[host |-> "posix", command |-> 1,
    files |-> Pair(Archives({<<"mine">>, <<"here", "shmrt">>, <<"above", "shmrt">>}))],
   [host |-> "windows", command |-> 1, files |-> Pair((<<"p", "exe">> :> Stale) @@ Lib)]}
  \cup [host: {"posix"}, command: {2}, files: Neighbours]
===============================================================================
