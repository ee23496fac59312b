------------------------------- MODULE MCReading -------------------------------
(***************************************************************************)
(* What becomes of a file: characters to tokens, tokens to a program.  A   *)
(* behaviour is about one of the two and the other rests.  Tokens come     *)
(* from a handful of words and four writers: one of programs over          *)
(* expressions a statement boundary could be confused by, one of single    *)
(* declarations with every tree of two operators, one that makes mistakes, *)
(* and one that gets as far as a jump inside a block and what follows it.  *)
(***************************************************************************)
EXTENDS Writing, MCLexer

SomeNames == {"x", "y", "f", "row", "prec"}

\* `<> = f()` and `<int, real> >= f(&x: int, y[]: real)`: the second is how the
\* lexer spells `>=` without a space.
TwoHeads ==
    { [text |-> <<"<", ">", "=", "f", "(", ")">>,
       tree |-> <<<<"outputs">>, <<"f">>, <<"inputs">>>>],
      [text |-> <<"<", "int", ",", "real", ">=", "f", "(", "&", "x", ":", "int",
                  ",", "y", "[", "]", ":", "real", ")">>,
       tree |-> <<<<"outputs", <<"int">>, <<"real">>>>, <<"f">>,
                  <<"inputs", <<"&", x, <<"int">>>>,
                              <<":", <<"[]", y>>, <<"real">>>>>>>>] }

OneHead == {h \in TwoHeads : Len(h.text) = 6}

\* A name, a comparison, an equality and a negated element.
Confusing == { x, <<"<", x, y>>, <<"=", x, <<"7">>>>,
               <<"-", <<"0">>, <<"[]", x, y>>>> }

One == {<<"<", x, y>>}

Operators == {"|", "&", "=", "<", "-", "+", "*", "/", "^"}
OneDeep == {<<op, x, <<"7">>>> : op \in Operators}
           \union {x, <<"7">>, <<"-", <<"7">>>>, <<"-", <<"0">>, x>>, CallOn(x),
                   <<"[]", x, x>>, <<"row", x>>, <<"int", x>>, <<"s">>}
Signed == {t \in OneDeep : ~IsNumber(t)}
AllTrees == OneDeep
    \union {<<op, l, r>> : op \in Operators, l \in OneDeep, r \in OneDeep}
    \union {<<"-", <<"0">>, t>> : t \in Signed}
    \union {<<"[]", t, x>> : t \in OneDeep} \union {CallOn(t) : t \in OneDeep}

MCWriters == {"neighbours", "trees", "mistakes", "jumps"}

MCExpressions == ("neighbours" :> Confusing) @@ ("trees" :> AllTrees) @@ ("mistakes" :> One)
                   @@ ("jumps" :> {x})
MCHeads == [w \in MCWriters |-> IF w = "trees" THEN TwoHeads ELSE OneHead]
MCStrays == [w \in MCWriters |-> IF w = "mistakes" THEN {"<"} ELSE {}]
MCMaxWritten == [w \in MCWriters |-> CASE w = "trees" -> 1 [] w = "jumps" -> 5 [] OTHER -> 4]
MCMaxMistakes == [w \in MCWriters |-> IF w = "mistakes" THEN 1 ELSE 0]

VARIABLE about

readVars == <<about, vars, lexVars>>

ReadInit ==
  /\ about \in {"characters", "tokens"}
  /\ Init /\ LexInit
  /\ IF about = "tokens" THEN source = <<>> ELSE writer = "jumps"

Characters == about = "characters" /\ LexNext /\ UNCHANGED <<about, vars>>

OfTokens == about = "tokens" /\ Next /\ UNCHANGED <<about, lexVars>>

ReadSpec == ReadInit /\ [][Characters \/ OfTokens]_readVars
===============================================================================
