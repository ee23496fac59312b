------------------------------- MODULE MCLexer ---------------------------------
(***************************************************************************)
(* Two tokens, or one and a mistake, of every kind, with every gap around  *)
(* them, and none where none is needed.                                    *)
(***************************************************************************)
EXTENDS Lexer, TLC

MCLower == [c \in {"i", "f", "e", "_"} |-> c] @@ ("I" :> "i") @@ ("F" :> "f") @@ ("E" :> "e")
MCLetters == DOMAIN MCLower
MCDigits == ("0" :> 0) @@ ("9" :> 9)
MCKeywords == {<<"i", "f">>}
MCFollow == ("two" :> 1) @@ ("three" :> 2)

Piece(kind, written) == [kind |-> kind, written |-> written, means |-> written]

Words == {Piece("Identifier", w) : w \in {<<"i">>, <<"e", "9">>, <<"i", "f", "_">>, <<"F">>}}
  \cup {[kind |-> "Keyword", written |-> w, means |-> <<"i", "f">>] : w \in {<<"i", "f">>, <<"I", "F">>}}
Wholes == {Piece("IntLiteral", w) : w \in {<<"0">>, <<"9", "0">>, <<"0", "9", "9">>}}
Fractions == {Piece("RealLiteral", w) : w \in
  {<<"9", ".">>, <<"0", ".", "9">>, <<"9", "e", "9">>, <<"0", ".", "E", "+", "0">>,
   <<"0", "e", "9", "9">>, <<"9", "9", "E", "-", "9", "9">>,
   <<"0", "0", "9", "e", "9">>, <<"0", ".", "0", "9", "e", "9">>}}
Strings == {[kind |-> "StringLiteral", written |-> <<"quote">> \o s \o <<"quote">>, means |-> s] :
              s \in {<<>>, <<"/", "/">>, <<"two", "follows">>}}
Signs == {Piece("Punctuation", s) : s \in Doubles \cup {<<s>> : s \in {"?", "[", ".", ":", "-", "/", "=", "<"}}}

Valid == Words \cup Wholes \cup Fractions \cup Strings \cup Signs

\* The last stretch of each is refused where it stands.
Mistakes ==
  {Piece("Mistake", w) : w \in
     {<<"9", "9", "9">>, <<"9", ".", "9", ".">>, <<"9", "e">>, <<"0", "e", "-">>, <<"9", "0", "e", "9">>, [i \in 1..12 |-> IF i = 12 THEN "." ELSE "9"],
      <<"!">>, <<"two", "follows">>, <<"three", "follows", "follows">>, <<"two">>, <<"follows">>, <<"$">>}}
  \cup {[kind |-> "Mistake", written |-> <<"three">> \o rest, means |-> <<"three">>] :
          rest \in {<<"follows">>, <<"two">>, <<"two", "follows">>}}
  \cup {[kind |-> "Mistake", written |-> <<"quote">> \o rest, means |-> <<"quote">>] :
          rest \in {<<>>, <<"i", "\n">>}}

Gaps == {Piece("Gap", g) : g \in {<<" ">>, <<"\n">>, <<"\r", "\n">>, <<"/", "/", "quote">>, <<"/", "/", "/", "\n", "\t">>}}

First(p) == p.written[1]
Final(p) == p.written[Len(p.written)]

\* What would be read as something else if it touched what follows.
MustPart(a, b) ==
  \/ a.kind \in {"Identifier", "Keyword"} /\ First(b) \in MCLetters \cup DOMAIN MCDigits
  \/ a.kind \in {"IntLiteral", "RealLiteral"} /\ First(b) \in {"0", "9", ".", "e", "E"}
  \/ a.written \in {<<"+">>, <<"-">>} /\ First(b) = ":"
  \/ a.written \in {<<"!">>, <<"<">>, <<">">>} /\ First(b) = "="
  \/ a.written = <<"?">> /\ First(b) = "?"
  \/ a.written = <<"/">> /\ First(b) = "/"
  \/ a.kind = "Mistake" /\ Final(a) # "\n"
  \/ a.kind = "Gap" /\ Final(a) = "quote"

Laid ==
  {<<a, g, b>> : a \in Valid, g \in Gaps, b \in Valid \cup Mistakes}
  \cup {<<g, b, h>> : g, h \in Gaps, b \in Valid}
  \cup {<<a, b>> : a \in Valid, b \in Valid \cup Mistakes}
  \cup {<<a, b>> : a \in Mistakes, b \in Valid \cup Gaps}

\* And nothing at all.
MCSources == {<<>>} \cup {s \in Laid : \A k \in 1..Len(s) - 1 : ~MustPart(s[k], s[k + 1])}
===============================================================================
