-------------------------------- MODULE Writing --------------------------------
(***************************************************************************)
(* Programs being written, and what the parser makes of them.              *)
(*                                                                         *)
(* The state is a program on its way to being complete: the tokens written *)
(* so far and, beside them, what they were written to mean.  Each action   *)
(* writes one statement, opens or closes one block, or spoils one token.   *)
(* After any of them the text may be compiled: the parser reads it, as the *)
(* driver has it do with a file (src/src/Driver.cpp), and the properties   *)
(* compare what it made with what was meant.                               *)
(*                                                                         *)
(* The writer follows the rules a person has to: a print begins its line,  *)
(* an operator's operand is put in parentheses where the language would    *)
(* bind it otherwise, and otherwise a statement may follow another on the  *)
(* same line.                                                              *)
(***************************************************************************)
EXTENDS Parser

CONSTANTS
    Writers,        \* who writes; what follows is of each of them
    Expressions,    \* the trees a statement may hold
    Heads,          \* the heads of functions, as Prototype reads them
    Strays,         \* the texts a mistake may put in
    MaxWritten,     \* bounds the statements and block ends of a whole program
    MaxMistakes     \* how many tokens are spoilt, 0 or 1

ASSUME WritingAssumption ==
    /\ MaxWritten \in [Writers -> Nat] /\ MaxMistakes \in [Writers -> {0, 1}]
    /\ Numbers \intersect {"0", "1"} = {}

VARIABLES
    writer,     \* who writes this program
    meant,      \* what the tokens were written to mean
    open,       \* the blocks not closed yet, the outermost first
    stray,      \* the line of the first jump written outside a loop, or 0
    spoilt,     \* the line of the spoilt token, or 0
    parsed      \* what the parser made of the text, once it has read it

vars == <<writer, tokens, meant, open, stray, spoilt, parsed>>

-----------------------------------------------------------------------------
(* Spelling a tree with no more parentheses than it needs. *)

Bound(tree) ==
    CASE Len(tree) = 3 /\ tree[1] = "^"              -> 6
      [] Len(tree) = 3 /\ tree[1] = "-" /\ tree[2] = <<"0">> -> 7
      [] Len(tree) = 3 /\ \E n \in DOMAIN Levels : tree[1] \in Levels[n] ->
             CHOOSE n \in DOMAIN Levels : tree[1] \in Levels[n]
      [] IsNumber(tree)                              -> 7
      [] OTHER                                       -> 8

RECURSIVE Spell(_), Listed(_, _)

Tight(tree, level) == IF Bound(tree) >= level THEN Spell(tree)
                      ELSE <<"(">> \o Spell(tree) \o <<")">>

\* The trees from the k-th on, commas between.
Listed(trees, k) ==
    CASE k > Len(trees) -> <<>>
      [] k = Len(trees) -> Spell(trees[k])
      [] OTHER          -> Spell(trees[k]) \o <<",">> \o Listed(trees, k + 1)

Spell(tree) ==
    CASE Bound(tree) = 6 ->
             Tight(tree[2], 7) \o <<"^">> \o Tight(tree[3], 6)
      [] Bound(tree) < 6 ->
             Tight(tree[2], Bound(tree)) \o <<tree[1]>>
                 \o Tight(tree[3], Bound(tree) + 1)
      [] tree[1] = "-" -> <<"-">> \o Tight(tree[Len(tree)], 7)
      [] tree[1] = "()" -> <<tree[2][1], "(">> \o Listed(tree, 3) \o <<")">>
      [] tree[1] = "[]" ->
             Tight(tree[2], 8) \o <<"[">> \o Spell(tree[3]) \o <<"]">>
      [] tree[1] \in {"row", "col"} -> Tight(tree[2], 8) \o <<".", tree[1]>>
      [] tree[1] \in Scalars -> <<tree[1], "(">> \o Spell(tree[2]) \o <<")">>
      [] tree[1] = "{}" -> <<"{">> \o Listed(tree, 2) \o <<"}">>
      [] tree[1] = "blank" -> <<>>
      [] OTHER -> <<tree[1]>>

\* After `?` and `return`, `name =` would begin an assignment.
Item(tree) ==
    LET text == Spell(tree)
    IN  IF Len(text) > 1 /\ text[1] \in Names /\ text[2] = "="
        THEN <<"(">> \o text \o <<")">> ELSE text

-----------------------------------------------------------------------------
(* What may be written: the text of a sentence and what it means. *)

Says(text, what, parts) == [text |-> text, what |-> what, parts |-> parts]

x == <<"x">>
y == <<"y">>
CallOn(tree) == <<"()", <<"f">>, tree>>
Table(tree) == <<"{}", tree, <<"blank">>, y>>

Declarations ==
         {Says(<<"int", "x">>, "declare", <<<<"int">>, x>>)}
  \union {Says(<<"real", "y", ":">> \o Spell(e), "declare", <<<<"real">>, y, e>>) :
              e \in Expressions[writer]}
  \union {Says(<<"int", "x", "[">> \o Spell(e) \o <<"]", ":">> \o Spell(Table(e)),
               "declare", <<<<"int">>, <<"[]", x, e>>, Table(e)>>) :
              e \in Expressions[writer]}

Assignments ==
         {Says(<<"x", sign>> \o Spell(e), ":", <<x, e>>) :
              e \in Expressions[writer], sign \in {":", "="}}
  \union {Says(<<"x", "[">> \o Spell(e) \o <<"]", "+:", "y">>,
               "+:", <<<<"[]", x, e>>, y>>) : e \in Expressions[writer]}

Prints ==
         {Says(<<"?">>, "?", <<>>)}
  \union {Says(<<"?">> \o Item(e), "?", <<e>>) : e \in Expressions[writer]}
  \union {Says(<<"??", "prec", "(">> \o Spell(e) \o <<")", "x">>,
               "??", <<<<"prec", e>>, x>>) : e \in Expressions[writer]}
  \union {Says(<<"?">> \o Item(e) \o Spell(CallOn(x)), "?", <<e, CallOn(x)>>) :
              e \in Expressions[writer]}

Returns ==
         {Says(<<"return">>, "return", <<>>)}
  \union {Says(<<"return">> \o Item(e), "return", <<e>>) : e \in Expressions[writer]}
  \union {Says(<<"return", "(">> \o Spell(e) \o <<",", "x", ")">>,
               "return", <<e, x>>) : e \in Expressions[writer]}

Calls ==
         {Says(Spell(CallOn(e)), "call", <<CallOn(e)>>) : e \in Expressions[writer]}
  \union {Says(<<"<", "x", ",", "y", ">", ":">> \o Spell(CallOn(e)),
               "<>", <<x, y, CallOn(e)>>) : e \in Expressions[writer]}
  \union {Says(<<"<", "x", ">", ":">> \o Spell(CallOn(e)),
               "<>", <<x, CallOn(e)>>) : e \in Expressions[writer]}

Openings ==
         {Says(<<what>> \o Spell(e), what, <<e>>) :
              e \in Expressions[writer], what \in {"if", "while"}}
  \union {Says(<<"for", "x", "<">> \o Spell(e), "for",
               <<x, <<"0">>, <<"-", e, <<"1">>>>>>) : e \in Expressions[writer]}
  \union {Says(<<"for", "x", ":">> \o Spell(e) \o <<"to", "y", "step">> \o Spell(e),
               "for", <<x, e, y, e>>) : e \in Expressions[writer]}

Borrowings == {Says(<<"uses">> \o h.text, "uses", h.tree) : h \in Heads[writer]}

-----------------------------------------------------------------------------
Unread == No(0)

IsRead == parsed # Unread

\* The line of the token an error is reported at.
Stops(r) == LineOf(r.at)

InLoop == \E k \in DOMAIN open : open[k] \in {"while", "for"}

\* The line the next sentence is on.
Here(fresh) == IF tokens = <<>> THEN 1
               ELSE LineOf(Len(tokens)) + (IF fresh THEN 1 ELSE 0)

\* A print takes a line of its own, and a bare return or a print would take a
\* call or an element that followed it on its line for a value.
MayFollow(text, fresh) ==
    \/ fresh
    \/ /\ tokens # <<>>
       /\ text[1] \notin {"?", "??"}
       /\ ~ /\ meant[Len(meant)].what \in {"?", "??", "return"}
            /\ meant[Len(meant)].what = "return" => meant[Len(meant)].parts = <<>>
            /\ text[1] \in Names /\ text[2] \in {"(", "["}

\* `text` is written, `means` is what it adds to the program, and `blocks` are
\* open after it.  What is open can always still be closed.
Write(text, means, blocks, fresh) ==
    /\ spoilt = 0 /\ MayFollow(text, fresh)
    /\ Len(meant) + 1 + Len(blocks) <= MaxWritten[writer]
    /\ tokens' = tokens \o [k \in DOMAIN text |->
                                [text |-> text[k], line |-> Here(fresh)]]
    /\ meant' = Append(meant, means)
    /\ open' = blocks
    /\ UNCHANGED <<writer, spoilt>>

Meaning(what, parts, fresh) == [what |-> what, line |-> Here(fresh), parts |-> parts]

WriteGlobal(fresh) ==
    /\ open = <<>>
    /\ \E s \in Declarations \union Borrowings :
           Write(s.text, Meaning(s.what, s.parts, fresh), open, fresh)
    /\ UNCHANGED stray

WriteBorrow(fresh) ==
    /\ open = <<>>
    /\ Write(<<"uses", "x">>, Meaning("borrow", <<x>>, fresh), open, fresh)
    /\ UNCHANGED stray

OpenFunction(fresh) ==
    /\ open = <<>>
    /\ \E h \in Heads[writer] : Write(<<"fun">> \o h.text \o <<"{">>,
                              Meaning("fun", h.tree, fresh), <<"fun">>, fresh)
    /\ UNCHANGED stray

WriteStatement(fresh) ==
    /\ open # <<>>
    /\ \E s \in Declarations \union Assignments \union Prints \union Returns
                 \union Calls :
           Write(s.text, Meaning(s.what, s.parts, fresh), open, fresh)
    /\ UNCHANGED stray

WriteJump(fresh) ==
    /\ open # <<>>
    /\ \E jump \in {"break", "continue"} :
           Write(<<jump>>, Meaning(jump, <<>>, fresh), open, fresh)
    /\ stray' = IF InLoop \/ stray # 0 THEN stray ELSE Here(fresh)

OpenBlock(fresh) ==
    /\ open # <<>>
    /\ \E s \in Openings : Write(s.text \o <<"{">>, Meaning(s.what, s.parts, fresh),
                                 Append(open, s.what), fresh)
    /\ UNCHANGED stray

OpenElseIf(fresh) ==
    /\ open # <<>> /\ open[Len(open)] = "if"
    /\ \E e \in Expressions[writer] :
           Write(<<"}", "else", "if">> \o Spell(e) \o <<"{">>,
                 Mark("else if", <<e>>), open, fresh)
    /\ UNCHANGED stray

OpenElse(fresh) ==
    /\ open # <<>> /\ open[Len(open)] = "if"
    /\ Write(<<"}", "else", "{">>, Mark("else", <<>>),
             [open EXCEPT ![Len(open)] = "else"], fresh)
    /\ UNCHANGED stray

CloseBlock(fresh) ==
    /\ open # <<>>
    /\ Write(<<"}">>, Mark("end", <<>>), SubSeq(open, 1, Len(open) - 1), fresh)
    /\ UNCHANGED stray

\* In a whole program one token is left out, or one is put before it on its line.
Spoil ==
    /\ MaxMistakes[writer] > 0 /\ spoilt = 0 /\ stray = 0 /\ open = <<>>
    /\ \E k \in DOMAIN tokens :
           LET before == SubSeq(tokens, 1, k - 1)
               after == SubSeq(tokens, k + 1, Len(tokens))
           IN  /\ spoilt' = tokens[k].line
               /\ \/ tokens' = before \o after
                  \/ \E t \in Strays[writer] :
                        tokens' = before \o <<[tokens[k] EXCEPT !.text = t],
                                              tokens[k]>> \o after
    /\ UNCHANGED <<writer, meant, open, stray>>

Init == /\ writer \in Writers
        /\ tokens = <<>> /\ meant = <<>> /\ open = <<>> /\ stray = 0 /\ spoilt = 0
        /\ parsed = Unread

Writes == \/ /\ spoilt = 0 /\ Len(meant) < MaxWritten[writer]
             /\ \E fresh \in BOOLEAN :
                  \/ WriteGlobal(fresh) \/ WriteBorrow(fresh) \/ OpenFunction(fresh)
                  \/ WriteStatement(fresh) \/ WriteJump(fresh) \/ OpenBlock(fresh)
                  \/ OpenElseIf(fresh) \/ OpenElse(fresh) \/ CloseBlock(fresh)
          \/ Spoil

\* The driver has the text parsed, whatever is on it.
Read == parsed' = Parse /\ UNCHANGED <<writer, tokens, meant, open, stray, spoilt>>

Next == parsed = Unread /\ (Read \/ (Writes /\ UNCHANGED parsed))

Spec == Init /\ [][Next]_vars

-----------------------------------------------------------------------------
(* Properties. *)

\* A complete program reads as the statements it was written as, each with its
\* own line, whatever the line breaks between them: no statement takes in the
\* beginning of the next, and operators bind as they were spelled.
ReadsWhatIsWritten ==
    IsRead /\ spoilt = 0 /\ open = <<>> /\ stray = 0 =>
        parsed.ok /\ parsed.got = meant

\* A program with a jump outside every loop is refused at that jump, one with a
\* block left open at its last line, and nothing earlier is blamed.  One wrong token
\* is reported on its own line or after it, never before: what the parser has taken
\* for good is never the mistake.  A text that stops short is reported at the last
\* line it has.
RefusesWhereItStops ==
    IsRead =>
        /\ spoilt = 0 /\ (open # <<>> \/ stray # 0) =>
               /\ ~parsed.ok
               /\ Stops(parsed) = IF stray # 0 THEN stray ELSE LineOf(Len(tokens))
        /\ spoilt # 0 =>
               parsed.ok \/ Stops(parsed) >= spoilt \/ parsed.at > Len(tokens)

IsLeaf(text) == text \in Names \union Numbers \union Texts

RECURSIVE LeavesOf(_), LeavesFrom(_, _)

\* The leaves of the subtrees of `tree` from the k-th on.
LeavesFrom(tree, k) ==
    IF k > Len(tree) THEN <<>> ELSE LeavesOf(tree[k]) \o LeavesFrom(tree, k + 1)

LeavesOf(tree) ==
    CASE Len(tree) = 1 -> SelectSeq(tree, IsLeaf)
      [] Len(tree) > 1 /\ tree[1] \in {"row", "col", "dim"} ->
             LeavesOf(tree[2]) \o <<tree[1]>> \o LeavesFrom(tree, 3)
      [] Len(tree) > 1 /\ tree[1] = "prec" -> <<"prec">> \o LeavesOf(tree[2])
      [] OTHER -> LeavesFrom(tree, 2)

RECURSIVE AllLeaves(_, _)
AllLeaves(program, k) ==
    IF k > Len(program) THEN <<>>
    ELSE LeavesFrom(program[k].parts, 1) \o AllLeaves(program, k + 1)

\* Whatever was written, with a mistake or without one: a program the parser
\* takes has every name and literal of the text in it, once, in order.
NothingIsLost ==
    IsRead /\ parsed.ok =>
        AllLeaves(parsed.got, 1) = SelectSeq([k \in DOMAIN tokens |-> tokens[k].text], IsLeaf)
===============================================================================
