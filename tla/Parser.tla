-------------------------------- MODULE Parser --------------------------------
(***************************************************************************)
(* The recursive-descent parser of Compiler-S (src/src/Parser.cpp) as the  *)
(* function it computes: tokens in, a program or the place of the first    *)
(* mistake out.                                                            *)
(*                                                                         *)
(* The language has no separator between statements and hardly looks at    *)
(* line ends, so where one statement stops and the next begins is decided  *)
(* by four lookaheads (startsLine, looksLikeNewStatement,                  *)
(* looksLikeMultiAssignHeader, parenGroupHasTopLevelComma).  Those are     *)
(* kept whole here.                                                        *)
(*                                                                         *)
(* A token is its text and its line.  A tree is a sequence: the name of    *)
(* the node, then its subtrees.  A program is the sequence of its          *)
(* statements, a compound one followed by its body and an "end" mark.      *)
(* The wording of a diagnostic is left out; where it points is kept.       *)
(*                                                                         *)
(* The operators below call each other the way the methods do, so they are *)
(* RECURSIVE and this module is for model checking only.                   *)
(***************************************************************************)
EXTENDS Integers, Sequences, FiniteSets

CONSTANTS
    Names,      \* the words that are identifiers
    Numbers,    \* the literals, none of them "0" or "1"
    Texts       \* the string literals

VARIABLE tokens     \* what the lexer made: a sequence of [text, line]

Scalars == {"int", "real", "char"}
Assigners == {":", "+:", "-:"}

-----------------------------------------------------------------------------
(* Looking at tokens. *)

Text(i) == IF i \in DOMAIN tokens THEN tokens[i].text ELSE "end of input"

\* Where a diagnostic at token i points: past the end, at the last line.
LineOf(i) == CASE i \in DOMAIN tokens -> tokens[i].line
               [] tokens = <<>>       -> 1
               [] OTHER               -> tokens[Len(tokens)].line

StartsLine(i) == \/ i = 1
                 \/ i \in DOMAIN tokens /\ tokens[i].line # tokens[i - 1].line

StartsTerm(i) ==
    \/ Text(i) \in Names \union Numbers \union Texts \union {"(", "-"}
    \/ Text(i) \in Scalars /\ Text(i + 1) = "("

AtDeclaration(i) == Text(i) \in Scalars /\ Text(i + 1) # "("

LooksLikeNewStatement(i) ==
    Text(i) \in Names /\ Text(i + 1) \in Assigners \union {"="}

\* `<a, b> :` from the `<` at i.
LooksLikeMultiAssignHeader(i) ==
    \E n \in 0..Len(tokens) :
        LET last == i + 1 + 2 * n
        IN  /\ last + 2 \in DOMAIN tokens
            /\ \A k \in 0..n : Text(i + 1 + 2 * k) \in Names
            /\ \A k \in 1..n : Text(i + 2 * k) = ","
            /\ Text(last + 1) = ">" /\ Text(last + 2) = ":"

\* How many more groups tokens i..j-1 open than they close.
Depth(openers, closers, i, j) ==
      Cardinality({k \in i..(j - 1) : Text(k) \in openers})
    - Cardinality({k \in i..(j - 1) : Text(k) \in closers})

ParenGroupHasTopLevelComma(i) ==
    LET depth(j) == Depth({"(", "["}, {")", "]"}, i, j)
    IN  \E j \in (i + 1)..Len(tokens) :
            /\ Text(j) = "," /\ depth(j) = 1
            /\ \A k \in (i + 1)..j : depth(k) # 0

\* The first token after the bracketed groups that begin at i, if any do.
AfterBrackets(i) ==
    LET ends == {j \in i..Len(tokens) : /\ Depth({"["}, {"]"}, i, j) = 0
                                         /\ Text(j) # "["}
    IN  IF ends = {} THEN Len(tokens) + 1
        ELSE CHOOSE j \in ends : \A k \in ends : j <= k

-----------------------------------------------------------------------------
(* Results.  `failed_` is set once and everything after it returns at once. *)

Yes(i, tree) == [ok |-> TRUE, at |-> i, got |-> tree]
No(i) == [ok |-> FALSE, at |-> i, got |-> <<>>]
Then(r, K(_)) == IF r.ok THEN K(r) ELSE r
Expect(i, text) == IF Text(i) = text THEN Yes(i + 1, <<>>) ELSE No(i)

\* r, then the one token `text`.
Closed(r, text) ==
    Then(r, LAMBDA s : Then(Expect(s.at, text), LAMBDA e : Yes(e.at, s.got)))

Stmt(what, i, parts) == [what |-> what, line |-> LineOf(i), parts |-> parts]
Mark(what, parts) == [what |-> what, line |-> 0, parts |-> parts]

-----------------------------------------------------------------------------
(* Expressions: one operator for the five left-associative methods. *)

Levels == << {"|"}, {"&"}, {"=", "!=", "<", ">", "<=", ">="},
             {"+", "-"}, {"*", "/", "%"} >>

RECURSIVE Level(_, _), Rest(_, _), Power(_), Primary(_), Postfix(_),
          Several(_, _, _), ArrayLiteral(_, _)

Expression(i) == Level(1, i)

Level(n, i) == IF n > Len(Levels) THEN Power(i)
               ELSE Then(Level(n + 1, i), LAMBDA left : Rest(n, left))

\* Mutant: `<` after an operand always compares.
RestHeedless(n, left) ==
    IF Text(left.at) \notin Levels[n] THEN left
    ELSE Then(Level(n + 1, left.at + 1), LAMBDA right :
              Rest(n, Yes(right.at, <<Text(left.at), left.got, right.got>>)))

Rest(n, left) ==
    LET i == left.at
    IN  IF \/ Text(i) \notin Levels[n]
           \/ n = 3 /\ Text(i) = "<" /\ LooksLikeMultiAssignHeader(i)
        THEN left
        ELSE Then(Level(n + 1, i + 1), LAMBDA right :
                  Rest(n, Yes(right.at, <<Text(i), left.got, right.got>>)))

Power(i) ==
    Then(Primary(i), LAMBDA base :
         IF Text(base.at) # "^" THEN base
         ELSE Then(Power(base.at + 1), LAMBDA exponent :
                   Yes(exponent.at, <<"^", base.got, exponent.got>>)))

\* A literal keeps its sign; anything else is taken from nought.
IsNumber(tree) == tree[1] \in Numbers \/ (tree[1] = "-" /\ Len(tree) = 2)
Negated(tree) == CASE tree[1] \in Numbers -> <<"-", tree>>
                   [] IsNumber(tree)      -> tree[2]
                   [] OTHER               -> <<"-", <<"0">>, tree>>

Primary(i) ==
    CASE Text(i) = "-" ->
            Then(Primary(i + 1), LAMBDA r : Yes(r.at, Negated(r.got)))
      [] Text(i) \in Numbers -> Yes(i + 1, <<Text(i)>>)
      [] Text(i) \in Texts -> Postfix(Yes(i + 1, <<Text(i)>>))
      [] Text(i) \in Scalars /\ Text(i + 1) = "(" ->
            Then(Closed(Expression(i + 2), ")"), LAMBDA r :
                 Postfix(Yes(r.at, <<Text(i), r.got>>)))
      [] Text(i) \in Names /\ Text(i + 1) = "(" ->
            Then(Closed(Several("argument", i + 2, <<>>), ")"), LAMBDA r :
                 Postfix(Yes(r.at, <<"()", <<Text(i)>>>> \o r.got)))
      [] Text(i) \in Names /\ Text(i + 1) # "(" ->
            Postfix(Yes(i + 1, <<Text(i)>>))
      [] Text(i) = "(" ->
            Then(Closed(Expression(i + 1), ")"), LAMBDA r : Postfix(r))
      [] OTHER -> No(i)

\* `.row`, `.col` and `.dim(n)` after a value; nothing may assign to one.
Dimension(base, i) ==
    LET dim == CASE Text(i + 1) \notin Names -> No(i + 1)
                 [] Text(i + 1) \in {"row", "col"} ->
                        Yes(i + 2, <<Text(i + 1), base>>)
                 [] Text(i + 1) = "dim" ->
                        Then(Expect(i + 2, "("), LAMBDA p :
                        Then(Closed(Expression(p.at), ")"), LAMBDA axis :
                             Yes(axis.at, <<"dim", base, axis.got>>)))
                 [] OTHER -> No(i + 2)
    IN  Then(dim, LAMBDA d : IF Text(d.at) \in Assigners THEN No(d.at) ELSE d)

Postfix(base) ==
    CASE Text(base.at) = "[" ->
            Then(Closed(Expression(base.at + 1), "]"), LAMBDA index :
                 Postfix(Yes(index.at, <<"[]", base.got, index.got>>)))
      [] Text(base.at) = "." ->
            Then(Dimension(base.got, base.at), LAMBDA d : Postfix(d))
      [] OTHER -> base

Initializer(i) == IF Text(i) = "{" THEN IF Text(i + 1) = "}"
                                        THEN Yes(i + 2, <<"{}">>)
                                        ELSE ArrayLiteral(i + 1, <<"{}">>)
                  ELSE Expression(i)

\* The slots of an array literal from i on; an empty one is a blank.
ArrayLiteral(i, slots) ==
    LET slot == IF Text(i) \in {",", "}"} THEN Yes(i, <<"blank">>)
                ELSE Initializer(i)
    IN  Then(slot, LAMBDA s :
             LET all == Append(slots, s.got)
             IN  IF Text(s.at) = "," THEN ArrayLiteral(s.at + 1, all)
                 ELSE Closed(Yes(s.at, all), "}"))

-----------------------------------------------------------------------------
(* The heads of functions, and what a file borrows. *)

RECURSIVE Ranks(_, _), Borrowed(_, _)

\* `[]` as often as it comes, around the parameter so far.
Ranks(i, tree) ==
    IF Text(i) # "[" THEN Yes(i, tree)
    ELSE Then(Expect(i + 1, "]"), LAMBDA r : Ranks(r.at, <<"[]", tree>>))

\* `&name[]...: scalar`.  An array is shared anyway: its & is dropped.
Parameter(i) ==
    LET reference == Text(i) = "&"
        name == IF reference THEN i + 1 ELSE i
    IN  IF Text(name) \notin Names THEN No(name)
        ELSE Then(Ranks(name + 1, <<Text(name)>>), LAMBDA ranks :
             Then(Expect(ranks.at, ":"), LAMBDA colon :
             IF Text(colon.at) \notin Scalars THEN No(colon.at)
             ELSE Yes(colon.at + 1,
                      <<IF reference /\ Len(ranks.got) = 1 THEN "&" ELSE ":",
                        ranks.got, <<Text(colon.at)>>>>)))

Output(i) == IF Text(i) \in Scalars THEN Yes(i + 1, <<Text(i)>>) ELSE No(i)

Closers == [argument |-> {")"}, parameter |-> {")"}, output |-> {">", ">="}]

\* The loop the three lists share: an item unless the list is over, and
\* another turn after a comma.
Several(what, i, items) ==
    IF Text(i) \in Closers[what] THEN Yes(i, items)
    ELSE Then(CASE what = "argument"  -> Expression(i)
                [] what = "parameter" -> Parameter(i)
                [] what = "output"    -> Output(i),
              LAMBDA item :
                  LET all == Append(items, item.got)
                  IN  IF Text(item.at) = "," THEN Several(what, item.at + 1, all)
                      ELSE Yes(item.at, all))

\* `<outputs> = name(parameters)`; the lexer reads `>=` as one token.
Prototype(i) ==
    Then(Expect(i, "<"), LAMBDA open :
    Then(Several("output", open.at, <<"outputs">>), LAMBDA outputs :
    Then(IF Text(outputs.at) = ">=" THEN Yes(outputs.at + 1, <<>>)
         ELSE Closed(Expect(outputs.at, ">"), "="), LAMBDA equals :
    IF Text(equals.at) \notin Names THEN No(equals.at)
    ELSE Then(Expect(equals.at + 1, "("), LAMBDA paren :
         Then(Closed(Several("parameter", paren.at, <<"inputs">>), ")"),
              LAMBDA inputs :
              Yes(inputs.at, <<outputs.got, <<Text(equals.at)>>, inputs.got>>))))))

\* `name, name`: each is noted with its own line, a missing one is reported
\* at its comma.
Borrowed(i, found) ==
    LET all == Append(found, Stmt("borrow", i, <<<<Text(i)>>>>))
    IN  CASE Text(i + 1) # ","        -> Yes(i + 1, all)
          [] Text(i + 2) \notin Names -> No(i + 1)
          [] OTHER                    -> Borrowed(i + 2, all)

Uses(i) == CASE Text(i + 1) = "<" ->
                    Then(Prototype(i + 1), LAMBDA proto :
                         Yes(proto.at, <<Stmt("uses", i, proto.got)>>))
             [] Text(i + 1) \in Names -> Borrowed(i + 1, <<>>)
             [] OTHER -> No(i)

-----------------------------------------------------------------------------
(* Statements.  `loops` is loopDepth_, how many loops are open around one. *)

RECURSIVE Statement(_, _), Statements(_, _, _), Branches(_, _), Items(_, _),
          Values(_, _), Extents(_, _), Targets(_, _), Program(_, _)

\* Statements up to the closing brace.
Statements(i, loops, done) ==
    IF Text(i) \in {"}", "end of input"} THEN Closed(Yes(i, done), "}")
    ELSE Then(Statement(i, loops), LAMBDA r :
              Statements(r.at, loops, done \o r.got))

Block(i, loops) ==
    Then(Expect(i, "{"), LAMBDA open : Statements(open.at, loops, <<>>))

\* A head, already read, and the block under it.
Under(head, r, loops) ==
    Then(Block(r.at, loops), LAMBDA body : Yes(body.at, <<head>> \o body.got))

Ended(r) == Then(r, LAMBDA s : Yes(s.at, Append(s.got, Mark("end", <<>>))))

Items(i, items) ==
    IF ~StartsTerm(i) \/ StartsLine(i) \/ LooksLikeNewStatement(i)
    THEN Yes(i, items)
    ELSE Then(IF Text(i) = "prec" /\ Text(i + 1) = "("
              THEN Then(Closed(Expression(i + 2), ")"), LAMBDA places :
                        Yes(places.at, <<"prec", places.got>>))
              ELSE Expression(i),
              LAMBDA item : Items(item.at, Append(items, item.got)))

PrintStatement(i) == IF ~StartsLine(i) THEN No(i)
            ELSE Then(Items(i + 1, <<>>), LAMBDA r :
                      Yes(r.at, <<Stmt(Text(i), i, r.got)>>))

\* Several values in one pair of parentheses.
Values(i, values) ==
    Then(Expression(i), LAMBDA v :
         LET all == Append(values, v.got)
         IN  IF Text(v.at) = "," THEN Values(v.at + 1, all)
             ELSE Closed(Yes(v.at, all), ")"))

Return(i) ==
    LET j == i + 1
        bare == ~StartsTerm(j) \/ StartsLine(j) \/ LooksLikeNewStatement(j)
        values == CASE bare -> Yes(j, <<>>)
                    [] ~bare /\ Text(j) = "(" /\ ParenGroupHasTopLevelComma(j) ->
                            Values(j + 1, <<>>)
                    [] OTHER -> Then(Expression(j), LAMBDA v :
                                     Yes(v.at, <<v.got>>))
    IN  Then(values, LAMBDA v : Yes(v.at, <<Stmt("return", i, v.got)>>))

Extents(i, tree) ==
    IF Text(i) # "[" THEN Yes(i, tree)
    ELSE Then(Closed(Expression(i + 1), "]"), LAMBDA e :
              Extents(e.at, <<"[]", tree, e.got>>))

Declaration(i) ==
    IF Text(i + 1) \notin Names THEN No(i + 1)
    ELSE Then(Extents(i + 2, <<Text(i + 1)>>), LAMBDA name :
         LET declared == <<<<Text(i)>>, name.got>>
         IN  IF Text(name.at) # ":" THEN Yes(name.at, <<Stmt("declare", i, declared)>>)
             ELSE Then(Initializer(name.at + 1), LAMBDA initial :
                       Yes(initial.at,
                           <<Stmt("declare", i, Append(declared, initial.got))>>)))

Assignment(i) ==
    Then(Extents(i + 1, <<Text(i)>>), LAMBDA target :
    Then(Initializer(target.at + 1), LAMBDA value :
         LET how == IF Text(target.at) = "=" THEN ":" ELSE Text(target.at)
         IN  Yes(value.at, <<Stmt(how, i, <<target.got, value.got>>)>>)))

CallHere(i) == IF Text(i) \in Names /\ Text(i + 1) = "(" THEN Primary(i) ELSE No(i)

\* Mutant: the names after a comma replace the ones before.
TargetsReplaced(i, names) ==
    IF Text(i + 1) = "," THEN Targets(i + 2, names)
    ELSE Yes(i + 3, Append(names, <<Text(i)>>))

\* The names of a header LooksLikeMultiAssignHeader has seen whole.
Targets(i, names) ==
    LET all == Append(names, <<Text(i)>>)
    IN  IF Text(i + 1) = "," THEN Targets(i + 2, all) ELSE Yes(i + 3, all)

MultiAssign(i) ==
    Then(Targets(i + 1, <<>>), LAMBDA names :
    Then(CallHere(names.at), LAMBDA call :
         Yes(call.at, <<Stmt("<>", i, Append(names.got, call.got))>>)))

\* A condition and the block under it.
Guarded(i, loops, head) ==
    Then(Expression(i), LAMBDA c : Under([head EXCEPT !.parts = <<c.got>>], c, loops))

\* What may follow a branch that has been closed.
Branches(r, loops) ==
    LET i == r.at
        Joined(s) == Then(s, LAMBDA t : Yes(t.at, r.got \o t.got))
    IN  CASE ~r.ok -> r
          [] r.ok /\ Text(i) = "else" /\ Text(i + 1) = "if" ->
                Branches(Joined(Guarded(i + 2, loops, Mark("else if", <<>>))), loops)
          [] r.ok /\ Text(i) = "else" /\ Text(i + 1) # "if" ->
                Joined(Under(Mark("else", <<>>), Yes(i + 1, <<>>), loops))
          [] OTHER -> r

\* Mutant: loopDepth_ is raised around the blocks of an `if` too.
IfAsLoop(i, loops) ==
    Ended(Branches(Guarded(i + 1, loops + 1, Stmt("if", i, <<>>)), loops + 1))

If(i, loops) ==
    Ended(Branches(Guarded(i + 1, loops, Stmt("if", i, <<>>)), loops))

While(i, loops) ==
    Ended(Guarded(i + 1, loops + 1, Stmt("while", i, <<>>)))

\* `for i < n` counts from 0 to n - 1; the long form says both and a step.
For(i, loops) ==
    LET name == <<Text(i + 1)>>
        range == IF Text(i + 2) = "<"
                 THEN Then(Expression(i + 3), LAMBDA n :
                           Yes(n.at, <<name, <<"0">>, <<"-", n.got, <<"1">>>>>>))
                 ELSE Then(Expect(i + 2, ":"), LAMBDA colon :
                      Then(Closed(Expression(colon.at), "to"), LAMBDA start :
                      Then(Expression(start.at), LAMBDA end :
                           Yes(end.at, <<name, start.got, end.got>>))))
        whole == Then(range, LAMBDA r :
                      IF Text(r.at) # "step" THEN r
                      ELSE Then(Expression(r.at + 1), LAMBDA step :
                                Yes(step.at, Append(r.got, step.got))))
    IN  IF Text(i + 1) \notin Names THEN No(i + 1)
        ELSE Then(whole, LAMBDA w :
                  Ended(Under(Stmt("for", i, w.got), w, loops + 1)))

Statement(i, loops) ==
    CASE Text(i) \in {"?", "??"} -> PrintStatement(i)
      [] AtDeclaration(i)       -> Declaration(i)
      [] Text(i) = "if"         -> If(i, loops)
      [] Text(i) = "while"      -> While(i, loops)
      [] Text(i) = "for"        -> For(i, loops)
      [] Text(i) \in {"break", "continue"} ->
            IF loops = 0 THEN No(i) ELSE Yes(i + 1, <<Stmt(Text(i), i, <<>>)>>)
      [] Text(i) = "return"     -> Return(i)
      [] Text(i) = "<" /\ LooksLikeMultiAssignHeader(i) -> MultiAssign(i)
      [] Text(i) \in Names /\ Text(AfterBrackets(i + 1)) \in Assigners \union {"="} ->
            Assignment(i)
      [] Text(i) \in Names /\ Text(i + 1) = "(" ->
            Then(Primary(i), LAMBDA call : Yes(call.at, <<Stmt("call", i, <<call.got>>)>>))
      [] OTHER -> No(i)

Function(i) ==
    Then(Prototype(i + 1), LAMBDA proto :
         Ended(Under(Stmt("fun", i, proto.got), proto, 0)))

\* Parser::parse from token i on.
Program(i, done) ==
    IF i > Len(tokens) THEN Yes(i, done)
    ELSE Then(CASE Text(i) = "fun"    -> Function(i)
                [] Text(i) = "uses"   -> Uses(i)
                [] AtDeclaration(i)   -> Declaration(i)
                [] OTHER              -> No(i),
              LAMBDA r : Program(r.at, done \o r.got))

Parse == Program(1, <<>>)
===============================================================================
