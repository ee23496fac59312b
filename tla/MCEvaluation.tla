---------------------------- MODULE MCEvaluation -----------------------------
(***************************************************************************)
(* Expressions of two operators over locals, a global and functions that   *)
(* may change anything, in every kind of statement; and the same with      *)
(* operands that do not belong.                                            *)
(***************************************************************************)
EXTENDS Evaluation

MCMachines ==
  {[ints |-> 8, reals |-> 8, positional |-> FALSE, shared |-> TRUE],    \* arm64
   [ints |-> 6, reals |-> 8, positional |-> FALSE, shared |-> FALSE],   \* System V
   [ints |-> 4, reals |-> 4, positional |-> TRUE, shared |-> FALSE]}    \* Windows

MCVariables ==
  [n |-> IntType, g |-> IntType, x |-> RealType, c |-> CharType, s |-> Text,
   v |-> Type("Int", 1), q |-> Type("Real", 1), t |-> Type("Int", 2), h |-> Type("Int", 2)]

Function(inputs, references, outputs) ==
  [inputs |-> inputs, byReference |-> [i \in DOMAIN inputs |-> i \in references], outputs |-> outputs]

MCPrototypes ==
  [f |-> Function(<<>>, {}, <<IntType>>),
   f2 |-> Function(<<IntType, RealType>>, {}, <<IntType>>),
   text |-> Function(<<Text, IntType>>, {}, <<CharType>>),
   swap |-> Function(<<IntType, RealType>>, {1, 2}, <<>>),
   bump |-> Function(<<IntType>>, {1}, <<IntType>>),
   two |-> Function(<<IntType>>, {1}, <<IntType, RealType>>),
   nothing |-> Function(<<>>, {}, <<>>)]

MCLibrary ==
  [max |-> [arity |-> 2, shape |-> "IntOrReal", int |-> "shm_fn_max_int", real |-> "shm_fn_max_real"],
   pow |-> [arity |-> 2, shape |-> "Real", int |-> "", real |-> "pow"],
   len |-> [arity |-> 1, shape |-> "Length", int |-> "", real |-> ""]]


num == Name("n")
x == Name("x")
c == Name("c")
sv == Name("s")
f == Asked("f", <<>>)
half == Decimal("1.5")
ab == Quoted("ab")

IntLeaves == {num, Whole("7"), f, Name("g")}
RealLeaves == {x, half, Name("pi")}
Texts1 == {sv, ab, Op("add", sv, ab)}

Ints1 == IntLeaves
  \cup {Op("add", l, r) : l \in {num, f}, r \in {Name("g"), f}}
  \cup {Op("lt", x, half), Op("lt", sv, ab), Op("and", c, c), Op("or", num, x)}
  \cup {ElementAt(Name("v"), i) : i \in {num, f}}
  \cup {ExtentOf(sv, num), Asked("len", <<sv>>),
        Converted("Int", c), Converted("Int", half), Asked("f2", <<num, num>>), Asked("f2", <<half, x>>),
        Asked("two", <<num>>), Asked("two", <<ElementAt(Name("v"), num)>>), Asked("max", <<num, f>>)}
\* Nothing happens while these are evaluated.
Steady == {num, Whole("7"), Op("add", num, Whole("7")), ElementAt(Name("v"), num), Op("lt", sv, sv),
           Asked("len", <<sv>>)}
Reals1 == RealLeaves
  \cup {Op("mul", num, x), ElementAt(Name("q"), num), Asked("pow", <<x, f>>), Asked("max", <<f, x>>)}
Chars1 == {c, ElementAt(sv, num), Converted("Char", Whole("7")), Converted("Char", x), Asked("text", <<ab, f>>)}

\* What does not belong somewhere, does not exist, or cannot be had.
Strange == {Name("z"), Name("v"), ElementAt(num, num), ElementAt(sv, x), Asked("f", <<num>>), Asked("two", <<Whole("7")>>),
            Asked("two", <<x>>), Asked("two", <<Name("pi")>>), Asked("unheard", <<f>>),
            Asked("len", <<num>>), Asked("max", <<num>>), Converted("Int", sv), Op("sub", sv, sv), Op("add", c, num),
            Op("lt", c, num), Op("eq", Name("v"), Name("v")), ExtentOf(num, num)}

Whatever == Ints1 \cup Reals1 \cup Chars1 \cup Texts1 \cup Strange

Mixed == {num, f, x, c, sv, Name("v"), Op("or", num, x), Name("z"), Asked("two", <<num>>)}

Twos == {Op(op, l, r) : op \in {"add", "lt"}, l, r \in Ints1 \cup Reals1}
  \cup {Op(op, l, r) : op \in {"add", "mod", "ge", "or"}, l, r \in Mixed}
  \cup {ElementAt(ElementAt(Name("t"), i), j) : i, j \in Ints1 \cup {half}}
  \cup {Asked(name, <<l, r>>) : name \in {"f2", "max", "text"}, l, r \in Mixed}
  \cup {Asked("f2", <<i, r>>) : i \in Ints1, r \in Reals1}
  \cup {Converted(scalar, e) : scalar \in {"Int", "Real", "Char"}, e \in Whatever}

Rows == {Row(<<l, r>>) : l, r \in {num, f, Gap, half}}
Flat == Rows \cup {Row(<<r>>) : r \in Reals1 \cup Chars1 \cup Strange}
Tables == {Row(<<Gap>>)} \cup {Row(<<l, r>>) : l \in Rows \cup {Gap}, r \in Rows \cup {Gap, num}}

Scalars == {"Int", "Real", "Char"}
Short == {num, f, Op("add", f, f), x, Op("mul", num, x), c, ElementAt(sv, num), sv, Name("v"), Op("add", c, num)}

MCStatements ==
  {Show(<<e>>, TRUE) : e \in Whatever \cup Twos}
  \cup {Show(<<Prec(i), e>>, FALSE) : i \in Whatever, e \in Short}
  \cup {Let(Name(name), e) : name \in {"n", "x", "c", "y", "pi", "len"}, e \in Whatever}
  \cup {Let(Name(name), e) : name \in {"s", "v", "t", "u", "h"}, e \in Texts1 \cup Flat \cup {Name("v"), num}}
  \cup {Let(Name(name), e) : name \in {"t", "u", "h"}, e \in Tables}
  \cup {Let(ElementAt(Name(name), i), e) : name \in {"v", "q", "s", "n"}, i \in Short, e \in Ints1 \cup Reals1 \cup {c}}
  \cup {Let(ElementAt(Name("t"), i), e) : i \in {num, f}, e \in Rows \cup {Name("v"), Name("q"), num}}
  \cup {Test(e) : e \in Whatever}
  \cup {Do(e) : e \in {t \in Twos \cup Strange : t.is = "Call"} \cup {Asked("nothing", <<>>)}
                                       \cup {Asked("swap", <<a, b>>) : a \in Mixed \cup {ElementAt(Name("v"), num)},
                                                                      b \in {x, Name("g"), Name("pi"), half}}}
  \cup {New(scalar, name, <<>>, <<e>>) : scalar \in Scalars, name \in {"g", "y"}, e \in Whatever}
  \cup {New("Int", name, <<>>, <<>>) : name \in {"g", "n", "len", "pi"}}
  \cup {New(scalar, name, <<i>>, initial) : scalar \in Scalars, name \in {"u", "h"},
          i \in Short, initial \in {<<>>, <<Name("v")>>, <<Row(<<num, half>>)>>, <<ab>>}}
  \cup {New(scalar, "h", <<i, f>>, <<>>) : scalar \in Scalars,
          i \in {Op(op, l, r) : op \in {"sub", "mul"}, l, r \in {Whole("0"), Whole("2"), Whole("3")}}
                  \cup {Converted("Int", half), Converted("Int", Decimal("0.6")), num, f}}
  \cup {New("Int", "u", <<Whole("1"), Whole("0")>>, <<>>)}
  \cup {Add(op, target, e) : op \in {"add", "sub"}, target \in {num, Name("g"), x, sv, Name("v"), Name("z")},
          e \in Whatever}
  \cup {Add(op, ElementAt(Name(name), i), e) : op \in {"add", "sub"}, name \in {"v", "q", "t"},
          i \in {num, Op("lt", sv, sv), x}, e \in Steady \cup {x}}
  \cup {Multi(<<a, b>>, Asked("two", <<e>>)) : a, b \in {"n", "x", "c", "y", "v", "e"}, e \in {num, x, ElementAt(Name("v"), num)}}
  \cup {Multi(<<a>>, e) : a \in {"n", "x", "c", "s", "y"},
          e \in {f, Asked("two", <<num>>), Asked("max", <<num, x>>), Asked("nothing", <<>>), Asked("unheard", <<>>)}}
  \cup {Answer(outputs, <<e>>) : outputs \in {<<IntType>>, <<RealType>>, <<CharType>>, <<>>}, e \in Whatever}
  \cup {Answer(<<IntType, RealType>>, <<a, b>>) : a, b \in Short} \cup {Answer(<<>>, <<>>)}
  \cup {Loop(name, <<a, b>>) : name \in {"i", "max"}, a, b \in Short}
  \cup {Loop("i", <<a, b, k>>) : a, b, k \in {num, f, x, c, sv}}

\* What a function answers that has changed what it was handed.
MCAnswers == {Show(<<Asked("bump", <<num>>)>>, TRUE), Let(Name("y"), Asked("bump", <<ElementAt(Name("v"), num)>>))}

===============================================================================
