-------------------------------- MODULE Typing ---------------------------------
(***************************************************************************)
(* What the checker makes of one statement (src/src/Check.cpp): the types  *)
(* of its expressions, the conversions it puts between them, and whether   *)
(* it found anything to refuse.  A source expression is what it is, a name *)
(* and its parts; a resolved one has its type as well.                     *)
(*                                                                         *)
(* Names are those in scope where the statement stands: Scopes has how     *)
(* they come and go.  Several diagnostics of one statement count as one.   *)
(***************************************************************************)
EXTENDS Ast, Integers, SequencesExt, TLC

CONSTANTS
  Variables,   \* the type of each name in scope
  Globals,     \* those among them declared outside functions, and their declarations' names
  Prototypes,  \* of each function: the inputs' types, and which by reference; the outputs' types
  Library      \* of each builtin borrowed: its arity, its shape, the symbols it calls

ASSUME TypingAssumption ==
  \A f \in DOMAIN Prototypes : DOMAIN Prototypes[f].inputs = DOMAIN Prototypes[f].byReference

-------------------------------------------------------------------------------
(* Types: a scalar and how many times it is an array of.  No type is what a *)
(* function without outputs gives, and what is left after a mistake.        *)

Type(scalar, rank) == [scalar |-> scalar, rank |-> rank]

IntType == Type("Int", 0)

RealType == Type("Real", 0)

CharType == Type("Char", 0)

Text == Type("Char", 1)

NoType == Type("None", 0)

IsArray(type) == type.rank > 0

ArrayOf(type) == IF type = NoType THEN NoType ELSE [type EXCEPT !.rank = @ + 1]

ElementOf(type) == IF IsArray(type) THEN [type EXCEPT !.rank = @ - 1] ELSE NoType

WellFormed(type) == type.scalar = "Char" => type.rank <= 1

Numeric(type) == type \in {IntType, RealType}

Common(a, b) ==
  IF NoType \in {a, b} THEN NoType
  ELSE IF {a, b} = {IntType, RealType} THEN RealType ELSE a

\* What the generator tells apart.
Tag(type) == IF IsArray(type) THEN "Array" ELSE type.scalar

-------------------------------------------------------------------------------
(* Expressions. *)

Good(parts) == \A i \in DOMAIN parts : parts[i].good

Node(is, name, parts, of, good) ==
  [is |-> is, name |-> name, parts |-> parts, of |-> of, type |-> Tag(of),
   elements |-> Tag(ElementOf(of)), good |-> good /\ Good(parts)]

Refuse(e) == [e EXCEPT !.good = FALSE]

\* Mutant: any scalar becomes any other.
CoerceScalars(e, to) ==
  IF NoType \in {to, e.of} \/ e.of = to THEN e
  ELSE IF ~IsArray(e.of) /\ ~IsArray(to) THEN Node("Convert", "", <<e>>, to, TRUE)
  ELSE Refuse(e)

\* Between int and real only; of what has no type nothing is said.
Coerce(e, to) ==
  IF NoType \in {to, e.of} \/ e.of = to THEN e
  ELSE IF Numeric(e.of) /\ Numeric(to) THEN Node("Convert", "", <<e>>, to, TRUE)
  ELSE Refuse(e)

CoerceAll(parts, to) == [i \in DOMAIN parts |-> Coerce(parts[i], to)]

Agrees(e, type) == e.of \in {type, NoType}

Comparisons == {"eq", "ne", "lt", "gt", "le", "ge"}

Arithmetic == {"add", "sub", "mul", "div", "mod", "pow"}

YieldsInt(op) == op \notin Arithmetic

Binary(op, l, r) ==
  LET operands == Common(l.of, r.of)
      Of(type, good) == Node("Binary", op, <<Coerce(l, operands), Coerce(r, operands)>>, type, good)
  IN  IF NoType \in {l.of, r.of} THEN Node("Binary", op, <<l, r>>, NoType, TRUE)
      ELSE IF l.of = Text /\ r.of = Text
      THEN Of(IF op = "add" THEN Text ELSE IntType, op \in Comparisons \cup {"add"})
      ELSE IF IsArray(l.of) \/ IsArray(r.of) \/ (op \in Arithmetic /\ CharType \in {l.of, r.of})
      THEN Of(IntType, FALSE)
      ELSE Of(IF YieldsInt(op) THEN IntType ELSE operands, TRUE)

Variable(name) ==
  IF name \in DOMAIN Variables THEN Node("Var", name, <<>>, Variables[name], TRUE)
  ELSE IF name \in {"pi", "e"} THEN Node("RealLit", name, <<>>, RealType, TRUE)
  ELSE Node("Var", name, <<>>, NoType, FALSE)

Index(base, index) ==
  IF base.of # NoType /\ ~IsArray(base.of) THEN Node("Index", "", <<base, index>>, NoType, FALSE)
  ELSE Node("Index", "", <<base, index>>, ElementOf(base.of), Agrees(index, IntType) \/ base.of = NoType)

Builtin(name, args) ==
  LET fn == Library[name]
      allInt == \A i \in DOMAIN args : args[i].of = IntType
      want == IF fn.shape = "IntOrReal" /\ allInt THEN IntType ELSE RealType
      arity == Len(args) = fn.arity
  IN  IF fn.shape = "Length"
      THEN Node("Length", "", args, IntType,
                arity /\ (args # <<>> => args[1].of = NoType \/ IsArray(args[1].of)))
      ELSE Node("Builtin", IF want = IntType THEN fn.int ELSE fn.real,
                CoerceAll(args, want), want, arity)

Addressable(e) == e.is \in {"Var", "Index"}

\* An argument of a parameter; one by reference is marked as such.
Argument(e, type, byReference) ==
  IF e.of = NoType THEN e
  ELSE IF IsArray(type) THEN IF e.of = type THEN e ELSE Refuse(e)
  ELSE IF byReference THEN Node("Reference", "", <<e>>, e.of, Addressable(e) /\ e.of = type)
  ELSE Coerce(e, type)

Call(name, args) ==
  LET proto == Prototypes[name]
      outputs == proto.outputs
  IN  Node("Call", name,
           [i \in DOMAIN args |-> IF i > Len(proto.inputs) THEN args[i]
                                  ELSE Argument(args[i], proto.inputs[i], proto.byReference[i])],
           IF outputs = <<>> THEN NoType ELSE outputs[1],
           Len(args) = Len(proto.inputs))

RECURSIVE Resolve(_), CoerceLiteral(_, _)

ResolveAll(parts) == [i \in DOMAIN parts |-> Resolve(parts[i])]

\* Of the first element that is not left blank.
RECURSIVE LiteralType(_)
LiteralType(t) ==
  LET filled == SelectSeq(t.parts, LAMBDA p : p.is # "Blank")
  IN  IF filled = <<>> THEN NoType
      ELSE IF filled[1].is = "ArrayLit" THEN ArrayOf(LiteralType(filled[1]))
      ELSE ArrayOf(Resolve(filled[1]).of)

\* Where no array is wanted the elements are not looked at.
CoerceLiteral(t, type) ==
  LET element == ElementOf(type)
      Slot(p) == IF p.is = "ArrayLit" THEN CoerceLiteral(p, element)
                 ELSE IF p.is = "Blank" THEN Resolve(p) ELSE Coerce(Resolve(p), element)
  IN  IF IsArray(type)
      THEN Node("ArrayLit", "", [i \in DOMAIN t.parts |-> Slot(t.parts[i])], type, TRUE)
      ELSE Node("ArrayLit", "", <<>>, type, TRUE)

Resolve(t) ==
  LET parts == ResolveAll(t.parts)
      Is(type, good) == Node(t.is, t.name, parts, type, good)
  IN  CASE t.is = "IntLit" -> Is(IntType, TRUE)
        [] t.is = "RealLit" -> Is(RealType, TRUE)
        [] t.is = "StrLit" -> Is(Text, TRUE)
        [] t.is = "Blank" -> Is(NoType, TRUE)
        [] t.is = "ArrayLit" -> CoerceLiteral(t, LiteralType(t))
        [] t.is = "Var" -> Variable(t.name)
        [] t.is = "Index" -> Index(parts[1], parts[2])
        [] t.is = "Dim" -> Is(IntType, Agrees(parts[2], IntType)
                                         /\ (parts[1].of = NoType \/ IsArray(parts[1].of)))
        [] t.is = "Cast" -> Node("Convert", "", parts, Type(t.name, 0), ~IsArray(parts[1].of))
        [] t.is = "Precision" -> Is(IntType, Agrees(parts[1], IntType))
        [] t.is = "Binary" -> Binary(t.name, parts[1], parts[2])
        [] t.is = "Call" ->
             IF t.name \in DOMAIN Prototypes THEN Call(t.name, parts)
             ELSE IF t.name \in DOMAIN Library THEN Builtin(t.name, parts)
             ELSE Is(NoType, FALSE)

-------------------------------------------------------------------------------
(* Statements: a kind, its expressions, and for some a name, types, more. *)

Checked(s, parts, good, more) ==
  more @@ [s EXCEPT !.parts = parts] @@ [good |-> good /\ Good(parts)]

Plain(s, parts, good) == Checked(s, parts, good, <<>>)

RefusedName(name) ==
  name \in DOMAIN Library \/ (name \in {"pi", "e"} /\ name \notin DOMAIN Variables)

RECURSIVE NamesIn(_)
NamesIn(parts) ==
  {parts[i].name : i \in {j \in DOMAIN parts : parts[j].is = "Var"}}
    \cup UNION {NamesIn(parts[i].parts) : i \in DOMAIN parts}

\* A global is declared after all that its declaration says of it.
OfItself(s) == s.name \in NamesIn(s.parts \o s.initial)

\* What is written, in hundredths: that is exact of a product of two numbers with
\* a decimal each.
Hundredths(written) ==
  {100 * k : k \in {n \in -9..9 : ToString(n) = written}}
    \cup {10 * k : k \in {n \in 0..99 : ToString(n \div 10) \o "." \o ToString(n % 10) = written}}

\* A size the source spells out, worked out as a real: a conversion rounds nothing.
RECURSIVE ConstantNumber(_)
ConstantNumber(t) ==
  LET l == ConstantNumber(t.parts[1])  r == ConstantNumber(t.parts[2])
  IN  IF t.is = "Convert" THEN l
      ELSE IF t.is \in {"IntLit", "RealLit"} THEN Hundredths(t.name)
      ELSE IF t.is = "Binary" /\ t.name \in {"add", "sub", "mul"}
      THEN {CASE t.name = "add" -> a + b [] t.name = "sub" -> a - b [] OTHER -> (a * b) \div 100 :
              a \in l, b \in r}
      ELSE {}

\* Mutant: a size of none is let through.
SizeNatural(t) == \A k \in ConstantNumber(t) : k >= 0

SizeOK(t) == \A k \in ConstantNumber(t) : k >= 100

\* What is written as t, and is e by itself: a literal goes by the type that is wanted.
Wanted(t, e, type) ==
  IF t.is = "ArrayLit" /\ IsArray(type) THEN CoerceLiteral(t, type)
  ELSE IF t.is = "ArrayLit" THEN Node("ArrayLit", "", <<>>, type, TRUE)
  ELSE Coerce(e, type)

CheckDeclared(s, extents, declared, type, initial) ==
  Checked(s, extents,
           /\ WellFormed(declared) /\ Good(initial)
           /\ s.name \notin DOMAIN Library
           /\ s.name \in DOMAIN Variables => s.name \in Globals /\ ~OfItself(s)
           /\ \A i \in DOMAIN extents : Agrees(extents[i], IntType) /\ SizeOK(extents[i]),
           [type |-> Tag(type), elements |-> type.scalar, initial |-> initial])

\* An array of texts there is not: it is one text.
CheckDeclareAs(s, extents, initial, declared, type) ==
  CheckDeclared(s, extents, declared, type,
                [i \in DOMAIN initial |-> Wanted(s.initial[i], initial[i], type)])

CheckDeclare(s, extents, initial, declared) ==
  CheckDeclareAs(s, extents, initial, declared, IF WellFormed(declared) THEN declared ELSE Text)

\* A row is replaced by one of its type.
AssignElement(s, target, value) ==
  IF target.of = NoType THEN Plain(s, <<target>>, TRUE)
  ELSE Plain(s, <<target, value>>, IsArray(target.of) => Agrees(value, target.of))

\* An array is replaced by one of its type; a literal is none where a scalar is meant.
AssignExisting(s, type, value) ==
  Checked(s, <<Variable(s.parts[1].name), value>>,
          IF IsArray(type) THEN Agrees(value, type)
          ELSE s.parts[2].is = "ArrayLit" => value.of # NoType,
          [creates |-> FALSE])

\* The first assignment makes the variable; of arrays, literals and texts only.
AssignNew(s, value) ==
  Checked(s, <<Node("Var", s.parts[1].name, <<>>, value.of, TRUE), value>>,
          IF s.parts[2].is = "ArrayLit" THEN value.of # NoType
          ELSE IsArray(value.of) => value.of = Text,
          [creates |-> TRUE])

\* Between arrays nothing is converted.
AssignedTo(t, e, type) ==
  IF ~IsArray(type) THEN Coerce(e, type)
  ELSE IF t.is = "ArrayLit" THEN CoerceLiteral(t, type) ELSE e

CheckAssign(s, target, e) ==
  LET name == s.parts[1].name
  IN  IF s.parts[1].is = "Index" THEN AssignElement(s, target, AssignedTo(s.parts[2], e, target.of))
      ELSE IF RefusedName(name) THEN Plain(s, <<e>>, FALSE)
      ELSE IF name \notin DOMAIN Variables THEN AssignNew(s, e)
      ELSE AssignExisting(s, Variables[name], AssignedTo(s.parts[2], e, Variables[name]))

CheckCompound(s, target, value) ==
  IF NoType \in {target.of, value.of} THEN Plain(s, <<target, value>>, TRUE)
  ELSE Plain(s, <<target, Coerce(value, target.of)>>,
             IF target.of = Text THEN s.name = "add" ELSE ~IsArray(target.of))

FirstAt(names, i) == CHOOSE j \in 1..i : names[j] = names[i] /\ \A k \in 1..(j - 1) : names[k] # names[j]

\* Between scalars anything converts here, chars as well.
CheckMultiTo(s, call, outputs, types) ==
  Checked(s, <<call>>,
           call.of # NoType \/ outputs = <<>> =>
             /\ Len(outputs) = Len(s.names)
             /\ \A i \in DOMAIN types : ~IsArray(types[i]) /\ ~RefusedName(s.names[i]),
           [outputs |-> [i \in DOMAIN outputs |-> Tag(outputs[i])],
            types |-> [i \in DOMAIN types |-> Tag(types[i])]])

\* A new name has the type of the first output it is given.
CheckMultiOf(s, call, outputs) ==
  CheckMultiTo(s, call, outputs,
    [i \in 1..(IF Len(outputs) = Len(s.names) THEN Len(outputs) ELSE 0) |->
       IF s.names[i] \in DOMAIN Variables THEN Variables[s.names[i]] ELSE outputs[FirstAt(s.names, i)]])

CheckMulti(s, call) ==
  CheckMultiOf(s, call, IF call.is = "Call" /\ call.name \in DOMAIN Prototypes
                        THEN Prototypes[call.name].outputs ELSE <<call.of>>)

CheckReturn(s, parts) ==
  Plain(s, [i \in DOMAIN parts |-> IF i > Len(s.outputs) THEN parts[i]
                                   ELSE Coerce(parts[i], s.outputs[i])],
        Len(parts) = Len(s.outputs))

\* A counter is of the type start, end and step have in common.
CheckForOver(s, parts, common) ==
  Plain(s, CoerceAll(parts, IF common = NoType \/ IsArray(common) THEN IntType ELSE common),
        ~IsArray(common) /\ ~RefusedName(s.name))

CheckFor(s, parts) ==
  CheckForOver(s, parts, FoldLeft(LAMBDA type, e : Common(type, e.of), parts[1].of, Tail(parts)))

CheckParts(s, parts) ==
  CASE s.is = "Declare" ->
         CheckDeclare(s, parts, ResolveAll(s.initial), Type(s.scalar, Len(parts)))
    [] s.is = "Assign" -> CheckAssign(s, parts[1], parts[2])
    [] s.is = "CompoundAssign" -> CheckCompound(s, parts[1], parts[2])
    [] s.is = "MultiAssign" -> CheckMulti(s, parts[1])
    [] s.is = "Return" -> CheckReturn(s, parts)
    [] s.is = "For" -> CheckFor(s, parts)
    [] s.is = "Condition" -> Plain(s, parts, ~IsArray(parts[1].of))
    [] OTHER -> Plain(s, parts, TRUE)

Check(s) == CheckParts(s, ResolveAll(s.parts))
===============================================================================
