------------------------------ MODULE Evaluation ------------------------------
(***************************************************************************)
(* One statement of a function as CodeGen lowers it (src/src/CodeGen.cpp)  *)
(* and as a processor then executes it: expressions leave their value in   *)
(* an accumulator, what must wait does so in a slot of the frame that      *)
(* reserve() hands out, and the runtime is called with registers loaded    *)
(* from both.  A value is a term: the operation that made it, its operands *)
(* and how much had happened by then; so two terms are equal only if the   *)
(* same was done to the same things at the same time.                      *)
(*                                                                         *)
(* One step has the statement checked (Typing) and its code generated, the *)
(* others execute it.  Arguments here fit the registers: Calling has the   *)
(* others.  The branches and loops around a statement are in Scopes,       *)
(* IntLoop and RealLoop.                                                   *)
(***************************************************************************)
EXTENDS Places, Typing

CONSTANTS
  Machines,    \* the targets
  Statements   \* the statements, as the parser leaves them

ASSUME EvaluationAssumption == \A m \in Machines : IsMachine(m)

VARIABLES
  machine, statement,
  accepted,  \* the checker found nothing to refuse
  code,      \* what is emitted for the statement
  depth,     \* depth_ after it
  deepest,   \* deepest_: what endFunction() adds to the frame
  hidden,    \* the hidden slots the statement has
  pc, reg,
  slots,     \* the frame from evaluationBase_ up, and the hidden slots below
  log        \* what has happened that anybody could notice, in order

vars == <<machine, statement, accepted, code, depth, deepest, hidden, pc, reg, slots, log>>

-------------------------------------------------------------------------------
(* The emitter's operations, as data. *)

KindOf(type) == CASE type = "Array" -> "Wide" [] type = "Real" -> "Real" [] OTHER -> "Int"

Constant(kind, c) == [op |-> "constant", kind |-> kind, name |-> c]

Store(kind, s) == [op |-> "store", kind |-> kind, slot |-> s]

Load(kind, s) == [op |-> "load", kind |-> kind, slot |-> s]

SetArg(kind, i) == [op |-> "setArg", kind |-> kind, arg |-> i]

LoadArg(kind, s, i) == [op |-> "loadArg", kind |-> kind, slot |-> s, arg |-> i]

AddressOf(s) == [op |-> "address", slot |-> s]

Widen == [op |-> "widen"]

ReadSymbol(name, type) == [op |-> "read", kind |-> KindOf(type), name |-> name]

WriteSymbol(name, type) == [op |-> "write", kind |-> KindOf(type), name |-> name]

JumpIfZero == [op |-> "jumpIfZero"]

\* extents: how many slots an array to be made finds behind its last argument;
\* points: what the parameters that are pointers into the frame point at.
Calls(name, takes, gives, extents, points) ==
  [op |-> "call", name |-> name, takes |-> takes, gives |-> gives, extents |-> extents,
   points |-> points]

RuntimeCall(name, takes, gives) == Calls(name, takes, gives, 0, <<>>)

Getter(type) == CASE type = "Array" -> "shm_get_ref" [] type = "Real" -> "shm_get_real"
                  [] type = "Char" -> "shm_get_char" [] OTHER -> "shm_get_int"

Setter(type) == CASE type = "Array" -> "shm_set_ref" [] type = "Real" -> "shm_set_real"
                  [] type = "Char" -> "shm_set_char" [] OTHER -> "shm_set_int"

Printer(type) == CASE type = "Array" -> "shm_print_array" [] type = "Real" -> "shm_print_real"
                   [] type = "Char" -> "shm_print_char" [] OTHER -> "shm_print_int"

\* A char's operations are an int's: nothing between them narrows.
RuntimeFor(op, type) == (IF type = "Real" THEN "shm_real_" ELSE "shm_int_") \o op

\* What has to be called to convert; nothing for a char that becomes an int.
Conversion(from, to) ==
  CASE to = "Real" -> "shm_int_to_real"
    [] to = "Int" /\ from = "Real" -> "shm_real_to_int"
    [] to = "Char" -> IF from = "Real" THEN "shm_real_to_char" ELSE "shm_int_to_char"
    [] OTHER -> "none"

\* What everything else that happens is known by.
Effects ==
  {Setter(t) : t \in {"Array", "Real", "Char", "Int"}}
    \cup {Printer(t) : t \in {"Array", "Real", "Char", "Int"}}
    \cup {"shm_line", "shm_line_end", "shm_print_places", "shm_globals_ready",
          "shm_globals_made", "shm_array_make", "shm_array_fill", "shm_loop_int_check",
          "shm_loop_real_check"}
    \cup DOMAIN Prototypes

-------------------------------------------------------------------------------
(* The code generator: g is what it has emitted, depth_, deepest_ and how   *)
(* many hidden slots the checker had given by then.                         *)

Emit(g, instructions) == [g EXCEPT !.code = @ \o instructions]

\* Mutant: the deepest slot is noted before it is taken.
ReserveShort(g) ==
  [g EXCEPT !.depth = @ + 1, !.deepest = IF g.depth > @ THEN g.depth ELSE @]

\* The slot reserved is the depth there was.
Reserve(g) ==
  [g EXCEPT !.depth = @ + 1, !.deepest = IF g.depth + 1 > @ THEN g.depth + 1 ELSE @]

Release(g) == [g EXCEPT !.depth = @ - 1]

ConstantArg(c, i) == <<Constant("Int", c), SetArg("Int", i)>>

\* setLine() before every statement.
LineOf(s) ==
  ConstantArg("line", 1) \o ConstantArg("unit", 0)
    \o <<RuntimeCall("shm_line", <<"Int", "Int">>, "none")>>

\* shm_array_make(element, rank, the extents in the slots from base up).
MakeArray(element, rank, base) ==
  <<AddressOf(base), SetArg("Wide", 2)>> \o ConstantArg(ToString(rank), 1)
    \o ConstantArg(element, 0)
    \o <<Calls("shm_array_make", <<"Int", "Int", "Wide">>, "Wide", rank, <<>>)>>

SetElement(type, index, container) ==
  <<SetArg(KindOf(type), 2)>> \o index
    \o <<LoadArg("Wide", container, 0),
         RuntimeCall(Setter(type), <<"Wide", "Int", KindOf(type)>>, "none")>>

FillFrom(name, s) ==
  <<LoadArg("Wide", s, 1), ReadSymbol(name, "Array"), SetArg("Wide", 0),
    RuntimeCall("shm_array_fill", <<"Wide", "Wide">>, "none")>>

ConvertAccumulator(from, to) ==
  IF from = to THEN <<>>
  ELSE <<SetArg(KindOf(from), 0)>>
         \o IF Conversion(from, to) = "none" THEN <<>>
            ELSE <<RuntimeCall(Conversion(from, to), <<KindOf(from)>>, KindOf(to))>>

\* A read of a global an initializer could reach asks first whether it is made.
ReadVariable(t) ==
  (IF t.name \in Globals
   THEN <<Constant("Wide", t.name), SetArg("Wide", 1)>> \o ConstantArg("slot of " \o t.name, 0)
          \o <<RuntimeCall("shm_globals_ready", <<"Int", "Wide">>, "none")>>
   ELSE <<>>)
    \o <<ReadSymbol(t.name, t.type)>>

MarkMade(name) ==
  IF name \in Globals
  THEN ConstantArg("slot after " \o name, 0) \o <<RuntimeCall("shm_globals_made", <<"Int">>, "none")>>
  ELSE <<>>

TextLiteral(t) ==
  ConstantArg("size", 1) \o <<Constant("Wide", t.name), SetArg("Wide", 0)>>
    \o <<RuntimeCall("shm_array_from_text", <<"Wide", "Int">>, "Wide")>>

\* Mutant: the number stays in the accumulator while the zero is loaded.
CompareDirect(op, s) ==
  <<RuntimeCall("shm_text_compare", <<"Wide", "Wide">>, "Int")>>
    \o ConstantArg("0", 1)
    \o <<SetArg("Int", 0), RuntimeCall(RuntimeFor(op, "Int"), <<"Int", "Int">>, "Int")>>

\* Compared by a number whose sign is then compared with zero: it goes through
\* the slot, for where the accumulator is an argument register the zero would
\* take its place.
Compare(op, s) ==
  <<RuntimeCall("shm_text_compare", <<"Wide", "Wide">>, "Int"), Store("Int", s)>>
    \o ConstantArg("0", 1)
    \o <<LoadArg("Int", s, 0), RuntimeCall(RuntimeFor(op, "Int"), <<"Int", "Int">>, "Int")>>

Operate(op, type, s) ==
  IF type # "Array"
  THEN <<RuntimeCall(RuntimeFor(op, type), <<KindOf(type), KindOf(type)>>,
                     IF YieldsInt(op) THEN "Int" ELSE KindOf(type))>>
  ELSE IF op = "add" THEN <<RuntimeCall("shm_text_concat", <<"Wide", "Wide">>, "Wide")>>
  ELSE Compare(op, s)

\* The first of those a statement may have; they come before the evaluation's.
HiddenSlots == 24

HiddenSlot(i) == i - HiddenSlots

Hide(g, count) == [g EXCEPT !.hidden = @ + count]

KindsOf(parts) == [i \in DOMAIN parts |-> KindOf(parts[i].type)]

FilesOf(kinds) == [i \in DOMAIN kinds |-> IF kinds[i] = "Real" THEN "real" ELSE "int"]

\* From the slots from first up into the registers, the last first.
LoadArguments(kinds, first, numbers) ==
  Reverse([i \in DOMAIN kinds |-> LoadArg(kinds[i], first + i - 1, numbers[i])])

\* visit() of every kind of node; statements come here too.
RECURSIVE Evaluate(_, _)

\* Index and Dim: the base waits while the index is evaluated.
Subscript(g, t, name) ==
  LET held == Emit(Evaluate(Reserve(g), t.parts[1]), <<Store("Wide", g.depth)>>)
  IN  Emit(Release(Evaluate(held, t.parts[2])),
           <<SetArg("Int", 1), LoadArg("Wide", g.depth, 0),
             RuntimeCall(name, <<"Wide", "Int">>, KindOf(t.type))>>)

Operation(g, t) ==
  LET type == t.parts[1].type
      left == Emit(Evaluate(Reserve(g), t.parts[1]), <<Store(KindOf(type), g.depth)>>)
  IN  Emit(Release(Evaluate(left, t.parts[2])),
           <<SetArg(KindOf(type), 1), LoadArg(KindOf(type), g.depth, 0)>>
             \o Operate(t.name, type, g.depth))

\* Each argument in a slot of its own until all are evaluated.
HoldArguments(g, parts) ==
  FoldLeft(LAMBDA h, p : Emit(Evaluate(Reserve(h), p), <<Store(KindOf(p.type), h.depth)>>),
           g, parts)

ReleaseAll(g, parts) == [g EXCEPT !.depth = @ - Len(parts)]

InvokeBuiltin(g, t) ==
  Emit(ReleaseAll(HoldArguments(g, t.parts), t.parts),
       LoadArguments(KindsOf(t.parts), g.depth, [i \in DOMAIN t.parts |-> i - 1])
         \o <<RuntimeCall(t.name, KindsOf(t.parts), KindOf(t.type))>>)

\* Two outputs or more are returned through pointers to hidden slots.
ByPointer(t) == LET outputs == Prototypes[t.name].outputs
                IN  IF Len(outputs) > 1 THEN outputs ELSE <<>>

References(parts) == SelectSeq([i \in DOMAIN parts |-> i], LAMBDA i : parts[i].is = "Reference")

\* The hidden slots of a call begin with those of its outputs.
ReferenceSlot(first, t, i) ==
  first + Len(ByPointer(t))
    + Cardinality({j \in DOMAIN t.parts : j < i /\ t.parts[j].is = "Reference"})

\* Each argument's slot is reserved; one by reference waits in its hidden slot.
HoldPassed(g, t, first) ==
  FoldLeft(LAMBDA h, i :
             LET p == t.parts[i]
             IN  IF p.is = "Reference"
                 THEN Emit(Evaluate(Reserve(h), p.parts[1]),
                           <<Store(KindOf(p.type), ReferenceSlot(first, t, i))>>)
                 ELSE Emit(Evaluate(Reserve(h), p), <<Store(KindOf(p.type), h.depth)>>),
           g, [i \in DOMAIN t.parts |-> i])

PassAddress(s, i) == <<AddressOf(s), SetArg("Wide", i)>>

\* The last place first.
PassAll(t, kinds, first, depth0) ==
  LET Number(i) == PlaceIndex(machine, FilesOf(kinds), i)
      Pass(i) ==
        IF i > Len(t.parts) THEN PassAddress(first + i - Len(t.parts) - 1, Number(i))
        ELSE IF t.parts[i].is = "Reference" THEN PassAddress(ReferenceSlot(first, t, i), Number(i))
        ELSE <<LoadArg(kinds[i], depth0 + i - 1, Number(i))>>
  IN  FlattenSeq(Reverse([i \in DOMAIN kinds |-> Pass(i)]))

\* What was passed by reference is written back; an element is found anew.
BringBack(g, p, from) ==
  LET kind == KindOf(p.type)
      e == p.parts[1]
      base == Emit(Evaluate(Reserve(Reserve(g)), e.parts[1]), <<Store("Wide", g.depth)>>)
      index == Emit(Evaluate(base, e.parts[2]), <<Store("Int", g.depth + 1)>>)
  IN  IF e.is = "Var" THEN Emit(g, <<Load(kind, from), WriteSymbol(e.name, p.type)>>)
      ELSE Release(Release(Emit(index,
             <<LoadArg(kind, from, 2), LoadArg("Int", g.depth + 1, 1), LoadArg("Wide", g.depth, 0),
               RuntimeCall(Setter(p.type), <<"Wide", "Int", kind>>, "none")>>)))

InvokeFunction(g, t) ==
  LET first == HiddenSlot(g.hidden)
      outputs == ByPointer(t)
      references == References(t.parts)
      kinds == [i \in DOMAIN t.parts |-> IF t.parts[i].is = "Reference" THEN "Wide"
                                         ELSE KindOf(t.parts[i].type)]
                 \o [i \in DOMAIN outputs |-> "Wide"]
      points == [i \in {j \in DOMAIN kinds : j > Len(t.parts) \/ t.parts[j].is = "Reference"} |->
                   KindOf(IF i > Len(t.parts) THEN Tag(outputs[i - Len(t.parts)]) ELSE t.parts[i].type)]
      held == HoldPassed(Hide(g, Len(outputs) + Len(references)), t, first)
      gives == IF outputs # <<>> \/ t.of = NoType THEN "none" ELSE KindOf(t.type)
      called == Emit(ReleaseAll(held, t.parts),
                     PassAll(t, kinds, first, g.depth) \o <<Calls(t.name, kinds, gives, 0, points)>>)
  IN  FoldLeft(LAMBDA h, i : BringBack(h, t.parts[i], ReferenceSlot(first, t, i)), called, references)

\* As a value, a call is the first of its outputs.
CallValue(g, t) ==
  Emit(InvokeFunction(g, t),
       IF ByPointer(t) = <<>> THEN <<>> ELSE <<Load(KindOf(t.type), HiddenSlot(g.hidden))>>)

LengthOf(g, t) ==
  Emit(Release(Emit(Evaluate(Reserve(g), t.parts[1]), <<Store("Wide", g.depth)>>)),
       ConstantArg("0", 1)
         \o <<LoadArg("Wide", g.depth, 0),
              RuntimeCall("shm_array_dim", <<"Wide", "Int">>, "Int")>>)

ElementKind(t) == IF t.elements = "Array" THEN "ref" ELSE t.elements

\* Elements left blank are skipped; a literal within is built by the same rule.
BuildLiteral(g, t) ==
  LET count == Len(t.parts)
      made == Emit(Release(Emit(Reserve(Reserve(g)),
                                <<Constant("Int", ToString(count)), Widen,
                                  Store("Wide", g.depth + 1)>>
                                  \o MakeArray(ElementKind(t), 1, g.depth + 1))),
                   <<Store("Wide", g.depth)>>)
      Put(h, i) ==
        IF t.parts[i].is = "Blank" THEN h
        ELSE Emit(Evaluate(h, t.parts[i]),
                  SetElement(t.elements, ConstantArg(ToString(i - 1), 1), g.depth))
  IN  Emit(Release(FoldLeft(Put, made, [i \in 1..count |-> i])), <<Load("Wide", g.depth)>>)

-------------------------------------------------------------------------------
(* Statements, as the checker leaves them. *)

AssignToElement(g, target, value) ==
  LET base == Emit(Evaluate(Reserve(Reserve(g)), target.parts[1]), <<Store("Wide", g.depth)>>)
      index == Emit(Evaluate(base, target.parts[2]), <<Store("Int", g.depth + 1)>>)
  IN  Release(Release(Emit(Evaluate(index, value),
        SetElement(target.type, <<LoadArg("Int", g.depth + 1, 1)>>, g.depth))))

\* A new name takes a literal or a joined text as it is, and copies the rest
\* into an array as long.
AssignArray(g, target, e, creates) ==
  LET held == Emit(Evaluate(Reserve(g), e), <<Store("Wide", g.depth)>>)
      copied == Emit(Reserve(held),
        ConstantArg("0", 1)
          \o <<LoadArg("Wide", g.depth, 0),
               RuntimeCall("shm_array_dim", <<"Wide", "Int">>, "Int"),
               Widen, Store("Wide", g.depth + 1)>>
          \o MakeArray(target.of.scalar, 1, g.depth + 1))
  IN  IF ~creates THEN Release(Emit(held, FillFrom(target.name, g.depth)))
      ELSE IF e.is \in {"ArrayLit", "StrLit", "Binary"}
      THEN Release(Emit(held, <<Load("Wide", g.depth), WriteSymbol(target.name, "Array")>>))
      ELSE Release(Emit(Release(copied),
                        <<WriteSymbol(target.name, "Array")>> \o FillFrom(target.name, g.depth)))

Assign(g, s) ==
  LET target == s.parts[1]  e == s.parts[2]
  IN  IF target.is = "Index" THEN AssignToElement(g, target, e)
      ELSE IF target.type = "Array" THEN AssignArray(g, target, e, s.creates)
      ELSE Emit(Evaluate(g, e), <<WriteSymbol(target.name, target.type)>>)

\* +: and -:  what is added to is evaluated as any expression; an element's
\* base and index are evaluated again to store the result.
CompoundAssign(g, s) ==
  LET target == s.parts[1]  type == target.type  kind == KindOf(type)
      left == Emit(Evaluate(Reserve(g), target), <<Store(kind, g.depth)>>)
      done == Emit(Release(Evaluate(left, s.parts[2])),
                   <<SetArg(kind, 1), LoadArg(kind, g.depth, 0)>>
                     \o Operate(s.name, type, g.depth))
      \* Three slots: the result, the array, the index.
      base == Emit(Evaluate(Reserve(Reserve(Emit(Reserve(done), <<Store(kind, g.depth)>>))),
                            target.parts[1]),
                   <<Store("Wide", g.depth + 1)>>)
      index == Emit(Evaluate(base, target.parts[2]), <<Store("Int", g.depth + 2)>>)
  IN  IF target.is = "Index"
      THEN Release(Release(Release(Emit(index,
             <<Load(kind, g.depth)>>
               \o SetElement(type, <<LoadArg("Int", g.depth + 2, 1)>>, g.depth + 1)))))
      ELSE IF type = "Array"
      THEN Release(Emit(Reserve(done), <<Store("Wide", g.depth)>> \o FillFrom(target.name, g.depth)))
      ELSE Emit(done, <<WriteSymbol(target.name, type)>>)

\* The extents are kept in hidden slots.
DeclareArray(g, s) ==
  LET rank == Len(s.parts)
      first == HiddenSlot(g.hidden)
      Extent(h, i) == Emit(Evaluate(h, s.parts[i]), <<Widen, Store("Wide", first + i - 1)>>)
      made == Emit(FoldLeft(Extent, Hide(g, rank), [i \in 1..rank |-> i]),
                   MakeArray(s.elements, rank, first)
                     \o <<WriteSymbol(s.name, "Array")>> \o MarkMade(s.name))
  IN  IF s.initial = <<>> THEN made
      ELSE Emit(Release(Emit(Evaluate(Reserve(made), s.initial[1]), <<Store("Wide", g.depth)>>)),
                FillFrom(s.name, g.depth))

Declare(g, s) ==
  IF s.type = "Array" THEN DeclareArray(g, s)
  ELSE Emit(IF s.initial # <<>> THEN Evaluate(g, s.initial[1])
            ELSE Emit(g, <<Constant(KindOf(s.type), "0")>>),
            <<WriteSymbol(s.name, s.type)>> \o MarkMade(s.name))

\* A function's answer is in the accumulator, or each output in its hidden slot.
MultiAssign(g, s) ==
  LET call == s.parts[1]
      first == HiddenSlot(g.hidden)
      Take(i) == <<Load(KindOf(s.outputs[i]), first + i - 1)>>
                   \o ConvertAccumulator(s.outputs[i], s.types[i])
                   \o <<WriteSymbol(s.names[i], s.types[i])>>
      one == ConvertAccumulator(s.outputs[1], s.types[1]) \o <<WriteSymbol(s.names[1], s.types[1])>>
  IN  IF call.is # "Call" THEN Emit(Evaluate(g, call), one)
      ELSE Emit(InvokeFunction(g, call),
                IF ByPointer(call) = <<>> THEN one
                ELSE FlattenSeq([i \in DOMAIN s.names |-> Take(i)]))

PrintItem(g, item) ==
  IF item.is = "Precision" THEN Evaluate(g, item)
  ELSE Emit(Evaluate(g, item),
            <<SetArg(KindOf(item.type), 0),
              RuntimeCall(Printer(item.type), <<KindOf(item.type)>>, "none")>>)

PrintItems(g, s) ==
  Emit(FoldLeft(PrintItem, g, s.parts),
       IF s.newline THEN <<RuntimeCall("shm_line_end", <<>>, "none")>> ELSE <<>>)

\* evaluateCondition() and the jump on it.
Condition(g, e) ==
  Emit(Evaluate(g, e),
       (IF e.type = "Real"
        THEN <<SetArg("Real", 0), RuntimeCall("shm_real_truth", <<"Real">>, "Int")>>
        ELSE <<>>)
         \o <<JumpIfZero>>)

\* return, and the end of the function: shm_leave() comes between.
Return(g, s) ==
  LET result == HiddenSlot(g.hidden)
      leave == ConstantArg("id", 0) \o <<RuntimeCall("shm_leave", <<"Int">>, "none")>>
      Through(h, i) == Emit(Evaluate(h, s.parts[i]), <<WriteSymbol("output " \o ToString(i), s.parts[i].type)>>)
      kind == KindOf(s.parts[1].type)
  IN  IF Len(s.parts) # 1 THEN Emit(FoldLeft(Through, g, [i \in DOMAIN s.parts |-> i]), leave)
      ELSE Emit(Evaluate(Hide(g, 1), s.parts[1]),
                <<Store(kind, result)>> \o leave
                  \o <<Load(kind, result), WriteSymbol("output 1", s.parts[1].type)>>)

\* A for up to its first pass, over ints: end, step and start wait in hidden slots.
IntLoopStarts(g, s) ==
  LET end == HiddenSlot(g.hidden)  step == end + 1  pass == end + 2
      ended == Emit(Evaluate(Hide(g, 4), s.parts[2]), <<Store("Int", end)>>)
      stepped == IF Len(s.parts) = 3 THEN Evaluate(ended, s.parts[3])
                 ELSE Emit(ended, <<Constant("Int", "1")>>)
      checked == Emit(stepped, <<Store("Int", step), SetArg("Int", 0),
                                 RuntimeCall("shm_loop_int_check", <<"Int">>, "none")>>)
  IN  Emit(Evaluate(checked, s.parts[1]),
           <<Widen, Store("Wide", pass), LoadArg("Int", step, 2), LoadArg("Int", end, 1),
             LoadArg("Wide", pass, 0),
             RuntimeCall("shm_loop_int_run", <<"Wide", "Int", "Int">>, "Int"), JumpIfZero>>)

\* Over reals: start, end, step, and the number of the pass.
RealLoopStarts(g, s) ==
  LET end == HiddenSlot(g.hidden)  step == end + 1  pass == end + 2  start == end + 3
      started == Emit(Evaluate(Hide(g, 4), s.parts[1]), <<Store("Real", start)>>)
      ended == Emit(Evaluate(started, s.parts[2]), <<Store("Real", end)>>)
      stepped == IF Len(s.parts) = 3 THEN Evaluate(ended, s.parts[3])
                 ELSE Emit(ended, <<Constant("Real", "1")>>)
      three == <<"Real", "Real", "Real">>
      Arguments(a, b, c) == <<LoadArg("Real", c, 2), LoadArg("Real", b, 1), LoadArg("Real", a, 0)>>
  IN  Emit(stepped,
           <<Store("Real", step)>> \o Arguments(start, end, step)
             \o <<RuntimeCall("shm_loop_real_check", three, "none"),
                  Constant("Real", "0"), Store("Real", pass)>>
             \o Arguments(start, step, pass)
             \o <<RuntimeCall("shm_loop_real_value", three, "Real"), WriteSymbol(s.name, "Real")>>)

Execute(g, s) ==
  CASE s.is = "Assign" -> Assign(g, s)
    [] s.is = "Declare" -> Declare(g, s)
    [] s.is = "CompoundAssign" -> CompoundAssign(g, s)
    [] s.is = "MultiAssign" -> MultiAssign(g, s)
    [] s.is = "CallStmt" -> IF s.parts[1].is = "Call" THEN InvokeFunction(g, s.parts[1])
                            ELSE Evaluate(g, s.parts[1])
    [] s.is = "Print" -> PrintItems(g, s)
    [] s.is = "Condition" -> Condition(g, s.parts[1])
    [] s.is = "Return" -> Return(g, s)
    [] s.is = "For" -> IF s.parts[1].type = "Real" THEN RealLoopStarts(g, s) ELSE IntLoopStarts(g, s)

Evaluate(g, t) ==
  CASE t.is = "IntLit" -> Emit(g, <<Constant("Int", t.name)>>)
    [] t.is = "RealLit" -> Emit(g, <<Constant("Real", t.name)>>)
    [] t.is = "Var" -> Emit(g, ReadVariable(t))
    [] t.is = "StrLit" -> Emit(g, TextLiteral(t))
    [] t.is = "ArrayLit" -> BuildLiteral(g, t)
    [] t.is = "Index" -> Subscript(g, t, Getter(t.type))
    [] t.is = "Dim" -> Subscript(g, t, "shm_array_dim")
    [] t.is = "Length" -> LengthOf(g, t)
    [] t.is = "Precision" ->
         Emit(Evaluate(g, t.parts[1]),
              <<SetArg("Int", 0), RuntimeCall("shm_print_places", <<"Int">>, "none")>>)
    [] t.is = "Convert" ->
         Emit(Evaluate(g, t.parts[1]), ConvertAccumulator(t.parts[1].type, t.type))
    [] t.is = "Binary" -> Operation(g, t)
    [] t.is = "Builtin" -> InvokeBuiltin(g, t)
    [] t.is = "Call" -> CallValue(g, t)
    [] OTHER -> Execute(g, t)

Generate(s) == Evaluate([code |-> LineOf(s), depth |-> 0, deepest |-> 0, hidden |-> 0], s)

-------------------------------------------------------------------------------
(* The processor. *)

Term(name, args, time) == <<name, args, time>>

JunkTerm == Term("junk", <<>>, 0)

Literal(c) == Term(c, <<>>, 0)

SlotTerm(s) == Term("slot", <<>>, s)

KindFile(kind) == IF kind = "Real" THEN "real" ELSE "int"

AccumulatorFor(kind) == IF kind = "Real" THEN <<"real", 0>>
                     ELSE IF machine.shared THEN <<"int", 0>> ELSE <<"accumulator", 0>>

ArgRegister(kind, i) == <<KindFile(kind), i>>

RegisterNames == {<<"accumulator", 0>>} \cup (Files \X (0..7))

EmptyRegisters == [r \in RegisterNames |-> <<"none", JunkTerm>>]

\* Of 64 bits the lower half is an int; of an int there is no upper half.
As(kind, held) ==
  IF held[1] = kind \/ (kind = "Int" /\ held[1] = "Wide") THEN held[2] ELSE JunkTerm

InSlot(s) == IF s \in DOMAIN slots THEN slots[s] ELSE <<"none", JunkTerm>>

Init ==
  /\ machine \in Machines
  /\ statement \in Statements
  /\ accepted = FALSE
  /\ code = <<>> /\ depth = 0 /\ deepest = 0 /\ hidden = 0
  /\ pc = 0
  /\ reg = EmptyRegisters
  /\ slots = <<>>
  /\ log = <<>>

Emitted(g) ==
  code' = g.code /\ depth' = g.depth /\ deepest' = g.deepest /\ hidden' = g.hidden

Lowered(typed) ==
  /\ accepted' = typed.good
  /\ IF typed.good THEN Emitted(Generate(typed)) ELSE UNCHANGED <<code, depth, deepest, hidden>>

Compile ==
  /\ pc = 0
  /\ Lowered(Check(statement))
  /\ pc' = 1
  /\ UNCHANGED <<machine, statement, reg, slots, log>>

At(op) == pc \in DOMAIN code /\ code[pc].op = op

Now == code[pc]

Advance ==
  /\ pc' = pc + 1
  /\ UNCHANGED <<machine, statement, accepted, code, depth, deepest, hidden>>

IntoAccumulator(kind, term) == [reg EXCEPT ![AccumulatorFor(kind)] = <<kind, term>>]

\* Where the accumulator is no argument register, a real constant passes through it.
LoadConstant ==
  /\ At("constant")
  /\ reg' = IF Now.kind = "Real" /\ ~machine.shared
            THEN [IntoAccumulator("Real", Literal(Now.name)) EXCEPT
                    ![AccumulatorFor("Int")] = <<"none", JunkTerm>>]
            ELSE IntoAccumulator(Now.kind, Literal(Now.name))
  /\ Advance /\ UNCHANGED <<slots, log>>

\* What a slot gets is what the accumulator holds of that kind.
StoreSlot ==
  /\ At("store")
  /\ slots' = (Now.slot :> <<Now.kind, As(Now.kind, reg[AccumulatorFor(Now.kind)])>>) @@ slots
  /\ Advance /\ UNCHANGED <<reg, log>>

LoadSlot ==
  /\ At("load")
  /\ reg' = IntoAccumulator(Now.kind, As(Now.kind, InSlot(Now.slot)))
  /\ Advance /\ UNCHANGED <<slots, log>>

MoveToArgument ==
  /\ At("setArg")
  /\ reg' = [reg EXCEPT ![ArgRegister(Now.kind, Now.arg)] =
                          <<Now.kind, As(Now.kind, reg[AccumulatorFor(Now.kind)])>>]
  /\ Advance /\ UNCHANGED <<slots, log>>

LoadSlotIntoArgument ==
  /\ At("loadArg")
  /\ reg' = [reg EXCEPT ![ArgRegister(Now.kind, Now.arg)] =
                          <<Now.kind, As(Now.kind, InSlot(Now.slot))>>]
  /\ Advance /\ UNCHANGED <<slots, log>>

LoadSlotAddress ==
  /\ At("address")
  /\ reg' = IntoAccumulator("Wide", SlotTerm(Now.slot))
  /\ Advance /\ UNCHANGED <<slots, log>>

WidenAccumulator ==
  /\ At("widen")
  /\ reg' = IntoAccumulator("Wide", As("Int", reg[AccumulatorFor("Int")]))
  /\ Advance /\ UNCHANGED <<slots, log>>

Read ==
  /\ At("read")
  /\ reg' = IntoAccumulator(Now.kind, Term(Now.name, <<>>, Len(log)))
  /\ Advance /\ UNCHANGED <<slots, log>>

Write ==
  /\ At("write")
  /\ log' = Append(log, <<Now.name, <<As(Now.kind, reg[AccumulatorFor(Now.kind)])>>>>)
  /\ Advance /\ UNCHANGED <<reg, slots>>

Branch ==
  /\ At("jumpIfZero")
  /\ log' = Append(log, <<"condition", <<As("Int", reg[AccumulatorFor("Int")])>>>>)
  /\ Advance /\ UNCHANGED <<reg, slots>>

\* What a C function finds in the registers its convention gives its parameters.
Received(takes) ==
  [i \in DOMAIN takes |->
     As(takes[i], reg[<<KindFile(takes[i]), PlaceIndex(machine, FilesOf(takes), i)>>])]

\* shm_array_make() reads the extents where its last argument points.
Extents(s, count) == [i \in 1..count |-> As("Wide", InSlot(s + i - 1))]

\* What is behind a pointer into the frame; of an output nobody asks.
Behind(held, i, c) ==
  IF held[1] # "slot" THEN JunkTerm
  ELSE IF i > Len(Prototypes[c.name].inputs) THEN Literal("output")
  ELSE Term("at", <<As(c.points[i], InSlot(held[3]))>>, 0)

Given(c) ==
  LET args == Received(c.takes)
  IN  IF c.extents = 0
      THEN [i \in DOMAIN args |-> IF i \in DOMAIN c.points THEN Behind(args[i], i, c) ELSE args[i]]
      ELSE SubSeq(args, 1, 2)
             \o IF args[3][1] = "slot" THEN Extents(args[3][3], c.extents) ELSE <<JunkTerm>>

LeftIn(i, time) == Term("left", <<Literal(ToString(i))>>, time)

\* A function leaves something new behind every pointer it is given.
LeftThere(c) ==
  LET args == Received(c.takes)
      Into(i) == args[i][3]
  IN  [s \in {Into(i) : i \in {j \in DOMAIN c.points : args[j][1] = "slot"}} |->
         LET i == CHOOSE j \in DOMAIN c.points : args[j][1] = "slot" /\ Into(j) = s
         IN  <<c.points[i], LeftIn(i, Len(log))>>]

\* Of an int that becomes a real nobody can tell when.
Timeless == {"shm_int_to_real"}

TimeOf(name, l) == IF name \in Timeless THEN 0 ELSE Len(l)

\* A call leaves its answer in the accumulator and nothing anywhere else.
CallOut ==
  /\ At("call")
  /\ LET answer == Term(Now.name, Given(Now), TimeOf(Now.name, log))
     IN  reg' = IF Now.gives = "none" THEN EmptyRegisters
                ELSE [EmptyRegisters EXCEPT ![AccumulatorFor(Now.gives)] = <<Now.gives, answer>>]
  /\ log' = IF Now.name \in Effects THEN Append(log, <<Now.name, Given(Now)>>) ELSE log
  /\ slots' = LeftThere(Now) @@ slots
  /\ Advance

Next ==
  \/ Compile
  \/ LoadConstant \/ StoreSlot \/ LoadSlot \/ MoveToArgument \/ LoadSlotIntoArgument
  \/ LoadSlotAddress \/ WidenAccumulator \/ Read \/ Write \/ Branch \/ CallOut

Spec == Init /\ [][Next]_vars

done == pc = Len(code) + 1

-------------------------------------------------------------------------------
(* The language's own account: what a statement does, left to right, with  *)
(* no slot and no register.  m is the values so far, each with the type it *)
(* has when it comes about, what has happened, and whether all that was    *)
(* asked for can be done.                                                  *)

Value(type, term) == [type |-> type, term |-> term]

Nothing(log0, good) == [values |-> <<>>, log |-> log0, good |-> good]

TermsOf(m) == [i \in DOMAIN m.values |-> m.values[i].term]

Gives(m, type, name) ==
  [m EXCEPT !.values = <<Value(type, Term(name, TermsOf(m), TimeOf(name, m.log)))>>]

Worked(m, type, name) == Gives(m, type, name)

Happened(m, type, name) == [Gives(m, type, name) EXCEPT !.log = Append(@, <<name, TermsOf(m)>>)]

Provided(m, condition) == [m EXCEPT !.good = @ /\ condition]

Afresh(m, values) == [m EXCEPT !.values = values]

Literally(c) == Value(IntType, Literal(c))

With(m, c) == [m EXCEPT !.values = Append(@, Literally(c))]

\* The one value there is, as a value of the type.
To(m, type) ==
  LET v == m.values[1]
  IN  IF v.type = type THEN m
      ELSE IF ~(Numeric(v.type) /\ Numeric(type)) THEN Provided(m, FALSE)
      ELSE Worked(m, type, Conversion(Tag(v.type), Tag(type)))

\* Between any two scalars.
Cast(m, type) ==
  LET v == m.values[1]  name == Conversion(Tag(v.type), Tag(type))
  IN  IF v.type = NoType \/ IsArray(v.type) THEN Provided(m, FALSE)
      ELSE IF v.type = type THEN m
      ELSE IF name = "none" THEN Afresh(m, <<Value(type, v.term)>>) ELSE Worked(m, type, name)

Lifted(v, type) ==
  IF v.type = IntType /\ type = RealType
  THEN Value(RealType, Term("shm_int_to_real", <<v.term>>, 0)) ELSE v

\* What an operation makes of two values.
Result(m, op) ==
  LET a == m.values[1].type  b == m.values[2].type
      type == IF a = b THEN a ELSE RealType
      lifted == Afresh(m, [i \in 1..2 |-> Lifted(m.values[i], type)])
  IN  IF a = Text /\ b = Text
      THEN IF op = "add" THEN Worked(m, Text, "shm_text_concat")
           ELSE Provided(Worked(With(Worked(m, IntType, "shm_text_compare"), "0"),
                                IntType, RuntimeFor(op, "Int")),
                         op \in Comparisons)
      ELSE Provided(Worked(lifted, IF op \in Arithmetic THEN type ELSE IntType,
                           RuntimeFor(op, Tag(type))),
                    \/ Numeric(a) /\ Numeric(b)
                    \/ a = CharType /\ b = CharType /\ op \notin Arithmetic)

MeansVariable(log0, name) ==
  LET m == Nothing(log0, TRUE)
      asked == IF name \notin Globals THEN m
               ELSE Happened(With(With(m, "slot of " \o name), name), NoType, "shm_globals_ready")
  IN  IF name \in DOMAIN Variables THEN Worked(Afresh(asked, <<>>), Variables[name], name)
      ELSE [m EXCEPT !.values = <<Value(RealType, Literal(name))>>, !.good = name \in {"pi", "e"}]

MeansBuiltin(m, name) ==
  LET fn == Library[name]
      types == {m.values[i].type : i \in DOMAIN m.values}
      type == IF fn.shape = "IntOrReal" /\ types = {IntType} THEN IntType ELSE RealType
      lifted == Afresh(m, [i \in DOMAIN m.values |-> Lifted(m.values[i], type)])
  IN  Provided(IF fn.shape = "Length" THEN Worked(With(m, "0"), IntType, "shm_array_dim")
               ELSE Worked(lifted, type, IF type = IntType THEN fn.int ELSE fn.real),
               /\ Len(m.values) = fn.arity
               /\ \A t \in types : IF fn.shape = "Length" THEN IsArray(t) ELSE Numeric(t))

Subscripted(m, type, name) ==
  Provided(Worked(m, type, name), IsArray(m.values[1].type) /\ m.values[2].type = IntType)

\* What is made of the values m of its parts.
MeansNode(t, m) ==
  CASE t.is = "IntLit" -> Afresh(m, <<Literally(t.name)>>)
    [] t.is = "RealLit" -> Afresh(m, <<Value(RealType, Literal(t.name))>>)
    [] t.is = "StrLit" -> Worked(With(With(m, t.name), "size"), Text, "shm_array_from_text")
    [] t.is = "Index" -> LET element == ElementOf(m.values[1].type)
                         IN  Subscripted(m, element, Getter(Tag(element)))
    [] t.is = "Dim" -> Subscripted(m, IntType, "shm_array_dim")
    [] t.is = "Precision" -> Provided(Happened(m, NoType, "shm_print_places"), m.values[1].type = IntType)
    [] t.is = "Cast" -> Cast(m, Type(t.name, 0))
    [] t.is = "Binary" -> Result(m, t.name)
    [] t.is = "Call" -> IF t.name \in DOMAIN Library THEN MeansBuiltin(m, t.name)
                        ELSE Provided(Worked(m, NoType, t.name), FALSE)

ByReference(name, i) ==
  i <= Len(Prototypes[name].inputs) /\ Prototypes[name].byReference[i]

IsPlace(t) == t.is = "Index" \/ (t.is = "Var" /\ t.name \in DOMAIN Variables)

\* One more argument, as its parameter takes it.
PassedOn(m, one, call, i) ==
  LET inputs == Prototypes[call.name].inputs
      at == Afresh(one, <<Value(one.values[1].type, Term("at", TermsOf(one), 0))>>)
      passed == IF i > Len(inputs) THEN one
                ELSE IF ~ByReference(call.name, i) THEN To(one, inputs[i])
                ELSE Provided(at, IsPlace(call.parts[i]) /\ one.values[1].type = inputs[i])
  IN  Provided(Afresh(passed, m.values \o passed.values), m.good)

Called(args, t) ==
  LET proto == Prototypes[t.name]
      into == IF Len(proto.outputs) < 2 THEN <<>>
              ELSE [i \in DOMAIN proto.outputs |-> Literally("output")]
  IN  Happened(Provided([args EXCEPT !.values = @ \o into], Len(t.parts) = Len(proto.inputs)),
               IF proto.outputs = <<>> THEN NoType ELSE proto.outputs[1], t.name)

\* What the call left at time in its i-th reference goes where that is from.
WrittenBack(m, place, p, type, i, time) ==
  LET left == Value(NoType, LeftIn(i, time))
  IN  IF p.is = "Index"
      THEN Provided(Happened(Afresh(place, place.values \o <<left>>), NoType, Setter(Tag(type))), m.good)
      ELSE Happened(Afresh(m, <<left>>), NoType, p.name)

\* Two outputs or more come back the same way.
Outputs(called, t, time) ==
  LET outputs == Prototypes[t.name].outputs
  IN  IF Len(outputs) < 2 THEN called.values
      ELSE [i \in DOMAIN outputs |-> Value(outputs[i], LeftIn(Len(t.parts) + i, time))]

Append1(m, one) == Provided(Afresh(one, m.values \o one.values), m.good)

RECURSIVE Means(_, _), MeansLiteral(_, _, _), OwnType(_)

MeansEach(log0, parts) ==
  FoldLeft(LAMBDA m, t : Append1(m, Means(m.log, t)), Nothing(log0, TRUE), parts)

Back(m, t, time) ==
  LET One(w, i) == IF ~ByReference(t.name, i) THEN w
                   ELSE WrittenBack(w, MeansEach(w.log, t.parts[i].parts), t.parts[i],
                                    Prototypes[t.name].inputs[i], i, time)
  IN  FoldLeft(One, m, [i \in DOMAIN t.parts |-> i])

Returned(called, t) ==
  LET time == Len(called.log) - 1
  IN  Afresh(Back(called, t, time), Outputs(called, t, time))

\* The arguments from the left; the call; then what it left in its references.
MeansCall(log0, t) ==
  Returned(Called(FoldLeft(LAMBDA m, i : PassedOn(m, Means(m.log, t.parts[i]), t, i),
                           Nothing(log0, TRUE), [i \in DOMAIN t.parts |-> i]), t), t)

\* A literal is an array of what its first element is, where nothing else is asked for.
OwnType(t) ==
  LET filled == SelectSeq(t.parts, LAMBDA p : p.is # "Blank")
  IN  IF filled = <<>> THEN NoType
      ELSE ArrayOf(IF filled[1].is = "ArrayLit" THEN OwnType(filled[1])
                   ELSE Means(<<>>, filled[1]).values[1].type)

PutIn(m, one, array, i, element) ==
  Provided(Afresh(Happened(Afresh(one, array \o <<Literally(ToString(i - 1))>> \o one.values),
                           NoType, Setter(Tag(element))),
                  array),
           m.good)

\* Elements are put in from the left, the blank ones are not.
MeansLiteral(log0, t, type) ==
  LET element == ElementOf(type)
      kind == IF IsArray(element) THEN "ref" ELSE element.scalar
      made == Happened(With(With(With(Nothing(log0, IsArray(type) /\ WellFormed(type)), kind), "1"),
                            ToString(Len(t.parts))), type, "shm_array_make")
      Put(m, i) ==
        LET p == t.parts[i]
        IN  IF p.is = "Blank" THEN m
            ELSE PutIn(m, IF p.is = "ArrayLit" THEN MeansLiteral(m.log, p, element)
                          ELSE To(Means(m.log, p), element), m.values, i, element)
  IN  FoldLeft(Put, made, [i \in DOMAIN t.parts |-> i])

FirstOf(m) == Afresh(m, SubSeq(m.values, 1, 1))

Into(log0, e, type) ==
  IF e.is = "ArrayLit" /\ IsArray(type) THEN MeansLiteral(log0, e, type) ELSE To(Means(log0, e), type)

Filled(m, name) ==
  Happened(Afresh(m, <<Value(NoType, Term(name, <<>>, Len(m.log))), m.values[1]>>), NoType, "shm_array_fill")

Made(m, name) ==
  IF name \in Globals
  THEN Happened(Afresh(m, <<Literally("slot after " \o name)>>), NoType, "shm_globals_made") ELSE m

\* A copy of the array last made, in one as long.
Copied(m) ==
  LET v == m.values[1]
      long == Worked(With(m, "0"), IntType, "shm_array_dim")
  IN  Happened(Afresh(long, <<Literally(v.type.scalar), Literally("1")>> \o long.values), v.type,
               "shm_array_make")

\* The first value a name is given makes it: a text of its own, unless nobody has it.
Creates(m, name, e) ==
  LET type == m.values[1].type
  IN  IF IsArray(type) /\ e.is \notin {"ArrayLit", "StrLit", "Binary"}
      THEN Provided(Filled(Afresh(Happened(Copied(m), NoType, name), m.values), name), type = Text)
      ELSE Provided(Happened(m, NoType, name), type # NoType)

Reassigned(m, name) ==
  IF IsArray(Variables[name]) THEN Filled(m, name) ELSE Happened(m, NoType, name)

NameOK(name) == name \notin DOMAIN Library /\ (name \in {"pi", "e"} => name \in DOMAIN Variables)

\* At the place, whose index is an int, the value is put.
PutAt(place, m) ==
  Provided(Happened(Afresh(m, place.values \o m.values), NoType, Setter(Tag(ElementOf(place.values[1].type)))),
           place.good /\ place.values[2].type = IntType)

AssignedAt(place, e) == PutAt(place, Into(place.log, e, ElementOf(place.values[1].type)))

MeansAssign(log0, target, e) ==
  IF target.is = "Index" THEN AssignedAt(MeansEach(log0, target.parts), e)
  ELSE Provided(IF target.name \in DOMAIN Variables
                THEN Reassigned(Into(log0, e, Variables[target.name]), target.name)
                ELSE Creates(Means(log0, e), target.name, e),
                NameOK(target.name))

Sum(old, added, op) ==
  Provided(Result(Afresh(added, old.values \o added.values), op), old.good)

Plus(old, s) == Sum(old, To(Means(old.log, s.parts[2]), old.values[1].type), s.name)

PlusAt(place, s) == PutAt(place, Plus(MeansNode(s.parts[1], place), s))

\* The target's parts are evaluated once, and what is there is added to.
MeansCompound(log0, s) ==
  LET target == s.parts[1]
  IN  IF target.is = "Index" THEN PlusAt(MeansEach(log0, target.parts), s)
      ELSE IF target.name \notin DOMAIN Variables THEN Nothing(log0, FALSE)
      ELSE Reassigned(Plus(MeansVariable(log0, target.name), s), target.name)

MeansArray(extents, s, type) ==
  LET made == Happened(Afresh(extents, <<Literally(s.scalar), Literally(ToString(Len(s.parts)))>>
                                         \o extents.values), type, "shm_array_make")
  IN  Provided(Made(Happened(made, NoType, s.name), s.name),
               \A i \in DOMAIN extents.values : extents.values[i].type = IntType)

InitialInto(m, s, type) ==
  IF s.initial = <<>> THEN m
  ELSE Provided(Filled(Into(m.log, s.initial[1], type), s.name), m.good)

\* What a size comes to that is spelled out, in hundredths: an int is whole.
RECURSIVE Worth(_)
Worth(t) ==
  CASE t.is \in {"IntLit", "RealLit"} -> Hundredths(t.name)
    [] t.is = "Cast" /\ t.name = "Int" -> {k - (k % 100) : k \in Worth(t.parts[1])}
    [] t.is = "Binary" /\ t.name \in {"add", "sub", "mul"} ->
         {CASE t.name = "add" -> a + b [] t.name = "sub" -> a - b [] OTHER -> (a * b) \div 100 :
            a \in Worth(t.parts[1]), b \in Worth(t.parts[2])}
    [] OTHER -> {}

MeansDeclare(log0, s) ==
  LET type == Type(s.scalar, Len(s.parts))
      first == IF s.initial = <<>> THEN With(Nothing(log0, TRUE), "0") ELSE Into(log0, s.initial[1], type)
  IN  Provided(IF IsArray(type) THEN InitialInto(MeansArray(MeansEach(log0, s.parts), s, type), s, type)
               ELSE Made(Happened(first, NoType, s.name), s.name),
               /\ WellFormed(type)
               /\ s.name \notin DOMAIN Library \cup (DOMAIN Variables \ Globals) \cup NamesIn(s.parts \o s.initial)
               /\ \A i \in DOMAIN s.parts : \A k \in Worth(s.parts[i]) : k > 0)

\* One name for each output, which may be any other scalar; the first output a new
\* name stands for says what it is.
Named(m, names) ==
  LET One(w, i) ==
        LET v == m.values[i]
            type == IF names[i] \in DOMAIN Variables THEN Variables[names[i]]
                    ELSE m.values[FirstAt(names, i)].type
        IN  Happened(Provided(Cast(Afresh(w, <<v>>), type), NameOK(names[i]) /\ ~IsArray(type)),
                     NoType, names[i])
  IN  IF Len(m.values) # Len(names) THEN Provided(m, FALSE)
      ELSE FoldLeft(One, m, [i \in DOMAIN names |-> i])

MeansOutputs(log0, call) ==
  IF call.name \in DOMAIN Prototypes THEN MeansCall(log0, call) ELSE Means(log0, call)

Printed(m, one, t) ==
  IF t.is = "Precision" THEN Provided(one, m.good)
  ELSE Provided(Happened(one, NoType, Printer(Tag(one.values[1].type))),
                m.good /\ one.values[1].type # NoType)

MeansPrint(log0, s) ==
  LET printed == FoldLeft(LAMBDA m, t : Printed(m, Means(m.log, t), t), Nothing(log0, TRUE), s.parts)
  IN  IF s.newline THEN Happened(Afresh(printed, <<>>), NoType, "shm_line_end") ELSE printed

\* Every output is computed; one is handed over at the very end, two as they come.
MeansReturn(log0, s) ==
  LET Output(m, i) == Provided(Happened(To(Means(m.log, s.parts[i]), s.outputs[i]),
                                        NoType, "output " \o ToString(i)), m.good)
  IN  IF Len(s.parts) # Len(s.outputs) THEN Nothing(log0, FALSE)
      ELSE FoldLeft(Output, Nothing(log0, TRUE), [i \in DOMAIN s.parts |-> i])

\* Bounds and step in the order given, each as a value of the type.
MeansBounds(log0, parts, type) ==
  FoldLeft(LAMBDA m, t : Append1(m, To(Means(m.log, t), type)), Nothing(log0, TRUE), parts)

\* Where no step is given it is one.
WithStep(m, count) == IF Len(m.values) = count THEN m ELSE With(m, "1")

RealRuns(m, name) ==
  LET checked == Happened(m, NoType, "shm_loop_real_check")
  IN  Happened(Worked(With(Afresh(checked, <<m.values[1], m.values[3]>>), "0"), RealType,
                      "shm_loop_real_value"), NoType, name)

IntRuns(start, bounds) ==
  Provided(Happened(Worked(Afresh(start, start.values \o bounds.values), IntType, "shm_loop_int_run"),
                    NoType, "condition"), bounds.good)

IntStarts(m, first, type) ==
  IntRuns(MeansBounds(Happened(Afresh(m, SubSeq(m.values, 2, 2)), NoType, "shm_loop_int_check").log,
                      <<first>>, type), m)

\* Over ints the end is worked out first, then the step, and the start last; over
\* reals they come as they are written.
MeansFor(log0, s, types) ==
  LET type == IF RealType \in types THEN RealType ELSE CHOOSE t \in types : TRUE
  IN  Provided(IF type = RealType
               THEN RealRuns(WithStep(MeansBounds(log0, s.parts, type), 3), s.name)
               ELSE IntStarts(WithStep(MeansBounds(log0, Tail(s.parts), type), 2), s.parts[1], type),
               ~IsArray(type) /\ NameOK(s.name))

MeansCondition(m) ==
  LET type == m.values[1].type
  IN  Provided(Happened(IF type = RealType THEN Worked(m, IntType, "shm_real_truth") ELSE m,
                        NoType, "condition"),
               type # NoType /\ ~IsArray(type))

StatementKinds ==
  {"Assign", "Declare", "CompoundAssign", "MultiAssign", "CallStmt", "Print", "Condition", "Return", "For"}

MeansStatement(log0, s) ==
  CASE s.is = "Assign" -> MeansAssign(log0, s.parts[1], s.parts[2])
    [] s.is = "Declare" -> MeansDeclare(log0, s)
    [] s.is = "CompoundAssign" -> MeansCompound(log0, s)
    [] s.is = "MultiAssign" -> Named(MeansOutputs(log0, s.parts[1]), s.names)
    [] s.is = "CallStmt" -> MeansOutputs(log0, s.parts[1])
    [] s.is = "Print" -> MeansPrint(log0, s)
    [] s.is = "Condition" -> MeansCondition(Means(log0, s.parts[1]))
    [] s.is = "Return" -> MeansReturn(log0, s)
    [] s.is = "For" ->
         MeansFor(log0, s, {Means(<<>>, s.parts[i]).values[1].type : i \in DOMAIN s.parts})

Means(log0, t) ==
  CASE t.is = "ArrayLit" -> MeansLiteral(log0, t, OwnType(t))
    [] t.is = "Var" -> MeansVariable(log0, t.name)
    [] t.is = "Call" /\ t.name \in DOMAIN Prototypes -> FirstOf(MeansCall(log0, t))
    [] t.is \in StatementKinds -> MeansStatement(log0, t)
    [] OTHER -> MeansNode(t, MeansEach(log0, t.parts))

Meaning(s) == Means(<<<<"shm_line", <<Literal("unit"), Literal("line")>>>>>>, s)

-------------------------------------------------------------------------------
\* Whatever a statement does, it does to the values the language says and in the
\* order it says, on every target: no operand is lost while another is
\* evaluated, no register overwritten before it is read (CodeGen.cpp: evaluate(),
\* reserve(), release() and the emitters' accumulators).
DoesWhatItSays == done /\ accepted => log = Meaning(statement).log

\* The checker refuses exactly the statements that could not be carried out when
\* their values come about: where types do not match, where a value is asked of
\* what gives none, where a name cannot be had (Check.cpp, docs/CONFORMANCE.md).
AcceptsWhatHasAMeaning == pc = 1 => (accepted <=> Meaning(statement).good)

\* The frame endFunction() reserves has every slot a statement uses, an evaluation
\* never reaches into the slots of variables, and when the statement is done every
\* slot it took has been given back (CodeGen.cpp:140, 201-207).
EverySlotIsInTheFrame ==
  /\ \A s \in DOMAIN slots : s < deepest /\ (s < 0 => s < HiddenSlot(hidden))
  /\ done => depth = 0
===============================================================================
