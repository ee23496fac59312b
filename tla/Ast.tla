---------------------------------- MODULE Ast ----------------------------------
(***************************************************************************)
(* The trees the parser hands to the checker (src/src/Ast.h).  An          *)
(* expression is what it is, a name (or how a literal is written) and its  *)
(* parts; a statement is what it is, its expressions, and what else it     *)
(* says.                                                                   *)
(***************************************************************************)

Source(is, name, parts) == [is |-> is, name |-> name, parts |-> parts]

Whole(written) == Source("IntLit", written, <<>>)

Decimal(written) == Source("RealLit", written, <<>>)

Quoted(text) == Source("StrLit", text, <<>>)

Name(name) == Source("Var", name, <<>>)

Converted(scalar, e) == Source("Cast", scalar, <<e>>)

Op(op, l, r) == Source("Binary", op, <<l, r>>)

Row(elements) == Source("ArrayLit", "", elements)

Gap == Source("Blank", "", <<>>)

ElementAt(base, index) == Source("Index", "", <<base, index>>)

ExtentOf(base, axis) == Source("Dim", "", <<base, axis>>)

Prec(places) == Source("Precision", "", <<places>>)

Asked(name, arguments) == Source("Call", name, arguments)

-------------------------------------------------------------------------------

New(scalar, name, extents, initial) ==
  [is |-> "Declare", scalar |-> scalar, name |-> name, parts |-> extents, initial |-> initial]

Let(target, e) == [is |-> "Assign", parts |-> <<target, e>>]

Add(op, target, e) == [is |-> "CompoundAssign", name |-> op, parts |-> <<target, e>>]

Show(items, newline) == [is |-> "Print", parts |-> items, newline |-> newline]

Answer(outputs, parts) == [is |-> "Return", outputs |-> outputs, parts |-> parts]

Multi(names, call) == [is |-> "MultiAssign", names |-> names, parts |-> <<call>>]

Do(call) == [is |-> "CallStmt", parts |-> <<call>>]

\* Of an if or a while only the condition: Scopes has the rest.
Test(condition) == [is |-> "Condition", parts |-> <<condition>>]

Loop(name, bounds) == [is |-> "For", name |-> name, parts |-> bounds]
===============================================================================
