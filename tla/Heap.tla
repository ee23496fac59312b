--------------------------------- MODULE Heap ---------------------------------
(***************************************************************************)
(* Arrays and strings of a running program (src/runtime/Array.cpp and the  *)
(* code CodeGen emits for declarations, literals and assignments).  An     *)
(* array is an address; rows of a table are addresses too, so rows can be  *)
(* shared.  The variables are those of one body: text is char[], row is    *)
(* int[], table is int[][].  Nothing is freed, and arrays nothing can      *)
(* reach any more are left out of the heap where a statement makes them.   *)
(***************************************************************************)
EXTENDS Integers, Sequences

CONSTANTS
  Texts, Rows, Tables,  \* the variables, by type
  Elements,             \* the values of an int or a char; 0 is NUL
  Shapes,               \* the extents a declaration may give, by kind of element; the
                        \* first alone if it is no table
  Bodies,               \* the bodies: sets of variables
  MaxHeap               \* bound: arrays allocated, by body

ASSUME HeapAssumption ==
  /\ Texts \cap Rows = {} /\ Texts \cap Tables = {} /\ Rows \cap Tables = {}
  /\ 0 \in Elements /\ Elements \subseteq Nat
  /\ Shapes \in [{"char", "int", "ref"} -> SUBSET ((Nat \ {0}) \X (Nat \ {0}))]
  /\ Bodies \subseteq SUBSET (Texts \cup Rows \cup Tables)
  /\ MaxHeap \in [Bodies -> Nat]

VARIABLES
  heap,     \* the arrays, by address: what an element is and the elements
  at,       \* the array each variable of the body holds, 0 before it exists
  outcome,  \* "running", "failed" in an index check, "crashed" through a null row
  leftOut   \* history: a literal left a row out

vars == <<heap, at, outcome, leftOut>>

Variables == DOMAIN at

\* Those of one type the body has.
Bodys(type) == type \cap Variables

Null == 0

KindOf(v) == IF v \in Texts THEN "char" ELSE IF v \in Rows THEN "int" ELSE "ref"

Count(h, a) == Len(h[a].data)

HeapInit ==
  /\ heap = <<>>
  /\ \E body \in Bodies : at = [v \in body |-> Null]
  /\ outcome = "running"
  /\ leftOut = FALSE

-------------------------------------------------------------------------------
\* allocate(): zeroed.
Zeroed(kind, count) == [element |-> kind, data |-> [i \in 1..count |-> 0]]

\* Mutant: the rows of a table are not made.
BuiltShallow(h, kind, dims) == Append(h, Zeroed(kind, dims[1]))

\* build(): a table's rows come after the array that refers to them.
Built(h, kind, dims) ==
  IF kind = "ref"
  THEN Append(h, [element |-> "ref", data |-> [i \in 1..dims[1] |-> Len(h) + 1 + i]])
         \o [i \in 1..dims[1] |-> Zeroed("int", dims[2])]
  ELSE Append(h, Zeroed(kind, dims[1]))

\* The arrays that hold the scalars of a.
Leaves(h, a) ==
  IF h[a].element = "ref" THEN {h[a].data[i] : i \in DOMAIN h[a].data} \ {Null} ELSE {a}

\* clear(): rows that are not there are passed over.
Cleared(h, a) ==
  [b \in DOMAIN h |-> IF b \in Leaves(h, a) THEN Zeroed(h[b].element, Count(h, b)) ELSE h[b]]

\* The capacity in fit(): a text keeps its last cell for NUL.
Room(array) == IF array.element = "char" THEN Len(array.data) - 1 ELSE Len(array.data)

Least(a, b) == IF a < b THEN a ELSE b

\* fit() of an array of scalars.
FitScalars(h, to, from) ==
  LET n == Least(Room(h[to]), Count(h, from))
  IN  [b \in DOMAIN h |->
         IF b # to THEN h[b]
         ELSE [element |-> h[to].element,
               data |-> [i \in DOMAIN h[to].data |->
                           IF i <= n THEN h[from].data[i] ELSE h[to].data[i]]]]

\* fit() of row i; a row missing on either side is left alone.
FitRow(h, to, from, i) ==
  IF h[to].data[i] = Null \/ h[from].data[i] = Null THEN h
  ELSE FitScalars(h, h[to].data[i], h[from].data[i])

\* The heap after each row, in order.
FitRows(h, to, from) ==
  LET After[i \in 0..Least(Count(h, to), Count(h, from))] ==
        IF i = 0 THEN h ELSE FitRow(After[i - 1], to, from, i)
  IN  After

\* fit()
Fit(h, to, from) ==
  IF h[to].element # "ref" THEN FitScalars(h, to, from)
  ELSE FitRows(h, to, from)[Least(Count(h, to), Count(h, from))]

\* Mutant: what the source does not reach keeps its old value.
FilledUncleared(h, to, from) == Fit(h, to, from)

\* shm_array_fill()
Filled(h, to, from) == Fit(Cleared(h, to), to, from)

\* shm_array_fill() from an array nothing else refers to.
FilledFrom(h, to, array) == SubSeq(Filled(Append(h, array), to, Len(h) + 1), 1, Len(h))

\* textLength(): up to NUL, or all of it.
TextOf(array) ==
  LET ends == {i \in DOMAIN array.data : array.data[i] = 0}
  IN  IF ends = {} THEN array.data
      ELSE SubSeq(array.data, 1, (CHOOSE i \in ends : \A j \in ends : i <= j) - 1)

\* shm_array_from_text() and the end of shm_text_concat()
FromText(text) == [element |-> "char", data |-> Append(text, 0)]

\* shm_text_concat()
Joined(a, b) == FromText(TextOf(a) \o TextOf(b))

-------------------------------------------------------------------------------
running == outcome = "running"

made(v) == at[v] # Null

Grow(h) == Len(h) <= MaxHeap[Variables] /\ heap' = h

\* A declaration makes the array, and fills it from what it starts with: in a
\* loop, another one each time.
Declare(v, dims) ==
  /\ running
  /\ Grow(Built(heap, KindOf(v), dims))
  /\ at' = [at EXCEPT ![v] = Len(heap) + 1]
  /\ UNCHANGED <<outcome, leftOut>>

DeclareFrom(v, dims, w) ==
  /\ running /\ v # w /\ made(w) /\ KindOf(v) = KindOf(w)
  /\ Grow(Filled(Built(heap, KindOf(v), dims), Len(heap) + 1, at[w]))
  /\ at' = [at EXCEPT ![v] = Len(heap) + 1]
  /\ UNCHANGED <<outcome, leftOut>>

\* The statement that brings a name into being: the name holds the literal, or the
\* array a concatenation made.
CreateText(v, text) ==
  /\ running
  /\ Grow(Append(heap, FromText(text)))
  /\ at' = [at EXCEPT ![v] = Len(heap) + 1]
  /\ UNCHANGED <<outcome, leftOut>>

CreateJoin(v, w, u) ==
  /\ running /\ v # w /\ v # u /\ made(w) /\ made(u)
  /\ Grow(Append(heap, Joined(heap[at[w]], heap[at[u]])))
  /\ at' = [at EXCEPT ![v] = Len(heap) + 1]
  /\ UNCHANGED <<outcome, leftOut>>

\* buildLiteral(): an element is an array that exists, or is left out.
CreateTable(v, rows) ==
  /\ running
  /\ \E i \in DOMAIN rows : rows[i] # Null
  /\ Grow(Append(heap, [element |-> "ref", data |-> rows]))
  /\ at' = [at EXCEPT ![v] = Len(heap) + 1]
  /\ leftOut' = (leftOut \/ \E i \in DOMAIN rows : rows[i] = Null)
  /\ UNCHANGED outcome

\* Mutant: the name is bound to the array it was given.
CreateBound(v, w) ==
  /\ running /\ v # w /\ made(w)
  /\ at' = [at EXCEPT ![v] = at[w]]
  /\ UNCHANGED <<heap, outcome, leftOut>>

\* From another text, the name gets an array as long, filled.
CreateCopy(v, w) ==
  /\ running /\ v # w /\ made(w)
  /\ Grow(Filled(Built(heap, "char", <<Count(heap, at[w])>>), Len(heap) + 1, at[w]))
  /\ at' = [at EXCEPT ![v] = Len(heap) + 1]
  /\ UNCHANGED <<outcome, leftOut>>

\* v : w, and v : a literal text
Assign(v, w) ==
  /\ running /\ made(v) /\ made(w) /\ KindOf(v) = KindOf(w)
  /\ UNCHANGED <<at, outcome, leftOut>>
  /\ heap' = Filled(heap, at[v], at[w])

AssignText(v, text) ==
  /\ running /\ made(v)
  /\ heap' = FilledFrom(heap, at[v], FromText(text))
  /\ UNCHANGED <<at, outcome, leftOut>>

\* v : w + u, and v +: u when w is v
AssignJoin(v, w, u) ==
  /\ running /\ made(v) /\ made(w) /\ made(u)
  /\ heap' = FilledFrom(heap, at[v], Joined(heap[at[w]], heap[at[u]]))
  /\ UNCHANGED <<at, outcome, leftOut>>

\* bounds(); the process ends where it fails, and its arrays with it.
InBounds(a, i) == a # Null /\ i \in DOMAIN heap[a].data

Touch(a, i) ==
  /\ ~InBounds(a, i)
  /\ outcome' = IF a = Null THEN "crashed" ELSE "failed"
  /\ heap' = <<>> /\ at' = [v \in Variables |-> Null]
  /\ UNCHANGED leftOut

\* One element written.
Written(h, a, i, x) ==
  [h EXCEPT ![a] = [element |-> h[a].element, data |-> [h[a].data EXCEPT ![i] = x]]]

Set(a, i, x) ==
  \/ Touch(a, i)
  \/ /\ InBounds(a, i)
     /\ heap' = Written(heap, a, i, x)
     /\ UNCHANGED <<at, outcome, leftOut>>

\* v[i] : x
SetElement(v, i, x) == running /\ made(v) /\ Set(at[v], i, x)

\* v[i][j] : x, reading the row first
SetCell(v, i, j, x) ==
  /\ running /\ made(v)
  /\ \/ Touch(at[v], i)
     \/ InBounds(at[v], i) /\ Set(heap[at[v]].data[i], j, x)

\* v[i] : w, where the row becomes w itself
SetRow(v, i, w) == running /\ made(v) /\ made(w) /\ Set(at[v], i, at[w])

\* v[i] : w[k]
SetRowFromRow(v, i, w, k) ==
  /\ running /\ made(v) /\ made(w)
  /\ \/ Touch(at[w], k)
     \/ InBounds(at[w], k) /\ Set(at[v], i, heap[at[w]].data[k])

Indexes == 1..2

Words == {<<>>, <<1>>}

Made == {at[v] : v \in Bodys(Rows)}

HeapNext ==
  \/ \E v \in Variables : \E dims \in Shapes[KindOf(v)] :
       \/ Declare(v, dims)
       \/ \E w \in Variables : DeclareFrom(v, dims, w)
  \/ \E v \in Bodys(Texts), text \in Words : CreateText(v, text) \/ AssignText(v, text)
  \/ \E v \in Bodys(Tables) : \E rows \in [Indexes -> Made \cup {Null}] :
       CreateTable(v, rows)
  \/ \E v, w \in Bodys(Texts) : CreateCopy(v, w)
  \/ \E v, w \in Variables : Assign(v, w)
  \/ \E v, w, u \in Bodys(Texts) : CreateJoin(v, w, u) \/ AssignJoin(v, w, u)
  \/ \E v \in Bodys(Texts \cup Rows), i \in Indexes, x \in Elements : SetElement(v, i, x)
  \/ \E v \in Bodys(Tables), i, j \in Indexes, x \in Elements : SetCell(v, i, j, x)
  \/ \E v \in Bodys(Tables), i \in Indexes, w \in Bodys(Rows) : SetRow(v, i, w)
  \/ \E v, w \in Bodys(Tables), i, k \in Indexes : SetRowFromRow(v, i, w, k)

HeapSpec == HeapInit /\ [][HeapNext]_vars

-------------------------------------------------------------------------------
\* What a variable shows: its scalars, row by row.
Shown(h, a) == IF h[a].element # "ref" THEN h[a].data
               ELSE [i \in DOMAIN h[a].data |->
                       IF h[a].data[i] = Null THEN <<>> ELSE h[h[a].data[i]].data]

\* The array a after "a : b", by the language: a keeps its shape, takes what fits
\* of b, and is zero beyond.
Shaped(array, data) ==
  [i \in DOMAIN array.data |->
     IF i <= Room(array) /\ i <= Len(data) THEN data[i] ELSE 0]

Copied(h, a, b) ==
  IF h[a].element # "ref" THEN Shaped(h[a], h[b].data)
  ELSE [i \in DOMAIN h[a].data |->
          IF h[a].data[i] = Null THEN <<>>
          ELSE Shaped(h[h[a].data[i]],
                      IF i \in DOMAIN h[b].data /\ h[b].data[i] # Null
                      THEN h[h[b].data[i]].data ELSE <<>>)]

\* a and b have no row in common, and a no row twice.
Apart(h, a, b) ==
  /\ Leaves(h, a) \cap Leaves(h, b) = {}
  /\ h[a].element = "ref" =>
       \A i, j \in DOMAIN h[a].data :
         h[a].data[i] = h[a].data[j] => i = j \/ h[a].data[i] = Null

\* A program meets a row that is not there only if one of its literals left it out:
\* everything else that makes or changes a table, an assignment of one whose rows were
\* exchanged or are shared among others, leaves a row of ints in every place.
RowsAreThere ==
  leftOut \/ /\ outcome # "crashed"
             /\ \A a \in DOMAIN heap : heap[a].element = "ref" =>
                  \A i \in DOMAIN heap[a].data :
                    /\ heap[a].data[i] # Null
                    /\ heap[heap[a].data[i]].element = "int"

\* v : w leaves in v what fits of w and zeros beyond, whatever shapes the two and
\* their rows have come to have, unless they share rows.
AssignmentCopies ==
  [][/\ \A v, w \in Variables :
          Assign(v, w) /\ Apart(heap, at[v], at[w]) =>
            Shown(heap', at[v]) = Copied(heap, at[v], at[w])
     /\ \A v \in Bodys(Texts) :
          (\E w, u \in Bodys(Texts) : Assign(v, w) \/ AssignJoin(v, w, u)) =>
            TextOf(heap'[at[v]]) # heap'[at[v]].data]_vars

\* A statement that assigns to one text changes no other: CONFORMANCE.md, "t : s
\* copies".
TextsChangeAlone ==
  [][\A v, w \in Bodys(Texts) :
       v # w /\ made(v) /\ made(w) /\ running' =>
         Shown(heap', at'[v]) = Shown(heap, at[v]) \/ Shown(heap', at'[w]) = Shown(heap, at[w])]_vars

\* CONFORMANCE.md: "t : s  - creates a copy of s"; "This compiler copies".  Also
\* when both are the same variable, or share a row.
AssignmentAlwaysCopies ==
  [][\A v, w \in Variables :
       Assign(v, w) => Shown(heap', at[v]) = Copied(heap, at[v], at[w])]_vars
===============================================================================
