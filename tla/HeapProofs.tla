------------------------------ MODULE HeapProofs ------------------------------
(***************************************************************************)
(* Arrays and strings, for every body, every shape and every program: what *)
(* a statement leaves of the heap (an array never changes its kind or its  *)
(* length, a row is never anything but an array of ints), that no two      *)
(* texts are one array, and that an assignment copies.                     *)
(***************************************************************************)
EXTENDS Heap, WellFoundedInduction, TLAPS

-------------------------------------------------------------------------------
\* Induction up to a bound, by sets: the order of the naturals is well founded.
LEMMA SmallestExists ==
  ASSUME NEW T, T \subseteq Nat, T # {}
  PROVE  \E m \in T : \A k \in T : m <= k
<1> DEFINE Less == OpToRel(<, Nat)
<1>1. \A k, m \in Nat : k < m => <<k, m>> \in Less
  BY Zenon DEF OpToRel
<1>2. IsWellFoundedOn(Less, Nat)
  BY NatLessThanWellFounded, Zenon
<1> HIDE DEF Less
<1>3. PICK m \in T : \A k \in T : ~(<<k, m>> \in Less)
  BY ONLY <1>2, T \subseteq Nat, T # {}, WFMin
<1>4. \A k \in T : m <= k
  <2>1. ASSUME NEW k \in T PROVE m <= k
    <3>1. k \in Nat /\ m \in Nat
      OBVIOUS
    <3>2. ~(k < m)
      BY <1>1, <1>3, <3>1
    <3> QED BY <3>1, <3>2
  <2> QED BY <2>1
<1> QED BY <1>4

\* Counting up from 0 stays inside what each count takes along.
LEMMA Upward ==
  ASSUME NEW k \in Nat, NEW S, 0 \in S, \A i \in 1..k : i - 1 \in S => i \in S
  PROVE  \A i \in 0..k : i \in S
<1> SUFFICES ASSUME (0..k) \ S # {} PROVE FALSE
  OBVIOUS
<1>1. PICK m \in (0..k) \ S : \A i \in (0..k) \ S : m <= i
  <2>1. (0..k) \ S \subseteq Nat
    OBVIOUS
  <2> QED BY <2>1, SmallestExists
<1>2. m # 0 /\ m \in 1..k /\ m - 1 \in 0..k /\ ~(m <= m - 1)
  BY <1>1
<1> QED BY <1>1, <1>2

\* What the heap is after each row exists, and is what FitRows says.
LEMMA RowByRow ==
  ASSUME NEW h, NEW to, NEW from, NEW k, k = Least(Count(h, to), Count(h, from)), k \in Nat
  PROVE  FitRows(h, to, from) =
           [i \in 0..k |-> IF i = 0 THEN h ELSE FitRow(FitRows(h, to, from)[i - 1], to, from, i)]
<1> DEFINE Step(g, i) == IF i = 0 THEN h ELSE FitRow(g[i - 1], to, from, i)
           Good(g, m) == g = [i \in 0..m |-> Step(g, i)]
           T == {m \in 0..k : \E g : Good(g, m)}
<1>1. 0 \in T
  <2> DEFINE g0 == [i \in 0..0 |-> h]
  <2>1. Good(g0, 0) /\ 0 \in 0..k
    OBVIOUS
  <2> HIDE DEF Good, g0
  <2> QED BY <2>1
<1>2. ASSUME NEW m \in 1..k, m - 1 \in T PROVE m \in T
  <2>1. PICK g : Good(g, m - 1)
    BY <1>2
  <2> DEFINE g2 == [i \in 0..m |-> IF i = m THEN FitRow(g[m - 1], to, from, m) ELSE g[i]]
  <2>2. \A i \in 0..m - 1 : g2[i] = g[i]
    OBVIOUS
  <2>3. ASSUME NEW i \in 0..m PROVE g2[i] = Step(g2, i)
    <3>1. CASE i = m
      BY <2>2, <3>1
    <3>2. CASE i # m
      <4>1. i \in 0..m - 1 /\ (i # 0 => i - 1 \in 0..m - 1)
        BY <3>2
      <4>2. g[i] = Step(g, i)
        BY <2>1, <4>1
      <4> QED BY <2>2, <4>1, <4>2
    <3> QED BY <3>1, <3>2
  <2>4. Good(g2, m) /\ m \in 0..k
    BY <2>3
  <2> HIDE DEF Good, g2
  <2> QED BY <2>4
<1>3. k \in T
  <2> HIDE DEF T
  <2>1. \A i \in 0..k : i \in T
    BY <1>1, <1>2, Upward
  <2> QED BY <2>1
<1>4. PICK g : Good(g, k)
  BY <1>3
<1>5. FitRows(h, to, from) = CHOOSE f : Good(f, k)
  BY DEF FitRows
<1>6. Good(FitRows(h, to, from), k)
  BY <1>4, <1>5
<1> QED BY <1>6

-------------------------------------------------------------------------------
(***************************************************************************)
(* Heaps.                                                                  *)
(***************************************************************************)
Arrays == [element: {"char", "int", "ref"}, data: Seq(Nat)]

\* Every element of a table is a row or nothing; a text has a cell for NUL.
Typed(h) ==
  /\ h \in Seq(Arrays)
  /\ \A a \in DOMAIN h :
       /\ h[a].element = "char" => Len(h[a].data) > 0
       /\ h[a].element = "ref" =>
            \A i \in DOMAIN h[a].data :
              h[a].data[i] # Null => h[a].data[i] \in DOMAIN h /\ h[h[a].data[i]].element = "int"

Whole(h) ==
  \A a \in DOMAIN h : h[a].element = "ref" => \A i \in DOMAIN h[a].data : h[a].data[i] # Null

\* g is h with other scalars in the arrays S.
Rewritten(h, g, S) ==
  /\ g \in Seq(Arrays) /\ DOMAIN g = DOMAIN h
  /\ \A a \in DOMAIN h : /\ g[a].element = h[a].element
                         /\ DOMAIN g[a].data = DOMAIN h[a].data
                         /\ a \notin S \/ h[a].element = "ref" => g[a] = h[a]

\* g is h and more arrays.
Grown(h, g) ==
  /\ Typed(g) /\ DOMAIN h \subseteq DOMAIN g
  /\ \A a \in DOMAIN h : g[a] = h[a]

\* What an array of the heap is.
LEMMA ArrayIs ==
  ASSUME NEW h \in Seq(Arrays), NEW a \in DOMAIN h
  PROVE  /\ h[a].element \in {"char", "int", "ref"} /\ h[a].data \in Seq(Nat)
         /\ h[a] = [element |-> h[a].element, data |-> h[a].data]
         /\ Len(h[a].data) \in Nat /\ DOMAIN h[a].data = 1..Len(h[a].data)
         /\ a \in Nat \ {0} /\ DOMAIN h = 1..Len(h) /\ Len(h) \in Nat
<1>1. h[a] \in Arrays
  OBVIOUS
<1>2. h[a].element \in {"char", "int", "ref"} /\ h[a].data \in Seq(Nat)
         /\ h[a] = [element |-> h[a].element, data |-> h[a].data]
  BY <1>1 DEF Arrays
<1>3. Len(h[a].data) \in Nat /\ DOMAIN h[a].data = 1..Len(h[a].data)
  BY <1>2
<1>4. a \in Nat \ {0} /\ DOMAIN h = 1..Len(h) /\ Len(h) \in Nat
  OBVIOUS
<1> QED BY <1>2, <1>3, <1>4

\* A function on the addresses of a heap is a heap.
LEMMA HeapFunction ==
  ASSUME NEW h \in Seq(Arrays), NEW g, g = [a \in DOMAIN h |-> g[a]],
         \A a \in DOMAIN h : g[a] \in Arrays
  PROVE  g \in Seq(Arrays) /\ DOMAIN g = DOMAIN h
<1>1. DOMAIN h = 1..Len(h) /\ Len(h) \in Nat
  OBVIOUS
<1>2. g \in [1..Len(h) -> Arrays]
  BY <1>1
<1>3. g \in Seq(Arrays)
  BY <1>1, <1>2
<1> QED BY <1>1, <1>2, <1>3

\* Arrays rewritten keep their kinds, sizes and rows.
LEMMA RewrittenIsTyped ==
  ASSUME NEW h, Typed(h), NEW g, NEW S, Rewritten(h, g, S)
  PROVE  Typed(g) /\ (Whole(h) => Whole(g)) /\ \A a \in DOMAIN h : Leaves(g, a) = Leaves(h, a)
<1>1. h \in Seq(Arrays) /\ g \in Seq(Arrays) /\ DOMAIN g = DOMAIN h
  BY DEF Typed, Rewritten
<1>2. ASSUME NEW a \in DOMAIN h
      PROVE  Len(g[a].data) = Len(h[a].data)
  <2>1. /\ Len(g[a].data) \in Nat /\ DOMAIN g[a].data = 1..Len(g[a].data)
        /\ Len(h[a].data) \in Nat /\ DOMAIN h[a].data = 1..Len(h[a].data)
    BY <1>1, ArrayIs
  <2>2. DOMAIN g[a].data = DOMAIN h[a].data
    BY DEF Rewritten
  <2>3. 1..Len(g[a].data) = 1..Len(h[a].data)
    BY <2>1, <2>2
  <2> QED BY <2>1, <2>3
<1>3. Typed(g)
  <2>1. ASSUME NEW a \in DOMAIN g
        PROVE  /\ g[a].element = "char" => Len(g[a].data) > 0
               /\ g[a].element = "ref" =>
                    \A i \in DOMAIN g[a].data :
                      g[a].data[i] # Null => g[a].data[i] \in DOMAIN g /\ g[g[a].data[i]].element = "int"
    <3>1. g[a].element = "char" => Len(g[a].data) > 0
      BY <1>1, <1>2 DEF Typed, Rewritten
    <3>2. ASSUME g[a].element = "ref", NEW i \in DOMAIN g[a].data, g[a].data[i] # Null
          PROVE  g[a].data[i] \in DOMAIN g /\ g[g[a].data[i]].element = "int"
      <4>1. g[a] = h[a] /\ h[a].element = "ref"
        BY <1>1, <3>2 DEF Rewritten
      <4>2. h[a].data[i] \in DOMAIN h /\ h[h[a].data[i]].element = "int"
        BY <1>1, <3>2, <4>1 DEF Typed
      <4> QED BY <1>1, <4>1, <4>2 DEF Rewritten
    <3> QED BY <3>1, <3>2
  <2> QED BY <1>1, <2>1 DEF Typed
<1>4. Whole(h) => Whole(g)
  BY <1>1 DEF Whole, Rewritten
<1>5. \A a \in DOMAIN h : Leaves(g, a) = Leaves(h, a)
  BY DEF Leaves, Rewritten
<1> QED BY <1>3, <1>4, <1>5

\* Rewritten and rewritten again is rewritten.
LEMMA RewrittenTwice ==
  ASSUME NEW h, NEW g, NEW k, NEW S, Rewritten(h, g, S), Rewritten(g, k, S)
  PROVE  Rewritten(h, k, S)
BY DEF Rewritten

\* The scalars of an array of a heap are in arrays of that heap.
LEMMA LeavesAre ==
  ASSUME NEW h, Typed(h), NEW a \in DOMAIN h
  PROVE  /\ Leaves(h, a) \subseteq DOMAIN h
         /\ \A b \in Leaves(h, a) : h[b].element # "ref" /\ (b = a \/ h[b].element = "int")
BY DEF Leaves, Typed

\* An array as it is made: of its kind and size, all zero.
LEMMA ZeroedIs ==
  ASSUME NEW kind \in {"char", "int", "ref"}, NEW count \in Nat
  PROVE  /\ Zeroed(kind, count) \in Arrays /\ Zeroed(kind, count).element = kind
         /\ Len(Zeroed(kind, count).data) = count
         /\ \A i \in DOMAIN Zeroed(kind, count).data : Zeroed(kind, count).data[i] = 0
<1>1. [i \in 1..count |-> 0] \in Seq(Nat) /\ Len([i \in 1..count |-> 0]) = count
  OBVIOUS
<1> QED BY <1>1 DEF Zeroed, Arrays

\* clear() writes the scalars of an array, all to zero.
LEMMA ClearedRewrites ==
  ASSUME NEW h, Typed(h), NEW a \in DOMAIN h
  PROVE  /\ Rewritten(h, Cleared(h, a), Leaves(h, a))
         /\ \A b \in Leaves(h, a) : \A i \in DOMAIN Cleared(h, a)[b].data : Cleared(h, a)[b].data[i] = 0
<1> DEFINE g == Cleared(h, a)
<1>1. h \in Seq(Arrays)
  BY DEF Typed
<1>2. \A b \in DOMAIN h : h[b].element \in {"char", "int", "ref"} /\ Count(h, b) \in Nat
                          /\ DOMAIN h[b].data = 1..Count(h, b)
  BY <1>1, ArrayIs DEF Count
<1>3. \A b \in DOMAIN h : g[b] = IF b \in Leaves(h, a) THEN Zeroed(h[b].element, Count(h, b)) ELSE h[b]
  BY DEF Cleared
<1>4. g = [b \in DOMAIN h |-> g[b]]
  BY DEF Cleared
<1> HIDE DEF g
<1>5. ASSUME NEW b \in DOMAIN h
      PROVE  /\ g[b] \in Arrays /\ g[b].element = h[b].element /\ DOMAIN g[b].data = DOMAIN h[b].data
             /\ b \in Leaves(h, a) => \A i \in DOMAIN g[b].data : g[b].data[i] = 0
  <2>1. CASE b \in Leaves(h, a)
    <3>1. g[b] = Zeroed(h[b].element, Count(h, b))
      BY <1>3, <2>1
    <3>2. /\ g[b] \in Arrays /\ g[b].element = h[b].element /\ Len(g[b].data) = Count(h, b)
          /\ \A i \in DOMAIN g[b].data : g[b].data[i] = 0
      BY <1>2, <3>1, ZeroedIs
    <3>3. DOMAIN g[b].data = 1..Len(g[b].data)
      BY <3>2 DEF Arrays
    <3> QED BY <1>2, <3>2, <3>3
  <2>2. CASE b \notin Leaves(h, a)
    BY <1>1, <1>3, <2>2
  <2> QED BY <2>1, <2>2
<1>6. g \in Seq(Arrays) /\ DOMAIN g = DOMAIN h
  BY <1>1, <1>4, <1>5, HeapFunction
<1>7. Leaves(h, a) \subseteq DOMAIN h /\ \A b \in Leaves(h, a) : h[b].element # "ref"
  BY LeavesAre
<1> QED BY <1>3, <1>5, <1>6, <1>7 DEF Rewritten, g

\* A number is below the lesser of two if it is below both.
LEMMA LeastIs ==
  ASSUME NEW x \in Int, NEW y \in Int
  PROVE  Least(x, y) \in Int /\ \A i \in Int : i <= Least(x, y) <=> i <= x /\ i <= y
BY DEF Least

\* fit() of scalars writes one array: what fits of the other, where it was zero
\* beyond.
LEMMA FitScalarsRewrites ==
  ASSUME NEW h, h \in Seq(Arrays), NEW to \in DOMAIN h, NEW from \in DOMAIN h, h[to].element # "ref"
  PROVE  /\ Rewritten(h, FitScalars(h, to, from), {to})
         /\ (\A i \in DOMAIN h[to].data : h[to].data[i] = 0) =>
              FitScalars(h, to, from)[to].data = Shaped(h[to], h[from].data)
<1> DEFINE m == Least(Room(h[to]), Count(h, from))
           d == [i \in DOMAIN h[to].data |-> IF i <= m THEN h[from].data[i] ELSE h[to].data[i]]
           g == FitScalars(h, to, from)
<1>1. /\ h[to].element \in {"char", "int", "ref"} /\ h[to].data \in Seq(Nat) /\ h[from].data \in Seq(Nat)
      /\ Len(h[to].data) \in Nat /\ DOMAIN h[to].data = 1..Len(h[to].data)
      /\ Len(h[from].data) \in Nat /\ DOMAIN h[from].data = 1..Len(h[from].data)
  BY ArrayIs
<1>2. Room(h[to]) \in Int /\ Room(h[to]) <= Len(h[to].data) /\ Count(h, from) = Len(h[from].data)
  BY <1>1 DEF Room, Count
<1>3. m \in Int /\ \A i \in Int : i <= m <=> i <= Room(h[to]) /\ i <= Len(h[from].data)
  <2>1. Room(h[to]) \in Int /\ Count(h, from) \in Int
    BY <1>1, <1>2
  <2>2. m \in Int /\ \A i \in Int : i <= m <=> i <= Room(h[to]) /\ i <= Count(h, from)
    BY <2>1, LeastIs
  <2> QED BY <1>2, <2>2
<1>4. \A b \in DOMAIN h : g[b] = IF b # to THEN h[b] ELSE [element |-> h[to].element, data |-> d]
  BY DEF FitScalars
<1>5. g = [b \in DOMAIN h |-> g[b]]
  BY DEF FitScalars
<1> HIDE DEF m, g
<1>6. d \in Seq(Nat) /\ DOMAIN d = DOMAIN h[to].data
  <2>1. \A i \in 1..Len(h[to].data) : i <= m => i \in DOMAIN h[from].data
    BY <1>1, <1>3
  <2>2. d \in [1..Len(h[to].data) -> Nat]
    BY SMTT(30), <1>1, <2>1
  <2> HIDE DEF d
  <2>3. \A count \in Nat : [1..count -> Nat] \subseteq Seq(Nat)
    OBVIOUS
  <2>4. d \in Seq(Nat)
    BY <1>1, <2>2, <2>3
  <2> QED BY <1>1, <2>2, <2>4
<1>7. (\A i \in DOMAIN h[to].data : h[to].data[i] = 0) => d = Shaped(h[to], h[from].data)
  BY <1>1, <1>3 DEF Shaped
<1> HIDE DEF d
<1>8. \A b \in DOMAIN h : g[b] \in Arrays
  <2>1. [element |-> h[to].element, data |-> d] \in Arrays
    BY <1>1, <1>6 DEF Arrays
  <2>2. \A b \in DOMAIN h : h[b] \in Arrays
    OBVIOUS
  <2> QED BY <1>4, <2>1, <2>2
<1>9. g \in Seq(Arrays) /\ DOMAIN g = DOMAIN h
  BY <1>5, <1>8, HeapFunction
<1>10. Rewritten(h, g, {to})
  BY <1>4, <1>6, <1>9 DEF Rewritten
<1> QED BY <1>4, <1>7, <1>10 DEF g

\* Rewriting keeps the sizes, and so what a text cut to size is.
LEMMA ShapedAlike ==
  ASSUME NEW h, NEW g, NEW S, h \in Seq(Arrays), Rewritten(h, g, S), NEW a \in DOMAIN h
  PROVE  /\ Len(g[a].data) = Len(h[a].data)
         /\ \A data : Shaped(g[a], data) = Shaped(h[a], data)
<1>1. /\ g \in Seq(Arrays) /\ a \in DOMAIN g /\ g[a].element = h[a].element
      /\ DOMAIN g[a].data = DOMAIN h[a].data
  BY DEF Rewritten
<1>2. /\ Len(g[a].data) \in Nat /\ DOMAIN g[a].data = 1..Len(g[a].data)
      /\ Len(h[a].data) \in Nat /\ DOMAIN h[a].data = 1..Len(h[a].data)
  BY <1>1, ArrayIs
<1>3. 1..Len(g[a].data) = 1..Len(h[a].data)
  BY <1>1, <1>2
<1>4. Len(g[a].data) = Len(h[a].data)
  BY <1>2, <1>3
<1>5. Room(g[a]) = Room(h[a])
  BY <1>1, <1>4 DEF Room
<1> QED BY <1>1, <1>4, <1>5 DEF Shaped

\* The rows two tables share, and the tables after each of them is copied.
LEMMA RowsAre ==
  ASSUME NEW h, Typed(h), NEW to \in DOMAIN h, NEW from \in DOMAIN h,
         h[to].element = "ref", h[from].element = "ref"
  PROVE  LET rows == Least(Count(h, to), Count(h, from))
             After == FitRows(h, to, from)
         IN  /\ rows \in Nat
             /\ \A i \in 1..rows : i \in DOMAIN h[to].data /\ i \in DOMAIN h[from].data
             /\ \A i \in 1..Count(h, to) : i \in DOMAIN h[from].data => i <= rows
             /\ After[0] = h
             /\ \A i \in 1..rows : After[i] = FitRow(After[i - 1], to, from, i)
<1> DEFINE rows == Least(Count(h, to), Count(h, from))
           After == FitRows(h, to, from)
<1>1. h \in Seq(Arrays)
  BY DEF Typed
<1>2. /\ Count(h, to) \in Nat /\ DOMAIN h[to].data = 1..Count(h, to)
      /\ Count(h, from) \in Nat /\ DOMAIN h[from].data = 1..Count(h, from)
  BY <1>1, ArrayIs DEF Count
<1>3. rows \in Nat /\ rows <= Count(h, to) /\ rows <= Count(h, from)
      /\ (rows = Count(h, to) \/ rows = Count(h, from))
  BY <1>2 DEF Least
<1>4. After = [i \in 0..rows |-> IF i = 0 THEN h ELSE FitRow(After[i - 1], to, from, i)]
  BY <1>3, RowByRow
<1> HIDE DEF rows, After
<1>5. After[0] = h /\ \A i \in 1..rows : After[i] = FitRow(After[i - 1], to, from, i)
  BY <1>3, <1>4
<1>6. /\ \A i \in 1..rows : i \in DOMAIN h[to].data /\ i \in DOMAIN h[from].data
      /\ \A i \in 1..Count(h, to) : i \in DOMAIN h[from].data => i <= rows
  BY <1>2, <1>3
<1> QED BY <1>3, <1>5, <1>6 DEF rows, After

\* However rows are shared, fitting a table writes rows of it and nothing else.
LEMMA FitRowsRewrites ==
  ASSUME NEW h, Typed(h), NEW to \in DOMAIN h, NEW from \in DOMAIN h,
         h[to].element = "ref", h[from].element = "ref"
  PROVE  \A i \in 0..Least(Count(h, to), Count(h, from)) :
           Rewritten(h, FitRows(h, to, from)[i], Leaves(h, to))
<1> DEFINE rows == Least(Count(h, to), Count(h, from))
           After == FitRows(h, to, from)
           S == {i \in 0..rows : Rewritten(h, After[i], Leaves(h, to))}
<1>1. /\ rows \in Nat /\ After[0] = h
      /\ \A i \in 1..rows : /\ i \in DOMAIN h[to].data /\ i \in DOMAIN h[from].data
                           /\ After[i] = FitRow(After[i - 1], to, from, i)
  BY RowsAre
<1> HIDE DEF rows, After
<1>2. 0 \in S
  <2>1. Rewritten(h, h, Leaves(h, to))
    BY DEF Rewritten, Typed
  <2> QED BY <1>1, <2>1
<1>3. ASSUME NEW i \in 1..rows, i - 1 \in S
      PROVE  i \in S
  <2> DEFINE g == After[i - 1]
  <2>1. Rewritten(h, g, Leaves(h, to)) /\ After[i] = FitRow(g, to, from, i)
    BY <1>1, <1>3
  <2> HIDE DEF g
  <2>2. Typed(g) /\ DOMAIN g = DOMAIN h /\ g[to] = h[to] /\ g[from] = h[from]
    BY <2>1, RewrittenIsTyped DEF Rewritten
  <2>3. CASE h[to].data[i] = Null \/ h[from].data[i] = Null
    BY <1>1, <2>1, <2>2, <2>3 DEF FitRow
  <2>4. CASE ~(h[to].data[i] = Null \/ h[from].data[i] = Null)
    <3> DEFINE a == h[to].data[i]
               b == h[from].data[i]
    <3>1. After[i] = FitScalars(g, a, b)
      BY <2>1, <2>2, <2>4 DEF FitRow
    <3>2. a \in Leaves(h, to)
      BY <1>1, <2>4 DEF Leaves
    <3>3. a \in DOMAIN h /\ b \in DOMAIN h /\ h[a].element = "int"
      BY <1>1, <2>4 DEF Typed
    <3> HIDE DEF a, b
    <3>4. g[a].element # "ref" /\ g \in Seq(Arrays)
      BY <2>1, <2>2, <3>3 DEF Rewritten, Typed
    <3>5. Rewritten(g, After[i], {a})
      BY <2>2, <3>1, <3>3, <3>4, FitScalarsRewrites
    <3>6. Rewritten(g, After[i], Leaves(h, to))
      BY <3>2, <3>5 DEF Rewritten
    <3>7. Rewritten(h, After[i], Leaves(h, to))
      BY <2>1, <3>6, RewrittenTwice
    <3> QED BY <1>3, <3>7
  <2> QED BY <2>3, <2>4
<1> HIDE DEF S
<1>4. \A i \in 0..rows : i \in S
  BY <1>1, <1>2, <1>3, Upward
<1> QED BY <1>4 DEF S, rows, After

\* Between tables that share no rows, each row of the one takes what fits of the
\* row of the other.
LEMMA FitRowsCopies ==
  ASSUME NEW h, Typed(h), NEW to \in DOMAIN h, NEW from \in DOMAIN h,
         h[to].element = "ref", h[from].element = "ref", Apart(h, to, from),
         \A a \in Leaves(h, to) : \A x \in DOMAIN h[a].data : h[a].data[x] = 0
  PROVE  \A i \in 0..Least(Count(h, to), Count(h, from)) :
           \A k \in DOMAIN h[to].data : h[to].data[k] # Null =>
             FitRows(h, to, from)[i][h[to].data[k]].data =
               IF k <= i /\ h[from].data[k] # Null
               THEN Shaped(h[h[to].data[k]], h[h[from].data[k]].data)
               ELSE h[h[to].data[k]].data
<1> DEFINE rows == Least(Count(h, to), Count(h, from))
           After == FitRows(h, to, from)
           row(k) == h[to].data[k]
           other(k) == h[from].data[k]
           RowIs(i, k) ==
             After[i][row(k)].data = IF k <= i /\ other(k) # Null
                                     THEN Shaped(h[row(k)], h[other(k)].data)
                                     ELSE h[row(k)].data
           S == {i \in 0..rows : \A k \in DOMAIN h[to].data : row(k) # Null => RowIs(i, k)}
<1>1. /\ rows \in Nat /\ After[0] = h
      /\ \A i \in 1..rows : /\ i \in DOMAIN h[to].data /\ i \in DOMAIN h[from].data
                           /\ After[i] = FitRow(After[i - 1], to, from, i)
  BY RowsAre
<1>2. h \in Seq(Arrays) /\ \A k \in DOMAIN h[to].data : k \in Nat \ {0}
  <2>1. h \in Seq(Arrays)
    BY DEF Typed
  <2> QED BY <2>1, ArrayIs
<1>3. \A i \in 0..rows : Rewritten(h, After[i], Leaves(h, to))
  BY FitRowsRewrites
<1>4. \A k \in DOMAIN h[to].data : row(k) # Null =>
        row(k) \in Leaves(h, to) /\ row(k) \in DOMAIN h /\ h[row(k)].element = "int"
  BY DEF Leaves, Typed
<1>5. \A k \in DOMAIN h[from].data : other(k) # Null =>
        other(k) \in Leaves(h, from) /\ other(k) \in DOMAIN h /\ other(k) \notin Leaves(h, to)
             /\ h[other(k)].element = "int"
  BY DEF Leaves, Typed, Apart
<1>6. \A k, l \in DOMAIN h[to].data : row(k) # Null /\ row(k) = row(l) => k = l
  BY DEF Apart
<1> HIDE DEF rows, After
<1>7. 0 \in S
  <2>1. \A k \in DOMAIN h[to].data : ~(k <= 0)
    BY <1>2
  <2> QED BY <1>1, <2>1
<1>8. ASSUME NEW i \in 1..rows, i - 1 \in S
      PROVE  i \in S
  <2> DEFINE g == After[i - 1]
  <2>1. Rewritten(h, g, Leaves(h, to)) /\ After[i] = FitRow(g, to, from, i)
    BY <1>1, <1>3
  <2>2. i \in DOMAIN h[to].data /\ i \in DOMAIN h[from].data
    BY <1>1
  <2>3. \A k \in DOMAIN h[to].data : row(k) # Null => RowIs(i - 1, k)
    BY <1>8
  <2>4. Typed(g) /\ DOMAIN g = DOMAIN h /\ g[to] = h[to] /\ g[from] = h[from] /\ g \in Seq(Arrays)
    BY ZenonT(30), <2>1, RewrittenIsTyped DEF Rewritten
  <2>5. ASSUME NEW k \in DOMAIN h[to].data, row(k) # Null
        PROVE  RowIs(i, k)
    <3>1. CASE row(i) = Null \/ other(i) = Null
      <4>1. After[i] = g
        BY <2>1, <2>4, <3>1 DEF FitRow
      <4>2. CASE k = i
        <5>1. ~(k <= i - 1) /\ other(k) = Null
          BY <1>2, <2>5, <3>1, <4>2
        <5> QED BY <2>3, <2>5, <4>1, <5>1
      <4>3. CASE k # i
        <5>1. k <= i <=> k <= i - 1
          BY <1>2, <4>3
        <5> QED BY <2>3, <2>5, <4>1, <5>1
      <4> QED BY <4>2, <4>3
    <3>2. CASE ~(row(i) = Null \/ other(i) = Null)
      <4>1. After[i] = FitScalars(g, row(i), other(i))
        BY <2>1, <2>4, <3>2 DEF FitRow
      <4>2. row(i) \in DOMAIN g /\ other(i) \in DOMAIN g /\ g[row(i)].element # "ref"
        BY <1>4, <1>5, <2>1, <2>2, <2>4, <3>2 DEF Rewritten
      <4>3. /\ Rewritten(g, After[i], {row(i)})
            /\ (\A x \in DOMAIN g[row(i)].data : g[row(i)].data[x] = 0) =>
                  After[i][row(i)].data = Shaped(g[row(i)], g[other(i)].data)
        <5> DEFINE a == row(i)
                   b == other(i)
        <5> HIDE DEF a, b, g
        <5>1. Rewritten(g, FitScalars(g, a, b), {a})
                /\ ((\A x \in DOMAIN g[a].data : g[a].data[x] = 0) =>
                      FitScalars(g, a, b)[a].data = Shaped(g[a], g[b].data))
          BY <2>4, <4>2, FitScalarsRewrites DEF a, b
        <5> QED BY <4>1, <5>1 DEF a, b
      <4>4. CASE k = i
        <5>1. ~(i <= i - 1) /\ i <= i
          OBVIOUS
        <5>2. g[row(i)].data = h[row(i)].data
          BY <2>2, <2>3, <3>2, <5>1
        <5>3. \A x \in DOMAIN g[row(i)].data : g[row(i)].data[x] = 0
          BY <1>4, <2>2, <3>2, <5>2
        <5>4. g[other(i)] = h[other(i)]
          BY <1>5, <2>1, <2>2, <3>2 DEF Rewritten
        <5>5. Shaped(g[row(i)], h[other(i)].data) = Shaped(h[row(i)], h[other(i)].data)
          BY <1>2, <1>4, <2>1, <2>2, <3>2, ShapedAlike
        <5> QED BY <3>2, <4>3, <4>4, <5>1, <5>3, <5>4, <5>5
      <4>5. CASE k # i
        <5>1. row(k) # row(i)
          BY <1>6, <2>2, <2>5, <4>5
        <5>2. After[i][row(k)] = g[row(k)]
          BY <1>4, <2>4, <2>5, <4>3, <5>1 DEF Rewritten
        <5>3. k <= i <=> k <= i - 1
          BY <1>2, <4>5
        <5> QED BY <2>3, <2>5, <5>2, <5>3
      <4> QED BY <4>4, <4>5
    <3> QED BY <3>1, <3>2
  <2> QED BY <1>8, <2>5
<1> HIDE DEF S
<1>9. \A i \in 0..rows : i \in S
  BY <1>1, <1>7, <1>8, Upward
<1> QED BY <1>9 DEF S, rows, After

\* A sequence of zeros is known by its length.
LEMMA AllZero ==
  ASSUME NEW data \in Seq(Nat), \A i \in DOMAIN data : data[i] = 0
  PROVE  data = [i \in DOMAIN data |-> 0]
<1>1. data \in [1..Len(data) -> Nat] /\ DOMAIN data = 1..Len(data)
  OBVIOUS
<1> QED BY <1>1

\* The last row two tables share is counted.
LEMMA LastIsLeast ==
  ASSUME NEW h, Typed(h), NEW to \in DOMAIN h, NEW from \in DOMAIN h,
         h[to].element = "ref", h[from].element = "ref"
  PROVE  Least(Count(h, to), Count(h, from)) \in 0..Least(Count(h, to), Count(h, from))
<1>1. Least(Count(h, to), Count(h, from)) \in Nat
  BY RowsAre
<1> QED BY <1>1

\* shm_array_fill() writes scalars of its target, and nothing else of the heap.
LEMMA FilledRewrites ==
  ASSUME NEW h, Typed(h), NEW to \in DOMAIN h, NEW from \in DOMAIN h, h[to].element = h[from].element
  PROVE  Rewritten(h, Filled(h, to, from), Leaves(h, to))
<1> DEFINE g == Cleared(h, to)
<1>1. Rewritten(h, g, Leaves(h, to))
  BY ClearedRewrites
<1> HIDE DEF g
<1>2. Typed(g) /\ Leaves(g, to) = Leaves(h, to)
  BY <1>1, RewrittenIsTyped
<1>3. /\ g \in Seq(Arrays) /\ DOMAIN g = DOMAIN h
      /\ g[to].element = h[to].element /\ g[from].element = h[to].element
  BY <1>1 DEF Rewritten
<1>4. Filled(h, to, from) = Fit(g, to, from)
  BY DEF Filled, g
<1>5. CASE h[to].element # "ref"
  <2>1. Rewritten(g, Fit(g, to, from), {to}) /\ Leaves(h, to) = {to}
    BY <1>3, <1>5, FitScalarsRewrites DEF Fit, Leaves
  <2> QED BY <1>1, <1>4, <2>1, RewrittenTwice
<1>6. CASE h[to].element = "ref"
  <2>1. Rewritten(g, Fit(g, to, from), Leaves(g, to))
    BY <1>2, <1>3, <1>6, FitRowsRewrites, LastIsLeast DEF Fit
  <2> QED BY <1>1, <1>2, <1>4, <2>1, RewrittenTwice
<1> QED BY <1>5, <1>6

\* It leaves in its target what the language says of "a : b".
LEMMA FilledCopies ==
  ASSUME NEW h, Typed(h), NEW to \in DOMAIN h, NEW from \in DOMAIN h, h[to].element = h[from].element,
         Apart(h, to, from)
  PROVE  Shown(Filled(h, to, from), to) = Copied(h, to, from)
<1> DEFINE g == Cleared(h, to)
<1>1. /\ Rewritten(h, g, Leaves(h, to))
      /\ \A b \in Leaves(h, to) : \A i \in DOMAIN g[b].data : g[b].data[i] = 0
  BY ClearedRewrites
<1>2. Filled(h, to, from) = Fit(g, to, from)
  BY DEF Filled
<1> HIDE DEF g
<1>3. Typed(g) /\ Leaves(g, to) = Leaves(h, to) /\ Leaves(g, from) = Leaves(h, from)
  BY <1>1, RewrittenIsTyped
<1>4. /\ g \in Seq(Arrays) /\ h \in Seq(Arrays) /\ DOMAIN g = DOMAIN h
      /\ g[to].element = h[to].element /\ g[from].element = h[to].element
  BY <1>1 DEF Rewritten, Typed
<1>5. CASE h[to].element # "ref"
  <2>1. Leaves(h, to) = {to} /\ from # to /\ g[from] = h[from]
    BY <1>1, <1>5 DEF Leaves, Apart, Rewritten
  <2>2. Fit(g, to, from)[to].data = Shaped(g[to], h[from].data)
    <3>1. \A x \in DOMAIN g[to].data : g[to].data[x] = 0
      BY <1>1, <2>1
    <3>2. FitScalars(g, to, from)[to].data = Shaped(g[to], g[from].data)
      BY <1>4, <1>5, <3>1, FitScalarsRewrites
    <3> QED BY <1>4, <1>5, <2>1, <3>2 DEF Fit
  <2>3. Shaped(g[to], h[from].data) = Shaped(h[to], h[from].data)
    BY <1>1, <1>4, ShapedAlike
  <2>4. Fit(g, to, from)[to].element = h[to].element
    BY <1>4, <1>5, FitScalarsRewrites DEF Fit, Rewritten
  <2> QED BY <1>2, <1>5, <2>2, <2>3, <2>4 DEF Shown, Copied
<1>6. CASE h[to].element = "ref"
  <2> DEFINE rows == Least(Count(g, to), Count(g, from))
             k == Fit(g, to, from)
  <2>1. g[to] = h[to] /\ g[from] = h[from]
    BY <1>1, <1>4, <1>6 DEF Rewritten
  <2>2. Apart(g, to, from)
    BY <1>3, <2>1 DEF Apart
  <2>3. k = FitRows(g, to, from)[rows] /\ rows \in 0..rows
    BY <1>3, <1>4, <1>6, LastIsLeast DEF Fit
  <2>4. \A i \in 1..Count(g, to) : i \in DOMAIN g[from].data => i <= rows
    BY <1>3, <1>4, <1>6, RowsAre
  <2>5. \A i \in 1..rows : i \in DOMAIN g[from].data
    BY <1>3, <1>4, <1>6, RowsAre
  <2>6. DOMAIN h[to].data = 1..Count(g, to) /\ \A i \in DOMAIN h[to].data : i \in Nat \ {0}
    BY <1>4, <2>1, ArrayIs DEF Count
  <2>7. \A a \in Leaves(g, to) : \A x \in DOMAIN g[a].data : g[a].data[x] = 0
    BY <1>1, <1>3
  <2>8. \A i \in DOMAIN g[to].data : g[to].data[i] # Null =>
          FitRows(g, to, from)[rows][g[to].data[i]].data =
            IF i <= rows /\ g[from].data[i] # Null
            THEN Shaped(g[g[to].data[i]], g[g[from].data[i]].data)
            ELSE g[g[to].data[i]].data
    BY <1>3, <1>4, <1>6, <2>2, <2>3, <2>7, FitRowsCopies
  <2>9. Rewritten(g, k, Leaves(g, to))
    BY <1>3, <1>4, <1>6, <2>3, FitRowsRewrites
  <2>10. k[to] = h[to]
    BY <1>4, <1>6, <2>1, <2>9 DEF Rewritten
  <2> HIDE DEF rows, k
  <2>11. ASSUME NEW i \in DOMAIN h[to].data, h[to].data[i] # Null
         PROVE  k[h[to].data[i]].data =
                  Shaped(h[h[to].data[i]],
                         IF i \in DOMAIN h[from].data /\ h[from].data[i] # Null
                         THEN h[h[from].data[i]].data ELSE <<>>)
    <3> DEFINE a == h[to].data[i]
               b == h[from].data[i]
    <3>1. a \in DOMAIN h /\ a \in Leaves(h, to)
      BY <1>6, <2>11 DEF Typed, Leaves
    <3>2. k[a].data = IF i <= rows /\ b # Null THEN Shaped(g[a], g[b].data) ELSE g[a].data
      BY <2>1, <2>3, <2>8, <2>11
    <3>3. i <= rows <=> i \in DOMAIN h[from].data
      BY <2>1, <2>3, <2>4, <2>5, <2>6
    <3>4. \A data : Shaped(g[a], data) = Shaped(h[a], data)
      BY <1>1, <1>4, <3>1, ShapedAlike
    <3>5. CASE i \in DOMAIN h[from].data /\ b # Null
      <4>1. b \in DOMAIN h /\ b \in Leaves(h, from) /\ b \notin Leaves(h, to)
        BY <1>4, <1>6, <3>5 DEF Typed, Leaves, Apart
      <4>2. g[b] = h[b]
        BY <1>1, <4>1 DEF Rewritten
      <4> QED BY <3>2, <3>3, <3>4, <3>5, <4>2
    <3>6. CASE ~(i \in DOMAIN h[from].data /\ b # Null)
      <4>1. g[a].data \in Seq(Nat) /\ DOMAIN g[a].data = 1..Len(g[a].data)
        BY <1>4, <3>1, ArrayIs
      <4>2. \A x \in DOMAIN g[a].data : g[a].data[x] = 0 /\ ~(x <= Len(<<>>))
        BY <1>1, <3>1, <4>1
      <4>3. g[a].data = [x \in DOMAIN g[a].data |-> 0]
        BY <4>1, <4>2, AllZero
      <4>4. Shaped(g[a], <<>>) = [x \in DOMAIN g[a].data |-> 0]
        BY <4>2 DEF Shaped
      <4> QED BY <3>2, <3>3, <3>4, <3>6, <4>3, <4>4
    <3> QED BY <3>5, <3>6
  <2>12. Shown(k, to) = [i \in DOMAIN h[to].data |->
                           IF h[to].data[i] = Null THEN <<>> ELSE k[h[to].data[i]].data]
    BY <1>6, <2>10 DEF Shown
  <2> QED BY <1>2, <1>6, <2>11, <2>12 DEF Copied, k
<1> QED BY <1>5, <1>6

\* A text with a NUL shows less than all its cells; what a text says is no longer
\* than the text.
LEMMA TextStops ==
  ASSUME NEW array, array.data \in Seq(Nat)
  PROVE  /\ TextOf(array) \in Seq(Nat)
         /\ (\E i \in DOMAIN array.data : array.data[i] = 0) => TextOf(array) # array.data
<1> DEFINE ends == {i \in DOMAIN array.data : array.data[i] = 0}
           first == CHOOSE i \in ends : \A j \in ends : i <= j
<1>1. CASE ends = {}
  BY <1>1 DEF TextOf
<1>2. CASE ends # {}
  <2>1. ends \subseteq Nat
    OBVIOUS
  <2>2. \E i \in ends : \A j \in ends : i <= j
    BY <1>2, <2>1, SmallestExists
  <2>3. first \in ends
    BY <2>2
  <2>4. first \in 1..Len(array.data) /\ Len(array.data) \in Nat
    BY <2>3
  <2>5. TextOf(array) = SubSeq(array.data, 1, first - 1)
    BY <1>2 DEF TextOf
  <2> HIDE DEF first
  <2>6. SubSeq(array.data, 1, first - 1) \in Seq(Nat) /\ Len(SubSeq(array.data, 1, first - 1)) = first - 1
    BY <2>4
  <2> QED BY <2>4, <2>5, <2>6
<1> QED BY <1>1, <1>2

\* An assigned text ends in NUL.
LEMMA FilledTextEnds ==
  ASSUME NEW h, Typed(h), NEW to \in DOMAIN h, NEW from \in DOMAIN h,
         h[to].element = "char", h[from].element = "char"
  PROVE  \E i \in DOMAIN Filled(h, to, from)[to].data : Filled(h, to, from)[to].data[i] = 0
<1> DEFINE g == Cleared(h, to)
<1>1. /\ Rewritten(h, g, Leaves(h, to)) /\ Leaves(h, to) = {to}
      /\ \A i \in DOMAIN g[to].data : g[to].data[i] = 0
  BY ClearedRewrites DEF Leaves
<1>2. Filled(h, to, from) = FitScalars(g, to, from)
  BY <1>1 DEF Filled, Fit, Rewritten
<1> HIDE DEF g
<1>3. /\ g \in Seq(Arrays) /\ DOMAIN g = DOMAIN h /\ g[to].element = "char" /\ Typed(g)
  BY <1>1, RewrittenIsTyped DEF Rewritten
<1>4. FitScalars(g, to, from)[to].data = Shaped(g[to], g[from].data)
  BY <1>1, <1>3, FitScalarsRewrites
<1>5. DOMAIN g[to].data = 1..Len(g[to].data) /\ Len(g[to].data) \in Nat /\ Len(g[to].data) > 0
  BY <1>3, ArrayIs DEF Typed
<1>6. Len(g[to].data) \in DOMAIN g[to].data /\ ~(Len(g[to].data) <= Room(g[to]))
  BY <1>3, <1>5 DEF Room
<1>7. Shaped(g[to], g[from].data)[Len(g[to].data)] = 0
        /\ Len(g[to].data) \in DOMAIN Shaped(g[to], g[from].data)
  BY <1>6 DEF Shaped
<1> QED BY <1>2, <1>4, <1>7

\* One more array leaves the others as they are.
LEMMA AppendGrows ==
  ASSUME NEW h, Typed(h), NEW array \in Arrays,
         array.element = "char" => Len(array.data) > 0,
         array.element = "ref" => \A i \in DOMAIN array.data :
           array.data[i] # Null => array.data[i] \in DOMAIN h /\ h[array.data[i]].element = "int"
  PROVE  /\ Grown(h, Append(h, array))
         /\ DOMAIN Append(h, array) = DOMAIN h \cup {Len(h) + 1}
         /\ Append(h, array)[Len(h) + 1] = array
         /\ Len(h) + 1 \notin DOMAIN h
<1> DEFINE g == Append(h, array)
<1>1. h \in Seq(Arrays) /\ DOMAIN h = 1..Len(h) /\ Len(h) \in Nat
  BY DEF Typed
<1>2. /\ g \in Seq(Arrays) /\ DOMAIN g = 1..Len(h) + 1
      /\ \A a \in DOMAIN h : g[a] = h[a]
      /\ g[Len(h) + 1] = array
  BY <1>1
<1>3. DOMAIN g = DOMAIN h \cup {Len(h) + 1} /\ Len(h) + 1 \notin DOMAIN h
  BY <1>1, <1>2
<1> HIDE DEF g
<1>4. Typed(g)
  <2>1. ASSUME NEW a \in DOMAIN g
        PROVE  /\ g[a].element = "char" => Len(g[a].data) > 0
               /\ g[a].element = "ref" =>
                    \A i \in DOMAIN g[a].data :
                      g[a].data[i] # Null => g[a].data[i] \in DOMAIN g /\ g[g[a].data[i]].element = "int"
    <3>1. CASE a \in DOMAIN h
      <4>1. g[a] = h[a]
        BY <1>2, <3>1
      <4>2. h[a].element = "char" => Len(h[a].data) > 0
        BY <3>1 DEF Typed
      <4>3. ASSUME h[a].element = "ref", NEW i \in DOMAIN h[a].data, h[a].data[i] # Null
            PROVE  h[a].data[i] \in DOMAIN g /\ g[h[a].data[i]].element = "int"
        BY <1>2, <1>3, <3>1, <4>3 DEF Typed
      <4> QED BY <4>1, <4>2, <4>3
    <3>2. CASE a = Len(h) + 1
      BY <1>2, <1>3, <3>2
    <3> QED BY <1>3, <3>1, <3>2
  <2> QED BY <1>2, <2>1 DEF Typed
<1> QED BY <1>2, <1>3, <1>4 DEF Grown, g

\* A new text is one more array; the others are where they were.
LEMMA TextGrows ==
  ASSUME NEW h, Typed(h), NEW array \in Arrays, array.element = "char", Len(array.data) > 0
  PROVE  /\ Grown(h, Append(h, array)) /\ (Whole(h) => Whole(Append(h, array)))
         /\ DOMAIN Append(h, array) = DOMAIN h \cup {Len(h) + 1}
         /\ Append(h, array)[Len(h) + 1] = array
         /\ Len(h) + 1 \notin DOMAIN h
<1>1. /\ Grown(h, Append(h, array))
      /\ DOMAIN Append(h, array) = DOMAIN h \cup {Len(h) + 1}
      /\ Append(h, array)[Len(h) + 1] = array
      /\ Len(h) + 1 \notin DOMAIN h
  BY AppendGrows
<1>2. Whole(h) => Whole(Append(h, array))
  BY <1>1 DEF Whole, Grown
<1> QED BY <1>1, <1>2

\* Where the elements of two sequences are when they are joined.
LEMMA Joining ==
  ASSUME NEW s \in Seq(Arrays), NEW t \in Seq(Arrays)
  PROVE  /\ s \o t \in Seq(Arrays) /\ Len(s \o t) = Len(s) + Len(t)
         /\ \A i \in 1..Len(s) : (s \o t)[i] = s[i]
         /\ \A i \in 1..Len(t) : (s \o t)[Len(s) + i] = t[i]
<1>1. s \o t \in Seq(Arrays) /\ Len(s \o t) = Len(s) + Len(t) /\ Len(s) \in Nat /\ Len(t) \in Nat
  OBVIOUS
<1>2. \A i \in 1..Len(s) : (s \o t)[i] = s[i]
  OBVIOUS
<1>3. ASSUME NEW i \in 1..Len(t) PROVE (s \o t)[Len(s) + i] = t[i]
  <2>1. Len(s) + i \in 1..Len(s) + Len(t) /\ ~(Len(s) + i <= Len(s)) /\ Len(s) + i - Len(s) = i
    BY <1>1
  <2> QED BY <2>1
<1> QED BY <1>1, <1>2, <1>3

\* build() makes an array of the kind asked, with rows of its own.
LEMMA BuiltGrows ==
  ASSUME NEW h, Typed(h), NEW kind \in {"char", "int", "ref"}, NEW dims,
         dims[1] \in Nat \ {0}, kind = "ref" => dims[2] \in Nat
  PROVE  LET g == Built(h, kind, dims)
         IN  /\ Grown(h, g) /\ (Whole(h) => Whole(g))
             /\ Len(h) + 1 \in DOMAIN g /\ Len(h) + 1 \notin DOMAIN h
             /\ g[Len(h) + 1].element = kind
             /\ Leaves(g, Len(h) + 1) \cap DOMAIN h = {}
<1> DEFINE g == Built(h, kind, dims)
           top == Len(h) + 1
<1>1. h \in Seq(Arrays) /\ DOMAIN h = 1..Len(h) /\ Len(h) \in Nat
  BY DEF Typed
<1>2. CASE kind # "ref"
  <2> DEFINE array == Zeroed(kind, dims[1])
  <2>1. array \in Arrays /\ array.element = kind /\ Len(array.data) = dims[1]
    BY ZeroedIs
  <2>2. g = Append(h, array)
    BY <1>2 DEF Built
  <2> HIDE DEF array, g
  <2>3. /\ Grown(h, g) /\ DOMAIN g = DOMAIN h \cup {top} /\ g[top] = array /\ top \notin DOMAIN h
    BY <1>2, <2>1, <2>2, AppendGrows
  <2>4. Whole(h) => Whole(g)
    BY <1>2, <2>1, <2>3 DEF Whole, Grown
  <2>5. Leaves(g, top) = {top}
    BY <1>2, <2>1, <2>3 DEF Leaves
  <2> QED BY <2>1, <2>3, <2>4, <2>5 DEF g
<1>3. CASE kind = "ref"
  <2> DEFINE count == dims[1]
             refs == [element |-> "ref", data |-> [i \in 1..count |-> top + i]]
             rows == [i \in 1..count |-> Zeroed("int", dims[2])]
             most == top + count
  <2>1. count \in Nat \ {0} /\ top \in Nat \ {0} /\ most \in Nat
    BY <1>1
  <2>2. refs \in Arrays /\ refs.element = "ref" /\ refs.data = [i \in 1..count |-> top + i]
    <3>1. [i \in 1..count |-> top + i] \in Seq(Nat)
      BY <2>1
    <3> QED BY <3>1 DEF Arrays
  <2>3. /\ Zeroed("int", dims[2]) \in Arrays /\ Zeroed("int", dims[2]).element = "int"
    BY <1>3, ZeroedIs
  <2>4. rows \in Seq(Arrays) /\ Len(rows) = count /\ \A i \in 1..count : rows[i] = Zeroed("int", dims[2])
    BY <2>1, <2>3
  <2>5. g = Append(h, refs) \o rows
    BY <1>3 DEF Built
  <2> HIDE DEF refs, rows, g, count
  <2>6. Append(h, refs) \in Seq(Arrays) /\ Len(Append(h, refs)) = top
        /\ (\A a \in DOMAIN h : Append(h, refs)[a] = h[a]) /\ Append(h, refs)[top] = refs
    BY <1>1, <2>2
  <2>7. /\ g \in Seq(Arrays) /\ Len(g) = most
        /\ \A a \in 1..top : g[a] = Append(h, refs)[a]
        /\ \A i \in 1..count : g[top + i] = rows[i]
    <3> DEFINE first == Append(h, refs)
    <3>1. first \in Seq(Arrays) /\ rows \in Seq(Arrays) /\ Len(first) = top /\ Len(rows) = count
      BY <2>4, <2>6
    <3> HIDE DEF first, top
    <3>2. g = first \o rows
      BY <2>5 DEF first
    <3>3. /\ first \o rows \in Seq(Arrays) /\ Len(first \o rows) = Len(first) + Len(rows)
          /\ \A i \in 1..Len(first) : (first \o rows)[i] = first[i]
          /\ \A i \in 1..Len(rows) : (first \o rows)[Len(first) + i] = rows[i]
      BY <3>1, Joining
    <3>4. /\ g \in Seq(Arrays) /\ Len(g) = most
          /\ \A a \in 1..top : g[a] = first[a]
          /\ \A i \in 1..count : g[top + i] = rows[i]
      BY <3>1, <3>2, <3>3
    <3> QED BY <3>4 DEF first
  <2>8. DOMAIN g = 1..most
    BY <2>7
  <2>9. /\ DOMAIN h \subseteq DOMAIN g /\ top \in DOMAIN g /\ top \notin DOMAIN h
        /\ \A a \in DOMAIN h : g[a] = h[a]
        /\ g[top] = refs
    BY <1>1, <2>1, <2>6, <2>7, <2>8
  <2>10. ASSUME NEW a \in DOMAIN g, a \notin DOMAIN h, a # top
         PROVE  g[a].element = "int"
    <3>1. a - top \in 1..count /\ a = top + (a - top)
      BY <1>1, <2>1, <2>8, <2>10
    <3> QED BY <2>3, <2>4, <2>7, <3>1
  <2>11. \A i \in DOMAIN refs.data : /\ refs.data[i] \in DOMAIN g /\ refs.data[i] \notin DOMAIN h
                                   /\ refs.data[i] # top /\ refs.data[i] # Null
    <3>1. \A i \in 1..count : top + i \in 1..most /\ ~(top + i \in 1..Len(h)) /\ top + i # top /\ top + i # 0
      BY <1>1, <2>1
    <3> QED BY <1>1, <2>2, <2>8, <3>1 DEF Null
  <2>12. Typed(g)
    <3>1. ASSUME NEW a \in DOMAIN g
          PROVE  /\ g[a].element = "char" => Len(g[a].data) > 0
                 /\ g[a].element = "ref" =>
                      \A i \in DOMAIN g[a].data :
                        g[a].data[i] # Null => g[a].data[i] \in DOMAIN g /\ g[g[a].data[i]].element = "int"
      <4>1. CASE a \in DOMAIN h
        <5>1. h[a].element = "char" => Len(h[a].data) > 0
          BY <4>1 DEF Typed
        <5>2. ASSUME h[a].element = "ref", NEW i \in DOMAIN h[a].data, h[a].data[i] # Null
              PROVE  h[a].data[i] \in DOMAIN g /\ g[h[a].data[i]].element = "int"
          BY <2>9, <4>1, <5>2 DEF Typed
        <5> QED BY <2>9, <4>1, <5>1, <5>2
      <4>2. CASE a = top
        <5>1. \A i \in DOMAIN refs.data : refs.data[i] \in DOMAIN g /\ g[refs.data[i]].element = "int"
          BY <2>10, <2>11
        <5> QED BY <2>2, <2>9, <4>2, <5>1
      <4>3. CASE a \notin DOMAIN h /\ a # top
        BY <2>10, <4>3
      <4> QED BY <4>1, <4>2, <4>3
    <3> QED BY <2>7, <3>1 DEF Typed
  <2>13. Whole(h) => Whole(g)
    <3>1. ASSUME Whole(h), NEW a \in DOMAIN g, g[a].element = "ref", NEW i \in DOMAIN g[a].data
          PROVE  g[a].data[i] # Null
      <4>1. CASE a \in DOMAIN h
        BY <2>9, <3>1, <4>1 DEF Whole
      <4>2. CASE a = top
        BY <2>9, <2>11, <3>1, <4>2
      <4>3. CASE a \notin DOMAIN h /\ a # top
        BY <2>10, <3>1, <4>3
      <4> QED BY <4>1, <4>2, <4>3
    <3> QED BY <3>1 DEF Whole
  <2>14. Leaves(g, top) \cap DOMAIN h = {}
    <3>1. Leaves(g, top) = {refs.data[i] : i \in DOMAIN refs.data} \ {Null}
      BY ZenonT(30), <2>2, <2>9 DEF Leaves
    <3>2. ASSUME NEW b \in Leaves(g, top) PROVE b \notin DOMAIN h
      <4>1. PICK i \in DOMAIN refs.data : b = refs.data[i]
        BY <3>1
      <4> QED BY <2>11, <4>1
    <3> QED BY <3>2
  <2>15. g[top].element = kind
    BY <1>3, <2>2, <2>9
  <2> HIDE DEF top
  <2> QED BY <2>9, <2>12, <2>13, <2>14, <2>15 DEF Grown, g, top
<1> QED BY <1>2, <1>3

\* Filling an array just made disturbs none of those before it.
LEMMA BuiltAndFilledGrows ==
  ASSUME NEW h, NEW g, Grown(h, g), Whole(h) => Whole(g), NEW to \in DOMAIN g, NEW from \in DOMAIN h,
         g[to].element = h[from].element, Leaves(g, to) \cap DOMAIN h = {}
  PROVE  LET k == Filled(g, to, from)
         IN  /\ Grown(h, k) /\ (Whole(h) => Whole(k))
             /\ to \in DOMAIN k /\ k[to].element = g[to].element
<1> DEFINE k == Filled(g, to, from)
<1>1. Typed(g) /\ from \in DOMAIN g /\ g[from] = h[from]
  BY DEF Grown
<1>2. Rewritten(g, k, Leaves(g, to))
  BY <1>1, FilledRewrites
<1> HIDE DEF k
<1>3. Typed(k) /\ (Whole(g) => Whole(k)) /\ DOMAIN k = DOMAIN g /\ k[to].element = g[to].element
  BY <1>1, <1>2, RewrittenIsTyped DEF Rewritten
<1>4. \A a \in DOMAIN h : k[a] = h[a]
  BY <1>2 DEF Grown, Rewritten
<1> QED BY <1>3, <1>4 DEF Grown, k

\* shm_array_fill() from an array nothing else refers to writes one text.
LEMMA FilledFromRewrites ==
  ASSUME NEW h, Typed(h), NEW to \in DOMAIN h, h[to].element = "char",
         NEW array \in Arrays, array.element = "char", Len(array.data) > 0
  PROVE  /\ Rewritten(h, FilledFrom(h, to, array), {to})
         /\ \E i \in DOMAIN FilledFrom(h, to, array)[to].data : FilledFrom(h, to, array)[to].data[i] = 0
<1> DEFINE g == Append(h, array)
           k == Filled(g, to, Len(h) + 1)
           r == FilledFrom(h, to, array)
<1>1. h \in Seq(Arrays) /\ DOMAIN h = 1..Len(h) /\ Len(h) \in Nat
  BY DEF Typed
<1>2. /\ Grown(h, g) /\ DOMAIN g = DOMAIN h \cup {Len(h) + 1}
      /\ g[Len(h) + 1] = array /\ Len(h) + 1 \notin DOMAIN h
  BY TextGrows
<1>3. r = SubSeq(k, 1, Len(h))
  BY DEF FilledFrom
<1> HIDE DEF g, r
<1>4. /\ Typed(g) /\ to \in DOMAIN g /\ Len(h) + 1 \in DOMAIN g /\ g[to] = h[to]
      /\ g[to].element = g[Len(h) + 1].element
      /\ g[to].element = "char" /\ g[Len(h) + 1].element = "char"
  BY <1>2 DEF Grown
<1>5. Rewritten(g, k, {to}) /\ \E i \in DOMAIN k[to].data : k[to].data[i] = 0
  BY <1>4, FilledRewrites, FilledTextEnds DEF Leaves
<1> HIDE DEF k
<1>6. k \in Seq(Arrays) /\ DOMAIN k = 1..Len(h) + 1
  BY <1>1, <1>2, <1>5 DEF Rewritten
<1>7. r \in Seq(Arrays) /\ DOMAIN r = DOMAIN h /\ \A a \in DOMAIN h : r[a] = k[a]
  <2>1. Len(k) \in Nat /\ DOMAIN k = 1..Len(k)
    BY <1>6
  <2>2. Len(k) = Len(h) + 1
    BY <1>1, <1>6, <2>1
  <2> QED BY <1>1, <1>3, <1>6, <2>2
<1>8. Rewritten(h, r, {to})
  BY <1>2, <1>5, <1>7 DEF Rewritten, Grown
<1> QED BY <1>5, <1>7, <1>8 DEF r

-------------------------------------------------------------------------------
(***************************************************************************)
(* What holds of a running program, and the four things a step can do.     *)
(***************************************************************************)
Held == \A v \in Variables : made(v) => at[v] \in DOMAIN heap /\ heap[at[v]].element = KindOf(v)

TextsApart == \A v, w \in Bodys(Texts) : v # w /\ made(v) => at[v] # at[w]

HeapInv ==
  /\ Typed(heap) /\ Variables \in Bodies /\ Held /\ TextsApart
  /\ leftOut \in BOOLEAN
  /\ leftOut \/ (outcome # "crashed" /\ Whole(heap))

TextsAlone ==
  \A v, w \in Bodys(Texts) :
    v # w /\ made(v) /\ made(w) /\ running' =>
      Shown(heap', at'[v]) = Shown(heap, at[v]) \/ Shown(heap', at'[w]) = Shown(heap, at[w])

\* A variable gets an array of its own.
New(v) ==
  /\ Grown(heap, heap')
  /\ Len(heap) + 1 \in DOMAIN heap' /\ Len(heap) + 1 \notin DOMAIN heap
  /\ heap'[Len(heap) + 1].element = KindOf(v)
  /\ at' = [at EXCEPT ![v] = Len(heap) + 1]
  /\ outcome' = outcome
  /\ leftOut' \in BOOLEAN /\ (leftOut => leftOut')
  /\ leftOut' \/ (Whole(heap) => Whole(heap'))

\* Scalars are written, of one text at most.
Wrote(S) ==
  /\ Rewritten(heap, heap', S)
  /\ \A a, b \in S : heap[a].element = "char" /\ heap[b].element = "char" => a = b
  /\ UNCHANGED <<at, outcome, leftOut>>

\* A table gets a row.
Moved(a) ==
  /\ heap[a].element = "ref"
  /\ Typed(heap') /\ DOMAIN heap' = DOMAIN heap
  /\ \A b \in DOMAIN heap : heap'[b].element = heap[b].element /\ (b # a => heap'[b] = heap[b])
  /\ leftOut \/ (Whole(heap) => Whole(heap'))
  /\ UNCHANGED <<at, outcome, leftOut>>

\* The process ends, through a missing row only if a literal left it out.
Stopped ==
  /\ outcome' \in {"failed", "crashed"} /\ (outcome' = "crashed" => leftOut)
  /\ heap' = <<>> /\ at' = [v \in Variables |-> Null]
  /\ UNCHANGED leftOut

\* Each variable is of the kind its list says.
LEMMA KindsAre ==
  ASSUME HeapAssumption, Variables \in Bodies
  PROVE  /\ \A v \in Bodys(Texts) : v \in Variables /\ KindOf(v) = "char"
         /\ \A v \in Bodys(Rows) : v \in Variables /\ KindOf(v) = "int"
         /\ \A v \in Bodys(Tables) : v \in Variables /\ KindOf(v) = "ref"
         /\ \A v \in Variables : KindOf(v) \in {"char", "int", "ref"}
         /\ \A v \in Variables : KindOf(v) = "char" => v \in Bodys(Texts)
BY DEF HeapAssumption, Bodys, KindOf

\* A variable that is made points to new arrays of its kind.
LEMMA NewKeeps ==
  ASSUME HeapAssumption, HeapInv, NEW v \in Variables, New(v)
  PROVE  HeapInv' /\ TextsAlone
<1> DEFINE top == Len(heap) + 1
<1>1. /\ Typed(heap') /\ DOMAIN heap \subseteq DOMAIN heap' /\ \A a \in DOMAIN heap : heap'[a] = heap[a]
      /\ top \in DOMAIN heap' /\ top \notin DOMAIN heap /\ heap'[top].element = KindOf(v)
  BY DEF New, Grown
<1>2. Variables' = Variables /\ at'[v] = top /\ \A w \in Variables : w # v => at'[w] = at[w]
  BY DEF New, Variables
<1> HIDE DEF top
<1>3. \A w \in Variables : KindOf(w)' = KindOf(w)
  BY DEF KindOf
<1>4. Held'
  <2>1. ASSUME NEW w \in Variables, at'[w] # Null
        PROVE  at'[w] \in DOMAIN heap' /\ heap'[at'[w]].element = KindOf(w)
    BY <1>1, <1>2, <2>1 DEF HeapInv, Held, made
  <2> QED BY <1>2, <1>3, <2>1 DEF Held, made
<1>5. TextsApart'
  <2>1. ASSUME NEW w \in Bodys(Texts), NEW u \in Bodys(Texts), w # u, at'[w] # Null
        PROVE  at'[w] # at'[u]
    <3>1. top # Null
      BY <1>1 DEF Typed, Null
    <3>2. \A x \in Variables : at[x] # top
      BY <1>1, <3>1 DEF HeapInv, Held, made
    <3> QED BY <1>2, <2>1, <3>2 DEF HeapInv, TextsApart, made, Bodys
  <2> QED BY <1>2, <2>1 DEF TextsApart, Bodys, made
<1>6. leftOut' \/ (outcome' # "crashed" /\ Whole(heap'))
  BY DEF HeapInv, New
<1>7. TextsAlone
  <2>1. ASSUME NEW w \in Variables, w # v, made(w)
        PROVE  Shown(heap', at'[w]) = Shown(heap, at[w])
    <3>1. at'[w] = at[w] /\ at[w] \in DOMAIN heap
      BY <1>2, <2>1 DEF HeapInv, Held
    <3>2. heap'[at[w]] = heap[at[w]]
      BY <1>1, <3>1
    <3>3. heap[at[w]].element = "ref" =>
            \A i \in DOMAIN heap[at[w]].data : heap[at[w]].data[i] # Null =>
              heap'[heap[at[w]].data[i]] = heap[heap[at[w]].data[i]]
      BY <1>1, <3>1 DEF HeapInv, Typed
    <3> QED BY <3>1, <3>2, <3>3 DEF Shown
  <2> QED BY <2>1 DEF TextsAlone, Bodys
<1>8. leftOut' \in BOOLEAN
  BY DEF New
<1> QED BY <1>1, <1>2, <1>4, <1>5, <1>6, <1>7, <1>8 DEF HeapInv

\* Writing into arrays of the heap keeps their kinds.
LEMMA WroteKeeps ==
  ASSUME HeapAssumption, HeapInv, NEW S, Wrote(S)
  PROVE  HeapInv' /\ TextsAlone
<1>1. /\ Rewritten(heap, heap', S) /\ UNCHANGED <<at, outcome, leftOut>> /\ Typed(heap)
  BY DEF HeapInv, Wrote
<1>2. Typed(heap') /\ (Whole(heap) => Whole(heap'))
  BY <1>1, RewrittenIsTyped
<1>3. /\ DOMAIN heap' = DOMAIN heap
      /\ \A a \in DOMAIN heap : heap'[a].element = heap[a].element /\ (a \notin S => heap'[a] = heap[a])
  BY <1>1 DEF Rewritten
<1>4. Variables' = Variables /\ (\A v : KindOf(v)' = KindOf(v)) /\ \A v : made(v)' <=> made(v)
  BY <1>1 DEF Variables, KindOf, made
<1>5. Held' /\ TextsApart'
  BY <1>1, <1>3, <1>4 DEF HeapInv, Held, TextsApart, Bodys
<1>6. TextsAlone
  <2>1. ASSUME NEW v \in Bodys(Texts), NEW w \in Bodys(Texts), v # w, made(v), made(w)
        PROVE  Shown(heap', at'[v]) = Shown(heap, at[v]) \/ Shown(heap', at'[w]) = Shown(heap, at[w])
    <3>1. /\ at[v] \in DOMAIN heap /\ heap[at[v]].element = "char"
          /\ at[w] \in DOMAIN heap /\ heap[at[w]].element = "char"
      BY <2>1, KindsAre DEF HeapInv, Held
    <3>2. at[v] # at[w]
      BY <2>1 DEF HeapInv, TextsApart
    <3>3. at[v] \notin S \/ at[w] \notin S
      BY <3>1, <3>2 DEF Wrote
    <3>4. heap'[at[v]] = heap[at[v]] \/ heap'[at[w]] = heap[at[w]]
      BY <1>3, <3>1, <3>3
    <3> QED BY <1>1, <3>1, <3>4 DEF Shown
  <2> QED BY <2>1 DEF TextsAlone
<1> QED BY <1>1, <1>2, <1>4, <1>5, <1>6 DEF HeapInv

\* A row that is put in place of another is a row.
LEMMA MovedKeeps ==
  ASSUME HeapAssumption, HeapInv, NEW a \in DOMAIN heap, Moved(a)
  PROVE  HeapInv' /\ TextsAlone
<1>1. Variables' = Variables /\ (\A v : KindOf(v)' = KindOf(v)) /\ (\A v : made(v)' <=> made(v)) /\ at' = at
  BY DEF Variables, KindOf, made, Moved
<1>2. HeapInv'
  BY <1>1 DEF HeapInv, Held, TextsApart, Bodys, Moved
<1>3. TextsAlone
  <2>1. ASSUME NEW v \in Bodys(Texts), made(v)
        PROVE  Shown(heap', at'[v]) = Shown(heap, at[v])
    <3>1. at[v] \in DOMAIN heap /\ heap[at[v]].element = "char"
      BY <2>1, KindsAre DEF HeapInv, Held
    <3>2. at[v] # a
      BY <3>1 DEF Moved
    <3>3. heap'[at[v]] = heap[at[v]]
      BY <3>1, <3>2 DEF Moved
    <3> QED BY <1>1, <3>1, <3>3 DEF Shown
  <2> QED BY <2>1 DEF TextsAlone
<1> QED BY <1>2, <1>3

\* A program that stopped changes nothing.
LEMMA StoppedKeeps ==
  ASSUME HeapAssumption, HeapInv, Stopped
  PROVE  HeapInv' /\ TextsAlone
<1>1. heap' = <<>> /\ Variables' = Variables /\ \A v \in Variables : at'[v] = Null
  BY DEF Stopped, Variables
<1>2. Typed(heap') /\ Whole(heap')
  BY <1>1 DEF Typed, Whole
<1>3. Held' /\ TextsApart'
  BY <1>1 DEF Held, TextsApart, made, Bodys
<1>4. TextsAlone
  BY DEF TextsAlone, running, Stopped
<1>5. leftOut' \/ (outcome' # "crashed" /\ Whole(heap'))
  BY <1>2 DEF Stopped
<1>6. leftOut' \in BOOLEAN
  BY DEF Stopped, HeapInv
<1> QED BY <1>1, <1>2, <1>3, <1>4, <1>5, <1>6 DEF HeapInv

-------------------------------------------------------------------------------
(***************************************************************************)
(* Every statement is one of the four.                                     *)
(***************************************************************************)
LEMMA ShapesAre ==
  ASSUME HeapAssumption, NEW kind \in {"char", "int", "ref"}, NEW dims \in Shapes[kind]
  PROVE  dims[1] \in Nat \ {0} /\ dims[2] \in Nat \ {0}
<1>1. Shapes[kind] \subseteq (Nat \ {0}) \X (Nat \ {0})
  BY DEF HeapAssumption
<1> QED BY <1>1

\* A text is made of chars, with its end.
LEMMA FromTextIs ==
  ASSUME NEW text \in Seq(Nat)
  PROVE  FromText(text) \in Arrays /\ FromText(text).element = "char" /\ Len(FromText(text).data) > 0
<1>1. Append(text, 0) \in Seq(Nat) /\ Len(Append(text, 0)) = Len(text) + 1 /\ Len(text) \in Nat
  OBVIOUS
<1> QED BY <1>1 DEF FromText, Arrays

\* Two texts joined are a text, with its end.
LEMMA JoinedIs ==
  ASSUME NEW a \in Arrays, NEW b \in Arrays
  PROVE  Joined(a, b) \in Arrays /\ Joined(a, b).element = "char" /\ Len(Joined(a, b).data) > 0
<1>1. a.data \in Seq(Nat) /\ b.data \in Seq(Nat)
  BY DEF Arrays
<1>2. TextOf(a) \in Seq(Nat) /\ TextOf(b) \in Seq(Nat)
  BY <1>1, TextStops
<1>3. TextOf(a) \o TextOf(b) \in Seq(Nat)
  BY <1>2
<1> QED BY <1>3, FromTextIs DEF Joined

\* What a variable holds is one of the arrays.
LEMMA HeldIs ==
  ASSUME HeapInv, NEW v \in Variables, made(v)
  PROVE  at[v] \in DOMAIN heap /\ heap[at[v]].element = KindOf(v) /\ heap[at[v]] \in Arrays
<1>1. at[v] \in DOMAIN heap /\ heap[at[v]].element = KindOf(v) /\ heap \in Seq(Arrays)
  BY DEF HeapInv, Held, Typed
<1> QED BY <1>1

\* That a literal left a row out is not forgotten.
LEMMA SameLeftOut ==
  ASSUME HeapInv, UNCHANGED leftOut
  PROVE  leftOut' \in BOOLEAN /\ (leftOut => leftOut')
BY DEF HeapInv

\* A declaration makes a variable of its kind.
LEMMA DeclareIs ==
  ASSUME HeapAssumption, HeapInv, NEW v \in Variables, NEW dims \in Shapes[KindOf(v)],
         Declare(v, dims)
  PROVE  New(v)
<1>1. KindOf(v) \in {"char", "int", "ref"} /\ Typed(heap)
  BY KindsAre DEF HeapInv
<1>2. dims[1] \in Nat \ {0} /\ dims[2] \in Nat \ {0}
  BY <1>1, ShapesAre
<1>3. heap' = Built(heap, KindOf(v), dims)
  BY DEF Declare, Grow
<1> QED BY <1>1, <1>2, <1>3, BuiltGrows, SameLeftOut DEF New, Declare

\* A declaration from another name makes a variable of its kind.
LEMMA DeclareFromIs ==
  ASSUME HeapAssumption, HeapInv, NEW v \in Variables, NEW dims \in Shapes[KindOf(v)],
         NEW w \in Variables, DeclareFrom(v, dims, w)
  PROVE  New(v)
<1> DEFINE g == Built(heap, KindOf(v), dims)
           top == Len(heap) + 1
<1>1. KindOf(v) \in {"char", "int", "ref"} /\ Typed(heap)
  BY KindsAre DEF HeapInv
<1>2. dims[1] \in Nat \ {0} /\ dims[2] \in Nat \ {0}
  BY <1>1, ShapesAre
<1>3. /\ Grown(heap, g) /\ (Whole(heap) => Whole(g)) /\ top \in DOMAIN g /\ top \notin DOMAIN heap
      /\ g[top].element = KindOf(v) /\ Leaves(g, top) \cap DOMAIN heap = {}
  BY <1>1, <1>2, BuiltGrows
<1>4. at[w] \in DOMAIN heap /\ heap[at[w]].element = KindOf(v)
  BY HeldIs DEF DeclareFrom
<1>5. heap' = Filled(g, top, at[w])
  BY DEF DeclareFrom, Grow
<1> HIDE DEF g
<1>6. /\ Grown(heap, heap') /\ (Whole(heap) => Whole(heap'))
      /\ top \in DOMAIN heap' /\ heap'[top].element = g[top].element
  BY <1>3, <1>4, <1>5, BuiltAndFilledGrows
<1> QED BY <1>3, <1>6, SameLeftOut DEF New, DeclareFrom

\* A declaration from a literal makes a text.
LEMMA CreateTextIs ==
  ASSUME HeapAssumption, HeapInv, NEW v \in Bodys(Texts), NEW text \in Seq(Nat), CreateText(v, text)
  PROVE  v \in Variables /\ New(v)
<1>1. FromText(text) \in Arrays /\ FromText(text).element = "char" /\ Len(FromText(text).data) > 0
  BY FromTextIs
<1>2. heap' = Append(heap, FromText(text)) /\ Typed(heap) /\ KindOf(v) = "char" /\ v \in Variables
  BY KindsAre DEF CreateText, Grow, HeapInv
<1> QED BY <1>1, <1>2, TextGrows, SameLeftOut DEF New, CreateText

\* A declaration from two texts makes a text.
LEMMA CreateJoinIs ==
  ASSUME HeapAssumption, HeapInv, NEW v \in Bodys(Texts), NEW w \in Bodys(Texts),
         NEW u \in Bodys(Texts), CreateJoin(v, w, u)
  PROVE  v \in Variables /\ New(v)
<1> DEFINE array == Joined(heap[at[w]], heap[at[u]])
<1>1. heap[at[w]] \in Arrays /\ heap[at[u]] \in Arrays
  BY HeldIs DEF CreateJoin, Bodys
<1>2. array \in Arrays /\ array.element = "char" /\ Len(array.data) > 0
  BY <1>1, JoinedIs
<1>3. heap' = Append(heap, array) /\ Typed(heap) /\ KindOf(v) = "char" /\ v \in Variables
  BY KindsAre DEF CreateJoin, Grow, HeapInv
<1> HIDE DEF array
<1> QED BY <1>2, <1>3, TextGrows, SameLeftOut DEF New, CreateJoin

\* A declaration from rows makes a table.
LEMMA CreateTableIs ==
  ASSUME HeapAssumption, HeapInv, NEW v \in Bodys(Tables),
         NEW rows \in [Indexes -> Made \cup {Null}], CreateTable(v, rows)
  PROVE  v \in Variables /\ New(v)
<1> DEFINE array == [element |-> "ref", data |-> rows]
<1>1. /\ heap' = Append(heap, array) /\ Typed(heap) /\ KindOf(v) = "ref" /\ v \in Variables
      /\ heap \in Seq(Arrays)
  BY KindsAre DEF CreateTable, Grow, HeapInv, Typed
<1>2. ASSUME NEW a \in Made, a # Null
      PROVE  a \in DOMAIN heap /\ heap[a].element = "int"
  <2>1. PICK w \in Bodys(Rows) : a = at[w]
    BY DEF Made
  <2>2. w \in Variables /\ KindOf(w) = "int"
    BY KindsAre DEF HeapInv
  <2> QED BY <1>2, <2>1, <2>2, HeldIs DEF made
<1>3. \A i \in Indexes : rows[i] # Null => rows[i] \in DOMAIN heap /\ heap[rows[i]].element = "int"
  BY <1>2
<1>4. \A i \in Indexes : rows[i] \in Nat
  BY <1>1, <1>3 DEF Null
<1>5. rows \in Seq(Nat) /\ DOMAIN rows = Indexes
  <2>1. rows \in [1..2 -> Nat]
    BY <1>4 DEF Indexes
  <2>2. \A count \in Nat : [1..count -> Nat] \subseteq Seq(Nat)
    OBVIOUS
  <2> QED BY <2>1, <2>2 DEF Indexes
<1>6. array \in Arrays
  BY <1>5 DEF Arrays
<1>7. /\ Grown(heap, heap') /\ DOMAIN heap' = DOMAIN heap \cup {Len(heap) + 1}
      /\ heap'[Len(heap) + 1] = array /\ Len(heap) + 1 \notin DOMAIN heap
  BY <1>1, <1>3, <1>5, <1>6, AppendGrows
<1>8. /\ leftOut' \in BOOLEAN /\ (leftOut => leftOut')
      /\ ~leftOut' => \A i \in Indexes : rows[i] # Null
  BY <1>5, Zenon DEF CreateTable
<1>9. ~leftOut' /\ Whole(heap) => Whole(heap')
  BY <1>5, <1>7, <1>8 DEF Whole, Grown
<1> HIDE DEF array
<1>10. /\ heap'[Len(heap) + 1].element = KindOf(v) /\ Len(heap) + 1 \in DOMAIN heap'
       /\ at' = [at EXCEPT ![v] = Len(heap) + 1] /\ outcome' = outcome
  BY <1>1, <1>7 DEF CreateTable, array
<1> QED BY <1>1, <1>7, <1>8, <1>9, <1>10 DEF New

\* A declaration from a text makes a text of its own.
LEMMA CreateCopyIs ==
  ASSUME HeapAssumption, HeapInv, NEW v \in Bodys(Texts), NEW w \in Bodys(Texts), CreateCopy(v, w)
  PROVE  v \in Variables /\ New(v)
<1> DEFINE dims == <<Count(heap, at[w])>>
           g == Built(heap, "char", dims)
           top == Len(heap) + 1
<1>1. v \in Variables /\ KindOf(v) = "char" /\ w \in Variables /\ KindOf(w) = "char" /\ Typed(heap)
  BY KindsAre DEF HeapInv
<1>2. at[w] \in DOMAIN heap /\ heap[at[w]].element = "char"
  BY <1>1, HeldIs DEF CreateCopy
<1>3. dims[1] \in Nat \ {0}
  BY <1>1, <1>2, ArrayIs DEF Typed, Count
<1>4. /\ Grown(heap, g) /\ (Whole(heap) => Whole(g)) /\ top \in DOMAIN g /\ top \notin DOMAIN heap
      /\ g[top].element = "char" /\ Leaves(g, top) \cap DOMAIN heap = {}
  BY <1>1, <1>3, BuiltGrows
<1>5. heap' = Filled(g, top, at[w])
  BY DEF CreateCopy, Grow
<1> HIDE DEF g
<1>6. /\ Grown(heap, heap') /\ (Whole(heap) => Whole(heap'))
      /\ top \in DOMAIN heap' /\ heap'[top].element = g[top].element
  BY <1>2, <1>4, <1>5, BuiltAndFilledGrows
<1> QED BY <1>1, <1>4, <1>6, SameLeftOut DEF New, CreateCopy

\* A whole assignment writes into the leaves of its target.
LEMMA AssignIs ==
  ASSUME HeapAssumption, HeapInv, NEW v \in Variables, NEW w \in Variables, Assign(v, w)
  PROVE  Wrote(Leaves(heap, at[v]))
<1>1. /\ at[v] \in DOMAIN heap /\ at[w] \in DOMAIN heap /\ Typed(heap)
      /\ heap[at[v]].element = heap[at[w]].element /\ heap' = Filled(heap, at[v], at[w])
  BY HeldIs DEF Assign, HeapInv
<1>2. Rewritten(heap, heap', Leaves(heap, at[v]))
  BY <1>1, FilledRewrites
<1>3. \A b \in Leaves(heap, at[v]) : heap[b].element = "char" => b = at[v]
  BY <1>1, LeavesAre
<1> QED BY <1>2, <1>3 DEF Wrote, Assign

\* A text assigned from an array only the statement knows.
LEMMA AssignTextIs ==
  ASSUME HeapAssumption, HeapInv, NEW v \in Bodys(Texts), NEW text \in Seq(Nat), AssignText(v, text)
  PROVE  Wrote({at[v]})
<1>1. at[v] \in DOMAIN heap /\ heap[at[v]].element = "char" /\ Typed(heap)
  BY KindsAre, HeldIs DEF AssignText, HeapInv
<1>2. FromText(text) \in Arrays /\ FromText(text).element = "char" /\ Len(FromText(text).data) > 0
  BY FromTextIs
<1>3. heap' = FilledFrom(heap, at[v], FromText(text))
  BY DEF AssignText
<1>4. Rewritten(heap, heap', {at[v]})
  BY <1>1, <1>2, <1>3, FilledFromRewrites
<1> QED BY <1>4 DEF Wrote, AssignText

\* Assigning two texts joined writes into the target, which still has an end.
LEMMA AssignJoinIs ==
  ASSUME HeapAssumption, HeapInv, NEW v \in Bodys(Texts), NEW w \in Bodys(Texts),
         NEW u \in Bodys(Texts), AssignJoin(v, w, u)
  PROVE  Wrote({at[v]}) /\ \E i \in DOMAIN heap'[at[v]].data : heap'[at[v]].data[i] = 0
<1> DEFINE array == Joined(heap[at[w]], heap[at[u]])
<1>1. at[v] \in DOMAIN heap /\ heap[at[v]].element = "char" /\ Typed(heap)
  BY KindsAre, HeldIs DEF AssignJoin, HeapInv
<1>2. heap[at[w]] \in Arrays /\ heap[at[u]] \in Arrays
  BY HeldIs DEF AssignJoin, Bodys
<1>3. array \in Arrays /\ array.element = "char" /\ Len(array.data) > 0
  BY <1>2, JoinedIs
<1>4. heap' = FilledFrom(heap, at[v], array)
  BY DEF AssignJoin
<1> HIDE DEF array
<1>5. Rewritten(heap, heap', {at[v]}) /\ \E i \in DOMAIN heap'[at[v]].data : heap'[at[v]].data[i] = 0
  BY SMTT(30), <1>1, <1>3, <1>4, FilledFromRewrites
<1> QED BY <1>5 DEF Wrote, AssignJoin

\* An element of an array is written.
LEMMA CellIs ==
  ASSUME NEW h, h \in Seq(Arrays), NEW a \in DOMAIN h, NEW i \in DOMAIN h[a].data, NEW x \in Nat
  PROVE  LET g == Written(h, a, i, x)
         IN  /\ g \in Seq(Arrays) /\ DOMAIN g = DOMAIN h
             /\ \A b \in DOMAIN h : b # a => g[b] = h[b]
             /\ g[a].element = h[a].element /\ DOMAIN g[a].data = DOMAIN h[a].data
             /\ \A j \in DOMAIN h[a].data : g[a].data[j] = IF j = i THEN x ELSE h[a].data[j]
<1> DEFINE data == [h[a].data EXCEPT ![i] = x]
           array == [element |-> h[a].element, data |-> data]
           g == [h EXCEPT ![a] = array]
<1>1. /\ h[a] \in Arrays /\ h[a].element \in {"char", "int", "ref"} /\ h[a].data \in Seq(Nat)
      /\ h[a] = [element |-> h[a].element, data |-> h[a].data]
  BY ArrayIs
<1>2. data \in Seq(Nat) /\ DOMAIN data = DOMAIN h[a].data
        /\ \A j \in DOMAIN h[a].data : data[j] = IF j = i THEN x ELSE h[a].data[j]
  BY <1>1
<1> HIDE DEF data
<1>3. array \in Arrays /\ array.element = h[a].element /\ array.data = data
  BY <1>1, <1>2 DEF Arrays
<1>4. Written(h, a, i, x) = g
  BY DEF Written, data
<1> HIDE DEF array
<1>5. g \in Seq(Arrays) /\ DOMAIN g = DOMAIN h /\ g[a] = array /\ \A b \in DOMAIN h : b # a => g[b] = h[b]
  BY <1>3
<1> HIDE DEF g
<1> QED BY <1>2, <1>3, <1>4, <1>5

\* Going outside an array, or into a row that is not there, stops the program.
LEMMA TouchIs ==
  ASSUME HeapInv, NEW a, NEW i, a = Null => leftOut, Touch(a, i)
  PROVE  Stopped
BY DEF Touch, Stopped

\* A scalar, in a row that is there or not.
LEMMA SetScalarIs ==
  ASSUME HeapInv, NEW a, a = Null => leftOut, a # Null => a \in DOMAIN heap /\ heap[a].element # "ref",
         NEW i, NEW x \in Nat, Set(a, i, x)
  PROVE  Stopped \/ Wrote({a})
<1>1. CASE Touch(a, i)
  BY <1>1, TouchIs
<1>2. CASE /\ InBounds(a, i)
           /\ heap' = Written(heap, a, i, x)
           /\ UNCHANGED <<at, outcome, leftOut>>
  <2>1. a \in DOMAIN heap /\ heap[a].element # "ref" /\ i \in DOMAIN heap[a].data /\ heap \in Seq(Arrays)
    BY <1>2 DEF InBounds, HeapInv, Typed
  <2>2. /\ heap' \in Seq(Arrays) /\ DOMAIN heap' = DOMAIN heap
        /\ \A b \in DOMAIN heap : b # a => heap'[b] = heap[b]
        /\ heap'[a].element = heap[a].element /\ DOMAIN heap'[a].data = DOMAIN heap[a].data
    BY <1>2, <2>1, CellIs
  <2> QED BY <1>2, <2>1, <2>2 DEF Wrote, Rewritten
<1> QED BY <1>1, <1>2 DEF Set

\* An element that is set is in the array, or the program stops.
LEMMA SetElementIs ==
  ASSUME HeapAssumption, HeapInv, NEW v \in Bodys(Texts \cup Rows), NEW i, NEW x \in Elements,
         SetElement(v, i, x)
  PROVE  Stopped \/ Wrote({at[v]})
<1>1. v \in Variables /\ KindOf(v) # "ref"
  BY DEF Bodys, KindOf
<1>2. at[v] # Null /\ at[v] \in DOMAIN heap /\ heap[at[v]].element # "ref"
  BY <1>1, HeldIs DEF SetElement, made
<1>3. x \in Nat
  BY DEF HeapAssumption
<1> QED BY <1>2, <1>3, SetScalarIs DEF SetElement

\* A cell that is set is in its row, or the program stops.
LEMMA SetCellIs ==
  ASSUME HeapAssumption, HeapInv, NEW v \in Bodys(Tables), NEW i, NEW j, NEW x \in Elements,
         SetCell(v, i, j, x)
  PROVE  Stopped \/ Wrote({heap[at[v]].data[i]})
<1>1. v \in Variables /\ KindOf(v) = "ref"
  BY KindsAre DEF HeapInv
<1>2. at[v] # Null /\ at[v] \in DOMAIN heap /\ heap[at[v]].element = "ref"
  BY <1>1, HeldIs DEF SetCell, made
<1>3. x \in Nat
  BY DEF HeapAssumption
<1>4. CASE Touch(at[v], i)
  BY <1>2, <1>4, TouchIs
<1>5. CASE InBounds(at[v], i) /\ Set(heap[at[v]].data[i], j, x)
  <2> DEFINE a == heap[at[v]].data[i]
  <2>1. i \in DOMAIN heap[at[v]].data
    BY <1>5 DEF InBounds
  <2>2. a = Null => leftOut
    BY <1>2, <2>1 DEF HeapInv, Whole
  <2>3. a # Null => a \in DOMAIN heap /\ heap[a].element # "ref"
    BY <1>2, <2>1 DEF HeapInv, Typed
  <2> HIDE DEF a
  <2>4. Set(a, j, x)
    BY <1>5 DEF a
  <2>5. Stopped \/ Wrote({a})
    BY <1>3, <2>2, <2>3, <2>4, SetScalarIs
  <2> QED BY <2>5 DEF a
<1> QED BY <1>4, <1>5 DEF SetCell

\* A place in a table takes a row, or what a row of a table holds.
LEMMA SetReferenceIs ==
  ASSUME HeapInv, NEW a \in DOMAIN heap, heap[a].element = "ref", NEW i, NEW row \in Nat,
         row # Null => row \in DOMAIN heap /\ heap[row].element = "int",
         leftOut \/ row # Null, Set(a, i, row)
  PROVE  Stopped \/ Moved(a)
<1>1. CASE Touch(a, i)
  <2>1. a # Null
    BY DEF HeapInv, Typed, Null
  <2> QED BY <1>1, <2>1, TouchIs
<1>2. CASE /\ InBounds(a, i)
           /\ heap' = Written(heap, a, i, row)
           /\ UNCHANGED <<at, outcome, leftOut>>
  <2>1. i \in DOMAIN heap[a].data /\ heap \in Seq(Arrays)
    BY <1>2 DEF InBounds, HeapInv, Typed
  <2>2. /\ heap' \in Seq(Arrays) /\ DOMAIN heap' = DOMAIN heap
        /\ \A b \in DOMAIN heap : b # a => heap'[b] = heap[b]
        /\ heap'[a].element = heap[a].element /\ DOMAIN heap'[a].data = DOMAIN heap[a].data
        /\ \A j \in DOMAIN heap[a].data : heap'[a].data[j] = IF j = i THEN row ELSE heap[a].data[j]
    BY <1>2, <2>1, CellIs
  <2>3. Typed(heap')
    <3>1. ASSUME NEW b \in DOMAIN heap
          PROVE  /\ heap'[b].element = "char" => Len(heap'[b].data) > 0
                 /\ heap'[b].element = "ref" =>
                      \A j \in DOMAIN heap'[b].data : heap'[b].data[j] # Null =>
                        heap'[b].data[j] \in DOMAIN heap /\ heap'[heap'[b].data[j]].element = "int"
      <4>1. \A c \in DOMAIN heap : heap'[c].element = heap[c].element
        BY <2>2
      <4>2. CASE b = a
        <5>1. ASSUME NEW j \in DOMAIN heap[a].data, heap'[a].data[j] # Null
              PROVE  heap'[a].data[j] \in DOMAIN heap /\ heap[heap'[a].data[j]].element = "int"
          BY <2>2, <5>1 DEF HeapInv, Typed
        <5> QED BY <2>2, <4>1, <4>2, <5>1
      <4>3. CASE b # a
        <5>1. heap'[b] = heap[b]
          BY <2>2, <4>3
        <5> QED BY <4>1, <5>1 DEF HeapInv, Typed
      <4> QED BY <4>2, <4>3
    <3> QED BY <2>2, <3>1 DEF Typed
  <2>4. row # Null /\ Whole(heap) => Whole(heap')
    BY <2>2 DEF Whole
  <2> QED BY <1>2, <2>2, <2>3, <2>4 DEF Moved
<1> QED BY <1>1, <1>2 DEF Set

\* A row that is set is in the table, or the program stops.
LEMMA SetRowIs ==
  ASSUME HeapAssumption, HeapInv, NEW v \in Bodys(Tables), NEW i, NEW w \in Bodys(Rows), SetRow(v, i, w)
  PROVE  at[v] \in DOMAIN heap /\ (Stopped \/ Moved(at[v]))
<1>1. v \in Variables /\ KindOf(v) = "ref" /\ w \in Variables /\ KindOf(w) = "int"
  BY KindsAre DEF HeapInv
<1>2. /\ at[v] \in DOMAIN heap /\ heap[at[v]].element = "ref"
      /\ at[w] \in DOMAIN heap /\ heap[at[w]].element = "int" /\ at[w] # Null
  BY <1>1, HeldIs DEF SetRow, made
<1>3. at[w] \in Nat
  BY <1>2 DEF HeapInv, Typed
<1> QED BY <1>2, <1>3, SetReferenceIs DEF SetRow

\* A row that is set from another table's is in the table, or the program stops.
LEMMA SetRowFromRowIs ==
  ASSUME HeapAssumption, HeapInv, NEW v \in Bodys(Tables), NEW i, NEW w \in Bodys(Tables), NEW k,
         SetRowFromRow(v, i, w, k)
  PROVE  at[v] \in DOMAIN heap /\ (Stopped \/ Moved(at[v]))
<1>1. v \in Variables /\ KindOf(v) = "ref" /\ w \in Variables /\ KindOf(w) = "ref"
  BY KindsAre DEF HeapInv
<1>2. /\ at[v] \in DOMAIN heap /\ heap[at[v]].element = "ref"
      /\ at[w] \in DOMAIN heap /\ heap[at[w]].element = "ref" /\ at[w] # Null
  BY <1>1, HeldIs DEF SetRowFromRow, made
<1>3. CASE Touch(at[w], k)
  BY <1>2, <1>3, TouchIs
<1>4. CASE InBounds(at[w], k) /\ Set(at[v], i, heap[at[w]].data[k])
  <2> DEFINE row == heap[at[w]].data[k]
  <2>1. k \in DOMAIN heap[at[w]].data
    BY <1>4 DEF InBounds
  <2>2. row # Null => row \in DOMAIN heap /\ heap[row].element = "int"
    BY <1>2, <2>1 DEF HeapInv, Typed
  <2>3. leftOut \/ row # Null
    BY <1>2, <2>1 DEF HeapInv, Whole
  <2>4. row \in Nat
    BY <1>2, <2>1, ArrayIs DEF HeapInv, Typed
  <2> HIDE DEF row
  <2>5. Set(at[v], i, row)
    BY <1>4 DEF row
  <2> QED BY <1>2, <2>2, <2>3, <2>4, <2>5, SetReferenceIs
<1> QED BY <1>2, <1>3, <1>4 DEF SetRowFromRow

\* Every statement keeps the heap typed and texts apart.
LEMMA StepIs ==
  ASSUME HeapAssumption, HeapInv, HeapNext
  PROVE  HeapInv' /\ TextsAlone
<1>1. ASSUME NEW v \in Variables, NEW dims \in Shapes[KindOf(v)],
             Declare(v, dims) \/ \E w \in Variables : DeclareFrom(v, dims, w)
      PROVE  HeapInv' /\ TextsAlone
  BY <1>1, DeclareIs, DeclareFromIs, NewKeeps
<1>2. ASSUME NEW v \in Bodys(Texts), NEW text \in Words, CreateText(v, text) \/ AssignText(v, text)
      PROVE  HeapInv' /\ TextsAlone
  <2>1. text \in Seq(Nat)
    <3>1. <<>> \in Seq(Nat) /\ <<1>> \in Seq(Nat)
      OBVIOUS
    <3> QED BY <3>1 DEF Words
  <2> QED BY <1>2, <2>1, CreateTextIs, AssignTextIs, NewKeeps, WroteKeeps
<1>3. ASSUME NEW v \in Bodys(Tables), NEW rows \in [Indexes -> Made \cup {Null}], CreateTable(v, rows)
      PROVE  HeapInv' /\ TextsAlone
  BY <1>3, CreateTableIs, NewKeeps
<1>4. ASSUME NEW v \in Bodys(Texts), NEW w \in Bodys(Texts), CreateCopy(v, w)
      PROVE  HeapInv' /\ TextsAlone
  BY <1>4, CreateCopyIs, NewKeeps
<1>5. ASSUME NEW v \in Variables, NEW w \in Variables, Assign(v, w)
      PROVE  HeapInv' /\ TextsAlone
  BY <1>5, AssignIs, WroteKeeps
<1>6. ASSUME NEW v \in Bodys(Texts), NEW w \in Bodys(Texts), NEW u \in Bodys(Texts),
             CreateJoin(v, w, u) \/ AssignJoin(v, w, u)
      PROVE  HeapInv' /\ TextsAlone
  BY <1>6, CreateJoinIs, AssignJoinIs, NewKeeps, WroteKeeps
<1>7. ASSUME NEW v \in Bodys(Texts \cup Rows), NEW i \in Indexes, NEW x \in Elements, SetElement(v, i, x)
      PROVE  HeapInv' /\ TextsAlone
  BY <1>7, SetElementIs, WroteKeeps, StoppedKeeps
<1>8. ASSUME NEW v \in Bodys(Tables), NEW i \in Indexes, NEW j \in Indexes, NEW x \in Elements,
             SetCell(v, i, j, x)
      PROVE  HeapInv' /\ TextsAlone
  BY <1>8, SetCellIs, WroteKeeps, StoppedKeeps
<1>9. ASSUME NEW v \in Bodys(Tables), NEW i \in Indexes, NEW w \in Bodys(Rows), SetRow(v, i, w)
      PROVE  HeapInv' /\ TextsAlone
  BY <1>9, SetRowIs, MovedKeeps, StoppedKeeps
<1>10. ASSUME NEW v \in Bodys(Tables), NEW w \in Bodys(Tables), NEW i \in Indexes, NEW k \in Indexes,
              SetRowFromRow(v, i, w, k)
       PROVE  HeapInv' /\ TextsAlone
  BY <1>10, SetRowFromRowIs, MovedKeeps, StoppedKeeps
<1> QED BY <1>1, <1>2, <1>3, <1>4, <1>5, <1>6, <1>7, <1>8, <1>9, <1>10 DEF HeapNext

\* While nothing changes the invariant stays.
LEMMA StutterIs ==
  ASSUME HeapInv, UNCHANGED vars
  PROVE  HeapInv'
BY DEF HeapInv, vars, Held, TextsApart, Variables, Bodys, made, KindOf

-------------------------------------------------------------------------------
\* Every variable holds nothing or an array of its own kind, two texts are never one
\* array, and a table holds rows of ints and nothing else.
THEOREM HeapStaysTyped == HeapSpec => []HeapInv
<1>1. HeapInit => HeapInv
  <2> SUFFICES ASSUME HeapInit PROVE HeapInv
    OBVIOUS
  <2>1. heap = <<>> /\ outcome = "running" /\ leftOut = FALSE /\ Variables \in Bodies
        /\ \A v \in Variables : at[v] = Null
    BY DEF HeapInit, Variables
  <2>2. Typed(heap) /\ Whole(heap)
    BY <2>1 DEF Typed, Whole
  <2> QED BY <2>1, <2>2 DEF HeapInv, Held, TextsApart, made, Bodys
<1>2. HeapInv /\ [HeapNext]_vars => HeapInv'
  BY HeapAssumption, StepIs, StutterIs
<1> QED BY <1>1, <1>2, PTL DEF HeapSpec

\* A program meets a row that is not there only if one of its literals left it out.
THEOREM RowsStayThere == HeapSpec => []RowsAreThere
<1>1. HeapInv => RowsAreThere
  BY DEF HeapInv, RowsAreThere, Typed, Whole
<1> QED BY <1>1, HeapStaysTyped, PTL

\* A statement that assigns to one text changes no other.
THEOREM TextsChangeOneAtATime == HeapSpec => TextsChangeAlone
<1>1. HeapInv /\ [HeapNext]_vars =>
        [\A v, w \in Bodys(Texts) :
           v # w /\ made(v) /\ made(w) /\ running' =>
             Shown(heap', at'[v]) = Shown(heap, at[v]) \/ Shown(heap', at'[w]) = Shown(heap, at[w])]_vars
  BY HeapAssumption, StepIs DEF TextsAlone
<1> QED BY <1>1, HeapStaysTyped, PTL DEF HeapSpec, TextsChangeAlone

\* v : w leaves in v what fits of w and zeros beyond, unless the two share rows, and
\* an assigned text ends in NUL.
THEOREM AssignmentsCopy == HeapSpec => AssignmentCopies
<1>1. ASSUME HeapInv, NEW v \in Variables, NEW w \in Variables, Assign(v, w), Apart(heap, at[v], at[w])
      PROVE  Shown(heap', at[v]) = Copied(heap, at[v], at[w])
  <2>1. /\ at[v] \in DOMAIN heap /\ at[w] \in DOMAIN heap /\ Typed(heap)
        /\ heap[at[v]].element = heap[at[w]].element /\ heap' = Filled(heap, at[v], at[w])
    BY <1>1, HeapAssumption, HeldIs DEF Assign, HeapInv
  <2> QED BY <1>1, <2>1, FilledCopies
<1>2. ASSUME HeapInv, NEW v \in Bodys(Texts), NEW w \in Bodys(Texts), NEW u \in Bodys(Texts),
             Assign(v, w) \/ AssignJoin(v, w, u)
      PROVE  TextOf(heap'[at[v]]) # heap'[at[v]].data
  <2>1. v \in Variables /\ w \in Variables /\ KindOf(v) = "char" /\ KindOf(w) = "char"
    BY <1>2, HeapAssumption, KindsAre DEF HeapInv
  <2>2. at[v] \in DOMAIN heap
    BY <1>2, <2>1, HeapAssumption, HeldIs DEF Assign, AssignJoin
  <2>3. \E i \in DOMAIN heap'[at[v]].data : heap'[at[v]].data[i] = 0
    <3>1. CASE Assign(v, w)
      <4>1. /\ at[v] \in DOMAIN heap /\ at[w] \in DOMAIN heap /\ Typed(heap)
            /\ heap[at[v]].element = "char" /\ heap[at[w]].element = "char"
            /\ heap' = Filled(heap, at[v], at[w])
        BY <1>2, <2>1, <3>1, HeapAssumption, HeldIs DEF Assign, HeapInv
      <4> QED BY <4>1, FilledTextEnds
    <3>2. CASE AssignJoin(v, w, u)
      BY <1>2, <3>2, HeapAssumption, AssignJoinIs
    <3> QED BY <1>2, <3>1, <3>2
  <2>4. Rewritten(heap, heap', Leaves(heap, at[v])) \/ Rewritten(heap, heap', {at[v]})
    BY <1>2, <2>1, HeapAssumption, AssignIs, AssignJoinIs DEF Wrote
  <2>5. heap' \in Seq(Arrays) /\ at[v] \in DOMAIN heap'
    BY <2>2, <2>4 DEF Rewritten
  <2>6. heap'[at[v]].data \in Seq(Nat)
    BY <2>5, ArrayIs
  <2> QED BY <2>3, <2>6, TextStops
<1>3. HeapInv /\ [HeapNext]_vars =>
        [/\ \A v, w \in Variables :
              Assign(v, w) /\ Apart(heap, at[v], at[w]) =>
                Shown(heap', at[v]) = Copied(heap, at[v], at[w])
         /\ \A v \in Bodys(Texts) :
              (\E w, u \in Bodys(Texts) : Assign(v, w) \/ AssignJoin(v, w, u)) =>
                TextOf(heap'[at[v]]) # heap'[at[v]].data]_vars
  BY <1>1, <1>2
<1> QED BY <1>3, HeapStaysTyped, PTL DEF HeapSpec, AssignmentCopies
===============================================================================
