------------------------------ MODULE ScopesProofs ------------------------------
(***************************************************************************)
(* Names of a function, whatever they are and however large the function   *)
(* and deep its blocks: it declares a name once; its slots hold what its   *)
(* names mean wherever a run of it may go; it does not run off its end.    *)
(*                                                                         *)
(* The first needs the set of declared names, since a block that closed    *)
(* has taken its names along.  The others relate a run, which sees items   *)
(* and jumps, to the stack of scopes the check saw where the run is: the   *)
(* check's history is a sequence of stacks, one for each place of the      *)
(* code, and a run is always in the blocks of the stack of its place.      *)
(***************************************************************************)
EXTENDS Scopes, WellFoundedInduction, SequenceTheorems, TLAPS

-------------------------------------------------------------------------------
(***************************************************************************)
(* A name is declared once.                                                *)
(***************************************************************************)

Declaring(items) == {i \in DOMAIN items : items[i].op = "declare"}

DeclaredInv ==
  /\ \E Thing : code \in Seq(Thing)
  /\ \A i \in Declaring(code) : code[i].name \in declaredLocals
  /\ DeclaredOnce

\* Emitting items that declare nothing.
LEMMA Harmless ==
  ASSUME DeclaredInv, NEW items, NEW Thing, items \in Seq(Thing), Declaring(items) = {},
         code' = code \o items, UNCHANGED declaredLocals
  PROVE  DeclaredInv'
<1>1. PICK Made : code \in Seq(Made)
  BY DEF DeclaredInv
<1>2. code' \in Seq(Made \cup Thing)
  <2>1. code \in Seq(Made \cup Thing) /\ items \in Seq(Made \cup Thing)
    BY <1>1
  <2> QED BY <2>1
<1>3. /\ Declaring(code') = Declaring(code)
      /\ \A i \in DOMAIN code : code'[i] = code[i]
  BY <1>1 DEF Declaring
<1>4. \A i \in Declaring(code') : code'[i].name \in declaredLocals'
  BY <1>3 DEF DeclaredInv, Declaring
<1>5. DeclaredOnce'
  BY <1>3 DEF DeclaredInv, Declaring, DeclaredOnce
<1> QED BY <1>2, <1>4, <1>5 DEF DeclaredInv

\* An item that declares nothing keeps the declared names.
LEMMA One ==
  ASSUME DeclaredInv, NEW op, NEW n, NEW slot, op # "declare",
         Emit(<<Item(op, n, slot)>>), UNCHANGED declaredLocals
  PROVE  DeclaredInv'
<1> DEFINE item == Item(op, n, slot)
<1>1. item.op # "declare"
  BY DEF Item
<1> HIDE DEF item
<1>2. <<item>> \in Seq({item}) /\ Declaring(<<item>>) = {}
  BY <1>1 DEF Declaring
<1>3. code' = code \o <<item>>
  BY DEF Emit, item
<1> QED BY <1>2, <1>3, Harmless

\* Two items that declare nothing keep the declared names.
LEMMA Two ==
  ASSUME DeclaredInv, NEW first, NEW second, first # "declare", second # "declare",
         Emit(<<Mark(first), Mark(second)>>), UNCHANGED declaredLocals
  PROVE  DeclaredInv'
<1> DEFINE a == Mark(first)
           b == Mark(second)
<1>1. a.op # "declare" /\ b.op # "declare"
  BY DEF Mark, Item
<1> HIDE DEF a, b
<1>2. <<a, b>> \in Seq({a, b}) /\ Declaring(<<a, b>>) = {}
  BY <1>1 DEF Declaring
<1>3. code' = code \o <<a, b>>
  BY DEF Emit, a, b
<1> QED BY <1>2, <1>3, Harmless

\* A name already declared is refused, in whichever block it was.
LEMMA ADeclaration ==
  ASSUME DeclaredInv, NEW n \in Names, Declare(n)
  PROVE  DeclaredInv'
<1>1. CASE Taken(n)
  BY <1>1 DEF Declare, Reject, checker, DeclaredInv, Declaring, DeclaredOnce
<1>2. CASE ~Taken(n)
  <2> DEFINE item == Item("declare", n, Local(slots + 1))
  <2>1. item.name = n
    BY DEF Item
  <2>2. code' = code \o <<item>> /\ declaredLocals' = declaredLocals \cup {n} /\ n \notin declaredLocals
    BY <1>2 DEF Declare, Emit, Taken
  <2> HIDE DEF item
  <2>3. PICK Thing : code \in Seq(Thing)
    BY DEF DeclaredInv
  <2>4. code' \in Seq(Thing \cup {item})
    <3>1. code \in Seq(Thing \cup {item}) /\ <<item>> \in Seq(Thing \cup {item})
      BY <2>3
    <3> QED BY <2>2, <3>1
  <2>5. /\ DOMAIN code' = DOMAIN code \cup {Len(code) + 1} /\ Len(code) + 1 \notin DOMAIN code
        /\ \A i \in DOMAIN code : code'[i] = code[i]
        /\ code'[Len(code) + 1] = item
    BY <2>2, <2>3
  <2>6. \A i \in Declaring(code') : code'[i].name \in declaredLocals'
    BY <2>1, <2>2, <2>5 DEF DeclaredInv, Declaring
  <2>7. \A i \in Declaring(code) : code[i].name # n
    BY <2>2 DEF DeclaredInv
  <2>8. DeclaredOnce'
    BY <2>1, <2>5, <2>7 DEF DeclaredInv, Declaring, DeclaredOnce
  <2> QED BY <2>4, <2>6, <2>8 DEF DeclaredInv
<1> QED BY <1>1, <1>2

\* Every step keeps the declared names apart.
LEMMA NextDeclares ==
  ASSUME DeclaredInv, ScopesNext
  PROVE  DeclaredInv'
<1>1. ASSUME NEW n \in Names, Declare(n) PROVE DeclaredInv'
  BY <1>1, ADeclaration
<1>2. ASSUME NEW n \in Names, Assign(n) PROVE DeclaredInv'
  BY <1>2, One DEF Assign
<1>3. ASSUME UNCHANGED <<code, declaredLocals>> PROVE DeclaredInv'
  BY <1>3 DEF DeclaredInv, Declaring, DeclaredOnce
<1>4. ASSUME NEW n \in Names, Read(n) PROVE DeclaredInv'
  <2>1. CASE Known(n)
    BY <1>4, <2>1, One DEF Read
  <2>2. CASE ~Known(n)
    BY <1>3, <1>4, <2>2 DEF Read, Reject, checker
  <2> QED BY <2>1, <2>2
<1>5. ASSUME NEW n \in Names, OpenFor(n) PROVE DeclaredInv'
  BY <1>5, One DEF OpenFor, Open
<1>6. CASE OpenIf \/ OpenWhile
  BY <1>6, One DEF OpenIf, OpenWhile, Open, Mark
<1>7. CASE ElseIf \/ Else
  BY <1>7, Two DEF ElseIf, Else, NextArm
<1>8. CASE Close
  BY <1>8, One, Two DEF Close, Mark
<1>9. CASE Leave("break") \/ Leave("continue") \/ Return
  BY <1>9, One DEF Leave, Return, Mark
<1>10. CASE \/ Finish \/ RunWrite \/ RunRead \/ RunCondition \/ RunEndArm \/ RunLoop
            \/ RunAgain \/ RunBreak \/ RunReturn \/ RunEnd
  BY <1>3, <1>10 DEF Finish, RunWrite, RunRead, RunCondition, RunEndArm, RunLoop, RunAgain,
                     RunBreak, RunReturn, RunEnd, Stay, checker
<1> QED BY <1>1, <1>2, <1>4, <1>5, <1>6, <1>7, <1>8, <1>9, <1>10 DEF ScopesNext

\* No function declares a name twice, in blocks that never exist together either
\* (Check.cpp: visit(Declare), Parser.cpp: parseStatementBody()).
THEOREM NamesDeclaredOnce == ScopesSpec => []DeclaredOnce
<1>1. ScopesInit => DeclaredInv
  BY DEF ScopesInit, DeclaredInv, Declaring, DeclaredOnce
<1>2. DeclaredInv /\ [ScopesNext]_vars => DeclaredInv'
  <2>1. DeclaredInv /\ UNCHANGED vars => DeclaredInv'
    BY DEF vars, checker, DeclaredInv, Declaring, DeclaredOnce
  <2> QED BY <2>1, NextDeclares
<1>3. DeclaredInv => DeclaredOnce
  BY DEF DeclaredInv
<1> QED BY <1>1, <1>2, <1>3, PTL DEF ScopesSpec

-------------------------------------------------------------------------------
(***************************************************************************)
(* The code as a history of stacks: what stack of scopes stood before each *)
(* of its items, and how the item made the next stack of it.               *)
(***************************************************************************)
Levels(top) == [kind : {"body", "if", "else", "loop"}, names : [Names -> 0..top],
                returns : BOOLEAN, arms : BOOLEAN]

Ops == {"declare", "make", "read", "write", "if", "elseif", "else", "endarm", "endif", "while",
        "for", "again", "break", "continue", "return"}

\* A mark has none.
AnyName == Names \cup {""}

Slots == {Global(n) : n \in Names} \cup {Local(k) : k \in Nat}

Items == [op : Ops, name : AnyName, depth : Nat,
          slot : Slots]

Loops == {"while", "for"}
Arms == {"elseif", "else", "endif"}
Ends == {"endif", "again"}
Nameless == [n \in Names |-> NoSlot]

\* The slot a name has in a stack of scopes.
Binders(s, n) == {l \in DOMAIN s : s[l].names[n] # NoSlot}

Bound(s, n) == s[Max(Binders(s, n))].names[n]

Fresh(k, s) == \A l \in DOMAIN s : \A n \in Names : s[l].names[n] # k

\* No two names of a stack share a slot.
Apart(s) ==
  \A l, m \in DOMAIN s : \A a, b \in Names :
    s[l].names[a] # NoSlot /\ s[l].names[a] = s[m].names[b] => l = m /\ a = b

Stack(top, s) ==
  /\ s \in Seq(Levels(top)) /\ Len(s) >= 1
  /\ s[1].kind = "body"
  /\ \A l \in 2..Len(s) : s[l].kind # "body"
  /\ Apart(s)

Same(s, t, m) == \A l \in 1..m : t[l] = s[l]

\* A block goes on: it returns no sooner, and no more of its arms did.
GoesOn(a, b) == b.kind = a.kind /\ (b.arms => a.arms)

Binds(top, it, s, t) ==
  /\ it.op \in {"declare", "make"} /\ it.name \in Names
  /\ Len(t) = Len(s) /\ Same(s, t, Len(s) - 1)
  /\ Binders(s, it.name) = {}
  /\ GoesOn(s[Len(s)], t[Len(s)]) /\ (t[Len(s)].returns => s[Len(s)].returns)
  /\ \E k \in 1..top : /\ Fresh(k, s) /\ it.slot = Local(k)
                       /\ t[Len(s)].names = [s[Len(s)].names EXCEPT ![it.name] = k]

Uses(G, it, s, t) ==
  /\ it.op \in {"read", "write"} /\ it.name \in Names
  /\ t = s
  /\ \/ Binders(s, it.name) # {} /\ it.slot = Local(Bound(s, it.name))
     \/ Binders(s, it.name) = {} /\ it.name \in G /\ it.slot = Global(it.name)

Opens(top, it, s, t) ==
  /\ Len(t) = Len(s) + 1 /\ Same(s, t, Len(s))
  /\ ~t[Len(t)].returns
  /\ \/ it.op = "if" /\ t[Len(t)].kind = "if" /\ t[Len(t)].names = Nameless
     \/ it.op = "while" /\ t[Len(t)].kind = "loop" /\ t[Len(t)].names = Nameless
     \/ /\ it.op = "for" /\ t[Len(t)].kind = "loop" /\ it.name \in Names
        /\ \E k \in 1..top : /\ Fresh(k, s) /\ it.slot = Local(k)
                             /\ t[Len(t)].names = [Nameless EXCEPT ![it.name] = k]

EndsArm(it, s, t) ==
  it.op = "endarm" /\ t = s /\ Len(s) > 1 /\ s[Len(s)].kind \in {"if", "else"}

TakesArm(it, s, t) ==
  /\ Len(s) > 1 /\ s[Len(s)].kind = "if"
  /\ Len(t) = Len(s) /\ Same(s, t, Len(s) - 1)
  /\ \/ it.op = "elseif" /\ t[Len(s)].kind = "if"
     \/ it.op = "else" /\ t[Len(s)].kind = "else"
  /\ t[Len(s)].names = Nameless /\ ~t[Len(s)].returns
  /\ t[Len(s)].arms => s[Len(s)].arms /\ s[Len(s)].returns

EndsIf(it, s, t) ==
  /\ it.op = "endif"
  /\ Len(s) > 1 /\ s[Len(s)].kind \in {"if", "else"}
  /\ Len(t) = Len(s) - 1 /\ Same(s, t, Len(t) - 1)
  /\ GoesOn(s[Len(t)], t[Len(t)]) /\ t[Len(t)].names = s[Len(t)].names
  /\ t[Len(t)].returns => s[Len(t)].returns \/ BlockReturns(s[Len(s)])

EndsLoop(it, s, t) ==
  /\ it.op = "again" /\ Len(s) > 1 /\ s[Len(s)].kind = "loop"
  /\ Len(t) = Len(s) - 1 /\ Same(s, t, Len(t))

Jumps(it, s, t) ==
  /\ it.op \in {"break", "continue"} /\ t = s
  /\ \E l \in DOMAIN s : s[l].kind = "loop"

Returns(it, s, t) ==
  /\ it.op = "return"
  /\ Len(t) = Len(s) /\ Same(s, t, Len(s) - 1)
  /\ GoesOn(s[Len(s)], t[Len(s)]) /\ t[Len(s)].names = s[Len(s)].names

\* The item makes the stack t of the stack s.
Becomes(G, top, it, s, t) ==
  /\ it \in Items /\ it.depth = Len(s)
  /\ \/ Binds(top, it, s, t) \/ Uses(G, it, s, t) \/ Opens(top, it, s, t)
     \/ EndsArm(it, s, t) \/ TakesArm(it, s, t) \/ EndsIf(it, s, t) \/ EndsLoop(it, s, t)
     \/ Jumps(it, s, t) \/ Returns(it, s, t)

\* An arm that ends is followed by the next, or by the end of the if.
Follows(c, i) == c[i].op \in Arms <=> i > 1 /\ c[i - 1].op = "endarm"

History(G, top, c, h) ==
  /\ c \in Seq(Items)
  /\ DOMAIN h = 0..Len(c)
  /\ Len(h[0]) = 1 /\ h[0][1].names = Nameless /\ ~h[0][1].returns
  /\ \A i \in 0..Len(c) : Stack(top, h[i])
  /\ \A i \in 1..Len(c) : Becomes(G, top, c[i], h[i - 1], h[i]) /\ Follows(c, i)

-------------------------------------------------------------------------------
\* Every set of numbers has a smallest.
LEMMA SmallestExists ==
  ASSUME NEW T, T \subseteq Nat, T # {}
  PROVE  \E m \in T : \A k \in T : m <= k
<1> DEFINE Less == OpToRel(<, Nat)
<1>1. \A k, m \in Nat : k < m => <<k, m>> \in Less
  BY Zenon DEF OpToRel
<1>2. IsWellFoundedOn(Less, Nat)
  BY NatLessThanWellFounded, Zenon
<1> HIDE DEF Less
<1>3. PICK m \in T : \A k \in T : ~(<<k, m>> \in Less)
  BY ONLY <1>2, T \subseteq Nat, T # {}, WFMin
<1>4. \A k \in T : m <= k
  <2>1. ASSUME NEW k \in T PROVE m <= k
    <3>1. k \in Nat /\ m \in Nat
      OBVIOUS
    <3>2. ~(k < m)
      BY <1>1, <1>3, <3>1
    <3> QED BY <3>1, <3>2
  <2> QED BY <2>1
<1> QED BY <1>4

\* Slots may be added to the frame.
LEMMA MoreSlots ==
  ASSUME NEW top \in Nat, NEW more \in Nat, top <= more, NEW s, Stack(top, s)
  PROVE  Stack(more, s)
<1>1. 0..top \subseteq 0..more
  OBVIOUS
<1>2. Levels(top) \subseteq Levels(more)
  <2>1. [Names -> 0..top] \subseteq [Names -> 0..more]
    BY <1>1
  <2> QED BY <2>1, Zenon DEF Levels
<1>3. s \in Seq(Levels(more))
  BY <1>2 DEF Stack
<1> QED BY <1>3 DEF Stack

\* What an item does to the scopes it does with more slots too.
LEMMA MoreRoom ==
  ASSUME NEW G, NEW top \in Nat, NEW more \in Nat, top <= more, NEW it, NEW s, NEW t,
         Becomes(G, top, it, s, t)
  PROVE  Becomes(G, more, it, s, t)
<1>1. 1..top \subseteq 1..more
  OBVIOUS
<1>2. Binds(top, it, s, t) => Binds(more, it, s, t)
  BY <1>1, Zenon DEF Binds
<1>3. Opens(top, it, s, t) => Opens(more, it, s, t)
  BY <1>1, Zenon DEF Opens
<1> QED BY <1>2, <1>3, Zenon DEF Becomes

\* A longer code: one item more, and the stack it makes.
LEMMA Extend ==
  ASSUME NEW G, NEW top \in Nat, NEW more \in Nat, top <= more, NEW c, NEW h, History(G, top, c, h),
         NEW it, NEW t, Becomes(G, more, it, h[Len(c)], t), Stack(more, t),
         it.op \in Arms <=> Len(c) > 0 /\ c[Len(c)].op = "endarm"
  PROVE  \E g : History(G, more, c \o <<it>>, g) /\ g[Len(c) + 1] = t
<1> DEFINE n == Len(c)
           g == [i \in 0..n + 1 |-> IF i = n + 1 THEN t ELSE h[i]]
           d == c \o <<it>>
<1>1. c \in Seq(Items) /\ it \in Items /\ n \in Nat
  BY DEF History, Becomes
<1>2. /\ d \in Seq(Items) /\ Len(d) = n + 1 /\ d[n + 1] = it
      /\ \A i \in 1..n : d[i] = c[i]
  BY <1>1
<1>3. /\ DOMAIN g = 0..n + 1 /\ g[n + 1] = t
      /\ \A i \in 0..n : g[i] = h[i]
  BY <1>1
<1> HIDE DEF g, d
<1>4. \A i \in 0..n + 1 : Stack(more, g[i])
  <2>1. ASSUME NEW i \in 0..n PROVE Stack(more, g[i])
    BY <1>3, <2>1, MoreSlots DEF History
  <2> QED BY <1>1, <1>3, <2>1
<1>5. ASSUME NEW i \in 1..n + 1 PROVE Becomes(G, more, d[i], g[i - 1], g[i]) /\ Follows(d, i)
  <2>1. CASE i = n + 1
    <3>1. g[i - 1] = h[n] /\ g[i] = t /\ d[i] = it
      BY <1>1, <1>2, <1>3, <2>1
    <3>2. i > 1 => d[i - 1] = c[n] /\ n > 0
      BY <1>1, <1>2, <2>1
    <3>3. Follows(d, i)
      BY <1>1, <2>1, <3>1, <3>2 DEF Follows
    <3> QED BY <3>1, <3>3
  <2>2. CASE i \in 1..n
    <3>1. g[i - 1] = h[i - 1] /\ g[i] = h[i] /\ d[i] = c[i]
      BY <1>1, <1>2, <1>3, <2>2
    <3>2. Becomes(G, top, c[i], h[i - 1], h[i]) /\ Follows(c, i)
      BY <2>2 DEF History
    <3>3. i > 1 => d[i - 1] = c[i - 1]
      BY <1>1, <1>2, <2>2
    <3>4. Becomes(G, more, d[i], g[i - 1], g[i])
      BY <3>1, <3>2, MoreRoom
    <3> QED BY <3>1, <3>2, <3>3, <3>4 DEF Follows
  <2> QED BY <1>1, <2>1, <2>2
<1>6. g[0] = h[0]
  BY <1>1, <1>3
<1>7. History(G, more, d, g)
  BY <1>2, <1>3, <1>4, <1>5, <1>6 DEF History
<1> QED BY <1>3, <1>7 DEF d

-------------------------------------------------------------------------------
(***************************************************************************)
(* What the items between leave of a block that is open all the while.     *)
(***************************************************************************)
Within(h, i, j, m) == \A k \in i..j : Len(h[k]) >= m

\* An item inside a block leaves the scopes below it.
LEMMA StepWithin ==
  ASSUME NEW G, NEW top, NEW it, NEW s, NEW t, Becomes(G, top, it, s, t), Stack(top, s), Stack(top, t),
         NEW m \in Nat, Len(s) >= m, Len(t) >= m, m > 1
  PROVE  /\ Same(s, t, m - 1)
         /\ t[m].kind = "loop" <=> s[m].kind = "loop"
         /\ t[m].arms => s[m].arms
         /\ s[m].kind = "if" => t[m].kind = "if" \/ (it.op = "else" /\ it.depth = m)
<1>1. Len(s) \in Nat /\ Len(t) \in Nat
  BY DEF Stack
<1>2. CASE t = s
  BY <1>2 DEF Same
<1>3. CASE Binds(top, it, s, t) \/ Returns(it, s, t)
  BY <1>1, <1>3 DEF Binds, Returns, Same, GoesOn
<1>4. CASE Opens(top, it, s, t)
  BY <1>1, <1>4 DEF Opens, Same
<1>5. CASE TakesArm(it, s, t)
  BY <1>1, <1>5 DEF TakesArm, Same, Becomes
<1>6. CASE EndsIf(it, s, t)
  BY <1>1, <1>6 DEF EndsIf, Same, GoesOn
<1>7. CASE EndsLoop(it, s, t)
  BY <1>1, <1>7 DEF EndsLoop, Same
<1> QED BY <1>2, <1>3, <1>4, <1>5, <1>6, <1>7 DEF Becomes, Uses, EndsArm, Jumps

\* A block closes by its own end, one level at a time.
LEMMA StepOut ==
  ASSUME NEW G, NEW top, NEW it, NEW s, NEW t, Becomes(G, top, it, s, t), Stack(top, s), Stack(top, t),
         NEW m \in Nat, Len(s) >= m, Len(t) < m
  PROVE  /\ Len(s) = m /\ Len(t) = m - 1 /\ it.depth = m
         /\ \/ EndsIf(it, s, t)
            \/ EndsLoop(it, s, t)
BY DEF Stack, Becomes, Uses, EndsArm, Jumps, Binds, Returns, Opens, TakesArm, EndsIf, EndsLoop

\* An item that reaches a depth opened a block there.
LEMMA StepIn ==
  ASSUME NEW G, NEW top, NEW it, NEW s, NEW t, Becomes(G, top, it, s, t), Stack(top, s), Stack(top, t),
         NEW m \in Nat, Len(s) < m, Len(t) >= m
  PROVE  /\ Len(s) = m - 1 /\ Len(t) = m /\ it.depth = m - 1
         /\ Opens(top, it, s, t)
BY DEF Stack, Becomes, Uses, EndsArm, Jumps, Binds, Returns, Opens, TakesArm, EndsIf, EndsLoop

\* What an end does.
LEMMA AnEnd ==
  ASSUME NEW G, NEW top, NEW it, NEW s, NEW t, Becomes(G, top, it, s, t), it.op \in Ends
  PROVE  IF it.op = "endif" THEN EndsIf(it, s, t) ELSE EndsLoop(it, s, t)
BY DEF Ends, Becomes, Uses, EndsArm, Jumps, Binds, Returns, Opens, TakesArm, EndsIf, EndsLoop

\* While a block is open the scopes below it do not change.
LEMMA Meanwhile ==
  ASSUME NEW G, NEW top, NEW c, NEW h, History(G, top, c, h),
         NEW i \in 0..Len(c), NEW j \in i..Len(c), NEW m \in Nat, m > 1, Within(h, i, j, m)
  PROVE  /\ Same(h[i], h[j], m - 1)
         /\ h[j][m].kind = "loop" <=> h[i][m].kind = "loop"
         /\ h[j][m].arms => h[i][m].arms
         /\ h[i][m].kind = "if" =>
              h[j][m].kind = "if" \/ \E k \in i + 1..j : c[k].op = "else" /\ c[k].depth = m
<1> DEFINE P(x) == /\ Same(h[i], h[x], m - 1)
                   /\ h[x][m].kind = "loop" <=> h[i][m].kind = "loop"
                   /\ h[x][m].arms => h[i][m].arms
                   /\ h[i][m].kind = "if" =>
                        h[x][m].kind = "if" \/ \E k \in i + 1..x : c[k].op = "else" /\ c[k].depth = m
           T == {x \in i..j : ~P(x)}
<1>0. Len(c) \in Nat
  BY DEF History
<1>1. P(i)
  BY DEF Same
<1>2. ASSUME NEW x \in i + 1..j, P(x - 1) PROVE P(x)
  <2>1. /\ x \in 1..Len(c) /\ x - 1 \in 0..Len(c) /\ x \in 0..Len(c) /\ x \in i..j /\ x - 1 \in i..j
        /\ x - 1 \in Nat
    BY <1>0
  <2>2. /\ Becomes(G, top, c[x], h[x - 1], h[x]) /\ Stack(top, h[x - 1]) /\ Stack(top, h[x])
        /\ Len(h[x - 1]) >= m /\ Len(h[x]) >= m
    BY <2>1 DEF History, Within
  <2>3. /\ Same(h[x - 1], h[x], m - 1)
        /\ h[x][m].kind = "loop" <=> h[x - 1][m].kind = "loop"
        /\ h[x][m].arms => h[x - 1][m].arms
        /\ h[x - 1][m].kind = "if" => h[x][m].kind = "if" \/ (c[x].op = "else" /\ c[x].depth = m)
    BY SMTT(30), <2>2, StepWithin
  <2>4. Same(h[i], h[x], m - 1)
    BY <1>2, <2>3 DEF Same
  <2>5. i + 1..x - 1 \subseteq i + 1..x /\ x \in i + 1..x
    BY <1>0
  <2> QED BY <1>2, <2>3, <2>4, <2>5
<1>3. T = {}
  <2>1. SUFFICES ASSUME T # {} PROVE FALSE
    OBVIOUS
  <2>2. T \subseteq Nat
    BY <1>0
  <2> HIDE DEF P
  <2>3. PICK x \in T : \A y \in T : x <= y
    <3> HIDE DEF T
    <3> QED BY <2>1, <2>2, SmallestExists
  <2>4. x \in i + 1..j
    BY <1>0, <1>1, <2>3
  <2>5. x - 1 \notin T /\ x - 1 \in i..j
    BY <1>0, <2>3, <2>4
  <2>6. P(x - 1)
    BY <2>5
  <2> QED BY <1>2, <2>3, <2>4, <2>6
<1> QED BY <1>0, <1>3

-------------------------------------------------------------------------------
(***************************************************************************)
(* A block ends in code that is complete, and every one was opened: where  *)
(* jumps go.                                                               *)
(***************************************************************************)
Complete(c, h) == Len(h[Len(c)]) = 1 /\ (Len(c) > 0 => c[Len(c)].op # "endarm")

\* Item e ends the block at level m that is open before it and after item i.
EndsBlock(c, h, i, e, m) ==
  /\ e \in i + 1..Len(c)
  /\ Within(h, i, e - 1, m)
  /\ c[e].depth = m /\ Len(h[e - 1]) = m /\ Len(h[e]) = m - 1
  /\ EndsIf(c[e], h[e - 1], h[e]) \/ EndsLoop(c[e], h[e - 1], h[e])

\* Every block of complete code has an end.
LEMMA BlocksEnd ==
  ASSUME NEW G, NEW top, NEW c, NEW h, History(G, top, c, h), Complete(c, h),
         NEW i \in 0..Len(c), NEW m \in Nat, m > 1, Len(h[i]) >= m
  PROVE  \E e : EndsBlock(c, h, i, e, m)
<1> DEFINE T == {x \in i..Len(c) : Len(h[x]) < m}
<1>0. Len(c) \in Nat /\ i \in Nat /\ \A x \in 0..Len(c) : Len(h[x]) \in Nat
  BY DEF History, Stack
<1>1. Len(c) \in T
  <2>1. Len(h[Len(c)]) = 1 /\ Len(c) \in i..Len(c)
    BY <1>0 DEF Complete
  <2> QED BY <2>1
<1>2. T \subseteq Nat
  BY <1>0
<1>3. PICK e \in T : \A y \in T : e <= y
  <2> HIDE DEF T
  <2> QED BY <1>1, <1>2, SmallestExists
<1>4. /\ e \in i + 1..Len(c) /\ e \in 1..Len(c) /\ e - 1 \in 0..Len(c) /\ e \in 0..Len(c)
      /\ e - 1 \in i..Len(c)
  BY <1>0, <1>3
<1>5. \A x \in i..e - 1 : x \notin T /\ x \in i..Len(c) /\ x \in 0..Len(c)
  BY <1>0, <1>3, <1>4
<1>6. Within(h, i, e - 1, m)
  BY <1>0, <1>5 DEF Within
<1>7. e - 1 \in i..e - 1
  BY <1>0, <1>4
<1>8. Len(h[e - 1]) >= m /\ Len(h[e]) < m
  BY <1>3, <1>6, <1>7 DEF Within
<1>9. Becomes(G, top, c[e], h[e - 1], h[e]) /\ Stack(top, h[e - 1]) /\ Stack(top, h[e])
  BY <1>4 DEF History
<1> HIDE DEF T
<1> QED BY <1>4, <1>6, <1>8, <1>9, StepOut DEF EndsBlock

\* Before the end of a block there is no end at its level.
LEMMA NoEndBefore ==
  ASSUME NEW G, NEW top, NEW c, NEW h, History(G, top, c, h),
         NEW i \in 0..Len(c), NEW j \in i..Len(c), NEW m \in Nat, m > 1, Within(h, i, j, m),
         NEW k \in i + 1..j, c[k].op \in Ends
  PROVE  c[k].depth # m
<1>1. Len(c) \in Nat /\ i \in Nat /\ k \in 1..Len(c) /\ k \in i..j /\ k \in 0..Len(c) /\ k - 1 \in 0..Len(c)
  BY DEF History
<1>2. /\ Becomes(G, top, c[k], h[k - 1], h[k]) /\ Len(h[k]) >= m /\ Len(h[k - 1]) \in Nat
      /\ Len(h[k]) \in Nat
  BY <1>1 DEF History, Within, Stack
<1>3. Len(h[k]) = Len(h[k - 1]) - 1
  BY SMTT(30), <1>2, AnEnd DEF EndsIf, EndsLoop
<1> QED BY <1>2, <1>3 DEF Becomes

\* The smallest of a set of numbers is what Min says.
LEMMA MinIs ==
  ASSUME NEW S, S \subseteq Nat, NEW x \in S, \A y \in S : x <= y
  PROVE  Min(S) = x
<1>1. \A z \in S : (\A y \in S : z <= y) => z = x
  BY S \subseteq Nat
<1> QED BY <1>1, Zenon DEF Min

\* The least of a set of naturals is one of them.
LEMMA MinIn ==
  ASSUME NEW S, S \subseteq Nat, S # {}
  PROVE  Min(S) \in S /\ \A y \in S : Min(S) <= y
<1>1. PICK x \in S : \A y \in S : x <= y
  BY SmallestExists
<1> QED BY <1>1, MinIs

\* The greatest of a bounded set of naturals is one of them.
LEMMA MaxIn ==
  ASSUME NEW S, S \subseteq Nat, S # {}, NEW m \in Nat, \A x \in S : x <= m
  PROVE  Max(S) \in S /\ \A y \in S : Max(S) >= y
<1> DEFINE T == {m - x : x \in S}
<1>1. T \subseteq Nat /\ T # {}
  <2>1. \A x \in S : x \in Nat /\ m - x \in Nat
    OBVIOUS
  <2> QED BY <2>1
<1>2. PICK t \in T : \A u \in T : t <= u
  BY <1>1, SmallestExists
<1>3. PICK x \in S : t = m - x
  BY <1>2
<1>4. ASSUME NEW y \in S PROVE x >= y
  <2>1. m - y \in T
    OBVIOUS
  <2>2. t <= m - y
    BY <1>2, <2>1
  <2>3. x \in Nat /\ y \in Nat
    OBVIOUS
  <2> QED BY <1>3, <2>2, <2>3
<1> QED BY <1>3, <1>4, Zenon DEF Max

-------------------------------------------------------------------------------
\* The end found by counting depths is the end of the block that is open.
LEMMA EndLabel ==
  ASSUME NEW top, NEW h, History(globals, top, code, h),
         NEW i \in 0..Len(code), NEW m \in Nat, m > 1, NEW e, EndsBlock(code, h, i, e, m),
         NEW op \in Ends, code[e].op = op
  PROVE  Label(i, m, {op}) = e
<1> DEFINE S == {j \in i + 1..Len(code) : code[j].depth = m /\ code[j].op \in {op}}
<1>1. Len(code) \in Nat /\ S \subseteq Nat /\ e \in S
  BY DEF History, EndsBlock
<1>2. ASSUME NEW y \in S, y < e PROVE FALSE
  <2>1. e - 1 \in i..Len(code) /\ y \in i + 1..e - 1 /\ Within(h, i, e - 1, m)
    BY <1>1, <1>2 DEF EndsBlock
  <2> QED BY <2>1, NoEndBefore
<1>3. \A y \in S : e <= y
  BY <1>1, <1>2
<1> HIDE DEF S
<1>4. Min(S) = e
  BY <1>1, <1>3, MinIs
<1> QED BY <1>4 DEF Label, S

\* The condition of an arm jumps to where the next begins, or past the if.
LEMMA ArmLabel ==
  ASSUME NEW top, NEW h, History(globals, top, code, h), Complete(code, h),
         NEW i \in 0..Len(code), NEW m \in Nat, m > 1, Len(h[i]) >= m, h[i][m].kind # "loop",
         NEW next, next = Label(i, m, Arms)
  PROVE  /\ next \in i + 1..Len(code) /\ code[next].depth = m /\ code[next].op \in Arms
         /\ Within(h, i, next - 1, m)
         /\ \A k \in i + 1..next - 1 : ~(code[k].depth = m /\ code[k].op \in Arms)
<1> DEFINE S == {j \in i + 1..Len(code) : code[j].depth = m /\ code[j].op \in Arms}
<1>0. Len(code) \in Nat /\ S \subseteq Nat
  BY DEF History
<1>1. PICK e : EndsBlock(code, h, i, e, m)
  BY BlocksEnd
<1>2. e - 1 \in i..Len(code) /\ e - 1 \in i..e - 1 /\ e \in i + 1..Len(code)
  BY <1>0, <1>1 DEF EndsBlock
<1>3. h[e - 1][m].kind # "loop"
  BY <1>1, <1>2, Meanwhile DEF EndsBlock
<1>4. e \in S
  BY <1>1, <1>3 DEF EndsBlock, EndsIf, EndsLoop, Arms
<1> HIDE DEF S
<1>5. Min(S) \in S /\ \A y \in S : Min(S) <= y
  BY <1>0, <1>4, MinIn
<1>6. next = Min(S)
  BY DEF Label, S
<1>7. next \in i + 1..Len(code) /\ next <= e
  BY <1>4, <1>5, <1>6 DEF S
<1>8. \A k \in i + 1..next - 1 : ~(code[k].depth = m /\ code[k].op \in Arms)
  <2>1. ASSUME NEW k \in i + 1..next - 1, k \in S PROVE FALSE
    BY <1>0, <1>5, <1>6, <1>7, <2>1
  <2>2. ASSUME NEW k \in i + 1..next - 1 PROVE k \in i + 1..Len(code)
    BY <1>0, <1>7
  <2> QED BY <2>1, <2>2 DEF S
<1>9. Within(h, i, next - 1, m)
  <2>1. i..next - 1 \subseteq i..e - 1
    BY <1>0, <1>2, <1>7
  <2> QED BY <1>1, <2>1 DEF EndsBlock, Within
<1> QED BY <1>5, <1>6, <1>7, <1>8, <1>9 DEF S

\* A loop that a jump may go to is open where the jump is.
LEMMA LoopEnds ==
  ASSUME NEW top, NEW h, History(globals, top, code, h), Complete(code, h),
         NEW l \in 1..Len(code), code[l].op \in Loops
  PROVE  /\ code[l].depth = Len(h[l - 1]) /\ code[l].depth >= 1
         /\ EndsBlock(code, h, l, AgainOf(l), code[l].depth + 1)
         /\ Len(h[l]) = code[l].depth + 1
         /\ Same(h[l - 1], h[l], code[l].depth)
         /\ h[l][code[l].depth + 1].kind = "loop"
<1> DEFINE m == code[l].depth + 1
<1>0. Len(code) \in Nat /\ l \in 0..Len(code) /\ l - 1 \in 0..Len(code)
  BY DEF History
<1>1. /\ Becomes(globals, top, code[l], h[l - 1], h[l])
      /\ Stack(top, h[l - 1]) /\ Stack(top, h[l])
  BY <1>0 DEF History
<1>2. /\ Opens(top, code[l], h[l - 1], h[l]) /\ code[l].depth = Len(h[l - 1])
  BY <1>1 DEF Loops, Becomes, Uses, EndsArm, Jumps, Binds, Returns, TakesArm, EndsIf, EndsLoop
<1>3. /\ Len(h[l - 1]) \in Nat /\ Len(h[l - 1]) >= 1 /\ Len(h[l]) = m /\ h[l][m].kind = "loop"
      /\ m \in Nat /\ m > 1 /\ Same(h[l - 1], h[l], code[l].depth)
  BY <1>1, <1>2 DEF Stack, Opens, Loops
<1>4. PICK e : EndsBlock(code, h, l, e, m)
  BY <1>0, <1>3, BlocksEnd
<1>5. e - 1 \in l..Len(code) /\ e - 1 \in l..e - 1 /\ e \in l + 1..Len(code)
  BY <1>0, <1>4 DEF EndsBlock
<1>6. h[e - 1][m].kind = "loop"
  BY SMTT(30), <1>0, <1>3, <1>4, <1>5, Meanwhile DEF EndsBlock
<1>7. code[e].op = "again"
  BY <1>4, <1>6 DEF EndsBlock, EndsIf, EndsLoop
<1>8. AgainOf(l) = e
  <2>1. Label(l, m, {"again"}) = e
    BY <1>0, <1>3, <1>4, <1>7, EndLabel DEF Ends
  <2> QED BY <2>1 DEF AgainOf
<1> QED BY <1>2, <1>3, <1>4, <1>8

\* The loops found around an item are open there.
LEMMA LoopsAreOpen ==
  ASSUME NEW top, NEW h, History(globals, top, code, h), Complete(code, h),
         NEW i \in 1..Len(code), NEW l \in LoopsAround(i)
  PROVE  /\ l \in 1..Len(code) /\ l < i /\ code[l].op \in Loops
         /\ Within(h, l, i - 1, code[l].depth + 1)
         /\ Same(h[l - 1], h[i - 1], code[l].depth)
<1>0. /\ Len(code) \in Nat /\ l \in 1..i - 1 /\ l \in 1..Len(code) /\ code[l].op \in Loops
      /\ AgainOf(l) >= i
  BY DEF History, LoopsAround, AgainOf, Loops
<1> DEFINE m == code[l].depth + 1
<1>1. /\ EndsBlock(code, h, l, AgainOf(l), m) /\ Same(h[l - 1], h[l], m - 1)
      /\ code[l].depth >= 1 /\ code[l].depth \in Nat /\ m \in Nat /\ m > 1
  <2>1. code[l] \in Items
    BY <1>0 DEF History
  <2>2. code[l].depth \in Nat
    BY <2>1 DEF Items
  <2> QED BY <1>0, <2>2, LoopEnds
<1>2. Within(h, l, i - 1, m)
  <2>1. l..i - 1 \subseteq l..AgainOf(l) - 1
    BY <1>0, <1>1 DEF EndsBlock
  <2> QED BY <1>1, <2>1 DEF EndsBlock, Within
<1>3. i - 1 \in l..Len(code) /\ l \in 0..Len(code)
  BY <1>0
<1>4. Same(h[l], h[i - 1], m - 1)
  <2> HIDE DEF m
  <2> QED BY <1>1, <1>2, <1>3, Meanwhile
<1> QED BY <1>0, <1>1, <1>2, <1>4 DEF Same

\* Inside a loop there is one to jump to.
LEMMA LoopsAreFound ==
  ASSUME NEW top, NEW h, History(globals, top, code, h), Complete(code, h),
         NEW i \in 1..Len(code), NEW m \in DOMAIN h[i - 1], h[i - 1][m].kind = "loop"
  PROVE  LoopOf(i) \in LoopsAround(i)
<1>0. /\ Len(code) \in Nat /\ i - 1 \in 0..Len(code) /\ i \in Nat /\ 0 \in 0..Len(code)
      /\ \A x \in 0..Len(code) : Stack(top, h[x]) /\ Len(h[x]) \in Nat
  BY DEF History, Stack
<1>1. m \in Nat /\ m > 1 /\ Len(h[i - 1]) >= m
  <2>1. Stack(top, h[i - 1])
    BY <1>0
  <2> QED BY <2>1 DEF Stack
<1> DEFINE S == {x \in 0..i - 1 : Len(h[x]) < m}
<1>2. 0 \in S
  <2>1. Len(h[0]) = 1 /\ 0 \in 0..i - 1
    BY <1>0 DEF History
  <2> QED BY <1>1, <2>1
<1>3. S \subseteq Nat /\ \A x \in S : x <= i
  BY <1>0
<1>4. Max(S) \in S /\ \A y \in S : Max(S) >= y
  <2> HIDE DEF S
  <2> QED BY <1>0, <1>2, <1>3, MaxIn
<1>5. PICK x \in S : \A y \in S : x >= y
  BY <1>4
<1>6. x \in 0..i - 1 /\ x # i - 1 /\ Len(h[x]) < m
  BY <1>1, <1>5
<1> DEFINE l == x + 1
<1>7. /\ l \in 1..i - 1 /\ l \in 1..Len(code) /\ l - 1 = x /\ i - 1 \in l..Len(code)
      /\ l \in 0..Len(code) /\ x \in 0..Len(code) /\ l \in l..i - 1
  BY <1>0, <1>6
<1>8. Within(h, l, i - 1, m)
  <2>1. ASSUME NEW k \in l..i - 1, Len(h[k]) < m PROVE FALSE
    <3>1. k \in S /\ ~(x >= k)
      BY <1>0, <1>7, <2>1
    <3> QED BY <1>5, <3>1
  <2>2. \A k \in l..i - 1 : Len(h[k]) \in Nat
    BY <1>0, <1>7
  <2> QED BY <1>1, <2>1, <2>2 DEF Within
<1> HIDE DEF l, S
<1>9. /\ Becomes(globals, top, code[l], h[x], h[l]) /\ Len(h[l]) >= m
  BY <1>7, <1>8 DEF History, Within
<1>10. Opens(top, code[l], h[x], h[l]) /\ code[l].depth = m - 1 /\ Len(h[l]) = m
  BY <1>0, <1>1, <1>6, <1>7, <1>9, StepIn
<1>11. h[l][m].kind = "loop"
  BY <1>1, <1>7, <1>8, Meanwhile
<1>12. code[l].op \in Loops
  BY <1>10, <1>11 DEF Opens, Loops
<1>13. EndsBlock(code, h, l, AgainOf(l), m)
  BY <1>1, <1>7, <1>10, <1>12, LoopEnds
<1>14. AgainOf(l) >= i
  <2>1. ASSUME AgainOf(l) < i PROVE FALSE
    <3>1. AgainOf(l) \in l..i - 1 /\ Len(h[AgainOf(l)]) = m - 1
      BY <1>7, <1>13, <2>1 DEF EndsBlock
    <3> QED BY <1>1, <1>8, <3>1 DEF Within
  <2> QED BY <1>7, <1>13, <2>1 DEF EndsBlock
<1>15. l \in LoopsAround(i)
  BY <1>7, <1>12, <1>14 DEF LoopsAround, AgainOf, Loops
<1>16. LoopsAround(i) \subseteq Nat /\ \A y \in LoopsAround(i) : y <= i
  BY <1>0 DEF LoopsAround
<1> QED BY <1>0, <1>15, <1>16, MaxIn DEF LoopOf

-------------------------------------------------------------------------------
(***************************************************************************)
(* A run: the blocks that are open are the ones the code says, and a name  *)
(* holds what its slot holds.                                              *)
(***************************************************************************)
Places == {Global(n) : n \in globals} \cup {Local(k) : k \in 1..MaxItems}

Holds(mem, b, n, v) ==
  IF b.names[n] = NoSlot THEN v = Unset ELSE v # Unset /\ v = mem[Local(b.names[n])]

\* The blocks e hold what the first m levels of s say.
Matches(e, mem, s, m) ==
  /\ e \in Seq([Names -> Int]) /\ Len(e) = m
  /\ \A l \in 1..m : ~s[l].returns /\ \A n \in Names : Holds(mem, s[l], n, e[l][n])

\* An arm that was not taken leaves its block closed before the next is tried.
Height(h) ==
  IF pc \in 1..Len(code) /\ code[pc].op = "elseif" THEN Len(h[pc - 1]) - 1 ELSE Len(h[pc - 1])

Runs(top, h) ==
  /\ History(globals, top, code, h) /\ Complete(code, h)
  /\ top \in 0..MaxItems /\ globals \subseteq Names
  /\ outputs => h[Len(code)][1].returns
  /\ pc \in 1..Len(code) + 1
  /\ memory \in [Places -> Int]
  /\ \A n \in globals : memory[Global(n)] # Unset
  /\ Matches(env, memory, h[pc - 1], Height(h))

\* What is known where the run is.
LEMMA AtItem ==
  ASSUME NEW top, NEW h, Runs(top, h), running
  PROVE  /\ pc \in 1..Len(code) /\ Len(code) \in Nat /\ pc - 1 \in 0..Len(code) /\ pc \in 0..Len(code)
         /\ At \in Items /\ Becomes(globals, top, At, h[pc - 1], h[pc])
         /\ Stack(top, h[pc - 1]) /\ Stack(top, h[pc])
         /\ Len(h[pc - 1]) \in Nat /\ Len(h[pc]) \in Nat /\ At.depth = Len(h[pc - 1])
         /\ Len(h[pc - 1]) >= 1 /\ Len(h[pc]) >= 1
<1>1. pc \in 1..Len(code) /\ Len(code) \in Nat /\ pc - 1 \in 0..Len(code) /\ pc \in 0..Len(code)
  BY DEF Runs, History, running
<1>2. Becomes(globals, top, At, h[pc - 1], h[pc]) /\ Stack(top, h[pc - 1]) /\ Stack(top, h[pc])
  BY <1>1 DEF Runs, History, At
<1> QED BY <1>1, <1>2 DEF Becomes, Stack

\* A jump lands with as many scopes as its place has.
LEMMA Lands ==
  ASSUME NEW top, NEW h, Runs(top, h), Stay, pc' \in 2..Len(code) + 1, code[pc' - 1].op # "endarm"
  PROVE  Height(h)' = Len(h[pc' - 1])
<1>1. ASSUME pc' \in 1..Len(code) PROVE code[pc'].op # "elseif"
  <2>1. Follows(code, pc')
    BY <1>1 DEF Runs, History
  <2> QED BY <2>1 DEF Follows, Arms
<1> QED BY <1>1 DEF Height, Stay, checker

\* A run whose memory and scopes match where it goes, runs on.
LEMMA RunsOn ==
  ASSUME NEW top, NEW h, Runs(top, h), Stay, pc' \in 1..Len(code) + 1,
         memory' \in [Places -> Int], \A n \in globals : memory'[Global(n)] # Unset,
         Matches(env', memory', h[pc' - 1], Height(h)')
  PROVE  Runs(top, h)'
BY DEF Runs, Stay, checker, Places

\* The run goes on behind the item before pc'.
LEMMA RunsBehind ==
  ASSUME NEW top, NEW h, Runs(top, h), Stay, pc' \in 2..Len(code) + 1, code[pc' - 1].op # "endarm",
         memory' \in [Places -> Int], \A n \in globals : memory'[Global(n)] # Unset,
         Matches(env', memory', h[pc' - 1], Len(h[pc' - 1]))
  PROVE  Runs(top, h)'
BY Lands, RunsOn

\* Closing blocks keeps what the remaining scopes hold.
LEMMA Shutting ==
  ASSUME NEW e, NEW mem, NEW s, NEW m \in Nat, Matches(e, mem, s, m), NEW t, NEW k \in 0..m, Same(s, t, k)
  PROVE  Matches(SubSeq(e, 1, k), mem, t, k)
<1>1. e \in Seq([Names -> Int]) /\ Len(e) = m /\ 1..k \subseteq 1..m
  BY DEF Matches
<1>2. /\ SubSeq(e, 1, k) \in Seq([Names -> Int]) /\ Len(SubSeq(e, 1, k)) = k
      /\ \A l \in 1..k : SubSeq(e, 1, k)[l] = e[l]
  BY <1>1
<1> QED BY <1>1, <1>2, Zenon DEF Matches, Same

\* Opening a block keeps what the scopes below it hold.
LEMMA Opening ==
  ASSUME NEW e, NEW mem, NEW s, NEW m \in Nat, Matches(e, mem, s, m), NEW t, Same(s, t, m),
         ~t[m + 1].returns, NEW b \in [Names -> Int], \A n \in Names : Holds(mem, t[m + 1], n, b[n])
  PROVE  Matches(Append(e, b), mem, t, m + 1)
<1>1. e \in Seq([Names -> Int]) /\ Len(e) = m
  BY DEF Matches
<1>2. /\ Append(e, b) \in Seq([Names -> Int]) /\ Len(Append(e, b)) = m + 1
      /\ \A l \in 1..m : Append(e, b)[l] = e[l]
      /\ Append(e, b)[m + 1] = b
  BY <1>1
<1>3. \A l \in 1..m + 1 : l \in 1..m \/ l = m + 1
  OBVIOUS
<1> QED BY <1>2, <1>3, Zenon DEF Matches, Same

\* Opening a block without names takes nothing along.
LEMMA Anew ==
  ASSUME NEW e, NEW mem, NEW s, NEW m \in Nat, Matches(e, mem, s, m), NEW t, Same(s, t, m),
         ~t[m + 1].returns, t[m + 1].names = Nameless
  PROVE  Matches(Append(e, [n \in Names |-> Unset]), mem, t, m + 1)
<1>1. [n \in Names |-> Unset] \in [Names -> Int]
  BY DEF Unset
<1>2. \A n \in Names : Holds(mem, t[m + 1], n, [a \in Names |-> Unset][n])
  BY DEF Holds, Nameless
<1> QED BY <1>1, <1>2, Opening

\* The same names, and no block more that returns.
LEMMA Alike ==
  ASSUME NEW e, NEW mem, NEW s, NEW m, Matches(e, mem, s, m), NEW t,
         \A l \in 1..m : (t[l].returns => s[l].returns) /\ t[l].names = s[l].names
  PROVE  Matches(e, mem, t, m)
<1>1. ASSUME NEW l \in 1..m, NEW n \in Names PROVE Holds(mem, t[l], n, e[l][n])
  <2>1. Holds(mem, s[l], n, e[l][n])
    BY DEF Matches
  <2>2. t[l].names = s[l].names
    OBVIOUS
  <2> QED BY <2>1, <2>2 DEF Holds
<1> QED BY <1>1 DEF Matches

\* The memory changes nowhere that the blocks know of.
LEMMA Elsewhere ==
  ASSUME NEW e, NEW mem, NEW s, NEW m \in Nat, Matches(e, mem, s, m), NEW other,
         \A l \in 1..m : \A n \in Names :
           s[l].names[n] # NoSlot => other[Local(s[l].names[n])] = mem[Local(s[l].names[n])]
  PROVE  Matches(e, other, s, m)
BY DEF Matches, Holds

-------------------------------------------------------------------------------
\* A binding the run knows: who holds a name is who has it in the scopes.
LEMMA HoldersAre ==
  ASSUME NEW top \in Nat, NEW s, Stack(top, s), NEW mem, Matches(env, mem, s, Len(s)), NEW n \in Names
  PROVE  /\ Holders(n) = Binders(s, n)
         /\ Binders(s, n) # {} => /\ Max(Binders(s, n)) \in DOMAIN s /\ Bound(s, n) \in 1..top
                                  /\ s[Max(Binders(s, n))].names[n] = Bound(s, n)
<1>1. s \in Seq(Levels(top)) /\ Len(s) \in Nat /\ DOMAIN s = 1..Len(s) /\ DOMAIN env = 1..Len(s)
  BY DEF Stack, Matches
<1>2. Holders(n) = Binders(s, n)
  BY <1>1 DEF Holders, Binders, Matches, Holds
<1>3. ASSUME Binders(s, n) # {} PROVE Max(Binders(s, n)) \in Binders(s, n)
  <2>1. Binders(s, n) \subseteq Nat /\ \A x \in Binders(s, n) : x <= Len(s)
    BY <1>1 DEF Binders
  <2> QED BY <1>1, <1>3, <2>1, MaxIn
<1>4. ASSUME NEW l \in Binders(s, n) PROVE s[l].names[n] \in 1..top
  <2>1. s[l] \in Levels(top) /\ s[l].names[n] # NoSlot
    BY <1>1 DEF Binders
  <2> QED BY <2>1 DEF Levels, NoSlot
<1> QED BY <1>2, <1>3, <1>4 DEF Binders, Bound

\* Where a run is, memory and scopes match.
LEMMA Here ==
  ASSUME NEW top, NEW h, Runs(top, h), running
  PROVE  Matches(env, memory, h[pc - 1], IF At.op = "elseif" THEN Len(h[pc - 1]) - 1 ELSE Len(h[pc - 1]))
BY AtItem DEF Runs, Height, At

\* A run goes on to the next item when memory and scopes match there.
LEMMA AStep ==
  ASSUME NEW top, NEW h, Runs(top, h), running, Stay, At.op # "endarm", pc' = pc + 1,
         memory' \in [Places -> Int], \A n \in globals : memory'[Global(n)] # Unset,
         Matches(env', memory', h[pc], Len(h[pc]))
  PROVE  Runs(top, h)'
<1>1. pc' \in 2..Len(code) + 1 /\ pc' - 1 = pc
  BY AtItem
<1> QED BY <1>1, RunsBehind DEF At

\* A slot of the frame is written.
LEMMA MemoryWritten ==
  ASSUME NEW top, NEW h, Runs(top, h), NEW slot, NEW v \in Int, v # Unset, memory' = [memory EXCEPT ![slot] = v]
  PROVE  memory' \in [Places -> Int] /\ \A n \in globals : memory'[Global(n)] # Unset
<1>1. memory \in [Places -> Int] /\ \A n \in globals : memory[Global(n)] # Unset
  BY DEF Runs
<1>2. memory' \in [Places -> Int] /\ \A p \in Places : memory'[p] \in {v, memory[p]}
  BY <1>1
<1>3. \A n \in globals : Global(n) \in Places
  BY Zenon DEF Places
<1> QED BY <1>1, <1>2, <1>3

\* Writing another place leaves a slot alone.
LEMMA OtherSlot ==
  ASSUME NEW top, NEW h, Runs(top, h), NEW slot, NEW v, NEW k \in 1..top, slot # Local(k)
  PROVE  [memory EXCEPT ![slot] = v][Local(k)] = memory[Local(k)]
<1>1. k \in 1..MaxItems
  BY ScopesAssumption DEF Runs
<1>2. Local(k) \in DOMAIN memory
  BY <1>1, Zenon DEF Runs, Places
<1> QED BY <1>2, Zenon

\* A slot that is written holds what was written.
LEMMA ThisSlot ==
  ASSUME NEW top, NEW h, Runs(top, h), NEW v, NEW k \in 1..top
  PROVE  [memory EXCEPT ![Local(k)] = v][Local(k)] = v
<1>1. k \in 1..MaxItems
  BY ScopesAssumption DEF Runs
<1>2. Local(k) \in DOMAIN memory
  BY <1>1, Zenon DEF Runs, Places
<1> QED BY <1>2, Zenon

\* The slots of a stack are slots of the frame.
LEMMA SlotsOf ==
  ASSUME NEW top \in Nat, NEW s, Stack(top, s), NEW l \in DOMAIN s, NEW n \in Names, s[l].names[n] # NoSlot
  PROVE  s[l].names[n] \in 1..top
<1>1. s[l] \in Levels(top)
  BY DEF Stack
<1> QED BY <1>1 DEF Levels, NoSlot

\* A new name: nothing else is in its slot.
LEMMA Binding ==
  ASSUME NEW top \in Nat, NEW h, Runs(top, h), running, RunWrite, At.op \in {"declare", "make"}
  PROVE  Runs(top, h)'
<1> DEFINE s == h[pc - 1]
           t == h[pc]
           m == Len(s)
<1>1. /\ Binds(top, At, s, t) /\ m \in Nat /\ m >= 1 /\ Stack(top, s) /\ Stack(top, t)
      /\ pc \in 1..Len(code)
  BY AtItem DEF Becomes, Uses, EndsArm, Jumps, Returns, Opens, TakesArm, EndsIf, EndsLoop
<1>2. PICK k \in 1..top : /\ Fresh(k, s) /\ At.slot = Local(k)
                          /\ t[m].names = [s[m].names EXCEPT ![At.name] = k]
  BY <1>1 DEF Binds
<1>3. Matches(env, memory, s, m)
  BY Here
<1>4. memory' = [memory EXCEPT ![Local(k)] = pc]
  BY <1>2 DEF RunWrite
<1> DEFINE b == [env[m] EXCEPT ![At.name] = pc]
<1>5. env \in Seq([Names -> Int]) /\ Len(env) = m
  BY <1>3 DEF Matches
<1>6. env' = [env EXCEPT ![m] = b]
  BY <1>5, Zenon DEF RunWrite
<1>7. At.name \in Names /\ Len(t) = m /\ Same(s, t, m - 1) /\ (t[m].returns => s[m].returns)
  BY <1>1 DEF Binds
<1>8. pc \in Int /\ pc # Unset
  BY <1>1 DEF Unset
<1>9. m \in 1..m /\ env[m] \in [Names -> Int]
  BY <1>1, <1>5
<1>10. b \in [Names -> Int] /\ b[At.name] = pc /\ \A n \in Names \ {At.name} : b[n] = env[m][n]
  BY <1>7, <1>8, <1>9
<1>11. s[m].names \in [Names -> 0..top]
  <2>1. s[m] \in Levels(top)
    BY <1>1, <1>9 DEF Stack
  <2> QED BY <2>1 DEF Levels
<1>12. t[m].names[At.name] = k /\ \A n \in Names \ {At.name} : t[m].names[n] = s[m].names[n]
  BY <1>2, <1>7, <1>11
<1>13. ASSUME NEW l \in 1..m, NEW n \in Names, s[l].names[n] # NoSlot
       PROVE  memory'[Local(s[l].names[n])] = memory[Local(s[l].names[n])]
  <2>1. l \in DOMAIN s /\ s[l].names[n] # k
    BY <1>1, <1>2, <1>13 DEF Fresh, Stack
  <2>2. s[l].names[n] \in 1..top
    BY <1>1, <1>13, <2>1, SlotsOf
  <2>3. Local(k) # Local(s[l].names[n])
    BY <2>1 DEF Local
  <2> QED BY <1>4, <2>2, <2>3, OtherSlot
<1>14. Matches(env, memory', s, m)
  BY <1>1, <1>3, <1>13, Elsewhere
<1> HIDE DEF b
<1>15. ASSUME NEW n \in Names PROVE Holds(memory', t[m], n, b[n])
  <2>1. CASE n = At.name
    <3>1. memory'[Local(k)] = pc
      BY <1>4, ThisSlot
    <3> QED BY <1>8, <1>10, <1>12, <2>1, <3>1 DEF Holds, NoSlot
  <2>2. CASE n # At.name
    <3>1. Holds(memory', s[m], n, env[m][n])
      BY <1>9, <1>14 DEF Matches
    <3> QED BY <1>10, <1>12, <2>2, <3>1 DEF Holds
  <2> QED BY <2>1, <2>2
<1>16. Matches(env', memory', t, m)
  <2>1. env' \in Seq([Names -> Int]) /\ Len(env') = m /\ env'[m] = b /\ \A l \in 1..m - 1 : env'[l] = env[l]
    BY <1>1, <1>5, <1>6, <1>10
  <2>2. \A l \in 1..m : l = m \/ l \in 1..m - 1
    BY <1>1
  <2>3. ASSUME NEW l \in 1..m - 1 PROVE ~t[l].returns /\ \A n \in Names : Holds(memory', t[l], n, env'[l][n])
    <3>1. t[l] = s[l] /\ env'[l] = env[l] /\ l \in 1..m
      BY <1>1, <1>7, <2>1 DEF Same
    <3> QED BY <1>14, <3>1 DEF Matches
  <2>4. ~t[m].returns
    BY <1>7, <1>9, <1>14 DEF Matches
  <2> QED BY <1>15, <2>1, <2>2, <2>3, <2>4 DEF Matches
<1>17. At.op # "endarm" /\ pc' = pc + 1 /\ Stay
  BY DEF RunWrite
<1>18. memory' \in [Places -> Int] /\ \A n \in globals : memory'[Global(n)] # Unset
  BY <1>4, <1>8, MemoryWritten
<1> QED BY <1>7, <1>16, <1>17, <1>18, AStep

\* A name that is there: no other name of the stack is in its slot.
LEMMA Rewriting ==
  ASSUME NEW top \in Nat, NEW h, Runs(top, h), running, RunWrite, At.op = "write"
  PROVE  Runs(top, h)'
<1> DEFINE s == h[pc - 1]
           m == Len(s)
           n == At.name
<1>1. /\ Uses(globals, At, s, h[pc]) /\ m \in Nat /\ m >= 1 /\ Stack(top, s)
      /\ pc \in 1..Len(code)
  BY AtItem DEF Becomes, Binds, EndsArm, Jumps, Returns, Opens, TakesArm, EndsIf, EndsLoop
<1>2. Matches(env, memory, s, m)
  BY Here
<1>3. pc \in Int /\ pc # Unset
  BY <1>1 DEF Unset
<1>4. n \in Names /\ h[pc] = s /\ memory' = [memory EXCEPT ![At.slot] = pc]
  BY <1>1 DEF Uses, RunWrite
<1>5. /\ Holders(n) = Binders(s, n)
      /\ Binders(s, n) # {} => /\ Max(Binders(s, n)) \in DOMAIN s /\ Bound(s, n) \in 1..top
                               /\ s[Max(Binders(s, n))].names[n] = Bound(s, n)
  BY <1>1, <1>2, <1>4, HoldersAre
<1>6. Matches(env', memory', s, m)
  <2>1. CASE Binders(s, n) = {}
    <3>1. At.slot = Global(n) /\ env' = env
      BY <1>1, <1>5, <2>1 DEF Uses, RunWrite
    <3>2. ASSUME NEW l \in 1..m, NEW a \in Names, s[l].names[a] # NoSlot
          PROVE  memory'[Local(s[l].names[a])] = memory[Local(s[l].names[a])]
      <4>1. s[l].names[a] \in 1..top
        <5>1. l \in DOMAIN s
          BY <1>1 DEF Stack
        <5> QED BY <1>1, <3>2, <5>1, SlotsOf
      <4>2. At.slot # Local(s[l].names[a])
        BY <3>1 DEF Local, Global
      <4> QED BY <1>4, <4>1, <4>2, OtherSlot
    <3> QED BY <1>1, <1>2, <3>1, <3>2, Elsewhere
  <2>2. CASE Binders(s, n) # {}
    <3> DEFINE x == Max(Binders(s, n))
               k == Bound(s, n)
               b == [env[x] EXCEPT ![n] = pc]
    <3>1. At.slot = Local(k) /\ x \in 1..m /\ k \in 1..top /\ s[x].names[n] = k
      BY <1>1, <1>5, <2>2 DEF Uses, Stack
    <3>2. env \in Seq([Names -> Int]) /\ Len(env) = m /\ env[x] \in [Names -> Int]
      BY <1>2, <3>1 DEF Matches
    <3>3. env' = [env EXCEPT ![x] = b]
      BY <1>5, <2>2, Zenon DEF RunWrite
    <3> HIDE DEF x, k
    <3>4. b \in [Names -> Int] /\ b[n] = pc /\ \A a \in Names \ {n} : b[a] = env[x][a]
      BY <1>3, <1>4, <3>2
    <3> HIDE DEF b
    <3>5. /\ env' \in Seq([Names -> Int]) /\ Len(env') = m /\ env'[x] = b
          /\ \A l \in 1..m : l # x => env'[l] = env[l]
      BY <1>1, <3>1, <3>2, <3>3, <3>4
    <3>6. ASSUME NEW l \in 1..m, NEW a \in Names PROVE Holds(memory', s[l], a, env'[l][a])
      <4>0. Holds(memory, s[l], a, env[l][a])
        BY <1>2 DEF Matches
      <4>1. CASE l = x /\ a = n
        <5>1. memory'[Local(k)] = pc
          <6>1. memory' = [memory EXCEPT ![Local(k)] = pc]
            BY <1>4, <3>1
          <6> QED BY <3>1, <6>1, ThisSlot
        <5> QED BY <1>3, <3>1, <3>4, <3>5, <4>1, <5>1 DEF Holds, NoSlot
      <4>2. CASE ~(l = x /\ a = n)
        <5>1. env'[l][a] = env[l][a]
          BY <3>4, <3>5, <4>2
        <5>2. ASSUME s[l].names[a] # NoSlot
              PROVE  memory'[Local(s[l].names[a])] = memory[Local(s[l].names[a])]
          <6>1. s[l].names[a] \in 1..top
            <7>1. l \in DOMAIN s
              BY <1>1 DEF Stack
            <7> QED BY <1>1, <5>2, <7>1, SlotsOf
          <6>2. s[l].names[a] # k
            BY <1>1, <1>4, <3>1, <4>2, <5>2 DEF Stack, Apart
          <6>3. At.slot # Local(s[l].names[a])
            BY <3>1, <6>2 DEF Local
          <6> QED BY <1>4, <6>1, <6>3, OtherSlot
        <5> QED BY <4>0, <5>1, <5>2 DEF Holds
      <4> QED BY <4>1, <4>2
    <3> QED BY <1>2, <3>5, <3>6 DEF Matches
  <2> QED BY <2>1, <2>2
<1>7. At.op # "endarm" /\ pc' = pc + 1 /\ Stay
  BY DEF RunWrite
<1>8. memory' \in [Places -> Int] /\ \A a \in globals : memory'[Global(a)] # Unset
  BY <1>3, <1>4, MemoryWritten
<1> QED BY <1>4, <1>6, <1>7, <1>8, AStep

\* A read goes on.
LEMMA Reading ==
  ASSUME NEW top \in Nat, NEW h, Runs(top, h), RunRead
  PROVE  Runs(top, h)'
<1>1. running /\ At.op = "read" /\ pc' = pc + 1 /\ Stay /\ memory' = memory /\ env' = env
  BY DEF RunRead
<1>2. Uses(globals, At, h[pc - 1], h[pc])
  BY <1>1, AtItem DEF Becomes, Binds, EndsArm, Jumps, Returns, Opens, TakesArm, EndsIf, EndsLoop
<1>3. h[pc] = h[pc - 1]
  BY <1>2 DEF Uses
<1>4. Matches(env', memory', h[pc], Len(h[pc]))
  BY <1>1, <1>3, Here
<1>5. memory' \in [Places -> Int] /\ \A n \in globals : memory'[Global(n)] # Unset
  BY <1>1 DEF Runs
<1> QED BY <1>1, <1>4, <1>5, AStep

\* An arm that is taken, and a condition that does not hold.
LEMMA Condition ==
  ASSUME NEW top \in Nat, NEW h, Runs(top, h), RunCondition
  PROVE  Runs(top, h)'
<1> DEFINE s == h[pc - 1]
           t == h[pc]
           m == Len(t)
<1>1. running /\ At.op \in {"if", "elseif"} /\ Stay /\ memory' = memory
  BY DEF RunCondition
<1>2. /\ At.op = "if" => Opens(top, At, s, t)
      /\ At.op = "elseif" => TakesArm(At, s, t)
  BY <1>1, AtItem DEF Becomes, Uses, Binds, EndsArm, Jumps, Returns, Opens, TakesArm, EndsIf, EndsLoop
<1>3. /\ Len(s) \in Nat /\ m \in Nat /\ m > 1 /\ Len(s) >= 1 /\ Same(s, t, m - 1)
      /\ ~t[m].returns /\ t[m].names = Nameless /\ t[m].kind = "if"
      /\ At.op = "elseif" => Len(s) - 1 = m - 1
      /\ At.op = "if" => Len(s) = m - 1
  BY SMTT(30), <1>1, <1>2, AtItem DEF Opens, TakesArm
<1>4. Matches(env, memory, s, m - 1) /\ Len(env) = m - 1
  BY <1>1, <1>3, Here DEF Matches
<1>5. memory' \in [Places -> Int] /\ \A n \in globals : memory'[Global(n)] # Unset
  BY <1>1 DEF Runs
<1>6. CASE pc' = pc + 1 /\ env' = Opened
  <2>1. Matches(env', memory', t, m)
    BY <1>1, <1>3, <1>4, <1>6, Anew DEF Opened
  <2> QED BY <1>1, <1>5, <1>6, <2>1, AStep
<1>7. CASE /\ pc' = LET next == Label(pc, Len(env) + 1, {"elseif", "else", "endif"})
                    IN  IF code[next].op = "elseif" THEN next ELSE next + 1
           /\ env' = IF code[pc' - 1].op = "else" THEN Opened ELSE env
  <2> DEFINE next == Label(pc, Len(env) + 1, {"elseif", "else", "endif"})
  <2>1. next = Label(pc, m, Arms)
    <3>1. Len(env) + 1 = m
      BY <1>3, <1>4
    <3> QED BY <3>1 DEF Arms
  <2>2. pc' = IF code[next].op = "elseif" THEN next ELSE next + 1
    BY <1>7
  <2> HIDE DEF next
  <2>3. /\ next \in pc + 1..Len(code) /\ code[next].depth = m /\ code[next].op \in Arms
        /\ Within(h, pc, next - 1, m)
        /\ \A k \in pc + 1..next - 1 : ~(code[k].depth = m /\ code[k].op \in Arms)
    <3>1. pc \in 0..Len(code) /\ t[m].kind # "loop" /\ m >= m
      BY <1>1, <1>3, AtItem
    <3> HIDE DEF m, t
    <3>2. History(globals, top, code, h) /\ Complete(code, h)
      BY DEF Runs
    <3> QED BY SMTT(30), <1>3, <2>1, <3>1, <3>2, ArmLabel DEF m, t
  <2>4. /\ next \in 1..Len(code) /\ next - 1 \in pc..Len(code) /\ next - 1 \in 0..Len(code)
        /\ next - 1 \in pc..next - 1 /\ pc \in 0..Len(code) /\ Len(code) \in Nat
        /\ next \in 2..Len(code) + 1 /\ next + 1 \in 2..Len(code) + 1
    BY <1>1, <2>3, AtItem
  <2> DEFINE u == h[next - 1]
             v == h[next]
  <2>5. /\ Same(t, u, m - 1)
        /\ u[m].kind = "if" \/ \E k \in pc + 1..next - 1 : code[k].op = "else" /\ code[k].depth = m
    <3>1. History(globals, top, code, h)
      BY DEF Runs
    <3> HIDE DEF m, u
    <3> QED BY SMTT(30), <1>3, <2>3, <2>4, <3>1, Meanwhile DEF u
  <2>6. u[m].kind = "if"
    BY <2>3, <2>5 DEF Arms
  <2>7. /\ Becomes(globals, top, code[next], u, v) /\ Stack(top, u) /\ Stack(top, v) /\ Follows(code, next)
    BY <2>4 DEF Runs, History
  <2>8. Len(u) = m
    BY <2>3, <2>7 DEF Becomes
  <2>9. Same(s, u, m - 1)
    BY <1>3, <2>5 DEF Same
  <2>10. CASE code[next].op = "elseif"
    <3>1. pc' = next /\ code[next - 1].op = "endarm"
      BY <2>2, <2>7, <2>10 DEF Follows, Arms
    <3>2. env' = env
      BY <1>7, <3>1
    <3>3. Height(h)' = m - 1
      BY <1>1, <2>4, <2>8, <2>10, <3>1 DEF Height, Stay, checker
    <3>4. Matches(SubSeq(env, 1, m - 1), memory, u, m - 1)
      <4>1. m - 1 \in Nat /\ m - 1 \in 0..m - 1
        BY <1>3
      <4> QED BY <1>4, <2>9, <4>1, Shutting
    <3>5. SubSeq(env, 1, m - 1) = env
      BY <1>3, <1>4 DEF Matches
    <3>6. pc' \in 1..Len(code) + 1 /\ pc' - 1 = next - 1
      BY <2>4, <3>1
    <3> HIDE DEF m, s
    <3> QED BY <1>1, <1>5, <3>1, <3>2, <3>3, <3>4, <3>5, <3>6, RunsOn
  <2>11. CASE code[next].op # "elseif"
    <3>1. pc' = next + 1 /\ pc' - 1 = next
      BY <2>2, <2>4, <2>11
    <3>2. code[next].op # "endarm"
      BY <2>3 DEF Arms
    <3>3. CASE code[next].op = "else"
      <4>1. TakesArm(code[next], u, v) /\ env' = Opened
        BY <1>7, <2>7, <3>1, <3>3 DEF Becomes, Uses, Binds, EndsArm, Jumps, Returns, Opens, EndsIf, EndsLoop
      <4>2. Len(v) = m /\ Same(s, v, m - 1) /\ ~v[m].returns /\ v[m].names = Nameless
        BY <2>8, <2>9, <4>1 DEF TakesArm, Same
      <4>3. Matches(env', memory', v, m)
        BY <1>1, <1>3, <1>4, <4>1, <4>2, Anew DEF Opened
      <4> QED BY <1>1, <1>5, <2>4, <3>1, <3>2, <4>2, <4>3, RunsBehind
    <3>4. CASE code[next].op = "endif"
      <4>1. EndsIf(code[next], u, v) /\ env' = env
        BY <1>7, <2>7, <3>1, <3>4 DEF Becomes, Uses, Binds, EndsArm, Jumps, Returns, Opens, TakesArm, EndsLoop
      <4>2. /\ Len(v) = m - 1 /\ Same(u, v, m - 2) /\ v[m - 1].names = u[m - 1].names
            /\ v[m - 1].returns => u[m - 1].returns
        BY <2>6, <2>8, <4>1 DEF EndsIf, BlockReturns
      <4>3. Matches(env, memory, v, m - 1)
        <5>1. ASSUME NEW l \in 1..m - 1
              PROVE  (v[l].returns => s[l].returns) /\ v[l].names = s[l].names
          <6>1. l \in 1..m - 2 \/ l = m - 1
            BY <1>3
          <6> HIDE DEF m, s, u, v
          <6> QED BY <2>9, <4>2, <6>1 DEF Same
        <5> HIDE DEF m, s, v
        <5> QED BY <1>4, <5>1, Alike
      <4> QED BY <1>1, <1>5, <2>4, <3>1, <3>2, <4>1, <4>2, <4>3, RunsBehind
    <3> QED BY <2>3, <2>11, <3>3, <3>4 DEF Arms
  <2> QED BY <2>10, <2>11
<1> QED BY <1>6, <1>7 DEF RunCondition

\* An arm that did not return leaves an if that does not always return.
LEMMA ArmEnds ==
  ASSUME NEW top \in Nat, NEW h, Runs(top, h), RunEndArm
  PROVE  Runs(top, h)'
<1> DEFINE s == h[pc - 1]
           m == Len(s)
<1>1. running /\ At.op = "endarm" /\ Stay /\ memory' = memory /\ pc' = Label(pc, Len(env), {"endif"}) + 1
      /\ env' = Shut(Len(env) - 1)
  BY DEF RunEndArm
<1>2. EndsArm(At, s, h[pc])
  BY <1>1, AtItem DEF Becomes, Uses, Binds, Jumps, Returns, Opens, TakesArm, EndsIf, EndsLoop
<1>3. h[pc] = s /\ m \in Nat /\ m > 1 /\ s[m].kind # "loop" /\ m - 1 \in Nat
  BY <1>1, <1>2, AtItem DEF EndsArm
<1>4. Matches(env, memory, s, m) /\ Len(env) = m /\ ~s[m].returns
  BY <1>1, <1>3, Here DEF Matches
<1>5. History(globals, top, code, h) /\ Complete(code, h) /\ pc \in 0..Len(code) /\ Len(code) \in Nat
      /\ pc \in 1..Len(code)
  BY <1>1, AtItem DEF Runs
<1> HIDE DEF m, s
<1>6. PICK e : EndsBlock(code, h, pc, e, m)
  <2>1. Len(h[pc]) >= m
    BY <1>3 DEF m
  <2> QED BY <1>3, <1>5, <2>1, BlocksEnd
<1>7. /\ e \in pc + 1..Len(code) /\ e - 1 \in pc..Len(code) /\ Within(h, pc, e - 1, m)
      /\ e \in 2..Len(code) + 1 /\ e + 1 \in 2..Len(code) + 1 /\ e \in 0..Len(code)
      /\ e - 1 \in pc..e - 1
  BY <1>5, <1>6 DEF EndsBlock
<1>8. /\ Same(s, h[e - 1], m - 1) /\ h[e - 1][m].kind # "loop"
  BY <1>3, <1>5, <1>7, Meanwhile
<1>9. EndsIf(code[e], h[e - 1], h[e]) /\ Len(h[e - 1]) = m /\ Len(h[e]) = m - 1
  BY <1>6, <1>8 DEF EndsBlock, EndsLoop
<1>10. pc' = e + 1
  <2>1. Label(pc, m, {"endif"}) = e
    BY <1>3, <1>5, <1>6, <1>9, EndLabel DEF EndsIf, Ends
  <2> QED BY <1>1, <1>4, <2>1
<1>11. ~BlockReturns(h[e - 1][m])
  <2>1. CASE e = pc + 1
    <3>1. h[e - 1] = s
      BY <1>3, <1>5, <2>1
    <3> QED BY <1>4, <3>1 DEF BlockReturns
  <2>2. CASE e # pc + 1
    <3> DEFINE j == pc + 1
    <3>1. j \in 1..Len(code) /\ j \in pc..e - 1 /\ e - 1 \in j..Len(code) /\ j \in 0..Len(code) /\ j > 1
          /\ j - 1 = pc
      BY <1>5, <1>7, <2>2
    <3>2. /\ Becomes(globals, top, code[j], s, h[j]) /\ Follows(code, j) /\ Stack(top, h[j])
          /\ Len(h[j]) >= m
      BY <1>3, <1>5, <1>7, <3>1 DEF History, Within
    <3>3. code[j].op \in Arms
      BY <1>1, <3>1, <3>2 DEF Follows, At
    <3>4. TakesArm(code[j], s, h[j])
      BY <1>3, <3>2, <3>3 DEF Arms, m, Becomes, Uses, Binds, EndsArm, Jumps, Returns, Opens, EndsIf, EndsLoop
    <3>5. ~h[j][m].arms
      BY <1>4, <3>4 DEF TakesArm, m
    <3>6. Within(h, j, e - 1, m)
      <4>1. j..e - 1 \subseteq pc..e - 1
        BY <1>5, <1>7, <3>1
      <4> QED BY <1>7, <4>1 DEF Within
    <3> HIDE DEF j
    <3>7. ~h[e - 1][m].arms
      BY <1>3, <1>5, <3>1, <3>5, <3>6, Meanwhile
    <3> QED BY <3>7 DEF BlockReturns
  <2> QED BY <2>1, <2>2
<1>12. Matches(env', memory, h[e], m - 1)
  <2>1. Matches(SubSeq(env, 1, m - 1), memory, h[e - 1], m - 1)
    <3>1. m - 1 \in 0..m
      BY <1>3
    <3> QED BY <1>3, <1>4, <1>8, <3>1, Shutting
  <2>2. /\ Same(h[e - 1], h[e], m - 2) /\ h[e][m - 1].names = h[e - 1][m - 1].names
        /\ h[e][m - 1].returns => h[e - 1][m - 1].returns
    BY <1>9, <1>11 DEF EndsIf
  <2>3. ASSUME NEW l \in 1..m - 1
        PROVE  (h[e][l].returns => h[e - 1][l].returns) /\ h[e][l].names = h[e - 1][l].names
    <3>1. l \in 1..m - 2 \/ l = m - 1
      BY <1>3
    <3> QED BY <2>2, <3>1 DEF Same
  <2>4. Matches(SubSeq(env, 1, m - 1), memory, h[e], m - 1)
    BY <2>1, <2>3, Alike
  <2> QED BY <1>1, <1>4, <2>4 DEF Shut
<1>13. pc' - 1 = e /\ code[e].op # "endarm" /\ pc' \in 2..Len(code) + 1
  BY <1>5, <1>7, <1>9, <1>10 DEF EndsIf
<1>14. memory' \in [Places -> Int] /\ \A n \in globals : memory'[Global(n)] # Unset
  BY <1>1 DEF Runs
<1> QED BY <1>1, <1>9, <1>12, <1>13, <1>14, RunsBehind

\* Past a loop is what was before it.
LEMMA PastLoop ==
  ASSUME NEW top \in Nat, NEW h, Runs(top, h), NEW l \in 1..Len(code), code[l].op \in Loops,
         NEW e, NEW mem, Matches(e, mem, h[l - 1], code[l].depth)
  PROVE  /\ AgainOf(l) + 1 \in 2..Len(code) + 1 /\ AgainOf(l) \in Nat
         /\ code[AgainOf(l)].op # "endarm"
         /\ Matches(e, mem, h[AgainOf(l)], Len(h[AgainOf(l)]))
<1> DEFINE d == code[l].depth
           x == AgainOf(l)
<1>1. History(globals, top, code, h) /\ Complete(code, h) /\ Len(code) \in Nat /\ l \in 0..Len(code)
  BY DEF Runs, History
<1>2. d \in Nat
  <2>1. code[l] \in Items
    BY <1>1 DEF History
  <2> QED BY <2>1 DEF Items
<1>3. /\ d >= 1 /\ Same(h[l - 1], h[l], d) /\ EndsBlock(code, h, l, x, d + 1)
      /\ h[l][d + 1].kind = "loop"
  BY <1>1, LoopEnds
<1> HIDE DEF d, x
<1>4. /\ x \in l + 1..Len(code) /\ Within(h, l, x - 1, d + 1) /\ x - 1 \in l..Len(code)
      /\ Len(h[x]) = d
  BY <1>1, <1>2, <1>3 DEF EndsBlock
<1>5. Same(h[l], h[x - 1], d) /\ h[x - 1][d + 1].kind = "loop"
  <2>1. d + 1 \in Nat /\ d + 1 > 1 /\ d + 1 - 1 = d
    BY <1>2, <1>3
  <2> QED BY <1>1, <1>3, <1>4, <2>1, Meanwhile
<1>6. EndsLoop(code[x], h[x - 1], h[x])
  BY <1>3, <1>5 DEF EndsBlock, EndsIf
<1>7. Same(h[l - 1], h[x], d) /\ code[x].op # "endarm"
  BY <1>3, <1>4, <1>5, <1>6 DEF EndsLoop, Same
<1>8. Matches(e, mem, h[x], d)
  BY <1>7 DEF Matches, Same, d
<1> QED BY <1>1, <1>4, <1>7, <1>8 DEF x

\* The top of a loop.
LEMMA Looping ==
  ASSUME NEW top \in Nat, NEW h, Runs(top, h), RunLoop
  PROVE  Runs(top, h)'
<1> DEFINE s == h[pc - 1]
           t == h[pc]
           m == Len(s)
<1>1. running /\ At.op \in Loops /\ Stay /\ pc \in 1..Len(code)
  BY AtItem DEF RunLoop, Loops
<1>2. Opens(top, At, s, t) /\ m \in Nat /\ m >= 1 /\ m = At.depth /\ Stack(top, s)
  BY <1>1, AtItem DEF Loops, Becomes, Uses, Binds, EndsArm, Jumps, Returns, TakesArm, EndsIf, EndsLoop
<1>3. Len(t) = m + 1 /\ Same(s, t, m) /\ ~t[m + 1].returns
  BY <1>2 DEF Opens
<1>4. Matches(env, memory, s, m)
  BY <1>1, Here DEF Loops
<1>5. memory \in [Places -> Int] /\ \A n \in globals : memory[Global(n)] # Unset
  BY DEF Runs
<1> HIDE DEF s, t, m
<1>6. CASE pc' = pc + 1 /\ At.op # "for" /\ env' = Opened /\ UNCHANGED memory
  <2>1. t[m + 1].names = Nameless
    BY <1>1, <1>2, <1>3, <1>6 DEF Opens, Loops
  <2>2. Matches(env', memory', t, m + 1)
    BY <1>2, <1>3, <1>4, <1>6, <2>1, Anew DEF Opened
  <2> QED BY <1>1, <1>3, <1>5, <1>6, <2>2, AStep DEF t, Loops
<1>7. CASE /\ pc' = pc + 1 /\ At.op = "for" /\ memory' = [memory EXCEPT ![At.slot] = pc]
           /\ env' = Append(env, [n \in Names |-> IF n = At.name THEN pc ELSE Unset])
  <2>1. PICK k \in 1..top : /\ Fresh(k, s) /\ At.slot = Local(k)
                            /\ t[m + 1].names = [Nameless EXCEPT ![At.name] = k]
    BY <1>2, <1>3, <1>7 DEF Opens
  <2>2. pc \in Int /\ pc # Unset
    BY <1>1 DEF Unset
  <2>3. memory' = [memory EXCEPT ![Local(k)] = pc]
    BY <1>7, <2>1
  <2>4. ASSUME NEW l \in 1..m, NEW n \in Names, s[l].names[n] # NoSlot
        PROVE  memory'[Local(s[l].names[n])] = memory[Local(s[l].names[n])]
    <3>1. l \in DOMAIN s
      BY <1>2 DEF Stack, m
    <3>2. s[l].names[n] \in 1..top /\ s[l].names[n] # k
      BY <1>2, <2>1, <2>4, <3>1, SlotsOf DEF Fresh
    <3>3. Local(k) # Local(s[l].names[n])
      BY <3>2 DEF Local
    <3> QED BY <2>3, <3>2, <3>3, OtherSlot
  <2>5. Matches(env, memory', s, m)
    BY <1>2, <1>4, <2>4, Elsewhere
  <2> DEFINE b == [n \in Names |-> IF n = At.name THEN pc ELSE Unset]
  <2>6. b \in [Names -> Int]
    BY <2>2 DEF Unset
  <2>7. ASSUME NEW n \in Names PROVE Holds(memory', t[m + 1], n, b[n])
    <3>1. CASE n = At.name
      <4>1. memory'[Local(k)] = pc
        BY <2>3, ThisSlot
      <4>2. t[m + 1].names[n] = k
        BY <2>1, <3>1 DEF Nameless
      <4> QED BY <2>2, <3>1, <4>1, <4>2 DEF Holds, NoSlot
    <3>2. CASE n # At.name
      <4>1. t[m + 1].names[n] = NoSlot
        BY <2>1, <3>2 DEF Nameless
      <4> QED BY <3>2, <4>1 DEF Holds
    <3> QED BY <3>1, <3>2
  <2> HIDE DEF b
  <2>8. Matches(Append(env, b), memory', t, m + 1)
    BY <1>2, <1>3, <2>5, <2>6, <2>7, Opening
  <2>9. Matches(env', memory', t, m + 1)
    BY <1>7, <2>8 DEF b
  <2>10. memory' \in [Places -> Int] /\ \A n \in globals : memory'[Global(n)] # Unset
    BY <2>2, <2>3, MemoryWritten
  <2> QED BY <1>1, <1>3, <1>7, <2>9, <2>10, AStep DEF t, Loops
<1>8. CASE pc' = AgainOf(pc) + 1 /\ UNCHANGED <<memory, env>>
  <2>1. /\ AgainOf(pc) + 1 \in 2..Len(code) + 1 /\ AgainOf(pc) \in Nat
        /\ code[AgainOf(pc)].op # "endarm"
        /\ Matches(env, memory, h[AgainOf(pc)], Len(h[AgainOf(pc)]))
    BY <1>1, <1>2, <1>4, PastLoop DEF At, s, m
  <2>2. pc' - 1 = AgainOf(pc) /\ pc' \in 2..Len(code) + 1
    BY <1>8, <2>1
  <2> QED BY <1>1, <1>5, <1>8, <2>1, <2>2, RunsBehind
<1> QED BY <1>6, <1>7, <1>8 DEF RunLoop, Loops

\* A jump to a loop goes to one whose blocks are still open.
LEMMA Jumping ==
  ASSUME NEW top \in Nat, NEW h, Runs(top, h), running, At.op \in {"again", "break", "continue"}
  PROVE  LET l == LoopOf(pc)
         IN  /\ l \in 1..Len(code) /\ code[l].op \in Loops
             /\ Len(h[l - 1]) = code[l].depth
             /\ Matches(Shut(code[l].depth), memory, h[l - 1], code[l].depth)
<1> DEFINE s == h[pc - 1]
           m == Len(s)
           l == LoopOf(pc)
           d == code[l].depth
<1>1. \E i \in DOMAIN s : s[i].kind = "loop"
  <2>1. EndsLoop(At, s, h[pc]) \/ Jumps(At, s, h[pc])
    BY AtItem DEF Becomes, Uses, Binds, EndsArm, Opens, Returns, TakesArm, EndsIf
  <2>2. EndsLoop(At, s, h[pc]) => Len(s) \in DOMAIN s
    BY AtItem DEF EndsLoop, Stack
  <2> QED BY <2>1, <2>2 DEF EndsLoop, Jumps
<1>2. /\ History(globals, top, code, h) /\ Complete(code, h) /\ pc \in 1..Len(code)
      /\ Len(code) \in Nat /\ m \in Nat
  BY AtItem DEF Runs
<1>3. l \in LoopsAround(pc)
  BY <1>1, <1>2, LoopsAreFound
<1>4. /\ l \in 1..Len(code) /\ l < pc /\ code[l].op \in Loops
      /\ Within(h, l, pc - 1, d + 1)
      /\ Same(h[l - 1], s, d)
  BY <1>2, <1>3, LoopsAreOpen
<1>5. d = Len(h[l - 1]) /\ d >= 1
  BY <1>2, <1>4, LoopEnds
<1>6. d \in Nat
  <2>1. code[l] \in Items
    BY <1>2, <1>4 DEF History
  <2> QED BY <2>1 DEF Items
<1>7. d \in 0..m
  <2>1. pc - 1 \in l..pc - 1
    BY <1>2, <1>4
  <2>2. m >= d + 1
    BY <1>4, <2>1 DEF Within
  <2> QED BY <1>2, <1>6, <2>2
<1>8. Matches(env, memory, s, m)
  BY Here
<1>9. Same(s, h[l - 1], d)
  BY <1>4 DEF Same
<1> HIDE DEF d, l, m, s
<1>10. Matches(Shut(d), memory, h[l - 1], d)
  BY <1>2, <1>7, <1>8, <1>9, Shutting DEF Shut
<1> QED BY <1>4, <1>5, <1>10 DEF d, l

\* The end of a loop's body goes back to its head.
LEMMA Repeating ==
  ASSUME NEW top \in Nat, NEW h, Runs(top, h), RunAgain
  PROVE  Runs(top, h)'
<1> DEFINE l == LoopOf(pc)
<1>1. /\ running /\ At.op \in {"again", "continue"} /\ Stay /\ memory' = memory
      /\ pc' = l /\ env' = Shut(code[l].depth)
  BY DEF RunAgain
<1>2. /\ l \in 1..Len(code) /\ code[l].op \in Loops /\ Len(h[l - 1]) = code[l].depth
      /\ Matches(Shut(code[l].depth), memory, h[l - 1], code[l].depth)
  BY <1>1, Jumping
<1> HIDE DEF l
<1>3. Height(h)' = Len(h[l - 1])
  BY <1>1, <1>2 DEF Height, Loops, Stay, checker
<1>4. l \in 1..Len(code) + 1
  BY <1>2, AtItem, <1>1
<1> QED BY <1>1, <1>2, <1>3, <1>4, RunsOn DEF Runs

\* break and continue go to the end, or the head, of their loop.
LEMMA Breaking ==
  ASSUME NEW top \in Nat, NEW h, Runs(top, h), RunBreak
  PROVE  Runs(top, h)'
<1> DEFINE l == LoopOf(pc)
           x == AgainOf(l)
<1>1. /\ running /\ At.op = "break" /\ Stay /\ memory' = memory
      /\ pc' = x + 1 /\ env' = Shut(code[l].depth)
  BY DEF RunBreak
<1>2. /\ l \in 1..Len(code) /\ code[l].op \in Loops
      /\ Matches(env', memory, h[l - 1], code[l].depth)
  BY <1>1, Jumping
<1>3. /\ x + 1 \in 2..Len(code) + 1 /\ x \in Nat /\ code[x].op # "endarm"
      /\ Matches(env', memory, h[x], Len(h[x]))
  BY <1>2, PastLoop
<1> HIDE DEF l, x
<1>4. pc' - 1 = x /\ pc' \in 2..Len(code) + 1
  BY <1>1, <1>3
<1> QED BY <1>1, <1>3, <1>4, RunsBehind DEF Runs

-------------------------------------------------------------------------------
(***************************************************************************)
(* The check: the stack of scopes is the last of the history.              *)
(***************************************************************************)
Checks(h) ==
  /\ History(globals, slots, code, h) /\ h[Len(code)] = levels
  /\ slots \in Nat /\ slots <= Len(code) + Depth - 1
  /\ Len(code) <= MaxItems
  /\ Len(code) > 0 => code[Len(code)].op # "endarm"
  /\ globals \subseteq Names
  /\ memory \in [Places -> Int] /\ \A n \in globals : memory[Global(n)] # Unset
  /\ pc = 1 /\ env = <<[n \in Names |-> Unset]>>

\* A scope is the top one or one below.
LEMMA TopOrBelow ==
  ASSUME NEW m \in Nat
  PROVE  \A l \in 1..m : l \in 1..m - 1 \/ l = m
OBVIOUS

\* What an item makes of a stack is a stack.
LEMMA StackOn ==
  ASSUME NEW G, NEW top \in Nat, NEW it, NEW s, NEW t, Becomes(G, top, it, s, t), Stack(top, s),
         t \in Seq(Levels(top))
  PROVE  Stack(top, t)
<1>1. /\ Len(s) \in Nat /\ Len(t) \in Nat /\ Len(s) >= 1 /\ DOMAIN s = 1..Len(s) /\ DOMAIN t = 1..Len(t)
      /\ s[1].kind = "body" /\ \A l \in 2..Len(s) : s[l].kind # "body"
  BY DEF Stack
<1>2. CASE t = s
  BY <1>2
<1>3. CASE \/ Returns(it, s, t) \/ EndsIf(it, s, t) \/ EndsLoop(it, s, t)
  <2>0. Len(t) >= 1 /\ Len(t) <= Len(s)
    <3>1. CASE Returns(it, s, t)
      BY <1>1, <3>1 DEF Returns
    <3>2. CASE EndsIf(it, s, t)
      BY <1>1, <3>2 DEF EndsIf
    <3>3. CASE EndsLoop(it, s, t)
      BY <1>1, <3>3 DEF EndsLoop
    <3> QED BY <1>3, <3>1, <3>2, <3>3
  <2>1. ASSUME NEW l \in 1..Len(t) PROVE t[l].kind = s[l].kind /\ t[l].names = s[l].names
    <3>1. l \in 1..Len(t) - 1 \/ l = Len(t)
      BY <1>1, TopOrBelow
    <3> QED BY <1>1, <1>3, <3>1 DEF Returns, EndsIf, EndsLoop, Same, GoesOn
  <2>2. \A l \in 1..Len(t) : l \in 1..Len(s)
    BY <1>1, <2>0
  <2>3. Apart(t)
    BY <1>1, <2>1, <2>2 DEF Stack, Apart
  <2> QED BY <1>1, <2>0, <2>1, <2>3 DEF Stack
<1>4. CASE Binds(top, it, s, t)
  <2> DEFINE m == Len(s)
  <2>1. PICK k \in 1..top : Fresh(k, s) /\ t[m].names = [s[m].names EXCEPT ![it.name] = k]
    BY <1>4 DEF Binds
  <2>2. /\ Len(t) = m /\ m \in Nat /\ m >= 1
        /\ \A l \in 1..m - 1 : t[l] = s[l]
        /\ \A l \in 1..m : l \in 1..m - 1 \/ l = m
    BY <1>1, <1>4, TopOrBelow DEF Binds, Same
  <2>3. \A l \in 1..m : t[l].kind = s[l].kind
    BY <1>4, <2>2 DEF Binds, Same, GoesOn
  <2>4. s[m].names \in [Names -> 0..top]
    <3>1. s[m] \in Levels(top)
      BY <1>1 DEF Stack
    <3> QED BY <3>1 DEF Levels
  <2>5. ASSUME NEW l \in 1..m, NEW a \in Names, ~(l = m /\ a = it.name)
        PROVE  t[l].names[a] = s[l].names[a]
    <3>1. CASE l = m
      BY <2>1, <2>4, <2>5, <3>1
    <3>2. CASE l # m
      BY <2>2, <3>2
    <3> QED BY <3>1, <3>2
  <2>6. ASSUME NEW a \in Names, a = it.name PROVE t[m].names[a] = k
    BY <2>1, <2>4, <2>6
  <2>7. \A l \in 1..m : \A a \in Names : s[l].names[a] # k
    BY <1>1, <2>1 DEF Fresh
  <2>8. \A l, x \in 1..m : \A a, b \in Names :
          s[l].names[a] # NoSlot /\ s[l].names[a] = s[x].names[b] => l = x /\ a = b
    BY <1>1, Zenon DEF Stack, Apart
  <2> HIDE DEF m
  <2>9. ASSUME NEW l \in 1..m, NEW x \in 1..m, NEW a \in Names, NEW b \in Names,
               t[l].names[a] # NoSlot, t[l].names[a] = t[x].names[b]
        PROVE  l = x /\ a = b
    <3>1. CASE l = m /\ a = it.name
      BY <2>5, <2>6, <2>7, <2>9, <3>1
    <3>2. CASE x = m /\ b = it.name
      BY <2>5, <2>6, <2>7, <2>9, <3>2
    <3>3. CASE ~(l = m /\ a = it.name) /\ ~(x = m /\ b = it.name)
      BY <2>5, <2>8, <2>9, <3>3
    <3> QED BY <3>1, <3>2, <3>3
  <2>10. Apart(t)
    BY <1>1, <2>2, <2>9 DEF Apart
  <2>11. \A l \in 1..m : (l = 1 => t[l].kind = "body") /\ (l # 1 => t[l].kind # "body")
    <3>1. \A l \in 1..m : l # 1 => l \in 2..Len(s)
      BY <1>1 DEF m
    <3> QED BY <1>1, <2>3, <3>1
  <2>12. 1 \in 1..m /\ 2..m \subseteq 1..m /\ \A l \in 2..m : l # 1
    BY <2>2
  <2> QED BY <2>2, <2>10, <2>11, <2>12 DEF Stack
<1>5. ASSUME NEW m \in Nat, m >= 2, Len(t) = m, m - 1 <= Len(s), Same(s, t, m - 1), t[m].kind # "body",
             \A a \in Names : t[m].names[a] # NoSlot =>
               /\ \A l \in 1..Len(s) : \A b \in Names : s[l].names[b] # t[m].names[a]
               /\ \A b \in Names : t[m].names[b] = t[m].names[a] => b = a
      PROVE  Stack(top, t)
  <2>1. \A l \in 1..m : l \in 1..m - 1 \/ l = m
    BY <1>5, TopOrBelow
  <2>2. \A l \in 1..m - 1 : t[l] = s[l] /\ l \in 1..Len(s)
    BY <1>1, <1>5 DEF Same
  <2>3. \A l, x \in 1..Len(s) : \A a, b \in Names :
          s[l].names[a] # NoSlot /\ s[l].names[a] = s[x].names[b] => l = x /\ a = b
    BY <1>1, Zenon DEF Stack, Apart
  <2>4. ASSUME NEW l \in 1..m, NEW x \in 1..m, NEW a \in Names, NEW b \in Names,
               t[l].names[a] # NoSlot, t[l].names[a] = t[x].names[b]
        PROVE  l = x /\ a = b
    <3>1. CASE l = m /\ x = m
      BY <1>5, <2>4, <3>1
    <3>2. CASE l \in 1..m - 1 /\ x = m
      BY <1>5, <2>2, <2>4, <3>2
    <3>3. CASE l = m /\ x \in 1..m - 1
      BY <1>5, <2>2, <2>4, <3>3
    <3>4. CASE l \in 1..m - 1 /\ x \in 1..m - 1
      BY <2>2, <2>3, <2>4, <3>4
    <3> QED BY <2>1, <3>1, <3>2, <3>3, <3>4
  <2>5. Apart(t)
    BY <1>1, <1>5, <2>4 DEF Apart
  <2>6. \A l \in 2..m : t[l].kind # "body"
    <3>1. ASSUME NEW l \in 2..m PROVE l = m \/ (l \in 1..m - 1 /\ l \in 2..Len(s))
      BY <1>1, <1>5
    <3> QED BY <1>1, <1>5, <2>2, <3>1
  <2>7. 1 \in 1..m - 1
    BY <1>5
  <2> QED BY <1>1, <1>5, <2>2, <2>5, <2>6, <2>7 DEF Stack
<1>6. CASE Opens(top, it, s, t)
  <2> DEFINE m == Len(s) + 1
  <2>1. /\ Len(t) = m /\ Same(s, t, m - 1) /\ t[m].kind # "body" /\ m >= 2 /\ m \in Nat
        /\ m - 1 <= Len(s)
    BY <1>1, <1>6 DEF Opens
  <2>2. \/ t[m].names = Nameless
        \/ \E k \in 1..top : /\ Fresh(k, s) /\ it.name \in Names
                             /\ t[m].names = [Nameless EXCEPT ![it.name] = k]
    BY <1>6, <2>1 DEF Opens
  <2> HIDE DEF m
  <2>3. CASE t[m].names = Nameless
    <3>1. \A a \in Names : t[m].names[a] = NoSlot
      BY <2>3 DEF Nameless
    <3> QED BY <1>5, <2>1, <3>1
  <2>4. ASSUME NEW k \in 1..top, Fresh(k, s), it.name \in Names, t[m].names = [Nameless EXCEPT ![it.name] = k]
        PROVE  Stack(top, t)
    <3>1. \A a \in Names : t[m].names[a] = IF a = it.name THEN k ELSE NoSlot
      BY <2>4 DEF Nameless
    <3>2. \A l \in 1..Len(s) : \A b \in Names : s[l].names[b] # k
      BY <1>1, <2>4 DEF Fresh
    <3>3. k # NoSlot
      BY DEF NoSlot
    <3> QED BY <1>5, <2>1, <3>1, <3>2, <3>3
  <2> QED BY <2>2, <2>3, <2>4
<1>7. CASE TakesArm(it, s, t)
  <2> DEFINE m == Len(s)
  <2>1. /\ Len(t) = m /\ Same(s, t, m - 1) /\ t[m].kind # "body" /\ m >= 2 /\ m \in Nat
        /\ m - 1 <= Len(s) /\ t[m].names = Nameless
    BY <1>1, <1>7 DEF TakesArm
  <2> HIDE DEF m
  <2>2. \A a \in Names : t[m].names[a] = NoSlot
    BY <2>1 DEF Nameless
  <2> QED BY <1>5, <2>1, <2>2
<1> QED BY <1>2, <1>3, <1>4, <1>6, <1>7 DEF Becomes, Uses, EndsArm, Jumps

\* The stack as it stands.
LEMMA Standing ==
  ASSUME NEW h, Checks(h)
  PROVE  /\ Stack(slots, levels) /\ levels \in Seq(Levels(slots)) /\ Depth \in Nat /\ Depth >= 1
         /\ DOMAIN levels = 1..Depth /\ Inner \in Levels(slots) /\ Depth \in 1..Depth
         /\ Len(code) \in Nat /\ code \in Seq(Items)
<1>1. Len(code) \in 0..Len(code) /\ Len(code) \in Nat
  BY DEF Checks, History
<1>2. Stack(slots, levels)
  BY <1>1 DEF Checks, History
<1> QED BY <1>1, <1>2 DEF Checks, History, Stack, Depth, Inner

\* One item more.
LEMMA EmitsOne ==
  ASSUME NEW h, Checks(h), NEW it, Becomes(globals, slots', it, levels, levels'),
         levels' \in Seq(Levels(slots')), it.op \notin Arms, it.op # "endarm",
         Emit(<<it>>), slots' \in Nat, slots <= slots',
         slots' <= Len(code) + Len(levels'), Go
  PROVE  \E g : Checks(g)'
<1>1. code' = code \o <<it>> /\ Len(code) + 1 <= MaxItems /\ Len(code) \in Nat /\ code \in Seq(Items)
  BY Standing DEF Emit
<1>2. Stack(slots', levels')
  <2>1. Stack(slots', levels)
    BY Standing, MoreSlots DEF Checks
  <2> QED BY <2>1, StackOn
<1>3. PICK g : History(globals, slots', code \o <<it>>, g) /\ g[Len(code) + 1] = levels'
  <2>1. History(globals, slots, code, h) /\ slots \in Nat
        /\ Becomes(globals, slots', it, h[Len(code)], levels')
        /\ (it.op \in Arms <=> Len(code) > 0 /\ code[Len(code)].op = "endarm")
    BY DEF Checks
  <2> QED BY <1>2, <2>1, Extend
<1>4. Len(code') = Len(code) + 1 /\ code'[Len(code')] = it
  <2>1. it \in Items
    BY DEF Becomes
  <2> QED BY <1>1, <2>1
<1>5. slots' <= Len(code') + Len(levels') - 1
  <2>1. Len(levels') \in Nat /\ slots \in Nat
    BY Standing DEF Checks
  <2> QED BY <1>1, <1>4, <2>1
<1>6. Checks(g)'
  BY <1>1, <1>3, <1>4, <1>5 DEF Checks, Go, runtime, Places, Depth
<1> QED BY <1>6

\* The end of an arm, and what comes after it.
LEMMA ExtendTwice ==
  ASSUME NEW G, NEW top \in Nat, NEW c, NEW h, History(G, top, c, h), NEW s, s = h[Len(c)],
         Len(c) > 0 => c[Len(c)].op # "endarm",
         NEW a, Becomes(G, top, a, s, s), a.op = "endarm",
         NEW b, NEW t, Becomes(G, top, b, s, t), Stack(top, t), b.op \in Arms
  PROVE  \E g : History(G, top, c \o <<a, b>>, g) /\ g[Len(c) + 2] = t
<1> DEFINE mid == c \o <<a>>
<1>1. c \in Seq(Items) /\ a \in Items /\ b \in Items /\ Len(c) \in Nat /\ top <= top
  BY DEF History, Becomes
<1>2. mid \in Seq(Items) /\ Len(mid) = Len(c) + 1 /\ mid[Len(mid)] = a
  <2>1. mid \in Seq(Items) /\ Len(mid) = Len(c) + 1 /\ mid[Len(c) + 1] = a
    BY <1>1
  <2> QED BY <2>1
<1>3. c \o <<a, b>> = mid \o <<b>>
  <2>1. c \o <<a, b>> \in Seq(Items) /\ mid \o <<b>> \in Seq(Items)
    BY <1>1, <1>2
  <2>2. Len(c \o <<a, b>>) = Len(c) + 2 /\ Len(mid \o <<b>>) = Len(c) + 2
    BY <1>1, <1>2
  <2>3. ASSUME NEW i \in 1..Len(c) + 2 PROVE (c \o <<a, b>>)[i] = (mid \o <<b>>)[i]
    <3>1. CASE i \in 1..Len(c)
      BY <1>1, <1>2, <3>1
    <3>2. CASE i = Len(c) + 1
      BY <1>1, <1>2, <3>2
    <3>3. CASE i = Len(c) + 2
      BY <1>1, <1>2, <3>3
    <3> QED BY <1>1, <3>1, <3>2, <3>3
  <2> HIDE DEF mid
  <2> QED BY <2>1, <2>2, <2>3, SeqEqual
<1>4. PICK f : History(G, top, mid, f) /\ f[Len(c) + 1] = s
  <2>1. Becomes(G, top, a, h[Len(c)], s) /\ Stack(top, s)
        /\ (a.op \in Arms <=> Len(c) > 0 /\ c[Len(c)].op = "endarm")
    BY <1>1 DEF History, Arms
  <2> QED BY <1>1, <2>1, Extend
<1> HIDE DEF mid
<1>5. PICK g : History(G, top, mid \o <<b>>, g) /\ g[Len(mid) + 1] = t
  <2>1. Becomes(G, top, b, f[Len(mid)], t)
    BY <1>2, <1>4
  <2>2. b.op \in Arms <=> Len(mid) > 0 /\ mid[Len(mid)].op = "endarm"
    BY <1>1, <1>2
  <2> QED BY <1>1, <1>4, <2>1, <2>2, Extend
<1>6. History(G, top, c \o <<a, b>>, g)
  BY <1>3, <1>5
<1>7. g[Len(c) + 2] = t
  <2>1. Len(mid) + 1 = Len(c) + 2
    BY <1>1, <1>2
  <2> QED BY <1>5, <2>1
<1> QED BY <1>6, <1>7

\* Two items, the first of which ends an arm, are checked as one after the other.
LEMMA EmitsTwo ==
  ASSUME NEW h, Checks(h), NEW a, NEW b, Becomes(globals, slots, a, levels, levels), a.op = "endarm",
         Becomes(globals, slots, b, levels, levels'),
         levels' \in Seq(Levels(slots)), b.op \in Arms, Emit(<<a, b>>), UNCHANGED slots,
         slots <= Len(code) + Len(levels') + 1, Go
  PROVE  \E g : Checks(g)'
<1>1. /\ code' = code \o <<a, b>> /\ Len(code) + 2 <= MaxItems /\ Len(code) \in Nat
      /\ code \in Seq(Items) /\ a \in Items /\ b \in Items /\ slots \in Nat
  BY Standing DEF Emit, Becomes, Checks
<1>2. Stack(slots, levels')
  BY Standing, StackOn, <1>1
<1>3. PICK g : History(globals, slots, code', g) /\ g[Len(code) + 2] = levels'
  <2>1. /\ History(globals, slots, code, h) /\ levels = h[Len(code)]
        /\ Len(code) > 0 => code[Len(code)].op # "endarm"
    BY DEF Checks
  <2>2. \E g : History(globals, slots, code \o <<a, b>>, g) /\ g[Len(code) + 2] = levels'
    <3>1. /\ slots \in Nat /\ Stack(slots, levels') /\ a.op = "endarm" /\ b.op \in Arms
          /\ Becomes(globals, slots, a, levels, levels) /\ Becomes(globals, slots, b, levels, levels')
      BY <1>1, <1>2
    <3> QED BY ONLY <2>1, <3>1, ExtendTwice
  <2> QED BY <1>1, <2>2
<1>4. Len(code') = Len(code) + 2 /\ code'[Len(code')] = b
  <2>1. Len(code') = Len(code) + 2 /\ code'[Len(code) + 2] = b
    BY <1>1
  <2> QED BY <2>1
<1>5. slots' <= Len(code') + Len(levels') - 1 /\ Len(code') <= MaxItems
  <2>1. Len(levels') \in Nat
    OBVIOUS
  <2> QED BY <1>1, <1>4, <2>1, ScopesAssumption
<1>6. History(globals, slots, code, g)' /\ (g[Len(code)] = levels)'
  BY <1>3, <1>4 DEF Go
<1>7. Checks(g)'
  BY <1>1, <1>4, <1>5, <1>6 DEF Checks, Go, runtime, Places, Depth, Arms
<1> QED BY <1>7

\* What lookup() finds is what the innermost scope that has the name says.
LEMMA LookupIs ==
  ASSUME NEW h, Checks(h), NEW n \in Names
  PROVE  /\ Binders(levels, n) = {} => LocalSlot(n) = NoSlot
         /\ Binders(levels, n) # {} => LocalSlot(n) = Bound(levels, n) /\ LocalSlot(n) # NoSlot
<1>1. Binders(levels, n) \subseteq Nat /\ \A x \in Binders(levels, n) : x <= Depth
  BY Standing DEF Binders
<1>2. ASSUME Binders(levels, n) # {} PROVE Max(Binders(levels, n)) \in Binders(levels, n)
  BY <1>1, <1>2, MaxIn, Standing
<1>3. LocalSlot(n) = IF Binders(levels, n) = {} THEN NoSlot ELSE Bound(levels, n)
  BY DEF LocalSlot, Bound, Binders
<1> QED BY <1>2, <1>3 DEF Bound, Binders

\* What an item is that the checker writes.
LEMMA AnItem ==
  ASSUME NEW h, Checks(h), NEW op \in Ops, NEW n \in AnyName,
         NEW slot \in Slots
  PROVE  LET it == Item(op, n, slot)
         IN  it \in Items /\ it.op = op /\ it.name = n /\ it.slot = slot /\ it.depth = Len(levels)
BY Standing DEF Item, Items, Depth

\* What an item without a name is.
LEMMA AMark ==
  ASSUME NEW h, Checks(h), NEW op \in Ops
  PROVE  Mark(op) \in Items /\ Mark(op).op = op /\ Mark(op).depth = Len(levels)
<1>1. <<"frame", NoSlot>> = Local(0)
  BY DEF Local, NoSlot
<1>2. <<"frame", NoSlot>> \in Slots 
  BY <1>1 DEF Slots
<1>3. "" \in AnyName
  BY Zenon DEF AnyName
<1>4. ASSUME NEW n \in AnyName, NEW slot \in Slots
      PROVE  LET it == Item(op, n, slot) IN it \in Items /\ it.op = op /\ it.depth = Len(levels)
  BY <1>4, AnItem
<1> QED BY <1>2, <1>3, <1>4, Zenon DEF Mark

\* A binding: the slot is new.
LEMMA BindsIt ==
  ASSUME NEW h, Checks(h), NEW n \in Names, LocalSlot(n) = NoSlot, levels' = Bind(n), slots' = slots + 1,
         NEW op \in {"declare", "make"}
  PROVE  LET it == Item(op, n, Local(slots + 1))
         IN  /\ Becomes(globals, slots', it, levels, levels')
             /\ levels' \in Seq(Levels(slots')) /\ Len(levels') = Len(levels)
             /\ slots' \in Nat /\ slots <= slots' /\ it.op = op
<1>0. Bind(n) = [levels EXCEPT ![Depth] = [Inner EXCEPT !.names = [Inner.names EXCEPT ![n] = slots + 1]]]
  BY DEF Bind, Inner, Depth
<1> DEFINE it == Item(op, n, Local(slots + 1))
           names == [Inner.names EXCEPT ![n] = slots + 1]
           b == [Inner EXCEPT !.names = names]
<1>1. slots \in Nat /\ slots' \in Nat /\ slots <= slots' /\ slots + 1 \in Nat /\ slots + 1 \in 1..slots'
  BY DEF Checks
<1>2. /\ Inner \in Levels(slots) /\ levels \in Seq(Levels(slots)) /\ Depth \in 1..Depth /\ Depth \in Nat
      /\ DOMAIN levels = 1..Depth /\ Inner = levels[Depth] /\ Depth = Len(levels) /\ Stack(slots, levels)
  BY Standing DEF Inner, Depth
<1>3. levels' = [levels EXCEPT ![Depth] = b]
  BY <1>0
<1>4. Levels(slots) \subseteq Levels(slots')
  <2>1. [Names -> 0..slots] \subseteq [Names -> 0..slots']
    BY <1>1
  <2> QED BY <2>1, Zenon DEF Levels
<1>5. names \in [Names -> 0..slots']
  <2>1. Inner.names \in [Names -> 0..slots]
    BY <1>2 DEF Levels
  <2>2. 0..slots \subseteq 0..slots' /\ slots + 1 \in 0..slots'
    BY <1>1
  <2> QED BY <2>1, <2>2
<1> HIDE DEF names
<1>6. /\ b \in Levels(slots') /\ b.names = names /\ b.kind = Inner.kind
      /\ (b.arms => Inner.arms) /\ (b.returns => Inner.returns)
  BY <1>2, <1>5 DEF Levels
<1> HIDE DEF b
<1>7. /\ levels' \in Seq(Levels(slots')) /\ Len(levels') = Depth /\ levels'[Depth] = b
      /\ \A l \in 1..Depth - 1 : levels'[l] = levels[l]
  <2>1. levels \in Seq(Levels(slots'))
    BY <1>2, <1>4
  <2> QED BY <1>2, <1>3, <1>6, <2>1
<1>8. it \in Items /\ it.op = op /\ it.name = n /\ it.slot = Local(slots + 1) /\ it.depth = Len(levels)
  <2>1. Local(slots + 1) \in Slots
    BY <1>1 DEF Slots
  <2>2. op \in Ops
    BY DEF Ops
  <2>3. n \in AnyName
    BY Zenon DEF AnyName
  <2> QED BY <2>1, <2>2, <2>3, AnItem
<1> HIDE DEF it
<1>9. Fresh(slots + 1, levels)
  <2>1. ASSUME NEW l \in DOMAIN levels, NEW a \in Names, levels[l].names[a] # NoSlot
        PROVE  levels[l].names[a] \in 1..slots
    BY <1>1, <1>2, <2>1, SlotsOf
  <2> QED BY <1>1, <2>1 DEF Fresh, NoSlot
<1>10. Binders(levels, n) = {}
  BY LookupIs
<1>11. Same(levels, levels', Depth - 1) /\ GoesOn(Inner, levels'[Depth])
  BY <1>6, <1>7 DEF Same, GoesOn
<1>12. names = [levels[Depth].names EXCEPT ![n] = slots + 1]
  BY <1>2 DEF names
<1>13. Binds(slots', it, levels, levels')
  BY <1>1, <1>2, <1>6, <1>7, <1>8, <1>9, <1>10, <1>11, <1>12 DEF Binds
<1> QED BY <1>1, <1>2, <1>7, <1>8, <1>13 DEF Becomes, it

\* A declaration that is accepted gets a slot of its own.
LEMMA ADeclare ==
  ASSUME NEW h, Checks(h), NEW n \in Names, Declare(n), ~Taken(n)
  PROVE  \E g : Checks(g)'
<1> DEFINE it == Item("declare", n, Local(slots + 1))
<1>1. /\ LocalSlot(n) = NoSlot /\ levels' = Bind(n) /\ slots' = slots + 1 /\ Emit(<<it>>) /\ Go
  BY DEF Declare, Taken
<1>2. /\ Becomes(globals, slots', it, levels, levels')
      /\ levels' \in Seq(Levels(slots')) /\ Len(levels') = Len(levels)
      /\ slots' \in Nat /\ slots <= slots' /\ it.op = "declare"
  BY <1>1, BindsIt
<1>3. slots' <= Len(code) + Len(levels')
  BY <1>1, <1>2, Standing DEF Checks, Depth
<1> HIDE DEF it
<1>4. it.op \notin Arms /\ it.op # "endarm"
  BY <1>2 DEF Arms
<1> QED BY <1>1, <1>2, <1>3, <1>4, EmitsOne

\* An item that leaves the scopes as they are.
LEMMA Emitted ==
  ASSUME NEW h, Checks(h), NEW it, Becomes(globals, slots, it, levels, levels), it.op \notin Arms,
         it.op # "endarm", Emit(<<it>>), UNCHANGED <<levels, slots>>, Go
  PROVE  \E g : Checks(g)'
<1>1. slots \in Nat /\ slots <= Len(code) + Len(levels) /\ levels' = levels /\ slots' = slots
  BY Standing DEF Checks, Depth
<1> QED BY <1>1, Standing, EmitsOne

\* A name that is used is the one its scopes say.
LEMMA UsesIt ==
  ASSUME NEW h, Checks(h), NEW n \in Names, Known(n), NEW op \in {"read", "write"}
  PROVE  LET it == Item(op, n, Lookup(n))
         IN  it.op = op /\ Becomes(globals, slots, it, levels, levels)
<1> DEFINE it == Item(op, n, Lookup(n))
<1>1. CASE Binders(levels, n) = {}
  <2>1. Lookup(n) = Global(n) /\ n \in globals
    BY <1>1, LookupIs DEF Lookup, Known
  <2>2. it \in Items /\ it.op = op /\ it.name = n /\ it.slot = Global(n) /\ it.depth = Len(levels)
    <3>1. op \in Ops /\ Global(n) \in Slots
      BY DEF Ops, Slots
    <3>2. n \in AnyName
      BY Zenon DEF AnyName
    <3> QED BY <2>1, <3>1, <3>2, AnItem
  <2> HIDE DEF it
  <2>3. Uses(globals, it, levels, levels)
    BY <1>1, <2>1, <2>2 DEF Uses
  <2> QED BY <2>2, <2>3 DEF Becomes, it
<1>2. CASE Binders(levels, n) # {}
  <2>1. Lookup(n) = Local(Bound(levels, n))
    BY <1>2, LookupIs DEF Lookup
  <2>2. Bound(levels, n) \in Nat
    <3>1. Max(Binders(levels, n)) \in Binders(levels, n)
      <4>1. Binders(levels, n) \subseteq Nat /\ \A x \in Binders(levels, n) : x <= Depth
        BY Standing DEF Binders
      <4> QED BY <1>2, <4>1, MaxIn, Standing
    <3>2. levels[Max(Binders(levels, n))] \in Levels(slots)
      BY <3>1, Standing DEF Binders
    <3> QED BY <3>2 DEF Levels, Bound
  <2>3. it \in Items /\ it.op = op /\ it.name = n /\ it.slot = Local(Bound(levels, n)) /\ it.depth = Len(levels)
    <3>1. op \in Ops /\ Local(Bound(levels, n)) \in Slots
      BY <2>2 DEF Ops, Slots
    <3>2. n \in AnyName
      BY Zenon DEF AnyName
    <3> QED BY <2>1, <3>1, <3>2, AnItem
  <2> HIDE DEF it
  <2>4. Uses(globals, it, levels, levels)
    BY <1>2, <2>3 DEF Uses
  <2> QED BY <2>3, <2>4 DEF Becomes, it
<1> QED BY <1>1, <1>2

\* An assignment that is accepted is to the name its scopes say.
LEMMA Assigning ==
  ASSUME NEW h, Checks(h), NEW n \in Names, Assign(n)
  PROVE  \E g : Checks(g)'
<1>1. CASE Known(n)
  <2> DEFINE it == Item("write", n, Lookup(n))
  <2>1. Emit(<<it>>) /\ UNCHANGED <<levels, slots>> /\ Go
    BY <1>1 DEF Assign
  <2>2. it.op = "write" /\ Becomes(globals, slots, it, levels, levels)
    BY <1>1, UsesIt
  <2> HIDE DEF it
  <2> QED BY <2>1, <2>2, Emitted DEF Arms
<1>2. CASE ~Known(n)
  <2> DEFINE it == Item("make", n, Local(slots + 1))
  <2>1. LocalSlot(n) = NoSlot /\ levels' = Bind(n) /\ slots' = slots + 1 /\ Emit(<<it>>) /\ Go
    BY <1>2 DEF Assign, Known
  <2>2. /\ Becomes(globals, slots', it, levels, levels')
        /\ levels' \in Seq(Levels(slots')) /\ Len(levels') = Len(levels)
        /\ slots' \in Nat /\ slots <= slots' /\ it.op = "make"
    BY <2>1, BindsIt
  <2>3. slots' <= Len(code) + Len(levels')
    BY <2>1, <2>2, Standing DEF Checks, Depth
  <2> HIDE DEF it
  <2>4. it.op \notin Arms /\ it.op # "endarm"
    BY <2>2 DEF Arms
  <2> QED BY <2>1, <2>2, <2>3, <2>4, EmitsOne
<1> QED BY <1>1, <1>2

\* A read that is accepted is of the name its scopes say.
LEMMA ReadingChecked ==
  ASSUME NEW h, Checks(h), NEW n \in Names, Read(n), Known(n)
  PROVE  \E g : Checks(g)'
<1> DEFINE it == Item("read", n, Lookup(n))
<1>1. Emit(<<it>>) /\ UNCHANGED <<levels, slots>> /\ Go
  BY DEF Read
<1>2. it.op = "read" /\ Becomes(globals, slots, it, levels, levels)
  BY UsesIt
<1> HIDE DEF it
<1> QED BY <1>1, <1>2, Emitted DEF Arms

\* break and continue are accepted inside a loop.
LEMMA Leaving ==
  ASSUME NEW h, Checks(h), NEW op \in {"break", "continue"}, Leave(op)
  PROVE  \E g : Checks(g)'
<1> DEFINE it == Mark(op)
<1>1. Emit(<<it>>) /\ UNCHANGED <<levels, slots>> /\ Go /\ \E i \in DOMAIN levels : levels[i].kind = "loop"
  BY DEF Leave
<1>2. it \in Items /\ it.op = op /\ it.depth = Len(levels)
  <2>1. op \in Ops
    BY DEF Ops
  <2> QED BY <2>1, AMark
<1> HIDE DEF it
<1>3. Becomes(globals, slots, it, levels, levels)
  BY <1>1, <1>2 DEF Becomes, Jumps
<1> QED BY <1>1, <1>2, <1>3, Emitted DEF Arms

\* A return, after which its block returns.
LEMMA Returning ==
  ASSUME NEW h, Checks(h), Return
  PROVE  \E g : Checks(g)'
<1> DEFINE it == Mark("return")
           b == [Inner EXCEPT !.returns = TRUE]
<1>1. levels' = [levels EXCEPT ![Depth] = b]
  BY DEF Return, Inner, Depth
<1>2. Emit(<<it>>) /\ UNCHANGED slots /\ Go
  BY DEF Return
<1>3. it \in Items /\ it.op = "return" /\ it.depth = Len(levels)
  BY AMark DEF Ops
<1> HIDE DEF it
<1>4. /\ Inner \in Levels(slots) /\ levels \in Seq(Levels(slots)) /\ Depth \in 1..Depth /\ Depth \in Nat
      /\ Inner = levels[Depth] /\ Depth = Len(levels) /\ slots \in Nat
  BY Standing DEF Inner, Depth, Checks
<1>5. b \in Levels(slots) /\ b.kind = Inner.kind /\ b.names = Inner.names /\ (b.arms => Inner.arms)
  BY <1>4 DEF Levels
<1> HIDE DEF b
<1>6. /\ levels' \in Seq(Levels(slots)) /\ Len(levels') = Depth /\ levels'[Depth] = b
      /\ \A l \in 1..Depth - 1 : levels'[l] = levels[l]
  BY <1>1, <1>4, <1>5
<1>7. Returns(it, levels, levels')
  BY <1>3, <1>4, <1>5, <1>6 DEF Returns, Same, GoesOn
<1>8. Becomes(globals, slots', it, levels, levels') /\ it.op \notin Arms /\ it.op # "endarm"
  BY <1>3, <1>7 DEF Becomes, Arms
<1>9. slots' \in Nat /\ slots <= slots' /\ slots' <= Len(code) + Len(levels') /\ slots' = slots
  BY <1>2, <1>4, <1>6, Standing DEF Checks
<1> QED BY <1>2, <1>6, <1>8, <1>9, EmitsOne

\* What a block is that the checker opens.
LEMMA ALevel ==
  ASSUME NEW kind \in {"if", "else", "loop"}, NEW arms \in BOOLEAN, NEW top \in Nat
  PROVE  /\ Level(kind, arms) \in Levels(top) /\ Level(kind, arms).kind = kind
         /\ Level(kind, arms).names = Nameless /\ ~Level(kind, arms).returns
         /\ Level(kind, arms).arms <=> arms
<1>1. Nameless \in [Names -> 0..top]
  BY DEF Nameless, NoSlot
<1>2. Level(kind, arms) = [kind |-> kind, names |-> Nameless, returns |-> FALSE, arms |-> arms]
  BY DEF Level, Nameless
<1> QED BY <1>1, <1>2 DEF Levels

\* A block that opens is one more scope.
LEMMA OpensIt ==
  ASSUME NEW h, Checks(h), NEW it, it \in Items, it.depth = Len(levels),
         NEW b, slots' \in Nat, slots <= slots', slots' <= slots + 2, b \in Levels(slots'), levels' = Append(levels, b), ~b.returns,
         \/ it.op = "if" /\ b.kind = "if" /\ b.names = Nameless /\ slots' = slots
         \/ it.op = "while" /\ b.kind = "loop" /\ b.names = Nameless /\ slots' = slots
         \/ /\ it.op = "for" /\ b.kind = "loop" /\ it.name \in Names
            /\ slots' = slots + 2 /\ it.slot = Local(slots + 2)
            /\ b.names = [Nameless EXCEPT ![it.name] = slots + 2],
         Emit(<<it>>), Go
  PROVE  \E g : Checks(g)'
<1>1. /\ levels \in Seq(Levels(slots)) /\ Depth \in Nat /\ Depth >= 1
      /\ Depth = Len(levels) /\ slots \in Nat /\ Stack(slots, levels) /\ DOMAIN levels = 1..Depth
  BY Standing DEF Depth, Checks
<1>2. Stack(slots', levels)
  BY <1>1, MoreSlots
<1>3. levels \in Seq(Levels(slots'))
  BY <1>2 DEF Stack
<1>4. /\ levels' \in Seq(Levels(slots')) /\ Len(levels') = Depth + 1 /\ levels'[Depth + 1] = b
      /\ \A l \in 1..Depth : levels'[l] = levels[l]
  BY <1>1, <1>3
<1>5. ASSUME slots' = slots + 2 PROVE Fresh(slots + 2, levels) /\ slots + 2 \in 1..slots'
  <2>1. ASSUME NEW l \in DOMAIN levels, NEW a \in Names, levels[l].names[a] # NoSlot
        PROVE  levels[l].names[a] \in 1..slots
    BY <1>1, <2>1, SlotsOf
  <2> QED BY <1>1, <1>5, <2>1 DEF Fresh, NoSlot
<1>6. Opens(slots', it, levels, levels')
  <2>1. Len(levels') = Len(levels) + 1 /\ Same(levels, levels', Len(levels)) /\ levels'[Len(levels')] = b
    BY <1>1, <1>4 DEF Same
  <2> QED BY <1>5, <2>1 DEF Opens
<1>7. Becomes(globals, slots', it, levels, levels') /\ it.op \notin Arms /\ it.op # "endarm"
  BY <1>6 DEF Becomes, Arms
<1>8. slots' <= Len(code) + Len(levels')
  BY <1>1, <1>4, Standing DEF Checks
<1> QED BY <1>4, <1>7, <1>8, EmitsOne

\* if and while open a block without names.
LEMMA OpeningChecked ==
  ASSUME NEW h, Checks(h), OpenIf \/ OpenWhile
  PROVE  \E g : Checks(g)'
<1>1. slots \in Nat
  BY DEF Checks
<1>2. CASE OpenIf
  <2> DEFINE it == Mark("if")
             b == Level("if", TRUE)
  <2>1. levels' = Append(levels, b) /\ Emit(<<it>>) /\ slots' = slots /\ Go
    BY <1>2 DEF OpenIf, Open
  <2>2. it \in Items /\ it.op = "if" /\ it.depth = Len(levels)
    BY AMark DEF Ops
  <2>3. b \in Levels(slots) /\ b.kind = "if" /\ b.names = Nameless /\ ~b.returns
    BY <1>1, ALevel
  <2> HIDE DEF it, b
  <2>4. slots' \in Nat /\ slots <= slots' /\ slots' <= slots + 2 /\ b \in Levels(slots')
    BY <1>1, <2>1, <2>3
  <2> QED BY <2>1, <2>2, <2>3, <2>4, OpensIt
<1>3. CASE OpenWhile
  <2> DEFINE it == Mark("while")
             b == Level("loop", TRUE)
  <2>1. levels' = Append(levels, b) /\ Emit(<<it>>) /\ slots' = slots /\ Go
    BY <1>3 DEF OpenWhile, Open
  <2>2. it \in Items /\ it.op = "while" /\ it.depth = Len(levels)
    BY AMark DEF Ops
  <2>3. b \in Levels(slots) /\ b.kind = "loop" /\ b.names = Nameless /\ ~b.returns
    BY <1>1, ALevel
  <2> HIDE DEF it, b
  <2>4. slots' \in Nat /\ slots <= slots' /\ slots' <= slots + 2 /\ b \in Levels(slots')
    BY <1>1, <2>1, <2>3
  <2> QED BY <2>1, <2>2, <2>3, <2>4, OpensIt
<1> QED BY <1>2, <1>3

\* for opens a block with its counter.
LEMMA OpeningFor ==
  ASSUME NEW h, Checks(h), NEW n \in Names, OpenFor(n)
  PROVE  \E g : Checks(g)'
<1> DEFINE it == Item("for", n, Local(slots + 2))
           r == Level("loop", TRUE)
           b == [r EXCEPT !.names = [r.names EXCEPT ![n] = slots + 2]]
<1>1. slots \in Nat
  BY DEF Checks
<1>2. Emit(<<it>>) /\ slots' = slots + 2 /\ Go
  BY DEF OpenFor, Open
<1>3. levels' = Append(levels, b)
  BY DEF OpenFor, Open
<1>4. it \in Items /\ it.op = "for" /\ it.name = n /\ it.slot = Local(slots + 2) /\ it.depth = Len(levels)
  <2>1. Local(slots + 2) \in Slots /\ "for" \in Ops
    BY <1>1 DEF Slots, Ops
  <2>2. n \in AnyName
    BY Zenon DEF AnyName
  <2> QED BY <2>1, <2>2, AnItem
<1>5. slots' \in Nat /\ slots <= slots' /\ slots' <= slots + 2
  BY <1>1, <1>2
<1>6. r \in Levels(slots') /\ r.kind = "loop" /\ r.names = Nameless /\ ~r.returns
  BY <1>5, ALevel
<1> HIDE DEF r, it
<1>7. /\ b \in Levels(slots') /\ b.kind = "loop" /\ ~b.returns
      /\ b.names = [Nameless EXCEPT ![n] = slots + 2]
  <2>1. [Nameless EXCEPT ![n] = slots + 2] \in [Names -> 0..slots']
    BY <1>1, <1>2 DEF Nameless, NoSlot
  <2> QED BY <1>6, <2>1 DEF Levels
<1> HIDE DEF b
<1> QED BY <1>2, <1>3, <1>4, <1>5, <1>7, OpensIt

\* An arm can end where one is open.
LEMMA EndsAnArm ==
  ASSUME NEW h, Checks(h), Depth > 1, Inner.kind \in {"if", "else"}
  PROVE  Becomes(globals, slots, Mark("endarm"), levels, levels) /\ Mark("endarm").op = "endarm"
<1> DEFINE it == Mark("endarm")
<1>1. it \in Items /\ it.op = "endarm" /\ it.depth = Len(levels)
  BY AMark DEF Ops
<1> HIDE DEF it
<1>2. EndsArm(it, levels, levels)
  BY <1>1 DEF EndsArm, Depth, Inner
<1> QED BY <1>1, <1>2 DEF Becomes, it

\* Another arm ends the one before and opens its own.
LEMMA Arming ==
  ASSUME NEW h, Checks(h), NEW kind \in {"if", "else"}, NEW op \in {"elseif", "else"},
         (kind = "if") = (op = "elseif"), NextArm(kind, op)
  PROVE  \E g : Checks(g)'
<1> DEFINE a == Mark("endarm")
           it == Mark(op)
           b == Level(kind, Inner.arms /\ Inner.returns)
<1>1. /\ Inner.kind = "if" /\ levels' = [levels EXCEPT ![Depth] = b]
      /\ Emit(<<a, it>>) /\ UNCHANGED slots /\ Go
  BY DEF NextArm
<1>2. /\ Inner \in Levels(slots) /\ levels \in Seq(Levels(slots)) /\ Depth \in 1..Depth /\ Depth \in Nat
      /\ Inner = levels[Depth] /\ Depth = Len(levels) /\ slots \in Nat /\ Stack(slots, levels)
      /\ slots <= Len(code) + Depth - 1 /\ Len(code) \in Nat
  BY Standing DEF Inner, Depth, Checks
<1>3. Depth > 1
  BY <1>1, <1>2 DEF Stack
<1>4. Becomes(globals, slots, a, levels, levels) /\ a.op = "endarm"
  BY <1>1, <1>3, EndsAnArm
<1>5. it \in Items /\ it.op = op /\ it.depth = Len(levels)
  BY AMark DEF Ops
<1>6. /\ b \in Levels(slots) /\ b.kind = kind /\ b.names = Nameless /\ ~b.returns
      /\ b.arms <=> Inner.arms /\ Inner.returns
  <2>1. (Inner.arms /\ Inner.returns) \in BOOLEAN
    OBVIOUS
  <2>2. kind \in {"if", "else", "loop"}
    OBVIOUS
  <2> QED BY <1>2, <2>1, <2>2, ALevel
<1> HIDE DEF a, it, b
<1>7. /\ levels' \in Seq(Levels(slots)) /\ Len(levels') = Depth /\ levels'[Depth] = b
      /\ \A l \in 1..Depth - 1 : levels'[l] = levels[l]
  BY <1>1, <1>2, <1>6
<1>8. TakesArm(it, levels, levels')
  BY <1>1, <1>2, <1>3, <1>5, <1>6, <1>7 DEF TakesArm, Same
<1>9. Becomes(globals, slots, it, levels, levels') /\ it.op \in Arms
  BY <1>5, <1>8 DEF Becomes, Arms
<1>10. slots <= Len(code) + Len(levels') + 1
  BY <1>2, <1>7
<1> QED BY <1>1, <1>4, <1>7, <1>9, <1>10, EmitsTwo

\* A block that closes says whether it always returns.
LEMMA Outer ==
  ASSUME NEW top, NEW r \in Levels(top), NEW x
  PROVE  LET q == [r EXCEPT !.returns = @ \/ x]
         IN  /\ q \in Levels(top) /\ q.kind = r.kind /\ q.names = r.names /\ q.arms = r.arms
             /\ q.returns => r.returns \/ x
             /\ ~x => q = r
<1> DEFINE y == r.returns \/ x
           q == [r EXCEPT !.returns = y]
<1>1. y \in BOOLEAN /\ (y => r.returns \/ x)
  OBVIOUS
<1>2. ~x => y = r.returns
  <2>1. r.returns \in BOOLEAN
    BY DEF Levels
  <2> QED BY <2>1, Zenon
<1>3. [r EXCEPT !.returns = @ \/ x] = q
  BY Zenon
<1> HIDE DEF y
<1>4. q \in Levels(top) /\ q.kind = r.kind /\ q.names = r.names /\ q.arms = r.arms /\ q.returns = y
  BY <1>1 DEF Levels
<1>5. ~x => q = r
  BY <1>2 DEF Levels
<1> QED BY <1>1, <1>3, <1>4, <1>5, Zenon

\* A block that closes takes its names along.
LEMMA Closing ==
  ASSUME NEW h, Checks(h), Close
  PROVE  \E g : Checks(g)'
<1> DEFINE r == levels[Depth - 1]
           b == [r EXCEPT !.returns = @ \/ BlockReturns(Inner)]
<1>1. /\ Inner \in Levels(slots) /\ levels \in Seq(Levels(slots)) /\ Depth \in Nat
      /\ Inner = levels[Depth] /\ Depth = Len(levels) /\ slots \in Nat /\ Stack(slots, levels)
      /\ slots <= Len(code) + Depth - 1 /\ Len(code) \in Nat /\ Depth > 1
  BY Standing DEF Inner, Depth, Checks, Close
<1>2. levels' = Append(SubSeq(levels, 1, Depth - 2), b) /\ UNCHANGED slots /\ Go
  BY DEF Close, Closed
<1>3. /\ b \in Levels(slots) /\ b.kind = r.kind /\ b.names = r.names /\ b.arms = r.arms
      /\ b.returns => r.returns \/ BlockReturns(Inner)
      /\ ~BlockReturns(Inner) => b = r
  <2>1. r \in Levels(slots)
    BY <1>1
  <2> HIDE DEF r
  <2> QED BY <2>1, Outer
<1> HIDE DEF b
<1>4. /\ levels' \in Seq(Levels(slots)) /\ Len(levels') = Depth - 1 /\ levels'[Depth - 1] = b
      /\ \A l \in 1..Depth - 2 : levels'[l] = levels[l]
  <2>1. /\ SubSeq(levels, 1, Depth - 2) \in Seq(Levels(slots)) /\ Len(SubSeq(levels, 1, Depth - 2)) = Depth - 2
        /\ \A l \in 1..Depth - 2 : SubSeq(levels, 1, Depth - 2)[l] = levels[l]
    BY <1>1
  <2> QED BY <1>1, <1>2, <1>3, <2>1
<1>5. CASE Inner.kind = "loop"
  <2> DEFINE it == Mark("again")
  <2>1. Emit(<<it>>)
    BY <1>5 DEF Close
  <2>2. it \in Items /\ it.op = "again" /\ it.depth = Len(levels)
    BY AMark DEF Ops
  <2> HIDE DEF it
  <2>3. b = levels[Depth - 1]
    BY <1>3, <1>5 DEF BlockReturns
  <2>4. \A l \in 1..Depth - 1 : levels'[l] = levels[l]
    BY <1>1, <1>4, <2>3
  <2>5. EndsLoop(it, levels, levels')
    BY <1>1, <1>4, <1>5, <2>2, <2>4 DEF EndsLoop, Same
  <2>6. Becomes(globals, slots', it, levels, levels') /\ it.op \notin Arms /\ it.op # "endarm"
    BY <2>2, <2>5 DEF Becomes, Arms
  <2>7. /\ slots' \in Nat /\ slots <= slots' /\ slots' <= Len(code) + Len(levels')
        /\ levels' \in Seq(Levels(slots'))
    BY <1>1, <1>2, <1>4
  <2> QED BY <1>2, <2>1, <2>6, <2>7, EmitsOne
<1>6. CASE Inner.kind # "loop"
  <2> DEFINE a == Mark("endarm")
             it == Mark("endif")
  <2>1. Emit(<<a, it>>)
    BY <1>6 DEF Close
  <2>2. Inner.kind \in {"if", "else"}
    BY <1>1, <1>6 DEF Stack, Levels
  <2>3. Becomes(globals, slots, a, levels, levels) /\ a.op = "endarm"
    BY <1>1, <2>2, EndsAnArm
  <2>4. it \in Items /\ it.op = "endif" /\ it.depth = Len(levels)
    BY AMark DEF Ops
  <2> HIDE DEF a, it
  <2>5. EndsIf(it, levels, levels')
    BY <1>1, <1>3, <1>4, <2>2, <2>4 DEF EndsIf, Same, GoesOn
  <2>6. Becomes(globals, slots, it, levels, levels') /\ it.op \in Arms
    BY <2>4, <2>5 DEF Becomes, Arms
  <2>7. slots <= Len(code) + Len(levels') + 1
    BY <1>1, <1>4
  <2> QED BY <1>2, <1>4, <2>1, <2>3, <2>6, <2>7, EmitsTwo
<1> QED BY <1>5, <1>6

\* The function begins to run.
LEMMA Starting ==
  ASSUME NEW h, Checks(h), Finish, phase' = "running"
  PROVE  Runs(slots, h)'
<1>1. /\ Depth = 1 /\ UNCHANGED <<outputs, globals, levels, slots, code, pc, memory, env>>
      /\ outputs => Inner.returns
  <2>1. Depth = 1 /\ UNCHANGED <<outputs, globals, levels, slots, code, pc, memory, env>>
    BY DEF Finish, checker, runtime
  <2>2. outputs => Inner.returns
    BY Zenon DEF Finish
  <2> QED BY <2>1, <2>2
<1>2. /\ Len(code) \in Nat /\ History(globals, slots, code, h) /\ h[Len(code)] = levels /\ Len(levels) = 1
      /\ pc = 1 /\ env = <<[n \in Names |-> Unset]>>
      /\ slots \in Nat /\ slots <= MaxItems
  BY <1>1, Standing, ScopesAssumption DEF Checks, Depth
<1>3. Complete(code, h)
  BY <1>2 DEF Complete, Checks
<1>4. outputs => h[Len(code)][1].returns
  BY <1>1, <1>2 DEF Inner
<1>5. Height(h) = 1
  <2>1. Len(h[0]) = 1
    BY <1>2 DEF History
  <2>2. ASSUME 1 \in 1..Len(code) PROVE code[1].op # "elseif"
    <3>1. Follows(code, 1)
      BY <1>2, <2>2 DEF History
    <3> QED BY <3>1 DEF Follows, Arms
  <2> QED BY <1>2, <2>1, <2>2 DEF Height
<1>6. Matches(env, memory, h[0], 1)
  <2>1. h[0][1].names = Nameless /\ ~h[0][1].returns
    BY <1>2 DEF History
  <2>2. <<[n \in Names |-> Unset]>> \in Seq([Names -> Int])
    <3>1. [n \in Names |-> Unset] \in [Names -> Int]
      BY DEF Unset
    <3> QED BY <3>1
  <2>3. \A n \in Names : Holds(memory, h[0][1], n, <<[a \in Names |-> Unset]>>[1][n])
    BY <2>1 DEF Holds, Nameless
  <2> QED BY <1>2, <2>1, <2>2, <2>3 DEF Matches
<1>7. Runs(slots, h)
  BY <1>2, <1>3, <1>4, <1>5, <1>6 DEF Runs, Checks
<1> QED BY <1>1, <1>7 DEF Runs, Height, Places

-------------------------------------------------------------------------------
ScopeInv ==
  /\ phase = "checking" => \E h : Checks(h)
  /\ phase = "running" => \E top \in Nat : \E h : Runs(top, h)
  /\ phase = "fell" => ~outputs

\* Every item the checker accepts lengthens the history.
LEMMA ChecksOn ==
  ASSUME NEW h, Checks(h), ScopesNext, phase = "checking", phase' = "checking"
  PROVE  \E g : Checks(g)'
<1>1. ASSUME NEW n \in Names, Declare(n) PROVE \E g : Checks(g)'
  BY <1>1, ADeclare DEF Declare, Reject
<1>2. ASSUME NEW n \in Names, Assign(n) PROVE \E g : Checks(g)'
  BY <1>2, Assigning
<1>3. ASSUME NEW n \in Names, Read(n) PROVE \E g : Checks(g)'
  BY <1>3, ReadingChecked DEF Read, Reject
<1>4. ASSUME NEW n \in Names, OpenFor(n) PROVE \E g : Checks(g)'
  BY <1>4, OpeningFor
<1>5. CASE OpenIf \/ OpenWhile
  BY <1>5, OpeningChecked
<1>6. CASE ElseIf \/ Else
  <2>1. CASE NextArm("if", "elseif")
    BY <2>1, Arming
  <2>2. CASE NextArm("else", "else")
    BY <2>2, Arming
  <2> QED BY <1>6, <2>1, <2>2 DEF ElseIf, Else
<1>7. CASE Close
  BY <1>7, Closing
<1>8. CASE Leave("break") \/ Leave("continue")
  BY <1>8, Leaving
<1>9. CASE Return
  BY <1>9, Returning
<1>10. ~(Finish \/ RunWrite \/ RunRead \/ RunCondition \/ RunEndArm \/ RunLoop \/ RunAgain \/ RunBreak
         \/ RunReturn \/ RunEnd)
  BY DEF Finish, RunWrite, RunRead, RunCondition, RunEndArm, RunLoop, RunAgain, RunBreak, RunReturn,
         RunEnd, running
<1>11. \/ \E n \in Names : Declare(n) \/ Assign(n) \/ Read(n) \/ OpenFor(n)
       \/ OpenIf \/ OpenWhile \/ ElseIf \/ Else \/ Close
       \/ Leave("break") \/ Leave("continue") \/ Return
  BY <1>10 DEF ScopesNext
<1> QED BY <1>1, <1>2, <1>3, <1>4, <1>5, <1>6, <1>7, <1>8, <1>9, <1>11, Zenon

\* Only Finish makes the function run.
LEMMA Checking ==
  ASSUME ScopesNext, phase = "checking", phase' # "checking"
  PROVE  phase' = "rejected" \/ (phase' = "running" /\ Finish)
BY DEF ScopesNext, Declare, Assign, Read, OpenFor, OpenIf, OpenWhile, Open, ElseIf, Else, NextArm, Close,
       Leave, Return, Finish, RunWrite, RunRead, RunCondition, RunEndArm, RunLoop, RunAgain, RunBreak,
       RunReturn, RunEnd, running, Reject, Go

\* Every step of a run finds the scopes of its place, or ends the run.
LEMMA RunsOnward ==
  ASSUME NEW top \in Nat, NEW h, Runs(top, h), ScopesNext, phase = "running"
  PROVE  \/ phase' = "running" /\ Runs(top, h)'
         \/ phase' = "returned"
         \/ phase' = "fell" /\ ~outputs'
<1>1. CASE RunWrite
  BY <1>1, Binding, Rewriting DEF RunWrite, Stay
<1>2. CASE RunRead
  BY <1>2, Reading DEF RunRead, Stay
<1>3. CASE RunCondition
  BY <1>3, Condition DEF RunCondition, Stay
<1>4. CASE RunEndArm
  BY <1>4, ArmEnds DEF RunEndArm, Stay
<1>5. CASE RunLoop
  BY <1>5, Looping DEF RunLoop, Stay
<1>6. CASE RunAgain
  BY <1>6, Repeating DEF RunAgain, Stay
<1>7. CASE RunBreak
  BY <1>7, Breaking DEF RunBreak, Stay
<1>8. CASE RunReturn
  BY <1>8 DEF RunReturn
<1>9. CASE RunEnd
  <2>1. Len(code) \in Nat /\ pc \in 1..Len(code) + 1 /\ pc > Len(code) /\ phase' = "fell" /\ outputs' = outputs
    BY <1>9 DEF RunEnd, Runs, History
  <2>2. pc - 1 = Len(code) /\ Height(h) = 1
    BY <2>1 DEF Height, Runs, Complete
  <2>3. ~h[Len(code)][1].returns
    BY <2>2 DEF Runs, Matches
  <2> QED BY <2>1, <2>3 DEF Runs
<1>10. ~ (\/ \E n \in Names : Declare(n) \/ Assign(n) \/ Read(n) \/ OpenFor(n)
          \/ OpenIf \/ OpenWhile \/ ElseIf \/ Else \/ Close
          \/ Leave("break") \/ Leave("continue") \/ Return \/ Finish)
  BY DEF checking, Declare, Assign, Read, OpenFor, OpenIf, OpenWhile, Open, ElseIf, Else, NextArm, Close,
         Leave, Return, Finish
<1> QED BY <1>1, <1>2, <1>3, <1>4, <1>5, <1>6, <1>7, <1>8, <1>9, <1>10 DEF ScopesNext

\* What no longer is checked and does not run stays as it is.
LEMMA Over ==
  ASSUME ScopesNext, phase # "checking", phase # "running"
  PROVE  FALSE
BY DEF ScopesNext, checking, running, Declare, Assign, Read, OpenFor, OpenIf, OpenWhile, Open, ElseIf, Else,
       NextArm, Close, Leave, Return, Finish, RunWrite, RunRead, RunCondition, RunEndArm, RunLoop, RunAgain,
       RunBreak, RunReturn, RunEnd

\* Every step keeps the history.
LEMMA NextScopes ==
  ASSUME ScopeInv, ScopesNext
  PROVE  ScopeInv'
<1>1. CASE phase = "checking"
  <2>1. PICK h : Checks(h)
    BY <1>1 DEF ScopeInv
  <2>2. CASE phase' = "checking"
    <3>1. \E g : Checks(g)'
      BY <1>1, <2>1, <2>2, ChecksOn
    <3> QED BY <2>2, <3>1 DEF ScopeInv
  <2>3. CASE phase' # "checking"
    <3>1. phase' = "rejected" \/ (phase' = "running" /\ Finish)
      BY <1>1, <2>3, Checking
    <3>2. CASE phase' = "running" /\ Finish
      <4>1. Runs(slots, h)' /\ slots \in Nat /\ slots' = slots
        BY <2>1, <3>2, Starting DEF Finish, checker, Checks
      <4> QED BY <3>2, <4>1 DEF ScopeInv
    <3> QED BY <3>1, <3>2 DEF ScopeInv
  <2> QED BY <2>2, <2>3
<1>2. CASE phase = "running"
  <2>1. PICK top \in Nat : \E h : Runs(top, h)
    BY <1>2 DEF ScopeInv
  <2>2. PICK h : Runs(top, h)
    BY <2>1
  <2>3. \/ phase' = "running" /\ Runs(top, h)'
        \/ phase' = "returned"
        \/ phase' = "fell" /\ ~outputs'
    BY <1>2, <2>2, RunsOnward
  <2> QED BY <2>3 DEF ScopeInv
<1> QED BY <1>1, <1>2, Over

\* Before the first item the history is the function's own scope.
LEMMA ScopesStart ==
  ASSUME ScopesInit
  PROVE  ScopeInv
<1> DEFINE b == Level("body", TRUE)
           h == [i \in 0..0 |-> <<b>>]
<1>1. b.kind = "body" /\ b.names = Nameless /\ ~b.returns /\ b \in Levels(0)
  <2>1. b = [kind |-> "body", names |-> Nameless, returns |-> FALSE, arms |-> TRUE]
    BY DEF Level, Nameless
  <2>2. Nameless \in [Names -> 0..0]
    BY DEF Nameless, NoSlot
  <2> HIDE DEF b
  <2> QED BY <2>1, <2>2 DEF Levels
<1>2. levels = <<b>> /\ code = <<>> /\ slots = 0 /\ pc = 1 /\ globals \subseteq Names
  BY DEF ScopesInit
<1> HIDE DEF b
<1>3. Stack(0, <<b>>)
  <2>1. <<b>> \in Seq(Levels(0)) /\ Len(<<b>>) = 1 /\ <<b>>[1] = b
    BY <1>1
  <2>2. Apart(<<b>>)
    BY <1>1 DEF Apart, Nameless
  <2> QED BY <1>1, <2>1, <2>2 DEF Stack
<1>4. DOMAIN h = 0..0 /\ h[0] = <<b>>
  OBVIOUS
<1> HIDE DEF h
<1>5. History(globals, slots, code, h)
  BY <1>1, <1>2, <1>3, <1>4 DEF History
<1>6. memory \in [Places -> Int] /\ \A n \in globals : memory[Global(n)] # Unset
  <2>1. memory = [s \in Places |-> IF s[1] = "global" THEN -1 ELSE Unset]
    BY DEF ScopesInit, Places
  <2>2. memory \in [Places -> Int]
    BY <2>1 DEF Unset
  <2>3. \A n \in globals : Global(n) \in Places /\ Global(n)[1] = "global"
    BY DEF Places, Global
  <2> QED BY <2>1, <2>2, <2>3 DEF Unset
<1>7. Checks(h)
  <2>1. Len(code) = 0 /\ h[Len(code)] = levels /\ Depth = 1
    BY <1>2, <1>4 DEF Depth
  <2>2. pc = 1 /\ env = <<[n \in Names |-> Unset]>>
    BY DEF ScopesInit
  <2> QED BY <1>2, <1>5, <1>6, <2>1, <2>2, ScopesAssumption DEF Checks
<1> QED BY <1>7 DEF ScopeInv, ScopesInit

\* There is a history throughout.
LEMMA ScopesInvariant == ScopesSpec => []ScopeInv
<1>1. ScopesInit => ScopeInv
  BY ScopesStart
<1>2. ScopeInv /\ [ScopesNext]_vars => ScopeInv'
  <2>1. ASSUME ScopeInv, UNCHANGED vars PROVE ScopeInv'
    BY <2>1 DEF vars, ScopeInv, Checks, Runs, Places, Height, Depth
  <2> QED BY <2>1, NextScopes
<1> QED BY <1>1, <1>2, PTL DEF ScopesSpec

\* Whatever blocks a run enters, leaves, repeats or jumps out of, a read finds in
\* its slot what the name means there (Check.cpp: Scope::lookup(); CodeGen.cpp:
\* visit(If), visit(While), visit(For)).
THEOREM ReadsFollow == ScopesSpec => []ReadsFollowScopes
<1>1. ASSUME ScopeInv, running, At.op = "read" PROVE memory[At.slot] = Meant(At.name) /\ memory[At.slot] # Unset
  <2> SUFFICES ASSUME NEW top \in Nat, NEW h, Runs(top, h)
               PROVE  memory[At.slot] = Meant(At.name) /\ memory[At.slot] # Unset
    BY <1>1 DEF ScopeInv, running
  <2>1. Runs(top, h)
    OBVIOUS
  <2> DEFINE s == h[pc - 1]
             n == At.name
  <2>2. Uses(globals, At, s, h[pc]) /\ Stack(top, s) /\ Len(s) \in Nat
    BY <1>1, <2>1, AtItem DEF Becomes, Binds, EndsArm, Jumps, Returns, Opens, TakesArm, EndsIf, EndsLoop
  <2>3. Matches(env, memory, s, Len(s))
    BY <1>1, <2>1, Here
  <2>4. n \in Names
    BY <2>2 DEF Uses
  <2>5. /\ Holders(n) = Binders(s, n)
        /\ Binders(s, n) # {} => /\ Max(Binders(s, n)) \in DOMAIN s /\ Bound(s, n) \in 1..top
                                 /\ s[Max(Binders(s, n))].names[n] = Bound(s, n)
    BY <2>2, <2>3, <2>4, HoldersAre
  <2>6. CASE Binders(s, n) = {}
    <3>1. At.slot = Global(n) /\ n \in globals
      BY <2>2, <2>6 DEF Uses
    <3> QED BY <2>1, <2>5, <2>6, <3>1 DEF Meant, Runs
  <2>7. CASE Binders(s, n) # {}
    <3> DEFINE x == Max(Binders(s, n))
    <3>1. At.slot = Local(Bound(s, n)) /\ x \in 1..Len(s) /\ s[x].names[n] = Bound(s, n) /\ Bound(s, n) \in 1..top
      BY <2>2, <2>5, <2>7 DEF Uses, Stack
    <3>2. Meant(n) = env[x][n]
      BY <2>5, <2>7 DEF Meant
    <3> HIDE DEF x
    <3>3. Holds(memory, s[x], n, env[x][n])
      BY <2>3, <2>4, <3>1 DEF Matches
    <3> QED BY <3>1, <3>2, <3>3 DEF Holds, NoSlot
  <2> QED BY <2>6, <2>7
<1>2. ScopeInv => ReadsFollowScopes
  BY <1>1 DEF ReadsFollowScopes
<1> QED BY <1>2, ScopesInvariant, PTL

\* A function with outputs that is accepted returns on every way through it
\* (Check.cpp: alwaysReturns(), check(Function)).
THEOREM NoneFallsOff == ScopesSpec => []NeverFallsOff
<1>1. ScopeInv => NeverFallsOff
  BY DEF ScopeInv, NeverFallsOff
<1> QED BY <1>1, ScopesInvariant, PTL
================================================================================
