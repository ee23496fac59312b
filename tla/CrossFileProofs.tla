---------------------------- MODULE CrossFileProofs ----------------------------
(***************************************************************************)
(* The search for the functions of other files, and the program it makes,  *)
(* for every project: any number of files, any call graph, any library,    *)
(* any order of the moves.  First the search by itself (Resolver, and that *)
(* it implements Closure); then the running program (CrossFile), where     *)
(* what the checker binds and what the runtime may read follows from where *)
(* the search put each declaration in the order of the program.            *)
(***************************************************************************)
EXTENDS CrossFile, SequenceTheorems, WellFoundedInduction, FunctionTheorems, FiniteSetTheorems, TLAPS

-------------------------------------------------------------------------------
(***************************************************************************)
(* Sequences as stacks and as sets.                                        *)
(***************************************************************************)

\* The elements of a sequence over S are elements of S.
LEMMA ToSetType ==
  ASSUME NEW S, NEW s \in Seq(S)
  PROVE  ToSet(s) \subseteq S
  BY DEF ToSet

\* Popping: what is left and the name popped are together what was there.
LEMMA PopProperties ==
  ASSUME NEW S, NEW s \in Seq(S), s # <<>>
  PROVE  /\ Front(s) \in Seq(S)
         /\ Last(s) \in S
         /\ Last(s) \in ToSet(s)
         /\ ToSet(s) = ToSet(Front(s)) \cup {Last(s)}
  <1>1. Len(s) \in Nat /\ Len(s) > 0 /\ DOMAIN s = 1..Len(s)
    BY EmptySeq, LenProperties
  <1>2. /\ SubSeq(s, 1, Len(s) - 1) \in Seq(S)
        /\ Len(SubSeq(s, 1, Len(s) - 1)) = Len(s) - 1
        /\ \A i \in 1..(Len(s) - 1) : SubSeq(s, 1, Len(s) - 1)[i] = s[i]
    <2>1. \A i \in 1..(Len(s) - 1) : s[i] \in S
      BY <1>1, ElementOfSeq
    <2>2. QED
      BY <1>1, <2>1, SubSeqProperties
  <1>3. DOMAIN Front(s) = 1..(Len(s) - 1)
    BY <1>1, <1>2, LenProperties DEF Front
  <1>4. Front(s) \in Seq(S) /\ Last(s) = s[Len(s)] /\ Last(s) \in S
    BY <1>1, <1>2, ElementOfSeq DEF Front, Last
  <1>5. \A e : e \in ToSet(s) <=> \E i \in 1..Len(s) : e = s[i]
    BY <1>1 DEF ToSet
  <1>6. \A e : e \in ToSet(Front(s)) <=> \E i \in 1..(Len(s) - 1) : e = s[i]
    BY <1>2, <1>3 DEF ToSet, Front
  <1>7. \A i : i \in 1..Len(s) <=> i \in 1..(Len(s) - 1) \/ i = Len(s)
    BY <1>1
  <1>8. QED
    BY <1>1, <1>4, <1>5, <1>6, <1>7

\* Pushing the names a function calls.
LEMMA ConcatToSet ==
  ASSUME NEW S, NEW s \in Seq(S), NEW t \in Seq(S)
  PROVE  s \o t \in Seq(S) /\ ToSet(s \o t) = ToSet(s) \cup ToSet(t)
  <1>1. \A u : ToSet(u) = Range(u)
    BY DEF Range, ToSet
  <1>2. Range(s \o t) = Range(s) \cup Range(t)
    BY RangeConcatenation
  <1>3. s \o t \in Seq(S)
    BY ConcatProperties
  <1>4. QED
    BY <1>1, <1>2, <1>3

\* Appending one element.
LEMMA AppendToSet ==
  ASSUME NEW S, NEW s \in Seq(S), NEW e \in S
  PROVE  /\ Append(s, e) \in Seq(S)
         /\ ToSet(Append(s, e)) = ToSet(s) \cup {e}
         /\ Len(Append(s, e)) = Len(s) + 1
         /\ DOMAIN Append(s, e) = 1..(Len(s) + 1)
         /\ DOMAIN s = 1..Len(s)
         /\ Len(s) \in Nat
         /\ \A i \in 1..Len(s) : Append(s, e)[i] = s[i]
         /\ Append(s, e)[Len(s) + 1] = e
  <1>1. /\ Append(s, e) \in Seq(S)
        /\ Len(Append(s, e)) = Len(s) + 1
        /\ DOMAIN Append(s, e) = 1..(Len(s) + 1)
        /\ DOMAIN s = 1..Len(s)
        /\ Len(s) \in Nat
        /\ \A i \in 1..Len(s) : Append(s, e)[i] = s[i]
        /\ Append(s, e)[Len(s) + 1] = e
    BY AppendProperties, LenProperties
  <1>2. ToSet(Append(s, e)) = ToSet(s) \cup {e}
    <2>1. \A x : x \in ToSet(s) <=> \E i \in 1..Len(s) : x = s[i]
      BY <1>1 DEF ToSet
    <2>2. \A x : x \in ToSet(Append(s, e))
                   <=> \E i \in 1..(Len(s) + 1) : x = Append(s, e)[i]
      BY <1>1 DEF ToSet
    <2>3. \A i : i \in 1..(Len(s) + 1) <=> i \in 1..Len(s) \/ i = Len(s) + 1
      BY <1>1
    <2>4. QED
      BY <1>1, <2>1, <2>2, <2>3
  <1>3. QED
    BY <1>1, <1>2

-------------------------------------------------------------------------------
(***************************************************************************)
(* Type correctness.                                                       *)
(***************************************************************************)

\* The parsed files have the shape of Tree.
LEMMA TreeType ==
  ASSUME tree \in Tree
  PROVE  /\ \A f \in Files : tree.decls[f] \in Seq(Declaration)
         /\ \A f \in Files : \A i \in DOMAIN tree.decls[f] :
              /\ i \in Nat
              /\ tree.decls[f][i] \in Declaration
         /\ tree.called \in Seq(Names)
         /\ \A f \in Files : tree.borrows[f] \subseteq Names
         /\ MainFile \in Files /\ Companions \subseteq Files
  <1>1. /\ tree.decls \in [Files -> Seq(Declaration)]
        /\ tree.called \in Seq(Names)
        /\ tree.borrows \in [Files -> SUBSET Names]
    BY DEF Tree
  <1>2. MainFile \in Files /\ Companions \subseteq Files
    BY DEF Files
  <1>3. \A f \in Files : tree.decls[f] \in Seq(Declaration)
    BY <1>1
  <1>4. ASSUME NEW f \in Files, NEW i \in DOMAIN tree.decls[f]
        PROVE  i \in Nat /\ tree.decls[f][i] \in Declaration
    <2>1. DOMAIN tree.decls[f] = 1..Len(tree.decls[f]) /\ Len(tree.decls[f]) \in Nat
      BY <1>3, LenProperties
    <2>2. QED
      BY <1>3, <2>1, ElementOfSeq
  <1>5. QED
    BY <1>1, <1>2, <1>3, <1>4

\* A candidate is one of the file's declarations.
LEMMA CandidateType ==
  ASSUME tree \in Tree, NEW f \in Companions, NEW n, NEW i \in Candidates(f, n)
  PROVE  /\ i \in Nat /\ i \in FunctionsOf(f)
         /\ tree.decls[f][i] \in Declaration
         /\ tree.decls[f][i].calls \in Seq(Names)
         /\ tree.decls[f][i].name = n
         /\ Released(f, i) \subseteq Nat
  BY TreeType DEF Candidates, FunctionsOf, GlobalsOf, Released, Declaration

\* The search starts with every variable of its type.
LEMMA InitType == Init => TypeOK
  <1> SUFFICES ASSUME Init PROVE TypeOK
    OBVIOUS
  <1>1. tree \in Tree
    BY ResolverAssumption DEF Init
  <1>2. have \subseteq Names
    <2>1. \A i \in FunctionsOf(MainFile) : tree.decls[MainFile][i] \in Declaration
      BY <1>1, TreeType DEF FunctionsOf
    <2>2. QED
      BY <2>1 DEF Init, Declaration
  <1>3. wanted \in Seq(Names)
    BY <1>1, TreeType, EmptySeq DEF Init
  <1>4. pulls \in Seq([from: Companions, function: Nat, globals: SUBSET Nat])
        /\ used \in Seq(Companions)
    BY EmptySeq DEF Init
  <1>5. QED
    BY <1>1, <1>2, <1>3, <1>4 DEF Init, TypeOK

\* No step of the search leaves the types.
LEMMA NextType == TypeOK /\ [Next]_vars => TypeOK'
  <1> SUFFICES ASSUME TypeOK, [Next]_vars PROVE TypeOK'
    OBVIOUS
  <1>1. CASE Search
    <2> DEFINE n == Last(wanted)
    <2>1. wanted \in Seq(Names) /\ wanted # <<>>
      BY <1>1 DEF Search, TypeOK
    <2>2. Front(wanted) \in Seq(Names) /\ n \in Names
      BY <2>1, PopProperties
    <2>3. CASE Pass(n)
      BY <2>2, <2>3 DEF Pass, TypeOK
    <2>4. CASE Clash(n)
      BY <2>2, <2>4 DEF Clash, TypeOK
    <2>5. CASE Pull(n)
      <3> PICK f \in Companions : \E i \in Candidates(f, n) :
             /\ have' = have \cup {n}
             /\ used' = Noted(f)
             /\ pulls' = Append(pulls, [from |-> f, function |-> i, globals |-> Released(f, i)])
             /\ borrowed' = borrowed \cup (tree.borrows[f] \ tree.borrows[MainFile])
             /\ wanted' = Front(wanted) \o tree.decls[f][i].calls
        BY <2>5 DEF Pull
      <3> PICK i \in Candidates(f, n) :
             /\ have' = have \cup {n}
             /\ used' = Noted(f)
             /\ pulls' = Append(pulls, [from |-> f, function |-> i, globals |-> Released(f, i)])
             /\ borrowed' = borrowed \cup (tree.borrows[f] \ tree.borrows[MainFile])
             /\ wanted' = Front(wanted) \o tree.decls[f][i].calls
        OBVIOUS
      <3>1. UNCHANGED <<tree, clashed, pc>>
        BY <2>5 DEF Pull
      <3>2. wanted' \in Seq(Names)
        BY <2>2, CandidateType, ConcatProperties DEF TypeOK
      <3>3. used' \in Seq(Companions)
        BY AppendProperties DEF TypeOK, Noted
      <3>4. [from |-> f, function |-> i, globals |-> Released(f, i)]
              \in [from: Companions, function: Nat, globals: SUBSET Nat]
        BY CandidateType DEF TypeOK
      <3>5. pulls' \in Seq([from: Companions, function: Nat, globals: SUBSET Nat])
        BY <3>4, AppendProperties DEF TypeOK
      <3>6. borrowed' \subseteq Names
        BY TreeType DEF TypeOK
      <3>7. have' \subseteq Names
        BY <2>2 DEF TypeOK
      <3>8. QED
        BY <3>1, <3>2, <3>3, <3>5, <3>6, <3>7 DEF TypeOK
    <2>6. QED
      BY <1>1, <2>3, <2>4, <2>5 DEF Search
  <1>2. CASE Finish
    BY <1>2 DEF Finish, TypeOK
  <1>3. CASE UNCHANGED vars
    BY <1>3 DEF vars, TypeOK
  <1>4. QED
    BY <1>1, <1>2, <1>3 DEF Next

\* Every variable keeps its type in every project.
THEOREM TypeCorrect == Spec => []TypeOK
  <1>1. QED
    BY InitType, NextType, PTL DEF Spec

-------------------------------------------------------------------------------
(***************************************************************************)
(* The reference predicates depend on the parsed files alone.              *)
(***************************************************************************)

\* What the search asks of the files is the same as long as the files are.
LEMMA FactsFixed ==
  ASSUME tree' = tree
  PROVE  /\ Own' = Own
         /\ Needed' = Needed
         /\ \A f : FunctionsOf(f)' = FunctionsOf(f) /\ GlobalsOf(f)' = GlobalsOf(f)
         /\ \A n : /\ Single(n)' <=> Single(n)
                   /\ Rival(n)' <=> Rival(n)
                   /\ CallsOf(n)' = CallsOf(n)
  <1>1. \A f : FunctionsOf(f)' = FunctionsOf(f) /\ GlobalsOf(f)' = GlobalsOf(f)
    BY DEF FunctionsOf, GlobalsOf
  <1>2. \A f, n : Defines(f, n)' <=> Defines(f, n)
    BY <1>1 DEF Defines
  <1>3. Own' = Own
    BY <1>1 DEF Own
  <1>4. \A n : Searched(n)' <=> Searched(n)
    BY <1>3 DEF Searched
  <1>5. \A n : (Single(n)' <=> Single(n)) /\ (Rival(n)' <=> Rival(n))
    BY <1>2, <1>4 DEF Single, Rival
  <1>6. \A f, n : FirstOf(f, n)' = FirstOf(f, n)
    BY <1>1 DEF FirstOf
  <1>7. \A n : CallsOf(n)' = CallsOf(n)
    BY <1>2, <1>6 DEF CallsOf
  <1>8. \A S : Closed(S)' <=> Closed(S)
    BY <1>5, <1>7 DEF Closed
  <1>9. Needed' = Needed
    BY <1>8 DEF Needed
  <1>10. QED
    BY <1>1, <1>3, <1>5, <1>7, <1>9

\* A name cannot be both another file's alone and several files'.
LEMMA SingleNotRival == ASSUME NEW n, Single(n) PROVE ~Rival(n)
  BY DEF Single, Rival

\* A file that defines a name has a first definition of it.
LEMMA FirstExists ==
  ASSUME tree \in Tree, NEW f \in Companions, NEW n, Defines(f, n)
  PROVE  FirstOf(f, n) \in FunctionsOf(f)
  <1> DEFINE T == {i \in FunctionsOf(f) : tree.decls[f][i].name = n}
  <1>1. T \subseteq Nat /\ T # {}
    BY TreeType DEF Defines, FunctionsOf
  <1>2. PICK i \in T : \A j \in T : ~(<<j, i>> \in OpToRel(<, Nat))
    BY <1>1, NatLessThanWellFounded, WFMin
  <1>3. \A j \in T : i <= j
    <2>1. \A j \in T : j \in Nat /\ i \in Nat
      BY <1>1
    <2>2. \A j \in T : ~(j < i)
      BY <1>2, <2>1 DEF OpToRel
    <2>3. QED
      BY <2>1, <2>2
  <1>4. QED
    BY <1>2, <1>3 DEF FirstOf

\* What a function of another file calls are names.
LEMMA CallsType ==
  ASSUME tree \in Tree, NEW n
  PROVE  CallsOf(n) \subseteq Names
  <1>1. ASSUME NEW f \in Companions, Defines(f, n)
        PROVE  ToSet(tree.decls[f][FirstOf(f, n)].calls) \subseteq Names
    <2>1. tree.decls[f][FirstOf(f, n)] \in Declaration
      BY <1>1, FirstExists, TreeType DEF FunctionsOf
    <2>2. QED
      BY <2>1, ToSetType DEF Declaration
  <1>2. QED
    BY <1>1 DEF CallsOf

\* What is needed calls only for what is needed.
LEMMA AskedNeeded ==
  ASSUME tree \in Tree, PulledNames \subseteq Needed, \A n \in PulledNames : Single(n)
  PROVE  Asked \subseteq Needed
  <1>1. ToSet(tree.called) \subseteq Names
    BY TreeType, ToSetType
  <1>2. ToSet(tree.called) \subseteq Needed
    BY <1>1 DEF Needed, Closed
  <1>3. ASSUME NEW n \in PulledNames
        PROVE  CallsOf(n) \subseteq Needed
    BY <1>3, CallsType DEF Needed, Closed
  <1>4. QED
    BY <1>2, <1>3 DEF Asked

\* Under the invariant everything the program calls so far is needed.
LEMMA AskedOfInv == ASSUME IInv PROVE Asked \subseteq Needed
  BY AskedNeeded DEF IInv, TypeOK, HaveInv, PullInv, PulledNames

\* What is called changes with what has moved, and with nothing else.
LEMMA AskedAfter ==
  ASSUME tree' = tree
  PROVE  Asked' = ToSet(tree.called) \cup UNION {CallsOf(n) : n \in PulledNames'}
  <1>1. \A n : CallsOf(n)' = CallsOf(n)
    BY FactsFixed
  <1>2. QED
    BY <1>1 DEF Asked

\* Needed is the least closed set.
LEMMA NeededLeast ==
  ASSUME NEW S \in SUBSET Names, Closed(S)
  PROVE  Needed \subseteq S
  BY DEF Needed

\* Until a name is settled no function of that name has moved, so the files
\* answer to it as they were parsed to.
LEMMA FreshName ==
  ASSUME IInv, NEW n \in Names, n \notin have, ~Satisfied(n), n # MainFn
  PROVE  /\ Searched(n)
         /\ \A f \in Companions :
              Candidates(f, n) = {i \in FunctionsOf(f) : tree.decls[f][i].name = n}
         /\ Answering(n) = {f \in Companions : Defines(f, n)}
  <1>1. Searched(n)
    BY DEF IInv, HaveInv, Searched, Satisfied
  <1>2. ASSUME NEW f \in Companions, NEW i \in FunctionsOf(f), Moved(f, i)
        PROVE  tree.decls[f][i].name # n
    <2>1. PICK k \in DOMAIN pulls :
            pulls[k].from = f /\ (i = pulls[k].function \/ i \in pulls[k].globals)
      BY <1>2 DEF Moved
    <2>2. pulls[k].globals \subseteq GlobalsOf(f)
      BY <2>1 DEF IInv, PullInv
    <2>3. i = pulls[k].function
      BY <2>1, <2>2 DEF FunctionsOf, GlobalsOf
    <2>4. tree.decls[f][i].name \in PulledNames
      BY <2>1, <2>3 DEF PulledNames, PulledFunction
    <2>5. QED
      BY <2>4 DEF IInv, HaveInv
  <1>3. \A f \in Companions :
          Candidates(f, n) = {i \in FunctionsOf(f) : tree.decls[f][i].name = n}
    BY <1>2 DEF Candidates
  <1>4. Answering(n) = {f \in Companions : Defines(f, n)}
    BY <1>3 DEF Answering, Defines
  <1>5. QED
    BY <1>1, <1>3, <1>4

\* A name popped without effect is settled or calls for nothing.
LEMMA PassedName ==
  ASSUME IInv, NEW n \in Names, Pass(n), n \notin have
  PROVE  ~(Single(n) \/ Rival(n))
  <1>1. CASE Satisfied(n)
    BY <1>1 DEF IInv, BorrowInv, Satisfied, Single, Rival, Searched, Files
  <1>2. CASE n = MainFn
    BY <1>2 DEF Single, Rival, Searched
  <1>3. CASE Answering(n) = {} /\ ~Satisfied(n) /\ n # MainFn
    <2>1. \A f \in Companions : ~Defines(f, n)
      BY <1>3, FreshName
    <2>2. QED
      BY <2>1 DEF Single, Rival
  <1>4. QED
    BY <1>1, <1>2, <1>3 DEF Pass

\* One move, described: the function taken is the first of the only file that
\* has the name, and it joins the program under that name.
MovedOne(n, f, i) ==
  /\ n \in Names /\ n \notin have
  /\ f \in Companions
  /\ i \in FunctionsOf(f) /\ i = FirstOf(f, n)
  /\ tree.decls[f][i] \in Declaration /\ tree.decls[f][i].name = n
  /\ Released(f, i) \subseteq GlobalsOf(f)
  /\ Single(n)
  /\ CallsOf(n) = ToSet(tree.decls[f][i].calls)
  /\ have' = have \cup {n}
  /\ pulls' = Append(pulls, [from |-> f, function |-> i, globals |-> Released(f, i)])
  /\ DOMAIN pulls' = DOMAIN pulls \cup {Len(pulls) + 1}
  /\ \A k \in DOMAIN pulls : pulls'[k] = pulls[k] /\ k # Len(pulls) + 1
  /\ pulls'[Len(pulls) + 1] = [from |-> f, function |-> i, globals |-> Released(f, i)]
  /\ PulledNames' = PulledNames \cup {n}
  /\ borrowed' = borrowed \cup (tree.borrows[f] \ tree.borrows[MainFile])
  /\ used' = Noted(f)
  /\ ToSet(wanted') = ToSet(Front(wanted)) \cup CallsOf(n)
  /\ UNCHANGED <<tree, clashed, pc>>

\* A Pull moves the first function of that name of the only file defining it.
LEMMA PullMovesOne ==
  ASSUME IInv, wanted # <<>>, NEW n, n = Last(wanted), Pull(n)
  PROVE  \E f \in Companions : \E i \in FunctionsOf(f) : MovedOne(n, f, i)
  <1>1. n \in Names /\ Front(wanted) \in Seq(Names)
    BY PopProperties DEF IInv, TypeOK
  <1>2. n \notin have /\ ~Satisfied(n) /\ n # MainFn /\ UNCHANGED <<tree, clashed, pc>>
    BY DEF Pull
  <1>3. PICK f \in Companions : \E i \in Candidates(f, n) :
          /\ Answering(n) = {f}
          /\ \A j \in Candidates(f, n) : i <= j
          /\ have' = have \cup {n}
          /\ used' = Noted(f)
          /\ pulls' = Append(pulls, [from |-> f, function |-> i, globals |-> Released(f, i)])
          /\ borrowed' = borrowed \cup (tree.borrows[f] \ tree.borrows[MainFile])
          /\ wanted' = Front(wanted) \o tree.decls[f][i].calls
    BY DEF Pull
  <1>4. PICK i \in Candidates(f, n) :
          /\ Answering(n) = {f}
          /\ \A j \in Candidates(f, n) : i <= j
          /\ have' = have \cup {n}
          /\ used' = Noted(f)
          /\ pulls' = Append(pulls, [from |-> f, function |-> i, globals |-> Released(f, i)])
          /\ borrowed' = borrowed \cup (tree.borrows[f] \ tree.borrows[MainFile])
          /\ wanted' = Front(wanted) \o tree.decls[f][i].calls
    BY <1>3
  <1>5. /\ i \in Nat /\ i \in FunctionsOf(f)
        /\ tree.decls[f][i] \in Declaration
        /\ tree.decls[f][i].calls \in Seq(Names)
        /\ tree.decls[f][i].name = n
        /\ Released(f, i) \subseteq Nat
    BY CandidateType DEF IInv, TypeOK
  <1>6. Searched(n) /\ {g \in Companions : Defines(g, n)} = {f}
    BY <1>1, <1>2, <1>4, FreshName
  <1>7. Single(n)
    BY <1>6 DEF Single
  <1>8. Candidates(f, n) = {j \in FunctionsOf(f) : tree.decls[f][j].name = n}
    BY <1>1, <1>2, FreshName
  <1>9. i = FirstOf(f, n)
    <2>1. \A j \in FunctionsOf(f) : j \in Nat
      BY TreeType DEF IInv, TypeOK, FunctionsOf
    <2>2. ASSUME NEW j \in FunctionsOf(f), tree.decls[f][j].name = n,
                 \A l \in FunctionsOf(f) : tree.decls[f][l].name = n => j <= l
          PROVE  j = i
      <3>1. i <= j
        BY <1>4, <1>8, <2>2
      <3>2. j <= i
        BY <1>5, <2>2
      <3>3. QED
        BY <1>5, <2>1, <3>1, <3>2
    <2>3. \A l \in FunctionsOf(f) : tree.decls[f][l].name = n => i <= l
      BY <1>4, <1>8
    <2>4. QED
      BY <1>5, <2>2, <2>3 DEF FirstOf
  <1>10. CallsOf(n) = ToSet(tree.decls[f][i].calls)
    BY <1>6, <1>9 DEF CallsOf
  <1>11. [from |-> f, function |-> i, globals |-> Released(f, i)]
           \in [from: Companions, function: Nat, globals: SUBSET Nat]
    BY <1>5
  <1>12. /\ DOMAIN pulls' = DOMAIN pulls \cup {Len(pulls) + 1}
         /\ \A k \in DOMAIN pulls : pulls'[k] = pulls[k] /\ k # Len(pulls) + 1
         /\ pulls'[Len(pulls) + 1] = [from |-> f, function |-> i, globals |-> Released(f, i)]
    BY <1>4, <1>11, AppendToSet DEF IInv, TypeOK
  <1>13. PulledNames' = PulledNames \cup {n}
    <2>1. \A k \in DOMAIN pulls : PulledFunction(k)' = PulledFunction(k)
      BY <1>2, <1>12 DEF PulledFunction
    <2>2. \A k : k = Len(pulls) + 1 => PulledFunction(k)'.name = n
      BY <1>2, <1>5, <1>12 DEF PulledFunction
    <2>3. PulledNames' = {PulledFunction(k)'.name : k \in DOMAIN pulls'}
      BY DEF PulledNames
    <2>4. QED
      BY <1>12, <2>1, <2>2, <2>3 DEF PulledNames
  <1>14. ToSet(wanted') = ToSet(Front(wanted)) \cup CallsOf(n)
    BY <1>1, <1>4, <1>5, <1>10, ConcatToSet
  <1>15. Released(f, i) \subseteq GlobalsOf(f)
    BY DEF Released
  <1>16. QED
    BY <1>1, <1>2, <1>4, <1>5, <1>7, <1>9, <1>10, <1>12, <1>13, <1>14, <1>15 DEF MovedOne

-------------------------------------------------------------------------------
(***************************************************************************)
(* The inductive invariant.                                                *)
(***************************************************************************)

\* The search begins with what the main file asks for on the stack.
LEMMA InitInv == Init => IInv
  <1> SUFFICES ASSUME Init PROVE IInv
    OBVIOUS
  <1>1. TypeOK
    BY InitType
  <1>2. PulledNames = {} /\ DOMAIN pulls = {} /\ have = Own /\ clashed = FALSE
    BY DEF Init, PulledNames, Own
  <1>3. \A n \in Own : ~Rival(n)
    BY DEF Rival, Searched
  <1>4. HaveInv
    BY <1>2, <1>3 DEF HaveInv
  <1>5. PullInv /\ BorrowInv
    BY <1>2 DEF Init, PullInv, BorrowInv
  <1>6. ToSet(wanted) \subseteq ToSet(tree.called) /\ Asked = ToSet(tree.called)
    BY <1>2 DEF Init, ToSet, Asked
  <1>7. \A n \in ToSet(tree.called) : n \in ToSet(wanted) \/ ~(Single(n) \/ Rival(n))
    BY DEF Init, Single, Rival
  <1>8. StackInv
    BY <1>2, <1>6, <1>7 DEF Init, StackInv
  <1>9. QED
    BY <1>1, <1>4, <1>5, <1>8 DEF IInv

\* A name popped with nothing to do leaves everything but the stack alone.
LEMMA PassInv ==
  ASSUME IInv, TypeOK', pc = "resolving", wanted # <<>>, Pass(Last(wanted))
  PROVE  IInv'
  <1> DEFINE n == Last(wanted)
  <1>1. /\ n \in Names
        /\ ToSet(wanted) = ToSet(Front(wanted)) \cup {n}
    BY PopProperties DEF IInv, TypeOK
  <1>2. UNCHANGED <<tree, have, pulls, used, borrowed, clashed, pc>> /\ wanted' = Front(wanted)
    BY DEF Pass
  <1>3. PulledNames' = PulledNames
    BY <1>2 DEF PulledNames, PulledFunction
  <1>4. HaveInv'
    BY <1>2, <1>3, FactsFixed, AskedAfter DEF IInv, HaveInv, Asked
  <1>5. PullInv' /\ BorrowInv'
    <2>1. \A k : PulledFunction(k)' = PulledFunction(k)
      BY <1>2 DEF PulledFunction
    <2>2. QED
      BY <1>2, <2>1, FactsFixed DEF IInv, PullInv, BorrowInv
  <1>6. n \in have \/ ~(Single(n) \/ Rival(n))
    BY <1>1, PassedName
  <1>7. StackInv'
    BY <1>1, <1>2, <1>3, <1>6, FactsFixed, AskedAfter DEF IInv, StackInv, Asked
  <1>8. QED
    BY <1>4, <1>5, <1>7 DEF IInv

\* Refusing a name settles it: it is a rival, and it stays one.
LEMMA ClashInv ==
  ASSUME IInv, TypeOK', pc = "resolving", wanted # <<>>, Clash(Last(wanted))
  PROVE  IInv'
  <1> DEFINE n == Last(wanted)
  <1>1. /\ n \in Names /\ n \in ToSet(wanted)
        /\ ToSet(wanted) = ToSet(Front(wanted)) \cup {n}
    BY PopProperties DEF IInv, TypeOK
  <1>2. /\ UNCHANGED <<tree, pulls, used, borrowed, pc>>
        /\ wanted' = Front(wanted) /\ have' = have \cup {n} /\ clashed' = TRUE
    BY DEF Clash
  <1>3. PulledNames' = PulledNames
    BY <1>2 DEF PulledNames, PulledFunction
  <1>4. Rival(n)
    <2>1. n \notin have /\ ~Satisfied(n) /\ n # MainFn
      BY DEF Clash
    <2>2. PICK f, g \in Companions : f # g /\ Defines(f, n) /\ Defines(g, n)
      BY <1>1, <2>1, FreshName DEF Clash
    <2>3. QED
      BY <1>1, <2>1, <2>2, FreshName DEF Rival
  <1>5. n \in Asked /\ Asked' = Asked
    BY <1>1, <1>2, <1>3, AskedAfter DEF IInv, StackInv, Asked
  <1>6. HaveInv'
    BY <1>2, <1>3, <1>4, <1>5, FactsFixed DEF IInv, HaveInv
  <1>7. PullInv' /\ BorrowInv'
    <2>1. \A k : PulledFunction(k)' = PulledFunction(k)
      BY <1>2 DEF PulledFunction
    <2>2. QED
      BY <1>2, <2>1, FactsFixed DEF IInv, PullInv, BorrowInv
  <1>8. StackInv'
    BY <1>1, <1>2, <1>5, FactsFixed DEF IInv, StackInv
  <1>9. QED
    BY <1>6, <1>7, <1>8 DEF IInv

\* Moving a function keeps every part: its callees are needed because it is.
LEMMA PullStepInv ==
  ASSUME IInv, TypeOK', pc = "resolving", wanted # <<>>, Pull(Last(wanted))
  PROVE  IInv'
  <1> DEFINE n == Last(wanted)
  <1>1. /\ n \in ToSet(wanted)
        /\ ToSet(wanted) = ToSet(Front(wanted)) \cup {n}
    BY PopProperties DEF IInv, TypeOK
  <1>2. PICK f \in Companions : \E i \in FunctionsOf(f) : MovedOne(n, f, i)
    BY PullMovesOne
  <1>3. PICK i \in FunctionsOf(f) : MovedOne(n, f, i)
    BY <1>2
  <1>4. n \in Asked /\ n \in Needed /\ Single(n) /\ ~Rival(n)
    BY <1>1, <1>3, SingleNotRival, AskedOfInv DEF IInv, StackInv, MovedOne
  <1>5. Asked' = Asked \cup CallsOf(n)
    BY <1>3, AskedAfter DEF MovedOne, Asked
  <1>6. UNCHANGED <<tree, clashed, pc>>
    BY <1>3 DEF MovedOne
  <1>7. HaveInv'
    BY <1>3, <1>4, <1>5, <1>6, FactsFixed DEF MovedOne, IInv, HaveInv
  <1>8. PullInv'
    <2>1. \A k \in DOMAIN pulls : PulledFunction(k)' = PulledFunction(k)
      BY <1>3, <1>6 DEF PulledFunction, MovedOne
    <2>2. \A k : k = Len(pulls) + 1 => PulledFunction(k)' = tree.decls[f][i]
      BY <1>3, <1>6 DEF PulledFunction, MovedOne
    <2>3. \A k \in DOMAIN pulls : PulledFunction(k).name # n
      BY <1>3 DEF MovedOne, IInv, HaveInv, PulledNames
    <2>4. ASSUME NEW k \in DOMAIN pulls'
          PROVE  /\ pulls'[k].function \in FunctionsOf(pulls[k].from)'
                 /\ pulls'[k].globals \subseteq GlobalsOf(pulls[k].from)'
                 /\ Single(PulledFunction(k).name)'
                 /\ CallsOf(PulledFunction(k).name)' = ToSet(PulledFunction(k).calls)'
      <3>1. CASE k \in DOMAIN pulls
        BY <1>3, <1>6, <2>1, <3>1, FactsFixed DEF MovedOne, IInv, PullInv
      <3>2. CASE k = Len(pulls) + 1
        BY <1>3, <1>6, <2>2, <3>2, FactsFixed DEF MovedOne
      <3>3. QED
        BY <1>3, <3>1, <3>2 DEF MovedOne
    <2>5. \A k, l \in DOMAIN pulls' :
            PulledFunction(k)'.name = PulledFunction(l)'.name => k = l
      BY <1>3, <2>1, <2>2, <2>3 DEF MovedOne, IInv, PullInv
    <2>6. QED
      BY <2>4, <2>5 DEF PullInv
  <1>9. BorrowInv'
    BY <1>3, <1>6 DEF MovedOne, IInv, BorrowInv
  <1>10. StackInv'
    <2>1. ToSet(wanted') \subseteq Asked'
      BY <1>1, <1>3, <1>5 DEF MovedOne, IInv, StackInv
    <2>2. \A m \in Asked' : m \in have' \/ m \in ToSet(wanted') \/ ~(Single(m) \/ Rival(m))
      BY <1>1, <1>3, <1>5 DEF MovedOne, IInv, StackInv
    <2>3. QED
      BY <1>6, <2>1, <2>2, FactsFixed DEF StackInv
  <1>11. QED
    BY <1>7, <1>8, <1>9, <1>10 DEF IInv

\* Every step of the search keeps the invariant.
LEMMA NextInv == IInv /\ [Next]_vars => IInv'
  <1> SUFFICES ASSUME IInv, [Next]_vars PROVE IInv'
    OBVIOUS
  <1>1. TypeOK'
    BY NextType DEF IInv
  <1>2. CASE pc = "resolving" /\ Search
    BY <1>1, <1>2, PassInv, ClashInv, PullStepInv DEF Search
  <1>3. CASE (pc = "resolving" /\ Finish) \/ UNCHANGED vars
    <2>1. UNCHANGED <<tree, have, wanted, pulls, used, borrowed, clashed>>
      BY <1>3 DEF Finish, vars
    <2>2. \A k : PulledFunction(k)' = PulledFunction(k)
      BY <2>1 DEF PulledFunction
    <2>3. PulledNames' = PulledNames
      BY <2>1, <2>2 DEF PulledNames
    <2>4. HaveInv'
      BY <2>1, <2>3, FactsFixed, AskedAfter DEF IInv, HaveInv, Asked
    <2>5. PullInv' /\ BorrowInv'
      BY <2>1, <2>2, FactsFixed DEF IInv, PullInv, BorrowInv
    <2>6. StackInv'
      BY <1>3, <2>1, <2>3, FactsFixed, AskedAfter DEF IInv, StackInv, Finish, vars, Asked
    <2>7. QED
      BY <1>1, <2>4, <2>5, <2>6 DEF IInv
  <1>4. QED
    BY <1>2, <1>3 DEF Next

\* The invariant that ties the stack to the names still missing is kept.
THEOREM InductiveInvariant == Spec => []IInv
  <1>1. QED
    BY InitInv, NextInv, PTL DEF Spec

-------------------------------------------------------------------------------
(***************************************************************************)
(* What the search delivers.                                               *)
(***************************************************************************)

\* Nothing arrives that was not asked for (CROSSFILE.md rule 2), at any moment
\* of the search.
THEOREM NothingUnasked == Spec => []OnlyWhatIsNeeded
  <1>1. IInv => OnlyWhatIsNeeded
    <2> SUFFICES ASSUME IInv PROVE OnlyWhatIsNeeded
      OBVIOUS
    <2>1. \A n \in PulledNames : Single(n)
      BY DEF IInv, PullInv, PulledNames
    <2>2. \A n \in PulledNames : n \in have /\ n \notin Own
      BY <2>1 DEF IInv, HaveInv, Single, Searched
    <2>3. QED
      BY <2>1, <2>2 DEF IInv, HaveInv, PullInv, OnlyWhatIsNeeded
  <1>2. QED
    BY <1>1, InductiveInvariant, PTL

\* A recorded move comes from another file and has a place in the list of moves.
LEMMA PullType ==
  ASSUME TypeOK, NEW k \in DOMAIN pulls
  PROVE  /\ pulls[k].from \in Companions
         /\ k \in Nat /\ k >= 1 /\ DOMAIN pulls = 1..Len(pulls) /\ Len(pulls) \in Nat
  <1> DEFINE P == [from: Companions, function: Nat, globals: SUBSET Nat]
  <1>1. pulls \in Seq(P)
    BY DEF TypeOK
  <1>2. DOMAIN pulls = 1..Len(pulls) /\ Len(pulls) \in Nat
    BY <1>1, LenProperties
  <1>3. pulls[k] \in P
    BY <1>1, <1>2, ElementOfSeq
  <1>4. QED
    BY <1>2, <1>3

\* With the stack empty, the settled names and those nothing has to be done
\* about form a closed set, so they include every needed name.
LEMMA SettledIsClosed ==
  ASSUME IInv, wanted = <<>>
  PROVE  \A n \in Needed : n \in have \/ ~(Single(n) \/ Rival(n))
  <1> DEFINE H == {n \in Names : n \in have \/ ~(Single(n) \/ Rival(n))}
  <1>1. ToSet(wanted) = {}
    BY DEF ToSet
  <1>2. ToSet(tree.called) \subseteq H
    <2>1. ToSet(tree.called) \subseteq Names
      BY TreeType, ToSetType DEF IInv, TypeOK
    <2>2. QED
      BY <1>1, <2>1 DEF IInv, StackInv, Asked
  <1>3. ASSUME NEW n \in H, Single(n)
        PROVE  CallsOf(n) \subseteq H
    <2>1. n \in PulledNames
      BY <1>3, SingleNotRival DEF IInv, HaveInv, Single, Searched
    <2>2. QED
      BY <1>1, <2>1, CallsType DEF IInv, TypeOK, StackInv, Asked
  <1>4. Closed(H)
    BY <1>2, <1>3 DEF Closed
  <1>5. Needed \subseteq H
    BY <1>4, NeededLeast
  <1>6. QED
    BY <1>5

\* When the search ends, everything needed that one file alone defines has been
\* moved in: the outcome is the least closed set, whatever order the stack took.
THEOREM NothingMissing == Spec => []AllThatIsNeeded
  <1>1. IInv => AllThatIsNeeded
    <2> SUFFICES ASSUME IInv, pc # "resolving", NEW n \in Needed, Single(n)
                 PROVE  n \in PulledNames
      BY DEF AllThatIsNeeded
    <2>1. n \in have
      BY SettledIsClosed DEF IInv, StackInv
    <2>2. n \notin Own /\ ~Rival(n)
      BY SingleNotRival DEF Single, Searched
    <2>3. QED
      BY <2>1, <2>2 DEF IInv, HaveInv
  <1>2. QED
    BY <1>1, InductiveInvariant, PTL

\* The program is refused exactly for a needed name two other files define
\* (CROSSFILE.md rule 3).
THEOREM RefusalExact == Spec => []RefusedForRivals
  <1>1. IInv => RefusedForRivals
    <2> SUFFICES ASSUME IInv, pc # "resolving"
                 PROVE  pc = "refused" <=> \E n \in Needed : Rival(n)
      BY DEF RefusedForRivals
    <2>1. pc = "refused" <=> \E n \in have : Rival(n)
      BY DEF IInv, HaveInv, StackInv, TypeOK
    <2>2. ASSUME NEW n \in have, Rival(n) PROVE n \in Needed
      BY <2>2, AskedOfInv DEF IInv, HaveInv, Rival, Searched
    <2>3. ASSUME NEW n \in Needed, Rival(n) PROVE n \in have
      BY <2>3, SettledIsClosed DEF IInv, StackInv
    <2>4. QED
      BY <2>1, <2>2, <2>3
  <1>2. QED
    BY <1>1, InductiveInvariant, PTL

\* Rules 2 and 3 in every project: what is brought in depends on the files alone.
THEOREM SearchExact == Spec => []SearchIsExact
  <1>1. OnlyWhatIsNeeded /\ AllThatIsNeeded /\ RefusedForRivals => SearchIsExact
    BY DEF SearchIsExact
  <1>2. QED
    BY <1>1, NothingUnasked, NothingMissing, RefusalExact, PTL

-------------------------------------------------------------------------------
\* A function's globals are there when it arrives and none moves twice
\* (CROSSFILE.md rule 1, for what a body mentions directly).
THEOREM GlobalsPrecede == Spec => []GlobalsArriveWithReaders
  <1> DEFINE G == GlobalsArriveWithReaders
  <1>1. Init => G
    BY DEF Init, GlobalsArriveWithReaders
  <1>2. ASSUME IInv, IInv', G, [Next]_vars
        PROVE  G'
    <2>1. CASE UNCHANGED <<tree, pulls>>
      BY <1>2, <2>1 DEF GlobalsArriveWithReaders, GlobalsOf, PulledFunction, Mentions
    <2>2. CASE wanted # <<>> /\ Pull(Last(wanted))
      <3> DEFINE n == Last(wanted)
                 new == Len(pulls) + 1
      <3>1. PICK f \in Companions : \E i \in FunctionsOf(f) : MovedOne(n, f, i)
        BY <1>2, <2>2, PullMovesOne
      <3>2. PICK i \in FunctionsOf(f) : MovedOne(n, f, i)
        BY <3>1
      <3>3. tree' = tree
        BY <3>2 DEF MovedOne
      <3>4. DOMAIN pulls = 1..Len(pulls) /\ Len(pulls) \in Nat
        BY <1>2, LenProperties DEF IInv, TypeOK
      <3>5. /\ DOMAIN pulls' = DOMAIN pulls \cup {new}
            /\ \A k \in DOMAIN pulls : pulls'[k] = pulls[k] /\ k # new
            /\ pulls'[new] = [from |-> f, function |-> i, globals |-> Released(f, i)]
        BY <3>2 DEF MovedOne
      <3>6. ASSUME NEW k \in DOMAIN pulls', NEW g \in GlobalsOf(pulls[k].from)',
                   (tree.decls[pulls[k].from][g].name \in Mentions(PulledFunction(k)))'
            PROVE  \E l \in 1..k : pulls'[l].from = pulls'[k].from /\ g \in pulls'[l].globals
        <4>1. CASE k \in DOMAIN pulls
          <5>1. pulls'[k] = pulls[k] /\ g \in GlobalsOf(pulls[k].from)
            BY <3>3, <3>5, <4>1, <3>6 DEF GlobalsOf
          <5>2. tree.decls[pulls[k].from][g].name \in Mentions(PulledFunction(k))
            BY <3>3, <3>5, <3>6, <4>1 DEF PulledFunction, Mentions
          <5>3. PICK l \in 1..k : pulls[l].from = pulls[k].from /\ g \in pulls[l].globals
            BY <1>2, <4>1, <5>1, <5>2 DEF GlobalsArriveWithReaders
          <5>4. l \in DOMAIN pulls
            BY <3>4, <4>1
          <5>5. QED
            BY <3>5, <5>1, <5>3, <5>4
        <4>2. CASE k = new
          <5>1. /\ pulls'[k] = [from |-> f, function |-> i, globals |-> Released(f, i)]
                /\ g \in GlobalsOf(f)
            BY <3>3, <3>5, <4>2, <3>6 DEF GlobalsOf
          <5>2. tree.decls[f][g].name \in Mentions(tree.decls[f][i])
            BY <3>3, <3>6, <5>1 DEF PulledFunction, Mentions
          <5>3. CASE Moved(f, g)
            <6>1. PICK l \in DOMAIN pulls :
                    pulls[l].from = f /\ (g = pulls[l].function \/ g \in pulls[l].globals)
              BY <5>3 DEF Moved
            <6>2. g \in pulls[l].globals
              BY <1>2, <5>1, <6>1 DEF IInv, PullInv, FunctionsOf, GlobalsOf
            <6>3. l \in 1..k /\ pulls'[l] = pulls[l]
              BY <3>4, <3>5, <4>2, <6>1
            <6>4. QED
              BY <5>1, <6>1, <6>2, <6>3
          <5>4. CASE ~Moved(f, g)
            <6>1. g \in Released(f, i)
              BY <5>1, <5>2, <5>4 DEF Released
            <6>2. k \in 1..k
              BY <3>4, <4>2
            <6>3. QED
              BY <5>1, <6>1, <6>2
          <5>5. QED
            BY <5>3, <5>4
        <4>3. QED
          BY <3>5, <4>1, <4>2
      <3>7. ASSUME NEW k \in DOMAIN pulls', NEW l \in 1..(k - 1), pulls'[l].from = pulls'[k].from
            PROVE  pulls'[l].globals \cap pulls'[k].globals = {}
        <4>1. l \in DOMAIN pulls /\ pulls'[l] = pulls[l]
          BY <3>4, <3>5, <3>7
        <4>2. CASE k \in DOMAIN pulls
          BY <1>2, <3>5, <3>7, <4>1, <4>2 DEF GlobalsArriveWithReaders
        <4>3. CASE k = new
          <5>1. pulls'[k].from = f /\ pulls'[k].globals = Released(f, i)
            BY <3>5, <4>3
          <5>2. \A g \in pulls[l].globals : Moved(f, g)
            BY <3>7, <4>1, <5>1 DEF Moved
          <5>3. QED
            BY <4>1, <5>1, <5>2 DEF Released
        <4>4. QED
          BY <3>5, <4>2, <4>3
      <3>8. QED
        BY <3>6, <3>7 DEF GlobalsArriveWithReaders
    <2>3. QED
      BY <1>2, <2>1, <2>2 DEF Next, Search, Finish, Pass, Clash, vars
  <1>3. QED
    BY <1>1, <1>2, InductiveInvariant, PTL DEF Spec

-------------------------------------------------------------------------------
(***************************************************************************)
(* The search implements Closure.                                          *)
(***************************************************************************)

\* The names the search asks for are those the closure promises.
LEMMA AskedIsPromised ==
  ASSUME IInv
  PROVE  Promise!AskedFor = Asked
  BY DEF Promise!AskedFor, Asked, IInv, HaveInv, Needed

\* Every step of the search is an arrival that was asked for, the verdict, or
\* invisible to CROSSFILE.md's rules (the safety part of ImplementsClosure).
THEOREM RefinesClosure == Spec => Promise!Init /\ [][Promise!Next]_(Promise!vars)
  <1>1. Init => Promise!Init
    <2> SUFFICES ASSUME Init PROVE Promise!Init
      OBVIOUS
    <2>1. tree \in Tree
      BY InitType DEF TypeOK
    <2>2. ToSet(tree.called) \subseteq Names
      BY <2>1, TreeType, ToSetType
    <2>3. [n \in Names |-> CallsOf(n)] \in [Names -> SUBSET Names]
      BY <2>1, CallsType
    <2>4. \A n : ~(Single(n) /\ Rival(n))
      BY SingleNotRival
    <2>5. PulledNames = {} /\ pc = "resolving"
      BY DEF Init, PulledNames
    <2>6. QED
      BY <2>2, <2>3, <2>4, <2>5 DEF Promise!Init
  <1>2. ASSUME IInv, IInv', [Next]_vars
        PROVE  [Promise!Next]_(Promise!vars)
    <2>1. CASE UNCHANGED <<tree, pulls, pc>>
      <3>1. PulledNames' = PulledNames
        BY <2>1 DEF PulledNames, PulledFunction
      <3>2. QED
        BY <2>1, <3>1, FactsFixed DEF Promise!vars, Promise!facts
    <2>2. CASE pc = "resolving" /\ wanted # <<>> /\ Pull(Last(wanted))
      <3> DEFINE n == Last(wanted)
      <3>1. n \in Names /\ n \in ToSet(wanted)
        BY <1>2, <2>2, PopProperties DEF IInv, TypeOK
      <3>2. PICK f \in Companions : \E i \in FunctionsOf(f) : MovedOne(n, f, i)
        BY <1>2, <2>2, PullMovesOne
      <3>3. PICK i \in FunctionsOf(f) : MovedOne(n, f, i)
        BY <3>2
      <3>4. /\ tree' = tree /\ pc' = pc
            /\ PulledNames' = PulledNames \cup {n}
            /\ Single(n) /\ n \notin PulledNames
        BY <1>2, <3>3 DEF MovedOne, IInv, HaveInv
      <3>5. n \in Promise!AskedFor
        BY <1>2, <3>1, AskedIsPromised DEF IInv, StackInv
      <3>6. Promise!Arrive(n)
        BY <2>2, <3>1, <3>4, <3>5, FactsFixed DEF Promise!Arrive, Promise!facts
      <3>7. QED
        BY <3>1, <3>6 DEF Promise!Next
    <2>3. CASE pc = "resolving" /\ Finish
      <3>1. PulledNames' = PulledNames /\ tree' = tree
        BY <2>3 DEF Finish, PulledNames, PulledFunction
      <3>2. \A n \in Asked : n \in have \/ ~(Single(n) \/ Rival(n))
        BY <1>2, <2>3 DEF Finish, IInv, StackInv, ToSet
      <3>3. \A n \in Asked : Single(n) => n \in PulledNames
        BY <1>2, <3>2, SingleNotRival DEF IInv, HaveInv, Single, Searched
      <3>4. clashed <=> \E n \in Asked : Rival(n)
        BY <1>2, <3>2 DEF IInv, HaveInv, Rival, Searched
      <3>5. Asked \subseteq Names
        BY <1>2, AskedOfInv DEF Needed
      <3>6. Promise!AskedFor = Asked
        BY <1>2, AskedIsPromised
      <3>7. Promise!Settle
        <4>1. Promise!AskedFor \cap {n \in Names : Single(n)} \subseteq PulledNames
          BY <3>3, <3>6
        <4>2. (Promise!AskedFor \cap {n \in Names : Rival(n)} = {}) <=> ~clashed
          BY <3>4, <3>5, <3>6
        <4>3. pc' = IF clashed THEN "refused" ELSE "resolved"
          BY <2>3 DEF Finish
        <4>4. QED
          BY <2>3, <3>1, <4>1, <4>2, <4>3, FactsFixed DEF Promise!Settle, Promise!facts
      <3>8. QED
        BY <3>7 DEF Promise!Next
    <2>4. QED
      BY <1>2, <2>1, <2>2, <2>3 DEF Next, Search, Finish, Pass, Clash, vars
  <1>3. QED
    BY <1>1, <1>2, InductiveInvariant, PTL DEF Spec

-------------------------------------------------------------------------------
(***************************************************************************)
(* The inductive invariant, beside that of the search.                     *)
(***************************************************************************)

Entry(f, i) == [file |-> f, at |-> i]

Entries == {e \in [file: Files, at: Nat] : e.at \in DOMAIN tree.decls[e.file]}

\* The main file's declarations come first; every move is in the order, a function
\* behind the globals of its own move and of all moves before.
OrderInv ==
  /\ tree \in Trees
  /\ order \in Seq(Entries)
  /\ \A i, j \in DOMAIN order : i < j /\ order[j].file = MainFile => order[i].file = MainFile
  /\ \A k \in DOMAIN pulls :
       /\ \E i \in DOMAIN order : order[i] = Entry(pulls[k].from, pulls[k].function)
       /\ \A g \in pulls[k].globals : \E i \in DOMAIN order : order[i] = Entry(pulls[k].from, g)
  /\ \A i \in ProgramFunctions : order[i].file # MainFile =>
       \E k \in DOMAIN pulls :
         /\ order[i] = Entry(pulls[k].from, pulls[k].function)
         /\ \A l \in 1..k : \A g \in pulls[l].globals :
              \E j \in 1..(i - 1) : order[j] = Entry(pulls[l].from, g)

Unchecked == {"resolving", "refused", "surveying"}

Stages == Unchecked \cup {"checking", "rejected", "starting", "running", "ended",
                          "deep", "undefined"}

StageInv ==
  /\ stage \in Stages
  /\ stage = "resolving" <=> pc = "resolving"
  /\ at \in 0..Len(order)
  /\ stage \in Unchecked => at = 0 /\ visible = <<>> /\ bound = {} /\ errors = {}
  /\ accepted => at = Len(order) /\ errors = {}
  /\ stage \in Unchecked \cup {"checking", "rejected"} =>
       begun = 0 /\ made = 0 /\ stack = <<>>

\* What the walk has behind it.  Without an error a name stands for its only global.
CheckInv ==
  /\ \A n \in DOMAIN visible : visible[n] \in ProgramGlobals /\ visible[n] <= at
  /\ \A j \in ProgramGlobals : j <= at =>
       /\ Decl(j).name \in DOMAIN visible
       /\ errors = {} => visible[Decl(j).name] = j
  /\ \A b \in bound : b.by \in 1..at /\ b.to \in ProgramGlobals /\ b.to < b.by
  /\ \A e \in errors : e.by \in 0..at
  /\ \A e \in errors : e.kind = "unknown" =>
       e.by \in 1..at /\ e.name \in ToSet(Decl(e.by).calls) /\ FunctionsNamed(e.name) = {}
  /\ \A i \in 1..at : \A j \in ProgramGlobals :
       j < i /\ Decl(j).name \in Decl(i).reads \cup Decl(i).writes =>
         /\ errors = {} => [by |-> i, name |-> Decl(j).name, to |-> j] \in bound
         /\ \A e \in errors : ~(e.kind = "undefined" /\ e.by = i /\ e.name = Decl(j).name)

\* While globals are being made every body that runs has the check; main runs once
\* all are.
RunInv ==
  /\ ~garbage
  /\ begun \in Nat /\ made \in Nat
  /\ stack \in Seq(DOMAIN order)
  /\ stage = "starting" /\ stack = <<>> => begun = made
  /\ stage = "starting" /\ stack # <<>> =>
       /\ stack[1] = begun /\ begun \in ProgramGlobals /\ made < begun
       /\ \A k \in DOMAIN stack : Guarded(stack[k])
  /\ stage = "running" => \A i \in ProgramGlobals : i <= made
  /\ stage = "undefined" => stack[1] \in ProgramGlobals

-------------------------------------------------------------------------------
(***************************************************************************)
(* The program.                                                            *)
(***************************************************************************)

\* A declaration in the order has the shape of one.
LEMMA DeclType ==
  ASSUME TypeOK, order \in Seq(Entries), NEW i \in DOMAIN order
  PROVE  /\ i \in 1..Len(order) /\ Len(order) \in Nat /\ order[i] \in Entries
         /\ Decl(i) \in Declaration
         /\ i \in ProgramFunctions <=> i \notin ProgramGlobals
         /\ ToSet(Decl(i).calls) \subseteq Names
<1>1. i \in 1..Len(order) /\ Len(order) \in Nat /\ order[i] \in Entries
  BY LenProperties, ElementOfSeq
<1>2. Decl(i) \in Declaration
  BY <1>1, TreeType DEF Decl, Entries, TypeOK
<1>3. i \in ProgramFunctions <=> i \notin ProgramGlobals
  BY <1>2 DEF ProgramFunctions, ProgramGlobals, Declaration
<1>4. Decl(i).calls \in Seq(Names)
  BY <1>2 DEF Declaration
<1> QED BY <1>1, <1>2, <1>3, <1>4, ToSetType

\* What the move of a function with the globals G of its file adds to the order.
Lengthened(longer, E, o, G, f, last) ==
  /\ longer \in Seq(E)
  /\ Len(o) \in Nat /\ Len(longer) \in Nat /\ Len(longer) > Len(o)
  /\ \A i \in 1..Len(o) : longer[i] = o[i]
  /\ longer[Len(longer)] = last
  /\ \A i \in 1..Len(longer) :
       i \in 1..Len(o) \/ i = Len(longer) \/ \E g \in G : longer[i] = Entry(f, g)
  /\ \A g \in G : \E i \in 1..(Len(longer) - 1) : longer[i] = Entry(f, g)

\* A move lengthens the order by the globals it brings, by position, and then the function.
LEMMA Arrival ==
  ASSUME NEW E, NEW o \in Seq(E), NEW G, G \subseteq Nat, IsFiniteSet(G),
         NEW s \in [1..Cardinality(G) -> G], \A i, j \in DOMAIN s : i < j => s[i] < s[j],
         NEW f, NEW last \in E, NEW added \in Seq(E), DOMAIN added = DOMAIN s,
         \A i \in DOMAIN s : added[i] = Entry(f, s[i]),
         NEW longer, longer = o \o added \o <<last>>
  PROVE  Lengthened(longer, E, o, G, f, last)
<1> DEFINE c == Cardinality(G)
<1>1. c \in Nat /\ DOMAIN s = 1..c
  BY FS_CardinalityType
<1>2. Len(added) = c
  <2>1. Len(added) \in Nat /\ DOMAIN added = 1..Len(added)
    BY LenProperties
  <2> HIDE DEF c
  <2> QED BY <1>1, <2>1
<1>3. \A g \in G : \E i \in 1..c : s[i] = g
  <2>1. \A i, j \in 1..c : s[i] = s[j] => i = j
    <3>1. \A i, j \in 1..c : i < j => s[i] < s[j]
      BY <1>1
    <3>2. \A i \in 1..c : s[i] \in Nat
      BY <1>1
    <3> HIDE DEF c
    <3> QED BY <1>1, <3>1, <3>2
  <2>2. s \in Injection(1..c, G)
    BY <1>1, <2>1, Fun_IsInj
  <2>3. Cardinality(1..c) = c
    BY <1>1, FS_Interval
  <2>4. s \in Surjection(1..c, G)
    BY <2>2, <2>3, FS_Injection
  <2> QED BY <2>4 DEF Surjection
<1> HIDE DEF c
<1>4. \A i \in 1..c : added[i] = Entry(f, s[i]) /\ s[i] \in G
  BY <1>1
<1>5. Len(o) \in Nat
  BY LenProperties
<1>6. /\ longer \in Seq(E) /\ Len(longer) = Len(o) + c + 1
      /\ \A i \in 1..Len(o) : longer[i] = o[i]
      /\ \A i \in 1..c : longer[Len(o) + i] = added[i]
      /\ longer[Len(longer)] = last
  <2> DEFINE both == o \o added
  <2>1. /\ both \in Seq(E) /\ Len(both) = Len(o) + c
        /\ \A i \in 1..Len(o) + c : both[i] = IF i <= Len(o) THEN o[i] ELSE added[i - Len(o)]
    BY <1>2, ConcatProperties
  <2>2. longer = both \o <<last>>
    OBVIOUS
  <2> HIDE DEF both
  <2>3. longer = Append(both, last)
    BY <2>1, <2>2, AppendIsConcat
  <2>4. /\ longer \in Seq(E) /\ Len(longer) = Len(o) + c + 1
        /\ \A i \in 1..Len(o) + c : longer[i] = both[i]
        /\ longer[Len(o) + c + 1] = last
    <3>1. /\ Append(both, last) \in Seq(E) /\ Len(Append(both, last)) = Len(both) + 1
          /\ \A i \in 1..Len(both) : Append(both, last)[i] = both[i]
          /\ Append(both, last)[Len(both) + 1] = last
      BY <2>1, AppendProperties
    <3>2. Len(both) = Len(o) + c
      BY <2>1
    <3> QED BY <2>3, <3>1, <3>2, Zenon
  <2>5. ASSUME NEW i \in 1..c PROVE longer[Len(o) + i] = added[i]
    <3>1. Len(o) + i \in 1..(Len(o) + c) /\ ~(Len(o) + i <= Len(o)) /\ (Len(o) + i) - Len(o) = i
      BY <1>1, <1>5
    <3> QED BY <2>1, <2>4, <3>1
  <2>6. ASSUME NEW i \in 1..Len(o) PROVE longer[i] = o[i]
    <3>1. i \in 1..(Len(o) + c) /\ i <= Len(o)
      BY <1>1, <1>5
    <3> QED BY <2>1, <2>4, <3>1
  <2>7. longer[Len(longer)] = last
    BY <2>4, Zenon
  <2> QED BY <2>4, <2>5, <2>6, <2>7, Zenon
<1>7. ASSUME NEW i \in 1..Len(longer), i \notin 1..Len(o), i # Len(longer)
      PROVE  \E g \in G : longer[i] = Entry(f, g)
  <2>1. i - Len(o) \in 1..c /\ i = Len(o) + (i - Len(o))
    BY <1>1, <1>5, <1>6, <1>7
  <2> QED BY <1>4, <1>6, <2>1
<1>8. ASSUME NEW g \in G
      PROVE  \E i \in 1..(Len(longer) - 1) : longer[i] = Entry(f, g)
  <2>1. PICK i \in 1..c : s[i] = g
    BY <1>3
  <2>2. Len(o) + i \in 1..(Len(longer) - 1)
    BY <1>1, <1>5, <1>6
  <2>3. longer[Len(o) + i] = Entry(f, g)
    BY <1>4, <1>6, <2>1
  <2> QED BY <2>2, <2>3
<1>9. Len(longer) \in Nat /\ Len(longer) > Len(o)
  BY <1>1, <1>5, <1>6
<1> QED BY <1>5, <1>6, <1>7, <1>8, <1>9, Zenon DEF Lengthened

\* What is said of the program stays so while its order does.
LEMMA SameProgram ==
  ASSUME UNCHANGED <<tree, order>>
  PROVE  /\ \A i : Decl(i)' = Decl(i)
         /\ ProgramFunctions' = ProgramFunctions /\ ProgramGlobals' = ProgramGlobals
         /\ \A n : FunctionsNamed(n)' = FunctionsNamed(n)
         /\ \A i : Guarded(i)' <=> Guarded(i)
         /\ Entries' = Entries
<1>1. /\ \A i : Decl(i)' = Decl(i)
      /\ ProgramFunctions' = ProgramFunctions /\ ProgramGlobals' = ProgramGlobals
  BY DEF Decl, ProgramFunctions, ProgramGlobals
<1>2. \A n : FunctionsNamed(n)' = FunctionsNamed(n)
  BY <1>1 DEF FunctionsNamed
<1>3. \A S : CallsFrom(S)' = CallsFrom(S)
  BY <1>1 DEF CallsFrom
<1>4. InitializerCanReach' = InitializerCanReach
  BY <1>1, <1>2, <1>3 DEF InitializerCanReach
<1>5. \A i : Guarded(i)' <=> Guarded(i)
  BY <1>1, <1>4 DEF Guarded
<1>6. Entries' = Entries
  BY DEF Entries
<1> QED BY <1>1, <1>2, <1>5, <1>6

\* A guarded body calls guarded bodies, in whichever files.
LEMMA GuardedCallsGuarded ==
  ASSUME TypeOK, order \in Seq(Entries), NEW i \in DOMAIN order, Guarded(i),
         NEW n \in ToSet(Decl(i).calls), NEW j \in FunctionsNamed(n)
  PROVE  Guarded(j)
<1>1. n \in Names /\ Decl(j).name = n
  BY DeclType DEF FunctionsNamed
<1>2. ASSUME NEW S \in SUBSET Names,
             CallsFrom(ProgramGlobals) \subseteq S,
             \A m \in S : CallsFrom(FunctionsNamed(m)) \subseteq S
      PROVE  n \in S
  <2>1. CASE i \in ProgramGlobals
    BY <1>2, <2>1 DEF CallsFrom
  <2>2. CASE i \notin ProgramGlobals
    <3>1. i \in FunctionsNamed(Decl(i).name)
      BY <2>2, DeclType DEF FunctionsNamed
    <3>2. Decl(i).name \in S
      BY <1>2, <2>2 DEF Guarded, InitializerCanReach
    <3> QED BY <1>2, <3>1, <3>2 DEF CallsFrom
  <2> QED BY <2>1, <2>2
<1>3. n \in InitializerCanReach
  BY <1>1, <1>2 DEF InitializerCanReach
<1> QED BY <1>1, <1>3 DEF Guarded

-------------------------------------------------------------------------------
(***************************************************************************)
(* The order of the program.                                               *)
(***************************************************************************)

\* A step of the search leaves the files alone and moves one function at most.
LEMMA NextMoves ==
  ASSUME Next
  PROVE  tree' = tree /\ (pulls' = pulls \/ \E p : pulls' = Append(pulls, p))
  BY DEF Next, Search, Pass, Clash, Pull, Finish, vars

\* A step of the search puts what it moves where OrderInv wants it.
LEMMA ResolveOrders ==
  ASSUME IInv, IInv', OrderInv, Resolve
  PROVE  OrderInv' /\ Len(order') \in Nat /\ tree' = tree
<1>1. tree' = tree /\ (pulls' = pulls \/ \E p : pulls' = Append(pulls, p))
  BY NextMoves DEF Resolve
<1>2. CASE pulls' = pulls
  <2>1. order' = order
    BY <1>2 DEF Resolve
  <2>2. ProgramFunctions' = ProgramFunctions /\ Entries' = Entries
    BY <1>1, <2>1, SameProgram
  <2> QED BY <1>1, <1>2, <2>1, <2>2, LenProperties DEF OrderInv
<1>3. CASE pulls' # pulls
  <2> PICK p : pulls' = Append(pulls, p)
    BY <1>1, <1>3
  <2> DEFINE new == Len(pulls) + 1
             last == Entry(p.from, p.function)
  <2>1. /\ new \in DOMAIN pulls' /\ DOMAIN pulls' = 1..new /\ new \in Nat
        /\ DOMAIN pulls = 1..Len(pulls)
        /\ \A k \in DOMAIN pulls : k \in DOMAIN pulls' /\ pulls'[k] = pulls[k]
        /\ pulls'[new] = p /\ Last(pulls') = p
    <3> DEFINE P == [from: Companions, function: Nat, globals: SUBSET Nat]
    <3>1. pulls \in Seq(P) /\ pulls' \in Seq(P)
      BY DEF IInv, TypeOK
    <3> HIDE DEF P
    <3>2. /\ Len(pulls) \in Nat /\ DOMAIN pulls = 1..Len(pulls)
          /\ DOMAIN pulls' = 1..Len(pulls') /\ Len(pulls') = new
          /\ \A k \in 1..Len(pulls) : pulls'[k] = pulls[k]
          /\ pulls'[new] = p
      BY <3>1, LenProperties
    <3> QED BY <3>2 DEF Last
  <2>2. /\ p.from \in Companions
        /\ p.function \in FunctionsOf(p.from) /\ p.globals \subseteq GlobalsOf(p.from)
    <3>1. p.from \in Companions
      <4>1. pulls' \in Seq([from: Companions, function: Nat, globals: SUBSET Nat])
        BY DEF IInv, TypeOK
      <4>2. p \in [from: Companions, function: Nat, globals: SUBSET Nat]
        BY <2>1, <4>1
      <4> QED BY <4>2
    <3>2. p.function \in FunctionsOf(p.from)' /\ p.globals \subseteq GlobalsOf(p.from)'
      <4>1. \A k \in DOMAIN pulls' :
              /\ pulls'[k].function \in FunctionsOf(pulls[k].from)'
              /\ pulls'[k].globals \subseteq GlobalsOf(pulls[k].from)'
        BY DEF IInv, PullInv
      <4> QED BY <2>1, <4>1 DEF FunctionsOf, GlobalsOf
    <3> QED BY <1>1, <3>1, <3>2 DEF FunctionsOf, GlobalsOf
  <2>3. /\ Companions \subseteq Files /\ MainFile \notin Companions
        /\ tree.decls[p.from] \in Seq(Declaration)
        /\ DOMAIN tree.decls[p.from] = 1..Len(tree.decls[p.from]) /\ Len(tree.decls[p.from]) \in Nat
    BY <2>2, TreeType, ResolverAssumption, LenProperties DEF IInv, TypeOK
  <2>4. last \in Entries /\ \A g \in p.globals : Entry(p.from, g) \in Entries
    BY <2>2, <2>3 DEF Entry, Entries, FunctionsOf, GlobalsOf
  <2>5. p.globals \subseteq Nat /\ IsFiniteSet(p.globals)
    <3>1. p.globals \subseteq 1..Len(tree.decls[p.from])
      BY <2>2, <2>3 DEF GlobalsOf
    <3>2. IsFiniteSet(1..Len(tree.decls[p.from]))
      BY <2>3, FS_Interval
    <3> QED BY <2>3, <3>1, <3>2, FS_Subset
  <2>6. Arrive(p)
    BY <1>3, <2>1 DEF Resolve
  <2> HIDE DEF new
  <2>7. PICK s \in [1..Cardinality(p.globals) -> p.globals] :
          /\ \A i, j \in DOMAIN s : i < j => s[i] < s[j]
          /\ order' = order \o [i \in DOMAIN s |-> Entry(p.from, s[i])] \o <<last>>
    BY <2>6 DEF Arrive, Entry
  <2>8. order \in Seq(Entries)
    BY DEF OrderInv
  <2> DEFINE added == [i \in DOMAIN s |-> Entry(p.from, s[i])]
  <2>a. added \in Seq(Entries) /\ DOMAIN added = DOMAIN s /\ \A i \in DOMAIN s : added[i] = Entry(p.from, s[i])
    <3>1. Cardinality(p.globals) \in Nat /\ DOMAIN s = 1..Cardinality(p.globals)
      BY <2>5, FS_CardinalityType
    <3>2. added \in [1..Cardinality(p.globals) -> Entries]
      BY <2>4, <3>1
    <3> QED BY <3>1, <3>2, SeqDef
  <2> HIDE DEF added
  <2>b. order' = order \o added \o <<last>>
    BY <2>7 DEF added
  <2>c. last.file = p.from /\ \A g : Entry(p.from, g).file = p.from
    BY DEF Entry
  <2> HIDE DEF last
  <2>9. /\ order' \in Seq(Entries)
        /\ Len(order) \in Nat /\ Len(order') \in Nat /\ Len(order') > Len(order)
        /\ \A i \in 1..Len(order) : order'[i] = order[i]
        /\ order'[Len(order')] = last
        /\ \A i \in 1..Len(order') :
             i \in 1..Len(order) \/ i = Len(order') \/ \E g \in p.globals : order'[i] = Entry(p.from, g)
        /\ \A g \in p.globals : \E i \in 1..(Len(order') - 1) : order'[i] = Entry(p.from, g)
    <3>1. \A i, j \in DOMAIN s : i < j => s[i] < s[j]
      BY <2>7
    <3>2. Lengthened(order', Entries, order, p.globals, p.from, last)
      BY <2>4, <2>5, <2>8, <2>a, <2>b, <3>1, Arrival
    <3> QED BY <3>2 DEF Lengthened
  <2>10. /\ DOMAIN order = 1..Len(order) /\ DOMAIN order' = 1..Len(order')
         /\ Len(order') \in DOMAIN order'
         /\ \A i \in 1..(Len(order') - 1) : i \in DOMAIN order'
         /\ \A i \in DOMAIN order :
              /\ i \in DOMAIN order' /\ i \in 1..(Len(order') - 1)
              /\ \A j \in 1..(i - 1) : j \in DOMAIN order
         /\ \A i \in DOMAIN order' : \A j \in DOMAIN order : i < j => i \in DOMAIN order
    <3>1. DOMAIN order = 1..Len(order) /\ DOMAIN order' = 1..Len(order')
      BY <2>8, <2>9, LenProperties
    <3>2. Len(order) \in Nat /\ Len(order') \in Nat /\ Len(order') > Len(order)
      BY <2>9
    <3> QED BY <3>1, <3>2
  <2>11. ASSUME NEW i \in DOMAIN order', NEW j \in DOMAIN order', i < j, order'[j].file = MainFile
         PROVE  order'[i].file = MainFile
    <3>1. j \in DOMAIN order
      BY <2>2, <2>3, <2>9, <2>10, <2>11, <2>c
    <3>2. i \in DOMAIN order
      BY <2>9, <2>10, <2>11, <3>1
    <3> QED BY <2>9, <2>10, <2>11, <3>1, <3>2 DEF OrderInv
  <2>12. ASSUME NEW k \in DOMAIN pulls'
         PROVE  /\ \E i \in DOMAIN order' : order'[i] = Entry(pulls'[k].from, pulls'[k].function)
                /\ \A g \in pulls'[k].globals :
                     \E i \in DOMAIN order' : order'[i] = Entry(pulls'[k].from, g)
    <3>1. CASE k \in DOMAIN pulls
      <4>1. \A i \in DOMAIN order : i \in DOMAIN order' /\ order'[i] = order[i]
        BY <2>9, <2>10
      <4>2. /\ \E i \in DOMAIN order : order[i] = Entry(pulls[k].from, pulls[k].function)
            /\ \A g \in pulls[k].globals :
                 \E i \in DOMAIN order : order[i] = Entry(pulls[k].from, g)
        BY <3>1 DEF OrderInv
      <4> QED BY <2>1, <3>1, <4>1, <4>2
    <3>2. CASE k = new
      <4>1. Len(order') \in DOMAIN order' /\ \A i \in 1..(Len(order') - 1) : i \in DOMAIN order'
        BY <2>9, <2>10
      <4> QED BY <2>1, <2>9, <3>2, <4>1 DEF last
    <3> QED BY <2>1, <3>1, <3>2
  <2>13. ASSUME NEW i \in ProgramFunctions', order'[i].file # MainFile
         PROVE  \E k \in DOMAIN pulls' :
                  /\ order'[i] = Entry(pulls'[k].from, pulls'[k].function)
                  /\ \A l \in 1..k : \A g \in pulls'[l].globals :
                       \E j \in 1..(i - 1) : order'[j] = Entry(pulls'[l].from, g)
    <3>1. i \in DOMAIN order' /\ tree.decls[order'[i].file][order'[i].at].kind = "function"
      BY <1>1, <2>13 DEF ProgramFunctions, Decl
    <3>2. CASE i \in DOMAIN order
      <4>1. i \in ProgramFunctions /\ order'[i] = order[i]
        BY <2>9, <2>10, <3>1, <3>2 DEF ProgramFunctions, Decl
      <4>2. PICK k \in DOMAIN pulls :
              /\ order[i] = Entry(pulls[k].from, pulls[k].function)
              /\ \A l \in 1..k : \A g \in pulls[l].globals :
                   \E j \in 1..(i - 1) : order[j] = Entry(pulls[l].from, g)
        BY <2>13, <4>1 DEF OrderInv
      <4>3. \A l \in 1..k : pulls'[l] = pulls[l]
        BY <2>1
      <4>4. \A j \in 1..(i - 1) : order'[j] = order[j]
        BY <2>9, <2>10, <3>2
      <4> QED BY <2>1, <4>1, <4>2, <4>3, <4>4
    <3>3. CASE i = Len(order')
      <4>1. order'[i] = Entry(pulls'[new].from, pulls'[new].function)
        BY <2>1, <2>9, <3>3 DEF last
      <4>2. ASSUME NEW l \in 1..new, NEW g \in pulls'[l].globals
            PROVE  \E j \in 1..(i - 1) : order'[j] = Entry(pulls'[l].from, g)
        <5>1. CASE l = new
          BY <2>1, <2>9, <3>3, <4>2, <5>1
        <5>2. CASE l # new
          <6>1. l \in DOMAIN pulls /\ pulls'[l] = pulls[l]
            BY <2>1, <5>2
          <6>2. PICK j \in DOMAIN order : order[j] = Entry(pulls[l].from, g)
            BY <4>2, <6>1 DEF OrderInv
          <6>3. j \in 1..(i - 1) /\ order'[j] = order[j]
            BY <2>9, <2>10, <3>3
          <6> QED BY <6>1, <6>2, <6>3
        <5> QED BY <5>1, <5>2
      <4> QED BY <2>1, <4>1, <4>2
    <3>4. CASE \E g \in p.globals : order'[i] = Entry(p.from, g)
      BY <2>2, <3>1, <3>4 DEF Entry, GlobalsOf
    <3> QED BY <2>9, <2>10, <3>1, <3>2, <3>3, <3>4
  <2>14. tree' \in Trees /\ Entries' = Entries
    BY <1>1 DEF OrderInv, Entries
  <2> QED BY <1>1, <2>9, <2>11, <2>12, <2>13, <2>14 DEF OrderInv
<1> QED BY <1>2, <1>3

-------------------------------------------------------------------------------
(***************************************************************************)
(* The invariant holds at the start and along the search.                  *)
(***************************************************************************)

CrossInv == IInv /\ OrderInv /\ StageInv /\ CheckInv /\ RunInv

\* Nothing is checked or run yet.
LEMMA NothingYet ==
  ASSUME order \in Seq(Entries), stage \in Unchecked,
         stage = "resolving" <=> pc = "resolving",
         at = 0, visible = <<>>, bound = {}, errors = {},
         begun = 0, made = 0, stack = <<>>, garbage = FALSE
  PROVE  StageInv /\ CheckInv /\ RunInv
<1>1. DOMAIN order = 1..Len(order) /\ Len(order) \in Nat
  BY LenProperties
<1>2. \A i \in ProgramGlobals : i >= 1 /\ i \in Nat
  BY <1>1 DEF ProgramGlobals
<1>3. StageInv
  <2>1. at \in 0..Len(order)
    BY <1>1
  <2>2. stage \in Stages /\ ~accepted
    BY DEF Unchecked, Stages, accepted
  <2> QED BY <2>1, <2>2 DEF StageInv
<1>4. CheckInv
  BY <1>2 DEF CheckInv
<1>5. stack \in Seq(DOMAIN order)
  BY EmptySeq
<1>6. RunInv
  BY <1>5 DEF RunInv, Unchecked
<1> QED BY <1>3, <1>4, <1>6

\* A program begins with nothing found, bound or run.
LEMMA CrossStart == CrossInit => CrossInv
<1> SUFFICES ASSUME CrossInit PROVE CrossInv
  OBVIOUS
<1>1. IInv /\ tree \in Trees
  BY InitInv DEF CrossInit, Init
<1>2. /\ DOMAIN tree.decls[MainFile] = 1..Len(tree.decls[MainFile])
      /\ Len(tree.decls[MainFile]) \in Nat /\ MainFile \in Files
  BY <1>1, TreeType, LenProperties DEF IInv, TypeOK
<1>3. /\ order \in [1..Len(tree.decls[MainFile]) -> Entries]
      /\ \A i \in DOMAIN order : order[i].file = MainFile
  BY <1>2 DEF CrossInit, Entries
<1>4. order \in Seq(Entries)
  BY <1>2, <1>3, SeqDef
<1>5. pulls = <<>> /\ pc = "resolving"
  BY DEF CrossInit, Init
<1>6. OrderInv
  BY <1>1, <1>3, <1>4, <1>5 DEF OrderInv, ProgramFunctions
<1>7. StageInv /\ CheckInv /\ RunInv
  BY <1>4, <1>5, NothingYet DEF CrossInit, Unchecked
<1> QED BY <1>1, <1>6, <1>7 DEF CrossInv

\* The search, on its way through a program, keeps the order of what arrived.
LEMMA ResolveKeeps ==
  ASSUME CrossInv, IInv', Resolve
  PROVE  CrossInv'
<1>1. OrderInv' /\ order' \in Seq(Entries')
  BY ResolveOrders DEF CrossInv, OrderInv
<1>2. stage' \in Unchecked /\ (stage' = "resolving" <=> pc' = "resolving")
  <2>1. pc' \in {"resolving", "resolved", "refused"}
    BY DEF IInv, TypeOK
  <2> QED BY <2>1 DEF Resolve, Unchecked
<1>3. /\ at' = 0 /\ visible' = <<>> /\ bound' = {} /\ errors' = {}
      /\ begun' = 0 /\ made' = 0 /\ stack' = <<>> /\ garbage' = FALSE
  BY DEF CrossInv, StageInv, RunInv, Resolve, Unchecked
<1>4. DOMAIN order' = 1..Len(order') /\ Len(order') \in Nat
  BY <1>1, LenProperties
<1>5. StageInv'
  <2>1. at' \in 0..Len(order')
    BY <1>3, <1>4
  <2>2. stage' \in Stages /\ ~accepted'
    BY <1>2 DEF Unchecked, Stages, accepted
  <2> QED BY <1>2, <1>3, <2>1, <2>2 DEF StageInv
<1>6. CheckInv'
  <2>1. \A i \in ProgramGlobals' : i >= 1 /\ i \in Nat
    BY <1>4 DEF ProgramGlobals
  <2> QED BY <1>3, <2>1 DEF CheckInv
<1>7. RunInv'
  <2>1. stack' \in Seq(DOMAIN order')
    BY <1>3, EmptySeq
  <2> QED BY <1>2, <1>3, <2>1 DEF RunInv, Unchecked
<1> QED BY <1>1, <1>5, <1>6, <1>7 DEF CrossInv

-------------------------------------------------------------------------------
(***************************************************************************)
(* The checker.                                                            *)
(***************************************************************************)

\* A report is of its kind, by its file and about one of its names.
LEMMA Reported ==
  ASSUME NEW kind, NEW i, NEW names, NEW e \in Report(kind, i, names)
  PROVE  e.kind = kind /\ e.by = i /\ e.name \in names
  BY DEF Report

\* After the search the order and what the search holds stay.
LEMMA OrderStays ==
  ASSUME CrossInv, UNCHANGED <<resolverVars, order>>
  PROVE  OrderInv' /\ UNCHANGED <<tree, order, pc>>
<1>1. UNCHANGED <<tree, order, pulls, pc>>
  BY DEF resolverVars, vars
<1>2. OrderInv'
  BY <1>1, SameProgram DEF CrossInv, OrderInv
<1> QED BY <1>1, <1>2

\* A step that is not the checker's keeps what the checker found.
LEMMA CheckStays ==
  ASSUME CrossInv, UNCHANGED <<tree, order, at, visible, bound, errors>>
  PROVE  CheckInv'
  BY SameProgram DEF CrossInv, CheckInv

\* Looking over the names of the program binds none of them.
LEMMA SurveyKeeps ==
  ASSUME CrossInv, IInv', Survey
  PROVE  CrossInv'
<1>1. OrderInv' /\ UNCHANGED <<tree, order, pc>>
  BY OrderStays DEF Survey
<1>2. /\ stage = "surveying" /\ stage' = "checking" /\ pc # "resolving" /\ at = 0
      /\ UNCHANGED <<at, visible, bound, begun, made, stack, garbage>>
  BY DEF Survey, CrossInv, StageInv, Unchecked
<1>3. \A e \in errors' : e.by = 0 /\ e.kind \notin {"unknown", "undefined"}
  <2>1. \A e \in errors' :
          \E names : \E kind \in {"unlisted", "twice", "mainless"} :
            e \in Report(kind, 0, names)
    BY DEF Survey
  <2>2. ASSUME NEW e \in errors'
        PROVE  e.by = 0 /\ e.kind \in {"unlisted", "twice", "mainless"}
    <3>1. PICK names : \E kind \in {"unlisted", "twice", "mainless"} :
            e \in Report(kind, 0, names)
      BY <2>1
    <3> QED BY <3>1, Reported
  <2> QED BY <2>2
<1>4. StageInv'
  BY <1>1, <1>2 DEF CrossInv, StageInv, Unchecked, Stages, accepted
<1>5. \A i \in ProgramGlobals : i \in 1..Len(order)
  BY LenProperties DEF CrossInv, OrderInv, ProgramGlobals
<1>6. CheckInv'
  <2>1. visible = <<>> /\ bound = {}
    BY <1>2 DEF Survey, CrossInv, StageInv, Unchecked
  <2>2. \A i \in ProgramGlobals : i > at /\ i \in Nat
    BY <1>2, <1>5
  <2>3. ProgramGlobals' = ProgramGlobals /\ at = 0
    BY <1>1, <1>2, SameProgram
  <2>4. \A e \in errors' : e.by \in 0..0
    BY <1>3
  <2> QED BY <1>2, <1>3, <2>1, <2>2, <2>3, <2>4 DEF CheckInv
<1>7. RunInv'
  BY <1>1, <1>2, SameProgram DEF CrossInv, RunInv
<1> QED BY <1>1, <1>4, <1>6, <1>7 DEF CrossInv

\* Checking one more declaration binds what it mentions, or reports it.
LEMMA CheckKeeps ==
  ASSUME CrossInv, IInv', Check
  PROVE  CrossInv'
<1>1. OrderInv' /\ UNCHANGED <<tree, order, pc>>
  BY OrderStays DEF Check
<1>2. /\ stage = "checking" /\ stage' = "checking"
      /\ UNCHANGED <<begun, made, stack, garbage>>
  BY DEF Check
<1>3. order \in Seq(Entries) /\ DOMAIN order = 1..Len(order) /\ Len(order) \in Nat
  BY LenProperties DEF CrossInv, OrderInv
<1>4. at \in Nat /\ at' = at + 1 /\ at' \in DOMAIN order /\ at < at'
  <2>1. at < Len(order) /\ at' = at + 1 /\ at \in 0..Len(order)
    BY DEF Check, CrossInv, StageInv
  <2> QED BY <1>3, <2>1
<1>5. StageInv'
  BY <1>1, <1>2, <1>3, <1>4 DEF CrossInv, StageInv, Unchecked, Stages, accepted
<1>6. RunInv'
  BY <1>1, <1>2, SameProgram DEF CrossInv, RunInv
<1> DEFINE n == Decl(at').name
<1>7. /\ errors \subseteq errors'
      /\ \A e \in errors' \ errors : e.by = at'
      /\ \A e \in errors' \ errors : e.kind = "unknown" =>
           e.name \in ToSet(Decl(at').calls) /\ FunctionsNamed(e.name) = {}
      /\ \A e \in errors' \ errors : e.kind = "undefined" => e.name \notin DOMAIN visible
  <2>1. /\ errors \subseteq errors'
        /\ \A e \in errors' \ errors :
             \/ e \in BodyErrors(at')
             \/ \E names : \E kind \in {"borrowed", "redefined"} : e \in Report(kind, at', names)
    BY DEF Check, CheckFunction, CheckGlobal
  <2>2. \A e \in BodyErrors(at') :
          /\ e.by = at'
          /\ \/ e.kind = "unknown" /\ e.name \in ToSet(Decl(at').calls) /\ ~Callable(e.name)
             \/ e.kind = "undefined" /\ e.name \notin DOMAIN visible
    <3>1. \A e \in BodyErrors(at') :
            \/ e \in Report("unknown", at', {m \in ToSet(Decl(at').calls) : ~Callable(m)})
            \/ e \in Report("undefined", at',
                          Decl(at').reads \ (Decl(at').writes \cup DOMAIN visible))
      BY DEF BodyErrors
    <3>2. ASSUME NEW e,
                 e \in Report("unknown", at', {m \in ToSet(Decl(at').calls) : ~Callable(m)})
          PROVE  /\ e.by = at' /\ e.kind = "unknown"
                 /\ e.name \in ToSet(Decl(at').calls) /\ ~Callable(e.name)
      BY <3>2, Reported
    <3>3. ASSUME NEW e,
                 e \in Report("undefined", at',
                             Decl(at').reads \ (Decl(at').writes \cup DOMAIN visible))
          PROVE  e.by = at' /\ e.kind = "undefined" /\ e.name \notin DOMAIN visible
      BY <3>3, Reported
    <3> QED BY <3>1, <3>2, <3>3
  <2>3. \A m : FunctionsNamed(m) # {} => Callable(m)
    BY DEF Callable
  <2>4. ASSUME NEW e \in errors', e \notin errors, e \notin BodyErrors(at')
        PROVE  e.by = at' /\ e.kind \in {"borrowed", "redefined"}
    <3>1. PICK names : \E kind \in {"borrowed", "redefined"} : e \in Report(kind, at', names)
      BY <2>1, <2>4
    <3> QED BY <3>1, Reported
  <2> HIDE DEF n
  <2> QED BY <2>1, <2>2, <2>3, <2>4
<1>8. /\ \A m \in DOMAIN visible : m \in DOMAIN visible'
      /\ at' \in ProgramGlobals => n \in DOMAIN visible' /\ visible'[n] = at'
      /\ \A m \in DOMAIN visible' :
           \/ m \in DOMAIN visible /\ visible'[m] = visible[m]
           \/ at' \in ProgramGlobals /\ m = n /\ visible'[m] = at'
      /\ at' \in ProgramGlobals /\ n \in DOMAIN visible => errors' # {}
  <2>1. CASE CheckFunction(at')
    <3>1. visible' = visible /\ at' \notin ProgramGlobals
      BY <1>3, <1>4, <2>1, DeclType DEF CheckFunction, CrossInv, IInv
    <3> QED BY <3>1
  <2>2. CASE CheckGlobal(at')
    <3>1. /\ at' \in ProgramGlobals
          /\ visible' = [m \in DOMAIN visible \cup {n} |-> IF m = n THEN at' ELSE visible[m]]
          /\ Report("redefined", at', {n} \cap DOMAIN visible) \subseteq errors'
      BY <2>2 DEF CheckGlobal
    <3>2. n \in DOMAIN visible => Report("redefined", at', {n} \cap DOMAIN visible) # {}
      BY DEF Report
    <3> QED BY <3>1, <3>2
  <2> QED BY <2>1, <2>2 DEF Check
<1>9. bound' = bound \cup
        {[by |-> at', name |-> m, to |-> visible[m]] :
           m \in (Decl(at').reads \cup Decl(at').writes) \cap DOMAIN visible}
  BY DEF Check
<1> HIDE DEF n
<1>10. /\ \A m \in DOMAIN visible : visible[m] \in ProgramGlobals /\ visible[m] <= at
       /\ \A j \in ProgramGlobals : j <= at =>
            /\ Decl(j).name \in DOMAIN visible
            /\ errors = {} => visible[Decl(j).name] = j
       /\ \A b \in bound : b.by \in 1..at /\ b.to \in ProgramGlobals /\ b.to < b.by
       /\ \A e \in errors : e.by \in 0..at
       /\ \A e \in errors : e.kind = "unknown" =>
            e.by \in 1..at /\ e.name \in ToSet(Decl(e.by).calls) /\ FunctionsNamed(e.name) = {}
  BY DEF CrossInv, CheckInv
<1>11. \A j \in ProgramGlobals : j \in Nat
  BY <1>3 DEF ProgramGlobals
<1>a. /\ \A i \in 0..at : i \in 0..at' /\ i # at'
      /\ \A i \in 1..at : i \in 1..at' /\ i # at'
      /\ at' \in 1..at' /\ at' \in 0..at'
      /\ \A i \in 1..at' : i = at' \/ i \in 1..at
      /\ \A j \in Nat : (j < at' \/ (j <= at' /\ j # at')) => j <= at
      /\ \A j \in Nat : j <= at => j < at' /\ j <= at'
  BY <1>4
<1>12. \A m \in DOMAIN visible' : visible'[m] \in ProgramGlobals /\ visible'[m] <= at'
  <2>1. at' <= at'
    BY <1>4
  <2> QED BY <1>8, <1>10, <1>11, <1>a, <2>1
<1>13. ASSUME NEW j \in ProgramGlobals, j <= at'
       PROVE  /\ Decl(j).name \in DOMAIN visible'
              /\ errors' = {} => visible'[Decl(j).name] = j
  <2>1. CASE j = at'
    BY <1>8, <2>1 DEF n
  <2>2. CASE j # at'
    <3>1. j <= at
      BY <1>11, <1>13, <1>a, <2>2
    <3>2. Decl(j).name \in DOMAIN visible /\ (errors = {} => visible[Decl(j).name] = j)
      BY <1>10, <3>1
    <3> QED BY <1>7, <1>8, <3>2
  <2> QED BY <2>1, <2>2
<1>14. ASSUME NEW b \in bound'
       PROVE  b.by \in 1..at' /\ b.to \in ProgramGlobals /\ b.to < b.by
  <2>1. CASE b \in bound
    BY <1>10, <1>a, <2>1
  <2>2. CASE b \notin bound
    <3>1. PICK m \in DOMAIN visible : b = [by |-> at', name |-> m, to |-> visible[m]]
      BY <1>9, <1>14, <2>2
    <3>2. b.by = at' /\ b.to = visible[m]
      BY <3>1
    <3> QED BY <1>10, <1>11, <1>a, <3>2
  <2> QED BY <2>1, <2>2
<1>15. \A e \in errors' : e.by \in 0..at'
  BY <1>7, <1>10, <1>a
<1>16. \A e \in errors' : e.kind = "unknown" =>
         e.by \in 1..at' /\ e.name \in ToSet(Decl(e.by).calls) /\ FunctionsNamed(e.name) = {}
  BY <1>7, <1>10, <1>a
<1>17. ASSUME NEW i \in 1..at', NEW j \in ProgramGlobals, j < i,
              Decl(j).name \in Decl(i).reads \cup Decl(i).writes
       PROVE  /\ errors' = {} => [by |-> i, name |-> Decl(j).name, to |-> j] \in bound'
              /\ \A e \in errors' : ~(e.kind = "undefined" /\ e.by = i /\ e.name = Decl(j).name)
  <2>1. CASE i = at'
    <3>1. j <= at
      BY <1>11, <1>17, <1>a, <2>1
    <3>2. Decl(j).name \in DOMAIN visible /\ (errors = {} => visible[Decl(j).name] = j)
      BY <1>10, <3>1
    <3>3. \A e \in errors : e.by # i
      BY <1>10, <1>a, <2>1
    <3> QED BY <1>7, <1>9, <1>17, <2>1, <3>2, <3>3
  <2>2. CASE i # at'
    <3>1. i \in 1..at
      BY <1>a, <2>2
    <3>2. /\ errors = {} => [by |-> i, name |-> Decl(j).name, to |-> j] \in bound
          /\ \A e \in errors : ~(e.kind = "undefined" /\ e.by = i /\ e.name = Decl(j).name)
      BY <1>17, <3>1 DEF CrossInv, CheckInv
    <3> QED BY <1>7, <1>9, <2>2, <3>2
  <2> QED BY <2>1, <2>2
<1>18. CheckInv'
  BY <1>1, <1>12, <1>13, <1>14, <1>15, <1>16, <1>17, SameProgram DEF CheckInv
<1> QED BY <1>1, <1>5, <1>6, <1>18 DEF CrossInv

\* The end of the check: without an error every name was bound.
LEMMA CheckedKeeps ==
  ASSUME CrossInv, IInv', Checked
  PROVE  CrossInv'
<1>1. OrderInv' /\ UNCHANGED <<tree, order, pc>>
  BY OrderStays DEF Checked
<1>2. CheckInv'
  BY <1>1, CheckStays DEF Checked
<1>3. /\ stage = "checking" /\ at = Len(order) /\ stage' \in {"starting", "rejected"}
      /\ stage' = "starting" => errors = {}
      /\ UNCHANGED <<at, visible, bound, errors, begun, made, stack, garbage>>
  BY DEF Checked
<1>4. StageInv'
  BY <1>1, <1>3 DEF CrossInv, StageInv, Unchecked, Stages, accepted
<1>5. begun = 0 /\ made = 0 /\ stack = <<>>
  BY <1>3 DEF CrossInv, StageInv
<1>6. RunInv'
  BY <1>1, <1>3, <1>5, SameProgram DEF CrossInv, RunInv
<1> QED BY <1>1, <1>2, <1>4, <1>6 DEF CrossInv

-------------------------------------------------------------------------------
(***************************************************************************)
(* The running program.                                                    *)
(***************************************************************************)

\* Running changes nothing the search and the checker left.
LEMMA ProgramStays ==
  ASSUME CrossInv, stage \in {"starting", "running"},
         stage' \in {"starting", "running", "ended", "deep", "undefined"},
         UNCHANGED <<resolverVars, order, at, visible, bound, errors>>
  PROVE  OrderInv' /\ StageInv' /\ CheckInv' /\ UNCHANGED <<tree, order>>
<1>1. OrderInv' /\ UNCHANGED <<tree, order, pc>>
  BY OrderStays
<1>2. CheckInv'
  BY <1>1, CheckStays
<1>3. stage \notin Unchecked /\ stage' \notin Unchecked \cup {"checking", "rejected"} /\ stage' \in Stages
  BY DEF Unchecked, Stages
<1>4. accepted /\ stage # "resolving" /\ stage' # "resolving"
  BY DEF accepted
<1>5. StageInv'
  BY <1>1, <1>3, <1>4 DEF CrossInv, StageInv
<1> QED BY <1>1, <1>2, <1>5

\* A stack of one body has it on top.
LEMMA StackOfOne ==
  ASSUME NEW S, NEW i \in S
  PROVE  /\ <<i>> \in Seq(S) /\ <<i>> # <<>> /\ <<i>>[1] = i /\ DOMAIN <<i>> = {1}
  OBVIOUS

\* Where an initializer begins, one more global is made than the last that returned.
LEMMA BeginKeeps ==
  ASSUME CrossInv, IInv', BeginInitializer
  PROVE  CrossInv'
<1>1. OrderInv' /\ StageInv' /\ CheckInv' /\ UNCHANGED <<tree, order>>
  BY ProgramStays DEF BeginInitializer
<1>2. /\ stage = "starting" /\ stage' = "starting" /\ stack = <<>> /\ UNCHANGED <<made, garbage>>
  BY DEF BeginInitializer
<1>3. PICK i \in ProgramGlobals : begun < i /\ begun' = i /\ stack' = <<i>>
  BY DEF BeginInitializer
<1>4. begun = made /\ made \in Nat /\ ~garbage
  BY <1>2 DEF CrossInv, RunInv
<1>5. i \in DOMAIN order /\ i \in Nat
  BY LenProperties DEF CrossInv, OrderInv, ProgramGlobals
<1>6. /\ stack' \in Seq(DOMAIN order) /\ stack' # <<>> /\ stack'[1] = i /\ DOMAIN stack' = {1}
  BY <1>3, <1>5, StackOfOne
<1>7. Guarded(i)'
  BY <1>1, <1>3, SameProgram DEF Guarded
<1>8. RunInv'
  BY <1>1, <1>2, <1>3, <1>4, <1>5, <1>6, <1>7, SameProgram DEF RunInv
<1> QED BY <1>1, <1>8 DEF CrossInv

\* Main starts when every global is made.
LEMMA StartKeeps ==
  ASSUME CrossInv, IInv', StartMain
  PROVE  CrossInv'
<1>1. OrderInv' /\ StageInv' /\ CheckInv' /\ UNCHANGED <<tree, order>>
  BY ProgramStays DEF StartMain
<1>2. /\ stage = "starting" /\ stage' = "running" /\ stack = <<>> /\ UNCHANGED <<begun, made, garbage>>
      /\ \A i \in ProgramGlobals : i <= begun
  BY DEF StartMain
<1>3. begun = made /\ made \in Nat /\ ~garbage
  BY <1>2 DEF CrossInv, RunInv
<1>4. stack' \in Seq(DOMAIN order)
  <2>1. PICK i \in FunctionsNamed(MainFn) : stack' = <<i>>
    BY DEF StartMain
  <2>2. i \in DOMAIN order
    BY DEF FunctionsNamed, ProgramFunctions
  <2> QED BY <2>1, <2>2, StackOfOne
<1>5. RunInv'
  BY <1>1, <1>2, <1>3, <1>4, SameProgram DEF RunInv
<1> QED BY <1>1, <1>5 DEF CrossInv

\* The body on top of the stack.
LEMMA TopOfStack ==
  ASSUME CrossInv, executing
  PROVE  /\ stack \in Seq(DOMAIN order) /\ Len(stack) \in Nat /\ Len(stack) >= 1
         /\ DOMAIN stack = 1..Len(stack)
         /\ Last(stack) = stack[Len(stack)] /\ Last(stack) \in DOMAIN order
         /\ stage = "starting" => Guarded(Last(stack)) /\ stack[1] = begun /\ made < begun
<1>1. stack \in Seq(DOMAIN order) /\ stack # <<>>
  BY DEF CrossInv, RunInv, executing
<1>2. Len(stack) \in Nat /\ Len(stack) >= 1 /\ DOMAIN stack = 1..Len(stack)
  BY <1>1, EmptySeq, LenProperties
<1>3. Last(stack) = stack[Len(stack)] /\ Len(stack) \in DOMAIN stack
  BY <1>2 DEF Last
<1>4. Last(stack) \in DOMAIN order
  BY <1>1, <1>2, <1>3, ElementOfSeq
<1>5. stage = "starting" => Guarded(Last(stack)) /\ stack[1] = begun /\ made < begun
  BY <1>1, <1>3 DEF CrossInv, RunInv
<1> QED BY <1>1, <1>2, <1>3, <1>4, <1>5

\* A guarded body enters guarded bodies only.
LEMMA EnterKeeps ==
  ASSUME CrossInv, IInv', Enter
  PROVE  CrossInv'
<1>1. PICK n \in ToSet(Decl(Last(stack)).calls) : \E i \in FunctionsNamed(n) :
        \/ stage' = "deep" /\ stack' = stack
        \/ stack' = Append(stack, i) /\ stage' = stage
  BY DEF Enter
<1>2. PICK i \in FunctionsNamed(n) :
        \/ stage' = "deep" /\ stack' = stack
        \/ stack' = Append(stack, i) /\ stage' = stage
  BY <1>1
<1>3. executing /\ UNCHANGED <<resolverVars, order, at, visible, bound, errors, begun, made, garbage>>
  BY DEF Enter
<1>4. OrderInv' /\ StageInv' /\ CheckInv' /\ UNCHANGED <<tree, order>>
  BY <1>2, <1>3, ProgramStays DEF executing
<1>5. /\ stack \in Seq(DOMAIN order) /\ Len(stack) \in Nat /\ Len(stack) >= 1
      /\ DOMAIN stack = 1..Len(stack)
  BY <1>3, TopOfStack
<1>6. ~garbage /\ begun \in Nat /\ made \in Nat /\ stage \in {"starting", "running"} /\ stack # <<>>
  BY <1>3 DEF CrossInv, RunInv, executing
<1>7. CASE stage' = "deep" /\ stack' = stack
  BY <1>3, <1>4, <1>5, <1>6, <1>7 DEF CrossInv, RunInv
<1>8. CASE stack' = Append(stack, i) /\ stage' = stage
  <2>1. i \in DOMAIN order
    BY DEF FunctionsNamed, ProgramFunctions
  <2>2. /\ stack' \in Seq(DOMAIN order) /\ stack' # <<>>
        /\ DOMAIN stack' = 1..(Len(stack) + 1)
        /\ \A k \in DOMAIN stack : stack'[k] = stack[k]
        /\ stack'[Len(stack) + 1] = i
    BY <1>5, <1>8, <2>1, AppendProperties, LenProperties
  <2>3. stack'[1] = stack[1] /\ \A k \in DOMAIN stack' : k \in DOMAIN stack \/ k = Len(stack) + 1
    BY <1>5, <2>2
  <2>4. ASSUME stage = "starting", NEW k \in DOMAIN stack'
        PROVE  Guarded(stack'[k])
    <3>1. CASE k \in DOMAIN stack
      BY <1>6, <2>2, <2>4, <3>1 DEF CrossInv, RunInv
    <3>2. CASE k = Len(stack) + 1
      <4>1. Guarded(Last(stack)) /\ Last(stack) \in DOMAIN order
        BY <1>3, <2>4, TopOfStack
      <4>2. Guarded(i)
        BY <1>1, <4>1, GuardedCallsGuarded DEF CrossInv, IInv, OrderInv
      <4> QED BY <2>2, <3>2, <4>2
    <3> QED BY <2>3, <3>1, <3>2
  <2>5. stage' = "starting" =>
          /\ stack'[1] = begun' /\ begun' \in ProgramGlobals' /\ made' < begun'
          /\ \A k \in DOMAIN stack' : Guarded(stack[k])'
    <3>1. \A k \in DOMAIN stack' : stage = "starting" => Guarded(stack[k])'
      BY <1>4, <2>4, SameProgram DEF Guarded
    <3>2. stage = "starting" => stack[1] = begun /\ begun \in ProgramGlobals /\ made < begun
      BY <1>6 DEF CrossInv, RunInv
    <3> QED BY <1>3, <1>4, <1>8, <2>3, <3>1, <3>2, SameProgram
  <2>6. stage' = "running" => \A j \in ProgramGlobals' : j <= made'
    BY <1>3, <1>4, <1>8, SameProgram DEF CrossInv, RunInv
  <2> QED BY <1>3, <1>4, <1>6, <1>8, <2>2, <2>5, <2>6 DEF RunInv, CrossInv
<1> QED BY <1>2, <1>4, <1>7, <1>8 DEF CrossInv

\* A read sees a made global, or its guard stops the program.
LEMMA ReadKeeps ==
  ASSUME CrossInv, IInv', Read
  PROVE  CrossInv'
<1>1. PICK b \in bound :
        /\ b.by = Last(stack)
        /\ stage' = IF Guarded(b.by) /\ b.to > made THEN "undefined" ELSE stage
        /\ garbage' = (garbage \/ (/\ stage = "starting" /\ b.to >= begun
                                   /\ ~(Guarded(b.by) /\ b.to > made)))
  BY DEF Read
<1>2. executing /\ UNCHANGED <<resolverVars, order, at, visible, bound, errors, begun, made, stack>>
  BY DEF Read
<1>3. OrderInv' /\ StageInv' /\ CheckInv' /\ UNCHANGED <<tree, order>>
  BY <1>1, <1>2, ProgramStays DEF executing
<1>4. b.to \in ProgramGlobals /\ b.to \in Nat
  BY LenProperties DEF CrossInv, CheckInv, OrderInv, ProgramGlobals
<1>5. ~garbage /\ begun \in Nat /\ made \in Nat /\ stage \in {"starting", "running"} /\ stack # <<>>
  BY <1>2 DEF CrossInv, RunInv, executing
<1>6. stage = "starting" => Guarded(b.by) /\ made < begun
  BY <1>1, <1>2, TopOfStack
<1>7. ~garbage'
  <2>1. b.to >= begun /\ made < begun => b.to > made
    BY <1>4, <1>5
  <2> QED BY <1>1, <1>5, <1>6, <2>1, Zenon
<1>8. stage' = "undefined" => stack'[1] \in ProgramGlobals'
  <2>1. stage' = "undefined" => b.to > made
    BY <1>1, <1>5
  <2>2. stage = "running" => b.to <= made
    BY <1>4 DEF CrossInv, RunInv
  <2>3. stage = "starting" => stack[1] \in ProgramGlobals
    BY <1>5 DEF CrossInv, RunInv
  <2> QED BY <1>2, <1>3, <1>4, <1>5, <2>1, <2>2, <2>3, SameProgram
<1>9. stage' \in {stage, "undefined"}
  BY <1>1
<1>10. RunInv'
  BY <1>2, <1>3, <1>7, <1>8, <1>9, SameProgram DEF CrossInv, RunInv
<1> QED BY <1>3, <1>10 DEF CrossInv

\* Returning leaves the bodies below as they were.
LEMMA ReturnKeeps ==
  ASSUME CrossInv, IInv', Return
  PROVE  CrossInv'
<1>1. /\ executing /\ stack' = Front(stack)
      /\ made' = IF stage = "starting" /\ Len(stack) = 1 THEN begun ELSE made
      /\ stage' = IF stage = "running" /\ Len(stack) = 1 THEN "ended" ELSE stage
      /\ UNCHANGED <<resolverVars, order, at, visible, bound, errors, begun, garbage>>
  BY DEF Return, Marked
<1>2. OrderInv' /\ StageInv' /\ CheckInv' /\ UNCHANGED <<tree, order>>
  BY <1>1, ProgramStays DEF executing
<1>3. /\ stack \in Seq(DOMAIN order) /\ Len(stack) \in Nat /\ Len(stack) >= 1
      /\ DOMAIN stack = 1..Len(stack)
  BY <1>1, TopOfStack
<1>4. ~garbage /\ begun \in Nat /\ made \in Nat /\ stage \in {"starting", "running"} /\ stack # <<>>
  BY <1>1 DEF CrossInv, RunInv, executing
<1>5. /\ stack' \in Seq(DOMAIN order) /\ Len(stack') = Len(stack) - 1
      /\ \A k \in 1..(Len(stack) - 1) : stack'[k] = stack[k]
      /\ DOMAIN stack' = 1..(Len(stack) - 1)
  <2>1. \A k \in 1..(Len(stack) - 1) : stack[k] \in DOMAIN order
    BY <1>3, ElementOfSeq
  <2>2. stack' = SubSeq(stack, 1, Len(stack) - 1)
    BY <1>1 DEF Front
  <2>3. /\ stack' \in Seq(DOMAIN order) /\ Len(stack') = Len(stack) - 1
        /\ \A k \in 1..(Len(stack) - 1) : stack'[k] = stack[k]
    BY <1>3, <2>1, <2>2, SubSeqProperties
  <2> QED BY <2>3, LenProperties
<1>6. stack' = <<>> <=> Len(stack) = 1
  BY <1>3, <1>5, EmptySeq
<1>7. ASSUME stage = "starting", stack' # <<>>
      PROVE  /\ stack'[1] = begun' /\ begun' \in ProgramGlobals' /\ made' < begun'
             /\ \A k \in DOMAIN stack' : Guarded(stack[k])'
  <2>1. made' = made /\ begun' = begun
    BY <1>1, <1>6, <1>7
  <2>2. 1 \in 1..(Len(stack) - 1) /\ \A k \in DOMAIN stack' : k \in DOMAIN stack
    BY <1>3, <1>5, <1>6, <1>7
  <2>3. /\ stack[1] = begun /\ begun \in ProgramGlobals /\ made < begun
        /\ \A k \in DOMAIN stack : Guarded(stack[k])
    BY <1>4, <1>7 DEF CrossInv, RunInv
  <2>4. \A k \in DOMAIN stack' : Guarded(stack'[k])
    BY <1>5, <2>2, <2>3
  <2>5. \A k \in DOMAIN stack' : Guarded(stack[k])'
    BY <1>2, <2>4, SameProgram DEF Guarded
  <2> QED BY <1>2, <1>5, <2>1, <2>2, <2>3, <2>5, SameProgram
<1>8. stage = "starting" /\ stack' = <<>> => begun' = made'
  BY <1>1, <1>6
<1>9. stage = "running" => made' = made /\ \A i \in ProgramGlobals' : i <= made'
  BY <1>1, <1>2, SameProgram DEF CrossInv, RunInv
<1>10. RunInv'
  BY <1>1, <1>2, <1>4, <1>5, <1>7, <1>8, <1>9 DEF RunInv
<1> QED BY <1>2, <1>10 DEF CrossInv

-------------------------------------------------------------------------------
(***************************************************************************)
(* The invariant, and what follows.                                        *)
(***************************************************************************)

\* A step of a program is a step of its search, or none.
LEMMA SearchSteps == [CrossNext]_allVars => [Next]_vars
  BY DEF CrossNext, allVars, resolverVars, Resolve, Survey, Check, Checked,
         BeginInitializer, StartMain, Enter, Read, Return

\* Nothing changes.
LEMMA StandingStill ==
  ASSUME CrossInv, IInv', UNCHANGED allVars
  PROVE  CrossInv'
<1>1. OrderInv' /\ UNCHANGED <<tree, order, pc>>
  BY OrderStays DEF allVars, programVars, resolverVars
<1>2. UNCHANGED <<stage, at, visible, bound, errors, begun, made, stack, garbage>>
  BY DEF allVars, programVars
<1>3. CheckInv'
  BY <1>1, <1>2, CheckStays
<1>4. StageInv'
  BY <1>1, <1>2 DEF CrossInv, StageInv, accepted
<1>5. RunInv'
  <2>1. \A k \in DOMAIN stack : Guarded(stack[k])' <=> Guarded(stack[k])
    BY <1>1, <1>2, SameProgram DEF Guarded
  <2> QED BY <1>1, <1>2, <2>1, SameProgram DEF CrossInv, RunInv
<1> QED BY <1>1, <1>3, <1>4, <1>5 DEF CrossInv

\* Every step of a program keeps the invariant.
LEMMA CrossStep == CrossInv /\ [CrossNext]_allVars => CrossInv'
<1> SUFFICES ASSUME CrossInv, [CrossNext]_allVars PROVE CrossInv'
  OBVIOUS
<1>1. IInv'
  BY SearchSteps, NextInv DEF CrossInv
<1> QED BY <1>1, ResolveKeeps, SurveyKeeps, CheckKeeps, CheckedKeeps, BeginKeeps, StartKeeps,
           EnterKeeps, ReadKeeps, ReturnKeeps, StandingStill DEF CrossNext

\* The invariant holds throughout.
LEMMA CrossAlways == CrossSpec => []CrossInv
  BY CrossStart, CrossStep, PTL DEF CrossSpec

\* In every project: no body reads a global's slot before its initializer has stored
\* a value, however long the chain of calls, and no read of one that holds a value is
\* refused (checkGlobalReads_ of the code generator, shm_globals_ready()).
THEOREM NothingReadEarly == CrossSpec => []NothingReadBeforeItIsMade
<1>1. CrossInv => NothingReadBeforeItIsMade
  BY DEF CrossInv, RunInv, NothingReadBeforeItIsMade
<1> QED BY <1>1, CrossAlways, PTL

\* A program's search is a search.
LEMMA SearchBehaves == CrossSpec => Spec
<1>1. CrossInit => Init
  BY DEF CrossInit
<1> QED BY <1>1, SearchSteps, PTL DEF CrossSpec, Spec

\* In every project: bodies of the main file reach only its own globals, and a function
\* of another file finds those of its file (CROSSFILE.md rule 1).
THEOREM GlobalsFound == CrossSpec => []EachFileFindsItsGlobals
<1>1. CrossInv => MainSeesOnlyItsOwn
  <2> SUFFICES ASSUME CrossInv, NEW b \in bound, order[b.by].file = MainFile
               PROVE  order[b.to].file = MainFile
    BY DEF MainSeesOnlyItsOwn
  <2>1. b.by \in 1..at /\ b.to \in DOMAIN order /\ b.to < b.by
    BY DEF CrossInv, CheckInv, ProgramGlobals
  <2>2. b.by \in DOMAIN order
    BY <2>1, LenProperties DEF CrossInv, OrderInv, StageInv
  <2> QED BY <2>1, <2>2 DEF CrossInv, OrderInv
<1>2. CrossInv /\ GlobalsArriveWithReaders => PulledFunctionsSeeTheirGlobals
  <2> SUFFICES ASSUME CrossInv, GlobalsArriveWithReaders,
                      NEW i \in ProgramFunctions, order[i].file # MainFile,
                      NEW g \in GlobalsOf(order[i].file),
                      tree.decls[order[i].file][g].name \in Decl(i).reads \cup Decl(i).writes
               PROVE  LET f == order[i].file
                          n == tree.decls[f][g].name
                      IN  /\ accepted =>
                               \E b \in bound : b.by = i /\ b.name = n /\ order[b.to] = [file |-> f, at |-> g]
                          /\ ~\E e \in errors : e.kind = "undefined" /\ e.by = i /\ e.name = n
    BY DEF PulledFunctionsSeeTheirGlobals
  <2> DEFINE f == order[i].file
             n == tree.decls[f][g].name
  <2>1. PICK k \in DOMAIN pulls :
          /\ order[i] = Entry(pulls[k].from, pulls[k].function)
          /\ \A l \in 1..k : \A h \in pulls[l].globals :
               \E j \in 1..(i - 1) : order[j] = Entry(pulls[l].from, h)
    BY DEF CrossInv, OrderInv
  <2>2. f = pulls[k].from /\ Decl(i) = PulledFunction(k)
    BY <2>1 DEF Entry, Decl, PulledFunction
  <2>3. PICK l \in 1..k : pulls[l].from = f /\ g \in pulls[l].globals
    BY <2>2 DEF GlobalsArriveWithReaders, Mentions
  <2>4. PICK j \in 1..(i - 1) : order[j] = Entry(f, g)
    BY <2>1, <2>3
  <2>5. DOMAIN order = 1..Len(order) /\ Len(order) \in Nat /\ at \in 0..Len(order)
    BY LenProperties DEF CrossInv, OrderInv, StageInv
  <2>6. i \in 1..Len(order)
    BY <2>5 DEF ProgramFunctions
  <2>7. j \in DOMAIN order /\ j < i
    BY <2>4, <2>5, <2>6
  <2>8. j \in ProgramGlobals /\ Decl(j).name = n
    BY <2>4, <2>7 DEF Entry, Decl, ProgramGlobals, GlobalsOf
  <2> HIDE DEF f, n
  <2>9. n \in Decl(i).reads \cup Decl(i).writes
    BY DEF f, n
  <2>10. CASE i <= at
    <3>1. i \in 1..at
      BY <2>5, <2>6, <2>10
    <3>2. /\ errors = {} => [by |-> i, name |-> n, to |-> j] \in bound
          /\ \A e \in errors : ~(e.kind = "undefined" /\ e.by = i /\ e.name = n)
      BY <2>7, <2>8, <2>9, <3>1 DEF CrossInv, CheckInv
    <3>3. accepted => \E b \in bound : b.by = i /\ b.name = n /\ order[b.to] = Entry(f, g)
      BY <2>4, <3>2 DEF CrossInv, StageInv
    <3> QED BY <3>2, <3>3 DEF f, n, Entry
  <2>11. CASE ~(i <= at)
    <3>0. i \in Int /\ at \in Int /\ Len(order) \in Int /\ i <= Len(order)
      BY <2>5, <2>6
    <3>1. ~accepted
      <4>1. at # Len(order)
        BY <3>0, <2>11
      <4> QED BY <4>1 DEF CrossInv, StageInv
    <3>2. \A e \in errors : e.by \in 0..at
      BY DEF CrossInv, CheckInv
    <3>3. i \notin 0..at
      BY <3>0, <2>11
    <3> QED BY <3>1, <3>2, <3>3 DEF f, n
  <2> QED BY <2>10, <2>11
<1>3. MainSeesOnlyItsOwn /\ PulledFunctionsSeeTheirGlobals => EachFileFindsItsGlobals
  BY DEF EachFileFindsItsGlobals
<1> QED BY <1>1, <1>2, <1>3, CrossAlways, SearchBehaves, GlobalsPrecede, PTL

\* In every project: a call the search followed and the checker finds no function for is
\* one no single file could have answered (Resolver and Checker agree).
THEOREM UnknownIsNobodys == CrossSpec => []UnknownMeansNobodyHasIt
<1>1. CrossInv /\ AllThatIsNeeded => UnknownMeansNobodyHasIt
  <2> SUFFICES ASSUME CrossInv, AllThatIsNeeded,
                      NEW e \in errors, e.kind = "unknown", Followed(e), Single(e.name)
               PROVE  FALSE
    BY DEF UnknownMeansNobodyHasIt
  <2> DEFINE n == e.name
  <2>1. e.by \in 1..at /\ n \in ToSet(Decl(e.by).calls) /\ FunctionsNamed(n) = {}
    BY DEF CrossInv, CheckInv
  <2>2. e.by \in DOMAIN order
    BY <2>1, LenProperties DEF CrossInv, OrderInv, StageInv
  <2>3. n \in Asked
    <3>1. CASE order[e.by].file = MainFile
      <4>1. order[e.by].at \in DOMAIN tree.decls[MainFile]
        BY <2>2, <3>1, DeclType DEF CrossInv, IInv, OrderInv, Entries
      <4>2. n \in UNION {ToSet(tree.decls[MainFile][j].calls) : j \in DOMAIN tree.decls[MainFile]}
        BY <2>1, <3>1, <4>1 DEF Decl
      <4> QED BY <4>2, ResolverAssumption DEF CrossInv, OrderInv, Asked
    <3>2. CASE order[e.by].file # MainFile
      <4>1. PICK k \in DOMAIN pulls : order[e.by] = Entry(pulls[k].from, pulls[k].function)
        BY <3>2 DEF CrossInv, OrderInv, Followed
      <4>2. Decl(e.by) = PulledFunction(k)
        BY <4>1 DEF Entry, Decl, PulledFunction
      <4>3. n \in CallsOf(PulledFunction(k).name)
        BY <2>1, <4>2 DEF CrossInv, IInv, PullInv
      <4> QED BY <4>3 DEF Asked, PulledNames
    <3> QED BY <3>1, <3>2
  <2>4. n \in Needed
    BY <2>3, AskedOfInv DEF CrossInv
  <2>5. pc # "resolving"
    BY DEF CrossInv, StageInv, Unchecked
  <2>6. n \in PulledNames
    BY <2>4, <2>5 DEF AllThatIsNeeded
  <2>7. PICK k \in DOMAIN pulls : n = PulledFunction(k).name
    BY <2>6 DEF PulledNames
  <2>8. PICK i \in DOMAIN order : order[i] = Entry(pulls[k].from, pulls[k].function)
    BY DEF CrossInv, OrderInv
  <2>9. pulls[k].function \in FunctionsOf(pulls[k].from)
    BY DEF CrossInv, IInv, PullInv
  <2>10. i \in FunctionsNamed(n)
    BY <2>7, <2>8, <2>9 DEF FunctionsNamed, ProgramFunctions, FunctionsOf, Entry, Decl, PulledFunction
  <2> QED BY <2>1, <2>10
<1> QED BY <1>1, CrossAlways, SearchBehaves, NothingMissing, PTL
===============================================================================
