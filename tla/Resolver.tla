------------------------------- MODULE Resolver -------------------------------
(***************************************************************************)
(* Resolver::resolve (src/src/Resolve.cpp): the search that completes a    *)
(* program with functions from the other files of its project.  A stack of *)
(* wanted names is popped until it is empty; a name exactly one other file *)
(* answers to moves that function into the program, with the globals of    *)
(* its file it mentions and the file's borrows, and pushes what it calls.  *)
(*                                                                         *)
(* The files as parsed are the frozen variable tree, so that one run       *)
(* covers a whole family of projects.  A declaration keeps only what       *)
(* resolving and checking look at: its kind and name, the names it calls   *)
(* in source order, the variables it reads and those it assigns.           *)
(***************************************************************************)
EXTENDS Naturals, SequencesExt

CONSTANTS
  MainFile,    \* the file shc was asked to compile
  Companions,  \* the other files offered to the search
  Names,       \* identifiers: of functions, globals and locals alike
  Library,     \* the names findBuiltin() knows
  MainFn,      \* the identifier main
  Trees        \* the projects considered, as parsed

Files == {MainFile} \cup Companions

Declaration == [kind: {"function", "global"}, name: Names, calls: Seq(Names),
                reads: SUBSET Names, writes: SUBSET Names]

(***************************************************************************)
(* decls: the declarations of each file in the order written.  called:     *)
(* what calledNames() walks out of the main file, functions and then       *)
(* initializers.  borrows and foreign: the two forms of a `uses` clause.   *)
(***************************************************************************)
Tree == [decls: [Files -> Seq(Declaration)], called: Seq(Names),
         borrows: [Files -> SUBSET Names], foreign: [Files -> SUBSET Names]]

ASSUME ResolverAssumption ==
  /\ MainFile \notin Companions
  /\ Library \subseteq Names
  /\ MainFn \in Names
  /\ \A t \in Trees :
       /\ t \in Tree
       /\ ToSet(t.called) =
            UNION {ToSet(t.decls[MainFile][i].calls) : i \in DOMAIN t.decls[MainFile]}

VARIABLES
  tree,      \* the project, fixed by Init
  have,      \* names settled: the program's own, those moved in, those refused
  wanted,    \* the stack of names still to look for
  pulls,     \* the moves made, oldest first: which function, with which globals
  used,      \* used_: files something was taken from, in order of first use
  borrowed,  \* borrows merged into the program with own = false
  clashed,   \* a wanted name was found in more than one file
  pc         \* "resolving", then "resolved" or "refused"

vars == <<tree, have, wanted, pulls, used, borrowed, clashed, pc>>

-------------------------------------------------------------------------------
FunctionsOf(f) == {i \in DOMAIN tree.decls[f] : tree.decls[f][i].kind = "function"}

GlobalsOf(f) == {i \in DOMAIN tree.decls[f] : tree.decls[f][i].kind = "global"}

\* A declaration moved out of its file leaves a null pointer there.
Moved(f, i) == \E k \in DOMAIN pulls :
                 /\ pulls[k].from = f
                 /\ i = pulls[k].function \/ i \in pulls[k].globals

\* The functions of f that would still answer to the name n.
Candidates(f, n) ==
  {i \in FunctionsOf(f) : ~Moved(f, i) /\ tree.decls[f][i].name = n}

\* Mutant: the loop over the files stops at the first that answers.
AnsweringFirst(n) ==
  LET all == {f \in Companions : Candidates(f, n) # {}}
  IN {f \in all : f = CHOOSE g \in all : TRUE}

Answering(n) == {f \in Companions : Candidates(f, n) # {}}

\* Mutant: a library name is satisfied whether or not anyone borrows it.
SatisfiedUnborrowed(n) == n \in Library

\* A library name some file offered borrows is never searched for.
Satisfied(n) ==
  n \in Library /\ (n \in borrowed \/ \E f \in Files : n \in tree.borrows[f])

\* mentionedNames(): every variable and every callee of the body.
Mentions(d) == d.reads \cup d.writes \cup ToSet(d.calls)

\* Mutant: the null left by an earlier move is not looked for.
ReleasedAgain(f, i) ==
  {g \in GlobalsOf(f) : tree.decls[f][g].name \in Mentions(tree.decls[f][i])}

Released(f, i) ==
  {g \in GlobalsOf(f) : ~Moved(f, g) /\ tree.decls[f][g].name \in Mentions(tree.decls[f][i])}

\* reached: a file is noted when the first function is taken from it.
Noted(f) == IF f \in ToSet(used) THEN used ELSE Append(used, f)

Init ==
  /\ tree \in Trees
  /\ have = {tree.decls[MainFile][i].name : i \in FunctionsOf(MainFile)}
  /\ wanted = IF Companions = {} THEN <<>> ELSE tree.called
  /\ pulls = <<>>
  /\ used = <<>>
  /\ borrowed = {}
  /\ clashed = FALSE
  /\ pc = "resolving"

\* Mutant: a name that needs nothing is looked at but not popped.
PassUnpopped(n) ==
  /\ n \in have \/ Satisfied(n) \/ n = MainFn \/ Answering(n) = {}
  /\ UNCHANGED vars

\* Popping a name that needs nothing: it is settled already, the library
\* answers it, it is main, or no other file defines it.
Pass(n) ==
  /\ \/ n \in have
     \/ Satisfied(n)
     \/ n = MainFn
     \/ Answering(n) = {}
  /\ wanted' = Front(wanted)
  /\ UNCHANGED <<tree, have, pulls, used, borrowed, clashed, pc>>

\* Several files answer to a wanted name: the program is refused at the end.
Clash(n) ==
  /\ ~(n \in have \/ Satisfied(n) \/ n = MainFn)
  /\ \E f, g \in Answering(n) : f # g
  /\ clashed' = TRUE
  /\ have' = have \cup {n}
  /\ wanted' = Front(wanted)
  /\ UNCHANGED <<tree, pulls, used, borrowed, pc>>

\* One file answers: the first function of that name moves into the program.
Pull(n) ==
  /\ ~(n \in have \/ Satisfied(n) \/ n = MainFn)
  /\ \E f \in Companions : \E i \in Candidates(f, n) :
       /\ Answering(n) = {f}
       /\ \A j \in Candidates(f, n) : i <= j
       /\ have' = have \cup {n}
       /\ used' = Noted(f)
       /\ pulls' = Append(pulls, [from |-> f, function |-> i, globals |-> Released(f, i)])
       /\ borrowed' = borrowed \cup (tree.borrows[f] \ tree.borrows[MainFile])
       /\ wanted' = Front(wanted) \o tree.decls[f][i].calls
  /\ UNCHANGED <<tree, clashed, pc>>

\* Mutant: resolve() answers true whatever it met.
FinishAnyway ==
  /\ wanted = <<>>
  /\ pc' = "resolved"
  /\ UNCHANGED <<tree, have, wanted, pulls, used, borrowed, clashed>>

Finish ==
  /\ wanted = <<>>
  /\ pc' = IF clashed THEN "refused" ELSE "resolved"
  /\ UNCHANGED <<tree, have, wanted, pulls, used, borrowed, clashed>>

Search ==
  wanted # <<>> /\ LET n == Last(wanted) IN Pass(n) \/ Clash(n) \/ Pull(n)

Next == pc = "resolving" /\ (Search \/ Finish)

Spec == Init /\ [][Next]_vars

\* The loop runs until its stack is empty: nothing else has the thread.
FairSpec == Spec /\ WF_vars(Next)

-------------------------------------------------------------------------------
(***************************************************************************)
(* The reference the search is measured against.  It speaks only of the    *)
(* files as they were parsed, never of the stack or of what has moved.     *)
(***************************************************************************)
PulledFunction(k) == tree.decls[pulls[k].from][pulls[k].function]

PulledNames == {PulledFunction(k).name : k \in DOMAIN pulls}

Own == {tree.decls[MainFile][i].name : i \in FunctionsOf(MainFile)}

Defines(f, n) == \E i \in FunctionsOf(f) : tree.decls[f][i].name = n

\* Names the search must look for: not the program's own, the library's or main.
Searched(n) ==
  /\ n \notin Own /\ n # MainFn
  /\ ~(n \in Library /\ \E f \in Files : n \in tree.borrows[f])

Single(n) == Searched(n) /\ \E f \in Companions : \A g \in Companions : Defines(g, n) <=> g = f

Rival(n) == Searched(n) /\ \E f, g \in Companions : f # g /\ Defines(f, n) /\ Defines(g, n)

\* The first function of that name in the file f.
FirstOf(f, n) ==
  CHOOSE i \in FunctionsOf(f) :
    /\ tree.decls[f][i].name = n
    /\ \A j \in FunctionsOf(f) : tree.decls[f][j].name = n => i <= j

CallsOf(n) ==
  UNION {ToSet(tree.decls[f][FirstOf(f, n)].calls) : f \in {g \in Companions : Defines(g, n)}}

Closed(S) == ToSet(tree.called) \subseteq S
             /\ \A n \in S : Single(n) => CallsOf(n) \subseteq S

\* The least set of names holding what main's file calls and, for a function
\* another file alone defines, what it calls in turn.
Needed ==
  LET closedSets == {S \in SUBSET Names : Closed(S)}
  IN {n \in Names : \A S \in closedSets : n \in S}

-------------------------------------------------------------------------------
\* Every variable has the shape resolve() keeps it in.
TypeOK ==
  /\ tree \in Tree
  /\ have \subseteq Names
  /\ wanted \in Seq(Names)
  /\ pulls \in Seq([from: Companions, function: Nat, globals: SUBSET Nat])
  /\ used \in Seq(Companions)
  /\ borrowed \subseteq Names
  /\ clashed \in BOOLEAN
  /\ pc \in {"resolving", "resolved", "refused"}

\* CROSSFILE.md rule 2: nothing arrives that was not asked for.  Whatever has
\* been moved in so far is the only other file's function of a name reached
\* from the program's own calls, and no name arrives twice.
OnlyWhatIsNeeded ==
  /\ PulledNames \subseteq {n \in Needed : Single(n)}
  /\ \A k, l \in DOMAIN pulls : PulledFunction(k).name = PulledFunction(l).name => k = l

\* The other half of rule 2, "and then whatever it calls in turn": when the
\* loop ends nothing that was needed has been left behind, so what the program
\* becomes does not depend on the order the stack gave its names.
AllThatIsNeeded == pc # "resolving" => {n \in Needed : Single(n)} \subseteq PulledNames

\* Rule 3: the program is refused exactly when a name something wants is in
\* two other files; a rival nobody wants changes nothing.
RefusedForRivals ==
  pc # "resolving" => (pc = "refused" <=> \E n \in Needed : Rival(n))

\* Rules 2 and 3 together: the search brings in what is needed and only that, or
\* refuses, and what it does depends on the files alone.
SearchIsExact == OnlyWhatIsNeeded /\ AllThatIsNeeded /\ RefusedForRivals

\* Rule 1: a function moved in finds the globals of its own file that it
\* mentions already in the program or arriving with it, ahead of it in the
\* order the checker walks; and no global is moved a second time (its slot in
\* the file's list is null by then).
GlobalsArriveWithReaders ==
  \A k \in DOMAIN pulls :
    /\ \A g \in GlobalsOf(pulls[k].from) :
         tree.decls[pulls[k].from][g].name \in Mentions(PulledFunction(k))
           => \E l \in 1..k : pulls[l].from = pulls[k].from /\ g \in pulls[l].globals
    /\ \A l \in 1..(k - 1) :
         pulls[l].from = pulls[k].from => pulls[l].globals \cap pulls[k].globals = {}

\* The search ends whatever the files call, cycles included.
Terminates == <>(pc # "resolving")

-------------------------------------------------------------------------------
(***************************************************************************)
(* The inductive invariant behind OnlyWhatIsNeeded, AllThatIsNeeded and    *)
(* RefusedForRivals.                                                       *)
(***************************************************************************)

\* What the program calls so far, in its own file or in functions moved in.
Asked == ToSet(tree.called) \cup UNION {CallsOf(n) : n \in PulledNames}

\* have holds the program's own names and, of others, those moved in or refused.
HaveInv ==
  /\ Own \cup PulledNames \subseteq have
  /\ PulledNames \subseteq Needed
  /\ \A n \in have \ Own : n \in Asked /\ (n \in PulledNames \/ Rival(n))
  /\ clashed <=> \E n \in have : Rival(n)

\* A move took the first function of a name no second file defines.
PullInv ==
  /\ \A k \in DOMAIN pulls :
       /\ pulls[k].function \in FunctionsOf(pulls[k].from)
       /\ pulls[k].globals \subseteq GlobalsOf(pulls[k].from)
       /\ Single(PulledFunction(k).name)
       /\ CallsOf(PulledFunction(k).name) = ToSet(PulledFunction(k).calls)
  /\ \A k, l \in DOMAIN pulls : PulledFunction(k).name = PulledFunction(l).name => k = l

BorrowInv == borrowed \subseteq UNION {tree.borrows[f] : f \in Companions}

\* The stack holds only names something calls, and every such name is on it,
\* settled, or one nothing has to be done about.
StackInv ==
  /\ ToSet(wanted) \subseteq Asked
  /\ \A n \in Asked : n \in have \/ n \in ToSet(wanted) \/ ~(Single(n) \/ Rival(n))
  /\ pc # "resolving" =>
       wanted = <<>> /\ pc = IF clashed THEN "refused" ELSE "resolved"

IInv == TypeOK /\ HaveInv /\ PullInv /\ BorrowInv /\ StackInv

-------------------------------------------------------------------------------
\* The search implements the promise of CROSSFILE.md's rules 2 and 3: each
\* move is an arrival that was asked for, every other step but the last one
\* is invisible, and the last gives the verdict once nothing is missing.
Promise == INSTANCE Closure WITH
  roots   <- ToSet(tree.called),
  calls   <- [n \in Names |-> CallsOf(n)],
  single  <- {n \in Names : Single(n)},
  rivals  <- {n \in Names : Rival(n)},
  arrived <- PulledNames,
  verdict <- IF pc = "resolving" THEN "open" ELSE pc

ImplementsClosure == Promise!Spec
===============================================================================
