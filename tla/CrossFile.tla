------------------------------ MODULE CrossFile -------------------------------
(***************************************************************************)
(* A project of several files from the search to the running program:      *)
(* Resolver moves functions in, the checker walks the completed program    *)
(* in declaration order and binds names (src/src/Check.cpp), the code      *)
(* generator decides which functions guard their reads of globals          *)
(* (src/src/CodeGen.cpp), and the runtime makes the globals one by one     *)
(* before it calls main (src/runtime/Runtime.cpp, Failure.cpp).            *)
(*                                                                         *)
(* Of a body the checker sees the names it reads, assigns and calls.  A    *)
(* name the body declares itself is in neither set, and a name it both     *)
(* assigns and reads it assigns first.                                     *)
(***************************************************************************)
EXTENDS Resolver

CONSTANT MaxDepth  \* Depth::overall, the calls that may be open at once

ASSUME CrossFileAssumption == MaxDepth \in Nat \ {0}

VARIABLES
  order,    \* Program::order(): every declaration of the program, in the order walked
  stage,    \* "resolving", "surveying", "checking", "starting", "running", "ended",
            \* or how it failed: "refused", "rejected", "deep", "undefined"
  at,       \* how many entries of order the checker has finished
  visible,  \* globals_: the global each name stands for at this point of the walk
  bound,    \* which global each name of a checked body was resolved to
  errors,   \* what the checker has reported
  begun,    \* the initializer running, or the last that ran
  made,     \* globalsMade: the globals up to here hold a value
  stack,    \* the bodies running, innermost last; an initializer is a body
  garbage   \* a slot was read before anything was stored there

resolverVars == vars

programVars == <<order, stage, at, visible, bound, errors, begun, made, stack, garbage>>

allVars == <<vars, programVars>>

-------------------------------------------------------------------------------
(***************************************************************************)
(* The program: the main file's declarations and whatever was moved in.  A *)
(* declaration is named by its position in order; global slots are handed  *)
(* out along that order, so a global's position stands for its slot.       *)
(***************************************************************************)
Decl(i) == tree.decls[order[i].file][order[i].at]

ProgramFunctions == {i \in DOMAIN order : Decl(i).kind = "function"}

ProgramGlobals == {i \in DOMAIN order : Decl(i).kind = "global"}

FunctionsNamed(n) == {i \in ProgramFunctions : Decl(i).name = n}

\* program_->borrows(): the main file's own clause or one that was merged.
Borrowed == borrowed \cup tree.borrows[MainFile]

\* A call is accepted if the program, the library or a foreign declaration
\* of the main file answers it.
Callable(n) ==
  \/ FunctionsNamed(n) # {}
  \/ n \in Library \cap Borrowed
  \/ n \in tree.foreign[MainFile]

CallsFrom(S) == UNION {ToSet(Decl(i).calls) : i \in S}

\* Mutant: only what an initializer itself calls.
InitializerCalls == CallsFrom(ProgramGlobals)

\* The functions an initializer may end up running, by name: the least set
\* with what initializers call and what a function in it calls.
InitializerCanReach ==
  LET closed(S) == /\ CallsFrom(ProgramGlobals) \subseteq S
                   /\ \A n \in S : CallsFrom(FunctionsNamed(n)) \subseteq S
  IN {n \in Names : \A S \in SUBSET Names : closed(S) => n \in S}

\* checkGlobalReads_: reads in this body go through shm_globals_ready().
Guarded(i) == i \in ProgramGlobals \/ Decl(i).name \in InitializerCanReach

-------------------------------------------------------------------------------
CrossInit ==
  /\ Init
  /\ order = [i \in DOMAIN tree.decls[MainFile] |-> [file |-> MainFile, at |-> i]]
  /\ stage = "resolving"
  /\ at = 0
  /\ visible = <<>>
  /\ bound = {}
  /\ errors = {}
  /\ begun = 0
  /\ made = 0
  /\ stack = <<>>
  /\ garbage = FALSE

\* Mutant: the function is added before the globals it reads.
ArriveFunctionFirst(p) ==
  \E s \in [1..Cardinality(p.globals) -> p.globals] :
    /\ \A i, j \in DOMAIN s : i < j => s[i] < s[j]
    /\ order' = Append(order, [file |-> p.from, at |-> p.function])
                  \o [i \in DOMAIN s |-> [file |-> p.from, at |-> s[i]]]

\* add() and addGlobal(): a move appends the globals, as their file orders
\* them, and then the function.
Arrive(p) ==
  \E s \in [1..Cardinality(p.globals) -> p.globals] :
    /\ \A i, j \in DOMAIN s : i < j => s[i] < s[j]
    /\ order' = order \o [i \in DOMAIN s |-> [file |-> p.from, at |-> s[i]]]
                      \o <<[file |-> p.from, at |-> p.function]>>

\* One step of the search.
Resolve ==
  /\ stage = "resolving"
  /\ Next
  /\ IF pulls' = pulls THEN UNCHANGED order ELSE Arrive(Last(pulls'))
  /\ stage' = CASE pc' = "resolving" -> "resolving"
                [] pc' = "refused" -> "refused"
                [] pc' = "resolved" -> "surveying"
  /\ UNCHANGED <<at, visible, bound, errors, begun, made, stack, garbage>>

\* Statement::unit(): parseStatement() marks the statements of a body with their
\* file; a global declaration is parsed past it and keeps 0, the main file.
UnitOf(i) == IF i \in ProgramFunctions THEN order[i].file ELSE MainFile

Report(kind, i, names) ==
  {[kind |-> kind, by |-> i, in |-> UnitOf(i), name |-> n] : n \in names}

\* check(Program) before its walk: every borrow is the library's, no function
\* is defined twice, and there is a main.  By 0: about no one declaration.
\* What it refuses of a prototype - inputs of main, a function called prec, two
\* outputs of a foreign one - is left out: a declaration here is the names in it.
Survey ==
  /\ stage = "surveying"
  /\ errors' = Report("unlisted", 0, Borrowed \ Library)
                 \cup Report("twice", 0,
                        {n \in Names : \E i, j \in FunctionsNamed(n) : i # j})
                 \cup Report("mainless", 0, {n \in {MainFn} : FunctionsNamed(n) = {}})
  /\ stage' = "checking"
  /\ UNCHANGED <<resolverVars, order, at, visible, bound, begun, made, stack, garbage>>

\* Errors every body can draw: a call nothing answers, a variable nobody made.
BodyErrors(i) ==
  Report("unknown", i, {n \in ToSet(Decl(i).calls) : ~Callable(n)})
    \cup Report("undefined", i, Decl(i).reads \ (Decl(i).writes \cup DOMAIN visible))

\* check(Function): names already visible bind to the global, others are local.
CheckFunction(i) ==
  /\ i \in ProgramFunctions
  /\ errors' = errors \cup BodyErrors(i)
                 \cup Report("borrowed", i, Decl(i).writes \cap tree.borrows[MainFile])
  /\ UNCHANGED visible

\* visit(Declare) in global scope: the initializer first, then the name, which
\* is declared even when that is an error.
CheckGlobal(i) ==
  LET n == Decl(i).name IN
  /\ i \in ProgramGlobals
  /\ errors' = errors \cup BodyErrors(i)
                 \cup Report("borrowed", i, {n} \cap tree.borrows[MainFile])
                 \cup Report("redefined", i, {n} \cap DOMAIN visible)
  /\ visible' = [m \in DOMAIN visible \cup {n} |-> IF m = n THEN i ELSE visible[m]]

Check ==
  /\ stage = "checking"
  /\ at < Len(order)
  /\ at' = at + 1
  /\ CheckFunction(at') \/ CheckGlobal(at')
  /\ bound' = bound \cup
       {[by |-> at', name |-> n, to |-> visible[n]] :
          n \in (Decl(at').reads \cup Decl(at').writes) \cap DOMAIN visible}
  /\ UNCHANGED <<resolverVars, order, stage, begun, made, stack, garbage>>

Checked ==
  /\ stage = "checking"
  /\ at = Len(order)
  /\ stage' = IF errors = {} THEN "starting" ELSE "rejected"
  /\ UNCHANGED <<resolverVars, order, at, visible, bound, errors, begun, made, stack, garbage>>

-------------------------------------------------------------------------------
(***************************************************************************)
(* The program running.  A body may read what it mentions, call what it    *)
(* calls and return, in any order: conditions are not modelled.            *)
(***************************************************************************)
executing == stage \in {"starting", "running"} /\ stack # <<>>

\* shm_init_globals(): the next initializer begins.
BeginInitializer ==
  /\ stage = "starting"
  /\ stack = <<>>
  /\ \E i \in ProgramGlobals :
       /\ begun < i
       /\ \A j \in ProgramGlobals : begun < j => i <= j
       /\ begun' = i
       /\ stack' = <<i>>
  /\ UNCHANGED <<resolverVars, order, stage, at, visible, bound, errors, made, garbage>>

\* shm_user_main() once every initializer has run.
StartMain ==
  /\ stage = "starting"
  /\ stack = <<>>
  /\ \A i \in ProgramGlobals : i <= begun
  /\ stage' = "running"
  /\ \E i \in FunctionsNamed(MainFn) : stack' = <<i>>
  /\ UNCHANGED <<resolverVars, order, at, visible, bound, errors, begun, made, garbage>>

\* A call of one of the program's functions; shm_enter() refuses it when too
\* many are open.  An initializer is not counted.
Enter ==
  /\ executing
  /\ \E n \in ToSet(Decl(Last(stack)).calls) : \E i \in FunctionsNamed(n) :
       IF Cardinality({k \in DOMAIN stack : stack[k] \in ProgramFunctions}) >= MaxDepth
       THEN stage' = "deep" /\ UNCHANGED stack
       ELSE stack' = Append(stack, i) /\ UNCHANGED stage
  /\ UNCHANGED <<resolverVars, order, at, visible, bound, errors, begun, made, garbage>>

\* A read of a bound global, checked first where the code generator said so.
\* A slot holds a value once the initializer that stores it has returned.
Read ==
  /\ executing
  /\ \E b \in bound :
       /\ b.by = Last(stack)
       /\ b.name \in Decl(b.by).reads
       /\ LET refused == Guarded(b.by) /\ b.to > made
              empty   == stage = "starting" /\ b.to >= begun
          IN /\ stage' = IF refused THEN "undefined" ELSE stage
             /\ garbage' = (garbage \/ (empty /\ ~refused))
  /\ UNCHANGED <<resolverVars, order, at, visible, bound, errors, begun, made, stack>>

\* The argument of shm_globals_made() after global i: i and all before it.
Marked(i) == i

\* A body ends.  The end of an initializer stores its value and marks the slot
\* (shm_globals_made); the end of main ends the program.
Return ==
  /\ executing
  /\ stack' = Front(stack)
  /\ made' = IF stage = "starting" /\ Len(stack) = 1 THEN Marked(begun) ELSE made
  /\ stage' = IF stage = "running" /\ Len(stack) = 1 THEN "ended" ELSE stage
  /\ UNCHANGED <<resolverVars, order, at, visible, bound, errors, begun, garbage>>

CrossNext ==
  \/ Resolve \/ Survey \/ Check \/ Checked
  \/ BeginInitializer \/ StartMain \/ Enter \/ Read \/ Return

\* The search is a loop that keeps running; a program need not get anywhere.
CrossSpec == CrossInit /\ [][CrossNext]_allVars /\ WF_allVars(Resolve)

-------------------------------------------------------------------------------
accepted == stage \in {"starting", "running", "ended", "deep", "undefined"}

\* No slot is read before its initializer has stored a value: every body that
\* can be running before all globals are made was given the check, however
\* long the chain of calls from an initializer to it and across whichever files.
\* And no read of one that holds a value is refused: once main has started the check
\* the guarded bodies still carry never fails.
NothingReadBeforeItIsMade ==
  /\ ~garbage
  /\ stage = "undefined" => stack[1] \in ProgramGlobals

\* CROSSFILE.md rule 1, towards the program: a body of the main file never
\* reaches a global that arrived with another file.
MainSeesOnlyItsOwn ==
  \A b \in bound : order[b.by].file = MainFile => order[b.to].file = MainFile

\* Rule 1, towards the file a function came from: in an accepted program each
\* global of that file the function mentions is the one it was resolved to,
\* and in a rejected one no such name is reported undefined.
PulledFunctionsSeeTheirGlobals ==
  \A i \in ProgramFunctions :
    LET f == order[i].file IN
    f # MainFile =>
      \A g \in GlobalsOf(f) :
        LET n == tree.decls[f][g].name IN
        n \in Decl(i).reads \cup Decl(i).writes =>
          /\ accepted =>
               \E b \in bound : b.by = i /\ b.name = n /\ order[b.to] = [file |-> f, at |-> g]
          /\ ~\E e \in errors : e.kind = "undefined" /\ e.by = i /\ e.name = n

\* Rule 1 as a whole: no declaration takes the place of one another file meant.
EachFileFindsItsGlobals == MainSeesOnlyItsOwn /\ PulledFunctionsSeeTheirGlobals

\* Calls the search follows: those of the main file and of functions moved in.
Followed(e) == order[e.by].file = MainFile \/ e.by \in ProgramFunctions

\* Resolver and checker agree: a call the search followed and the checker finds
\* no function for is one no single file could have answered.
UnknownMeansNobodyHasIt ==
  \A e \in errors : e.kind = "unknown" /\ Followed(e) => ~Single(e.name)

-------------------------------------------------------------------------------
(* What the documents say and the code does not do. *)

\* CROSSFILE.md rule 1: "Without that rule two files could reach into each
\* other's state"; README: "carries its own file's globals and can see no others".
OwnGlobalsOnly ==
  accepted => \A b \in bound : order[b.to].file = order[b.by].file
===============================================================================
