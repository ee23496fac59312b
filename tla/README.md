# Compiler-S, verified

TLA+ modules, TLC runs and TLAPS proofs for Compiler-S, the compiler (`shc`) and
runtime of the Shalimar language, kept beside its code. Paths below are those of the
repository, under `src/`: `src/src/Check.cpp` is the checker of the compiler,
`src/runtime/Debug.cpp` the debugging session of the runtime, `src/docs` its documents.

`PROJECT.json` holds what a tool needs: the runs with their properties, one mutant of the
code for every property, the lines every definition stands for, the hazards and the
findings. This file is for a reader.

## 1. The system

### 1.1 How a program gets made and runs

```
 command line, files                                      src/src/Driver.cpp
      |  tokenize()         characters -> tokens          src/src/Lexer.cpp
      |  Parser::parse()    tokens -> Program             src/src/Parser.cpp, Ast.*
      |  Resolver::resolve()  + functions of the files beside it   Resolve.cpp
      |  Checker::check()   names bound, types, refusals  src/src/Check.cpp, Builtin.cpp
      |  CodeGen::generate()  one walk over the tree      src/src/CodeGen.cpp
      |     Emitter         arm64 Darwin, x86-64 GNU, x86-64 MASM   src/src/backend/*
      v  c++                assembly + runtime archive -> program   (external)
 running program:  main() -> shm_name_files, shm_begin, shm_init_globals,
                   shm_user_main, shm_end                 src/runtime/*.cpp
```

Everything is sequential: the compiler is one pass after another, and a compiled program is
one thread. What interacts:

* **within the compiler**, by a tree that each pass changes in place (the resolver moves
  declarations out of other files' trees, the checker writes slots and conversions into it,
  the code generator trusts both) and by `Diagnostics`, whose count decides whether the next
  pass runs;
* **generated code with the runtime**, by calls: `shm_line` at every statement,
  `shm_enter`/`shm_leave` around every function, arithmetic, arrays, printing; by a frame
  of numbered slots, an accumulator and argument registers that differ on three targets;
* **caller with callee**, by argument places both sides compute on their own;
* **a debugged program with an editor**, by commands on standard input that may come, or
  stop coming, at any moment;
* **a compilation with the ones before it**, by files on the disk, and with `c++`, which
  may fail or be killed with `shc` while it runs.

### 1.2 Components

| Component | State it keeps | Operations | What makes it correct | Modules |
|---|---|---|---|---|
| Lexer | position, line, tokens | `step` | a text becomes the tokens it was written as, each at its line; what is none is refused at its line | Lexer |
| Parser | position, `loopDepth_`, sticky `failed_`, current unit | one method per form, four lookaheads | reads what was written, statement ends included; blames the right line; loses nothing after a slip | Parser, Writing |
| Cross-file search | worklist, the trees it empties, borrows, notices | pop, look up, move, push | brings exactly what is needed; refuses exactly for rivals; its order does not matter | Closure, Resolver, CrossFile |
| Checker | map of globals, stack of scopes, declared names, slots, types of expressions | survey, bind, convert, refuse | a name means what its block says; no read of a slot before it holds a value; accepts what has a meaning and nothing else | CrossFile, Scopes, Ast, Typing |
| Code generator | `depth_`, `deepest_`, loop labels, the guard of globals | one visit per node | what is executed is what was written, once and in order, inside the frame | Places, Calling, Ast, Evaluation, IntLoop, RealLoop, Scopes, Heap, CrossFile |
| Backends | the frame's size; texts as data | one per emitted operation | the same promise kept on three targets, in two assemblers' operand orders | Emitter, Instructions, Backends, Places, Calling |
| Driver | options, files, the disk | parse arguments, read, run passes, assemble | one command is one step for whoever looks at status and disk; files with the extension of a source survive; status 0 never goes with what lay there before | Compilation, Driver |
| Library table | constant | look up | a name is a library's or not; its arity and types | Resolver, CrossFile, Typing (constants) |
| Diagnostics | list of diagnostics, counts | add, print | they name file and line | CrossFile, Parser, Driver |
| Types and targets | interned types, three targets | none that change state | | Typing, Calling, Backends (values and records) |
| Runtime: positions, depth, failure | position (unit, line), depth counters, stdio buffer | `shm_line`, `shm_enter`, `shm_leave`, `fail`, begin, end | the counters are the stack; ceilings hold; nothing printed is lost | Execution |
| Runtime: debugging session | breakpoints, mode, remembered depth, armed | arm, stop, each command, closing | stops exactly where asked; never left stopped by an editor that went | Session |
| Runtime: arrays and strings | arrays and rows, shared by address | new, fill, copy, join, get, set | an assignment copies, and copies only there | Heap |
| Runtime: numbers | none | arithmetic, powers, conversions, loop tests | exact or stopped, never wrapped | Numbers, IntLoop, RealLoop |
| Runtime: console | places of `prec`, `lineHasText_` | print each kind, grids, line ends | columns line up; what is printed of a real reads back as it | Console, Shortest; Execution keeps the buffer |
| Build, tests, examples | | | read as statements of what is expected | none |

### 1.3 What is hard here

`PROJECT.json` lists each hazard at its line with the properties that watch it. In short:

* **Order that must not matter**: the worklist of the resolver, files as the directory lists
  them, mutual recursion across files.
* **State read early and used late**: base and index of an element evaluated twice, around
  a call (`CodeGen.cpp:503`, `:757`); the position a failure reports (`Failure.cpp:56`);
  the depth a step command remembered (`Debug.cpp:108`); files' trees with holes in them.
* **Two sides computing the same thing**: argument places in caller and callee; scopes in the
  checker and jumps in the code; the guard of globals and the order they are made in.
* **Limits**: depth ceilings, uncounted functions, registers that run out, the table of
  breakpoints, the ends of `int`, the last cell of a text, offsets and constants beyond what an
  instruction holds.
* **Stops half way**: a failure with text in the buffer, an editor that closes the channel,
  `c++` failing or being killed after the assembly was written.
* **A language without statement separators**: where one statement ends is decided by four
  lookaheads that have to agree.

## 2. The modules

Composition: `Resolver` implements `Closure`; `CrossFile` extends `Resolver` and goes on to the
end of `main`; `Driver` implements `Compilation`; `Session` extends `Execution` and puts an editor round it;
`Evaluation` extends `Typing` (which extends `Ast`) and, like `Calling`, `Places`; `Backends` extends `Instructions`, which extends `Emitter`;
`Writing` extends `Parser`. Three MC modules put components side by side, one behaviour being about one of them: `MCReading` the lexer and the parser, `MCCode`
statements, calls and emitters, `MCNumbers` arithmetic, the two loops, printing and spelling. The other `MCx`
give `x` its constants; `xProofs` holds the theorems about it (`CrossFileProofs` those about `Resolver` and `CrossFile`, `CallingProofs` about `Places` and `Calling`, `NumbersProofs` about `Numbers`, `IntLoop`, `RealLoop` and `Console`,
`SessionProofs` about `Execution` and `Session`). An operator whose comment begins with
"Mutant" is a slip in the definition below it; no specification uses one.

The chain for one program is: characters (`Lexer`), tokens (`Parser`), files (`Resolver`, `CrossFile`), names (`Scopes`), types (`Typing`), operations
(`Evaluation`, `Calling`), instructions (`Backends`), and then what runs: `Execution`, `Session`, `Heap`, `Numbers`, `IntLoop`, `RealLoop`, `Console`, `Shortest`.
Each takes from the one before what that one promises, not its state.

### 2.1 Closure and Resolver: the search (`Resolve.cpp`)

`Closure` is what `docs/CROSSFILE.md` promises, with no stack and no files: a name asked for
that exactly one other file answers to may arrive, in any order, and the verdict is
"refused" if an asked name has rivals. `Resolver` is the code: `wanted` is the stack of names, `have` the names
settled, `pulls` the moves out of the other files' trees, in order; `used`, `borrowed` and `clashed` are the notices, the merged borrows and the remembered
clash. `Pass`, `Clash` and `Pull` are the turns of the loop of `resolve()`: the early continues, a name several files answer to, and
the move of a function with the globals of its file it mentions and the file's borrows, which pushes its calls. `Finish` is the empty stack.
The files as parsed (`tree`) are chosen in `Init` and never change, so one run covers a family of projects.

*Refinement*: `ImplementsClosure` is `Closure`'s specification under a mapping that reads the
roots, calls and rivals off `tree` and `arrived` off `pulls`.

### 2.2 CrossFile: from the search to the end of main (`Check.cpp`, `CodeGen.cpp`, `Runtime.cpp`)

Stages: resolving; surveying (function names and borrows); checking in declaration order, one action
per declaration, with one map of globals for all files (`visible`, `bound`); then start-up,
where `shm_init_globals` makes one global after another and each initializer may call functions that
read globals; then `main`. A guarded read of a global not yet made stops the program
("undefined"), an unguarded one would read an empty slot: `NothingReadBeforeItIsMade`
is the property that never happens. A name a body both assigns and
reads it assigns first.

### 2.3 Execution and Session: the runtime of a running program

`Execution`: `frames` are the calls on the stack, `total` and `perFunction` the counters of `Depth`,
`position` what `shm_line` last announced, `strayed` whether the statement that runs has called or gone round a loop since (the code then runs something
nobody announced), `buffered` whether printed text still waits in stdio's buffer, `outcome` how the program ended.
Bodies execute any of their statements next, call, return or fail: conditions and values
are left out, so every control flow is covered.

`Session` adds `Debug.cpp`: arming by `SHM_DEBUG`, the table of breakpoints, modes run/step/next/out,
the stop in `shm_line`, and each command. The editor is an actor of its own: it sends commands into an inbox
whenever it likes and may close the channel at any moment.

### 2.4 Typing, Evaluation, Places, Calling: from a tree to operations

`Ast` has the trees as the parser makes them. `Typing` is the checker on one statement: the types of its expressions from below, sizes of literals and calls from
where they are to go, the conversions it puts in, and whether it refuses. Names are constants: how they come and go is in `Scopes`.

`Evaluation` compiles what `Typing` accepted with operators that mirror the visits of `CodeGen` (threading the emitted code, `depth_` and `deepest_`) and executes what they
emitted on a processor of three kinds; a value is a term saying which operation made it, from what and when, so the comparison with the language's own account (`Meaning`) sees order and repetition, not only results.
A statement may have several targets, several outputs, references, loops' bounds, guarded globals.

`Places` is `CodeGen::planArguments`: argument *i* goes to a register of its file
while there is one, then to a position in a block of the caller's frame; the Windows target counts both files together.
`Calling` executes one call step by step: evaluation of each argument into a slot, the loads in
the order the code emits them (the accumulator *is* argument register 0 on arm64 and must be loaded last), the callee's entry,
its stores, the return of references and outputs, and the copy-backs. Evaluating or calling anything leaves junk in every register and every slot not yet reserved.

### 2.5 Emitter, Instructions, Backends: from operations to instructions (`src/src/backend`)

`Emitter` is the contract `CodeGen` relies on: which places hold what after each operation, and what an operation may destroy. `Instructions` is what the processors do with
the few instructions used, on words of four 16-bit parts, with memory by region and offset. `Backends` is the three emitters as sequences of
those instructions (constants part by part, offsets through a scratch register, frames in two steps, memory operands in the order of each assembler) and a function executed
as it is emitted: prologue, operations, epilogue. Beside the processor's state goes the promise; texts are data, 16 bytes a line.

### 2.6 Heap: arrays and strings (`Array.cpp`)

Arrays are addresses, rows of a table too. One action per kind of statement on arrays: declaration (with or without a literal),
creation from another name, whole assignment, one element, one row, joining texts, declaration again in a loop. A body has a set of variables, chosen in `HeapInit`. `leftOut` remembers that a literal left a row out. Arrays nothing can reach are left out, which keeps the state finite
although the runtime frees nothing.

### 2.7 IntLoop and RealLoop (`generateIntLoop`, `generateRealLoop`, `Numbers.cpp`)

The hidden slots, the pass in 64 bits (or in a real), the test by the step's sign and the counter copied or computed
for each body, which may assign the counter, continue or break. The pass of a real loop is itself a real and stands still once one more is lost on it, at 2^53 in the code:
a loop that still runs then runs for ever. `RealLoop` has that (`CountedOut`), and `RealLoopEnds` says both when a loop must end (`Countable`) and that it can only go on for ever that way.

### 2.8 Scopes: names in one function (`Check.cpp`, `CodeGen.cpp`)

A function is written item by item; the checker's stack of scopes, declared names and `alwaysReturns()` accept or refuse each item;
an accepted function is lowered to jumps and run with its conditions going either way. Beside the slots goes the language's own account,
with blocks that open and close as they execute.

### 2.9 Compilation and Driver (`Driver.cpp`)

`Compilation` is what a command promises whoever looks at its status and at the disk: it is one step, which makes what was asked for, or finds the program at fault and touches nothing, or fails, makes
nothing and leaves what lay there, nothing, or half of the text it was asked for, or is killed; other files it never touches. So 0 never goes with an older result; after 2 an older one may be there still, and the status alone tells.
Its variable `full` is the one thing a status of 0 may hide, a disk that filled up as the text was closed. `Driver` is the code: one action per argument (`disk` starts as one of the constant `Disks`), then one per file read and per pass, the search for the runtime archive
and the assembler, linker or `c++` of the host, on a disk that is a function from paths to files. Every failure the code looks at (unreadable file, fault in a source, full disk,
failing `c++`, being killed) is an action, and so is one it does not look at, a write that fails when the file is closed (`lost`). Compilations follow one another on one disk.

*Refinement*: `ImplementsCompilation` reads `verdict` off the stage and status, `full` off `lost`, and `request` off the command and the disk it found.

### 2.10 Numbers, Console, Shortest (`Numbers.cpp`, `Console.cpp`, `Shortest.cpp`)

`Numbers`: an accumulator of each type; one action per operation of the runtime, one per factor of a power. Values are computed in the wide type and narrowed or stopped. Reals are counted in halves, with infinities beyond a bound and NaN apart.

`Console`: values are the widths they print in; `column` is where the line is, `lineHasText` the flag, `printed` where the cells of the last grid ended. `Shortest`: a double is a short mantissa and an exponent, counted exactly in a unit that divides
every double and every decimal; `printf` and `strtod` are rounding to a digit and to a mantissa.

### 2.11 Lexer, Parser and Writing (`Lexer.cpp`, `Parser.cpp`)

`Lexer` makes one `step()` at a time over a text put together from pieces that are known to be one token, a gap or a mistake. `Parser` is the recursive descent as a function from tokens to a tree or the line of the first mistake, the four lookaheads whole. `Writing` writes programs statement by statement beside what they were written to mean, may spoil one token, and at any point has the parser read what there is (`Read`). Who writes (`writer`) decides how much there is to say: neighbours, trees, mistakes or jumps;
its properties compare what the parser makes of the text with what was meant. The parser module was compared with the built compiler on 700
random token sequences: acceptance and the line of the error agree on all of them.

## 3. The runs

Eight runs pass; the four whose name is that of a finding (section 5) end in a counterexample. Every property of a passing run has
a mutant: a plausible slip in the code, under which TLC finds that property violated.

| Run | Shows | Bounds, and why they are enough |
|---|---|---|
| `cross_file` | the search brings exactly the closure and refuses exactly for rivals (`SearchIsExact`), moves globals before their readers, terminates and implements `Closure`; then names are bound to the right file's global (`EachFileFindsItsGlobals`), unknown names are only those nobody has, and no global is read before it holds a value nor refused once it does (`NothingReadBeforeItIsMade`) | two families of projects of three files: one for the search (cycles, rivals, library names, a companion with its own `main`), one for what follows (a global of one name in several files, initializers that call, foreign functions). Two other files are the fewest that can be rivals, and the theorems lift the bound for every safety property of the run; `MaxDepth` 3 lets an initializer reach a global through a function of another function |
| `session` | counters are the stack and ceilings hold (`DepthIsKept`); failures, stops and `w` name the right place (`PlacesAreRight`); whoever looks at a stopped or finished program sees all it printed; it stops exactly where asked, its breakpoints are those asked for, and a closed channel lets it run | two calls deep with a counter for one of the two functions, so the overall ceiling, a function's own and the uncounted function are met; 2 breakpoints in the table for 3 places, so it fills and is removed from in the middle; 1 unread command: the session reads one at a time, and later ones wait outside it. All but the liveness are theorems for every size |
| `code` | a statement is accepted exactly when it has a meaning (`AcceptsWhatHasAMeaning`), and then does that (`DoesWhatItSays`) in the reserved frame; arguments, references and outputs cross a call and the caller's slots survive; each emitter keeps its promise (`PromisesAreKept`) and touches nothing of its caller's (`CallersFrameIsIntact`) | statements over expressions of two operators, the real register counts: an operand that waits, one that destroys the accumulator and a call between them are all met with two. The three properties of calls are theorems for every prototype and number of registers. Calls of up to 4 inputs with registers scaled down (arm64 3 int and 2 real, System V 2 and 3, Windows 3 shared by position), so overflow of either file is met. Three operations in a row in small frames, two in frames up to and beyond what an immediate reaches (4095 bytes, 4095 words, 65535 bytes); the two properties of emitters are theorems for every frame, any number of operations and any text. Left out because of findings: real elements by reference but on Windows, answers of functions with a reference; a compound assignment's index calls no function; sizes that subtract a converted real |
| `heap` | assignment copies what fits, ends a text, and changes nothing else; other texts never change; a program meets a missing row only if a literal left it out (`RowsAreThere`) | three bodies: two texts of up to 3 cells; two tables of up to 2 rows or cells and a row; two tables with room for all their rows. Heaps of 3, 4 and 7 arrays. Symmetry on the two tables is sound: nothing tells them apart and no liveness is checked. All three properties are theorems for heaps of any size |
| `numbers` | arithmetic, division and conversions are exact or stopped (`ArithmeticIsExact`), powers too; the passes of a loop over ints are exactly start, start + step, … to end, at the edges of int too (`PassesAsPromised`); a real counter stays within two roundings of start + pass · step; every int loop ends, and every real loop whose passes a mantissa counts, even if a step changes nothing; another ends or outruns its count (`LoopsEnd`); cells of a grid end in the same columns wherever on a line it began (`GridsLineUp`); the digits of a real read back as it (`RealsReadBack`) | int of 4 bits, wide of 8, char of 2, reals in halves to just beyond the ints: every pair of ints. Loops over −4..3: the smallest has no opposite, as in the code; real loops with mantissas of 3 bits and bounds to 20: steps below half a unit of the counter happen, and so do loops of more than 8 passes, where the count stands still and the loop does not end. Doubles of mantissa 4 and exponents −11..4: plain and scientific layouts, every number of digits to the one that always suffices. Lines to column 12, grids of up to three rows, rows of different lengths. The properties of ints, powers and grids are theorems for every width, the one of real counters for every mantissa |
| `scopes` | a read is of the binding the blocks give; no function falls off its end; each name is declared once | one name, which several bindings compete for (two would only separate the cases), 7 items, blocks 3 deep. All three are theorems for any names, length and depth |
| `driver` | files with the extension of a source survive and a refusal touches nothing (`SourcesSurvive`); whatever is on the disk, whatever fails and whenever it is killed, a command is a step of `Compilation` | 4 arguments (an option with its value and two files); one compilation over many disks, or two where the second finds whatever the first left, on POSIX and Windows. Both properties are theorems |
| `reading` | a text becomes the tokens it was written as (`LexesWhatIsWritten`), tokens the program (`ReadsWhatIsWritten`); slips are blamed no earlier than they were made, a jump outside every loop is refused where it stands, and nothing is lost | characters: two tokens of any kind, every gap between and around them, or none where none is needed, and one mistake; ints to 99, powers of ten to 9. Tokens, four writers: two statements, or a block with one, on one line or several, over confusing expressions (each lookahead decides between two neighbours); one declaration over every tree of two operators; such programs with one token left out or put in; and programs of five pieces over one name, in which a block holds a jump or is followed by one |

`CHECK_DEADLOCK FALSE` is in the configurations because every one of these ends: a search, a
compilation, a statement, a loop, a program. Only `Heap` need not, and its bound ends it.

**Fairness.** `CrossFile` takes weak fairness of the search's steps, `MCNumbers` of each loop's: a
sequential loop goes on while it can. `IntLoop` does not thereby make a body end: its body is one step, because
the question is the loop's own progress. `Session` has it of the conversation only, the reading of commands while stopped; the program between two stops may loop for ever, and the editor need
never send anything: `AClosedChannelLetsItRun` therefore speaks of a channel that is closed.

**Vacuity.** Beside the mutants, the four violation runs are the same specifications under bounds as small, with a property that is false.

## 4. What is proved

TLAPS proves the following for every value of the constants that the named assumptions allow.

* **Resolver** (`CrossFileProofs`; assumption `ResolverAssumption`: the constants' types). `IInv` is the type invariant
  with four parts: what each variable of the search has to do with the names asked for (`HaveInv`), with what was moved (`PullInv`), with borrows (`BorrowInv`) and,
  the part that makes it inductive, `StackInv`: every name that is asked for is settled, or on the stack, or needs nothing. Without it
  nothing says that a name pushed twice, or one whose caller was moved earlier, is not forgotten; with an empty stack it is completeness. From it follow `NothingUnasked`,
  `NothingMissing` (so the outcome does not depend on the order of the stack) and `RefusalExact`, together `SearchExact`; `GlobalsPrecede`; and `RefinesClosure`, that
  initial states map to initial states of `Closure` and steps to steps or stutters, which is the safety part of `ImplementsClosure`.
* **CrossFile** (`CrossFileProofs` again; with `ResolverAssumption` and `CrossFileAssumption`: the ceiling is a positive number). `CrossInv` puts four parts beside `IInv`. `OrderInv`: the main file's declarations come first, and a function that was
  brought in stands behind the globals of its own move and of all moves before, which with `GlobalsPrecede` is: behind those it mentions. `CheckInv`: what the walk bound and reported, up to `at`; without an error a name stands for its only global.
  `StageInv`: what each stage has done and what it has not begun.
  `RunInv`: while globals are made every body on the stack is one that guards its reads, because a call from a guarded body enters another (`GuardedCallsGuarded`), and one more global is made than the last that has returned. From these follow the three properties of the run:
  `NothingReadEarly`, `GlobalsFound` and, with `NothingMissing`, `UnknownIsNobodys`.
* **Numbers, IntLoop, Console and RealLoop** (`NumbersProofs`). *Numbers* (`NumbersAssumption`: the wide type holds the products of two ints, chars are among the ints): types and exactness are inductive with
  the state of a power under way (`PowerInv`: what is multiplied so far is base to the number of factors taken, and a power that failed would not have been an int); division and conversion are about one step, and hold for every width; together they are `ArithmeticExact`, and `PowersExact`.
  *IntLoop* (`RangeAssumption`: the smallest int is negative and the largest positive, nothing else of the width): `LoopInv` ties the pass slot to `first + passes * step`, whatever bodies did to the counter; order, bounds and completeness of the passes follow, together `AsPromised`.
  *Console* (`ConsoleAssumption`: no grid is empty and none of its rows, as `checkExtent` has it): `ConsoleInv` says that a line has text exactly when its column is positive; from it, row by row, `ColumnsLineUp`.
  *RealLoop* (`DigitsAssumption`: a mantissa has bits): `RealLoopInv` says that every slot holds a real and that a body finds the counter computed from the pass, on this side of the end. That a body finds the counter within two roundings of start + pass · step is then about one product and one sum (`RoundedProductAndSum`):
  unless the product is more than one size larger than the sum, what it lost to rounding is no more than the sum's last bit; if it is, start and product nearly cancel and the sum of the two reals is a real as it is, so nothing more is lost. That the counter is never before the start rests on `NeverPast`: rounding does not go past a real. These are laws of rounding to a multiple (`RoundTo`)
  and of which multiples a mantissa holds (`MantissaHolds`). Powers of two are the recursive function `TwoTo`, because the provers have no law of `^`; what it computes is got by least elements, as below. That a mantissa counts the passes is not used: what is proved holds in a loop that never ends, too. Reals are whole numbers without a largest, so neither what is lost below the smallest double nor infinity is part of the theorem.
* **Places and Calling** (`CallingProofs`). For every number of registers and every prototype two arguments never share a place (`PlacesDistinct`), and a place exists where it is said to be (`PlacesExist`). On these rests the call: `CallInv` says, for each step of it, what the caller's
  slots, the overflow block and the registers hold, in eight parts: `Shaped` (types, and that the machine and the call are one of the cases), `CallersOwn` (the caller's variables and elements), `Evaluation` (arguments evaluated so far wait in slots of their own), `Overflowed` and `Loaded` (those put in
  their places so far), `Pointed` (a reference is the address of what it stands for), `Returned` (where the outputs are) and `BroughtBack` (references up to the one under way). None could be left out: that an argument arrives is `Loaded` at the jump, which needs `Evaluation` when the register is loaded, which needs that evaluating
  a later argument wrote elsewhere. From it follow `CallsPassTheirArguments`, `CallsLeaveTheCallerIntact` and `CallsBringReferencesBack`. The assumption is `CallingAssumption` (what a target and a call are), and for references there is the hypothesis
  `RealElementsByPosition`: a real element only on a target that counts both files together. Without it the theorem is false: that is the finding `real_elements_come_back`.
* **Emitters** (`BackendsProofs`; `BackendsAssumption`: a frame has a number of slots and uses some of them, operations have the operands `Emitter.h` gives them, texts are not empty). The theorems are about the three real targets, with their own registers, and hold for any frame, any sequence of operations that suit the
  promises and any texts. `BackInv` is inductive. In the body it says two things of the processor (`StillGood`): that it is in the body (`Body`: nothing was refused, nothing is being skipped, the stack pointer is where the prologue left it, the caller's saved registers lie where it put them and its preserved registers and stack are
  untouched), and that every promise is about a place of this function and true there (`Good`). Before, it says that the processor is as called; after, `Intact`, which is the second property. The properties alone are not inductive: nothing in them says where the saved registers are, or that a promise names a slot of the frame.
  The argument goes in four layers. *Instructions*: what each does (`DoLoad`, `DoStore`, `DoCall`, …) and what a code does (`RanBoth`, `JumpedOver`), put as what it spares (`Spares`, `Kept`): registers and cells it leaves alone. *Spelling*: on AArch64 every instruction emitted fits its field (`Roomy`, `RoomFor`, `FarAway`), offsets beyond it
  going through x16; on x86-64 every text reads as what it means in either operand order (`LoadRead`, `CopyRead`, `SumRead`). *Places*: what the registers and the cells of a function are to the promise (`RegistersApart`, `CellsApart`): no two places share one, but an accumulator and the first argument of its file. So code loses only the
  promises of the registers and cells it touches (`Loses`), and `GoodPut` and `GoodMoved` say that what it brings may be promised. *Operations*: one lemma each for the nineteen (`StoreSlotKeeps` … `LoadThroughPointerKeeps`, together `EveryOperationKeeps`), and for the prologues and epilogues (`ArmEnters`, `X86Enters`, `ArmLeaves`, `X86Leaves`).
  Beside these `ArmDataIs` and `X86DataIs` go along a text byte by byte. From `BackInv` follow `EmittersKeepTheirPromises` and `FunctionsLeaveTheirCaller`; the registers a function preserves are those of its ABI, but for xmm8 on Windows (section 5). Offsets are numbers without a width: a frame of 2^28 slots, where the code's `int` overflows, is outside the model.
* **Heap** (`HeapProofs`; `HeapAssumption`: a variable is of one kind, shapes are of at least one cell). `HeapInv`: the heap is a function on an initial segment of the numbers whose arrays hold what their kind says; a variable that was made points to an array of its kind; two texts of a body are two arrays; and no row is missing unless a literal left
  it out. The lemmas say what each routine of `Array.cpp` does to the heap, in two forms: it rewrites the contents of some arrays, or grows the heap by new ones and leaves the old. From `HeapStaysTyped` follow `RowsStayThere`, `TextsChangeOneAtATime` and `AssignmentsCopy`, the last two properties of steps.
* **Session and Execution** (`SessionProofs`; `ExecutionAssumption` and `SessionAssumption`: types of the constants, different counters for different functions). Four inductive invariants, each with the ones before it.
  `StackInv`: the shape of the stack by phase, the counters as cardinalities of the open calls, below their ceilings: `DepthKept`. `PrintInv`: text is only in the buffer while the program runs unstopped: `PrintedSeen`.
  `TableInv`: the table has no breakpoint twice and holds those asked for; the hard step is a removal, which moves the last into the gap: `BreakpointsKept`. `PlacesInv` ties the position, and what was last said of it, to the top of
  the stack unless it strayed: `PlacesRight`. Finally `RestIsTheCallsGiven` says that the depth a step command remembers is the number of calls then open, which makes the action property
  `StopsAsAsked` follow from one step.
* **Scopes** (`ScopesProofs`; `ScopesAssumption`: the bounds are numbers). The stack of scopes cannot show `DeclaredOnce`, because a block that closed has taken its names along; the set of declared names can: `DeclaredInv`. The other two relate a run, which sees items and jumps, to scopes, which the check has long closed.
  `ScopeInv` therefore says that there is a *history*: one stack of scopes for each place of the code, the next got from the one before by the item between them (`Becomes`), no slot being given twice (`Apart`). While checking, the last stack is the checker's (`Checks`); while running, the run's memory and environment hold what the
  stack at `pc` says (`Runs`). What makes a step of the run work is where jumps land. `Meanwhile`: while a block is open, the stack below it does not change; `BlocksEnd`, `EndLabel`, `ArmLabel`, `LoopsAreFound`: the ends found by counting depths are the ends of the block the history says is open, so a jump lands at a place whose stack is the one the jump left, less what the
  closed blocks had. `ReadsFollow` and `NoneFallsOff` follow at the item reached. The history is bound by a quantifier over sequences, so TLC cannot evaluate `ScopeInv`; it checks the two properties.
* **Driver** (`DriverProofs`; `DriverAssumption` and `NamesAssumption`: paths are sequences of strings, no `-o` names a source, no input has the extension twice; a disk is a finite number of known files, and a source has one of the faults there are). `TouchInv` says of each stage what the disk may differ in from the one the command found, and which statuses
  it can have; `OutputsLookOtherwise` that none of these files ends as a source does. Together they are `SourcesKept`, which is about files with the extension: a program in a file without it is replaced by its own result (section 5). `NamesAssumption` is needed: without it the code overwrites a source (section 5). `ReadInv` adds what has been read: every file gathered, none of the files read so far at fault and, once something is made, that what
  was asked for is a program that all of them make. `WriteInv` adds, for each stage after that, which of the result and the assembly text lies on the disk, and whole or broken. That a result is broken only if the text was lost at the close is `HalfIfLost`, a part of it. With the three, `CommandsKeepThePromise`: `DriverSpec => ImplementsCompilation`, every step of the driver but the one that ends a command or begins the next leaving the promise where it is; those two are its `Compile` and `NextCommand`.

Where a proof goes along a range of numbers (rows, factors, items, open blocks) it takes a least element of a set of naturals: the library's induction theorems take an operator as a parameter, which no prover here can instantiate.

Only model-checked:

* everything under fairness: `Terminates`, `LoopsEnd`, `AClosedChannelLetsItRun`, and with the first the liveness part of `ImplementsClosure`;
* `DoesWhatItSays`, `AcceptsWhatHasAMeaning`, `EverySlotIsInTheFrame`, `ReadsWhatIsWritten`, `RefusesWhereItStops`, `NothingIsLost`: `Typing`, `Evaluation`, `Parser` and `Writing` are written with RECURSIVE operators like the methods they model, which the provers do not take;
* `LexesWhatIsWritten`: the text is a flattened sequence of pieces and a token a fold over characters, whose values only induction over data gives;
* `RealsReadBack`: the digits of a real come out of a search over powers of ten, digit by digit, and reading them back is a fold over what was written;

## 5. What was found

Four disagreements of the code with what the repository says of it are runs with a counterexample. Each was observed on the built compiler too.

| Run | The code | What the repository says |
|---|---|---|
| `own_globals_only` | a brought-in body may be bound to main's global of the same name (`Check.cpp:69`) | CROSSFILE.md:53, README.md:111 |
| `real_elements_come_back` | the copy-back of a real element loads the wrong register (`CodeGen.cpp:508`) | tests/cases/ref_element.shm:1 |
| `assignment_always_copies` | an array assigned to itself is cleared (`Array.cpp:181`) | CONFORMANCE.md:20 |
| `answer_is_lost` | the only output of a function with a reference parameter is overwritten by what came back through it (`CodeGen.cpp:518`) | README.md:38 |

### Known differences

These were met while modelling and reproduced on the built compiler. The models do what the code does; no run asks about them, and the properties of the passing runs are stated so that they
do not depend on them.

* A global that travels with a function leaves behind what its own initializer calls or reads (`Resolve.cpp:154`; FOREIGN.md:110).
* Foreign declarations of a companion stay behind (`Resolve.cpp:173`; FOREIGN.md:108).
* The main file may call what only another file borrowed (`Check.cpp:497`; Resolve.cpp:108).
* The borrow of a file nothing is taken from ends the search for that name (`Resolve.cpp:113`; the comment at :107).
* A global declaration carries no unit, so its diagnostics name the main file (`Parser.cpp:76`; CROSSFILE.md:76).
* The main file's borrow takes a variable's name away in other files (`Check.cpp:314`; FOREIGN.md:141).
* A failure after a call has returned, or in a loop's condition evaluated again, is reported at the last statement begun (`CodeGen.cpp:182`; DEBUGGING.md:10).
* Any value of `SHM_DEBUG` but the empty one and `0` arms the session (`Debug.cpp:55`; DEBUGGING.md:66).
* Base and index of an element passed by reference are evaluated again after the call (`CodeGen.cpp:503`; tests/cases/ref_element.shm:1).
* Arguments beyond the registers reach foreign functions by this compiler's own rule (`CodeGen.cpp:484`; CONFORMANCE.md:117).
* A name created from a text that fills its array loses the last character (`CodeGen.cpp:716`; CONFORMANCE.md:20).
* `max` and `min` lose a NaN that comes before a number (`Numbers.cpp:169`; the comment at :167).
* A comma after the last parameter is accepted (`Parser.cpp:191`; the comment at :95).
* `a[f()] +: 5` evaluates `f()` twice, reading one element and storing another (`CodeGen.cpp:757`; tests/cases/prec_once.shm:2).
* `+:` on a char leaves a char beyond 255 (`Check.cpp:757`; tests/cases/err_char_arith.expected:1), where `+` of chars is refused.
* A function without outputs where a value is meant is accepted, and `x : nothing()` crashes the compiler (`Check.cpp:427`, `:712`, `:285`); so does an array literal where a scalar is meant (`Check.cpp:346`). A row of texts is accepted as `char[][]`.
* Loops over ints evaluate end, step, start, loops over reals start, end, step (`CodeGen.cpp`, `generateIntLoop`, `generateRealLoop`).
* Whether a file was written is asked before it is flushed (`Driver.cpp:102`): `shc -S -o /dev/full` of a small program exits with 0. `Compilation` says so (`Succeeded` allows a broken result if the disk filled up at the close, and then only).
* A result that has a source's name takes its place: `shc -S a.shl -o a.shl`, or a program `a.shl.shl` beside `a.shl` (`Driver.cpp` does not look). `NamesAssumption` leaves such commands out.
* A program in a file without an extension is replaced by its own result: after `shc bare`, `bare` is an executable (`Driver.cpp:72`, `:483`).
* After exit status 2 the result of an earlier compilation may still lie in its place (`Driver.cpp:490`).
* A real loop of more than 2^53 passes never ends: `for x : 1e300 to 2e300 step 1.` (`CodeGen.cpp:929`, `Numbers.cpp:146`).
* A size is worked out with conversions that round nothing: `int v[int(1.5) - int(0.6)]` has one element and is refused, "size must be 1 or more, got 0.900000" (`Check.cpp:878`, `:627`).
* A Windows callee may change xmm8, which belongs to its caller (`X86_64.cpp:127`), and frames beyond a page are not probed (`X86_64.cpp:60`).
* `7else` is a malformed number, not `7` and `else` (`Lexer.cpp`).
* The digits of a power of two are not always the fewest: `? 2. ^ 89` prints `6.1897001964269014e+26`, and `6.189700196426902e+26` reads back as well (`Shortest.cpp:57`; tests/shortest.sh:6). `RealsReadBack` asks for the fewest of all but powers of two.
* A line break inside a text breaks the columns of its table (`Console.cpp:26`).

## 6. What is not modelled

* The wording of diagnostics, and warnings.
* The driver's exit status 3, "not compiled yet" (`Driver.cpp:413`, `:451`): no pass calls `Diagnostics::unsupported()`.
* What the checker refuses of prototypes before its walk (two outputs of a foreign function, inputs of `main`, a function called `prec`: `Check.cpp:107`, `:139`, `:151`).
* Real loops whose start, end or step is not finite, which are refused (`Numbers.cpp:135`): every real of `RealLoop` is finite.
* Which multiples of the greatest power of ten a double holds: for the lexer all of them are finite.
* Arrays of three and more dimensions, text comparison and byte literals in `Heap`.
* Directives around functions and data, MASM's EXTRN lists, the table of file names.
* The driver's help text and the quoting of command lines; two compilations of one program at once.
* Real arithmetic beyond the loop's, which is the host's, and C's library functions.
* Whole-array assignment to a global an initializer has not made yet: it is dropped in silence (`CodeGen.cpp:731`), and needs start-up and arrays in one module.
* The composition of the chain of section 2 in one state space: each stage is checked against what it promises the next, and that the promises meet is read off the modules' constants and comments, not checked.

## 7. Plan

The order is by what a defect would cost: a wrong program accepted, a wrong value computed, a wrong place reported, then layout.

Done: Closure, Resolver and CrossFile with proofs; Execution and Session with proofs; Ast, Typing and Evaluation; Places and Calling with proofs; Emitter, Instructions and Backends with proofs; Heap with proofs; IntLoop and RealLoop with proofs; Scopes with proofs; Driver with proofs, and Compilation, which it is proved to implement; Numbers and Console with proofs; Shortest; Lexer, Parser and Writing.

To come:

1. **Start-up of arrays**: an extension of CrossFile in which a global may be an array, for `CodeGen.cpp:731`.
2. **Arrays of any rank** in Heap, with text comparison.
3. **Abstract specifications** for components that have only invariants: a stack of calls with a budget that `Execution` implements; an editor's view of a session (stopped or running, a set of breakpoints) that `Session` implements.

Theorems to come: the abstract specifications of point 3, refined step by step.
