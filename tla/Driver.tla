-------------------------------- MODULE Driver --------------------------------
(***************************************************************************)
(* shc at the command line: what it reads of its arguments and of the      *)
(* files, in which order it gives up and with which status, and what it    *)
(* leaves on the disk.  The passes between are taken for their verdicts: a *)
(* source has at most one fault, and may want a function it does not       *)
(* define, define the one that is wanted, or declare a foreign one.        *)
(* Compilations follow one another on one disk, of Windows or another.     *)
(***************************************************************************)
EXTENDS Integers, Sequences, FiniteSets, Functions

CONSTANTS
  Inputs,      \* paths a command may name: sequences of a stem and its extensions
  Outputs,     \* what -o may say
  Runtimes,    \* what --runtime may say
  Disks,       \* what may be on the disk, by path, of which host, and which compilation finds it so
  MaxArguments,   \* bound: arguments of a command
  MaxCommands     \* bound: compilations

\* What is the matter with a source, at most.
Faults == {"none", "lex", "parse", "check"}

\* There is an end of what lies on a disk, and each source has one fault or none.
KnownFiles(d) ==
  /\ IsFiniteSet(DOMAIN d)
  /\ \A f \in DOMAIN d : d[f].kind = "source" => d[f].fault \in Faults

ASSUME DriverAssumption ==
  /\ MaxArguments \in Nat /\ MaxCommands \in Nat
  /\ \A d \in Disks : KnownFiles(d.files)

VARIABLES
  host,          \* "posix" or "windows"
  disk, began,   \* the disk, and what it was when the command began
  command,       \* which compilation this is
  arguments,     \* how many it has been given
  options,
  stage,         \* how far run() is
  files, at,     \* the files to read, the one being read
  units,         \* those that parsed
  lost,          \* the disk filled up as the assembly text was closed, and nobody looked
  status

vars == <<host, disk, began, command, arguments, options, stage, files, at, units, lost, status>>

NoPath == <<>>
NoStatus == -1

NoOptions == [input |-> NoPath, companions |-> <<>>, search |-> TRUE, output |-> NoPath,
              target |-> "host", runtime |-> NoPath, library |-> FALSE, debug |-> FALSE,
              S |-> FALSE, c |-> FALSE]

Start == /\ stage = "arguments" /\ arguments = 0 /\ options = NoOptions
         /\ files = <<>> /\ at = 1 /\ units = <<>> /\ lost = FALSE /\ status = NoStatus

DriverInit == /\ \E d \in Disks : disk = d.files /\ command = d.command /\ host = d.host
              /\ began = disk /\ Start

\* The status is 0, 1 or 2.  3 is for what is not compiled yet, and no pass says that
\* of anything: Diagnostics::unsupported() has no callers.
Exit(s) == status' = s /\ stage' = "exited"

Go(to) == status' = status /\ stage' = to

-------------------------------------------------------------------------------
\* parseArguments(), one argument at a time.
Reading == stage = "arguments" /\ arguments < MaxArguments

Given(changed) ==
  /\ Reading
  /\ options' = changed
  /\ arguments' = arguments + 1
  /\ UNCHANGED <<host, disk, began, command, stage, files, at, units, lost, status>>

Option ==
  \/ \E o \in Outputs : Given([options EXCEPT !.output = o])
  \/ \E l \in Runtimes : Given([options EXCEPT !.runtime = l])
  \/ Given([options EXCEPT !.debug = TRUE])
  \/ Given([options EXCEPT !.S = TRUE])
  \/ Given([options EXCEPT !.c = TRUE])
  \/ Given([options EXCEPT !.library = TRUE])
  \/ Given([options EXCEPT !.search = FALSE])
  \/ \E t \in {"other", "unknown"} : Given([options EXCEPT !.target = t])

FileArgument(f) ==
  Given(IF options.input = NoPath THEN [options EXCEPT !.input = f]
        ELSE [options EXCEPT !.companions = Append(@, f)])

\* --version, --help; and an option there is not, a last -o among them.
Answer == stage = "arguments" /\ Exit(0)
          /\ UNCHANGED <<host, disk, began, command, arguments, options, files, at, units, lost>>

UnknownOption == stage = "arguments" /\ Exit(2)
                 /\ UNCHANGED <<host, disk, began, command, arguments, options, files, at, units, lost>>

-------------------------------------------------------------------------------
Shl == "shl"

\* Mutant: the output is called as the input is.
StemWhole(path) == path

\* Driver::stem(), one directory for all; looksLikeShalimar().
Stem(path) == IF Len(path) > 1 THEN SubSeq(path, 1, Len(path) - 1) ELSE path

LooksLikeShalimar(path) == Len(path) > 1 /\ path[Len(path)] = Shl

\* A result that is given a source's name takes its place: -o is not looked at, and an
\* input may have the extension twice.
ASSUME NamesAssumption ==
  /\ Inputs \subseteq Seq(STRING) /\ Outputs \subseteq Seq(STRING)
  /\ \A f \in Inputs : Len(f) > 2 => f[Len(f) - 1] # Shl
  /\ \A o \in Outputs : ~LooksLikeShalimar(o)

\* shalimarFilesIn(): in the order of their names, which nothing here can tell.
ShalimarFiles == {f \in DOMAIN disk : LooksLikeShalimar(f)}

AnyOrder(S) == CHOOSE s \in [1..Cardinality(S) -> S] : IsInjective(s)

Beside == {f \in ShalimarFiles : f # options.input /\ Stem(f) # Stem(options.input)}

\* run(): the arguments are there; which files are read.
Gather ==
  /\ stage = "arguments"
  /\ IF options.input = NoPath \/ options.target = "unknown"
     THEN Exit(2) /\ UNCHANGED files
     ELSE /\ files' = <<options.input>> \o
                        (IF options.companions # <<>> THEN options.companions
                         ELSE IF options.search THEN AnyOrder(Beside) ELSE <<>>)
          /\ Go("reading")
  /\ UNCHANGED <<host, disk, began, command, arguments, options, at, units, lost>>

\* A file that cannot be opened: none of its name, or a link to nothing.
Readable(f) == f \in DOMAIN disk /\ disk[f].kind # "nothing"

\* A file as it was read: nothing is written before all have been.
Source(f) == began[f]

\* What is not a source at all does not get past tokenize().
Fault(f) == IF ~Readable(f) THEN "unreadable"
            ELSE IF Source(f).kind = "source" THEN Source(f).fault
            ELSE "lex"

NextFile == at' = at + 1

\* The program's own file may fail to parse and the rest is read all the same; one
\* of the others that fails is left out.
ReadFile ==
  /\ stage = "reading" /\ at <= Len(files)
  /\ LET fault == Fault(files[at])
     IN  \/ fault = "unreadable" /\ Exit(2) /\ UNCHANGED <<at, units>>
         \/ fault = "lex" /\ at = 1 /\ Exit(1) /\ UNCHANGED <<at, units>>
         \/ /\ fault = "parse" \/ (fault = "lex" /\ at > 1)
            /\ NextFile /\ UNCHANGED units /\ Go(stage)
         \/ /\ fault \notin {"unreadable", "lex", "parse"}
            /\ NextFile /\ units' = Append(units, files[at]) /\ Go(stage)
  /\ UNCHANGED <<host, disk, began, command, arguments, options, files, lost>>

Main == options.input

MainParsed == units # <<>> /\ units[1] = files[1]

Offering == {i \in 2..Len(units) : Source(units[i]).offers}

\* Resolver::resolve(), when there is another file: two that have it is refused.
Resolve ==
  /\ stage = "reading" /\ at > Len(files)
  /\ IF \/ ~MainParsed
        \/ Source(Main).wants /\ Cardinality(Offering) > 1
     THEN Exit(1)
     ELSE Go("checking")
  /\ UNCHANGED <<host, disk, began, command, arguments, options, files, at, units, lost>>

Pulled == {units[i] : i \in {j \in Offering : Source(Main).wants}}

Sound == /\ Source(Main).wants => Offering # {}
         /\ \A f \in {Main} \cup Pulled : Fault(f) = "none"

Linking == ~options.S /\ ~options.c

-------------------------------------------------------------------------------
Named == options.output # NoPath

Output == IF Named THEN options.output
          ELSE IF host = "windows" /\ Linking THEN Append(Stem(Main), "exe")
          ELSE Stem(Main)

AssemblyPath == IF options.S THEN Output ELSE Append(Output, "s")

ObjectPath == IF options.c /\ Named THEN Output ELSE Append(Output, "o")

ResultPath == IF options.c THEN ObjectPath ELSE Output

\* defaultRuntimeObject(): in lib/ of the directory shc is in, or of the one above.
ArchiveOn(d) ==
  LET name == IF options.debug THEN "shmrt-debug" ELSE "shmrt"
  IN  IF options.runtime # NoPath THEN options.runtime
      ELSE IF <<"here", name>> \notin DOMAIN d /\ <<"above", name>> \in DOMAIN d
      THEN <<"above", name>> ELSE <<"here", name>>

Archive == ArchiveOn(disk)

Product(kind, sources, library) ==
  [kind |-> kind, by |-> command, of |-> sources,
   with |-> IF kind = "program" THEN library ELSE NoPath]

Made(kind) == Product(kind, {Main} \cup Pulled, Archive)

Broken == [kind |-> "broken"]

With(d, f, x) == [g \in DOMAIN d \cup {f} |-> IF g = f THEN x ELSE d[g]]

Without(d, f) == Restrict(d, DOMAIN d \ {f})

\* Checker::check(), and the library that was not named.
Check ==
  /\ stage = "checking"
  /\ IF ~Sound \/ (Source(Main).foreign /\ ~options.library /\ Linking)
     THEN Exit(1)
     ELSE Go("writing")
  /\ UNCHANGED <<host, disk, began, command, arguments, options, files, at, units, lost>>

\* writeFile(): it does not open, or it fills up the disk, or it is written; or it
\* fills up the disk as it is closed, after the last look at it.
WriteAssembly ==
  /\ stage = "writing"
  /\ \/ disk' = disk /\ Exit(2) /\ UNCHANGED lost
     \/ disk' = With(disk, AssemblyPath, Broken) /\ Exit(2) /\ UNCHANGED lost
     \/ /\ lost' \in BOOLEAN
        /\ disk' = With(disk, AssemblyPath, IF lost' THEN Broken ELSE Made("assembly"))
        /\ IF options.S THEN Exit(0)
           ELSE IF options.target = "host" THEN Go("assembling")
           ELSE Exit(2)
  /\ UNCHANGED <<host, began, command, arguments, options, files, at, units>>

\* A tool that makes the file f out of the file from, or fails and leaves what was
\* there or nothing.  Half of an assembly may be one, too.
Tool(from, f, x) ==
  \/ disk' = With(disk, f, IF disk[from] = Broken THEN Broken ELSE x) /\ status' = 0
  \/ disk' \in {disk, Without(disk, f)} /\ status' = 2

ToolFails(f) == disk' \in {disk, Without(disk, f)} /\ status' = 2

\* Mutant: the status of c++ is not looked at.
AssembleUnseen ==
  /\ stage = "assembling"
  /\ disk' \in {With(disk, ResultPath, Made(IF options.c THEN "object" ELSE "program")), disk}
  /\ status' = 0
  /\ stage' = "removing"
  /\ UNCHANGED <<host, began, command, arguments, options, files, at, units, lost>>

\* c++, which also links unless it is told not to; or ml64, which does not.
Assemble ==
  /\ stage = "assembling"
  /\ IF options.c \/ host = "windows" THEN Tool(AssemblyPath, ObjectPath, Made("object"))
     ELSE IF Archive \in DOMAIN disk THEN Tool(AssemblyPath, ResultPath, Made("program"))
     ELSE ToolFails(ResultPath)
  /\ stage' = "removing"
  /\ UNCHANGED <<host, began, command, arguments, options, files, at, units, lost>>

\* The assembly goes either way.
Remove ==
  /\ stage = "removing"
  /\ disk' = Without(disk, AssemblyPath)
  /\ IF host = "windows" /\ ~options.c /\ status = 0 THEN Go("linking") ELSE Exit(status)
  /\ UNCHANGED <<host, began, command, arguments, options, files, at, units, lost>>

\* link, on Windows.
Link ==
  /\ stage = "linking"
  /\ IF Archive \in DOMAIN disk THEN Tool(ObjectPath, ResultPath, Made("program"))
     ELSE ToolFails(ResultPath)
  /\ stage' = "clearing"
  /\ UNCHANGED <<host, began, command, arguments, options, files, at, units, lost>>

\* And so does the object that was linked.
Clear ==
  /\ stage = "clearing"
  /\ disk' = Without(disk, ObjectPath)
  /\ Exit(status)
  /\ UNCHANGED <<host, began, command, arguments, options, files, at, units, lost>>

\* A signal, between any two steps.
Killed ==
  /\ stage \notin {"arguments", "exited"}
  /\ Exit(NoStatus)
  /\ UNCHANGED <<host, disk, began, command, arguments, options, files, at, units, lost>>

NextCommand ==
  /\ stage = "exited" /\ command < MaxCommands
  /\ command' = command + 1 /\ began' = disk /\ UNCHANGED <<host, disk>>
  /\ stage' = "arguments" /\ arguments' = 0 /\ options' = NoOptions
  /\ files' = <<>> /\ at' = 1 /\ units' = <<>> /\ lost' = FALSE /\ status' = NoStatus

Steps == Gather \/ ReadFile \/ Resolve \/ Check \/ WriteAssembly \/ Assemble \/ Remove
         \/ Link \/ Clear

DriverNext ==
  \/ Option \/ \E f \in Inputs : FileArgument(f)
  \/ Answer \/ UnknownOption
  \/ Steps \/ Killed \/ NextCommand

DriverSpec == DriverInit /\ [][DriverNext]_vars

-------------------------------------------------------------------------------
\* The program a command is about, told of the disk it found: the files that would
\* have the wanted function, those that parse.
Found(f) == IF f \in DOMAIN began THEN began[f] ELSE [kind |-> "nothing"]

Parses(f) == Found(f).kind = "source" /\ Found(f).fault \in {"none", "check"}

Rivals == {j \in 2..Len(files) : Parses(files[j]) /\ Found(files[j]).offers}

Program ==
  {Main} \cup {files[j] : j \in {r \in Rivals : Found(Main).kind = "source" /\ Found(Main).wants}}

Compiles ==
  /\ \A f \in Program : Found(f).kind = "source" /\ Found(f).fault = "none"
  /\ Found(Main).wants => Cardinality(Rivals) = 1
  /\ Found(Main).foreign => options.library \/ ~Linking

\* Files used on the way.
Assemblies == IF options.S THEN {} ELSE {AssemblyPath}

Objects == IF host = "windows" /\ Linking THEN {ObjectPath} ELSE {}

\* What the command asks for, told of its arguments and of the disk it found.
Request ==
  [compiles |-> Compiles,
   place    |-> IF options.S THEN AssemblyPath ELSE ResultPath,
   made     |-> Product(IF options.S THEN "assembly"
                        ELSE IF options.c THEN "object" ELSE "program",
                        Program, ArchiveOn(began)),
   assembly |-> Assemblies,
   object   |-> Objects,
   kept     |-> IF options.target = "host" THEN {} ELSE {Product("assembly", Program, NoPath)}]

\* Between a command's first step and its last nobody looks.
Promise == INSTANCE Compilation WITH
  disk    <- IF stage = "exited" THEN disk ELSE began,
  verdict <- IF stage = "exited" THEN status ELSE -2,
  full    <- lost,
  request <- IF files = <<>>
             THEN [compiles |-> FALSE, place |-> NoPath, made |-> {},
                   assembly |-> {}, object |-> {}, kept |-> {}]
             ELSE Request

\* Whatever the passes, the tools and the disk do, and whatever earlier commands left
\* behind, a command keeps the promise of Compilation.  0: the program has no fault and
\* the result lies there, made of it by this command, or broken if the disk filled up
\* as the assembly text was closed.  1: the program is at fault and nothing was touched.
\* 2: nothing was made; in its place lies what lay there before, or nothing, or half of
\* the text that was asked for (Driver.cpp: run(), writeFile()).
ImplementsCompilation == Promise!Spec

\* Whenever it stops or is stopped, a command has touched its result and what it needs
\* on the way only, and none of these is a file with the extension of a source.  (A
\* program in a file without is replaced by its own result: Driver.cpp:483.)
SourcesSurvive ==
  /\ \A f \in DOMAIN began : LooksLikeShalimar(f) => f \in DOMAIN disk /\ disk[f] = began[f]
  /\ {f \in DOMAIN began \cup DOMAIN disk :
        ~(f \in DOMAIN began \cap DOMAIN disk /\ disk[f] = began[f])}
       \subseteq {ResultPath, AssemblyPath} \cup Objects
  /\ stage \in {"arguments", "reading", "checking", "writing"} \/ status = 1 => disk = began
===============================================================================
