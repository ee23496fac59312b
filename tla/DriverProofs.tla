------------------------------ MODULE DriverProofs ------------------------------
(***************************************************************************)
(* What a compilation may touch, for all names of files, all disks and     *)
(* commands of any length; and what its exit status tells: each command is *)
(* one step of Compilation.  A file with the extension of a source could   *)
(* be overwritten only by a result or an assembly that has its name, and   *)
(* these end otherwise; a source without the extension is not so safe.     *)
(***************************************************************************)
EXTENDS Driver, SequenceTheorems, FiniteSetTheorems, FunctionTheorems, TLAPS

Stages == {"arguments", "reading", "checking", "writing", "assembling", "removing",
           "linking", "clearing", "exited"}

\* Nothing has been written before these.
Looking == {"arguments", "reading", "checking", "writing"}

Same(f) == f \in DOMAIN began /\ f \in DOMAIN disk /\ disk[f] = began[f]

Touchable == {ResultPath, AssemblyPath} \cup Objects

Options ==
  [input: Inputs \cup {NoPath}, companions: Seq(Inputs), search: BOOLEAN,
   output: Outputs \cup {NoPath}, target: {"host", "other", "unknown"},
   runtime: Runtimes \cup {NoPath}, library: BOOLEAN, debug: BOOLEAN, S: BOOLEAN, c: BOOLEAN]

OptionsOK == options \in Options

TouchInv ==
  /\ stage \in Stages
  /\ OptionsOK
  /\ \A f \in DOMAIN began \cup DOMAIN disk : Same(f) \/ f \in Touchable
  /\ stage \in Looking \/ status = 1 => disk = began
  /\ stage \in Looking \cup {"assembling"} => status = NoStatus
  /\ stage = "removing" => status \in {0, 2}
  /\ stage \in {"assembling", "removing"} => ~options.S
  /\ stage \in {"linking", "clearing"} => status \in {0, 2} /\ host = "windows" /\ Linking

\* What paths are put together from; the last three are strings, which the provers are
\* not told.
Parts == STRING \cup {"exe", "s", "o"}

\* No extension a command appends is that of a source.
LEMMA Extensions == \A extension \in {"exe", "s", "o"} : extension \in Parts /\ extension # Shl
  BY DEF Shl, Parts

\* What ends in another extension does not look like Shalimar.
LEMMA OtherExtension ==
  ASSUME NEW path \in Seq(Parts), NEW extension \in Parts, extension # Shl
  PROVE  Append(path, extension) \in Seq(Parts) /\ ~LooksLikeShalimar(Append(path, extension))
<1>1. /\ Append(path, extension) \in Seq(Parts)
      /\ Len(Append(path, extension)) = Len(path) + 1
      /\ Append(path, extension)[Len(path) + 1] = extension
  BY AppendProperties
<1> QED BY <1>1 DEF LooksLikeShalimar

\* Nor does what the program is called without its extension.
LEMMA StemsLookOtherwise ==
  ASSUME OptionsOK
  PROVE  Stem(Main) \in Seq(Parts) /\ ~LooksLikeShalimar(Stem(Main))
<1>1. CASE Main = NoPath
  <2>1. Stem(Main) = <<>>
    BY <1>1 DEF Stem, NoPath
  <2> QED BY <2>1 DEF LooksLikeShalimar
<1>2. CASE Main \in Inputs
  <2>1. Main \in Seq(Parts) /\ (Len(Main) > 2 => Main[Len(Main) - 1] # Shl)
    <3>1. Main \in Seq(STRING) /\ (Len(Main) > 2 => Main[Len(Main) - 1] # Shl)
      BY <1>2, NamesAssumption
    <3> QED BY <3>1 DEF Parts
  <2>2. CASE Len(Main) > 1
    <3>1. Stem(Main) = SubSeq(Main, 1, Len(Main) - 1)
      BY <2>2 DEF Stem
    <3>2. Len(Main) \in Nat /\ \A i \in 1..Len(Main) - 1 : Main[i] \in Parts
      BY <2>1
    <3>3. /\ Stem(Main) \in Seq(Parts) /\ Len(Stem(Main)) = Len(Main) - 1
          /\ \A i \in 1..Len(Main) - 1 : Stem(Main)[i] = Main[i]
      BY <2>2, <3>1, <3>2, SubSeqProperties
    <3> QED BY <2>1, <2>2, <3>2, <3>3 DEF LooksLikeShalimar
  <2>3. CASE ~(Len(Main) > 1)
    BY <2>1, <2>3 DEF Stem, LooksLikeShalimar
  <2> QED BY <2>2, <2>3
<1> QED BY <1>1, <1>2 DEF OptionsOK, Options, Main

\* Nor is what -o says.
LEMMA OutputIsAPath ==
  ASSUME OptionsOK
  PROVE  Output \in Seq(Parts) /\ ~LooksLikeShalimar(Output)
<1>1. CASE Named
  <2>1. Output = options.output /\ options.output \in Outputs
    BY <1>1 DEF OptionsOK, Options, Named, Output
  <2>2. options.output \in Seq(STRING) /\ ~LooksLikeShalimar(options.output)
    BY <2>1, NamesAssumption
  <2> QED BY <2>1, <2>2 DEF Parts
<1>2. CASE ~Named
  <2>1. Output \in {Stem(Main), Append(Stem(Main), "exe")}
    BY <1>2 DEF Output
  <2>2. /\ Append(Stem(Main), "exe") \in Seq(Parts)
        /\ ~LooksLikeShalimar(Append(Stem(Main), "exe"))
    BY StemsLookOtherwise, Extensions, OtherExtension, Zenon
  <2> QED BY <2>1, <2>2, StemsLookOtherwise
<1> QED BY <1>1, <1>2

\* Nor is anything a compilation writes.
LEMMA OutputsLookOtherwise ==
  ASSUME OptionsOK
  PROVE  \A f \in Touchable : ~LooksLikeShalimar(f)
<1>1. Output \in Seq(Parts) /\ ~LooksLikeShalimar(Output)
  BY OutputIsAPath
<1>2. ~LooksLikeShalimar(AssemblyPath) /\ ~LooksLikeShalimar(ObjectPath)
  <2>1. ~LooksLikeShalimar(Append(Output, "s")) /\ ~LooksLikeShalimar(Append(Output, "o"))
    BY <1>1, Extensions, OtherExtension, Zenon
  <2>2. AssemblyPath \in {Output, Append(Output, "s")} /\ ObjectPath \in {Output, Append(Output, "o")}
    BY DEF AssemblyPath, ObjectPath
  <2> QED BY <1>1, <2>1, <2>2
<1> QED BY <1>1, <1>2 DEF Touchable, ResultPath, Objects

-------------------------------------------------------------------------------
\* A step concerns the file f at most.
ConcernsOnly(f) ==
  \A g : g # f => /\ g \in DOMAIN disk' <=> g \in DOMAIN disk
                  /\ g \in DOMAIN disk => disk'[g] = disk[g]

\* Writing or removing a file concerns that file.
LEMMA WritingAndRemoving ==
  ASSUME NEW f, NEW x,
         disk' = With(disk, f, x) \/ disk' = Without(disk, f) \/ disk' = disk
  PROVE  ConcernsOnly(f)
  BY DEF With, Without, Restrict, ConcernsOnly

\* A tool, whether it succeeds, concerns its result.
LEMMA ToolConcernsItsResult ==
  ASSUME NEW from, NEW f, NEW x, Tool(from, f, x) \/ ToolFails(f)
  PROVE  ConcernsOnly(f)
<1>1. CASE disk' = With(disk, f, IF disk[from] = Broken THEN Broken ELSE x)
  BY <1>1, WritingAndRemoving
<1>2. CASE disk' \in {disk, Without(disk, f)}
  BY <1>2, WritingAndRemoving
<1> QED BY <1>1, <1>2 DEF Tool, ToolFails

\* A step that concerns a file of the command leaves all others as the command found them.
LEMMA StaysTouched ==
  ASSUME TouchInv, NEW f \in Touchable, ConcernsOnly(f), UNCHANGED <<began, options, host>>
  PROVE  \A g \in DOMAIN began' \cup DOMAIN disk' : Same(g)' \/ g \in Touchable'
<1>1. Touchable' = Touchable
  BY DEF Touchable, ResultPath, AssemblyPath, ObjectPath, Objects, Output, Named, Stem, Main, Linking
<1>2. ASSUME NEW g \in DOMAIN began' \cup DOMAIN disk', g # f
      PROVE  Same(g)' \/ g \in Touchable
  BY <1>2 DEF TouchInv, ConcernsOnly, Same
<1> QED BY <1>1, <1>2

\* A step that only looks, and goes on or gives up.
LEMMA LookingTouchesNothing ==
  ASSUME TouchInv, stage \in Looking, UNCHANGED <<disk, began>>,
         (stage' \in Looking /\ status' = status) \/ stage' = "exited", OptionsOK'
  PROVE  TouchInv'
<1>1. disk' = began'
  BY DEF TouchInv
<1>2. \A f \in DOMAIN began' \cup DOMAIN disk' : Same(f)'
  BY <1>1 DEF Same
<1> QED BY <1>1, <1>2 DEF TouchInv, Looking, Stages

\* A step that writes or removes the file f, and what it says then.
LEMMA TouchingOne ==
  ASSUME TouchInv, stage \notin Looking, NEW f \in Touchable, ConcernsOnly(f),
         UNCHANGED <<began, options, host>>,
         \/ stage' = "removing" /\ status' \in {0, 2} /\ ~options.S
         \/ stage' \in {"linking", "clearing"} /\ status' \in {0, 2} /\ host = "windows" /\ Linking
         \/ stage' = "exited" /\ status' \in {0, 2}
  PROVE  TouchInv'
<1>1. \A g \in DOMAIN began' \cup DOMAIN disk' : Same(g)' \/ g \in Touchable'
  BY StaysTouched
<1>2. Linking' = Linking
  BY DEF Linking
<1> QED BY <1>1, <1>2 DEF TouchInv, OptionsOK, Looking, Stages

\* Writing the assembly text touches a file of the command.
LEMMA WritingTouches ==
  ASSUME TouchInv, WriteAssembly
  PROVE  TouchInv'
<1>1. /\ AssemblyPath \in Touchable /\ UNCHANGED <<began, options, host>>
      /\ stage = "writing" /\ status = NoStatus /\ disk = began
  BY DEF WriteAssembly, Touchable, TouchInv, Looking
<1>2. /\ \/ stage' = "exited" /\ status' \in {0, 2}
         \/ stage' = "assembling" /\ status' = NoStatus /\ ~options.S
      /\ \/ disk' = disk
         \/ \E x : disk' = With(disk, AssemblyPath, x)
  BY <1>1 DEF WriteAssembly, Exit, Go
<1>3. ConcernsOnly(AssemblyPath)
  BY <1>2, WritingAndRemoving
<1>4. \A g \in DOMAIN began' \cup DOMAIN disk' : Same(g)' \/ g \in Touchable'
  BY <1>1, <1>3, StaysTouched
<1> QED BY <1>1, <1>2, <1>4 DEF TouchInv, OptionsOK, Looking, Stages, NoStatus

\* An option touches no file.
LEMMA OptionGiven ==
  ASSUME TouchInv, Option
  PROVE  TouchInv'
<1>1. /\ stage = "arguments" /\ UNCHANGED <<disk, began, stage, status>>
      /\ options' \in Options
  BY DEF Option, Given, Reading, TouchInv, OptionsOK, Options
<1> QED BY <1>1, LookingTouchesNothing DEF Looking, OptionsOK

\* An input touches no file.
LEMMA FileGiven ==
  ASSUME TouchInv, NEW f \in Inputs, FileArgument(f)
  PROVE  TouchInv'
<1>1. stage = "arguments" /\ UNCHANGED <<disk, began, stage, status>>
  BY DEF FileArgument, Given, Reading
<1>2. options \in Options /\ Append(options.companions, f) \in Seq(Inputs)
  BY DEF TouchInv, OptionsOK, Options
<1>3. options' \in Options
  BY <1>2 DEF FileArgument, Given, Options
<1> QED BY <1>1, <1>3, LookingTouchesNothing DEF Looking, OptionsOK

\* No step of a command touches a file that is not its own.
LEMMA NextTouches ==
  ASSUME TouchInv, DriverNext
  PROVE  TouchInv'
<1>1. CASE Answer \/ UnknownOption \/ Gather \/ ReadFile \/ Resolve \/ Check
  <2>1. stage \in Looking /\ UNCHANGED <<disk, began, options>>
    BY <1>1 DEF Answer, UnknownOption, Gather, ReadFile, Resolve, Check, Looking
  <2>2. stage' = "exited" \/ (stage' \in Looking /\ status' = status)
    BY <1>1 DEF Answer, UnknownOption, Gather, ReadFile, Resolve, Check, Looking, Exit, Go
  <2> QED BY <2>1, <2>2, LookingTouchesNothing DEF TouchInv, OptionsOK
<1>2. CASE Assemble
  <2>1. stage = "assembling" /\ stage' = "removing" /\ UNCHANGED <<began, options, host>>
    BY <1>2 DEF Assemble
  <2>2. ~options.S
    BY <2>1 DEF TouchInv
  <2>3. CASE Tool(AssemblyPath, ObjectPath, Made("object")) /\ (options.c \/ host = "windows")
    <3>1. ObjectPath \in Touchable
      BY <2>2, <2>3 DEF Touchable, Objects, ResultPath, Linking
    <3>2. ConcernsOnly(ObjectPath) /\ status' \in {0, 2}
      BY <2>3, ToolConcernsItsResult DEF Tool
    <3> QED BY <2>1, <2>2, <3>1, <3>2, TouchingOne DEF Looking
  <2>4. CASE Tool(AssemblyPath, ResultPath, Made("program"))
    <3>1. ConcernsOnly(ResultPath) /\ status' \in {0, 2}
      BY <2>4, ToolConcernsItsResult DEF Tool
    <3> QED BY <2>1, <2>2, <3>1, TouchingOne DEF Looking, Touchable
  <2>5. CASE ToolFails(ResultPath)
    <3>1. ConcernsOnly(ResultPath) /\ status' \in {0, 2}
      BY <2>5, ToolConcernsItsResult DEF ToolFails
    <3> QED BY <2>1, <2>2, <3>1, TouchingOne DEF Looking, Touchable
  <2> QED BY <1>2, <2>3, <2>4, <2>5 DEF Assemble
<1>3. CASE Remove
  <2>1. stage = "removing" /\ UNCHANGED <<began, options, host>> /\ disk' = Without(disk, AssemblyPath)
    BY <1>3 DEF Remove
  <2>2. \/ stage' = "linking" /\ status' \in {0, 2} /\ host = "windows" /\ Linking
        \/ stage' = "exited" /\ status' \in {0, 2}
    BY <1>3, <2>1 DEF Remove, Go, Exit, TouchInv, Linking
  <2> QED BY <2>1, <2>2, WritingAndRemoving, TouchingOne DEF Looking, Touchable
<1>4. CASE Link
  <2>1. stage = "linking" /\ stage' = "clearing" /\ UNCHANGED <<began, options, host>>
    BY <1>4 DEF Link
  <2>2. PICK x : Tool(ObjectPath, ResultPath, x) \/ ToolFails(ResultPath)
    BY <1>4 DEF Link
  <2>3. status' \in {0, 2} /\ host = "windows" /\ Linking
    BY <2>1, <2>2 DEF Tool, ToolFails, TouchInv
  <2> QED BY <2>1, <2>2, <2>3, ToolConcernsItsResult, TouchingOne DEF Looking, Touchable
<1>5. CASE Clear
  <2>1. /\ stage = "clearing" /\ stage' = "exited" /\ status' = status
        /\ UNCHANGED <<began, options, host>> /\ disk' = Without(disk, ObjectPath)
    BY <1>5 DEF Clear, Exit
  <2>2. status' \in {0, 2} /\ ObjectPath \in Touchable
    BY <2>1 DEF TouchInv, Touchable, Objects
  <2> QED BY <2>1, <2>2, WritingAndRemoving, TouchingOne DEF Looking
<1>6. CASE Killed
  <2>1. /\ UNCHANGED <<disk, began, options, host>> /\ stage' = "exited" /\ status' = NoStatus
    BY <1>6 DEF Killed, Exit
  <2>2. Touchable' = Touchable
    BY <2>1 DEF Touchable, ResultPath, AssemblyPath, ObjectPath, Objects, Output, Named, Stem, Main, Linking
  <2> QED BY <2>1, <2>2 DEF TouchInv, OptionsOK, Same, Looking, Stages, NoStatus
<1>7. CASE NextCommand
  <2>1. /\ began' = disk' /\ stage' = "arguments" /\ status' = NoStatus /\ options' = NoOptions
    BY <1>7 DEF NextCommand
  <2>2. NoOptions \in Options
    BY DEF NoOptions, Options
  <2> QED BY <2>1, <2>2 DEF TouchInv, OptionsOK, Same, Looking, Stages
<1> QED BY <1>1, <1>2, <1>3, <1>4, <1>5, <1>6, <1>7, OptionGiven, FileGiven, WritingTouches
        DEF DriverNext, Steps

\* A command touches its result and what it needs on the way only, whenever it stops,
\* and none of them has the extension of a source; a refusal touches nothing
\* (Driver.cpp: run()).
THEOREM SourcesKept == DriverSpec => []SourcesSurvive
<1>1. DriverInit => TouchInv
  <2>1. NoOptions \in Options
    BY DEF NoOptions, Options
  <2> QED BY <2>1 DEF DriverInit, Start, TouchInv, OptionsOK, Same, Looking, Stages
<1>2. TouchInv /\ [DriverNext]_vars => TouchInv'
  <2>1. TouchInv /\ UNCHANGED vars => TouchInv'
    BY DEF vars, TouchInv, OptionsOK, Same, Touchable, ResultPath, AssemblyPath, ObjectPath,
           Objects, Output, Named, Stem, Main, Linking
  <2> QED BY <2>1, NextTouches
<1>3. TouchInv => SourcesSurvive
  BY OutputsLookOtherwise DEF TouchInv, SourcesSurvive, Same, Touchable, Looking
<1> QED BY <1>1, <1>2, <1>3, PTL DEF DriverSpec

-------------------------------------------------------------------------------
(***************************************************************************)
(* That a command keeps the promise of Compilation.  What was read: the    *)
(* units are the files that parse, in their order.                         *)
(***************************************************************************)
Paths == Inputs \cup DOMAIN began

AreRead(n) ==
  \E where \in [1..Len(units) -> 1..n] :
    /\ \A i \in 1..Len(units) : units[i] = files[where[i]] /\ Parses(files[where[i]])
    /\ \A i, k \in 1..Len(units) : where[i] = where[k] => i = k
    /\ \A j \in 1..n : Parses(files[j]) => \E i \in 1..Len(units) : where[i] = j
    /\ n > 0 /\ Parses(files[1]) => Len(units) > 0 /\ where[1] = 1

Making == {"writing", "assembling", "removing", "linking", "clearing"}

Gathered ==
  /\ Main \in Inputs /\ Main # NoPath
  /\ files \in Seq(Paths) /\ Len(files) > 0 /\ files[1] = Main
  /\ units \in Seq(Paths)

ReadInv ==
  /\ KnownFiles(disk) /\ KnownFiles(began)
  /\ stage = "arguments" => files = <<>> /\ units = <<>> /\ at = 1
  /\ stage \in {"reading", "checking"} \cup Making => Gathered
  /\ stage = "reading" => at \in 1..Len(files) + 1 /\ AreRead(at - 1)
  /\ stage = "checking" => /\ AreRead(Len(files)) /\ MainParsed
                           /\ ~(Source(Main).wants /\ Cardinality(Offering) > 1)
  /\ stage \in Making => Compiles /\ {Main} \cup Pulled = Program

\* What parses is read and does not fail at once.
LEMMA ParsesIs ==
  ASSUME disk = began, KnownFiles(disk), NEW f
  PROVE  /\ Parses(f) <=> Fault(f) \notin {"unreadable", "lex", "parse"}
         /\ Fault(f) = "none" <=> Found(f).kind = "source" /\ Found(f).fault = "none"
         /\ Parses(f) => f \in DOMAIN began /\ Found(f) = Source(f)
<1>1. CASE f \notin DOMAIN disk
  BY <1>1 DEF Parses, Fault, Found, Readable
<1>2. CASE f \in DOMAIN disk /\ disk[f].kind = "source"
  <2>1. disk[f].fault \in Faults
    BY <1>2 DEF KnownFiles
  <2> QED BY <1>2, <2>1 DEF Parses, Fault, Found, Readable, Source, Faults
<1>3. CASE f \in DOMAIN disk /\ disk[f].kind # "source"
  BY <1>3 DEF Parses, Fault, Found, Readable, Source
<1> QED BY <1>1, <1>2, <1>3

\* When all are read, the program's own parsed exactly if it is the first, and the units
\* that would have the wanted function are the files that would.
LEMMA WhenAllAreRead ==
  ASSUME Gathered, AreRead(Len(files)), disk = began, KnownFiles(disk)
  PROVE  /\ MainParsed <=> Parses(Main)
         /\ MainParsed => /\ IsFiniteSet(Rivals) /\ Cardinality(Offering) = Cardinality(Rivals)
                          /\ {units[i] : i \in Offering} = {files[j] : j \in Rivals}
<1> DEFINE n == Len(files)
           l == Len(units)
<1>1. /\ n \in Nat /\ n > 0 /\ files[1] = Main /\ l \in Nat /\ DOMAIN units = 1..l
      /\ units # <<>> <=> l > 0
  BY DEF Gathered
<1> HIDE DEF n, l
<1>2. PICK where \in [1..l -> 1..n] :
        /\ \A i \in 1..l : units[i] = files[where[i]] /\ Parses(files[where[i]])
        /\ \A i, k \in 1..l : where[i] = where[k] => i = k
        /\ \A j \in 1..n : Parses(files[j]) => \E i \in 1..l : where[i] = j
        /\ n > 0 /\ Parses(files[1]) => l > 0 /\ where[1] = 1
  BY DEF AreRead, n, l
<1>3. MainParsed <=> Parses(Main)
  <2>1. ASSUME MainParsed PROVE Parses(Main)
    <3>1. l > 0 /\ units[1] = Main /\ 1 \in 1..l
      BY <1>1, <2>1 DEF MainParsed
    <3> QED BY <1>2, <3>1
  <2>2. ASSUME Parses(Main) PROVE MainParsed
    <3>1. l > 0 /\ where[1] = 1 /\ 1 \in 1..l
      BY <1>1, <1>2, <2>2
    <3> QED BY <1>1, <1>2, <3>1 DEF MainParsed
  <2> QED BY <2>1, <2>2
<1>4. ASSUME MainParsed
      PROVE  /\ IsFiniteSet(Rivals) /\ Cardinality(Offering) = Cardinality(Rivals)
             /\ {units[i] : i \in Offering} = {files[j] : j \in Rivals}
  <2>1. l > 0 /\ where[1] = 1 /\ 1 \in 1..l
    BY <1>1, <1>2, <1>3, <1>4
  <2>2. \A i \in 1..l : /\ Source(units[i]) = Found(files[where[i]])
                        /\ where[i] \in 1..n /\ (i \in 2..l <=> where[i] \in 2..n)
    <3>1. ASSUME NEW i \in 1..l
          PROVE  /\ Source(units[i]) = Found(files[where[i]])
                 /\ where[i] \in 1..n /\ (i \in 2..l <=> where[i] \in 2..n)
      <4>1. Source(units[i]) = Found(files[where[i]])
        BY <1>2, ParsesIs
      <4>2. where[i] \in 1..n /\ (where[i] = 1 => i = 1) /\ (i = 1 => where[i] = 1)
        BY <1>2, <2>1
      <4>3. i \in Nat /\ n \in Nat /\ l \in Nat
        BY <1>1
      <4> QED BY <4>1, <4>2, <4>3
    <3> QED BY <3>1
  <2>3. \A i \in 1..l : i \in Offering <=> where[i] \in Rivals
    BY <1>2, <2>2 DEF Offering, Rivals, n, l
  <2>4. Offering \subseteq 1..l /\ Rivals \subseteq 1..n
    BY <1>1 DEF Offering, Rivals, n, l
  <2>5. \A j \in Rivals : \E i \in Offering : where[i] = j
    <3>1. ASSUME NEW j \in Rivals PROVE \E i \in Offering : where[i] = j
      <4>1. j \in 1..n /\ Parses(files[j])
        BY <2>4 DEF Rivals
      <4>2. PICK i \in 1..l : where[i] = j
        BY <1>2, <4>1
      <4> QED BY <2>3, <4>2
    <3> QED BY <3>1
  <2> DEFINE b == [i \in Offering |-> where[i]]
  <2>6. b \in Bijection(Offering, Rivals)
    <3>1. b \in [Offering -> Rivals]
      BY <2>3, <2>4
    <3>2. \A i, k \in Offering : b[i] = b[k] => i = k
      BY <1>2, <2>4
    <3>3. \A j \in Rivals : \E i \in Offering : b[i] = j
      BY <2>5
    <3> QED BY <3>1, <3>2, <3>3, Fun_IsBij
  <2>7. IsFiniteSet(Offering)
    <3>1. IsFiniteSet(1..l)
      BY <1>1, FS_Interval
    <3> QED BY <2>4, <3>1, FS_Subset
  <2>8. IsFiniteSet(Rivals) /\ Cardinality(Rivals) = Cardinality(Offering)
    <3>1. ExistsBijection(Offering, Rivals)
      BY <2>6 DEF ExistsBijection
    <3> QED BY <2>7, <3>1, FS_Bijection
  <2>9. {units[i] : i \in Offering} = {files[j] : j \in Rivals}
    <3>1. ASSUME NEW i \in Offering PROVE units[i] = files[where[i]] /\ where[i] \in Rivals
      BY <1>2, <2>3, <2>4
    <3>2. ASSUME NEW j \in Rivals PROVE \E i \in Offering : files[j] = units[i]
      BY <2>5, <3>1
    <3> QED BY <3>1, <3>2
  <2> QED BY <2>8, <2>9
<1> QED BY <1>3, <1>4

\* A file more that is read, or left out.
LEMMA OneMoreRead ==
  ASSUME Gathered, NEW n \in Nat, AreRead(n), n + 1 \in 1..Len(files),
         UNCHANGED <<files, began>>,
         IF Parses(files[n + 1]) THEN units' = Append(units, files[n + 1]) ELSE units' = units
  PROVE  AreRead(n + 1)' /\ units' \in Seq(Paths)
<1> DEFINE l == Len(units)
<1>1. l \in Nat /\ units \in Seq(Paths) /\ files[n + 1] \in Paths
  BY DEF Gathered
<1>2. PICK where \in [1..l -> 1..n] :
        /\ \A i \in 1..l : units[i] = files[where[i]] /\ Parses(files[where[i]])
        /\ \A i, k \in 1..l : where[i] = where[k] => i = k
        /\ \A j \in 1..n : Parses(files[j]) => \E i \in 1..l : where[i] = j
        /\ n > 0 /\ Parses(files[1]) => l > 0 /\ where[1] = 1
  BY DEF AreRead
<1>3. \A f : Parses(f)' <=> Parses(f)
  BY DEF Parses, Found
<1>4. CASE Parses(files[n + 1])
  <2> DEFINE more == [i \in 1..l + 1 |-> IF i = l + 1 THEN n + 1 ELSE where[i]]
  <2>1. /\ units' \in Seq(Paths) /\ Len(units') = l + 1 /\ units'[l + 1] = files[n + 1]
        /\ \A i \in 1..l : units'[i] = units[i]
    BY SMTT(30), <1>1, <1>4, AppendProperties
  <2>2. more \in [1..l + 1 -> 1..n + 1]
    BY <1>1
  <2>3. \A i \in 1..l + 1 : units'[i] = files[more[i]] /\ Parses(files[more[i]])
    BY <1>1, <1>2, <1>4, <2>1
  <2>4. \A i, k \in 1..l + 1 : more[i] = more[k] => i = k
    BY <1>1, <1>2
  <2>5. \A j \in 1..n + 1 : Parses(files[j]) => \E i \in 1..l + 1 : more[i] = j
    <3>1. ASSUME NEW j \in 1..n, Parses(files[j]) PROVE \E i \in 1..l + 1 : more[i] = j
      <4>1. PICK i \in 1..l : where[i] = j
        BY <1>2, <3>1
      <4> QED BY <1>1, <4>1
    <3>2. more[l + 1] = n + 1 /\ l + 1 \in 1..l + 1
      BY <1>1
    <3>3. \A j \in 1..n + 1 : j \in 1..n \/ j = n + 1
      OBVIOUS
    <3> QED BY <3>1, <3>2, <3>3
  <2>6. Parses(files[1]) => l + 1 > 0 /\ more[1] = 1
    <3>1. CASE n = 0
      BY <1>1, <1>2, <3>1
    <3>2. CASE n > 0
      BY <1>1, <1>2, <3>2
    <3> QED BY <3>1, <3>2
  <2> HIDE DEF more
  <2>7. AreRead(n + 1)'
    <3> DEFINE m == l + 1
               k == n + 1
    <3>1. Len(units') = m
      BY <2>1
    <3>2. \E w \in [1..m -> 1..k] :
            /\ \A i \in 1..m : units'[i] = files[w[i]] /\ Parses(files[w[i]])
            /\ \A i, j \in 1..m : w[i] = w[j] => i = j
            /\ \A j \in 1..k : Parses(files[j]) => \E i \in 1..m : w[i] = j
            /\ k > 0 /\ Parses(files[1]) => m > 0 /\ w[1] = 1
      BY <2>2, <2>3, <2>4, <2>5, <2>6
    <3> HIDE DEF m, l
    <3> QED BY SMTT(30), <1>3, <3>1, <3>2 DEF AreRead
  <2> QED BY <2>1, <2>7 DEF Paths
<1>5. CASE ~Parses(files[n + 1])
  <2>1. where \in [1..l -> 1..n + 1] /\ units' = units
    BY <1>5
  <2>2. \A j \in 1..n + 1 : Parses(files[j]) => j \in 1..n
    BY <1>5
  <2>3. Parses(files[1]) => n > 0
    BY <1>5
  <2> HIDE DEF l
  <2>4. AreRead(n + 1)'
    BY <1>2, <1>3, <2>1, <2>2, <2>3 DEF AreRead, l
  <2> QED BY <1>1, <2>1, <2>4 DEF Paths
<1> QED BY <1>4, <1>5

\* What the checks say is what Compilation asks for.
LEMMA ChecksDecide ==
  ASSUME ReadInv, TouchInv, stage = "checking"
  PROVE  /\ {Main} \cup Pulled = Program
         /\ Compiles <=> ~(~Sound \/ (Source(Main).foreign /\ ~options.library /\ Linking))
<1>1. /\ Gathered /\ AreRead(Len(files)) /\ MainParsed /\ disk = began /\ KnownFiles(disk)
      /\ ~(Source(Main).wants /\ Cardinality(Offering) > 1)
  BY DEF ReadInv, TouchInv, Looking
<1>2. /\ Parses(Main) /\ IsFiniteSet(Rivals) /\ Cardinality(Offering) = Cardinality(Rivals)
      /\ {units[i] : i \in Offering} = {files[j] : j \in Rivals}
  BY <1>1, WhenAllAreRead
<1>3. Found(Main) = Source(Main) /\ Found(Main).kind = "source"
  BY <1>1, <1>2, ParsesIs DEF Parses
<1>4. {Main} \cup Pulled = Program
  <2>1. CASE Source(Main).wants
    <3>1. {j \in Offering : Source(Main).wants} = Offering
      BY <2>1
    <3>2. {r \in Rivals : Found(Main).kind = "source" /\ Found(Main).wants} = Rivals
      BY <1>3, <2>1
    <3> QED BY <1>2, <3>1, <3>2 DEF Pulled, Program
  <2>2. CASE ~Source(Main).wants
    BY <1>3, <2>2 DEF Pulled, Program
  <2> QED BY <2>1, <2>2
<1>5. \A f : Fault(f) = "none" <=> Found(f).kind = "source" /\ Found(f).fault = "none"
  BY <1>1, ParsesIs
<1>6. Source(Main).wants => (Offering # {} <=> Cardinality(Rivals) = 1)
  <2>1. Offering # {} <=> Rivals # {}
    BY <1>2
  <2>2. Cardinality(Rivals) \in Nat /\ (Cardinality(Rivals) = 0 <=> Rivals = {})
    BY <1>2, FS_CardinalityType, FS_EmptySet
  <2> QED BY <1>1, <1>2, <2>1, <2>2
<1>7. Sound <=> /\ Source(Main).wants => Offering # {}
                /\ \A f \in Program : Fault(f) = "none"
  BY <1>4 DEF Sound
<1>8. Compiles <=> /\ \A f \in Program : Fault(f) = "none"
                   /\ Source(Main).wants => Cardinality(Rivals) = 1
                   /\ Source(Main).foreign => options.library \/ ~Linking
  BY <1>3, <1>5 DEF Compiles
<1> HIDE DEF ReadInv
<1>9. Compiles <=> ~(~Sound \/ (Source(Main).foreign /\ ~options.library /\ Linking))
  BY ONLY <1>6, <1>7, <1>8, Zenon
<1> QED BY <1>4, <1>9

\* A program whose own file does not parse is at fault, and one that wants what two files
\* have.
LEMMA RefusedIsAtFault ==
  ASSUME ReadInv, TouchInv, stage = "reading", at > Len(files),
         ~MainParsed \/ (Source(Main).wants /\ Cardinality(Offering) > 1)
  PROVE  ~Compiles
<1>1. Gathered /\ AreRead(Len(files)) /\ disk = began /\ KnownFiles(disk)
  <2>1. Gathered /\ at \in 1..Len(files) + 1 /\ AreRead(at - 1) /\ disk = began /\ KnownFiles(disk)
    BY DEF ReadInv, TouchInv, Looking
  <2>2. at - 1 = Len(files)
    BY <2>1 DEF Gathered
  <2> QED BY <2>1, <2>2
<1>2. CASE ~MainParsed
  <2>1. ~Parses(Main) /\ Main \in Program
    BY <1>1, <1>2, WhenAllAreRead DEF Program
  <2> QED BY <2>1 DEF Compiles, Parses
<1>3. CASE MainParsed /\ Source(Main).wants /\ Cardinality(Offering) > 1
  <2>1. Parses(Main) /\ Cardinality(Offering) = Cardinality(Rivals)
    BY <1>1, <1>3, WhenAllAreRead
  <2>2. Found(Main) = Source(Main)
    BY <1>1, <2>1, ParsesIs
  <2> QED BY <1>3, <2>1, <2>2 DEF Compiles
<1> QED BY <1>2, <1>3

\* So is one whose own file is no text of the language.
LEMMA NoTextIsAtFault ==
  ASSUME ReadInv, TouchInv, stage = "reading", at = 1, Fault(files[at]) = "lex"
  PROVE  ~Compiles
<1>1. Gathered /\ disk = began /\ KnownFiles(disk)
  BY DEF ReadInv, TouchInv, Looking
<1>2. Fault(Main) = "lex" /\ Main \in Program
  BY <1>1 DEF Gathered, Program
<1>3. ~(Found(Main).kind = "source" /\ Found(Main).fault = "none")
  BY <1>1, <1>2, ParsesIs
<1> QED BY <1>2, <1>3 DEF Compiles

\* The files beside are finitely many, and each is on the disk.
LEMMA FilesBeside ==
  ASSUME KnownFiles(disk)
  PROVE  AnyOrder(Beside) \in Seq(DOMAIN disk)
<1>1. IsFiniteSet(Beside) /\ Beside \subseteq DOMAIN disk
  <2>1. Beside \subseteq DOMAIN disk
    BY DEF Beside, ShalimarFiles
  <2> QED BY <2>1, FS_Subset DEF KnownFiles
<1> DEFINE n == Cardinality(Beside)
<1>2. n \in Nat /\ ExistsBijection(1..n, Beside)
  BY <1>1, FS_CardinalityType
<1>3. PICK b \in Bijection(1..n, Beside) : TRUE
  BY <1>2 DEF ExistsBijection
<1>4. b \in [1..n -> Beside] /\ IsInjective(b)
  <2>1. b \in [1..n -> Beside] /\ \A i, k \in 1..n : b[i] = b[k] => i = k
    BY <1>3 DEF Bijection, Injection, IsInjective
  <2> QED BY <2>1 DEF IsInjective
<1>5. AnyOrder(Beside) \in [1..n -> Beside]
  BY <1>4 DEF AnyOrder
<1> HIDE DEF n
<1>6. AnyOrder(Beside) \in [1..n -> DOMAIN disk]
  BY <1>1, <1>5
<1> QED BY <1>2, <1>6, SeqDef

\* What is written is no source.
LEMMA StaysKnown ==
  ASSUME KnownFiles(disk), NEW f,
         \/ disk' = disk \/ disk' = Without(disk, f)
         \/ \E x : x.kind # "source" /\ disk' = With(disk, f, x)
  PROVE  KnownFiles(disk')
<1>1. CASE disk' = disk
  BY <1>1
<1>2. CASE disk' = Without(disk, f)
  <2>1. DOMAIN disk' = DOMAIN disk \ {f} /\ \A g \in DOMAIN disk' : disk'[g] = disk[g]
    BY <1>2 DEF Without, Restrict
  <2> QED BY <2>1, FS_Subset DEF KnownFiles
<1>3. ASSUME NEW x, x.kind # "source", disk' = With(disk, f, x)
      PROVE  KnownFiles(disk')
  <2>1. /\ DOMAIN disk' = DOMAIN disk \cup {f} /\ disk'[f] = x
        /\ \A g \in DOMAIN disk : g # f => disk'[g] = disk[g]
    BY <1>3 DEF With
  <2>2. IsFiniteSet(DOMAIN disk \cup {f})
    BY FS_AddElement DEF KnownFiles
  <2> QED BY <1>3, <2>1, <2>2 DEF KnownFiles
<1> QED BY <1>1, <1>2, <1>3

\* What a command makes is no source, whole or broken.
LEMMA ProductsAreNoSources ==
  Broken.kind # "source" /\ \A kind : Made(kind).kind = kind
  BY DEF Broken, Made, Product

\* What lies where the result goes when all goes well.
Result == Product(IF options.c THEN "object" ELSE "program", Program, ArchiveOn(began))

\* A program or an object is not half of one, nor is a text.
LEMMA WholeIsNotBroken ==
  Result # Broken /\ \A kind \in {"assembly", "object", "program"} : Made(kind) # Broken
<1>1. Broken.kind = "broken"
  BY DEF Broken
<1>2. Result.kind \in {"object", "program"}
  BY DEF Result, Product
<1> QED BY <1>1, <1>2, ProductsAreNoSources

\* What a command is about does not change on the way.
LEMMA WhatItIsAbout ==
  ASSUME UNCHANGED <<host, began, command, options, files, units>>
  PROVE  /\ AssemblyPath' = AssemblyPath /\ ObjectPath' = ObjectPath
         /\ ResultPath' = ResultPath /\ Objects' = Objects /\ Linking' = Linking
         /\ Program' = Program /\ Compiles' = Compiles
         /\ Result' = Result /\ Request' = Request
<1>1. Linking' = Linking /\ Main' = Main /\ Named' = Named
  BY DEF Linking, Main, Named
<1>2. Output' = Output
  BY <1>1 DEF Output, Stem
<1>3. /\ AssemblyPath' = AssemblyPath /\ ObjectPath' = ObjectPath
      /\ Objects' = Objects /\ Assemblies' = Assemblies
  BY <1>1, <1>2 DEF AssemblyPath, ObjectPath, Objects, Assemblies
<1>4. ResultPath' = ResultPath
  BY <1>2, <1>3 DEF ResultPath
<1>5. \A f : Found(f)' = Found(f) /\ (Parses(f)' <=> Parses(f))
  BY DEF Found, Parses
<1>6. Rivals' = Rivals
  BY <1>5 DEF Rivals
<1>7. Program' = Program
  BY <1>1, <1>5, <1>6 DEF Program
<1>8. Compiles' = Compiles
  BY <1>1, <1>5, <1>6, <1>7 DEF Compiles
<1>9. ArchiveOn(began)' = ArchiveOn(began)
  BY DEF ArchiveOn
<1>10. \A kind, library : Product(kind, Program, library)' = Product(kind, Program, library)
  BY <1>7 DEF Product
<1>11. Result' = Result
  BY <1>7, <1>9 DEF Result, Product
<1>12. Request' = Request
  BY <1>3, <1>4, <1>7, <1>8, <1>9 DEF Request, Product
<1> QED BY <1>1, <1>3, <1>4, <1>7, <1>8, <1>11, <1>12

\* What was read stays as it is while it is made into something.
LEMMA WhileMaking ==
  ASSUME ReadInv, KnownFiles(disk'), stage \in Making, stage' \in Making \cup {"exited"},
         UNCHANGED <<host, began, command, options, files, units>>
  PROVE  ReadInv'
<1>1. Gathered' /\ Compiles' /\ ({Main} \cup Pulled = Program)'
  <2>1. Gathered /\ Compiles /\ {Main} \cup Pulled = Program
    BY DEF ReadInv
  <2>2. Gathered' <=> Gathered
    BY DEF Gathered, Main, Paths
  <2>3. Program' = Program /\ Compiles' = Compiles
    BY WhatItIsAbout
  <2>4. Main' = Main /\ Pulled' = Pulled
    BY DEF Main, Pulled, Offering, Source
  <2> QED BY <2>1, <2>2, <2>3, <2>4
<1> QED BY <1>1 DEF ReadInv, Making

\* Before the first file all of none were read without fault.
LEMMA NothingRead ==
  units = <<>> => AreRead(0)
<1> HAVE units = <<>>
<1>1. 1..Len(units) = {} /\ 1..0 = {}
  OBVIOUS
<1> DEFINE w == [i \in {} |-> i]
<1>2. w \in [{} -> {}]
  OBVIOUS
<1> HIDE DEF w
<1>3. ~(0 > 0)
  OBVIOUS
<1> QED BY <1>1, <1>2, <1>3 DEF AreRead

\* Gathering names the files of a program; none of them is read yet.
LEMMA GatheringReads ==
  ASSUME TouchInv, ReadInv, Gather
  PROVE  ReadInv'
<1>1. /\ stage = "arguments" /\ UNCHANGED <<disk, began, options, units>> /\ at' = 1
      /\ units = <<>> /\ disk = began /\ KnownFiles(disk)
  BY DEF Gather, ReadInv, TouchInv, Looking
<1>2. CASE stage' = "exited"
  BY <1>1, <1>2 DEF ReadInv, Making
<1>3. CASE stage' # "exited"
  <2>1. /\ stage' = "reading" /\ Main # NoPath
        /\ files' = <<Main>> \o (IF options.companions # <<>> THEN options.companions
                                 ELSE IF options.search THEN AnyOrder(Beside) ELSE <<>>)
    BY <1>3 DEF Gather, Exit, Go, Main
  <2>2. Main \in Inputs /\ options.companions \in Seq(Inputs)
    BY <2>1 DEF TouchInv, OptionsOK, Options, Main
  <2>3. AnyOrder(Beside) \in Seq(DOMAIN disk)
    BY <1>1, FilesBeside
  <2>4. PICK others \in Seq(Paths) : files' = <<Main>> \o others
    <3>1. options.companions \in Seq(Paths) /\ AnyOrder(Beside) \in Seq(Paths) /\ <<>> \in Seq(Paths)
      BY <1>1, <2>2, <2>3 DEF Paths
    <3> QED BY <2>1, <3>1
  <2>5. files' \in Seq(Paths) /\ Len(files') > 0 /\ files'[1] = Main
    <3>1. <<Main>> \in Seq(Paths) /\ Len(<<Main>>) = 1 /\ <<Main>>[1] = Main
      BY <2>2 DEF Paths
    <3>2. /\ files' \in Seq(Paths) /\ Len(files') = Len(<<Main>>) + Len(others)
          /\ \A i \in 1..Len(<<Main>>) : files'[i] = <<Main>>[i]
      BY <2>4, <3>1, ConcatProperties
    <3>3. Len(others) \in Nat
      BY <2>4
    <3> QED BY <3>1, <3>2, <3>3
  <2>6. Gathered'
    BY <1>1, <2>1, <2>2, <2>5 DEF Gathered, Main, Paths
  <2>7. AreRead(0)'
    <3>1. (units = <<>>)'
      BY <1>1
    <3> QED BY <3>1, NothingRead, PTL
  <2>8. (at - 1)' = 0 /\ at' \in (1..Len(files) + 1)'
    BY <1>1, <2>5
  <2> QED BY <1>1, <2>1, <2>6, <2>7, <2>8 DEF ReadInv, Making
<1> QED BY <1>2, <1>3

\* One more file is read, or is the one at fault.
LEMMA ReadingReads ==
  ASSUME TouchInv, ReadInv, ReadFile
  PROVE  ReadInv'
<1>1. /\ stage = "reading" /\ at <= Len(files) /\ disk = began /\ KnownFiles(disk)
      /\ UNCHANGED <<disk, began, options, files>>
      /\ Gathered /\ at \in 1..Len(files) + 1 /\ AreRead(at - 1)
  BY DEF ReadFile, ReadInv, TouchInv, Looking
<1>2. CASE stage' = "exited"
  BY <1>1, <1>2 DEF ReadInv, Making
<1>3. CASE stage' # "exited"
  <2>1. /\ stage' = "reading" /\ at' = at + 1
        /\ IF Fault(files[at]) \notin {"unreadable", "lex", "parse"}
           THEN units' = Append(units, files[at]) ELSE units' = units
    BY <1>1, <1>3 DEF ReadFile, Exit, Go, NextFile
  <2>2. PICK n \in Nat : at = n + 1 /\ n + 1 \in 1..Len(files) /\ at - 1 = n
    BY <1>1 DEF Gathered
  <2>3. AreRead(n + 1)' /\ units' \in Seq(Paths)
    <3>1. AreRead(n)
      BY <1>1, <2>2
    <3>2. IF Parses(files[n + 1]) THEN units' = Append(units, files[n + 1]) ELSE units' = units
      BY <1>1, <2>1, <2>2, ParsesIs
    <3> QED BY <1>1, <2>2, <3>1, <3>2, OneMoreRead
  <2>4. Gathered'
    BY <1>1, <2>3 DEF Gathered, Main, Paths
  <2>5. (at - 1)' = n + 1 /\ at' \in (1..Len(files) + 1)'
    BY <1>1, <2>1, <2>2 DEF Gathered
  <2> QED BY <1>1, <2>1, <2>3, <2>4, <2>5 DEF ReadInv, Making
<1> QED BY <1>2, <1>3

\* A program goes on only if all its files make one.
LEMMA CheckingReads ==
  ASSUME TouchInv, ReadInv, Resolve \/ Check
  PROVE  ReadInv'
<1>1. /\ stage \in {"reading", "checking"} /\ disk = began /\ KnownFiles(disk)
      /\ UNCHANGED <<host, disk, began, options, files, units>> /\ Gathered
  BY DEF Resolve, Check, ReadInv, TouchInv, Looking
<1>2. CASE stage' = "exited"
  BY <1>1, <1>2 DEF ReadInv, Making
<1>3. Gathered'
  BY <1>1 DEF Gathered, Main, Paths
<1>4. CASE Resolve /\ stage' # "exited"
  <2>1. /\ stage' = "checking" /\ MainParsed /\ AreRead(at - 1) /\ at \in 1..Len(files) + 1
        /\ ~(Source(Main).wants /\ Cardinality(Offering) > 1) /\ at > Len(files)
    BY <1>4 DEF Resolve, Exit, Go, ReadInv
  <2>2. at - 1 = Len(files)
    BY <1>1, <2>1 DEF Gathered
  <2>3. AreRead(Len(files))
    BY <2>1, <2>2
  <2>4. \A f : Parses(f)' <=> Parses(f)
    BY <1>1 DEF Parses, Found
  <2>5. AreRead(Len(files))'
    BY <1>1, <2>3, <2>4 DEF AreRead
  <2>6. /\ MainParsed' /\ ~(Source(Main).wants /\ Cardinality(Offering) > 1)'
    BY <1>1, <2>1 DEF MainParsed, Source, Main, Offering
  <2> QED BY <1>1, <1>3, <2>1, <2>5, <2>6 DEF ReadInv, Making
<1>5. CASE Check /\ stage' # "exited"
  <2>1. /\ stage = "checking" /\ stage' = "writing"
        /\ ~(~Sound \/ (Source(Main).foreign /\ ~options.library /\ Linking))
    BY <1>5 DEF Check, Exit, Go
  <2>2. Compiles /\ {Main} \cup Pulled = Program
    BY <2>1, ChecksDecide
  <2>3. \A f : Found(f)' = Found(f) /\ (Parses(f)' <=> Parses(f))
    BY <1>1 DEF Found, Parses
  <2>4. Main' = Main /\ Rivals' = Rivals
    BY <1>1, <2>3 DEF Main, Rivals
  <2>5. Program' = Program /\ Pulled' = Pulled
    BY <1>1, <2>3, <2>4 DEF Program, Pulled, Offering, Source
  <2>6. Compiles' /\ ({Main} \cup Pulled = Program)'
    BY <1>1, <2>2, <2>3, <2>4, <2>5 DEF Compiles, Linking
  <2> QED BY <1>1, <1>3, <2>1, <2>6 DEF ReadInv, Making
<1> QED BY <1>2, <1>4, <1>5

\* A tool, or a file written, makes no source.
LEMMA ToolStaysKnown ==
  ASSUME KnownFiles(disk), NEW from, NEW f, NEW kind, kind # "source",
         Tool(from, f, Made(kind)) \/ ToolFails(f)
  PROVE  KnownFiles(disk')
<1>1. PICK x \in {Broken, Made(kind)} :
        disk' = With(disk, f, x) \/ disk' = disk \/ disk' = Without(disk, f)
  BY DEF Tool, ToolFails
<1>2. x.kind # "source"
  BY ProductsAreNoSources
<1> QED BY <1>1, <1>2, StaysKnown

\* Every step keeps what is known of the files read.
LEMMA NextReads ==
  ASSUME TouchInv, ReadInv, DriverNext
  PROVE  ReadInv'
<1>1. CASE Option \/ \E f \in Inputs : FileArgument(f)
  <2>1. stage = "arguments" /\ UNCHANGED <<disk, began, stage, files, at, units>>
    BY <1>1 DEF Option, FileArgument, Given, Reading
  <2> QED BY <2>1 DEF ReadInv, Making
<1>2. CASE Answer \/ UnknownOption \/ Killed
  <2>1. stage' = "exited" /\ UNCHANGED <<disk, began>>
    BY <1>2 DEF Answer, UnknownOption, Killed, Exit
  <2> QED BY <2>1 DEF ReadInv, Making
<1>3. CASE WriteAssembly
  <2>1. /\ stage = "writing" /\ stage' \in Making \cup {"exited"}
        /\ UNCHANGED <<host, began, command, options, files, units>>
    BY <1>3 DEF WriteAssembly, Exit, Go, Making
  <2>2. \/ disk' = disk
        \/ \E x \in {Made("assembly"), Broken} : disk' = With(disk, AssemblyPath, x)
    BY <1>3 DEF WriteAssembly
  <2>3. KnownFiles(disk')
    <3>1. Made("assembly").kind # "source" /\ Broken.kind # "source"
      BY ProductsAreNoSources
    <3>2. \/ disk' = disk
          \/ \E x : x.kind # "source" /\ disk' = With(disk, AssemblyPath, x)
      BY <2>2, <3>1
    <3> QED BY <3>2, StaysKnown DEF ReadInv
  <2> QED BY <2>1, <2>3, WhileMaking DEF Making
<1>4. CASE Assemble
  <2>1. /\ stage = "assembling" /\ stage' = "removing"
        /\ UNCHANGED <<host, began, command, options, files, units>>
    BY <1>4 DEF Assemble
  <2>2. KnownFiles(disk')
    <3>1. \E f : \E kind \in {"object", "program"} :
            Tool(AssemblyPath, f, Made(kind)) \/ ToolFails(f)
      BY <1>4 DEF Assemble
    <3> QED BY <3>1, ToolStaysKnown DEF ReadInv
  <2> QED BY <2>1, <2>2, WhileMaking DEF Making
<1>5. CASE Link
  <2>1. /\ stage = "linking" /\ stage' = "clearing"
        /\ UNCHANGED <<host, began, command, options, files, units>>
    BY <1>5 DEF Link
  <2>2. Tool(ObjectPath, ResultPath, Made("program")) \/ ToolFails(ResultPath)
    BY <1>5 DEF Link
  <2>3. KnownFiles(disk')
    BY <2>2, ToolStaysKnown DEF ReadInv
  <2> QED BY <2>1, <2>3, WhileMaking DEF Making
<1>6. CASE Remove \/ Clear
  <2>1. /\ stage \in Making /\ stage' \in Making \cup {"exited"}
        /\ UNCHANGED <<host, began, command, options, files, units>>
    BY <1>6 DEF Remove, Clear, Exit, Go, Making
  <2>2. KnownFiles(disk')
    BY <1>6, StaysKnown DEF Remove, Clear, ReadInv
  <2> QED BY <2>1, <2>2, WhileMaking
<1>7. CASE NextCommand
  <2>1. /\ began' = disk /\ disk' = disk /\ stage' = "arguments"
        /\ files' = <<>> /\ at' = 1 /\ units' = <<>>
    BY <1>7 DEF NextCommand
  <2> QED BY <2>1 DEF ReadInv, Making
<1> QED BY <1>1, <1>2, <1>3, <1>4, <1>5, <1>6, <1>7, GatheringReads, ReadingReads, CheckingReads
        DEF DriverNext, Steps

-------------------------------------------------------------------------------
(***************************************************************************)
(* What has been written: which files may differ from what the command     *)
(* found, and whether what it is about is there.                           *)
(***************************************************************************)
Lies(d, f) == IF f \in DOMAIN d THEN {d[f]} ELSE {}

OnlyAt(S) == \A f \in (DOMAIN began \cup DOMAIN disk) \ S : Same(f)

\* What a step makes: x, or half of it from half a text.
Got(x) == IF lost THEN Broken ELSE x

\* Something lies at f: half of it if the disk filled up unseen, and only then.
HalfIfLost(f) == f \in DOMAIN disk /\ (disk[f] = Broken <=> lost)

Delivered == IF status = 0 THEN Lies(disk, ResultPath) = {Got(Result)}
             ELSE Lies(disk, ResultPath) \subseteq Lies(began, ResultPath)

WriteInv ==
  /\ stage = "exited" => status \in {NoStatus, 0, 1, 2}
  /\ stage = "assembling" => OnlyAt({AssemblyPath}) /\ HalfIfLost(AssemblyPath)
  /\ stage = "removing" /\ Objects = {} => OnlyAt({AssemblyPath, ResultPath}) /\ Delivered
  /\ stage = "removing" /\ Objects # {} =>
       /\ OnlyAt({AssemblyPath, ObjectPath})
       /\ status = 2 => Lies(disk, ObjectPath) \subseteq Lies(began, ObjectPath)
       /\ status = 0 => HalfIfLost(ObjectPath)
  /\ stage = "linking" => /\ OnlyAt({AssemblyPath, ObjectPath})
                          /\ AssemblyPath \notin DOMAIN disk
                          /\ HalfIfLost(ObjectPath)
  /\ stage = "clearing" => /\ OnlyAt({AssemblyPath, ObjectPath, ResultPath})
                           /\ AssemblyPath \notin DOMAIN disk
                           /\ Delivered

\* Two disks differ only at some files if the same lies at each other.
LEMMA OnlyAtMeans ==
  ASSUME NEW S
  PROVE  OnlyAt(S) <=> \A f : f \notin S => Lies(disk, f) = Lies(began, f)
<1>1. ASSUME OnlyAt(S), NEW f, f \notin S PROVE Lies(disk, f) = Lies(began, f)
  BY <1>1 DEF OnlyAt, Same, Lies
<1>2. ASSUME \A f : f \notin S => Lies(disk, f) = Lies(began, f) PROVE OnlyAt(S)
  <2>1. ASSUME NEW f \in (DOMAIN began \cup DOMAIN disk) \ S PROVE Same(f)
    <3>1. Lies(disk, f) = Lies(began, f)
      BY <1>2
    <3> QED BY <3>1 DEF Same, Lies
  <2> QED BY <2>1 DEF OnlyAt
<1> QED BY <1>1, <1>2

\* What differs only at some files is the same file elsewhere.
LEMMA OnlyAtThen ==
  ASSUME NEW S, UNCHANGED began, \A f : f \notin S => Lies(disk', f) = Lies(began, f)
  PROVE  \A f \in (DOMAIN began' \cup DOMAIN disk') \ S : Same(f)'
<1> TAKE f \in (DOMAIN began' \cup DOMAIN disk') \ S
<1>1. Lies(disk', f) = Lies(began, f)
  OBVIOUS
<1> QED BY <1>1 DEF Same, Lies

\* After writing, the text lies there, and elsewhere what lay there.
LEMMA WhatIsWritten ==
  ASSUME NEW d, NEW f, NEW x
  PROVE  /\ Lies(With(d, f, x), f) = {x}
         /\ \A g : g # f => Lies(With(d, f, x), g) = Lies(d, g)
  BY DEF Lies, With

\* After removing, nothing lies there, and elsewhere what lay there.
LEMMA WhatIsRemoved ==
  ASSUME NEW d, NEW f
  PROVE  /\ Lies(Without(d, f), f) = {} /\ f \notin DOMAIN Without(d, f)
         /\ \A g : g # f => /\ Lies(Without(d, f), g) = Lies(d, g)
                            /\ g \notin DOMAIN d => g \notin DOMAIN Without(d, f)
  BY DEF Lies, Without, Restrict

\* A tool makes its file out of what it is given, or leaves no more than there was.
LEMMA WhatAToolLeaves ==
  ASSUME NEW from, NEW f, NEW x, x # Broken,
         (Tool(from, f, x) /\ HalfIfLost(from)) \/ ToolFails(f), UNCHANGED lost
  PROVE  /\ \A g : g # f => Lies(disk', g) = Lies(disk, g)
         /\ \/ status' = 0 /\ Lies(disk', f) = {Got(x)} /\ f \in DOMAIN disk' /\ (disk'[f] = Broken <=> lost')
            \/ status' = 2 /\ Lies(disk', f) \subseteq Lies(disk, f)
<1>1. CASE Tool(from, f, x) /\ status' = 0
  <2>1. disk' = With(disk, f, Got(x))
    BY <1>1 DEF Tool, ToolFails, HalfIfLost, Got
  <2>2. /\ \A g : g # f => Lies(disk', g) = Lies(disk, g)
        /\ Lies(disk', f) = {Got(x)}
    BY <2>1, WhatIsWritten
  <2>3. f \in DOMAIN disk' /\ disk'[f] = Got(x) /\ (Got(x) = Broken <=> lost)
    BY <2>1 DEF With, Got
  <2> QED BY <1>1, <2>2, <2>3
<1>2. CASE disk' \in {disk, Without(disk, f)} /\ status' = 2
  <2>1. (\A g : g # f => Lies(disk', g) = Lies(disk, g)) /\ Lies(disk', f) \subseteq Lies(disk, f)
    BY <1>2, WhatIsRemoved
  <2> QED BY <1>2, <2>1
<1>3. (Tool(from, f, x) /\ status' = 0) \/ (disk' \in {disk, Without(disk, f)} /\ status' = 2)
  BY DEF Tool, ToolFails
<1> QED BY <1>1, <1>2, <1>3

\* The assembly, the object and the result are three files, and the library is none of
\* the first two.
LEMMA NamesDiffer ==
  ASSUME OptionsOK, ~options.S
  PROVE  /\ AssemblyPath # ResultPath
         /\ Objects # {} => ObjectPath # AssemblyPath /\ ObjectPath # ResultPath
         /\ \A name \in {"shmrt", "shmrt-debug"} : \A where \in {"here", "above"} :
              /\ <<where, name>> # AssemblyPath
              /\ Objects # {} => <<where, name>> # ObjectPath
<1> DEFINE s == Append(Output, "s")
           o == Append(Output, "o")
<1>1. Output \in Seq(Parts)
  BY OutputIsAPath
<1>2. /\ Len(Output) \in Nat /\ Len(s) = Len(Output) + 1 /\ s[Len(s)] = "s"
      /\ Len(o) = Len(Output) + 1 /\ o[Len(o)] = "o"
  BY <1>1, Extensions, AppendProperties
<1>3. AssemblyPath = s /\ ResultPath \in {Output, o} /\ (Objects # {} => ObjectPath = o /\ ResultPath = Output)
  BY DEF AssemblyPath, ResultPath, ObjectPath, Objects, Linking
<1> HIDE DEF s, o
<1>4. s # Output /\ s # o /\ o # Output
  <2>1. s # Output /\ o # Output
    BY <1>2
  <2>2. s # o
    BY <1>2
  <2> QED BY <2>1, <2>2
<1>5. ASSUME NEW name \in {"shmrt", "shmrt-debug"}, NEW where \in {"here", "above"}
      PROVE  <<where, name>> # s /\ <<where, name>> # o
  <2>1. Len(<<where, name>>) = 2 /\ <<where, name>>[2] = name
    OBVIOUS
  <2> QED BY <1>2, <2>1
<1> QED BY <1>3, <1>4, <1>5

\* What the passes made is the program the command is about, and what it is linked with
\* the library that was there.
LEMMA MadeOfTheProgram ==
  ASSUME {Main} \cup Pulled = Program
  PROVE  /\ Made("assembly") = Product("assembly", Program, NoPath)
         /\ Made("object") = Product("object", Program, ArchiveOn(began))
         /\ ArchiveOn(disk) = ArchiveOn(began) =>
              Made("program") = Product("program", Program, ArchiveOn(began))
  BY DEF Made, Product, Archive

\* Assembly text and object leave the runtime library where it was.
LEMMA SameLibrary ==
  ASSUME OptionsOK, ~options.S, OnlyAt({AssemblyPath} \cup Objects)
  PROVE  ArchiveOn(disk) = ArchiveOn(began)
<1>1. \A name \in {"shmrt", "shmrt-debug"} : \A where \in {"here", "above"} :
        <<where, name>> \in DOMAIN disk <=> <<where, name>> \in DOMAIN began
  <2>1. ASSUME NEW name \in {"shmrt", "shmrt-debug"}, NEW where \in {"here", "above"}
        PROVE  <<where, name>> \in DOMAIN disk <=> <<where, name>> \in DOMAIN began
    <3>1. <<where, name>> \notin {AssemblyPath} \cup Objects
      BY NamesDiffer DEF Objects
    <3> QED BY <3>1 DEF OnlyAt, Same
  <2> QED BY <2>1
<1> QED BY <1>1 DEF ArchiveOn

\* The assembler leaves its result, whole or broken, or none, and touches nothing else.
LEMMA AssemblingWrites ==
  ASSUME TouchInv, ReadInv, WriteInv, Assemble
  PROVE  WriteInv'
<1>1. /\ stage = "assembling" /\ stage' = "removing" /\ ~options.S /\ OptionsOK
      /\ UNCHANGED <<host, began, command, options, files, units, lost>>
      /\ OnlyAt({AssemblyPath}) /\ HalfIfLost(AssemblyPath) /\ {Main} \cup Pulled = Program
  BY DEF Assemble, TouchInv, ReadInv, WriteInv, Making
<1>2. /\ AssemblyPath' = AssemblyPath /\ ObjectPath' = ObjectPath /\ ResultPath' = ResultPath
      /\ Objects' = Objects /\ Result' = Result
  BY <1>1, WhatItIsAbout
<1>3. ArchiveOn(disk) = ArchiveOn(began)
  <2>1. OnlyAt({AssemblyPath} \cup Objects)
    BY <1>1 DEF OnlyAt
  <2> QED BY <1>1, <2>1, SameLibrary
<1>4. /\ Made("object") = Product("object", Program, ArchiveOn(began))
      /\ Made("program") = Product("program", Program, ArchiveOn(began))
  BY <1>1, <1>3, MadeOfTheProgram
<1>5. \A f : f # AssemblyPath => Lies(disk, f) = Lies(began, f)
  BY <1>1, OnlyAtMeans
<1>6. AssemblyPath # ResultPath /\ (Objects # {} => ObjectPath # AssemblyPath)
  BY <1>1, NamesDiffer
<1>7. CASE Objects = {}
  <2>1. Tool(AssemblyPath, ResultPath, Result) \/ ToolFails(ResultPath)
    <3>1. CASE options.c
      BY <1>1, <1>4, <3>1 DEF Assemble, ResultPath, Result
    <3>2. CASE ~options.c
      <4>1. host # "windows" /\ ResultPath = Output
        BY <1>1, <1>7, <3>2 DEF Objects, Linking, ResultPath
      <4> QED BY <1>4, <3>2, <4>1 DEF Assemble, Result
    <3> QED BY <3>1, <3>2
  <2>2. /\ \A g : g # ResultPath => Lies(disk', g) = Lies(disk, g)
        /\ \/ status' = 0 /\ Lies(disk', ResultPath) = {Got(Result)}
           \/ status' = 2 /\ Lies(disk', ResultPath) \subseteq Lies(disk, ResultPath)
    BY <1>1, <2>1, WholeIsNotBroken, WhatAToolLeaves
  <2>3. Delivered'
    <3>1. \/ status' = 0 /\ Lies(disk', ResultPath) = {Got(Result)}
          \/ status' = 2 /\ Lies(disk', ResultPath) \subseteq Lies(began, ResultPath)
      BY <1>5, <1>6, <2>2
    <3>2. Lies(disk', ResultPath') = Lies(disk', ResultPath) /\ Lies(began', ResultPath') = Lies(began, ResultPath)
      BY <1>1, <1>2
    <3>3. Got(Result)' = Got(Result)
      BY <1>1, <1>2 DEF Got
    <3> QED BY <3>1, <3>2, <3>3 DEF Delivered
  <2>4. OnlyAt({AssemblyPath, ResultPath})'
    <3>1. \A f : f \notin {AssemblyPath, ResultPath} => Lies(disk', f) = Lies(began, f)
      BY <1>5, <2>2
    <3> QED BY <1>1, <1>2, <3>1, OnlyAtThen DEF OnlyAt
  <2> QED BY <1>1, <1>2, <1>7, <2>3, <2>4 DEF WriteInv
<1>8. CASE Objects # {}
  <2>1. Tool(AssemblyPath, ObjectPath, Made("object"))
    BY <1>8 DEF Assemble, Objects
  <2>2. /\ \A g : g # ObjectPath => Lies(disk', g) = Lies(disk, g)
        /\ \/ /\ status' = 0
              /\ ObjectPath \in DOMAIN disk' /\ (disk'[ObjectPath] = Broken <=> lost')
           \/ status' = 2 /\ Lies(disk', ObjectPath) \subseteq Lies(disk, ObjectPath)
    <3>1. Made("object") # Broken
      BY WholeIsNotBroken
    <3> QED BY <1>1, <2>1, <3>1, WhatAToolLeaves
  <2>3. (status = 2 => Lies(disk, ObjectPath) \subseteq Lies(began, ObjectPath))'
    <3>1. status' = 2 => Lies(disk', ObjectPath) \subseteq Lies(began, ObjectPath)
      BY <1>5, <1>6, <1>8, <2>2
    <3> QED BY <1>1, <1>2, <3>1 DEF Lies
  <2>4. OnlyAt({AssemblyPath, ObjectPath})'
    <3>1. \A f : f \notin {AssemblyPath, ObjectPath} => Lies(disk', f) = Lies(began, f)
      BY <1>5, <2>2
    <3> QED BY <1>1, <1>2, <3>1, OnlyAtThen DEF OnlyAt
  <2>5. (status = 0 => HalfIfLost(ObjectPath))'
    BY <1>2, <2>2 DEF HalfIfLost
  <2> QED BY <1>1, <1>2, <1>8, <2>3, <2>4, <2>5 DEF WriteInv
<1> QED BY <1>7, <1>8

\* Removing the assembly text leaves what was asked for.
LEMMA RemovingWrites ==
  ASSUME TouchInv, ReadInv, WriteInv, Remove, stage' # "exited"
  PROVE  WriteInv'
<1>1. /\ stage = "removing" /\ stage' = "linking" /\ OptionsOK /\ ~options.S
      /\ host = "windows" /\ ~options.c /\ disk' = Without(disk, AssemblyPath) /\ status = 0
      /\ UNCHANGED <<host, began, command, options, files, units, lost>>
  BY DEF Remove, Go, Exit, TouchInv
<1>2. AssemblyPath' = AssemblyPath /\ ObjectPath' = ObjectPath
  BY <1>1, WhatItIsAbout
<1>3. OnlyAt({AssemblyPath, ObjectPath})
  BY <1>1 DEF WriteInv, Objects, Linking
<1>4. \A f : f \notin {AssemblyPath, ObjectPath} => Lies(disk', f) = Lies(began, f)
  BY <1>1, <1>3, OnlyAtMeans, WhatIsRemoved
<1>5. OnlyAt({AssemblyPath, ObjectPath})'
  BY <1>1, <1>2, <1>4, OnlyAtThen DEF OnlyAt
<1>6. AssemblyPath \notin DOMAIN disk'
  BY <1>1, WhatIsRemoved
<1>7. Objects = {ObjectPath} /\ ObjectPath # AssemblyPath
  BY <1>1, NamesDiffer DEF Objects, Linking
<1>8. HalfIfLost(ObjectPath)'
  <2>1. HalfIfLost(ObjectPath)
    BY <1>1, <1>7 DEF WriteInv
  <2>2. ObjectPath \in DOMAIN disk' /\ disk'[ObjectPath] = disk[ObjectPath]
    BY <1>1, <1>7, <2>1 DEF Without, Restrict, HalfIfLost
  <2> QED BY <1>1, <1>2, <2>1, <2>2 DEF HalfIfLost
<1> QED BY <1>1, <1>2, <1>5, <1>6, <1>8 DEF WriteInv

\* The linker leaves a program, whole or broken, or none.
LEMMA LinkingWrites ==
  ASSUME TouchInv, ReadInv, WriteInv, Link
  PROVE  WriteInv'
<1>1. /\ stage = "linking" /\ stage' = "clearing" /\ OptionsOK /\ host = "windows" /\ Linking
      /\ UNCHANGED <<host, began, command, options, files, units, lost>>
      /\ OnlyAt({AssemblyPath, ObjectPath}) /\ AssemblyPath \notin DOMAIN disk
      /\ HalfIfLost(ObjectPath) /\ {Main} \cup Pulled = Program
  BY DEF Link, TouchInv, ReadInv, WriteInv, Making
<1>2. /\ AssemblyPath' = AssemblyPath /\ ObjectPath' = ObjectPath /\ ResultPath' = ResultPath
      /\ Result' = Result
  BY <1>1, WhatItIsAbout
<1>3. /\ Objects = {ObjectPath} /\ ~options.S /\ ~options.c
      /\ AssemblyPath # ResultPath /\ ObjectPath # ResultPath
  BY <1>1, NamesDiffer DEF Objects, Linking
<1>4. Made("program") = Result
  <2>1. OnlyAt({AssemblyPath} \cup Objects)
    BY <1>1, <1>3 DEF OnlyAt
  <2> QED BY <1>1, <1>3, <2>1, SameLibrary, MadeOfTheProgram DEF Result
<1>5. Tool(ObjectPath, ResultPath, Result) \/ ToolFails(ResultPath)
  BY <1>4 DEF Link
<1>6. /\ \A g : g # ResultPath => Lies(disk', g) = Lies(disk, g)
      /\ \/ status' = 0 /\ Lies(disk', ResultPath) = {Got(Result)}
         \/ status' = 2 /\ Lies(disk', ResultPath) \subseteq Lies(disk, ResultPath)
  BY <1>1, <1>5, WholeIsNotBroken, WhatAToolLeaves
<1>7. \A f : f \notin {AssemblyPath, ObjectPath} => Lies(disk, f) = Lies(began, f)
  BY <1>1, OnlyAtMeans
<1>8. Delivered'
  <2>1. \/ status' = 0 /\ Lies(disk', ResultPath) = {Got(Result)}
        \/ status' = 2 /\ Lies(disk', ResultPath) \subseteq Lies(began, ResultPath)
    BY <1>3, <1>6, <1>7
  <2>2. Got(Result)' = Got(Result)
    BY <1>1, <1>2 DEF Got
  <2> QED BY <1>1, <1>2, <2>1, <2>2 DEF Delivered, Lies
<1>9. OnlyAt({AssemblyPath, ObjectPath, ResultPath})'
  <2>1. \A f : f \notin {AssemblyPath, ObjectPath, ResultPath} => Lies(disk', f) = Lies(began, f)
    BY <1>6, <1>7
  <2> QED BY <1>1, <1>2, <2>1, OnlyAtThen DEF OnlyAt
<1>10. AssemblyPath \notin DOMAIN disk'
  <2>1. Lies(disk', AssemblyPath) = {}
    BY <1>1, <1>3, <1>6 DEF Lies
  <2> QED BY <2>1 DEF Lies
<1> QED BY <1>1, <1>2, <1>8, <1>9, <1>10 DEF WriteInv

\* Every step but the last keeps what lies where results go.
LEMMA NextWrites ==
  ASSUME TouchInv, ReadInv, WriteInv, DriverNext
  PROVE  WriteInv'
<1>1. ASSUME stage' \in Looking \cup {"exited"}, stage' = "exited" => status' \in {NoStatus, 0, 1, 2}
      PROVE  WriteInv'
  BY <1>1 DEF WriteInv, Looking
<1>2. CASE WriteAssembly /\ stage' # "exited"
  <2>1. /\ stage = "writing" /\ stage' = "assembling"
        /\ UNCHANGED <<host, began, command, options, files, units>> /\ disk = began
        /\ disk' = With(disk, AssemblyPath, IF lost' THEN Broken ELSE Made("assembly"))
    BY <1>2 DEF WriteAssembly, Exit, Go, TouchInv, Looking
  <2>2. AssemblyPath' = AssemblyPath
    BY <2>1, WhatItIsAbout
  <2>3. \A f : f \notin {AssemblyPath} => Lies(disk', f) = Lies(began, f)
    BY <2>1, WhatIsWritten
  <2>4. OnlyAt({AssemblyPath})'
    BY <2>1, <2>2, <2>3, OnlyAtThen DEF OnlyAt
  <2>5. HalfIfLost(AssemblyPath)'
    BY <2>1, <2>2, WholeIsNotBroken DEF HalfIfLost, With
  <2> QED BY <2>1, <2>4, <2>5 DEF WriteInv
<1>3. CASE Option \/ (\E f \in Inputs : FileArgument(f)) \/ Answer \/ UnknownOption \/ Gather
           \/ ReadFile \/ Resolve \/ Check \/ Clear \/ Killed \/ NextCommand
  <2>1. stage' \in Looking \cup {"exited"} /\ (stage' = "exited" => status' \in {NoStatus, 0, 1, 2})
    BY <1>3 DEF Option, FileArgument, Given, Reading, Answer, UnknownOption, Gather, ReadFile, Resolve,
           Check, Clear, Killed, NextCommand, Exit, Go, Looking, TouchInv
  <2> QED BY <1>1, <2>1
<1>4. CASE (WriteAssembly \/ Remove) /\ stage' = "exited"
  <2>1. status' \in {0, 2}
    BY <1>4 DEF WriteAssembly, Remove, Exit, Go, TouchInv
  <2> QED BY <1>1, <1>4, <2>1
<1> QED BY <1>2, <1>3, <1>4, AssemblingWrites, RemovingWrites, LinkingWrites
        DEF DriverNext, Steps

-------------------------------------------------------------------------------
(***************************************************************************)
(* The last step of a command, as Compilation sees it.                     *)
(***************************************************************************)
OnlyWhatIsAsked ==
  \A f : f \notin Request.assembly \cup Request.object \cup {Request.place} =>
           Lies(disk', f) = Lies(began, f)

\* Where the same lies everywhere but at some files, the disks without them are equal.
LEMMA Elsewhere ==
  ASSUME NEW d, NEW e, NEW S, \A f : f \notin S => Lies(d, f) = Lies(e, f)
  PROVE  Restrict(d, DOMAIN d \ S) = Restrict(e, DOMAIN e \ S)
<1>1. DOMAIN d \ S = DOMAIN e \ S
  BY DEF Lies
<1>2. \A f \in DOMAIN d \ S : d[f] = e[f]
  BY DEF Lies
<1> QED BY <1>1, <1>2 DEF Restrict

\* What the promise says of the last step, in the driver's own words.
LEMMA TheLastStep ==
  ASSUME stage # "exited", stage' = "exited", files # <<>>
  PROVE  /\ OnlyWhatIsAsked => Promise!Touches
         /\ Promise!Open = IF stage = "exited" THEN status ELSE -2
         /\ \A f : Promise!There(disk', f) = Lies(disk', f) /\ Promise!There(began, f) = Lies(began, f)
<1>1. ASSUME OnlyWhatIsAsked PROVE Promise!Touches
  <2> DEFINE S == Request.assembly \cup Request.object \cup {Request.place}
  <2>1. Restrict(disk', DOMAIN disk' \ S) = Restrict(began, DOMAIN began \ S)
    BY ZenonT(30), <1>1, Elsewhere DEF OnlyWhatIsAsked
  <2> QED BY <2>1 DEF Promise!Touches, Promise!Elsewhere, Promise!Spares, Promise!Restrict, Restrict
<1>2. \A f : Promise!There(disk', f) = Lies(disk', f) /\ Promise!There(began, f) = Lies(began, f)
  BY DEF Promise!There, Lies
<1> QED BY <1>1, <1>2 DEF Promise!Open

\* A command that ends well keeps the promise: the result lies there.
LEMMA EndingWell ==
  ASSUME stage # "exited", stage' = "exited", files # <<>>, status' = 0,
         Request.compiles, OnlyWhatIsAsked,
         Lies(disk', Request.place) = {IF lost' THEN Broken ELSE Request.made},
         \A f \in Request.assembly \cup Request.object : Lies(disk', f) = {}
  PROVE  Promise!Next
  BY TheLastStep
     DEF Promise!Next, Promise!Compile, Promise!Succeeded, Promise!Spares, Promise!Broken, Broken

\* A command that blames its program keeps the promise: the disk is as it was.
LEMMA EndingBlamed ==
  ASSUME stage # "exited", stage' = "exited", files # <<>>, status' = 1,
         Request.place # NoPath, ~Request.compiles, disk' = began
  PROVE  Promise!Next
  BY TheLastStep
     DEF Promise!Next, Promise!Compile, Promise!Blamed, Promise!Nothing, NoPath

\* A command that fails keeps the promise: it made nothing, or half of the text asked for.
LEMMA EndingBadly ==
  ASSUME stage # "exited", stage' = "exited", files # <<>>, status' = 2, OnlyWhatIsAsked,
         Lies(disk', Request.place) \subseteq
           Lies(began, Request.place) \cup (IF Request.assembly = {} THEN {Broken} ELSE {}),
         disk' # began => \A f \in Request.assembly :
                            Lies(disk', f) \subseteq Request.kept \cup {Broken},
         \A f \in Request.object : Lies(disk', f) \subseteq Lies(began, f)
  PROVE  Promise!Next
  BY TheLastStep
     DEF Promise!Next, Promise!Compile, Promise!Failed, Promise!AsksForTheText, Promise!Broken, Broken

\* A command that is killed keeps the promise, which asks only what it touched.
LEMMA EndingKilled ==
  ASSUME stage # "exited", stage' = "exited", files # <<>>, status' = NoStatus, OnlyWhatIsAsked
  PROVE  Promise!Next
  BY TheLastStep
     DEF Promise!Next, Promise!Compile, Promise!WasKilled, Promise!Killed, NoStatus

\* A command without inputs keeps the promise: it only answers.
LEMMA EndingAnswered ==
  ASSUME stage # "exited", stage' = "exited", files = <<>>, status' \in {0, 2}, disk' = began
  PROVE  Promise!Next
  BY DEF Promise!Next, Promise!Compile, Promise!Open, Promise!Answered, Promise!Nothing, NoPath

\* What the end of a command is held against.
LEMMA WhatIsAsked ==
  /\ Request.compiles = Compiles
  /\ Request.place = IF options.S THEN AssemblyPath ELSE ResultPath
  /\ Request.assembly = (IF options.S THEN {} ELSE {AssemblyPath})
  /\ Request.object = Objects
  /\ Request.made = IF options.S THEN Product("assembly", Program, NoPath) ELSE Result
  /\ Request.kept = IF options.target = "host" THEN {} ELSE {Product("assembly", Program, NoPath)}
BY DEF Request, Assemblies, Result, Product

\* A command that ends with the assembly text keeps the promise.
LEMMA WritingEnds ==
  ASSUME TouchInv, ReadInv, WriteAssembly, stage' = "exited"
  PROVE  Promise!Next
<1>1. /\ stage = "writing" /\ disk = began /\ Compiles /\ {Main} \cup Pulled = Program
      /\ OptionsOK /\ files # <<>>
  BY DEF WriteAssembly, TouchInv, Looking, ReadInv, Making, Gathered
<1>2. Made("assembly") = Product("assembly", Program, NoPath)
  BY <1>1, MadeOfTheProgram
<1>3. /\ disk' = disk \/ \E x \in {Made("assembly"), Broken} : disk' = With(disk, AssemblyPath, x)
      /\ \/ status' = 2 /\ (disk' = disk \/ disk' = With(disk, AssemblyPath, Broken))
         \/ /\ status' = 0 /\ options.S
            /\ disk' = With(disk, AssemblyPath, IF lost' THEN Broken ELSE Made("assembly"))
         \/ status' = 2 /\ ~options.S /\ options.target # "host"
  BY DEF WriteAssembly, Exit, Go
<1>4. \A f : f # AssemblyPath => Lies(disk', f) = Lies(began, f)
  BY <1>1, <1>3, WhatIsWritten
<1>5. Lies(disk', AssemblyPath) \in {Lies(began, AssemblyPath), {Made("assembly")}, {Broken}}
  BY <1>1, <1>3, WhatIsWritten
<1>6. CASE options.S
  <2>1. /\ Request.place = AssemblyPath /\ Request.assembly = {} /\ Request.object = {}
        /\ Request.made = Made("assembly") /\ Request.compiles
    BY <1>1, <1>2, <1>6, WhatIsAsked DEF Objects, Linking
  <2>2. OnlyWhatIsAsked
    BY <1>4, <2>1 DEF OnlyWhatIsAsked
  <2>3. CASE status' = 2
    <3>1. Lies(disk', AssemblyPath) \subseteq Lies(began, AssemblyPath) \cup {Broken}
      BY <1>1, <1>3, <1>6, <2>3, WhatIsWritten
    <3> QED BY <1>1, <2>1, <2>2, <2>3, <3>1, EndingBadly
  <2>4. CASE status' = 0
    <3>1. Lies(disk', AssemblyPath) = {IF lost' THEN Broken ELSE Made("assembly")}
      BY <1>1, <1>3, <2>4, WhatIsWritten
    <3> QED BY <1>1, <2>1, <2>2, <2>4, <3>1, EndingWell
  <2> QED BY <1>3, <2>3, <2>4
<1>7. CASE ~options.S
  <2>1. /\ Request.place = ResultPath /\ Request.assembly = {AssemblyPath}
        /\ Request.object = Objects
        /\ Request.kept = IF options.target = "host" THEN {} ELSE {Made("assembly")}
    BY <1>2, <1>7, WhatIsAsked
  <2>2. OnlyWhatIsAsked
    BY <1>4, <2>1 DEF OnlyWhatIsAsked
  <2>3. AssemblyPath # ResultPath /\ AssemblyPath \notin Objects
    BY <1>1, <1>7, NamesDiffer DEF Objects
  <2>4. status' = 2
    BY <1>3, <1>7
  <2>5. disk' # began => Lies(disk', AssemblyPath) \subseteq Request.kept \cup {Broken}
    <3>1. CASE disk' = With(disk, AssemblyPath, Broken)
      BY <3>1, WhatIsWritten
    <3>2. CASE options.target # "host"
      BY <1>1, <1>3, <2>1, <3>2, WhatIsWritten
    <3> QED BY <1>1, <1>3, <1>7, <3>1, <3>2
  <2> QED BY <1>1, <1>4, <2>1, <2>2, <2>3, <2>4, <2>5, EndingBadly
<1> QED BY <1>6, <1>7

\* A command that ends by removing the assembly text keeps the promise.
LEMMA RemovingEnds ==
  ASSUME TouchInv, ReadInv, WriteInv, Remove, stage' = "exited"
  PROVE  Promise!Next
<1>1. /\ stage = "removing" /\ status' = status /\ lost' = lost /\ status \in {0, 2} /\ ~options.S /\ OptionsOK
      /\ disk' = Without(disk, AssemblyPath) /\ Compiles /\ files # <<>>
  BY DEF Remove, Exit, Go, TouchInv, ReadInv, Making, Gathered
<1>2. /\ Request.place = ResultPath /\ Request.assembly = {AssemblyPath}
      /\ Request.object = Objects /\ Request.made = Result /\ Request.compiles
  BY <1>1, WhatIsAsked
<1>3. AssemblyPath # ResultPath /\ AssemblyPath \notin Objects /\ ResultPath \notin Objects
  BY <1>1, NamesDiffer DEF Objects
<1>4. Lies(disk', AssemblyPath) = {} /\ \A f : f # AssemblyPath => Lies(disk', f) = Lies(disk, f)
  BY <1>1, WhatIsRemoved
<1>5. CASE Objects = {}
  <2>1. Delivered /\ \A f : f \notin {AssemblyPath, ResultPath} => Lies(disk, f) = Lies(began, f)
    BY <1>1, <1>5, OnlyAtMeans DEF WriteInv
  <2>2. OnlyWhatIsAsked
    BY <1>2, <1>4, <2>1 DEF OnlyWhatIsAsked
  <2>3. CASE status = 0
    <3>1. Lies(disk', ResultPath) = {IF lost' THEN Broken ELSE Result}
      BY <1>1, <1>3, <1>4, <2>1, <2>3 DEF Delivered, Got
    <3> QED BY <1>1, <1>2, <1>4, <1>5, <2>2, <2>3, <3>1, EndingWell
  <2>4. CASE status = 2
    <3>1. Lies(disk', ResultPath) \subseteq Lies(began, ResultPath)
      BY <1>3, <1>4, <2>1, <2>4 DEF Delivered
    <3> QED BY <1>1, <1>2, <1>4, <1>5, <2>2, <2>4, <3>1, EndingBadly
  <2> QED BY <1>1, <2>3, <2>4
<1>6. CASE Objects # {}
  <2>1. Objects = {ObjectPath} /\ status = 2
    BY <1>1, <1>6 DEF Remove, Exit, Go, Objects, Linking
  <2>2. /\ \A f : f \notin {AssemblyPath, ObjectPath} => Lies(disk, f) = Lies(began, f)
        /\ Lies(disk, ObjectPath) \subseteq Lies(began, ObjectPath)
    BY <1>1, <1>6, <2>1, OnlyAtMeans DEF WriteInv
  <2>3. OnlyWhatIsAsked
    BY <1>2, <1>4, <2>1, <2>2 DEF OnlyWhatIsAsked
  <2>4. /\ Lies(disk', ResultPath) \subseteq Lies(began, ResultPath)
        /\ Lies(disk', ObjectPath) \subseteq Lies(began, ObjectPath)
    BY <1>3, <1>4, <2>1, <2>2
  <2> QED BY <1>1, <1>2, <1>4, <2>1, <2>3, <2>4, EndingBadly
<1> QED BY <1>5, <1>6

\* A command that ends by clearing up after the linker keeps the promise.
LEMMA ClearingEnds ==
  ASSUME TouchInv, ReadInv, WriteInv, Clear
  PROVE  Promise!Next
<1>1. /\ stage = "clearing" /\ stage' = "exited" /\ status' = status /\ lost' = lost /\ status \in {0, 2}
      /\ host = "windows" /\ Linking /\ OptionsOK
      /\ disk' = Without(disk, ObjectPath) /\ Compiles /\ files # <<>>
  BY DEF Clear, Exit, TouchInv, ReadInv, Making, Gathered
<1>2. ~options.S /\ Objects = {ObjectPath}
  BY <1>1 DEF Linking, Objects
<1>3. /\ Request.place = ResultPath /\ Request.assembly = {AssemblyPath}
      /\ Request.object = {ObjectPath} /\ Request.made = Result /\ Request.compiles
  BY <1>1, <1>2, WhatIsAsked
<1>4. ObjectPath # AssemblyPath /\ ObjectPath # ResultPath
  BY <1>1, <1>2, NamesDiffer
<1>5. Lies(disk', ObjectPath) = {} /\ \A f : f # ObjectPath => Lies(disk', f) = Lies(disk, f)
  BY <1>1, WhatIsRemoved
<1>6. /\ \A f : f \notin {AssemblyPath, ObjectPath, ResultPath} => Lies(disk, f) = Lies(began, f)
      /\ Lies(disk, AssemblyPath) = {} /\ Delivered
  BY <1>1, OnlyAtMeans DEF WriteInv, Lies
<1>7. OnlyWhatIsAsked
  BY <1>3, <1>5, <1>6 DEF OnlyWhatIsAsked
<1>8. Lies(disk', AssemblyPath) = {}
  BY <1>4, <1>5, <1>6
<1>9. CASE status = 0
  <2>1. Lies(disk', ResultPath) = {IF lost' THEN Broken ELSE Result}
    BY <1>1, <1>4, <1>5, <1>6, <1>9 DEF Delivered, Got
  <2> QED BY <1>1, <1>3, <1>5, <1>7, <1>8, <1>9, <2>1, EndingWell
<1>10. CASE status = 2
  <2>1. Lies(disk', ResultPath) \subseteq Lies(began, ResultPath)
    BY <1>4, <1>5, <1>6, <1>10 DEF Delivered
  <2> QED BY <1>1, <1>3, <1>5, <1>7, <1>8, <1>10, <2>1, EndingBadly
<1> QED BY <1>1, <1>9, <1>10

\* A driver that is killed, at whatever stage, keeps the promise.
LEMMA KilledEnds ==
  ASSUME TouchInv, ReadInv, Killed
  PROVE  Promise!Next
<1>1. /\ stage \notin {"arguments", "exited"} /\ stage' = "exited" /\ status' = NoStatus
      /\ disk' = disk /\ files # <<>>
  BY DEF Killed, Exit, TouchInv, Stages, ReadInv, Making, Gathered
<1>2. OnlyAt(Touchable) /\ (options.S => disk = began)
  BY <1>1 DEF OnlyAt, TouchInv, Linking, Stages, Looking
<1>3. \A f : f \notin Touchable => Lies(disk', f) = Lies(began, f)
  BY <1>1, <1>2, OnlyAtMeans
<1>4. CASE options.S
  BY <1>1, <1>2, <1>4, EndingKilled DEF OnlyWhatIsAsked
<1>5. CASE ~options.S
  <2>1. Request.assembly \cup Request.object \cup {Request.place} = Touchable
    BY <1>5, WhatIsAsked DEF Touchable
  <2> QED BY <1>1, <1>3, <2>1, EndingKilled DEF OnlyWhatIsAsked
<1> QED BY <1>4, <1>5

\* A result has a name.
LEMMA ThereIsAPlace ==
  ASSUME OptionsOK, Main \in Inputs, Main # NoPath
  PROVE  Request.place # NoPath
<1>1. Main \in Seq(STRING)
  BY NamesAssumption
<1>2. Stem(Main) # NoPath
  <2>1. CASE Len(Main) > 1
    <3>1. \A i \in 1..Len(Main) - 1 : Main[i] \in STRING
      BY <1>1
    <3>2. Len(SubSeq(Main, 1, Len(Main) - 1)) = Len(Main) - 1
      BY <1>1, <2>1, <3>1, SubSeqProperties
    <3>3. Len(SubSeq(Main, 1, Len(Main) - 1)) > 0
      BY <1>1, <2>1, <3>2
    <3>4. Stem(Main) = SubSeq(Main, 1, Len(Main) - 1)
      BY <2>1 DEF Stem
    <3>5. Len(NoPath) = 0
      BY DEF NoPath
    <3>6. Len(Stem(Main)) # Len(NoPath)
      BY <1>1, <2>1, <3>2, <3>4, <3>5
    <3> QED BY ONLY <3>6
  <2>2. CASE ~(Len(Main) > 1)
    BY <2>2 DEF Stem
  <2> QED BY <2>1, <2>2
<1>3. \A path \in Seq(Parts) : \A extension \in {"s", "o", "exe"} : Append(path, extension) # NoPath
  <2>1. ASSUME NEW path \in Seq(Parts), NEW extension \in {"s", "o", "exe"}
        PROVE  Append(path, extension) # NoPath
    <3>1. Len(Append(path, extension)) = Len(path) + 1 /\ Len(path) \in Nat
      BY <2>1, Extensions, AppendProperties
    <3> QED BY <3>1 DEF NoPath
  <2> QED BY <2>1
<1>4. Output # NoPath
  BY <1>2, <1>3, StemsLookOtherwise DEF Output, Named
<1>5. Append(Output, "o") # NoPath
  BY <1>3, OutputIsAPath
<1> QED BY <1>4, <1>5, WhatIsAsked DEF AssemblyPath, ResultPath, ObjectPath

\* A command that ends before it writes keeps the promise.
LEMMA LookingEnds ==
  ASSUME TouchInv, ReadInv, stage' = "exited",
         Answer \/ UnknownOption \/ Gather \/ ReadFile \/ Resolve \/ Check
  PROVE  Promise!Next
<1>1. /\ stage \in Looking /\ disk = began /\ disk' = disk /\ files' = files
  BY DEF Answer, UnknownOption, Gather, ReadFile, Resolve, Check, Exit, Go, TouchInv, Looking
<1>2. CASE Answer \/ UnknownOption \/ Gather
  <2>1. files = <<>> /\ status' \in {0, 2}
    BY <1>2 DEF Answer, UnknownOption, Gather, Exit, Go, ReadInv
  <2> QED BY <1>1, <2>1, EndingAnswered DEF Looking
<1>3. CASE ReadFile \/ Resolve \/ Check
  <2>1. files # <<>> /\ stage # "exited" /\ Gathered
    BY <1>3 DEF ReadFile, Resolve, Check, ReadInv, Gathered
  <2>2. OnlyWhatIsAsked
    BY <1>1 DEF OnlyWhatIsAsked
  <2>3. CASE status' = 2
    BY <1>1, <2>1, <2>2, <2>3, EndingBadly
  <2>4. CASE status' = 1
    <3>1. ~Compiles
      <4>1. CASE ReadFile
        <5>1. stage = "reading" /\ at = 1 /\ Fault(files[at]) = "lex"
          BY <2>4, <4>1 DEF ReadFile, Exit, Go, ReadInv, TouchInv, Looking, NoStatus
        <5> QED BY <5>1, NoTextIsAtFault
      <4>2. CASE Resolve
        BY <2>4, <4>2, RefusedIsAtFault DEF Resolve, Exit, Go
      <4>3. CASE Check
        BY <2>4, <4>3, ChecksDecide DEF Check, Exit, Go
      <4> QED BY <1>3, <4>1, <4>2, <4>3
    <3>2. Request.place # NoPath
      BY <2>1, ThereIsAPlace DEF Gathered, TouchInv
    <3> QED BY <1>1, <2>1, <2>4, <3>1, <3>2, WhatIsAsked, EndingBlamed
  <2>5. status' \in {1, 2}
    BY <1>3 DEF ReadFile, Resolve, Check, Exit, Go
  <2> QED BY <2>3, <2>4, <2>5
<1> QED BY <1>2, <1>3

\* While nothing changes the invariants stay.
LEMMA StutteringKeeps ==
  ASSUME TouchInv, ReadInv, WriteInv, UNCHANGED vars
  PROVE  TouchInv' /\ ReadInv' /\ WriteInv'
<1>1. UNCHANGED <<host, disk, began, command, options, stage, files, at, units, lost, status>>
  BY DEF vars
<1>2. TouchInv'
  BY <1>1 DEF TouchInv, OptionsOK, Same, Touchable, ResultPath, AssemblyPath, ObjectPath, Objects,
              Output, Named, Stem, Main, Linking
<1>3. ReadInv'
  <2>1. \A f : Parses(f)' <=> Parses(f)
    BY <1>1 DEF Parses, Found
  <2>2. AreRead(at - 1)' <=> AreRead(at - 1)
    BY SMTT(30), <1>1, <2>1 DEF AreRead
  <2>3. AreRead(Len(files))' <=> AreRead(Len(files))
    BY SMTT(30), <1>1, <2>1 DEF AreRead
  <2>4. (Gathered' <=> Gathered) /\ (MainParsed' <=> MainParsed)
    BY <1>1 DEF Gathered, Main, Paths, MainParsed
  <2>5. Source(Main)' = Source(Main) /\ Offering' = Offering /\ Pulled' = Pulled /\ Main' = Main
    BY <1>1 DEF Source, Main, Offering, Pulled
  <2>6. Program' = Program /\ Compiles' = Compiles
    BY <1>1, WhatItIsAbout
  <2> QED BY <1>1, <2>2, <2>3, <2>4, <2>5, <2>6 DEF ReadInv
<1>4. WriteInv'
  <2>1. /\ AssemblyPath' = AssemblyPath /\ ObjectPath' = ObjectPath /\ ResultPath' = ResultPath
        /\ Objects' = Objects /\ Result' = Result
    BY <1>1, WhatItIsAbout
  <2>2. Delivered' <=> Delivered
    BY <1>1, <2>1 DEF Delivered, Got
  <2>3. \A S : OnlyAt(S)' <=> OnlyAt(S)
    BY <1>1 DEF OnlyAt, Same
  <2>4. \A f : HalfIfLost(f)' <=> HalfIfLost(f)
    BY <1>1 DEF HalfIfLost
  <2> QED BY <1>1, <2>1, <2>2, <2>3, <2>4 DEF WriteInv
<1> QED BY <1>2, <1>3, <1>4

\* A step that is not the last of a command is none of Compilation; the last is.
LEMMA NextKeepsThePromise ==
  ASSUME TouchInv, ReadInv, WriteInv, DriverNext
  PROVE  [Promise!Next]_<<IF stage = "exited" THEN disk ELSE began,
                          IF stage = "exited" THEN status ELSE -2>>
<1>1. CASE NextCommand
  <2>1. /\ stage = "exited" /\ stage' = "arguments" /\ began' = disk
        /\ status \in {NoStatus, 0, 1, 2}
    BY <1>1 DEF NextCommand, WriteInv
  <2>2. Promise!NextCommand
    BY <2>1 DEF Promise!NextCommand, Promise!Open, NoStatus
  <2> QED BY <2>2 DEF Promise!Next
<1>2. CASE ~NextCommand /\ stage' # "exited"
  <2>1. stage # "exited" /\ began' = began
    BY <1>2 DEF DriverNext, Steps, Option, FileArgument, Given, Reading, Answer, UnknownOption, Gather,
           ReadFile, Resolve, Check, WriteAssembly, Assemble, Remove, Link, Clear, Killed
  <2> QED BY <1>2, <2>1
<1>3. CASE ~NextCommand /\ stage' = "exited"
  <2>1. \/ Answer \/ UnknownOption \/ Gather \/ ReadFile \/ Resolve \/ Check
        \/ WriteAssembly \/ Remove \/ Clear \/ Killed
    BY <1>3 DEF DriverNext, Steps, Option, FileArgument, Given, Reading, Assemble, Link
  <2> QED BY <1>3, <2>1, LookingEnds, WritingEnds, RemovingEnds, ClearingEnds, KilledEnds
<1> QED BY <1>1, <1>2, <1>3

\* Whatever the passes, the tools and the disk do, and whatever lies there, each command
\* is one step of Compilation: with 0 the result lies in its place, made by this command
\* of this program, or broken if the disk filled up as the text was closed; with 1 the
\* program is at fault and nothing was touched; with 2 nothing was made, so that what
\* lay there before may be there still (Driver.cpp: run(), writeFile()).
THEOREM CommandsKeepThePromise == DriverSpec => ImplementsCompilation
<1>1. DriverInit => TouchInv /\ ReadInv /\ WriteInv
  <2>1. NoOptions \in Options
    BY DEF NoOptions, Options
  <2>2. DriverInit => KnownFiles(disk) /\ KnownFiles(began)
    BY DriverAssumption DEF DriverInit
  <2> QED BY <2>1, <2>2 DEF DriverInit, Start, TouchInv, OptionsOK, Same, Looking, Stages,
                            ReadInv, Making, WriteInv
<1>2. TouchInv /\ ReadInv /\ WriteInv /\ [DriverNext]_vars => TouchInv' /\ ReadInv' /\ WriteInv'
  BY StutteringKeeps, NextTouches, NextReads, NextWrites
<1>3. DriverInit => Promise!Init
  BY DEF DriverInit, Start, Promise!Init, Promise!Open
<1>4. TouchInv /\ ReadInv /\ WriteInv /\ [DriverNext]_vars =>
        [Promise!Next]_<<IF stage = "exited" THEN disk ELSE began,
                         IF stage = "exited" THEN status ELSE -2>>
  BY NextKeepsThePromise DEF vars
<1> QED BY <1>1, <1>2, <1>3, <1>4, PTL DEF DriverSpec, ImplementsCompilation, Promise!Spec
================================================================================
