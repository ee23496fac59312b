------------------------------- MODULE Calling --------------------------------
(***************************************************************************)
(* One call, from its first argument to its last copy-back, as generated   *)
(* code executes it: CodeGen::generateCall in the caller, the entry of     *)
(* CodeGen::generate(Function) in the callee, and the emitters' registers  *)
(* (src/src/CodeGen.cpp, src/src/backend).  A value is known by where it   *)
(* comes from; evaluating an expression and calling anything leave junk in *)
(* every register and in every evaluation slot not yet reserved.           *)
(***************************************************************************)
EXTENDS Places

CONSTANT
  Cases  \* the calls, each on a target.  A target: argument registers; whether an
         \* argument's place counts both files; whether the accumulator is argument 0.
         \* A call: inputs [kind, ref, element], the number of outputs returned by
         \* pointer, whether the callee is foreign

ArgumentKinds == {"Int", "Real", "Wide"}

CallOK(c) ==
  /\ c.inputs \in Seq([kind: ArgumentKinds, ref: BOOLEAN, element: BOOLEAN])
  /\ c.outputs \in Nat
  /\ c.foreign \in BOOLEAN
  /\ c.foreign => c.outputs = 0
  /\ \A i \in DOMAIN c.inputs : c.inputs[i].element => c.inputs[i].ref

\* No target has more than eight argument registers of a file.
ASSUME CallingAssumption ==
  \A c \in Cases : /\ IsMachine(c.machine) /\ {c.machine.ints, c.machine.reals} \subseteq 0..8
                   /\ CallOK(c.call)

VARIABLES
  convention, call,
  part,        \* the part of the call being executed
  next,        \* the argument it is at
  registers,   \* the registers, <<file, number>>
  callFrame,   \* the caller's slots
  elements,    \* element i is what argument i indexes before the call, element
               \* n + i what the same expression indexes if the index has moved
  block,       \* the overflow pointer
  home,        \* the callee's slots for its parameters
  assigned,    \* the reference parameters the callee assigned
  moved        \* the callee changed what the indexes read

callVars == <<convention, call, part, next, registers, callFrame, elements, block, home, assigned, moved>>

-------------------------------------------------------------------------------
n == Len(call.inputs)

Params == 1..(n + call.outputs)

Inputs == 1..n

IsRef(i) == i \in Inputs /\ call.inputs[i].ref

\* What travels: a reference and an output are addresses.
FileOf(i) == IF i \in Inputs /\ ~call.inputs[i].ref /\ call.inputs[i].kind = "Real"
             THEN "real" ELSE "int"

files == [i \in Params |-> FileOf(i)]

InRegister(i) == Fits(convention, files, i)

Number(i) == PlaceIndex(convention, files, i)

ValueFile(i) == IF call.inputs[i].kind = "Real" THEN "real" ELSE "int"

\* storeSlot and loadSlot go through these; arm64's is an argument register.
Accumulator(file) == IF file = "real" THEN <<"real", 0>>
                     ELSE IF convention.shared THEN <<"int", 0>> ELSE <<"accumulator", 0>>

\* The caller's frame: a variable for each argument, the scratch slots of this
\* call (outputs, then references), a temporary of the expression around it, the
\* overflow block, one slot for each argument.
VariableSlot(i) == i - 1

OutputSlot(j) == n + j - 1

\* Mutant: the scratch of references begins where that of outputs does.
ScratchOverOutputs(i) == n + Cardinality({j \in Inputs : j < i /\ IsRef(j)})

ScratchSlot(i) == n + call.outputs + Cardinality({j \in Inputs : j < i /\ IsRef(j)})

Temporary == n + call.outputs + Cardinality({i \in Inputs : IsRef(i)})

\* Mutant: the block is not reserved beyond what already is.
BlockUnreserved == Temporary

BlockBase == Temporary + 1

ArgumentSlot(i) == BlockBase + OverflowCount(convention, files) + i - 1

\* Two more are reserved when an element is copied back.
Slots == 0..(ArgumentSlot(n) + 2)

-------------------------------------------------------------------------------
Junk == <<"junk", 0>>

Supplied(i) == <<"argument", i>>

Assigned(i) == <<"assigned", i>>

Output(j) == <<"output", j>>

Address(s) == <<"address", s>>

Registers == (Files \X (0..7)) \cup {<<"accumulator", 0>>}

CallInit ==
  /\ \E c \in Cases : convention = c.machine /\ call = c.call
  /\ part = "arguments" /\ next = 1
  /\ registers = [r \in Registers |-> Junk]
  /\ callFrame = [s \in Slots |-> IF s + 1 \in Inputs THEN Supplied(s + 1)
                              ELSE IF s = Temporary THEN <<"temporary", 0>> ELSE Junk]
  /\ elements = [i \in 1..(2 * n) |-> IF i \in Inputs THEN Supplied(i) ELSE Junk]
  /\ block = 0
  /\ home = <<>>
  /\ assigned = {}
  /\ moved = FALSE

\* evaluate(), with the evaluation slots from depth up free for its own use.
Evaluated(depth, target, value) ==
  callFrame' = [s \in Slots |-> IF s = target THEN value
                            ELSE IF s >= depth THEN Junk ELSE callFrame[s]]

Clobbered == registers' = [r \in Registers |-> Junk]

\* evaluate() and storeSlot(), argument by argument.
EvaluateArgument ==
  /\ part = "arguments" /\ next \in Inputs
  /\ Evaluated(ArgumentSlot(next) + 1,
               IF IsRef(next) THEN ScratchSlot(next) ELSE ArgumentSlot(next),
               Supplied(next))
  /\ Clobbered
  /\ next' = next + 1
  /\ UNCHANGED <<convention, call, part, elements, block, home, assigned, moved>>

ArgumentsDone ==
  /\ part = "arguments" /\ next = n + 1
  /\ part' = "overflow" /\ next' = 1
  /\ UNCHANGED <<convention, call, registers, callFrame, elements, block, home, assigned, moved>>

\* What is passed for parameter i, out of the frame.
Passed(i) == IF i > n THEN Address(OutputSlot(i - n))
             ELSE IF IsRef(i) THEN Address(ScratchSlot(i))
             ELSE callFrame[ArgumentSlot(i)]

StoreOverflow ==
  /\ part = "overflow" /\ next \in Params
  /\ IF InRegister(next)
     THEN UNCHANGED <<registers, callFrame>>
     ELSE /\ registers' = [registers EXCEPT ![Accumulator(FileOf(next))] = Passed(next)]
          /\ callFrame' = [callFrame EXCEPT ![BlockBase + Number(next)] = Passed(next)]
  /\ next' = next + 1
  /\ UNCHANGED <<convention, call, part, elements, block, home, assigned, moved>>

OverflowDone ==
  /\ part = "overflow" /\ next = n + call.outputs + 1
  /\ part' = "registers" /\ next' = 1
  /\ UNCHANGED <<convention, call, registers, callFrame, elements, block, home, assigned, moved>>

\* Mutant: the registers are loaded first to last.
LoadForward(k) == k

\* The k-th register to load: last to first.
LoadOrder(k) == n + call.outputs + 1 - k

\* An address is made in the accumulator and moved; a value is loaded directly.
LoadRegister ==
  /\ part = "registers" /\ next \in Params
  /\ LET i == LoadOrder(next)
         target == <<FileOf(i), Number(i)>>
     IN  IF ~InRegister(i) THEN UNCHANGED registers
         ELSE IF i > n \/ IsRef(i)
              THEN registers' = [registers EXCEPT ![Accumulator("int")] = Passed(i), ![target] = Passed(i)]
              ELSE registers' = [registers EXCEPT ![target] = Passed(i)]
  /\ next' = next + 1
  /\ UNCHANGED <<convention, call, part, callFrame, elements, block, home, assigned, moved>>

\* setOverflowBlock() and the call.
Jump ==
  /\ part = "registers" /\ next = n + call.outputs + 1
  /\ block' = IF OverflowCount(convention, files) > 0 THEN BlockBase ELSE block
  /\ part' = "entry"
  /\ UNCHANGED <<convention, call, next, registers, callFrame, elements, home, assigned, moved>>

\* The callee's entry: spillArgument and spillOverflowArgument.  A foreign
\* function looks for what is not in a register where its own compiler would
\* have put it, at the bottom of the caller's frame.
Spill ==
  /\ part = "entry"
  /\ home' = [i \in Params |->
                IF InRegister(i) THEN registers[<<FileOf(i), Number(i)>>]
                ELSE IF call.foreign THEN callFrame[Number(i)]
                ELSE callFrame[block + Number(i)]]
  /\ part' = "body"
  /\ UNCHANGED <<convention, call, next, registers, callFrame, elements, block, assigned, moved>>

\* What the parameter with this home points at, if it points.
PointsAt(i, s) == home[i] = Address(s)

\* The body assigns some of its references through their pointers, and answers.
Body ==
  /\ part = "body"
  /\ assigned' \in SUBSET {i \in Inputs : IsRef(i)}
  /\ moved' \in {FALSE} \cup {call.inputs[i].element : i \in Inputs}
  /\ callFrame' = [s \in Slots |->
                IF \E i \in assigned' : PointsAt(i, s)
                THEN Assigned(CHOOSE i \in assigned' : PointsAt(i, s))
                ELSE IF \E j \in 1..call.outputs : PointsAt(n + j, s)
                THEN Output(CHOOSE j \in 1..call.outputs : PointsAt(n + j, s))
                ELSE callFrame[s]]
  /\ Clobbered
  /\ part' = "return" /\ next' = 1
  /\ UNCHANGED <<convention, call, elements, block, home>>

\* Where the setter of an element finds its value: C counts the arguments of
\* each file apart unless it counts them by position.
SetterReads(file) == IF file = "real" /\ ~convention.positional THEN <<"real", 0>> ELSE <<file, 2>>

\* The element's base and index are evaluated again, its value is loaded as the
\* third argument, and the setter is called.
CopyBackElement(i) ==
  LET loaded == [r \in Registers |->
                   IF r = <<ValueFile(i), 2>> THEN callFrame[ScratchSlot(i)] ELSE Junk]
  IN  /\ elements' = [elements EXCEPT ![IF moved THEN n + i ELSE i] =
                                         loaded[SetterReads(ValueFile(i))]]
      /\ Evaluated(BlockBase, Temporary, callFrame[Temporary])

CopyBackVariable(i) ==
  /\ callFrame' = [callFrame EXCEPT ![VariableSlot(i)] = callFrame[ScratchSlot(i)]]
  /\ UNCHANGED elements

CopyBack ==
  /\ part = "return" /\ next \in Inputs
  /\ \/ IsRef(next) /\ call.inputs[next].element /\ CopyBackElement(next)
     \/ IsRef(next) /\ ~call.inputs[next].element /\ CopyBackVariable(next)
     \/ ~IsRef(next) /\ UNCHANGED <<callFrame, elements>>
  /\ Clobbered
  /\ next' = next + 1
  /\ UNCHANGED <<convention, call, part, block, home, assigned, moved>>

CopiedBack ==
  /\ part = "return" /\ next = n + 1
  /\ part' = "done"
  /\ UNCHANGED <<convention, call, next, registers, callFrame, elements, block, home, assigned, moved>>

CallNext ==
  \/ EvaluateArgument \/ ArgumentsDone \/ StoreOverflow \/ OverflowDone
  \/ LoadRegister \/ Jump \/ Spill \/ Body \/ CopyBack \/ CopiedBack

CallSpec == CallInit /\ [][CallNext]_callVars

-------------------------------------------------------------------------------
\* A foreign callee is only promised the arguments in registers (a prototype with
\* more is accepted, and what it finds in the others is something else).
Promised == call.foreign => \A i \in Params : InRegister(i)

\* Whatever the kinds and number of the arguments, when the callee's body begins
\* each parameter holds its own argument, or the address of a slot that does.
ArgumentsArrive ==
  part = "body" /\ Promised =>
    \A i \in Params :
      IF i > n THEN home[i] = Address(OutputSlot(i - n))
      ELSE IF IsRef(i) THEN home[i] = Address(ScratchSlot(i)) /\ callFrame[ScratchSlot(i)] = Supplied(i)
      ELSE home[i] = Supplied(i)

\* What the callee left in a reference parameter.
Left(i) == IF i \in assigned THEN Assigned(i) ELSE Supplied(i)

\* After the call the variable or the element passed by reference holds what the
\* callee left in the parameter.  tests/cases/ref_element.shm: "a reference
\* argument may be an element, and the copy-back writes to that element", unless
\* the callee changed what the index reads, which is evaluated again.
ReferencesComeBack ==
  part = "done" /\ Promised =>
    \A i \in {j \in Inputs : IsRef(j)} :
      IF call.inputs[i].element THEN moved \/ elements[i] = Left(i)
                                ELSE callFrame[VariableSlot(i)] = Left(i)

\* Nothing else of the caller is lost: its other variables, the temporary of the
\* expression around the call, and every output where the caller reads it.
CallerIsIntact ==
  part = "done" /\ Promised =>
    /\ \A i \in Inputs : ~IsRef(i) \/ call.inputs[i].element => callFrame[VariableSlot(i)] = Supplied(i)
    /\ callFrame[Temporary] = <<"temporary", 0>>
    /\ \A j \in 1..call.outputs : callFrame[OutputSlot(j)] = Output(j)
===============================================================================
