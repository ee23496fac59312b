-------------------------------- MODULE Backends -------------------------------
(***************************************************************************)
(* The three emitters (src/src/backend) and a function as they emit it:    *)
(* its prologue, any operations, its epilogue, executed as they come,      *)
(* beside what CodeGen may count on.  arm64 is emitted directly; x86-64    *)
(* goes through the spelling of one of two assemblers, and what they read. *)
(***************************************************************************)
EXTENDS Instructions

CONSTANTS
  Frames,      \* functions: slots, which of them are used, how many operations
  Operations,  \* what is emitted
  Texts        \* the lengths of texts in the data

ASSUME BackendsAssumption ==
  /\ \A f \in Frames : f.slots \in Nat /\ f.used \subseteq 0..f.slots - 1 /\ f.steps \in Nat
  /\ \A op \in Operations : IsOperation(op)
  /\ Texts \subseteq Nat \ {0}

VARIABLES
  target, frame,
  stage,     \* "entry", "body" or "left"
  left,      \* operations left
  processor,   \* registers, memory, what is being skipped, and whether all was accepted
  promise,   \* what may be counted on
  texts,     \* the texts defined
  data       \* data_: lines of bytes

backVars == <<target, frame, stage, left, processor, promise, texts, data>>

-------------------------------------------------------------------------------
(* arm64-darwin *)

X(i) == <<"x", i>>
D(i) == <<"d", i>>
Lr == <<"lr", 0>>

RegisterFile(kind, i) == IF kind = "Real" THEN D(i) ELSE X(i)

Width(kind) == IF kind = "Int" THEN 4 ELSE 8

\* A part that is 0 is left as movz made it.
Inserted(reg, word, k) == IF word[4 - k] = 0 THEN <<>> ELSE <<Insert(reg, word[4 - k], k)>>

Materialise(reg, word, parts) ==
  <<SetTo(reg, <<0, 0, 0, word[4]>>)>> \o Inserted(reg, word, 1)
    \o (IF parts = 4 THEN Inserted(reg, word, 2) \o Inserted(reg, word, 3) ELSE <<>>)

ScratchConstant(n) == Materialise(X(16), Word(n), 4)

Direct(base, offset) == [first |-> <<>>, base |-> base, offset |-> offset]

\* Mutant: the ceiling of whole words, whatever the width.
SlotAddressOfWords(slot, width) ==
  IF 8 * slot <= 4095 * 8 THEN Direct(Sp, 8 * slot)
  ELSE [first |-> Append(ScratchConstant(8 * slot), AddedRegister(X(16), Sp, X(16), 1)),
        base |-> X(16), offset |-> 0]

SlotAddress(slot, width) ==
  IF 8 * slot <= 4095 * width THEN Direct(Sp, 8 * slot)
  ELSE [first |-> Append(ScratchConstant(8 * slot), AddedRegister(X(16), Sp, X(16), 1)),
        base |-> X(16), offset |-> 0]

AddressGlobals == SetTo(X(17), Pointing(OfGlobals, 0))

GlobalAddress(index, width) ==
  IF 8 * index <= 4095 * width
  THEN [first |-> <<AddressGlobals>>, base |-> X(17), offset |-> 8 * index]
  ELSE [first |-> <<AddressGlobals>> \o Append(ScratchConstant(8 * index), AddedRegister(X(17), X(17), X(16), 1)),
        base |-> X(17), offset |-> 0]

LoadFrom(where, reg, width) == Append(where.first, LoadWord(reg, width, where.base, where.offset))

StoreTo(where, reg, width) == Append(where.first, StoreWord(reg, width, where.base, where.offset))

\* reg receives the address of a slot.
AddressInto(reg, slot) ==
  IF 8 * slot <= 4095 THEN <<Added(reg, Sp, 8 * slot)>>
  ELSE Append(ScratchConstant(8 * slot), AddedRegister(reg, Sp, X(16), 1))

ArmFrameBytes == 16 * ((8 * frame.slots + 15) \div 16)

AdjustStack(sign) ==
  IF ArmFrameBytes = 0 THEN <<>>
  ELSE IF ArmFrameBytes <= 4095 THEN <<Added(Sp, Sp, sign * ArmFrameBytes)>>
  ELSE Append(ScratchConstant(ArmFrameBytes), AddedRegister(Sp, Sp, X(16), sign))

ArmPrologue ==
  <<Added(Sp, Sp, -16), StoreWord(Fp, 8, Sp, 0), StoreWord(Lr, 8, Sp, 8), Added(Fp, Sp, 0)>> \o AdjustStack(-1)

ArmEpilogue == AdjustStack(1) \o <<LoadWord(Fp, 8, Sp, 0), LoadWord(Lr, 8, Sp, 8), Added(Sp, Sp, 16)>>

ArmCode(op) ==
  LET acc == RegisterFile(op.kind, 0)
      width == Width(op.kind)
      argument == RegisterFile(op.kind, op.number)
  IN  CASE op.do = "loadIntConstant" -> Materialise(X(0), op.word, 2)
        [] op.do = "loadRealConstant" -> Append(Materialise(X(9), op.word, 4), Copy(D(0), X(9), 8))
        [] op.do = "storeSlot" -> StoreTo(SlotAddress(op.slot, width), acc, width)
        [] op.do = "loadSlot" -> LoadFrom(SlotAddress(op.slot, width), acc, width)
        [] op.do = "setArg" -> IF op.number = 0 THEN <<>> ELSE <<Copy(argument, acc, width)>>
        [] op.do = "loadSlotIntoArg" -> LoadFrom(SlotAddress(op.slot, width), argument, width)
        [] op.do = "spillArgument" -> StoreTo(SlotAddress(op.slot, width), argument, width)
        [] op.do = "setOverflowBlock" -> AddressInto(X(9), op.slot)
        [] op.do = "spillOverflowArgument" ->
             <<LoadWord(RegisterFile(op.kind, 17), 8, X(9), 8 * op.number)>>
               \o StoreTo(SlotAddress(op.slot, width), RegisterFile(op.kind, 17), width)
        [] op.do = "loadSlotAddress" -> AddressInto(X(0), op.slot)
        [] op.do = "loadBytesAddress" -> <<SetTo(X(0), Pointing(OfBytes, op.number))>>
        [] op.do = "storeThroughPointer" ->
             Append(LoadFrom(SlotAddress(op.slot, 8), X(17), 8), StoreWord(acc, width, X(17), 0))
        [] op.do = "loadThroughPointer" ->
             Append(LoadFrom(SlotAddress(op.slot, 8), X(17), 8), LoadWord(acc, width, X(17), 0))
        [] op.do = "storeGlobal" -> StoreTo(GlobalAddress(op.slot, width), acc, width)
        [] op.do = "loadGlobal" -> LoadFrom(GlobalAddress(op.slot, width), acc, width)
        [] op.do = "widenAccumulator" -> <<Extend(X(0), X(0))>>
        [] op.do = "call" -> <<CallIt>>
        [] op.do = "jump" -> LET over == Materialise(X(0), op.word, 2)
                             IN  <<Skip(X(0), FALSE, Len(over))>> \o over
        [] op.do = "jumpIfZero" -> LET over == Materialise(X(0), op.word, 2)
                                   IN  <<Skip(X(0), TRUE, Len(over))>> \o over

\* What the instruction has room for.
Encoded(i) ==
  IF \/ i.op \in {"load", "store"} /\ (i.offset % i.width # 0 \/ i.offset > 4095 * i.width)
     \/ i.op = "plus" /\ i.n \notin -4095..4095
  THEN Refused ELSE i

ArmAssembled(code) == [k \in DOMAIN code |-> Encoded(code[k])]

\* Sixteen bytes a line, under a label of their own: after each byte the lines
\* that are full and the last.
ArmLines(id, bytes) ==
  LET after[k \in 0..Len(bytes)] ==
        IF k = 0 THEN [full |-> <<[label |-> id, bytes |-> <<>>]>>, last |-> <<>>]
        ELSE LET lines == after[k - 1]
                 line == Append(lines.last, bytes[k])
             IN  IF Len(line) = 16
                 THEN [full |-> Append(lines.full, [label |-> 0, bytes |-> line]), last |-> <<>>]
                 ELSE [full |-> lines.full, last |-> line]
  IN  after

ArmData(id, bytes) ==
  LET lines == ArmLines(id, bytes)[Len(bytes)]
  IN  IF lines.last = <<>> THEN lines.full ELSE Append(lines.full, [label |-> 0, bytes |-> lines.last])

-------------------------------------------------------------------------------
(* The spelling of x86-64: operands, and which of two comes first. *)

Gnu == target = "x86_64-linux"

Register(reg, width) ==
  [form |-> "register", reg |-> reg, width |-> IF reg[1] = "xmm" THEN 0 ELSE width, offset |-> 0, word |-> <<>>]

Immediate(word) == [form |-> "immediate", reg |-> Sp, width |-> 0, offset |-> 0, word |-> word]

\* frameSlot, indirect and offsetFrom: MASM says how wide.
Memory(base, offset, width) ==
  [form |-> "memory", reg |-> base, width |-> IF Gnu THEN 0 ELSE width, offset |-> offset, word |-> <<>>]

Label(word) == [form |-> "label", reg |-> Sp, width |-> 0, offset |-> 0, word |-> word]

Ordered(src, dst) == IF Gnu THEN <<src, dst>> ELSE <<dst, src>>

\* GNU says how wide in the mnemonic.
BinaryText(mnemonic, width, src, dst) ==
  [mnemonic |-> mnemonic, suffix |-> IF Gnu THEN width ELSE 0, operands |-> Ordered(src, dst)]

LoadAddress(from, dst) == BinaryText("lea", 0, from, dst)

WidenText(src, dst) == BinaryText("movslq", 0, src, dst)

\* What the assembler makes of it: the source is the first or the second, and all
\* that says how wide must agree.
ReadText(text) ==
  LET src == IF Gnu THEN text.operands[1] ELSE text.operands[2]
      dst == IF Gnu THEN text.operands[2] ELSE text.operands[1]
      said == {text.suffix, src.width, dst.width} \ {0}
      width == IF said = {} THEN 8 ELSE CHOOSE w \in said : TRUE
      real == "xmm" \in {src.reg[1], dst.reg[1]}
  IN  CASE text.mnemonic = "lea" /\ src.form = "memory" -> Added(dst.reg, src.reg, src.offset)
        [] text.mnemonic = "lea" /\ src.form = "label" -> SetTo(dst.reg, src.word)
        [] text.mnemonic = "movslq" -> Extend(dst.reg, src.reg)
        [] text.mnemonic \in {"add", "sub"} ->
             Added(dst.reg, dst.reg, (IF text.mnemonic = "add" THEN 1 ELSE -1) * ValueOf(src.word))
        [] text.mnemonic \in {"mov", "movsd", "movq", "movapd"}
             /\ (Cardinality(said) > 1 \/ (text.mnemonic = "mov" /\ (real \/ said = {}))) -> Refused
        [] text.mnemonic \in {"mov", "movsd", "movq", "movapd"}
             /\ ~(Cardinality(said) > 1 \/ (text.mnemonic = "mov" /\ (real \/ said = {}))) ->
             CASE src.form = "immediate" -> SetTo(dst.reg, Loaded(width, src.word))
               [] src.form = "memory" -> LoadWord(dst.reg, width, src.reg, src.offset)
               [] dst.form = "memory" -> StoreWord(src.reg, width, dst.reg, dst.offset)
               [] OTHER -> Copy(dst.reg, src.reg, width)

-------------------------------------------------------------------------------
(* x86-64 *)

Ax == <<"ax", 0>>
R10 == <<"r10", 0>>
R11 == <<"r11", 0>>
Xmm(i) == <<"xmm", i>>

IntArgs == IF Gnu THEN <<<<"di", 0>>, <<"si", 0>>, <<"dx", 0>>, <<"cx", 0>>, <<"r8", 0>>, <<"r9", 0>>>>
           ELSE <<<<"cx", 0>>, <<"dx", 0>>, <<"r8", 0>>, <<"r9", 0>>>>

ShadowBytes == IF target = "x86_64-windows" THEN 32 ELSE 0

RegisterFor(kind) == IF kind = "Real" THEN Xmm(0) ELSE Ax

ArgReg(kind, index) == IF kind = "Real" THEN Xmm(index) ELSE IntArgs[index + 1]

\* Mutant: the callee's own bytes are not counted.
FrameBytesUnshaded == 16 * ((8 * frame.slots + 15) \div 16)

FrameBytes == 16 * ((8 * frame.slots + ShadowBytes + 15) \div 16)

SlotOperand(slot, width) == Memory(Sp, ShadowBytes + 8 * slot, width)

\* binary(moveFor(kind), ...).
Move(kind, src, dst) ==
  IF kind = "Real" THEN BinaryText("movsd", 0, src, dst) ELSE BinaryText("mov", Width(kind), src, dst)

Stack(mnemonic) ==
  IF FrameBytes = 0 THEN <<>> ELSE <<ReadText(BinaryText(mnemonic, 8, Immediate(Word(FrameBytes)), Register(Sp, 8)))>>

X86Prologue ==
  <<Added(Sp, Sp, -8), StoreWord(Fp, 8, Sp, 0), ReadText(BinaryText("mov", 8, Register(Sp, 8), Register(Fp, 8)))>> \o Stack("sub")

X86Epilogue == Stack("add") \o <<LoadWord(Fp, 8, Sp, 0), Added(Sp, Sp, 8)>>

X86Text(op) ==
  LET acc == Register(RegisterFor(op.kind), Width(op.kind))
      slot == SlotOperand(op.slot, Width(op.kind))
      argument == Register(ArgReg(op.kind, op.number), Width(op.kind))
      via == Register(IF op.kind = "Real" THEN Xmm(8) ELSE R11, Width(op.kind))
      globals == LoadAddress(Label(Pointing(OfGlobals, 0)), Register(R11, 8))
      global == Memory(R11, 8 * op.slot, Width(op.kind))
      pointer == BinaryText("mov", 8, SlotOperand(op.slot, 8), Register(R10, 8))
      pointed == Memory(R10, 0, Width(op.kind))
  IN  CASE op.do = "loadIntConstant" -> <<BinaryText("mov", 4, Immediate(op.word), Register(Ax, 4))>>
        [] op.do = "loadRealConstant" ->
             <<BinaryText("mov", 8, Immediate(op.word), Register(Ax, 8)),
               BinaryText("movq", 0, Register(Ax, 8), Register(Xmm(0), 8))>>
        [] op.do = "storeSlot" -> <<Move(op.kind, acc, slot)>>
        [] op.do = "loadSlot" -> <<Move(op.kind, slot, acc)>>
        [] op.do = "setArg" /\ argument = acc -> <<>>
        [] op.do = "setArg" /\ argument # acc ->
             <<IF op.kind = "Real" THEN BinaryText("movapd", 0, acc, argument) ELSE Move(op.kind, acc, argument)>>
        [] op.do = "loadSlotIntoArg" -> <<Move(op.kind, slot, argument)>>
        [] op.do = "spillArgument" -> <<Move(op.kind, argument, slot)>>
        [] op.do = "setOverflowBlock" -> <<LoadAddress(SlotOperand(op.slot, 8), Register(R10, 8))>>
        [] op.do = "spillOverflowArgument" ->
             <<Move(op.kind, Memory(R10, 8 * op.number, Width(op.kind)), via), Move(op.kind, via, slot)>>
        [] op.do = "loadSlotAddress" -> <<LoadAddress(SlotOperand(op.slot, 8), Register(Ax, 8))>>
        [] op.do = "loadBytesAddress" -> <<LoadAddress(Label(Pointing(OfBytes, op.number)), Register(Ax, 8))>>
        [] op.do = "storeThroughPointer" -> <<pointer, Move(op.kind, acc, pointed)>>
        [] op.do = "loadThroughPointer" -> <<pointer, Move(op.kind, pointed, acc)>>
        [] op.do = "storeGlobal" -> <<globals, Move(op.kind, acc, global)>>
        [] op.do = "loadGlobal" -> <<globals, Move(op.kind, global, acc)>>
        [] op.do = "widenAccumulator" -> <<WidenText(Register(Ax, 4), Register(Ax, 8))>>
        [] op.do \in {"jump", "jumpIfZero"} -> <<BinaryText("mov", 4, Immediate(op.word), Register(Ax, 4))>>
        [] op.do = "call" -> <<>>

X86Assembled(texts0) == [k \in DOMAIN texts0 |-> ReadText(texts0[k])]

Skipping(op, over) == <<Skip(Ax, op.do = "jumpIfZero", Len(over))>> \o over

X86Code(op) ==
  IF op.do = "call" THEN <<CallIt>>
  ELSE IF op.do \in {"jump", "jumpIfZero"} THEN Skipping(op, X86Assembled(X86Text(op)))
  ELSE X86Assembled(X86Text(op))

\* The label is on the first line, and no line is begun without a byte for it.
X86Lines(id, bytes) ==
  LET after[k \in 0..Len(bytes)] ==
        IF k = 0 THEN [full |-> <<>>, last |-> [label |-> id, bytes |-> <<>>]]
        ELSE LET lines == after[k - 1]
                 line == [label |-> lines.last.label, bytes |-> Append(lines.last.bytes, bytes[k])]
             IN  IF k % 16 = 0 /\ k < Len(bytes)
                 THEN [full |-> Append(lines.full, line), last |-> [label |-> 0, bytes |-> <<>>]]
                 ELSE [full |-> lines.full, last |-> line]
  IN  after

X86Data(id, bytes) ==
  LET lines == X86Lines(id, bytes)[Len(bytes)] IN Append(lines.full, lines.last)

-------------------------------------------------------------------------------
(* The machines. *)

Arm == target = "arm64-darwin"

IntCapacity == IF Arm THEN 8 ELSE Len(IntArgs)

RealCapacity == IF target = "x86_64-windows" THEN 4 ELSE 8

ArgumentIn(file, i) ==
  IF Arm THEN IF file = "real" THEN D(i) ELSE X(i)
  ELSE IF file = "real" THEN Xmm(i) ELSE IntArgs[i + 1]

AccumulatorIn(file) ==
  IF Arm THEN IF file = "real" THEN D(0) ELSE X(0) ELSE IF file = "real" THEN Xmm(0) ELSE Ax

BlockIn == IF Arm THEN X(9) ELSE R10

\* What a function has to leave as it was; xmm8, which is among them on Windows,
\* is not left so.
Preserved ==
  IF Arm THEN {Sp, Fp, X(19)}
  ELSE {Sp, Fp, <<"bx", 0>>, <<"r12", 0>>}
         \cup (IF Gnu THEN {} ELSE {<<"di", 0>>, <<"si", 0>>, Xmm(6), Xmm(7)})

AllRegisters ==
  Preserved \cup (IF Arm THEN {Lr} \cup {X(i) : i \in 0..17} \cup {D(i) : i \in 0..17}
                  ELSE {Ax, R10, R11, <<"di", 0>>, <<"si", 0>>, <<"dx", 0>>, <<"cx", 0>>, <<"r8", 0>>, <<"r9", 0>>}
                         \cup {Xmm(i) : i \in 0..8})

\* At entry: x86-64's call has pushed the return address.
EntrySp == IF Arm THEN 0 ELSE -8

CellAt == <<OfStack, 160>>
BlockAt == 320

CellValue == Holding("Int", <<51, 52, 53, 54>>)
BlockValue(i) == Holding(IF i = 0 THEN "Real" ELSE "Int", <<61, 62, 63, 64 + i>>)
GlobalValue(g) == Holding(IF g = 0 THEN "Int" ELSE "Real", <<71, 72, 73, 74 + g>>)

\* The first argument is the address of a cell.
ArgumentValue(file, i) ==
  IF file = "real" THEN Holding("Real", <<81, 82, 83, 84 + i>>)
  ELSE IF i = 0 THEN Holding("Wide", Pointing(OfCell, 0)) ELSE Holding("Int", <<91, 92, 93, 94 + i>>)

GlobalSlots == {0, 4100}

Parameters == ({"int"} \X (0..IntCapacity - 1)) \cup ({"real"} \X (0..RealCapacity - 1))

ArgumentPlaces == {ArgumentPlace(p[1], p[2]) : p \in Parameters}
GlobalPlaces == {GlobalPlace(g) : g \in GlobalSlots}
BlockPlaces == {BlockPlace(i) : i \in 0..1}

AtEntry ==
  [at \in ArgumentPlaces \cup GlobalPlaces \cup BlockPlaces \cup {Cell, Overflow} |->
     CASE at[1] = "argument" -> ArgumentValue(at[2], at[3])
       [] at[1] = "global" -> GlobalValue(at[2])
       [] at[1] = "block" -> BlockValue(at[2])
       [] at[1] = "cell" -> CellValue
       [] at[1] = "overflow" -> Holding("Wide", Pointing(OfBlock, 0))]

\* Where the slots of a frame begin.
SlotsFrom(m) == m.reg[Sp][4] + (IF Arm THEN 0 ELSE ShadowBytes)

\* A promised word as the machine has it.
Actual(slots, word) ==
  CASE word[1] = OfSlot -> Pointing(OfStack, slots + 8 * word[4])
    [] word[1] = OfCell -> Pointing(OfStack, CellAt[2])
    [] word[1] = OfBlock -> Pointing(OfStack, BlockAt)
    [] OTHER -> word

RegisterOf(at) ==
  CASE at[1] = "accumulator" -> AccumulatorIn(at[2])
    [] at[1] = "argument" -> ArgumentIn(at[2], at[3])
    [] at[1] = "overflow" -> BlockIn

CellOf(slots, at) ==
  CASE at[1] = "slot" -> <<OfStack, slots + 8 * at[2]>>
    [] at[1] = "global" -> <<OfGlobals, 8 * at[2]>>
    [] at[1] = "block" -> <<OfStack, BlockAt + 8 * at[2]>>
    [] at[1] = "cell" -> CellAt

Found(m, slots, at) ==
  IF at[1] \in {"accumulator", "argument", "overflow"} THEN m.reg[RegisterOf(at)] ELSE Held(m, CellOf(slots, at))

\* The processor m before each instruction, and after the last.
Running(m, code) ==
  LET before[k \in 0..Len(code)] ==
        IF k = 0 THEN m ELSE Obey(before[k - 1], code[k], Preserved, ShadowBytes)
  IN  before

Ran(m, code) == Running(m, code)[Len(code)]

Run(code) == Ran(processor, code)

EntryRegister(r) ==
  IF r = Sp THEN Pointing(OfStack, EntrySp)
  ELSE IF r = BlockIn THEN Pointing(OfStack, BlockAt)
  ELSE IF \E p \in Parameters : ArgumentIn(p[1], p[2]) = r
       THEN LET p == CHOOSE q \in Parameters : ArgumentIn(q[1], q[2]) = r
            IN  Actual(EntrySp, ArgumentValue(p[1], p[2]).word)
  ELSE Pointing(OfNothing, IF r = Lr THEN 1 ELSE 0)

Memory0 ==
  [at \in {CellAt} \cup {<<OfGlobals, 8 * g>> : g \in GlobalSlots} \cup {<<OfStack, BlockAt + 8 * i>> : i \in 0..1} |->
     IF at = CellAt THEN CellValue.word
     ELSE IF at[1] = OfGlobals THEN GlobalValue(at[2] \div 8).word
     ELSE BlockValue((at[2] - BlockAt) \div 8).word]

-------------------------------------------------------------------------------
BackInit ==
  /\ target \in {"arm64-darwin", "x86_64-linux", "x86_64-windows"}
  /\ frame \in Frames
  /\ stage = "entry" /\ left = frame.steps
  /\ processor = [reg |-> [r \in AllRegisters |-> EntryRegister(r)], mem |-> Memory0, skip |-> 0, fine |-> TRUE]
  /\ promise = AtEntry
  /\ texts = <<>> /\ data = <<>>

Enter ==
  /\ stage = "entry" /\ stage' = "body"
  /\ processor' = Run(IF Arm THEN ArmAssembled(ArmPrologue) ELSE X86Prologue)
  /\ UNCHANGED <<target, frame, left, promise, texts, data>>

Suits(op) ==
  /\ op.do \in {"storeGlobal", "loadGlobal"} => op.slot \in GlobalSlots
  /\ op.do \notin {"storeGlobal", "loadGlobal"} => op.slot \in frame.used
  /\ op.do \in {"setArg", "loadSlotIntoArg", "spillArgument"} =>
       op.number < (IF op.kind = "Real" THEN RealCapacity ELSE IntCapacity)

Perform ==
  /\ stage = "body" /\ left > 0
  /\ \E op \in Operations :
       /\ Suits(op) /\ Allowed(promise, op)
       /\ processor' = Run(IF Arm THEN ArmAssembled(ArmCode(op)) ELSE X86Code(op))
       /\ promise' = After(promise, op)
  /\ left' = left - 1
  /\ UNCHANGED <<target, frame, stage, texts, data>>

Leave ==
  /\ stage = "body" /\ stage' = "left"
  /\ processor' = Run(IF Arm THEN ArmAssembled(ArmEpilogue) ELSE X86Epilogue)
  /\ UNCHANGED <<target, frame, left, promise, texts, data>>

\* Two texts, in a function that does nothing else.
Define ==
  /\ stage = "body" /\ frame.used = {} /\ Len(texts) < 2
  /\ \E n \in Texts :
       LET text == [k \in 1..n |-> 100 * Len(texts) + k]
       IN  /\ texts' = Append(texts, text)
           /\ data' = data \o IF Arm THEN ArmData(Len(texts) + 1, text) ELSE X86Data(Len(texts) + 1, text)
  /\ UNCHANGED <<target, frame, stage, left, processor, promise>>

BackNext == Enter \/ Perform \/ Leave \/ Define

BackSpec == BackInit /\ [][BackNext]_backVars

-------------------------------------------------------------------------------
Holds(at) ==
  LET slots == SlotsFrom(processor)
  IN  Same(promise[at].kind, Found(processor, slots, at), Actual(slots, promise[at].word))

\* What follows the label of a text, to the next label.
Laid(id) ==
  LET at == CHOOSE k \in DOMAIN data : data[k].label = id
      past == CHOOSE k \in at + 1..Len(data) + 1 :
                /\ k > Len(data) \/ data[k].label # 0
                /\ \A j \in at + 1..k - 1 : data[j].label = 0
      joined[k \in 0..past - at] == IF k = 0 THEN <<>> ELSE joined[k - 1] \o data[at + k - 1].bytes
  IN  joined[past - at]

\* On every target, after any operations, everything CodeGen may count on is so: each
\* assembler accepted what was emitted for it, however far the slot, and nothing on
\* its way (a scratch register, the bytes a callee owns, the other half of a slot)
\* took with it what had been promised before (src/src/backend/Emitter.h).
PromisesAreKept ==
  stage = "body" =>
    /\ processor.fine
    /\ \A at \in DOMAIN promise : Holds(at)
    /\ \A id \in DOMAIN texts : Laid(id) = texts[id]

\* When it returns, a function has given back the stack and the registers it had to
\* keep, has written nothing of its caller's but what it had the address of, and
\* answers with the accumulators (beginFunction() and endFunction() of the emitters).
CallersFrameIsIntact ==
  stage = "left" =>
    /\ processor.fine
    /\ \A r \in Preserved \cup (IF Arm THEN {Lr} ELSE {}) : processor.reg[r] = EntryRegister(r)
    /\ \A at \in DOMAIN processor.mem :
         at[1] = OfStack /\ at[2] >= EntrySp /\ at # CellAt => at \in DOMAIN Memory0 /\ processor.mem[at] = Memory0[at]
    /\ \A at \in DOMAIN promise : at[1] \in {"accumulator", "cell", "global"} /\ promise[at].word[1] # OfSlot => Holds(at)
===============================================================================
