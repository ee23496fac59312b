-------------------------------- MODULE Emitter --------------------------------
(***************************************************************************)
(* What CodeGen expects of an emitter (src/src/backend/Emitter.h as        *)
(* src/src/CodeGen.cpp uses it): two accumulators, one for ints and        *)
(* addresses and one for reals, arguments, the slots of a frame, globals,  *)
(* and a pointer to the arguments that fit in no register.                 *)
(*                                                                         *)
(* promise is what the generated code may count on: places and what they   *)
(* hold.  An accumulator may be the first argument of its file, so making  *)
(* one loses the other; a call, or a constant, may need more.  A value is  *)
(* a kind and a word of four parts, the highest first; an address names    *)
(* what it is of in all parts but the last.                                *)
(***************************************************************************)
EXTENDS Integers, Sequences, FiniteSets

Kinds == {"Int", "Real", "Wide"}

FileFor(kind) == IF kind = "Real" THEN "real" ELSE "int"

AccumulatorPlace(file) == <<"accumulator", file>>
ArgumentPlace(file, i) == <<"argument", file, i>>
SlotPlace(s) == <<"slot", s>>
GlobalPlace(g) == <<"global", g>>
BlockPlace(i) == <<"block", i>>     \* in the caller's overflow block
Cell == <<"cell">>                  \* a variable somewhere else
Overflow == <<"overflow">>          \* the overflow pointer

OfSlot == -1
OfCell == -2
OfBlock == -3
OfBytes == -4

\* Four parts of sixteen bits.
Constants == LET parts == {n \in Nat : n < 65536} IN parts \X parts \X parts \X parts

Pointing(region, offset) == <<region, region, region, offset>>

Holding(kind, word) == [kind |-> kind, word |-> word]

Low(word) == <<word[3], word[4]>>

Same(kind, a, b) == IF kind = "Int" THEN Low(a) = Low(b) ELSE a = b

\* The sign of a part of sixteen bits.
SignExtended(word) ==
  LET sign == IF word[3] >= 32768 THEN 65535 ELSE 0 IN <<sign, sign, word[3], word[4]>>

-------------------------------------------------------------------------------
Without(p, places) == [at \in DOMAIN p \ places |-> p[at]]

\* at receives v; what may be the same place loses what it held.
Put(p, at, v) == [x \in DOMAIN p \cup {at} |-> IF x = at THEN v ELSE p[x]]

Moved(p, from, kind, at) ==
  IF from \in DOMAIN p /\ p[from].kind = kind THEN Put(p, at, p[from]) ELSE Without(p, {at})

\* The accumulator is made, and with it the first argument lost.
Fresh(p, file) == Without(p, {ArgumentPlace(file, 0)})

RegisterPlaces(p) == {at \in DOMAIN p : at[1] \in {"accumulator", "argument", "overflow"}}

\* What an address in slot s points at, if it is promised to be there.
Pointed(p, s) ==
  IF SlotPlace(s) \notin DOMAIN p THEN {}
  ELSE LET w == p[SlotPlace(s)].word
       IN  IF p[SlotPlace(s)].kind # "Wide" THEN {}
           ELSE IF w[1] = OfSlot THEN {SlotPlace(w[4])} ELSE IF w[1] = OfCell THEN {Cell} ELSE {}

\* An operation: its name, the kind it works on, a slot, a number or a constant.
EmitterOp(name, kind, slot, number, word) ==
  [do |-> name, kind |-> kind, slot |-> slot, number |-> number, word |-> word]

\* Constants are ints or reals, of parts of sixteen bits; an address is wide.
IsOperation(op) ==
  /\ op.kind \in Kinds /\ op.number \in Nat
  /\ \/ op.do \in {"storeSlot", "loadSlot", "setArg", "loadSlotIntoArg", "spillArgument", "spillOverflowArgument",
                    "storeThroughPointer", "loadThroughPointer", "storeGlobal", "loadGlobal", "call"}
     \/ op.do \in {"setOverflowBlock", "loadSlotAddress", "loadBytesAddress", "widenAccumulator"} /\ op.kind = "Wide"
     \/ /\ op.do \in {"loadIntConstant", "loadRealConstant", "jump", "jumpIfZero"}
        /\ op.word \in Constants
        /\ op.kind = IF op.do = "loadRealConstant" THEN "Real" ELSE "Int"

IsZero(word) == Low(word) = <<0, 0>>

\* Where an operation makes sense.
Allowed(p, op) ==
  /\ op.do = "spillOverflowArgument" =>
       Overflow \in DOMAIN p /\ p[Overflow].word = Pointing(OfBlock, 0) /\ BlockPlace(op.number) \in DOMAIN p
  /\ op.do \in {"storeThroughPointer", "loadThroughPointer"} => Pointed(p, op.slot) # {}
  /\ op.do \in {"jumpIfZero", "widenAccumulator"} =>
       AccumulatorPlace("int") \in DOMAIN p /\ p[AccumulatorPlace("int")].kind = "Int"

\* What may be counted on after an operation.
After(p, op) ==
  LET file == FileFor(op.kind)
      acc == AccumulatorPlace(file)
      slot == SlotPlace(op.slot)
  IN  CASE op.do = "loadIntConstant" ->
             Put(Fresh(p, "int"), acc, Holding("Int", op.word))
        [] op.do = "loadRealConstant" ->
             Put(Without(p, {ArgumentPlace("real", 0), AccumulatorPlace("int"), ArgumentPlace("int", 0), Overflow}),
                 acc, Holding("Real", op.word))
        [] op.do = "storeSlot" -> Moved(p, acc, op.kind, slot)
        [] op.do = "loadSlot" -> Moved(Fresh(p, file), slot, op.kind, acc)
        [] op.do = "setArg" -> Moved(p, acc, op.kind, ArgumentPlace(file, op.number))
        [] op.do = "loadSlotIntoArg" ->
             Moved(IF op.number = 0 THEN Without(p, {acc}) ELSE p, slot, op.kind, ArgumentPlace(file, op.number))
        [] op.do = "spillArgument" -> Moved(p, ArgumentPlace(file, op.number), op.kind, slot)
        [] op.do = "spillOverflowArgument" -> Moved(p, BlockPlace(op.number), op.kind, slot)
        [] op.do = "setOverflowBlock" -> Put(p, Overflow, Holding("Wide", Pointing(OfSlot, op.slot)))
        [] op.do = "loadSlotAddress" -> Put(Fresh(p, "int"), acc, Holding("Wide", Pointing(OfSlot, op.slot)))
        [] op.do = "loadBytesAddress" -> Put(Fresh(p, "int"), acc, Holding("Wide", Pointing(OfBytes, op.number)))
        [] op.do = "storeThroughPointer" ->
             Moved(Without(p, {Overflow}), acc, op.kind, CHOOSE at \in Pointed(p, op.slot) : TRUE)
        [] op.do = "loadThroughPointer" ->
             Moved(Without(Fresh(p, file), {Overflow}), CHOOSE at \in Pointed(p, op.slot) : TRUE, op.kind, acc)
        [] op.do = "storeGlobal" -> Moved(p, acc, op.kind, GlobalPlace(op.slot))
        [] op.do = "loadGlobal" -> Moved(Fresh(p, file), GlobalPlace(op.slot), op.kind, acc)
        [] op.do = "widenAccumulator" ->
             Put(Fresh(p, "int"), acc, Holding("Wide", SignExtended(p[acc].word)))
        [] op.do = "call" -> Without(p, RegisterPlaces(p))
        \* What follows, a constant, is jumped over.
        [] op.do = "jumpIfZero" ->
             IF IsZero(p[acc].word) THEN p ELSE Put(Fresh(p, "int"), acc, Holding("Int", op.word))
        [] op.do = "jump" -> p
===============================================================================
