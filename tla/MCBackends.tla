------------------------------ MODULE MCBackends -------------------------------
(***************************************************************************)
(* Three operations in a row over three slots and two globals, one of them *)
(* far; and two over the first and the last slots an instruction can reach *)
(* in one step, in frames of every size the stack is adjusted by.          *)
(***************************************************************************)
EXTENDS Backends

Frame(slots, used, steps) == [slots |-> slots, used |-> used, steps |-> steps]

MCFrames ==
  {Frame(3, {0, 2}, 3)}
  \cup {Frame(n, {}, 0) : n \in {0, 1}}
  \cup {Frame(n, {n - 1}, 1) : n \in {2, 507, 508, 510, 511}}
  \cup {Frame(8300, {511, 512, 2047, 2048, 4095, 4096, 8192, 8299}, 2)}

Every(name, kinds, slots, numbers) ==
  {EmitterOp(name, k, s, n, <<>>) : k \in kinds, s \in slots, n \in numbers}

EveryConstant(name, kind, words) == {EmitterOp(name, kind, s, 0, w) : s \in {0, 8299}, w \in words}

Near == UNION {f.used : f \in MCFrames}

IntWords == {<<0, 0, 65535, 0>>, <<0, 0, 0, 0>>}
RealWords == {<<16368, 0, 5, 0>>}

MCOperations ==
  EveryConstant("loadIntConstant", "Int", IntWords)
  \cup EveryConstant("loadRealConstant", "Real", RealWords)
  \cup Every("storeSlot", Kinds, Near, {0})
  \cup Every("loadSlot", Kinds, Near, {0})
  \cup Every("setArg", Kinds, {0}, {0, 1})
  \cup Every("loadSlotIntoArg", Kinds, {0}, {0, 2})
  \cup {op \in Every("spillArgument", Kinds, Near, {0, 1, 7}) : op.kind = "Wide" <=> (op.number = 0 /\ op.kind # "Real")}
  \cup Every("setOverflowBlock", {"Wide"}, Near, {0})
  \cup Every("spillOverflowArgument", {"Real"}, Near, {0}) \cup Every("spillOverflowArgument", {"Int"}, Near, {1})
  \cup Every("loadSlotAddress", {"Wide"}, Near, {0})
  \cup Every("loadBytesAddress", {"Wide"}, {0}, {1})
  \cup Every("storeThroughPointer", Kinds, {0, 8299}, {0})
  \cup Every("loadThroughPointer", {"Int", "Wide"}, {0, 8299}, {0})
  \cup Every("storeGlobal", Kinds, {0, 4100}, {0})
  \cup Every("loadGlobal", {"Int", "Real"}, {0, 4100}, {0})
  \cup Every("widenAccumulator", {"Wide"}, {0}, {0})
  \cup Every("call", {"Int"}, {0}, {0})
  \cup EveryConstant("jump", "Int", {<<0, 0, 0, 7>>})
  \cup EveryConstant("jumpIfZero", "Int", {<<0, 0, 1, 7>>})

MCTexts == {1, 15, 16, 17, 32, 33}
===============================================================================
