----------------------------- MODULE CallingProofs -----------------------------
(***************************************************************************)
(* Calls, for every target and every prototype.  First the plan of the     *)
(* arguments: no two parameters share a place, every register named        *)
(* exists, and every position in the overflow block was reserved.  Then    *)
(* the call that follows the plan: what each slot of the caller's frame    *)
(* and each register holds at every step, from which the three promises of *)
(* a call follow.                                                          *)
(***************************************************************************)
EXTENDS Calling, FiniteSetTheorems, TLAPS

\* Leaving an element out of a finite set makes it smaller: what every count of
\* earlier arguments rests on.
LEMMA Fewer ==
  ASSUME NEW S, NEW T, IsFiniteSet(T), S \subseteq T, NEW x \in T, x \notin S
  PROVE  IsFiniteSet(S) /\ Cardinality(S) \in Nat /\ Cardinality(T) \in Nat
           /\ Cardinality(S) < Cardinality(T)
<1>1. IsFiniteSet(S) /\ Cardinality(S) <= Cardinality(T)
                     /\ (Cardinality(S) = Cardinality(T) => S = T)
  BY FS_Subset
<1>2. Cardinality(S) \in Nat /\ Cardinality(T) \in Nat
  BY <1>1, FS_CardinalityType
<1>3. S # T
  OBVIOUS
<1>4. QED
  BY <1>1, <1>2, <1>3

\* The positions of a sequence are finitely many.
LEMMA PositionsFinite ==
  ASSUME NEW plan \in Seq(Files), NEW S \in SUBSET DOMAIN plan
  PROVE  IsFiniteSet(S) /\ Cardinality(S) \in Nat
<1>1. DOMAIN plan = 1..Len(plan) /\ Len(plan) \in Nat
  OBVIOUS
<1>2. IsFiniteSet(1..Len(plan))
  BY <1>1, 1 \in Int, Len(plan) \in Int, FS_Interval
<1>3. IsFiniteSet(S)
  BY <1>1, <1>2, FS_Subset
<1>4. QED
  BY <1>3, FS_CardinalityType

\* Of two arguments in registers of one file, the later has the higher number.
LEMMA RegistersIncrease ==
  ASSUME NEW m, IsMachine(m), NEW plan \in Seq(Files),
         NEW i \in DOMAIN plan, NEW j \in DOMAIN plan, i < j, plan[i] = plan[j]
  PROVE  Cardinality(Earlier(m, plan, i)) < Cardinality(Earlier(m, plan, j))
<1>1. Earlier(m, plan, j) \in SUBSET DOMAIN plan
  BY DEF Earlier
<1>2. IsFiniteSet(Earlier(m, plan, j))
  BY <1>1, PositionsFinite
<1>3. \A k \in DOMAIN plan : k \in Nat
  OBVIOUS
<1>4. Earlier(m, plan, i) \subseteq Earlier(m, plan, j)
  BY <1>3 DEF Earlier
<1>5. i \in Earlier(m, plan, j) /\ i \notin Earlier(m, plan, i)
  BY <1>3 DEF Earlier
<1>6. QED
  BY <1>2, <1>4, <1>5, Fewer

\* Of two arguments in the overflow block, the later has the higher position.
LEMMA OverflowIncreases ==
  ASSUME NEW m, NEW plan \in Seq(Files),
         NEW i \in DOMAIN plan, NEW j \in DOMAIN plan, i < j, ~Fits(m, plan, i)
  PROVE  Cardinality(Spilled(m, plan, i)) < Cardinality(Spilled(m, plan, j))
<1>1. Spilled(m, plan, j) \in SUBSET DOMAIN plan
  BY DEF Spilled
<1>2. IsFiniteSet(Spilled(m, plan, j))
  BY <1>1, PositionsFinite
<1>3. \A k \in DOMAIN plan : k \in Nat
  OBVIOUS
<1>4. Spilled(m, plan, i) \subseteq Spilled(m, plan, j)
  BY <1>3 DEF Spilled
<1>5. i \in Spilled(m, plan, j) /\ i \notin Spilled(m, plan, i)
  BY <1>3 DEF Spilled
<1>6. QED
  BY <1>2, <1>4, <1>5, Fewer

\* Of two parameters the earlier and the later are never given one place.
LEMMA EarlierElsewhere ==
  ASSUME NEW m, IsMachine(m), NEW plan \in Seq(Files),
         NEW i \in DOMAIN plan, NEW j \in DOMAIN plan, i < j
  PROVE  Place(m, plan, i) # Place(m, plan, j)
<1>1. plan[i] \in Files /\ plan[j] \in Files
  OBVIOUS
<1>2. plan[i] # "overflow" /\ plan[j] # "overflow"
  BY <1>1 DEF Files
<1>3. Earlier(m, plan, i) \in SUBSET DOMAIN plan /\ Earlier(m, plan, j) \in SUBSET DOMAIN plan
        /\ Spilled(m, plan, i) \in SUBSET DOMAIN plan /\ Spilled(m, plan, j) \in SUBSET DOMAIN plan
  BY DEF Earlier, Spilled
<1>4. /\ Cardinality(Earlier(m, plan, i)) \in Nat /\ Cardinality(Earlier(m, plan, j)) \in Nat
      /\ Cardinality(Spilled(m, plan, i)) \in Nat /\ Cardinality(Spilled(m, plan, j)) \in Nat
  BY <1>3, PositionsFinite
<1>5. CASE Fits(m, plan, i) /\ Fits(m, plan, j)
  <2>1. CASE plan[i] = plan[j]
    BY <1>4, <1>5, <2>1, RegistersIncrease DEF Place, PlaceIndex
  <2>2. CASE plan[i] # plan[j]
    BY <1>5, <2>2 DEF Place
  <2>3. QED
    BY <2>1, <2>2
<1>6. CASE ~Fits(m, plan, i) /\ ~Fits(m, plan, j)
  BY <1>4, <1>6, OverflowIncreases DEF Place, PlaceIndex
<1>7. CASE Fits(m, plan, i) /\ ~Fits(m, plan, j)
  BY <1>2, <1>7 DEF Place
<1>8. CASE ~Fits(m, plan, i) /\ Fits(m, plan, j)
  BY <1>2, <1>8 DEF Place
<1>9. QED
  BY <1>5, <1>6, <1>7, <1>8

\* No two parameters of a function, whatever its prototype and the target, are
\* passed in one register or one position of the overflow block.
THEOREM PlacesDistinct ==
  ASSUME NEW m, IsMachine(m), NEW plan \in Seq(Files),
         NEW i \in DOMAIN plan, NEW j \in DOMAIN plan, i # j
  PROVE  Place(m, plan, i) # Place(m, plan, j)
<1>1. i \in Nat /\ j \in Nat
  OBVIOUS
<1>2. i < j \/ j < i
  BY <1>1
<1>3. QED
  BY <1>2, EarlierElsewhere

\* A register an argument is given is one the target has, and a position in the
\* overflow block is one of those the caller reserved.
THEOREM PlacesExist ==
  ASSUME NEW m, IsMachine(m), NEW plan \in Seq(Files), NEW i \in DOMAIN plan
  PROVE  PlaceIndex(m, plan, i) \in
           0..((IF Fits(m, plan, i) THEN Capacity(m, plan[i])
                                     ELSE OverflowCount(m, plan)) - 1)
<1>1. Earlier(m, plan, i) \in SUBSET DOMAIN plan /\ Spilled(m, plan, i) \in SUBSET DOMAIN plan
  BY DEF Earlier, Spilled
<1>2. Cardinality(Earlier(m, plan, i)) \in Nat /\ Cardinality(Spilled(m, plan, i)) \in Nat
  BY <1>1, PositionsFinite
<1>3. Capacity(m, plan[i]) \in Nat
  BY DEF IsMachine, Capacity
<1>4. CASE Fits(m, plan, i)
  BY <1>2, <1>3, <1>4 DEF Fits, PlaceIndex
<1>5. CASE ~Fits(m, plan, i)
  <2> DEFINE All == {k \in DOMAIN plan : ~Fits(m, plan, k)}
  <2>1. IsFiniteSet(All)
    BY PositionsFinite
  <2>2. Spilled(m, plan, i) \subseteq All /\ i \in All /\ i \notin Spilled(m, plan, i)
    BY <1>5 DEF Spilled
  <2>3. Cardinality(Spilled(m, plan, i)) < Cardinality(All) /\ Cardinality(All) \in Nat
    BY <2>1, <2>2, Fewer
  <2>4. OverflowCount(m, plan) = Cardinality(All)
    BY DEF OverflowCount
  <2>5. PlaceIndex(m, plan, i) = Cardinality(Spilled(m, plan, i))
    BY <1>5 DEF PlaceIndex
  <2>6. QED
    BY <1>2, <1>5, <2>3, <2>4, <2>5
<1>6. QED
  BY <1>4, <1>5

-------------------------------------------------------------------------------
(***************************************************************************)
(* The layout of a call: what the plan says of its slots and registers.    *)
(***************************************************************************)
Legal == /\ IsMachine(convention) /\ {convention.ints, convention.reals} \subseteq 0..8
         /\ CallOK(call)

Outputs == call.outputs
Spills == OverflowCount(convention, files)
Target(i) == <<FileOf(i), Number(i)>>

SlotsApart ==
  /\ n \in Nat /\ Outputs \in Nat /\ Temporary \in Nat /\ Spills \in Nat
  /\ Temporary >= n + Outputs
  /\ \A i \in Inputs : IsRef(i) => ScratchSlot(i) \in n + Outputs..Temporary - 1
  /\ \A i, j \in Inputs : IsRef(i) /\ IsRef(j) /\ i # j => ScratchSlot(i) # ScratchSlot(j)
  /\ \A i \in Params : ~InRegister(i) => Number(i) \in 0..Spills - 1
  /\ \A i, j \in Params : ~InRegister(i) /\ ~InRegister(j) /\ i # j => Number(i) # Number(j)

\* An address is made in the accumulator only while no earlier register is loaded.
RegistersApart ==
  /\ \A i \in Params : InRegister(i) => Target(i) \in Registers
  /\ \A i, j \in Params : InRegister(i) /\ InRegister(j) /\ i # j => Target(i) # Target(j)
  /\ \A i, j \in Params :
       InRegister(i) /\ InRegister(j) /\ i < j /\ FileOf(i) = "int" => Target(j) # Accumulator("int")

Layout == SlotsApart /\ RegistersApart

\* The parameters of a prototype, their files and which of them are inputs.
LEMMA ParamsAre ==
  ASSUME Legal
  PROVE  /\ n \in Nat /\ Outputs \in Nat /\ files \in Seq(Files) /\ DOMAIN files = Params
         /\ \A i \in Params : files[i] = FileOf(i)
         /\ Inputs \subseteq Params /\ Params \subseteq Nat
<1>1. n \in Nat /\ Outputs \in Nat
  BY DEF Legal, CallOK, n, Outputs
<1>2. files \in [1..n + Outputs -> Files]
  BY DEF files, Params, FileOf, Files, Outputs
<1>3. n + Outputs \in Nat /\ [1..n + Outputs -> Files] \subseteq Seq(Files)
  BY <1>1
<1>4. Inputs \subseteq Params /\ Params \subseteq Nat
  BY <1>1 DEF Inputs, Params, Outputs
<1>5. DOMAIN files = Params /\ \A i \in Params : files[i] = FileOf(i)
  BY DEF files
<1> QED BY <1>1, <1>2, <1>3, <1>4, <1>5

\* The slots a call lays out are different slots.
LEMMA SlotsAreApart ==
  ASSUME Legal
  PROVE  SlotsApart
<1> DEFINE Refs == {i \in Inputs : IsRef(i)}
           Before(i) == {j \in Inputs : j < i /\ IsRef(j)}
<1>1. /\ n \in Nat /\ Outputs \in Nat /\ files \in Seq(Files) /\ DOMAIN files = Params
      /\ \A i \in Params : files[i] = FileOf(i)
      /\ Inputs \subseteq Nat
  BY ParamsAre
<1>2. IsFiniteSet(Inputs)
  BY <1>1, FS_Interval DEF Inputs
<1>3. IsFiniteSet(Refs) /\ Cardinality(Refs) \in Nat
  <2>1. Refs \subseteq Inputs
    OBVIOUS
  <2>2. IsFiniteSet(Refs)
    BY <1>2, <2>1, FS_Subset
  <2> QED BY <2>2, FS_CardinalityType
<1>4. Temporary = n + Outputs + Cardinality(Refs)
  BY DEF Temporary, Outputs
<1>5. \A i \in Inputs : ScratchSlot(i) = n + Outputs + Cardinality(Before(i))
  BY DEF ScratchSlot, Outputs
<1>6. ASSUME NEW i \in Inputs, IsRef(i)
      PROVE  Cardinality(Before(i)) \in Nat /\ Cardinality(Before(i)) < Cardinality(Refs)
  <2>1. Before(i) \subseteq Refs /\ i \in Refs /\ i \notin Before(i)
    BY <1>1, <1>6
  <2> QED BY <1>3, <2>1, Fewer
<1>7. ASSUME NEW i \in Inputs, NEW j \in Inputs, IsRef(i), IsRef(j), i < j
      PROVE  Cardinality(Before(i)) < Cardinality(Before(j)) /\ Cardinality(Before(j)) \in Nat
  <2>1. Before(i) \subseteq Before(j) /\ i \in Before(j) /\ i \notin Before(i)
    <3>1. i \in Nat /\ j \in Nat /\ \A k \in Inputs : k \in Nat
      BY <1>1
    <3>2. ASSUME NEW k \in Inputs, k < i PROVE k < j
      BY <1>7, <3>1, <3>2
    <3>3. Before(i) \subseteq Before(j)
      BY <3>2
    <3>4. i \in Before(j)
      BY <1>7
    <3>5. i \notin Before(i)
      BY <3>1
    <3> HIDE DEF Before
    <3> QED BY <3>3, <3>4, <3>5
  <2>2. Before(j) \subseteq Inputs
    OBVIOUS
  <2>3. IsFiniteSet(Before(j))
    BY <1>2, <2>2, FS_Subset
  <2> HIDE DEF Before
  <2> QED BY <2>1, <2>3, Fewer
<1> HIDE DEF Refs, Before
<1>8. \A i \in Inputs : IsRef(i) => ScratchSlot(i) \in n + Outputs..Temporary - 1
  BY <1>1, <1>3, <1>4, <1>5, <1>6
<1>9. \A i, j \in Inputs : IsRef(i) /\ IsRef(j) /\ i # j => ScratchSlot(i) # ScratchSlot(j)
  <2>1. ASSUME NEW i \in Inputs, NEW j \in Inputs, IsRef(i), IsRef(j), i < j
        PROVE  ScratchSlot(i) # ScratchSlot(j)
    BY <1>1, <1>5, <1>6, <1>7, <2>1
  <2>2. \A i, j \in Inputs : i # j => i < j \/ j < i
    BY <1>1
  <2> QED BY <2>1, <2>2
<1>10. \A i \in Params : ~InRegister(i) => Number(i) \in 0..Spills - 1
  BY <1>1, PlacesExist DEF Legal, InRegister, Number, Spills
<1>11. Spills \in Nat
  BY <1>1, PositionsFinite DEF Spills, OverflowCount
<1>12. ASSUME NEW i \in Params, NEW j \in Params, ~InRegister(i), ~InRegister(j), i # j
       PROVE  Number(i) # Number(j)
  BY <1>1, <1>12, PlacesDistinct DEF Legal, InRegister, Number, Place
<1> QED BY <1>1, <1>3, <1>4, <1>8, <1>9, <1>10, <1>11, <1>12 DEF SlotsApart

\* Two arguments in registers are in different ones, and none lies where an address is made.
LEMMA RegistersAreApart ==
  ASSUME Legal
  PROVE  RegistersApart
<1>1. /\ files \in Seq(Files) /\ DOMAIN files = Params /\ Params \subseteq Nat
      /\ \A i \in Params : files[i] = FileOf(i)
  BY ParamsAre
<1>2. \A i \in Params : FileOf(i) \in Files
  BY DEF FileOf, Files
<1>3. ASSUME NEW i \in Params, InRegister(i)
      PROVE  Target(i) \in Registers /\ Number(i) \in Nat
  <2>1. Number(i) \in 0..Capacity(convention, files[i]) - 1
    BY <1>1, <1>3, PlacesExist DEF Legal, InRegister, Number
  <2>2. Capacity(convention, files[i]) \in 0..8
    BY DEF Legal, Capacity
  <2>3. Number(i) \in 0..7
    BY <2>1, <2>2
  <2> QED BY <1>2, <2>3 DEF Target, Registers
<1>4. ASSUME NEW i \in Params, NEW j \in Params, InRegister(i), InRegister(j), i # j
      PROVE  Target(i) # Target(j)
  BY <1>1, <1>4, PlacesDistinct DEF Legal, InRegister, Number, Place, Target
<1>5. ASSUME NEW i \in Params, NEW j \in Params, InRegister(i), InRegister(j), i < j,
             FileOf(i) = "int"
      PROVE  Target(j) # Accumulator("int")
  <2>1. CASE FileOf(j) = "int"
    <3>1. Cardinality(Earlier(convention, files, i)) < Cardinality(Earlier(convention, files, j))
      BY <1>1, <1>5, <2>1, RegistersIncrease DEF Legal
    <3>2. Number(i) < Number(j)
      BY <1>5, <3>1 DEF InRegister, Number, PlaceIndex
    <3>3. Number(j) # 0
      BY <1>3, <1>5, <3>2
    <3> QED BY <3>3 DEF Target, Accumulator
  <2>2. CASE FileOf(j) # "int"
    BY <1>2, <2>2 DEF Target, Accumulator, Files
  <2> QED BY <2>1, <2>2
<1> QED BY <1>3, <1>4, <1>5 DEF RegistersApart

\* The frame of a call: variables, outputs, scratch, the temporary, the block and
\* the arguments, in this order and apart.
FrameLaidOut ==
  /\ Slots = 0..(Temporary + Spills + n + 2)
  /\ BlockBase = Temporary + 1
  /\ \A i \in Inputs : VariableSlot(i) \in 0..n - 1
  /\ \A i, j \in Inputs : i # j => VariableSlot(i) # VariableSlot(j)
  /\ \A j \in 1..Outputs : OutputSlot(j) \in n..n + Outputs - 1
  /\ \A i, j \in 1..Outputs : i # j => OutputSlot(i) # OutputSlot(j)
  /\ \A i \in Inputs : IsRef(i) => ScratchSlot(i) \in n + Outputs..Temporary - 1
  /\ \A i \in Params : ~InRegister(i) => BlockBase + Number(i) \in Temporary + 1..Temporary + Spills
  /\ \A i \in Inputs : ArgumentSlot(i) = Temporary + Spills + i
                     /\ ArgumentSlot(i) \in Temporary + Spills + 1..Temporary + Spills + n

\* The caller's frame has its variables, its slots and the overflow block apart.
LEMMA FrameIsLaidOut ==
  ASSUME Legal
  PROVE  FrameLaidOut
<1>1. n \in Nat /\ Outputs \in Nat
  BY ParamsAre
<1>2. Temporary \in Nat /\ Spills \in Nat /\ Temporary >= n + Outputs
  BY SlotsAreApart DEF SlotsApart
<1>3. /\ \A i \in Inputs : IsRef(i) => ScratchSlot(i) \in n + Outputs..Temporary - 1
      /\ \A i \in Params : ~InRegister(i) => Number(i) \in 0..Spills - 1
  BY SlotsAreApart DEF SlotsApart
<1>4. BlockBase = Temporary + 1
  BY DEF BlockBase
<1>5. \A i : ArgumentSlot(i) = BlockBase + Spills + i - 1
  BY DEF ArgumentSlot, Spills
<1>6. Slots = 0..(Temporary + Spills + n + 2)
  <2>1. ArgumentSlot(n) + 2 = Temporary + Spills + n + 2
    BY <1>1, <1>2, <1>4, <1>5
  <2> QED BY <2>1 DEF Slots
<1>7. \A i \in Inputs : ArgumentSlot(i) = Temporary + Spills + i
                     /\ ArgumentSlot(i) \in Temporary + Spills + 1..Temporary + Spills + n
  BY <1>1, <1>2, <1>4, <1>5 DEF Inputs
<1>8. \A i \in Params : ~InRegister(i) => BlockBase + Number(i) \in Temporary + 1..Temporary + Spills
  BY <1>2, <1>3, <1>4
<1>9. /\ \A i \in Inputs : VariableSlot(i) \in 0..n - 1
      /\ \A i, j \in Inputs : i # j => VariableSlot(i) # VariableSlot(j)
  BY <1>1 DEF VariableSlot, Inputs
<1>10. /\ \A j \in 1..Outputs : OutputSlot(j) \in n..n + Outputs - 1
       /\ \A i, j \in 1..Outputs : i # j => OutputSlot(i) # OutputSlot(j)
  BY <1>1 DEF OutputSlot
<1> QED BY <1>3, <1>4, <1>6, <1>7, <1>8, <1>9, <1>10 DEF FrameLaidOut

\* The layout of a call does not change while it is executed.
LEMMA SameLayout ==
  ASSUME UNCHANGED <<convention, call>>
  PROVE  /\ n' = n /\ Outputs' = Outputs /\ Inputs' = Inputs /\ Params' = Params
         /\ Spills' = Spills /\ Temporary' = Temporary /\ BlockBase' = BlockBase /\ Slots' = Slots
         /\ \A i : IsRef(i)' <=> IsRef(i)
         /\ \A i : InRegister(i)' <=> InRegister(i)
         /\ \A i : /\ FileOf(i)' = FileOf(i) /\ Number(i)' = Number(i) /\ Target(i)' = Target(i)
                  /\ ScratchSlot(i)' = ScratchSlot(i) /\ OutputSlot(i)' = OutputSlot(i)
                  /\ ArgumentSlot(i)' = ArgumentSlot(i) /\ VariableSlot(i)' = VariableSlot(i)
         /\ Legal'  <=> Legal
<1>1. n' = n /\ Outputs' = Outputs
  BY DEF n, Outputs
<1>2. Inputs' = Inputs /\ Params' = Params
  BY <1>1 DEF Inputs, Params
<1>3. \A i : IsRef(i)' <=> IsRef(i)
  BY <1>2 DEF IsRef
<1>4. \A i : FileOf(i)' = FileOf(i)
  BY <1>2 DEF FileOf
<1>5. files' = files
  BY <1>2, <1>4 DEF files
<1>6. \A i : InRegister(i)' <=> InRegister(i)
  BY <1>5 DEF InRegister
<1>7. \A i : Number(i)' = Number(i)
  BY <1>5 DEF Number
<1>8. \A i : Target(i)' = Target(i)
  BY <1>4, <1>7 DEF Target
<1>9. Spills' = Spills
  BY <1>5 DEF Spills
<1>10. \A i : ScratchSlot(i)' = ScratchSlot(i)
  BY <1>1, <1>2, <1>3 DEF ScratchSlot
<1>11. Temporary' = Temporary
  BY <1>1, <1>2, <1>3 DEF Temporary
<1>12. BlockBase' = BlockBase
  BY <1>11 DEF BlockBase
<1>13. \A i : ArgumentSlot(i)' = ArgumentSlot(i)
  BY <1>5, <1>12 DEF ArgumentSlot
<1>14. \A i : OutputSlot(i)' = OutputSlot(i)
  BY <1>1 DEF OutputSlot
<1>15. \A i : VariableSlot(i)' = VariableSlot(i)
  BY DEF VariableSlot
<1>16. Slots' = Slots
  BY <1>1, <1>13 DEF Slots
<1>17. Legal' <=> Legal
  BY DEF Legal
<1> QED BY <1>1, <1>2, <1>3, <1>4, <1>6, <1>7, <1>8, <1>9, <1>10, <1>11, <1>12, <1>13, <1>14,
           <1>15, <1>16, <1>17

-------------------------------------------------------------------------------
(***************************************************************************)
(* What holds at every step of a call: the caller's own slots until the    *)
(* callee runs, the evaluated arguments, the part of the block and of the  *)
(* registers already filled, the callee's parameters, and what the call    *)
(* has already brought back.                                               *)
(***************************************************************************)
Parts == {"arguments", "overflow", "registers", "entry", "body", "return", "done"}

Before == part \in {"arguments", "overflow", "registers", "entry", "body"}

\* Where the value of an argument waits, and what is passed for it.
Waits(i) == IF IsRef(i) THEN ScratchSlot(i) ELSE ArgumentSlot(i)

What(i) == IF i > n THEN Address(OutputSlot(i - n))
           ELSE IF IsRef(i) THEN Address(ScratchSlot(i)) ELSE Supplied(i)

Chosen == \E c \in Cases : convention = c.machine /\ call = c.call

Shaped ==
  /\ Chosen /\ Legal
  /\ part \in Parts /\ next \in Nat \ {0}
  /\ DOMAIN registers = Registers /\ DOMAIN callFrame = Slots /\ DOMAIN elements = 1..(2 * n)

CallersOwn ==
  Before => /\ \A i \in Inputs : callFrame[VariableSlot(i)] = Supplied(i) /\ elements[i] = Supplied(i)
            /\ callFrame[Temporary] = <<"temporary", 0>>

Evaluation ==
  Before => \A i \in Inputs : part # "arguments" \/ i < next => callFrame[Waits(i)] = Supplied(i)

Overflowed ==
  part \in {"overflow", "registers", "entry"} =>
    \A i \in Params : ~InRegister(i) /\ (part # "overflow" \/ i < next) =>
                       callFrame[BlockBase + Number(i)] = What(i)

Loaded ==
  part \in {"registers", "entry"} =>
    \A i \in Params : InRegister(i) /\ (part # "registers" \/ i > LoadOrder(next)) =>
                       registers[Target(i)] = What(i)

Pointed ==
  /\ part = "registers" => next <= n + Outputs + 1
  /\ part = "entry" /\ Spills > 0 => block = BlockBase
  /\ part = "body" /\ Promised => \A i \in Params : home[i] = What(i)

Returned ==
  part \in {"return", "done"} /\ Promised =>
    /\ \A i \in Inputs : IsRef(i) => callFrame[ScratchSlot(i)] = Left(i)
    /\ \A j \in 1..Outputs : callFrame[OutputSlot(j)] = Output(j)
    /\ callFrame[Temporary] = <<"temporary", 0>>

\* The setter finds an element's value: it is no real, or places count positions.
Found(i) == convention.positional \/ call.inputs[i].kind # "Real"

BroughtBack ==
  part \in {"return", "done"} /\ Promised =>
    \A i \in Inputs :
      LET came == IsRef(i) /\ (part = "done" \/ i < next)
      IN  /\ came /\ ~call.inputs[i].element => callFrame[VariableSlot(i)] = Left(i)
          /\ ~came \/ call.inputs[i].element => callFrame[VariableSlot(i)] = Supplied(i)
          /\ came /\ call.inputs[i].element /\ Found(i) => moved \/ elements[i] = Left(i)

CallInv == /\ Shaped /\ CallersOwn /\ Evaluation /\ Overflowed /\ Loaded /\ Pointed
           /\ Returned /\ BroughtBack

\* While the call is the same, so is what its arguments stand for and where they wait.
LEMMA SameMeanings ==
  ASSUME UNCHANGED <<convention, call>>
  PROVE  /\ \A i : What(i)' = What(i) /\ Waits(i)' = Waits(i) /\ LoadOrder(i)' = LoadOrder(i)
         /\ \A i : Found(i)' <=> Found(i)
         /\ Promised' <=> Promised
         /\ Chosen' <=> Chosen
<1>1. /\ n' = n /\ Params' = Params /\ \A i : IsRef(i)' <=> IsRef(i)
      /\ \A i : InRegister(i)' <=> InRegister(i)
      /\ \A i : ScratchSlot(i)' = ScratchSlot(i) /\ ArgumentSlot(i)' = ArgumentSlot(i)
      /\ \A i : OutputSlot(i)' = OutputSlot(i)
  BY SameLayout
<1>2. \A i : What(i)' = What(i)
  BY <1>1 DEF What, Address, Supplied
<1>3. \A i : Waits(i)' = Waits(i)
  BY <1>1 DEF Waits
<1>4. \A i : LoadOrder(i)' = LoadOrder(i)
  BY <1>1 DEF LoadOrder
<1>5. \A i : Found(i)' <=> Found(i)
  BY DEF Found
<1>6. Promised' <=> Promised
  BY <1>1 DEF Promised
<1>7. Chosen' <=> Chosen
  BY DEF Chosen
<1> QED BY <1>2, <1>3, <1>4, <1>5, <1>6, <1>7

\* The slots of a call a later step must not disturb, seen from one of them.
LEMMA WaitsApart ==
  ASSUME Legal
  PROVE  /\ \A i \in Inputs : Waits(i) \in Slots /\ Waits(i) # Temporary /\ Waits(i) >= n + Outputs
                              /\ Waits(i) <= ArgumentSlot(i)
         /\ \A i, j \in Inputs : i # j => Waits(i) # Waits(j)
         /\ \A i \in Inputs : ~(Waits(i) \in Temporary + 1..Temporary + Spills)
<1>1. FrameLaidOut /\ SlotsApart
  BY FrameIsLaidOut, SlotsAreApart
<1>2. n \in Nat /\ Outputs \in Nat /\ Inputs \subseteq Nat /\ Temporary \in Nat /\ Spills \in Nat
  BY <1>1, ParamsAre DEF SlotsApart
<1>3. ASSUME NEW i \in Inputs
      PROVE  /\ Waits(i) \in Slots /\ Waits(i) # Temporary /\ Waits(i) >= n + Outputs
             /\ Waits(i) <= ArgumentSlot(i)
             /\ ~(Waits(i) \in Temporary + 1..Temporary + Spills)
  <2>1. CASE IsRef(i)
    BY <1>1, <1>2, <2>1 DEF FrameLaidOut, SlotsApart, Waits
  <2>2. CASE ~IsRef(i)
    BY <1>1, <1>2, <2>2 DEF FrameLaidOut, SlotsApart, Waits
  <2> QED BY <2>1, <2>2
<1>4. ASSUME NEW i \in Inputs, NEW j \in Inputs, i # j
      PROVE  Waits(i) # Waits(j)
  <2>1. CASE IsRef(i) /\ IsRef(j)
    BY <1>1, <1>4, <2>1 DEF SlotsApart, Waits
  <2>2. CASE ~IsRef(i) /\ ~IsRef(j)
    BY <1>1, <1>2, <1>4, <2>2 DEF FrameLaidOut, Waits
  <2>3. CASE IsRef(i) /\ ~IsRef(j)
    BY <1>1, <1>2, <2>3 DEF FrameLaidOut, Waits
  <2>4. CASE ~IsRef(i) /\ IsRef(j)
    BY <1>1, <1>2, <2>4 DEF FrameLaidOut, Waits
  <2> QED BY <2>1, <2>2, <2>3, <2>4
<1> QED BY <1>3, <1>4

\* What is passed out of the frame is what is meant.
LEMMA PassedIsWhat ==
  ASSUME CallInv, part \in {"overflow", "registers"}, NEW i \in Params
  PROVE  Passed(i) = What(i)
<1>1. n \in Nat /\ Outputs \in Nat
  BY ParamsAre DEF CallInv, Shaped
<1>2. CASE i > n
  BY <1>2 DEF Passed, What
<1>3. CASE ~(i > n)
  <2>1. i \in Inputs
    BY <1>1, <1>3 DEF Params, Inputs, Outputs
  <2>2. callFrame[Waits(i)] = Supplied(i)
    BY <2>1 DEF CallInv, Evaluation, Before
  <2> QED BY <1>3, <2>2 DEF Passed, What, Waits
<1> QED BY <1>2, <1>3

\* Before the first argument nothing was touched.
LEMMA CallStarts ==
  ASSUME CallInit
  PROVE  CallInv
<1>1. Chosen /\ Legal
  BY CallingAssumption DEF CallInit, Chosen, Legal
<1>2. FrameLaidOut /\ n \in Nat /\ Outputs \in Nat /\ Temporary \in Nat /\ Spills \in Nat
      /\ Inputs = 1..n /\ Temporary >= n + Outputs
  BY <1>1, FrameIsLaidOut, ParamsAre, SlotsAreApart DEF SlotsApart, Inputs
<1>3. Shaped
  BY <1>1 DEF Shaped, CallInit, Parts
<1>4. CallersOwn
  <2>1. ASSUME NEW i \in Inputs
        PROVE  callFrame[VariableSlot(i)] = Supplied(i) /\ elements[i] = Supplied(i)
    <3>1. VariableSlot(i) \in Slots /\ VariableSlot(i) + 1 = i
      BY <1>2 DEF FrameLaidOut, VariableSlot
    <3>2. callFrame[VariableSlot(i)] = Supplied(VariableSlot(i) + 1)
      BY <3>1 DEF CallInit
    <3>3. i \in 1..(2 * n)
      BY <1>2
    <3> QED BY <3>1, <3>2, <3>3 DEF CallInit
  <2>2. callFrame[Temporary] = <<"temporary", 0>>
    <3>1. Temporary \in Slots /\ ~(Temporary + 1 \in Inputs)
      BY <1>2 DEF FrameLaidOut
    <3> QED BY <3>1 DEF CallInit
  <2> QED BY <2>1, <2>2 DEF CallersOwn
<1>5. Evaluation
  BY <1>2 DEF Evaluation, CallInit
<1>6. Overflowed /\ Loaded /\ Pointed /\ Returned /\ BroughtBack
  BY DEF Overflowed, Loaded, Pointed, Returned, BroughtBack, CallInit
<1> QED BY <1>3, <1>4, <1>5, <1>6 DEF CallInv

\* An argument's slot is above the frame before it and those evaluated before it.
LEMMA EvaluateArgumentKeeps ==
  ASSUME CallInv, EvaluateArgument
  PROVE  CallInv'
<1>1. /\ UNCHANGED <<convention, call, part, elements, block, home, assigned, moved>>
      /\ part = "arguments" /\ next \in Inputs /\ next' = next + 1
      /\ callFrame' = [s \in Slots |-> IF s = Waits(next) THEN Supplied(next)
                                   ELSE IF s >= ArgumentSlot(next) + 1 THEN Junk ELSE callFrame[s]]
      /\ registers' = [r \in Registers |-> Junk]
  BY DEF EvaluateArgument, Evaluated, Waits, Clobbered
<1>2. Legal /\ Shaped
  BY DEF CallInv, Shaped
<1>3. FrameLaidOut /\ n \in Nat /\ Outputs \in Nat /\ Temporary \in Nat /\ Spills \in Nat
      /\ Inputs \subseteq Nat /\ Temporary >= n + Outputs
  BY <1>2, FrameIsLaidOut, ParamsAre, SlotsAreApart DEF SlotsApart
<1>4. Shaped'
  BY <1>1, <1>2, <1>3, SameLayout, SameMeanings DEF Shaped
<1>5. CallersOwn'
  <2>1. ASSUME NEW i \in Inputs PROVE callFrame'[VariableSlot(i)] = callFrame[VariableSlot(i)]
    <3>1. VariableSlot(i) \in Slots /\ VariableSlot(i) < n /\ ArgumentSlot(next) >= n
      BY <1>1, <1>3 DEF FrameLaidOut
    <3>2. Waits(next) >= n
      BY <1>1, <1>2, <1>3, WaitsApart DEF FrameLaidOut
    <3>3. VariableSlot(i) # Waits(next) /\ ~(VariableSlot(i) >= ArgumentSlot(next) + 1)
      BY <1>1, <1>3, <3>1, <3>2 DEF FrameLaidOut
    <3> QED BY <1>1, <3>1, <3>3
  <2>2. callFrame'[Temporary] = callFrame[Temporary]
    <3>1. Temporary \in Slots /\ ~(Temporary >= ArgumentSlot(next) + 1)
      BY <1>1, <1>3 DEF FrameLaidOut
    <3>2. Temporary # Waits(next)
      BY <1>1, <1>2, WaitsApart
    <3> QED BY <1>1, <3>1, <3>2
  <2> QED BY <1>1, <2>1, <2>2, SameLayout DEF CallInv, CallersOwn, Before, Supplied
<1>6. Evaluation'
  <2>1. ASSUME NEW i \in Inputs, i < next'
        PROVE  callFrame'[Waits(i)] = Supplied(i)
    <3>1. CASE i = next
      BY <1>1, <1>2, <3>1, WaitsApart
    <3>2. CASE i # next
      <4>1. i < next
        BY <1>1, <1>3, <2>1, <3>2
      <4>2. callFrame[Waits(i)] = Supplied(i)
        BY <1>1, <4>1 DEF CallInv, Evaluation, Before
      <4>3. Waits(i) \in Slots /\ Waits(i) # Waits(next) /\ Waits(i) <= ArgumentSlot(i)
        BY <1>1, <1>2, <3>2, WaitsApart
      <4>4. ArgumentSlot(i) < ArgumentSlot(next)
        BY <1>1, <1>3, <4>1 DEF FrameLaidOut
      <4>5. Waits(i) \in Int /\ ArgumentSlot(i) \in Int /\ ArgumentSlot(next) \in Int
        BY <1>1, <1>3, <4>3 DEF FrameLaidOut
      <4>6. ~(Waits(i) >= ArgumentSlot(next) + 1)
        BY <4>3, <4>4, <4>5
      <4> QED BY <1>1, <4>2, <4>3, <4>6
    <3> QED BY <3>1, <3>2
  <2> QED BY <1>1, <2>1, SameLayout, SameMeanings DEF Evaluation, Before, Supplied
<1>7. Overflowed' /\ Loaded' /\ Pointed' /\ Returned' /\ BroughtBack'
  BY <1>1 DEF Overflowed, Loaded, Pointed, Returned, BroughtBack
<1> QED BY <1>4, <1>5, <1>6, <1>7 DEF CallInv

\* Going on from the arguments to the overflow block changes no place.
LEMMA ArgumentsDoneKeeps ==
  ASSUME CallInv, ArgumentsDone
  PROVE  CallInv'
<1>1. /\ UNCHANGED <<convention, call, registers, callFrame, elements, block, home, assigned, moved>>
      /\ part = "arguments" /\ next = n + 1 /\ part' = "overflow" /\ next' = 1
  BY DEF ArgumentsDone
<1>2. Shaped /\ n \in Nat /\ Inputs = 1..n /\ Params \subseteq Nat \ {0}
  BY ParamsAre DEF CallInv, Shaped, Inputs, Params
<1>3. Shaped'
  BY <1>1, <1>2, SameLayout, SameMeanings DEF Shaped, Parts
<1>4. CallersOwn'
  BY <1>1, SameLayout DEF CallInv, CallersOwn, Before, Supplied
<1>5. Evaluation'
  <2>1. ASSUME NEW i \in Inputs PROVE callFrame[Waits(i)] = Supplied(i)
    BY <1>1, <1>2 DEF CallInv, Evaluation, Before
  <2> QED BY <1>1, <2>1, SameLayout, SameMeanings DEF Evaluation, Before, Supplied
<1>6. Overflowed'
  <2>1. \A i \in Params : ~(i < 1)
    BY <1>2
  <2> QED BY <1>1, <2>1, SameLayout DEF Overflowed
<1>7. Loaded' /\ Pointed' /\ Returned' /\ BroughtBack'
  BY <1>1 DEF Loaded, Pointed, Returned, BroughtBack
<1> QED BY <1>3, <1>4, <1>5, <1>6, <1>7 DEF CallInv

\* A position in the block is no other's, and nothing else of the frame is there.
LEMMA StoreOverflowKeeps ==
  ASSUME CallInv, StoreOverflow
  PROVE  CallInv'
<1>1. /\ UNCHANGED <<convention, call, part, elements, block, home, assigned, moved>>
      /\ part = "overflow" /\ next \in Params /\ next' = next + 1
      /\ InRegister(next) => UNCHANGED <<registers, callFrame>>
      /\ ~InRegister(next) =>
           /\ registers' = [registers EXCEPT ![Accumulator(FileOf(next))] = Passed(next)]
           /\ callFrame' = [callFrame EXCEPT ![BlockBase + Number(next)] = Passed(next)]
  BY DEF StoreOverflow
<1>2. Legal /\ Shaped
  BY DEF CallInv, Shaped
<1>3. FrameLaidOut /\ SlotsApart /\ n \in Nat /\ Outputs \in Nat /\ Temporary \in Nat
      /\ Spills \in Nat /\ Params \subseteq Nat \ {0} /\ Temporary >= n + Outputs /\ Inputs \subseteq Nat
  BY <1>2, FrameIsLaidOut, ParamsAre, SlotsAreApart DEF SlotsApart, Params
<1>4. Passed(next) = What(next)
  BY <1>1, PassedIsWhat
<1>5. DOMAIN callFrame' = Slots /\ DOMAIN registers' = Registers
  BY <1>1, <1>2 DEF Shaped
<1>6. Shaped'
  BY <1>1, <1>2, <1>3, <1>5, SameLayout, SameMeanings DEF Shaped
<1>7. ASSUME NEW s \in Slots, ~(s \in Temporary + 1..Temporary + Spills)
      PROVE  callFrame'[s] = callFrame[s]
  BY <1>1, <1>2, <1>3, <1>7 DEF Shaped, FrameLaidOut
<1>8. CallersOwn'
  <2>1. ASSUME NEW i \in Inputs PROVE callFrame'[VariableSlot(i)] = callFrame[VariableSlot(i)]
    <3>1. VariableSlot(i) \in Slots /\ ~(VariableSlot(i) \in Temporary + 1..Temporary + Spills)
      BY <1>3 DEF FrameLaidOut
    <3> QED BY <1>7, <3>1
  <2>2. callFrame'[Temporary] = callFrame[Temporary]
    BY <1>3, <1>7 DEF FrameLaidOut
  <2> QED BY <1>1, <2>1, <2>2, SameLayout DEF CallInv, CallersOwn, Before, Supplied
<1>9. Evaluation'
  <2>1. ASSUME NEW i \in Inputs PROVE callFrame'[Waits(i)] = Supplied(i)
    <3>1. callFrame[Waits(i)] = Supplied(i)
      BY <1>1 DEF CallInv, Evaluation, Before
    <3>2. Waits(i) \in Slots /\ ~(Waits(i) \in Temporary + 1..Temporary + Spills)
      BY <1>2, WaitsApart
    <3> QED BY <1>7, <3>1, <3>2
  <2> QED BY <1>1, <2>1, SameLayout, SameMeanings DEF Evaluation, Supplied
<1>10. Overflowed'
  <2>1. ASSUME NEW i \in Params, ~InRegister(i), i < next'
        PROVE  callFrame'[BlockBase + Number(i)] = What(i)
    <3>1. BlockBase + Number(i) \in Slots
      BY <1>3, <2>1 DEF FrameLaidOut
    <3>2. CASE i = next
      BY <1>1, <1>2, <1>4, <2>1, <3>1, <3>2 DEF Shaped
    <3>3. CASE i # next
      <4>1. i < next
        BY <1>1, <1>3, <2>1, <3>3
      <4>2. callFrame[BlockBase + Number(i)] = What(i)
        BY <1>1, <2>1, <4>1 DEF CallInv, Overflowed
      <4>3. CASE InRegister(next)
        BY <1>1, <4>2, <4>3
      <4>4. CASE ~InRegister(next)
        <5>1. Number(i) # Number(next) /\ Number(i) \in Nat /\ Number(next) \in Nat
          BY <1>1, <1>3, <2>1, <3>3, <4>4 DEF SlotsApart
        <5>2. BlockBase + Number(i) # BlockBase + Number(next)
          BY <1>3, <5>1 DEF FrameLaidOut
        <5> QED BY <1>1, <1>2, <3>1, <4>2, <4>4, <5>2 DEF Shaped
      <4> QED BY <4>3, <4>4
    <3> QED BY <3>2, <3>3
  <2> QED BY <1>1, <2>1, SameLayout, SameMeanings DEF Overflowed
<1>11. Loaded' /\ Pointed' /\ Returned' /\ BroughtBack'
  BY <1>1 DEF Loaded, Pointed, Returned, BroughtBack
<1> QED BY <1>6, <1>8, <1>9, <1>10, <1>11 DEF CallInv

\* Going on from the overflow block to the registers changes no place.
LEMMA OverflowDoneKeeps ==
  ASSUME CallInv, OverflowDone
  PROVE  CallInv'
<1>1. /\ UNCHANGED <<convention, call, registers, callFrame, elements, block, home, assigned, moved>>
      /\ part = "overflow" /\ next = n + Outputs + 1 /\ part' = "registers" /\ next' = 1
  BY DEF OverflowDone, Outputs
<1>2. Shaped /\ n \in Nat /\ Outputs \in Nat /\ Params = 1..n + Outputs
  BY ParamsAre DEF CallInv, Shaped, Params, Outputs
<1>3. Shaped'
  BY <1>1, <1>2, SameLayout, SameMeanings DEF Shaped, Parts
<1>4. CallersOwn' /\ Evaluation'
  BY <1>1, SameLayout, SameMeanings DEF CallInv, CallersOwn, Evaluation, Before, Supplied
<1>5. Overflowed'
  <2>1. ASSUME NEW i \in Params, ~InRegister(i)
        PROVE  callFrame[BlockBase + Number(i)] = What(i)
    BY <1>1, <1>2, <2>1 DEF CallInv, Overflowed
  <2> QED BY <1>1, <2>1, SameLayout, SameMeanings DEF Overflowed
<1>6. Loaded'
  <2>1. LoadOrder(next)' = n' + Outputs' + 1 - next'
    BY DEF LoadOrder, Outputs
  <2>2. LoadOrder(next)' = n + Outputs
    BY <1>1, <1>2, <2>1, SameLayout
  <2>3. \A i \in Params : ~(i > n + Outputs)
    BY <1>2
  <2> QED BY <1>1, <2>2, <2>3, SameLayout DEF Loaded
<1>7. Pointed' /\ Returned' /\ BroughtBack'
  BY <1>1, <1>2, SameLayout DEF Pointed, Returned, BroughtBack
<1> QED BY <1>3, <1>4, <1>5, <1>6, <1>7 DEF CallInv

\* Loading a register, or making an address in the accumulator, leaves the
\* registers of the later arguments alone.
LEMMA LoadRegisterKeeps ==
  ASSUME CallInv, LoadRegister
  PROVE  CallInv'
<1> DEFINE k == LoadOrder(next)
<1>1. /\ UNCHANGED <<convention, call, part, callFrame, elements, block, home, assigned, moved>>
      /\ part = "registers" /\ next \in Params /\ next' = next + 1
      /\ ~InRegister(k) => UNCHANGED registers
      /\ InRegister(k) /\ (k > n \/ IsRef(k)) =>
           registers' = [registers EXCEPT ![Accumulator("int")] = Passed(k), ![Target(k)] = Passed(k)]
      /\ InRegister(k) /\ ~(k > n \/ IsRef(k)) => registers' = [registers EXCEPT ![Target(k)] = Passed(k)]
  BY DEF LoadRegister, Target
<1>2. Legal /\ Shaped
  BY DEF CallInv, Shaped
<1>3. RegistersApart /\ n \in Nat /\ Outputs \in Nat /\ Params = 1..n + Outputs
  BY <1>2, RegistersAreApart, ParamsAre DEF Params, Outputs
<1>4. k \in Params /\ k = n + Outputs + 1 - next
  BY <1>1, <1>3 DEF LoadOrder, Outputs
<1>5. Passed(k) = What(k)
  BY <1>1, <1>4, PassedIsWhat
<1>6. LoadOrder(next)' = k - 1
  <2>1. LoadOrder(next)' = n' + Outputs' + 1 - next'
    BY DEF LoadOrder, Outputs
  <2> QED BY <1>1, <1>3, <1>4, <2>1, SameLayout
<1>7. k > n \/ IsRef(k) => FileOf(k) = "int"
  <2>1. k > n => ~(k \in Inputs)
    BY <1>3, <1>4 DEF Inputs
  <2> QED BY <2>1 DEF FileOf, IsRef
<1> HIDE DEF k
<1>8. DOMAIN registers' = Registers
  BY <1>1, <1>2 DEF Shaped
<1>9. Shaped'
  BY <1>1, <1>2, <1>3, <1>8, SameLayout, SameMeanings DEF Shaped
<1>10. CallersOwn' /\ Evaluation' /\ Overflowed'
  BY <1>1, SameLayout, SameMeanings DEF CallInv, CallersOwn, Evaluation, Overflowed, Before, Supplied
<1>11. Loaded'
  <2>1. ASSUME NEW i \in Params, InRegister(i), i > k - 1
        PROVE  registers'[Target(i)] = What(i)
    <3>1. Target(i) \in Registers
      BY <1>3, <2>1 DEF RegistersApart
    <3>2. CASE i = k
      BY <1>1, <1>2, <1>5, <2>1, <3>1, <3>2 DEF Shaped
    <3>3. CASE i # k
      <4>1. i > k
        BY <1>3, <1>4, <2>1, <3>3
      <4>2. registers[Target(i)] = What(i)
        BY <1>1, <2>1, <4>1 DEF CallInv, Loaded, k
      <4>3. CASE ~InRegister(k)
        BY <1>1, <4>2, <4>3
      <4>4. CASE InRegister(k)
        <5>1. Target(i) # Target(k)
          BY <1>3, <1>4, <2>1, <3>3, <4>4 DEF RegistersApart
        <5>2. k < i
          BY <1>3, <1>4, <4>1
        <5>3. FileOf(k) = "int" => Target(i) # Accumulator("int")
          BY <1>3, <1>4, <2>1, <4>4, <5>2 DEF RegistersApart
        <5> QED BY <1>1, <1>2, <1>7, <3>1, <4>2, <4>4, <5>1, <5>3 DEF Shaped
      <4> QED BY <4>3, <4>4
    <3> QED BY <3>2, <3>3
  <2> QED BY <1>1, <1>6, <2>1, SameLayout, SameMeanings DEF Loaded
<1>12. Pointed' /\ Returned' /\ BroughtBack'
  BY <1>1, <1>3, SameLayout DEF Pointed, Returned, BroughtBack
<1> QED BY <1>9, <1>10, <1>11, <1>12 DEF CallInv

\* The jump: what was loaded is what the function finds.
LEMMA JumpKeeps ==
  ASSUME CallInv, Jump
  PROVE  CallInv'
<1>1. /\ UNCHANGED <<convention, call, next, registers, callFrame, elements, home, assigned, moved>>
      /\ part = "registers" /\ next = n + Outputs + 1 /\ part' = "entry"
      /\ Spills > 0 => block' = BlockBase
  BY DEF Jump, Outputs, Spills
<1>2. Shaped /\ n \in Nat /\ Outputs \in Nat /\ Params = 1..n + Outputs
  BY ParamsAre DEF CallInv, Shaped, Params, Outputs
<1>3. Shaped'
  BY <1>1, <1>2, SameLayout, SameMeanings DEF Shaped, Parts
<1>4. CallersOwn' /\ Evaluation'
  BY <1>1, SameLayout, SameMeanings DEF CallInv, CallersOwn, Evaluation, Before, Supplied
<1>5. Overflowed'
  BY <1>1, SameLayout, SameMeanings DEF CallInv, Overflowed
<1>6. Loaded'
  <2>1. LoadOrder(next) = 0
    BY <1>1, <1>2 DEF LoadOrder, Outputs
  <2>2. ASSUME NEW i \in Params, InRegister(i) PROVE registers[Target(i)] = What(i)
    BY <1>1, <1>2, <2>1, <2>2 DEF CallInv, Loaded
  <2> QED BY <1>1, <2>2, SameLayout, SameMeanings DEF Loaded
<1>7. Pointed' /\ Returned' /\ BroughtBack'
  BY <1>1, SameLayout DEF Pointed, Returned, BroughtBack
<1> QED BY <1>3, <1>4, <1>5, <1>6, <1>7 DEF CallInv

\* The callee finds in the block what is in no register: foreign callees are only
\* promised registers.
LEMMA SpillKeeps ==
  ASSUME CallInv, Spill
  PROVE  CallInv'
<1>1. /\ UNCHANGED <<convention, call, next, registers, callFrame, elements, block, assigned, moved>>
      /\ part = "entry" /\ part' = "body"
      /\ home' = [i \in Params |->
                    IF InRegister(i) THEN registers[Target(i)]
                    ELSE IF call.foreign THEN callFrame[Number(i)]
                    ELSE callFrame[block + Number(i)]]
  BY DEF Spill, Target
<1>2. Legal /\ Shaped
  BY DEF CallInv, Shaped
<1>3. SlotsApart
  BY <1>2, SlotsAreApart
<1>4. Shaped'
  BY <1>1, <1>2, SameLayout, SameMeanings DEF Shaped, Parts
<1>5. CallersOwn' /\ Evaluation'
  BY <1>1, SameLayout, SameMeanings DEF CallInv, CallersOwn, Evaluation, Before, Supplied
<1>6. ASSUME Promised, NEW i \in Params
      PROVE  home'[i] = What(i)
  <2>1. CASE InRegister(i)
    BY <1>1, <2>1 DEF CallInv, Loaded
  <2>2. CASE ~InRegister(i)
    <3>1. ~call.foreign
      BY <1>6, <2>2 DEF Promised
    <3>2. Spills > 0
      BY <1>3, <2>2 DEF SlotsApart
    <3>3. block = BlockBase
      BY <1>1, <3>2 DEF CallInv, Pointed
    <3>4. callFrame[BlockBase + Number(i)] = What(i)
      BY <1>1, <2>2 DEF CallInv, Overflowed
    <3> QED BY <1>1, <2>2, <3>1, <3>3, <3>4
  <2> QED BY <2>1, <2>2
<1>7. Pointed'
  BY <1>1, <1>6, SameLayout, SameMeanings DEF Pointed
<1>8. Overflowed' /\ Loaded' /\ Returned' /\ BroughtBack'
  BY <1>1 DEF Overflowed, Loaded, Returned, BroughtBack
<1> QED BY <1>4, <1>5, <1>7, <1>8 DEF CallInv

\* No slot is pointed at by two parameters, so each assignment and each output
\* lands where the caller reads it, and nowhere else.
LEMMA BodyKeeps ==
  ASSUME CallInv, Body
  PROVE  CallInv'
<1>1. /\ UNCHANGED <<convention, call, elements, block, home>>
      /\ part = "body" /\ part' = "return" /\ next' = 1
      /\ assigned' \in SUBSET {i \in Inputs : IsRef(i)}
      /\ callFrame' = [s \in Slots |->
                     IF \E i \in assigned' : PointsAt(i, s)
                     THEN Assigned(CHOOSE i \in assigned' : PointsAt(i, s))
                     ELSE IF \E j \in 1..Outputs : PointsAt(n + j, s)
                     THEN Output(CHOOSE j \in 1..Outputs : PointsAt(n + j, s))
                     ELSE callFrame[s]]
      /\ registers' = [r \in Registers |-> Junk]
  BY DEF Body, Clobbered, Outputs
<1>2. Legal /\ Shaped
  BY DEF CallInv, Shaped
<1>3. /\ FrameLaidOut /\ SlotsApart /\ n \in Nat /\ Outputs \in Nat /\ Temporary \in Nat /\ Spills \in Nat
      /\ Temporary >= n + Outputs
      /\ Params = 1..n + Outputs /\ Inputs = 1..n
  BY <1>2, FrameIsLaidOut, SlotsAreApart, ParamsAre DEF SlotsApart, Params, Outputs, Inputs
<1>4. Shaped'
  BY <1>1, <1>2, <1>3, SameLayout, SameMeanings DEF Shaped, Parts
<1>5. ASSUME Promised
      PROVE  /\ \A i \in Inputs : IsRef(i) => \A s : PointsAt(i, s) <=> s = ScratchSlot(i)
             /\ \A j \in 1..Outputs : \A s : PointsAt(n + j, s) <=> s = OutputSlot(j)
  <2>1. \A i \in Params : home[i] = What(i)
    BY <1>1, <1>5 DEF CallInv, Pointed
  <2>2. ASSUME NEW i \in Inputs, IsRef(i), NEW s
        PROVE  PointsAt(i, s) <=> s = ScratchSlot(i)
    <3>1. home[i] = Address(ScratchSlot(i))
      BY <1>3, <2>1, <2>2 DEF What
    <3> QED BY <3>1 DEF PointsAt, Address
  <2>3. ASSUME NEW j \in 1..Outputs, NEW s
        PROVE  PointsAt(n + j, s) <=> s = OutputSlot(j)
    <3> DEFINE i == n + j
    <3>1. i \in Params /\ i > n /\ i - n = j
      BY <1>3
    <3> HIDE DEF i
    <3>2. What(i) = Address(OutputSlot(j))
      BY <3>1 DEF What
    <3>3. PointsAt(i, s) <=> s = OutputSlot(j)
      BY <2>1, <3>1, <3>2 DEF PointsAt, Address
    <3> QED BY <3>3 DEF i
  <2> QED BY <2>2, <2>3
<1>6. ASSUME Promised, NEW s \in Slots, ~(s \in n..Temporary - 1)
      PROVE  callFrame'[s] = callFrame[s]
  <2>1. ~\E i \in assigned' : PointsAt(i, s)
    <3>1. ASSUME NEW i \in assigned', PointsAt(i, s) PROVE FALSE
      <4>1. s = ScratchSlot(i) /\ i \in Inputs /\ IsRef(i)
        BY <1>1, <1>5, <1>6, <3>1
      <4> QED BY <1>3, <1>6, <4>1 DEF FrameLaidOut
    <3> QED BY <3>1
  <2>2. ~\E j \in 1..Outputs : PointsAt(n + j, s)
    <3>1. ASSUME NEW j \in 1..Outputs, PointsAt(n + j, s) PROVE FALSE
      <4>1. s = OutputSlot(j) /\ OutputSlot(j) \in n..n + Outputs - 1
        BY <1>3, <1>5, <1>6, <3>1 DEF FrameLaidOut
      <4> QED BY <1>3, <1>6, <4>1
    <3> QED BY <3>1
  <2> QED BY <1>1, <2>1, <2>2
<1>7. ASSUME Promised, NEW i \in Inputs, IsRef(i)
      PROVE  callFrame'[ScratchSlot(i)] = Left(i)'
  <2>1. ScratchSlot(i) \in Slots
    BY <1>3, <1>7 DEF FrameLaidOut
  <2>2. \A x \in assigned' : PointsAt(x, ScratchSlot(i)) <=> x = i
    <3>1. ASSUME NEW x \in assigned' PROVE PointsAt(x, ScratchSlot(i)) <=> x = i
      <4>1. x \in Inputs /\ IsRef(x)
        BY <1>1
      <4> QED BY <1>3, <1>5, <1>7, <4>1 DEF SlotsApart
    <3> QED BY <3>1
  <2>3. CASE i \in assigned'
    <3>1. (CHOOSE x \in assigned' : PointsAt(x, ScratchSlot(i))) = i
      BY <2>2, <2>3
    <3> QED BY <1>1, <2>1, <2>2, <2>3, <3>1 DEF Left, Assigned
  <2>4. CASE i \notin assigned'
    <3>1. ~\E j \in 1..Outputs : PointsAt(n + j, ScratchSlot(i))
      <4>1. ASSUME NEW j \in 1..Outputs, PointsAt(n + j, ScratchSlot(i)) PROVE FALSE
        <5>1. ScratchSlot(i) = OutputSlot(j) /\ OutputSlot(j) \in n..n + Outputs - 1
          BY <1>3, <1>5, <1>7, <4>1 DEF FrameLaidOut
        <5> QED BY <1>3, <1>7, <5>1 DEF FrameLaidOut
      <4> QED BY <4>1
    <3>2. callFrame'[ScratchSlot(i)] = callFrame[ScratchSlot(i)]
      BY <1>1, <2>1, <2>2, <2>4, <3>1
    <3>3. callFrame[ScratchSlot(i)] = Supplied(i)
      BY <1>1, <1>7 DEF CallInv, Evaluation, Before, Waits
    <3> QED BY <2>4, <3>2, <3>3 DEF Left, Supplied
  <2> QED BY <2>3, <2>4
<1>8. ASSUME Promised, NEW j \in 1..Outputs
      PROVE  callFrame'[OutputSlot(j)] = Output(j)
  <2>1. OutputSlot(j) \in Slots
    BY <1>3 DEF FrameLaidOut
  <2>2. ~\E i \in assigned' : PointsAt(i, OutputSlot(j))
    BY <1>1, <1>3, <1>5, <1>8 DEF FrameLaidOut
  <2>3. \A x \in 1..Outputs : PointsAt(n + x, OutputSlot(j)) <=> x = j
    BY <1>3, <1>5, <1>8 DEF FrameLaidOut
  <2>4. (CHOOSE x \in 1..Outputs : PointsAt(n + x, OutputSlot(j))) = j
    BY <2>3
  <2> QED BY <1>1, <2>1, <2>2, <2>3, <2>4
<1>9. Returned'
  <2>1. ASSUME Promised PROVE callFrame'[Temporary] = <<"temporary", 0>>
    <3>1. Temporary \in Slots /\ ~(Temporary \in n..Temporary - 1)
      BY <1>3 DEF FrameLaidOut
    <3>2. callFrame[Temporary] = <<"temporary", 0>>
      BY <1>1 DEF CallInv, CallersOwn, Before
    <3> QED BY <1>6, <2>1, <3>1, <3>2
  <2> QED BY <1>1, <1>7, <1>8, <2>1, SameLayout, SameMeanings DEF Returned, Output
<1>10. BroughtBack'
  <2>1. ASSUME Promised, NEW i \in Inputs PROVE callFrame'[VariableSlot(i)] = Supplied(i)
    <3>1. VariableSlot(i) \in Slots /\ ~(VariableSlot(i) \in n..Temporary - 1)
      BY <1>3 DEF FrameLaidOut
    <3>2. callFrame[VariableSlot(i)] = Supplied(i)
      BY <1>1 DEF CallInv, CallersOwn, Before
    <3> QED BY <1>6, <2>1, <3>1, <3>2
  <2>2. \A i \in Inputs : ~(i < 1)
    BY <1>3
  <2> QED BY <1>1, <2>1, <2>2, SameLayout, SameMeanings DEF BroughtBack, Supplied
<1>11. CallersOwn' /\ Evaluation' /\ Overflowed' /\ Loaded' /\ Pointed'
  BY <1>1 DEF CallersOwn, Evaluation, Overflowed, Loaded, Pointed, Before
<1> QED BY <1>4, <1>9, <1>10, <1>11 DEF CallInv

\* A variable is written once, from its own scratch slot; the setter of an element
\* uses no slot below the block.
LEMMA CopyBackKeeps ==
  ASSUME CallInv, CopyBack
  PROVE  CallInv'
<1> DEFINE element == IsRef(next) /\ call.inputs[next].element
           variable == IsRef(next) /\ ~call.inputs[next].element
           loaded == [r \in Registers |->
                        IF r = <<ValueFile(next), 2>> THEN callFrame[ScratchSlot(next)] ELSE Junk]
<1>1. /\ UNCHANGED <<convention, call, part, block, home, assigned, moved>>
      /\ part = "return" /\ next \in Inputs /\ next' = next + 1
      /\ registers' = [r \in Registers |-> Junk]
      /\ element => /\ callFrame' = [s \in Slots |-> IF s = Temporary THEN callFrame[Temporary]
                                                 ELSE IF s >= BlockBase THEN Junk ELSE callFrame[s]]
                    /\ elements' = [elements EXCEPT ![IF moved THEN n + next ELSE next] =
                                                        loaded[SetterReads(ValueFile(next))]]
      /\ variable => /\ callFrame' = [callFrame EXCEPT ![VariableSlot(next)] = callFrame[ScratchSlot(next)]]
                     /\ UNCHANGED elements
      /\ ~element /\ ~variable => UNCHANGED <<callFrame, elements>>
  BY DEF CopyBack, CopyBackElement, CopyBackVariable, Evaluated, Clobbered
<1>2. Legal /\ Shaped
  BY DEF CallInv, Shaped
<1>3. /\ FrameLaidOut /\ n \in Nat /\ Outputs \in Nat /\ Temporary \in Nat /\ Spills \in Nat
      /\ Temporary >= n + Outputs /\ Inputs = 1..n
  BY <1>2, FrameIsLaidOut, SlotsAreApart, ParamsAre DEF SlotsApart, Inputs
<1>4. element /\ Found(next) => loaded[SetterReads(ValueFile(next))] = callFrame[ScratchSlot(next)]
  <2>1. <<ValueFile(next), 2>> \in Registers
    BY DEF ValueFile, Registers, Files
  <2>2. Found(next) => SetterReads(ValueFile(next)) = <<ValueFile(next), 2>>
    BY DEF Found, SetterReads, ValueFile
  <2> QED BY <2>1, <2>2
<1> HIDE DEF loaded
<1>5. DOMAIN callFrame' = Slots /\ DOMAIN elements' = 1..(2 * n)
  BY <1>1, <1>2 DEF Shaped
<1>6. Shaped'
  BY <1>1, <1>2, <1>3, <1>5, SameLayout, SameMeanings DEF Shaped
<1>7. ASSUME NEW s \in Slots, s <= Temporary, variable => s # VariableSlot(next)
      PROVE  callFrame'[s] = callFrame[s]
  <2>1. ~(s >= BlockBase)
    BY <1>3, <1>7 DEF FrameLaidOut
  <2> QED BY <1>1, <1>2, <1>7, <2>1 DEF Shaped
<1>8. \A i : Left(i)' = Left(i)
  BY <1>1 DEF Left, Assigned, Supplied
<1>9. VariableSlot(next) \in 0..n - 1 /\ VariableSlot(next) \in Slots
  BY <1>1, <1>3 DEF FrameLaidOut
<1>10. Returned'
  <2>1. ASSUME NEW i \in Inputs, IsRef(i) PROVE callFrame'[ScratchSlot(i)] = callFrame[ScratchSlot(i)]
    <3>1. ScratchSlot(i) \in Slots /\ ScratchSlot(i) <= Temporary /\ ScratchSlot(i) # VariableSlot(next)
      BY <1>3, <1>9, <2>1 DEF FrameLaidOut
    <3> QED BY <1>7, <3>1
  <2>2. ASSUME NEW j \in 1..Outputs PROVE callFrame'[OutputSlot(j)] = callFrame[OutputSlot(j)]
    <3>1. OutputSlot(j) \in n..n + Outputs - 1
      BY <1>3 DEF FrameLaidOut
    <3>2. OutputSlot(j) \in Slots /\ OutputSlot(j) <= Temporary /\ OutputSlot(j) # VariableSlot(next)
      BY <1>3, <1>9, <3>1 DEF FrameLaidOut
    <3> QED BY <1>7, <3>2
  <2>3. callFrame'[Temporary] = callFrame[Temporary]
    <3>1. Temporary \in Slots /\ Temporary <= Temporary /\ Temporary # VariableSlot(next)
      BY <1>3, <1>9 DEF FrameLaidOut
    <3> QED BY <1>7, <3>1
  <2> QED BY <1>1, <1>8, <2>1, <2>2, <2>3, SameLayout, SameMeanings DEF CallInv, Returned, Output
<1>11. ASSUME Promised, NEW i \in Inputs, i # next
       PROVE  callFrame'[VariableSlot(i)] = callFrame[VariableSlot(i)] /\ (moved \/ elements'[i] = elements[i])
  <2>1. VariableSlot(i) \in Slots /\ VariableSlot(i) <= Temporary /\ VariableSlot(i) # VariableSlot(next)
    <3>1. VariableSlot(i) \in 0..n - 1
      BY <1>3 DEF FrameLaidOut
    <3>2. VariableSlot(i) # VariableSlot(next)
      BY <1>1, <1>3, <1>11 DEF FrameLaidOut
    <3> QED BY <1>3, <3>1, <3>2 DEF FrameLaidOut
  <2>2. callFrame'[VariableSlot(i)] = callFrame[VariableSlot(i)]
    BY <1>7, <2>1
  <2>3. i \in 1..(2 * n)
    BY <1>3
  <2>4. ~moved => elements'[i] = elements[i]
    BY <1>1, <1>2, <1>11, <2>3 DEF Shaped
  <2> QED BY <2>2, <2>4
<1>12. ASSUME Promised
       PROVE  /\ variable => callFrame'[VariableSlot(next)] = Left(next)
              /\ ~variable => callFrame'[VariableSlot(next)] = Supplied(next)
              /\ element /\ Found(next) => moved \/ elements'[next] = Left(next)
  <2>1. IsRef(next) => callFrame[ScratchSlot(next)] = Left(next)
    BY <1>1, <1>12 DEF CallInv, Returned
  <2>2. callFrame[VariableSlot(next)] = Supplied(next)
    <3>1. ~(next < next)
      BY <1>1, <1>3
    <3> QED BY <1>1, <1>12, <3>1 DEF CallInv, BroughtBack
  <2>3. variable => callFrame'[VariableSlot(next)] = Left(next)
    BY <1>1, <1>2, <1>9, <2>1 DEF Shaped
  <2>4. ~variable => callFrame'[VariableSlot(next)] = Supplied(next)
    BY <1>3, <1>7, <1>9, <2>2
  <2>5. next \in 1..(2 * n)
    BY <1>1, <1>3
  <2>6. element /\ Found(next) /\ ~moved => elements'[next] = Left(next)
    BY <1>1, <1>2, <1>4, <2>1, <2>5 DEF Shaped
  <2> QED BY <2>3, <2>4, <2>6
<1>13. BroughtBack'
  <2>1. ASSUME Promised, NEW i \in Inputs
        PROVE  LET came == IsRef(i) /\ i < next + 1
               IN  /\ came /\ ~call.inputs[i].element => callFrame'[VariableSlot(i)] = Left(i)
                   /\ ~came \/ call.inputs[i].element => callFrame'[VariableSlot(i)] = Supplied(i)
                   /\ came /\ call.inputs[i].element /\ Found(i) => moved \/ elements'[i] = Left(i)
    <3>1. CASE i = next
      <4>1. i < next + 1
        BY <1>3, <3>1
      <4> QED BY <1>12, <2>1, <3>1, <4>1
    <3>2. CASE i # next
      <4>1. i < next + 1 <=> i < next
        BY <1>1, <1>3, <3>2
      <4>2. LET came == IsRef(i) /\ i < next
            IN  /\ came /\ ~call.inputs[i].element => callFrame[VariableSlot(i)] = Left(i)
                /\ ~came \/ call.inputs[i].element => callFrame[VariableSlot(i)] = Supplied(i)
                /\ came /\ call.inputs[i].element /\ Found(i) => moved \/ elements[i] = Left(i)
        BY <1>1, <2>1 DEF CallInv, BroughtBack
      <4> QED BY <1>11, <2>1, <3>2, <4>1, <4>2
    <3> QED BY <3>1, <3>2
  <2> QED BY <1>1, <1>8, <2>1, SameLayout, SameMeanings DEF BroughtBack, Supplied
<1>14. CallersOwn' /\ Evaluation' /\ Overflowed' /\ Loaded' /\ Pointed'
  BY <1>1 DEF CallersOwn, Evaluation, Overflowed, Loaded, Pointed, Before
<1> QED BY <1>6, <1>10, <1>13, <1>14 DEF CallInv

\* The end of the copy-back changes no place.
LEMMA CopiedBackKeeps ==
  ASSUME CallInv, CopiedBack
  PROVE  CallInv'
<1>1. /\ UNCHANGED <<convention, call, next, registers, callFrame, elements, block, home, assigned, moved>>
      /\ part = "return" /\ next = n + 1 /\ part' = "done"
  BY DEF CopiedBack
<1>2. Shaped /\ n \in Nat /\ Inputs = 1..n
  BY ParamsAre DEF CallInv, Shaped, Inputs
<1>3. Shaped'
  BY <1>1, <1>2, SameLayout, SameMeanings DEF Shaped, Parts
<1>4. \A i : Left(i)' = Left(i)
  BY <1>1 DEF Left, Assigned, Supplied
<1>5. Returned'
  BY <1>1, <1>4, SameLayout, SameMeanings DEF CallInv, Returned, Output
<1>6. BroughtBack'
  <2>1. \A i \in Inputs : i < next
    BY <1>1, <1>2
  <2> QED BY <1>1, <1>4, <2>1, SameLayout, SameMeanings DEF CallInv, BroughtBack, Supplied
<1>7. CallersOwn' /\ Evaluation' /\ Overflowed' /\ Loaded' /\ Pointed'
  BY <1>1 DEF CallersOwn, Evaluation, Overflowed, Loaded, Pointed, Before
<1> QED BY <1>3, <1>5, <1>6, <1>7 DEF CallInv

-------------------------------------------------------------------------------
\* Every step of every call, on every target, keeps what the promises rest on.
THEOREM CallsKeepTheirInvariant ==
  CallSpec => []CallInv
<1>1. CallInit => CallInv
  BY CallStarts
<1>2. CallInv /\ [CallNext]_callVars => CallInv'
  <2> SUFFICES ASSUME CallInv, [CallNext]_callVars PROVE CallInv'
    OBVIOUS
  <2>1. CASE EvaluateArgument
    BY <2>1, EvaluateArgumentKeeps
  <2>2. CASE ArgumentsDone
    BY <2>2, ArgumentsDoneKeeps
  <2>3. CASE StoreOverflow
    BY <2>3, StoreOverflowKeeps
  <2>4. CASE OverflowDone
    BY <2>4, OverflowDoneKeeps
  <2>5. CASE LoadRegister
    BY <2>5, LoadRegisterKeeps
  <2>6. CASE Jump
    BY <2>6, JumpKeeps
  <2>7. CASE Spill
    BY <2>7, SpillKeeps
  <2>8. CASE Body
    BY <2>8, BodyKeeps
  <2>9. CASE CopyBack
    BY <2>9, CopyBackKeeps
  <2>10. CASE CopiedBack
    BY <2>10, CopiedBackKeeps
  <2>11. CASE UNCHANGED callVars
    <3>1. UNCHANGED <<convention, call, part, next, registers, callFrame, elements, block, home, assigned, moved>>
      BY <2>11 DEF callVars
    <3>2. \A i : Left(i)' = Left(i)
      BY <3>1 DEF Left, Assigned, Supplied
    <3> QED BY <3>1, <3>2, SameLayout, SameMeanings
         DEF CallInv, Shaped, CallersOwn, Evaluation, Overflowed, Loaded, Pointed, Returned,
             BroughtBack, Before, Supplied, Output
  <2> QED BY <2>1, <2>2, <2>3, <2>4, <2>5, <2>6, <2>7, <2>8, <2>9, <2>10, <2>11 DEF CallNext
<1> QED BY <1>1, <1>2, PTL DEF CallSpec

\* Whatever the target, the kinds and the number of the arguments, when the
\* callee's body begins each parameter holds its own argument, or the address of a
\* slot that does.
THEOREM CallsPassTheirArguments ==
  CallSpec => []ArgumentsArrive
<1>1. CallInv => ArgumentsArrive
  <2> SUFFICES ASSUME CallInv, part = "body", Promised, NEW i \in Params
               PROVE  IF i > n THEN home[i] = Address(OutputSlot(i - n))
                      ELSE IF IsRef(i) THEN home[i] = Address(ScratchSlot(i))
                                            /\ callFrame[ScratchSlot(i)] = Supplied(i)
                      ELSE home[i] = Supplied(i)
    BY DEF ArgumentsArrive
  <2>1. home[i] = What(i)
    BY DEF CallInv, Pointed
  <2>2. IsRef(i) => callFrame[ScratchSlot(i)] = Supplied(i)
    BY DEF CallInv, Evaluation, Before, Waits, IsRef
  <2> QED BY <2>1, <2>2 DEF What
<1> QED BY <1>1, CallsKeepTheirInvariant, PTL

\* Nothing else of the caller is lost: its other variables, the temporary of the
\* expression around the call, and every output where the caller reads it.
THEOREM CallsLeaveTheCallerIntact ==
  CallSpec => []CallerIsIntact
<1>1. CallInv => CallerIsIntact
  BY DEF CallInv, CallerIsIntact, Returned, BroughtBack, Outputs
<1> QED BY <1>1, CallsKeepTheirInvariant, PTL

\* A real element comes back only where places count positions (the setter of
\* other targets looks for its value in another register).
RealElementsByPosition ==
  \A c \in Cases : \A i \in DOMAIN c.call.inputs :
    c.call.inputs[i].element /\ c.call.inputs[i].kind = "Real" => c.machine.positional

\* After the call the variable or the element passed by reference holds what the
\* callee left in the parameter, real elements on targets that count each file
\* apart excepted.
THEOREM CallsBringReferencesBack ==
  ASSUME RealElementsByPosition
  PROVE  CallSpec => []ReferencesComeBack
<1>1. CallInv => ReferencesComeBack
  <2> SUFFICES ASSUME CallInv, part = "done", Promised, NEW i \in Inputs, IsRef(i)
               PROVE  IF call.inputs[i].element THEN moved \/ elements[i] = Left(i)
                                                ELSE callFrame[VariableSlot(i)] = Left(i)
    BY DEF ReferencesComeBack
  <2>1. call.inputs[i].element => Found(i)
    <3>1. i \in DOMAIN call.inputs
      BY DEF CallInv, Shaped, Legal, CallOK, Inputs, n
    <3> QED BY <3>1 DEF CallInv, Shaped, Chosen, RealElementsByPosition, Found
  <2> QED BY <2>1 DEF CallInv, BroughtBack
<1> QED BY <1>1, CallsKeepTheirInvariant, PTL
===============================================================================
