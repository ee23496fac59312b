----------------------------- MODULE SessionProofs ------------------------------
(***************************************************************************)
(* Proofs about a running program and its debugging session, for every set *)
(* of functions, every pair of ceilings, every table of breakpoints and    *)
(* every conversation.                                                     *)
(***************************************************************************)
EXTENDS Session, SequenceTheorems, FiniteSetTheorems, TLAPS

-------------------------------------------------------------------------------
(***************************************************************************)
(* The stack and the counters.                                             *)
(***************************************************************************)
Frame == [body: Bodies, line: Nat]

Types ==
  /\ phase \in {"loading", "globals", "main", "over"}
  /\ frames \in Seq(Frame)
  /\ total \in Nat
  /\ perFunction \in [0..(Counted - 1) -> Nat]

\* Only the outermost body can be the initializer, and it is while globals are made.
Shape ==
  /\ phase = "loading" => frames = <<>>
  /\ running => frames # <<>>
  /\ \A i \in 2..Len(frames) : frames[i].body \in Functions
  /\ phase = "globals" => frames[1].body = Initializer
  /\ phase = "main" => frames[1].body = Main

WithinLimits ==
  /\ total <= Overall
  /\ \A f \in Functions : HasCounter(f) => perFunction[Id[f]] <= Limit[f]

StackInv == Types /\ Shape /\ CountersMatchTheStack /\ WithinLimits

\* What a step can do to the stack.
Leaves == UNCHANGED <<frames, total, perFunction>> /\ phase' \in {phase, "over"}

Announces ==
  /\ running /\ UNCHANGED <<phase, total, perFunction>>
  /\ \E l \in Nat : frames' = Append(Below, [Top EXCEPT !.line = l])

\* Lines are numbers.
LEMMA LinesAreNumbers == \A b \in Bodies : Lines[b] \subseteq Nat
  BY ExecutionAssumption

\* What a step can do to the stack of calls.
LEMMA StackSteps ==
  ASSUME SessionNext
  PROVE  \/ Leaves \/ Begin \/ Announces
         \/ \E f \in Functions : Call(f)
         \/ Return \/ GlobalsDone \/ End
  <1>1. CASE Arm \/ Converse \/ Close \/ \E c \in Commands : Send(c)
    BY <1>1 DEF Arm, Converse, GoOn, GoOnFrom, Where, SetBreak, ClearBreak, Quit, HearEnd,
                Close, Send, Leaves, execVars, Over
  <1>2. CASE Run
    <2>1. ASSUME NEW l \in UNION {Lines[b] : b \in Bodies}, LoopAgain(l)
          PROVE  Announces
      BY <2>1, LinesAreNumbers DEF LoopAgain, Announces
    <2>2. CASE Output \/ Flush
      BY <2>2 DEF Output, Flush, Leaves
    <2>3. QED
      BY <1>2, <2>1, <2>2 DEF Run
  <1>3. CASE Finish
    BY <1>3 DEF Finish, Fail, Leaves, Over
  <1>4. ASSUME NEW l \in UNION {Lines[b] : b \in Bodies}, Step(l)
        PROVE  Announces
    BY <1>4, LinesAreNumbers DEF Step, StatementBegins, Announces
  <1>5. QED
    BY <1>1, <1>2, <1>3, <1>4 DEF SessionNext, Program

-------------------------------------------------------------------------------
\* Taking the last element off.
LEMMA FrontIs ==
  ASSUME NEW S, NEW s \in Seq(S), s # <<>>
  PROVE  /\ Len(s) \in Nat \ {0}
         /\ SubSeq(s, 1, Len(s) - 1) \in Seq(S)
         /\ Len(SubSeq(s, 1, Len(s) - 1)) = Len(s) - 1
         /\ \A i \in 1..(Len(s) - 1) : SubSeq(s, 1, Len(s) - 1)[i] = s[i]
  <1>1. Len(s) \in Nat /\ Len(s) > 0 /\ DOMAIN s = 1..Len(s)
    BY EmptySeq, LenProperties
  <1>2. \A i \in 1..(Len(s) - 1) : s[i] \in S
    BY <1>1, ElementOfSeq
  <1>3. /\ SubSeq(s, 1, Len(s) - 1) \in Seq(S)
        /\ Len(SubSeq(s, 1, Len(s) - 1)) = Len(s) - 1
        /\ \A i \in 1..(Len(s) - 1) : SubSeq(s, 1, Len(s) - 1)[i] = s[i]
    BY <1>1, <1>2, SubSeqProperties
  <1>4. QED
    BY <1>1, <1>3

\* A stack that is not empty has a top, and the calls below it.
LEMMA BelowIs ==
  ASSUME Types, frames # <<>>
  PROVE  /\ Len(frames) \in Nat \ {0}
         /\ Top \in Frame
         /\ Below \in Seq(Frame)
         /\ Len(Below) = Len(frames) - 1
         /\ \A i \in 1..(Len(frames) - 1) : Below[i] = frames[i]
  <1>1. Len(frames) \in Nat \ {0}
    BY EmptySeq DEF Types
  <1>2. Top \in Frame
    BY <1>1, ElementOfSeq DEF Top, Types
  <1>3. QED
    BY <1>1, <1>2, FrontIs DEF Below, Types

\* A body's line moves; the bodies stay.
LEMMA AnnouncedIs ==
  ASSUME Types, frames # <<>>, NEW l \in Nat,
         frames' = Append(Below, [Top EXCEPT !.line = l])
  PROVE  /\ frames' \in Seq(Frame)
         /\ Len(frames') = Len(frames)
         /\ \A i \in 1..Len(frames) : frames'[i].body = frames[i].body
         /\ frames'[Len(frames)] = [Top EXCEPT !.line = l]
  <1> DEFINE new == [Top EXCEPT !.line = l]
  <1>1. new \in Frame /\ new.body = Top.body
    BY BelowIs DEF Frame
  <1>2. /\ frames' \in Seq(Frame) /\ Len(frames') = Len(frames)
        /\ \A i \in 1..(Len(frames) - 1) : frames'[i] = Below[i]
        /\ frames'[Len(frames)] = new
    BY <1>1, BelowIs, AppendProperties
  <1>3. QED
    BY <1>1, <1>2, BelowIs DEF Top

\* Open calls can be counted.
LEMMA OpenIsFinite ==
  ASSUME Types
  PROVE  /\ IsFiniteSet(OpenCalls) /\ Cardinality(OpenCalls) \in Nat
         /\ \A f : IsFiniteSet(OpenCallsOf(f)) /\ Cardinality(OpenCallsOf(f)) \in Nat
  <1>1. DOMAIN frames = 1..Len(frames) /\ Len(frames) \in Nat
    BY LenProperties DEF Types
  <1>2. IsFiniteSet(1..Len(frames))
    BY <1>1, FS_Interval
  <1>3. OpenCalls \subseteq 1..Len(frames) /\ \A f : OpenCallsOf(f) \subseteq 1..Len(frames)
    BY <1>1 DEF OpenCalls, OpenCallsOf
  <1>4. QED
    BY <1>2, <1>3, FS_Subset, FS_CardinalityType

\* Bodies alone decide which calls are open.
LEMMA SameBodiesSameCalls ==
  ASSUME Types, Types', Len(frames') = Len(frames),
         \A i \in 1..Len(frames) : frames'[i].body = frames[i].body
  PROVE  OpenCalls' = OpenCalls /\ \A f : OpenCallsOf(f)' = OpenCallsOf(f)
  BY LenProperties DEF Types, OpenCalls, OpenCallsOf

\* Above the first frame there are calls only.
LEMMA FunctionsAreCalls ==
  ASSUME Shape, Types
  PROVE  \A i \in 2..Len(frames) : frames[i].body # Initializer
  BY ExecutionAssumption DEF Shape

\* Counted functions have counters of their own.
LEMMA IdsAreApart ==
  /\ \A f \in Functions : Id[f] \in Nat /\ Limit[f] \in Nat \ {0}
  /\ \A f \in Functions : HasCounter(f) => Id[f] \in 0..(Counted - 1)
  /\ \A f, g \in Functions : Id[f] = Id[g] => f = g
  BY ExecutionAssumption DEF HasCounter

-------------------------------------------------------------------------------
(***************************************************************************)
(* Each kind of step keeps the stack and its counters together.            *)
(***************************************************************************)
LEMMA LeavesKeeps == StackInv /\ Leaves => StackInv'
  BY DEF StackInv, Leaves, Types, Shape, running, CountersMatchTheStack, OpenCalls,
         OpenCallsOf, WithinLimits, HasCounter

\* Announcing a place leaves the calls as they are.
LEMMA AnnouncesKeeps ==
  ASSUME StackInv, Announces
  PROVE  StackInv'
  <1>1. Types /\ Shape /\ frames # <<>>
    BY DEF StackInv, Announces, Shape
  <1>2. PICK l \in Nat : frames' = Append(Below, [Top EXCEPT !.line = l])
    BY DEF Announces
  <1>3. /\ frames' \in Seq(Frame) /\ Len(frames') = Len(frames) /\ Len(frames) \in Nat \ {0}
        /\ \A i \in 1..Len(frames) : frames'[i].body = frames[i].body
    BY <1>1, <1>2, AnnouncedIs, BelowIs
  <1>4. Types'
    BY <1>1, <1>3 DEF Types, Announces
  <1>5. OpenCalls' = OpenCalls /\ \A f : OpenCallsOf(f)' = OpenCallsOf(f)
    BY <1>1, <1>3, <1>4, SameBodiesSameCalls
  <1>6. frames' # <<>>
    BY <1>3, EmptySeq
  <1>7. Shape'
    BY <1>1, <1>3, <1>6 DEF Shape, Announces, running
  <1>8. CountersMatchTheStack' /\ WithinLimits'
    BY <1>5 DEF StackInv, CountersMatchTheStack, WithinLimits, HasCounter, Announces
  <1>9. QED
    BY <1>4, <1>7, <1>8 DEF StackInv

\* Where initializers begin no call is open.
LEMMA BeginKeeps ==
  ASSUME StackInv, Begin
  PROVE  StackInv'
  <1> DEFINE first == [body |-> Initializer, line |-> 0]
  <1>1. frames' = <<first>> /\ frames = <<>> /\ first \in Frame
    BY DEF Begin, StackInv, Shape, Frame, Bodies
  <1>2. frames' \in Seq(Frame) /\ Len(frames') = 1 /\ frames'[1] = first /\ DOMAIN frames' = 1..1
    BY <1>1
  <1>3. Types' /\ Shape'
    BY <1>1, <1>2 DEF StackInv, Types, Shape, Begin, running
  <1>4. OpenCalls' = {} /\ OpenCalls = {} /\ \A f \in Functions : OpenCallsOf(f)' = {} /\ OpenCallsOf(f) = {}
    BY <1>1, <1>2, ExecutionAssumption DEF OpenCalls, OpenCallsOf
  <1>5. CountersMatchTheStack' /\ WithinLimits'
    BY <1>4 DEF StackInv, CountersMatchTheStack, WithinLimits, HasCounter, Begin
  <1>6. QED
    BY <1>3, <1>5 DEF StackInv

\* A call that is let through is counted, below both ceilings.
LEMMA CallKeeps ==
  ASSUME StackInv, NEW f \in Functions, Call(f)
  PROVE  StackInv'
  <1> DEFINE top == [body |-> f, line |-> 0]
  <1> DEFINE n == Len(frames) + 1
  <1>1. Types /\ Shape /\ frames # <<>> /\ Len(frames) \in Nat \ {0} /\ DOMAIN frames = 1..Len(frames)
    BY BelowIs, LenProperties DEF StackInv, Call, Shape, Types
  <1>2. /\ frames' \in Seq(Frame) /\ Len(frames') = n /\ frames'[n] = top
        /\ \A i \in 1..Len(frames) : frames'[i] = frames[i]
    <2>1. top \in Frame /\ frames' = Append(frames, top)
      BY DEF Call, Frame, Bodies
    <2>2. QED
      BY <1>1, <2>1, AppendProperties DEF Types
  <1>3. DOMAIN frames' = 1..n /\ frames' # <<>>
    BY <1>2, LenProperties, EmptySeq, <1>1
  <1>4. OpenCalls' = OpenCalls \cup {n} /\ n \notin OpenCalls
    <2>1. f # Initializer
      BY ExecutionAssumption
    <2>2. QED
      BY <1>1, <1>2, <1>3, <2>1 DEF OpenCalls
  <1>5. OpenCallsOf(f)' = OpenCallsOf(f) \cup {n} /\ n \notin OpenCallsOf(f)
    BY <1>1, <1>2, <1>3 DEF OpenCallsOf
  <1>6. \A g \in Functions \ {f} : OpenCallsOf(g)' = OpenCallsOf(g)
    BY <1>1, <1>2, <1>3 DEF OpenCallsOf
  <1>7. /\ Cardinality(OpenCalls') = Cardinality(OpenCalls) + 1
        /\ Cardinality(OpenCallsOf(f)') = Cardinality(OpenCallsOf(f)) + 1
    BY <1>1, <1>4, <1>5, OpenIsFinite, FS_AddElement
  <1>8. /\ total' = total + 1
        /\ perFunction' = IF HasCounter(f) THEN [perFunction EXCEPT ![Id[f]] = @ + 1]
                                           ELSE perFunction
    BY DEF Call, Counting
  <1>9. \A g \in Functions : HasCounter(g) =>
          perFunction'[Id[g]] = IF g = f THEN perFunction[Id[g]] + 1 ELSE perFunction[Id[g]]
    BY <1>1, <1>8, IdsAreApart DEF Types
  <1>10. Types'
    BY <1>1, <1>2, <1>8, IdsAreApart DEF Types, Call
  <1>11. Shape'
    BY <1>1, <1>2, <1>3 DEF Shape, Call, running
  <1>12. CountersMatchTheStack'
    BY <1>6, <1>7, <1>8, <1>9 DEF StackInv, CountersMatchTheStack, HasCounter
  <1>13. WithinLimits'
    <2>1. total < Overall /\ (HasCounter(f) => perFunction[Id[f]] < Limit[f])
      BY <1>1, IdsAreApart, ExecutionAssumption DEF Call, Refused, Types
    <2>2. \A g \in Functions : HasCounter(g) => perFunction[Id[g]] \in Nat
      BY <1>1, IdsAreApart DEF Types
    <2>3. QED
      BY <1>1, <1>8, <1>9, <2>1, <2>2, IdsAreApart, ExecutionAssumption
         DEF StackInv, WithinLimits, HasCounter, Types
  <1>14. QED
    BY <1>10, <1>11, <1>12, <1>13 DEF StackInv

\* A return takes back what its call counted.
LEMMA ReturnKeeps ==
  ASSUME StackInv, Return
  PROVE  StackInv'
  <1>1. PICK n \in Nat : n = Len(frames)
    BY LenProperties DEF StackInv, Types
  <1>2. Types /\ Shape /\ n > 1 /\ frames # <<>> /\ DOMAIN frames = 1..n
    BY <1>1, LenProperties DEF StackInv, Return, Types, Shape
  <1>3. /\ frames' \in Seq(Frame) /\ Len(frames') = n - 1
        /\ \A i \in 1..(n - 1) : frames'[i] = frames[i]
    BY <1>1, <1>2, BelowIs DEF Return
  <1>4. DOMAIN frames' = 1..(n - 1) /\ frames' # <<>>
    BY <1>2, <1>3, LenProperties, EmptySeq
  <1>5. PICK f \in Functions : f = Top.body
    BY <1>1, <1>2 DEF Shape, Top
  <1>6. f = frames[n].body /\ f # Initializer
    BY <1>1, <1>5, ExecutionAssumption DEF Top
  <1>7. OpenCalls' = OpenCalls \ {n} /\ n \in OpenCalls
    BY <1>2, <1>3, <1>4, <1>6 DEF OpenCalls
  <1>8. OpenCallsOf(f)' = OpenCallsOf(f) \ {n} /\ n \in OpenCallsOf(f)
    BY <1>2, <1>3, <1>4, <1>6 DEF OpenCallsOf
  <1>9. \A g \in Functions \ {f} : OpenCallsOf(g)' = OpenCallsOf(g)
    BY <1>2, <1>3, <1>4, <1>6 DEF OpenCallsOf
  <1>10. /\ Cardinality(OpenCalls') = Cardinality(OpenCalls) - 1
         /\ Cardinality(OpenCallsOf(f)') = Cardinality(OpenCallsOf(f)) - 1
         /\ Cardinality(OpenCalls) > 0 /\ Cardinality(OpenCallsOf(f)) > 0
    <2>1. /\ IsFiniteSet(OpenCalls) /\ Cardinality(OpenCalls) \in Nat /\ OpenCalls # {}
          /\ IsFiniteSet(OpenCallsOf(f)) /\ Cardinality(OpenCallsOf(f)) \in Nat
          /\ OpenCallsOf(f) # {}
      BY <1>2, <1>7, <1>8, OpenIsFinite
    <2>2. Cardinality(OpenCalls) # 0 /\ Cardinality(OpenCallsOf(f)) # 0
      BY <2>1, FS_EmptySet
    <2>3. Cardinality(OpenCalls \ {n}) = Cardinality(OpenCalls) - 1
      BY <1>7, <2>1, FS_RemoveElement
    <2>4. Cardinality(OpenCallsOf(f) \ {n}) = Cardinality(OpenCallsOf(f)) - 1
      BY <1>8, <2>1, FS_RemoveElement
    <2>5. QED
      BY <1>7, <1>8, <2>1, <2>2, <2>3, <2>4
  <1>11. /\ total = Cardinality(OpenCalls)
         /\ \A g \in Functions : HasCounter(g) => perFunction[Id[g]] = Cardinality(OpenCallsOf(g))
    BY DEF StackInv, CountersMatchTheStack
  <1>12. /\ total' = total - 1
         /\ perFunction' = IF HasCounter(f) THEN [perFunction EXCEPT ![Id[f]] = @ - 1]
                                            ELSE perFunction
    BY <1>5, <1>10, <1>11 DEF Return, Leave
  <1>13. \A g \in Functions : HasCounter(g) =>
           perFunction'[Id[g]] = IF g = f THEN perFunction[Id[g]] - 1 ELSE perFunction[Id[g]]
    BY <1>2, <1>12, IdsAreApart DEF Types
  <1>14. Types'
    <2>1. total' \in Nat
      BY <1>2, <1>10, <1>11, <1>12 DEF Types
    <2>2. HasCounter(f) => perFunction[Id[f]] - 1 \in Nat
      BY <1>2, <1>10, <1>11, IdsAreApart DEF Types
    <2>3. perFunction' \in [0..(Counted - 1) -> Nat]
      BY <1>2, <1>12, <2>2, IdsAreApart DEF Types
    <2>4. QED
      BY <1>2, <1>3, <2>1, <2>3 DEF Types, Return
  <1>15. Shape'
    BY <1>1, <1>2, <1>3, <1>4 DEF Shape, Return, running
  <1>16. CountersMatchTheStack'
    BY <1>9, <1>10, <1>11, <1>12, <1>13 DEF CountersMatchTheStack, HasCounter
  <1>17. WithinLimits'
    <2>1. \A g \in Functions : HasCounter(g) => perFunction[Id[g]] \in Nat
      BY <1>2, IdsAreApart DEF Types
    <2>2. QED
      BY <1>2, <1>12, <1>13, <2>1, IdsAreApart, ExecutionAssumption
         DEF StackInv, WithinLimits, HasCounter, Types
  <1>18. QED
    BY <1>14, <1>15, <1>16, <1>17 DEF StackInv

\* While globals are made, between two initializers, no function is open.
LEMMA OneFrame ==
  ASSUME StackInv, Len(frames) = 1
  PROVE  /\ phase = "globals" => total = 0 /\ \A f \in Functions :
                                   HasCounter(f) => perFunction[Id[f]] = 0
         /\ phase = "main" => total = 1 /\ \A f \in Functions :
              HasCounter(f) => perFunction[Id[f]] = IF f = Main THEN 1 ELSE 0
  <1>1. DOMAIN frames = {1}
    BY LenProperties DEF StackInv, Types
  <1>2. CASE phase = "globals"
    <2>1. OpenCalls = {} /\ \A f \in Functions : OpenCallsOf(f) = {}
      BY <1>1, <1>2, ExecutionAssumption DEF StackInv, Shape, OpenCalls, OpenCallsOf
    <2>2. QED
      BY <1>2, <2>1, FS_EmptySet DEF StackInv, CountersMatchTheStack
  <1>3. CASE phase = "main"
    <2>1. OpenCalls = {1} /\ \A f \in Functions : OpenCallsOf(f) = IF f = Main THEN {1} ELSE {}
      BY <1>1, <1>3, ExecutionAssumption DEF StackInv, Shape, OpenCalls, OpenCallsOf
    <2>2. QED
      BY <1>3, <2>1, FS_EmptySet, FS_Singleton DEF StackInv, CountersMatchTheStack
  <1>4. QED
    BY <1>2, <1>3

\* When the globals are made main is the one call.
LEMMA GlobalsDoneKeeps ==
  ASSUME StackInv, GlobalsDone
  PROVE  StackInv'
  <1> DEFINE first == [body |-> Main, line |-> 0]
  <1>1. /\ total = 0 /\ Types /\ Main \in Functions /\ Main # Initializer
        /\ \A f \in Functions : HasCounter(f) => perFunction[Id[f]] = 0
    BY OneFrame, ExecutionAssumption DEF GlobalsDone, StackInv
  <1>2. frames' = <<first>> /\ first \in Frame
    BY <1>1 DEF GlobalsDone, Frame, Bodies
  <1>3. frames' \in Seq(Frame) /\ Len(frames') = 1 /\ frames'[1] = first /\ DOMAIN frames' = {1}
    BY <1>2
  <1>4. /\ total' = 1
        /\ perFunction' = IF HasCounter(Main) THEN [perFunction EXCEPT ![Id[Main]] = @ + 1]
                                              ELSE perFunction
    BY <1>1 DEF GlobalsDone, Counting
  <1>5. \A f \in Functions : HasCounter(f) => perFunction'[Id[f]] = IF f = Main THEN 1 ELSE 0
    BY <1>1, <1>4, IdsAreApart DEF Types
  <1>6. Types'
    BY <1>1, <1>3, <1>4, IdsAreApart DEF Types, GlobalsDone
  <1>7. Shape'
    BY <1>2, <1>3 DEF Shape, GlobalsDone, running
  <1>8. OpenCalls' = {1} /\ \A f \in Functions : OpenCallsOf(f)' = IF f = Main THEN {1} ELSE {}
    BY <1>1, <1>3 DEF OpenCalls, OpenCallsOf
  <1>9. CountersMatchTheStack'
    BY <1>4, <1>5, <1>8, FS_EmptySet, FS_Singleton DEF CountersMatchTheStack, HasCounter
  <1>10. WithinLimits'
    BY <1>4, <1>5, IdsAreApart, ExecutionAssumption DEF WithinLimits, HasCounter
  <1>11. QED
    BY <1>6, <1>7, <1>9, <1>10 DEF StackInv

\* When main returns no call is open.
LEMMA EndKeeps ==
  ASSUME StackInv, End
  PROVE  StackInv'
  <1>1. /\ total = 1 /\ Types /\ Main \in Functions
        /\ \A f \in Functions : HasCounter(f) => perFunction[Id[f]] = IF f = Main THEN 1 ELSE 0
    BY OneFrame, ExecutionAssumption DEF End, StackInv
  <1>2. /\ total' = 0
        /\ perFunction' = IF HasCounter(Main) THEN [perFunction EXCEPT ![Id[Main]] = @ - 1]
                                              ELSE perFunction
    BY <1>1 DEF End, Leave
  <1>3. \A f \in Functions : HasCounter(f) => perFunction'[Id[f]] = 0
    BY <1>1, <1>2, IdsAreApart DEF Types
  <1>4. frames' = <<>> /\ frames' \in Seq(Frame) /\ Len(frames') = 0 /\ DOMAIN frames' = {}
    BY EmptySeq DEF End
  <1>5. perFunction' \in [0..(Counted - 1) -> Nat]
    BY <1>1, <1>2, IdsAreApart DEF Types
  <1>6. Types'
    BY <1>2, <1>4, <1>5 DEF Types, End, Over
  <1>7. Shape'
    BY <1>4 DEF Shape, End, Over, running
  <1>8. OpenCalls' = {} /\ \A f \in Functions : OpenCallsOf(f)' = {}
    BY <1>4 DEF OpenCalls, OpenCallsOf
  <1>9. CountersMatchTheStack'
    BY <1>2, <1>3, <1>8, FS_EmptySet DEF CountersMatchTheStack, HasCounter
  <1>10. WithinLimits'
    BY <1>2, <1>3, IdsAreApart, ExecutionAssumption DEF WithinLimits, HasCounter
  <1>11. QED
    BY <1>6, <1>7, <1>9, <1>10 DEF StackInv

\* A program that loads has no calls.
LEMMA StackInit == SessionInit => StackInv
  <1> SUFFICES ASSUME SessionInit PROVE StackInv
    OBVIOUS
  <1>1. /\ phase = "loading" /\ frames = <<>> /\ total = 0
        /\ perFunction = [i \in 0..(Counted - 1) |-> 0]
    BY DEF SessionInit, ExecInit
  <1>2. Len(frames) = 0 /\ DOMAIN frames = {} /\ frames \in Seq(Frame)
    BY <1>1, EmptySeq
  <1>3. Types /\ Shape
    BY <1>1, <1>2 DEF Types, Shape, running
  <1>4. OpenCalls = {} /\ \A f \in Functions : OpenCallsOf(f) = {}
    BY <1>2 DEF OpenCalls, OpenCallsOf
  <1>5. \A f \in Functions : HasCounter(f) => perFunction[Id[f]] = 0
    BY <1>1, IdsAreApart
  <1>6. CountersMatchTheStack
    BY <1>1, <1>4, <1>5, FS_EmptySet DEF CountersMatchTheStack
  <1>7. WithinLimits
    BY <1>1, <1>5, IdsAreApart, ExecutionAssumption DEF WithinLimits
  <1>8. QED
    BY <1>3, <1>6, <1>7 DEF StackInv

\* Every step keeps the counters those of the open calls.
LEMMA StackNext == StackInv /\ [SessionNext]_vars => StackInv'
  <1> SUFFICES ASSUME StackInv, [SessionNext]_vars PROVE StackInv'
    OBVIOUS
  <1>1. CASE UNCHANGED vars
    BY <1>1, LeavesKeeps DEF vars, execVars, Leaves
  <1>2. CASE SessionNext
    BY <1>2, StackSteps, LeavesKeeps, AnnouncesKeeps, BeginKeeps, CallKeeps, ReturnKeeps,
       GlobalsDoneKeeps, EndKeeps
  <1>3. QED
    BY <1>1, <1>2

\* The counters are those of the open calls throughout.
LEMMA StackAlways == SessionSpec => []StackInv
  <1>1. QED
    BY StackInit, StackNext, PTL DEF SessionSpec

\* Depth counts what is on the stack and keeps it below both ceilings, in every program,
\* however it is stopped and left (Runtime.cpp: Depth::enter(), Depth::leave()).
THEOREM DepthKept == SessionSpec => []DepthIsKept
  <1>1. StackInv => DepthIsKept
    <2> SUFFICES ASSUME StackInv PROVE DepthIsKept
      OBVIOUS
    <2>1. CountersMatchTheStack /\ WithinLimits
      BY DEF StackInv
    <2>2. DepthLimitsHold
      BY <2>1 DEF CountersMatchTheStack, WithinLimits, DepthLimitsHold
    <2>3. QED
      BY <2>1, <2>2 DEF DepthIsKept
  <1>2. QED
    BY <1>1, StackAlways, PTL

-------------------------------------------------------------------------------
(***************************************************************************)
(* What was printed is written out before anybody looks.                   *)
(***************************************************************************)
PrintInv ==
  /\ talk = "new" => phase = "loading"
  /\ phase = "loading" => ~buffered
  /\ PrintedTextIsSeen

\* Nothing was printed where a program loads.
LEMMA PrintInit == SessionInit => PrintInv
  BY DEF SessionInit, ExecInit, PrintInv, PrintedTextIsSeen, NothingPrintedIsLost

\* Every step shows what was printed before it stops or ends.
LEMMA PrintNext == PrintInv /\ [SessionNext]_vars => PrintInv'
  <1> SUFFICES ASSUME PrintInv, [SessionNext]_vars PROVE PrintInv'
    OBVIOUS
  <1> USE DEF PrintInv, PrintedTextIsSeen, NothingPrintedIsLost, execVars
  <1>1. CASE UNCHANGED vars
    BY <1>1 DEF vars, sessionVars
  <1>2. CASE Arm
    BY <1>2 DEF Arm
  <1>3. CASE Run
    <2>1. talk' = talk /\ talk = "idle"
      BY <1>3 DEF Run, sessionVars, idle
    <2>2. ASSUME NEW f \in Functions, Call(f) PROVE PrintInv'
      BY <2>1, <2>2 DEF Call, running
    <2>3. ASSUME NEW l \in UNION {Lines[b] : b \in Bodies}, LoopAgain(l) PROVE PrintInv'
      BY <2>1, <2>3 DEF LoopAgain, running
    <2>4. CASE Begin \/ Output \/ Flush \/ Return \/ GlobalsDone
      BY <2>1, <2>4 DEF Begin, Output, Flush, Return, GlobalsDone, running
    <2>5. QED
      BY <1>3, <2>2, <2>3, <2>4 DEF Run
  <1>4. CASE Finish
    BY <1>4 DEF Finish, End, Fail, Over, idle
  <1>5. ASSUME NEW l \in UNION {Lines[b] : b \in Bodies}, Step(l) PROVE PrintInv'
    BY <1>5 DEF Step, StatementBegins, Stop, running, idle
  <1>6. CASE Converse
    BY <1>6 DEF Converse, GoOn, GoOnFrom, Where, SetBreak, ClearBreak, Quit, HearEnd, Hear, Over
  <1>7. CASE Close \/ \E c \in Commands : Send(c)
    BY <1>7 DEF Close, Send
  <1>8. QED
    BY <1>1, <1>2, <1>3, <1>4, <1>5, <1>6, <1>7 DEF SessionNext, Program

\* However a program ends, and wherever it is stopped, what it printed has been written
\* out (Failure.cpp: fail(); Debug.cpp: converse(), q; Runtime.cpp: shm_end()).
THEOREM PrintedSeen == SessionSpec => []PrintedTextIsSeen
  <1>1. PrintInv => PrintedTextIsSeen
    BY DEF PrintInv
  <1>2. QED
    BY <1>1, PrintInit, PrintNext, PTL DEF SessionSpec

-------------------------------------------------------------------------------
(***************************************************************************)
(* The table of breakpoints.                                               *)
(***************************************************************************)
TableInv ==
  /\ inbox \in Seq(Commands)
  /\ breaks \in Seq(Places)
  /\ {breaks[i] : i \in DOMAIN breaks} = asked
  /\ \A i, j \in DOMAIN breaks : breaks[i] = breaks[j] => i = j
  /\ IsFiniteSet(asked) /\ Cardinality(asked) = Len(breaks)

\* A session begins without breakpoints.
LEMMA TableInit == SessionInit => TableInv
  <1> SUFFICES ASSUME SessionInit PROVE TableInv
    OBVIOUS
  <1>1. inbox = <<>> /\ breaks = <<>> /\ asked = {}
    BY DEF SessionInit
  <1>2. QED
    BY <1>1, EmptySeq, FS_EmptySet DEF TableInv

\* A breakpoint that is set is in the table once.
LEMMA BreakpointSet ==
  ASSUME TableInv, SetBreak
  PROVE  TableInv'
  <1>1. PICK p : p = Head(inbox).place
    OBVIOUS
  <1>2. p \in Places /\ inbox' \in Seq(Commands)
    <2>1. Head(inbox) \in Commands /\ Head(inbox).do = "b" /\ Tail(inbox) \in Seq(Commands)
      BY HeadTailProperties DEF TableInv, SetBreak, Hear
    <2>2. QED
      BY <1>1, <2>1, SessionAssumption DEF Commands, SetBreak, Hear
  <1>3. breaks' = Added(p) /\ asked' = IF Cardinality(asked) < BreakCapacity
                                       THEN asked \cup {p} ELSE asked
    BY <1>1 DEF SetBreak
  <1>4. Len(breaks) \in Nat /\ DOMAIN breaks = 1..Len(breaks)
    BY LenProperties DEF TableInv
  <1>5. p \in asked <=> IsBreakpoint(p)
    BY DEF TableInv, IsBreakpoint
  <1>6. CASE IsBreakpoint(p) \/ Len(breaks) >= BreakCapacity
    <2>1. breaks' = breaks /\ asked' = asked
      BY <1>3, <1>4, <1>5, <1>6, SessionAssumption DEF Added, TableInv
    <2>2. QED
      BY <1>2, <2>1 DEF TableInv
  <1>7. CASE ~IsBreakpoint(p) /\ Len(breaks) < BreakCapacity
    <2>1. breaks' = Append(breaks, p) /\ asked' = asked \cup {p} /\ p \notin asked
      BY <1>3, <1>4, <1>5, <1>7, SessionAssumption DEF Added, TableInv
    <2>2. /\ breaks' \in Seq(Places) /\ Len(breaks') = Len(breaks) + 1
          /\ \A i \in 1..Len(breaks) : breaks'[i] = breaks[i]
          /\ breaks'[Len(breaks) + 1] = p
      BY <1>2, <2>1, AppendProperties DEF TableInv
    <2>3. DOMAIN breaks' = 1..(Len(breaks) + 1)
      BY <2>2, LenProperties
    <2>4. {breaks'[i] : i \in DOMAIN breaks'} = asked'
      BY <1>4, <2>1, <2>2, <2>3 DEF TableInv
    <2>5. \A i, j \in DOMAIN breaks' : breaks'[i] = breaks'[j] => i = j
      BY <1>4, <2>1, <2>2, <2>3 DEF TableInv
    <2>6. IsFiniteSet(asked') /\ Cardinality(asked') = Len(breaks')
      BY <2>1, <2>2, FS_AddElement DEF TableInv
    <2>7. QED
      BY <1>2, <2>2, <2>4, <2>5, <2>6 DEF TableInv
  <1>8. QED
    BY <1>4, <1>6, <1>7, SessionAssumption

\* The last breakpoint moves into the gap, and is in the table once.
LEMMA BreakpointCleared ==
  ASSUME TableInv, ClearBreak
  PROVE  TableInv'
  <1>1. PICK p : p = Head(inbox).place
    OBVIOUS
  <1>2. inbox' \in Seq(Commands)
    BY HeadTailProperties DEF TableInv, ClearBreak, Hear
  <1>3. asked' = asked \ {p}
    BY <1>1 DEF ClearBreak
  <1>4. PICK n \in Nat : n = Len(breaks) /\ DOMAIN breaks = 1..n
    BY LenProperties DEF TableInv
  <1>5. p \in asked <=> IsBreakpoint(p)
    BY DEF TableInv, IsBreakpoint
  <1>6. CASE ~IsBreakpoint(p)
    <2>1. breaks' = breaks /\ asked' = asked
      BY <1>1, <1>3, <1>5, <1>6 DEF ClearBreak
    <2>2. QED
      BY <1>2, <2>1 DEF TableInv
  <1>7. CASE IsBreakpoint(p)
    <2>1. PICK k \in 1..n : breaks[k] = p /\ breaks' = Removed(k)
      BY <1>1, <1>4, <1>7 DEF ClearBreak, IsBreakpoint
    <2>2. PICK moved : moved = [breaks EXCEPT ![k] = breaks[n]]
      OBVIOUS
    <2>3. /\ moved \in Seq(Places) /\ Len(moved) = n /\ n > 0 /\ moved # <<>>
          /\ \A i \in 1..n : moved[i] = IF i = k THEN breaks[n] ELSE breaks[i]
      <3>1. n \in 1..n /\ breaks[n] \in Places
        BY <1>4, ElementOfSeq DEF TableInv
      <3>2. moved \in Seq(Places) /\ Len(moved) = n
        BY <1>4, <2>2, <3>1, ExceptSeq DEF TableInv
      <3>3. \A i \in 1..n : moved[i] = IF i = k THEN breaks[n] ELSE breaks[i]
        BY <1>4, <2>2, <3>1, ExceptSeq DEF TableInv
      <3>4. QED
        BY <1>4, <3>1, <3>2, <3>3, EmptySeq
    <2>4. /\ breaks' \in Seq(Places) /\ Len(breaks') = n - 1
          /\ \A i \in 1..(n - 1) : breaks'[i] = IF i = k THEN breaks[n] ELSE breaks[i]
      <3>1. breaks' = SubSeq(moved, 1, Len(moved) - 1)
        BY <1>4, <2>1, <2>2 DEF Removed, Front, Last
      <3>2. /\ breaks' \in Seq(Places) /\ Len(breaks') = Len(moved) - 1
            /\ \A i \in 1..(Len(moved) - 1) : breaks'[i] = moved[i]
        BY <2>3, <3>1, FrontIs
      <3>3. QED
        BY <1>4, <2>3, <3>2
    <2>5. DOMAIN breaks' = 1..(n - 1)
      BY <2>4, LenProperties
    <2>6. \A i, j \in DOMAIN breaks' : breaks'[i] = breaks'[j] => i = j
      BY <1>4, <2>1, <2>4, <2>5 DEF TableInv
    <2>7. \A q \in asked' : q \in {breaks'[i] : i \in DOMAIN breaks'}
      <3> SUFFICES ASSUME NEW q \in asked' PROVE \E i \in 1..(n - 1) : breaks'[i] = q
        BY <2>5
      <3>1. PICK j \in 1..n : breaks[j] = q /\ j # k
        BY <1>3, <1>4, <2>1 DEF TableInv
      <3>2. CASE j = n
        BY <2>1, <2>4, <3>1, <3>2, <1>4
      <3>3. CASE j # n
        BY <2>4, <3>1, <3>3, <1>4
      <3>4. QED
        BY <3>2, <3>3
    <2>8. \A i \in DOMAIN breaks' : breaks'[i] \in asked'
      <3> SUFFICES ASSUME NEW i \in 1..(n - 1) PROVE breaks'[i] \in asked'
        BY <2>5
      <3>1. PICK j \in 1..n : breaks'[i] = breaks[j] /\ j # k
        BY <1>4, <2>1, <2>4
      <3>2. QED
        BY <1>3, <1>4, <2>1, <3>1 DEF TableInv
    <2>9. {breaks'[i] : i \in DOMAIN breaks'} = asked'
      BY <2>7, <2>8
    <2>10. IsFiniteSet(asked') /\ Cardinality(asked') = Len(breaks')
      <3>1. IsFiniteSet(asked) /\ Cardinality(asked) = n
        BY <1>4 DEF TableInv
      <3>2. p \in asked
        BY <1>5, <1>7
      <3>3. IsFiniteSet(asked \ {p}) /\ Cardinality(asked \ {p}) = Cardinality(asked) - 1
        BY <3>1, <3>2, FS_RemoveElement
      <3>4. asked' = asked \ {p} /\ Len(breaks') = n - 1
        BY <1>3, <2>4
      <3> QED BY <3>1, <3>3, <3>4
    <2>11. QED
      BY <1>2, <2>4, <2>6, <2>9, <2>10 DEF TableInv
  <1>8. QED
    BY <1>6, <1>7

\* Every step keeps the table the breakpoints asked for.
LEMMA TableNext == TableInv /\ [SessionNext]_vars => TableInv'
  <1> SUFFICES ASSUME TableInv, [SessionNext]_vars PROVE TableInv'
    OBVIOUS
  <1>1. ASSUME UNCHANGED <<breaks, asked>>, inbox' \in Seq(Commands)
        PROVE  TableInv'
    BY <1>1 DEF TableInv
  <1>2. CASE UNCHANGED vars \/ Arm \/ Run \/ Finish \/ Close
               \/ \E l \in UNION {Lines[b] : b \in Bodies} : Step(l)
    BY <1>1, <1>2 DEF vars, sessionVars, Arm, Run, Finish, Close, Step, TableInv
  <1>3. ASSUME NEW c \in Commands, Send(c)
        PROVE  TableInv'
    <2>1. inbox' \in Seq(Commands)
      BY <1>3, AppendProperties DEF Send, TableInv
    <2>2. QED
      BY <1>1, <1>3, <2>1 DEF Send
  <1>4. CASE HearEnd
    BY <1>1, <1>4 DEF HearEnd, TableInv
  <1>5. ASSUME NEW order, Hear(order), UNCHANGED <<breaks, asked>>
        PROVE  TableInv'
    <2>1. inbox' \in Seq(Commands)
      BY <1>5, HeadTailProperties DEF Hear, TableInv
    <2>2. QED
      BY <1>1, <1>5, <2>1
  <1>6. CASE GoOn("c", "Running") \/ GoOn("s", "Stepping") \/ GoOnFrom("n", "Over")
               \/ GoOnFrom("o", "Out") \/ Where \/ Quit
    BY <1>5, <1>6 DEF GoOn, GoOnFrom, Where, Quit
  <1>7. CASE SetBreak \/ ClearBreak
    BY <1>7, BreakpointSet, BreakpointCleared
  <1>8. QED
    BY <1>2, <1>3, <1>4, <1>6, <1>7 DEF SessionNext, Program, Converse

\* Whatever is set, set twice, set beyond the capacity and cleared, the table holds the
\* breakpoints asked for, each once (Debug.cpp: addBreakpoint(), removeBreakpoint()).
THEOREM BreakpointsKept == SessionSpec => []BreakpointsAreTheOnesAsked
  <1>1. TableInv => BreakpointsAreTheOnesAsked
    BY DEF TableInv, BreakpointsAreTheOnesAsked
  <1>2. QED
    BY <1>1, TableInit, TableNext, PTL DEF SessionSpec

-------------------------------------------------------------------------------
(***************************************************************************)
(* The places that are named.                                              *)
(***************************************************************************)

\* While the program is stopped it is at a statement just announced.
StoppedAtAStatement ==
  /\ talk = "new" => phase = "loading"
  /\ talk = "talking" /\ frames # <<>> => running /\ ~strayed /\ Top.line # 0

PlacesInv ==
  /\ PlacesAreRight
  /\ StoppedAtAStatement
  /\ outcome.status = 1 => phase = "over"

\* A program that loads is stopped nowhere.
LEMMA PlacesInit == SessionInit => PlacesInv
  BY DEF SessionInit, ExecInit, PlacesInv, PlacesAreRight, FailuresNameTheirPlace,
         StoppedAtAStatement, running

\* Steps that leave the stack, the position and the outcome alone, and the talk idle.
LEMMA QuietKeeps ==
  ASSUME PlacesInv, UNCHANGED execVars, talk' = "idle"
  PROVE  PlacesInv'
  BY DEF PlacesInv, PlacesAreRight, FailuresNameTheirPlace, StoppedAtAStatement, running,
         Here, Top, execVars

\* What leaves the program and the conversation alone keeps the places.
LEMMA StoppedKeeps ==
  ASSUME PlacesInv, UNCHANGED execVars, UNCHANGED <<talk, said>>
  PROVE  PlacesInv'
  BY DEF PlacesInv, PlacesAreRight, FailuresNameTheirPlace, StoppedAtAStatement, running,
         Here, Top, execVars, OpenCalls

\* What arriving at a line does.
LEMMA StepIs ==
  ASSUME Types, NEW l \in UNION {Lines[b] : b \in Bodies}, Step(l), Shape
  PROVE  /\ running /\ running' /\ idle /\ ~strayed' /\ frames' # <<>>
         /\ Top'.body = Top.body /\ Top'.line = l /\ l # 0
         /\ position' = [unit |-> UnitOf[Top.body], line |-> l]
         /\ OpenCalls' = OpenCalls
  <1>1. /\ running /\ running' /\ idle /\ ~strayed' /\ frames # <<>>
        /\ position' = [unit |-> UnitOf[Top.body], line |-> l]
        /\ frames' = Append(Below, [Top EXCEPT !.line = l])
        /\ UNCHANGED <<phase, total, perFunction>>
    BY DEF Step, StatementBegins, running, Shape
  <1>2. l \in Nat \ {0}
    BY ExecutionAssumption
  <1>3. /\ frames' \in Seq(Frame) /\ Len(frames') = Len(frames) /\ Len(frames) \in Nat \ {0}
        /\ \A i \in 1..Len(frames) : frames'[i].body = frames[i].body
        /\ frames'[Len(frames)] = [Top EXCEPT !.line = l]
    BY <1>1, <1>2, AnnouncedIs, BelowIs
  <1>4. Top' = [Top EXCEPT !.line = l] /\ Top \in Frame
    BY <1>1, <1>3, BelowIs DEF Top
  <1>5. Top'.body = Top.body /\ Top'.line = l
    BY <1>4 DEF Frame
  <1>6. Types'
    BY <1>1, <1>3 DEF Types
  <1>7. OpenCalls' = OpenCalls
    BY <1>3, <1>6, SameBodiesSameCalls
  <1>8. frames' # <<>>
    BY <1>3, EmptySeq
  <1>9. QED
    BY <1>1, <1>2, <1>5, <1>7, <1>8

\* At a line, the position is the top call's.
LEMMA PlacesStep ==
  ASSUME StackInv, PlacesInv, NEW l \in UNION {Lines[b] : b \in Bodies}, Step(l)
  PROVE  PlacesInv'
  <1>1. /\ running /\ running' /\ idle /\ ~strayed' /\ frames' # <<>>
        /\ Top'.body = Top.body /\ Top'.line = l /\ l # 0
        /\ position' = [unit |-> UnitOf[Top.body], line |-> l]
        /\ OpenCalls' = OpenCalls
    BY StepIs DEF StackInv
  <1>2. Here' = position' /\ Here' = [unit |-> UnitOf[Top.body], line |-> l]
    BY <1>1 DEF Here
  <1>3. outcome' = outcome /\ outcome.status # 1 /\ phase' = phase
    BY <1>1 DEF Step, StatementBegins, PlacesInv, running
  <1>4. FailuresNameTheirPlace'
    BY <1>2, <1>3 DEF FailuresNameTheirPlace
  <1>5. talk' = "talking" => said' = [what  |-> "stop", place |-> <<UnitOf[Top.body], l>>,
                                      depth |-> total]
    BY <1>1 DEF Step, Stop, idle
  <1>6. total = Cardinality(OpenCalls')
    BY <1>1 DEF StackInv, CountersMatchTheStack
  <1>7. talk' = "talking" /\ said'.what \in {"stop", "at"} /\ frames' # <<>> =>
          /\ said'.place = <<Here'.unit, Here'.line>>
          /\ said'.depth = Cardinality(OpenCalls')
    BY <1>2, <1>5, <1>6
  <1>8. StoppedAtAStatement'
    <2>1. talk' # "new"
      BY <1>1 DEF Step, Stop, idle
    <2>2. Top'.line # 0
      BY <1>1
    <2>3. QED
      BY <1>1, <2>1, <2>2 DEF StoppedAtAStatement
  <1>9. QED
    BY <1>3, <1>4, <1>7, <1>8 DEF PlacesInv, PlacesAreRight

\* Between lines, what was said stays said.
LEMMA PlacesRun ==
  ASSUME StackInv, PlacesInv, Run
  PROVE  PlacesInv'
  <1>1. talk' = "idle" /\ outcome' = outcome /\ outcome.status # 1
    BY DEF Run, Begin, Output, Flush, Return, GlobalsDone, Call, LoopAgain, sessionVars, idle,
           running, PlacesInv
  <1>2. SUFFICES ~strayed' => (running' /\ Top'.line # 0 => position' = Here')
    BY <1>1 DEF PlacesInv, PlacesAreRight, FailuresNameTheirPlace, StoppedAtAStatement
  <1>3. CASE Begin \/ GlobalsDone
    <2>1. PICK b : frames' = <<[body |-> b, line |-> 0]>>
      BY <1>3 DEF Begin, GlobalsDone
    <2>2. Len(frames') = 1 /\ frames'[1] = [body |-> b, line |-> 0]
      BY <2>1
    <2>3. Top'.line = 0
      BY <2>2 DEF Top
    <2>4. QED
      BY <2>3
  <1>4. CASE Output \/ Flush
    BY <1>4 DEF Output, Flush, PlacesInv, PlacesAreRight, FailuresNameTheirPlace, running,
                Here, Top
  <1>5. CASE Return \/ \E l \in UNION {Lines[b] : b \in Bodies} : LoopAgain(l)
    BY <1>5 DEF Return, LoopAgain
  <1>6. ASSUME NEW f \in Functions, Call(f)
        PROVE  Top'.line = 0
    <2>1. /\ frames' = Append(frames, [body |-> f, line |-> 0])
          /\ [body |-> f, line |-> 0] \in Frame /\ frames \in Seq(Frame)
      BY <1>6 DEF Call, Frame, Bodies, StackInv, Types
    <2>2. frames'[Len(frames')] = [body |-> f, line |-> 0]
      BY <2>1, AppendProperties
    <2>3. QED
      BY <2>2 DEF Top
  <1>7. QED
    BY <1>3, <1>4, <1>5, <1>6 DEF Run
\* At its end a program is stopped nowhere, and a failure has named its place.
LEMMA PlacesFinish ==
  ASSUME PlacesInv, Finish
  PROVE  PlacesInv'
  <1>1. talk' = "idle" /\ phase' = "over" /\ ~running'
    BY DEF Finish, End, Fail, Over, idle, running
  <1>2. CASE End
    BY <1>1, <1>2 DEF End, Over, PlacesInv, PlacesAreRight, FailuresNameTheirPlace,
                      StoppedAtAStatement
  <1>3. CASE Fail
    <2>1. /\ running /\ Top.line # 0 /\ outcome' = [status |-> 1, at |-> position]
          /\ UNCHANGED <<frames, strayed>>
      BY <1>3 DEF Fail, Over
    <2>2. ~strayed => position = Here
      BY <2>1 DEF PlacesInv, PlacesAreRight, FailuresNameTheirPlace
    <2>3. Here' = Here
      BY <2>1 DEF Here, Top
    <2>4. QED
      BY <1>1, <2>1, <2>2, <2>3 DEF PlacesInv, PlacesAreRight, FailuresNameTheirPlace,
                                    StoppedAtAStatement
  <1>4. QED
    BY <1>2, <1>3 DEF Finish

\* A program that is about to run is stopped at no line yet.
LEMMA PlacesArm ==
  ASSUME StackInv, PlacesInv, Arm
  PROVE  PlacesInv'
  <1>1. frames' = <<>> /\ phase' = "loading" /\ UNCHANGED execVars /\ talk' # "new"
    BY DEF Arm, PlacesInv, StoppedAtAStatement, StackInv, Shape, execVars
  <1>2. QED
    BY <1>1 DEF PlacesInv, PlacesAreRight, FailuresNameTheirPlace, StoppedAtAStatement,
                running, Here, Top, execVars

\* What is answered is the position, with the number of open calls.
LEMMA PlacesWhere ==
  ASSUME StackInv, PlacesInv, Where
  PROVE  PlacesInv'
  <1>1. /\ UNCHANGED execVars /\ talk = "talking" /\ talk' = "talking"
        /\ said' = [what |-> "at", place |-> <<position.unit, position.line>>, depth |-> total]
    BY DEF Where, Hear
  <1>2. frames # <<>> => position = Here
    BY <1>1 DEF PlacesInv, PlacesAreRight, FailuresNameTheirPlace, StoppedAtAStatement
  <1>3. Here' = Here /\ OpenCalls' = OpenCalls /\ total = Cardinality(OpenCalls)
    BY <1>1 DEF execVars, Here, Top, OpenCalls, StackInv, CountersMatchTheStack
  <1>4. frames' # <<>> => said'.place = <<Here'.unit, Here'.line>> /\ said'.depth = Cardinality(OpenCalls')
    BY <1>1, <1>2, <1>3 DEF execVars
  <1>5. QED
    BY <1>1, <1>3, <1>4 DEF execVars, PlacesInv, PlacesAreRight, FailuresNameTheirPlace,
                            StoppedAtAStatement, running, Top

\* A program that is given up did not fail, and is stopped nowhere.
LEMMA PlacesQuit ==
  ASSUME PlacesInv, Quit
  PROVE  PlacesInv'
  <1>1. talk' = "idle" /\ phase' = "over" /\ ~running' /\ outcome'.status # 1
    BY DEF Quit, Over, running
  <1>2. QED
    BY <1>1 DEF PlacesInv, PlacesAreRight, FailuresNameTheirPlace, StoppedAtAStatement

\* Every step keeps the position where the top call is.
LEMMA PlacesNext == StackInv /\ PlacesInv /\ [SessionNext]_vars => PlacesInv'
  <1> SUFFICES ASSUME StackInv, PlacesInv, [SessionNext]_vars PROVE PlacesInv'
    OBVIOUS
  <1>1. CASE UNCHANGED vars \/ SetBreak \/ ClearBreak \/ Close \/ \E c \in Commands : Send(c)
    BY <1>1, StoppedKeeps DEF vars, sessionVars, SetBreak, ClearBreak, Close, Send
  <1>2. CASE GoOn("c", "Running") \/ GoOn("s", "Stepping") \/ GoOnFrom("n", "Over")
               \/ GoOnFrom("o", "Out") \/ HearEnd
    BY <1>2, QuietKeeps DEF GoOn, GoOnFrom, HearEnd
  <1>3. QED
    BY <1>1, <1>2, PlacesArm, PlacesRun, PlacesFinish, PlacesStep, PlacesWhere, PlacesQuit
       DEF SessionNext, Program, Converse

\* A failure, a stop and the answer to w name the statement that runs, in its own file,
\* and the calls really open; a statement that has called or looped since it was announced
\* is excepted, for nothing announces it again (Failure.cpp: Position; Debug.cpp: at()).
THEOREM PlacesRight == SessionSpec => []PlacesAreRight
  <1>1. PlacesInv => PlacesAreRight
    BY DEF PlacesInv
  <1>2. QED
    BY <1>1, StackAlways, PlacesInit, PlacesNext, PTL DEF SessionSpec

-------------------------------------------------------------------------------
(***************************************************************************)
(* Where an armed program stops.                                           *)
(***************************************************************************)

\* What n and o remembered is the number of calls that were open.
RestIsTheCallsGiven == mode \in {"Over", "Out"} => rest = given

\* No step was asked for where a session begins.
LEMMA RestInit == SessionInit => RestIsTheCallsGiven
  BY DEF SessionInit, RestIsTheCallsGiven

\* Every step keeps the depth that was remembered, the calls open when it was.
LEMMA RestNext == StackInv /\ RestIsTheCallsGiven /\ [SessionNext]_vars => RestIsTheCallsGiven'
  <1> SUFFICES ASSUME StackInv, RestIsTheCallsGiven, [SessionNext]_vars
               PROVE  RestIsTheCallsGiven'
    OBVIOUS
  <1>1. ASSUME UNCHANGED <<mode, rest, given>>
        PROVE  RestIsTheCallsGiven'
    BY <1>1 DEF RestIsTheCallsGiven
  <1>2. CASE UNCHANGED vars \/ Program \/ Where \/ SetBreak \/ ClearBreak \/ Quit
               \/ Close \/ \E c \in Commands : Send(c)
    BY <1>1, <1>2 DEF vars, sessionVars, Program, Arm, Run, Finish, Step, Where, SetBreak,
                      ClearBreak, Quit, Close, Send
  <1>3. CASE GoOn("c", "Running") \/ GoOn("s", "Stepping") \/ HearEnd
    BY <1>3 DEF GoOn, HearEnd, RestIsTheCallsGiven
  <1>4. CASE GoOnFrom("n", "Over") \/ GoOnFrom("o", "Out")
    BY <1>4 DEF GoOnFrom, RestIsTheCallsGiven, StackInv, CountersMatchTheStack
  <1>5. QED
    BY <1>2, <1>3, <1>4 DEF SessionNext, Converse

\* A program stops at a line it arrives at, and nowhere else.
LEMMA OnlyStatementsStop ==
  ASSUME [SessionNext]_vars
  PROVE  \/ position' = position /\ ~(idle /\ talk' = "talking")
         \/ \E l \in UNION {Lines[b] : b \in Bodies} : Step(l)
  <1>1. CASE UNCHANGED vars \/ Arm \/ Close \/ \E c \in Commands : Send(c)
    BY <1>1 DEF vars, execVars, sessionVars, idle, Arm, Close, Send
  <1>2. CASE Converse
    BY <1>2 DEF Converse, GoOn, GoOnFrom, Where, SetBreak, ClearBreak, Quit, HearEnd, Hear,
                Over, execVars, idle
  <1>3. CASE Run
    BY <1>3 DEF Run, Begin, Output, Flush, Return, GlobalsDone, Call, LoopAgain, sessionVars,
                idle
  <1>4. CASE Finish
    BY <1>4 DEF Finish, End, Fail, Over, idle
  <1>5. QED
    BY <1>1, <1>2, <1>3, <1>4 DEF SessionNext, Program

\* At a line a program stops exactly if it was asked to.
LEMMA StatementStops ==
  ASSUME StackInv, TableInv, RestIsTheCallsGiven,
         NEW l \in UNION {Lines[b] : b \in Bodies}, Step(l)
  PROVE  (talk' = "talking") <=>
           armed /\ (\/ <<position'.unit, position'.line>> \in asked
                     \/ mode = "Stepping"
                     \/ mode = "Over" /\ Cardinality(OpenCalls') <= given
                     \/ mode = "Out" /\ Cardinality(OpenCalls') < given)
  <1>1. PICK place : place = <<UnitOf[Top.body], l>>
    OBVIOUS
  <1>2. /\ idle /\ position' = [unit |-> UnitOf[Top.body], line |-> l]
        /\ OpenCalls' = OpenCalls
    BY StepIs DEF StackInv
  <1>3. place = <<position'.unit, position'.line>> /\ total = Cardinality(OpenCalls')
    BY <1>1, <1>2 DEF StackInv, CountersMatchTheStack
  <1>4. (talk' = "talking") <=> armed /\ (ModeStops \/ IsBreakpoint(place))
    BY <1>1, <1>2 DEF Step, Stop, idle
  <1>5. IsBreakpoint(place) <=> place \in asked
    BY DEF TableInv, IsBreakpoint
  <1>6. ModeStops <=> \/ mode = "Stepping"
                      \/ mode = "Over" /\ Cardinality(OpenCalls') <= given
                      \/ mode = "Out" /\ Cardinality(OpenCalls') < given
    BY <1>3 DEF ModeStops, RestIsTheCallsGiven
  <1>7. QED
    BY <1>3, <1>4, <1>5, <1>6

\* An armed program stops at a statement exactly when there is a breakpoint or the last
\* command to go on says so, judged by the calls really open (Debug.cpp: at()).
THEOREM StopsAsAsked == SessionSpec => StopsExactlyWhereAsked
  <1> DEFINE inv == StackInv /\ TableInv /\ RestIsTheCallsGiven
  <1>1. SessionSpec => []inv
    BY StackInit, StackNext, TableInit, TableNext, RestInit, RestNext, PTL DEF SessionSpec
  <1>2. inv /\ [SessionNext]_vars =>
          [(position' # position \/ (idle /\ talk' = "talking")) =>
             LET place == <<position'.unit, position'.line>>
                 calls == Cardinality(OpenCalls')
             IN (talk' = "talking") <=>
                  armed /\ (\/ place \in asked
                            \/ mode = "Stepping"
                            \/ mode = "Over" /\ calls <= given
                            \/ mode = "Out" /\ calls < given) ]_vars
    BY OnlyStatementsStop, StatementStops
  <1>3. QED
    BY <1>1, <1>2, PTL DEF SessionSpec, StopsExactlyWhereAsked
===============================================================================
