------------------------------ MODULE Execution -------------------------------
(***************************************************************************)
(* A compiled program under its runtime (src/runtime/Runtime.cpp,          *)
(* Failure.cpp): main() makes the globals and calls the user's main;       *)
(* generated code announces every statement with shm_line(), every call    *)
(* with shm_enter() and every return with shm_leave(); any statement may   *)
(* fail.  Conditions and values are not modelled: a body may execute any   *)
(* of its statements next, call any function, or return.                   *)
(***************************************************************************)
EXTENDS Integers, Sequences, FiniteSets

CONSTANTS
  Functions,    \* the functions of the program
  Main,         \* the one called main
  Initializer,  \* the body of shm_init_globals(), which is no function
  Id,           \* Id[f]: Prototype::id
  Limit,        \* Limit[f]: 256 / (number of inputs + 1), at least 1
  UnitOf,       \* UnitOf[b]: the file shm_line() names for a body's statements
  Lines,        \* Lines[b]: the lines a body has statements on
  Overall,      \* Depth::overall, 1024
  Counted       \* Depth::capacity, 1024: higher ids have no counter of their own

Bodies == Functions \cup {Initializer}

ASSUME ExecutionAssumption ==
  /\ Main \in Functions /\ Initializer \notin Functions
  /\ Id \in [Functions -> Nat]
  /\ \A f, g \in Functions : Id[f] = Id[g] => f = g
  /\ Limit \in [Functions -> Nat \ {0}]
  /\ UnitOf \in [Bodies -> Nat]
  /\ Lines \in [Bodies -> SUBSET (Nat \ {0})]
  /\ Overall \in Nat \ {0} /\ Counted \in Nat

VARIABLES
  phase,        \* "loading", "globals", "main", "over"
  frames,       \* the bodies in progress, innermost last, each with the line of
                \* the statement whose code is running (0 before the first)
  total,        \* Depth::total_
  perFunction,  \* Depth::perFunction_
  position,     \* Position: the unit and line of the last shm_line()
  buffered,     \* something was printed that stdio still holds
  strayed,      \* history: code of an earlier statement runs, unannounced
  outcome       \* how it ended: status and, for a failure, where it says it was

execVars == <<phase, frames, total, perFunction, position, buffered, strayed, outcome>>

Top == frames[Len(frames)]

Below == SubSeq(frames, 1, Len(frames) - 1)

running == phase \in {"globals", "main"}

-------------------------------------------------------------------------------
ExecInit ==
  /\ phase = "loading"
  /\ frames = <<>>
  /\ total = 0
  /\ perFunction = [i \in 0..(Counted - 1) |-> 0]
  /\ position = [unit |-> 0, line |-> 0]
  /\ buffered = FALSE
  /\ strayed = FALSE
  /\ outcome = [status |-> -1, at |-> [unit |-> 0, line |-> 0]]

\* The process exits; a failure has said where it believes it is.
Over(status) ==
  /\ phase' = "over"
  /\ outcome' = [status |-> status, at |-> position]

\* main(): shm_begin(), then shm_init_globals().
Begin ==
  /\ phase = "loading"
  /\ phase' = "globals"
  /\ frames' = <<[body |-> Initializer, line |-> 0]>>
  /\ UNCHANGED <<total, perFunction, position, buffered, strayed, outcome>>

\* Mutant: a second statement on the line of the first is not announced.
StatementBeginsUnlessSame(l) ==
  /\ running
  /\ l \in Lines[Top.body]
  /\ frames' = Append(Below, [Top EXCEPT !.line = l])
  /\ position' = IF l = Top.line THEN position ELSE [unit |-> UnitOf[Top.body], line |-> l]
  /\ strayed' = FALSE
  /\ UNCHANGED <<phase, total, perFunction, outcome>>

\* A statement begins: shm_line().
StatementBegins(l) ==
  /\ running
  /\ l \in Lines[Top.body]
  /\ frames' = Append(Below, [Top EXCEPT !.line = l])
  /\ position' = [unit |-> UnitOf[Top.body], line |-> l]
  /\ strayed' = FALSE
  /\ UNCHANGED <<phase, total, perFunction, outcome>>

Statement(l) == StatementBegins(l) /\ UNCHANGED buffered

\* The body of a loop is done and the loop's condition or step is evaluated
\* again: code of the loop statement runs, and nothing announces it.
LoopAgain(l) ==
  /\ running
  /\ l \in Lines[Top.body] /\ Top.line # 0
  /\ frames' = Append(Below, [Top EXCEPT !.line = l])
  /\ strayed' = TRUE
  /\ UNCHANGED <<phase, total, perFunction, position, buffered, outcome>>

\* A print statement writes into stdio's buffer.
Output ==
  /\ running
  /\ Top.line # 0
  /\ buffered' = TRUE
  /\ UNCHANGED <<phase, frames, total, perFunction, position, strayed, outcome>>

\* stdio writes its buffer out, when it is full or when it is told to.
Flush ==
  /\ phase # "over"
  /\ buffered' = FALSE
  /\ UNCHANGED <<phase, frames, total, perFunction, position, strayed, outcome>>

HasCounter(f) == Id[f] < Counted

\* Depth::enter() fails.
Refused(f) == total >= Overall \/ (HasCounter(f) /\ perFunction[Id[f]] >= Limit[f])

Counting(f, by) ==
  /\ total' = total + by
  /\ perFunction' = IF HasCounter(f) THEN [perFunction EXCEPT ![Id[f]] = @ + by]
                                     ELSE perFunction

\* A statement calls f and the call is counted.
Call(f) ==
  /\ running
  /\ Top.line # 0
  /\ ~Refused(f)
  /\ Counting(f, 1)
  /\ frames' = Append(frames, [body |-> f, line |-> 0])
  /\ UNCHANGED <<phase, position, buffered, strayed, outcome>>

\* Mutant: exit without the flush.
FailUnflushed ==
  /\ running
  /\ Top.line # 0
  /\ Over(1)
  /\ UNCHANGED <<frames, total, perFunction, position, buffered, strayed>>

\* fail(): flush, say where, exit 1.  A statement's own check or Depth::enter().
Fail ==
  /\ running
  /\ Top.line # 0
  /\ Over(1)
  /\ buffered' = FALSE
  /\ UNCHANGED <<frames, total, perFunction, position, strayed>>

\* Mutant: a return that jumps past shm_leave().
LeaveSkipped(f) == UNCHANGED <<total, perFunction>>

\* Depth::leave(): neither counter goes below zero.
Leave(f) ==
  /\ total' = IF total > 0 THEN total - 1 ELSE total
  /\ perFunction' =
       IF HasCounter(f) /\ perFunction[Id[f]] > 0
       THEN [perFunction EXCEPT ![Id[f]] = @ - 1] ELSE perFunction

\* Every return leaves through one label, and shm_leave() is there.  The statement
\* that called goes on, and nothing announces that.
Return ==
  /\ running
  /\ Len(frames) > 1
  /\ Leave(Top.body)
  /\ frames' = Below
  /\ strayed' = TRUE
  /\ UNCHANGED <<phase, position, buffered, outcome>>

\* The initializers are done and shm_user_main() enters main.
GlobalsDone ==
  /\ phase = "globals"
  /\ Len(frames) = 1
  /\ ~Refused(Main)
  /\ Counting(Main, 1)
  /\ phase' = "main"
  /\ frames' = <<[body |-> Main, line |-> 0]>>
  /\ UNCHANGED <<position, buffered, strayed, outcome>>

\* main returns and shm_end() flushes.
End ==
  /\ phase = "main"
  /\ Len(frames) = 1
  /\ Leave(Main)
  /\ frames' = <<>>
  /\ buffered' = FALSE
  /\ Over(0)
  /\ UNCHANGED <<position, strayed>>

ExecNext ==
  \/ Begin
  \/ \E l \in UNION {Lines[b] : b \in Bodies} : Statement(l) \/ LoopAgain(l)
  \/ \E f \in Functions : Call(f)
  \/ Output \/ Flush \/ Fail \/ Return \/ GlobalsDone \/ End

ExecSpec == ExecInit /\ [][ExecNext]_execVars

-------------------------------------------------------------------------------
OpenCalls == {i \in DOMAIN frames : frames[i].body # Initializer}

OpenCallsOf(f) == {i \in DOMAIN frames : frames[i].body = f}

\* Where the code that is running was written.
Here == [unit |-> UnitOf[Top.body], line |-> Top.line]

\* Depth counts what is on the stack: however a body was left, its call is no
\* longer counted, and none is counted twice.  (fail() leaves without unwinding.)
CountersMatchTheStack ==
  /\ total = Cardinality(OpenCalls)
  /\ \A f \in Functions :
       HasCounter(f) => perFunction[Id[f]] = Cardinality(OpenCallsOf(f))

\* The recursion ceilings: no more calls are ever open than the overall limit,
\* and of one function than its own, whatever calls what.
DepthLimitsHold ==
  /\ Cardinality(OpenCalls) <= Overall
  /\ \A f \in Functions : HasCounter(f) => Cardinality(OpenCallsOf(f)) <= Limit[f]

\* Depth does what it is there for: it counts the open calls, and stops them in time.
DepthIsKept == CountersMatchTheStack /\ DepthLimitsHold

\* A failure names the statement that failed, in the file it is written in, unless
\* that statement had called or looped since it was announced.
FailuresNameTheirPlace ==
  ~strayed => /\ running /\ Top.line # 0 => position = Here
              /\ outcome.status = 1 => outcome.at = Here

\* Whichever way a program ends, what it printed has been written out.
NothingPrintedIsLost == phase = "over" => ~buffered
===============================================================================
