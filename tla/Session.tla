------------------------------- MODULE Session --------------------------------
(***************************************************************************)
(* The debugging session of a debug build (src/runtime/Debug.cpp) around a *)
(* running program: shm_line() offers every statement to it, and while the *)
(* program is stopped an editor's commands arrive on standard input, sent  *)
(* at any moment, until the editor closes the channel.                     *)
(***************************************************************************)
EXTENDS Execution, SequencesExt

CONSTANTS
  Settings,       \* the values of SHM_DEBUG; "" is set and empty
  Places,         \* <<unit, line>> pairs the editor may name in b and d
  Orders,         \* the commands without operands the editor uses
  BreakCapacity,  \* Debug::capacity, 100
  MaxInbox        \* bound: commands sent and not yet read

Unset == "unset"

ASSUME SessionAssumption ==
  /\ Settings \subseteq STRING
  /\ Places \subseteq Nat \X Nat
  /\ Orders \subseteq {"c", "s", "n", "o", "w", "q"}
  /\ BreakCapacity \in Nat /\ MaxInbox \in Nat

Commands == [do: Orders] \cup [do: {"b", "d"}, place: Places]

VARIABLES
  setting,  \* SHM_DEBUG in the environment
  armed,    \* Debug::armed_
  mode,     \* Debug::mode_
  rest,     \* Debug::restDepth_
  breaks,   \* Debug::units_, lines_ and count_
  talk,     \* "new" before begin(), "talking" in converse(), "idle" outside it
  said,     \* the last thing said on standard error
  inbox,    \* commands in the pipe
  open,     \* the editor has not closed its end
  asked,    \* history: the breakpoints an editor believes are set
  given     \* history: how many calls were open at the last command to go on

sessionVars == <<setting, armed, mode, rest, breaks, talk, said, inbox, open,
                 asked, given>>

vars == <<execVars, sessionVars>>

idle == talk = "idle"

-------------------------------------------------------------------------------
Nothing == [what |-> "nothing"]

SessionInit ==
  /\ ExecInit
  /\ setting \in Settings \cup {Unset}
  /\ armed = FALSE
  /\ mode = "Running"
  /\ rest = 0
  /\ breaks = <<>>
  /\ talk = "new"
  /\ said = Nothing
  /\ inbox = <<>>
  /\ open = TRUE
  /\ asked = {}
  /\ given = 0

\* askedToDebug().
AskedToDebug == setting \notin {Unset, "", "0"}

\* Debug::begin(): arm, say #ready, converse; or stay dormant.
Arm ==
  /\ talk = "new"
  /\ armed' = AskedToDebug
  /\ IF armed' THEN talk' = "talking" /\ said' = [what |-> "ready"]
               ELSE talk' = "idle" /\ UNCHANGED said
  /\ UNCHANGED <<execVars, setting, mode, rest, breaks, inbox, open, asked, given>>

-------------------------------------------------------------------------------
\* Mutant: "out" stops at this depth too.
ModeStopsInclusive == \/ mode = "Stepping"
                      \/ mode = "Over" /\ total <= rest
                      \/ mode = "Out" /\ total <= rest

\* The switch of Debug::at().
ModeStops == \/ mode = "Stepping"
             \/ mode = "Over" /\ total <= rest
             \/ mode = "Out" /\ total < rest

IsBreakpoint(place) == \E i \in DOMAIN breaks : breaks[i] = place

\* converse(): flush, say #stop, wait.
Stop(place) ==
  /\ talk' = "talking"
  /\ buffered' = FALSE
  /\ said' = [what |-> "stop", place |-> place, depth |-> total]

\* shm_line() with Debug::at().
Step(l) ==
  /\ idle
  /\ StatementBegins(l)
  /\ LET place == <<UnitOf[Top.body], l>> IN
     IF armed /\ (ModeStops \/ IsBreakpoint(place))
     THEN Stop(place) ELSE UNCHANGED <<talk, said, buffered>>
  /\ UNCHANGED <<setting, armed, mode, rest, breaks, inbox, open, asked, given>>

\* Debug::ending().
Ending(status) ==
  said' = IF armed THEN [what |-> "exit", status |-> status] ELSE said

\* The program goes on as Execution says, saying #exit if it ends.
Run ==
  /\ idle
  /\ \/ Begin \/ Output \/ Flush \/ Return \/ GlobalsDone
     \/ \E f \in Functions : Call(f)
     \/ \E l \in UNION {Lines[b] : b \in Bodies} : LoopAgain(l)
  /\ UNCHANGED sessionVars

Finish ==
  /\ idle
  /\ \/ End /\ Ending(0)
     \/ Fail /\ Ending(1)
  /\ UNCHANGED <<setting, armed, mode, rest, breaks, talk, inbox, open, asked, given>>

-------------------------------------------------------------------------------
\* fgets() in converse() has a line.
Hear(order) ==
  /\ talk = "talking"
  /\ inbox # <<>> /\ Head(inbox).do = order
  /\ inbox' = Tail(inbox)
  /\ UNCHANGED <<setting, open>>

\* c and s.
GoOn(order, how) ==
  /\ Hear(order)
  /\ mode' = how
  /\ talk' = "idle"
  /\ given' = Cardinality(OpenCalls)
  /\ UNCHANGED <<execVars, armed, rest, breaks, said, asked>>

\* n and o remember the depth they were given at.
GoOnFrom(order, how) ==
  /\ Hear(order)
  /\ mode' = how
  /\ rest' = total
  /\ talk' = "idle"
  /\ given' = Cardinality(OpenCalls)
  /\ UNCHANGED <<execVars, armed, breaks, said, asked>>

Where ==
  /\ Hear("w")
  /\ said' = [what |-> "at", place |-> <<position.unit, position.line>>, depth |-> total]
  /\ UNCHANGED <<execVars, armed, mode, rest, breaks, talk, asked, given>>

\* addBreakpoint(): one already there, and one too many, are ignored.
Added(place) ==
  IF IsBreakpoint(place) \/ Len(breaks) >= BreakCapacity
  THEN breaks ELSE Append(breaks, place)

SetBreak ==
  /\ Hear("b")
  /\ breaks' = Added(Head(inbox).place)
  /\ asked' = IF Cardinality(asked) < BreakCapacity
              THEN asked \cup {Head(inbox).place} ELSE asked
  /\ UNCHANGED <<execVars, armed, mode, rest, talk, said, given>>

\* Mutant: the last is dropped and not moved into the place of the one removed.
RemovedUnswapped(i) == Front(breaks)

\* removeBreakpoint(): the last takes the place of the one removed.
Removed(i) == Front([breaks EXCEPT ![i] = Last(breaks)])

ClearBreak ==
  /\ Hear("d")
  /\ breaks' = IF IsBreakpoint(Head(inbox).place)
               THEN Removed(CHOOSE i \in DOMAIN breaks : breaks[i] = Head(inbox).place)
               ELSE breaks
  /\ asked' = asked \ {Head(inbox).place}
  /\ UNCHANGED <<execVars, armed, mode, rest, talk, said, given>>

Quit ==
  /\ Hear("q")
  /\ said' = [what |-> "exit", status |-> 130]
  /\ buffered' = FALSE
  /\ talk' = "idle"
  /\ Over(130)
  /\ UNCHANGED <<frames, total, perFunction, position, strayed, armed, mode, rest, breaks,
                 asked, given>>

\* Mutant: the session is over and the breakpoints are still honoured.
HearEndStillArmed ==
  /\ talk = "talking"
  /\ inbox = <<>> /\ ~open
  /\ mode' = "Running"
  /\ talk' = "idle"
  /\ UNCHANGED <<execVars, setting, armed, rest, breaks, said, inbox, open, asked, given>>

\* fgets() finds the channel closed: no session any more, a program.
HearEnd ==
  /\ talk = "talking"
  /\ inbox = <<>> /\ ~open
  /\ mode' = "Running"
  /\ armed' = FALSE
  /\ talk' = "idle"
  /\ UNCHANGED <<execVars, setting, rest, breaks, said, inbox, open, asked, given>>

Converse ==
  \/ GoOn("c", "Running") \/ GoOn("s", "Stepping")
  \/ GoOnFrom("n", "Over") \/ GoOnFrom("o", "Out")
  \/ Where \/ SetBreak \/ ClearBreak \/ Quit \/ HearEnd

\* The editor writes whenever it likes, and once closes its end.
Send(c) ==
  /\ AskedToDebug
  /\ open /\ Len(inbox) < MaxInbox
  /\ inbox' = Append(inbox, c)
  /\ UNCHANGED <<execVars, setting, armed, mode, rest, breaks, talk, said, open,
                 asked, given>>

Close ==
  /\ open
  /\ open' = FALSE
  /\ UNCHANGED <<execVars, setting, armed, mode, rest, breaks, talk, said, inbox,
                 asked, given>>

Program == Arm \/ Run \/ Finish \/ \E l \in UNION {Lines[b] : b \in Bodies} : Step(l)

SessionNext == Program \/ Converse \/ Close \/ \E c \in Commands : Send(c)

\* converse() reads in a loop: a line that is there, or the end of the channel,
\* is read.  Nothing makes the editor write or close, nor the program end.
SessionSpec == SessionInit /\ [][SessionNext]_vars /\ WF_vars(Converse)

-------------------------------------------------------------------------------
\* Whoever is told a place, by a failure, at a stop or asking for it, is told that of
\* the statement that runs and of the calls that are open, unless that statement had
\* called or looped since it was announced (FailuresNameTheirPlace).
PlacesAreRight ==
  /\ FailuresNameTheirPlace
  /\ talk = "talking" /\ said.what \in {"stop", "at"} /\ frames # <<>> =>
       /\ said.place = <<Here.unit, Here.line>>
       /\ said.depth = Cardinality(OpenCalls)

\* However breakpoints were set, set twice and cleared, the table holds exactly
\* those asked for and not cleared, each once (the capacity permitting).
BreakpointsAreTheOnesAsked ==
  /\ {breaks[i] : i \in DOMAIN breaks} = asked
  /\ Len(breaks) = Cardinality(asked)

\* An armed program stops at a statement exactly when it has a breakpoint, or
\* the last command was s, or it was n and no more calls are open than then, or
\* it was o and fewer are: judged by the calls really open, not by the counter.
StopsExactlyWhereAsked ==
  [][ (position' # position \/ (idle /\ talk' = "talking")) =>
        LET place == <<position'.unit, position'.line>>
            calls == Cardinality(OpenCalls')
        IN (talk' = "talking") <=>
             armed /\ (\/ place \in asked
                       \/ mode = "Stepping"
                       \/ mode = "Over" /\ calls <= given
                       \/ mode = "Out" /\ calls < given) ]_vars

\* Whoever looks at a program that is stopped or over sees all it has printed.
PrintedTextIsSeen == NothingPrintedIsLost /\ (talk = "talking" => ~buffered)

\* tests/debug.sh: "the other end going away must not leave a program stopped
\* for ever": once the channel is closed the program stops finitely often and
\* is never left stopped.
AClosedChannelLetsItRun == (<>~open) => <>[](talk # "talking")
===============================================================================
