------------------------------ MODULE Compilation -------------------------------
(***************************************************************************)
(* What somebody who runs shc and then looks at its status and at the disk *)
(* can count on (docs and usage of src/src/Driver.cpp): a compilation is   *)
(* one step.  It made what was asked for, or it found the program at fault *)
(* and touched nothing, or it failed and made nothing: the result of an    *)
(* earlier one may still be there.  It concerns no other file, killed or   *)
(* not.  An exit with 0 may hide one thing, a disk full at the close.      *)
(***************************************************************************)
EXTENDS Integers, Functions

VARIABLES
  disk,     \* what is in each file there is
  verdict,  \* of the command: Open, the status it exited with, or Killed
  full,     \* whether the disk filled up as the command closed a file
  request   \* what the command asks for, once it is known

Open == -2
Killed == -1

(***************************************************************************)
(* compiles: the program has no fault.  place, made: where the result goes *)
(* and what it is.  assembly, object: files used on the way.  kept: what   *)
(* stays of the first, if this host cannot take it further.  A command     *)
(* without a program to read (--version, an option there is not) asks for  *)
(* nothing.                                                                *)
(***************************************************************************)
Nothing == [compiles |-> FALSE, place |-> <<>>, made |-> {},
            assembly |-> {}, object |-> {}, kept |-> {}]

There(d, f) == IF f \in DOMAIN d THEN {d[f]} ELSE {}

\* Half written when the disk was full.
Broken == [kind |-> "broken"]

Spares == request.assembly \cup request.object

Elsewhere(d) == Restrict(d, DOMAIN d \ (Spares \cup {request.place}))

Touches == Elsewhere(disk') = Elsewhere(disk)

Answered == verdict' \in {0, 2} /\ request = Nothing /\ UNCHANGED disk

\* An exit with 0.  What was there before is gone.
Succeeded ==
  /\ verdict' = 0
  /\ request.compiles
  /\ Touches
  /\ There(disk', request.place) = {IF full' THEN Broken ELSE request.made}
  /\ \A f \in Spares : There(disk', f) = {}

\* An exit with 1.
Blamed == verdict' = 1 /\ request # Nothing /\ ~request.compiles /\ UNCHANGED disk

AsksForTheText == request.assembly = {}

\* An exit with 2.  What was there before may be there still; nothing new is, but
\* half of a text.
Failed ==
  /\ verdict' = 2
  /\ Touches
  /\ There(disk', request.place) \subseteq
       There(disk, request.place) \cup (IF AsksForTheText THEN {Broken} ELSE {})
  /\ disk' # disk => \A f \in request.assembly :
                       There(disk', f) \subseteq request.kept \cup {Broken}
  /\ \A f \in request.object : There(disk', f) \subseteq There(disk, f)

WasKilled == verdict' = Killed /\ Touches

Compile == verdict = Open /\ (Answered \/ Succeeded \/ Blamed \/ Failed \/ WasKilled)

NextCommand == verdict # Open /\ verdict' = Open /\ UNCHANGED disk

Init == verdict = Open

Next == Compile \/ NextCommand

Spec == Init /\ [][Next]_<<disk, verdict>>
================================================================================
