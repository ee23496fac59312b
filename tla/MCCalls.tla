------------------------------- MODULE MCCalls --------------------------------
(***************************************************************************)
(* The three targets with fewer registers, and every call of up to four    *)
(* inputs, of three where an element may be real; real elements only come  *)
(* back on the target that counts by position.                             *)
(***************************************************************************)
EXTENDS SequencesExt

\* arm64: 8 and 8, here 3 and 2; System V: 6 and 8, here 2 and 3; Windows: 4.
Arm64 == [ints |-> 3, reals |-> 2, positional |-> FALSE, shared |-> TRUE]
SystemV == [ints |-> 2, reals |-> 3, positional |-> FALSE, shared |-> FALSE]
Windows == [ints |-> 3, reals |-> 3, positional |-> TRUE, shared |-> FALSE]

Targets == {Arm64, SystemV, Windows}

Value(k) == [kind |-> k, ref |-> FALSE, element |-> FALSE]
Reference(k) == [kind |-> k, ref |-> TRUE, element |-> FALSE]
Element(k) == [kind |-> k, ref |-> TRUE, element |-> TRUE]

Plain == {Value("Int"), Value("Real"), Reference("Real"), Element("Int")}

Call(shapes, most) == [inputs: BoundedSeq(shapes, most), outputs: {0, 2}, foreign: {FALSE}]

Foreign == [inputs: BoundedSeq({Value("Int"), Value("Real"), Reference("Real")}, 4), outputs: {0},
            foreign: {TRUE}]

MCCases == [machine: Targets, call: Call(Plain, 4) \cup Foreign]
             \cup [machine: {Windows}, call: Call(Plain \cup {Element("Real")}, 3)]

MCRealElements == [machine: Targets, call: Call(Plain \cup {Element("Real")}, 2)]
===============================================================================
