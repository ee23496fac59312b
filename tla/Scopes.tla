-------------------------------- MODULE Scopes --------------------------------
(***************************************************************************)
(* Names of one function: Checker walks its statements once, binding each  *)
(* name to a slot of the frame by a stack of scopes, and refuses what the  *)
(* scopes and alwaysReturns() cannot vouch for; CodeGen lowers the blocks  *)
(* to jumps; the run sees slots and jumps only.  Beside it goes the        *)
(* language's own account of the same run: blocks open and close as they   *)
(* execute, and a name means the innermost binding there is.               *)
(* Statements arrive one by one, so every function of MaxItems is covered. *)
(***************************************************************************)
EXTENDS Integers, Sequences, FiniteSetsExt

CONSTANTS
  Names,
  MaxItems,  \* bound: items of code in a function
  MaxDepth   \* bound: blocks within one another

ASSUME ScopesAssumption == MaxItems \in Nat /\ MaxDepth \in Nat

VARIABLES
  phase,     \* "checking", "rejected", "running", "returned", "fell" off the end
  outputs,   \* has the function outputs
  globals,   \* names of globals declared above it
  levels,    \* Scope::levels_, and what alwaysReturns() will make of each block
  declaredLocals,
  slots,     \* Frame::variables_
  code,      \* what CodeGen emits
  pc, memory,  \* of the run: the item reached, what each slot holds
  env        \* the language's blocks: what each name holds in each

vars == <<phase, outputs, globals, levels, declaredLocals, slots, code, pc, memory, env>>

checker == <<levels, declaredLocals, slots, code>>
runtime == <<pc, memory, env>>

NoSlot == 0
Unset == 0

\* A block: its names, whether it always returns, and for an if whether every arm
\* before this one did and whether this one is the else.
Level(kind, returnsSoFar) ==
  [kind |-> kind, names |-> [n \in Names |-> NoSlot], returns |-> FALSE,
   arms |-> returnsSoFar]

Global(n) == <<"global", n>>
Local(k) == <<"frame", k>>

ScopesInit ==
  /\ phase = "checking"
  /\ outputs \in BOOLEAN
  /\ globals \in SUBSET Names
  /\ levels = <<Level("body", TRUE)>>
  /\ declaredLocals = {}
  /\ slots = 0
  /\ code = <<>>
  /\ pc = 1
  /\ memory = [s \in {Global(n) : n \in globals} \cup {Local(k) : k \in 1..MaxItems} |->
                 IF s[1] = "global" THEN -1 ELSE Unset]
  /\ env = <<[n \in Names |-> Unset]>>

-------------------------------------------------------------------------------
checking == phase = "checking"

Inner == levels[Len(levels)]

Depth == Len(levels)

\* Scope::lookup()
LocalSlot(n) ==
  LET found == {i \in DOMAIN levels : levels[i].names[n] # NoSlot}
  IN  IF found = {} THEN NoSlot
      ELSE levels[Max(found)].names[n]

\* Checker::lookup()
Lookup(n) == IF LocalSlot(n) # NoSlot THEN Local(LocalSlot(n)) ELSE Global(n)

Known(n) == LocalSlot(n) # NoSlot \/ n \in globals

\* Items of code: a read or a write of a slot, and the labels and jumps of blocks.
Item(op, n, slot) == [op |-> op, name |-> n, slot |-> slot, depth |-> Depth]

Mark(op) == Item(op, "", <<"frame", NoSlot>>)

Emit(items) == Len(code) + Len(items) <= MaxItems /\ code' = code \o items

Reject == phase' = "rejected" /\ UNCHANGED <<outputs, globals, checker, runtime>>

Go == UNCHANGED <<phase, outputs, globals, runtime>>

Bind(n) == [levels EXCEPT ![Depth].names[n] = slots + 1]

\* Mutant: the stack of scopes alone is asked.
TakenByScopes(n) == LocalSlot(n) # NoSlot

\* A declared local is the whole call's, though its name ends with its block.
Taken(n) == LocalSlot(n) # NoSlot \/ n \in declaredLocals

\* visit(Declare)
Declare(n) ==
  /\ checking
  /\ IF Taken(n) THEN Reject
     ELSE /\ levels' = Bind(n)
          /\ slots' = slots + 1
          /\ declaredLocals' = declaredLocals \cup {n}
          /\ Emit(<<Item("declare", n, Local(slots + 1))>>)
          /\ Go

\* visit(Assign): a name that means nothing yet is made here.
Assign(n) ==
  /\ checking
  /\ IF Known(n)
     THEN Emit(<<Item("write", n, Lookup(n))>>) /\ UNCHANGED <<levels, slots>>
     ELSE /\ levels' = Bind(n)
          /\ slots' = slots + 1
          /\ Emit(<<Item("make", n, Local(slots + 1))>>)
  /\ UNCHANGED declaredLocals
  /\ Go

\* visit(Var)
Read(n) ==
  /\ checking
  /\ IF ~Known(n) THEN Reject
     ELSE Emit(<<Item("read", n, Lookup(n))>>) /\ UNCHANGED <<levels, declaredLocals, slots>> /\ Go

-------------------------------------------------------------------------------
\* If, while and for open a block; else takes another arm.
Open(level, items) ==
  /\ checking
  /\ Depth < MaxDepth
  /\ levels' = Append(levels, level)
  /\ Emit(items)
  /\ UNCHANGED declaredLocals
  /\ Go

OpenIf == Open(Level("if", TRUE), <<Mark("if")>>) /\ UNCHANGED slots

OpenWhile == Open(Level("loop", TRUE), <<Mark("while")>>) /\ UNCHANGED slots

\* visit(For): hidden slots, then the counter in a scope of its own.  The body has
\* another within it; as the two end together they are one level here.
OpenFor(n) ==
  /\ Open([Level("loop", TRUE) EXCEPT !.names[n] = slots + 2],
          <<Item("for", n, Local(slots + 2))>>)
  /\ slots' = slots + 2

\* The next arm of an if: the branch before it jumps past the rest.
NextArm(kind, op) ==
  /\ checking
  /\ Inner.kind = "if"
  /\ levels' = [levels EXCEPT ![Depth] = Level(kind, Inner.arms /\ Inner.returns)]
  /\ Emit(<<Mark("endarm"), Mark(op)>>)
  /\ UNCHANGED <<declaredLocals, slots>>
  /\ Go

ElseIf == NextArm("if", "elseif")

Else == NextArm("else", "else")

\* Mutant: an if needs no else to return always.
BlockReturnsElseless(level) == level.kind \in {"if", "else"} /\ level.arms /\ level.returns

\* alwaysReturns() of an if; of a loop, never.
BlockReturns(level) == level.kind = "else" /\ level.arms /\ level.returns

\* Mutant: a block keeps its names when it closes.
ClosedKeeping ==
  LET outer == levels[Depth - 1]
  IN  Append(SubSeq(levels, 1, Depth - 2),
             [outer EXCEPT !.returns = @ \/ BlockReturns(Inner), !.names = Inner.names])

\* checkBlock(): the scope is popped.
Closed ==
  Append(SubSeq(levels, 1, Depth - 2),
         [levels[Depth - 1] EXCEPT !.returns = @ \/ BlockReturns(Inner)])

Close ==
  /\ checking
  /\ Depth > 1
  /\ levels' = Closed
  /\ Emit(IF Inner.kind = "loop" THEN <<Mark("again")>> ELSE <<Mark("endarm"), Mark("endif")>>)
  /\ UNCHANGED <<declaredLocals, slots>>
  /\ Go

Leave(op) ==
  /\ checking
  /\ \E i \in DOMAIN levels : levels[i].kind = "loop"
  /\ Emit(<<Mark(op)>>)
  /\ UNCHANGED <<levels, declaredLocals, slots>>
  /\ Go

Return ==
  /\ checking
  /\ levels' = [levels EXCEPT ![Depth].returns = TRUE]
  /\ Emit(<<Mark("return")>>)
  /\ UNCHANGED <<declaredLocals, slots>>
  /\ Go

\* The end of check(Function)
Finish ==
  /\ checking
  /\ Depth = 1
  /\ phase' = IF outputs /\ ~Inner.returns THEN "rejected" ELSE "running"
  /\ UNCHANGED <<outputs, globals, checker, runtime>>

-------------------------------------------------------------------------------
running == phase = "running" /\ pc <= Len(code)

At == code[pc]

\* The label a block's jumps go to: the next item of its depth with one of ops.
Label(from, depth, ops) ==
  Min({j \in from + 1..Len(code) : code[j].depth = depth /\ code[j].op \in ops})

\* The loop around i, and its end.
LoopsAround(i) ==
  {l \in 1..i - 1 : /\ code[l].op \in {"while", "for"}
                     /\ Label(l, code[l].depth + 1, {"again"}) >= i}

LoopOf(i) == Max(LoopsAround(i))

AgainOf(l) == Label(l, code[l].depth + 1, {"again"})

\* The language's account: the innermost block that has the name.
Holders(n) == {i \in DOMAIN env : env[i][n] # Unset}

Meant(n) == IF Holders(n) # {} THEN env[Max(Holders(n))][n]
            ELSE IF n \in globals THEN memory[Global(n)]
            ELSE Unset

Opened == Append(env, [n \in Names |-> Unset])

Shut(depth) == SubSeq(env, 1, depth)

Stay == UNCHANGED <<phase, outputs, globals, checker>>

\* A write: the slot, and the name in the block it belongs to.  What is written is
\* the place that wrote it.
RunWrite ==
  /\ running /\ At.op \in {"declare", "make", "write"}
  /\ memory' = [memory EXCEPT ![At.slot] = pc]
  /\ env' = IF At.op # "write" THEN [env EXCEPT ![Len(env)][At.name] = pc]
            ELSE IF Holders(At.name) = {} THEN env
            ELSE [env EXCEPT ![Max(Holders(At.name))][At.name] = pc]
  /\ pc' = pc + 1
  /\ Stay

RunRead ==
  /\ running /\ At.op = "read"
  /\ pc' = pc + 1
  /\ UNCHANGED <<memory, env>>
  /\ Stay

\* visit(If): a condition that does not hold jumps to the next arm.
RunCondition ==
  /\ running /\ At.op \in {"if", "elseif"}
  /\ \/ pc' = pc + 1 /\ env' = Opened
     \/ /\ pc' = LET next == Label(pc, Len(env) + 1, {"elseif", "else", "endif"})
                  IN  IF code[next].op = "elseif" THEN next ELSE next + 1
        /\ env' = IF code[pc' - 1].op = "else" THEN Opened ELSE env
  /\ UNCHANGED memory
  /\ Stay

\* An arm jumps to the end of the if.
RunEndArm ==
  /\ running /\ At.op = "endarm"
  /\ pc' = Label(pc, Len(env), {"endif"}) + 1
  /\ env' = Shut(Len(env) - 1)
  /\ UNCHANGED memory
  /\ Stay

\* visit(While), visit(For): the top of the loop; a for sets its counter.
RunLoop ==
  /\ running /\ At.op \in {"while", "for"}
  /\ \/ /\ pc' = pc + 1
        /\ IF At.op = "for"
           THEN /\ memory' = [memory EXCEPT ![At.slot] = pc]
                /\ env' = Append(env, [n \in Names |-> IF n = At.name THEN pc ELSE Unset])
           ELSE env' = Opened /\ UNCHANGED memory
     \/ pc' = AgainOf(pc) + 1 /\ UNCHANGED <<memory, env>>
  /\ Stay

RunAgain ==
  /\ running /\ At.op \in {"again", "continue"}
  /\ pc' = LoopOf(pc)
  /\ env' = Shut(code[pc'].depth)
  /\ UNCHANGED memory
  /\ Stay

RunBreak ==
  /\ running /\ At.op = "break"
  /\ pc' = AgainOf(LoopOf(pc)) + 1
  /\ env' = Shut(code[LoopOf(pc)].depth)
  /\ UNCHANGED memory
  /\ Stay

RunReturn ==
  /\ running /\ At.op = "return"
  /\ phase' = "returned"
  /\ UNCHANGED <<outputs, globals, checker, runtime>>

RunEnd ==
  /\ phase = "running" /\ pc > Len(code)
  /\ phase' = "fell"
  /\ UNCHANGED <<outputs, globals, checker, runtime>>

ScopesNext ==
  \/ \E n \in Names : Declare(n) \/ Assign(n) \/ Read(n) \/ OpenFor(n)
  \/ OpenIf \/ OpenWhile \/ ElseIf \/ Else \/ Close
  \/ Leave("break") \/ Leave("continue") \/ Return \/ Finish
  \/ RunWrite \/ RunRead \/ RunCondition \/ RunEndArm \/ RunLoop \/ RunAgain \/ RunBreak
  \/ RunReturn \/ RunEnd

ScopesSpec == ScopesInit /\ [][ScopesNext]_vars

-------------------------------------------------------------------------------
\* Whatever blocks a run enters, leaves, repeats or jumps out of, a slot that is
\* read holds what the language says the name holds there, and holds something.
ReadsFollowScopes ==
  running /\ At.op = "read" => memory[At.slot] = Meant(At.name) /\ memory[At.slot] # Unset

\* Parser.cpp, parseStatementBody(): no function declares a name twice, not in
\* blocks that never exist together either.
DeclaredOnce ==
  \A i, j \in DOMAIN code :
    code[i].op = "declare" /\ code[j].op = "declare" /\ code[i].name = code[j].name => i = j

\* A function with outputs returns, on every way through it.
NeverFallsOff == outputs => phase # "fell"
===============================================================================
