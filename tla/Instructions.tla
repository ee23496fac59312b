------------------------------ MODULE Instructions -----------------------------
(***************************************************************************)
(* What the processors do with the handful of instructions the emitters    *)
(* use: moving words and halves of words between registers and memory,     *)
(* adding to addresses, extending, branching ahead, calling.  Memory is    *)
(* what has been written to it, in words, by region and offset.            *)
(***************************************************************************)
EXTENDS Emitter

OfStack == -5
OfGlobals == -6
OfNothing == -7    \* what a register or a cell holds before anything is put there
OfBefore == -8

Regions == {OfStack, OfGlobals}

Sp == <<"sp", 0>>
Fp == <<"fp", 0>>

ValueOf(word) == 65536 * word[3] + word[4]

Word(n) == <<0, 0, n \div 65536, n % 65536>>

IsNumber(word) == word[1] = 0 /\ word[2] = 0 /\ word[3] >= 0

PlusBytes(word, n) == [word EXCEPT ![4] = @ + n]

Held(m, where) == IF where \in DOMAIN m.mem THEN m.mem[where] ELSE Pointing(OfBefore, where[2])

Writing(m, reg, word) == [m EXCEPT !.reg[reg] = word]

Reject(m) == [m EXCEPT !.fine = FALSE]

\* The cell a base register and an offset name: a whole word of a known region.
Reached(m, base, offset) == <<m.reg[base][1], m.reg[base][4] + offset>>

Reachable(m, base, offset) ==
  /\ m.reg[base][1] \in Regions /\ m.reg[base] = Pointing(m.reg[base][1], m.reg[base][4])
  /\ (m.reg[base][4] + offset) % 8 = 0

\* Writing a half of a register clears the rest, of a cell keeps it.
Loaded(width, word) == IF width = 4 THEN <<0, 0, word[3], word[4]>> ELSE word

Stored(width, old, word) == IF width = 4 THEN <<old[1], old[2], word[3], word[4]>> ELSE word

LoadWord(reg, width, base, offset) ==
  [op |-> "load", reg |-> reg, width |-> width, base |-> base, offset |-> offset]
StoreWord(reg, width, base, offset) ==
  [op |-> "store", reg |-> reg, width |-> width, base |-> base, offset |-> offset]
Copy(to, from, width) == [op |-> "copy", reg |-> to, base |-> from, width |-> width]
SetTo(reg, word) == [op |-> "set", reg |-> reg, word |-> word]
Insert(reg, part, at) == [op |-> "insert", reg |-> reg, part |-> part, at |-> at]
Added(to, from, n) == [op |-> "plus", reg |-> to, base |-> from, n |-> n]
AddedRegister(to, from, by, sign) == [op |-> "plusRegister", reg |-> to, base |-> from, by |-> by, sign |-> sign]
Extend(to, from) == [op |-> "extend", reg |-> to, base |-> from]
Skip(reg, conditional, count) == [op |-> "skip", reg |-> reg, conditional |-> conditional, count |-> count]
CallIt == [op |-> "call"]
Refused == [op |-> "refused"]

\* The callee leaves junk where it may: in the registers it need not keep, and in
\* the first bytes of the caller's frame where they are its own.
CalleeRuns(m, kept, shadow) ==
  LET home == {<<OfStack, m.reg[Sp][4] + 8 * k>> : k \in 0..(shadow \div 8) - 1}
  IN  IF m.reg[Sp][4] % 16 # 0 THEN Reject(m)
      ELSE [m EXCEPT !.reg = [r \in DOMAIN @ |-> IF r \in kept THEN @[r] ELSE Pointing(OfNothing, 99)],
                     !.mem = [at \in home \cup DOMAIN @ |-> IF at \in home THEN Pointing(OfNothing, 98) ELSE @[at]]]

Obey(m, i, kept, shadow) ==
  IF m.skip > 0 THEN [m EXCEPT !.skip = @ - 1]
  ELSE CASE i.op \in {"load", "store"} /\ ~Reachable(m, i.base, i.offset) -> Reject(m)
         [] i.op = "load" /\ Reachable(m, i.base, i.offset) ->
              Writing(m, i.reg, Loaded(i.width, Held(m, Reached(m, i.base, i.offset))))
         [] i.op = "store" /\ Reachable(m, i.base, i.offset) ->
              LET at == Reached(m, i.base, i.offset)
              IN  [m EXCEPT !.mem = Put(@, at, Stored(i.width, Held(m, at), m.reg[i.reg]))]
         [] i.op = "copy" -> Writing(m, i.reg, Loaded(i.width, m.reg[i.base]))
         [] i.op = "set" -> Writing(m, i.reg, i.word)
         [] i.op = "insert" -> [m EXCEPT !.reg[i.reg][4 - i.at] = i.part]
         [] i.op = "plus" -> Writing(m, i.reg, PlusBytes(m.reg[i.base], i.n))
         [] i.op = "plusRegister" ->
              IF IsNumber(m.reg[i.by]) THEN Writing(m, i.reg, PlusBytes(m.reg[i.base], i.sign * ValueOf(m.reg[i.by])))
              ELSE Reject(m)
         [] i.op = "extend" -> Writing(m, i.reg, SignExtended(m.reg[i.base]))
         [] i.op = "skip" -> [m EXCEPT !.skip = IF ~i.conditional \/ IsZero(m.reg[i.reg]) THEN i.count ELSE 0]
         [] i.op = "call" -> CalleeRuns(m, kept, shadow)
         [] i.op = "refused" -> Reject(m)
===============================================================================
