------------------------------ MODULE BackendsProofs ---------------------------
(***************************************************************************)
(* The emitters of the three targets keep the promises of Emitter.h: for   *)
(* every frame the code generator may ask for, every sequence of           *)
(* operations and every text.                                              *)
(*                                                                         *)
(* The argument goes from the machine to the operations.  First what one   *)
(* instruction does (Do), then what a code does (Ran), told as what it     *)
(* spares: the registers and the cells it leaves alone.  Then that         *)
(* AArch64 code fits the fields of its instructions, where an offset too   *)
(* far goes through x16, and that x86-64 text is read as what it means in  *)
(* either spelling.  The places of a function share no register and no     *)
(* cell, but for an accumulator and the first argument of its file; so an  *)
(* operation loses just the promises it withdraws, and brings the one it   *)
(* makes.  BackInv joins these to the prologue, the epilogue and the data. *)
(***************************************************************************)
EXTENDS Backends, FiniteSetTheorems, SequenceTheorems, WellFoundedInduction, TLAPS

\* Induction up to a bound, by sets: the order of the naturals is well founded.
LEMMA SmallestExists ==
  ASSUME NEW T, T \subseteq Nat, T # {}
  PROVE  \E m \in T : \A k \in T : m <= k
<1> DEFINE Less == OpToRel(<, Nat)
<1>1. \A k, m \in Nat : k < m => <<k, m>> \in Less
  BY Zenon DEF OpToRel
<1>2. IsWellFoundedOn(Less, Nat)
  BY NatLessThanWellFounded, Zenon
<1> HIDE DEF Less
<1>3. PICK m \in T : \A k \in T : ~(<<k, m>> \in Less)
  BY ONLY <1>2, T \subseteq Nat, T # {}, WFMin
<1>4. \A k \in T : m <= k
  <2>1. ASSUME NEW k \in T PROVE m <= k
    <3>1. k \in Nat /\ m \in Nat
      OBVIOUS
    <3>2. ~(k < m)
      BY <1>1, <1>3, <3>1
    <3> QED BY <3>1, <3>2
  <2> QED BY <2>1
<1> QED BY <1>4

\* Induction up to a bound, as a set that every number up to k gets into.
LEMMA Upward ==
  ASSUME NEW k \in Nat, NEW S, 0 \in S, \A i \in 1..k : i - 1 \in S => i \in S
  PROVE  \A i \in 0..k : i \in S
<1> SUFFICES ASSUME (0..k) \ S # {} PROVE FALSE
  OBVIOUS
<1>1. PICK m \in (0..k) \ S : \A i \in (0..k) \ S : m <= i
  <2>1. (0..k) \ S \subseteq Nat
    OBVIOUS
  <2> QED BY <2>1, SmallestExists
<1>2. m # 0 /\ m \in 1..k /\ m - 1 \in 0..k /\ ~(m <= m - 1)
  BY <1>1
<1> QED BY <1>1, <1>2

-------------------------------------------------------------------------------
(* Running instructions. *)

Do(m, i) == Obey(m, i, Preserved, ShadowBytes)

\* What the processor is before each instruction exists, and is what Running says.
LEMMA RunningIs ==
  ASSUME NEW m, NEW S, NEW code \in Seq(S)
  PROVE  /\ Running(m, code)[0] = m
         /\ \A k \in 1..Len(code) : Running(m, code)[k] = Do(Running(m, code)[k - 1], code[k])
<1> DEFINE n == Len(code)
           Step(g, k) == IF k = 0 THEN m ELSE Do(g[k - 1], code[k])
           Good(g, l) == g = [k \in 0..l |-> Step(g, k)]
           T == {l \in 0..n : \E g : Good(g, l)}
<1>0. n \in Nat
  OBVIOUS
<1>1. 0 \in T
  <2> DEFINE g0 == [k \in 0..0 |-> m]
  <2>1. Good(g0, 0) /\ 0 \in 0..n
    BY <1>0
  <2> HIDE DEF Good, g0
  <2> QED BY <2>1
<1>2. ASSUME NEW l \in 1..n, l - 1 \in T PROVE l \in T
  <2>1. PICK g : Good(g, l - 1)
    BY <1>2
  <2> DEFINE g2 == [k \in 0..l |-> IF k = l THEN Do(g[l - 1], code[l]) ELSE g[k]]
  <2>2. \A k \in 0..l - 1 : g2[k] = g[k]
    BY <1>0
  <2>3. ASSUME NEW k \in 0..l PROVE g2[k] = Step(g2, k)
    <3>1. CASE k = l
      BY <1>0, <2>2, <3>1
    <3>2. CASE k # l
      <4>1. k \in 0..l - 1 /\ (k # 0 => k - 1 \in 0..l - 1)
        BY <1>0, <3>2
      <4>2. g[k] = Step(g, k)
        BY <2>1, <4>1
      <4> QED BY <2>2, <4>1, <4>2
    <3> QED BY <3>1, <3>2
  <2>4. Good(g2, l) /\ l \in 0..n
    BY <1>0, <2>3
  <2> HIDE DEF Good, g2
  <2> QED BY <2>4
<1>3. n \in T
  <2> HIDE DEF T
  <2>1. \A k \in 0..n : k \in T
    BY <1>0, <1>1, <1>2, Upward
  <2> QED BY <1>0, <2>1
<1>4. PICK g : Good(g, n)
  BY <1>3
<1>5. Running(m, code) = CHOOSE f : Good(f, n)
  BY DEF Running, Do
<1>6. Good(Running(m, code), n)
  BY <1>4, <1>5
<1> DEFINE f == Running(m, code)
<1> HIDE DEF f
<1>7. \A k \in 0..n : f[k] = Step(f, k)
  BY <1>6 DEF f
<1>8. 0 \in 0..n /\ \A k \in 1..n : k \in 0..n /\ k # 0
  BY <1>0
<1> QED BY <1>7, <1>8 DEF f

IsCode(code) == \E S : code \in Seq(S)

\* Nothing, and one instruction more.
LEMMA RanNothing == \A m : Ran(m, <<>>) = m
<1> SUFFICES ASSUME NEW m PROVE Ran(m, <<>>) = m
  OBVIOUS
<1>1. <<>> \in Seq({}) /\ Len(<<>>) = 0
  OBVIOUS
<1>2. Running(m, <<>>)[0] = m
  BY <1>1, RunningIs
<1> QED BY <1>1, <1>2 DEF Ran

\* Two codes that begin alike run alike as far as they agree.
LEMMA RanAlike ==
  ASSUME NEW m, NEW S, NEW c \in Seq(S), NEW d \in Seq(S), Len(c) <= Len(d), \A k \in 1..Len(c) : d[k] = c[k]
  PROVE  \A k \in 0..Len(c) : Running(m, d)[k] = Running(m, c)[k]
<1> DEFINE f == Running(m, c)
           g == Running(m, d)
           T == {k \in 0..Len(c) : g[k] = f[k]}
<1>1. /\ Len(c) \in Nat /\ Len(d) \in Nat
      /\ f[0] = m /\ \A k \in 1..Len(c) : f[k] = Do(f[k - 1], c[k])
      /\ g[0] = m /\ \A k \in 1..Len(d) : g[k] = Do(g[k - 1], d[k])
  BY RunningIs
<1> HIDE DEF f, g
<1>2. 0 \in T
  BY <1>1
<1>3. ASSUME NEW k \in 1..Len(c), k - 1 \in T PROVE k \in T
  <2>1. k \in 0..Len(c) /\ k \in 1..Len(d)
    BY <1>1
  <2>2. f[k] = Do(f[k - 1], c[k]) /\ g[k] = Do(g[k - 1], d[k])
    BY <1>1, <2>1
  <2> QED BY <1>3, <2>1, <2>2
<1> HIDE DEF T
<1>4. \A k \in 0..Len(c) : k \in T
  BY <1>1, <1>2, <1>3, Upward
<1> QED BY <1>4 DEF T, f, g

\* Appending an instruction runs it on what the code before it left.
LEMMA RanOneMore ==
  ASSUME NEW m, NEW code, IsCode(code), NEW i
  PROVE  IsCode(Append(code, i)) /\ Ran(m, Append(code, i)) = Do(Ran(m, code), i)
<1>1. PICK S : code \in Seq(S)
  BY DEF IsCode
<1> DEFINE U == S \cup {i}
           d == Append(code, i)
           n == Len(code)
<1>2. /\ code \in Seq(U) /\ d \in Seq(U) /\ Len(d) = n + 1 /\ n \in Nat /\ d[n + 1] = i
      /\ \A k \in 1..n : d[k] = code[k]
  BY <1>1
<1> HIDE DEF d, n
<1>3. \A k \in 1..Len(d) : Running(m, d)[k] = Do(Running(m, d)[k - 1], d[k])
  BY <1>2, RunningIs
<1>4. \A k \in 0..n : Running(m, d)[k] = Running(m, code)[k]
  BY <1>2, RanAlike DEF n
<1>5. Running(m, d)[n + 1] = Do(Running(m, d)[n], i)
  <2>1. n + 1 \in 1..n + 1 /\ n + 1 - 1 = n
    BY <1>2
  <2> QED BY <1>2, <1>3, <2>1
<1>6. n \in 0..n
  BY <1>2
<1> QED BY <1>2, <1>4, <1>5, <1>6 DEF Ran, IsCode, d, n

\* One after the other.
LEMMA RanBoth ==
  ASSUME NEW m, NEW c, NEW d, IsCode(c), IsCode(d)
  PROVE  IsCode(c \o d) /\ Ran(m, c \o d) = Ran(Ran(m, c), d)
<1>1. PICK S : c \in Seq(S)
  BY DEF IsCode
<1>2. PICK S2 : d \in Seq(S2)
  BY DEF IsCode
<1> DEFINE U == S \cup S2
           e == c \o d
           n == Len(c)
           l == Len(d)
<1>3. /\ c \in Seq(U) /\ d \in Seq(U) /\ e \in Seq(U) /\ n \in Nat /\ l \in Nat /\ Len(e) = n + l
      /\ \A k \in 1..n : e[k] = c[k]
      /\ \A k \in 1..l : e[n + k] = d[k]
  BY <1>1, <1>2
<1> DEFINE f == Running(m, e)
           m2 == Ran(m, c)
           g == Running(m2, d)
           T == {k \in 0..l : f[n + k] = g[k]}
<1> HIDE DEF e, m2
<1>4. /\ \A k \in 1..Len(e) : f[k] = Do(f[k - 1], e[k])
      /\ g[0] = m2 /\ \A k \in 1..Len(d) : g[k] = Do(g[k - 1], d[k])
  BY <1>3, RunningIs
<1>5. f[n] = m2
  <2>1. n \in 0..n /\ n <= n + l
    BY <1>3
  <2>2. \A k \in 0..n : f[k] = Running(m, c)[k]
    <3>1. Len(c) <= Len(e) /\ \A k \in 1..Len(c) : e[k] = c[k]
      BY <1>3, <2>1
    <3>2. c \in Seq(U) /\ e \in Seq(U)
      BY <1>3
    <3> HIDE DEF U
    <3> QED BY <3>1, <3>2, RanAlike
  <2> QED BY <2>1, <2>2 DEF Ran, m2
<1> HIDE DEF f, g
<1>6. 0 \in T
  BY <1>3, <1>4, <1>5
<1>7. ASSUME NEW k \in 1..l, k - 1 \in T PROVE k \in T
  <2>1. /\ k \in 0..l /\ n + k \in 1..n + l /\ n + k - 1 = n + (k - 1)
    BY <1>3
  <2>2. f[n + k] = Do(f[n + k - 1], e[n + k]) /\ g[k] = Do(g[k - 1], d[k])
    BY <1>3, <1>4, <2>1
  <2> QED BY <1>3, <1>7, <2>1, <2>2
<1> HIDE DEF T
<1>8. \A k \in 0..l : k \in T
  BY <1>3, <1>6, <1>7, Upward
<1>9. f[n + l] = g[l]
  BY <1>3, <1>8 DEF T
<1> QED BY <1>3, <1>9 DEF f, g, m2, Ran, IsCode, e

-------------------------------------------------------------------------------
(* One instruction, by a processor that skips nothing and has been refused nothing. *)

Words == Int \X Int \X Int \X Int
Ready(m) ==
  m \in [reg : [AllRegisters -> Words], mem : [DOMAIN m.mem -> Words], skip : {0}, fine : {TRUE}]

Kept(m, n, changed) == n.mem = m.mem /\ \A r \in AllRegisters \ changed : n.reg[r] = m.reg[r]

\* A word is its four parts.
LEMMA WordParts == \A w \in Words : w = <<w[1], w[2], w[3], w[4]>> /\ w[1] \in Int /\ w[2] \in Int /\ w[3] \in Int /\ w[4] \in Int
  BY DEF Words

\* Four parts make a word.
LEMMA WordMade == \A a, b, c, d \in Int : <<a, b, c, d>> \in Words
  BY DEF Words

\* Adding bytes to a word changes its last part alone.
LEMMA WordPlus == \A w \in Words, n \in Int : PlusBytes(w, n) = <<w[1], w[2], w[3], w[4] + n>> /\ PlusBytes(w, n) \in Words
  BY DEF Words, PlusBytes

\* Writing one register keeps the processor ready and every other register.
LEMMA ReadyWriting ==
  ASSUME NEW m, Ready(m), NEW r \in AllRegisters, NEW w \in Words
  PROVE  Ready(Writing(m, r, w)) /\ Writing(m, r, w).reg[r] = w /\ Kept(m, Writing(m, r, w), {r})
<1> DEFINE n == Writing(m, r, w)
<1>1. n.reg = [m.reg EXCEPT ![r] = w] /\ n.mem = m.mem
  BY DEF Writing, Ready
<1>2. n \in [reg : [AllRegisters -> Words], mem : [DOMAIN m.mem -> Words], skip : {0}, fine : {TRUE}]
  BY DEF Writing, Ready
<1>3. n.reg[r] = w /\ \A q \in AllRegisters \ {r} : n.reg[q] = m.reg[q]
  BY <1>1 DEF Ready
<1> QED BY <1>1, <1>2, <1>3 DEF Ready, Kept

\* Adding a constant to a register, executed.
LEMMA DoPlus ==
  ASSUME NEW m, Ready(m), NEW r \in AllRegisters, NEW b \in AllRegisters, NEW n \in Int
  PROVE  LET d == Do(m, Added(r, b, n))
         IN  Ready(d) /\ Kept(m, d, {r}) /\ d.reg[r] = PlusBytes(m.reg[b], n)
<1>1. m.skip = 0 /\ m.reg[b] \in Words
  BY DEF Ready
<1>2. Do(m, Added(r, b, n)) = Writing(m, r, PlusBytes(m.reg[b], n))
  BY <1>1 DEF Do, Obey, Added
<1>3. PlusBytes(m.reg[b], n) \in Words
  BY <1>1, WordPlus
<1> QED BY <1>2, <1>3, ReadyWriting

WithPart(word, j, part) == [word EXCEPT ![j] = part]

\* Inserting sixteen bits into a register, executed.
LEMMA DoInsert ==
  ASSUME NEW m, Ready(m), NEW r \in AllRegisters, NEW part \in Int, NEW k \in 0..3
  PROVE  LET d == Do(m, Insert(r, part, k))
         IN  Ready(d) /\ Kept(m, d, {r}) /\ d.reg[r] = WithPart(m.reg[r], 4 - k, part)
<1>1. m.skip = 0 /\ m.reg[r] \in Words
  BY DEF Ready
<1> DEFINE w == [m.reg[r] EXCEPT ![4 - k] = part]
<1>2. w \in Words
  BY <1>1 DEF Words
<1>3. Do(m, Insert(r, part, k)) = [m EXCEPT !.reg[r][4 - k] = part]
  BY <1>1 DEF Do, Obey, Insert
<1>4. Do(m, Insert(r, part, k)) = Writing(m, r, w)
  BY <1>3 DEF Writing
<1> QED BY <1>4, <1>2, ReadyWriting DEF WithPart

\* Setting a register to a word, executed.
LEMMA DoSet ==
  ASSUME NEW m, Ready(m), NEW r \in AllRegisters, NEW w \in Words
  PROVE  LET d == Do(m, SetTo(r, w)) IN Ready(d) /\ Kept(m, d, {r}) /\ d.reg[r] = w
<1>1. m.skip = 0
  BY DEF Ready
<1>2. Do(m, SetTo(r, w)) = Writing(m, r, w)
  BY <1>1 DEF Do, Obey, SetTo
<1> QED BY <1>2, ReadyWriting

\* What a load of either width brings is a word.
LEMMA LoadedIsWord == \A width : \A w \in Words : Loaded(width, w) \in Words
  BY DEF Loaded, Words

\* Copying a register, executed.
LEMMA DoCopy ==
  ASSUME NEW m, Ready(m), NEW r \in AllRegisters, NEW b \in AllRegisters, NEW width
  PROVE  LET d == Do(m, Copy(r, b, width))
         IN  Ready(d) /\ Kept(m, d, {r}) /\ d.reg[r] = Loaded(width, m.reg[b])
<1>1. m.skip = 0 /\ m.reg[b] \in Words
  BY DEF Ready
<1>2. Do(m, Copy(r, b, width)) = Writing(m, r, Loaded(width, m.reg[b]))
  BY <1>1 DEF Do, Obey, Copy
<1>3. Loaded(width, m.reg[b]) \in Words
  BY <1>1, LoadedIsWord
<1> QED BY <1>2, <1>3, ReadyWriting

\* Extending a sign, executed.
LEMMA DoExtend ==
  ASSUME NEW m, Ready(m), NEW r \in AllRegisters, NEW b \in AllRegisters
  PROVE  LET d == Do(m, Extend(r, b))
         IN  Ready(d) /\ Kept(m, d, {r}) /\ d.reg[r] = SignExtended(m.reg[b])
<1>1. m.skip = 0 /\ m.reg[b] \in Words
  BY DEF Ready
<1>2. Do(m, Extend(r, b)) = Writing(m, r, SignExtended(m.reg[b]))
  BY <1>1 DEF Do, Obey, Extend
<1>3. SignExtended(m.reg[b]) \in Words
  BY <1>1 DEF SignExtended, Words
<1> QED BY <1>2, <1>3, ReadyWriting

Signed(sign, n, v) == sign \in {1, -1} /\ n \in Nat /\ v = sign * n

\* Adding or subtracting a register that holds a number, executed.
LEMMA DoPlusRegister ==
  ASSUME NEW m, Ready(m), NEW r \in AllRegisters, NEW b \in AllRegisters, NEW by \in AllRegisters,
         NEW sign, NEW n, NEW v, Signed(sign, n, v), m.reg[by] = Word(n)
  PROVE  LET d == Do(m, AddedRegister(r, b, by, sign))
         IN  Ready(d) /\ Kept(m, d, {r}) /\ d.reg[r] = PlusBytes(m.reg[b], v)
<1>0. v = sign * n /\ n \in Nat /\ v \in Int
  BY DEF Signed
<1>1. m.skip = 0 /\ m.reg[b] \in Words
  BY DEF Ready
<1>2. /\ Word(n) = <<0, 0, n \div 65536, n % 65536>> /\ n \div 65536 \in Int /\ n \div 65536 >= 0
      /\ n % 65536 \in Int /\ 65536 * (n \div 65536) + (n % 65536) = n
  BY <1>0 DEF Word
<1>3. IsNumber(Word(n)) /\ ValueOf(Word(n)) = n
  BY <1>2 DEF IsNumber, ValueOf
<1>4. Do(m, AddedRegister(r, b, by, sign)) = Writing(m, r, PlusBytes(m.reg[b], v))
  BY <1>1, <1>3, <1>0 DEF Do, Obey, AddedRegister
<1>5. v \in Int
  BY <1>0
<1>6. PlusBytes(m.reg[b], v) \in Words
  BY <1>1, <1>5, WordPlus
<1> DEFINE w == PlusBytes(m.reg[b], v)
<1> HIDE DEF w
<1>7. w \in Words /\ Do(m, AddedRegister(r, b, by, sign)) = Writing(m, r, w)
  BY <1>4, <1>6 DEF w
<1>8. Ready(Writing(m, r, w)) /\ Writing(m, r, w).reg[r] = w /\ Kept(m, Writing(m, r, w), {r})
  BY <1>7, ReadyWriting
<1> QED BY <1>7, <1>8 DEF w

\* What is in a cell, whether or not anything was written there.
LEMMA HeldIsWord ==
  ASSUME NEW m, Ready(m), NEW region \in Int, NEW n \in Int
  PROVE  Held(m, <<region, n>>) \in Words
<1>1. Pointing(OfBefore, n) \in Words
  BY DEF Pointing, OfBefore, Words
<1> QED BY <1>1 DEF Held, Ready

\* A base register that points where words are.
Points(m, b, region, n) == m.reg[b] = Pointing(region, n) /\ region \in Regions /\ n \in Int

\* A base that points into a region reaches the aligned cell at its offset.
LEMMA ReachesIt ==
  ASSUME NEW m, NEW b, NEW region, NEW n, NEW offset \in Int, Points(m, b, region, n), (n + offset) % 8 = 0
  PROVE  Reachable(m, b, offset) /\ Reached(m, b, offset) = <<region, n + offset>> /\ region \in Int
  BY DEF Points, Reachable, Reached, Pointing, Regions, OfStack, OfGlobals

\* A load through a pointing base takes what its cell holds and changes one register.
LEMMA DoLoad ==
  ASSUME NEW m, Ready(m), NEW r \in AllRegisters, NEW b \in AllRegisters, NEW width, NEW region, NEW n,
         NEW offset \in Int, Points(m, b, region, n), (n + offset) % 8 = 0
  PROVE  LET d == Do(m, LoadWord(r, width, b, offset))
         IN  /\ Ready(d) /\ Kept(m, d, {r})
             /\ d.reg[r] = Loaded(width, Held(m, <<region, n + offset>>))
<1>1. m.skip = 0 /\ n + offset \in Int
  BY DEF Ready, Points
<1>2. Reachable(m, b, offset) /\ Reached(m, b, offset) = <<region, n + offset>> /\ region \in Int
  BY ReachesIt
<1>3. Do(m, LoadWord(r, width, b, offset)) = Writing(m, r, Loaded(width, Held(m, <<region, n + offset>>)))
  BY <1>1, <1>2 DEF Do, Obey, LoadWord
<1>4. Held(m, <<region, n + offset>>) \in Words
  BY <1>1, <1>2, HeldIsWord
<1>5. Loaded(width, Held(m, <<region, n + offset>>)) \in Words
  BY <1>4, LoadedIsWord
<1> QED BY <1>3, <1>5, ReadyWriting

\* The registers are as they were, and of memory one cell changed.
Wrote(m, n, at, word, changed) == n.mem = Put(m.mem, at, word) /\ \A r \in AllRegisters \ changed : n.reg[r] = m.reg[r]

\* A store through a pointing base writes its cell and no register.
LEMMA DoStore ==
  ASSUME NEW m, Ready(m), NEW r \in AllRegisters, NEW b \in AllRegisters, NEW width, NEW region, NEW n,
         NEW offset \in Int, Points(m, b, region, n), (n + offset) % 8 = 0
  PROVE  LET d == Do(m, StoreWord(r, width, b, offset))
             at == <<region, n + offset>>
         IN  Ready(d) /\ Wrote(m, d, at, Stored(width, Held(m, at), m.reg[r]), {})
<1> DEFINE at == <<region, n + offset>>
           w == Stored(width, Held(m, at), m.reg[r])
           d == [m EXCEPT !.mem = Put(@, at, w)]
<1>1. m.skip = 0 /\ n + offset \in Int /\ m.reg[r] \in Words
  BY DEF Ready, Points
<1>2. Reachable(m, b, offset) /\ Reached(m, b, offset) = at /\ region \in Int
  BY ReachesIt
<1>3. Do(m, StoreWord(r, width, b, offset)) = d
  BY <1>1, <1>2 DEF Do, Obey, StoreWord
<1>4. Held(m, at) \in Words
  BY <1>1, <1>2, HeldIsWord
<1>5. w \in Words
  BY <1>1, <1>4 DEF Stored, Words
<1> HIDE DEF w, at
<1>6. m.mem \in [DOMAIN m.mem -> Words]
  BY DEF Ready
<1>7. Put(m.mem, at, w) \in [DOMAIN Put(m.mem, at, w) -> Words]
  BY <1>5, <1>6 DEF Put
<1>8. d.reg = m.reg /\ d.mem = Put(m.mem, at, w)
  BY DEF Ready
<1>9. Ready(d)
  BY <1>7, <1>8 DEF Ready
<1> QED BY <1>3, <1>8, <1>9 DEF Wrote, at, w

\* Of registers and memory only these changed.
SameCell(m, n, at) == IF at \in DOMAIN m.mem THEN at \in DOMAIN n.mem /\ n.mem[at] = m.mem[at] ELSE at \notin DOMAIN n.mem

Spares(m, n, changed, cells) ==
  /\ \A r \in AllRegisters \ changed : n.reg[r] = m.reg[r]
  /\ \A at : at \in cells \/ SameCell(m, n, at)

\* What changes only registers spares every cell.
LEMMA KeptSpares ==
  ASSUME NEW m, NEW n, NEW changed, NEW cells, Kept(m, n, changed)
  PROVE  Spares(m, n, changed, cells)
  BY DEF Kept, Spares, SameCell

\* What writes one cell spares the others.
LEMMA WroteSpares ==
  ASSUME NEW m, NEW n, NEW changed, NEW at, NEW word, Wrote(m, n, at, word, changed)
  PROVE  Spares(m, n, changed, {at}) /\ Held(n, at) = word
  BY DEF Wrote, Spares, SameCell, Held, Put

\* What two steps spare, one after the other, is what neither touches.
LEMMA SparedTwice ==
  ASSUME NEW m, NEW n, NEW l, NEW r1, NEW r2, NEW c1, NEW c2, Spares(m, n, r1, c1), Spares(n, l, r2, c2)
  PROVE  Spares(m, l, r1 \cup r2, c1 \cup c2)
<1>1. ASSUME NEW r \in AllRegisters \ (r1 \cup r2) PROVE l.reg[r] = m.reg[r]
  <2>1. n.reg[r] = m.reg[r] /\ l.reg[r] = n.reg[r]
    BY DEF Spares
  <2> QED BY <2>1
<1>2. ASSUME NEW at PROVE at \in c1 \cup c2 \/ SameCell(m, l, at)
  <2>1. at \in c1 \/ SameCell(m, n, at)
    BY DEF Spares
  <2>2. at \in c2 \/ SameCell(n, l, at)
    BY DEF Spares
  <2>3. SameCell(m, n, at) /\ SameCell(n, l, at) => SameCell(m, l, at)
    BY DEF SameCell
  <2> QED BY <2>1, <2>2, <2>3
<1> QED BY <1>1, <1>2 DEF Spares

\* The registers two steps change are those either changes.
LEMMA KeptTwice ==
  ASSUME NEW m, NEW n, NEW l, NEW r1, NEW r2, NEW r3, Kept(m, n, r1), Kept(n, l, r2), r1 \cup r2 \subseteq r3
  PROVE  Kept(m, l, r3)
  BY DEF Kept

\* A spared cell holds what it held.
LEMMA SparedHeld ==
  ASSUME NEW m, NEW n, NEW changed, NEW cells, Spares(m, n, changed, cells), NEW at, at \notin cells
  PROVE  Held(n, at) = Held(m, at)
<1>1. SameCell(m, n, at)
  BY DEF Spares
<1> QED BY <1>1 DEF SameCell, Held

-------------------------------------------------------------------------------
(* What is jumped over changes nothing; what may be in the way of a call is lost. *)

\* Arming and disarming a skip leaves a ready processor as it was.
LEMMA ReadySkips ==
  ASSUME NEW m, Ready(m)
  PROVE  /\ [m EXCEPT !.skip = 0] = m
         /\ \A k : [m EXCEPT !.skip = k].skip = k /\ \A l : [[m EXCEPT !.skip = k] EXCEPT !.skip = l] = [m EXCEPT !.skip = l]
  BY DEF Ready

\* A skip as long as the code after it passes over the whole of it.
LEMMA SkippedOver ==
  ASSUME NEW m, Ready(m), NEW c, IsCode(c)
  PROVE  Ran([m EXCEPT !.skip = Len(c)], c) = m
<1>1. PICK S : c \in Seq(S)
  BY DEF IsCode
<1> DEFINE n == Len(c)
           m0 == [m EXCEPT !.skip = n]
           f == Running(m0, c)
           T == {k \in 0..n : f[k] = [m EXCEPT !.skip = n - k]}
<1>2. /\ f[0] = m0 /\ \A k \in 1..n : f[k] = Do(f[k - 1], c[k])
      /\ n \in Nat
  BY <1>1, RunningIs
<1> HIDE DEF n, f
<1>3. 0 \in T
  BY <1>2
<1>4. ASSUME NEW k \in 1..n, k - 1 \in T PROVE k \in T
  <2> DEFINE before == [m EXCEPT !.skip = n - (k - 1)]
  <2>1. f[k - 1] = before /\ k \in 0..n
    BY <1>2, <1>4
  <2>2. before.skip = n - (k - 1)
    BY ReadySkips
  <2>5. n - (k - 1) > 0 /\ n - (k - 1) - 1 = n - k
    BY <1>2
  <2>3. [before EXCEPT !.skip = n - k] = [m EXCEPT !.skip = n - k]
    BY ReadySkips
  <2> HIDE DEF before
  <2>4. Do(before, c[k]) = [before EXCEPT !.skip = n - k]
    BY <2>2, <2>5 DEF Do, Obey
  <2> QED BY <1>2, <2>1, <2>3, <2>4
<1> HIDE DEF T
<1>5. n \in 0..n /\ n - n = 0
  BY <1>2
<1>6. n \in T
  BY <1>2, <1>3, <1>4, <1>5, Upward
<1>7. f[n] = [m EXCEPT !.skip = 0]
  BY <1>5, <1>6 DEF T
<1> QED BY <1>7, ReadySkips DEF f, n, Ran

\* A code of one instruction runs that instruction.
LEMMA RanOne == \A m, i : IsCode(<<i>>) /\ Ran(m, <<i>>) = Do(m, i)
<1> SUFFICES ASSUME NEW m, NEW i PROVE IsCode(<<i>>) /\ Ran(m, <<i>>) = Do(m, i)
  OBVIOUS
<1>1. <<>> \in Seq({}) /\ Append(<<>>, i) = <<i>>
  OBVIOUS
<1>2. IsCode(<<>>)
  BY <1>1 DEF IsCode
<1>3. IsCode(Append(<<>>, i)) /\ Ran(m, Append(<<>>, i)) = Do(Ran(m, <<>>), i)
  BY <1>2, RanOneMore
<1> QED BY <1>1, <1>3, RanNothing

\* A branch over a code either runs it or leaves everything as it was.
LEMMA JumpedOver ==
  ASSUME NEW m, Ready(m), NEW r \in AllRegisters, NEW conditional \in BOOLEAN, NEW c, IsCode(c)
  PROVE  LET all == <<Skip(r, conditional, Len(c))>> \o c
         IN  IsCode(all) /\ Ran(m, all) = IF ~conditional \/ IsZero(m.reg[r]) THEN m ELSE Ran(m, c)
<1> DEFINE i == Skip(r, conditional, Len(c))
           d == Do(m, i)
<1>1. IsCode(<<i>>) /\ Ran(m, <<i>>) = d
  BY RanOne
<1>2. IsCode(<<i>> \o c) /\ Ran(m, <<i>> \o c) = Ran(d, c)
  BY <1>1, RanBoth
<1>3. m.skip = 0
  BY DEF Ready
<1>4. d = [m EXCEPT !.skip = IF ~conditional \/ IsZero(m.reg[r]) THEN Len(c) ELSE 0]
  BY <1>3 DEF Do, Obey, Skip
<1>5. CASE ~conditional \/ IsZero(m.reg[r])
  <2>1. d = [m EXCEPT !.skip = Len(c)]
    BY <1>4, <1>5
  <2> QED BY <1>2, <1>5, <2>1, SkippedOver
<1>6. CASE ~(~conditional \/ IsZero(m.reg[r]))
  <2>1. d = m
    BY <1>4, <1>6, ReadySkips
  <2> QED BY <1>2, <1>6, <2>1
<1> QED BY <1>5, <1>6

HomeAt(sp) == {<<OfStack, sp + 8 * k>> : k \in 0..(ShadowBytes \div 8) - 1}

\* A call spares the preserved registers and everything but the home area of its callee.
LEMMA DoCall ==
  ASSUME NEW m, Ready(m), NEW sp \in Int, Sp \in AllRegisters, m.reg[Sp] = Pointing(OfStack, sp), sp % 16 = 0
  PROVE  Ready(Do(m, CallIt)) /\ Spares(m, Do(m, CallIt), AllRegisters \ Preserved, HomeAt(sp))
<1> DEFINE home == HomeAt(sp)
           reg == [r \in AllRegisters |-> IF r \in Preserved THEN m.reg[r] ELSE Pointing(OfNothing, 99)]
           mem == [at \in home \cup DOMAIN m.mem |-> IF at \in home THEN Pointing(OfNothing, 98) ELSE m.mem[at]]
           d == [m EXCEPT !.reg = reg, !.mem = mem]
<1>1. m.skip = 0 /\ m.reg[Sp][4] = sp /\ DOMAIN m.reg = AllRegisters
  BY DEF Ready, Pointing
<1>2. Do(m, CallIt) = CalleeRuns(m, Preserved, ShadowBytes)
  BY <1>1 DEF Do, Obey, CallIt
<1>3. CalleeRuns(m, Preserved, ShadowBytes) =
        [m EXCEPT !.reg = [r \in DOMAIN @ |-> IF r \in Preserved THEN @[r] ELSE Pointing(OfNothing, 99)],
                  !.mem = [at \in home \cup DOMAIN @ |-> IF at \in home THEN Pointing(OfNothing, 98) ELSE @[at]]]
  BY <1>1 DEF CalleeRuns, HomeAt
<1>4. CalleeRuns(m, Preserved, ShadowBytes) = d
  BY <1>1, <1>3
<1> HIDE DEF home
<1>5. Pointing(OfNothing, 99) \in Words /\ Pointing(OfNothing, 98) \in Words
  BY DEF Pointing, OfNothing, Words
<1>6. reg \in [AllRegisters -> Words] /\ mem \in [DOMAIN mem -> Words]
  BY <1>5 DEF Ready
<1> HIDE DEF reg, mem
<1>7. d.reg = reg /\ d.mem = mem
  BY DEF Ready
<1>8. Ready(d)
  BY <1>6, <1>7 DEF Ready
<1>9. Spares(m, d, AllRegisters \ Preserved, home)
  BY <1>7 DEF Spares, SameCell, reg, mem
<1> QED BY <1>2, <1>4, <1>8, <1>9 DEF home

-------------------------------------------------------------------------------
(* arm64: what its assembler takes as it is, constants, addresses. *)

Fits(code) == IsCode(code) /\ \A k \in DOMAIN code : Encoded(code[k]) = code[k]

\* A code whose every instruction fits its field is assembled as written.
LEMMA FitsAssembled ==
  ASSUME NEW code, Fits(code)
  PROVE  ArmAssembled(code) = code
<1>1. PICK S : code \in Seq(S)
  BY DEF Fits, IsCode
<1>2. code = [k \in DOMAIN code |-> code[k]]
  BY <1>1
<1> QED BY <1>2 DEF Fits, ArmAssembled

\* An instruction that fits is a code that fits.
LEMMA FitsOne ==
  ASSUME NEW i, Encoded(i) = i
  PROVE  Fits(<<i>>)
  BY RanOne DEF Fits

\* No instruction, nothing that does not fit.
LEMMA FitsNone == Fits(<<>>)
<1>1. <<>> \in Seq({}) /\ DOMAIN <<>> = {}
  OBVIOUS
<1> QED BY <1>1 DEF Fits, IsCode

\* Two codes that fit, one after the other, fit.
LEMMA FitsBoth ==
  ASSUME NEW c, NEW d, Fits(c), Fits(d)
  PROVE  Fits(c \o d)
<1>1. PICK S : c \in Seq(S)
  BY DEF Fits, IsCode
<1>2. PICK S2 : d \in Seq(S2)
  BY DEF Fits, IsCode
<1> DEFINE U == S \cup S2
           e == c \o d
<1>3. /\ c \in Seq(U) /\ d \in Seq(U) /\ e \in Seq(U) /\ Len(c) \in Nat /\ Len(d) \in Nat
      /\ Len(e) = Len(c) + Len(d) /\ \A k \in 1..Len(e) : e[k] = IF k <= Len(c) THEN c[k] ELSE d[k - Len(c)]
  BY <1>1, <1>2
<1> HIDE DEF U, e
<1>4. ASSUME NEW k \in DOMAIN e PROVE Encoded(e[k]) = e[k]
  <2>1. k \in 1..Len(e) /\ DOMAIN c = 1..Len(c) /\ DOMAIN d = 1..Len(d)
    BY <1>3
  <2>2. CASE k <= Len(c)
    <3>1. k \in DOMAIN c /\ e[k] = c[k]
      BY <1>3, <2>1, <2>2
    <3> QED BY <3>1 DEF Fits
  <2>3. CASE ~(k <= Len(c))
    <3>1. k - Len(c) \in DOMAIN d /\ e[k] = d[k - Len(c)]
      BY <1>3, <2>1, <2>3
    <3> QED BY <3>1 DEF Fits
  <2> QED BY <2>2, <2>3
<1> QED BY <1>3, <1>4 DEF Fits, IsCode, e

\* A code that fits, and one instruction more that fits, fit.
LEMMA FitsOneMore ==
  ASSUME NEW c, NEW i, Fits(c), Encoded(i) = i
  PROVE  Fits(Append(c, i))
<1>1. PICK S : c \in Seq(S)
  BY DEF Fits, IsCode
<1> DEFINE U == S \cup {i}
           e == Append(c, i)
<1>2. /\ c \in Seq(U) /\ e \in Seq(U) /\ Len(c) \in Nat /\ Len(e) = Len(c) + 1
      /\ \A k \in 1..Len(c) : e[k] = c[k]
      /\ e[Len(c) + 1] = i
  BY <1>1
<1> HIDE DEF U, e
<1>3. ASSUME NEW k \in DOMAIN e PROVE Encoded(e[k]) = e[k]
  <2>1. k \in 1..Len(e) /\ DOMAIN c = 1..Len(c) /\ (k \in 1..Len(c) \/ k = Len(c) + 1)
    BY <1>2
  <2> QED BY <1>2, <2>1 DEF Fits
<1> QED BY <1>2, <1>3 DEF Fits, IsCode, e

\* Only what reads or writes memory, or adds a number, has less room than it asks for.
LEMMA Roomy ==
  /\ \A r, w : Encoded(SetTo(r, w)) = SetTo(r, w)
  /\ \A r, b, w : Encoded(Copy(r, b, w)) = Copy(r, b, w)
  /\ \A r, p, k : Encoded(Insert(r, p, k)) = Insert(r, p, k)
  /\ \A r, b, by, g : Encoded(AddedRegister(r, b, by, g)) = AddedRegister(r, b, by, g)
  /\ \A r, b : Encoded(Extend(r, b)) = Extend(r, b)
  /\ \A r, c, n : Encoded(Skip(r, c, n)) = Skip(r, c, n)
  /\ Encoded(CallIt) = CallIt
  BY DEF Encoded, SetTo, Copy, Insert, AddedRegister, Extend, Skip, CallIt

\* The offsets and constants within the twelve bits of their fields are encoded as written.
LEMMA RoomFor ==
  /\ \A r, b : \A n \in -4095..4095 : Encoded(Added(r, b, n)) = Added(r, b, n)
  /\ \A r, b : \A w \in {4, 8}, n \in Nat : n % w = 0 /\ n <= 4095 * w =>
        Encoded(LoadWord(r, w, b, n)) = LoadWord(r, w, b, n) /\ Encoded(StoreWord(r, w, b, n)) = StoreWord(r, w, b, n)
<1>1. \A r, b : \A n \in -4095..4095 : Encoded(Added(r, b, n)) = Added(r, b, n)
  BY DEF Encoded, Added
<1>2. ASSUME NEW r, NEW b, NEW w \in {4, 8}, NEW n \in Nat, n % w = 0, n <= 4095 * w
      PROVE  Encoded(LoadWord(r, w, b, n)) = LoadWord(r, w, b, n) /\ Encoded(StoreWord(r, w, b, n)) = StoreWord(r, w, b, n)
  <2>1. ~(n % w # 0 \/ n > 4095 * w)
    BY <1>2
  <2>2. Encoded(LoadWord(r, w, b, n)) = LoadWord(r, w, b, n)
    BY <2>1 DEF Encoded, LoadWord
  <2>3. Encoded(StoreWord(r, w, b, n)) = StoreWord(r, w, b, n)
    BY <2>1 DEF Encoded, StoreWord
  <2> QED BY <2>2, <2>3
<1> QED BY SMTT(30), <1>1, <1>2

\* Inserting a part where there is zero sets it, and nothing is emitted for a part that is zero.
LEMMA RanInserted ==
  ASSUME NEW m, Ready(m), NEW r \in AllRegisters, NEW word \in Words, NEW k \in 0..3, NEW j \in 1..4, k + j = 4, m.reg[r][j] = 0
  PROVE  LET c == Inserted(r, word, k)
             n == Ran(m, c)
         IN  Fits(c) /\ Ready(n) /\ Kept(m, n, {r}) /\ n.reg[r] = WithPart(m.reg[r], j, word[j])
<1>1. m.reg[r] \in Words /\ j = 4 - k
  BY DEF Ready
<1>2. CASE word[j] = 0
  <2>1. Inserted(r, word, k) = <<>>
    BY <1>2 DEF Inserted
  <2>2. WithPart(m.reg[r], j, word[j]) = m.reg[r]
    BY <1>1, <1>2 DEF Words, WithPart
  <2> QED BY <2>1, <2>2, RanNothing, FitsNone DEF Kept
<1>3. CASE word[j] # 0
  <2> DEFINE p == word[j]
             i == Insert(r, p, k)
  <2>1. Inserted(r, word, k) = <<i>>
    BY <1>3 DEF Inserted
  <2>2. p \in Int
    BY <1>1 DEF Words
  <2> HIDE DEF p
  <2>3. Fits(<<i>>) /\ Ran(m, <<i>>) = Do(m, i)
    BY FitsOne, RanOne, Roomy
  <2>4. Ready(Do(m, i)) /\ Kept(m, Do(m, i), {r}) /\ Do(m, i).reg[r] = WithPart(m.reg[r], 4 - k, p)
    BY <2>2, DoInsert
  <2> QED BY <2>1, <2>3, <2>4 DEF p
<1> QED BY <1>2, <1>3

\* Materialising leaves the low half of the word, or all of it, and only in its register.
LEMMA Materialised ==
  ASSUME NEW m, Ready(m), NEW r \in AllRegisters, NEW word \in Words, NEW parts \in {2, 4}
  PROVE  LET c == Materialise(r, word, parts)
             n == Ran(m, c)
         IN  /\ Fits(c) /\ Ready(n) /\ Kept(m, n, {r})
             /\ n.reg[r] = IF parts = 4 THEN word ELSE <<0, 0, word[3], word[4]>>
<1> DEFINE low == <<0, 0, 0, word[4]>>
           i == SetTo(r, low)
           n1 == Do(m, i)
           c2 == Inserted(r, word, 1)
           n2 == Ran(n1, c2)
           c3 == Inserted(r, word, 2)
           n3 == Ran(n2, c3)
           c4 == Inserted(r, word, 3)
           n4 == Ran(n3, c4)
           high == IF parts = 4 THEN c3 \o c4 ELSE <<>>
<1>0. /\ word[1] \in Int /\ word[2] \in Int /\ word[3] \in Int /\ word[4] \in Int
      /\ word = <<word[1], word[2], word[3], word[4]>> /\ low \in Words
  BY DEF Words
<1>1. Ready(n1) /\ Kept(m, n1, {r}) /\ n1.reg[r] = low /\ Fits(<<i>>) /\ Ran(m, <<i>>) = n1
  BY <1>0, DoSet, RanOne, FitsOne, Roomy
<1> HIDE DEF n1, i
<1>2. Fits(c2) /\ Ready(n2) /\ Kept(n1, n2, {r}) /\ n2.reg[r] = <<0, 0, word[3], word[4]>>
  <2>1. n1.reg[r][3] = 0 /\ 1 \in 0..3 /\ 3 \in 1..4 /\ 1 + 3 = 4
    BY <1>1
  <2>2. Fits(c2) /\ Ready(n2) /\ Kept(n1, n2, {r}) /\ n2.reg[r] = WithPart(n1.reg[r], 3, word[3])
    BY <1>1, <2>1, RanInserted DEF c2, n2
  <2> QED BY <1>0, <1>1, <2>2 DEF WithPart
<1> HIDE DEF c2, n2
<1>3. Fits(c3) /\ Ready(n3) /\ Kept(n2, n3, {r}) /\ n3.reg[r] = <<0, word[2], word[3], word[4]>>
  <2>0. 2 \in 0..3 /\ 2 \in 1..4 /\ 2 + 2 = 4 /\ Ready(n2)
    BY <1>2
  <2>1. n2.reg[r][2] = 0
    BY <1>0, <1>2
  <2>2. Fits(c3) /\ Ready(n3) /\ Kept(n2, n3, {r}) /\ n3.reg[r] = WithPart(n2.reg[r], 2, word[2])
    <3> HIDE DEF low, high
    <3> QED BY <2>0, <2>1, RanInserted
  <2> QED BY <1>0, <1>2, <2>2 DEF WithPart
<1> HIDE DEF c3, n3
<1>4. Fits(c4) /\ Ready(n4) /\ Kept(n3, n4, {r}) /\ n4.reg[r] = word
  <2>0. 3 \in 0..3 /\ 1 \in 1..4 /\ 3 + 1 = 4 /\ Ready(n3)
    BY <1>3
  <2>1. n3.reg[r][1] = 0
    BY <1>0, <1>3
  <2>2. Fits(c4) /\ Ready(n4) /\ Kept(n3, n4, {r}) /\ n4.reg[r] = WithPart(n3.reg[r], 1, word[1])
    <3> HIDE DEF low, high
    <3> QED BY <2>0, <2>1, RanInserted
  <2> QED BY <1>0, <1>3, <2>2 DEF WithPart
<1> HIDE DEF c4, n4
<1>5. Materialise(r, word, parts) = (<<i>> \o c2) \o high
  BY DEF Materialise, i, c2, c3, c4
<1>6. Fits(<<i>> \o c2) /\ Ran(m, <<i>> \o c2) = n2
  BY <1>1, <1>2, FitsBoth, RanBoth DEF Fits, n2
<1>7. CASE parts = 4
  <2>1. Fits(c3 \o c4) /\ Ran(n2, c3 \o c4) = n4
    BY <1>3, <1>4, FitsBoth, RanBoth DEF Fits, n3, n4
  <2>2. Fits((<<i>> \o c2) \o high) /\ Ran(m, (<<i>> \o c2) \o high) = n4
    BY <1>6, <1>7, <2>1, FitsBoth, RanBoth DEF Fits
  <2>3. Kept(m, n4, {r})
    BY <1>1, <1>2, <1>3, <1>4 DEF Kept
  <2> QED BY <1>4, <1>5, <1>7, <2>2, <2>3
<1>8. CASE parts = 2
  <2>1. high = <<>>
    BY <1>8
  <2>2. Fits((<<i>> \o c2) \o <<>>) /\ Ran(m, (<<i>> \o c2) \o <<>>) = n2
    BY <1>6, FitsNone, FitsBoth, RanBoth, RanNothing DEF Fits
  <2>3. Kept(m, n2, {r})
    BY <1>1, <1>2 DEF Kept
  <2> QED BY <1>2, <1>5, <1>8, <2>1, <2>2, <2>3
<1> QED BY <1>7, <1>8

\* The registers AArch64 code names are registers of the machine.
LEMMA ArmRegisters ==
  ASSUME Arm
  PROVE  /\ Sp \in AllRegisters /\ Fp \in AllRegisters /\ Lr \in AllRegisters
         /\ \A i \in 0..17 : X(i) \in AllRegisters /\ D(i) \in AllRegisters
  BY DEF AllRegisters, Preserved

\* x16 holds any constant that is put there.
LEMMA ScratchHasIt ==
  ASSUME Arm, NEW m, Ready(m), NEW k \in Nat
  PROVE  LET n == Ran(m, ScratchConstant(k))
         IN  Fits(ScratchConstant(k)) /\ Ready(n) /\ Kept(m, n, {X(16)}) /\ n.reg[X(16)] = Word(k)
<1>1. Word(k) \in Words
  BY DEF Word, Words
<1>2. X(16) \in AllRegisters
  BY ArmRegisters
<1> QED BY <1>1, <1>2, Materialised DEF ScratchConstant

\* A register and a number plus a number that fits no instruction.
LEMMA FarAway ==
  ASSUME Arm, NEW m, Ready(m), NEW k, NEW to \in AllRegisters, NEW from \in AllRegisters \ {X(16)},
         NEW sign, NEW v, Signed(sign, k, v)
  PROVE  LET c == Append(ScratchConstant(k), AddedRegister(to, from, X(16), sign))
             n == Ran(m, c)
         IN  Fits(c) /\ Ready(n) /\ Kept(m, n, {X(16), to}) /\ n.reg[to] = PlusBytes(m.reg[from], v)
<1> DEFINE c == ScratchConstant(k)
           n1 == Ran(m, c)
           i == AddedRegister(to, from, X(16), sign)
           n == Do(n1, i)
<1>0. k \in Nat
  BY DEF Signed
<1>1. Fits(c) /\ Ready(n1) /\ Kept(m, n1, {X(16)}) /\ n1.reg[X(16)] = Word(k)
  BY <1>0, ScratchHasIt
<1>2. Fits(Append(c, i)) /\ Ran(m, Append(c, i)) = n
  BY <1>1, FitsOneMore, RanOneMore, Roomy DEF Fits
<1>3. X(16) \in AllRegisters
  BY ArmRegisters
<1>4. Ready(n) /\ Kept(n1, n, {to}) /\ n.reg[to] = PlusBytes(n1.reg[from], v)
  <2> HIDE DEF n1, c
  <2>1. from \in AllRegisters
    OBVIOUS
  <2> QED BY <1>1, <1>3, <2>1, DoPlusRegister
<1>5. n1.reg[from] = m.reg[from]
  BY <1>1 DEF Kept
<1> HIDE DEF n, n1, i, c
<1>6. Kept(m, n, {X(16), to})
  BY <1>1, <1>4, KeptTwice
<1> QED BY <1>2, <1>4, <1>5, <1>6 DEF i, c

Addresses(m, a, width, region, at, scratch) ==
  LET n == Ran(m, a.first)
  IN  /\ Fits(a.first) /\ Ready(n) /\ Kept(m, n, scratch)
      /\ a.base \in AllRegisters /\ a.offset \in Nat /\ a.offset % width = 0 /\ a.offset <= 4095 * width
      /\ Points(n, a.base, region, at - a.offset)

Took(n, r, word) == n.reg[r] = word

\* A load from an address computed in scratch takes what the place holds.
LEMMA LoadsFrom ==
  ASSUME Arm, NEW m, NEW a, NEW width \in {4, 8}, NEW region, NEW at \in Int, at % 8 = 0, NEW scratch,
         Addresses(m, a, width, region, at, scratch), NEW r \in AllRegisters,
         NEW changed, scratch \subseteq changed, r \in changed
  PROVE  LET c == LoadFrom(a, r, width)
             n == Ran(m, c)
         IN  Fits(c) /\ Ready(n) /\ Kept(m, n, changed) /\ Took(n, r, Loaded(width, Held(m, <<region, at>>)))
<1> DEFINE n1 == Ran(m, a.first)
           b == a.base
           o == a.offset
           i == LoadWord(r, width, b, o)
           n == Do(n1, i)
<1>1. /\ Fits(a.first) /\ Ready(n1) /\ Kept(m, n1, scratch)
      /\ b \in AllRegisters /\ o \in Nat /\ o % width = 0 /\ o <= 4095 * width
      /\ Points(n1, b, region, at - o)
  BY DEF Addresses
<1> HIDE DEF o, b
<1>2. Encoded(i) = i
  BY <1>1 DEF Encoded, LoadWord
<1>3. Fits(LoadFrom(a, r, width)) /\ Ran(m, LoadFrom(a, r, width)) = n
  BY <1>1, <1>2, FitsOneMore, RanOneMore DEF LoadFrom, Fits, b, o
<1> HIDE DEF n1
<1>4. at - o + o = at /\ o \in Int
  BY <1>1
<1>5. Ready(n) /\ Kept(n1, n, {r}) /\ n.reg[r] = Loaded(width, Held(n1, <<region, at>>))
  <2> DEFINE from == at - o
  <2>1. from + o = at /\ (from + o) % 8 = 0 /\ Points(n1, b, region, from)
    BY <1>1, <1>4
  <2>3. Ready(n1) /\ b \in AllRegisters /\ o \in Int
    BY <1>1, <1>4
  <2> HIDE DEF from
  <2>2. Ready(n) /\ Kept(n1, n, {r}) /\ n.reg[r] = Loaded(width, Held(n1, <<region, from + o>>))
    BY <2>1, <2>3, DoLoad
  <2> QED BY <2>1, <2>2
<1> HIDE DEF n, i
<1>6. Held(n1, <<region, at>>) = Held(m, <<region, at>>)
  BY <1>1 DEF Kept, Held
<1>7. Kept(m, n, changed)
  BY <1>1, <1>5, KeptTwice
<1> QED BY <1>3, <1>5, <1>6, <1>7 DEF Took

\* A store to an address computed in scratch writes the place, and only scratch besides.
LEMMA StoresTo ==
  ASSUME Arm, NEW m, NEW a, NEW width \in {4, 8}, NEW region, NEW at \in Int, at % 8 = 0, NEW scratch,
         Addresses(m, a, width, region, at, scratch), NEW r \in AllRegisters \ scratch
  PROVE  LET c == StoreTo(a, r, width)
             n == Ran(m, c)
         IN  Fits(c) /\ Ready(n) /\ Wrote(m, n, <<region, at>>, Stored(width, Held(m, <<region, at>>), m.reg[r]), scratch)
<1> DEFINE n1 == Ran(m, a.first)
           b == a.base
           o == a.offset
           i == StoreWord(r, width, b, o)
           n == Do(n1, i)
           word == Stored(width, Held(n1, <<region, at>>), n1.reg[r])
<1>1. /\ Fits(a.first) /\ Ready(n1) /\ Kept(m, n1, scratch)
      /\ b \in AllRegisters /\ o \in Nat /\ o % width = 0 /\ o <= 4095 * width
      /\ Points(n1, b, region, at - o)
  BY DEF Addresses
<1> HIDE DEF o, b
<1>2. Encoded(i) = i
  BY <1>1 DEF Encoded, StoreWord
<1>3. Fits(StoreTo(a, r, width)) /\ Ran(m, StoreTo(a, r, width)) = n
  BY <1>1, <1>2, FitsOneMore, RanOneMore DEF StoreTo, Fits, b, o
<1> HIDE DEF n1
<1>4. at - o + o = at /\ o \in Int
  BY <1>1
<1>5. Ready(n) /\ Wrote(n1, n, <<region, at>>, word, {})
  <2> DEFINE from == at - o
  <2>1. from + o = at /\ (from + o) % 8 = 0 /\ Points(n1, b, region, from)
    BY <1>1, <1>4
  <2> HIDE DEF from
  <2>2. Ready(n) /\ Wrote(n1, n, <<region, from + o>>, Stored(width, Held(n1, <<region, from + o>>), n1.reg[r]), {})
    BY <1>1, <1>4, <2>1, DoStore
  <2> QED BY <2>1, <2>2
<1> HIDE DEF n, i
<1>6. Held(n1, <<region, at>>) = Held(m, <<region, at>>) /\ n1.reg[r] = m.reg[r] /\ n1.mem = m.mem
  BY <1>1 DEF Kept, Held
<1> HIDE DEF word
<1>7. Wrote(m, n, <<region, at>>, word, scratch)
  BY <1>1, <1>5, <1>6 DEF Wrote, Kept
<1> QED BY <1>3, <1>5, <1>6, <1>7 DEF word

\* The address of a slot is the stack pointer and eight bytes for each slot, near or far.
LEMMA SlotAddressed ==
  ASSUME Arm, NEW m, Ready(m), NEW sp \in Int, Points(m, Sp, OfStack, sp), NEW slot \in Nat, NEW width \in {4, 8}
  PROVE  Addresses(m, SlotAddress(slot, width), width, OfStack, sp + 8 * slot, {X(16)})
<1>1. Sp \in AllRegisters \ {X(16)} /\ X(16) \in AllRegisters
  BY ArmRegisters DEF Sp, X
<1>2. CASE 8 * slot <= 4095 * width
  <2>1. SlotAddress(slot, width) = Direct(Sp, 8 * slot)
    BY <1>2 DEF SlotAddress
  <2>2. /\ Fits(<<>>) /\ Ran(m, <<>>) = m /\ Kept(m, m, {X(16)})
        /\ (8 * slot) % width = 0 /\ 8 * slot \in Nat /\ sp + 8 * slot - 8 * slot = sp
    BY FitsNone, RanNothing DEF Kept
  <2> QED BY <1>1, <1>2, <2>1, <2>2 DEF Direct, Addresses
<1>3. CASE ~(8 * slot <= 4095 * width)
  <2> DEFINE far == 8 * slot
             first == Append(ScratchConstant(far), AddedRegister(X(16), Sp, X(16), 1))
             n == Ran(m, first)
  <2>1. SlotAddress(slot, width) = [first |-> first, base |-> X(16), offset |-> 0]
    BY <1>3 DEF SlotAddress
  <2>2. Signed(1, far, far) /\ far \in Int
    BY DEF Signed
  <2>3. 0 % width = 0 /\ 0 <= 4095 * width
    OBVIOUS
  <2> HIDE DEF far
  <2>4. Fits(first) /\ Ready(n) /\ Kept(m, n, {X(16), X(16)}) /\ n.reg[X(16)] = PlusBytes(m.reg[Sp], far)
    BY <1>1, <2>2, FarAway
  <2> HIDE DEF first
  <2>5. Points(n, X(16), OfStack, (sp + far) - 0)
    <3>1. m.reg[Sp] = Pointing(OfStack, sp) /\ OfStack \in Regions
      BY DEF Points
    <3>2. PlusBytes(Pointing(OfStack, sp), far) = Pointing(OfStack, sp + far) /\ (sp + far) - 0 = sp + far /\ sp + far \in Int
      BY <2>2 DEF PlusBytes, Pointing
    <3> QED BY <2>4, <3>1, <3>2 DEF Points
  <2> DEFINE a == [first |-> first, base |-> X(16), offset |-> 0]
  <2>6. a.first = first /\ a.base = X(16) /\ a.offset = 0
    OBVIOUS
  <2> HIDE DEF a
  <2>8. Kept(m, n, {X(16)})
    BY <2>4 DEF Kept
  <2>7. Addresses(m, a, width, OfStack, sp + far, {X(16)})
    <3> HIDE DEF n
    <3>1. Ran(m, a.first) = n
      BY <2>6 DEF n
    <3> QED BY <1>1, <2>3, <2>4, <2>5, <2>6, <2>8, <3>1 DEF Addresses
  <2> QED BY <2>1, <2>7 DEF far, a
<1> QED BY <1>2, <1>3

\* The address of a global is its eight bytes of the globals, near or far.
LEMMA GlobalAddressed ==
  ASSUME Arm, NEW m, Ready(m), NEW index \in Nat, NEW width \in {4, 8}
  PROVE  Addresses(m, GlobalAddress(index, width), width, OfGlobals, 8 * index, {X(16), X(17)})
<1> DEFINE far == 8 * index
           i == AddressGlobals
           n1 == Do(m, i)
           a == GlobalAddress(index, width)
<1>1. X(17) \in AllRegisters \ {X(16)} /\ X(16) \in AllRegisters
  BY ArmRegisters DEF X
<1>2. Pointing(OfGlobals, 0) \in Words /\ OfGlobals \in Regions /\ far \in Nat /\ 0 % width = 0 /\ 0 <= 4095 * width /\ far % width = 0
  BY DEF Pointing, OfGlobals, Words, Regions
<1>3. /\ Ready(n1) /\ Kept(m, n1, {X(17)}) /\ n1.reg[X(17)] = Pointing(OfGlobals, 0)
      /\ Fits(<<i>>) /\ Ran(m, <<i>>) = n1
  BY <1>1, <1>2, DoSet, RanOne, FitsOne, Roomy DEF AddressGlobals
<1> HIDE DEF i, n1
<1>4. CASE far <= 4095 * width
  <2>1. a = [first |-> <<i>>, base |-> X(17), offset |-> far]
    BY <1>4 DEF GlobalAddress, i
  <2>2. a.first = <<i>> /\ a.base = X(17) /\ a.offset = far
    BY <2>1
  <2> HIDE DEF a
  <2>3. Points(n1, X(17), OfGlobals, far - far)
    BY <1>2, <1>3 DEF Points
  <2>4. Kept(m, n1, {X(16), X(17)})
    BY <1>3 DEF Kept
  <2> HIDE DEF far
  <2>5. Addresses(m, a, width, OfGlobals, far, {X(16), X(17)})
    BY <1>1, <1>2, <1>3, <1>4, <2>2, <2>3, <2>4 DEF Addresses
  <2> QED BY <2>5 DEF far, a
<1>5. CASE ~(far <= 4095 * width)
  <2> DEFINE rest == Append(ScratchConstant(far), AddedRegister(X(17), X(17), X(16), 1))
             n == Ran(n1, rest)
  <2>1. a = [first |-> <<i>> \o rest, base |-> X(17), offset |-> 0]
    BY <1>5 DEF GlobalAddress, i
  <2>2. a.first = <<i>> \o rest /\ a.base = X(17) /\ a.offset = 0
    BY <2>1
  <2>3. Signed(1, far, far)
    BY DEF Signed
  <2> HIDE DEF far, a
  <2>4. Fits(rest) /\ Ready(n) /\ Kept(n1, n, {X(16), X(17)}) /\ n.reg[X(17)] = PlusBytes(n1.reg[X(17)], far)
    BY <1>1, <1>3, <2>3, FarAway
  <2> HIDE DEF rest
  <2>5. Points(n, X(17), OfGlobals, far - 0)
    <3>1. PlusBytes(Pointing(OfGlobals, 0), far) = Pointing(OfGlobals, far) /\ far - 0 = far /\ far \in Int
      BY <1>2 DEF PlusBytes, Pointing
    <3> QED BY <1>2, <1>3, <2>4, <3>1 DEF Points
  <2>6. Fits(<<i>> \o rest) /\ Ran(m, <<i>> \o rest) = n
    BY <1>3, <2>4, FitsBoth, RanBoth DEF Fits
  <2>7. Kept(m, n, {X(16), X(17)})
    BY <1>3, <2>4 DEF Kept
  <2> HIDE DEF n
  <2>8. Addresses(m, a, width, OfGlobals, far, {X(16), X(17)})
    BY <1>1, <1>2, <2>2, <2>4, <2>5, <2>6, <2>7 DEF Addresses
  <2> QED BY <2>8 DEF far, a
<1> QED BY <1>4, <1>5

\* A small number is added in one instruction.
Small(k) == k \in -4095..4095

\* A constant that fits an add is added in one instruction.
LEMMA NearBy ==
  ASSUME Arm, NEW m, Ready(m), NEW to \in AllRegisters, NEW from \in AllRegisters, NEW k, Small(k)
  PROVE  LET c == <<Added(to, from, k)>>
             n == Ran(m, c)
         IN  Fits(c) /\ Ready(n) /\ Kept(m, n, {to}) /\ n.reg[to] = PlusBytes(m.reg[from], k)
<1> DEFINE i == Added(to, from, k)
<1>1. Encoded(i) = i
  BY DEF Encoded, Added, Small
<1>2. k \in Int
  BY DEF Small
<1>3. Ready(Do(m, i)) /\ Kept(m, Do(m, i), {to}) /\ Do(m, i).reg[to] = PlusBytes(m.reg[from], k)
  BY <1>2, DoPlus
<1> QED BY <1>1, <1>3, RanOne, FitsOne

\* The address of a slot, in a register.
LEMMA AddressedInto ==
  ASSUME Arm, NEW m, Ready(m), NEW sp \in Int, Points(m, Sp, OfStack, sp), NEW slot \in Nat, NEW r \in AllRegisters
  PROVE  LET n == Ran(m, AddressInto(r, slot))
         IN  Fits(AddressInto(r, slot)) /\ Ready(n) /\ Kept(m, n, {X(16), r}) /\ n.reg[r] = Pointing(OfStack, sp + 8 * slot)
<1> DEFINE far == 8 * slot
<1>1. Sp \in AllRegisters \ {X(16)} /\ Sp \in AllRegisters
  BY ArmRegisters DEF Sp, X
<1>2. far \in Nat /\ m.reg[Sp] = Pointing(OfStack, sp) /\ PlusBytes(Pointing(OfStack, sp), far) = Pointing(OfStack, sp + far)
  BY DEF Points, Pointing, PlusBytes
<1>3. CASE far <= 4095
  <2>1. AddressInto(r, slot) = <<Added(r, Sp, far)>> /\ Small(far)
    BY <1>3 DEF AddressInto, Small
  <2> HIDE DEF far
  <2> DEFINE n == Ran(m, <<Added(r, Sp, far)>>)
  <2>2. Fits(<<Added(r, Sp, far)>>) /\ Ready(n) /\ Kept(m, n, {r}) /\ n.reg[r] = PlusBytes(m.reg[Sp], far)
    BY SMTT(30), <1>1, <2>1, NearBy
  <2>3. Kept(m, n, {X(16), r})
    BY <2>2 DEF Kept
  <2> QED BY <1>2, <2>1, <2>2, <2>3 DEF far
<1>4. CASE ~(far <= 4095)
  <2> DEFINE c == Append(ScratchConstant(far), AddedRegister(r, Sp, X(16), 1))
             n == Ran(m, c)
  <2>1. AddressInto(r, slot) = c /\ Signed(1, far, far)
    BY <1>4 DEF AddressInto, Signed
  <2> HIDE DEF far
  <2>2. Fits(c) /\ Ready(n) /\ Kept(m, n, {X(16), r}) /\ n.reg[r] = PlusBytes(m.reg[Sp], far)
    BY <1>1, <2>1, FarAway
  <2> HIDE DEF c
  <2> QED BY <1>2, <2>1, <2>2 DEF far
<1> QED BY <1>3, <1>4

\* The stack pointer moves by the whole frame, however large it is.
LEMMA StackAdjusted ==
  ASSUME Arm, frame.slots \in Nat, NEW m, Ready(m), NEW sp \in Int, m.reg[Sp] = Pointing(OfStack, sp),
         NEW sign, NEW v, Signed(sign, ArmFrameBytes, v)
  PROVE  LET n == Ran(m, AdjustStack(sign))
         IN  Fits(AdjustStack(sign)) /\ Ready(n) /\ Kept(m, n, {X(16), Sp}) /\ n.reg[Sp] = Pointing(OfStack, sp + v)
<1> DEFINE k == ArmFrameBytes
<1>1. Sp \in AllRegisters \ {X(16)} /\ Sp \in AllRegisters
  BY ArmRegisters DEF Sp, X
<1>2. k \in Nat /\ v = sign * k /\ v \in Int /\ sign \in {1, -1}
  BY DEF Signed
<1>3. PlusBytes(Pointing(OfStack, sp), v) = Pointing(OfStack, sp + v)
  BY <1>2 DEF Pointing, PlusBytes
<1>4. CASE k = 0
  <2>1. AdjustStack(sign) = <<>> /\ v = 0 /\ sp + v = sp
    BY <1>2, <1>4 DEF AdjustStack
  <2> QED BY <2>1, FitsNone, RanNothing DEF Kept
<1>5. CASE k # 0 /\ k <= 4095
  <2>1. AdjustStack(sign) = <<Added(Sp, Sp, v)>> /\ Small(v)
    BY <1>2, <1>5 DEF AdjustStack, Small
  <2> DEFINE n == Ran(m, <<Added(Sp, Sp, v)>>)
  <2>2. Fits(<<Added(Sp, Sp, v)>>) /\ Ready(n) /\ Kept(m, n, {Sp}) /\ n.reg[Sp] = PlusBytes(m.reg[Sp], v)
    BY <1>1, <2>1, NearBy
  <2>3. Kept(m, n, {X(16), Sp})
    BY <2>2 DEF Kept
  <2> QED BY <1>3, <2>1, <2>2, <2>3
<1>6. CASE k # 0 /\ ~(k <= 4095)
  <2> DEFINE c == Append(ScratchConstant(k), AddedRegister(Sp, Sp, X(16), sign))
             n == Ran(m, c)
  <2>1. AdjustStack(sign) = c
    BY <1>6 DEF AdjustStack
  <2> HIDE DEF k
  <2>2. Fits(c) /\ Ready(n) /\ Kept(m, n, {X(16), Sp}) /\ n.reg[Sp] = PlusBytes(m.reg[Sp], v)
    BY <1>1, FarAway DEF k
  <2> HIDE DEF c
  <2> QED BY <1>3, <2>1, <2>2
<1> QED BY <1>4, <1>5, <1>6

-------------------------------------------------------------------------------
(* x86-64: what its assemblers make of what is spelled for them. *)

Moves == {"mov", "movsd", "movq", "movapd"}

Said(suffix, src, dst) == {IF Gnu THEN suffix ELSE 0, src.width, dst.width} \ {0}

Spelled(text, src, dst) ==
  /\ src = IF Gnu THEN text.operands[1] ELSE text.operands[2]
  /\ dst = IF Gnu THEN text.operands[2] ELSE text.operands[1]

MoveMade(src, dst, width) ==
  CASE src.form = "immediate" -> SetTo(dst.reg, Loaded(width, src.word))
    [] src.form = "memory" -> LoadWord(dst.reg, width, src.reg, src.offset)
    [] dst.form = "memory" -> StoreWord(src.reg, width, dst.reg, dst.offset)
    [] OTHER -> Copy(dst.reg, src.reg, width)

Contradicts(text, src, dst) ==
  LET said == {text.suffix, src.width, dst.width} \ {0}
  IN  Cardinality(said) > 1 \/ (text.mnemonic = "mov" /\ ("xmm" \in {src.reg[1], dst.reg[1]} \/ said = {}))

WidthSaid(text, src, dst) ==
  LET said == {text.suffix, src.width, dst.width} \ {0} IN IF said = {} THEN 8 ELSE CHOOSE w \in said : TRUE

\* What the assembler reads, by its mnemonic.
LEMMA TextRead ==
  ASSUME NEW text, NEW src, NEW dst, Spelled(text, src, dst)
  PROVE  /\ text.mnemonic = "lea" /\ src.form = "memory" => ReadText(text) = Added(dst.reg, src.reg, src.offset)
         /\ text.mnemonic = "lea" /\ src.form = "label" => ReadText(text) = SetTo(dst.reg, src.word)
         /\ text.mnemonic = "movslq" => ReadText(text) = Extend(dst.reg, src.reg)
         /\ text.mnemonic = "add" => ReadText(text) = Added(dst.reg, dst.reg, 1 * ValueOf(src.word))
         /\ text.mnemonic = "sub" => ReadText(text) = Added(dst.reg, dst.reg, (-1) * ValueOf(src.word))
         /\ text.mnemonic \in Moves /\ ~Contradicts(text, src, dst) =>
              ReadText(text) = MoveMade(src, dst, WidthSaid(text, src, dst))
<1> DEFINE good == MoveMade(src, dst, WidthSaid(text, src, dst))
           bad == Contradicts(text, src, dst)
           lea == Added(dst.reg, src.reg, src.offset)
           label == SetTo(dst.reg, src.word)
           wide == Extend(dst.reg, src.reg)
           sign == IF text.mnemonic = "add" THEN 1 ELSE -1
           sum == Added(dst.reg, dst.reg, sign * ValueOf(src.word))
<1>1. ReadText(text) =
        CASE text.mnemonic = "lea" /\ src.form = "memory" -> lea
          [] text.mnemonic = "lea" /\ src.form = "label" -> label
          [] text.mnemonic = "movslq" -> wide
          [] text.mnemonic \in {"add", "sub"} -> sum
          [] text.mnemonic \in {"mov", "movsd", "movq", "movapd"} /\ bad -> Refused
          [] text.mnemonic \in {"mov", "movsd", "movq", "movapd"} /\ ~bad -> good
  BY Zenon DEF ReadText, Spelled, Contradicts, WidthSaid, MoveMade
<1>2. /\ text.mnemonic = "add" => sum = Added(dst.reg, dst.reg, 1 * ValueOf(src.word))
      /\ text.mnemonic = "sub" => sum = Added(dst.reg, dst.reg, (-1) * ValueOf(src.word))
  <2>1. ASSUME text.mnemonic = "add" PROVE sum = Added(dst.reg, dst.reg, 1 * ValueOf(src.word))
    <3>1. sign = 1
      BY <2>1
    <3> HIDE DEF sign
    <3> QED BY <3>1, Zenon
  <2>2. ASSUME text.mnemonic = "sub" PROVE sum = Added(dst.reg, dst.reg, (-1) * ValueOf(src.word))
    <3>1. sign = -1
      BY <2>2
    <3> HIDE DEF sign
    <3> QED BY <3>1, Zenon
  <2> QED BY <2>1, <2>2
<1> HIDE DEF good, bad, lea, label, wide, sign, sum
<1>3. /\ text.mnemonic = "lea" /\ src.form = "memory" => ReadText(text) = lea
      /\ text.mnemonic = "lea" /\ src.form = "label" => ReadText(text) = label
      /\ text.mnemonic = "movslq" => ReadText(text) = wide
      /\ text.mnemonic = "add" => ReadText(text) = sum
      /\ text.mnemonic = "sub" => ReadText(text) = sum
      /\ text.mnemonic \in Moves /\ ~bad => ReadText(text) = good
  BY <1>1 DEF Moves
<1> QED BY <1>2, <1>3, Zenon DEF good, bad, lea, label, wide

\* A text keeps its operands and mnemonic, and its suffix in the GNU spelling alone.
LEMMA TextSpelled ==
  ASSUME NEW mnemonic, NEW suffix, NEW src, NEW dst
  PROVE  LET text == BinaryText(mnemonic, suffix, src, dst)
         IN  Spelled(text, src, dst) /\ text.mnemonic = mnemonic /\ text.suffix = IF Gnu THEN suffix ELSE 0
  BY DEF BinaryText, Ordered, Spelled

\* Both assemblers see the same move, if what says how wide agrees.
Agreed(mnemonic, suffix, src, dst, width) ==
  /\ mnemonic \in Moves
  /\ \/ Said(suffix, src, dst) = {width}
     \/ Said(suffix, src, dst) = {} /\ width = 8 /\ mnemonic # "mov"
  /\ mnemonic = "mov" => src.reg[1] # "xmm" /\ dst.reg[1] # "xmm"

\* A move whose parts agree on a width is read with that width in either spelling.
LEMMA MoveRead ==
  ASSUME NEW mnemonic, NEW suffix, NEW src, NEW dst, NEW width, Agreed(mnemonic, suffix, src, dst, width)
  PROVE  ReadText(BinaryText(mnemonic, suffix, src, dst)) = MoveMade(src, dst, width)
<1> DEFINE text == BinaryText(mnemonic, suffix, src, dst)
           said == {text.suffix, src.width, dst.width} \ {0}
<1>1. Spelled(text, src, dst) /\ text.mnemonic = mnemonic /\ text.suffix = IF Gnu THEN suffix ELSE 0
  BY TextSpelled
<1>2. said = Said(suffix, src, dst)
  BY <1>1 DEF Said
<1> HIDE DEF text
<1>3. ~Contradicts(text, src, dst) /\ WidthSaid(text, src, dst) = width
  <2> HIDE DEF said
  <2>1. Cardinality({width}) = 1 /\ Cardinality({}) = 0
    BY FS_Singleton, FS_EmptySet
  <2>2. ~(Cardinality(said) > 1 \/ (text.mnemonic = "mov" /\ ("xmm" \in {src.reg[1], dst.reg[1]} \/ said = {})))
    BY <1>1, <1>2, <2>1 DEF Agreed
  <2>3. (IF said = {} THEN 8 ELSE CHOOSE w \in said : TRUE) = width
    BY <1>2 DEF Agreed
  <2> QED BY <2>2, <2>3, Zenon DEF said, Contradicts, WidthSaid
<1>4. mnemonic \in Moves
  BY DEF Agreed
<1>5. ReadText(text) = MoveMade(src, dst, WidthSaid(text, src, dst))
  BY <1>1, <1>3, <1>4, TextRead
<1> QED BY <1>3, <1>5 DEF text

IsXmm(r) == r[1] = "xmm"

OfKind(kind, r) == kind = "Real" <=> IsXmm(r)

\* A move from memory is read as a load of its kind.
LEMMA LoadRead ==
  ASSUME NEW kind \in Kinds, NEW r, OfKind(kind, r), NEW base, ~IsXmm(base), NEW offset
  PROVE  ReadText(Move(kind, Memory(base, offset, Width(kind)), Register(r, Width(kind)))) = LoadWord(r, Width(kind), base, offset)
<1> DEFINE src == Memory(base, offset, Width(kind))
           dst == Register(r, Width(kind))
           mnemonic == IF kind = "Real" THEN "movsd" ELSE "mov"
           suffix == IF kind = "Real" THEN 0 ELSE Width(kind)
<1>1. Move(kind, src, dst) = BinaryText(mnemonic, suffix, src, dst) /\ mnemonic \in Moves
  BY DEF Move, Moves
<1>2. src.form = "memory" /\ src.reg = base /\ src.offset = offset /\ dst.reg = r /\ dst.form = "register"
  BY DEF Memory, Register
<1>3. \/ Said(suffix, src, dst) = {Width(kind)}
      \/ Said(suffix, src, dst) = {} /\ Width(kind) = 8 /\ mnemonic # "mov"
  BY DEF Said, Memory, Register, Width, OfKind, IsXmm, Kinds
<1>4. mnemonic = "mov" => src.reg[1] # "xmm" /\ dst.reg[1] # "xmm"
  BY <1>2 DEF OfKind, IsXmm
<1> HIDE DEF src, dst, mnemonic, suffix
<1>5. Agreed(mnemonic, suffix, src, dst, Width(kind))
  BY <1>1, <1>3, <1>4 DEF Agreed, Moves
<1>9. ReadText(BinaryText(mnemonic, suffix, src, dst)) = MoveMade(src, dst, Width(kind))
  BY <1>5, MoveRead
<1> QED BY <1>1, <1>2, <1>9 DEF MoveMade, src, dst

\* A move to memory is read as a store of its kind.
LEMMA StoreRead ==
  ASSUME NEW kind \in Kinds, NEW r, OfKind(kind, r), NEW base, ~IsXmm(base), NEW offset
  PROVE  ReadText(Move(kind, Register(r, Width(kind)), Memory(base, offset, Width(kind)))) = StoreWord(r, Width(kind), base, offset)
<1> DEFINE dst == Memory(base, offset, Width(kind))
           src == Register(r, Width(kind))
           mnemonic == IF kind = "Real" THEN "movsd" ELSE "mov"
           suffix == IF kind = "Real" THEN 0 ELSE Width(kind)
<1>1. Move(kind, src, dst) = BinaryText(mnemonic, suffix, src, dst) /\ mnemonic \in Moves
  BY DEF Move, Moves
<1>2. dst.form = "memory" /\ dst.reg = base /\ dst.offset = offset /\ src.reg = r /\ src.form = "register"
  BY DEF Memory, Register
<1>3. \/ Said(suffix, src, dst) = {Width(kind)}
      \/ Said(suffix, src, dst) = {} /\ Width(kind) = 8 /\ mnemonic # "mov"
  BY DEF Said, Memory, Register, Width, OfKind, IsXmm, Kinds
<1>4. mnemonic = "mov" => src.reg[1] # "xmm" /\ dst.reg[1] # "xmm"
  BY <1>2 DEF OfKind, IsXmm
<1> HIDE DEF src, dst, mnemonic, suffix
<1>5. Agreed(mnemonic, suffix, src, dst, Width(kind))
  BY <1>1, <1>3, <1>4 DEF Agreed, Moves
<1>9. ReadText(BinaryText(mnemonic, suffix, src, dst)) = MoveMade(src, dst, Width(kind))
  BY <1>5, MoveRead
<1> QED BY <1>1, <1>2, <1>9 DEF MoveMade, src, dst

\* From register to register: both ints, both reals, or an int's bits into a real.
LEMMA CopyRead ==
  ASSUME NEW mnemonic \in Moves, NEW suffix, NEW width, NEW a, NEW b,
         \/ mnemonic = "mov" /\ suffix = width /\ width \in {4, 8} /\ ~IsXmm(a) /\ ~IsXmm(b)
         \/ mnemonic \in {"movapd", "movq"} /\ suffix = 0 /\ width = 8 /\ IsXmm(b)
  PROVE  ReadText(BinaryText(mnemonic, suffix, Register(a, width), Register(b, width))) = Copy(b, a, width)
<1> DEFINE src == Register(a, width)
           dst == Register(b, width)
<1>1. src.form = "register" /\ src.reg = a /\ dst.reg = b /\ dst.form = "register"
  BY DEF Register
<1>2. \/ Said(suffix, src, dst) = {width}
      \/ Said(suffix, src, dst) = {} /\ width = 8 /\ mnemonic # "mov"
  BY DEF Said, Register, IsXmm
<1>3. mnemonic = "mov" => src.reg[1] # "xmm" /\ dst.reg[1] # "xmm"
  BY <1>1 DEF IsXmm
<1> HIDE DEF src, dst
<1>4. Agreed(mnemonic, suffix, src, dst, width)
  BY <1>2, <1>3 DEF Agreed, Moves
<1>9. ReadText(BinaryText(mnemonic, suffix, src, dst)) = MoveMade(src, dst, width)
  BY <1>4, MoveRead
<1> QED BY <1>1, <1>9 DEF MoveMade, src, dst

\* A move of a constant is read as setting its register.
LEMMA ConstantRead ==
  ASSUME NEW width \in {4, 8}, NEW r, ~IsXmm(r), NEW word
  PROVE  ReadText(BinaryText("mov", width, Immediate(word), Register(r, width))) = SetTo(r, Loaded(width, word))
<1> DEFINE src == Immediate(word)
           dst == Register(r, width)
<1>1. src.form = "immediate" /\ src.word = word /\ src.reg = Sp /\ dst.reg = r /\ dst.form = "register"
  BY DEF Immediate, Register
<1>2. Said(width, src, dst) = {width}
  BY DEF Said, Register, Immediate, IsXmm
<1>3. src.reg[1] # "xmm" /\ dst.reg[1] # "xmm" /\ "mov" \in Moves
  BY <1>1 DEF IsXmm, Sp, Moves
<1> HIDE DEF src, dst
<1>4. Agreed("mov", width, src, dst, width)
  BY <1>2, <1>3 DEF Agreed, Moves
<1>9. ReadText(BinaryText("mov", width, src, dst)) = MoveMade(src, dst, width)
  BY <1>4, MoveRead
<1>10. MoveMade(src, dst, width) = SetTo(r, Loaded(width, word))
  BY <1>1 DEF MoveMade
<1> QED BY <1>9, <1>10 DEF src, dst

\* What is no move.
LEMMA SumRead ==
  ASSUME NEW src, NEW dst
  PROVE  /\ src.form = "memory" => ReadText(LoadAddress(src, dst)) = Added(dst.reg, src.reg, src.offset)
         /\ src.form = "label" => ReadText(LoadAddress(src, dst)) = SetTo(dst.reg, src.word)
         /\ ReadText(WidenText(src, dst)) = Extend(dst.reg, src.reg)
         /\ ReadText(BinaryText("add", 8, src, dst)) = Added(dst.reg, dst.reg, 1 * ValueOf(src.word))
         /\ ReadText(BinaryText("sub", 8, src, dst)) = Added(dst.reg, dst.reg, (-1) * ValueOf(src.word))
<1>1. ASSUME NEW mnemonic, NEW suffix
      PROVE  Spelled(BinaryText(mnemonic, suffix, src, dst), src, dst) /\ BinaryText(mnemonic, suffix, src, dst).mnemonic = mnemonic
  BY TextSpelled
<1>2. src.form = "memory" => ReadText(LoadAddress(src, dst)) = Added(dst.reg, src.reg, src.offset)
  BY <1>1, TextRead DEF LoadAddress
<1>3. src.form = "label" => ReadText(LoadAddress(src, dst)) = SetTo(dst.reg, src.word)
  BY <1>1, TextRead DEF LoadAddress
<1>4. ReadText(WidenText(src, dst)) = Extend(dst.reg, src.reg)
  BY <1>1, TextRead DEF WidenText
<1>5. ReadText(BinaryText("add", 8, src, dst)) = Added(dst.reg, dst.reg, 1 * ValueOf(src.word))
  BY <1>1, TextRead
<1>6. ReadText(BinaryText("sub", 8, src, dst)) = Added(dst.reg, dst.reg, (-1) * ValueOf(src.word))
  BY <1>1, TextRead
<1> QED BY <1>2, <1>3, <1>4, <1>5, <1>6

-------------------------------------------------------------------------------
(* Places: in which register, in which cell. *)

Known == target \in {"arm64-darwin", "x86_64-linux", "x86_64-windows"}

\* Registers that nothing is promised to be in, and nobody keeps.
Scratch == IF Arm THEN {X(16), X(17), D(17)} ELSE {R11, Xmm(8)}

Files == {"int", "real"}
Capacity(file) == IF file = "real" THEN RealCapacity ELSE IntCapacity

Used == AllRegisters \ (Preserved \cup Scratch)

\* The parameters in registers, by file and number.
LEMMA ParametersAre ==
  \A q \in Parameters : /\ q = <<q[1], q[2]>>
                       /\ ((q[1] = "int" /\ q[2] \in 0..IntCapacity - 1) \/ (q[1] = "real" /\ q[2] \in 0..RealCapacity - 1))
  BY DEF Parameters

\* What each of the three targets passes in registers, and how it is spelled.
LEMMA CapacitiesAre ==
  ASSUME Known
  PROVE  /\ target = "arm64-darwin" => Arm /\ ~Gnu /\ IntCapacity = 8 /\ RealCapacity = 8 /\ ShadowBytes = 0
         /\ target = "x86_64-linux" => ~Arm /\ Gnu /\ IntCapacity = 6 /\ RealCapacity = 8 /\ ShadowBytes = 0
         /\ target = "x86_64-windows" => ~Arm /\ ~Gnu /\ IntCapacity = 4 /\ RealCapacity = 4 /\ ShadowBytes = 32
  BY DEF Known, Arm, Gnu, IntCapacity, RealCapacity, ShadowBytes, IntArgs

\* No register of a target has two of its duties: preserved, scratch, accumulator, block.
LEMMA SpecialRegisters ==
  ASSUME Known
  PROVE  /\ Sp \in Preserved /\ Fp \in Preserved /\ Sp # Fp
         /\ Preserved \subseteq AllRegisters /\ Scratch \subseteq AllRegisters /\ Scratch \cap Preserved = {}
         /\ BlockIn \in Used
         /\ AccumulatorIn("int") \in Used /\ AccumulatorIn("real") \in Used
         /\ AccumulatorIn("int") # AccumulatorIn("real")
         /\ AccumulatorIn("int") # BlockIn /\ AccumulatorIn("real") # BlockIn
         /\ Arm => Lr \in AllRegisters \ (Preserved \cup Scratch \cup {BlockIn, AccumulatorIn("int"), AccumulatorIn("real")})
<1>1. CASE Arm
  BY <1>1 DEF AllRegisters, Preserved, Scratch, Used, BlockIn, AccumulatorIn, X, D, Sp, Fp, Lr
<1>2. CASE ~Arm
  BY <1>2 DEF AllRegisters, Preserved, Scratch, Used, BlockIn, AccumulatorIn, R10, R11, Ax, Xmm, Sp, Fp
<1> QED BY <1>1, <1>2

IntArgumentSet ==
  IF Arm THEN {X(i) : i \in 0..7}
  ELSE IF Gnu THEN {<<"di", 0>>, <<"si", 0>>, <<"dx", 0>>, <<"cx", 0>>, <<"r8", 0>>, <<"r9", 0>>}
  ELSE {<<"cx", 0>>, <<"dx", 0>>, <<"r8", 0>>, <<"r9", 0>>}

\* Every int argument has a register of its own.
LEMMA IntArgumentsIn ==
  ASSUME Known, NEW i \in 0..IntCapacity - 1
  PROVE  /\ ArgumentIn("int", i) \in IntArgumentSet
         /\ \A j \in 0..IntCapacity - 1 : ArgumentIn("int", i) = ArgumentIn("int", j) => i = j
         /\ Arm => ArgumentIn("int", i) = X(i)
<1>1. CASE target = "arm64-darwin"
  BY <1>1, CapacitiesAre DEF ArgumentIn, X, IntArgumentSet
<1>2. CASE target = "x86_64-linux"
  <2>1. ~Arm /\ Gnu /\ i \in 0..5 /\ IntCapacity = 6
    BY <1>2, CapacitiesAre
  <2>2. \A j \in 0..5 : ArgumentIn("int", j) = IntArgs[j + 1]
    BY <2>1 DEF ArgumentIn
  <2>3. /\ IntArgs[1] = <<"di", 0>> /\ IntArgs[2] = <<"si", 0>> /\ IntArgs[3] = <<"dx", 0>>
        /\ IntArgs[4] = <<"cx", 0>> /\ IntArgs[5] = <<"r8", 0>> /\ IntArgs[6] = <<"r9", 0>>
    BY <2>1 DEF IntArgs
  <2> QED BY <2>1, <2>2, <2>3 DEF IntArgumentSet
<1>3. CASE target = "x86_64-windows"
  <2>1. ~Arm /\ ~Gnu /\ i \in 0..3 /\ IntCapacity = 4
    BY <1>3, CapacitiesAre
  <2>2. \A j \in 0..3 : ArgumentIn("int", j) = IntArgs[j + 1]
    BY <2>1 DEF ArgumentIn
  <2>3. /\ IntArgs[1] = <<"cx", 0>> /\ IntArgs[2] = <<"dx", 0>> /\ IntArgs[3] = <<"r8", 0>> /\ IntArgs[4] = <<"r9", 0>>
    BY <2>1 DEF IntArgs
  <2> QED BY <2>1, <2>2, <2>3 DEF IntArgumentSet
<1> QED BY <1>1, <1>2, <1>3 DEF Known

\* An int argument is in none of the registers with another duty.
LEMMA IntArgumentsApart ==
  ASSUME Known, NEW r \in IntArgumentSet
  PROVE  /\ r \in AllRegisters \ Scratch /\ r # BlockIn /\ r # AccumulatorIn("real") /\ ~IsXmm(r) /\ r[1] # "d"
         /\ r \notin Preserved /\ r # Lr
         /\ ~Arm => r # AccumulatorIn("int")
<1>1. CASE target = "arm64-darwin"
  BY <1>1, CapacitiesAre
     DEF IntArgumentSet, AllRegisters, Preserved, Scratch, BlockIn, AccumulatorIn, X, D, Sp, Fp, Lr, IsXmm
<1>2. CASE target = "x86_64-linux"
  BY <1>2, CapacitiesAre
     DEF IntArgumentSet, AllRegisters, Preserved, Scratch, BlockIn, AccumulatorIn, R10, R11, Ax, Xmm, Sp, Fp, Lr, IsXmm
<1>3. CASE target = "x86_64-windows"
  BY <1>3, CapacitiesAre
     DEF IntArgumentSet, AllRegisters, Preserved, Scratch, BlockIn, AccumulatorIn, R10, R11, Ax, Xmm, Sp, Fp, Lr, IsXmm
<1> QED BY <1>1, <1>2, <1>3 DEF Known

\* A real argument is in its own register, and the first in the accumulator.
LEMMA RealArgumentsIn ==
  ASSUME Known, NEW i \in 0..RealCapacity - 1
  PROVE  LET r == ArgumentIn("real", i)
         IN  /\ r = IF Arm THEN D(i) ELSE Xmm(i)
             /\ r \in Used \ {BlockIn} /\ r # AccumulatorIn("int") /\ r # Lr
             /\ r = AccumulatorIn("real") <=> i = 0
<1>1. CASE target = "arm64-darwin"
  <2>1. Arm /\ i \in 0..7 /\ ArgumentIn("real", i) = D(i)
    BY <1>1, CapacitiesAre DEF ArgumentIn
  <2> QED BY <2>1 DEF Used, AllRegisters, Preserved, Scratch, BlockIn, AccumulatorIn, X, D, Sp, Fp, Lr
<1>2. CASE target = "x86_64-linux"
  <2>1. ~Arm /\ Gnu /\ i \in 0..7 /\ ArgumentIn("real", i) = Xmm(i)
    BY <1>2, CapacitiesAre DEF ArgumentIn
  <2> QED BY <2>1 DEF Used, AllRegisters, Preserved, Scratch, BlockIn, AccumulatorIn, R10, R11, Ax, Xmm, Sp, Fp, Lr
<1>3. CASE target = "x86_64-windows"
  <2>1. ~Arm /\ ~Gnu /\ i \in 0..3 /\ ArgumentIn("real", i) = Xmm(i)
    BY <1>3, CapacitiesAre DEF ArgumentIn
  <2> QED BY <2>1 DEF Used, AllRegisters, Preserved, Scratch, BlockIn, AccumulatorIn, R10, R11, Ax, Xmm, Sp, Fp, Lr
<1> QED BY <1>1, <1>2, <1>3 DEF Known

\* Arguments are apart, and only the first of a file shares its register with the accumulator.
LEMMA ArgumentsIn ==
  ASSUME Known, NEW p \in Parameters
  PROVE  /\ ArgumentIn(p[1], p[2]) \in Used \ {BlockIn} /\ ArgumentIn(p[1], p[2]) # Lr
         /\ \A q \in Parameters : ArgumentIn(p[1], p[2]) = ArgumentIn(q[1], q[2]) => p = q
         /\ \A f \in Files : ArgumentIn(p[1], p[2]) = AccumulatorIn(f) => p = <<f, 0>>
<1>0. \A q \in Parameters : /\ q = <<q[1], q[2]>>
                           /\ ((q[1] = "int" /\ q[2] \in 0..IntCapacity - 1) \/ (q[1] = "real" /\ q[2] \in 0..RealCapacity - 1))
  BY ParametersAre
<1> DEFINE r == ArgumentIn(p[1], p[2])
<1>1. CASE p[1] = "int" /\ p[2] \in 0..IntCapacity - 1
  <2>1. r \in IntArgumentSet /\ \A j \in 0..IntCapacity - 1 : r = ArgumentIn("int", j) => p[2] = j
    BY <1>1, IntArgumentsIn
  <2>2. r \in Used \ {BlockIn} /\ r # Lr /\ r # AccumulatorIn("real") /\ ~IsXmm(r) /\ r[1] # "d" /\ (~Arm => r # AccumulatorIn("int"))
    BY <2>1, IntArgumentsApart DEF Used
  <2>3. ASSUME NEW q \in Parameters, r = ArgumentIn(q[1], q[2]) PROVE p = q
    <3>1. CASE q[1] = "int" /\ q[2] \in 0..IntCapacity - 1
      BY <1>0, <1>1, <2>1, <2>3, <3>1
    <3>2. CASE q[1] = "real" /\ q[2] \in 0..RealCapacity - 1
      <4>1. r = D(q[2]) \/ r = Xmm(q[2])
        BY <2>3, <3>2, RealArgumentsIn
      <4> QED BY <2>2, <4>1 DEF D, Xmm, IsXmm
    <3> QED BY <1>0, <3>1, <3>2
  <2>4. r = AccumulatorIn("int") => p = <<"int", 0>>
    <3>1. r = AccumulatorIn("int") => Arm /\ r = X(0)
      BY <2>2 DEF AccumulatorIn
    <3>2. Arm => r = X(p[2])
      BY <1>1, IntArgumentsIn
    <3>3. r = AccumulatorIn("int") => p[2] = 0
      BY <3>1, <3>2 DEF X
    <3> QED BY <1>0, <1>1, <3>3
  <2> QED BY <2>2, <2>3, <2>4 DEF Files
<1>2. CASE p[1] = "real" /\ p[2] \in 0..RealCapacity - 1
  <2>1. /\ r = IF Arm THEN D(p[2]) ELSE Xmm(p[2])
        /\ r \in Used \ {BlockIn} /\ r # AccumulatorIn("int") /\ r # Lr
        /\ r = AccumulatorIn("real") => p[2] = 0
    BY <1>2, RealArgumentsIn
  <2>3. ASSUME NEW q \in Parameters, r = ArgumentIn(q[1], q[2]) PROVE p = q
    <3>1. CASE q[1] = "real" /\ q[2] \in 0..RealCapacity - 1
      <4>1. r = IF Arm THEN D(q[2]) ELSE Xmm(q[2])
        BY <2>3, <3>1, RealArgumentsIn
      <4>2. p[2] = q[2]
        BY <2>1, <4>1 DEF D, Xmm
      <4> QED BY <1>0, <1>2, <3>1, <4>2
    <3>2. CASE q[1] = "int" /\ q[2] \in 0..IntCapacity - 1
      <4>1. r \in IntArgumentSet
        BY <2>3, <3>2, IntArgumentsIn
      <4> QED BY <2>1, <4>1, IntArgumentsApart DEF D, Xmm, IsXmm
    <3> QED BY <1>0, <3>1, <3>2
  <2> QED BY <1>0, <1>2, <2>1, <2>3 DEF Files
<1> QED BY <1>0, <1>1, <1>2

-------------------------------------------------------------------------------
(* The frame, and the cells of places. *)

Bytes == IF Arm THEN ArmFrameBytes ELSE FrameBytes

\* Where the stack pointer is in the body, and the first slot.
BodySp == -16 - Bytes
SlotBase == BodySp + ShadowBytes

Framed == Known /\ frame.slots \in Nat /\ frame.used \subseteq 0..frame.slots - 1

\* The frame is aligned and its slots lie below what the prologue saves, above the home area.
LEMMA FrameFits ==
  ASSUME Framed
  PROVE  /\ Bytes \in Nat /\ BodySp \in Int /\ BodySp % 16 = 0 /\ SlotBase \in Int
         /\ ShadowBytes \in {0, 32} /\ SlotBase = BodySp + ShadowBytes
         /\ Arm => ShadowBytes = 0
         /\ Bytes >= ShadowBytes
         /\ \A s \in frame.used : s \in Nat /\ SlotBase + 8 * s <= -24 /\ SlotBase + 8 * s >= SlotBase /\ (SlotBase + 8 * s) % 8 = 0
<1> DEFINE k == (8 * frame.slots + ShadowBytes + 15) \div 16
           n == frame.slots
<1>1. ShadowBytes \in {0, 32} /\ (Arm => ShadowBytes = 0) /\ n \in Nat
  BY CapacitiesAre DEF Framed, Known
<1>2. k \in Nat /\ 16 * k >= 8 * n + ShadowBytes
  BY <1>1
<1>3. Bytes = 16 * k
  BY <1>1 DEF Bytes, ArmFrameBytes, FrameBytes
<1> HIDE DEF k
<1>4. BodySp = 16 * (-1 - k) /\ BodySp \in Int
  BY <1>2, <1>3 DEF BodySp
<1>5. BodySp % 16 = 0
  BY <1>2, <1>4
<1>6. SlotBase = 16 * (-1 - k) + ShadowBytes
  BY <1>4 DEF SlotBase
<1>7. ASSUME NEW s \in frame.used
      PROVE  s \in Nat /\ SlotBase + 8 * s <= -24 /\ SlotBase + 8 * s >= SlotBase /\ (SlotBase + 8 * s) % 8 = 0
  <2>1. s \in Nat /\ s <= n - 1
    BY <1>1 DEF Framed
  <2>2. 16 * k >= 8 * s + 8 + ShadowBytes
    BY <1>1, <1>2, <2>1
  <2>3. SlotBase + 8 * s <= -24 /\ SlotBase + 8 * s >= SlotBase
    BY <1>1, <1>2, <1>6, <2>1, <2>2
  <2>4. SlotBase + 8 * s = 8 * (2 * (-1 - k) + (IF ShadowBytes = 0 THEN 0 ELSE 4) + s)
    BY <1>1, <1>2, <1>6, <2>1
  <2>5. (SlotBase + 8 * s) % 8 = 0
    BY <1>1, <1>2, <2>1, <2>4
  <2> QED BY <2>1, <2>3, <2>5
<1> QED BY <1>1, <1>2, <1>3, <1>4, <1>5, <1>7 DEF SlotBase

AllPlaces ==
  {AccumulatorPlace(f) : f \in Files} \cup ArgumentPlaces \cup {Overflow}
  \cup {SlotPlace(s) : s \in frame.used} \cup GlobalPlaces \cup BlockPlaces \cup {Cell}

InRegister(at) == at[1] \in {"accumulator", "argument", "overflow"}

\* What the places of a function are, and which of them are registers.
LEMMA PlacesAre ==
  ASSUME NEW at \in AllPlaces
  PROVE  \/ InRegister(at) /\ \/ at[1] = "accumulator" /\ at = AccumulatorPlace(at[2]) /\ at[2] \in Files
                              \/ /\ at[1] = "argument" /\ at = ArgumentPlace(at[2], at[3])
                                 /\ <<at[2], at[3]>> \in Parameters
                              \/ at[1] = "overflow" /\ at = Overflow
         \/ ~InRegister(at) /\ \/ at[1] = "slot" /\ at = SlotPlace(at[2]) /\ at[2] \in frame.used
                               \/ at[1] = "global" /\ at = GlobalPlace(at[2]) /\ at[2] \in GlobalSlots
                               \/ at[1] = "block" /\ at = BlockPlace(at[2]) /\ at[2] \in 0..1
                               \/ at[1] = "cell" /\ at = Cell
<1>1. CASE at \in {AccumulatorPlace(f) : f \in Files}
  BY <1>1 DEF AccumulatorPlace, InRegister
<1>2. CASE at \in ArgumentPlaces
  <2>1. PICK p \in Parameters : at = ArgumentPlace(p[1], p[2])
    BY <1>2 DEF ArgumentPlaces
  <2>2. p = <<p[1], p[2]>> /\ at[1] = "argument" /\ at[2] = p[1] /\ at[3] = p[2]
    BY <2>1, ParametersAre DEF ArgumentPlace
  <2> QED BY <2>1, <2>2 DEF InRegister
<1>3. CASE at = Overflow
  BY <1>3 DEF Overflow, InRegister
<1>4. CASE at \in {SlotPlace(s) : s \in frame.used}
  BY <1>4 DEF SlotPlace, InRegister
<1>5. CASE at \in GlobalPlaces
  BY <1>5 DEF GlobalPlaces, GlobalPlace, InRegister
<1>6. CASE at \in BlockPlaces
  BY <1>6 DEF BlockPlaces, BlockPlace, InRegister
<1>7. CASE at = Cell
  BY <1>7 DEF Cell, InRegister
<1> QED BY <1>1, <1>2, <1>3, <1>4, <1>5, <1>6, <1>7 DEF AllPlaces

\* Only an accumulator and the first argument of its file may be the same register.
LEMMA RegistersApart ==
  ASSUME Known, NEW a \in AllPlaces, InRegister(a), NEW b \in AllPlaces, InRegister(b), RegisterOf(a) = RegisterOf(b)
  PROVE  \/ a = b
         \/ \E f \in Files : \/ a = AccumulatorPlace(f) /\ b = ArgumentPlace(f, 0)
                             \/ b = AccumulatorPlace(f) /\ a = ArgumentPlace(f, 0)
<1>0. \A at \in {a, b} : \/ at[1] = "accumulator" /\ at = AccumulatorPlace(at[2]) /\ at[2] \in Files
                         \/ at[1] = "argument" /\ at = ArgumentPlace(at[2], at[3]) /\ <<at[2], at[3]>> \in Parameters
                         \/ at[1] = "overflow" /\ at = Overflow
  BY PlacesAre
<1>1. \A at : /\ at[1] = "accumulator" => RegisterOf(at) = AccumulatorIn(at[2])
              /\ at[1] = "argument" => RegisterOf(at) = ArgumentIn(at[2], at[3])
              /\ at[1] = "overflow" => RegisterOf(at) = BlockIn
  BY DEF RegisterOf
<1>2. \A p \in Parameters :
        /\ ArgumentIn(p[1], p[2]) # BlockIn
        /\ \A q \in Parameters : ArgumentIn(p[1], p[2]) = ArgumentIn(q[1], q[2]) => p = q
        /\ \A f \in Files : ArgumentIn(p[1], p[2]) = AccumulatorIn(f) => p = <<f, 0>>
  BY ArgumentsIn
<1>3. \A f, g \in Files : AccumulatorIn(f) = AccumulatorIn(g) => f = g
  BY SpecialRegisters DEF Files
<1>4. \A f \in Files : AccumulatorIn(f) # BlockIn
  BY SpecialRegisters DEF Files
<1>5. ASSUME NEW x \in {a, b}, NEW y \in {a, b}, x[1] = "argument", y[1] = "accumulator", RegisterOf(x) = RegisterOf(y)
      PROVE  y = AccumulatorPlace(y[2]) /\ x = ArgumentPlace(y[2], 0) /\ y[2] \in Files
  <2> DEFINE p == <<x[2], x[3]>>
  <2>1. p \in Parameters /\ y[2] \in Files /\ x = ArgumentPlace(p[1], p[2]) /\ y = AccumulatorPlace(y[2])
    BY <1>0, <1>5
  <2>2. ArgumentIn(p[1], p[2]) = AccumulatorIn(y[2])
    BY <1>1, <1>5
  <2>3. p = <<y[2], 0>>
    <3> HIDE DEF p
    <3> QED BY <1>2, <2>1, <2>2
  <2> QED BY <2>1, <2>3
<1>6. CASE a[1] = "argument" /\ b[1] = "argument"
  <2> DEFINE p == <<a[2], a[3]>>
             q == <<b[2], b[3]>>
  <2>1. p \in Parameters /\ q \in Parameters /\ a = ArgumentPlace(p[1], p[2]) /\ b = ArgumentPlace(q[1], q[2])
    BY <1>0, <1>6
  <2>2. ArgumentIn(p[1], p[2]) = ArgumentIn(q[1], q[2])
    BY <1>1, <1>6
  <2> HIDE DEF p, q
  <2> QED BY <1>2, <2>1, <2>2
<1>7. CASE a[1] = "accumulator" /\ b[1] = "accumulator"
  BY <1>0, <1>1, <1>3, <1>7
<1>8. CASE a[1] = "overflow" \/ b[1] = "overflow"
  <2>1. \A x \in {a, b} : RegisterOf(x) = BlockIn => x = Overflow
    <3> SUFFICES ASSUME NEW x \in {a, b}, RegisterOf(x) = BlockIn PROVE x = Overflow
      OBVIOUS
    <3>1. CASE x[1] = "argument"
      <4> DEFINE p == <<x[2], x[3]>>
      <4>1. p \in Parameters /\ ArgumentIn(p[1], p[2]) = BlockIn
        BY <1>0, <1>1, <3>1
      <4> HIDE DEF p
      <4> QED BY <1>2, <4>1
    <3>2. CASE x[1] = "accumulator"
      BY <1>0, <1>1, <1>4, <3>2
    <3>3. CASE x[1] = "overflow"
      BY <1>0, <3>3
    <3> QED BY <1>0, <3>1, <3>2, <3>3
  <2> QED BY <1>1, <1>8, <2>1
<1>9. CASE a[1] = "argument" /\ b[1] = "accumulator"
  BY <1>5, <1>9
<1>10. CASE b[1] = "argument" /\ a[1] = "accumulator"
  BY <1>5, <1>10
<1> QED BY <1>0, <1>6, <1>7, <1>8, <1>9, <1>10

\* The register of a place is one the code uses, and never the link register.
LEMMA RegistersOf ==
  ASSUME Known, NEW a \in AllPlaces, InRegister(a)
  PROVE  RegisterOf(a) \in Used /\ RegisterOf(a) # Lr
<1>1. CASE a[1] = "accumulator"
  BY <1>1, PlacesAre, SpecialRegisters DEF RegisterOf, Files, AccumulatorIn, X, D, Xmm, Ax, Lr
<1>2. CASE a[1] = "argument"
  <2> DEFINE p == <<a[2], a[3]>>
  <2>1. p \in Parameters
    BY <1>2, PlacesAre
  <2>2. RegisterOf(a) = ArgumentIn(p[1], p[2])
    BY <1>2 DEF RegisterOf
  <2> HIDE DEF p
  <2> QED BY <2>1, <2>2, ArgumentsIn
<1>3. CASE a[1] = "overflow"
  BY <1>3, SpecialRegisters DEF RegisterOf, BlockIn, X, R10, Lr
<1> QED BY <1>1, <1>2, <1>3, PlacesAre

\* A cell that is the function's own to write.
Ours(at) ==
  /\ at[1] = OfStack /\ at[2] >= EntrySp => at = CellAt
  /\ at # <<OfStack, -16>> /\ at # <<OfStack, -8>>

CellIs(c, a) ==
  /\ c = <<c[1], c[2]>> /\ c[1] \in Regions /\ c[2] \in Int /\ c[2] % 8 = 0
  /\ c \notin HomeAt(BodySp) /\ c \notin {<<OfStack, -16>>, <<OfStack, -8>>}
  /\ a[1] # "block" => Ours(c)
  /\ a[1] = "slot" => c = <<OfStack, SlotBase + 8 * a[2]>> /\ c[2] <= -24
  /\ a[1] = "global" => c = <<OfGlobals, 8 * a[2]>> /\ a[2] \in Nat
  /\ a[1] = "block" => c = <<OfStack, 320 + 8 * a[2]>> /\ a[2] \in 0..1
  /\ a[1] = "cell" => c = <<OfStack, 160>>

\* The cell of a place lies where its kind of place is.
LEMMA CellsAre ==
  ASSUME Framed, NEW a \in AllPlaces, ~InRegister(a)
  PROVE  CellIs(CellOf(SlotBase, a), a)
<1> DEFINE c == CellOf(SlotBase, a)
<1>0. /\ BodySp \in Int /\ SlotBase \in Int /\ ShadowBytes \in {0, 32} /\ SlotBase = BodySp + ShadowBytes /\ BodySp <= -16
      /\ Bytes \in Nat /\ Bytes >= ShadowBytes
      /\ \A s \in frame.used : s \in Nat /\ SlotBase + 8 * s <= -24 /\ SlotBase + 8 * s >= SlotBase /\ (SlotBase + 8 * s) % 8 = 0
  BY FrameFits DEF BodySp
<1>1. \A at \in HomeAt(BodySp) : at[1] = OfStack /\ at[2] < SlotBase /\ at[2] < 0
  <2>1. CASE ShadowBytes = 0
    BY <2>1 DEF HomeAt
  <2>2. CASE ShadowBytes = 32
    <3>1. ShadowBytes \div 8 = 4 /\ SlotBase = BodySp + 32
      BY <1>0, <2>2
    <3>2. SlotBase <= 0
      <4>1. Bytes >= 32
        BY <1>0, <2>2
      <4> QED BY <1>0, <3>1, <4>1 DEF BodySp
    <3> QED BY <1>0, <3>1, <3>2 DEF HomeAt
  <2> QED BY <1>0, <2>1, <2>2
<1>2. OfStack # OfGlobals /\ OfStack \in Regions /\ OfGlobals \in Regions /\ EntrySp \in {0, -8}
  BY DEF OfStack, OfGlobals, Regions, EntrySp
<1>3. CASE a[1] = "slot"
  <2> DEFINE n == SlotBase + 8 * a[2]
  <2>1. c = <<OfStack, n>> /\ a[2] \in frame.used
    BY <1>3, PlacesAre DEF CellOf
  <2>2. n \in Int /\ n <= -24 /\ n >= SlotBase /\ n % 8 = 0
    BY <1>0, <2>1
  <2> HIDE DEF n
  <2>3. c \notin HomeAt(BodySp)
    <3>1. c[2] = n
      BY <2>1
    <3> HIDE DEF c
    <3> QED BY <1>0, <1>1, <2>2, <3>1
  <2>4. c[1] = OfStack /\ c[2] = n
    BY <2>1
  <2>5. Ours(<<OfStack, n>>)
    BY <1>2, <2>2 DEF Ours
  <2> QED BY <1>2, <1>3, <2>1, <2>2, <2>3, <2>4, <2>5 DEF n, CellIs
<1>4. CASE a[1] = "global"
  <2>1. c = <<OfGlobals, 8 * a[2]>> /\ a[2] \in {0, 4100}
    <3>1. a[2] \in GlobalSlots
      BY <1>4, PlacesAre
    <3> QED BY <1>4, <3>1 DEF CellOf, GlobalSlots
  <2>2. c \notin HomeAt(BodySp)
    BY <1>1, <1>2, <2>1
  <2>3. Ours(c) /\ (8 * a[2]) % 8 = 0
    BY <1>2, <2>1 DEF Ours
  <2>4. c[1] = OfGlobals /\ c[2] \in Int /\ c[2] % 8 = 0 /\ c = <<c[1], c[2]>>
    <3> HIDE DEF c
    <3> QED BY <2>1, <2>3
  <2>5. c \notin {<<OfStack, -16>>, <<OfStack, -8>>} /\ a[2] \in Nat
    <3> HIDE DEF c
    <3> QED BY <1>2, <2>1, <2>4
  <2>6. CellIs(c, a)
    <3> HIDE DEF c
    <3>1. c = <<OfGlobals, 8 * a[2]>> /\ Ours(c) /\ c[1] \in Regions
      BY <1>2, <2>1, <2>3, <2>4
    <3>2. a[1] # "slot" /\ a[1] # "block" /\ a[1] # "cell"
      BY <1>4
    <3> QED BY <2>2, <2>4, <2>5, <3>1, <3>2, Zenon DEF CellIs
  <2> QED BY <2>6
<1>5. CASE a[1] = "block"
  <2>1. c = <<OfStack, 320 + 8 * a[2]>> /\ a[2] \in 0..1
    BY <1>5, PlacesAre DEF CellOf, BlockAt
  <2>2. c \notin HomeAt(BodySp)
    BY <1>1, <1>2, <2>1
  <2>3. c[1] = OfStack /\ c[2] \in {320, 328} /\ c[2] % 8 = 0 /\ c = <<c[1], c[2]>>
    <3> HIDE DEF c
    <3> QED BY <2>1
  <2>4. CellIs(c, a)
    <3> HIDE DEF c
    <3>1. c[1] \in Regions /\ c[2] \in Int /\ c # <<OfStack, -16>> /\ c # <<OfStack, -8>>
      BY <1>2, <2>3
    <3>2. a[1] # "slot" /\ a[1] # "global" /\ a[1] # "cell"
      BY <1>5
    <3> QED BY <1>5, <2>1, <2>2, <2>3, <3>1, <3>2, Zenon DEF CellIs
  <2> QED BY <2>4
<1>6. CASE a[1] = "cell"
  <2>1. c = <<OfStack, 160>> /\ c = CellAt
    BY <1>6, PlacesAre DEF CellOf, CellAt
  <2>2. c \notin HomeAt(BodySp)
    BY <1>1, <1>2, <2>1
  <2>3. Ours(c)
    BY <1>2, <2>1 DEF Ours
  <2>4. CellIs(c, a)
    <3> HIDE DEF c
    <3> QED BY <1>2, <1>6, <2>1, <2>2, <2>3 DEF CellIs
  <2> QED BY <2>4
<1>7. a[1] \in {"slot", "global", "block", "cell"}
  BY PlacesAre
<1> QED BY <1>3, <1>4, <1>5, <1>6, <1>7

\* No two places in memory share a cell.
LEMMA CellsApart ==
  ASSUME Framed, NEW a \in AllPlaces, ~InRegister(a), NEW b \in AllPlaces, ~InRegister(b), CellOf(SlotBase, a) = CellOf(SlotBase, b)
  PROVE  a = b
<1> DEFINE c == CellOf(SlotBase, a)
<1>1. \A x \in {a, b} :
        \/ x[1] = "slot" /\ x = SlotPlace(x[2]) /\ x[2] \in Nat /\ c = <<OfStack, SlotBase + 8 * x[2]>> /\ c[2] <= -24
        \/ x[1] = "global" /\ x = GlobalPlace(x[2]) /\ x[2] \in Nat /\ c = <<OfGlobals, 8 * x[2]>>
        \/ x[1] = "block" /\ x = BlockPlace(x[2]) /\ x[2] \in 0..1 /\ c = <<OfStack, 320 + 8 * x[2]>>
        \/ x[1] = "cell" /\ x = Cell /\ c = <<OfStack, 160>>
  <2> SUFFICES ASSUME NEW x \in {a, b}
               PROVE  \/ x[1] = "slot" /\ x = SlotPlace(x[2]) /\ x[2] \in Nat /\ c = <<OfStack, SlotBase + 8 * x[2]>> /\ c[2] <= -24
                      \/ x[1] = "global" /\ x = GlobalPlace(x[2]) /\ x[2] \in Nat /\ c = <<OfGlobals, 8 * x[2]>>
                      \/ x[1] = "block" /\ x = BlockPlace(x[2]) /\ x[2] \in 0..1 /\ c = <<OfStack, 320 + 8 * x[2]>>
                      \/ x[1] = "cell" /\ x = Cell /\ c = <<OfStack, 160>>
    OBVIOUS
  <2>1. /\ x[1] = "slot" => c = <<OfStack, SlotBase + 8 * x[2]>> /\ c[2] <= -24
        /\ x[1] = "global" => c = <<OfGlobals, 8 * x[2]>> /\ x[2] \in Nat
        /\ x[1] = "block" => c = <<OfStack, 320 + 8 * x[2]>> /\ x[2] \in 0..1
        /\ x[1] = "cell" => c = <<OfStack, 160>>
    BY CellsAre DEF CellIs
  <2>2. \A s \in frame.used : s \in Nat
    BY DEF Framed
  <2> HIDE DEF c
  <2>3. ~InRegister(x) /\ x \in AllPlaces
    OBVIOUS
  <2>4. \/ x[1] = "slot" /\ x = SlotPlace(x[2]) /\ x[2] \in frame.used
        \/ x[1] = "global" /\ x = GlobalPlace(x[2])
        \/ x[1] = "block" /\ x = BlockPlace(x[2])
        \/ x[1] = "cell" /\ x = Cell
    BY <2>3, PlacesAre
  <2> QED BY <2>1, <2>2, <2>4
<1>2. SlotBase \in Int /\ OfStack # OfGlobals
  BY FrameFits DEF OfStack, OfGlobals
<1> HIDE DEF c
<1>3. a[1] = b[1] /\ (a[1] # "cell" => a[2] = b[2])
  BY <1>1, <1>2
<1> QED BY <1>1, <1>3

-------------------------------------------------------------------------------
(* Promises: what they may be, and that they are kept. *)

Meant(kind, word) ==
  /\ kind \in Kinds /\ word \in Words
  /\ kind # "Wide" => word[1] >= 0
  /\ word[1] = OfSlot => word[4] \in frame.used

AsPromised(m, at, kind, word) == Same(kind, Found(m, SlotBase, at), Actual(SlotBase, word))

\* Of p, what is about a place that exists, makes sense, and is so in m.
Good(m, p) ==
  /\ DOMAIN p \subseteq AllPlaces
  /\ \A at \in DOMAIN p : Meant(p[at].kind, p[at].word) /\ AsPromised(m, at, p[at].kind, p[at].word)

\* Neither these registers nor these cells are of a place that is not lost.
Misses(regs, cells, lost) ==
  \A at \in AllPlaces \ lost : IF InRegister(at) THEN RegisterOf(at) \notin regs ELSE CellOf(SlotBase, at) \notin cells

\* Being the same word for a kind is an equality.
LEMMA SameIsEquality ==
  ASSUME NEW kind, NEW a, NEW b, NEW c
  PROVE  /\ Same(kind, a, a)
         /\ Same(kind, a, b) /\ Same(kind, b, c) => Same(kind, a, c)
  BY DEF Same

\* A place that code misses holds what it held.
LEMMA Stays ==
  ASSUME Known, NEW m, NEW n, NEW regs, NEW cells, Spares(m, n, regs, cells), NEW lost, Misses(regs, cells, lost),
         NEW at \in AllPlaces \ lost
  PROVE  Found(n, SlotBase, at) = Found(m, SlotBase, at)
<1>1. CASE InRegister(at)
  <2>1. RegisterOf(at) \in AllRegisters \ regs
    BY <1>1, RegistersOf DEF Misses, Used
  <2>2. n.reg[RegisterOf(at)] = m.reg[RegisterOf(at)]
    BY <2>1 DEF Spares
  <2> QED BY <1>1, <2>2 DEF Found, InRegister
<1>2. CASE ~InRegister(at)
  <2> DEFINE c == CellOf(SlotBase, at)
  <2>1. c \notin cells
    BY <1>2 DEF Misses
  <2> HIDE DEF c
  <2>2. Held(n, c) = Held(m, c)
    BY <2>1, SparedHeld
  <2> QED BY <1>2, <2>2 DEF Found, InRegister, c
<1> QED BY <1>1, <1>2

Fewer(q, p, lost) == DOMAIN q \subseteq DOMAIN p \ lost /\ \A at \in DOMAIN q : q[at] = p[at]

\* Code that misses the places still promised keeps their promises.
LEMMA GoodFewer ==
  ASSUME Known, NEW m, NEW n, NEW p, NEW q, Good(m, p), NEW regs, NEW cells, Spares(m, n, regs, cells),
         NEW lost, Misses(regs, cells, lost), Fewer(q, p, lost)
  PROVE  Good(n, q)
<1>1. ASSUME NEW at \in DOMAIN q PROVE Meant(q[at].kind, q[at].word) /\ AsPromised(n, at, q[at].kind, q[at].word)
  <2>1. at \in DOMAIN p /\ at \in AllPlaces \ lost /\ q[at] = p[at]
    BY DEF Fewer, Good
  <2>2. Found(n, SlotBase, at) = Found(m, SlotBase, at)
    BY <2>1, Stays
  <2> QED BY <2>1, <2>2 DEF Good, AsPromised
<1>2. DOMAIN q \subseteq AllPlaces
  BY DEF Fewer, Good
<1> QED BY <1>1, <1>2 DEF Good

\* Of what is left, all but one place, which something is put in.
LEMMA GoodPut ==
  ASSUME Known, NEW m, NEW n, NEW p, NEW q, Good(m, p), NEW regs, NEW cells, Spares(m, n, regs, cells),
         NEW lost, Misses(regs, cells, lost), NEW t \in AllPlaces, Fewer(Without(q, {t}), p, lost),
         NEW kind, NEW word, Meant(kind, word), AsPromised(n, t, kind, word)
  PROVE  Good(n, Put(q, t, Holding(kind, word)))
<1> DEFINE v == Holding(kind, word)
           r == Put(q, t, v)
           q2 == Without(q, {t})
<1>1. Good(n, q2)
  BY GoodFewer
<1>2. v.kind = kind /\ v.word = word
  BY DEF Holding
<1>3. DOMAIN r = DOMAIN q2 \cup {t} /\ r[t] = v /\ \A at \in DOMAIN q2 : r[at] = q2[at] /\ at # t
  BY DEF Put, Without
<1> HIDE DEF r, v, q2
<1>4. ASSUME NEW at \in DOMAIN r PROVE Meant(r[at].kind, r[at].word) /\ AsPromised(n, at, r[at].kind, r[at].word)
  <2>1. CASE at = t
    BY <1>2, <1>3, <2>1
  <2>2. CASE at \in DOMAIN q2
    BY <1>1, <1>3, <2>2 DEF Good
  <2> QED BY <1>3, <2>1, <2>2
<1>5. DOMAIN r \subseteq AllPlaces
  BY <1>1, <1>3 DEF Good
<1>6. Good(n, r)
  BY <1>4, <1>5 DEF Good
<1> QED BY <1>6 DEF r, v

\* A value goes from one place to another, if it is of the kind that goes.
LEMMA GoodMoved ==
  ASSUME Known, NEW m, NEW n, NEW p, NEW q, Good(m, p), NEW regs, NEW cells, Spares(m, n, regs, cells),
         NEW lost, Misses(regs, cells, lost), NEW t \in AllPlaces, Fewer(Without(q, {t}), p, lost),
         NEW from, NEW kind,
         from \in DOMAIN q => from \in DOMAIN p /\ q[from] = p[from],
         Same(kind, Found(n, SlotBase, t), Found(m, SlotBase, from))
  PROVE  Good(n, Moved(q, from, kind, t))
<1>1. CASE from \in DOMAIN q /\ q[from].kind = kind
  <2> DEFINE v == q[from]
             word == v.word
  <2>1. from \in DOMAIN p /\ v = p[from] /\ v.kind = kind
    BY <1>1
  <2>2. Meant(kind, word) /\ AsPromised(m, from, kind, word)
    BY <2>1 DEF Good
  <2>3. AsPromised(n, t, kind, word)
    BY <2>2, SameIsEquality DEF AsPromised
  <2> DEFINE w == Holding(kind, word)
  <2>4. Good(n, Put(q, t, w))
    <3> HIDE DEF v, word
    <3> QED BY <2>2, <2>3, GoodPut
  <2>5. Moved(q, from, kind, t) = Put(q, t, v)
    BY <1>1 DEF Moved
  <2>6. w.kind = v.kind /\ w.word = v.word
    BY <2>1 DEF Holding
  <2> HIDE DEF w, v
  <2>7. Put(q, t, w) = [x \in DOMAIN q \cup {t} |-> IF x = t THEN w ELSE q[x]]
    BY DEF Put
  <2>8. Put(q, t, v) = [x \in DOMAIN q \cup {t} |-> IF x = t THEN v ELSE q[x]]
    BY DEF Put
  <2> DEFINE a == Put(q, t, w)
             b == Put(q, t, v)
  <2>9. DOMAIN b = DOMAIN a /\ \A at \in DOMAIN b : b[at].kind = a[at].kind /\ b[at].word = a[at].word
    BY <2>6, <2>7, <2>8
  <2> HIDE DEF a, b
  <2>10. Good(n, b)
    BY <2>4, <2>9 DEF Good, a
  <2> QED BY <2>5, <2>10 DEF b
<1>2. CASE ~(from \in DOMAIN q /\ q[from].kind = kind)
  <2>1. Moved(q, from, kind, t) = Without(q, {t})
    BY <1>2 DEF Moved
  <2> QED BY <2>1, GoodFewer
<1> QED BY <1>1, <1>2

\* What is kept of a half, and of a whole.
LEMMA LoadedSame ==
  ASSUME NEW kind \in Kinds, NEW w \in Words, NEW v \in Words
  PROVE  /\ Same(kind, Loaded(Width(kind), w), w)
         /\ Same(kind, Stored(Width(kind), v, w), w)
         /\ Same(kind, Stored(Width(kind), v, Loaded(Width(kind), w)), w)
         /\ Same(kind, Stored(Width(kind), v, Loaded(8, w)), w)
  BY DEF Same, Loaded, Stored, Width, Kinds, Low, Words

-------------------------------------------------------------------------------
(* Which places are lost. *)

Closed(lost) == \A f \in Files : AccumulatorPlace(f) \in lost <=> ArgumentPlace(f, 0) \in lost

RegistersOfPlaces(lost) == {RegisterOf(x) : x \in {y \in lost : InRegister(y)}}
CellsOfPlaces(lost) == {CellOf(SlotBase, x) : x \in {y \in lost : ~InRegister(y)}}

\* Losing every place of the registers and cells that code touches, it misses the others.
LEMMA MissesThem ==
  ASSUME Framed, NEW lost, lost \subseteq AllPlaces, Closed(lost), NEW regs, regs \cap Used \subseteq RegistersOfPlaces(lost),
         NEW cells, cells \subseteq CellsOfPlaces(lost)
  PROVE  Misses(regs, cells, lost)
<1> SUFFICES ASSUME NEW at \in AllPlaces \ lost
             PROVE  IF InRegister(at) THEN RegisterOf(at) \notin regs ELSE CellOf(SlotBase, at) \notin cells
  BY DEF Misses
<1>0. Known
  BY DEF Framed
<1>1. CASE InRegister(at)
  <2> SUFFICES ASSUME RegisterOf(at) \in regs PROVE FALSE
    BY <1>1
  <2>1. RegisterOf(at) \in RegistersOfPlaces(lost)
    BY <1>0, <1>1, RegistersOf
  <2>2. PICK x \in lost : InRegister(x) /\ RegisterOf(x) = RegisterOf(at)
    BY <2>1 DEF RegistersOfPlaces
  <2>3. x \in AllPlaces /\ x # at
    BY <2>2
  <2>4. PICK f \in Files : \/ at = AccumulatorPlace(f) /\ x = ArgumentPlace(f, 0)
                           \/ x = AccumulatorPlace(f) /\ at = ArgumentPlace(f, 0)
    BY <1>0, <1>1, <2>2, <2>3, RegistersApart
  <2> QED BY <2>2, <2>4 DEF Closed
<1>2. CASE ~InRegister(at)
  <2> SUFFICES ASSUME CellOf(SlotBase, at) \in cells PROVE FALSE
    BY <1>2
  <2>1. PICK x \in lost : ~InRegister(x) /\ CellOf(SlotBase, x) = CellOf(SlotBase, at)
    BY DEF CellsOfPlaces
  <2>2. x \in AllPlaces /\ x # at
    BY <2>1
  <2> QED BY <1>2, <2>1, <2>2, CellsApart
<1> QED BY <1>1, <1>2

-------------------------------------------------------------------------------
(* The body of a function. *)

Caller(m) ==
  \A at \in DOMAIN m.mem :
    at[1] = OfStack /\ at[2] >= EntrySp /\ at # CellAt => at \in DOMAIN Memory0 /\ m.mem[at] = Memory0[at]

Body(m) ==
  /\ Ready(m) /\ m.reg[Sp] = Pointing(OfStack, BodySp)
  /\ Held(m, <<OfStack, -16>>) = EntryRegister(Fp)
  /\ Arm => Held(m, <<OfStack, -8>>) = EntryRegister(Lr)
  /\ \A r \in Preserved \ {Sp, Fp} : m.reg[r] = EntryRegister(r)
  /\ Caller(m)

\* Code that spares the preserved registers and writes only its own cells stays in the body.
LEMMA BodyStays ==
  ASSUME Known, NEW m, Body(m), NEW n, Ready(n), NEW regs, NEW cells, Spares(m, n, regs, cells),
         regs \cap Preserved = {}, \A at \in cells : Ours(at)
  PROVE  Body(n)
<1>1. Sp \in Preserved /\ Preserved \subseteq AllRegisters
  BY SpecialRegisters
<1>2. \A r \in Preserved : n.reg[r] = m.reg[r]
  BY <1>1 DEF Spares
<1>3. <<OfStack, -16>> \notin cells /\ <<OfStack, -8>> \notin cells
  BY DEF Ours
<1>4. Held(n, <<OfStack, -16>>) = Held(m, <<OfStack, -16>>) /\ Held(n, <<OfStack, -8>>) = Held(m, <<OfStack, -8>>)
  BY <1>3, SparedHeld
<1>5. Caller(n)
  <2> SUFFICES ASSUME NEW at \in DOMAIN n.mem, at[1] = OfStack, at[2] >= EntrySp, at # CellAt
               PROVE  at \in DOMAIN Memory0 /\ n.mem[at] = Memory0[at]
    BY DEF Caller
  <2>1. at \notin cells
    BY DEF Ours
  <2>2. SameCell(m, n, at)
    BY <2>1 DEF Spares
  <2>3. at \in DOMAIN m.mem /\ n.mem[at] = m.mem[at]
    BY <2>2 DEF SameCell
  <2> QED BY <2>3 DEF Body, Caller
<1> QED BY <1>1, <1>2, <1>4, <1>5 DEF Body

-------------------------------------------------------------------------------
(* What is emitted for each operation. *)

ArmAcc(op) == RegisterFile(op.kind, 0)
ArmArg(op) == RegisterFile(op.kind, op.number)

\* The AArch64 code of every operation.
LEMMA ArmCodes ==
  ASSUME NEW op
  PROVE  LET width == Width(op.kind)
             over == Materialise(X(0), op.word, 2)
             pointer == LoadFrom(SlotAddress(op.slot, 8), X(17), 8)
         IN  /\ op.do = "loadIntConstant" => ArmCode(op) = Materialise(X(0), op.word, 2)
             /\ op.do = "loadRealConstant" => ArmCode(op) = Append(Materialise(X(9), op.word, 4), Copy(D(0), X(9), 8))
             /\ op.do = "storeSlot" => ArmCode(op) = StoreTo(SlotAddress(op.slot, width), ArmAcc(op), width)
             /\ op.do = "loadSlot" => ArmCode(op) = LoadFrom(SlotAddress(op.slot, width), ArmAcc(op), width)
             /\ op.do = "setArg" => ArmCode(op) = IF op.number = 0 THEN <<>> ELSE <<Copy(ArmArg(op), ArmAcc(op), width)>>
             /\ op.do = "loadSlotIntoArg" => ArmCode(op) = LoadFrom(SlotAddress(op.slot, width), ArmArg(op), width)
             /\ op.do = "spillArgument" => ArmCode(op) = StoreTo(SlotAddress(op.slot, width), ArmArg(op), width)
             /\ op.do = "setOverflowBlock" => ArmCode(op) = AddressInto(X(9), op.slot)
             /\ op.do = "spillOverflowArgument" =>
                  ArmCode(op) = <<LoadWord(RegisterFile(op.kind, 17), 8, X(9), 8 * op.number)>>
                                  \o StoreTo(SlotAddress(op.slot, width), RegisterFile(op.kind, 17), width)
             /\ op.do = "loadSlotAddress" => ArmCode(op) = AddressInto(X(0), op.slot)
             /\ op.do = "loadBytesAddress" => ArmCode(op) = <<SetTo(X(0), Pointing(OfBytes, op.number))>>
             /\ op.do = "storeThroughPointer" => ArmCode(op) = Append(pointer, StoreWord(ArmAcc(op), width, X(17), 0))
             /\ op.do = "loadThroughPointer" => ArmCode(op) = Append(pointer, LoadWord(ArmAcc(op), width, X(17), 0))
             /\ op.do = "storeGlobal" => ArmCode(op) = StoreTo(GlobalAddress(op.slot, width), ArmAcc(op), width)
             /\ op.do = "loadGlobal" => ArmCode(op) = LoadFrom(GlobalAddress(op.slot, width), ArmAcc(op), width)
             /\ op.do = "widenAccumulator" => ArmCode(op) = <<Extend(X(0), X(0))>>
             /\ op.do = "call" => ArmCode(op) = <<CallIt>>
             /\ op.do = "jump" => ArmCode(op) = <<Skip(X(0), FALSE, Len(over))>> \o over
             /\ op.do = "jumpIfZero" => ArmCode(op) = <<Skip(X(0), TRUE, Len(over))>> \o over
  BY DEF ArmCode, ArmAcc, ArmArg

X86Acc(op) == Register(RegisterFor(op.kind), Width(op.kind))
X86Slot(op) == SlotOperand(op.slot, Width(op.kind))
X86Arg(op) == Register(ArgReg(op.kind, op.number), Width(op.kind))
X86Via(op) == Register(IF op.kind = "Real" THEN Xmm(8) ELSE R11, Width(op.kind))
X86Globals == LoadAddress(Label(Pointing(OfGlobals, 0)), Register(R11, 8))
X86Global(op) == Memory(R11, 8 * op.slot, Width(op.kind))
X86Pointer(op) == BinaryText("mov", 8, SlotOperand(op.slot, 8), Register(R10, 8))
X86Pointed(op) == Memory(R10, 0, Width(op.kind))

\* The x86-64 text of every operation.
LEMMA X86Texts ==
  ASSUME NEW op
  PROVE  /\ op.do = "loadIntConstant" => X86Text(op) = <<BinaryText("mov", 4, Immediate(op.word), Register(Ax, 4))>>
         /\ op.do = "loadRealConstant" =>
              X86Text(op) = <<BinaryText("mov", 8, Immediate(op.word), Register(Ax, 8)),
                              BinaryText("movq", 0, Register(Ax, 8), Register(Xmm(0), 8))>>
         /\ op.do = "storeSlot" => X86Text(op) = <<Move(op.kind, X86Acc(op), X86Slot(op))>>
         /\ op.do = "loadSlot" => X86Text(op) = <<Move(op.kind, X86Slot(op), X86Acc(op))>>
         /\ op.do = "setArg" /\ X86Arg(op) = X86Acc(op) => X86Text(op) = <<>>
         /\ op.do = "setArg" /\ X86Arg(op) # X86Acc(op) =>
              X86Text(op) = <<IF op.kind = "Real" THEN BinaryText("movapd", 0, X86Acc(op), X86Arg(op))
                              ELSE Move(op.kind, X86Acc(op), X86Arg(op))>>
         /\ op.do = "loadSlotIntoArg" => X86Text(op) = <<Move(op.kind, X86Slot(op), X86Arg(op))>>
         /\ op.do = "spillArgument" => X86Text(op) = <<Move(op.kind, X86Arg(op), X86Slot(op))>>
         /\ op.do = "setOverflowBlock" => X86Text(op) = <<LoadAddress(SlotOperand(op.slot, 8), Register(R10, 8))>>
         /\ op.do = "spillOverflowArgument" =>
              X86Text(op) = <<Move(op.kind, Memory(R10, 8 * op.number, Width(op.kind)), X86Via(op)),
                              Move(op.kind, X86Via(op), X86Slot(op))>>
         /\ op.do = "loadSlotAddress" => X86Text(op) = <<LoadAddress(SlotOperand(op.slot, 8), Register(Ax, 8))>>
         /\ op.do = "loadBytesAddress" => X86Text(op) = <<LoadAddress(Label(Pointing(OfBytes, op.number)), Register(Ax, 8))>>
         /\ op.do = "storeThroughPointer" => X86Text(op) = <<X86Pointer(op), Move(op.kind, X86Acc(op), X86Pointed(op))>>
         /\ op.do = "loadThroughPointer" => X86Text(op) = <<X86Pointer(op), Move(op.kind, X86Pointed(op), X86Acc(op))>>
         /\ op.do = "storeGlobal" => X86Text(op) = <<X86Globals, Move(op.kind, X86Acc(op), X86Global(op))>>
         /\ op.do = "loadGlobal" => X86Text(op) = <<X86Globals, Move(op.kind, X86Global(op), X86Acc(op))>>
         /\ op.do = "widenAccumulator" => X86Text(op) = <<WidenText(Register(Ax, 4), Register(Ax, 8))>>
         /\ op.do \in {"jump", "jumpIfZero"} => X86Text(op) = <<BinaryText("mov", 4, Immediate(op.word), Register(Ax, 4))>>
         /\ op.do = "call" => X86Text(op) = <<>>
  BY DEF X86Text, X86Acc, X86Slot, X86Arg, X86Via, X86Globals, X86Global, X86Pointer, X86Pointed

-------------------------------------------------------------------------------
(* What it does, whatever the target. *)

Emitted(op) == IF Arm THEN ArmAssembled(ArmCode(op)) ELSE X86Code(op)

LoadedInto(m, n, r, kind, word, regs) == Ready(n) /\ Kept(m, n, regs) /\ n.reg[r] = Loaded(Width(kind), word)

StoredAt(m, n, at, kind, word, regs) ==
  Ready(n) /\ \E old \in Words : Wrote(m, n, at, Stored(Width(kind), old, word), regs)

\* What was word is now in t, as far as its kind says, and nothing but these changed.
Brings(m, n, t, kind, word, regs, cells) ==
  Ready(n) /\ Spares(m, n, regs, cells) /\ Same(kind, Found(n, SlotBase, t), word)

\* A load into the register of a place brings the word there.
LEMMA BringsLoaded ==
  ASSUME NEW m, NEW n, NEW t, InRegister(t), NEW kind \in Kinds, NEW word \in Words, NEW regs,
         LoadedInto(m, n, RegisterOf(t), kind, word, regs)
  PROVE  Brings(m, n, t, kind, word, regs, {})
<1>1. Spares(m, n, regs, {})
  BY KeptSpares DEF LoadedInto
<1>2. Found(n, SlotBase, t) = Loaded(Width(kind), word)
  BY DEF Found, InRegister, LoadedInto
<1> QED BY <1>1, <1>2, LoadedSame DEF Brings, LoadedInto

\* A store to the cell of a place brings the word there.
LEMMA BringsStored ==
  ASSUME NEW m, NEW n, NEW t, ~InRegister(t), NEW kind \in Kinds, NEW word \in Words, NEW regs,
         StoredAt(m, n, CellOf(SlotBase, t), kind, word, regs)
  PROVE  Brings(m, n, t, kind, word, regs, {CellOf(SlotBase, t)})
<1> DEFINE c == CellOf(SlotBase, t)
<1>1. PICK old \in Words : Wrote(m, n, c, Stored(Width(kind), old, word), regs)
  BY DEF StoredAt
<1>2. Spares(m, n, regs, {c}) /\ Held(n, c) = Stored(Width(kind), old, word)
  BY <1>1, WroteSpares
<1>3. Found(n, SlotBase, t) = Held(n, c)
  BY DEF Found, InRegister
<1> HIDE DEF c
<1>4. Same(kind, Found(n, SlotBase, t), word)
  BY <1>2, <1>3, LoadedSame
<1> QED BY <1>2, <1>4 DEF Brings, StoredAt, c

\* The registers of a kind.
LEMMA RegistersOfKind ==
  ASSUME Known, NEW kind \in Kinds
  PROVE  LET f == FileFor(kind)
         IN  /\ f \in Files /\ AccumulatorIn(f) \in AllRegisters
             /\ Arm => AccumulatorIn(f) = RegisterFile(kind, 0)
             /\ ~Arm => AccumulatorIn(f) = RegisterFor(kind) /\ OfKind(kind, RegisterFor(kind))
             /\ \A i \in 0..Capacity(f) - 1 :
                  /\ <<f, i>> \in Parameters /\ ArgumentIn(f, i) \in AllRegisters
                  /\ Arm => ArgumentIn(f, i) = RegisterFile(kind, i)
                  /\ ~Arm => ArgumentIn(f, i) = ArgReg(kind, i) /\ OfKind(kind, ArgReg(kind, i))
<1> DEFINE f == FileFor(kind)
<1>1. f = (IF kind = "Real" THEN "real" ELSE "int") /\ f \in Files
  BY DEF FileFor, Files
<1>2. AccumulatorIn(f) \in AllRegisters
  BY <1>1, SpecialRegisters DEF Used, Files
<1>3. /\ Arm => AccumulatorIn(f) = RegisterFile(kind, 0)
      /\ ~Arm => AccumulatorIn(f) = RegisterFor(kind) /\ OfKind(kind, RegisterFor(kind))
  BY <1>1 DEF AccumulatorIn, RegisterFile, RegisterFor, OfKind, IsXmm, Xmm, Ax
<1>4. ASSUME NEW i \in 0..Capacity(f) - 1
      PROVE  /\ <<f, i>> \in Parameters /\ ArgumentIn(f, i) \in AllRegisters
             /\ Arm => ArgumentIn(f, i) = RegisterFile(kind, i)
             /\ ~Arm => ArgumentIn(f, i) = ArgReg(kind, i) /\ OfKind(kind, ArgReg(kind, i))
  <2>1. CASE kind = "Real"
    <3>1. f = "real" /\ i \in 0..RealCapacity - 1
      BY <1>1, <2>1 DEF Capacity
    <3>2. ArgumentIn("real", i) = (IF Arm THEN D(i) ELSE Xmm(i)) /\ ArgumentIn("real", i) \in AllRegisters
      BY <3>1, RealArgumentsIn DEF Used
    <3>3. <<"real", i>> \in Parameters
      BY <3>1 DEF Parameters
    <3> QED BY <2>1, <3>1, <3>2, <3>3 DEF RegisterFile, ArgReg, OfKind, IsXmm, Xmm
  <2>2. CASE kind # "Real"
    <3>1. f = "int" /\ i \in 0..IntCapacity - 1
      BY <1>1, <2>2 DEF Capacity
    <3>2. ArgumentIn("int", i) \in IntArgumentSet /\ (Arm => ArgumentIn("int", i) = X(i))
      BY <3>1, IntArgumentsIn
    <3>3. ArgumentIn("int", i) \in AllRegisters /\ ~IsXmm(ArgumentIn("int", i))
      BY <3>2, IntArgumentsApart
    <3>4. <<"int", i>> \in Parameters
      BY <3>1 DEF Parameters
    <3>5. ~Arm => ArgumentIn("int", i) = ArgReg(kind, i)
      BY <2>2 DEF ArgumentIn, ArgReg
    <3> QED BY <2>2, <3>1, <3>2, <3>3, <3>4, <3>5 DEF RegisterFile, OfKind
  <2> QED BY <2>1, <2>2
<1> QED BY <1>1, <1>2, <1>3, <1>4

\* Four bytes or eight.
LEMMA WidthIs == \A kind : Width(kind) \in {4, 8}
  BY DEF Width

\* The cell of a slot, as the stack pointer has it.
LEMMA BodySlot ==
  ASSUME Framed, NEW m, Body(m), NEW slot \in frame.used
  PROVE  /\ Points(m, Sp, OfStack, BodySp) /\ BodySp \in Int /\ Ready(m) /\ slot \in Nat /\ OfStack \in Int
         /\ SlotBase + 8 * slot \in Int /\ (SlotBase + 8 * slot) % 8 = 0
         /\ Arm => SlotBase = BodySp
         /\ ShadowBytes + 8 * slot \in Int /\ BodySp + (ShadowBytes + 8 * slot) = SlotBase + 8 * slot
         /\ CellOf(SlotBase, SlotPlace(slot)) = <<OfStack, SlotBase + 8 * slot>>
<1>1. /\ BodySp \in Int /\ ShadowBytes \in {0, 32} /\ SlotBase = BodySp + ShadowBytes /\ (Arm => ShadowBytes = 0)
      /\ slot \in Nat /\ (SlotBase + 8 * slot) % 8 = 0
  BY FrameFits
<1>2. Points(m, Sp, OfStack, BodySp)
  BY <1>1 DEF Points, Body, Regions
<1>3. CellOf(SlotBase, SlotPlace(slot)) = <<OfStack, SlotBase + 8 * slot>>
  BY DEF CellOf, SlotPlace
<1> QED BY <1>1, <1>2, <1>3 DEF Body, OfStack

\* x86-64 texts run as the instructions they are read as.
LEMMA X86Ran ==
  /\ \A m : Ran(m, X86Assembled(<<>>)) = m
  /\ \A m, t : X86Assembled(<<t>>) = <<ReadText(t)>> /\ Ran(m, X86Assembled(<<t>>)) = Do(m, ReadText(t))
  /\ \A m, t, u : Ran(m, X86Assembled(<<t, u>>)) = Do(Do(m, ReadText(t)), ReadText(u))
<1>1. X86Assembled(<<>>) = <<>>
  BY DEF X86Assembled
<1>2. \A t : X86Assembled(<<t>>) = <<ReadText(t)>>
  BY DEF X86Assembled
<1>3. ASSUME NEW m, NEW t, NEW u PROVE Ran(m, X86Assembled(<<t, u>>)) = Do(Do(m, ReadText(t)), ReadText(u))
  <2> DEFINE a == ReadText(t)
             b == ReadText(u)
  <2>1. X86Assembled(<<t, u>>) = <<a, b>>
    BY DEF X86Assembled
  <2> HIDE DEF a, b
  <2>2. <<a, b>> = Append(<<a>>, b)
    OBVIOUS
  <2>3. Ran(m, Append(<<a>>, b)) = Do(Ran(m, <<a>>), b)
    BY RanOne, RanOneMore
  <2> QED BY <2>1, <2>2, <2>3, RanOne DEF a, b
<1> QED BY <1>1, <1>2, <1>3, RanOne, RanNothing

\* What is emitted, but for calls and jumps.
LEMMA X86Emitted ==
  ASSUME ~Arm, NEW op, op.do \notin {"call", "jump", "jumpIfZero"}
  PROVE  Emitted(op) = X86Assembled(X86Text(op))
  BY DEF Emitted, X86Code

\* AArch64 code that fits is what the emitter emits.
LEMMA ArmEmitted ==
  ASSUME Arm, NEW op, Fits(ArmCode(op))
  PROVE  Emitted(op) = ArmCode(op)
  BY FitsAssembled DEF Emitted

-------------------------------------------------------------------------------
(* Slots and globals. *)

\* What changes few registers changes no more than many.
LEMMA KeptMore ==
  ASSUME NEW m, NEW n, NEW small, NEW large, Kept(m, n, small), small \subseteq large
  PROVE  Kept(m, n, large)
  BY DEF Kept

\* The same of a write.
LEMMA WroteMore ==
  ASSUME NEW m, NEW n, NEW at, NEW word, NEW small, NEW large, Wrote(m, n, at, word, small), small \subseteq large
  PROVE  Wrote(m, n, at, word, large)
  BY DEF Wrote

\* x16, x17 and d17 are scratch.
LEMMA ArmScratch == ASSUME Arm PROVE X(16) \in Scratch /\ X(17) \in Scratch /\ D(17) \in Scratch
  BY DEF Scratch

\* On AArch64 a slot is loaded, whatever its number.
LEMMA ArmSlotLoaded ==
  ASSUME Framed, Arm, NEW m, Body(m), NEW slot \in frame.used, NEW kind, NEW r \in AllRegisters
  PROVE  LET c == LoadFrom(SlotAddress(slot, Width(kind)), r, Width(kind))
         IN  Fits(c) /\ LoadedInto(m, Ran(m, c), r, kind, Held(m, CellOf(SlotBase, SlotPlace(slot))), Scratch \cup {r})
<1> DEFINE width == Width(kind)
           a == SlotAddress(slot, width)
           at == SlotBase + 8 * slot
           c == LoadFrom(a, r, width)
           n == Ran(m, c)
<1>0. width \in {4, 8} /\ Known
  BY WidthIs DEF Framed
<1>1. /\ Points(m, Sp, OfStack, BodySp) /\ BodySp \in Int /\ Ready(m) /\ slot \in Nat
      /\ at \in Int /\ at % 8 = 0 /\ SlotBase = BodySp
      /\ CellOf(SlotBase, SlotPlace(slot)) = <<OfStack, at>>
  BY BodySlot
<1> HIDE DEF width
<1>2. Addresses(m, a, width, OfStack, at, {X(16)})
  BY <1>0, <1>1, SlotAddressed
<1> HIDE DEF a, at
<1> DEFINE scratch == {X(16)}
           changed == Scratch \cup {r}
<1>3. Fits(c) /\ Ready(n) /\ Kept(m, n, changed) /\ Took(n, r, Loaded(width, Held(m, <<OfStack, at>>)))
  <2>1. Addresses(m, a, width, OfStack, at, scratch) /\ scratch \subseteq changed /\ r \in changed
    BY <1>2, ArmScratch
  <2> HIDE DEF scratch, changed
  <2>2. width \in {4, 8} /\ at \in Int /\ at % 8 = 0 /\ Arm
    BY <1>0, <1>1
  <2> QED BY <2>1, <2>2, LoadsFrom
<1> QED BY <1>1, <1>3 DEF LoadedInto, Took, width, a

\* On AArch64 a slot is stored, whatever its number.
LEMMA ArmSlotStored ==
  ASSUME Framed, Arm, NEW m, Body(m), NEW slot \in frame.used, NEW kind, NEW r \in AllRegisters, r # X(16)
  PROVE  LET c == StoreTo(SlotAddress(slot, Width(kind)), r, Width(kind))
         IN  Fits(c) /\ StoredAt(m, Ran(m, c), CellOf(SlotBase, SlotPlace(slot)), kind, m.reg[r], Scratch)
<1> DEFINE width == Width(kind)
           a == SlotAddress(slot, width)
           at == SlotBase + 8 * slot
           c == StoreTo(a, r, width)
           n == Ran(m, c)
           old == Held(m, <<OfStack, at>>)
<1>0. width \in {4, 8} /\ Known
  BY WidthIs DEF Framed
<1>1. /\ Points(m, Sp, OfStack, BodySp) /\ BodySp \in Int /\ Ready(m) /\ slot \in Nat
      /\ at \in Int /\ at % 8 = 0 /\ SlotBase = BodySp
      /\ CellOf(SlotBase, SlotPlace(slot)) = <<OfStack, at>>
  BY BodySlot
<1> HIDE DEF width
<1>2. Addresses(m, a, width, OfStack, at, {X(16)})
  BY <1>0, <1>1, SlotAddressed
<1> HIDE DEF a, at
<1>3. Fits(c) /\ Ready(n) /\ Wrote(m, n, <<OfStack, at>>, Stored(width, old, m.reg[r]), {X(16)})
  <2>1. r \in AllRegisters \ {X(16)}
    OBVIOUS
  <2> QED BY <1>0, <1>1, <1>2, <2>1, StoresTo
<1>4. old \in Words
  BY <1>1, HeldIsWord DEF OfStack
<1>5. Wrote(m, n, <<OfStack, at>>, Stored(width, old, m.reg[r]), Scratch)
  <2> HIDE DEF n, old
  <2> QED BY <1>3, ArmScratch, WroteMore
<1> QED BY <1>1, <1>3, <1>4, <1>5 DEF StoredAt, width, a

\* On AArch64 a global is loaded, whatever its number.
LEMMA ArmGlobalLoaded ==
  ASSUME Arm, NEW m, Ready(m), NEW index \in Nat, NEW kind, NEW r \in AllRegisters
  PROVE  LET c == LoadFrom(GlobalAddress(index, Width(kind)), r, Width(kind))
         IN  Fits(c) /\ LoadedInto(m, Ran(m, c), r, kind, Held(m, CellOf(SlotBase, GlobalPlace(index))), Scratch \cup {r})
<1> DEFINE width == Width(kind)
           a == GlobalAddress(index, width)
           at == 8 * index
           c == LoadFrom(a, r, width)
           n == Ran(m, c)
<1>0. width \in {4, 8} /\ at \in Int /\ at % 8 = 0 /\ CellOf(SlotBase, GlobalPlace(index)) = <<OfGlobals, at>>
  BY WidthIs DEF CellOf, GlobalPlace
<1> HIDE DEF width
<1>2. Addresses(m, a, width, OfGlobals, at, {X(16), X(17)})
  BY <1>0, GlobalAddressed
<1> HIDE DEF a, at
<1> DEFINE scratch == {X(16), X(17)}
           changed == Scratch \cup {r}
<1>3. Fits(c) /\ Ready(n) /\ Kept(m, n, changed) /\ Took(n, r, Loaded(width, Held(m, <<OfGlobals, at>>)))
  <2>1. Addresses(m, a, width, OfGlobals, at, scratch) /\ scratch \subseteq changed /\ r \in changed
    BY <1>2, ArmScratch
  <2> HIDE DEF scratch, changed
  <2> QED BY <1>0, <2>1, LoadsFrom
<1> QED BY <1>0, <1>3 DEF LoadedInto, Took, width, a

\* On AArch64 a global is stored, whatever its number.
LEMMA ArmGlobalStored ==
  ASSUME Arm, NEW m, Ready(m), NEW index \in Nat, NEW kind, NEW r \in AllRegisters, r # X(16), r # X(17)
  PROVE  LET c == StoreTo(GlobalAddress(index, Width(kind)), r, Width(kind))
         IN  Fits(c) /\ StoredAt(m, Ran(m, c), CellOf(SlotBase, GlobalPlace(index)), kind, m.reg[r], Scratch)
<1> DEFINE width == Width(kind)
           a == GlobalAddress(index, width)
           at == 8 * index
           c == StoreTo(a, r, width)
           n == Ran(m, c)
           old == Held(m, <<OfGlobals, at>>)
<1>0. width \in {4, 8} /\ at \in Int /\ at % 8 = 0 /\ CellOf(SlotBase, GlobalPlace(index)) = <<OfGlobals, at>>
  BY WidthIs DEF CellOf, GlobalPlace
<1> HIDE DEF width
<1>2. Addresses(m, a, width, OfGlobals, at, {X(16), X(17)})
  BY <1>0, GlobalAddressed
<1> HIDE DEF a, at
<1>3. Fits(c) /\ Ready(n) /\ Wrote(m, n, <<OfGlobals, at>>, Stored(width, old, m.reg[r]), {X(16), X(17)})
  <2>1. r \in AllRegisters \ {X(16), X(17)}
    OBVIOUS
  <2> QED BY <1>0, <1>2, <2>1, StoresTo
<1>4. old \in Words
  BY <1>0, HeldIsWord DEF OfGlobals
<1>5. Wrote(m, n, <<OfGlobals, at>>, Stored(width, old, m.reg[r]), Scratch)
  <2> HIDE DEF n, old
  <2> QED BY <1>3, ArmScratch, WroteMore
<1> QED BY <1>0, <1>3, <1>4, <1>5 DEF StoredAt, width, a

-------------------------------------------------------------------------------
(* A move of x86-64 from and to memory, whose base points where it should. *)

\* On x86-64 a move from memory through a pointing base loads.
LEMMA X86Loaded ==
  ASSUME NEW m, Ready(m), NEW kind \in Kinds, NEW r \in AllRegisters, OfKind(kind, r),
         NEW base \in AllRegisters, ~IsXmm(base), NEW region, NEW n, Points(m, base, region, n),
         NEW offset \in Int, NEW at, n + offset = at, at % 8 = 0
  PROVE  LoadedInto(m, Do(m, ReadText(Move(kind, Memory(base, offset, Width(kind)), Register(r, Width(kind))))),
                    r, kind, Held(m, <<region, at>>), {r})
<1> DEFINE width == Width(kind)
           i == LoadWord(r, width, base, offset)
<1>1. ReadText(Move(kind, Memory(base, offset, width), Register(r, width))) = i
  BY LoadRead
<1> HIDE DEF width
<1>2. Ready(Do(m, i)) /\ Kept(m, Do(m, i), {r}) /\ Do(m, i).reg[r] = Loaded(width, Held(m, <<region, n + offset>>))
  BY DoLoad
<1> HIDE DEF i
<1> QED BY <1>1, <1>2 DEF LoadedInto, width

\* On x86-64 a move to memory through a pointing base stores.
LEMMA X86Stored ==
  ASSUME NEW m, Ready(m), NEW kind \in Kinds, NEW r \in AllRegisters, OfKind(kind, r),
         NEW base \in AllRegisters, ~IsXmm(base), NEW region, NEW n, Points(m, base, region, n),
         NEW offset \in Int, NEW at, n + offset = at, at % 8 = 0
  PROVE  StoredAt(m, Do(m, ReadText(Move(kind, Register(r, Width(kind)), Memory(base, offset, Width(kind))))),
                  <<region, at>>, kind, m.reg[r], {})
<1> DEFINE width == Width(kind)
           i == StoreWord(r, width, base, offset)
           old == Held(m, <<region, n + offset>>)
<1>1. ReadText(Move(kind, Register(r, width), Memory(base, offset, width))) = i
  BY StoreRead
<1> HIDE DEF width
<1>2. Ready(Do(m, i)) /\ Wrote(m, Do(m, i), <<region, n + offset>>, Stored(width, old, m.reg[r]), {})
  BY DoStore
<1>3. old \in Words
  <2>1. region \in Int /\ n + offset \in Int
    BY DEF Points, Regions, OfStack, OfGlobals
  <2> QED BY <2>1, HeldIsWord
<1> HIDE DEF i, old
<1> QED BY <1>1, <1>2, <1>3 DEF StoredAt, width

\* The registers x86-64 code addresses with are none of the floating-point ones.
LEMMA X86Bases ==
  ASSUME Known
  PROVE  /\ Sp \in AllRegisters /\ ~IsXmm(Sp)
         /\ ~Arm => /\ R10 \in AllRegisters /\ ~IsXmm(R10) /\ R11 \in AllRegisters /\ ~IsXmm(R11)
                    /\ Ax \in AllRegisters /\ ~IsXmm(Ax) /\ Xmm(0) \in AllRegisters /\ Xmm(8) \in AllRegisters
                    /\ BlockIn = R10 /\ AccumulatorIn("int") = Ax /\ AccumulatorIn("real") = Xmm(0)
                    /\ R11 \in Scratch /\ Xmm(8) \in Scratch
  BY DEF AllRegisters, Preserved, IsXmm, R10, R11, Ax, Xmm, Sp, BlockIn, AccumulatorIn, Scratch

\* On x86-64 a slot is loaded.
LEMMA X86SlotLoaded ==
  ASSUME Framed, ~Arm, NEW m, Body(m), NEW slot \in frame.used, NEW kind \in Kinds, NEW r \in AllRegisters, OfKind(kind, r)
  PROVE  LoadedInto(m, Do(m, ReadText(Move(kind, SlotOperand(slot, Width(kind)), Register(r, Width(kind))))),
                    r, kind, Held(m, CellOf(SlotBase, SlotPlace(slot))), {r})
<1> DEFINE offset == ShadowBytes + 8 * slot
           at == SlotBase + 8 * slot
<1>1. /\ Points(m, Sp, OfStack, BodySp) /\ Ready(m)
      /\ offset \in Int /\ BodySp + offset = at /\ at % 8 = 0
      /\ CellOf(SlotBase, SlotPlace(slot)) = <<OfStack, at>>
  BY BodySlot
<1>2. Sp \in AllRegisters /\ ~IsXmm(Sp)
  BY X86Bases DEF Framed
<1>3. \A w : SlotOperand(slot, w) = Memory(Sp, offset, w)
  BY DEF SlotOperand
<1> HIDE DEF offset, at
<1> QED BY <1>1, <1>2, <1>3, X86Loaded

\* On x86-64 a slot is stored.
LEMMA X86SlotStored ==
  ASSUME Framed, ~Arm, NEW m, Body(m), NEW slot \in frame.used, NEW kind \in Kinds, NEW r \in AllRegisters, OfKind(kind, r)
  PROVE  StoredAt(m, Do(m, ReadText(Move(kind, Register(r, Width(kind)), SlotOperand(slot, Width(kind))))),
                  CellOf(SlotBase, SlotPlace(slot)), kind, m.reg[r], {})
<1> DEFINE offset == ShadowBytes + 8 * slot
           at == SlotBase + 8 * slot
<1>1. /\ Points(m, Sp, OfStack, BodySp) /\ Ready(m)
      /\ offset \in Int /\ BodySp + offset = at /\ at % 8 = 0
      /\ CellOf(SlotBase, SlotPlace(slot)) = <<OfStack, at>>
  BY BodySlot
<1>2. Sp \in AllRegisters /\ ~IsXmm(Sp)
  BY X86Bases DEF Framed
<1>3. \A w : SlotOperand(slot, w) = Memory(Sp, offset, w)
  BY DEF SlotOperand
<1> HIDE DEF offset, at
<1> QED BY <1>1, <1>2, <1>3, X86Stored

-------------------------------------------------------------------------------
(* Operations that move a value between a register and a slot or a global. *)

\* A load that changes few registers changes no more than many.
LEMMA LoadedMore ==
  ASSUME NEW m, NEW n, NEW r, NEW kind, NEW word, NEW small, NEW large, small \subseteq large,
         LoadedInto(m, n, r, kind, word, small)
  PROVE  LoadedInto(m, n, r, kind, word, large)
  BY KeptMore DEF LoadedInto

\* The same of a store.
LEMMA StoredMore ==
  ASSUME NEW m, NEW n, NEW at, NEW kind, NEW word, NEW small, NEW large, small \subseteq large,
         StoredAt(m, n, at, kind, word, small)
  PROVE  StoredAt(m, n, at, kind, word, large)
  BY WroteMore DEF StoredAt

\* What is found at a place in memory is the word of its cell.
LEMMA CellHeldIsWord ==
  ASSUME Framed, NEW m, Ready(m), NEW a \in AllPlaces, ~InRegister(a)
  PROVE  Held(m, CellOf(SlotBase, a)) \in Words /\ Found(m, SlotBase, a) = Held(m, CellOf(SlotBase, a))
<1> DEFINE c == CellOf(SlotBase, a)
<1>1. c = <<c[1], c[2]>> /\ c[1] \in Regions /\ c[2] \in Int
  BY CellsAre DEF CellIs
<1>2. \A region \in Regions, n \in Int : Held(m, <<region, n>>) \in Words
  <2>1. ASSUME NEW region \in Regions, NEW n \in Int PROVE Held(m, <<region, n>>) \in Words
    <3>1. region \in Int
      BY DEF Regions, OfStack, OfGlobals
    <3> QED BY <3>1, HeldIsWord
  <2> QED BY <2>1
<1> HIDE DEF c
<1>3. Held(m, c) \in Words
  BY <1>1, <1>2
<1> QED BY <1>3 DEF c, Found, InRegister

\* A slot the function uses is a place in memory.
LEMMA SlotIsPlace == \A s \in frame.used : SlotPlace(s) \in AllPlaces /\ ~InRegister(SlotPlace(s))
  BY DEF AllPlaces, SlotPlace, InRegister

\* A global is a place in memory.
LEMMA GlobalIsPlace == \A g \in GlobalSlots : GlobalPlace(g) \in AllPlaces /\ ~InRegister(GlobalPlace(g)) /\ g \in Nat
  BY DEF AllPlaces, GlobalPlaces, GlobalPlace, InRegister, GlobalSlots

\* The code that loads a slot, of either machine, brings what is found there.
LEMMA SlotComes ==
  ASSUME Framed, NEW m, Body(m), NEW op, NEW slot \in frame.used, NEW kind \in Kinds,
         NEW t, InRegister(t), RegisterOf(t) \in AllRegisters,
         Arm => ArmCode(op) = LoadFrom(SlotAddress(slot, Width(kind)), RegisterOf(t), Width(kind)),
         ~Arm => /\ Emitted(op) = X86Assembled(<<Move(kind, SlotOperand(slot, Width(kind)), Register(RegisterOf(t), Width(kind)))>>)
                 /\ OfKind(kind, RegisterOf(t))
  PROVE  Brings(m, Ran(m, Emitted(op)), t, kind, Found(m, SlotBase, SlotPlace(slot)), Scratch \cup {RegisterOf(t)}, {})
<1> DEFINE r == RegisterOf(t)
           word == Held(m, CellOf(SlotBase, SlotPlace(slot)))
           n == Ran(m, Emitted(op))
           changed == Scratch \cup {r}
<1>1. word \in Words /\ word = Found(m, SlotBase, SlotPlace(slot))
  BY SlotIsPlace, CellHeldIsWord DEF Body
<1>4. LoadedInto(m, n, r, kind, word, changed)
  <2>1. CASE Arm
    <3> DEFINE c == LoadFrom(SlotAddress(slot, Width(kind)), r, Width(kind))
    <3>1. Fits(c) /\ LoadedInto(m, Ran(m, c), r, kind, word, changed)
      BY <2>1, ArmSlotLoaded
    <3>2. Emitted(op) = c
      BY <2>1, <3>1, ArmEmitted
    <3> QED BY <3>1, <3>2
  <2>2. CASE ~Arm
    <3> DEFINE text == Move(kind, SlotOperand(slot, Width(kind)), Register(r, Width(kind)))
    <3>1. LoadedInto(m, Do(m, ReadText(text)), r, kind, word, {r})
      BY <2>2, X86SlotLoaded
    <3>2. n = Do(m, ReadText(text))
      BY <2>2, X86Ran
    <3> QED BY <3>1, <3>2, LoadedMore
  <2> QED BY <2>1, <2>2
<1> HIDE DEF word, n, changed
<1>5. Brings(m, n, t, kind, word, changed, {})
  BY <1>1, <1>4, BringsLoaded
<1> QED BY <1>1, <1>5 DEF n, changed

\* The code that stores to a slot, of either machine, brings the register there.
LEMMA SlotGoes ==
  ASSUME Framed, NEW m, Body(m), NEW op, NEW slot \in frame.used, NEW kind \in Kinds,
         NEW r \in AllRegisters \ Scratch,
         Arm => ArmCode(op) = StoreTo(SlotAddress(slot, Width(kind)), r, Width(kind)),
         ~Arm => /\ Emitted(op) = X86Assembled(<<Move(kind, Register(r, Width(kind)), SlotOperand(slot, Width(kind)))>>)
                 /\ OfKind(kind, r)
  PROVE  Brings(m, Ran(m, Emitted(op)), SlotPlace(slot), kind, m.reg[r], Scratch, {CellOf(SlotBase, SlotPlace(slot))})
<1> DEFINE n == Ran(m, Emitted(op))
           at == CellOf(SlotBase, SlotPlace(slot))
           word == m.reg[r]
<1>1. word \in Words /\ ~InRegister(SlotPlace(slot))
  BY SlotIsPlace DEF Body, Ready
<1>4. StoredAt(m, n, at, kind, word, Scratch)
  <2>1. CASE Arm
    <3> DEFINE c == StoreTo(SlotAddress(slot, Width(kind)), r, Width(kind))
    <3>1. Fits(c) /\ StoredAt(m, Ran(m, c), at, kind, word, Scratch)
      BY <2>1, ArmScratch, ArmSlotStored
    <3>2. Emitted(op) = c
      BY <2>1, <3>1, ArmEmitted
    <3> QED BY <3>1, <3>2
  <2>2. CASE ~Arm
    <3> DEFINE text == Move(kind, Register(r, Width(kind)), SlotOperand(slot, Width(kind)))
    <3>1. StoredAt(m, Do(m, ReadText(text)), at, kind, word, {})
      BY <2>2, X86SlotStored
    <3>2. n = Do(m, ReadText(text))
      BY <2>2, X86Ran
    <3> QED BY <3>1, <3>2, StoredMore
  <2> QED BY <2>1, <2>2
<1> HIDE DEF word, n
<1> QED BY <1>1, <1>4, BringsStored DEF n, word

\* What points at the globals, and then they are as far as they are.
LEMMA X86GlobalsAddressed ==
  ASSUME Known, ~Arm, NEW m, Ready(m)
  PROVE  LET d == Do(m, ReadText(X86Globals)) IN Ready(d) /\ Kept(m, d, {R11}) /\ Points(d, R11, OfGlobals, 0)
<1> DEFINE src == Label(Pointing(OfGlobals, 0))
           dst == Register(R11, 8)
<1>1. src.form = "label" /\ src.word = Pointing(OfGlobals, 0) /\ dst.reg = R11
  BY DEF Label, Register
<1> HIDE DEF src, dst
<1>2. ReadText(LoadAddress(src, dst)) = SetTo(R11, Pointing(OfGlobals, 0))
  BY <1>1, SumRead
<1>3. Pointing(OfGlobals, 0) \in Words /\ OfGlobals \in Regions
  BY DEF Pointing, OfGlobals, Words, Regions
<1>4. R11 \in AllRegisters
  BY X86Bases
<1> QED BY <1>2, <1>3, <1>4, DoSet DEF X86Globals, src, dst, Points

\* A load after code that changed only scratch is a load.
LEMMA LoadedAfter ==
  ASSUME NEW m, NEW d, NEW n, NEW a, NEW b, NEW c, Kept(m, d, a), NEW r, NEW kind, NEW word,
         LoadedInto(d, n, r, kind, word, b), a \subseteq c, b \subseteq c
  PROVE  LoadedInto(m, n, r, kind, word, c)
  BY DEF LoadedInto, Kept

\* A store after code that changed only scratch is a store.
LEMMA StoredAfter ==
  ASSUME NEW m, NEW d, NEW n, NEW a, NEW c, Kept(m, d, a), NEW at, NEW kind, NEW word,
         StoredAt(d, n, at, kind, word, {}), a \subseteq c
  PROVE  StoredAt(m, n, at, kind, word, c)
  BY DEF StoredAt, Kept, Wrote

\* Code that changes only registers changes no cell.
LEMMA KeptHeld ==
  ASSUME NEW m, NEW d, NEW a, Kept(m, d, a)
  PROVE  \A at : Held(d, at) = Held(m, at)
  BY DEF Kept, Held

\* The code that loads a global, of either machine, brings what is found there.
LEMMA GlobalComes ==
  ASSUME Framed, NEW m, Body(m), NEW op, NEW g \in GlobalSlots, NEW kind \in Kinds,
         NEW t, InRegister(t), RegisterOf(t) \in AllRegisters,
         Arm => ArmCode(op) = LoadFrom(GlobalAddress(g, Width(kind)), RegisterOf(t), Width(kind)),
         ~Arm => /\ Emitted(op) = X86Assembled(<<X86Globals, Move(kind, Memory(R11, 8 * g, Width(kind)), Register(RegisterOf(t), Width(kind)))>>)
                 /\ OfKind(kind, RegisterOf(t))
  PROVE  Brings(m, Ran(m, Emitted(op)), t, kind, Found(m, SlotBase, GlobalPlace(g)), Scratch \cup {RegisterOf(t)}, {})
<1> DEFINE r == RegisterOf(t)
           at == CellOf(SlotBase, GlobalPlace(g))
           word == Held(m, at)
           n == Ran(m, Emitted(op))
           changed == Scratch \cup {r}
<1>0. Known /\ Ready(m) /\ g \in Nat
  BY GlobalIsPlace DEF Framed, Body
<1>1. word \in Words /\ word = Found(m, SlotBase, GlobalPlace(g))
  BY GlobalIsPlace, CellHeldIsWord DEF Body
<1>4. LoadedInto(m, n, r, kind, word, changed)
  <2>1. CASE Arm
    <3> DEFINE c == LoadFrom(GlobalAddress(g, Width(kind)), r, Width(kind))
    <3>1. Fits(c) /\ LoadedInto(m, Ran(m, c), r, kind, word, changed)
      BY <1>0, <2>1, ArmGlobalLoaded
    <3>2. Emitted(op) = c
      BY <2>1, <3>1, ArmEmitted
    <3> QED BY <3>1, <3>2
  <2>2. CASE ~Arm
    <3> DEFINE text == Move(kind, Memory(R11, 8 * g, Width(kind)), Register(r, Width(kind)))
               d == Do(m, ReadText(X86Globals))
               offset == 8 * g
    <3>1. Ready(d) /\ Kept(m, d, {R11}) /\ Points(d, R11, OfGlobals, 0)
      BY <1>0, <2>2, X86GlobalsAddressed
    <3>2. n = Do(d, ReadText(text))
      BY <2>2, X86Ran
    <3>3. at = <<OfGlobals, offset>> /\ offset \in Int /\ 0 + offset = offset /\ offset % 8 = 0
      BY <1>0 DEF CellOf, GlobalPlace
    <3>4. R11 \in AllRegisters /\ ~IsXmm(R11) /\ R11 \in Scratch
      BY <1>0, <2>2, X86Bases
    <3> HIDE DEF d, at, offset, n
    <3>5. LoadedInto(d, Do(d, ReadText(Move(kind, Memory(R11, offset, Width(kind)), Register(r, Width(kind))))), r, kind, Held(d, <<OfGlobals, offset>>), {r})
      BY <2>2, <3>1, <3>3, <3>4, X86Loaded
    <3>6. LoadedInto(d, n, r, kind, word, {r})
      BY <3>1, <3>2, <3>3, <3>5, KeptHeld DEF offset
    <3>7. {R11} \subseteq changed /\ {r} \subseteq changed
      BY <3>4
    <3> HIDE DEF changed, word
    <3> QED BY <3>1, <3>6, <3>7, LoadedAfter
  <2> QED BY <2>1, <2>2
<1> HIDE DEF word, n, changed
<1>5. Brings(m, n, t, kind, word, changed, {})
  BY <1>1, <1>4, BringsLoaded
<1> QED BY <1>1, <1>5 DEF n, changed

\* The code that stores to a global, of either machine, brings the register there.
LEMMA GlobalGoes ==
  ASSUME Framed, NEW m, Body(m), NEW op, NEW g \in GlobalSlots, NEW kind \in Kinds,
         NEW r \in AllRegisters \ Scratch,
         Arm => ArmCode(op) = StoreTo(GlobalAddress(g, Width(kind)), r, Width(kind)),
         ~Arm => /\ Emitted(op) = X86Assembled(<<X86Globals, Move(kind, Register(r, Width(kind)), Memory(R11, 8 * g, Width(kind)))>>)
                 /\ OfKind(kind, r)
  PROVE  Brings(m, Ran(m, Emitted(op)), GlobalPlace(g), kind, m.reg[r], Scratch, {CellOf(SlotBase, GlobalPlace(g))})
<1> DEFINE n == Ran(m, Emitted(op))
           at == CellOf(SlotBase, GlobalPlace(g))
           word == m.reg[r]
<1>0. Known /\ Ready(m) /\ g \in Nat
  BY GlobalIsPlace DEF Framed, Body
<1>1. word \in Words /\ ~InRegister(GlobalPlace(g))
  BY GlobalIsPlace DEF Body, Ready
<1>4. StoredAt(m, n, at, kind, word, Scratch)
  <2>1. CASE Arm
    <3> DEFINE c == StoreTo(GlobalAddress(g, Width(kind)), r, Width(kind))
    <3>1. Fits(c) /\ StoredAt(m, Ran(m, c), at, kind, word, Scratch)
      BY <1>0, <2>1, ArmScratch, ArmGlobalStored
    <3>2. Emitted(op) = c
      BY <2>1, <3>1, ArmEmitted
    <3> QED BY <3>1, <3>2
  <2>2. CASE ~Arm
    <3> DEFINE text == Move(kind, Register(r, Width(kind)), Memory(R11, 8 * g, Width(kind)))
               d == Do(m, ReadText(X86Globals))
               offset == 8 * g
    <3>1. Ready(d) /\ Kept(m, d, {R11}) /\ Points(d, R11, OfGlobals, 0)
      BY <1>0, <2>2, X86GlobalsAddressed
    <3>2. n = Do(d, ReadText(text))
      BY <2>2, X86Ran
    <3>3. at = <<OfGlobals, offset>> /\ offset \in Int /\ 0 + offset = offset /\ offset % 8 = 0
      BY <1>0 DEF CellOf, GlobalPlace
    <3>4. R11 \in AllRegisters /\ ~IsXmm(R11) /\ R11 \in Scratch
      BY <1>0, <2>2, X86Bases
    <3>5. d.reg[r] = word
      BY <3>1, <3>4 DEF Kept
    <3> HIDE DEF d, at, offset, n, word
    <3>6. StoredAt(d, Do(d, ReadText(Move(kind, Register(r, Width(kind)), Memory(R11, offset, Width(kind))))), <<OfGlobals, offset>>, kind, d.reg[r], {})
      BY <2>2, <3>1, <3>3, <3>4, X86Stored
    <3>7. StoredAt(d, n, at, kind, word, {})
      BY <3>2, <3>3, <3>5, <3>6 DEF offset
    <3>8. {R11} \subseteq Scratch
      BY <3>4
    <3> QED BY <3>1, <3>7, <3>8, StoredAfter
  <2> QED BY <2>1, <2>2
<1> HIDE DEF word, n
<1> QED BY <1>1, <1>4, BringsStored DEF n, word

-------------------------------------------------------------------------------
(* Operations through a pointer. *)

\* A wide value is a whole word.
LEMMA WideIs == Width("Wide") = 8 /\ "Wide" \in Kinds /\ \A w : Loaded(8, w) = w
  BY DEF Width, Kinds, Loaded

\* The register a pointer is read into.
Through == IF Arm THEN X(17) ELSE R10

PointedInto(m, d, at) == Ready(d) /\ Kept(m, d, Scratch \cup {BlockIn}) /\ Points(d, Through, OfStack, at)

\* A word that points into the stack, where words are.
Leads(word, at) == word = Pointing(OfStack, at) /\ at \in Int /\ at % 8 = 0

\* On AArch64 the pointer in a slot comes to x17.
LEMMA ArmPointer ==
  ASSUME Framed, Arm, NEW m, Body(m), NEW slot \in frame.used, NEW at, Leads(Found(m, SlotBase, SlotPlace(slot)), at)
  PROVE  LET c == LoadFrom(SlotAddress(slot, 8), X(17), 8)
         IN  Fits(c) /\ PointedInto(m, Ran(m, c), at)
<1> DEFINE word == Held(m, CellOf(SlotBase, SlotPlace(slot)))
           c == LoadFrom(SlotAddress(slot, 8), X(17), 8)
<1>1. X(17) \in AllRegisters /\ X(17) \in Scratch
  BY ArmRegisters, ArmScratch
<1>2. word = Found(m, SlotBase, SlotPlace(slot))
  BY SlotIsPlace, CellHeldIsWord DEF Body
<1>3. Fits(c) /\ LoadedInto(m, Ran(m, c), X(17), "Wide", word, Scratch \cup {X(17)})
  <2>1. LET e == LoadFrom(SlotAddress(slot, Width("Wide")), X(17), Width("Wide"))
        IN  Fits(e) /\ LoadedInto(m, Ran(m, e), X(17), "Wide", word, Scratch \cup {X(17)})
    BY <1>1, ArmSlotLoaded
  <2> QED BY <2>1, WideIs
<1> HIDE DEF word, c
<1> DEFINE n == Ran(m, c)
<1>4. Ready(n) /\ Kept(m, n, Scratch \cup {X(17)}) /\ n.reg[X(17)] = word
  BY <1>3, WideIs DEF LoadedInto
<1> HIDE DEF n
<1>5. Kept(m, n, Scratch \cup {BlockIn})
  BY <1>1, <1>4 DEF Kept
<1>6. Points(n, X(17), OfStack, at)
  BY <1>2, <1>4 DEF Points, Leads, Regions
<1> QED BY <1>3, <1>4, <1>5, <1>6 DEF PointedInto, Through, n, c

\* On x86-64 the pointer in a slot comes to r10.
LEMMA X86PointerRead ==
  ASSUME Framed, ~Arm, NEW m, Body(m), NEW slot \in frame.used, NEW at, Leads(Found(m, SlotBase, SlotPlace(slot)), at)
  PROVE  PointedInto(m, Do(m, ReadText(BinaryText("mov", 8, SlotOperand(slot, 8), Register(R10, 8)))), at)
<1> DEFINE word == Held(m, CellOf(SlotBase, SlotPlace(slot)))
           d == Do(m, ReadText(BinaryText("mov", 8, SlotOperand(slot, 8), Register(R10, 8))))
<1>1. R10 \in AllRegisters /\ OfKind("Wide", R10) /\ BlockIn = R10
  BY X86Bases DEF Framed, OfKind
<1>2. word = Found(m, SlotBase, SlotPlace(slot))
  BY SlotIsPlace, CellHeldIsWord DEF Body
<1>3. LoadedInto(m, Do(m, ReadText(Move("Wide", SlotOperand(slot, Width("Wide")), Register(R10, Width("Wide"))))), R10, "Wide", word, {R10})
  BY <1>1, WideIs, X86SlotLoaded
<1>4. Move("Wide", SlotOperand(slot, Width("Wide")), Register(R10, Width("Wide"))) = BinaryText("mov", 8, SlotOperand(slot, 8), Register(R10, 8))
  BY WideIs DEF Move
<1>5. LoadedInto(m, d, R10, "Wide", word, {R10})
  BY <1>3, <1>4
<1> HIDE DEF word, d
<1>6. Ready(d) /\ Kept(m, d, {R10}) /\ d.reg[R10] = word
  BY <1>5, WideIs DEF LoadedInto
<1>7. Kept(m, d, Scratch \cup {BlockIn}) /\ Points(d, R10, OfStack, at)
  BY <1>1, <1>2, <1>6 DEF Kept, Points, Leads, Regions
<1> QED BY <1>6, <1>7 DEF PointedInto, Through, d

\* The register that pointers go through is scratch, or the one the overflow block has.
LEMMA ThroughIs ==
  ASSUME Known
  PROVE  Through \in AllRegisters /\ ~IsXmm(Through) /\ Through \in Scratch \cup {BlockIn}
<1>1. CASE Arm
  BY <1>1, ArmRegisters, ArmScratch DEF Through, IsXmm, X
<1>2. CASE ~Arm
  BY <1>2, X86Bases DEF Through
<1> QED BY <1>1, <1>2

\* A load with no offset takes what its base points at.
LEMMA LoadTakes ==
  ASSUME NEW m, Ready(m), NEW r \in AllRegisters, NEW b \in AllRegisters, NEW width, NEW region, NEW at,
         Points(m, b, region, at), at % 8 = 0
  PROVE  LET d == Do(m, LoadWord(r, width, b, 0))
         IN  Ready(d) /\ Kept(m, d, {r}) /\ Took(d, r, Loaded(width, Held(m, <<region, at>>)))
<1> DEFINE zero == 0
           d == Do(m, LoadWord(r, width, b, zero))
<1>1. at + zero = at /\ zero \in Int /\ (at + zero) % 8 = 0
  BY DEF Points
<1> HIDE DEF zero
<1>2. Ready(d) /\ Kept(m, d, {r}) /\ d.reg[r] = Loaded(width, Held(m, <<region, at + zero>>))
  BY <1>1, DoLoad
<1> HIDE DEF d
<1>3. Ready(d) /\ Kept(m, d, {r}) /\ Took(d, r, Loaded(width, Held(m, <<region, at>>)))
  BY <1>1, <1>2 DEF Took
<1> QED BY <1>3 DEF d, zero

\* One instruction more, through the pointer.
LEMMA ThroughComes ==
  ASSUME Known, NEW m, NEW d, NEW at, at % 8 = 0, PointedInto(m, d, at), NEW kind \in Kinds, NEW r \in AllRegisters
  PROVE  LoadedInto(m, Do(d, LoadWord(r, Width(kind), Through, 0)), r, kind, Held(m, <<OfStack, at>>), Scratch \cup {BlockIn, r})
<1> DEFINE width == Width(kind)
           changed == Scratch \cup {BlockIn, r}
           early == Scratch \cup {BlockIn}
           n == Do(d, LoadWord(r, width, Through, 0))
<1>1. Through \in AllRegisters
  BY ThroughIs
<1>2. Ready(d) /\ Kept(m, d, early) /\ Points(d, Through, OfStack, at) /\ at \in Int /\ at + 0 = at /\ 0 \in Int
  BY DEF PointedInto, Points
<1>3. Held(d, <<OfStack, at>>) = Held(m, <<OfStack, at>>)
  BY <1>2, KeptHeld
<1>6. early \subseteq changed /\ {r} \subseteq changed
  OBVIOUS
<1> HIDE DEF width, early, changed
<1>4. Ready(n) /\ Kept(d, n, {r}) /\ Took(n, r, Loaded(width, Held(d, <<OfStack, at>>)))
  BY <1>1, <1>2, LoadTakes
<1>5. LoadedInto(d, n, r, kind, Held(m, <<OfStack, at>>), {r})
  BY <1>2, <1>3, <1>4 DEF LoadedInto, Took, width
<1> HIDE DEF n
<1>7. LoadedInto(m, n, r, kind, Held(m, <<OfStack, at>>), changed)
  BY <1>2, <1>5, <1>6, LoadedAfter
<1> QED BY <1>7 DEF n, changed, width

\* A store through the pointer writes what it points at.
LEMMA ThroughGoes ==
  ASSUME Known, NEW m, NEW d, NEW at, at % 8 = 0, PointedInto(m, d, at), NEW kind \in Kinds,
         NEW r \in AllRegisters, r \notin Scratch \cup {BlockIn}
  PROVE  StoredAt(m, Do(d, StoreWord(r, Width(kind), Through, 0)), <<OfStack, at>>, kind, m.reg[r], Scratch \cup {BlockIn})
<1> DEFINE width == Width(kind)
           changed == Scratch \cup {BlockIn}
           n == Do(d, StoreWord(r, width, Through, 0))
           old == Held(d, <<OfStack, at>>)
<1>1. Through \in AllRegisters
  BY ThroughIs
<1>2. Ready(d) /\ Kept(m, d, changed) /\ Points(d, Through, OfStack, at) /\ at \in Int /\ at + 0 = at /\ 0 \in Int
  BY DEF PointedInto, Points
<1>3. d.reg[r] = m.reg[r]
  BY <1>2 DEF Kept
<1>4. old \in Words
  BY <1>2, HeldIsWord DEF OfStack
<1> HIDE DEF width, changed
<1>5. Ready(n) /\ Wrote(d, n, <<OfStack, at + 0>>, Stored(width, Held(d, <<OfStack, at + 0>>), d.reg[r]), {})
  BY <1>1, <1>2, DoStore
<1>6. StoredAt(d, n, <<OfStack, at>>, kind, m.reg[r], {})
  BY <1>2, <1>3, <1>4, <1>5 DEF StoredAt, width
<1> HIDE DEF n
<1> DEFINE word == m.reg[r]
           cell == <<OfStack, at>>
<1> HIDE DEF word, cell
<1>7. StoredAt(d, n, cell, kind, word, {}) /\ changed \subseteq changed
  BY <1>6 DEF word, cell
<1>8. StoredAt(m, n, cell, kind, word, changed)
  BY <1>2, <1>7, StoredAfter
<1> QED BY <1>8 DEF n, changed, width, word, cell

\* The moves through r10 are read as a load and a store.
LEMMA X86ThroughRead ==
  ASSUME Known, ~Arm, NEW kind \in Kinds, NEW r, OfKind(kind, r)
  PROVE  /\ ReadText(Move(kind, Memory(R10, 0, Width(kind)), Register(r, Width(kind)))) = LoadWord(r, Width(kind), Through, 0)
         /\ ReadText(Move(kind, Register(r, Width(kind)), Memory(R10, 0, Width(kind)))) = StoreWord(r, Width(kind), Through, 0)
<1>1. ~IsXmm(R10) /\ Through = R10
  BY X86Bases DEF Through
<1> QED BY <1>1, LoadRead, StoreRead

\* The code that loads through a pointer brings what it points at.
LEMMA PointedComes ==
  ASSUME Framed, NEW m, Body(m), NEW op, NEW slot \in frame.used, NEW kind \in Kinds,
         NEW at, Leads(Found(m, SlotBase, SlotPlace(slot)), at),
         NEW t, InRegister(t), RegisterOf(t) \in AllRegisters,
         Arm => ArmCode(op) = Append(LoadFrom(SlotAddress(slot, 8), X(17), 8), LoadWord(RegisterOf(t), Width(kind), X(17), 0)),
         ~Arm => /\ Emitted(op) = X86Assembled(<<BinaryText("mov", 8, SlotOperand(slot, 8), Register(R10, 8)),
                                                 Move(kind, Memory(R10, 0, Width(kind)), Register(RegisterOf(t), Width(kind)))>>)
                 /\ OfKind(kind, RegisterOf(t))
  PROVE  Brings(m, Ran(m, Emitted(op)), t, kind, Held(m, <<OfStack, at>>), Scratch \cup {BlockIn, RegisterOf(t)}, {})
<1> DEFINE r == RegisterOf(t)
           n == Ran(m, Emitted(op))
           word == Held(m, <<OfStack, at>>)
           changed == Scratch \cup {BlockIn, r}
           width == Width(kind)
<1>0. Known /\ at \in Int /\ at % 8 = 0 /\ Ready(m) /\ word \in Words
  <2>1. Known /\ at \in Int /\ at % 8 = 0 /\ Ready(m) /\ OfStack \in Int
    BY DEF Framed, Leads, Body, OfStack
  <2> QED BY <2>1, HeldIsWord
<1>1. LoadedInto(m, n, r, kind, word, changed)
  <2>1. CASE Arm
    <3> DEFINE c == LoadFrom(SlotAddress(slot, 8), X(17), 8)
               i == LoadWord(r, width, X(17), 0)
    <3>1. Fits(c) /\ PointedInto(m, Ran(m, c), at)
      BY <2>1, ArmPointer
    <3>2. Encoded(i) = i
      BY WidthIs DEF Encoded, LoadWord
    <3>3. Fits(Append(c, i)) /\ Ran(m, Append(c, i)) = Do(Ran(m, c), i)
      BY <3>1, <3>2, FitsOneMore, RanOneMore DEF Fits
    <3>4. Emitted(op) = Append(c, i)
      BY <2>1, <3>3, ArmEmitted
    <3> DEFINE d == Ran(m, c)
    <3>5. LoadedInto(m, Do(d, LoadWord(r, width, Through, 0)), r, kind, word, changed)
      <4> HIDE DEF d
      <4>1. PointedInto(m, d, at)
        BY <3>1 DEF d
      <4> QED BY <1>0, <4>1, ThroughComes
    <3>6. Through = X(17)
      BY <2>1 DEF Through
    <3> QED BY <3>3, <3>4, <3>5, <3>6
  <2>2. CASE ~Arm
    <3> DEFINE first == BinaryText("mov", 8, SlotOperand(slot, 8), Register(R10, 8))
               second == Move(kind, Memory(R10, 0, width), Register(r, width))
               d == Do(m, ReadText(first))
    <3>1. PointedInto(m, d, at)
      BY <2>2, X86PointerRead
    <3>2. n = Do(d, ReadText(second))
      BY <2>2, X86Ran
    <3>3. ReadText(second) = LoadWord(r, width, Through, 0)
      BY <1>0, <2>2, X86ThroughRead
    <3> HIDE DEF d, n, second, first
    <3>4. LoadedInto(m, Do(d, LoadWord(r, width, Through, 0)), r, kind, word, changed)
      BY <1>0, <3>1, ThroughComes
    <3> QED BY <3>2, <3>3, <3>4
  <2> QED BY <2>1, <2>2
<1> HIDE DEF word, n, changed
<1>2. Brings(m, n, t, kind, word, changed, {})
  BY <1>0, <1>1, BringsLoaded
<1> QED BY <1>2 DEF word, n, changed

\* The code that stores through a pointer brings the register to what it points at.
LEMMA PointedGoes ==
  ASSUME Framed, NEW m, Body(m), NEW op, NEW slot \in frame.used, NEW kind \in Kinds,
         NEW at, Leads(Found(m, SlotBase, SlotPlace(slot)), at),
         NEW t, ~InRegister(t), CellOf(SlotBase, t) = <<OfStack, at>>,
         NEW r \in AllRegisters, r \notin Scratch \cup {BlockIn},
         Arm => ArmCode(op) = Append(LoadFrom(SlotAddress(slot, 8), X(17), 8), StoreWord(r, Width(kind), X(17), 0)),
         ~Arm => /\ Emitted(op) = X86Assembled(<<BinaryText("mov", 8, SlotOperand(slot, 8), Register(R10, 8)),
                                                 Move(kind, Register(r, Width(kind)), Memory(R10, 0, Width(kind)))>>)
                 /\ OfKind(kind, r)
  PROVE  Brings(m, Ran(m, Emitted(op)), t, kind, m.reg[r], Scratch \cup {BlockIn}, {CellOf(SlotBase, t)})
<1> DEFINE n == Ran(m, Emitted(op))
           word == m.reg[r]
           changed == Scratch \cup {BlockIn}
           width == Width(kind)
<1>0. Known /\ at \in Int /\ at % 8 = 0 /\ Ready(m) /\ word \in Words
  BY DEF Framed, Leads, Body, Ready
<1>1. StoredAt(m, n, <<OfStack, at>>, kind, word, changed)
  <2>1. CASE Arm
    <3> DEFINE c == LoadFrom(SlotAddress(slot, 8), X(17), 8)
               i == StoreWord(r, width, X(17), 0)
    <3>1. Fits(c) /\ PointedInto(m, Ran(m, c), at)
      BY <2>1, ArmPointer
    <3>2. Encoded(i) = i
      BY WidthIs DEF Encoded, StoreWord
    <3>3. Fits(Append(c, i)) /\ Ran(m, Append(c, i)) = Do(Ran(m, c), i)
      BY <3>1, <3>2, FitsOneMore, RanOneMore DEF Fits
    <3>4. Emitted(op) = Append(c, i)
      BY <2>1, <3>3, ArmEmitted
    <3> DEFINE d == Ran(m, c)
    <3>5. StoredAt(m, Do(d, StoreWord(r, width, Through, 0)), <<OfStack, at>>, kind, word, changed)
      <4> HIDE DEF d
      <4>1. PointedInto(m, d, at)
        BY <3>1 DEF d
      <4> QED BY <1>0, <4>1, ThroughGoes
    <3>6. Through = X(17)
      BY <2>1 DEF Through
    <3> QED BY <3>3, <3>4, <3>5, <3>6
  <2>2. CASE ~Arm
    <3> DEFINE first == BinaryText("mov", 8, SlotOperand(slot, 8), Register(R10, 8))
               second == Move(kind, Register(r, width), Memory(R10, 0, width))
               d == Do(m, ReadText(first))
    <3>1. PointedInto(m, d, at)
      BY <2>2, X86PointerRead
    <3>2. n = Do(d, ReadText(second))
      BY <2>2, X86Ran
    <3>3. ReadText(second) = StoreWord(r, width, Through, 0)
      BY <1>0, <2>2, X86ThroughRead
    <3> HIDE DEF d, n, second, first
    <3>4. StoredAt(m, Do(d, StoreWord(r, width, Through, 0)), <<OfStack, at>>, kind, word, changed)
      BY <1>0, <3>1, ThroughGoes
    <3> QED BY <3>2, <3>3, <3>4
  <2> QED BY <2>1, <2>2
<1> HIDE DEF word, n, changed
<1>2. Brings(m, n, t, kind, word, changed, {CellOf(SlotBase, t)})
  BY <1>0, <1>1, BringsStored
<1> QED BY <1>2 DEF word, n, changed

-------------------------------------------------------------------------------
(* Constants, and what is jumped over. *)

IntConstant(word) ==
  IF Arm THEN Materialise(X(0), word, 2) ELSE X86Assembled(<<BinaryText("mov", 4, Immediate(word), Register(Ax, 4))>>)

\* A constant is a word that means the same in either kind, wherever the frame is.
LEMMA ConstantsAreWords == \A w \in Constants : w \in Words /\ Meant("Int", w) /\ Meant("Real", w) /\ \A s : Actual(s, w) = w
<1> SUFFICES ASSUME NEW w \in Constants
             PROVE  w \in Words /\ Meant("Int", w) /\ Meant("Real", w) /\ \A s : Actual(s, w) = w
  OBVIOUS
<1>1. w[1] \in Nat /\ w \in Nat \X Nat \X Nat \X Nat
  BY DEF Constants
<1>2. w[1] >= 0
  BY <1>1
<1>3. w \in Words
  BY <1>1 DEF Words
<1> HIDE DEF Constants
<1> DEFINE first == w[1]
<1>4. first # OfSlot /\ first # OfCell /\ first # OfBlock
  BY <1>2 DEF OfSlot, OfCell, OfBlock
<1>5. \A s : Actual(s, w) = w
  BY <1>4, Zenon DEF Actual
<1>6. Meant("Int", w) /\ Meant("Real", w)
  <2>1. "Int" \in Kinds /\ "Real" \in Kinds
    BY DEF Kinds
  <2>2. w[1] >= 0 /\ w[1] # OfSlot
    BY <1>2, <1>4
  <2> QED BY <1>3, <2>1, <2>2, Zenon DEF Meant
<1> QED BY <1>3, <1>5, <1>6, Zenon

\* What a place in a register has.
LEMMA FoundIn == \A m, s : /\ \A f \in Files : Found(m, s, AccumulatorPlace(f)) = m.reg[AccumulatorIn(f)]
                           /\ \A f, i : Found(m, s, ArgumentPlace(f, i)) = m.reg[ArgumentIn(f, i)]
                           /\ Found(m, s, Overflow) = m.reg[BlockIn]
  BY DEF Found, AccumulatorPlace, ArgumentPlace, Overflow, RegisterOf

\* Something is now in a register.
LEMMA BringsTook ==
  ASSUME NEW m, NEW n, Ready(n), NEW regs, Kept(m, n, regs), NEW t, InRegister(t), NEW kind, NEW word, Same(kind, n.reg[RegisterOf(t)], word)
  PROVE  Brings(m, n, t, kind, word, regs, {})
<1>1. Spares(m, n, regs, {})
  BY KeptSpares
<1>2. Found(n, SlotBase, t) = n.reg[RegisterOf(t)]
  BY DEF Found, InRegister
<1> QED BY <1>1, <1>2 DEF Brings

\* The registers of the accumulators, the arguments and the overflow block.
LEMMA PlacesInRegisters ==
  /\ \A f : InRegister(AccumulatorPlace(f)) /\ RegisterOf(AccumulatorPlace(f)) = AccumulatorIn(f)
  /\ \A f, i : InRegister(ArgumentPlace(f, i)) /\ RegisterOf(ArgumentPlace(f, i)) = ArgumentIn(f, i)
  /\ InRegister(Overflow) /\ RegisterOf(Overflow) = BlockIn
  BY DEF InRegister, AccumulatorPlace, ArgumentPlace, Overflow, RegisterOf

\* The code for an int constant brings it to the accumulator.
LEMMA IntConstantComes ==
  ASSUME Known, NEW m, Ready(m), NEW word \in Constants
  PROVE  LET c == IntConstant(word)
         IN  /\ IsCode(c) /\ (Arm => Fits(c))
             /\ Brings(m, Ran(m, c), AccumulatorPlace("int"), "Int", word, Scratch \cup {AccumulatorIn("int")}, {})
<1> DEFINE c == IntConstant(word)
           n == Ran(m, c)
           acc == AccumulatorIn("int")
           regs == Scratch \cup {acc}
<1>0. word \in Words
  BY ConstantsAreWords
<1>1. CASE Arm
  <2>1. c = Materialise(X(0), word, 2) /\ acc = X(0)
    BY <1>1 DEF IntConstant, AccumulatorIn
  <2>2. X(0) \in AllRegisters
    BY <1>1, ArmRegisters
  <2>3. Fits(c) /\ Ready(n) /\ Kept(m, n, {acc}) /\ n.reg[acc] = <<0, 0, word[3], word[4]>>
    <3> DEFINE parts == 2
               d == Materialise(X(0), word, parts)
    <3>1. parts \in {2, 4} /\ parts # 4
      OBVIOUS
    <3> HIDE DEF parts
    <3>2. /\ Fits(d) /\ Ready(Ran(m, d)) /\ Kept(m, Ran(m, d), {X(0)})
          /\ Ran(m, d).reg[X(0)] = IF parts = 4 THEN word ELSE <<0, 0, word[3], word[4]>>
      BY ZenonT(30), <1>0, <1>1, <2>2, <3>1, Materialised
    <3> QED BY <2>1, <3>1, <3>2 DEF parts
  <2>4. Same("Int", n.reg[acc], word)
    BY <2>3 DEF Same, Low
  <2> HIDE DEF c
  <2>5. Kept(m, n, regs)
    BY <2>3 DEF Kept
  <2> HIDE DEF n, regs
  <2>6. Brings(m, n, AccumulatorPlace("int"), "Int", word, regs, {})
    BY <2>3, <2>4, <2>5, PlacesInRegisters, BringsTook
  <2> QED BY <2>3, <2>6 DEF Fits, n, c, regs
<1>2. CASE ~Arm
  <2> DEFINE text == BinaryText("mov", 4, Immediate(word), Register(Ax, 4))
             w == Loaded(4, word)
  <2>1. c = X86Assembled(<<text>>) /\ acc = Ax
    BY <1>2 DEF IntConstant, AccumulatorIn
  <2>2. c = <<ReadText(text)>> /\ n = Do(m, ReadText(text))
    BY <2>1, X86Ran
  <2>3. IsCode(c)
    BY <2>2, RanOne
  <2>4. Ax \in AllRegisters /\ ~IsXmm(Ax)
    BY <1>2, X86Bases
  <2>5. ReadText(text) = SetTo(Ax, w)
    BY <2>4, ConstantRead
  <2>6. w \in Words
    BY <1>0, LoadedIsWord
  <2>8. Same("Int", w, word)
    BY DEF Loaded, Same, Low
  <2> HIDE DEF w, text, c
  <2>7. Ready(n) /\ Kept(m, n, {acc}) /\ n.reg[acc] = w
    BY <2>1, <2>2, <2>4, <2>5, <2>6, DoSet
  <2>9. Kept(m, n, regs)
    BY <2>7 DEF Kept
  <2> HIDE DEF n, regs
  <2>10. Brings(m, n, AccumulatorPlace("int"), "Int", word, regs, {})
    BY <2>7, <2>8, <2>9, PlacesInRegisters, BringsTook
  <2> QED BY <1>2, <2>3, <2>10 DEF n, c, regs
<1> QED BY <1>1, <1>2

\* That code is what is emitted for a constant, and what a jump passes over.
LEMMA IntConstantEmitted ==
  ASSUME Known, NEW op, op.word \in Constants
  PROVE  /\ op.do = "loadIntConstant" => Emitted(op) = IntConstant(op.word)
         /\ op.do \in {"jump", "jumpIfZero"} =>
              Emitted(op) = <<Skip(AccumulatorIn("int"), op.do = "jumpIfZero", Len(IntConstant(op.word)))>> \o IntConstant(op.word)
<1> DEFINE over == IntConstant(op.word)
           skip == Skip(AccumulatorIn("int"), op.do = "jumpIfZero", Len(over))
<1>1. CASE Arm
  <2>1. over = Materialise(X(0), op.word, 2) /\ AccumulatorIn("int") = X(0) /\ X(0) \in AllRegisters
    BY <1>1, ArmRegisters DEF IntConstant, AccumulatorIn
  <2>2. Fits(over)
    <3>2. \E m : Ready(m)
      <4> DEFINE z == <<0, 0, 0, 0>>
                 m0 == [reg |-> [r \in AllRegisters |-> z], mem |-> [at \in {} |-> z], skip |-> 0, fine |-> TRUE]
      <4>1. z \in Words
        BY DEF Words
      <4> HIDE DEF z
      <4>2. Ready(m0)
        BY <4>1 DEF Ready
      <4> QED BY <4>2
    <3> QED BY <1>1, <3>2, IntConstantComes
  <2>3. Fits(<<skip>>)
    BY Roomy, FitsOne
  <2>4. Fits(<<skip>> \o over)
    BY <2>2, <2>3, FitsBoth
  <2>5. CASE op.do = "loadIntConstant"
    <3>1. ArmCode(op) = over
      BY <2>1, <2>5, ArmCodes
    <3> QED BY <1>1, <2>2, <2>5, <3>1, ArmEmitted
  <2>6. CASE op.do = "jump" \/ op.do = "jumpIfZero"
    <3> HIDE DEF over
    <3>1. ArmCode(op) = <<Skip(X(0), op.do = "jumpIfZero", Len(over))>> \o over
      BY <2>1, <2>6, ArmCodes
    <3>2. ArmCode(op) = <<skip>> \o over
      BY <2>1, <3>1
    <3> QED BY <1>1, <2>4, <2>6, <3>2, ArmEmitted DEF over
  <2> QED BY <2>5, <2>6
<1>2. CASE ~Arm
  <2> DEFINE text == BinaryText("mov", 4, Immediate(op.word), Register(Ax, 4))
  <2>1. over = X86Assembled(<<text>>) /\ AccumulatorIn("int") = Ax
    BY <1>2 DEF IntConstant, AccumulatorIn
  <2>2. CASE op.do = "loadIntConstant"
    <3>1. X86Text(op) = <<text>>
      BY <2>2, X86Texts
    <3> QED BY <1>2, <2>1, <2>2, <3>1, X86Emitted
  <2>3. CASE op.do = "jump" \/ op.do = "jumpIfZero"
    <3>1. X86Text(op) = <<text>>
      BY <2>3, X86Texts
    <3>2. Emitted(op) = Skipping(op, over)
      BY <1>2, <2>1, <2>3, <3>1 DEF Emitted, X86Code
    <3> QED BY <2>1, <2>3, <3>2 DEF Skipping
  <2> QED BY <2>2, <2>3
<1> QED BY <1>1, <1>2

-------------------------------------------------------------------------------
(* The other operations on registers. *)

\* One instruction on every target.
EmitsOne(op, i) ==
  \/ Arm /\ ArmCode(op) = <<i>> /\ Encoded(i) = i
  \/ ~Arm /\ op.do \notin {"call", "jump", "jumpIfZero"} /\ \E t : X86Text(op) = <<t>> /\ ReadText(t) = i

\* An operation of one instruction runs that instruction.
LEMMA OneEmitted ==
  ASSUME NEW op, NEW i, EmitsOne(op, i)
  PROVE  \A m : Ran(m, Emitted(op)) = Do(m, i)
<1>1. CASE Arm /\ ArmCode(op) = <<i>> /\ Encoded(i) = i
  <2>1. Fits(<<i>>)
    BY <1>1, FitsOne
  <2>2. Emitted(op) = <<i>>
    BY <1>1, <2>1, ArmEmitted
  <2> QED BY <2>2, RanOne
<1>2. CASE ~Arm /\ op.do \notin {"call", "jump", "jumpIfZero"} /\ \E t : X86Text(op) = <<t>> /\ ReadText(t) = i
  <2>1. PICK t : X86Text(op) = <<t>> /\ ReadText(t) = i
    BY <1>2
  <2>2. Emitted(op) = X86Assembled(<<t>>)
    BY <1>2, <2>1, X86Emitted
  <2> QED BY <2>1, <2>2, X86Ran
<1> QED BY <1>1, <1>2 DEF EmitsOne

\* The code for the address of a slot brings the address the slot really has.
LEMMA AddressComes ==
  ASSUME Framed, NEW m, Body(m), NEW op, NEW slot \in frame.used,
         NEW t, InRegister(t), RegisterOf(t) \in AllRegisters, ~IsXmm(RegisterOf(t)),
         Arm => ArmCode(op) = AddressInto(RegisterOf(t), slot),
         ~Arm => Emitted(op) = X86Assembled(<<LoadAddress(SlotOperand(slot, 8), Register(RegisterOf(t), 8))>>)
  PROVE  Brings(m, Ran(m, Emitted(op)), t, "Wide", Pointing(OfStack, SlotBase + 8 * slot), Scratch \cup {RegisterOf(t)}, {})
<1> DEFINE r == RegisterOf(t)
           n == Ran(m, Emitted(op))
           word == Pointing(OfStack, SlotBase + 8 * slot)
           regs == Scratch \cup {r}
<1>0. /\ Points(m, Sp, OfStack, BodySp) /\ BodySp \in Int /\ Ready(m) /\ slot \in Nat
      /\ Arm => SlotBase = BodySp
      /\ ShadowBytes + 8 * slot \in Int /\ BodySp + (ShadowBytes + 8 * slot) = SlotBase + 8 * slot
  BY BodySlot
<1>1. Ready(n) /\ Kept(m, n, regs) /\ Took(n, r, word)
  <2>1. CASE Arm
    <3> DEFINE c == AddressInto(r, slot)
               d == Ran(m, c)
    <3>1. Fits(c) /\ Ready(d) /\ Kept(m, d, {X(16), r}) /\ Took(d, r, Pointing(OfStack, BodySp + 8 * slot))
      BY <1>0, <2>1, AddressedInto DEF Took
    <3>2. Emitted(op) = c
      BY <2>1, <3>1, ArmEmitted
    <3>3. n = d /\ {X(16), r} \subseteq regs
      BY <2>1, <3>2, ArmScratch
    <3> HIDE DEF c, d, n, regs
    <3> DEFINE few == {X(16), r}
    <3> HIDE DEF few
    <3>4. Kept(m, d, few) /\ few \subseteq regs
      BY <3>1, <3>3 DEF few
    <3>5. Kept(m, d, regs)
      BY <3>4, KeptMore
    <3> QED BY <1>0, <2>1, <3>1, <3>3, <3>5
  <2>2. CASE ~Arm
    <3> DEFINE src == SlotOperand(slot, 8)
               dst == Register(r, 8)
               k == ShadowBytes + 8 * slot
    <3>1. n = Do(m, ReadText(LoadAddress(src, dst)))
      BY <2>2, X86Ran
    <3>2. src.form = "memory" /\ src.reg = Sp /\ src.offset = k /\ dst.reg = r
      BY DEF SlotOperand, Memory, Register
    <3>6. Sp \in AllRegisters
      BY X86Bases DEF Framed
    <3>7. PlusBytes(m.reg[Sp], k) = word
      BY <1>0 DEF PlusBytes, Points, Pointing
    <3> HIDE DEF src, dst, k
    <3>3. ReadText(LoadAddress(src, dst)) = Added(r, Sp, k)
      BY <3>2, SumRead
    <3>4. Ready(Do(m, Added(r, Sp, k))) /\ Kept(m, Do(m, Added(r, Sp, k)), {r}) /\ Took(Do(m, Added(r, Sp, k)), r, PlusBytes(m.reg[Sp], k))
      BY <1>0, <3>6, DoPlus DEF k, Took
    <3> HIDE DEF n, word
    <3>5. Ready(n) /\ Kept(m, n, {r}) /\ Took(n, r, word)
      BY <3>1, <3>3, <3>4, <3>7
    <3> QED BY <3>5 DEF Kept
  <2> QED BY <2>1, <2>2
<1> HIDE DEF n, word, regs
<1>2. Same("Wide", n.reg[r], word)
  BY <1>1 DEF Took, Same
<1>3. Brings(m, n, t, "Wide", word, regs, {})
  BY <1>1, <1>2, BringsTook
<1> QED BY <1>3 DEF n, word, regs

\* An instruction that makes a word of an accumulator.
LEMMA MadeComes ==
  ASSUME Known, NEW m, Ready(m), NEW op, NEW word, NEW i,
         LET d == Do(m, i) IN Ready(d) /\ Kept(m, d, {AccumulatorIn("int")}) /\ d.reg[AccumulatorIn("int")] = word,
         EmitsOne(op, i)
  PROVE  Brings(m, Ran(m, Emitted(op)), AccumulatorPlace("int"), "Wide", word, Scratch \cup {AccumulatorIn("int")}, {})
<1> DEFINE acc == AccumulatorIn("int")
           regs == Scratch \cup {acc}
           d == Do(m, i)
<1>1. Ran(m, Emitted(op)) = d
  BY OneEmitted
<1>2. Ready(d) /\ Kept(m, d, {acc}) /\ d.reg[acc] = word
  OBVIOUS
<1> HIDE DEF d
<1>3. Kept(m, d, regs)
  BY <1>2 DEF Kept
<1>4. Same("Wide", d.reg[acc], word)
  BY <1>2 DEF Same
<1> HIDE DEF regs
<1>5. Brings(m, d, AccumulatorPlace("int"), "Wide", word, regs, {})
  BY <1>2, <1>3, <1>4, PlacesInRegisters, BringsTook
<1> QED BY <1>1, <1>5 DEF regs

\* The address of a text comes to the accumulator.
LEMMA BytesAddressComes ==
  ASSUME Known, NEW m, Ready(m), NEW op, op.do = "loadBytesAddress", op.number \in Nat
  PROVE  Brings(m, Ran(m, Emitted(op)), AccumulatorPlace("int"), "Wide", Pointing(OfBytes, op.number), Scratch \cup {AccumulatorIn("int")}, {})
<1> DEFINE acc == AccumulatorIn("int")
           word == Pointing(OfBytes, op.number)
           i == SetTo(acc, word)
<1>1. word \in Words
  BY DEF Pointing, OfBytes, Words
<1>2. acc \in AllRegisters
  BY SpecialRegisters DEF Used
<1>3. EmitsOne(op, i)
  <2>1. CASE Arm
    <3>1. ArmCode(op) = <<i>>
      BY <2>1, ArmCodes DEF AccumulatorIn
    <3> QED BY <2>1, <3>1, Roomy DEF EmitsOne
  <2>2. CASE ~Arm
    <3> DEFINE src == Label(word)
               dst == Register(Ax, 8)
    <3>1. X86Text(op) = <<LoadAddress(src, dst)>>
      BY X86Texts
    <3>2. src.form = "label" /\ src.word = word /\ dst.reg = acc
      BY <2>2 DEF Label, Register, AccumulatorIn
    <3> HIDE DEF src, dst
    <3>3. ReadText(LoadAddress(src, dst)) = i
      BY <3>2, SumRead
    <3>4. op.do \notin {"call", "jump", "jumpIfZero"}
      OBVIOUS
    <3> QED BY <2>2, <3>1, <3>3, <3>4 DEF EmitsOne
  <2> QED BY <2>1, <2>2
<1> HIDE DEF word
<1>4. LET d == Do(m, i) IN Ready(d) /\ Kept(m, d, {acc}) /\ d.reg[acc] = word
  BY <1>1, <1>2, DoSet
<1> HIDE DEF i
<1>5. Brings(m, Ran(m, Emitted(op)), AccumulatorPlace("int"), "Wide", word, Scratch \cup {AccumulatorIn("int")}, {})
  BY <1>3, <1>4, MadeComes
<1> QED BY <1>5 DEF word

\* Widening brings the sign-extended word.
LEMMA WidenedComes ==
  ASSUME Known, NEW m, Ready(m), NEW op, op.do = "widenAccumulator"
  PROVE  Brings(m, Ran(m, Emitted(op)), AccumulatorPlace("int"), "Wide", SignExtended(m.reg[AccumulatorIn("int")]),
                Scratch \cup {AccumulatorIn("int")}, {})
<1> DEFINE acc == AccumulatorIn("int")
           word == SignExtended(m.reg[acc])
           i == Extend(acc, acc)
<1>2. acc \in AllRegisters
  BY SpecialRegisters DEF Used
<1>3. EmitsOne(op, i)
  <2>1. CASE Arm
    <3>1. ArmCode(op) = <<i>>
      BY <2>1, ArmCodes DEF AccumulatorIn
    <3> QED BY <2>1, <3>1, Roomy DEF EmitsOne
  <2>2. CASE ~Arm
    <3> DEFINE src == Register(Ax, 4)
               dst == Register(Ax, 8)
    <3>1. X86Text(op) = <<WidenText(src, dst)>>
      BY X86Texts
    <3>2. src.reg = acc /\ dst.reg = acc
      BY <2>2 DEF Register, AccumulatorIn
    <3> HIDE DEF src, dst
    <3>3. ReadText(WidenText(src, dst)) = i
      BY <3>2, SumRead
    <3>4. op.do \notin {"call", "jump", "jumpIfZero"}
      OBVIOUS
    <3> QED BY <2>2, <3>1, <3>3, <3>4 DEF EmitsOne
  <2> QED BY <2>1, <2>2
<1>4. LET d == Do(m, i) IN Ready(d) /\ Kept(m, d, {acc}) /\ d.reg[acc] = word
  BY <1>2, DoExtend
<1> HIDE DEF i, word
<1>5. Brings(m, Ran(m, Emitted(op)), AccumulatorPlace("int"), "Wide", word, Scratch \cup {AccumulatorIn("int")}, {})
  BY <1>3, <1>4, MadeComes
<1> QED BY <1>5 DEF word

\* A call spares the preserved registers and writes only its home area.
LEMMA CallSpares ==
  ASSUME Framed, NEW m, Body(m), NEW op, op.do = "call"
  PROVE  LET n == Ran(m, Emitted(op)) IN Ready(n) /\ Spares(m, n, AllRegisters \ Preserved, HomeAt(BodySp))
<1>1. Emitted(op) = <<CallIt>>
  <2>1. CASE Arm
    <3>1. ArmCode(op) = <<CallIt>>
      BY ArmCodes
    <3>2. Fits(<<CallIt>>)
      BY Roomy, FitsOne
    <3> QED BY <2>1, <3>1, <3>2, ArmEmitted
  <2>2. CASE ~Arm
    BY <2>2 DEF Emitted, X86Code
  <2> QED BY <2>1, <2>2
<1>2. Ran(m, Emitted(op)) = Do(m, CallIt)
  BY <1>1, RanOne
<1>3. BodySp \in Int /\ BodySp % 16 = 0 /\ Sp \in AllRegisters
  BY FrameFits, X86Bases DEF Framed
<1>4. Ready(m) /\ m.reg[Sp] = Pointing(OfStack, BodySp)
  BY DEF Body
<1>5. Ready(Do(m, CallIt)) /\ Spares(m, Do(m, CallIt), AllRegisters \ Preserved, HomeAt(BodySp))
  <2> DEFINE sp == BodySp
  <2> HIDE DEF sp
  <2>1. sp \in Int /\ sp % 16 = 0 /\ m.reg[Sp] = Pointing(OfStack, sp)
    BY <1>3, <1>4 DEF sp
  <2>2. Ready(Do(m, CallIt)) /\ Spares(m, Do(m, CallIt), AllRegisters \ Preserved, HomeAt(sp))
    BY <1>3, <1>4, <2>1, DoCall
  <2> QED BY <2>2 DEF sp
<1> QED BY <1>2, <1>5

-------------------------------------------------------------------------------
(* Constants that are real, arguments out of the accumulator and off the stack. *)

\* A copy to the register of a place brings the register copied.
LEMMA CopyComes ==
  ASSUME Known, NEW m, Ready(m), NEW r \in AllRegisters, NEW b \in AllRegisters, NEW kind \in Kinds,
         NEW t, InRegister(t), RegisterOf(t) = r
  PROVE  Brings(m, Do(m, Copy(r, b, Width(kind))), t, kind, m.reg[b], {r}, {})
<1> DEFINE width == Width(kind)
           word == m.reg[b]
           n == Do(m, Copy(r, b, width))
<1>1. word \in Words
  BY DEF Ready
<1>2. Ready(n) /\ Kept(m, n, {r}) /\ n.reg[r] = Loaded(width, word)
  BY DoCopy
<1>3. Same(kind, Loaded(width, word), word)
  BY <1>1, LoadedSame
<1> HIDE DEF n, width, word
<1> DEFINE regs == {r}
<1> HIDE DEF regs
<1>4. Kept(m, n, regs) /\ Same(kind, n.reg[RegisterOf(t)], word)
  BY <1>2, <1>3 DEF regs
<1>5. Brings(m, n, t, kind, word, regs, {})
  BY <1>2, <1>4, BringsTook
<1> QED BY <1>5 DEF n, width, word, regs

\* Setting an argument brings the accumulator to its register, or finds it there already.
LEMMA ArgumentComes ==
  ASSUME Known, NEW m, Ready(m), NEW op, op.do = "setArg", op.kind \in Kinds,
         op.number \in 0..Capacity(FileFor(op.kind)) - 1
  PROVE  LET file == FileFor(op.kind)
             r == ArgumentIn(file, op.number)
         IN  Brings(m, Ran(m, Emitted(op)), ArgumentPlace(file, op.number), op.kind, m.reg[AccumulatorIn(file)],
                    IF r = AccumulatorIn(file) THEN {} ELSE {r}, {})
<1> DEFINE file == FileFor(op.kind)
           r == ArgumentIn(file, op.number)
           acc == AccumulatorIn(file)
           n == Ran(m, Emitted(op))
           t == ArgumentPlace(file, op.number)
           kind == op.kind
           i == Copy(r, acc, Width(kind))
           none == {}
<1>0. /\ file \in Files /\ acc \in AllRegisters /\ r \in AllRegisters
      /\ Arm => acc = RegisterFile(kind, 0) /\ r = RegisterFile(kind, op.number)
      /\ ~Arm => /\ acc = RegisterFor(kind) /\ OfKind(kind, RegisterFor(kind))
                 /\ r = ArgReg(kind, op.number) /\ OfKind(kind, ArgReg(kind, op.number))
  BY RegistersOfKind
<1>1. InRegister(t) /\ RegisterOf(t) = r
  BY PlacesInRegisters
<1>2. CASE r = acc
  <2>1. n = m
    <3>1. CASE Arm
      <4>1. op.number = 0
        BY <1>0, <1>2, <3>1 DEF RegisterFile, X, D
      <4>2. ArmCode(op) = <<>>
        BY <4>1, ArmCodes
      <4> QED BY <3>1, <4>2, FitsNone, ArmEmitted, RanNothing
    <3>2. CASE ~Arm
      <4>1. X86Arg(op) = X86Acc(op)
        BY <1>0, <1>2, <3>2 DEF X86Arg, X86Acc
      <4>2. X86Text(op) = <<>>
        BY <4>1, X86Texts
      <4> QED BY <3>2, <4>2, X86Emitted, X86Ran
    <3> QED BY <3>1, <3>2
  <2> HIDE DEF n, none
  <2>2. Kept(m, m, none)
    BY DEF Kept
  <2>3. Same(kind, m.reg[RegisterOf(t)], m.reg[acc])
    BY <1>1, <1>2 DEF Same
  <2>4. Brings(m, n, t, kind, m.reg[acc], none, {})
    BY <1>1, <2>1, <2>2, <2>3, BringsTook
  <2> QED BY <1>2, <2>4 DEF n, none
<1>3. CASE r # acc
  <2>1. EmitsOne(op, i)
    <3>1. CASE Arm
      <4>1. op.number # 0
        BY <1>0, <1>3, <3>1
      <4>2. ArmCode(op) = <<i>>
        BY <1>0, <3>1, <4>1, ArmCodes DEF ArmAcc, ArmArg
      <4> QED BY <3>1, <4>2, Roomy DEF EmitsOne
    <3>2. CASE ~Arm
      <4>1. X86Arg(op) # X86Acc(op)
        <5>1. X86Arg(op).reg = r /\ X86Acc(op).reg = acc
          BY <1>0, <3>2 DEF X86Arg, X86Acc, Register
        <5> QED BY <1>3, <5>1
      <4> DEFINE text == IF kind = "Real" THEN BinaryText("movapd", 0, X86Acc(op), X86Arg(op)) ELSE Move(kind, X86Acc(op), X86Arg(op))
      <4>2. X86Text(op) = <<text>>
        BY <4>1, X86Texts
      <4>3. X86Acc(op) = Register(acc, Width(kind)) /\ X86Arg(op) = Register(r, Width(kind))
        BY <1>0, <3>2 DEF X86Arg, X86Acc
      <4>4. ReadText(text) = i
        <5>1. CASE kind = "Real"
          <6>1. IsXmm(r) /\ Width(kind) = 8
            BY <1>0, <3>2, <5>1 DEF OfKind, Width
          <6>2. ReadText(BinaryText("movapd", 0, Register(acc, 8), Register(r, 8))) = Copy(r, acc, 8)
            <7>1. "movapd" \in Moves
              BY DEF Moves
            <7> QED BY <6>1, <7>1, CopyRead
          <6> QED BY <4>3, <5>1, <6>1, <6>2
        <5>2. CASE kind # "Real"
          <6>1. ~IsXmm(r) /\ ~IsXmm(acc)
            BY <1>0, <3>2, <5>2 DEF OfKind
          <6>2. Width(kind) \in {4, 8}
            BY WidthIs
          <6>3. text = BinaryText("mov", Width(kind), Register(acc, Width(kind)), Register(r, Width(kind)))
            BY <4>3, <5>2 DEF Move
          <6>4. ReadText(BinaryText("mov", Width(kind), Register(acc, Width(kind)), Register(r, Width(kind)))) = Copy(r, acc, Width(kind))
            <7> DEFINE w == Width(kind)
            <7> HIDE DEF w
            <7>1. "mov" \in Moves /\ w \in {4, 8}
              BY <6>2 DEF Moves, w
            <7>2. ReadText(BinaryText("mov", w, Register(acc, w), Register(r, w))) = Copy(r, acc, w)
              BY <6>1, <7>1, CopyRead
            <7> QED BY <7>2 DEF w
          <6> QED BY <6>3, <6>4
        <5> QED BY <5>1, <5>2
      <4> HIDE DEF text
      <4>5. op.do \notin {"call", "jump", "jumpIfZero"}
        OBVIOUS
      <4> QED BY <3>2, <4>2, <4>4, <4>5 DEF EmitsOne
    <3> QED BY <3>1, <3>2
  <2>2. n = Do(m, i)
    BY <2>1, OneEmitted
  <2>3. Brings(m, Do(m, i), t, kind, m.reg[acc], {r}, {})
    BY <1>0, <1>1, CopyComes
  <2> QED BY <1>3, <2>2, <2>3
<1> QED BY <1>2, <1>3

\* A real constant comes to its accumulator, through the int one.
LEMMA RealConstantComes ==
  ASSUME Known, NEW m, Ready(m), NEW op, op.do = "loadRealConstant", op.word \in Constants
  PROVE  Brings(m, Ran(m, Emitted(op)), AccumulatorPlace("real"), "Real", op.word,
                Scratch \cup {BlockIn, AccumulatorIn("int"), AccumulatorIn("real")}, {})
<1> DEFINE word == op.word
           to == AccumulatorIn("real")
           via == IF Arm THEN X(9) ELSE Ax
           regs == Scratch \cup {BlockIn, AccumulatorIn("int"), to}
           n == Ran(m, Emitted(op))
<1>0. word \in Words /\ Loaded(8, word) = word
  BY ConstantsAreWords, WideIs
<1>1. to \in AllRegisters /\ via \in AllRegisters /\ via \in regs /\ to \in regs
  <2>1. CASE Arm
    BY <2>1, ArmRegisters DEF AccumulatorIn, BlockIn
  <2>2. CASE ~Arm
    BY <2>2, X86Bases
  <2> QED BY <2>1, <2>2
<1> DEFINE i == Copy(to, via, 8)
<1>2. \E d : Ready(d) /\ Kept(m, d, {via}) /\ d.reg[via] = word /\ n = Do(d, i)
  <2>1. CASE Arm
    <3> DEFINE parts == 4
               c == Materialise(X(9), word, parts)
               d == Ran(m, c)
    <3>1. parts \in {2, 4} /\ via = X(9) /\ to = D(0)
      BY <2>1 DEF AccumulatorIn
    <3>2. ArmCode(op) = Append(c, i)
      BY <3>1, ArmCodes
    <3>3. /\ Fits(c) /\ Ready(d) /\ Kept(m, d, {X(9)})
          /\ d.reg[X(9)] = word
      <4> HIDE DEF word
      <4>1. X(9) \in AllRegisters
        BY <2>1, ArmRegisters
      <4> QED BY <1>0, <2>1, <3>1, <4>1, Materialised
    <3>5. Fits(Append(c, i)) /\ Ran(m, Append(c, i)) = Do(d, i)
      BY <3>3, FitsOneMore, RanOneMore, Roomy DEF Fits
    <3>6. n = Do(d, i)
      BY <2>1, <3>2, <3>5, ArmEmitted
    <3> HIDE DEF d
    <3> QED BY <3>1, <3>3, <3>6
  <2>2. CASE ~Arm
    <3> DEFINE first == BinaryText("mov", 8, Immediate(word), Register(Ax, 8))
               second == BinaryText("movq", 0, Register(Ax, 8), Register(Xmm(0), 8))
               d == Do(m, ReadText(first))
    <3>1. via = Ax /\ to = Xmm(0) /\ ~IsXmm(Ax) /\ IsXmm(Xmm(0))
      BY <2>2, X86Bases DEF IsXmm, Xmm
    <3>2. X86Text(op) = <<first, second>>
      BY X86Texts
    <3>3. n = Do(d, ReadText(second))
      BY <2>2, <3>2, X86Emitted, X86Ran
    <3>4. ReadText(first) = SetTo(Ax, word)
      <4> DEFINE w == 8
      <4>1. w \in {4, 8} /\ Loaded(w, word) = word
        BY <1>0
      <4> HIDE DEF w
      <4>2. ReadText(BinaryText("mov", w, Immediate(word), Register(Ax, w))) = SetTo(Ax, Loaded(w, word))
        BY <3>1, <4>1, ConstantRead
      <4> QED BY <4>1, <4>2 DEF w
    <3>5. ReadText(second) = i
      <4>1. "movq" \in Moves
        BY DEF Moves
      <4> QED BY <3>1, <4>1, CopyRead
    <3>6. Ready(d) /\ Kept(m, d, {via}) /\ d.reg[via] = word
      <4> HIDE DEF word
      <4>1. Ready(Do(m, SetTo(Ax, word))) /\ Kept(m, Do(m, SetTo(Ax, word)), {Ax}) /\ Do(m, SetTo(Ax, word)).reg[Ax] = word
        BY <1>0, <1>1, <3>1, DoSet
      <4> QED BY <3>1, <3>4, <4>1
    <3> HIDE DEF d
    <3> QED BY <3>3, <3>5, <3>6
  <2> QED BY <2>1, <2>2
<1> HIDE DEF n
<1>3. PICK d : Ready(d) /\ Kept(m, d, {via}) /\ d.reg[via] = word /\ n = Do(d, i)
  BY <1>2
<1> HIDE DEF via
<1>4. Ready(n) /\ Kept(d, n, {to}) /\ n.reg[to] = word
  <2>1. Ready(Do(d, i)) /\ Kept(d, Do(d, i), {to}) /\ Do(d, i).reg[to] = Loaded(8, d.reg[via])
    BY <1>1, <1>3, DoCopy
  <2> QED BY <1>0, <1>3, <2>1
<1>5. Kept(m, n, regs)
  <2> HIDE DEF regs
  <2> QED BY <1>1, <1>3, <1>4 DEF Kept
<1>6. Same("Real", n.reg[to], word)
  BY <1>4 DEF Same
<1> HIDE DEF regs, word, to
<1>7. InRegister(AccumulatorPlace("real")) /\ RegisterOf(AccumulatorPlace("real")) = to
  BY PlacesInRegisters DEF to
<1>8. Brings(m, n, AccumulatorPlace("real"), "Real", word, regs, {})
  BY <1>4, <1>5, <1>6, <1>7, BringsTook
<1> QED BY <1>8 DEF n, regs, word, to

\* A store after other code, with the registers of both changed.
LEMMA StoredAfterMore ==
  ASSUME NEW m, NEW d, NEW n, NEW a, NEW b, NEW c, Kept(m, d, a), NEW at, NEW kind, NEW word,
         StoredAt(d, n, at, kind, word, b), a \subseteq c, b \subseteq c
  PROVE  StoredAt(m, n, at, kind, word, c)
  BY DEF StoredAt, Kept, Wrote

\* Bringing a word is bringing any word that is the same for its kind.
LEMMA BringsSame ==
  ASSUME NEW m, NEW n, NEW t, NEW kind, NEW a, NEW b, NEW regs, NEW cells, Brings(m, n, t, kind, a, regs, cells), Same(kind, a, b)
  PROVE  Brings(m, n, t, kind, b, regs, cells)
  BY SameIsEquality DEF Brings

\* The register an argument passes through on its way from the stack to a slot.
Via(kind) == IF Arm THEN RegisterFile(kind, 17) ELSE IF kind = "Real" THEN Xmm(8) ELSE R11

\* An overflow argument goes through a scratch register of its kind.
LEMMA ViaIs ==
  ASSUME Known, NEW kind \in Kinds
  PROVE  /\ Via(kind) \in Scratch /\ Via(kind) \in AllRegisters /\ Via(kind) \notin Preserved /\ Via(kind) # X(16)
         /\ Arm => Via(kind) = RegisterFile(kind, 17)
         /\ ~Arm => Via(kind) = (IF kind = "Real" THEN Xmm(8) ELSE R11) /\ OfKind(kind, Via(kind))
<1>1. Scratch \subseteq AllRegisters /\ Scratch \cap Preserved = {}
  BY SpecialRegisters
<1>2. CASE Arm
  <2>1. Via(kind) \in Scratch /\ Via(kind) # X(16)
    BY <1>2, ArmScratch DEF Via, RegisterFile, X, D
  <2> QED BY <1>1, <1>2, <2>1 DEF Via
<1>3. CASE ~Arm
  <2>1. Via(kind) \in Scratch
    BY <1>3, X86Bases DEF Via
  <2>2. Via(kind) # X(16) /\ OfKind(kind, Via(kind))
    BY <1>3 DEF Via, OfKind, IsXmm, Xmm, R11, X
  <2> QED BY <1>1, <1>3, <2>1, <2>2 DEF Via
<1> QED BY <1>2, <1>3

\* The words of the overflow block are where the caller has put them.
LEMMA BlockIsPlace ==
  \A i \in 0..1 : /\ BlockPlace(i) \in AllPlaces /\ ~InRegister(BlockPlace(i))
                 /\ \A m, s : Found(m, s, BlockPlace(i)) = Held(m, <<OfStack, 320 + 8 * i>>)
  BY DEF AllPlaces, BlockPlaces, BlockPlace, InRegister, Found, CellOf, BlockAt

\* What word is, is in via, and from there in the cell.
Passed(m, d, n, via, kind, word, cell) ==
  Ready(d) /\ Kept(m, d, {via}) /\ Same(kind, d.reg[via], word) /\ StoredAt(d, n, cell, kind, d.reg[via], Scratch)

\* Changing a register that is not preserved stays in the body.
LEMMA BodyKept ==
  ASSUME Known, NEW m, Body(m), NEW via, via \notin Preserved, NEW d, Ready(d), Kept(m, d, {via})
  PROVE  Body(d)
<1> DEFINE regs == {via}
           none == {}
<1>1. Spares(m, d, regs, none)
  BY KeptSpares
<1>2. regs \cap Preserved = {} /\ \A at \in none : Ours(at)
  OBVIOUS
<1> HIDE DEF regs, none
<1> QED BY <1>1, <1>2, BodyStays

Reaches(n, offset, at) == n \in Int /\ offset \in Int /\ at \in Int /\ n + offset = at /\ at % 8 = 0

\* Eight bytes loaded at an offset that reaches a cell take the cell.
LEMMA WholeTaken ==
  ASSUME NEW m, Ready(m), NEW r \in AllRegisters, NEW b \in AllRegisters, NEW n, Points(m, b, OfStack, n),
         NEW offset, NEW at, Reaches(n, offset, at)
  PROVE  LET d == Do(m, LoadWord(r, 8, b, offset)) IN Ready(d) /\ Kept(m, d, {r}) /\ Took(d, r, Held(m, <<OfStack, at>>))
<1> DEFINE w == 8
           region == OfStack
           d == Do(m, LoadWord(r, w, b, offset))
<1> HIDE DEF w, region
<1>0. n + offset = at
  BY DEF Reaches
<1>1. Points(m, b, region, n) /\ (n + offset) % 8 = 0 /\ offset \in Int
  BY DEF region, Reaches
<1>2. Ready(d) /\ Kept(m, d, {r}) /\ d.reg[r] = Loaded(w, Held(m, <<region, n + offset>>))
  BY <1>1, DoLoad
<1>3. Loaded(w, Held(m, <<region, n + offset>>)) = Held(m, <<region, at>>)
  BY <1>0, WideIs DEF w
<1> HIDE DEF d
<1>4. Ready(d) /\ Kept(m, d, {r}) /\ Took(d, r, Held(m, <<region, at>>))
  BY <1>2, <1>3 DEF Took
<1> QED BY <1>4 DEF d, w, region

\* On AArch64 an overflow argument passes from its block to its slot.
LEMMA ArmOverflow ==
  ASSUME Framed, Arm, NEW m, Body(m), NEW slot \in frame.used, NEW kind \in Kinds,
         NEW via \in AllRegisters, via \in Scratch, via \notin Preserved, via # X(16),
         NEW offset \in Nat, offset % 8 = 0, offset <= 4095 * 8, NEW start \in Int, NEW from \in Int, start + offset = from, from % 8 = 0,
         Points(m, X(9), OfStack, start)
  PROVE  LET c == <<LoadWord(via, 8, X(9), offset)>> \o StoreTo(SlotAddress(slot, Width(kind)), via, Width(kind))
         IN  Fits(c) /\ \E d : Passed(m, d, Ran(m, c), via, kind, Held(m, <<OfStack, from>>), CellOf(SlotBase, SlotPlace(slot)))
<1> DEFINE i == LoadWord(via, 8, X(9), offset)
           d == Do(m, i)
           c == StoreTo(SlotAddress(slot, Width(kind)), via, Width(kind))
           word == Held(m, <<OfStack, from>>)
           cell == CellOf(SlotBase, SlotPlace(slot))
<1>0. Known /\ Ready(m) /\ X(9) \in AllRegisters
  BY ArmRegisters DEF Framed, Body
<1>1. Encoded(i) = i
  BY DEF Encoded, LoadWord
<1>2. Ready(d) /\ Kept(m, d, {via}) /\ Took(d, via, word)
  <2> DEFINE base == X(9)
             e == Do(m, LoadWord(via, 8, base, offset))
  <2>1. base \in AllRegisters /\ Points(m, base, OfStack, start) /\ Reaches(start, offset, from) /\ d = e
    BY <1>0 DEF Reaches
  <2> HIDE DEF base, d, word
  <2>2. Ready(e) /\ Kept(m, e, {via}) /\ Took(e, via, Held(m, <<OfStack, from>>))
    BY <1>0, <2>1, WholeTaken
  <2> QED BY <2>1, <2>2 DEF word
<1>3. Fits(<<i>>) /\ Ran(m, <<i>>) = d
  BY <1>1, FitsOne, RanOne
<1> HIDE DEF d, i
<1>4. Body(d)
  BY <1>0, <1>2, BodyKept
<1>5. Fits(c) /\ StoredAt(d, Ran(d, c), cell, kind, d.reg[via], Scratch)
  BY <1>4, ArmSlotStored
<1> HIDE DEF c
<1>6. Fits(<<i>> \o c) /\ Ran(m, <<i>> \o c) = Ran(d, c)
  BY <1>3, <1>5, FitsBoth, RanBoth DEF Fits
<1>7. Same(kind, d.reg[via], word)
  BY <1>2 DEF Same, Took
<1> HIDE DEF word, cell
<1>8. Passed(m, d, Ran(m, <<i>> \o c), via, kind, word, cell)
  BY <1>2, <1>5, <1>6, <1>7 DEF Passed
<1> QED BY <1>6, <1>8 DEF i, c, word, cell

\* On x86-64 an overflow argument passes from its block to its slot.
LEMMA X86Overflow ==
  ASSUME Framed, ~Arm, NEW m, Body(m), NEW slot \in frame.used, NEW kind \in Kinds,
         NEW via \in AllRegisters, via \in Scratch, via \notin Preserved, OfKind(kind, via),
         NEW offset \in Int, NEW start \in Int, NEW from \in Int, start + offset = from, from % 8 = 0,
         Points(m, R10, OfStack, start)
  PROVE  LET c == X86Assembled(<<Move(kind, Memory(R10, offset, Width(kind)), Register(via, Width(kind))),
                                 Move(kind, Register(via, Width(kind)), SlotOperand(slot, Width(kind)))>>)
         IN  \E d : Passed(m, d, Ran(m, c), via, kind, Held(m, <<OfStack, from>>), CellOf(SlotBase, SlotPlace(slot)))
<1> DEFINE first == Move(kind, Memory(R10, offset, Width(kind)), Register(via, Width(kind)))
           second == Move(kind, Register(via, Width(kind)), SlotOperand(slot, Width(kind)))
           d == Do(m, ReadText(first))
           n == Ran(m, X86Assembled(<<first, second>>))
           word == Held(m, <<OfStack, from>>)
           cell == CellOf(SlotBase, SlotPlace(slot))
<1>0. Known /\ Ready(m) /\ R10 \in AllRegisters /\ ~IsXmm(R10)
  BY X86Bases DEF Framed, Body
<1>1. word \in Words
  <2>1. OfStack \in Int /\ from \in Int
    BY DEF OfStack, Points
  <2> QED BY <1>0, <2>1, HeldIsWord
<1>2. LoadedInto(m, d, via, kind, word, {via})
  BY <1>0, X86Loaded
<1>3. n = Do(d, ReadText(second))
  BY X86Ran
<1> HIDE DEF d, word
<1>4. Ready(d) /\ Kept(m, d, {via}) /\ d.reg[via] = Loaded(Width(kind), word)
  BY <1>2 DEF LoadedInto
<1>5. Body(d)
  BY <1>0, <1>4, BodyKept
<1>6. Same(kind, d.reg[via], word)
  BY <1>1, <1>4, LoadedSame
<1>7. StoredAt(d, Do(d, ReadText(second)), cell, kind, d.reg[via], {})
  BY <1>5, X86SlotStored
<1> HIDE DEF second, n, cell
<1>8. StoredAt(d, Do(d, ReadText(second)), cell, kind, d.reg[via], Scratch)
  <2> DEFINE e == Do(d, ReadText(second))
             none == {}
             w == d.reg[via]
  <2>1. StoredAt(d, e, cell, kind, w, none) /\ none \subseteq Scratch
    BY <1>7
  <2> HIDE DEF e, none, w
  <2>2. StoredAt(d, e, cell, kind, w, Scratch)
    BY <2>1, StoredMore
  <2> QED BY <2>2 DEF e, w
<1>9. Passed(m, d, n, via, kind, word, cell)
  BY <1>3, <1>4, <1>6, <1>8 DEF Passed
<1> QED BY <1>9 DEF n, word, cell, second

\* What has passed through a scratch register has come to its place.
LEMMA PassedBrings ==
  ASSUME NEW m, NEW d, NEW n, NEW via \in AllRegisters, via \in Scratch, NEW kind \in Kinds, NEW word, NEW t, ~InRegister(t),
         Passed(m, d, n, via, kind, word, CellOf(SlotBase, t))
  PROVE  Brings(m, n, t, kind, word, Scratch, {CellOf(SlotBase, t)})
<1> DEFINE cell == CellOf(SlotBase, t)
           w == d.reg[via]
           few == {via}
<1>1. /\ Ready(d) /\ Kept(m, d, few) /\ Same(kind, w, word) /\ StoredAt(d, n, cell, kind, w, Scratch)
      /\ w \in Words /\ few \subseteq Scratch /\ Scratch \subseteq Scratch
  BY DEF Passed, Ready
<1> HIDE DEF w, few
<1>2. StoredAt(m, n, cell, kind, w, Scratch)
  <2> HIDE DEF cell
  <2> QED BY <1>1, StoredAfterMore
<1>3. Brings(m, n, t, kind, w, Scratch, {cell})
  BY <1>1, <1>2, BringsStored
<1> HIDE DEF cell
<1>4. Brings(m, n, t, kind, word, Scratch, {cell})
  BY <1>1, <1>3, BringsSame
<1> QED BY <1>4 DEF cell

\* The code that spills an overflow argument brings it to its slot.
LEMMA OverflowGoes ==
  ASSUME Framed, NEW m, Body(m), NEW op, op.do = "spillOverflowArgument", op.kind \in Kinds, op.slot \in frame.used,
         op.number \in 0..1, Points(m, BlockIn, OfStack, 320)
  PROVE  Brings(m, Ran(m, Emitted(op)), SlotPlace(op.slot), op.kind, Found(m, SlotBase, BlockPlace(op.number)),
                Scratch, {CellOf(SlotBase, SlotPlace(op.slot))})
<1> DEFINE via == Via(op.kind)
           offset == 8 * op.number
           from == 320 + offset
           word == Held(m, <<OfStack, from>>)
           n == Ran(m, Emitted(op))
           cell == CellOf(SlotBase, SlotPlace(op.slot))
<1>1. Known
  BY DEF Framed
<1>2. /\ via \in Scratch /\ via \in AllRegisters /\ via \notin Preserved /\ via # X(16)
      /\ Arm => via = RegisterFile(op.kind, 17)
      /\ ~Arm => via = (IF op.kind = "Real" THEN Xmm(8) ELSE R11) /\ OfKind(op.kind, via)
  BY <1>1, ViaIs
<1>3. /\ offset \in Int /\ offset \in Nat /\ offset % 8 = 0 /\ offset <= 4095 * 8 /\ from % 8 = 0 /\ from \in Int /\ 320 + offset = from
  <2>1. CASE op.number = 0
    BY <2>1
  <2>2. CASE op.number = 1
    BY <2>2
  <2> QED BY <2>1, <2>2
<1>4. word = Found(m, SlotBase, BlockPlace(op.number))
  BY BlockIsPlace
<1> HIDE DEF via, word, cell
<1>5. CASE Arm
  <2> DEFINE c == <<LoadWord(via, 8, X(9), offset)>> \o StoreTo(SlotAddress(op.slot, Width(op.kind)), via, Width(op.kind))
  <2>1. ArmCode(op) = c
    BY <1>2, <1>5, ArmCodes
  <2>2. Points(m, X(9), OfStack, 320)
    BY <1>5 DEF BlockIn
  <2> DEFINE start == 320
  <2>5. Points(m, X(9), OfStack, start) /\ start + offset = from /\ start \in Int /\ from \in Int
    BY <1>3, <1>5, <2>2
  <2> HIDE DEF offset, from, start
  <2>3. Fits(c) /\ \E d : Passed(m, d, Ran(m, c), via, op.kind, Held(m, <<OfStack, from>>), CellOf(SlotBase, SlotPlace(op.slot)))
    BY <1>2, <1>3, <1>5, <2>5, ArmOverflow
  <2>4. Emitted(op) = c
    BY <1>5, <2>1, <2>3, ArmEmitted
  <2> QED BY <2>3, <2>4 , <1>4, <1>2, SlotIsPlace, PassedBrings DEF word, cell
<1>6. CASE ~Arm
  <2> DEFINE first == Move(op.kind, Memory(R10, offset, Width(op.kind)), Register(via, Width(op.kind)))
             second == Move(op.kind, Register(via, Width(op.kind)), SlotOperand(op.slot, Width(op.kind)))
             c == X86Assembled(<<first, second>>)
  <2>1. X86Text(op) = <<first, second>>
    <3>1. Register(via, Width(op.kind)) = X86Via(op)
      BY <1>2, <1>6 DEF X86Via
    <3>2. X86Text(op) = <<Move(op.kind, Memory(R10, 8 * op.number, Width(op.kind)), X86Via(op)), Move(op.kind, X86Via(op), X86Slot(op))>>
      BY X86Texts
    <3> QED BY <3>1, <3>2 DEF X86Slot
  <2>2. Points(m, R10, OfStack, 320)
    BY <1>6 DEF BlockIn
  <2>4. Emitted(op) = c
    BY <1>6, <2>1, X86Emitted
  <2> DEFINE start == 320
  <2>5. Points(m, R10, OfStack, start) /\ start + offset = from /\ start \in Int /\ from \in Int
    BY <1>3, <1>6, <2>2
  <2> HIDE DEF offset, from, start
  <2>3. \E d : Passed(m, d, Ran(m, c), via, op.kind, Held(m, <<OfStack, from>>), CellOf(SlotBase, SlotPlace(op.slot)))
    BY <1>2, <1>3, <1>6, <2>5, X86Overflow
  <2> QED BY <2>3, <2>4 , <1>4, <1>2, SlotIsPlace, PassedBrings DEF word, cell
<1> QED BY <1>5, <1>6

-------------------------------------------------------------------------------
(* What an operation may lose, and what is then still good. *)

Loses(regs, cells, lost) ==
  Misses(regs, cells, lost) /\ regs \cap Preserved = {} /\ \A at \in cells : Ours(at)

\* Code that brings what was found elsewhere keeps the promise that the place holds it.
LEMMA BroughtMoved ==
  ASSUME Framed, NEW m, Body(m), NEW p, Good(m, p), NEW n, NEW t \in AllPlaces, NEW kind, NEW from, NEW regs, NEW cells,
         Brings(m, n, t, kind, Found(m, SlotBase, from), regs, cells),
         NEW lost, Loses(regs, cells, lost), NEW q, Fewer(Without(q, {t}), p, lost),
         from \in DOMAIN q => from \in DOMAIN p /\ q[from] = p[from]
  PROVE  Body(n) /\ Good(n, Moved(q, from, kind, t))
<1>1. Known /\ Ready(n) /\ Spares(m, n, regs, cells) /\ Same(kind, Found(n, SlotBase, t), Found(m, SlotBase, from))
  BY DEF Framed, Brings
<1>2. Misses(regs, cells, lost) /\ regs \cap Preserved = {} /\ \A at \in cells : Ours(at)
  BY DEF Loses
<1>3. Body(n)
  BY <1>1, <1>2, BodyStays
<1>4. Good(n, Moved(q, from, kind, t))
  BY <1>1, <1>2, GoodMoved
<1> QED BY <1>3, <1>4

\* Code that brings a word keeps the promise that the place holds it.
LEMMA BroughtPut ==
  ASSUME Framed, NEW m, Body(m), NEW p, Good(m, p), NEW n, NEW t \in AllPlaces, NEW kind, NEW word, NEW regs, NEW cells,
         Meant(kind, word), Brings(m, n, t, kind, Actual(SlotBase, word), regs, cells),
         NEW lost, Loses(regs, cells, lost), NEW q, Fewer(Without(q, {t}), p, lost)
  PROVE  Body(n) /\ Good(n, Put(q, t, Holding(kind, word)))
<1>1. Known /\ Ready(n) /\ Spares(m, n, regs, cells) /\ AsPromised(n, t, kind, word)
  BY DEF Framed, Brings, AsPromised
<1>2. Misses(regs, cells, lost) /\ regs \cap Preserved = {} /\ \A at \in cells : Ours(at)
  BY DEF Loses
<1>3. Body(n)
  BY <1>1, <1>2, BodyStays
<1>4. Good(n, Put(q, t, Holding(kind, word)))
  BY <1>1, <1>2, GoodPut
<1> QED BY <1>3, <1>4

\* Code that brings nothing keeps the promises it does not lose.
LEMMA SparedFewer ==
  ASSUME Framed, NEW m, Body(m), NEW p, Good(m, p), NEW n, Ready(n), NEW regs, NEW cells, Spares(m, n, regs, cells),
         NEW lost, Loses(regs, cells, lost), NEW q, Fewer(q, p, lost)
  PROVE  Body(n) /\ Good(n, q)
<1>1. Known /\ Misses(regs, cells, lost) /\ regs \cap Preserved = {} /\ \A at \in cells : Ours(at)
  BY DEF Framed, Loses
<1>2. Body(n)
  BY <1>1, BodyStays
<1>3. Good(n, q)
  BY <1>1, GoodFewer
<1> QED BY <1>2, <1>3

\* Code loses no more than the places whose registers and cells it touches.
LEMMA LosesPlaces ==
  ASSUME Framed, NEW lost, lost \subseteq AllPlaces, Closed(lost), \A at \in lost : at[1] # "block",
         NEW regs, regs \subseteq Scratch \cup RegistersOfPlaces(lost),
         NEW cells, cells \subseteq CellsOfPlaces(lost)
  PROVE  Loses(regs, cells, lost)
<1>0. Known /\ Scratch \cap Preserved = {}
  BY SpecialRegisters DEF Framed
<1>1. RegistersOfPlaces(lost) \subseteq Used
  <2>1. ASSUME NEW r \in RegistersOfPlaces(lost) PROVE r \in Used
    <3>1. PICK x \in lost : InRegister(x) /\ r = RegisterOf(x)
      BY DEF RegistersOfPlaces
    <3> QED BY <1>0, <3>1, RegistersOf
  <2> QED BY <2>1
<1>2. regs \cap Used \subseteq RegistersOfPlaces(lost) /\ regs \cap Preserved = {}
  BY <1>0, <1>1 DEF Used
<1>3. Misses(regs, cells, lost)
  BY <1>2, MissesThem
<1>4. ASSUME NEW at \in cells PROVE Ours(at)
  <2>1. PICK x \in lost : ~InRegister(x) /\ at = CellOf(SlotBase, x)
    BY DEF CellsOfPlaces
  <2>2. CellIs(CellOf(SlotBase, x), x)
    BY <2>1, CellsAre
  <2> QED BY <2>1, <2>2 DEF CellIs
<1> QED BY <1>2, <1>3, <1>4 DEF Loses

Both(f) == {AccumulatorPlace(f), ArgumentPlace(f, 0)}

\* The accumulators, the arguments, the overflow block and the cell are places.
LEMMA PlacesThere ==
  ASSUME Known
  PROVE  /\ \A f \in Files : /\ Both(f) \subseteq AllPlaces
                             /\ 0 \in 0..Capacity(f) - 1
                             /\ \A i \in 0..Capacity(f) - 1 : ArgumentPlace(f, i) \in AllPlaces
         /\ Overflow \in AllPlaces /\ Cell \in AllPlaces
<1>1. IntCapacity \in {4, 6, 8} /\ RealCapacity \in {4, 8}
  BY CapacitiesAre DEF Known
<1>2. \A i \in 0..IntCapacity - 1 : <<"int", i>> \in Parameters
  BY DEF Parameters
<1>3. \A i \in 0..RealCapacity - 1 : <<"real", i>> \in Parameters
  BY DEF Parameters
<1>4. \A p \in Parameters : ArgumentPlace(p[1], p[2]) \in AllPlaces
  BY DEF AllPlaces, ArgumentPlaces
<1>5. ASSUME NEW f \in Files
      PROVE  /\ 0 \in 0..Capacity(f) - 1 /\ AccumulatorPlace(f) \in AllPlaces
             /\ \A i \in 0..Capacity(f) - 1 : ArgumentPlace(f, i) \in AllPlaces
  <2>1. 0 \in 0..Capacity(f) - 1
    BY <1>1 DEF Capacity
  <2>2. AccumulatorPlace(f) \in AllPlaces
    BY DEF AllPlaces
  <2>3. ASSUME NEW i \in 0..Capacity(f) - 1 PROVE ArgumentPlace(f, i) \in AllPlaces
    <3>1. CASE f = "real"
      <4>1. <<"real", i>> \in Parameters
        BY <1>3, <3>1 DEF Capacity
      <4> QED BY <1>4, <3>1, <4>1
    <3>2. CASE f = "int"
      <4>1. <<"int", i>> \in Parameters
        BY <1>2, <3>2 DEF Capacity
      <4> QED BY <1>4, <3>2, <4>1
    <3> QED BY <3>1, <3>2 DEF Files
  <2> QED BY <2>1, <2>2, <2>3
<1>6. Overflow \in AllPlaces /\ Cell \in AllPlaces
  BY DEF AllPlaces
<1> QED BY <1>5, <1>6 DEF Both

\* Accumulators and first arguments go together.
LEMMA ClosedAre ==
  /\ \A f \in Files : Closed(Both(f)) /\ Closed(Both(f) \cup {Overflow})
  /\ Closed(Both("int") \cup Both("real") \cup {Overflow})
  /\ \A t : t[1] \notin {"accumulator", "argument"} => Closed({t}) /\ Closed({t, Overflow})
  /\ \A f, i : i # 0 => Closed({ArgumentPlace(f, i)})
<1>1. \A f \in Files : Closed(Both(f)) /\ Closed(Both(f) \cup {Overflow})
  BY DEF Closed, Both, AccumulatorPlace, ArgumentPlace, Overflow, Files
<1>2. Closed(Both("int") \cup Both("real") \cup {Overflow})
  BY DEF Closed, Both, AccumulatorPlace, ArgumentPlace, Overflow, Files
<1>3. ASSUME NEW t, t[1] \notin {"accumulator", "argument"} PROVE Closed({t}) /\ Closed({t, Overflow})
  <2>1. \A f : AccumulatorPlace(f)[1] = "accumulator" /\ ArgumentPlace(f, 0)[1] = "argument" /\ Overflow[1] = "overflow"
    BY DEF AccumulatorPlace, ArgumentPlace, Overflow
  <2>2. \A f : AccumulatorPlace(f) \notin {t, Overflow} /\ ArgumentPlace(f, 0) \notin {t, Overflow}
    BY <1>3, <2>1
  <2> QED BY <2>2 DEF Closed
<1>4. ASSUME NEW f, NEW i, i # 0 PROVE Closed({ArgumentPlace(f, i)})
  <2>1. \A g : AccumulatorPlace(g) # ArgumentPlace(f, i) /\ ArgumentPlace(g, 0) # ArgumentPlace(f, i)
    BY <1>4 DEF AccumulatorPlace, ArgumentPlace
  <2> QED BY <2>1 DEF Closed
<1> QED BY <1>1, <1>2, <1>3, <1>4

\* The registers of places that are lost.
LEMMA LostRegisters ==
  /\ \A lost, f : AccumulatorPlace(f) \in lost => AccumulatorIn(f) \in RegistersOfPlaces(lost)
  /\ \A lost, f, i : ArgumentPlace(f, i) \in lost => ArgumentIn(f, i) \in RegistersOfPlaces(lost)
  /\ \A lost : Overflow \in lost => BlockIn \in RegistersOfPlaces(lost)
  BY PlacesInRegisters DEF RegistersOfPlaces

\* None of the places in registers is a word of the overflow block.
LEMMA NoBlocks ==
  /\ \A f : \A at \in Both(f) : at[1] # "block"
  /\ \A f, i : ArgumentPlace(f, i)[1] # "block"
  /\ Overflow[1] # "block"
  BY DEF Both, AccumulatorPlace, ArgumentPlace, Overflow

\* Code that changes an accumulator loses it and the first argument of its file.
LEMMA LosesAccumulator ==
  ASSUME Framed, NEW f \in Files
  PROVE  /\ Loses(Scratch \cup {AccumulatorIn(f)}, {}, Both(f))
         /\ Loses(Scratch \cup {BlockIn, AccumulatorIn(f)}, {}, Both(f) \cup {Overflow})
         /\ Loses(Scratch \cup {ArgumentIn(f, 0)}, {}, Both(f))
<1> DEFINE one == Both(f)
           two == Both(f) \cup {Overflow}
<1>0. Known
  BY DEF Framed
<1>1. one \subseteq AllPlaces /\ two \subseteq AllPlaces /\ Closed(one) /\ Closed(two)
  BY <1>0, PlacesThere, ClosedAre
<1>2. /\ AccumulatorPlace(f) \in one /\ ArgumentPlace(f, 0) \in one
      /\ AccumulatorPlace(f) \in two /\ Overflow \in two
  BY DEF Both
<1>3. (\A at \in one : at[1] # "block") /\ \A at \in two : at[1] # "block"
  BY NoBlocks
<1> HIDE DEF one, two
<1>4. AccumulatorIn(f) \in RegistersOfPlaces(one) /\ ArgumentIn(f, 0) \in RegistersOfPlaces(one)
      /\ AccumulatorIn(f) \in RegistersOfPlaces(two) /\ BlockIn \in RegistersOfPlaces(two)
  BY <1>2, LostRegisters
<1>5. /\ Scratch \cup {AccumulatorIn(f)} \subseteq Scratch \cup RegistersOfPlaces(one)
      /\ Scratch \cup {ArgumentIn(f, 0)} \subseteq Scratch \cup RegistersOfPlaces(one)
      /\ Scratch \cup {BlockIn, AccumulatorIn(f)} \subseteq Scratch \cup RegistersOfPlaces(two)
      /\ \A lost : {} \subseteq CellsOfPlaces(lost)
  BY <1>4
<1>6. Loses(Scratch \cup {AccumulatorIn(f)}, {}, one)
  BY <1>1, <1>3, <1>5, LosesPlaces
<1>7. Loses(Scratch \cup {BlockIn, AccumulatorIn(f)}, {}, two)
  BY <1>1, <1>3, <1>5, LosesPlaces
<1>8. Loses(Scratch \cup {ArgumentIn(f, 0)}, {}, one)
  BY <1>1, <1>3, <1>5, LosesPlaces
<1> QED BY <1>6, <1>7, <1>8 DEF one, two

\* Code that changes both accumulators and the block register loses the places in them.
LEMMA LosesAll ==
  ASSUME Framed
  PROVE  /\ Loses(Scratch \cup {BlockIn, AccumulatorIn("int"), AccumulatorIn("real")}, {}, Both("int") \cup Both("real") \cup {Overflow})
         /\ Loses(Scratch \cup {BlockIn}, {}, {Overflow})
<1> DEFINE one == Both("int") \cup Both("real") \cup {Overflow}
           two == {Overflow}
<1>0. Known /\ "int" \in Files /\ "real" \in Files
  BY DEF Framed, Files
<1>1. one \subseteq AllPlaces /\ two \subseteq AllPlaces
  BY <1>0, PlacesThere
<1>2. Closed(one) /\ Closed(two)
  <2>1. Overflow[1] \notin {"accumulator", "argument"}
    BY DEF Overflow
  <2> QED BY <2>1, ClosedAre
<1>3. /\ AccumulatorPlace("int") \in one /\ AccumulatorPlace("real") \in one /\ Overflow \in one /\ Overflow \in two
      /\ (\A at \in one : at[1] # "block") /\ \A at \in two : at[1] # "block"
  BY NoBlocks DEF Both
<1> HIDE DEF one, two
<1>4. /\ Scratch \cup {BlockIn, AccumulatorIn("int"), AccumulatorIn("real")} \subseteq Scratch \cup RegistersOfPlaces(one)
      /\ Scratch \cup {BlockIn} \subseteq Scratch \cup RegistersOfPlaces(two)
      /\ \A lost : {} \subseteq CellsOfPlaces(lost)
  BY <1>3, LostRegisters
<1>5. Loses(Scratch \cup {BlockIn, AccumulatorIn("int"), AccumulatorIn("real")}, {}, one)
  BY <1>1, <1>2, <1>3, <1>4, LosesPlaces
<1>6. Loses(Scratch \cup {BlockIn}, {}, two)
  BY <1>1, <1>2, <1>3, <1>4, LosesPlaces
<1> QED BY <1>5, <1>6 DEF one, two

\* Code that writes the cell of a place loses that place.
LEMMA LosesCell ==
  ASSUME Framed, NEW t \in AllPlaces, ~InRegister(t), t[1] # "block"
  PROVE  /\ Loses(Scratch, {CellOf(SlotBase, t)}, {t})
         /\ Loses(Scratch \cup {BlockIn}, {CellOf(SlotBase, t)}, {t, Overflow})
<1> DEFINE one == {t}
           two == {t, Overflow}
           cells == {CellOf(SlotBase, t)}
<1>0. Known
  BY DEF Framed
<1>1. one \subseteq AllPlaces /\ two \subseteq AllPlaces
  BY <1>0, PlacesThere
<1>2. Closed(one) /\ Closed(two)
  BY ClosedAre DEF InRegister
<1>3. /\ t \in one /\ t \in two /\ Overflow \in two
      /\ (\A at \in one : at[1] # "block") /\ \A at \in two : at[1] # "block"
  BY NoBlocks
<1>4. cells \subseteq CellsOfPlaces(one) /\ cells \subseteq CellsOfPlaces(two)
  BY DEF CellsOfPlaces
<1> HIDE DEF one, two, cells
<1>5. Scratch \subseteq Scratch \cup RegistersOfPlaces(one) /\ Scratch \cup {BlockIn} \subseteq Scratch \cup RegistersOfPlaces(two)
  BY <1>3, LostRegisters
<1>6. Loses(Scratch, cells, one)
  BY <1>1, <1>2, <1>3, <1>4, <1>5, LosesPlaces
<1>7. Loses(Scratch \cup {BlockIn}, cells, two)
  BY <1>1, <1>2, <1>3, <1>4, <1>5, LosesPlaces
<1> QED BY <1>6, <1>7 DEF one, two, cells

\* Code that changes the register of an argument loses that argument.
LEMMA LosesArgument ==
  ASSUME Framed, NEW f \in Files, NEW i \in 0..Capacity(f) - 1
  PROVE  /\ i # 0 => Loses(Scratch \cup {ArgumentIn(f, i)}, {}, {ArgumentPlace(f, i)})
         /\ LET regs == IF ArgumentIn(f, i) = AccumulatorIn(f) THEN {} ELSE {ArgumentIn(f, i)}
            IN  Loses(regs, {}, {ArgumentPlace(f, i)})
<1> DEFINE t == ArgumentPlace(f, i)
           one == {t}
           r == ArgumentIn(f, i)
           none == {}
<1>0. Known /\ t \in AllPlaces
  BY PlacesThere DEF Framed
<1>00. InRegister(t) /\ RegisterOf(t) = r /\ r \in Used
  BY <1>0, PlacesInRegisters, RegistersOf
<1>1. ASSUME i # 0 PROVE Loses(Scratch \cup {r}, none, one)
  <2>1. one \subseteq AllPlaces /\ Closed(one) /\ t \in one /\ \A at \in one : at[1] # "block"
    BY <1>0, <1>1, ClosedAre, NoBlocks
  <2> HIDE DEF one, none
  <2>2. Scratch \cup {r} \subseteq Scratch \cup RegistersOfPlaces(one)
    BY <2>1, LostRegisters
  <2>3. none \subseteq CellsOfPlaces(one)
    BY DEF none
  <2> QED BY <2>1, <2>2, <2>3, LosesPlaces
<1>2. ASSUME NEW regs, regs = IF r = AccumulatorIn(f) THEN {} ELSE {r} PROVE Loses(regs, none, one)
  <2>1. regs \cap Preserved = {}
    BY <1>00, <1>2 DEF Used
  <2>2. Misses(regs, none, one)
    <3> SUFFICES ASSUME NEW at \in AllPlaces \ one, InRegister(at), RegisterOf(at) \in regs PROVE FALSE
      BY DEF Misses
    <3>1. RegisterOf(at) = r /\ r # AccumulatorIn(f)
      BY <1>2
    <3>2. \/ t = at
          \/ \E g \in Files : \/ t = AccumulatorPlace(g) /\ at = ArgumentPlace(g, 0)
                              \/ at = AccumulatorPlace(g) /\ t = ArgumentPlace(g, 0)
      <4> HIDE DEF t, r, one
      <4> QED BY <1>0, <1>00, <3>1, RegistersApart
    <3>3. PICK g \in Files : \/ t = AccumulatorPlace(g) /\ at = ArgumentPlace(g, 0)
                             \/ at = AccumulatorPlace(g) /\ t = ArgumentPlace(g, 0)
      BY <3>2
    <3>4. at = AccumulatorPlace(g) /\ f = g
      BY <3>3 DEF AccumulatorPlace, ArgumentPlace
    <3> QED BY <3>1, <3>4, PlacesInRegisters
  <2> QED BY <2>1, <2>2 DEF Loses
<1> QED BY <1>1, <1>2

\* A call loses every place in a register.
LEMMA LosesCall ==
  ASSUME Framed
  PROVE  Loses(AllRegisters \ Preserved, HomeAt(BodySp), {at \in AllPlaces : InRegister(at)})
<1> DEFINE lost == {at \in AllPlaces : InRegister(at)}
<1>1. Misses(AllRegisters \ Preserved, HomeAt(BodySp), lost)
  <2> SUFFICES ASSUME NEW at \in AllPlaces, ~InRegister(at) PROVE CellOf(SlotBase, at) \notin HomeAt(BodySp)
    BY DEF Misses
  <2>1. CellIs(CellOf(SlotBase, at), at)
    BY CellsAre
  <2> QED BY <2>1 DEF CellIs
<1>2. ASSUME NEW at \in HomeAt(BodySp) PROVE Ours(at)
  <2>1. PICK k \in 0..(ShadowBytes \div 8) - 1 : at = <<OfStack, BodySp + 8 * k>>
    BY DEF HomeAt
  <2>2. BodySp \in Int /\ ShadowBytes \in {0, 32} /\ Bytes \in Nat /\ Bytes >= ShadowBytes /\ BodySp = -16 - Bytes
    BY FrameFits DEF BodySp
  <2>3. ShadowBytes = 32
    <3>1. 0 \div 8 = 0
      OBVIOUS
    <3> QED BY <2>1, <2>2, <3>1
  <2>4. 32 \div 8 = 4
    OBVIOUS
  <2>5. at[2] <= -24 /\ at = <<OfStack, at[2]>>
    BY <2>1, <2>2, <2>3, <2>4
  <2>6. EntrySp \in {0, -8}
    BY DEF EntrySp
  <2>7. at[2] \in Int
    BY <2>1, <2>2
  <2>8. ~(at[2] >= EntrySp) /\ at[2] # -16 /\ at[2] # -8
    BY <2>5, <2>6, <2>7
  <2>9. at # <<OfStack, -16>> /\ at # <<OfStack, -8>>
    BY <2>8
  <2> QED BY <2>8, <2>9 DEF Ours
<1> QED BY <1>1, <1>2 DEF Loses

-------------------------------------------------------------------------------
(* Operation by operation. *)

\* Promises withdrawn one after the other are withdrawn together.
LEMMA WithoutTwice == \A p, a, b : Without(Without(p, a), b) = Without(p, a \cup b)
<1> SUFFICES ASSUME NEW p, NEW a, NEW b PROVE Without(Without(p, a), b) = Without(p, a \cup b)
  OBVIOUS
<1>1. DOMAIN p \ (a \cup b) = (DOMAIN p \ a) \ b
  OBVIOUS
<1> QED BY <1>1 DEF Without

\* Withdrawing promises leaves fewer, and those as they were.
LEMMA FewerWithout ==
  ASSUME NEW p, NEW gone, NEW t, NEW lost, lost \subseteq gone \cup {t}
  PROVE  /\ Fewer(Without(Without(p, gone), {t}), p, lost)
         /\ \A from : from \in DOMAIN Without(p, gone) => from \in DOMAIN p /\ Without(p, gone)[from] = p[from]
  BY DEF Fewer, Without

\* The same of one promise.
LEMMA FewerOne == \A p, t : Fewer(Without(p, {t}), p, {t})
  BY DEF Fewer, Without

\* The operands an operation that suits has.
LEMMA OperandsAre ==
  ASSUME NEW op, IsOperation(op), Suits(op)
  PROVE  /\ op.kind \in Kinds /\ op.number \in Nat /\ FileFor(op.kind) \in Files
         /\ op.do \in {"storeGlobal", "loadGlobal"} => op.slot \in GlobalSlots
         /\ op.do \notin {"storeGlobal", "loadGlobal"} => op.slot \in frame.used
         /\ op.do \in {"setArg", "loadSlotIntoArg", "spillArgument"} => op.number \in 0..Capacity(FileFor(op.kind)) - 1
         /\ op.do \in {"setOverflowBlock", "loadSlotAddress", "loadBytesAddress", "widenAccumulator"} => op.kind = "Wide"
         /\ op.do \in {"loadIntConstant", "loadRealConstant", "jump", "jumpIfZero"} =>
              op.word \in Constants /\ op.kind = IF op.do = "loadRealConstant" THEN "Real" ELSE "Int"
<1>1. op.kind \in Kinds /\ op.number \in Nat /\ FileFor(op.kind) \in Files
  BY DEF IsOperation, FileFor, Files
<1>2. /\ op.do \in {"storeGlobal", "loadGlobal"} => op.slot \in GlobalSlots
      /\ op.do \notin {"storeGlobal", "loadGlobal"} => op.slot \in frame.used
  BY DEF Suits
<1>3. ASSUME op.do \in {"setArg", "loadSlotIntoArg", "spillArgument"} PROVE op.number \in 0..Capacity(FileFor(op.kind)) - 1
  <2>1. op.number < Capacity(FileFor(op.kind))
    BY <1>3 DEF Suits, Capacity, FileFor
  <2>2. Capacity(FileFor(op.kind)) \in Int
    <3>1. RealCapacity \in Int /\ Len(IntArgs) \in {4, 6}
      BY DEF RealCapacity, IntArgs
    <3> QED BY <3>1 DEF Capacity, IntCapacity
  <2> QED BY <1>1, <2>1, <2>2
<1>4. op.do \in {"setOverflowBlock", "loadSlotAddress", "loadBytesAddress", "widenAccumulator"} => op.kind = "Wide"
  BY DEF IsOperation
<1>5. op.do \in {"loadIntConstant", "loadRealConstant", "jump", "jumpIfZero"} =>
        op.word \in Constants /\ op.kind = IF op.do = "loadRealConstant" THEN "Real" ELSE "Int"
  BY DEF IsOperation
<1> QED BY <1>1, <1>2, <1>3, <1>4, <1>5

\* What may be counted on, operation by operation.
LEMMA AftersAre ==
  ASSUME NEW p, NEW op
  PROVE  LET file == FileFor(op.kind)
             acc == AccumulatorPlace(file)
             slot == SlotPlace(op.slot)
             arg == ArgumentPlace(file, op.number)
             at == CHOOSE x \in Pointed(p, op.slot) : TRUE
         IN  /\ op.do = "loadIntConstant" => After(p, op) = Put(Fresh(p, "int"), acc, Holding("Int", op.word))
             /\ op.do = "loadRealConstant" =>
                  After(p, op) = Put(Without(p, {ArgumentPlace("real", 0), AccumulatorPlace("int"), ArgumentPlace("int", 0), Overflow}),
                                     acc, Holding("Real", op.word))
             /\ op.do = "storeSlot" => After(p, op) = Moved(p, acc, op.kind, slot)
             /\ op.do = "loadSlot" => After(p, op) = Moved(Fresh(p, file), slot, op.kind, acc)
             /\ op.do = "setArg" => After(p, op) = Moved(p, acc, op.kind, arg)
             /\ op.do = "loadSlotIntoArg" =>
                  After(p, op) = Moved(IF op.number = 0 THEN Without(p, {acc}) ELSE p, slot, op.kind, arg)
             /\ op.do = "spillArgument" => After(p, op) = Moved(p, arg, op.kind, slot)
             /\ op.do = "spillOverflowArgument" => After(p, op) = Moved(p, BlockPlace(op.number), op.kind, slot)
             /\ op.do = "setOverflowBlock" => After(p, op) = Put(p, Overflow, Holding("Wide", Pointing(OfSlot, op.slot)))
             /\ op.do = "loadSlotAddress" => After(p, op) = Put(Fresh(p, "int"), acc, Holding("Wide", Pointing(OfSlot, op.slot)))
             /\ op.do = "loadBytesAddress" => After(p, op) = Put(Fresh(p, "int"), acc, Holding("Wide", Pointing(OfBytes, op.number)))
             /\ op.do = "storeThroughPointer" => After(p, op) = Moved(Without(p, {Overflow}), acc, op.kind, at)
             /\ op.do = "loadThroughPointer" => After(p, op) = Moved(Without(Fresh(p, file), {Overflow}), at, op.kind, acc)
             /\ op.do = "storeGlobal" => After(p, op) = Moved(p, acc, op.kind, GlobalPlace(op.slot))
             /\ op.do = "loadGlobal" => After(p, op) = Moved(Fresh(p, file), GlobalPlace(op.slot), op.kind, acc)
             /\ op.do = "widenAccumulator" => After(p, op) = Put(Fresh(p, "int"), acc, Holding("Wide", SignExtended(p[acc].word)))
             /\ op.do = "call" => After(p, op) = Without(p, RegisterPlaces(p))
             /\ op.do = "jumpIfZero" =>
                  After(p, op) = IF IsZero(p[acc].word) THEN p ELSE Put(Fresh(p, "int"), acc, Holding("Int", op.word))
             /\ op.do = "jump" => After(p, op) = p
  BY DEF After

\* What is assumed of each operation, and what is shown.
Tried(m, p, op) == Framed /\ Body(m) /\ Good(m, p) /\ IsOperation(op) /\ Suits(op) /\ Allowed(p, op)

StillGood(n, p) == Body(n) /\ Good(n, p)

Keeps(m, p, op) == StillGood(Ran(m, Emitted(op)), After(p, op))

\* storeSlot keeps every promise it should.
LEMMA StoreSlotKeeps ==
  ASSUME NEW m, NEW p, NEW op, Tried(m, p, op), op.do = "storeSlot"
  PROVE  Keeps(m, p, op)
<1> DEFINE n == Ran(m, Emitted(op))
           file == FileFor(op.kind)
           acc == AccumulatorIn(file)
           t == SlotPlace(op.slot)
           from == AccumulatorPlace(file)
           cells == {CellOf(SlotBase, t)}
           lost == {t}
<1>1. Framed /\ Known /\ Body(m) /\ Good(m, p) /\ op.kind \in Kinds /\ file \in Files /\ op.slot \in frame.used
  BY OperandsAre DEF Tried, Framed
<1>2. /\ acc \in AllRegisters \ Scratch
      /\ Arm => acc = RegisterFile(op.kind, 0)
      /\ ~Arm => acc = RegisterFor(op.kind) /\ OfKind(op.kind, acc)
  <2>1. acc \in Used
    BY <1>1, SpecialRegisters DEF Files
  <2> QED BY <1>1, <2>1, RegistersOfKind DEF Used
<1>3. Arm => ArmCode(op) = StoreTo(SlotAddress(op.slot, Width(op.kind)), acc, Width(op.kind))
  BY <1>2, ArmCodes DEF ArmAcc
<1>4. ~Arm => Emitted(op) = X86Assembled(<<Move(op.kind, Register(acc, Width(op.kind)), SlotOperand(op.slot, Width(op.kind)))>>)
  BY <1>2, X86Texts, X86Emitted DEF X86Acc, X86Slot
<1> HIDE DEF acc
<1>5. Brings(m, n, t, op.kind, m.reg[acc], Scratch, cells)
  BY <1>1, <1>2, <1>3, <1>4, SlotGoes
<1>6. m.reg[acc] = Found(m, SlotBase, from)
  BY <1>1, FoundIn DEF acc
<1>7. Loses(Scratch, cells, lost) /\ t \in AllPlaces
  <2>1. t \in AllPlaces /\ ~InRegister(t) /\ t[1] # "block"
    BY <1>1, SlotIsPlace DEF SlotPlace
  <2> QED BY <1>1, <2>1, LosesCell
<1>8. Fewer(Without(p, {t}), p, lost)
  BY FewerOne
<1>9. After(p, op) = Moved(p, from, op.kind, t)
  BY AftersAre
<1> HIDE DEF n, t, from, cells, lost
<1>10. Body(n) /\ Good(n, Moved(p, from, op.kind, t))
  BY <1>1, <1>5, <1>6, <1>7, <1>8, BroughtMoved
<1> QED BY <1>9, <1>10 DEF Keeps, StillGood, n

-------------------------------------------------------------------------------
(* What is made in an accumulator. *)

\* Code that brings a place to an accumulator keeps the promises.
LEMMA ToAccumulator ==
  ASSUME Framed, NEW m, Body(m), NEW p, Good(m, p), NEW n, NEW kind, NEW f \in Files, NEW from, from \notin Both(f),
         Brings(m, n, AccumulatorPlace(f), kind, Found(m, SlotBase, from), Scratch \cup {AccumulatorIn(f)}, {})
  PROVE  StillGood(n, Moved(Fresh(p, f), from, kind, AccumulatorPlace(f)))
<1> DEFINE t == AccumulatorPlace(f)
           regs == Scratch \cup {AccumulatorIn(f)}
           none == {}
           lost == Both(f)
           gone == {ArgumentPlace(f, 0)}
           q == Without(p, gone)
<1>1. Loses(regs, none, lost)
  BY LosesAccumulator
<1>2. t \in AllPlaces
  BY PlacesThere DEF Framed, Both
<1>3. lost = gone \cup {t}
  BY DEF Both
<1> HIDE DEF t, regs, none, gone, lost
<1>4. Fewer(Without(q, {t}), p, lost) /\ (from \in DOMAIN q => from \in DOMAIN p /\ q[from] = p[from])
  BY <1>3, FewerWithout
<1> HIDE DEF q
<1>5. Brings(m, n, t, kind, Found(m, SlotBase, from), regs, none)
  BY DEF t, regs, none
<1>6. Body(n) /\ Good(n, Moved(q, from, kind, t))
  BY <1>1, <1>2, <1>4, <1>5, BroughtMoved
<1> QED BY <1>6 DEF StillGood, Fresh, q, gone, t

\* Code that brings a word to an accumulator keeps the promises.
LEMMA IntoAccumulator ==
  ASSUME Framed, NEW m, Body(m), NEW p, Good(m, p), NEW n, NEW kind, NEW f \in Files, NEW word, Meant(kind, word),
         Brings(m, n, AccumulatorPlace(f), kind, Actual(SlotBase, word), Scratch \cup {AccumulatorIn(f)}, {})
  PROVE  StillGood(n, Put(Fresh(p, f), AccumulatorPlace(f), Holding(kind, word)))
<1> DEFINE t == AccumulatorPlace(f)
           regs == Scratch \cup {AccumulatorIn(f)}
           none == {}
           lost == Both(f)
           gone == {ArgumentPlace(f, 0)}
           q == Without(p, gone)
<1>1. Loses(regs, none, lost)
  BY LosesAccumulator
<1>2. t \in AllPlaces
  BY PlacesThere DEF Framed, Both
<1>3. lost = gone \cup {t}
  BY DEF Both
<1> HIDE DEF t, regs, none, gone, lost
<1>4. Fewer(Without(q, {t}), p, lost)
  BY <1>3, FewerWithout
<1> HIDE DEF q
<1>5. Brings(m, n, t, kind, Actual(SlotBase, word), regs, none)
  BY DEF t, regs, none
<1>6. Body(n) /\ Good(n, Put(q, t, Holding(kind, word)))
  BY <1>1, <1>2, <1>4, <1>5, BroughtPut
<1> QED BY <1>6 DEF StillGood, Fresh, q, gone, t

\* What an operation has to do with.
LEMMA TriedHas ==
  ASSUME NEW m, NEW p, NEW op, Tried(m, p, op)
  PROVE  /\ Framed /\ Known /\ Body(m) /\ Ready(m) /\ Good(m, p) /\ op.kind \in Kinds /\ FileFor(op.kind) \in Files
         /\ AccumulatorIn(FileFor(op.kind)) \in AllRegisters \ (Scratch \cup {BlockIn})
         /\ RegisterOf(AccumulatorPlace(FileFor(op.kind))) = AccumulatorIn(FileFor(op.kind))
         /\ InRegister(AccumulatorPlace(FileFor(op.kind)))
         /\ Found(m, SlotBase, AccumulatorPlace(FileFor(op.kind))) = m.reg[AccumulatorIn(FileFor(op.kind))]
         /\ Arm => AccumulatorIn(FileFor(op.kind)) = RegisterFile(op.kind, 0)
         /\ ~Arm => /\ AccumulatorIn(FileFor(op.kind)) = RegisterFor(op.kind)
                    /\ OfKind(op.kind, AccumulatorIn(FileFor(op.kind)))
                    /\ X86Acc(op) = Register(AccumulatorIn(FileFor(op.kind)), Width(op.kind))
<1>1. Framed /\ Known /\ Body(m) /\ Ready(m) /\ Good(m, p) /\ op.kind \in Kinds /\ FileFor(op.kind) \in Files
  BY OperandsAre DEF Tried, Framed, Body
<1> DEFINE f == FileFor(op.kind)
           acc == AccumulatorIn(f)
<1>2. acc \in Used /\ acc # BlockIn
  BY <1>1, SpecialRegisters DEF Files
<1>3. acc \in AllRegisters \ (Scratch \cup {BlockIn})
  BY <1>2 DEF Used
<1>4. /\ Arm => acc = RegisterFile(op.kind, 0)
      /\ ~Arm => acc = RegisterFor(op.kind) /\ OfKind(op.kind, acc)
  BY <1>1, RegistersOfKind
<1>5. ~Arm => X86Acc(op) = Register(acc, Width(op.kind))
  BY <1>4 DEF X86Acc
<1>6. RegisterOf(AccumulatorPlace(f)) = acc /\ InRegister(AccumulatorPlace(f)) /\ Found(m, SlotBase, AccumulatorPlace(f)) = m.reg[acc]
  BY <1>1, PlacesInRegisters, FoundIn
<1> QED BY <1>1, <1>3, <1>4, <1>5, <1>6

\* Slots, globals and the cell share no register with an accumulator.
LEMMA NotBoth == \A f, s : SlotPlace(s) \notin Both(f) /\ GlobalPlace(s) \notin Both(f) /\ Cell \notin Both(f)
  BY DEF SlotPlace, GlobalPlace, Cell, Both, AccumulatorPlace, ArgumentPlace

\* loadSlot keeps every promise it should.
LEMMA LoadSlotKeeps ==
  ASSUME NEW m, NEW p, NEW op, Tried(m, p, op), op.do = "loadSlot"
  PROVE  Keeps(m, p, op)
<1> DEFINE n == Ran(m, Emitted(op))
           f == FileFor(op.kind)
           t == AccumulatorPlace(f)
           r == AccumulatorIn(f)
<1>1. /\ Framed /\ Body(m) /\ Good(m, p) /\ op.kind \in Kinds /\ f \in Files
      /\ RegisterOf(t) = r /\ InRegister(t) /\ r \in AllRegisters
  BY TriedHas
<1>2. op.slot \in frame.used
  BY OperandsAre DEF Tried
<1>3. Arm => ArmCode(op) = LoadFrom(SlotAddress(op.slot, Width(op.kind)), r, Width(op.kind))
  BY TriedHas, ArmCodes DEF ArmAcc
<1>4. ~Arm => /\ Emitted(op) = X86Assembled(<<Move(op.kind, SlotOperand(op.slot, Width(op.kind)), Register(r, Width(op.kind)))>>)
              /\ OfKind(op.kind, r)
  BY TriedHas, X86Texts, X86Emitted DEF X86Slot
<1> HIDE DEF t, r
<1>5. Brings(m, n, t, op.kind, Found(m, SlotBase, SlotPlace(op.slot)), Scratch \cup {r}, {})
  BY <1>1, <1>2, <1>3, <1>4, SlotComes
<1>6. After(p, op) = Moved(Fresh(p, f), SlotPlace(op.slot), op.kind, t)
  BY AftersAre DEF t
<1> DEFINE from == SlotPlace(op.slot)
<1>7. from \notin Both(f)
  BY NotBoth
<1> HIDE DEF n, from, f
<1>8. StillGood(n, Moved(Fresh(p, f), from, op.kind, t))
  BY <1>1, <1>5, <1>7, ToAccumulator DEF t, r, from
<1> QED BY <1>6, <1>8 DEF Keeps, n, from, f

\* loadGlobal keeps every promise it should.
LEMMA LoadGlobalKeeps ==
  ASSUME NEW m, NEW p, NEW op, Tried(m, p, op), op.do = "loadGlobal"
  PROVE  Keeps(m, p, op)
<1> DEFINE n == Ran(m, Emitted(op))
           f == FileFor(op.kind)
           t == AccumulatorPlace(f)
           r == AccumulatorIn(f)
<1>1. /\ Framed /\ Body(m) /\ Good(m, p) /\ op.kind \in Kinds /\ f \in Files
      /\ RegisterOf(t) = r /\ InRegister(t) /\ r \in AllRegisters
  BY TriedHas
<1>2. op.slot \in GlobalSlots
  BY OperandsAre DEF Tried
<1>3. Arm => ArmCode(op) = LoadFrom(GlobalAddress(op.slot, Width(op.kind)), r, Width(op.kind))
  BY TriedHas, ArmCodes DEF ArmAcc
<1>4. ~Arm => /\ Emitted(op) = X86Assembled(<<X86Globals, Move(op.kind, Memory(R11, 8 * op.slot, Width(op.kind)), Register(r, Width(op.kind)))>>)
              /\ OfKind(op.kind, r)
  BY TriedHas, X86Texts, X86Emitted DEF X86Global
<1> HIDE DEF t, r
<1>5. Brings(m, n, t, op.kind, Found(m, SlotBase, GlobalPlace(op.slot)), Scratch \cup {r}, {})
  BY <1>1, <1>2, <1>3, <1>4, GlobalComes
<1>6. After(p, op) = Moved(Fresh(p, f), GlobalPlace(op.slot), op.kind, t)
  BY AftersAre DEF t
<1> DEFINE from == GlobalPlace(op.slot)
<1>7. from \notin Both(f)
  BY NotBoth
<1> HIDE DEF n, from, f
<1>8. StillGood(n, Moved(Fresh(p, f), from, op.kind, t))
  BY <1>1, <1>5, <1>7, ToAccumulator DEF t, r, from
<1> QED BY <1>6, <1>8 DEF Keeps, n, from, f

\* storeGlobal keeps every promise it should.
LEMMA StoreGlobalKeeps ==
  ASSUME NEW m, NEW p, NEW op, Tried(m, p, op), op.do = "storeGlobal"
  PROVE  Keeps(m, p, op)
<1> DEFINE n == Ran(m, Emitted(op))
           f == FileFor(op.kind)
           r == AccumulatorIn(f)
           t == GlobalPlace(op.slot)
           from == AccumulatorPlace(f)
           cells == {CellOf(SlotBase, t)}
           lost == {t}
<1>1. /\ Framed /\ Body(m) /\ Good(m, p) /\ op.kind \in Kinds
      /\ r \in AllRegisters \ Scratch /\ m.reg[r] = Found(m, SlotBase, from)
  BY TriedHas
<1>2. op.slot \in GlobalSlots
  BY OperandsAre DEF Tried
<1>3. Arm => ArmCode(op) = StoreTo(GlobalAddress(op.slot, Width(op.kind)), r, Width(op.kind))
  BY TriedHas, ArmCodes DEF ArmAcc
<1>4. ~Arm => /\ Emitted(op) = X86Assembled(<<X86Globals, Move(op.kind, Register(r, Width(op.kind)), Memory(R11, 8 * op.slot, Width(op.kind)))>>)
              /\ OfKind(op.kind, r)
  BY TriedHas, X86Texts, X86Emitted DEF X86Global
<1> HIDE DEF r
<1>5. Brings(m, n, t, op.kind, m.reg[r], Scratch, cells)
  BY <1>1, <1>2, <1>3, <1>4, GlobalGoes
<1>6. After(p, op) = Moved(p, from, op.kind, t)
  BY AftersAre
<1>7. Loses(Scratch, cells, lost) /\ t \in AllPlaces
  <2>1. t \in AllPlaces /\ ~InRegister(t) /\ t[1] # "block"
    BY <1>2, GlobalIsPlace DEF GlobalPlace
  <2> QED BY <1>1, <2>1, LosesCell
<1>8. Fewer(Without(p, {t}), p, lost)
  BY FewerOne
<1> HIDE DEF n, t, from, cells, lost
<1>9. Body(n) /\ Good(n, Moved(p, from, op.kind, t))
  BY <1>1, <1>5, <1>7, <1>8, BroughtMoved
<1> QED BY <1>6, <1>9 DEF Keeps, StillGood, n

\* The address of a slot or a text is a word a promise may name.
LEMMA AddressesMeant ==
  ASSUME Framed
  PROVE  /\ \A s \in frame.used : Meant("Wide", Pointing(OfSlot, s))
         /\ \A s : Actual(SlotBase, Pointing(OfSlot, s)) = Pointing(OfStack, SlotBase + 8 * s)
         /\ \A n \in Int : Meant("Wide", Pointing(OfBytes, n))
         /\ \A n : Actual(SlotBase, Pointing(OfBytes, n)) = Pointing(OfBytes, n)
<1>1. ASSUME NEW s \in frame.used PROVE Meant("Wide", Pointing(OfSlot, s))
  <2>0. s \in Nat
    BY FrameFits
  <2>1. s \in Int /\ OfSlot \in Int
    BY <2>0 DEF OfSlot
  <2>2. Pointing(OfSlot, s) \in Words
    BY <2>1, WordMade DEF Pointing
  <2> QED BY <2>2 DEF Meant, Kinds, Pointing
<1>2. ASSUME NEW s PROVE Actual(SlotBase, Pointing(OfSlot, s)) = Pointing(OfStack, SlotBase + 8 * s)
  <2> DEFINE w == Pointing(OfSlot, s)
  <2>1. w[1] = OfSlot /\ w[4] = s
    BY DEF Pointing
  <2> HIDE DEF w
  <2>2. Actual(SlotBase, w) = Pointing(OfStack, SlotBase + 8 * s)
    BY <2>1, SMT DEF Actual, OfSlot, OfCell, OfBlock, Pointing
  <2> QED BY <2>2 DEF w
<1>3. ASSUME NEW n \in Int PROVE Meant("Wide", Pointing(OfBytes, n))
  <2>1. OfBytes \in Int /\ OfBytes # OfSlot
    BY DEF OfBytes, OfSlot
  <2>2. Pointing(OfBytes, n) \in Words
    BY <2>1, WordMade DEF Pointing
  <2> QED BY <2>1, <2>2 DEF Meant, Kinds, Pointing
<1>4. \A n : Actual(SlotBase, Pointing(OfBytes, n)) = Pointing(OfBytes, n)
  BY DEF Actual, Pointing, OfBytes, OfSlot, OfCell, OfBlock
<1> QED BY <1>1, <1>2, <1>3, <1>4

\* The same, of a file that is known.
LEMMA AftersIn ==
  ASSUME NEW p, NEW op, NEW f, FileFor(op.kind) = f
  PROVE  LET acc == AccumulatorPlace(f)
         IN  /\ op.do = "loadIntConstant" => After(p, op) = Put(Fresh(p, "int"), acc, Holding("Int", op.word))
             /\ op.do = "loadRealConstant" =>
                  After(p, op) = Put(Without(p, {ArgumentPlace("real", 0), AccumulatorPlace("int"), ArgumentPlace("int", 0), Overflow}),
                                     acc, Holding("Real", op.word))
             /\ op.do = "loadSlotAddress" => After(p, op) = Put(Fresh(p, "int"), acc, Holding("Wide", Pointing(OfSlot, op.slot)))
             /\ op.do = "loadBytesAddress" => After(p, op) = Put(Fresh(p, "int"), acc, Holding("Wide", Pointing(OfBytes, op.number)))
             /\ op.do = "widenAccumulator" => After(p, op) = Put(Fresh(p, "int"), acc, Holding("Wide", SignExtended(p[acc].word)))
             /\ op.do = "jumpIfZero" =>
                  After(p, op) = IF IsZero(p[acc].word) THEN p ELSE Put(Fresh(p, "int"), acc, Holding("Int", op.word))
             /\ op.do = "jump" => After(p, op) = p
  BY DEF After

\* The code for an int constant keeps the promises.
LEMMA IntConstantKeeps ==
  ASSUME Framed, NEW m, Body(m), NEW p, Good(m, p), NEW word \in Constants
  PROVE  StillGood(Ran(m, IntConstant(word)), Put(Fresh(p, "int"), AccumulatorPlace("int"), Holding("Int", word)))
<1> DEFINE n == Ran(m, IntConstant(word))
           t == AccumulatorPlace("int")
           f == "int"
<1>1. Known /\ Ready(m) /\ f \in Files
  BY DEF Framed, Body, Files
<1>2. Brings(m, n, t, "Int", word, Scratch \cup {AccumulatorIn("int")}, {})
  BY <1>1, IntConstantComes
<1>3. Meant("Int", word) /\ Actual(SlotBase, word) = word
  BY ConstantsAreWords
<1> HIDE DEF n
<1>4. StillGood(n, Put(Fresh(p, f), AccumulatorPlace(f), Holding("Int", word)))
  <2> HIDE DEF f
  <2>1. Brings(m, n, AccumulatorPlace(f), "Int", Actual(SlotBase, word), Scratch \cup {AccumulatorIn(f)}, {})
    BY <1>2, <1>3 DEF f
  <2> QED BY <1>1, <1>3, <2>1, IntoAccumulator
<1> QED BY <1>4 DEF n

\* loadIntConstant keeps every promise it should.
LEMMA LoadIntConstantKeeps ==
  ASSUME NEW m, NEW p, NEW op, Tried(m, p, op), op.do = "loadIntConstant"
  PROVE  Keeps(m, p, op)
<1>1. Framed /\ Known /\ Body(m) /\ Good(m, p) /\ op.kind = "Int" /\ op.word \in Constants
  BY TriedHas, OperandsAre DEF Tried
<1>0. FileFor(op.kind) = "int"
  BY <1>1 DEF FileFor
<1>2. Emitted(op) = IntConstant(op.word)
  BY <1>1, IntConstantEmitted
<1>3. After(p, op) = Put(Fresh(p, "int"), AccumulatorPlace("int"), Holding("Int", op.word))
  BY <1>0, AftersIn
<1>4. StillGood(Ran(m, IntConstant(op.word)), Put(Fresh(p, "int"), AccumulatorPlace("int"), Holding("Int", op.word)))
  BY <1>1, IntConstantKeeps
<1> QED BY <1>2, <1>3, <1>4 DEF Keeps

\* loadRealConstant keeps every promise it should.
LEMMA LoadRealConstantKeeps ==
  ASSUME NEW m, NEW p, NEW op, Tried(m, p, op), op.do = "loadRealConstant"
  PROVE  Keeps(m, p, op)
<1> DEFINE n == Ran(m, Emitted(op))
           t == AccumulatorPlace("real")
           regs == Scratch \cup {BlockIn, AccumulatorIn("int"), AccumulatorIn("real")}
           none == {}
           gone == {ArgumentPlace("real", 0), AccumulatorPlace("int"), ArgumentPlace("int", 0), Overflow}
           lost == Both("int") \cup Both("real") \cup {Overflow}
           q == Without(p, gone)
           word == op.word
<1>1. Framed /\ Known /\ Body(m) /\ Ready(m) /\ Good(m, p) /\ op.kind = "Real" /\ word \in Constants
  BY TriedHas, OperandsAre DEF Tried
<1>0. FileFor(op.kind) = "real"
  BY <1>1 DEF FileFor
<1>2. Brings(m, n, t, "Real", word, regs, none)
  BY <1>1, RealConstantComes
<1>3. After(p, op) = Put(q, t, Holding("Real", word))
  BY <1>0, AftersIn
<1>4. Meant("Real", word) /\ Actual(SlotBase, word) = word
  BY <1>1, ConstantsAreWords
<1>5. Loses(regs, none, lost)
  BY <1>1, LosesAll
<1>6. t \in AllPlaces
  BY <1>1, PlacesThere DEF Both, Files
<1>7. lost = gone \cup {t}
  BY DEF Both
<1> HIDE DEF n, t, regs, none, gone, lost, word
<1>8. Fewer(Without(q, {t}), p, lost)
  BY <1>7, FewerWithout
<1> HIDE DEF q
<1>9. Body(n) /\ Good(n, Put(q, t, Holding("Real", word)))
  BY <1>1, <1>2, <1>4, <1>5, <1>6, <1>8, BroughtPut
<1> QED BY <1>3, <1>9 DEF Keeps, StillGood, n

\* loadSlotAddress keeps every promise it should.
LEMMA LoadSlotAddressKeeps ==
  ASSUME NEW m, NEW p, NEW op, Tried(m, p, op), op.do = "loadSlotAddress"
  PROVE  Keeps(m, p, op)
<1> DEFINE n == Ran(m, Emitted(op))
           f == FileFor(op.kind)
           t == AccumulatorPlace("int")
           word == Pointing(OfSlot, op.slot)
<1>1. Framed /\ Known /\ Body(m) /\ Good(m, p) /\ op.kind = "Wide" /\ op.slot \in frame.used /\ f = "int" /\ "int" \in Files
  BY TriedHas, OperandsAre DEF Tried, FileFor, Files
<1>0. FileFor(op.kind) = "int"
  BY <1>1 DEF FileFor
<1>2. InRegister(t) /\ RegisterOf(t) = AccumulatorIn("int")
  BY PlacesInRegisters
<1>3. AccumulatorIn("int") \in AllRegisters /\ ~IsXmm(AccumulatorIn("int")) /\ AccumulatorIn("int") = (IF Arm THEN X(0) ELSE Ax)
  <2>1. AccumulatorIn("int") = IF Arm THEN X(0) ELSE Ax
    BY DEF AccumulatorIn
  <2>2. AccumulatorIn("int") \in AllRegisters
    BY <1>1, SpecialRegisters DEF Used
  <2> QED BY <2>1, <2>2 DEF IsXmm, X, Ax
<1>4. Arm => ArmCode(op) = AddressInto(RegisterOf(t), op.slot)
  BY <1>2, <1>3, ArmCodes
<1>5. ~Arm => Emitted(op) = X86Assembled(<<LoadAddress(SlotOperand(op.slot, 8), Register(RegisterOf(t), 8))>>)
  BY <1>2, <1>3, X86Texts, X86Emitted
<1>6. Brings(m, n, t, "Wide", Pointing(OfStack, SlotBase + 8 * op.slot), Scratch \cup {RegisterOf(t)}, {})
  <2>1. RegisterOf(t) \in AllRegisters /\ ~IsXmm(RegisterOf(t))
    BY <1>2, <1>3
  <2> HIDE DEF t
  <2> QED BY <1>1, <1>2, <1>4, <1>5, <2>1, AddressComes
<1>7. Meant("Wide", word) /\ Actual(SlotBase, word) = Pointing(OfStack, SlotBase + 8 * op.slot)
  BY <1>1, AddressesMeant
<1>8. After(p, op) = Put(Fresh(p, "int"), t, Holding("Wide", word))
  BY <1>0, AftersIn
<1> HIDE DEF n, word
<1>9. Brings(m, n, AccumulatorPlace("int"), "Wide", Actual(SlotBase, word), Scratch \cup {AccumulatorIn("int")}, {})
  BY <1>2, <1>6, <1>7
<1>10. StillGood(n, Put(Fresh(p, "int"), AccumulatorPlace("int"), Holding("Wide", word)))
  BY <1>1, <1>7, <1>9, IntoAccumulator
<1> QED BY <1>8, <1>10 DEF Keeps, n

\* loadBytesAddress keeps every promise it should.
LEMMA LoadBytesAddressKeeps ==
  ASSUME NEW m, NEW p, NEW op, Tried(m, p, op), op.do = "loadBytesAddress"
  PROVE  Keeps(m, p, op)
<1> DEFINE n == Ran(m, Emitted(op))
           word == Pointing(OfBytes, op.number)
<1>1. /\ Framed /\ Known /\ Body(m) /\ Ready(m) /\ Good(m, p) /\ op.kind = "Wide" /\ op.number \in Nat
      /\ FileFor(op.kind) = "int" /\ "int" \in Files
  BY TriedHas, OperandsAre DEF Tried, FileFor, Files
<1>0. FileFor(op.kind) = "int"
  BY <1>1 DEF FileFor
<1>2. Brings(m, n, AccumulatorPlace("int"), "Wide", word, Scratch \cup {AccumulatorIn("int")}, {})
  BY <1>1, BytesAddressComes
<1>3. Meant("Wide", word) /\ Actual(SlotBase, word) = word
  BY <1>1, AddressesMeant
<1>4. After(p, op) = Put(Fresh(p, "int"), AccumulatorPlace("int"), Holding("Wide", word))
  BY <1>0, AftersIn
<1> HIDE DEF n, word
<1>5. Brings(m, n, AccumulatorPlace("int"), "Wide", Actual(SlotBase, word), Scratch \cup {AccumulatorIn("int")}, {})
  BY <1>2, <1>3
<1>6. StillGood(n, Put(Fresh(p, "int"), AccumulatorPlace("int"), Holding("Wide", word)))
  BY <1>1, <1>3, <1>5, IntoAccumulator
<1> QED BY <1>4, <1>6 DEF Keeps, n

\* The accumulator holds an int, which is what was promised of it.
LEMMA IntIsThere ==
  ASSUME NEW m, NEW p, NEW op, Tried(m, p, op), op.do \in {"widenAccumulator", "jumpIfZero"}
  PROVE  LET word == p[AccumulatorPlace("int")].word
         IN  Meant("Int", word) /\ Low(m.reg[AccumulatorIn("int")]) = Low(word)
<1> DEFINE t == AccumulatorPlace("int")
           word == p[t].word
<1>1. t \in DOMAIN p /\ p[t].kind = "Int"
  BY DEF Tried, Allowed
<1>2. Meant("Int", word) /\ AsPromised(m, t, "Int", word)
  <2> HIDE DEF t
  <2> QED BY <1>1 DEF Tried, Good
<1>3. "int" \in Files
  BY DEF Files
<1>4. Same("Int", m.reg[AccumulatorIn("int")], Actual(SlotBase, word))
  BY <1>2, <1>3, FoundIn DEF AsPromised
<1>5. Actual(SlotBase, word) = word
  <2>1. word[1] >= 0 /\ word[1] \in Int
    BY <1>2 DEF Meant, Words
  <2>2. word[1] # OfSlot /\ word[1] # OfCell /\ word[1] # OfBlock
    BY <2>1 DEF OfSlot, OfCell, OfBlock
  <2> QED BY <2>2 DEF Actual
<1> QED BY <1>2, <1>4, <1>5 DEF Same

\* widenAccumulator keeps every promise it should.
LEMMA WidenAccumulatorKeeps ==
  ASSUME NEW m, NEW p, NEW op, Tried(m, p, op), op.do = "widenAccumulator"
  PROVE  Keeps(m, p, op)
<1> DEFINE n == Ran(m, Emitted(op))
           was == p[AccumulatorPlace("int")].word
           have == m.reg[AccumulatorIn("int")]
           word == SignExtended(was)
<1>1. /\ Framed /\ Known /\ Body(m) /\ Ready(m) /\ Good(m, p) /\ op.kind = "Wide"
      /\ FileFor(op.kind) = "int" /\ "int" \in Files
  BY TriedHas, OperandsAre DEF Tried, FileFor, Files
<1>0. FileFor(op.kind) = "int"
  BY <1>1 DEF FileFor
<1>2. Brings(m, n, AccumulatorPlace("int"), "Wide", SignExtended(have), Scratch \cup {AccumulatorIn("int")}, {})
  BY <1>1, WidenedComes
<1>3. Meant("Int", was) /\ Low(have) = Low(was)
  BY IntIsThere
<1> HIDE DEF was, have
<1>4. SignExtended(have) = word
  BY <1>3 DEF Low, SignExtended
<1>5. Meant("Wide", word) /\ Actual(SlotBase, word) = word
  <2>1. was \in Words
    BY <1>3 DEF Meant
  <2>2. word \in Words /\ word[1] \in {0, 65535}
    BY <2>1, WordMade, WordParts DEF SignExtended
  <2>3. word[1] # OfSlot /\ word[1] # OfCell /\ word[1] # OfBlock
    BY <2>2 DEF OfSlot, OfCell, OfBlock
  <2> HIDE DEF word
  <2> QED BY <2>2, <2>3 DEF Meant, Kinds, Actual
<1>6. After(p, op) = Put(Fresh(p, "int"), AccumulatorPlace("int"), Holding("Wide", word))
  BY <1>0, AftersIn DEF was
<1> HIDE DEF n, word
<1>7. Brings(m, n, AccumulatorPlace("int"), "Wide", Actual(SlotBase, word), Scratch \cup {AccumulatorIn("int")}, {})
  BY <1>2, <1>4, <1>5
<1>8. StillGood(n, Put(Fresh(p, "int"), AccumulatorPlace("int"), Holding("Wide", word)))
  BY <1>1, <1>5, <1>7, IntoAccumulator
<1> QED BY <1>6, <1>8 DEF Keeps, n

\* jump and jumpIfZero keep every promise they should.
LEMMA JumpKeeps ==
  ASSUME NEW m, NEW p, NEW op, Tried(m, p, op), op.do \in {"jump", "jumpIfZero"}
  PROVE  Keeps(m, p, op)
<1> DEFINE n == Ran(m, Emitted(op))
           acc == AccumulatorIn("int")
           conditional == op.do = "jumpIfZero"
           over == IntConstant(op.word)
<1>1. /\ Framed /\ Known /\ Body(m) /\ Ready(m) /\ Good(m, p) /\ op.kind = "Int" /\ op.word \in Constants
      /\ FileFor(op.kind) = "int" /\ "int" \in Files
  BY TriedHas, OperandsAre DEF Tried, FileFor, Files
<1>0. FileFor(op.kind) = "int"
  BY <1>1 DEF FileFor
<1>2. Emitted(op) = <<Skip(acc, conditional, Len(over))>> \o over
  BY <1>1, IntConstantEmitted
<1>3. IsCode(over) /\ acc \in AllRegisters
  BY <1>1, IntConstantComes, SpecialRegisters DEF Used
<1>4. StillGood(Ran(m, over), Put(Fresh(p, "int"), AccumulatorPlace("int"), Holding("Int", op.word)))
  BY <1>1, IntConstantKeeps
<1>5. conditional \in BOOLEAN
  OBVIOUS
<1>6. StillGood(m, p)
  BY <1>1 DEF StillGood
<1>7. /\ conditional => After(p, op) = IF IsZero(p[AccumulatorPlace("int")].word) THEN p
                                      ELSE Put(Fresh(p, "int"), AccumulatorPlace("int"), Holding("Int", op.word))
      /\ ~conditional => After(p, op) = p
  BY <1>0, AftersIn
<1>8. conditional => (IsZero(m.reg[acc]) <=> IsZero(p[AccumulatorPlace("int")].word))
  BY IntIsThere DEF IsZero
<1> HIDE DEF over, conditional, acc
<1>9. n = IF ~conditional \/ IsZero(m.reg[acc]) THEN m ELSE Ran(m, over)
  BY <1>1, <1>2, <1>3, <1>5, JumpedOver
<1> HIDE DEF n
<1>10. StillGood(n, After(p, op))
  BY <1>4, <1>6, <1>7, <1>8, <1>9
<1> QED BY <1>10 DEF Keeps, n

\* call keeps every promise it should.
LEMMA CallKeeps ==
  ASSUME NEW m, NEW p, NEW op, Tried(m, p, op), op.do = "call"
  PROVE  Keeps(m, p, op)
<1> DEFINE n == Ran(m, Emitted(op))
           regs == AllRegisters \ Preserved
           cells == HomeAt(BodySp)
           lost == {at \in AllPlaces : InRegister(at)}
           q == Without(p, RegisterPlaces(p))
<1>1. Framed /\ Body(m) /\ Good(m, p)
  BY TriedHas
<1>2. Ready(n) /\ Spares(m, n, regs, cells)
  BY <1>1, CallSpares
<1>3. Loses(regs, cells, lost)
  BY <1>1, LosesCall
<1>4. Fewer(q, p, lost)
  BY <1>1 DEF Fewer, Without, RegisterPlaces, InRegister
<1>5. After(p, op) = q
  BY AftersAre
<1> HIDE DEF n, regs, cells, lost, q
<1>6. Body(n) /\ Good(n, q)
  BY <1>1, <1>2, <1>3, <1>4, SparedFewer
<1> QED BY <1>5, <1>6 DEF Keeps, StillGood, n

-------------------------------------------------------------------------------
(* Arguments. *)

\* The register an argument operation names.
LEMMA ArgumentHas ==
  ASSUME NEW m, NEW p, NEW op, Tried(m, p, op), op.do \in {"setArg", "loadSlotIntoArg", "spillArgument"}
  PROVE  LET f == FileFor(op.kind)
             r == ArgumentIn(f, op.number)
             t == ArgumentPlace(f, op.number)
         IN  /\ op.number \in 0..Capacity(f) - 1 /\ r \in AllRegisters \ Scratch
             /\ InRegister(t) /\ RegisterOf(t) = r /\ t \in AllPlaces /\ m.reg[r] = Found(m, SlotBase, t)
             /\ Arm => r = RegisterFile(op.kind, op.number)
             /\ ~Arm => /\ r = ArgReg(op.kind, op.number) /\ OfKind(op.kind, r)
                        /\ X86Arg(op) = Register(r, Width(op.kind))
<1> DEFINE f == FileFor(op.kind)
           i == op.number
           r == ArgumentIn(f, i)
           t == ArgumentPlace(f, i)
<1>1. Known /\ op.kind \in Kinds /\ f \in Files
  BY TriedHas
<1>2. i \in 0..Capacity(f) - 1
  BY OperandsAre DEF Tried
<1>3. /\ <<f, i>> \in Parameters
      /\ Arm => r = RegisterFile(op.kind, i)
      /\ ~Arm => r = ArgReg(op.kind, i) /\ OfKind(op.kind, r)
  BY <1>1, <1>2, RegistersOfKind
<1>4. r \in Used
  <2> DEFINE q == <<f, i>>
  <2>1. q \in Parameters /\ q[1] = f /\ q[2] = i
    BY <1>3
  <2> HIDE DEF q
  <2>2. ArgumentIn(q[1], q[2]) \in Used
    BY <1>1, <2>1, ArgumentsIn
  <2> QED BY <2>1, <2>2
<1>5. r \in AllRegisters \ Scratch
  BY <1>4 DEF Used
<1>6. InRegister(t) /\ RegisterOf(t) = r /\ t \in AllPlaces /\ m.reg[r] = Found(m, SlotBase, t)
  BY <1>1, <1>2, PlacesInRegisters, PlacesThere, FoundIn
<1>7. ~Arm => X86Arg(op) = Register(r, Width(op.kind))
  BY <1>3 DEF X86Arg
<1> QED BY <1>2, <1>3, <1>5, <1>6, <1>7

\* setArg keeps every promise it should.
LEMMA SetArgKeeps ==
  ASSUME NEW m, NEW p, NEW op, Tried(m, p, op), op.do = "setArg"
  PROVE  Keeps(m, p, op)
<1> DEFINE n == Ran(m, Emitted(op))
           f == FileFor(op.kind)
           r == ArgumentIn(f, op.number)
           t == ArgumentPlace(f, op.number)
           from == AccumulatorPlace(f)
           regs == IF r = AccumulatorIn(f) THEN {} ELSE {r}
           none == {}
           lost == {t}
<1>1. /\ Framed /\ Known /\ Body(m) /\ Ready(m) /\ Good(m, p) /\ op.kind \in Kinds /\ f \in Files
      /\ Found(m, SlotBase, from) = m.reg[AccumulatorIn(f)]
  BY TriedHas
<1>2. op.number \in 0..Capacity(f) - 1 /\ t \in AllPlaces
  BY ArgumentHas
<1>3. Brings(m, n, t, op.kind, m.reg[AccumulatorIn(f)], regs, none)
  BY <1>1, <1>2, ArgumentComes
<1>4. Loses(regs, none, lost)
  BY <1>1, <1>2, LosesArgument
<1>5. Fewer(Without(p, {t}), p, lost)
  BY FewerOne
<1>6. After(p, op) = Moved(p, from, op.kind, t)
  BY AftersAre
<1> HIDE DEF n, t, from, regs, none, lost
<1>7. Body(n) /\ Good(n, Moved(p, from, op.kind, t))
  BY <1>1, <1>2, <1>3, <1>4, <1>5, BroughtMoved
<1> QED BY <1>6, <1>7 DEF Keeps, StillGood, n

\* spillArgument keeps every promise it should.
LEMMA SpillArgumentKeeps ==
  ASSUME NEW m, NEW p, NEW op, Tried(m, p, op), op.do = "spillArgument"
  PROVE  Keeps(m, p, op)
<1> DEFINE n == Ran(m, Emitted(op))
           f == FileFor(op.kind)
           r == ArgumentIn(f, op.number)
           t == SlotPlace(op.slot)
           from == ArgumentPlace(f, op.number)
           cells == {CellOf(SlotBase, t)}
           lost == {t}
<1>1. Framed /\ Known /\ Body(m) /\ Good(m, p) /\ op.kind \in Kinds
  BY TriedHas
<1>2. op.slot \in frame.used
  BY OperandsAre DEF Tried
<1>3. r \in AllRegisters \ Scratch /\ m.reg[r] = Found(m, SlotBase, from)
  BY ArgumentHas
<1>4. Arm => ArmCode(op) = StoreTo(SlotAddress(op.slot, Width(op.kind)), r, Width(op.kind))
  BY ArgumentHas, ArmCodes DEF ArmArg
<1>5. ~Arm => /\ Emitted(op) = X86Assembled(<<Move(op.kind, Register(r, Width(op.kind)), SlotOperand(op.slot, Width(op.kind)))>>)
              /\ OfKind(op.kind, r)
  BY ArgumentHas, X86Texts, X86Emitted DEF X86Slot
<1> HIDE DEF r
<1>6. Brings(m, n, t, op.kind, m.reg[r], Scratch, cells)
  BY <1>1, <1>2, <1>3, <1>4, <1>5, SlotGoes
<1>7. Loses(Scratch, cells, lost) /\ t \in AllPlaces
  <2>1. t \in AllPlaces /\ ~InRegister(t) /\ t[1] # "block"
    BY <1>1, <1>2, SlotIsPlace DEF SlotPlace
  <2> QED BY <1>1, <2>1, LosesCell
<1>8. Fewer(Without(p, {t}), p, lost)
  BY FewerOne
<1>9. After(p, op) = Moved(p, from, op.kind, t)
  BY AftersAre
<1> HIDE DEF n, t, from, cells, lost
<1>10. Body(n) /\ Good(n, Moved(p, from, op.kind, t))
  BY <1>1, <1>3, <1>6, <1>7, <1>8, BroughtMoved
<1> QED BY <1>9, <1>10 DEF Keeps, StillGood, n

\* loadSlotIntoArg keeps every promise it should.
LEMMA LoadSlotIntoArgKeeps ==
  ASSUME NEW m, NEW p, NEW op, Tried(m, p, op), op.do = "loadSlotIntoArg"
  PROVE  Keeps(m, p, op)
<1> DEFINE n == Ran(m, Emitted(op))
           f == FileFor(op.kind)
           i == op.number
           r == ArgumentIn(f, i)
           t == ArgumentPlace(f, i)
           from == SlotPlace(op.slot)
           regs == Scratch \cup {r}
           none == {}
<1>1. Framed /\ Known /\ Body(m) /\ Good(m, p) /\ op.kind \in Kinds /\ f \in Files
  BY TriedHas
<1>2. op.slot \in frame.used
  BY OperandsAre DEF Tried
<1>3. r \in AllRegisters /\ InRegister(t) /\ RegisterOf(t) = r /\ t \in AllPlaces /\ i \in 0..Capacity(f) - 1
  BY ArgumentHas
<1>4. Arm => ArmCode(op) = LoadFrom(SlotAddress(op.slot, Width(op.kind)), r, Width(op.kind))
  BY ArgumentHas, ArmCodes DEF ArmArg
<1>5. ~Arm => /\ Emitted(op) = X86Assembled(<<Move(op.kind, SlotOperand(op.slot, Width(op.kind)), Register(r, Width(op.kind)))>>)
              /\ OfKind(op.kind, r)
  BY ArgumentHas, X86Texts, X86Emitted DEF X86Slot
<1>6. Brings(m, n, t, op.kind, Found(m, SlotBase, from), regs, none)
  <2> HIDE DEF r, t
  <2> QED BY <1>1, <1>2, <1>3, <1>4, <1>5, SlotComes
<1>7. CASE i = 0
  <2> DEFINE gone == {AccumulatorPlace(f)}
             lost == Both(f)
             q == Without(p, gone)
  <2>1. After(p, op) = Moved(q, from, op.kind, t)
    BY <1>7, AftersAre
  <2>2. Loses(regs, none, lost)
    BY <1>1, <1>7, LosesAccumulator
  <2>3. lost = gone \cup {t}
    BY <1>7 DEF Both
  <2> HIDE DEF n, t, from, regs, none, gone, lost
  <2>4. Fewer(Without(q, {t}), p, lost) /\ (from \in DOMAIN q => from \in DOMAIN p /\ q[from] = p[from])
    BY <2>3, FewerWithout
  <2> HIDE DEF q
  <2>5. Body(n) /\ Good(n, Moved(q, from, op.kind, t))
    BY <1>1, <1>3, <1>6, <2>2, <2>4, BroughtMoved
  <2> QED BY <2>1, <2>5 DEF Keeps, StillGood, n
<1>8. CASE i # 0
  <2> DEFINE lost == {t}
  <2>1. After(p, op) = Moved(p, from, op.kind, t)
    BY <1>8, AftersAre
  <2>2. Loses(regs, none, lost)
    BY <1>1, <1>3, <1>8, LosesArgument
  <2>3. Fewer(Without(p, {t}), p, lost)
    BY FewerOne
  <2> HIDE DEF n, t, from, regs, none, lost
  <2>4. Body(n) /\ Good(n, Moved(p, from, op.kind, t))
    BY <1>1, <1>3, <1>6, <2>2, <2>3, BroughtMoved
  <2> QED BY <2>1, <2>4 DEF Keeps, StillGood, n
<1> QED BY <1>7, <1>8

\* setOverflowBlock keeps every promise it should.
LEMMA SetOverflowBlockKeeps ==
  ASSUME NEW m, NEW p, NEW op, Tried(m, p, op), op.do = "setOverflowBlock"
  PROVE  Keeps(m, p, op)
<1> DEFINE n == Ran(m, Emitted(op))
           t == Overflow
           regs == Scratch \cup {BlockIn}
           none == {}
           lost == {Overflow}
           word == Pointing(OfSlot, op.slot)
<1>1. Framed /\ Known /\ Body(m) /\ Good(m, p) /\ op.kind = "Wide" /\ op.slot \in frame.used
  BY TriedHas, OperandsAre DEF Tried
<1>2. InRegister(t) /\ RegisterOf(t) = BlockIn /\ t \in AllPlaces
  BY <1>1, PlacesInRegisters, PlacesThere
<1>3. BlockIn \in AllRegisters /\ ~IsXmm(BlockIn) /\ BlockIn = (IF Arm THEN X(9) ELSE R10)
  <2>1. BlockIn = IF Arm THEN X(9) ELSE R10
    BY DEF BlockIn
  <2>2. BlockIn \in AllRegisters
    BY <1>1, SpecialRegisters DEF Used
  <2> QED BY <2>1, <2>2 DEF IsXmm, X, R10
<1>4. Arm => ArmCode(op) = AddressInto(RegisterOf(t), op.slot)
  BY <1>2, <1>3, ArmCodes
<1>5. ~Arm => Emitted(op) = X86Assembled(<<LoadAddress(SlotOperand(op.slot, 8), Register(RegisterOf(t), 8))>>)
  BY <1>2, <1>3, X86Texts, X86Emitted
<1>6. Brings(m, n, t, "Wide", Pointing(OfStack, SlotBase + 8 * op.slot), Scratch \cup {RegisterOf(t)}, none)
  <2>1. RegisterOf(t) \in AllRegisters /\ ~IsXmm(RegisterOf(t))
    BY <1>2, <1>3
  <2> HIDE DEF t
  <2> QED BY <1>1, <1>2, <1>4, <1>5, <2>1, AddressComes
<1>7. Meant("Wide", word) /\ Actual(SlotBase, word) = Pointing(OfStack, SlotBase + 8 * op.slot)
  BY <1>1, AddressesMeant
<1>8. After(p, op) = Put(p, t, Holding("Wide", word))
  BY AftersAre
<1>9. Loses(regs, none, lost)
  BY <1>1, LosesAll
<1>10. Fewer(Without(p, {t}), p, lost)
  BY FewerOne
<1>11. Brings(m, n, t, "Wide", Actual(SlotBase, word), regs, none)
  BY <1>2, <1>6, <1>7
<1> HIDE DEF n, t, regs, none, lost, word
<1>12. Body(n) /\ Good(n, Put(p, t, Holding("Wide", word)))
  BY <1>1, <1>2, <1>7, <1>9, <1>10, <1>11, BroughtPut
<1> QED BY <1>8, <1>12 DEF Keeps, StillGood, n

\* spillOverflowArgument keeps every promise it should.
LEMMA SpillOverflowArgumentKeeps ==
  ASSUME NEW m, NEW p, NEW op, Tried(m, p, op), op.do = "spillOverflowArgument"
  PROVE  Keeps(m, p, op)
<1> DEFINE n == Ran(m, Emitted(op))
           t == SlotPlace(op.slot)
           from == BlockPlace(op.number)
           cells == {CellOf(SlotBase, t)}
           lost == {t}
           v == p[Overflow]
<1>1. Framed /\ Known /\ Body(m) /\ Good(m, p) /\ op.kind \in Kinds
  BY TriedHas
<1>2. op.slot \in frame.used
  BY OperandsAre DEF Tried
<1>3. Overflow \in DOMAIN p /\ v.word = Pointing(OfBlock, 0) /\ from \in DOMAIN p
  BY DEF Tried, Allowed
<1>4. op.number \in 0..1
  <2>1. from \in AllPlaces
    BY <1>1, <1>3 DEF Good
  <2>2. from[1] = "block" /\ from[2] = op.number
    BY DEF BlockPlace
  <2> HIDE DEF from
  <2> QED BY <2>1, <2>2, PlacesAre
<1>5. Meant(v.kind, v.word) /\ AsPromised(m, Overflow, v.kind, v.word)
  BY <1>1, <1>3 DEF Good
<1>6. Points(m, BlockIn, OfStack, 320)
  <2>1. v.word[1] = OfBlock
    BY <1>3 DEF Pointing
  <2>2. v.kind = "Wide"
    BY <1>5, <2>1 DEF Meant, OfBlock
  <2>3. Actual(SlotBase, v.word) = Pointing(OfStack, 320)
    BY <2>1 DEF Actual, OfSlot, OfCell, OfBlock, BlockAt
  <2>4. m.reg[BlockIn] = Pointing(OfStack, 320)
    BY <1>5, <2>2, <2>3, FoundIn DEF AsPromised, Same
  <2> QED BY <2>4 DEF Points, Regions
<1>7. Brings(m, n, t, op.kind, Found(m, SlotBase, from), Scratch, cells)
  BY <1>1, <1>2, <1>4, <1>6, OverflowGoes
<1>8. Loses(Scratch, cells, lost) /\ t \in AllPlaces
  <2>1. t \in AllPlaces /\ ~InRegister(t) /\ t[1] # "block"
    BY <1>1, <1>2, SlotIsPlace DEF SlotPlace
  <2> QED BY <1>1, <2>1, LosesCell
<1>9. Fewer(Without(p, {t}), p, lost)
  BY FewerOne
<1>10. After(p, op) = Moved(p, from, op.kind, t)
  BY AftersAre
<1> HIDE DEF n, t, from, cells, lost
<1>11. Body(n) /\ Good(n, Moved(p, from, op.kind, t))
  BY <1>1, <1>7, <1>8, <1>9, BroughtMoved
<1> QED BY <1>10, <1>11 DEF Keeps, StillGood, n

-------------------------------------------------------------------------------
(* Through a pointer. *)

\* What a pointer is promised to be the address of is one place, and it leads there.
LEMMA PointedIs ==
  ASSUME Framed, NEW m, Body(m), NEW p, Good(m, p), NEW slot, NEW t \in Pointed(p, slot)
  PROVE  /\ t \in AllPlaces /\ ~InRegister(t) /\ t[1] # "block" /\ t \notin Both("int") /\ t \notin Both("real")
         /\ (CHOOSE x \in Pointed(p, slot) : TRUE) = t
         /\ \E at : Leads(Found(m, SlotBase, SlotPlace(slot)), at) /\ CellOf(SlotBase, t) = <<OfStack, at>>
<1> DEFINE s == SlotPlace(slot)
           v == p[s]
           w == v.word
<1>1. s \in DOMAIN p /\ v.kind = "Wide"
  BY DEF Pointed
<1>2. Pointed(p, slot) = IF w[1] = OfSlot THEN {SlotPlace(w[4])} ELSE IF w[1] = OfCell THEN {Cell} ELSE {}
  BY <1>1 DEF Pointed
<1>3. Meant(v.kind, w) /\ AsPromised(m, s, v.kind, w)
  <2> HIDE DEF s
  <2> QED BY <1>1 DEF Good
<1>4. Found(m, SlotBase, s) = Actual(SlotBase, w)
  BY <1>1, <1>3 DEF AsPromised, Same
<1>5. Pointed(p, slot) = {t}
  BY <1>2
<1>6. (CHOOSE x \in Pointed(p, slot) : TRUE) = t
  BY <1>5
<1> HIDE DEF s, v, w
<1>7. CASE w[1] = OfSlot
  <2> DEFINE u == w[4]
             at == SlotBase + 8 * u
  <2>1. t = SlotPlace(u) /\ u \in frame.used
    BY <1>2, <1>3, <1>7 DEF Meant
  <2>2. Actual(SlotBase, w) = Pointing(OfStack, at)
    BY <1>7 DEF Actual, OfSlot, OfCell, OfBlock
  <2>3. CellOf(SlotBase, t) = <<OfStack, at>> /\ at \in Int /\ at % 8 = 0
    BY <2>1, BodySlot
  <2>4. t \in AllPlaces /\ ~InRegister(t) /\ t[1] # "block"
    BY <2>1, SlotIsPlace DEF SlotPlace
  <2>5. Leads(Found(m, SlotBase, s), at)
    <3> HIDE DEF at
    <3> QED BY <1>4, <2>2, <2>3 DEF Leads
  <2> HIDE DEF at
  <2>6. \E x : Leads(Found(m, SlotBase, s), x) /\ CellOf(SlotBase, t) = <<OfStack, x>>
    BY <2>3, <2>5
  <2> QED BY <1>6, <2>1, <2>4, <2>6, NotBoth DEF s
<1>8. CASE w[1] = OfCell
  <2>1. t = Cell
    BY <1>2, <1>8 DEF OfSlot, OfCell
  <2>2. Actual(SlotBase, w) = Pointing(OfStack, 160)
    BY <1>8 DEF Actual, OfSlot, OfCell, OfBlock, CellAt
  <2>3. CellOf(SlotBase, t) = <<OfStack, 160>>
    BY <2>1 DEF CellOf, Cell, CellAt
  <2>4. t \in AllPlaces /\ ~InRegister(t) /\ t[1] # "block"
    BY <2>1, PlacesThere DEF Framed, Cell, InRegister
  <2>5. Leads(Found(m, SlotBase, s), 160)
    BY <1>4, <2>2 DEF Leads
  <2> QED BY <1>6, <2>1, <2>3, <2>4, <2>5, NotBoth DEF s
<1>9. w[1] = OfSlot \/ w[1] = OfCell
  BY <1>2
<1> QED BY <1>7, <1>8, <1>9

\* storeThroughPointer keeps every promise it should.
LEMMA StoreThroughPointerKeeps ==
  ASSUME NEW m, NEW p, NEW op, Tried(m, p, op), op.do = "storeThroughPointer"
  PROVE  Keeps(m, p, op)
<1> DEFINE n == Ran(m, Emitted(op))
           f == FileFor(op.kind)
           r == AccumulatorIn(f)
           from == AccumulatorPlace(f)
<1>1. /\ Framed /\ Known /\ Body(m) /\ Good(m, p) /\ op.kind \in Kinds
      /\ r \in AllRegisters /\ r \notin Scratch \cup {BlockIn} /\ m.reg[r] = Found(m, SlotBase, from)
  BY TriedHas
<1>2. op.slot \in frame.used
  BY OperandsAre DEF Tried
<1>3. PICK t \in Pointed(p, op.slot) : TRUE
  BY DEF Tried, Allowed
<1>4. t \in AllPlaces /\ ~InRegister(t) /\ t[1] # "block" /\ (CHOOSE x \in Pointed(p, op.slot) : TRUE) = t
  BY <1>1, PointedIs
<1>5. PICK at : Leads(Found(m, SlotBase, SlotPlace(op.slot)), at) /\ CellOf(SlotBase, t) = <<OfStack, at>>
  BY <1>1, PointedIs
<1> DEFINE regs == Scratch \cup {BlockIn}
           cells == {CellOf(SlotBase, t)}
           lost == {t, Overflow}
           gone == {Overflow}
           q == Without(p, gone)
<1>6. Arm => ArmCode(op) = Append(LoadFrom(SlotAddress(op.slot, 8), X(17), 8), StoreWord(r, Width(op.kind), X(17), 0))
  BY TriedHas, ArmCodes DEF ArmAcc
<1>7. ~Arm => /\ Emitted(op) = X86Assembled(<<BinaryText("mov", 8, SlotOperand(op.slot, 8), Register(R10, 8)),
                                              Move(op.kind, Register(r, Width(op.kind)), Memory(R10, 0, Width(op.kind)))>>)
              /\ OfKind(op.kind, r)
  BY TriedHas, X86Texts, X86Emitted DEF X86Pointer, X86Pointed
<1> HIDE DEF r
<1>8. Brings(m, n, t, op.kind, m.reg[r], regs, cells)
  BY <1>1, <1>2, <1>4, <1>5, <1>6, <1>7, PointedGoes
<1>9. Loses(regs, cells, lost)
  BY <1>1, <1>4, LosesCell
<1>10. lost = gone \cup {t}
  OBVIOUS
<1>11. After(p, op) = Moved(q, from, op.kind, t)
  BY <1>4, AftersAre
<1> HIDE DEF n, from, regs, cells, gone, lost
<1>12. Fewer(Without(q, {t}), p, lost) /\ (from \in DOMAIN q => from \in DOMAIN p /\ q[from] = p[from])
  BY <1>10, FewerWithout
<1> HIDE DEF q
<1>13. Body(n) /\ Good(n, Moved(q, from, op.kind, t))
  BY <1>1, <1>4, <1>8, <1>9, <1>12, BroughtMoved
<1> QED BY <1>11, <1>13 DEF Keeps, StillGood, n

\* loadThroughPointer keeps every promise it should.
LEMMA LoadThroughPointerKeeps ==
  ASSUME NEW m, NEW p, NEW op, Tried(m, p, op), op.do = "loadThroughPointer"
  PROVE  Keeps(m, p, op)
<1> DEFINE n == Ran(m, Emitted(op))
           f == FileFor(op.kind)
           r == AccumulatorIn(f)
           t == AccumulatorPlace(f)
<1>1. /\ Framed /\ Known /\ Body(m) /\ Ready(m) /\ Good(m, p) /\ op.kind \in Kinds /\ f \in Files
      /\ r \in AllRegisters /\ RegisterOf(t) = r /\ InRegister(t)
  BY TriedHas
<1>2. op.slot \in frame.used
  BY OperandsAre DEF Tried
<1>3. PICK from \in Pointed(p, op.slot) : TRUE
  BY DEF Tried, Allowed
<1>4. from \in AllPlaces /\ ~InRegister(from) /\ (CHOOSE x \in Pointed(p, op.slot) : TRUE) = from
  BY <1>1, PointedIs
<1>5. PICK at : Leads(Found(m, SlotBase, SlotPlace(op.slot)), at) /\ CellOf(SlotBase, from) = <<OfStack, at>>
  BY <1>1, PointedIs
<1> DEFINE regs == Scratch \cup {BlockIn, r}
           none == {}
           lost == Both(f) \cup {Overflow}
           first == {ArgumentPlace(f, 0)}
           gone == first \cup {Overflow}
           q == Without(p, gone)
<1>6. Arm => ArmCode(op) = Append(LoadFrom(SlotAddress(op.slot, 8), X(17), 8), LoadWord(r, Width(op.kind), X(17), 0))
  BY TriedHas, ArmCodes DEF ArmAcc
<1>7. ~Arm => /\ Emitted(op) = X86Assembled(<<BinaryText("mov", 8, SlotOperand(op.slot, 8), Register(R10, 8)),
                                              Move(op.kind, Memory(R10, 0, Width(op.kind)), Register(r, Width(op.kind)))>>)
              /\ OfKind(op.kind, r)
  BY TriedHas, X86Texts, X86Emitted DEF X86Pointer, X86Pointed
<1>8. Found(m, SlotBase, from) = Held(m, <<OfStack, at>>)
  BY <1>1, <1>4, <1>5, CellHeldIsWord
<1>9. Brings(m, n, t, op.kind, Held(m, <<OfStack, at>>), regs, none)
  <2> HIDE DEF r, t
  <2> QED BY <1>1, <1>2, <1>5, <1>6, <1>7, PointedComes
<1>10. Loses(regs, none, lost)
  BY <1>1, LosesAccumulator
<1>11. lost = gone \cup {t} /\ t \in AllPlaces
  BY <1>1, PlacesThere DEF Both
<1>12. After(p, op) = Moved(q, from, op.kind, t)
  <2>1. After(p, op) = Moved(Without(Without(p, first), {Overflow}), from, op.kind, t)
    BY <1>4, AftersAre DEF Fresh
  <2> QED BY <2>1, WithoutTwice
<1> HIDE DEF n, t, regs, none, gone, lost
<1>13. Fewer(Without(q, {t}), p, lost) /\ (from \in DOMAIN q => from \in DOMAIN p /\ q[from] = p[from])
  BY <1>11, FewerWithout
<1> HIDE DEF q
<1>14. Brings(m, n, t, op.kind, Found(m, SlotBase, from), regs, none)
  BY <1>8, <1>9
<1>15. Body(n) /\ Good(n, Moved(q, from, op.kind, t))
  BY <1>1, <1>10, <1>11, <1>13, <1>14, BroughtMoved
<1> QED BY <1>12, <1>15 DEF Keeps, StillGood, n

-------------------------------------------------------------------------------
\* Whatever the operation.
LEMMA EveryOperationKeeps ==
  ASSUME NEW m, NEW p, NEW op, Tried(m, p, op)
  PROVE  Keeps(m, p, op)
<1>1. op.do \in {"storeSlot", "loadSlot", "setArg", "loadSlotIntoArg", "spillArgument", "spillOverflowArgument",
                 "storeThroughPointer", "loadThroughPointer", "storeGlobal", "loadGlobal", "call",
                 "setOverflowBlock", "loadSlotAddress", "loadBytesAddress", "widenAccumulator",
                 "loadIntConstant", "loadRealConstant", "jump", "jumpIfZero"}
  BY DEF Tried, IsOperation
<1> QED BY <1>1, StoreSlotKeeps, LoadSlotKeeps, SetArgKeeps, LoadSlotIntoArgKeeps, SpillArgumentKeeps, SpillOverflowArgumentKeeps,
           StoreThroughPointerKeeps, LoadThroughPointerKeeps, StoreGlobalKeeps, LoadGlobalKeeps, CallKeeps,
           SetOverflowBlockKeeps, LoadSlotAddressKeeps, LoadBytesAddressKeeps, WidenAccumulatorKeeps,
           LoadIntConstantKeeps, LoadRealConstantKeeps, JumpKeeps

-------------------------------------------------------------------------------
(* A few instructions after each other. *)

\* One instruction more, on a code whose outcome has a name.
LEMMA OneMore ==
  ASSUME NEW code, IsCode(code), NEW i, NEW m, NEW n, Ran(m, code) = n
  PROVE  IsCode(Append(code, i)) /\ Ran(m, Append(code, i)) = Do(n, i)
  BY RanOneMore

\* Three instructions run one after the other.
LEMMA RanThree ==
  ASSUME NEW a, NEW b, NEW c, NEW m
  PROVE  IsCode(<<a, b, c>>) /\ Ran(m, <<a, b, c>>) = Do(Do(Do(m, a), b), c)
<1> DEFINE one == <<a>>
           two == <<a, b>>
           all == <<a, b, c>>
           d1 == Do(m, a)
           d2 == Do(d1, b)
<1>1. two = Append(one, b) /\ all = Append(two, c)
  OBVIOUS
<1>2. IsCode(one) /\ Ran(m, one) = d1
  BY RanOne
<1> HIDE DEF one, two, all, d1
<1>3. IsCode(two) /\ Ran(m, two) = d2
  BY <1>1, <1>2, OneMore
<1> HIDE DEF d2
<1>4. IsCode(all) /\ Ran(m, all) = Do(d2, c)
  BY <1>1, <1>3, OneMore
<1> QED BY <1>4 DEF all, d2, d1

\* Four instructions run one after the other.
LEMMA RanFour ==
  ASSUME NEW a, NEW b, NEW c, NEW d, NEW m
  PROVE  IsCode(<<a, b, c, d>>) /\ Ran(m, <<a, b, c, d>>) = Do(Do(Do(Do(m, a), b), c), d)
<1> DEFINE three == <<a, b, c>>
           all == <<a, b, c, d>>
           d3 == Do(Do(Do(m, a), b), c)
<1>1. all = Append(three, d)
  OBVIOUS
<1>2. IsCode(three) /\ Ran(m, three) = d3
  BY RanThree
<1> HIDE DEF three, all, d3
<1>3. IsCode(all) /\ Ran(m, all) = Do(d3, d)
  BY <1>1, <1>2, OneMore
<1> QED BY <1>3 DEF all, d3

\* Three instructions that fit are a code that fits.
LEMMA FitsThree ==
  ASSUME NEW a, NEW b, NEW c, Encoded(a) = a, Encoded(b) = b, Encoded(c) = c
  PROVE  Fits(<<a, b, c>>)
<1>1. <<a, b>> = Append(<<a>>, b) /\ <<a, b, c>> = Append(<<a, b>>, c)
  OBVIOUS
<1> QED BY <1>1, FitsOne, FitsOneMore

\* Four instructions that fit are a code that fits.
LEMMA FitsFour ==
  ASSUME NEW a, NEW b, NEW c, NEW d, Encoded(a) = a, Encoded(b) = b, Encoded(c) = c, Encoded(d) = d
  PROVE  Fits(<<a, b, c, d>>)
<1>1. <<a, b, c, d>> = Append(<<a, b, c>>, d)
  OBVIOUS
<1> QED BY <1>1, FitsThree, FitsOneMore

\* A small constant fits an add.
LEMMA SmallFits ==
  ASSUME NEW r, NEW b, NEW k, Small(k)
  PROVE  Encoded(Added(r, b, k)) = Added(r, b, k)
  BY DEF Encoded, Added, Small

\* The offsets zero and eight fit a load and a store of eight bytes.
LEMMA WholeFits ==
  ASSUME NEW r, NEW b, NEW k \in {0, 8}
  PROVE  Encoded(LoadWord(r, 8, b, k)) = LoadWord(r, 8, b, k) /\ Encoded(StoreWord(r, 8, b, k)) = StoreWord(r, 8, b, k)
  BY DEF Encoded, LoadWord, StoreWord

Sums(x, y, z) == x \in Int /\ y \in Int /\ z \in Int /\ x + y = z

\* A pointer plus a constant points that much further.
LEMMA PointerMoved ==
  ASSUME NEW m, Ready(m), NEW r \in AllRegisters, NEW b \in AllRegisters, NEW x, NEW y, NEW z, Points(m, b, OfStack, x), Sums(x, y, z)
  PROVE  LET d == Do(m, Added(r, b, y)) IN Ready(d) /\ Kept(m, d, {r}) /\ Points(d, r, OfStack, z)
<1> DEFINE d == Do(m, Added(r, b, y))
<1>1. Ready(d) /\ Kept(m, d, {r}) /\ d.reg[r] = PlusBytes(m.reg[b], y)
  BY DoPlus DEF Sums
<1>2. PlusBytes(Pointing(OfStack, x), y) = Pointing(OfStack, z)
  BY DEF PlusBytes, Pointing, Sums
<1>3. m.reg[b] = Pointing(OfStack, x) /\ OfStack \in Regions /\ z \in Int
  BY DEF Points, Sums
<1> HIDE DEF d
<1>4. Ready(d) /\ Kept(m, d, {r}) /\ Points(d, r, OfStack, z)
  BY <1>1, <1>2, <1>3 DEF Points
<1> QED BY <1>4 DEF d

\* Eight bytes stored at an offset that reaches a cell are all of it.
LEMMA WholeStored ==
  ASSUME NEW m, Ready(m), NEW r \in AllRegisters, NEW b \in AllRegisters, NEW n, Points(m, b, OfStack, n),
         NEW offset, NEW at, Reaches(n, offset, at)
  PROVE  LET d == Do(m, StoreWord(r, 8, b, offset)) IN Ready(d) /\ Wrote(m, d, <<OfStack, at>>, m.reg[r], {})
<1> DEFINE w == 8
           region == OfStack
           d == Do(m, StoreWord(r, w, b, offset))
<1> HIDE DEF w, region
<1>0. n + offset = at
  BY DEF Reaches
<1>1. Points(m, b, region, n) /\ (n + offset) % 8 = 0 /\ offset \in Int
  BY DEF region, Reaches
<1>2. Ready(d) /\ Wrote(m, d, <<region, n + offset>>, Stored(w, Held(m, <<region, n + offset>>), m.reg[r]), {})
  BY <1>1, DoStore
<1>3. \A old : Stored(w, old, m.reg[r]) = m.reg[r]
  BY DEF w, Stored
<1> HIDE DEF d
<1>4. Ready(d) /\ Wrote(m, d, <<region, at>>, m.reg[r], {})
  BY <1>0, <1>2, <1>3
<1> QED BY <1>4 DEF d, w, region

\* A register that is spared points where it pointed.
LEMMA PointsStill ==
  ASSUME NEW m, NEW d, NEW regs, NEW cells, Spares(m, d, regs, cells), NEW b \in AllRegisters, b \notin regs, NEW region, NEW n, Points(m, b, region, n)
  PROVE  Points(d, b, region, n)
  BY DEF Points, Spares

\* What spares much spares less.
LEMMA SparedMore ==
  ASSUME NEW m, NEW n, NEW a, NEW b, NEW c, NEW d, Spares(m, n, a, c), a \subseteq b, c \subseteq d
  PROVE  Spares(m, n, b, d)
  BY DEF Spares

-------------------------------------------------------------------------------
(* The prologue. *)

SavedAt == {<<OfStack, -16>>} \cup (IF Arm THEN {<<OfStack, -8>>} ELSE {})

Entered(m, n) ==
  /\ Ready(n) /\ Spares(m, n, Scratch \cup {Sp, Fp}, SavedAt)
  /\ n.reg[Sp] = Pointing(OfStack, BodySp)
  /\ Held(n, <<OfStack, -16>>) = m.reg[Fp]
  /\ Arm => Held(n, <<OfStack, -8>>) = m.reg[Lr]

\* The AArch64 prologue enters the body: frame made, the caller's registers saved.
LEMMA ArmEnters ==
  ASSUME Framed, Arm, NEW m, Ready(m), Points(m, Sp, OfStack, 0)
  PROVE  Entered(m, Ran(m, ArmAssembled(ArmPrologue)))
<1> DEFINE o == 0
           down == -16
           up == -8
           eight == 8
           c == <<Added(Sp, Sp, down), StoreWord(Fp, eight, Sp, o), StoreWord(Lr, eight, Sp, eight), Added(Fp, Sp, o)>>
           adjust == AdjustStack(-1)
           d1 == Do(m, Added(Sp, Sp, down))
           d2 == Do(d1, StoreWord(Fp, eight, Sp, o))
           d3 == Do(d2, StoreWord(Lr, eight, Sp, eight))
           d4 == Do(d3, Added(Fp, Sp, o))
           n == Ran(d4, adjust)
           v == (-1) * ArmFrameBytes
           low == <<OfStack, down>>
           high == <<OfStack, up>>
<1>0. Known /\ frame.slots \in Nat
  BY DEF Framed
<1>1. Sp \in AllRegisters /\ Fp \in AllRegisters /\ Lr \in AllRegisters /\ Sp # Fp /\ Sp # Lr /\ Fp # Lr
  BY ArmRegisters DEF Sp, Fp, Lr
<1>2. ArmPrologue = c \o adjust
  BY DEF ArmPrologue
<1>3. Sums(o, down, down) /\ Sums(down, o, down) /\ Reaches(down, o, down) /\ Reaches(down, eight, up) /\ low # high
  BY DEF Sums, Reaches
<1>4. Fits(c)
  <2>1. Small(down) /\ Small(o)
    BY DEF Small
  <2>2. o \in {0, 8} /\ eight \in {0, 8}
    OBVIOUS
  <2> HIDE DEF down, o
  <2>3. Encoded(Added(Sp, Sp, down)) = Added(Sp, Sp, down) /\ Encoded(Added(Fp, Sp, o)) = Added(Fp, Sp, o)
    BY <2>1, SmallFits
  <2>4. /\ Encoded(StoreWord(Fp, eight, Sp, o)) = StoreWord(Fp, eight, Sp, o)
        /\ Encoded(StoreWord(Lr, eight, Sp, eight)) = StoreWord(Lr, eight, Sp, eight)
    BY <2>2, WholeFits
  <2> QED BY <2>3, <2>4, FitsFour
<1>5. ArmFrameBytes = Bytes /\ Bytes \in Nat /\ BodySp = down + v /\ BodySp \in Int
  BY FrameFits DEF Bytes, BodySp
<1>6. Signed(-1, ArmFrameBytes, v)
  BY <1>5 DEF Signed
<1>7. IsCode(c) /\ Ran(m, c) = d4
  BY RanFour
<1> HIDE DEF o, down, up, eight, c
<1>8. Ready(d1) /\ Kept(m, d1, {Sp}) /\ Points(d1, Sp, OfStack, down)
  BY <1>1, <1>3, PointerMoved DEF o
<1> HIDE DEF d1
<1>9. Ready(d2) /\ Wrote(d1, d2, low, d1.reg[Fp], {})
  BY <1>1, <1>3, <1>8, WholeStored DEF eight
<1> HIDE DEF d2
<1>10. Points(d2, Sp, OfStack, down)
  BY <1>1, <1>8, <1>9 DEF Points, Wrote
<1>11. Ready(d3) /\ Wrote(d2, d3, high, d2.reg[Lr], {})
  <2>1. \A x : Points(d2, Sp, OfStack, x) /\ Reaches(x, eight, up) => LET d == Do(d2, StoreWord(Lr, 8, Sp, eight)) IN Ready(d) /\ Wrote(d2, d, high, d2.reg[Lr], {})
    BY <1>1, <1>9, WholeStored
  <2> QED BY <1>3, <1>10, <2>1 DEF eight
<1> HIDE DEF d3
<1>12. Points(d3, Sp, OfStack, down)
  BY <1>1, <1>10, <1>11 DEF Points, Wrote
<1>13. Ready(d4) /\ Kept(d3, d4, {Fp}) /\ Points(d4, Fp, OfStack, down)
  BY <1>1, <1>3, <1>11, <1>12, PointerMoved
<1> HIDE DEF d4
<1>14. d4.reg[Sp] = Pointing(OfStack, down) /\ down \in Int
  BY <1>1, <1>12, <1>13 DEF Points, Kept
<1>15. Fits(adjust) /\ Ready(n) /\ Kept(d4, n, {X(16), Sp}) /\ n.reg[Sp] = Pointing(OfStack, down + v)
  BY <1>0, <1>6, <1>13, <1>14, StackAdjusted
<1> HIDE DEF adjust, low, high
<1>16. Ran(m, ArmAssembled(ArmPrologue)) = n
  <2>1. Fits(c \o adjust)
    BY <1>4, <1>15, FitsBoth
  <2>2. ArmAssembled(c \o adjust) = c \o adjust
    BY <2>1, FitsAssembled
  <2>3. IsCode(adjust)
    BY <1>15 DEF Fits
  <2>4. Ran(m, c \o adjust) = n
    BY <1>7, <2>3, RanBoth
  <2> QED BY <1>2, <2>2, <2>4
<1> HIDE DEF n
<1>17. Spares(m, d1, {Sp}, {}) /\ Spares(d1, d2, {}, {low}) /\ Spares(d2, d3, {}, {high}) /\ Spares(d3, d4, {Fp}, {})
       /\ Spares(d4, n, {X(16), Sp}, {})
  BY <1>8, <1>9, <1>11, <1>13, <1>15, KeptSpares, WroteSpares
<1>18. Held(d2, low) = m.reg[Fp] /\ Held(d3, high) = m.reg[Lr]
  <2>1. d1.reg[Fp] = m.reg[Fp] /\ d2.reg[Lr] = m.reg[Lr]
    BY <1>1, <1>17 DEF Spares
  <2> QED BY <1>9, <1>11, <2>1, WroteSpares
<1>19. Held(n, low) = m.reg[Fp] /\ Held(n, high) = m.reg[Lr]
  BY <1>3, <1>17, <1>18, SparedHeld
<1>20. Spares(m, n, Scratch \cup {Sp, Fp}, SavedAt)
  <2>1. Spares(m, d2, {Sp}, {low})
    BY <1>17, SparedTwice, SparedMore
  <2>2. Spares(m, d3, {Sp}, {low, high})
    BY <1>17, <2>1, SparedTwice, SparedMore
  <2>3. Spares(m, d4, {Sp, Fp}, {low, high})
    BY <1>17, <2>2, SparedTwice, SparedMore
  <2>4. Spares(m, n, {Sp, Fp, X(16)}, {low, high})
    BY <1>17, <2>3, SparedTwice, SparedMore
  <2>5. SavedAt = {low, high}
    BY DEF SavedAt, low, high, down, up
  <2>6. X(16) \in Scratch
    BY ArmScratch
  <2> QED BY <2>4, <2>5, <2>6, SparedMore
<1>21. Entered(m, n)
  BY <1>5, <1>15, <1>19, <1>20 DEF Entered, low, high, down, up
<1> QED BY <1>16, <1>21

\* What the stack pointer is moved by, on x86-64.
LEMMA StackMoved ==
  ASSUME Framed, ~Arm, NEW m, Ready(m), NEW x, Points(m, Sp, OfStack, x), NEW mnemonic, NEW v, NEW z, Sums(x, v, z),
         \/ mnemonic = "add" /\ v = Bytes
         \/ mnemonic = "sub" /\ v = -Bytes
  PROVE  LET n == Ran(m, Stack(mnemonic))
         IN  IsCode(Stack(mnemonic)) /\ Ready(n) /\ Kept(m, n, {Sp}) /\ Points(n, Sp, OfStack, z)
<1> DEFINE n == Ran(m, Stack(mnemonic))
<1>0. Bytes = FrameBytes /\ Bytes \in Nat /\ Sp \in AllRegisters
  BY FrameFits, SpecialRegisters DEF Bytes, Framed
<1>1. CASE FrameBytes = 0
  <2>1. Stack(mnemonic) = <<>> /\ v = 0
    BY <1>0, <1>1 DEF Stack
  <2>2. n = m /\ IsCode(Stack(mnemonic))
    BY <2>1, RanNothing, FitsNone DEF Fits
  <2>3. z = x
    BY <2>1 DEF Sums
  <2> QED BY <2>2, <2>3 DEF Kept
<1>2. CASE FrameBytes # 0
  <2> DEFINE word == Word(FrameBytes)
             src == Immediate(word)
             dst == Register(Sp, 8)
             i == ReadText(BinaryText(mnemonic, 8, src, dst))
  <2>1. Stack(mnemonic) = <<i>>
    BY <1>2 DEF Stack
  <2>2. src.word = word /\ dst.reg = Sp
    BY DEF Immediate, Register
  <2>3. ValueOf(word) = FrameBytes
    BY <1>0 DEF ValueOf, Word
  <2> HIDE DEF word, src, dst
  <2>4. i = Added(Sp, Sp, v)
    <3>1. CASE mnemonic = "add"
      <4>1. i = Added(dst.reg, dst.reg, 1 * ValueOf(src.word))
        BY <3>1, SumRead
      <4>2. v = 1 * ValueOf(src.word)
        BY <1>0, <2>2, <2>3, <3>1
      <4> QED BY <2>2, <4>1, <4>2
    <3>2. CASE mnemonic = "sub"
      <4>1. i = Added(dst.reg, dst.reg, (-1) * ValueOf(src.word))
        BY <3>2, SumRead
      <4>2. v = (-1) * ValueOf(src.word)
        BY <1>0, <2>2, <2>3, <3>2
      <4> QED BY <2>2, <4>1, <4>2
    <3> QED BY <3>1, <3>2
  <2> HIDE DEF i
  <2>5. IsCode(<<i>>) /\ n = Do(m, i)
    BY <2>1, RanOne
  <2>6. Ready(n) /\ Kept(m, n, {Sp}) /\ Points(n, Sp, OfStack, z)
    <3> HIDE DEF n
    <3> QED BY <1>0, <2>4, <2>5, PointerMoved
  <2> QED BY <2>1, <2>5, <2>6
<1> QED BY <1>1, <1>2

\* The x86-64 prologue enters the body: frame made, the caller's registers saved.
LEMMA X86Enters ==
  ASSUME Framed, ~Arm, NEW m, Ready(m), Points(m, Sp, OfStack, -8)
  PROVE  Entered(m, Ran(m, X86Prologue))
<1> DEFINE o == 0
           top == -8
           down == -16
           i1 == Added(Sp, Sp, top)
           i2 == StoreWord(Fp, 8, Sp, o)
           i3 == ReadText(BinaryText("mov", 8, Register(Sp, 8), Register(Fp, 8)))
           c == <<i1, i2, i3>>
           d1 == Do(m, i1)
           d2 == Do(d1, i2)
           d3 == Do(d2, i3)
           adjust == Stack("sub")
           n == Ran(d3, adjust)
           v == -Bytes
           low == <<OfStack, down>>
<1>0. Known
  BY DEF Framed
<1>1. Sp \in AllRegisters /\ Fp \in AllRegisters /\ Sp # Fp /\ ~IsXmm(Sp) /\ ~IsXmm(Fp)
  BY <1>0, SpecialRegisters DEF Sp, Fp, IsXmm
<1>2. X86Prologue = c \o adjust
  BY DEF X86Prologue
<1>3. Sums(top, top, down) /\ Reaches(down, o, down) /\ SavedAt = {low}
  BY DEF Sums, Reaches, SavedAt
<1>4. Sums(down, v, BodySp)
  <2>1. Bytes \in Nat /\ BodySp \in Int
    BY FrameFits
  <2>2. BodySp = down + v
    BY <2>1 DEF BodySp
  <2> QED BY <2>1, <2>2 DEF Sums
<1>5. i3 = Copy(Fp, Sp, 8)
  BY <1>1, CopyRead DEF Moves
<1>6. IsCode(c) /\ Ran(m, c) = d3
  BY RanThree
<1> HIDE DEF o, top, down, c, v
<1>7. Ready(d1) /\ Kept(m, d1, {Sp}) /\ Points(d1, Sp, OfStack, down)
  BY <1>1, <1>3, PointerMoved DEF top
<1> HIDE DEF d1
<1>8. Ready(d2) /\ Wrote(d1, d2, low, d1.reg[Fp], {})
  BY <1>1, <1>3, <1>7, WholeStored
<1> HIDE DEF d2, i3
<1>9. Points(d2, Sp, OfStack, down)
  BY <1>1, <1>7, <1>8 DEF Points, Wrote
<1>10. Ready(d3) /\ Kept(d2, d3, {Fp})
  BY <1>1, <1>5, <1>8, DoCopy
<1> HIDE DEF d3
<1>11. Points(d3, Sp, OfStack, down)
  BY <1>1, <1>9, <1>10 DEF Points, Kept
<1>12. IsCode(adjust) /\ Ready(n) /\ Kept(d3, n, {Sp}) /\ Points(n, Sp, OfStack, BodySp)
  BY <1>4, <1>10, <1>11, StackMoved DEF v
<1> HIDE DEF adjust, low
<1>13. Ran(m, X86Prologue) = n
  BY <1>2, <1>6, <1>12, RanBoth
<1> HIDE DEF n
<1>14. Spares(m, d1, {Sp}, {}) /\ Spares(d1, d2, {}, {low}) /\ Spares(d2, d3, {Fp}, {}) /\ Spares(d3, n, {Sp}, {})
  BY <1>7, <1>8, <1>10, <1>12, KeptSpares, WroteSpares
<1>15. Held(d2, low) = m.reg[Fp]
  <2>1. d1.reg[Fp] = m.reg[Fp]
    BY <1>1, <1>14 DEF Spares
  <2> QED BY <1>8, <2>1, WroteSpares
<1>16. Held(n, low) = m.reg[Fp]
  BY <1>14, <1>15, SparedHeld
<1>17. Spares(m, n, Scratch \cup {Sp, Fp}, SavedAt)
  <2>1. Spares(m, d2, {Sp}, {low})
    BY <1>14, SparedTwice, SparedMore
  <2>2. Spares(m, d3, {Sp, Fp}, {low})
    BY <1>14, <2>1, SparedTwice, SparedMore
  <2>3. Spares(m, n, {Sp, Fp}, {low})
    BY <1>14, <2>2, SparedTwice, SparedMore
  <2> QED BY <1>3, <2>3, SparedMore
<1>18. Entered(m, n)
  BY <1>12, <1>16, <1>17 DEF Entered, low, down, Points
<1> QED BY <1>13, <1>18

-------------------------------------------------------------------------------
(* The epilogue. *)

Left(m, n) ==
  /\ Ready(n) /\ Kept(m, n, Scratch \cup {Sp, Fp} \cup (IF Arm THEN {Lr} ELSE {}))
  /\ n.reg[Sp] = Pointing(OfStack, EntrySp)
  /\ n.reg[Fp] = Held(m, <<OfStack, -16>>)
  /\ Arm => n.reg[Lr] = Held(m, <<OfStack, -8>>)

\* The AArch64 epilogue leaves: the caller's registers given back.
LEMMA ArmLeaves ==
  ASSUME Framed, Arm, NEW m, Ready(m), m.reg[Sp] = Pointing(OfStack, BodySp)
  PROVE  Left(m, Ran(m, ArmAssembled(ArmEpilogue)))
<1> DEFINE o == 0
           down == -16
           up == -8
           eight == 8
           sixteen == 16
           i1 == LoadWord(Fp, eight, Sp, o)
           i2 == LoadWord(Lr, eight, Sp, eight)
           i3 == Added(Sp, Sp, sixteen)
           c == <<i1, i2, i3>>
           adjust == AdjustStack(1)
           v == 1 * ArmFrameBytes
           d0 == Ran(m, adjust)
           d1 == Do(d0, i1)
           d2 == Do(d1, i2)
           n == Do(d2, i3)
           low == <<OfStack, down>>
           high == <<OfStack, up>>
<1>0. Known /\ frame.slots \in Nat
  BY DEF Framed
<1>1. /\ Sp \in AllRegisters /\ Fp \in AllRegisters /\ Lr \in AllRegisters /\ Sp # Fp /\ Sp # Lr /\ Fp # Lr
      /\ X(16) # Sp /\ X(16) # Fp /\ X(16) # Lr
  BY ArmRegisters DEF Sp, Fp, Lr, X
<1>2. ArmEpilogue = adjust \o c
  BY DEF ArmEpilogue
<1>3. Reaches(down, o, down) /\ Reaches(down, eight, up) /\ Sums(down, sixteen, o) /\ EntrySp = o
  BY DEF Reaches, Sums, EntrySp
<1>4. Fits(c)
  <2>1. Small(sixteen)
    BY DEF Small
  <2>2. o \in {0, 8} /\ eight \in {0, 8}
    OBVIOUS
  <2> HIDE DEF sixteen, o
  <2>3. Encoded(i3) = i3
    BY <2>1, SmallFits
  <2>4. Encoded(i1) = i1 /\ Encoded(i2) = i2
    BY <2>2, WholeFits
  <2> HIDE DEF i1, i2, i3
  <2> QED BY <2>3, <2>4, FitsThree
<1>5. ArmFrameBytes = Bytes /\ Bytes \in Nat /\ BodySp + v = down /\ BodySp \in Int
  BY FrameFits DEF Bytes, BodySp
<1>6. Signed(1, ArmFrameBytes, v)
  BY <1>5 DEF Signed
<1>7. IsCode(c) /\ Ran(d0, c) = n
  BY RanThree
<1> HIDE DEF o, down, up, eight, sixteen, c
<1>8. Fits(adjust) /\ Ready(d0) /\ Kept(m, d0, {X(16), Sp}) /\ d0.reg[Sp] = Pointing(OfStack, BodySp + v)
  BY <1>0, <1>5, <1>6, StackAdjusted
<1> HIDE DEF adjust, d0, v
<1>9. Points(d0, Sp, OfStack, down)
  BY <1>5, <1>8 DEF Points, Regions, down
<1>10. Ready(d1) /\ Kept(d0, d1, {Fp}) /\ Took(d1, Fp, Held(d0, low))
  BY <1>1, <1>3, <1>8, <1>9, WholeTaken DEF eight
<1> HIDE DEF d1, i1
<1>11. Points(d1, Sp, OfStack, down)
  BY <1>1, <1>9, <1>10 DEF Points, Kept
<1>12. Ready(d2) /\ Kept(d1, d2, {Lr}) /\ Took(d2, Lr, Held(d1, high))
  <2>1. \A x : Points(d1, Sp, OfStack, x) /\ Reaches(x, eight, up) =>
          LET d == Do(d1, LoadWord(Lr, 8, Sp, eight)) IN Ready(d) /\ Kept(d1, d, {Lr}) /\ Took(d, Lr, Held(d1, high))
    BY <1>1, <1>10, WholeTaken
  <2> QED BY <1>3, <1>11, <2>1 DEF eight
<1> HIDE DEF d2, i2
<1>13. Points(d2, Sp, OfStack, down)
  BY <1>1, <1>11, <1>12 DEF Points, Kept
<1>14. Ready(n) /\ Kept(d2, n, {Sp}) /\ Points(n, Sp, OfStack, o)
  BY <1>1, <1>3, <1>12, <1>13, PointerMoved
<1> HIDE DEF low, high
<1>15. Ran(m, ArmAssembled(ArmEpilogue)) = n
  <2>1. ArmAssembled(adjust \o c) = adjust \o c
    BY <1>4, <1>8, FitsBoth, FitsAssembled
  <2>2. IsCode(adjust) /\ Ran(m, adjust) = d0
    BY <1>8 DEF Fits, d0
  <2> QED BY <1>2, <1>7, <2>1, <2>2, RanBoth
<1> HIDE DEF n
<1>16. Held(d0, low) = Held(m, low) /\ Held(d1, high) = Held(m, high)
  BY <1>8, <1>10 DEF Kept, Held
<1>17. n.reg[Fp] = Held(m, low) /\ n.reg[Lr] = Held(m, high)
  BY <1>1, <1>10, <1>12, <1>14, <1>16 DEF Kept, Took
<1>18. X(16) \in Scratch
  BY ArmScratch
<1>19. Kept(m, n, Scratch \cup {Sp, Fp} \cup {Lr})
  BY <1>8, <1>10, <1>12, <1>14, <1>18 DEF Kept
<1>20. n.reg[Sp] = Pointing(OfStack, EntrySp)
  BY <1>3, <1>14 DEF Points
<1>21. Left(m, n)
  BY <1>14, <1>17, <1>19, <1>20 DEF Left, low, high, down, up
<1> QED BY <1>15, <1>21

\* The x86-64 epilogue leaves: the caller's registers given back.
LEMMA X86Leaves ==
  ASSUME Framed, ~Arm, NEW m, Ready(m), m.reg[Sp] = Pointing(OfStack, BodySp)
  PROVE  Left(m, Ran(m, X86Epilogue))
<1> DEFINE o == 0
           up == -8
           down == -16
           eight == 8
           i1 == LoadWord(Fp, 8, Sp, o)
           i2 == Added(Sp, Sp, eight)
           c == <<i1, i2>>
           adjust == Stack("add")
           d0 == Ran(m, adjust)
           d1 == Do(d0, i1)
           n == Do(d1, i2)
           v == Bytes
           low == <<OfStack, down>>
<1>0. Known
  BY DEF Framed
<1>1. Sp \in AllRegisters /\ Fp \in AllRegisters /\ Sp # Fp
  BY <1>0, SpecialRegisters
<1>2. X86Epilogue = adjust \o c
  BY DEF X86Epilogue
<1>3. Reaches(down, o, down) /\ Sums(down, eight, up) /\ EntrySp = up
  BY DEF Sums, Reaches, EntrySp
<1>4. Sums(BodySp, v, down) /\ Points(m, Sp, OfStack, BodySp)
  BY FrameFits DEF Sums, BodySp, Points, Regions
<1>5. IsCode(c) /\ Ran(d0, c) = n
  <2> DEFINE one == <<i1>>
  <2>1. c = Append(one, i2)
    OBVIOUS
  <2>2. IsCode(one) /\ Ran(d0, one) = d1
    BY RanOne
  <2> HIDE DEF one, c, d1
  <2> QED BY <2>1, <2>2, OneMore
<1> HIDE DEF o, up, down, eight, c, v
<1>6. IsCode(adjust) /\ Ready(d0) /\ Kept(m, d0, {Sp}) /\ Points(d0, Sp, OfStack, down)
  BY <1>4, StackMoved DEF v
<1> HIDE DEF adjust, d0
<1>7. Ready(d1) /\ Kept(d0, d1, {Fp}) /\ Took(d1, Fp, Held(d0, low))
  BY <1>1, <1>3, <1>6, WholeTaken
<1> HIDE DEF d1, i1
<1>8. Points(d1, Sp, OfStack, down)
  BY <1>1, <1>6, <1>7 DEF Points, Kept
<1>9. Ready(n) /\ Kept(d1, n, {Sp}) /\ Points(n, Sp, OfStack, up)
  BY <1>1, <1>3, <1>7, <1>8, PointerMoved
<1> HIDE DEF low
<1>10. Ran(m, X86Epilogue) = n
  <2>1. Ran(m, adjust) = d0
    BY DEF d0
  <2> QED BY <1>2, <1>5, <1>6, <2>1, RanBoth
<1> HIDE DEF n
<1>11. Held(d0, low) = Held(m, low)
  BY <1>6 DEF Kept, Held
<1>12. n.reg[Fp] = Held(m, low)
  BY <1>1, <1>7, <1>9, <1>11 DEF Kept, Took
<1>13. Kept(m, n, Scratch \cup {Sp, Fp})
  BY <1>6, <1>7, <1>9 DEF Kept
<1>14. n.reg[Sp] = Pointing(OfStack, EntrySp)
  BY <1>3, <1>9 DEF Points
<1>15. Left(m, n)
  BY <1>9, <1>12, <1>13, <1>14 DEF Left, low, down
<1> QED BY <1>10, <1>15

-------------------------------------------------------------------------------
(* As the function is entered. *)

Entry0 == [reg |-> [r \in AllRegisters |-> EntryRegister(r)], mem |-> Memory0, skip |-> 0, fine |-> TRUE]

\* The same word wherever the slots are.
Fixed(kind, word) == Meant(kind, word) /\ word[1] # OfSlot /\ \A s, u : Actual(s, word) \in Words /\ Actual(s, word) = Actual(u, word)

\* A number means the same wherever the frame is.
LEMMA FixedNumber ==
  ASSUME NEW kind \in Kinds, NEW a \in Nat, NEW b \in Nat, NEW c \in Nat, NEW d \in Nat
  PROVE  Fixed(kind, <<a, b, c, d>>) /\ \A s : Actual(s, <<a, b, c, d>>) = <<a, b, c, d>>
<1> DEFINE w == <<a, b, c, d>>
<1>1. w \in Words /\ w[1] \in Nat
  BY DEF Words
<1> HIDE DEF w
<1>2. w[1] # OfSlot /\ w[1] # OfCell /\ w[1] # OfBlock
  BY <1>1 DEF OfSlot, OfCell, OfBlock
<1>3. \A s : Actual(s, w) = w
  BY <1>2 DEF Actual
<1>4. Fixed(kind, w)
  BY <1>1, <1>2, <1>3 DEF Fixed, Meant
<1> QED BY <1>3, <1>4 DEF w

\* So do the addresses of the caller's cell and of the overflow block.
LEMMA FixedAddress ==
  /\ Fixed("Wide", Pointing(OfCell, 0)) /\ \A s : Actual(s, Pointing(OfCell, 0)) = Pointing(OfStack, 160)
  /\ Fixed("Wide", Pointing(OfBlock, 0)) /\ \A s : Actual(s, Pointing(OfBlock, 0)) = Pointing(OfStack, 320)
<1> DEFINE c == Pointing(OfCell, 0)
           b == Pointing(OfBlock, 0)
<1>1. c \in Words /\ b \in Words /\ Pointing(OfStack, 160) \in Words /\ Pointing(OfStack, 320) \in Words
  BY WordMade DEF Pointing, OfCell, OfBlock, OfStack
<1>2. c[1] = OfCell /\ b[1] = OfBlock
  BY DEF Pointing
<1> HIDE DEF c, b
<1>3. \A s : Actual(s, c) = Pointing(OfStack, 160)
  BY <1>2 DEF Actual, OfSlot, OfCell, OfBlock, CellAt
<1>4. \A s : Actual(s, b) = Pointing(OfStack, 320)
  BY <1>2 DEF Actual, OfSlot, OfCell, OfBlock, BlockAt
<1>5. c[1] # OfSlot /\ b[1] # OfSlot /\ "Wide" \in Kinds
  BY <1>2 DEF OfSlot, OfCell, OfBlock, Kinds
<1>6. Fixed("Wide", c)
  BY <1>1, <1>3, <1>5 DEF Fixed, Meant
<1>7. Fixed("Wide", b)
  BY <1>1, <1>4, <1>5 DEF Fixed, Meant
<1> QED BY <1>3, <1>4, <1>6, <1>7 DEF c, b

\* So does every argument.
LEMMA ArgumentFixed ==
  ASSUME NEW q \in Parameters
  PROVE  LET v == ArgumentValue(q[1], q[2]) IN Fixed(v.kind, v.word)
<1> DEFINE v == ArgumentValue(q[1], q[2])
<1>1. q[2] \in Nat
  BY ParametersAre
<1>2. CASE q[1] = "real"
  <2>1. v = Holding("Real", <<81, 82, 83, 84 + q[2]>>) /\ 84 + q[2] \in Nat
    BY <1>1, <1>2 DEF ArgumentValue
  <2>2. v.kind = "Real" /\ v.word = <<81, 82, 83, 84 + q[2]>>
    BY <2>1 DEF Holding
  <2>3. Fixed("Real", <<81, 82, 83, 84 + q[2]>>)
    BY <2>1, FixedNumber DEF Kinds
  <2> QED BY <2>2, <2>3
<1>3. CASE q[1] # "real" /\ q[2] = 0
  <2>1. v = Holding("Wide", Pointing(OfCell, 0))
    BY <1>3 DEF ArgumentValue
  <2>2. v.kind = "Wide" /\ v.word = Pointing(OfCell, 0)
    BY <2>1 DEF Holding
  <2> QED BY <2>2, FixedAddress
<1>4. CASE q[1] # "real" /\ q[2] # 0
  <2>1. v = Holding("Int", <<91, 92, 93, 94 + q[2]>>) /\ 94 + q[2] \in Nat
    BY <1>1, <1>4 DEF ArgumentValue
  <2>2. v.kind = "Int" /\ v.word = <<91, 92, 93, 94 + q[2]>>
    BY <2>1 DEF Holding
  <2>3. Fixed("Int", <<91, 92, 93, 94 + q[2]>>)
    BY <2>1, FixedNumber DEF Kinds
  <2> QED BY <2>2, <2>3
<1> QED BY <1>2, <1>3, <1>4

\* The registers at entry hold the arguments, the stack pointer and the overflow block.
LEMMA EntryRegisters ==
  ASSUME Known
  PROVE  /\ \A r : EntryRegister(r) \in Words
         /\ EntryRegister(Sp) = Pointing(OfStack, EntrySp)
         /\ EntryRegister(BlockIn) = Pointing(OfStack, 320)
         /\ \A q \in Parameters : EntryRegister(ArgumentIn(q[1], q[2])) = Actual(SlotBase, ArgumentValue(q[1], q[2]).word)
<1>1. BlockIn # Sp /\ EntrySp \in Int
  BY SpecialRegisters DEF Used, EntrySp
<1>2. EntryRegister(Sp) = Pointing(OfStack, EntrySp)
  BY DEF EntryRegister
<1>3. EntryRegister(BlockIn) = Pointing(OfStack, 320)
  BY <1>1 DEF EntryRegister, BlockAt
<1>4. ASSUME NEW r PROVE EntryRegister(r) \in Words
  <2>1. CASE r = Sp
    BY <1>1, <1>2, <2>1, WordMade DEF Pointing, OfStack
  <2>2. CASE r = BlockIn
    BY <1>3, <2>2, WordMade DEF Pointing, OfStack
  <2>3. CASE r # Sp /\ r # BlockIn /\ \E q \in Parameters : ArgumentIn(q[1], q[2]) = r
    <3> DEFINE q == CHOOSE x \in Parameters : ArgumentIn(x[1], x[2]) = r
    <3>1. q \in Parameters
      BY <2>3
    <3>2. EntryRegister(r) = Actual(EntrySp, ArgumentValue(q[1], q[2]).word)
      BY <2>3 DEF EntryRegister
    <3> HIDE DEF q
    <3>3. Fixed(ArgumentValue(q[1], q[2]).kind, ArgumentValue(q[1], q[2]).word)
      BY <3>1, ArgumentFixed
    <3> QED BY <3>2, <3>3 DEF Fixed
  <2>4. CASE r # Sp /\ r # BlockIn /\ ~\E q \in Parameters : ArgumentIn(q[1], q[2]) = r
    <3>1. EntryRegister(r) = Pointing(OfNothing, IF r = Lr THEN 1 ELSE 0)
      BY <2>4 DEF EntryRegister
    <3> QED BY <3>1, WordMade DEF Pointing, OfNothing
  <2> QED BY <2>1, <2>2, <2>3, <2>4
<1>5. ASSUME NEW q \in Parameters
      PROVE  EntryRegister(ArgumentIn(q[1], q[2])) = Actual(SlotBase, ArgumentValue(q[1], q[2]).word)
  <2> DEFINE r == ArgumentIn(q[1], q[2])
             x == CHOOSE y \in Parameters : ArgumentIn(y[1], y[2]) = r
  <2>1. r # Sp /\ r # BlockIn /\ \A y \in Parameters : r = ArgumentIn(y[1], y[2]) => q = y
    BY SpecialRegisters, ArgumentsIn DEF Used
  <2>2. x \in Parameters /\ ArgumentIn(x[1], x[2]) = r
    OBVIOUS
  <2>3. EntryRegister(r) = Actual(EntrySp, ArgumentValue(x[1], x[2]).word)
    BY <2>1 DEF EntryRegister
  <2> HIDE DEF x, r
  <2>4. x = q
    BY <2>1, <2>2
  <2>5. Fixed(ArgumentValue(q[1], q[2]).kind, ArgumentValue(q[1], q[2]).word)
    BY ArgumentFixed
  <2> QED BY <2>3, <2>4, <2>5 DEF Fixed, r
<1> QED BY <1>2, <1>3, <1>4, <1>5

\* Memory at entry holds the cell, the globals and the overflow arguments.
LEMMA MemoryIs ==
  /\ \A at \in DOMAIN Memory0 : Memory0[at] \in Words
  /\ CellAt \in DOMAIN Memory0 /\ Memory0[CellAt] = CellValue.word
  /\ \A g \in GlobalSlots : <<OfGlobals, 8 * g>> \in DOMAIN Memory0 /\ Memory0[<<OfGlobals, 8 * g>>] = GlobalValue(g).word
  /\ \A i \in 0..1 : <<OfStack, 320 + 8 * i>> \in DOMAIN Memory0 /\ Memory0[<<OfStack, 320 + 8 * i>>] = BlockValue(i).word
<1> DEFINE gs == {<<OfGlobals, 8 * g>> : g \in GlobalSlots}
           bs == {<<OfStack, BlockAt + 8 * i>> : i \in 0..1}
<1>1. DOMAIN Memory0 = {CellAt} \cup gs \cup bs
  BY DEF Memory0
<1>2. \A at \in DOMAIN Memory0 : Memory0[at] = IF at = CellAt THEN CellValue.word
                                              ELSE IF at[1] = OfGlobals THEN GlobalValue(at[2] \div 8).word
                                              ELSE BlockValue((at[2] - BlockAt) \div 8).word
  BY DEF Memory0
<1>3. CellAt \in DOMAIN Memory0 /\ Memory0[CellAt] = CellValue.word
  BY <1>1, <1>2
<1>4. ASSUME NEW g \in GlobalSlots
      PROVE  <<OfGlobals, 8 * g>> \in DOMAIN Memory0 /\ Memory0[<<OfGlobals, 8 * g>>] = GlobalValue(g).word
  <2> DEFINE at == <<OfGlobals, 8 * g>>
  <2>1. at \in DOMAIN Memory0 /\ at[1] = OfGlobals /\ at[2] = 8 * g /\ g \in Nat /\ at # CellAt
    BY <1>1 DEF GlobalSlots, CellAt, OfGlobals, OfStack
  <2> HIDE DEF at
  <2>2. at[2] \div 8 = g
    BY <2>1
  <2>3. Memory0[at] = GlobalValue(g).word
    BY <1>2, <2>1, <2>2
  <2> QED BY <2>1, <2>3 DEF at
<1>5. ASSUME NEW i \in 0..1
      PROVE  <<OfStack, 320 + 8 * i>> \in DOMAIN Memory0 /\ Memory0[<<OfStack, 320 + 8 * i>>] = BlockValue(i).word
  <2> DEFINE at == <<OfStack, 320 + 8 * i>>
  <2>1. at \in DOMAIN Memory0
    BY <1>1 DEF BlockAt
  <2>2. at[1] # OfGlobals /\ at[2] = 320 + 8 * i /\ at # CellAt
    BY DEF CellAt, OfGlobals, OfStack
  <2> HIDE DEF at
  <2>3. (at[2] - BlockAt) \div 8 = i
    BY <2>2 DEF BlockAt
  <2>4. Memory0[at] = BlockValue(i).word
    BY <1>2, <2>1, <2>2, <2>3
  <2> QED BY <2>1, <2>4 DEF at
<1>6. CellValue.word \in Words /\ (\A g : GlobalValue(g).word \in Words \/ g \notin Nat) /\ \A i \in 0..1 : BlockValue(i).word \in Words
  BY DEF CellValue, GlobalValue, BlockValue, Holding, Words
<1>7. ASSUME NEW at \in DOMAIN Memory0 PROVE Memory0[at] \in Words
  <2>1. CASE at = CellAt
    BY <1>3, <1>6, <2>1
  <2>2. CASE at \in gs
    <3>1. PICK g \in GlobalSlots : at = <<OfGlobals, 8 * g>>
      BY <2>2
    <3>2. g \in Nat
      BY DEF GlobalSlots
    <3> QED BY <1>4, <1>6, <3>1, <3>2
  <2>3. CASE at \in bs
    <3>1. PICK i \in 0..1 : at = <<OfStack, 320 + 8 * i>>
      BY <2>3 DEF BlockAt
    <3> QED BY <1>5, <1>6, <3>1
  <2> QED BY <1>1, <2>1, <2>2, <2>3
<1> QED BY <1>3, <1>4, <1>5, <1>7

\* The processor is ready at entry.
LEMMA EntryReady ==
  ASSUME Known
  PROVE  Ready(Entry0) /\ Points(Entry0, Sp, OfStack, EntrySp) /\ \A r \in AllRegisters : Entry0.reg[r] = EntryRegister(r)
<1>1. \A r \in AllRegisters : Entry0.reg[r] = EntryRegister(r)
  BY DEF Entry0
<1>2. Entry0.reg \in [AllRegisters -> Words]
  BY EntryRegisters DEF Entry0
<1>3. Entry0.mem = Memory0 /\ Memory0 \in [DOMAIN Memory0 -> Words]
  <2>1. Memory0 = [at \in DOMAIN Memory0 |-> Memory0[at]]
    BY DEF Memory0
  <2> QED BY <2>1, MemoryIs DEF Entry0
<1>4. Ready(Entry0)
  BY <1>2, <1>3 DEF Ready, Entry0
<1>5. Points(Entry0, Sp, OfStack, EntrySp)
  BY <1>1, EntryRegisters, SpecialRegisters DEF Points, EntrySp, Regions
<1> QED BY <1>1, <1>4, <1>5

\* What is promised at entry is so.
SoAtEntry(at, v) == at \in AllPlaces /\ Fixed(v.kind, v.word) /\ Found(Entry0, SlotBase, at) = Actual(SlotBase, v.word)

\* What is promised at entry.
LEMMA AtEntryIs ==
  /\ DOMAIN AtEntry = ArgumentPlaces \cup GlobalPlaces \cup BlockPlaces \cup {Cell, Overflow}
  /\ \A at \in DOMAIN AtEntry : /\ at[1] = "argument" => AtEntry[at] = ArgumentValue(at[2], at[3])
                                /\ at[1] = "global" => AtEntry[at] = GlobalValue(at[2])
                                /\ at[1] = "block" => AtEntry[at] = BlockValue(at[2])
                                /\ at[1] = "cell" => AtEntry[at] = CellValue
                                /\ at[1] = "overflow" => AtEntry[at] = Holding("Wide", Pointing(OfBlock, 0))
  BY DEF AtEntry

\* A place is found at entry as memory has it.
LEMMA HeldAtEntry ==
  ASSUME NEW at, ~InRegister(at), NEW c, CellOf(SlotBase, at) = c, c \in DOMAIN Memory0, NEW v, Memory0[c] = v
  PROVE  Found(Entry0, SlotBase, at) = v
<1>1. Found(Entry0, SlotBase, at) = Held(Entry0, c)
  BY DEF Found, InRegister
<1>2. Held(Entry0, c) = v
  BY DEF Held, Entry0
<1> QED BY <1>1, <1>2

\* Each promise of the entry holds there.
LEMMA EntryHolds ==
  ASSUME Framed, NEW at \in DOMAIN AtEntry
  PROVE  SoAtEntry(at, AtEntry[at])
<1>0. Known
  BY DEF Framed
<1>1. at \in ArgumentPlaces \cup GlobalPlaces \cup BlockPlaces \cup {Cell, Overflow}
  BY AtEntryIs
<1>2. at \in AllPlaces
  BY <1>1 DEF AllPlaces
<1>3. CASE at \in ArgumentPlaces
  <2>1. PICK q \in Parameters : at = ArgumentPlace(q[1], q[2])
    BY <1>3 DEF ArgumentPlaces
  <2> DEFINE v == ArgumentValue(q[1], q[2])
  <2>2. at[1] = "argument" /\ at[2] = q[1] /\ at[3] = q[2]
    BY <2>1 DEF ArgumentPlace
  <2>3. AtEntry[at] = v
    BY <2>2, AtEntryIs
  <2>4. Fixed(v.kind, v.word)
    BY ArgumentFixed
  <2>5. ArgumentIn(q[1], q[2]) \in AllRegisters
    BY <1>0, ArgumentsIn DEF Used
  <2>6. Found(Entry0, SlotBase, at) = EntryRegister(ArgumentIn(q[1], q[2]))
    BY <1>0, <2>1, <2>5, FoundIn, EntryReady
  <2>7. EntryRegister(ArgumentIn(q[1], q[2])) = Actual(SlotBase, v.word)
    BY <1>0, EntryRegisters
  <2> HIDE DEF v
  <2> QED BY <1>2, <2>3, <2>4, <2>6, <2>7 DEF SoAtEntry
<1>4. CASE at \in GlobalPlaces
  <2>1. PICK g \in GlobalSlots : at = GlobalPlace(g)
    BY <1>4 DEF GlobalPlaces
  <2> DEFINE v == GlobalValue(g)
             c == <<OfGlobals, 8 * g>>
  <2>2. at[1] = "global" /\ at[2] = g /\ ~InRegister(at)
    BY <2>1 DEF GlobalPlace, InRegister
  <2>3. AtEntry[at] = v
    BY <2>2, AtEntryIs
  <2>4. Fixed(v.kind, v.word) /\ Actual(SlotBase, v.word) = v.word
    <3> DEFINE k == 74 + g
               kind == IF g = 0 THEN "Int" ELSE "Real"
    <3>1. v = Holding(kind, <<71, 72, 73, k>>) /\ k \in Nat /\ kind \in Kinds
      BY DEF GlobalValue, GlobalSlots, Kinds
    <3> HIDE DEF k, kind
    <3>2. v.kind = kind /\ v.word = <<71, 72, 73, k>>
      BY <3>1 DEF Holding
    <3>3. Fixed(kind, <<71, 72, 73, k>>) /\ Actual(SlotBase, <<71, 72, 73, k>>) = <<71, 72, 73, k>>
      BY <3>1, FixedNumber
    <3> HIDE DEF v
    <3> QED BY <3>2, <3>3
  <2>5. CellOf(SlotBase, at) = c
    BY <2>2 DEF CellOf
  <2>6. c \in DOMAIN Memory0 /\ Memory0[c] = v.word
    BY MemoryIs
  <2> HIDE DEF v, c
  <2>7. Found(Entry0, SlotBase, at) = v.word
    BY <2>2, <2>5, <2>6, HeldAtEntry
  <2> QED BY <1>2, <2>3, <2>4, <2>7 DEF SoAtEntry
<1>5. CASE at \in BlockPlaces
  <2>1. PICK i \in 0..1 : at = BlockPlace(i)
    BY <1>5 DEF BlockPlaces
  <2> DEFINE v == BlockValue(i)
             c == <<OfStack, 320 + 8 * i>>
  <2>2. at[1] = "block" /\ at[2] = i /\ ~InRegister(at)
    BY <2>1 DEF BlockPlace, InRegister
  <2>3. AtEntry[at] = v
    BY <2>2, AtEntryIs
  <2>4. Fixed(v.kind, v.word) /\ Actual(SlotBase, v.word) = v.word
    <3>1. v = Holding(IF i = 0 THEN "Real" ELSE "Int", <<61, 62, 63, 64 + i>>) /\ 64 + i \in Nat
      BY DEF BlockValue
    <3>2. v.kind = (IF i = 0 THEN "Real" ELSE "Int") /\ v.word = <<61, 62, 63, 64 + i>>
      BY <3>1 DEF Holding
    <3>3. v.kind \in Kinds
      BY <3>2 DEF Kinds
    <3> HIDE DEF v
    <3> QED BY <3>1, <3>2, <3>3, FixedNumber
  <2>5. CellOf(SlotBase, at) = c
    BY <2>2 DEF CellOf, BlockAt
  <2>6. c \in DOMAIN Memory0 /\ Memory0[c] = v.word
    BY MemoryIs
  <2> HIDE DEF v, c
  <2>7. Found(Entry0, SlotBase, at) = v.word
    BY <2>2, <2>5, <2>6, HeldAtEntry
  <2> QED BY <1>2, <2>3, <2>4, <2>7 DEF SoAtEntry
<1>6. CASE at = Cell
  <2> DEFINE v == CellValue
  <2>1. at[1] = "cell" /\ ~InRegister(at)
    BY <1>6 DEF Cell, InRegister
  <2>2. AtEntry[at] = v
    BY <2>1, AtEntryIs
  <2>3. Fixed(v.kind, v.word) /\ Actual(SlotBase, v.word) = v.word
    <3>1. v.kind = "Int" /\ v.word = <<51, 52, 53, 54>>
      BY DEF CellValue, Holding
    <3>2. v.kind \in Kinds
      BY <3>1 DEF Kinds
    <3> HIDE DEF v
    <3> QED BY <3>1, <3>2, FixedNumber
  <2>4. CellOf(SlotBase, at) = CellAt
    BY <2>1 DEF CellOf
  <2>5. Found(Entry0, SlotBase, at) = v.word
    BY <2>1, <2>4, MemoryIs, HeldAtEntry
  <2> QED BY <1>2, <2>2, <2>3, <2>5 DEF SoAtEntry
<1>7. CASE at = Overflow
  <2> DEFINE v == Holding("Wide", Pointing(OfBlock, 0))
  <2>1. at[1] = "overflow"
    BY <1>7 DEF Overflow
  <2>2. AtEntry[at] = v
    BY <2>1, AtEntryIs
  <2>3. v.kind = "Wide" /\ v.word = Pointing(OfBlock, 0)
    BY DEF Holding
  <2> HIDE DEF v
  <2>4. Found(Entry0, SlotBase, at) = EntryRegister(BlockIn)
    BY <1>0, <1>7, FoundIn, EntryReady, SpecialRegisters DEF Used
  <2> QED BY <1>0, <1>2, <2>2, <2>3, <2>4, FixedAddress, EntryRegisters DEF SoAtEntry
<1> QED BY <1>1, <1>3, <1>4, <1>5, <1>6, <1>7

\* The promises of the entry hold there.
LEMMA EntryGood == ASSUME Framed PROVE Good(Entry0, AtEntry)
<1>1. ASSUME NEW at \in DOMAIN AtEntry
      PROVE  /\ at \in AllPlaces /\ Meant(AtEntry[at].kind, AtEntry[at].word)
             /\ AsPromised(Entry0, at, AtEntry[at].kind, AtEntry[at].word)
  <2> DEFINE v == AtEntry[at]
  <2>1. SoAtEntry(at, v)
    BY EntryHolds
  <2> HIDE DEF v
  <2>2. at \in AllPlaces /\ Meant(v.kind, v.word) /\ AsPromised(Entry0, at, v.kind, v.word)
    BY <2>1, SameIsEquality DEF SoAtEntry, Fixed, AsPromised
  <2> QED BY <2>2 DEF v
<1> QED BY <1>1 DEF Good

\* The prologue makes the body of it.
LEMMA EnteredKeeps ==
  ASSUME Framed, NEW n, Entered(Entry0, n)
  PROVE  StillGood(n, AtEntry)
<1> DEFINE regs == Scratch \cup {Sp, Fp}
           none == {}
<1>0. /\ Known /\ Ready(n) /\ Spares(Entry0, n, regs, SavedAt)
      /\ n.reg[Sp] = Pointing(OfStack, BodySp) /\ Held(n, <<OfStack, -16>>) = Entry0.reg[Fp]
      /\ Arm => Held(n, <<OfStack, -8>>) = Entry0.reg[Lr]
  BY DEF Entered, Framed
<1>1. /\ Sp \in Preserved /\ Fp \in Preserved /\ Preserved \subseteq AllRegisters /\ Scratch \cap Preserved = {}
      /\ Arm => Lr \in AllRegisters
  BY <1>0, SpecialRegisters
<1>2. \A r \in AllRegisters : Entry0.reg[r] = EntryRegister(r)
  BY <1>0, EntryReady
<1>3. Misses(regs, SavedAt, none)
  <2> SUFFICES ASSUME NEW at \in AllPlaces
               PROVE  IF InRegister(at) THEN RegisterOf(at) \notin regs ELSE CellOf(SlotBase, at) \notin SavedAt
    BY DEF Misses
  <2>1. InRegister(at) => RegisterOf(at) \notin regs
    BY <1>0, <1>1, RegistersOf DEF Used
  <2>2. ~InRegister(at) => CellOf(SlotBase, at) \notin SavedAt
    BY CellsAre DEF CellIs, SavedAt
  <2> QED BY <2>1, <2>2
<1>4. Good(n, AtEntry)
  <2>1. Fewer(AtEntry, AtEntry, none)
    BY DEF Fewer
  <2> HIDE DEF regs, none
  <2> QED BY <1>0, <1>3, <2>1, EntryGood, GoodFewer
<1>5. \A r \in Preserved \ {Sp, Fp} : n.reg[r] = EntryRegister(r)
  BY <1>0, <1>1, <1>2 DEF Spares
<1>6. Caller(n)
  <2> SUFFICES ASSUME NEW at \in DOMAIN n.mem, at[1] = OfStack, at[2] >= EntrySp, at # CellAt
               PROVE  at \in DOMAIN Memory0 /\ n.mem[at] = Memory0[at]
    BY DEF Caller
  <2>1. at \notin SavedAt
    BY DEF SavedAt, EntrySp
  <2>2. SameCell(Entry0, n, at)
    BY <1>0, <2>1 DEF Spares
  <2>3. Entry0.mem = Memory0
    BY DEF Entry0
  <2> QED BY <2>2, <2>3 DEF SameCell
<1>7. Held(n, <<OfStack, -16>>) = EntryRegister(Fp) /\ (Arm => Held(n, <<OfStack, -8>>) = EntryRegister(Lr))
  BY <1>0, <1>1, <1>2
<1> QED BY <1>0, <1>4, <1>5, <1>6, <1>7 DEF StillGood, Body

\* The epilogue gives back what was taken, and answers.
Intact(n, p) ==
  /\ n.fine
  /\ \A r \in Preserved \cup (IF Arm THEN {Lr} ELSE {}) : n.reg[r] = EntryRegister(r)
  /\ Caller(n)
  /\ \A at \in DOMAIN p : at[1] \in {"accumulator", "cell", "global"} /\ p[at].word[1] # OfSlot =>
       Same(p[at].kind, Found(n, SlotsFrom(n), at), Actual(SlotsFrom(n), p[at].word))

\* After the epilogue the caller has its registers, and the cell and the globals their promises.
LEMMA LeftKeeps ==
  ASSUME Framed, NEW m, Body(m), NEW p, Good(m, p), NEW n, Left(m, n)
  PROVE  Intact(n, p)
<1> DEFINE link == IF Arm THEN {Lr} ELSE {}
           regs == Scratch \cup {Sp, Fp} \cup link
<1>0. Known /\ Ready(n) /\ Kept(m, n, regs) /\ n.reg[Sp] = Pointing(OfStack, EntrySp)
      /\ n.reg[Fp] = Held(m, <<OfStack, -16>>) /\ (Arm => n.reg[Lr] = Held(m, <<OfStack, -8>>))
  BY DEF Left, Framed
<1>1. /\ Sp \in Preserved /\ Fp \in Preserved /\ Preserved \subseteq AllRegisters /\ Scratch \cap Preserved = {}
      /\ Arm => Lr \notin Preserved
  BY <1>0, SpecialRegisters
<1>2. n.reg[Sp] = EntryRegister(Sp) /\ n.reg[Fp] = EntryRegister(Fp) /\ \A r \in link : n.reg[r] = EntryRegister(r)
  BY <1>0, EntryRegisters DEF Body
<1>3. \A r \in Preserved \ {Sp, Fp} : n.reg[r] = EntryRegister(r)
  BY <1>0, <1>1 DEF Body, Kept
<1>4. Caller(n)
  BY <1>0 DEF Kept, Body, Caller
<1>5. ASSUME NEW at \in DOMAIN p, at[1] \in {"accumulator", "cell", "global"}, p[at].word[1] # OfSlot
      PROVE  Same(p[at].kind, Found(n, SlotsFrom(n), at), Actual(SlotsFrom(n), p[at].word))
  <2> DEFINE s == SlotsFrom(n)
             v == p[at]
  <2>1. at \in AllPlaces /\ AsPromised(m, at, v.kind, v.word)
    BY DEF Good
  <2>2. Actual(s, v.word) = Actual(SlotBase, v.word)
    BY <1>5 DEF Actual
  <2>3. Found(n, s, at) = Found(m, SlotBase, at)
    <3>1. CASE at[1] = "accumulator"
      <4>1. at = AccumulatorPlace(at[2]) /\ at[2] \in Files
        BY <2>1, <3>1, PlacesAre DEF InRegister
      <4>2. AccumulatorIn(at[2]) \in AllRegisters /\ AccumulatorIn(at[2]) \notin regs
        <5>1. AccumulatorIn(at[2]) \in Used
          BY <1>0, <4>1, SpecialRegisters DEF Files
        <5>2. Arm => AccumulatorIn(at[2]) # Lr
          BY <1>0, <4>1, SpecialRegisters DEF Files
        <5> QED BY <1>1, <5>1, <5>2 DEF Used
      <4>3. n.reg[AccumulatorIn(at[2])] = m.reg[AccumulatorIn(at[2])]
        BY <1>0, <4>2 DEF Kept
      <4>4. Found(n, s, at) = n.reg[AccumulatorIn(at[2])] /\ Found(m, SlotBase, at) = m.reg[AccumulatorIn(at[2])]
        BY <4>1, FoundIn
      <4> QED BY <4>3, <4>4
    <3>2. CASE at[1] \in {"cell", "global"}
      <4>1. CellOf(s, at) = CellOf(SlotBase, at)
        BY <3>2 DEF CellOf
      <4>2. \A x, u : Found(x, u, at) = Held(x, CellOf(u, at))
        BY <3>2 DEF Found
      <4>3. \A c : Held(n, c) = Held(m, c)
        BY <1>0 DEF Held, Kept
      <4> QED BY <4>1, <4>2, <4>3
    <3> QED BY <1>5, <3>1, <3>2
  <2> HIDE DEF s, v
  <2>4. Same(v.kind, Found(n, s, at), Actual(s, v.word))
    BY <2>1, <2>2, <2>3 DEF AsPromised
  <2> QED BY <2>4 DEF s, v
<1>6. n.fine
  BY <1>0 DEF Ready
<1> QED BY <1>2, <1>3, <1>4, <1>5, <1>6 DEF Intact

-------------------------------------------------------------------------------
(* The data: lines of bytes under a label, and what they say together. *)

\* From a, G stays in S for n steps, and that is made step by step.
StaysIn(n, S, a, G) == n \in Nat /\ a \in S /\ \A x \in S, k \in 1..n : G[k][x] \in S

MadeIn(g, n, S, a, G) == g \in [0..n -> S] /\ g[0] = a /\ \A k \in 1..n : g[k] = G[k][g[k - 1]]

\* A recursive function over the naturals is defined when each step stays in a set.
LEMMA MadeInSteps ==
  ASSUME NEW n, NEW S, NEW a, NEW G, StaysIn(n, S, a, G)
  PROVE  \E g : MadeIn(g, n, S, a, G)
<1>0. n \in Nat /\ a \in S /\ \A x \in S, k \in 1..n : G[k][x] \in S
  BY DEF StaysIn
<1> DEFINE Made(g, l) == g \in [0..l -> S] /\ g[0] = a /\ \A k \in 1..l : g[k] = G[k][g[k - 1]]
           T == {l \in 0..n : \E g : Made(g, l)}
<1>1. 0 \in T
  <2> DEFINE g0 == [k \in 0..0 |-> a]
  <2>1. g0 \in [0..0 -> S] /\ g0[0] = a /\ 0 \in 0..n
    BY <1>0
  <2> HIDE DEF g0
  <2>2. Made(g0, 0)
    BY <2>1
  <2> QED BY <2>1, <2>2
<1>2. ASSUME NEW l \in 1..n, l - 1 \in T PROVE l \in T
  <2>1. PICK g : Made(g, l - 1)
    BY <1>2
  <2> DEFINE y == G[l][g[l - 1]]
             h == [k \in 0..l |-> IF k = l THEN y ELSE g[k]]
  <2>2. l - 1 \in 0..l - 1 /\ g[l - 1] \in S
    BY <1>0, <2>1
  <2>3. y \in S
    BY <1>0, <2>2
  <2>4. \A k \in 0..l - 1 : h[k] = g[k] /\ h[k] \in S /\ k \in 0..l
    BY <1>0, <2>1
  <2>5. h[l] = y /\ l \in 0..l /\ l \in 0..n
    BY <1>0
  <2>6. h \in [0..l -> S]
    BY <1>0, <2>1, <2>3
  <2>7. h[0] = a
    BY <1>0, <2>1, <2>4
  <2>8. \A k \in 1..l : h[k] = G[k][h[k - 1]]
    <3> SUFFICES ASSUME NEW k \in 1..l PROVE h[k] = G[k][h[k - 1]]
      OBVIOUS
    <3> HIDE DEF h
    <3>1. k - 1 \in 0..l - 1 /\ h[k - 1] = g[k - 1]
      BY <1>0, <2>4
    <3>2. CASE k = l
      BY <2>5, <3>1, <3>2
    <3>3. CASE k # l
      <4>1. k \in 1..l - 1 /\ k \in 0..l - 1
        BY <1>0, <3>3
      <4> QED BY <2>1, <2>4, <3>1, <4>1
    <3> QED BY <3>2, <3>3
  <2> HIDE DEF h, y
  <2> QED BY <2>5, <2>6, <2>7, <2>8
<1> HIDE DEF T
<1>3. n \in T
  <2>1. \A k \in 0..n : k \in T
    BY <1>0, <1>1, <1>2, Upward
  <2> QED BY <1>0, <2>1
<1> QED BY <1>3 DEF T, MadeIn

Line == [label : Nat, bytes : Seq(Nat)]

\* g says what n lines say together, after each of them.
Joins(g, lines, from, n) ==
  g \in [0..n -> Seq(Nat)] /\ g[0] = <<>> /\ \A k \in 1..n : g[k] = g[k - 1] \o lines[from + k].bytes

Block(lines, id, text) ==
  /\ lines \in Seq(Line) /\ Len(lines) >= 1
  /\ lines[1].label = id /\ \A j \in 2..Len(lines) : lines[j].label = 0
  /\ \E g : Joins(g, lines, 0, Len(lines)) /\ g[Len(lines)] = text

\* A line with a label begins a block of data.
LEMMA FirstLine ==
  ASSUME NEW id \in Nat, NEW text \in Seq(Nat)
  PROVE  Block(<<[label |-> id, bytes |-> text]>>, id, text)
<1> DEFINE line == [label |-> id, bytes |-> text]
           lines == <<line>>
           g == [k \in 0..1 |-> IF k = 0 THEN <<>> ELSE text]
<1>1. line \in Line /\ line.label = id /\ line.bytes = text
  BY DEF Line
<1> HIDE DEF line
<1>2. lines \in Seq(Line) /\ Len(lines) = 1 /\ lines[1] = line
  BY <1>1
<1> HIDE DEF lines
<1>3. <<>> \in Seq(Nat) /\ <<>> \o text = text
  BY ConcatEmptySeq
<1>4. g \in [0..1 -> Seq(Nat)] /\ g[0] = <<>> /\ g[1] = text
  BY <1>3
<1> HIDE DEF g
<1>5. Joins(g, lines, 0, 1)
  <2> SUFFICES ASSUME NEW k \in 1..1 PROVE g[k] = g[k - 1] \o lines[0 + k].bytes
    BY <1>4 DEF Joins
  <2>1. k = 1 /\ k - 1 = 0 /\ 0 + k = 1
    OBVIOUS
  <2> QED BY <1>1, <1>2, <1>3, <1>4, <2>1
<1>6. Block(lines, id, text)
  BY <1>1, <1>2, <1>4, <1>5 DEF Block
<1> QED BY <1>6 DEF lines, line

\* A line without a label adds its bytes to the block.
LEMMA LineMore ==
  ASSUME NEW id, NEW lines, NEW text, Block(lines, id, text), NEW bytes \in Seq(Nat)
  PROVE  Block(Append(lines, [label |-> 0, bytes |-> bytes]), id, text \o bytes)
<1> DEFINE line == [label |-> 0, bytes |-> bytes]
           d == Append(lines, line)
           n == Len(lines)
<1>1. line \in Line /\ line.label = 0 /\ line.bytes = bytes
  BY DEF Line
<1> HIDE DEF line
<1>2. /\ lines \in Seq(Line) /\ n \in Nat /\ n >= 1
      /\ d \in Seq(Line) /\ Len(d) = n + 1 /\ d[n + 1] = line /\ \A k \in 1..n : d[k] = lines[k]
  BY <1>1 DEF Block
<1>3. lines[1].label = id /\ \A j \in 2..n : lines[j].label = 0
  BY DEF Block
<1>4. PICK g : Joins(g, lines, 0, n) /\ g[n] = text
  BY DEF Block
<1> HIDE DEF d, n
<1> DEFINE h == [k \in 0..n + 1 |-> IF k = n + 1 THEN text \o bytes ELSE g[k]]
<1>5. g \in [0..n -> Seq(Nat)] /\ text \in Seq(Nat) /\ text \o bytes \in Seq(Nat)
  BY <1>2, <1>4, ConcatProperties DEF Joins
<1>6. /\ h \in [0..n + 1 -> Seq(Nat)] /\ h[n + 1] = text \o bytes
      /\ \A k \in 0..n : h[k] = g[k]
  BY <1>2, <1>5
<1> HIDE DEF h
<1>7. Joins(h, d, 0, n + 1)
  <2>1. h[0] = <<>>
    BY <1>2, <1>4, <1>6 DEF Joins
  <2>2. ASSUME NEW k \in 1..n + 1 PROVE h[k] = h[k - 1] \o d[0 + k].bytes
    <3>1. k - 1 \in 0..n /\ h[k - 1] = g[k - 1] /\ 0 + k = k
      BY <1>2, <1>6
    <3>2. CASE k = n + 1
      <4>1. k - 1 = n /\ h[k - 1] = text
        BY <1>2, <1>4, <3>1, <3>2
      <4> QED BY <1>1, <1>2, <1>6, <3>1, <3>2, <4>1
    <3>3. CASE k # n + 1
      <4>1. k \in 1..n /\ k \in 0..n
        BY <1>2, <3>3
      <4>2. g[k] = g[k - 1] \o lines[0 + k].bytes
        BY <1>4, <4>1 DEF Joins
      <4> QED BY <1>2, <1>6, <3>1, <4>1, <4>2
    <3> QED BY <3>2, <3>3
  <2> QED BY <1>6, <2>1, <2>2 DEF Joins
<1>8. d[1].label = id
  BY <1>2, <1>3
<1>9. \A j \in 2..n + 1 : d[j].label = 0
  BY <1>1, <1>2, <1>3
<1>10. Block(d, id, text \o bytes)
  <2> DEFINE l == n + 1
  <2>1. Joins(h, d, 0, l) /\ h[l] = text \o bytes /\ Len(d) = l /\ l >= 1
    BY <1>2, <1>6, <1>7
  <2>2. \A j \in 2..l : d[j].label = 0
    BY <1>9
  <2> HIDE DEF l
  <2> QED BY <1>2, <1>8, <2>1, <2>2 DEF Block
<1> QED BY <1>10 DEF d, line

\* The first k bytes.
LEMMA BytesMore ==
  ASSUME NEW bytes \in Seq(Nat)
  PROVE  /\ SubSeq(bytes, 1, 0) = <<>> /\ SubSeq(bytes, 1, Len(bytes)) = bytes
         /\ \A k \in 1..Len(bytes) : SubSeq(bytes, 1, k - 1) \in Seq(Nat) /\ bytes[k] \in Nat
                                     /\ SubSeq(bytes, 1, k) = Append(SubSeq(bytes, 1, k - 1), bytes[k])
<1>1. SubSeq(bytes, 1, 0) = <<>> /\ SubSeq(bytes, 1, Len(bytes)) = bytes
  BY SubSeqEmpty, SubSeqFull
<1>2. ASSUME NEW k \in 1..Len(bytes)
      PROVE  /\ SubSeq(bytes, 1, k - 1) \in Seq(Nat) /\ bytes[k] \in Nat
             /\ SubSeq(bytes, 1, k) = Append(SubSeq(bytes, 1, k - 1), bytes[k])
  <2> DEFINE s == SubSeq(bytes, 1, k - 1)
             t == SubSeq(bytes, 1, k)
  <2>1. bytes[k] \in Nat /\ Len(bytes) \in Nat /\ \A i \in 1..Len(bytes) : bytes[i] \in Nat
    OBVIOUS
  <2>2. s \in Seq(Nat) /\ Len(s) = k - 1 /\ \A i \in 1..k - 1 : s[i] = bytes[i]
    BY <2>1
  <2>3. t \in Seq(Nat) /\ Len(t) = k /\ \A i \in 1..k : t[i] = bytes[i]
    BY <2>1
  <2> HIDE DEF s, t
  <2>4. t = Append(s, bytes[k])
    BY <2>1, <2>2, <2>3
  <2> QED BY <2>1, <2>2, <2>4 DEF s, t
<1> QED BY <1>1, <1>2

\* A byte appended to the last of two texts is appended to both.
LEMMA OneByteMore ==
  ASSUME NEW s \in Seq(Nat), NEW t \in Seq(Nat), NEW b \in Nat
  PROVE  Append(t, b) \in Seq(Nat) /\ s \o Append(t, b) = Append(s \o t, b)
<1> DEFINE l == s \o Append(t, b)
           r == Append(s \o t, b)
<1>1. Append(t, b) \in Seq(Nat) /\ s \o t \in Seq(Nat)
  OBVIOUS
<1>2. l \in Seq(Nat) /\ r \in Seq(Nat) /\ Len(l) = Len(s) + Len(t) + 1 /\ Len(r) = Len(s) + Len(t) + 1
  OBVIOUS
<1>3. \A i \in 1..Len(s) + Len(t) + 1 : l[i] = r[i]
  OBVIOUS
<1> HIDE DEF l, r
<1>4. l = r
  BY <1>2, <1>3
<1> QED BY <1>1, <1>4 DEF l, r

\* Lines of which the last is not yet full.
ArmState == [full : Seq(Line), last : Seq(Nat)]

ArmStep(id, x, b) ==
  LET line == Append(x.last, b)
  IN  IF Len(line) = 16
      THEN [full |-> Append(x.full, [label |-> 0, bytes |-> line]), last |-> <<>>]
      ELSE [full |-> x.full, last |-> line]

ArmBegun(id) == [full |-> <<[label |-> id, bytes |-> <<>>]>>, last |-> <<>>]

\* A byte more keeps the AArch64 lines lines.
LEMMA ArmStepIn ==
  ASSUME NEW id \in Nat, NEW x \in ArmState, NEW b \in Nat
  PROVE  ArmStep(id, x, b) \in ArmState
<1> DEFINE line == Append(x.last, b)
           r == [label |-> 0, bytes |-> line]
           d == Append(x.full, r)
<1>1. x.full \in Seq(Line) /\ x.last \in Seq(Nat)
  BY DEF ArmState
<1>2. line \in Seq(Nat)
  BY <1>1
<1>3. r \in Line
  BY <1>2 DEF Line
<1> HIDE DEF r
<1>4. d \in Seq(Line) /\ <<>> \in Seq(Nat)
  BY <1>1, <1>3
<1> HIDE DEF line, d
<1>5. [full |-> d, last |-> <<>>] \in ArmState /\ [full |-> x.full, last |-> line] \in ArmState
  BY <1>1, <1>2, <1>4 DEF ArmState
<1>6. ArmStep(id, x, b) = IF Len(line) = 16 THEN [full |-> d, last |-> <<>>] ELSE [full |-> x.full, last |-> line]
  BY DEF ArmStep, line, d, r
<1> QED BY <1>5, <1>6

\* They are lines to begin with.
LEMMA ArmBegunIn == ASSUME NEW id \in Nat PROVE ArmBegun(id) \in ArmState
<1> DEFINE r == [label |-> id, bytes |-> <<>>]
           d == <<r>>
<1>1. r \in Line /\ <<>> \in Seq(Nat)
  BY DEF Line
<1> HIDE DEF r
<1>2. d \in Seq(Line)
  BY <1>1
<1> HIDE DEF d
<1>3. [full |-> d, last |-> <<>>] \in ArmState
  BY <1>1, <1>2 DEF ArmState
<1> QED BY <1>3 DEF ArmBegun, d, r

\* The AArch64 lines of a text, byte by byte.
LEMMA ArmLinesAre ==
  ASSUME NEW id \in Nat, NEW bytes \in Seq(Nat)
  PROVE  /\ ArmLines(id, bytes)[0] = ArmBegun(id)
         /\ \A k \in 0..Len(bytes) : ArmLines(id, bytes)[k] \in ArmState
         /\ \A k \in 1..Len(bytes) : ArmLines(id, bytes)[k] = ArmStep(id, ArmLines(id, bytes)[k - 1], bytes[k])
<1> DEFINE n == Len(bytes)
           Step(g, k) == IF k = 0 THEN ArmBegun(id) ELSE ArmStep(id, g[k - 1], bytes[k])
           Made(g) == g = [k \in 0..n |-> Step(g, k)]
           G == [k \in 1..n |-> [x \in ArmState |-> ArmStep(id, x, bytes[k])]]
<1>0. n \in Nat /\ \A k \in 1..n : bytes[k] \in Nat
  OBVIOUS
<1>1. \A x \in ArmState, k \in 1..n : G[k][x] = ArmStep(id, x, bytes[k])
  OBVIOUS
<1>2. \A x \in ArmState, k \in 1..n : G[k][x] \in ArmState
  BY <1>0, <1>1, ArmStepIn
<1> HIDE DEF G, n
<1>3. ArmBegun(id) \in ArmState
  BY ArmBegunIn
<1>4. PICK g \in [0..n -> ArmState] : g[0] = ArmBegun(id) /\ \A k \in 1..n : g[k] = G[k][g[k - 1]]
  <2>1. StaysIn(n, ArmState, ArmBegun(id), G)
    BY <1>0, <1>2, <1>3 DEF StaysIn
  <2>2. PICK g : MadeIn(g, n, ArmState, ArmBegun(id), G)
    BY <2>1, MadeInSteps
  <2> QED BY <2>2 DEF MadeIn
<1>5. \A k \in 0..n : g[k] = Step(g, k)
  <2> SUFFICES ASSUME NEW k \in 0..n, k # 0 PROVE g[k] = ArmStep(id, g[k - 1], bytes[k])
    BY <1>4
  <2>1. k \in 1..n /\ k - 1 \in 0..n
    BY <1>0
  <2> QED BY <1>1, <1>4, <2>1
<1>6. Made(g)
  BY <1>4, <1>5
<1>7. ArmLines(id, bytes) = CHOOSE f : Made(f)
  BY DEF ArmLines, ArmStep, ArmBegun, n
<1>8. Made(ArmLines(id, bytes))
  BY <1>6, <1>7
<1> DEFINE f == ArmLines(id, bytes)
<1> HIDE DEF f
<1>9. \A k \in 0..n : f[k] = Step(f, k)
  BY <1>8 DEF f
<1>10. f[0] = ArmBegun(id) /\ \A k \in 1..n : f[k] = ArmStep(id, f[k - 1], bytes[k])
  BY <1>0, <1>9
<1>11. \A k \in 0..n : f[k] \in ArmState
  <2> DEFINE T == {k \in 0..n : f[k] \in ArmState}
  <2>1. 0 \in T
    BY <1>0, <1>3, <1>10
  <2>2. ASSUME NEW k \in 1..n, k - 1 \in T PROVE k \in T
    <3> DEFINE x == f[k - 1]
               b == bytes[k]
    <3>1. k \in 0..n /\ x \in ArmState /\ b \in Nat /\ f[k] = ArmStep(id, x, b)
      BY <1>0, <1>10, <2>2
    <3> HIDE DEF x, b
    <3>2. f[k] \in ArmState
      BY <3>1, ArmStepIn
    <3> QED BY <3>1, <3>2
  <2> HIDE DEF T
  <2>3. \A k \in 0..n : k \in T
    BY <1>0, <2>1, <2>2, Upward
  <2> QED BY <2>3 DEF T
<1> QED BY <1>10, <1>11 DEF f, n

\* After each byte the full lines are a block, and with the last say every byte so far.
ArmSays(id, x, text) == \E t \in Seq(Nat) : Block(x.full, id, t) /\ t \o x.last = text

\* A byte more, and the AArch64 lines say it.
LEMMA ArmSaysMore ==
  ASSUME NEW id \in Nat, NEW x \in ArmState, NEW text, ArmSays(id, x, text), NEW b \in Nat
  PROVE  ArmSays(id, ArmStep(id, x, b), Append(text, b))
<1>1. PICK t \in Seq(Nat) : Block(x.full, id, t) /\ t \o x.last = text
  BY DEF ArmSays
<1> DEFINE line == Append(x.last, b)
           d == Append(x.full, [label |-> 0, bytes |-> line])
<1>2. x.last \in Seq(Nat)
  BY DEF ArmState
<1>3. line \in Seq(Nat) /\ t \o line = Append(text, b)
  BY <1>1, <1>2, OneByteMore
<1> HIDE DEF line
<1>4. Block(d, id, t \o line)
  BY <1>1, <1>3, LineMore
<1> HIDE DEF d
<1>5. CASE Len(line) = 16
  <2> DEFINE y == [full |-> d, last |-> <<>>]
             u == t \o line
  <2>1. ArmStep(id, x, b) = y
    BY <1>5 DEF ArmStep, line, d
  <2>2. y.full = d /\ y.last = <<>>
    OBVIOUS
  <2>3. u \in Seq(Nat)
    BY <1>1, <1>3, ConcatProperties
  <2> HIDE DEF y, u
  <2>4. u \o <<>> = u
    BY <2>3, ConcatEmptySeq
  <2>5. Block(y.full, id, u) /\ u \o y.last = Append(text, b)
    BY <1>3, <1>4, <2>2, <2>4 DEF u
  <2> QED BY <2>1, <2>3, <2>5 DEF ArmSays
<1>6. CASE Len(line) # 16
  <2> DEFINE y == [full |-> x.full, last |-> line]
  <2>1. ArmStep(id, x, b) = y
    BY <1>6 DEF ArmStep, line
  <2>2. y.full = x.full /\ y.last = line
    OBVIOUS
  <2> HIDE DEF y
  <2> QED BY <1>1, <1>3, <2>1, <2>2 DEF ArmSays
<1> QED BY <1>5, <1>6

\* The AArch64 lines of a text are one block that says it.
LEMMA ArmDataIs ==
  ASSUME NEW id \in Nat, NEW bytes \in Seq(Nat)
  PROVE  Block(ArmData(id, bytes), id, bytes)
<1> DEFINE f == ArmLines(id, bytes)
           n == Len(bytes)
           T == {k \in 0..n : ArmSays(id, f[k], SubSeq(bytes, 1, k))}
<1>0. n \in Nat /\ n \in 0..n
  OBVIOUS
<1>1. f[0] = ArmBegun(id) /\ (\A k \in 0..n : f[k] \in ArmState) /\ \A k \in 1..n : f[k] = ArmStep(id, f[k - 1], bytes[k])
  BY ArmLinesAre
<1> HIDE DEF f
<1>2. 0 \in T
  <2> DEFINE d == <<[label |-> id, bytes |-> <<>>]>>
             x == f[0]
  <2>1. <<>> \in Seq(Nat) /\ <<>> \o <<>> = <<>>
    BY ConcatEmptySeq
  <2>2. Block(d, id, <<>>)
    BY <2>1, FirstLine
  <2>3. x.full = d /\ x.last = <<>>
    BY <1>1 DEF ArmBegun
  <2> HIDE DEF d, x
  <2>4. ArmSays(id, x, <<>>)
    BY <2>1, <2>2, <2>3 DEF ArmSays
  <2>5. SubSeq(bytes, 1, 0) = <<>> /\ 0 \in 0..n
    BY <1>0, BytesMore
  <2>6. ArmSays(id, f[0], SubSeq(bytes, 1, 0))
    BY <2>4, <2>5 DEF x
  <2> QED BY <2>5, <2>6
<1>3. ASSUME NEW k \in 1..n, k - 1 \in T PROVE k \in T
  <2> DEFINE s == SubSeq(bytes, 1, k - 1)
             x == f[k - 1]
             b == bytes[k]
  <2>1. ArmSays(id, x, s) /\ k \in 0..n /\ k - 1 \in 0..n
    BY <1>0, <1>3
  <2>2. x \in ArmState /\ f[k] = ArmStep(id, x, b)
    BY <1>1, <2>1
  <2>3. b \in Nat /\ SubSeq(bytes, 1, k) = Append(s, b)
    BY BytesMore
  <2> HIDE DEF s, x, b
  <2>4. ArmSays(id, ArmStep(id, x, b), Append(s, b))
    BY <2>1, <2>2, <2>3, ArmSaysMore
  <2> QED BY <2>1, <2>2, <2>3, <2>4
<1> HIDE DEF T
<1>4. n \in T
  <2>1. \A k \in 0..n : k \in T
    BY <1>0, <1>2, <1>3, Upward
  <2> QED BY <1>0, <2>1
<1> DEFINE x == f[n]
<1>5. ArmSays(id, x, bytes) /\ x \in ArmState
  BY <1>0, <1>1, <1>4, BytesMore DEF T
<1>6. ArmData(id, bytes) = IF x.last = <<>> THEN x.full ELSE Append(x.full, [label |-> 0, bytes |-> x.last])
  BY DEF ArmData, f
<1> HIDE DEF x
<1>7. PICK t \in Seq(Nat) : Block(x.full, id, t) /\ t \o x.last = bytes
  BY <1>5 DEF ArmSays
<1>8. CASE x.last = <<>>
  <2>1. t \o <<>> = t
    BY ConcatEmptySeq
  <2> QED BY <1>6, <1>7, <1>8, <2>1
<1>9. CASE x.last # <<>>
  <2>1. x.last \in Seq(Nat)
    BY <1>5 DEF ArmState
  <2>2. Block(Append(x.full, [label |-> 0, bytes |-> x.last]), id, t \o x.last)
    BY <1>7, <2>1, LineMore
  <2> QED BY <1>6, <1>7, <1>9, <2>2
<1> QED BY <1>8, <1>9

X86State == [full : Seq(Line), last : Line]

X86Step(x, b, ends) ==
  LET line == [label |-> x.last.label, bytes |-> Append(x.last.bytes, b)]
  IN  IF ends
      THEN [full |-> Append(x.full, line), last |-> [label |-> 0, bytes |-> <<>>]]
      ELSE [full |-> x.full, last |-> line]

X86Begun(id) == [full |-> <<>>, last |-> [label |-> id, bytes |-> <<>>]]

\* A byte more keeps the x86-64 lines lines.
LEMMA X86StepIn ==
  ASSUME NEW x \in X86State, NEW b \in Nat, NEW ends
  PROVE  X86Step(x, b, ends) \in X86State
<1> DEFINE line == [label |-> x.last.label, bytes |-> Append(x.last.bytes, b)]
           d == Append(x.full, line)
           none == [label |-> 0, bytes |-> <<>>]
<1>1. x.full \in Seq(Line) /\ x.last.label \in Nat /\ x.last.bytes \in Seq(Nat)
  BY DEF X86State, Line
<1>2. line \in Line
  <2>1. Append(x.last.bytes, b) \in Seq(Nat)
    BY <1>1
  <2> QED BY <1>1, <2>1 DEF Line
<1>3. none \in Line
  BY DEF Line
<1> HIDE DEF line, none
<1>4. d \in Seq(Line)
  BY <1>1, <1>2
<1> HIDE DEF d
<1>5. [full |-> d, last |-> none] \in X86State /\ [full |-> x.full, last |-> line] \in X86State
  BY <1>1, <1>2, <1>3, <1>4 DEF X86State
<1>6. X86Step(x, b, ends) = IF ends THEN [full |-> d, last |-> none] ELSE [full |-> x.full, last |-> line]
  BY DEF X86Step, line, d, none
<1> QED BY <1>5, <1>6

\* They are lines to begin with.
LEMMA X86BegunIn == ASSUME NEW id \in Nat PROVE X86Begun(id) \in X86State
<1> DEFINE r == [label |-> id, bytes |-> <<>>]
<1>1. r \in Line /\ <<>> \in Seq(Line)
  BY DEF Line
<1> HIDE DEF r
<1>2. [full |-> <<>>, last |-> r] \in X86State
  BY <1>1 DEF X86State
<1> QED BY <1>2 DEF X86Begun, r

\* The x86-64 lines of a text, byte by byte, sixteen to a line.
LEMMA X86LinesAre ==
  ASSUME NEW id \in Nat, NEW bytes \in Seq(Nat)
  PROVE  /\ X86Lines(id, bytes)[0] = X86Begun(id)
         /\ \A k \in 0..Len(bytes) : X86Lines(id, bytes)[k] \in X86State
         /\ \A k \in 1..Len(bytes) :
              X86Lines(id, bytes)[k] = X86Step(X86Lines(id, bytes)[k - 1], bytes[k], k % 16 = 0 /\ k < Len(bytes))
<1> DEFINE n == Len(bytes)
           Ends(k) == k % 16 = 0 /\ k < Len(bytes)
           Step(g, k) == IF k = 0 THEN X86Begun(id) ELSE X86Step(g[k - 1], bytes[k], Ends(k))
           Made(g) == g = [k \in 0..n |-> Step(g, k)]
           G == [k \in 1..n |-> [x \in X86State |-> X86Step(x, bytes[k], Ends(k))]]
<1>0. n \in Nat /\ \A k \in 1..n : bytes[k] \in Nat
  OBVIOUS
<1>7. X86Lines(id, bytes) = CHOOSE f : Made(f)
  BY DEF X86Lines, X86Step, X86Begun
<1> HIDE DEF Ends
<1>1. \A x \in X86State, k \in 1..n : G[k][x] = X86Step(x, bytes[k], Ends(k))
  OBVIOUS
<1>2. \A x \in X86State, k \in 1..n : G[k][x] \in X86State
  BY <1>0, <1>1, X86StepIn
<1> HIDE DEF G, n
<1>3. X86Begun(id) \in X86State
  BY X86BegunIn
<1>4. PICK g \in [0..n -> X86State] : g[0] = X86Begun(id) /\ \A k \in 1..n : g[k] = G[k][g[k - 1]]
  <2>1. StaysIn(n, X86State, X86Begun(id), G)
    BY <1>0, <1>2, <1>3 DEF StaysIn
  <2>2. PICK g : MadeIn(g, n, X86State, X86Begun(id), G)
    BY <2>1, MadeInSteps
  <2> QED BY <2>2 DEF MadeIn
<1>5. \A k \in 0..n : g[k] = Step(g, k)
  <2> SUFFICES ASSUME NEW k \in 0..n, k # 0 PROVE g[k] = X86Step(g[k - 1], bytes[k], Ends(k))
    BY <1>4
  <2>1. k \in 1..n /\ k - 1 \in 0..n
    BY <1>0
  <2> QED BY <1>1, <1>4, <2>1
<1>6. Made(g)
  BY <1>4, <1>5
<1>8. Made(X86Lines(id, bytes))
  BY <1>6, <1>7
<1> DEFINE f == X86Lines(id, bytes)
<1> HIDE DEF f
<1>9. \A k \in 0..n : f[k] = Step(f, k)
  BY <1>8 DEF f
<1>10. f[0] = X86Begun(id) /\ \A k \in 1..n : f[k] = X86Step(f[k - 1], bytes[k], Ends(k))
  BY <1>0, <1>9
<1>11. \A k \in 0..n : f[k] \in X86State
  <2> DEFINE T == {k \in 0..n : f[k] \in X86State}
  <2>1. 0 \in T
    BY <1>0, <1>3, <1>10
  <2>2. ASSUME NEW k \in 1..n, k - 1 \in T PROVE k \in T
    <3> DEFINE x == f[k - 1]
               b == bytes[k]
               e == Ends(k)
    <3>1. k \in 0..n /\ x \in X86State /\ b \in Nat /\ f[k] = X86Step(x, b, e)
      BY <1>0, <1>10, <2>2
    <3> HIDE DEF x, b, e
    <3>2. f[k] \in X86State
      BY <3>1, X86StepIn
    <3> QED BY <3>1, <3>2
  <2> HIDE DEF T
  <2>3. \A k \in 0..n : k \in T
    BY <1>0, <2>1, <2>2, Upward
  <2> QED BY <2>3 DEF T
<1> QED BY <1>10, <1>11 DEF f, n, Ends

\* Until a line is full there is only the last, which has the label.
X86Says(id, x, text) ==
  \/ x.full = <<>> /\ x.last.label = id /\ x.last.bytes = text
  \/ x.last.label = 0 /\ \E t \in Seq(Nat) : Block(x.full, id, t) /\ t \o x.last.bytes = text

\* With the last, a line or a block is a block.
LEMMA X86SaysAll ==
  ASSUME NEW id \in Nat, NEW x \in X86State, NEW text \in Seq(Nat), X86Says(id, x, text)
  PROVE  Block(Append(x.full, x.last), id, text)
<1> DEFINE l == x.last.label
           b == x.last.bytes
           r == [label |-> l, bytes |-> b]
<1>1. x.last \in Line /\ b \in Seq(Nat) /\ x.last = r
  BY DEF X86State, Line
<1>2. CASE x.full = <<>> /\ x.last.label = id /\ x.last.bytes = text
  <2>1. Append(x.full, x.last) = <<r>>
    BY <1>1, <1>2
  <2>2. Block(<<[label |-> id, bytes |-> text]>>, id, text)
    BY FirstLine
  <2>3. r = [label |-> id, bytes |-> text]
    BY <1>2
  <2> QED BY <2>1, <2>2, <2>3
<1>3. CASE x.last.label = 0 /\ \E t \in Seq(Nat) : Block(x.full, id, t) /\ t \o x.last.bytes = text
  <2>1. PICK t \in Seq(Nat) : Block(x.full, id, t) /\ t \o b = text
    BY <1>3
  <2>2. r = [label |-> 0, bytes |-> b]
    BY <1>3
  <2> HIDE DEF b
  <2>3. Block(Append(x.full, [label |-> 0, bytes |-> b]), id, t \o b)
    BY <1>1, <2>1, LineMore
  <2> QED BY <1>1, <2>1, <2>2, <2>3
<1> QED BY <1>2, <1>3 DEF X86Says

\* A byte more, and the x86-64 lines say it.
LEMMA X86SaysMore ==
  ASSUME NEW id \in Nat, NEW x \in X86State, NEW text \in Seq(Nat), X86Says(id, x, text), NEW b \in Nat, NEW ends \in BOOLEAN
  PROVE  X86Says(id, X86Step(x, b, ends), Append(text, b))
<1> DEFINE bytes == Append(x.last.bytes, b)
           line == [label |-> x.last.label, bytes |-> bytes]
           y == [full |-> x.full, last |-> line]
           more == Append(text, b)
<1>1. x.full \in Seq(Line) /\ x.last.label \in Nat /\ x.last.bytes \in Seq(Nat)
  BY DEF X86State, Line
<1>2. bytes \in Seq(Nat) /\ more \in Seq(Nat)
  BY <1>1
<1>3. y.full = x.full /\ y.last = line /\ line.label = x.last.label /\ line.bytes = bytes
  OBVIOUS
<1>4. y \in X86State
  <2>1. line \in Line
    BY <1>1, <1>2 DEF Line
  <2> HIDE DEF line
  <2> QED BY <1>1, <2>1 DEF X86State
<1>5. X86Says(id, y, more)
  <2>1. CASE x.full = <<>> /\ x.last.label = id /\ x.last.bytes = text
    <3>1. y.full = <<>> /\ y.last.label = id /\ y.last.bytes = more
      BY <1>3, <2>1
    <3> HIDE DEF y, more
    <3> QED BY <3>1 DEF X86Says
  <2>2. CASE x.last.label = 0 /\ \E t \in Seq(Nat) : Block(x.full, id, t) /\ t \o x.last.bytes = text
    <3>1. PICK t \in Seq(Nat) : Block(x.full, id, t) /\ t \o x.last.bytes = text
      BY <2>2
    <3>2. t \o bytes = more
      BY <1>1, <3>1, OneByteMore
    <3>3. y.last.label = 0 /\ y.last.bytes = bytes /\ y.full = x.full
      BY <1>3, <2>2
    <3> HIDE DEF y, more, bytes
    <3> QED BY <3>1, <3>2, <3>3 DEF X86Says
  <2> QED BY <2>1, <2>2 DEF X86Says
<1>6. CASE ~ends
  <2>1. X86Step(x, b, ends) = y
    BY <1>6 DEF X86Step
  <2> QED BY <1>5, <2>1
<1>7. CASE ends
  <2> DEFINE d == Append(x.full, line)
             z == [full |-> d, last |-> [label |-> 0, bytes |-> <<>>]]
  <2>1. X86Step(x, b, ends) = z
    BY <1>7 DEF X86Step
  <2>2. Block(Append(y.full, y.last), id, more)
    <3> HIDE DEF y, more
    <3> QED BY <1>2, <1>4, <1>5, X86SaysAll
  <2>3. Block(d, id, more)
    <3> HIDE DEF y, line, more
    <3> QED BY <1>3, <2>2
  <2>4. z.full = d /\ z.last.label = 0 /\ z.last.bytes = <<>>
    OBVIOUS
  <2>5. more \o <<>> = more
    <3> HIDE DEF more
    <3> QED BY <1>2, ConcatEmptySeq
  <2>6. X86Says(id, z, more)
    <3> HIDE DEF z, d, more
    <3> QED BY <1>2, <2>3, <2>4, <2>5 DEF X86Says
  <2> QED BY <2>1, <2>6
<1> QED BY <1>6, <1>7

\* The x86-64 lines of a text are one block that says it.
LEMMA X86DataIs ==
  ASSUME NEW id \in Nat, NEW bytes \in Seq(Nat)
  PROVE  Block(X86Data(id, bytes), id, bytes)
<1> DEFINE f == X86Lines(id, bytes)
           n == Len(bytes)
           Ends(k) == k % 16 = 0 /\ k < Len(bytes)
           T == {k \in 0..n : X86Says(id, f[k], SubSeq(bytes, 1, k))}
<1>0. n \in Nat /\ n \in 0..n
  OBVIOUS
<1>1. f[0] = X86Begun(id) /\ (\A k \in 0..n : f[k] \in X86State) /\ \A k \in 1..n : f[k] = X86Step(f[k - 1], bytes[k], Ends(k))
  BY X86LinesAre
<1> HIDE DEF f, Ends
<1>2. 0 \in T
  <2> DEFINE x == f[0]
  <2>1. x.full = <<>> /\ x.last.label = id /\ x.last.bytes = <<>>
    BY <1>1 DEF X86Begun
  <2> HIDE DEF x
  <2>2. X86Says(id, x, <<>>)
    BY <2>1 DEF X86Says
  <2>3. SubSeq(bytes, 1, 0) = <<>> /\ 0 \in 0..n
    BY <1>0, BytesMore
  <2>4. X86Says(id, f[0], SubSeq(bytes, 1, 0))
    BY <2>2, <2>3 DEF x
  <2> QED BY <2>3, <2>4
<1>3. ASSUME NEW k \in 1..n, k - 1 \in T PROVE k \in T
  <2> DEFINE s == SubSeq(bytes, 1, k - 1)
             x == f[k - 1]
             b == bytes[k]
             e == Ends(k)
  <2>1. X86Says(id, x, s) /\ k \in 0..n /\ k - 1 \in 0..n
    BY <1>0, <1>3
  <2>2. x \in X86State /\ f[k] = X86Step(x, b, e)
    BY <1>1, <2>1
  <2>3. b \in Nat /\ s \in Seq(Nat) /\ SubSeq(bytes, 1, k) = Append(s, b)
    BY BytesMore
  <2>5. e \in BOOLEAN
    BY DEF Ends
  <2> HIDE DEF s, x, b, e
  <2>4. X86Says(id, X86Step(x, b, e), Append(s, b))
    BY <2>1, <2>2, <2>3, <2>5, X86SaysMore
  <2> QED BY <2>1, <2>2, <2>3, <2>4
<1> HIDE DEF T
<1>4. n \in T
  <2>1. \A k \in 0..n : k \in T
    BY <1>0, <1>2, <1>3, Upward
  <2> QED BY <1>0, <2>1
<1> DEFINE x == f[n]
<1>5. X86Says(id, x, bytes) /\ x \in X86State
  BY <1>0, <1>1, <1>4, BytesMore DEF T
<1>6. X86Data(id, bytes) = Append(x.full, x.last)
  BY DEF X86Data, f
<1> HIDE DEF x
<1> QED BY <1>5, <1>6, X86SaysAll

\* From a to before z, d has the lines of one text, under its label.
LaidFrom(d, a, z, id, text) ==
  /\ a \in Nat /\ z \in Nat /\ 1 <= a /\ a < z /\ z <= Len(d) + 1
  /\ d[a].label = id /\ \A j \in a + 1..z - 1 : d[j].label = 0
  /\ \E g : Joins(g, d, a - 1, z - a) /\ g[z - a] = text

\* A block at the end of the data is laid there.
LEMMA LaidLast ==
  ASSUME NEW d \in Seq(Line), NEW b, NEW id, NEW text, Block(b, id, text)
  PROVE  LaidFrom(d \o b, Len(d) + 1, Len(d) + Len(b) + 1, id, text)
<1> DEFINE e == d \o b
           n == Len(d)
           l == Len(b)
           a == n + 1
           z == n + l + 1
<1>1. b \in Seq(Line) /\ l >= 1 /\ b[1].label = id /\ \A j \in 2..l : b[j].label = 0
  BY DEF Block
<1>2. n \in Nat /\ l \in Nat /\ e \in Seq(Line) /\ Len(e) = n + l
  BY <1>1
<1>3. \A i \in 1..l : e[n + i] = b[i]
  BY <1>1, <1>2
<1>4. PICK g : Joins(g, b, 0, l) /\ g[l] = text
  BY DEF Block
<1> HIDE DEF e, n, l
<1>5. a \in Nat /\ z \in Nat /\ 1 <= a /\ a < z /\ z <= Len(e) + 1 /\ a - 1 = n /\ z - a = l
  BY <1>1, <1>2
<1>6. e[a].label = id
  BY <1>1, <1>2, <1>3
<1>7. ASSUME NEW j \in a + 1..z - 1 PROVE e[j].label = 0
  <2>1. j - n \in 2..l /\ j - n \in 1..l /\ n + (j - n) = j
    BY <1>2, <1>7
  <2> QED BY <1>1, <1>3, <2>1
<1>8. Joins(g, e, n, l)
  <2> SUFFICES ASSUME NEW k \in 1..l PROVE g[k] = g[k - 1] \o e[n + k].bytes
    BY <1>4 DEF Joins
  <2>1. g[k] = g[k - 1] \o b[0 + k].bytes
    BY <1>4 DEF Joins
  <2>2. 0 + k = k
    BY <1>2
  <2> QED BY <1>3, <2>1, <2>2
<1> HIDE DEF a, z
<1>9. Joins(g, e, a - 1, z - a) /\ g[z - a] = text
  BY <1>4, <1>5, <1>8
<1>10. LaidFrom(e, a, z, id, text)
  BY <1>5, <1>6, <1>7, <1>9 DEF LaidFrom
<1> QED BY <1>10 DEF a, z, e, n, l

\* A block appended leaves those before it as they are.
LEMMA LaidStill ==
  ASSUME NEW d \in Seq(Line), NEW b \in Seq(Line), NEW a, NEW z, NEW id, NEW text, LaidFrom(d, a, z, id, text)
  PROVE  LaidFrom(d \o b, a, z, id, text)
<1> DEFINE e == d \o b
           n == Len(d)
           m == z - a
           o == a - 1
<1>1. a \in Nat /\ z \in Nat /\ 1 <= a /\ a < z /\ z <= n + 1
  BY DEF LaidFrom
<1>2. d[a].label = id /\ \A j \in a + 1..z - 1 : d[j].label = 0
  BY DEF LaidFrom
<1>3. PICK g : Joins(g, d, o, m) /\ g[m] = text
  BY DEF LaidFrom
<1>4. n \in Nat /\ Len(e) = n + Len(b) /\ Len(b) \in Nat /\ \A i \in 1..n : e[i] = d[i]
  OBVIOUS
<1> HIDE DEF e, n
<1>5. z <= Len(e) + 1
  BY <1>1, <1>4
<1>6. e[a].label = id /\ \A j \in a + 1..z - 1 : e[j].label = 0
  BY <1>1, <1>2, <1>4
<1>7. Joins(g, e, o, m)
  <2>1. \A k \in 1..m : o + k \in 1..n
    BY <1>1, <1>4
  <2>2. \A k \in 1..m : e[o + k] = d[o + k]
    BY <1>4, <2>1
  <2> HIDE DEF m, o
  <2> QED BY <1>3, <2>2 DEF Joins
<1>8. LaidFrom(e, a, z, id, text)
  BY <1>1, <1>3, <1>5, <1>6, <1>7 DEF LaidFrom
<1> QED BY <1>8 DEF e

\* The data are the texts, one after the other, and a label is found once.
StartsAt(st, d, ts) ==
  /\ st \in [1..Len(ts) + 1 -> Nat] /\ st[Len(ts) + 1] = Len(d) + 1
  /\ \A i \in 1..Len(ts) : LaidFrom(d, st[i], st[i + 1], i, ts[i])
  /\ \A k \in 1..Len(d) : d[k].label # 0 => d[k].label \in 1..Len(ts) /\ k = st[d[k].label]

DataSays(d, ts) ==
  /\ d \in Seq(Line) /\ ts \in Seq(Seq(Nat))
  /\ \E st : StartsAt(st, d, ts)

\* No text, no data.
LEMMA NothingSaid == DataSays(<<>>, <<>>)
<1> DEFINE st == [i \in 1..1 |-> 1]
           none == <<>>
<1>1. none \in Seq(Line) /\ none \in Seq(Seq(Nat)) /\ Len(none) = 0
  OBVIOUS
<1>2. st \in [1..1 -> Nat] /\ st[1] = 1
  OBVIOUS
<1> HIDE DEF st, none
<1>3. StartsAt(st, none, none)
  BY <1>1, <1>2 DEF StartsAt
<1> QED BY <1>1, <1>3 DEF DataSays, none

\* Each text defined adds its block.
LEMMA MoreSaid ==
  ASSUME NEW d, NEW ts, DataSays(d, ts), NEW b, NEW text \in Seq(Nat), Block(b, Len(ts) + 1, text)
  PROVE  DataSays(d \o b, Append(ts, text))
<1> DEFINE e == d \o b
           us == Append(ts, text)
           n == Len(d)
           l == Len(b)
           t == Len(ts)
<1>1. d \in Seq(Line) /\ ts \in Seq(Seq(Nat)) /\ n \in Nat /\ t \in Nat
  BY DEF DataSays
<1>2. PICK st : StartsAt(st, d, ts)
  BY DEF DataSays
<1>3. b \in Seq(Line) /\ l >= 1 /\ b[1].label = t + 1 /\ (\A j \in 2..l : b[j].label = 0) /\ l \in Nat
  BY DEF Block
<1>4. e \in Seq(Line) /\ Len(e) = n + l /\ (\A i \in 1..n : e[i] = d[i]) /\ \A i \in 1..l : e[n + i] = b[i]
  BY <1>1, <1>3
<1>5. us \in Seq(Seq(Nat)) /\ Len(us) = t + 1 /\ us[t + 1] = text /\ \A i \in 1..t : us[i] = ts[i]
  BY <1>1
<1>6. LaidFrom(e, n + 1, n + l + 1, t + 1, text)
  BY <1>1, LaidLast
<1>7. /\ st \in [1..t + 1 -> Nat] /\ st[t + 1] = n + 1
      /\ \A i \in 1..t : LaidFrom(d, st[i], st[i + 1], i, ts[i])
      /\ \A k \in 1..n : d[k].label # 0 => d[k].label \in 1..t /\ k = st[d[k].label]
  BY <1>2 DEF StartsAt
<1>8. \A i \in 1..t : LaidFrom(e, st[i], st[i + 1], i, ts[i])
  BY <1>1, <1>3, <1>7, LaidStill
<1> HIDE DEF e, us, n, l, t
<1> DEFINE new == [i \in 1..t + 2 |-> IF i = t + 2 THEN n + l + 1 ELSE st[i]]
<1>9. /\ new \in [1..t + 2 -> Nat] /\ new[t + 2] = n + l + 1
      /\ \A i \in 1..t + 1 : new[i] = st[i]
  BY <1>1, <1>3, <1>7
<1> HIDE DEF new
<1>10. \A i \in 1..t + 1 : LaidFrom(e, new[i], new[i + 1], i, us[i])
  <2> SUFFICES ASSUME NEW i \in 1..t + 1 PROVE LaidFrom(e, new[i], new[i + 1], i, us[i])
    OBVIOUS
  <2>1. CASE i = t + 1
    <3>1. i + 1 = t + 2 /\ new[i] = n + 1
      BY <1>1, <1>7, <1>9, <2>1
    <3> QED BY <1>5, <1>6, <1>9, <2>1, <3>1
  <2>2. CASE i # t + 1
    <3>1. i \in 1..t /\ i + 1 \in 1..t + 1
      BY <1>1, <2>2
    <3> QED BY <1>5, <1>8, <1>9, <3>1
  <2> QED BY <2>1, <2>2
<1>11. \A k \in 1..n + l : e[k].label # 0 => e[k].label \in 1..t + 1 /\ k = new[e[k].label]
  <2> SUFFICES ASSUME NEW k \in 1..n + l, e[k].label # 0 PROVE e[k].label \in 1..t + 1 /\ k = new[e[k].label]
    OBVIOUS
  <2>1. CASE k \in 1..n
    <3> DEFINE id == d[k].label
    <3>1. e[k].label = id /\ id # 0
      BY <1>4, <2>1
    <3>2. id \in 1..t /\ k = st[id]
      BY <1>7, <2>1, <3>1
    <3> HIDE DEF id
    <3>3. id \in 1..t + 1
      BY <1>1, <3>2
    <3> QED BY <1>9, <3>1, <3>2, <3>3
  <2>2. CASE k \notin 1..n
    <3>1. k - n \in 1..l /\ n + (k - n) = k
      BY <1>1, <1>3, <2>2
    <3>2. e[k] = b[k - n]
      BY <1>4, <3>1
    <3>3. k - n = 1
      <4> SUFFICES ASSUME k - n # 1 PROVE FALSE
        OBVIOUS
      <4>1. k - n \in 2..l
        BY <1>1, <1>3, <3>1
      <4> QED BY <1>3, <3>2, <4>1
    <3>4. e[k].label = t + 1 /\ k = n + 1 /\ t + 1 \in 1..t + 1
      BY <1>1, <1>3, <3>2, <3>3
    <3>5. new[t + 1] = n + 1
      BY <1>7, <1>9, <3>4
    <3> QED BY <3>4, <3>5
  <2> QED BY <2>1, <2>2
<1>12. StartsAt(new, e, us)
  <2> DEFINE u == t + 1
  <2>1. Len(us) = u /\ u + 1 = t + 2 /\ Len(e) = n + l
    BY <1>1, <1>4, <1>5
  <2>2. new \in [1..u + 1 -> Nat] /\ new[u + 1] = Len(e) + 1
    BY <1>9, <2>1
  <2> QED BY <1>10, <1>11, <2>1, <2>2 DEF StartsAt
<1> QED BY <1>4, <1>5, <1>12 DEF DataSays, e, us

\* The bytes laid at the label of a text are the text.
LEMMA LaidIs ==
  ASSUME DataSays(data, texts), NEW id \in DOMAIN texts
  PROVE  Laid(id) = texts[id]
<1> DEFINE n == Len(data)
           t == Len(texts)
           Past(a, k) == /\ k > Len(data) \/ data[k].label # 0
                         /\ \A j \in a + 1..k - 1 : data[j].label = 0
           at == CHOOSE k \in DOMAIN data : data[k].label = id
           past == CHOOSE k \in at + 1..Len(data) + 1 : Past(at, k)
           Made(f) == f = [k \in 0..past - at |-> IF k = 0 THEN <<>> ELSE f[k - 1] \o data[at + k - 1].bytes]
<1>1. Laid(id) = (CHOOSE f : Made(f))[past - at]
  BY DEF Laid
<1>2. data \in Seq(Line) /\ texts \in Seq(Seq(Nat)) /\ n \in Nat /\ t \in Nat /\ id \in 1..t /\ DOMAIN data = 1..n
  BY DEF DataSays
<1>3. PICK st : StartsAt(st, data, texts)
  BY DEF DataSays
<1> DEFINE a == st[id]
           z == st[id + 1]
           m == z - a
<1>4. /\ st[t + 1] = n + 1
      /\ \A i \in 1..t : LaidFrom(data, st[i], st[i + 1], i, texts[i])
      /\ \A k \in 1..n : data[k].label # 0 => data[k].label \in 1..t /\ k = st[data[k].label]
  BY <1>3 DEF StartsAt
<1>5. LaidFrom(data, a, z, id, texts[id])
  BY <1>2, <1>4
<1>6. /\ a \in Nat /\ z \in Nat /\ 1 <= a /\ a < z /\ z <= n + 1
      /\ data[a].label = id /\ \A j \in a + 1..z - 1 : data[j].label = 0
  BY <1>5 DEF LaidFrom
<1>7. at = a
  <2>1. a \in DOMAIN data /\ data[a].label = id
    BY <1>2, <1>6
  <2>2. ASSUME NEW k \in DOMAIN data, data[k].label = id PROVE k = a
    <3> HIDE DEF n, t
    <3> DEFINE l == data[k].label
    <3>1. k \in 1..n /\ l # 0 /\ l = id
      BY <1>2, <2>2
    <3>2. k = st[l]
      BY <1>4, <3>1
    <3> HIDE DEF l
    <3> QED BY <3>1, <3>2
  <2> HIDE DEF a
  <2> QED BY <2>1, <2>2
<1>8. Past(a, z)
  <2>1. CASE id = t
    <3>1. z = n + 1
      BY <1>4, <2>1
    <3> QED BY <1>2, <1>6, <3>1
  <2>2. CASE id # t
    <3>1. id + 1 \in 1..t
      BY <1>2, <2>2
    <3>2. LaidFrom(data, z, st[id + 1 + 1], id + 1, texts[id + 1])
      BY <1>4, <3>1
    <3>3. data[z].label = id + 1
      BY <3>2 DEF LaidFrom
    <3>4. data[z].label # 0
      BY <1>2, <3>3
    <3> QED BY <1>6, <3>4
  <2> QED BY <2>1, <2>2
<1>9. past = z
  <2>1. z \in a + 1..n + 1
    BY <1>2, <1>6
  <2>2. ASSUME NEW k \in a + 1..n + 1, Past(a, k) PROVE k = z
    <3>1. CASE k < z
      <4>1. k \in a + 1..z - 1 /\ ~(k > n)
        BY <1>2, <1>6, <2>2, <3>1
      <4> QED BY <1>6, <2>2, <4>1
    <3>2. CASE k > z
      <4>1. z \in a + 1..k - 1 /\ ~(z > n)
        BY <1>2, <1>6, <2>2, <3>2
      <4> QED BY <1>8, <2>2, <4>1
    <3> QED BY <1>6, <2>2, <3>1, <3>2
  <2> HIDE DEF a, z, at, Past
  <2> QED BY <1>7, <1>8, <2>1, <2>2 DEF past
<1> HIDE DEF at, past, a, z
<1>10. PICK g : Joins(g, data, a - 1, m) /\ g[m] = texts[id]
  BY <1>5 DEF LaidFrom
<1>11. m \in Nat /\ past - at = m
  BY <1>6, <1>7, <1>9
<1> HIDE DEF m
<1>12. Made(g)
  <2>1. \A k \in 1..m : a - 1 + k = at + k - 1
    BY <1>6, <1>7
  <2>2. \A k \in 1..m : g[k] = g[k - 1] \o data[at + k - 1].bytes
    BY <1>10, <2>1 DEF Joins
  <2>3. g[0] = <<>> /\ g = [k \in 0..m |-> g[k]]
    BY <1>10 DEF Joins
  <2>4. \A k \in 0..m : k = 0 \/ k \in 1..m
    BY <1>11
  <2> QED BY <1>11, <2>2, <2>3, <2>4
<1> DEFINE f == CHOOSE h : Made(h)
<1>13. Made(f)
  BY <1>12
<1> HIDE DEF f
<1>14. \A k \in 0..m : f[k] = IF k = 0 THEN <<>> ELSE f[k - 1] \o data[at + k - 1].bytes
  BY <1>11, <1>13
<1>15. \A k \in 0..m : g[k] = IF k = 0 THEN <<>> ELSE g[k - 1] \o data[at + k - 1].bytes
  BY <1>11, <1>12
<1> DEFINE T == {k \in 0..m : f[k] = g[k]}
<1>16. 0 \in T
  BY <1>11, <1>14, <1>15
<1>17. ASSUME NEW k \in 1..m, k - 1 \in T PROVE k \in T
  <2>1. k \in 0..m /\ k # 0 /\ f[k - 1] = g[k - 1]
    BY <1>11, <1>17
  <2> QED BY <1>14, <1>15, <2>1
<1> HIDE DEF T
<1>18. \A k \in 0..m : k \in T
  BY <1>11, <1>16, <1>17, Upward
<1>19. m \in T
  BY <1>11, <1>18
<1>20. f[m] = texts[id]
  BY <1>10, <1>19 DEF T
<1> QED BY <1>1, <1>11, <1>20 DEF f

-------------------------------------------------------------------------------
(* The target and the frame never change, nor what depends on nothing else. *)

Steady == target' = target /\ frame' = frame

\* The machine is the same one after a step of one target and frame.
LEMMA SteadyMachine ==
  ASSUME Steady
  PROVE  /\ Known' = Known /\ Arm' = Arm /\ Gnu' = Gnu /\ ShadowBytes' = ShadowBytes /\ EntrySp' = EntrySp
         /\ IntArgs' = IntArgs /\ IntCapacity' = IntCapacity /\ RealCapacity' = RealCapacity /\ BlockIn' = BlockIn
         /\ Preserved' = Preserved /\ AllRegisters' = AllRegisters
<1>1. Known' = Known /\ Arm' = Arm /\ Gnu' = Gnu /\ ShadowBytes' = ShadowBytes
  BY DEF Steady, Known, Arm, Gnu, ShadowBytes
<1>2. EntrySp' = EntrySp /\ BlockIn' = BlockIn
  BY <1>1 DEF EntrySp, BlockIn
<1>3. IntArgs' = IntArgs
  BY <1>1 DEF IntArgs
<1>4. IntCapacity' = IntCapacity
  BY <1>1, <1>3 DEF IntCapacity
<1>5. RealCapacity' = RealCapacity
  BY DEF Steady, RealCapacity
<1>6. Preserved' = Preserved
  BY <1>1 DEF Preserved
<1>7. AllRegisters' = AllRegisters
  BY <1>1, <1>6 DEF AllRegisters
<1> QED BY <1>1, <1>2, <1>3, <1>4, <1>5, <1>6, <1>7

\* So are its registers of arguments and accumulators.
LEMMA SteadyRegisters ==
  ASSUME Steady
  PROVE  /\ \A f, i : ArgumentIn(f, i)' = ArgumentIn(f, i)
         /\ \A f : AccumulatorIn(f)' = AccumulatorIn(f)
         /\ \A at : RegisterOf(at)' = RegisterOf(at)
<1>1. Arm' = Arm /\ IntArgs' = IntArgs /\ BlockIn' = BlockIn
  BY SteadyMachine
<1>2. ASSUME NEW f, NEW i PROVE ArgumentIn(f, i)' = ArgumentIn(f, i)
  BY <1>1 DEF ArgumentIn
<1>3. ASSUME NEW f PROVE AccumulatorIn(f)' = AccumulatorIn(f)
  BY <1>1 DEF AccumulatorIn
<1>4. ASSUME NEW at PROVE RegisterOf(at)' = RegisterOf(at)
  BY <1>1, <1>2, <1>3 DEF RegisterOf
<1> QED BY <1>2, <1>3, <1>4

\* So are the places of the function.
LEMMA SteadyPlaces ==
  ASSUME Steady
  PROVE  Parameters' = Parameters /\ ArgumentPlaces' = ArgumentPlaces /\ AllPlaces' = AllPlaces /\ AtEntry' = AtEntry
<1>1. Parameters' = Parameters
  BY SteadyMachine DEF Parameters
<1>2. ArgumentPlaces' = ArgumentPlaces
  BY <1>1 DEF ArgumentPlaces
<1>3. AllPlaces' = AllPlaces
  BY <1>2 DEF AllPlaces, Steady
<1>4. AtEntry' = AtEntry
  BY <1>2 DEF AtEntry
<1> QED BY <1>1, <1>2, <1>3, <1>4

\* So is its frame.
LEMMA SteadyFrame ==
  ASSUME Steady
  PROVE  Framed' = Framed /\ Bytes' = Bytes /\ BodySp' = BodySp /\ SlotBase' = SlotBase
<1>1. Arm' = Arm /\ ShadowBytes' = ShadowBytes /\ Known' = Known
  BY SteadyMachine
<1>2. ArmFrameBytes' = ArmFrameBytes /\ FrameBytes' = FrameBytes
  BY <1>1 DEF Steady, ArmFrameBytes, FrameBytes
<1>3. Bytes' = Bytes
  BY <1>1, <1>2 DEF Bytes
<1>4. BodySp' = BodySp
  BY <1>3 DEF BodySp
<1> QED BY <1>1, <1>3, <1>4 DEF SlotBase, Framed, Steady

\* What a register holds at entry, without choosing.
EntryIs(r, v) ==
  \/ r = Sp /\ v = Pointing(OfStack, EntrySp)
  \/ r # Sp /\ r = BlockIn /\ v = Pointing(OfStack, BlockAt)
  \/ /\ r # Sp /\ r # BlockIn
     /\ \E q \in Parameters : ArgumentIn(q[1], q[2]) = r /\ v = Actual(EntrySp, ArgumentValue(q[1], q[2]).word)
  \/ /\ r # Sp /\ r # BlockIn /\ \A q \in Parameters : ArgumentIn(q[1], q[2]) # r
     /\ v = Pointing(OfNothing, IF r = Lr THEN 1 ELSE 0)

\* A register has one word at entry.
LEMMA EntryIsOne == Known => \A r, v : EntryIs(r, v) => v = EntryRegister(r)
<1> SUFFICES ASSUME Known, NEW r, NEW v, EntryIs(r, v) PROVE v = EntryRegister(r)
  OBVIOUS
<1>1. CASE r = Sp /\ v = Pointing(OfStack, EntrySp)
  BY <1>1, EntryRegisters
<1>2. CASE r # Sp /\ r = BlockIn /\ v = Pointing(OfStack, BlockAt)
  BY <1>2 DEF EntryRegister
<1>3. CASE /\ r # Sp /\ r # BlockIn /\ \A q \in Parameters : ArgumentIn(q[1], q[2]) # r
           /\ v = Pointing(OfNothing, IF r = Lr THEN 1 ELSE 0)
  BY <1>3 DEF EntryRegister
<1>4. CASE /\ r # Sp /\ r # BlockIn
           /\ \E q \in Parameters : ArgumentIn(q[1], q[2]) = r /\ v = Actual(EntrySp, ArgumentValue(q[1], q[2]).word)
  <2>1. PICK q \in Parameters : ArgumentIn(q[1], q[2]) = r /\ v = Actual(EntrySp, ArgumentValue(q[1], q[2]).word)
    BY <1>4
  <2> DEFINE w == ArgumentValue(q[1], q[2])
  <2>2. Fixed(w.kind, w.word)
    BY <2>1, ArgumentFixed
  <2>3. Actual(EntrySp, w.word) = Actual(SlotBase, w.word)
    <3> HIDE DEF w
    <3> QED BY <2>2 DEF Fixed
  <2>4. EntryRegister(ArgumentIn(q[1], q[2])) = Actual(SlotBase, w.word)
    BY <2>1, EntryRegisters
  <2> HIDE DEF w
  <2>5. v = Actual(EntrySp, w.word)
    BY <2>1 DEF w
  <2> QED BY <2>1, <2>3, <2>4, <2>5
<1> QED BY <1>1, <1>2, <1>3, <1>4 DEF EntryIs

\* And it has one.
LEMMA EntryIsSome == \A r : EntryIs(r, EntryRegister(r))
<1> SUFFICES ASSUME NEW r PROVE EntryIs(r, EntryRegister(r))
  OBVIOUS
<1> DEFINE At(q) == ArgumentIn(q[1], q[2]) = r
           p == CHOOSE q \in Parameters : At(q)
<1>1. CASE r = Sp
  BY <1>1 DEF EntryIs, EntryRegister
<1>2. CASE r # Sp /\ r = BlockIn
  BY <1>2 DEF EntryIs, EntryRegister
<1>3. CASE r # Sp /\ r # BlockIn /\ ~\E q \in Parameters : At(q)
  BY <1>3 DEF EntryIs, EntryRegister
<1>4. CASE r # Sp /\ r # BlockIn /\ \E q \in Parameters : At(q)
  <2>1. p \in Parameters /\ At(p)
    BY <1>4
  <2>2. EntryRegister(r) = Actual(EntrySp, ArgumentValue(p[1], p[2]).word)
    BY <1>4 DEF EntryRegister
  <2> HIDE DEF p
  <2>3. ArgumentIn(p[1], p[2]) = r
    BY <2>1
  <2> QED BY <1>4, <2>1, <2>2, <2>3 DEF EntryIs
<1> QED BY <1>1, <1>2, <1>3, <1>4

\* The registers at entry are the same after a step.
LEMMA SteadyEntry ==
  ASSUME Steady, Known
  PROVE  \A r : EntryRegister(r)' = EntryRegister(r)
<1>1. Known' /\ EntrySp' = EntrySp /\ BlockIn' = BlockIn /\ Parameters' = Parameters /\ \A f, i : ArgumentIn(f, i)' = ArgumentIn(f, i)
  BY SteadyMachine, SteadyPlaces, SteadyRegisters
<1>2. (Known => \A r, v : EntryIs(r, v) => v = EntryRegister(r))'
  BY EntryIsOne, PTL
<1>3. \A r, v : EntryIs(r, v) => EntryIs(r, v)'
  BY <1>1 DEF EntryIs
<1>4. \A r, v : EntryIs(r, v)' => v = EntryRegister(r)'
  BY <1>1, <1>2
<1> QED BY <1>3, <1>4, EntryIsSome

\* Being in the body is a matter of the processor alone.
LEMMA SteadyBody ==
  ASSUME Steady, Known, NEW n, processor' = n, Body(n)
  PROVE  Body(processor)'
<1>1. /\ Arm' = Arm /\ EntrySp' = EntrySp /\ Preserved' = Preserved /\ AllRegisters' = AllRegisters
      /\ BodySp' = BodySp /\ \A r : EntryRegister(r)' = EntryRegister(r)
  BY SteadyMachine, SteadyFrame, SteadyEntry
<1>2. Ready(processor)'
  BY <1>1 DEF Ready, Body
<1>3. Caller(processor)'
  BY <1>1 DEF Caller, Body
<1>4. \A at : Held(processor, at)' = Held(n, at)
  BY DEF Held
<1>5. /\ processor'.reg[Sp] = Pointing(OfStack, BodySp)'
      /\ Held(processor, <<OfStack, -16>>)' = EntryRegister(Fp)'
      /\ Arm' => Held(processor, <<OfStack, -8>>)' = EntryRegister(Lr)'
      /\ \A r \in Preserved' \ {Sp, Fp} : processor'.reg[r] = EntryRegister(r)'
  BY <1>1, <1>4 DEF Body
<1> QED BY <1>2, <1>3, <1>5 DEF Body

\* So is what is found at a place.
LEMMA SteadyFound ==
  ASSUME Steady, Known, NEW n, processor' = n
  PROVE  /\ \A s, at : Found(processor, s, at)' = Found(n, s, at)
         /\ SlotsFrom(processor)' = SlotsFrom(n)
<1>1. Arm' = Arm /\ ShadowBytes' = ShadowBytes /\ \A at : RegisterOf(at)' = RegisterOf(at)
  BY SteadyMachine, SteadyRegisters
<1>2. ASSUME NEW s, NEW at PROVE Found(processor, s, at)' = Found(n, s, at)
  BY <1>1 DEF Found, Held
<1>3. SlotsFrom(processor)' = SlotsFrom(n)
  BY <1>1 DEF SlotsFrom
<1> QED BY <1>2, <1>3

\* So is whether the promises hold.
LEMMA SteadyGood ==
  ASSUME Steady, Known, NEW n, processor' = n, NEW p, promise' = p, Good(n, p)
  PROVE  Good(processor, promise)'
<1>1. AllPlaces' = AllPlaces /\ SlotBase' = SlotBase /\ frame' = frame
  BY SteadyPlaces, SteadyFrame DEF Steady
<1>2. \A s, at : Found(processor, s, at)' = Found(n, s, at)
  BY SteadyFound
<1>3. \A kind, word : Meant(kind, word)' = Meant(kind, word)
  BY <1>1 DEF Meant
<1>4. \A at, kind, word : AsPromised(processor, at, kind, word)' = AsPromised(n, at, kind, word)
  BY <1>1, <1>2 DEF AsPromised
<1> QED BY <1>1, <1>3, <1>4 DEF Good

\* So is whether the caller has its registers back.
LEMMA SteadyIntact ==
  ASSUME Steady, Known, NEW n, processor' = n, NEW p, promise' = p, Intact(n, p)
  PROVE  Intact(processor, promise)'
<1>1. /\ Arm' = Arm /\ EntrySp' = EntrySp /\ Preserved' = Preserved /\ \A r : EntryRegister(r)' = EntryRegister(r)
  BY SteadyMachine, SteadyEntry
<1>2. (\A s, at : Found(processor, s, at)' = Found(n, s, at)) /\ SlotsFrom(processor)' = SlotsFrom(n)
  BY SteadyFound
<1>3. Caller(processor)'
  BY <1>1 DEF Caller, Intact
<1>4. \A r \in Preserved' \cup (IF Arm' THEN {Lr} ELSE {}) : processor'.reg[r] = EntryRegister(r)'
  BY <1>1 DEF Intact
<1>5. \A at \in DOMAIN p : at[1] \in {"accumulator", "cell", "global"} /\ p[at].word[1] # OfSlot =>
        Same(p[at].kind, Found(processor, SlotsFrom(processor), at)', Actual(SlotsFrom(processor)', p[at].word))
  <2> DEFINE s == SlotsFrom(n)
  <2>1. \A at : Found(processor, SlotsFrom(processor), at)' = Found(n, s, at)
    BY <1>2, SteadyRegisters DEF Found, Held
  <2> QED BY <1>2, <2>1 DEF Intact
<1> QED BY <1>3, <1>4, <1>5 DEF Intact

\* The inductive invariant: in its body a function is what the operations need it to be,
\* before as it was called, after as it has to be left; and the data are the texts.
BackInv ==
  /\ Framed /\ stage \in {"entry", "body", "left"}
  /\ stage = "entry" => processor = Entry0 /\ promise = AtEntry
  /\ stage = "body" => StillGood(processor, promise)
  /\ stage = "left" => Intact(processor, promise)
  /\ DataSays(data, texts)

\* Init establishes the inductive invariant.
LEMMA InitHolds == BackInit => BackInv
<1> SUFFICES ASSUME BackInit PROVE BackInv
  OBVIOUS
<1>1. Framed
  BY BackendsAssumption DEF BackInit, Framed, Known
<1>2. processor = Entry0
  BY DEF BackInit, Entry0
<1>3. stage = "entry" /\ promise = AtEntry /\ data = <<>> /\ texts = <<>>
  BY DEF BackInit
<1> QED BY <1>1, <1>2, <1>3, NothingSaid DEF BackInv

\* Once the processor, the promises and the data are what they have to be.
LEMMA BackInvNext ==
  ASSUME Steady, BackInv, NEW n, processor' = n, NEW p, promise' = p, DataSays(data', texts'),
         \/ stage' = "entry" /\ n = Entry0 /\ p = AtEntry
         \/ stage' = "body" /\ StillGood(n, p)
         \/ stage' = "left" /\ Intact(n, p)
  PROVE  BackInv'
<1>0. Framed /\ Known
  BY DEF BackInv, Framed
<1>1. Framed' /\ DataSays(data, texts)'
  BY <1>0, SteadyFrame
<1>2. CASE stage' = "entry" /\ n = Entry0 /\ p = AtEntry
  <2>1. AtEntry' = AtEntry /\ AllRegisters' = AllRegisters /\ \A r : EntryRegister(r)' = EntryRegister(r)
    BY <1>0, SteadyPlaces, SteadyMachine, SteadyEntry
  <2>2. Entry0' = Entry0
    BY <2>1 DEF Entry0
  <2> QED BY <1>1, <1>2, <2>1, <2>2 DEF BackInv
<1>3. CASE stage' = "body" /\ StillGood(n, p)
  <2>1. Body(processor)' /\ Good(processor, promise)'
    BY <1>0, <1>3, SteadyBody, SteadyGood DEF StillGood
  <2> QED BY <1>1, <1>3, <2>1 DEF BackInv, StillGood
<1>4. CASE stage' = "left" /\ Intact(n, p)
  <2>1. Intact(processor, promise)'
    BY <1>0, <1>4, SteadyIntact
  <2> QED BY <1>1, <1>4, <2>1 DEF BackInv
<1> QED BY <1>2, <1>3, <1>4

\* beginFunction() keeps it: the prologue enters the body with the promises of the entry.
LEMMA EnterHolds == ASSUME BackInv, Enter PROVE BackInv'
<1> DEFINE n == Run(IF Arm THEN ArmAssembled(ArmPrologue) ELSE X86Prologue)
<1>0. /\ Framed /\ Known /\ processor = Entry0 /\ promise = AtEntry /\ stage' = "body" /\ Steady
      /\ processor' = n /\ promise' = promise /\ DataSays(data', texts')
  BY DEF BackInv, Framed, Enter, Steady
<1>1. Ready(Entry0) /\ Points(Entry0, Sp, OfStack, EntrySp)
  BY <1>0, EntryReady
<1>2. Entered(Entry0, n)
  <2>1. CASE Arm
    <3>1. n = Ran(Entry0, ArmAssembled(ArmPrologue)) /\ EntrySp = 0
      BY <1>0, <2>1 DEF Run, EntrySp
    <3> HIDE DEF n
    <3> QED BY <1>0, <1>1, <2>1, <3>1, ArmEnters
  <2>2. CASE ~Arm
    <3>1. n = Ran(Entry0, X86Prologue) /\ EntrySp = -8
      BY <1>0, <2>2 DEF Run, EntrySp
    <3> HIDE DEF n
    <3> QED BY <1>0, <1>1, <2>2, <3>1, X86Enters
  <2> QED BY <2>1, <2>2
<1> HIDE DEF n
<1>3. StillGood(n, AtEntry)
  BY <1>0, <1>2, EnteredKeeps
<1> QED BY <1>0, <1>3, BackInvNext

\* Every operation keeps it.
LEMMA PerformHolds == ASSUME BackInv, Perform PROVE BackInv'
<1>0. /\ Framed /\ Body(processor) /\ Good(processor, promise) /\ stage' = "body" /\ Steady
      /\ DataSays(data', texts')
  BY DEF BackInv, Perform, Steady, StillGood
<1>1. PICK op \in Operations :
        /\ Suits(op) /\ Allowed(promise, op)
        /\ processor' = Run(IF Arm THEN ArmAssembled(ArmCode(op)) ELSE X86Code(op))
        /\ promise' = After(promise, op)
  BY DEF Perform
<1> DEFINE n == Ran(processor, Emitted(op))
           p == After(promise, op)
<1>2. processor' = n /\ promise' = p
  BY <1>1 DEF Run, Emitted
<1>3. Tried(processor, promise, op)
  BY <1>0, <1>1, BackendsAssumption DEF Tried
<1>4. StillGood(n, p)
  BY <1>3, EveryOperationKeeps DEF Keeps
<1> HIDE DEF n, p
<1> QED BY <1>0, <1>2, <1>4, BackInvNext

\* endFunction() keeps it: the epilogue gives the caller its registers back.
LEMMA LeaveHolds == ASSUME BackInv, Leave PROVE BackInv'
<1> DEFINE n == Run(IF Arm THEN ArmAssembled(ArmEpilogue) ELSE X86Epilogue)
<1>0. /\ Framed /\ Body(processor) /\ Good(processor, promise) /\ stage' = "left" /\ Steady
      /\ processor' = n /\ promise' = promise /\ DataSays(data', texts')
  BY DEF BackInv, Leave, Steady, StillGood
<1>1. Ready(processor) /\ processor.reg[Sp] = Pointing(OfStack, BodySp)
  BY <1>0 DEF Body
<1>2. Left(processor, n)
  <2>1. CASE Arm
    <3>1. n = Ran(processor, ArmAssembled(ArmEpilogue))
      BY <2>1 DEF Run
    <3> HIDE DEF n
    <3> QED BY <1>0, <1>1, <2>1, <3>1, ArmLeaves
  <2>2. CASE ~Arm
    <3>1. n = Ran(processor, X86Epilogue)
      BY <2>2 DEF Run
    <3> HIDE DEF n
    <3> QED BY <1>0, <1>1, <2>2, <3>1, X86Leaves
  <2> QED BY <2>1, <2>2
<1> HIDE DEF n
<1>3. Intact(n, promise)
  BY <1>0, <1>2, LeftKeeps
<1> QED BY <1>0, <1>3, BackInvNext

\* Defining a text keeps it.
LEMMA DefineHolds == ASSUME BackInv, Define PROVE BackInv'
<1>0. /\ stage = "body" /\ StillGood(processor, promise) /\ stage' = "body" /\ Steady
      /\ processor' = processor /\ promise' = promise /\ DataSays(data, texts)
  BY DEF BackInv, Define, Steady
<1> DEFINE id == Len(texts) + 1
           Text(n) == [k \in 1..n |-> 100 * Len(texts) + k]
<1>1. PICK n \in Texts :
        /\ texts' = Append(texts, Text(n))
        /\ data' = data \o IF Arm THEN ArmData(id, Text(n)) ELSE X86Data(id, Text(n))
  BY DEF Define
<1>2. Len(texts) \in Nat /\ id \in Nat
  BY <1>0 DEF DataSays
<1>3. Text(n) \in Seq(Nat)
  <2>1. n \in Nat
    BY BackendsAssumption
  <2>2. \A k \in 1..n : 100 * Len(texts) + k \in Nat
    BY <1>2
  <2> QED BY <2>1, <2>2
<1> DEFINE text == Text(n)
           b == IF Arm THEN ArmData(id, text) ELSE X86Data(id, text)
<1>4. texts' = Append(texts, text) /\ data' = data \o b
  BY <1>1
<1> HIDE DEF text
<1>5. Block(b, id, text)
  <2>1. text \in Seq(Nat)
    BY <1>3 DEF text
  <2> HIDE DEF id
  <2> QED BY <1>2, <2>1, ArmDataIs, X86DataIs
<1> HIDE DEF b
<1>6. DataSays(data \o b, Append(texts, text))
  <2>1. text \in Seq(Nat)
    BY <1>3 DEF text
  <2> QED BY <1>0, <1>5, <2>1, MoreSaid
<1>7. DataSays(data', texts')
  BY <1>4, <1>6
<1> QED BY <1>0, <1>7, BackInvNext

\* Every step keeps the inductive invariant.
LEMMA NextHolds == BackInv /\ [BackNext]_backVars => BackInv'
<1> SUFFICES ASSUME BackInv, [BackNext]_backVars PROVE BackInv'
  OBVIOUS
<1>1. CASE Enter
  BY <1>1, EnterHolds
<1>2. CASE Perform
  BY <1>2, PerformHolds
<1>3. CASE Leave
  BY <1>3, LeaveHolds
<1>4. CASE Define
  BY <1>4, DefineHolds
<1>5. CASE UNCHANGED backVars
  <2>1. Steady /\ stage' = stage /\ processor' = processor /\ promise' = promise /\ data' = data /\ texts' = texts
    BY <1>5 DEF backVars, Steady
  <2>2. \/ stage' = "entry" /\ processor = Entry0 /\ promise = AtEntry
        \/ stage' = "body" /\ StillGood(processor, promise)
        \/ stage' = "left" /\ Intact(processor, promise)
    BY <2>1 DEF BackInv
  <2>3. DataSays(data', texts')
    BY <2>1 DEF BackInv
  <2> QED BY <2>1, <2>2, <2>3, BackInvNext
<1> QED BY <1>1, <1>2, <1>3, <1>4, <1>5 DEF BackNext

\* The inductive invariant implies both properties.
LEMMA BackInvKeeps == BackInv => PromisesAreKept /\ CallersFrameIsIntact
<1> SUFFICES ASSUME BackInv PROVE PromisesAreKept /\ CallersFrameIsIntact
  OBVIOUS
<1>1. ASSUME stage = "body"
      PROVE  /\ processor.fine
             /\ \A at \in DOMAIN promise : Holds(at)
             /\ \A id \in DOMAIN texts : Laid(id) = texts[id]
  <2>1. Framed /\ Body(processor) /\ Good(processor, promise) /\ DataSays(data, texts)
    BY <1>1 DEF BackInv, StillGood
  <2>2. processor.fine
    BY <2>1 DEF Body, Ready
  <2>3. SlotsFrom(processor) = SlotBase
    <3>1. processor.reg[Sp][4] = BodySp
      BY <2>1 DEF Body, Pointing
    <3>2. SlotBase = BodySp + ShadowBytes /\ BodySp \in Int /\ (Arm => ShadowBytes = 0) /\ ShadowBytes \in {0, 32}
      BY <2>1, FrameFits
    <3> HIDE DEF SlotBase
    <3> QED BY <3>1, <3>2 DEF SlotsFrom
  <2>4. \A at \in DOMAIN promise : Holds(at)
    BY <2>1, <2>3 DEF Good, AsPromised, Holds
  <2> QED BY <2>1, <2>2, <2>4, LaidIs
<1>2. ASSUME stage = "left", Intact(processor, promise) PROVE CallersFrameIsIntact
  BY <1>2 DEF Intact, Caller, CallersFrameIsIntact, Holds
<1> QED BY <1>1, <1>2 DEF BackInv, PromisesAreKept, CallersFrameIsIntact

\* For every target, every frame of every function, every sequence of operations and
\* every text: after the code an emitter puts out for an operation, every register, slot,
\* global and cell that Emitter.h says holds a value really holds it when that code runs,
\* and the bytes laid at the label of a text are that text.  This is what CodeGen.cpp
\* relies on whichever of the three emitters it is given.
THEOREM EmittersKeepTheirPromises == BackSpec => []PromisesAreKept
<1>1. BackInit => BackInv
  BY InitHolds
<1>2. BackInv /\ [BackNext]_backVars => BackInv'
  BY NextHolds
<1>3. BackInv => PromisesAreKept
  BY BackInvKeeps
<1> QED BY <1>1, <1>2, <1>3, PTL DEF BackSpec

\* For the same: the code endFunction() puts out returns with the stack pointer and every
\* register of Preserved (what the ABI preserves, but for xmm8 on Windows) as beginFunction()
\* found them, has written nothing of the caller's stack but the cell it had the address of,
\* and answers with the accumulators, whatever the body did and however large its frame.
THEOREM FunctionsLeaveTheirCaller == BackSpec => []CallersFrameIsIntact
<1>1. BackInit => BackInv
  BY InitHolds
<1>2. BackInv /\ [BackNext]_backVars => BackInv'
  BY NextHolds
<1>3. BackInv => CallersFrameIsIntact
  BY BackInvKeeps
<1> QED BY <1>1, <1>2, <1>3, PTL DEF BackSpec
===============================================================================
