--------------------------------- MODULE Lexer ---------------------------------
(***************************************************************************)
(* The lexer (src/src/Lexer.cpp): characters in, tokens with their lines   *)
(* out, or the line of the first thing that is none.  One action is one    *)
(* step() of Lexer::run().  What is lexed is a text put together from      *)
(* pieces, so that it is known what each stretch of it was meant to be.    *)
(***************************************************************************)
EXTENDS Integers, SequencesExt

CONSTANTS
  Sources,           \* the texts: sequences of pieces
  Letters, Lower,    \* the letters and _, and each one lowercased
  Digits,            \* the value of each digit
  Keywords,          \* lowercased
  Follow,            \* of a byte beyond ASCII, how many must follow to make a character
  GreatestInt,
  GreatestExponent   \* greater powers of ten are infinite, all of this one is not

ASSUME LexerAssumption == GreatestInt \in Nat /\ GreatestExponent \in Nat

VARIABLES
  source,  \* the pieces
  text,    \* src_
  at,      \* i_, from 1
  line,    \* line_
  made,    \* the tokens
  failure  \* the line of the error and what it names, once there is one

lexVars == <<source, text, at, line, made, failure>>

Written(pieces) == FlattenSeq([k \in DOMAIN pieces |-> pieces[k].written])

NoFailure == [line |-> 0, names |-> <<>>]

LexInit ==
  /\ source \in Sources
  /\ text = Written(source)
  /\ at = 1 /\ line = 1
  /\ made = <<>>
  /\ failure = NoFailure

-------------------------------------------------------------------------------
Char(i) == IF i \in DOMAIN text THEN text[i] ELSE "nothing"

\* The first place from i on that has something else.
After(i, these) ==
  CHOOSE j \in i..Len(text) + 1 : Char(j) \notin these /\ \A k \in i..j - 1 : Char(k) \in these

Until(i, these) ==
  CHOOSE j \in i..Len(text) + 1 :
    (j > Len(text) \/ Char(j) \in these) /\ \A k \in i..j - 1 : Char(k) \notin these

Blanks == {" ", "\t", "\r", "\n"}

WordCharacters == Letters \cup DOMAIN Digits

Lexing == failure = NoFailure /\ at <= Len(text)

AtComment == Char(at) = "/" /\ Char(at + 1) = "/"

Token(kind, written) == [kind |-> kind, text |-> written, line |-> line]

Push(kind, written, past) ==
  made' = Append(made, Token(kind, written)) /\ at' = past /\ UNCHANGED <<line, failure>>

Fail(names) == failure' = [line |-> line, names |-> names] /\ UNCHANGED <<at, line, made>>

\* Mutant: the end of the line goes with the comment.
CommentEndsAfterLine == IF Until(at, {"\n"}) > Len(text) THEN Until(at, {"\n"})
                        ELSE Until(at, {"\n"}) + 1

\* The end of the line is left to be counted.
CommentEnds == Until(at, {"\n"})

Comment == AtComment /\ at' = CommentEnds /\ UNCHANGED <<line, made, failure>>

Blank ==
  /\ Char(at) \in Blanks
  /\ line' = IF Char(at) = "\n" THEN line + 1 ELSE line
  /\ at' = at + 1
  /\ UNCHANGED <<made, failure>>

\* A string ends on its line.
String ==
  /\ Char(at) = "quote"
  /\ LET close == Until(at + 1, {"quote", "\n"})
     IN  IF Char(close) = "quote" THEN Push("StringLiteral", SubSeq(text, at + 1, close - 1), close + 1)
         ELSE Fail(<<"quote">>)

Word ==
  /\ Char(at) \in Letters
  /\ LET past == After(at, WordCharacters)
         raw == SubSeq(text, at, past - 1)
         key == [k \in DOMAIN raw |-> IF raw[k] \in Letters THEN Lower[raw[k]] ELSE raw[k]]
     IN  IF key \in Keywords THEN Push("Keyword", key, past) ELSE Push("Identifier", raw, past)

-------------------------------------------------------------------------------
(* Numbers: digits and dots, and after an e whatever digits there are. *)

Exponents == {"e", "E"}

MantissaEnds == After(at, DOMAIN Digits \cup {"."})

\* Of the exponent at i, past its sign.
PastSign(i) == IF Char(i + 1) \in {"+", "-"} THEN i + 2 ELSE i + 1

NumberEnds == IF Char(MantissaEnds) \in Exponents THEN After(PastSign(MantissaEnds), DOMAIN Digits)
              ELSE MantissaEnds

ValueOf(digits) == FoldLeft(LAMBDA value, d : 10 * value + Digits[d], 0, digits)

Between(i, j) == SubSeq(text, i, j - 1)

\* strtod() takes a number whole that has one point at most, and digits after an e.
OneNumber ==
  /\ Cardinality({i \in at..MantissaEnds - 1 : Char(i) = "."}) <= 1
  /\ Char(MantissaEnds) \in Exponents => PastSign(MantissaEnds) < NumberEnds

\* The power of ten its first digit stands for that is not 0.
Magnitude ==
  LET point == Until(at, {"."} \cup Exponents)
      first == After(at, {"0", "."})
      power == ValueOf(Between(PastSign(MantissaEnds), NumberEnds))
  IN  point - first - (IF first < point THEN 1 ELSE 0)
        + (IF Char(MantissaEnds) \notin Exponents THEN 0
           ELSE IF Char(MantissaEnds + 1) = "-" THEN -power ELSE power)

RealIsOK ==
  OneNumber /\ (After(at, {"0", "."}) >= MantissaEnds \/ Magnitude <= GreatestExponent)

IsReal == Char(MantissaEnds) \in Exponents \/ "." \in ToSet(Between(at, MantissaEnds))

Number ==
  /\ Char(at) \in DOMAIN Digits
  /\ LET raw == Between(at, NumberEnds)
     IN  IF IsReal
         THEN IF RealIsOK THEN Push("RealLiteral", raw, NumberEnds) ELSE Fail(raw)
         ELSE IF ValueOf(raw) <= GreatestInt THEN Push("IntLiteral", raw, NumberEnds)
         ELSE Fail(raw)

-------------------------------------------------------------------------------
Doubles == {<<"+", ":">>, <<"-", ":">>, <<"!", "=">>, <<"<", "=">>, <<">", "=">>, <<"?", "?">>}

Singles == {"?", "(", ")", "{", "}", "[", "]", ",", ".", ":",
            "-", "+", "*", "/", "%", "^", "=", "<", ">", "&", "|"}

\* decodeUtf8(): the character at, or its first byte if what must follow does not.
Glyph ==
  LET more == IF Char(at) \in DOMAIN Follow THEN Follow[Char(at)] ELSE 0
  IN  IF at + more <= Len(text) /\ \A k \in 1..more : Char(at + k) = "follows"
      THEN SubSeq(text, at, at + more) ELSE <<Char(at)>>

\* Mutant: the single ones are looked at first.
PunctuationOf(pair) == IF pair[1] \in Singles THEN <<pair[1]>> ELSE pair

Longest(pair) == IF pair \in Doubles THEN pair ELSE <<pair[1]>>

Punctuation ==
  /\ ~AtComment /\ Char(at) \notin Blanks \cup WordCharacters \cup {"quote"}
  /\ LET found == Longest(<<Char(at), Char(at + 1)>>)
     IN  IF Len(found) = 2 \/ Char(at) \in Singles THEN Push("Punctuation", found, at + Len(found))
         ELSE Fail(Glyph)

LexNext ==
  /\ Lexing
  /\ Comment \/ Blank \/ String \/ Word \/ Number \/ Punctuation
  /\ UNCHANGED <<source, text>>

LexSpec == LexInit /\ [][LexNext]_lexVars

-------------------------------------------------------------------------------
LineAt(k) == 1 + Len(SelectSeq(Written(SubSeq(source, 1, k - 1)), LAMBDA c : c = "\n"))

Meant(k) == [kind |-> source[k].kind, text |-> source[k].means, line |-> LineAt(k)]

Tokens(count) ==
  LET pieces == SelectSeq([k \in 1..count |-> k], LAMBDA k : source[k].kind \notin {"Gap", "Mistake"})
  IN  [k \in DOMAIN pieces |-> Meant(pieces[k])]

\* What was written as one token is read as that token, with its line, whatever
\* touches it and however it is laid out; and of a text with a mistake everything
\* before it, and then the mistake, whole and at its line (Lexer.cpp: Lexer::run()).
LexesWhatIsWritten ==
  ~Lexing =>
    LET mistakes == {k \in DOMAIN source : source[k].kind = "Mistake"}
    IN  IF mistakes = {} THEN made = Tokens(Len(source)) /\ failure = NoFailure
        ELSE LET k == CHOOSE i \in mistakes : \A j \in mistakes : i <= j
             IN  /\ made = Tokens(k)
                 /\ failure = [line |-> LineAt(k), names |-> source[k].means]
===============================================================================
