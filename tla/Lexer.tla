------------------------------- MODULE Lexer -------------------------------
(***************************************************************************)
(* internal/lexer: Scan, from the bytes of a source to its tokens.  Every  *)
(* action is one call of scanToken, that is one case of its switch; the    *)
(* loop inside a case is the end of the run of characters it reads over.   *)
(*                                                                         *)
(* A character is a byte of the source, written as a string of length one. *)
(* The value of a number is its decimal digits and how many of them follow *)
(* the point, which is exact where ParseFloat rounds.                      *)
(***************************************************************************)
EXTENDS Integers, Sequences

LOCAL INSTANCE SequencesExt
LOCAL INSTANCE FiniteSetsExt
LOCAL INSTANCE FiniteSets
LOCAL INSTANCE Functions
LOCAL INSTANCE TLC

CONSTANTS Texts,        \* the sources, as sequences of characters
          MaxDigits     \* the most digits before the point that a float64 can hold

ASSUME LexerAssumption == Texts \subseteq Seq(STRING) /\ MaxDigits \in Nat

VARIABLES text,         \* scanner.source
          current,      \* how many characters were read
          line, column, \* where the next character is
          tokens,       \* the tokens added so far
          errors,       \* the diagnostics so far
          ended         \* Scan has returned

vars == <<text, current, line, column, tokens, errors, ended>>

Init ==
  /\ text \in Texts
  /\ current = 0 /\ line = 1 /\ column = 1
  /\ tokens = <<>> /\ errors = <<>>
  /\ ended = FALSE
-----------------------------------------------------------------------------
(* A string of TLA+ as the sequence of its characters. *)
Chars(s) == [i \in 1..Len(s) |-> SubSeq(s, i, i)]

Digits == {"0", "1", "2", "3", "4", "5", "6", "7", "8", "9"}
Letters ==
  {"_", "a", "b", "c", "d", "e", "f", "g", "h", "i", "j", "k", "l", "m", "n", "o", "p", "q",
   "r", "s", "t", "u", "v", "w", "x", "y", "z", "A", "B", "C", "D", "E", "F", "G", "H", "I",
   "J", "K", "L", "M", "N", "O", "P", "Q", "R", "S", "T", "U", "V", "W", "X", "Y", "Z"}
Blanks == {" ", "\r", "\t"}

(* The tokens of one character, and those of one that = may follow. *)
Single ==
  [c \in {"(", ")", "{", "}", ",", "-", "+", ";", "*"} |->
     CASE c = "(" -> "LeftParen" [] c = ")" -> "RightParen" [] c = "{" -> "LeftBrace"
       [] c = "}" -> "RightBrace" [] c = "," -> "Comma" [] c = "-" -> "Minus"
       [] c = "+" -> "Plus" [] c = ";" -> "Semicolon" [] c = "*" -> "Star"]
Double ==
  [c \in {"!", "=", "<", ">"} |->
     CASE c = "!" -> <<"Bang", "BangEqual">> [] c = "=" -> <<"Equal", "EqualEqual">>
       [] c = "<" -> <<"Less", "LessEqual">> [] c = ">" -> <<"Greater", "GreaterEqual">>]

Keywords ==
  [and |-> "And", else |-> "Else", false |-> "False", fun |-> "Fun", if |-> "If",
   nil |-> "Nil", or |-> "Or", print |-> "Print", return |-> "Return", true |-> "True",
   var |-> "Var", while |-> "While"]

WordType(lexeme) ==
  IF \E k \in DOMAIN Keywords : Chars(k) = lexeme
  THEN Keywords[CHOOSE k \in DOMAIN Keywords : Chars(k) = lexeme]
  ELSE "Identifier"

(* strconv.ParseFloat, of the digits before and after the point. *)
DigitValue(c) == CHOOSE d \in 0..9 : ToString(d) = c
NumberValue(whole, fraction) ==
  [digits |-> FoldLeft(LAMBDA n, c : 10 * n + DigitValue(c), 0, whole \o fraction),
   scale |-> Len(fraction)]
OutOfRange(whole) ==
  \E i \in DOMAIN whole : whole[i] # "0" /\ Len(whole) - i >= MaxDigits

(* The longest run of characters in S, or up to one, from a position on.   *)
RunEnd(i, S) == Max({k \in i..Len(text) : \A m \in (i + 1)..k : text[m] \in S})
Before(i, c) == Max({k \in i..Len(text) : \A m \in (i + 1)..k : text[m] # c})
Between(i, k) == SubSeq(text, i + 1, k)

(* A point belongs to a number only if a digit follows it. *)
PointedAnyway(whole) == whole + 1 <= Len(text) /\ text[whole + 1] = "."
Pointed(whole) ==
  whole + 2 <= Len(text) /\ text[whole + 1] = "." /\ text[whole + 2] \in Digits

LinesUncounted(i, k) == {}
Lines(i, k) == {m \in (i + 1)..k : text[m] = "\n"}

(* peek, and peekNext: there is no character past the end. *)
Peek(n) == IF current + n <= Len(text) THEN text[current + n] ELSE ""

Reading == ~ended /\ current < Len(text)

(* advance to position k of the same line. *)
AdvanceTo(k) ==
  /\ current' = k
  /\ column' = column + (k - current)
  /\ UNCHANGED <<text, line, ended>>

(* add, and fail: both after the case has advanced. *)
Add(type, value) ==
  /\ tokens' = Append(tokens, [type |-> type, lexeme |-> Between(current, current'),
                               line |-> line', column |-> column, value |-> value])
  /\ UNCHANGED errors
Fail(message) ==
  /\ errors' = Append(errors, [line |-> line', column |-> column, message |-> message])
  /\ UNCHANGED tokens
Skip == UNCHANGED <<tokens, errors>>
-----------------------------------------------------------------------------
OneCharacter ==
  /\ Reading /\ Peek(1) \in DOMAIN Single
  /\ AdvanceTo(current + 1)
  /\ Add(Single[Peek(1)], <<>>)

(* addIf *)
OneOrTwo ==
  /\ Reading /\ Peek(1) \in DOMAIN Double
  /\ LET n == IF Peek(2) = "=" THEN 2 ELSE 1
     IN AdvanceTo(current + n) /\ Add(Double[Peek(1)][n], <<>>)

SlashOrComment ==
  /\ Reading /\ Peek(1) = "/"
  /\ IF Peek(2) = "/"
     THEN AdvanceTo(Before(current + 2, "\n")) /\ Skip
     ELSE AdvanceTo(current + 1) /\ Add("Slash", <<>>)

Blank ==
  /\ Reading /\ Peek(1) \in Blanks
  /\ AdvanceTo(current + 1)
  /\ Skip

Newline ==
  /\ Reading /\ Peek(1) = "\n"
  /\ current' = current + 1
  /\ line' = line + 1 /\ column' = 1
  /\ Skip
  /\ UNCHANGED <<text, ended>>

(* stringToken.  The loop sets the column to 1 before it advances over a   *)
(* newline, so that the character after the newline gets column 2.         *)
StringToken ==
  /\ Reading /\ Peek(1) = "\""
  /\ LET closing == Before(current + 1, "\"")
         k == Min({closing + 1, Len(text)})
         newlines == Lines(current, k)
     IN /\ current' = k
        /\ line' = line + Cardinality(newlines)
        /\ column' = IF newlines = {} THEN column + (k - current) ELSE k - Max(newlines) + 2
        /\ IF closing = Len(text) THEN Fail("unterminated string")
           ELSE Add("String", Between(current + 1, closing))
  /\ UNCHANGED <<text, ended>>

(* numberToken *)
NumberToken ==
  /\ Reading /\ Peek(1) \in Digits
  /\ LET whole == RunEnd(current, Digits)
         k == IF Pointed(whole) THEN RunEnd(whole + 1, Digits) ELSE whole
     IN /\ AdvanceTo(k)
        /\ IF OutOfRange(Between(current, whole)) THEN Fail("invalid number literal")
           ELSE Add("Number", NumberValue(Between(current, whole), Between(whole + 1, k)))

Word ==
  /\ Reading /\ Peek(1) \in Letters
  /\ AdvanceTo(RunEnd(current, Letters \cup Digits))
  /\ Add(WordType(Between(current, current')), <<>>)

Unexpected ==
  /\ Reading
  /\ Peek(1) \notin Digits \cup Letters \cup Blanks \cup DOMAIN Single \cup DOMAIN Double
                    \cup {"/", "\n", "\""}
  /\ AdvanceTo(current + 1)
  /\ Fail("unexpected character")

(* The end of Scan, with the token EOF. *)
EndOfText ==
  /\ ~ended /\ current = Len(text)
  /\ ended' = TRUE
  /\ tokens' = Append(tokens, [type |-> "EOF", lexeme |-> <<>>, line |-> line,
                               column |-> column, value |-> <<>>])
  /\ UNCHANGED <<text, current, line, column, errors>>

Next ==
  \/ OneCharacter \/ OneOrTwo \/ SlashOrComment \/ Blank \/ Newline
  \/ StringToken \/ NumberToken \/ Word \/ Unexpected
  \/ EndOfText

Spec == Init /\ [][Next]_vars
=============================================================================
