------------------------------ MODULE MCLexer ------------------------------
(***************************************************************************)
(* An instance of module Lexer: every short text over characters of every  *)
(* kind, compared with the longest match of a lexical grammar.             *)
(***************************************************************************)
EXTENDS Lexer

LOCAL INSTANCE SequencesExt
LOCAL INSTANCE FiniteSetsExt

CONSTANT Length        \* the most characters of a text

Alphabet == {"i", "f", "1", "0", ".", "\"", "/", "=", "\n", " ", "("}
ShortTexts ==
  UNION {[1..n -> Alphabet] : n \in 0..Length}
  \cup UNION {[1..n -> {"\"", "\n", "/", "1"}] : n \in 0..(Length + 2)}
-----------------------------------------------------------------------------
(* The lexical grammar: what the text s may be as a whole. *)
All(s, S) == \A i \in DOMAIN s : s[i] \in S

IsWord(s) == Head(s) \in Letters /\ All(s, Letters \cup Digits)
IsNumeral(s) ==
  \/ All(s, Digits)
  \/ \E k \in 2..(Len(s) - 1) :
       s[k] = "." /\ All(SubSeq(s, 1, k - 1) \o SubSeq(s, k + 1, Len(s)), Digits)
Whole(s) == SubSeq(s, 1, SelectInSeq(Append(s, "."), LAMBDA c : c = ".") - 1)
IsString(s) == Len(s) > 1 /\ {i \in DOMAIN s : s[i] = "\""} = {1, Len(s)}
IsUnterminated(s) == {i \in DOMAIN s : s[i] = "\""} = {1}
IsComment(s) == Len(s) > 1 /\ s[1] = "/" /\ s[2] = "/" /\ \A i \in DOMAIN s : s[i] # "\n"
IsOperator(s) ==
  \/ Len(s) = 1 /\ s[1] \in {"(", ")", "{", "}", ",", "-", "+", ";", "*", "/", "!", "=", "<", ">"}
  \/ Len(s) = 2 /\ s[1] \in {"!", "=", "<", ">"} /\ s[2] = "="

IsLexeme(s) ==
  IsWord(s) \/ IsNumeral(s) \/ IsString(s) \/ IsUnterminated(s) \/ IsComment(s) \/ IsOperator(s)

(* The text is cut, from its start, into the longest lexemes it begins     *)
(* with, or single characters.  A piece is where it starts and ends; these *)
(* are the pieces that start at a wanted position.                         *)
Piece(p) == SubSeq(text, p[1], p[2])
PieceAt(i) ==
  <<i, Max({i} \cup {k \in i..Len(text) : IsLexeme(SubSeq(text, i, k))})>>

Pieces(wanted) ==
  LET from[i \in 1..(Len(text) + 1)] ==
        IF i > Len(text) THEN <<>>
        ELSE (IF i \in wanted THEN <<PieceAt(i)>> ELSE <<>>) \o from[PieceAt(i)[2] + 1]
  IN from[1]

IsTooLarge(s) == IsNumeral(s) /\ OutOfRange(Whole(s))
IsWrong(s) == IsUnterminated(s) \/ IsTooLarge(s) \/ (~IsLexeme(s) /\ s[1] \notin Blanks \cup {"\n"})
IsToken(s) == IsLexeme(s) /\ ~IsWrong(s) /\ ~IsComment(s)

TokenPieces == Pieces({i \in DOMAIN text : IsToken(Piece(PieceAt(i)))})
WrongPieces == Pieces({i \in DOMAIN text : IsWrong(Piece(PieceAt(i)))})
QuotedPieces == Pieces({i \in DOMAIN text : text[i] = "\""})

Map(s, F(_)) == [i \in DOMAIN s |-> F(s[i])]

TypeOf(s) ==
  CASE IsWord(s) -> WordType(s) [] IsNumeral(s) -> "Number" [] IsString(s) -> "String"
    [] s = <<"/">> -> "Slash" [] Head(s) \in DOMAIN Single -> Single[Head(s)]
    [] OTHER -> Double[Head(s)][Len(s)]

(* What a token of text s carries: a number its value, a string what is    *)
(* between its quotes, any other nothing.                                  *)
ValueOf(s) ==
  CASE IsNumeral(s) -> NumberValue(Whole(s), SubSeq(s, Len(Whole(s)) + 2, Len(s)))
    [] IsString(s) -> SubSeq(s, 2, Len(s) - 1)
    [] OTHER -> <<>>

(* The tokens are the longest matches, in order, with the values that the  *)
(* conversions of compiler.go:165 rely on (they would panic otherwise),    *)
(* and nothing is lost: whatever is neither a token nor blank nor a        *)
(* comment is reported, once.                                              *)
ScansLongestMatch ==
  ended =>
    /\ Map(Front(tokens), LAMBDA t : <<t.type, t.lexeme, t.value>>)
         = Map(TokenPieces, LAMBDA p : <<TypeOf(Piece(p)), Piece(p), ValueOf(Piece(p))>>)
    /\ Len(errors) = Len(WrongPieces)

(* Where a piece is: the line on which it ends, and the column in which it *)
(* starts, one too large after a string that ends on the same line and     *)
(* began on an earlier one.                                                *)
LineOf(p) == 1 + Cardinality({i \in 1..p[2] : text[i] = "\n"})
ColumnOf(p) ==
  LET newline == Max({0} \cup {i \in 1..(p[1] - 1) : text[i] = "\n"})
      quoted == QuotedPieces
      inString == \E j \in DOMAIN quoted : quoted[j][1] < newline /\ newline <= quoted[j][2]
  IN p[1] - newline + (IF inString THEN 1 ELSE 0)
Positions(pieces) == Map(pieces, LAMBDA p : <<LineOf(p), ColumnOf(p)>>)

(* Every token, every error and the end of the text have the line on which *)
(* they end and the column where they start, through comments, blanks and  *)
(* strings of several lines (but for the shift that ColumnOf describes).   *)
PositionsExact ==
  ended =>
    /\ Map(tokens, LAMBDA t : <<t.line, t.column>>)
         = Positions(Append(TokenPieces, <<Len(text) + 1, Len(text)>>))
    /\ Map(errors, LAMBDA e : <<e.line, e.column>>) = Positions(WrongPieces)
=============================================================================
