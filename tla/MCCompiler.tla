----------------------------- MODULE MCCompiler -----------------------------
(***************************************************************************)
(* Instances of module Compiler: every short sequence of tokens or of      *)
(* larger pieces, and sources at the limits.                               *)
(***************************************************************************)
EXTENDS Compiler, TLC

LOCAL INSTANCE SequencesExt

AllSymbols == STRING

(* The type of each word that is not a name or a number. *)
Types ==
  "(" :> "LeftParen" @@ ")" :> "RightParen" @@ "{" :> "LeftBrace" @@ "}" :> "RightBrace" @@
  "," :> "Comma" @@ "-" :> "Minus" @@ "+" :> "Plus" @@ ";" :> "Semicolon" @@ "=" :> "Equal" @@
  "and" :> "And" @@ "else" :> "Else" @@ "fun" :> "Fun" @@ "if" :> "If" @@ "nil" :> "Nil" @@
  "or" :> "Or" @@ "print" :> "Print" @@ "return" :> "Return" @@ "var" :> "Var" @@
  "while" :> "While"

TokenOf(word) ==
  CASE word \in DOMAIN Types -> <<Types[word], <<>>>>
    [] word = "1" -> <<"Number", Number(1)>>
    [] OTHER -> <<"Identifier", <<word>>>>

Tokens(words) == [i \in DOMAIN words |-> TokenOf(words[i])]

Scanned(tokens) == [tokens |-> tokens, errors |-> <<>>]

Repeat(words, n) == FlattenSeq([i \in 1..n |-> words])
-----------------------------------------------------------------------------
CONSTANTS WordLength, ExpressionLength, PieceLength     \* the most of each in a source

SequencesUpTo(S, n) == UNION {[1..m -> S] : m \in 0..n}

(* One word of every type that the parser treats in a way of its own.      *)
Words == {"(", ")", "{", "}", ",", "-", "+", ";", "=", "and", "or", "a", "1", "nil",
          "fun", "var", "if", "else", "while", "print", "return"}

WordSources ==
  {Scanned(tokens) : tokens \in SequencesUpTo({TokenOf(word) : word \in Words}, WordLength)}

(* Expressions, each ended by a semicolon. *)
ExpressionWords == {"a", "=", "-", "or", "and", "(", ")", ","}

ExpressionSources ==
  {Scanned(Append(tokens, TokenOf(";"))) :
     tokens \in SequencesUpTo({TokenOf(word) : word \in ExpressionWords}, ExpressionLength)}

ShortSources == WordSources \cup ExpressionSources

(* Pieces that open, close and nest statements, functions and scopes, at   *)
(* the top level and in a function that has variables around it.           *)
Pieces ==
  {<<"fun", "g", "(", "c", ")", "{">>, <<"{">>, <<"}">>,
   <<"var", "a", ";">>, <<"var", "c", "=", "a", "or", "c", ";">>,
   <<"b", "=", "a", "and", "f", "(", "b", ",", "c", ")", ";">>,
   <<"if", "(", "a", ")">>, <<"else">>, <<"while", "(", "b", ")">>, <<"return", "a", ";">>}

Opening == Tokens(<<"{", "var", "b", ";", "fun", "f", "(", "a", ")", "{">>)
Closing == Tokens(<<"}", "}">>)

PieceSources ==
  LET flat(n) == {FlattenSeq(pieces) :
                    pieces \in SequencesUpTo({Tokens(piece) : piece \in Pieces}, n)}
  IN {Scanned(tokens) : tokens \in flat(PieceLength - 1)}
     \cup {Scanned(Opening \o tokens \o Closing) : tokens \in flat(PieceLength)}

(***************************************************************************)
(* The grammar of the language.  Ends gives, for a phrase and a position,  *)
(* the positions at which such a phrase may end.                           *)
(***************************************************************************)
Phrases == {"Declarations", "Statement", "Expression", "Operands", "Operand", "Calls",
            "Arguments", "Parameters"}

Ends(tokens) ==
  LET After(positions, types) ==
        {i + 1 : i \in {k \in positions : k < Len(tokens) /\ tokens[k + 1][1] \in types}}
      ends[phrase \in Phrases, i \in 0..Len(tokens)] ==
        LET Via(positions, next) == UNION {ends[next, k] : k \in positions}
            On(types) == After({i}, types)
            Ended(positions) == After(positions, {"Semicolon"})
            Parenthesized(positions) ==
              After(Via(After(positions, {"LeftParen"}), "Expression"), {"RightParen"})
            Braced(positions) ==
              After(Via(After(positions, {"LeftBrace"}), "Declarations"), {"RightBrace"})
        IN CASE phrase = "Declarations" ->
                  LET named == After(On({"Var"}), {"Identifier"})
                      variable == Ended(named \cup
                                        Via(After(named, {"Equal"}), "Expression"))
                      opened == After(After(On({"Fun"}), {"Identifier"}), {"LeftParen"})
                      function == Braced(After(opened \cup Via(opened, "Parameters"),
                                               {"RightParen"}))
                  IN {i} \cup Via(variable \cup function \cup ends["Statement", i],
                                  "Declarations")
             [] phrase = "Statement" ->
                  LET then == Via(Parenthesized(On({"If"})), "Statement")
                  IN Ended(Via({i} \cup On({"Print", "Return"}), "Expression"))
                     \cup Ended(On({"Return"}))
                     \cup then \cup Via(After(then, {"Else"}), "Statement")
                     \cup Via(Parenthesized(On({"While"})), "Statement")
                     \cup Braced({i})
             [] phrase = "Expression" ->
                  Via(After(On({"Identifier"}), {"Equal"}), "Expression")
                  \cup ends["Operands", i]
             [] phrase = "Operands" ->
                  LET first == ends["Operand", i]
                  IN first \cup Via(After(first, DOMAIN Operations \cup {"And", "Or"}),
                                    "Operands")
             [] phrase = "Operand" ->
                  Via(On({"Minus", "Bang"}), "Operand")
                  \cup Via(On(Literals \cup DOMAIN Keyword \cup {"Identifier"})
                           \cup Parenthesized({i}), "Calls")
             [] phrase = "Calls" ->
                  LET opened == On({"LeftParen"})
                  IN {i} \cup Via(After(opened \cup Via(opened, "Arguments"),
                                        {"RightParen"}), "Calls")
             [] phrase = "Arguments" ->
                  LET first == ends["Expression", i]
                  IN first \cup Via(After(first, {"Comma"}), "Arguments")
             [] phrase = "Parameters" ->
                  LET first == On({"Identifier"})
                  IN first \cup Via(After(first, {"Comma"}), "Parameters")
  IN ends

InGrammar(tokens) == Len(tokens) \in Ends(tokens)["Declarations", 0]

(* The errors of a source that is in the grammar. *)
StaticErrors ==
  {"already declared", "read in its own initializer", "return from top-level code"}

(* The parser accepts exactly the language: a source that compiles is in   *)
(* the grammar, and one that is in the grammar is refused only for what it *)
(* declares or returns, never for a token.                                 *)
AcceptsLanguage ==
  /\ outcome = "compiled" => InGrammar(source)
  /\ outcome = "failed" /\ InGrammar(source) => diagnostics[1] \in StaticErrors
-----------------------------------------------------------------------------
(* Sources that use n of what is limited, with the most that is allowed.   *)
Names == <<"a", "b", "c", "d", "e">>
Declared(n) == FlattenSeq([i \in 1..n |-> <<"var", Names[i], ";">>])
Listed(n) == FlattenSeq([i \in 1..n |-> IF i = 1 THEN <<Names[1]>> ELSE <<",", Names[i]>>])

Bounded(n) ==
  {<<Repeat(<<"1", ";">>, n), n <= ByteSize>>,
   <<<<"{">> \o Declared(n) \o <<"}">>, n <= ByteSize - 1>>,
   <<<<"fun", "f", "(">> \o Listed(n) \o <<")", "{", "}">>, n <= ByteSize - 1>>,
   <<<<"{", "var", "a", ";", "a", "(">>
     \o Tail(Repeat(<<",", "a">>, n)) \o <<")", ";", "}">>, n <= ByteSize - 1>>,
   <<<<"{", "var", "a", ";", "var", "b", ";", "fun", "f", "(", ")", "{",
       "var", "c", ";", "var", "d", ";", "fun", "g", "(", ")", "{">>
     \o FlattenSeq([i \in 1..n |-> <<<<"a", "b", "c", "d", "f">>[i], ";">>])
     \o <<"a", ";", "}", "}", "}">>, n <= ByteSize>>}

(* Jumps: a false condition leads past POP, n statements of 2 bytes and a  *)
(* JUMP or LOOP; the loop leads back over its condition too.               *)
Long(n) ==
  {<<<<"if", "(", "nil", ")", "{">> \o Repeat(<<"nil", ";">>, n) \o <<"}">>,
     1 + 2 * n + 3 < ShortSize>>,
   <<<<"if", "(", "nil", ")", "nil", ";", "else", "{">> \o Repeat(<<"nil", ";">>, n) \o <<"}">>,
     1 + 2 * n < ShortSize>>,
   <<<<"while", "(", "nil", ")", "{">> \o Repeat(<<"nil", ";">>, n) \o <<"}">>,
     4 + 1 + 2 * n + 3 < ShortSize>>,
   <<<<"nil", "and", "nil">> \o Repeat(<<"+", "nil">>, n) \o <<";">>, 1 + 1 + 2 * n < ShortSize>>,
   <<<<"nil", "or", "nil">> \o Repeat(<<"+", "nil">>, n) \o <<";">>, 1 + 1 + 2 * n < ShortSize>>}

Limited == UNION {Bounded(n) : n \in 1..5} \cup UNION {Long(n) : n \in 0..12}

LimitSources == {Scanned(Tokens(limited[1])) : limited \in Limited}
Allowed == {Tokens(limited[1]) : limited \in {l \in Limited : l[2]}}

(* The limits are where the source says: a chunk has as many constants, a  *)
(* function as many locals, parameters and captured variables, a call as   *)
(* many arguments and a jump as long a way as its operand can express, and *)
(* the next one is refused.                                                *)
LimitsExact == outcome # "none" => (outcome = "compiled" <=> source \in Allowed)
=============================================================================
