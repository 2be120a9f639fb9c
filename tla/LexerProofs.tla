---------------------------- MODULE LexerProofs ----------------------------
(***************************************************************************)
(* Proof that Scan cuts every text into its longest lexemes, and gives     *)
(* each token its line and column.                                         *)
(*                                                                         *)
(* The pieces of a text are defined without the scanner, by a recursive    *)
(* function of the position where one starts; that it exists for every     *)
(* text is shown first, from the shortest end of the text on which it      *)
(* would not.  The invariant LexInv then says that what was emitted and    *)
(* reported so far is what the pieces behind current call for, that line   *)
(* and column are those of the character at current, and that every quoted *)
(* piece behind current has ended, so that columns count from its end.     *)
(* Each step of the scanner takes one piece: a lemma for each kind of      *)
(* first character shows that no longer lexeme begins there.               *)
(***************************************************************************)
EXTENDS MCLexer, SequenceTheorems

LOCAL INSTANCE SequencesExt
LOCAL INSTANCE FiniteSetsExt
LOCAL INSTANCE FiniteSetTheorems
LOCAL INSTANCE WellFoundedInduction
LOCAL INSTANCE TLC
LOCAL INSTANCE TLAPS
-----------------------------------------------------------------------------
(* Facts about numbers and sequences. *)

Less == {r \in Nat \X Nat : r[1] < r[2]}

LEMMA LessIs == OpToRel(<, Nat) = Less
<1>1. \A r : r \in OpToRel(<, Nat) <=> r \in Less
  BY DEF OpToRel, Less
<1> QED  BY <1>1

(* A set of natural numbers that is not empty has a least element, and a   *)
(* greatest one if it is bounded.                                          *)
LEMMA Least ==
  ASSUME NEW S, S \subseteq Nat, S # {}
  PROVE  \E n \in S : \A m \in S : n <= m
<1>1. IsWellFoundedOn(Less, Nat)
  BY LessIs, NatLessThanWellFounded, Zenon
<1>2. PICK n \in S : \A y \in S : ~ (<<y, n>> \in Less)
  BY <1>1, WFMin
<1>3. \A y \in S : n \in Nat /\ y \in Nat /\ ~(y < n)
  BY <1>2 DEF Less
<1> QED  BY <1>2, <1>3

LEMMA MaxIs ==
  ASSUME NEW S, S \subseteq Int, NEW m \in S, \A x \in S : x <= m
  PROVE  Max(S) = m
<1>1. \E x \in S : \A y \in S : x >= y
  OBVIOUS
<1>2. Max(S) \in S /\ \A y \in S : Max(S) >= y
  BY <1>1 DEF Max
<1> DEFINE g == Max(S)
<1>3. g \in Int /\ m \in Int /\ g >= m /\ m >= g
  BY <1>2
<1> QED  BY <1>3

LEMMA MinIs ==
  ASSUME NEW S, S \subseteq Int, NEW m \in S, \A x \in S : x >= m
  PROVE  Min(S) = m
<1>1. \E x \in S : \A y \in S : x <= y
  OBVIOUS
<1>2. Min(S) \in S /\ \A y \in S : Min(S) <= y
  BY <1>1 DEF Min
<1> DEFINE g == Min(S)
<1>3. g \in Int /\ m \in Int /\ g <= m /\ m <= g
  BY <1>2
<1> QED  BY <1>3

LEMMA Greatest ==
  ASSUME NEW n \in Nat, NEW S, S \subseteq 0..n, S # {}
  PROVE  Max(S) \in S /\ \A x \in S : x <= Max(S)
<1> DEFINE D == {d \in Nat : \E x \in S : d = n - x}
<1>1. D \subseteq Nat /\ D # {}
  <2>1. PICK x \in S : x \in 0..n
    OBVIOUS
  <2>2. n - x \in D
    BY <2>1
  <2> QED  BY <2>2
<1>2. PICK d \in D : \A e \in D : d <= e
  BY <1>1, Least
<1>3. PICK m \in S : d = n - m
  BY <1>2
<1>4. \A x \in S : n - x \in D
  OBVIOUS
<1>5. \A x \in S : x <= m
  BY <1>2, <1>3, <1>4
<1>6. S \subseteq Int
  OBVIOUS
<1>7. Max(S) = m
  BY <1>3, <1>5, <1>6, MaxIs
<1> QED  BY <1>3, <1>5, <1>7

(* Parts of a sequence. *)
LEMMA OneIs ==
  ASSUME NEW S, NEW s \in Seq(S), Len(s) = 1
  PROVE  s = <<s[1]>>
OBVIOUS

LEMMA PartFacts ==
  ASSUME NEW S, NEW s \in Seq(S), NEW i \in 1..(Len(s) + 1), NEW k \in 0..Len(s)
  PROVE  /\ SubSeq(s, i, k) \in Seq(S)
         /\ Len(SubSeq(s, i, k)) = IF i <= k THEN k - i + 1 ELSE 0
         /\ \A m \in 1..(k - i + 1) : SubSeq(s, i, k)[m] = s[i + m - 1]
         /\ DOMAIN SubSeq(s, i, k) = 1..Len(SubSeq(s, i, k))
         /\ k < i => SubSeq(s, i, k) = <<>>
<1>1. \A j \in i..k : s[j] \in S
  BY LenProperties
<1>2. SubSeq(s, i, k) \in Seq(S)
  BY <1>1, SubSeqProperties
<1> QED  BY <1>1, <1>2, SubSeqProperties, SubSeqEmpty, LenProperties
-----------------------------------------------------------------------------
(* Characters are of different kinds. *)

Signs == {"(", ")", "{", "}", ",", "-", "+", ";", "*"}
Firsts == {"!", "=", "<", ">"}
Quote == "\""

LEMMA SingleIs == DOMAIN Single = Signs
BY DEF Single, Signs

LEMMA DoubleIs == DOMAIN Double = Firsts
BY DEF Double, Firsts

LEMMA Different ==
  ASSUME NEW c
  PROVE  /\ c \in Letters => c \notin Digits \cup Blanks \cup Signs \cup Firsts \cup {"/", "\n", Quote, "."}
         /\ c \in Digits => c \notin Blanks \cup Signs \cup Firsts \cup {"/", "\n", Quote, "."}
         /\ c \in Blanks => c \notin Signs \cup Firsts \cup {"/", "\n", Quote, "."}
         /\ c \in Signs => c \notin Firsts \cup {"/", "\n", Quote, "."}
         /\ c \in Firsts => c \notin {"/", "\n", Quote, "."}
<1>1. c \in Firsts => c \notin {"/", "\n", Quote, "."}
  BY DEF Firsts, Quote
<1>2. c \in Signs => c \notin Firsts \cup {"/", "\n", Quote, "."}
  BY DEF Signs, Firsts, Quote
<1>3. c \in Blanks => c \notin Signs \cup Firsts \cup {"/", "\n", Quote, "."}
  BY DEF Blanks, Signs, Firsts, Quote
<1>4. c \in Digits => c \notin Blanks \cup Signs \cup Firsts \cup {"/", "\n", Quote, "."}
  BY DEF Digits, Blanks, Signs, Firsts, Quote
<1>5. c \in Letters => c \notin Digits
  <2>1. "0" \notin Letters /\ "1" \notin Letters /\ "2" \notin Letters /\ "3" \notin Letters /\ "4" \notin Letters
    BY ZenonT(60) DEF Letters
  <2>2. "5" \notin Letters /\ "6" \notin Letters /\ "7" \notin Letters /\ "8" \notin Letters /\ "9" \notin Letters
    BY ZenonT(60) DEF Letters
  <2>3. \A d \in Digits : d \notin Letters
    BY <2>1, <2>2, Zenon DEF Digits
  <2> QED  BY <2>3
<1>6. c \in Letters => c \notin Blanks \cup Signs \cup Firsts \cup {"/", "\n", Quote, "."}
  <2>1. " " \notin Letters /\ "\r" \notin Letters /\ "\t" \notin Letters /\ "/" \notin Letters /\ "\n" \notin Letters /\ Quote \notin Letters /\ "." \notin Letters
    BY ZenonT(60) DEF Letters, Quote
  <2>2. "(" \notin Letters /\ ")" \notin Letters /\ "{" \notin Letters /\ "}" \notin Letters /\ "," \notin Letters
    BY ZenonT(60) DEF Letters
  <2>3. "-" \notin Letters /\ "+" \notin Letters /\ ";" \notin Letters /\ "*" \notin Letters
    BY ZenonT(60) DEF Letters
  <2>4. "!" \notin Letters /\ "=" \notin Letters /\ "<" \notin Letters /\ ">" \notin Letters
    BY ZenonT(60) DEF Letters
  <2>5. \A d \in Blanks \cup Signs \cup Firsts \cup {"/", "\n", Quote, "."} : d \notin Letters
    BY <2>1, <2>2, <2>3, <2>4, Zenon DEF Blanks, Signs, Firsts
  <2> QED  BY <2>5
<1> QED  BY <1>1, <1>2, <1>3, <1>4, <1>5, <1>6
-----------------------------------------------------------------------------
(* The longest runs, and what a lexeme is by the positions of the text.    *)

LEMMA RunIs ==
  ASSUME text \in Seq(STRING), NEW i \in 0..Len(text), NEW S
  PROVE  LET e == RunEnd(i, S)
         IN /\ e \in i..Len(text)
            /\ \A m \in (i + 1)..e : text[m] \in S
            /\ \A k \in i..Len(text) : (\A m \in (i + 1)..k : text[m] \in S) => k <= e
<1> DEFINE K == {k \in i..Len(text) : \A m \in (i + 1)..k : text[m] \in S}
<1>1. Len(text) \in Nat /\ K \subseteq 0..Len(text) /\ i \in K
  BY LenProperties
<1>2. Max(K) \in K /\ \A x \in K : x <= Max(K)
  BY <1>1, Greatest
<1> QED  BY <1>2 DEF RunEnd

LEMMA BeforeIs ==
  ASSUME text \in Seq(STRING), NEW i \in 0..Len(text), NEW c
  PROVE  LET e == Before(i, c)
         IN /\ e \in i..Len(text)
            /\ \A m \in (i + 1)..e : text[m] # c
            /\ e < Len(text) => text[e + 1] = c
            /\ \A k \in i..Len(text) : (\A m \in (i + 1)..k : text[m] # c) => k <= e
<1> DEFINE K == {k \in i..Len(text) : \A m \in (i + 1)..k : text[m] # c}
           e == Max(K)
<1>1. Len(text) \in Nat /\ K \subseteq 0..Len(text) /\ i \in K
  BY LenProperties
<1>2. e \in K /\ \A x \in K : x <= e
  BY <1>1, Greatest
<1>3. e < Len(text) => text[e + 1] = c
  <2> SUFFICES ASSUME e < Len(text), text[e + 1] # c PROVE FALSE
    OBVIOUS
  <2>1. e + 1 \in i..Len(text) /\ e \in Int
    BY <1>1, <1>2
  <2>2. \A m \in (i + 1)..(e + 1) : m = e + 1 \/ m \in (i + 1)..e
    BY <2>1
  <2>3. e + 1 \in K
    BY <1>2, <2>1, <2>2
  <2> HIDE DEF K, e
  <2> QED  BY <1>2, <2>1, <2>3
<1> QED  BY <1>2, <1>3 DEF Before

WordAt(i, k) == text[i] \in Letters /\ \A m \in i..k : text[m] \in Letters \cup Digits
WholeAt(i, k) == \A m \in i..k : text[m] \in Digits
PointedAt(i, k) ==
  \E q \in (i + 1)..(k - 1) : text[q] = "." /\ \A m \in i..k : m = q \/ text[m] \in Digits
StringAt(i, k) ==
  i < k /\ text[i] = Quote /\ text[k] = Quote /\ \A m \in (i + 1)..(k - 1) : text[m] # Quote
UnterminatedAt(i, k) == text[i] = Quote /\ \A m \in (i + 1)..k : text[m] # Quote
CommentAt(i, k) ==
  i < k /\ text[i] = "/" /\ text[i + 1] = "/" /\ \A m \in i..k : text[m] # "\n"
OperatorAt(i, k) ==
  \/ k = i /\ text[i] \in Signs \cup Firsts \cup {"/"}
  \/ k = i + 1 /\ text[i] \in Firsts /\ text[k] = "="

LEMMA ConcatAll ==
  ASSUME NEW u \in Seq(STRING), NEW v \in Seq(STRING), NEW S
  PROVE  All(u \o v, S) <=> All(u, S) /\ All(v, S)
<1>1. /\ u \o v \in Seq(STRING) /\ Len(u \o v) = Len(u) + Len(v)
      /\ \A x \in 1..(Len(u) + Len(v)) :
           (u \o v)[x] = IF x <= Len(u) THEN u[x] ELSE v[x - Len(u)]
  BY ConcatProperties
<1>2. /\ Len(u) \in Nat /\ DOMAIN u = 1..Len(u)
      /\ Len(v) \in Nat /\ DOMAIN v = 1..Len(v)
      /\ DOMAIN (u \o v) = 1..(Len(u) + Len(v))
  BY <1>1, LenProperties
<1>3. All(u \o v, S) => All(u, S)
  BY <1>1, <1>2 DEF All
<1>4. ASSUME All(u \o v, S) PROVE All(v, S)
  <2> SUFFICES ASSUME NEW x \in 1..Len(v) PROVE v[x] \in S
    BY <1>2 DEF All
  <2>1. Len(u) + x \in 1..(Len(u) + Len(v)) /\ (u \o v)[Len(u) + x] = v[x]
    BY <1>1, <1>2
  <2> QED  BY <1>2, <1>4, <2>1 DEF All
<1>5. All(u, S) /\ All(v, S) => All(u \o v, S)
  BY <1>1, <1>2 DEF All
<1> QED  BY <1>3, <1>4, <1>5

LEMMA PartIs ==
  ASSUME text \in Seq(STRING), NEW i \in 1..Len(text), NEW k \in i..Len(text)
  PROVE  LET s == SubSeq(text, i, k)
         IN /\ s \in Seq(STRING) /\ Len(s) = k - i + 1 /\ DOMAIN s = 1..(k - i + 1)
            /\ \A m \in 1..(k - i + 1) : s[m] = text[i + m - 1]
            /\ \A m \in i..k : s[m - i + 1] = text[m]
            /\ Head(s) = text[i] /\ s[1] = text[i]
            /\ \A S : All(s, S) <=> \A m \in i..k : text[m] \in S
<1> DEFINE s == SubSeq(text, i, k)
<1>1. Len(text) \in Nat
  BY LenProperties
<1>2. /\ s \in Seq(STRING) /\ Len(s) = k - i + 1 /\ DOMAIN s = 1..(k - i + 1)
      /\ \A m \in 1..(k - i + 1) : s[m] = text[i + m - 1]
  BY <1>1, PartFacts
<1> HIDE DEF s
<1>3. \A m \in i..k : m - i + 1 \in 1..(k - i + 1) /\ s[m - i + 1] = text[m]
  BY <1>1, <1>2
<1>4. s[1] = text[i] /\ Head(s) = s[1]
  BY <1>1, <1>2
<1>5. ASSUME NEW S PROVE All(s, S) <=> \A m \in i..k : text[m] \in S
  <2>1. All(s, S) => \A m \in i..k : text[m] \in S
    BY <1>2, <1>3 DEF All
  <2>2. \A x \in 1..(k - i + 1) : i + x - 1 \in i..k /\ s[x] = text[i + x - 1]
    BY <1>1, <1>2
  <2>3. (\A m \in i..k : text[m] \in S) => All(s, S)
    BY <1>2, <2>2 DEF All
  <2> QED  BY <2>1, <2>3
<1> QED  BY <1>2, <1>3, <1>4, <1>5 DEF s

LEMMA LexemeIs ==
  ASSUME text \in Seq(STRING), NEW i \in 1..Len(text), NEW k \in i..Len(text)
  PROVE  LET s == SubSeq(text, i, k)
         IN /\ IsWord(s) <=> WordAt(i, k)
            /\ IsNumeral(s) <=> WholeAt(i, k) \/ PointedAt(i, k)
            /\ IsString(s) <=> StringAt(i, k)
            /\ IsUnterminated(s) <=> UnterminatedAt(i, k)
            /\ IsComment(s) <=> CommentAt(i, k)
            /\ IsOperator(s) <=> OperatorAt(i, k)
<1> DEFINE s == SubSeq(text, i, k)
           n == k - i + 1
<1>0. Len(text) \in Nat /\ DOMAIN text = 1..Len(text)
  BY LenProperties
<1>1. /\ s \in Seq(STRING) /\ Len(s) = n /\ DOMAIN s = 1..n
      /\ \A m \in 1..n : s[m] = text[i + m - 1]
      /\ \A m \in i..k : s[m - i + 1] = text[m]
      /\ Head(s) = text[i] /\ s[1] = text[i]
      /\ \A S : All(s, S) <=> \A m \in i..k : text[m] \in S
  BY PartIs
<1>n. n \in Nat /\ n >= 1 /\ n = k - i + 1
  BY <1>0
<1> HIDE DEF s, n
<1>2. IsWord(s) <=> WordAt(i, k)
  BY <1>1 DEF IsWord, WordAt
<1>3. IsNumeral(s) <=> WholeAt(i, k) \/ PointedAt(i, k)
  <2> DEFINE Others(q) == SubSeq(s, 1, q - 1) \o SubSeq(s, q + 1, n)
  <2>1. ASSUME NEW q \in 2..(n - 1)
        PROVE  All(Others(q), Digits) <=> \A x \in 1..n : x = q \/ s[x] \in Digits
    <3> DEFINE u == SubSeq(s, 1, q - 1)
               v == SubSeq(s, q + 1, n)
    <3>1. /\ u \in Seq(STRING) /\ DOMAIN u = 1..(q - 1) /\ \A x \in 1..(q - 1) : u[x] = s[x]
      <4>1. 1 \in 1..(Len(s) + 1) /\ q - 1 \in 0..Len(s) /\ 1 <= q - 1 /\ q - 1 - 1 + 1 = q - 1
        BY <1>1, <1>n
      <4>2. /\ u \in Seq(STRING) /\ DOMAIN u = 1..Len(u) /\ Len(u) = q - 1
            /\ \A x \in 1..(q - 1 - 1 + 1) : u[x] = s[1 + x - 1]
        BY <1>1, <4>1, PartFacts
      <4> QED  BY <4>1, <4>2
    <3>2. /\ v \in Seq(STRING) /\ DOMAIN v = 1..(n - q) /\ \A x \in 1..(n - q) : v[x] = s[q + x]
      <4>1. q + 1 \in 1..(Len(s) + 1) /\ n \in 0..Len(s) /\ q + 1 <= n /\ n - (q + 1) + 1 = n - q
        BY <1>1, <1>n
      <4>2. /\ v \in Seq(STRING) /\ DOMAIN v = 1..Len(v) /\ Len(v) = n - q
            /\ \A x \in 1..(n - (q + 1) + 1) : v[x] = s[q + 1 + x - 1]
        BY <1>1, <4>1, PartFacts
      <4>3. Len(v) = n - q
        BY <1>n, <4>1, <4>2
      <4>4. \A x \in 1..(n - q) : q + 1 + x - 1 = q + x
        BY <1>n
      <4> QED  BY <4>1, <4>2, <4>3, <4>4
    <3> HIDE DEF u, v
    <3>3. All(u \o v, Digits) <=> All(u, Digits) /\ All(v, Digits)
      BY <3>1, <3>2, ConcatAll
    <3>4. All(u, Digits) <=> \A x \in 1..(q - 1) : s[x] \in Digits
      BY <3>1 DEF All
    <3>5. All(v, Digits) <=> \A x \in 1..(n - q) : s[q + x] \in Digits
      BY <3>2 DEF All
    <3>6. (\A x \in 1..(n - q) : s[q + x] \in Digits) <=> \A x \in (q + 1)..n : s[x] \in Digits
      <4>1. \A x \in (q + 1)..n : x - q \in 1..(n - q) /\ q + (x - q) = x
        BY <1>n
      <4>2. \A x \in 1..(n - q) : q + x \in (q + 1)..n
        BY <1>n
      <4> QED  BY <4>1, <4>2
    <3>7. \A x \in 1..n : x \in 1..(q - 1) \/ x = q \/ x \in (q + 1)..n
      BY <1>n
    <3>8. \A x : x \in 1..(q - 1) \/ x \in (q + 1)..n => x \in 1..n /\ x # q
      BY <1>n
    <3>9. All(u \o v, Digits) <=> \A x \in 1..n : x = q \/ s[x] \in Digits
      BY <3>3, <3>4, <3>5, <3>6, <3>7, <3>8, Zenon
    <3> QED  BY <3>9 DEF u, v
  <2>2. IsNumeral(s) <=> \/ All(s, Digits)
                         \/ \E q \in 2..(n - 1) : s[q] = "." /\ All(Others(q), Digits)
    BY <1>1 DEF IsNumeral
  <2> HIDE DEF Others
  <2>3. IsNumeral(s) <=> \/ All(s, Digits)
                         \/ \E q \in 2..(n - 1) :
                              s[q] = "." /\ \A x \in 1..n : x = q \/ s[x] \in Digits
    BY <2>1, <2>2
  <2>4. All(s, Digits) <=> WholeAt(i, k)
    BY <1>1 DEF WholeAt
  <2>5. ASSUME NEW q \in 2..(n - 1), s[q] = ".", \A x \in 1..n : x = q \/ s[x] \in Digits
        PROVE  PointedAt(i, k)
    <3>1. i + q - 1 \in (i + 1)..(k - 1) /\ text[i + q - 1] = "."
      BY <1>0, <1>1, <1>n, <2>5
    <3>2. \A m \in i..k : m - i + 1 \in 1..n /\ (m - i + 1 = q => m = i + q - 1)
      BY <1>0, <1>n
    <3>3. \A m \in i..k : m = i + q - 1 \/ text[m] \in Digits
      BY <1>1, <2>5, <3>2
    <3> QED  BY <3>1, <3>3 DEF PointedAt
  <2>6. ASSUME PointedAt(i, k)
        PROVE  \E q \in 2..(n - 1) : s[q] = "." /\ \A x \in 1..n : x = q \/ s[x] \in Digits
    <3>1. PICK q \in (i + 1)..(k - 1) : text[q] = "." /\ \A m \in i..k : m = q \/ text[m] \in Digits
      BY <2>6 DEF PointedAt
    <3>2. q - i + 1 \in 2..(n - 1) /\ q \in i..k
      BY <1>0, <1>n
    <3>3. s[q - i + 1] = "."
      BY <1>1, <3>1, <3>2
    <3>4. \A x \in 1..n : i + x - 1 \in i..k /\ (i + x - 1 = q => x = q - i + 1)
      BY <1>0, <1>n
    <3>5. \A x \in 1..n : x = q - i + 1 \/ s[x] \in Digits
      BY <1>1, <3>1, <3>4
    <3> QED  BY <3>2, <3>3, <3>5
  <2> QED  BY <2>3, <2>4, <2>5, <2>6
<1> DEFINE Q == {x \in DOMAIN s : s[x] = Quote}
<1>4. IsString(s) <=> StringAt(i, k)
  <2>1. ASSUME IsString(s) PROVE StringAt(i, k)
    <3>1. n > 1 /\ Q = {1, n}
      BY <1>1, <2>1 DEF IsString, Quote
    <3>2. 1 \in Q /\ n \in Q
      BY <3>1
    <3>3. s[1] = Quote /\ s[n] = Quote
      BY <3>2
    <3>a. n > 1
      BY <3>1
    <3>4. n = k - i + 1 /\ k \in i..k /\ i < k
      BY <1>0, <1>n, <3>a
    <3>5. text[k] = Quote
      BY <1>1, <3>3, <3>4
    <3>6. \A m \in (i + 1)..(k - 1) : m \in i..k /\ m - i + 1 \in DOMAIN s /\ m - i + 1 # 1 /\ m - i + 1 # n
      BY <1>0, <1>1, <1>n
    <3>7. \A m \in (i + 1)..(k - 1) : m - i + 1 \notin Q
      BY <3>1, <3>6
    <3>8. \A m \in (i + 1)..(k - 1) : text[m] # Quote
      BY <1>1, <3>6, <3>7
    <3> QED  BY <1>1, <3>3, <3>4, <3>5, <3>8 DEF StringAt
  <2>2. ASSUME StringAt(i, k) PROVE IsString(s)
    <3>1. i < k /\ text[i] = Quote /\ text[k] = Quote /\ \A m \in (i + 1)..(k - 1) : text[m] # Quote
      BY <2>2 DEF StringAt
    <3>a. n > 1 /\ 1 \in 1..n /\ n \in 1..n /\ n = k - i + 1 /\ k \in i..k
      <4>1. i < k
        BY <3>1
      <4> QED  BY <1>0, <1>n, <4>1
    <3>2. n > 1 /\ 1 \in DOMAIN s /\ n \in DOMAIN s /\ n = k - i + 1 /\ k \in i..k
      BY <1>1, <3>a
    <3>3. s[1] = Quote /\ s[n] = Quote
      BY <1>1, <3>1, <3>2
    <3>4. \A x \in DOMAIN s : x = 1 \/ x = n \/ i + x - 1 \in (i + 1)..(k - 1)
      BY <1>0, <1>1, <1>n
    <3>5. \A x \in Q : x = 1 \/ x = n
      BY <1>1, <3>1, <3>4
    <3>6. Q = {1, n}
      BY <3>2, <3>3, <3>5
    <3> QED  BY <1>1, <3>2, <3>6 DEF IsString, Quote
  <2> QED  BY <2>1, <2>2
<1>5. IsUnterminated(s) <=> UnterminatedAt(i, k)
  <2>1. ASSUME IsUnterminated(s) PROVE UnterminatedAt(i, k)
    <3>1. Q = {1}
      BY <2>1 DEF Quote, IsUnterminated
    <3>2. s[1] = Quote
      BY <3>1
    <3>3. \A m \in (i + 1)..k : m \in i..k /\ m - i + 1 \in DOMAIN s /\ m - i + 1 # 1
      BY <1>0, <1>1, <1>n
    <3>4. \A m \in (i + 1)..k : m - i + 1 \notin Q
      BY <3>1, <3>3
    <3>5. \A m \in (i + 1)..k : text[m] # Quote
      BY <1>1, <3>3, <3>4
    <3> QED  BY <1>1, <3>2, <3>5 DEF UnterminatedAt
  <2>2. ASSUME UnterminatedAt(i, k) PROVE IsUnterminated(s)
    <3>1. text[i] = Quote /\ \A m \in (i + 1)..k : text[m] # Quote
      BY <2>2 DEF UnterminatedAt
    <3>a. 1 \in 1..n
      BY <1>n
    <3>2. 1 \in DOMAIN s /\ s[1] = Quote
      BY <1>1, <3>1, <3>a
    <3>3. \A x \in DOMAIN s : x = 1 \/ i + x - 1 \in (i + 1)..k
      BY <1>0, <1>1, <1>n
    <3>4. \A x \in Q : x = 1
      BY <1>1, <3>1, <3>3
    <3>5. Q = {1}
      BY <3>2, <3>4
    <3> QED  BY <3>5 DEF Quote, IsUnterminated
  <2> QED  BY <2>1, <2>2
<1>6. IsComment(s) <=> CommentAt(i, k)
  <2>1. n > 1 => s[2] = text[i + 1] /\ i < k
    BY <1>0, <1>1, <1>n
  <2>2. i < k => n > 1
    BY <1>0, <1>n
  <2>3. \A x \in 1..n : i + x - 1 \in i..k /\ s[x] = text[i + x - 1]
    BY <1>0, <1>1, <1>n
  <2>b. \A m \in i..k : m - i + 1 \in 1..n
    BY <1>0, <1>n
  <2>4. (\A x \in DOMAIN s : s[x] # "\n") <=> \A m \in i..k : text[m] # "\n"
    <3>1. ASSUME \A x \in DOMAIN s : s[x] # "\n", NEW m \in i..k PROVE text[m] # "\n"
      <4>1. m - i + 1 \in DOMAIN s /\ s[m - i + 1] = text[m]
        BY <1>1, <2>b
      <4> QED  BY <3>1, <4>1
    <3>2. ASSUME \A m \in i..k : text[m] # "\n", NEW x \in DOMAIN s PROVE s[x] # "\n"
      BY <1>1, <2>3, <3>2
    <3> QED  BY <3>1, <3>2
  <2>5. n > 1 <=> i < k
    BY <2>1, <2>2
  <2>6. IsComment(s) <=> n > 1 /\ s[1] = "/" /\ s[2] = "/" /\ \A x \in DOMAIN s : s[x] # "\n"
    BY <1>1 DEF IsComment
  <2>7. IsComment(s) <=> i < k /\ text[i] = "/" /\ text[i + 1] = "/" /\ \A m \in i..k : text[m] # "\n"
    BY <1>1, <2>1, <2>4, <2>5, <2>6, Zenon
  <2> QED  BY <2>7 DEF CommentAt
<1>7. IsOperator(s) <=> OperatorAt(i, k)
  <2>1. n = 1 <=> k = i
    BY <1>0, <1>n
  <2>2. n = 2 <=> k = i + 1
    BY <1>0, <1>n
  <2>3. n = 2 => s[2] = text[k]
    BY <1>0, <1>1, <1>n
  <2>4. \A c : c \in {"(", ")", "{", "}", ",", "-", "+", ";", "*", "/", "!", "=", "<", ">"}
               <=> c \in Signs \cup Firsts \cup {"/"}
    BY Zenon DEF Signs, Firsts
  <2> QED  BY <1>1, <2>1, <2>2, <2>3, <2>4 DEF IsOperator, OperatorAt, Firsts
<1> QED  BY <1>2, <1>3, <1>4, <1>5, <1>6, <1>7 DEF s

LexemeAt(i, k) ==
  \/ WordAt(i, k) \/ WholeAt(i, k) \/ PointedAt(i, k) \/ StringAt(i, k)
  \/ UnterminatedAt(i, k) \/ CommentAt(i, k) \/ OperatorAt(i, k)

LEMMA LexemeAtIs ==
  ASSUME text \in Seq(STRING), NEW i \in 1..Len(text), NEW k \in i..Len(text)
  PROVE  IsLexeme(SubSeq(text, i, k)) <=> LexemeAt(i, k)
BY LexemeIs DEF IsLexeme, LexemeAt

(* A piece ends with the last lexeme that begins where it starts.          *)
LEMMA PieceFacts ==
  ASSUME text \in Seq(STRING), NEW i \in 1..Len(text)
  PROVE  /\ PieceAt(i) = <<i, PieceAt(i)[2]>> /\ PieceAt(i)[1] = i
         /\ PieceAt(i)[2] \in i..Len(text)
<1> DEFINE K == {i} \cup {k \in i..Len(text) : IsLexeme(SubSeq(text, i, k))}
<1>1. Len(text) \in Nat /\ K \subseteq 0..Len(text) /\ K # {} /\ K \subseteq i..Len(text)
  BY LenProperties
<1>2. Max(K) \in K
  BY <1>1, Greatest
<1> DEFINE e == Max(K)
<1>3. PieceAt(i) = <<i, e>>
  BY DEF PieceAt
<1>4. e \in i..Len(text)
  BY <1>1, <1>2
<1> HIDE DEF e
<1>5. PieceAt(i)[1] = i /\ PieceAt(i)[2] = e
  BY <1>3
<1> QED  BY <1>3, <1>4, <1>5

LEMMA PieceIs ==
  ASSUME text \in Seq(STRING), NEW i \in 1..Len(text), NEW k \in i..Len(text),
         k = i \/ LexemeAt(i, k),
         \A m \in (k + 1)..Len(text) : ~LexemeAt(i, m)
  PROVE  PieceAt(i) = <<i, k>>
<1> DEFINE K == {i} \cup {m \in i..Len(text) : IsLexeme(SubSeq(text, i, m))}
<1>1. Len(text) \in Nat /\ K \subseteq Int
  BY LenProperties
<1>2. k \in K
  BY LexemeAtIs
<1>3. ASSUME NEW m \in K PROVE m <= k
  <2>1. m \in i..Len(text) /\ (m = i \/ LexemeAt(i, m))
    BY <1>1, LexemeAtIs
  <2> QED  BY <1>1, <2>1
<1> HIDE DEF K
<1>4. Max(K) = k
  BY <1>1, <1>2, <1>3, MaxIs
<1> QED  BY <1>4 DEF PieceAt, K

(* What the first character of a lexeme says of it. *)
LEMMA FirstOf ==
  ASSUME text \in Seq(STRING), NEW i \in 1..Len(text), NEW k \in i..Len(text)
  PROVE  /\ WordAt(i, k) => text[i] \in Letters
         /\ WholeAt(i, k) => text[i] \in Digits
         /\ PointedAt(i, k) => text[i] \in Digits
         /\ StringAt(i, k) => text[i] = Quote
         /\ UnterminatedAt(i, k) => text[i] = Quote
         /\ CommentAt(i, k) => text[i] = "/"
         /\ OperatorAt(i, k) => text[i] \in Signs \cup Firsts \cup {"/"}
<1>1. Len(text) \in Nat /\ i \in i..k
  BY LenProperties
<1>2. WordAt(i, k) => text[i] \in Letters
  BY DEF WordAt
<1>3. WholeAt(i, k) => text[i] \in Digits
  BY <1>1 DEF WholeAt
<1>4. ASSUME PointedAt(i, k) PROVE text[i] \in Digits
  <2>1. PICK q \in (i + 1)..(k - 1) : \A m \in i..k : m = q \/ text[m] \in Digits
    BY <1>4 DEF PointedAt
  <2>2. q # i
    BY <1>1
  <2> QED  BY <1>1, <2>1, <2>2
<1>5. StringAt(i, k) \/ UnterminatedAt(i, k) => text[i] = Quote
  BY DEF StringAt, UnterminatedAt
<1>6. CommentAt(i, k) => text[i] = "/"
  BY DEF CommentAt
<1>7. OperatorAt(i, k) => text[i] \in Signs \cup Firsts \cup {"/"}
  BY DEF OperatorAt
<1> QED  BY <1>2, <1>3, <1>4, <1>5, <1>6, <1>7

(* The lexemes that may begin with a character.                            *)
LEMMA KindOf ==
  ASSUME text \in Seq(STRING), NEW i \in 1..Len(text), NEW k \in i..Len(text)
  PROVE  /\ text[i] \in Letters => (LexemeAt(i, k) <=> WordAt(i, k))
         /\ text[i] \in Digits => (LexemeAt(i, k) <=> WholeAt(i, k) \/ PointedAt(i, k))
         /\ text[i] = Quote => (LexemeAt(i, k) <=> StringAt(i, k) \/ UnterminatedAt(i, k))
         /\ text[i] = "/" => (LexemeAt(i, k) <=> CommentAt(i, k) \/ OperatorAt(i, k))
         /\ text[i] \in Signs \cup Firsts => (LexemeAt(i, k) <=> OperatorAt(i, k))
         /\ text[i] \notin Letters \cup Digits \cup Signs \cup Firsts \cup {"/", Quote} => ~LexemeAt(i, k)
         /\ text[i] \in Blanks \cup {"\n"} => ~LexemeAt(i, k)
<1> DEFINE c == text[i]
<1>1. /\ WordAt(i, k) => c \in Letters
      /\ WholeAt(i, k) \/ PointedAt(i, k) => c \in Digits
      /\ StringAt(i, k) \/ UnterminatedAt(i, k) => c = Quote
      /\ CommentAt(i, k) => c = "/"
      /\ OperatorAt(i, k) => c \in Signs \cup Firsts \cup {"/"}
  BY FirstOf
<1>2. /\ c \in Letters => c \notin Digits \cup Blanks \cup Signs \cup Firsts \cup {"/", "\n", Quote, "."}
      /\ c \in Digits => c \notin Blanks \cup Signs \cup Firsts \cup {"/", "\n", Quote, "."}
      /\ c \in Blanks => c \notin Signs \cup Firsts \cup {"/", "\n", Quote, "."}
      /\ c \in Signs => c \notin Firsts \cup {"/", "\n", Quote, "."}
      /\ c \in Firsts => c \notin {"/", "\n", Quote, "."}
  BY Different
<1> HIDE DEF c
<1>3. \A d \in {"/", "\n", Quote, "."} : d \notin Letters \cup Digits \cup Blanks \cup Signs \cup Firsts
  BY Different
<1>4. "/" # Quote /\ "\n" # "/" /\ "\n" # Quote
  BY DEF Quote
<1>5. c = "/" \/ c = "\n" \/ c = Quote => c \notin Letters \cup Digits \cup Blanks \cup Signs \cup Firsts
  BY <1>3
<1>6. /\ c \in Letters => (LexemeAt(i, k) <=> WordAt(i, k))
      /\ c \in Digits => (LexemeAt(i, k) <=> WholeAt(i, k) \/ PointedAt(i, k))
      /\ c = Quote => (LexemeAt(i, k) <=> StringAt(i, k) \/ UnterminatedAt(i, k))
      /\ c = "/" => (LexemeAt(i, k) <=> CommentAt(i, k) \/ OperatorAt(i, k))
      /\ c \in Signs \cup Firsts => (LexemeAt(i, k) <=> OperatorAt(i, k))
      /\ c \notin Letters \cup Digits \cup Signs \cup Firsts \cup {"/", Quote} => ~LexemeAt(i, k)
      /\ c \in Blanks \cup {"\n"} => ~LexemeAt(i, k)
  BY <1>1, <1>2, <1>4, <1>5 DEF LexemeAt
<1> QED  BY <1>6 DEF c

(* What a piece is, by its first character: at most one kind of lexeme.    *)
LEMMA KindOfPart ==
  ASSUME text \in Seq(STRING), NEW i \in 1..Len(text), NEW k \in i..Len(text)
  PROVE  LET s == SubSeq(text, i, k)
         IN /\ text[i] \notin Letters => ~IsWord(s)
            /\ text[i] \notin Digits => ~IsNumeral(s)
            /\ text[i] # Quote => ~IsString(s) /\ ~IsUnterminated(s)
            /\ text[i] # "/" => ~IsComment(s)
            /\ text[i] \notin Signs \cup Firsts \cup {"/"} => ~IsOperator(s)
BY LexemeIs, FirstOf

LEMMA WordPiece ==
  ASSUME text \in Seq(STRING), NEW i \in 1..Len(text), text[i] \in Letters
  PROVE  LET e == RunEnd(i - 1, Letters \cup Digits)
         IN /\ e \in i..Len(text)
            /\ PieceAt(i) = <<i, e>> /\ WordAt(i, e)
            /\ \A m \in i..e : text[m] \in Letters \cup Digits
<1> DEFINE S == Letters \cup Digits
           e == RunEnd(i - 1, S)
<1>1. i - 1 \in 0..Len(text) /\ Len(text) \in Nat /\ i - 1 + 1 = i
  BY LenProperties
<1>2. /\ e \in (i - 1)..Len(text)
      /\ \A m \in i..e : text[m] \in S
      /\ \A k \in (i - 1)..Len(text) : (\A m \in i..k : text[m] \in S) => k <= e
  BY <1>1, RunIs
<1> HIDE DEF e
<1>3. e \in i..Len(text)
  <2>1. \A m \in i..i : text[m] \in S
    OBVIOUS
  <2>2. i \in (i - 1)..Len(text)
    BY <1>1
  <2>3. i <= e
    BY <1>2, <2>1, <2>2
  <2> QED  BY <1>1, <1>2, <2>3
<1>4. WordAt(i, e) /\ LexemeAt(i, e)
  BY <1>2 DEF WordAt, LexemeAt
<1>5. ASSUME NEW m \in (e + 1)..Len(text) PROVE ~LexemeAt(i, m)
  <2>1. m \in i..Len(text) /\ m \in (i - 1)..Len(text) /\ ~(m <= e)
    BY <1>1, <1>3
  <2>2. ~WordAt(i, m)
    BY <1>2, <2>1 DEF WordAt
  <2> QED  BY <2>1, <2>2, KindOf
<1>6. PieceAt(i) = <<i, e>>
  BY <1>3, <1>4, <1>5, PieceIs
<1> QED  BY <1>2, <1>3, <1>4, <1>6 DEF e

LEMMA NumberPiece ==
  ASSUME text \in Seq(STRING), NEW i \in 1..Len(text), text[i] \in Digits
  PROVE  LET whole == RunEnd(i - 1, Digits)
             e == IF Pointed(whole) THEN RunEnd(whole + 1, Digits) ELSE whole
         IN /\ whole \in i..Len(text) /\ WholeAt(i, whole)
            /\ e \in whole..Len(text)
            /\ PieceAt(i) = <<i, e>>
            /\ WholeAt(i, e) \/ PointedAt(i, e)
            /\ \A m \in i..e : text[m] \in Digits \cup {"."}
            /\ e = whole \/ (whole + 2 <= e /\ text[whole + 1] = ".")
<1> DEFINE whole == RunEnd(i - 1, Digits)
           last == RunEnd(whole + 1, Digits)
           e == IF Pointed(whole) THEN last ELSE whole
<1>1. i - 1 \in 0..Len(text) /\ Len(text) \in Nat /\ i - 1 + 1 = i
  BY LenProperties
<1>2. /\ whole \in (i - 1)..Len(text)
      /\ \A m \in i..whole : text[m] \in Digits
      /\ \A k \in (i - 1)..Len(text) : (\A m \in i..k : text[m] \in Digits) => k <= whole
  BY <1>1, RunIs
<1> HIDE DEF whole
<1>3. whole \in i..Len(text)
  <2>1. \A m \in i..i : text[m] \in Digits
    OBVIOUS
  <2>2. i \in (i - 1)..Len(text)
    BY <1>1
  <2>3. i <= whole
    BY <1>2, <2>1, <2>2
  <2> QED  BY <1>1, <1>2, <2>3
<1>4. WholeAt(i, whole)
  BY <1>2 DEF WholeAt
<1>5. whole < Len(text) => text[whole + 1] \notin Digits
  <2> SUFFICES ASSUME whole < Len(text), text[whole + 1] \in Digits PROVE FALSE
    OBVIOUS
  <2>1. whole + 1 \in (i - 1)..Len(text) /\ ~(whole + 1 <= whole)
    BY <1>1, <1>3
  <2>2. \A m \in i..(whole + 1) : m \in i..whole \/ m = whole + 1
    BY <1>1, <1>3
  <2>3. \A m \in i..(whole + 1) : text[m] \in Digits
    BY <1>2, <2>2
  <2> QED  BY <1>2, <2>1, <2>3
<1>6. "." \notin Digits
  BY Different
<1>7. ASSUME NEW k \in i..Len(text), PointedAt(i, k)
      PROVE  /\ whole + 1 < k /\ text[whole + 1] = "."
             /\ \A m \in (whole + 2)..k : text[m] \in Digits
  <2>1. PICK q \in (i + 1)..(k - 1) : text[q] = "." /\ \A m \in i..k : m = q \/ text[m] \in Digits
    BY <1>7 DEF PointedAt
  <2>2. q \notin i..whole
    BY <1>2, <1>6, <2>1
  <2>3. whole + 1 <= q /\ whole + 1 < k /\ whole < Len(text)
    BY <1>1, <1>3, <2>2
  <2>4. whole + 1 \in i..k
    BY <1>1, <1>3, <2>3
  <2>5. whole + 1 = q
    BY <1>5, <2>1, <2>3, <2>4
  <2>6. \A m \in (whole + 2)..k : m \in i..k /\ m # q
    BY <1>1, <1>3, <2>5
  <2> QED  BY <2>1, <2>3, <2>5, <2>6
<1>8. CASE Pointed(whole)
  <2>1. whole + 2 <= Len(text) /\ text[whole + 1] = "." /\ text[whole + 2] \in Digits
    BY <1>8 DEF Pointed
  <2>2. whole + 1 \in 0..Len(text) /\ whole + 1 + 1 = whole + 2
    BY <1>1, <1>3, <2>1
  <2>3. /\ last \in (whole + 1)..Len(text)
        /\ \A m \in (whole + 2)..last : text[m] \in Digits
        /\ \A k \in (whole + 1)..Len(text) : (\A m \in (whole + 2)..k : text[m] \in Digits) => k <= last
    BY <2>2, RunIs
  <2> HIDE DEF last
  <2>4. whole + 2 <= last
    <3>1. \A m \in (whole + 2)..(whole + 2) : text[m] \in Digits
      BY <1>3, <2>1
    <3>2. whole + 2 \in (whole + 1)..Len(text)
      BY <1>1, <1>3, <2>1
    <3> QED  BY <2>3, <3>1, <3>2
  <2>5. last \in i..Len(text) /\ last \in whole..Len(text)
    BY <1>1, <1>3, <2>3, <2>4
  <2>6. PointedAt(i, last)
    <3>1. whole + 1 \in (i + 1)..(last - 1)
      BY <1>1, <1>3, <2>3, <2>4
    <3>2. \A m \in i..last : m \in i..whole \/ m = whole + 1 \/ m \in (whole + 2)..last
      BY <1>1, <1>3, <2>3
    <3>3. \A m \in i..last : m = whole + 1 \/ text[m] \in Digits
      BY <1>2, <2>3, <3>2
    <3> QED  BY <2>1, <3>1, <3>3 DEF PointedAt
  <2>7. ASSUME NEW m \in (last + 1)..Len(text) PROVE ~LexemeAt(i, m)
    <3>1. m \in i..Len(text) /\ m \in (i - 1)..Len(text) /\ m \in (whole + 1)..Len(text)
          /\ ~(m <= last) /\ ~(m <= whole)
      BY <1>1, <1>3, <2>3, <2>4
    <3>2. ~WholeAt(i, m)
      BY <1>2, <3>1 DEF WholeAt
    <3>3. ~PointedAt(i, m)
      BY <1>7, <2>3, <3>1
    <3> QED  BY <3>1, <3>2, <3>3, KindOf
  <2>8. PieceAt(i) = <<i, last>>
    BY <2>5, <2>6, <2>7, PieceIs DEF LexemeAt
  <2>9. \A m \in i..last : text[m] \in Digits \cup {"."}
    <3>1. \A m \in i..last : m \in i..whole \/ m = whole + 1 \/ m \in (whole + 2)..last
      BY <1>1, <1>3, <2>3
    <3> QED  BY <1>2, <2>1, <2>3, <3>1
  <2>10. e = last
    BY <1>8
  <2> HIDE DEF e
  <2>11. /\ e \in whole..Len(text)
         /\ PieceAt(i) = <<i, e>>
         /\ WholeAt(i, e) \/ PointedAt(i, e)
         /\ \A m \in i..e : text[m] \in Digits \cup {"."}
         /\ e = whole \/ (whole + 2 <= e /\ text[whole + 1] = ".")
    BY <2>1, <2>4, <2>5, <2>6, <2>8, <2>9, <2>10
  <2> QED  BY <1>3, <1>4, <2>11 DEF e, last, whole
<1>9. CASE ~Pointed(whole)
  <2>1. ASSUME NEW m \in (whole + 1)..Len(text) PROVE ~LexemeAt(i, m)
    <3>1. m \in i..Len(text) /\ m \in (i - 1)..Len(text) /\ ~(m <= whole)
      BY <1>1, <1>3
    <3>2. ~WholeAt(i, m)
      BY <1>2, <3>1 DEF WholeAt
    <3>3. ASSUME PointedAt(i, m) PROVE FALSE
      <4>1. /\ whole + 1 < m /\ text[whole + 1] = "."
            /\ \A x \in (whole + 2)..m : text[x] \in Digits
        BY <1>7, <3>1, <3>3
      <4>2. whole + 2 \in (whole + 2)..m /\ whole + 2 <= Len(text)
        BY <1>1, <1>3, <4>1
      <4> QED  BY <1>9, <4>1, <4>2 DEF Pointed
    <3> QED  BY <3>1, <3>2, <3>3, KindOf
  <2>2. PieceAt(i) = <<i, whole>>
    BY <1>3, <1>4, <2>1, PieceIs DEF LexemeAt
  <2>3. e = whole
    BY <1>9
  <2> HIDE DEF e
  <2>4. /\ e \in whole..Len(text)
        /\ PieceAt(i) = <<i, e>>
        /\ WholeAt(i, e) \/ PointedAt(i, e)
        /\ \A m \in i..e : text[m] \in Digits \cup {"."}
        /\ e = whole \/ (whole + 2 <= e /\ text[whole + 1] = ".")
    BY <1>1, <1>2, <1>3, <1>4, <2>2, <2>3
  <2> QED  BY <1>3, <1>4, <2>4 DEF e, last, whole
<1> QED  BY <1>8, <1>9

LEMMA StringPiece ==
  ASSUME text \in Seq(STRING), NEW i \in 1..Len(text), text[i] = Quote
  PROVE  LET closing == Before(i, Quote)
             e == Min({closing + 1, Len(text)})
         IN /\ closing \in i..Len(text) /\ e \in i..Len(text)
            /\ PieceAt(i) = <<i, e>>
            /\ closing = Len(text) => UnterminatedAt(i, e) /\ ~StringAt(i, e)
            /\ closing # Len(text) => StringAt(i, e) /\ ~UnterminatedAt(i, e) /\ e = closing + 1
<1> DEFINE closing == Before(i, Quote)
           e == Min({closing + 1, Len(text)})
<1>1. i \in 0..Len(text) /\ Len(text) \in Nat
  BY LenProperties
<1>2. /\ closing \in i..Len(text) /\ closing \in Int
      /\ \A m \in (i + 1)..closing : text[m] # Quote
      /\ closing < Len(text) => text[closing + 1] = Quote
      /\ \A k \in i..Len(text) : (\A m \in (i + 1)..k : text[m] # Quote) => k <= closing
  BY <1>1, BeforeIs
<1> HIDE DEF closing
<1>3. CASE closing = Len(text)
  <2>1. e = Len(text)
    <3> DEFINE T == {closing + 1, Len(text)}
    <3>1. T \subseteq Int /\ Len(text) \in T /\ \A x \in T : x >= Len(text)
      BY <1>1, <1>2, <1>3
    <3> HIDE DEF T
    <3>2. Min(T) = Len(text)
      BY <3>1, MinIs
    <3> QED  BY <3>2 DEF T
  <2> HIDE DEF e
  <2>2. e \in i..Len(text) /\ e = closing
    BY <1>1, <1>3, <2>1
  <2>3. UnterminatedAt(i, e)
    BY <1>2, <2>2 DEF UnterminatedAt
  <2>4. ~StringAt(i, e)
    <3>1. i < e => e \in (i + 1)..closing
      BY <1>1, <2>2
    <3> QED  BY <1>2, <3>1 DEF StringAt
  <2>5. PieceAt(i) = <<i, e>>
    <3>1. \A m \in (e + 1)..Len(text) : FALSE
      BY <1>1, <2>1
    <3> QED  BY <2>2, <2>3, <3>1, PieceIs DEF LexemeAt
  <2>6. /\ closing \in i..Len(text) /\ e \in i..Len(text)
        /\ PieceAt(i) = <<i, e>>
        /\ closing = Len(text) => UnterminatedAt(i, e) /\ ~StringAt(i, e)
        /\ closing # Len(text) => StringAt(i, e) /\ ~UnterminatedAt(i, e) /\ e = closing + 1
    BY <1>2, <1>3, <2>2, <2>3, <2>4, <2>5
  <2> QED  BY <2>6 DEF e, closing
<1>4. CASE closing # Len(text)
  <2>1. closing + 1 \in i..Len(text) /\ closing < Len(text)
    BY <1>1, <1>2, <1>4
  <2>2. e = closing + 1
    <3> DEFINE T == {closing + 1, Len(text)}
    <3>1. T \subseteq Int /\ closing + 1 \in T /\ \A x \in T : x >= closing + 1
      BY <1>1, <1>2, <2>1
    <3> HIDE DEF T
    <3>2. Min(T) = closing + 1
      BY <3>1, MinIs
    <3> QED  BY <3>2 DEF T
  <2> HIDE DEF e
  <2>3. StringAt(i, e)
    <3>1. i < e /\ text[e] = Quote /\ e - 1 = closing
      BY <1>1, <1>2, <2>1, <2>2
    <3> QED  BY <1>2, <3>1 DEF StringAt
  <2>4. ~UnterminatedAt(i, e)
    <3>1. e \in (i + 1)..e /\ text[e] = Quote
      BY <1>1, <1>2, <2>1, <2>2
    <3> QED  BY <3>1 DEF UnterminatedAt
  <2>5. ASSUME NEW m \in (e + 1)..Len(text) PROVE ~LexemeAt(i, m)
    <3>1. e \in (i + 1)..(m - 1) /\ e \in (i + 1)..m /\ text[e] = Quote /\ m \in i..Len(text)
      BY <1>1, <1>2, <2>1, <2>2
    <3>2. ~StringAt(i, m) /\ ~UnterminatedAt(i, m)
      BY <3>1 DEF StringAt, UnterminatedAt
    <3> QED  BY <3>1, <3>2, KindOf
  <2>6. PieceAt(i) = <<i, e>>
    BY <2>1, <2>2, <2>3, <2>5, PieceIs DEF LexemeAt
  <2>7. /\ closing \in i..Len(text) /\ e \in i..Len(text)
        /\ PieceAt(i) = <<i, e>>
        /\ closing = Len(text) => UnterminatedAt(i, e) /\ ~StringAt(i, e)
        /\ closing # Len(text) => StringAt(i, e) /\ ~UnterminatedAt(i, e) /\ e = closing + 1
    BY <1>2, <1>4, <2>1, <2>2, <2>3, <2>4, <2>6
  <2> QED  BY <2>7 DEF e, closing
<1> QED  BY <1>3, <1>4

LEMMA SlashPiece ==
  ASSUME text \in Seq(STRING), NEW i \in 1..Len(text), text[i] = "/"
  PROVE  LET e == Before(i + 1, "\n")
         IN IF i < Len(text) /\ text[i + 1] = "/"
            THEN /\ e \in (i + 1)..Len(text) /\ PieceAt(i) = <<i, e>> /\ CommentAt(i, e)
                 /\ ~OperatorAt(i, e)
                 /\ \A m \in i..e : text[m] # "\n"
            ELSE PieceAt(i) = <<i, i>> /\ OperatorAt(i, i) /\ ~CommentAt(i, i)
<1> DEFINE e == Before(i + 1, "\n")
<1>1. Len(text) \in Nat
  BY LenProperties
<1>2. "/" \notin Firsts
  BY DEF Firsts
<1>3. CASE i < Len(text) /\ text[i + 1] = "/"
  <2>1. i + 1 \in 0..Len(text) /\ i + 1 + 1 = i + 2
    BY <1>1, <1>3
  <2>2. /\ e \in (i + 1)..Len(text)
        /\ \A m \in (i + 2)..e : text[m] # "\n"
        /\ \A k \in (i + 1)..Len(text) : (\A m \in (i + 2)..k : text[m] # "\n") => k <= e
    BY <2>1, BeforeIs
  <2> HIDE DEF e
  <2>3. \A m \in i..e : m = i \/ m = i + 1 \/ m \in (i + 2)..e
    BY <1>1, <2>2
  <2>4. \A m \in i..e : text[m] # "\n"
    BY <1>3, <2>2, <2>3
  <2>5. CommentAt(i, e)
    BY <1>1, <1>3, <2>2, <2>4 DEF CommentAt
  <2>6. e \in i..Len(text) /\ ~OperatorAt(i, e)
    BY <1>1, <1>2, <2>2 DEF OperatorAt
  <2>7. ASSUME NEW m \in (e + 1)..Len(text) PROVE ~LexemeAt(i, m)
    <3>1. m \in i..Len(text) /\ m \in (i + 1)..Len(text) /\ ~(m <= e) /\ m # i
      BY <1>1, <2>2
    <3>2. \A x \in (i + 2)..m : x \in i..m
      BY <1>1
    <3>3. ~CommentAt(i, m)
      BY <2>2, <3>1, <3>2 DEF CommentAt
    <3>4. ~OperatorAt(i, m)
      BY <1>2, <3>1 DEF OperatorAt
    <3> QED  BY <3>1, <3>3, <3>4, KindOf
  <2>8. PieceAt(i) = <<i, e>>
    BY <2>5, <2>6, <2>7, PieceIs DEF LexemeAt
  <2>9. /\ e \in (i + 1)..Len(text) /\ PieceAt(i) = <<i, e>> /\ CommentAt(i, e)
        /\ ~OperatorAt(i, e)
        /\ \A m \in i..e : text[m] # "\n"
    BY <2>2, <2>4, <2>5, <2>6, <2>8
  <2> QED  BY <1>3, <2>9 DEF e
<1>4. CASE ~(i < Len(text) /\ text[i + 1] = "/")
  <2>1. OperatorAt(i, i)
    BY DEF OperatorAt
  <2>2. ASSUME NEW m \in i..Len(text) PROVE ~CommentAt(i, m) /\ (m # i => ~OperatorAt(i, m))
    BY <1>1, <1>2, <1>4 DEF CommentAt, OperatorAt
  <2>3. i \in i..Len(text) /\ \A m \in (i + 1)..Len(text) : m \in i..Len(text) /\ m # i
    BY <1>1
  <2>4. \A m \in (i + 1)..Len(text) : ~LexemeAt(i, m)
    BY <2>2, <2>3, KindOf
  <2>5. PieceAt(i) = <<i, i>>
    BY <2>1, <2>3, <2>4, PieceIs DEF LexemeAt
  <2> QED  BY <1>4, <2>1, <2>2, <2>3, <2>5
<1> QED  BY <1>3, <1>4

LEMMA OperatorPiece ==
  ASSUME text \in Seq(STRING), NEW i \in 1..Len(text), text[i] \in Signs \cup Firsts
  PROVE  LET e == IF text[i] \in Firsts /\ i < Len(text) /\ text[i + 1] = "=" THEN i + 1 ELSE i
         IN e \in i..Len(text) /\ PieceAt(i) = <<i, e>> /\ OperatorAt(i, e)
<1> DEFINE e == IF text[i] \in Firsts /\ i < Len(text) /\ text[i + 1] = "=" THEN i + 1 ELSE i
<1>1. Len(text) \in Nat
  BY LenProperties
<1>2. e \in i..Len(text)
  BY <1>1
<1>3. OperatorAt(i, e)
  BY <1>1 DEF OperatorAt
<1>4. ASSUME NEW m \in (e + 1)..Len(text) PROVE ~LexemeAt(i, m)
  <2>1. m \in i..Len(text) /\ m # i
    BY <1>1, <1>2
  <2>2. ~(m = i + 1 /\ text[i] \in Firsts /\ text[m] = "=")
    BY <1>1
  <2>3. ~OperatorAt(i, m)
    BY <2>1, <2>2 DEF OperatorAt
  <2> QED  BY <2>1, <2>3, KindOf
<1>5. PieceAt(i) = <<i, e>>
  <2> HIDE DEF e
  <2> QED  BY <1>2, <1>3, <1>4, PieceIs DEF LexemeAt
<1> QED  BY <1>2, <1>3, <1>5

LEMMA LonePiece ==
  ASSUME text \in Seq(STRING), NEW i \in 1..Len(text),
         \/ text[i] \in Blanks \cup {"\n"}
         \/ text[i] \notin Letters \cup Digits \cup Signs \cup Firsts \cup {"/", Quote}
  PROVE  PieceAt(i) = <<i, i>> /\ ~LexemeAt(i, i)
<1>1. /\ Len(text) \in Nat /\ i \in i..Len(text)
      /\ \A m \in (i + 1)..Len(text) : m \in i..Len(text)
  BY LenProperties
<1>2. \A m \in i..Len(text) : ~LexemeAt(i, m)
  BY KindOf
<1>3. PieceAt(i) = <<i, i>>
  BY <1>1, <1>2, PieceIs
<1> QED  BY <1>1, <1>2, <1>3
-----------------------------------------------------------------------------
(* The pieces from a position on: the recursive function of Pieces exists. *)

Rest(W, F, i) ==
  IF i > Len(text) THEN <<>>
  ELSE (IF i \in W THEN <<PieceAt(i)>> ELSE <<>>) \o F[PieceAt(i)[2] + 1]

IsCut(W, b, F) == F = [i \in b..(Len(text) + 1) |-> Rest(W, F, i)]

FromOf(W) == CHOOSE F : IsCut(W, 1, F)

LEMMA PiecesAre ==
  ASSUME NEW W
  PROVE  Pieces(W) = FromOf(W)[1]
BY Zenon DEF Pieces, FromOf, IsCut, Rest

LEMMA CutExists ==
  ASSUME text \in Seq(STRING), NEW W
  PROVE  \E F : IsCut(W, 1, F)
<1> DEFINE n == Len(text)
           Bad == {d \in Nat : d <= n /\ ~ \E F : IsCut(W, n + 1 - d, F)}
<1>1. n \in Nat
  BY LenProperties
<1> HIDE DEF n
<1>2. Bad = {}
  <2> SUFFICES ASSUME Bad # {} PROVE FALSE
    OBVIOUS
  <2>1. PICK d \in Bad : \A m \in Bad : d <= m
    BY Least
  <2>2. d \in Nat /\ d <= n /\ ~ \E F : IsCut(W, n + 1 - d, F)
    BY <2>1
  <2>3. d # 0
    <3> SUFFICES ASSUME d = 0 PROVE FALSE
      OBVIOUS
    <3> DEFINE F == [i \in (n + 1)..(n + 1) |-> <<>>]
    <3>1. \A i \in (n + 1)..(n + 1) : Rest(W, F, i) = <<>>
      BY <1>1 DEF Rest, n
    <3> HIDE DEF F
    <3>2. F = [i \in (n + 1)..(n + 1) |-> Rest(W, F, i)]
      BY <3>1 DEF F
    <3>3. IsCut(W, n + 1, F)
      BY <3>2 DEF IsCut, n
    <3>4. n + 1 - d = n + 1
      BY <1>1
    <3> QED  BY <2>2, <3>3, <3>4
  <2> DEFINE b == n + 1 - d
  <2>4. b \in 1..n /\ b \in Nat
    BY <1>1, <2>2, <2>3
  <2>5. PICK F : IsCut(W, b + 1, F)
    <3>1. d - 1 \in Nat /\ d - 1 <= n /\ ~(d <= d - 1)
      BY <1>1, <2>2, <2>3
    <3>2. d - 1 \notin Bad
      BY <2>1, <3>1
    <3>3. \E F : IsCut(W, n + 1 - (d - 1), F)
      BY <3>1, <3>2
    <3>4. n + 1 - (d - 1) = b + 1
      BY <1>1, <2>2
    <3> QED  BY <3>3, <3>4
  <2> HIDE DEF b
  <2>6. F = [i \in (b + 1)..(n + 1) |-> Rest(W, F, i)]
    BY <2>5 DEF IsCut, n
  <2> DEFINE G == [i \in b..(n + 1) |-> IF i = b THEN Rest(W, F, b) ELSE F[i]]
  <2>7. \A i \in (b + 1)..(n + 1) : G[i] = F[i]
    BY <1>1, <2>4
  <2>8. \A i \in b..n : PieceAt(i)[2] + 1 \in (b + 1)..(n + 1)
    <3> TAKE i \in b..n
    <3>1. i \in 1..Len(text)
      BY <1>1, <2>4 DEF n
    <3>2. PieceAt(i)[2] \in i..n
      BY <3>1, PieceFacts DEF n
    <3> QED  BY <1>1, <2>4, <3>2
  <2>9. G[b] = Rest(W, F, b)
    BY <1>1, <2>4
  <2> HIDE DEF G
  <2>10. ASSUME NEW i \in b..(n + 1) PROVE Rest(W, G, i) = Rest(W, F, i)
    <3>1. CASE i > n
      BY <3>1 DEF Rest, n
    <3>2. CASE ~(i > n)
      <4>1. i \in b..n
        BY <1>1, <2>4, <3>2
      <4>2. G[PieceAt(i)[2] + 1] = F[PieceAt(i)[2] + 1]
        BY <2>7, <2>8, <4>1
      <4> QED  BY <4>2, Zenon DEF Rest
    <3> QED  BY <3>1, <3>2
  <2>11. ASSUME NEW i \in b..(n + 1) PROVE G[i] = Rest(W, G, i)
    <3>1. CASE i = b
      BY <2>9, <2>10, <3>1
    <3>2. CASE i # b
      <4>1. i \in (b + 1)..(n + 1)
        BY <1>1, <2>4, <3>2
      <4>2. F[i] = Rest(W, F, i)
        BY <2>6, <4>1
      <4> QED  BY <2>7, <2>10, <4>1, <4>2
    <3> QED  BY <3>1, <3>2
  <2>12. G = [i \in b..(n + 1) |-> G[i]]
    BY DEF G
  <2>13. G = [i \in b..(n + 1) |-> Rest(W, G, i)]
    BY <2>11, <2>12
  <2>14. IsCut(W, b, G)
    BY <2>13 DEF IsCut, n
  <2> QED  BY <2>2, <2>14 DEF b
<1>3. n \notin Bad
  BY <1>2
<1>4. n <= n /\ n + 1 - n = 1
  BY <1>1
<1>5. \E F : IsCut(W, n + 1 - n, F)
  BY <1>1, <1>3, <1>4
<1> QED  BY <1>4, <1>5

LEMMA FromIs ==
  ASSUME text \in Seq(STRING), NEW W, NEW i \in 1..(Len(text) + 1)
  PROVE  FromOf(W)[i] = Rest(W, FromOf(W), i)
<1>1. IsCut(W, 1, FromOf(W))
  BY CutExists, Zenon DEF FromOf
<1> QED  BY <1>1 DEF IsCut

(* From a position on come only pieces that start there or later.          *)
Spots(i) == (i..Len(text)) \X (1..Len(text))

LEMMA FromInSeq ==
  ASSUME text \in Seq(STRING), NEW W, NEW i \in 1..(Len(text) + 1)
  PROVE  FromOf(W)[i] \in Seq(Spots(i))
<1> DEFINE n == Len(text)
           F == FromOf(W)
           Bad == {d \in Nat : d <= n /\ ~ (F[n + 1 - d] \in Seq(Spots(n + 1 - d)))}
<1>1. n \in Nat
  BY LenProperties
<1>2. \A j \in 1..(n + 1) : F[j] = Rest(W, F, j)
  BY FromIs
<1> HIDE DEF n, F
<1>3. Bad = {}
  <2> SUFFICES ASSUME Bad # {} PROVE FALSE
    OBVIOUS
  <2>1. PICK d \in Bad : \A m \in Bad : d <= m
    BY Least
  <2> DEFINE b == n + 1 - d
  <2>2. d \in Nat /\ d <= n /\ F[b] \notin Seq(Spots(b))
    BY <2>1
  <2>3. b \in 1..(n + 1) /\ d = n + 1 - b
    BY <1>1, <2>2
  <2> HIDE DEF b
  <2>4. ASSUME NEW c \in (b + 1)..(n + 1) PROVE F[c] \in Seq(Spots(c))
    <3>1. n + 1 - c \in Nat /\ n + 1 - c <= n /\ ~(d <= n + 1 - c) /\ n + 1 - (n + 1 - c) = c
      BY <1>1, <2>3
    <3>2. n + 1 - c \notin Bad
      BY <2>1, <3>1
    <3> QED  BY <3>1, <3>2
  <2>5. CASE b > n
    <3>1. F[b] = <<>>
      BY <1>2, <2>3, <2>5 DEF Rest, n
    <3> QED  BY <2>2, <3>1, EmptySeq
  <2>6. CASE ~(b > n)
    <3> DEFINE e == PieceAt(b)[2]
               first == IF b \in W THEN <<PieceAt(b)>> ELSE <<>>
    <3>1. b \in 1..Len(text) /\ b \in 1..n
      BY <1>1, <2>3, <2>6 DEF n
    <3>2. PieceAt(b) = <<b, e>> /\ e \in b..n
      BY <3>1, PieceFacts DEF n
    <3>3. PieceAt(b) \in Spots(b)
      BY <1>1, <3>1, <3>2 DEF Spots, n
    <3>4. first \in Seq(Spots(b))
      BY <3>3, EmptySeq
    <3>5. F[b] = first \o F[e + 1]
      BY <1>2, <2>3, <2>6 DEF Rest, n
    <3>6. e + 1 \in (b + 1)..(n + 1)
      BY <1>1, <3>1, <3>2
    <3>7. Spots(e + 1) \subseteq Spots(b)
      BY <1>1, <3>1, <3>6 DEF Spots, n
    <3> HIDE DEF e, first
    <3>8. F[e + 1] \in Seq(Spots(b))
      BY <2>4, <3>6, <3>7, SeqMonotonic
    <3> QED  BY <2>2, <3>4, <3>5, <3>8, ConcatProperties
  <2> QED  BY <2>5, <2>6
<1>4. n + 1 - i \in Nat /\ n + 1 - i <= n /\ n + 1 - (n + 1 - i) = i
  BY <1>1 DEF n
<1>5. n + 1 - i \notin Bad
  BY <1>3
<1>6. F[i] \in Seq(Spots(i))
  BY <1>4, <1>5
<1> QED  BY <1>6 DEF F
-----------------------------------------------------------------------------
(* A step of the scanner reads the piece at its place and reports it.      *)

ReadText == SubSeq(text, current + 1, current')

Moved ==
  /\ ~ended /\ UNCHANGED <<text, ended>>
  /\ current + 1 \in 1..Len(text) /\ current' \in (current + 1)..Len(text)
  /\ PieceAt(current + 1) = <<current + 1, current'>>
  /\ line' = line + Cardinality(Lines(current, current'))
  /\ \/ Lines(current, current') = {} /\ column' = column + (current' - current)
     \/ text[current + 1] = "\n" /\ current' = current + 1 /\ column' = 1
     \/ /\ text[current + 1] = Quote /\ Lines(current, current') # {}
        /\ column' = current' - Max(Lines(current, current')) + 2

TokenStep ==
  /\ IsToken(ReadText)
  /\ tokens' = Append(tokens, [type |-> TypeOf(ReadText), lexeme |-> ReadText, line |-> line',
                               column |-> column, value |-> ValueOf(ReadText)])
  /\ UNCHANGED errors
Messages == {"unexpected character", "unterminated string", "invalid number literal"}
ErrorStep ==
  /\ IsWrong(ReadText)
  /\ \E m \in Messages : errors' = Append(errors, [line |-> line', column |-> column, message |-> m])
  /\ UNCHANGED tokens
SkipStep == ~IsToken(ReadText) /\ ~IsWrong(ReadText) /\ UNCHANGED <<tokens, errors>>

Placed == text \in Seq(STRING) /\ current \in 0..Len(text) /\ line \in Nat /\ column \in Int

(* An advance over the piece at its place, within the line. *)
LEMMA AdvanceMoves ==
  ASSUME Placed, Reading, NEW k \in (current + 1)..Len(text), AdvanceTo(k),
         PieceAt(current + 1) = <<current + 1, k>>,
         \A m \in (current + 1)..k : text[m] # "\n"
  PROVE  Moved /\ current' = k /\ ReadText = SubSeq(text, current + 1, k)
<1>1. Len(text) \in Nat /\ current \in Nat /\ current < Len(text) /\ line \in Nat
  BY LenProperties DEF Placed, Reading
<1>2. /\ current' = k /\ column' = column + (k - current) /\ UNCHANGED <<text, line, ended>>
  BY DEF AdvanceTo
<1>3. Lines(current, k) = {}
  BY DEF Lines
<1>4. Cardinality(Lines(current, k)) = 0
  BY <1>3, FS_EmptySet
<1>5. line' = line + 0
  BY <1>1, <1>2
<1>6. current + 1 \in 1..Len(text) /\ ~ended
  BY <1>1 DEF Reading
<1> QED  BY <1>2, <1>3, <1>4, <1>5, <1>6 DEF Moved, ReadText

(* What the grammar calls a piece, by its first character.                 *)
LEMMA TypeIs ==
  ASSUME text \in Seq(STRING), NEW i \in 1..Len(text), NEW k \in i..Len(text)
  PROVE  LET s == SubSeq(text, i, k)
         IN /\ WordAt(i, k) => IsToken(s) /\ TypeOf(s) = WordType(s) /\ ValueOf(s) = <<>>
            /\ StringAt(i, k) /\ ~UnterminatedAt(i, k) =>
                 IsToken(s) /\ TypeOf(s) = "String" /\ ValueOf(s) = SubSeq(s, 2, Len(s) - 1)
            /\ OperatorAt(i, k) =>
                 /\ IsToken(s) /\ ValueOf(s) = <<>>
                 /\ text[i] = "/" => TypeOf(s) = "Slash"
                 /\ text[i] \in Signs => TypeOf(s) = Single[text[i]]
                 /\ text[i] \in Firsts => TypeOf(s) = Double[text[i]][k - i + 1]
            /\ UnterminatedAt(i, k) => IsWrong(s)
            /\ CommentAt(i, k) => ~IsToken(s) /\ ~IsWrong(s)
            /\ WholeAt(i, k) \/ PointedAt(i, k) =>
                 /\ IsTooLarge(s) => IsWrong(s)
                 /\ ~IsTooLarge(s) => IsToken(s)
                 /\ TypeOf(s) = "Number"
                 /\ ValueOf(s) = NumberValue(Whole(s), SubSeq(s, Len(Whole(s)) + 2, Len(s)))
            /\ ~LexemeAt(i, k) => /\ ~IsToken(s)
                                  /\ IsWrong(s) <=> text[i] \notin Blanks \cup {"\n"}
<1> DEFINE s == SubSeq(text, i, k)
           c == text[i]
<1>1. /\ s \in Seq(STRING) /\ Len(s) = k - i + 1 /\ Head(s) = c /\ s[1] = c
      /\ \A m \in 1..(k - i + 1) : s[m] = text[i + m - 1]
  BY PartIs
<1>2. /\ IsWord(s) <=> WordAt(i, k)
      /\ IsNumeral(s) <=> WholeAt(i, k) \/ PointedAt(i, k)
      /\ IsString(s) <=> StringAt(i, k)
      /\ IsUnterminated(s) <=> UnterminatedAt(i, k)
      /\ IsComment(s) <=> CommentAt(i, k)
      /\ IsOperator(s) <=> OperatorAt(i, k)
  BY LexemeIs
<1>3. /\ WordAt(i, k) => c \in Letters
      /\ WholeAt(i, k) \/ PointedAt(i, k) => c \in Digits
      /\ StringAt(i, k) \/ UnterminatedAt(i, k) => c = Quote
      /\ CommentAt(i, k) => c = "/"
      /\ OperatorAt(i, k) => c \in Signs \cup Firsts \cup {"/"}
  BY FirstOf
<1>4. IsLexeme(s) <=> LexemeAt(i, k)
  BY LexemeAtIs
<1> HIDE DEF s, c
<1>5. /\ c \in Letters => c \notin Digits \cup Blanks \cup Signs \cup Firsts \cup {"/", "\n", Quote, "."}
      /\ c \in Digits => c \notin Blanks \cup Signs \cup Firsts \cup {"/", "\n", Quote, "."}
      /\ c \in Blanks => c \notin Signs \cup Firsts \cup {"/", "\n", Quote, "."}
      /\ c \in Signs => c \notin Firsts \cup {"/", "\n", Quote, "."}
      /\ c \in Firsts => c \notin {"/", "\n", Quote, "."}
  BY Different
<1>6. "/" # Quote
  BY DEF Quote
<1>7. CommentAt(i, k) => ~OperatorAt(i, k)
  <2>1. CommentAt(i, k) => i < k /\ c = "/"
    BY DEF CommentAt, c
  <2>2. OperatorAt(i, k) => k = i \/ c \in Firsts
    BY DEF OperatorAt, c
  <2>3. Len(text) \in Nat
    BY LenProperties
  <2> QED  BY <1>5, <2>1, <2>2, <2>3
<1>8. s = <<"/">> <=> k = i /\ c = "/"
  <2>0. Len(text) \in Nat
    BY LenProperties
  <2>1. ASSUME k = i, c = "/" PROVE s = <<"/">>
    <3>1. Len(s) = 1 /\ s[1] = "/"
      BY <1>1, <2>0, <2>1
    <3>2. s = <<s[1]>>
      BY <1>1, <3>1, OneIs
    <3> QED  BY <3>1, <3>2
  <2>2. ASSUME s = <<"/">> PROVE k = i /\ c = "/"
    <3>1. Len(s) = 1 /\ s[1] = "/"
      BY <2>2
    <3>2. c = "/"
      BY <1>1, <3>1
    <3>3. k - i + 1 = 1
      BY <1>1, <3>1
    <3>4. k = i
      BY <2>0, <3>3
    <3> QED  BY <3>2, <3>4
  <2> QED  BY <2>1, <2>2
<1>9. ASSUME WordAt(i, k)
      PROVE  IsToken(s) /\ TypeOf(s) = WordType(s) /\ ValueOf(s) = <<>>
  <2>1. /\ IsWord(s) /\ ~IsNumeral(s) /\ ~IsString(s) /\ ~IsUnterminated(s) /\ ~IsComment(s)
        /\ ~IsOperator(s) /\ s # <<"/">> /\ Head(s) \notin Signs
    BY <1>1, <1>2, <1>3, <1>5, <1>8, <1>9
  <2>2. IsToken(s)
    BY <2>1 DEF IsToken, IsLexeme, IsWrong, IsTooLarge
  <2>3. TypeOf(s) = WordType(s)
    BY <2>1, SingleIs DEF TypeOf
  <2>4. ValueOf(s) = <<>>
    BY <2>1 DEF ValueOf
  <2> QED  BY <2>2, <2>3, <2>4
<1>10. ASSUME StringAt(i, k), ~UnterminatedAt(i, k)
       PROVE  IsToken(s) /\ TypeOf(s) = "String" /\ ValueOf(s) = SubSeq(s, 2, Len(s) - 1)
  <2>1. /\ ~IsWord(s) /\ ~IsNumeral(s) /\ IsString(s) /\ ~IsUnterminated(s) /\ ~IsComment(s)
        /\ ~IsOperator(s) /\ s # <<"/">> /\ Head(s) \notin Signs
    BY <1>1, <1>2, <1>3, <1>5, <1>6, <1>8, <1>10
  <2>2. IsToken(s)
    BY <2>1 DEF IsToken, IsLexeme, IsWrong, IsTooLarge
  <2>3. TypeOf(s) = "String"
    BY <2>1, SingleIs DEF TypeOf
  <2>4. ValueOf(s) = SubSeq(s, 2, Len(s) - 1)
    BY <2>1 DEF ValueOf
  <2> QED  BY <2>2, <2>3, <2>4
<1>11. ASSUME OperatorAt(i, k)
       PROVE  /\ IsToken(s) /\ ValueOf(s) = <<>>
              /\ c = "/" => TypeOf(s) = "Slash"
              /\ c \in Signs => TypeOf(s) = Single[c]
              /\ c \in Firsts => TypeOf(s) = Double[c][k - i + 1]
  <2>1. /\ ~IsWord(s) /\ ~IsNumeral(s) /\ ~IsString(s) /\ ~IsUnterminated(s) /\ ~IsComment(s)
        /\ IsOperator(s)
    BY <1>1, <1>2, <1>3, <1>5, <1>6, <1>7, <1>11
  <2>2. IsToken(s)
    BY <2>1 DEF IsToken, IsLexeme, IsWrong, IsTooLarge
  <2>3. ValueOf(s) = <<>>
    BY <2>1 DEF ValueOf
  <2>4. ASSUME c = "/" PROVE TypeOf(s) = "Slash"
    <3>1. s = <<"/">>
      BY <1>5, <1>8, <1>11, <2>4 DEF OperatorAt, c
    <3>2. Head(s) \notin DOMAIN Single
      BY <1>1, <1>5, <2>4, SingleIs
    <3> QED  BY <2>1, <3>1, <3>2 DEF TypeOf
  <2>5. ASSUME c \in Signs PROVE TypeOf(s) = Single[c]
    <3>1. s # <<"/">> /\ Head(s) \in DOMAIN Single /\ Head(s) = c
      BY <1>1, <1>5, <1>8, <2>5, SingleIs
    <3> QED  BY <2>1, <3>1 DEF TypeOf
  <2>6. ASSUME c \in Firsts PROVE TypeOf(s) = Double[c][k - i + 1]
    <3>1. s # <<"/">> /\ Head(s) \notin DOMAIN Single /\ Head(s) = c /\ Len(s) = k - i + 1
      BY <1>1, <1>5, <1>8, <2>6, SingleIs
    <3> QED  BY <2>1, <3>1 DEF TypeOf
  <2> QED  BY <2>2, <2>3, <2>4, <2>5, <2>6
<1>12. UnterminatedAt(i, k) => IsWrong(s)
  BY <1>2 DEF IsWrong
<1>13. ASSUME CommentAt(i, k) PROVE ~IsToken(s) /\ ~IsWrong(s)
  <2>1. IsComment(s) /\ ~IsNumeral(s) /\ ~IsUnterminated(s) /\ IsLexeme(s)
    BY <1>2, <1>3, <1>5, <1>6, <1>13 DEF IsLexeme
  <2> QED  BY <2>1 DEF IsToken, IsWrong, IsTooLarge
<1>14. ASSUME WholeAt(i, k) \/ PointedAt(i, k)
       PROVE  /\ IsTooLarge(s) => IsWrong(s)
              /\ ~IsTooLarge(s) => IsToken(s)
              /\ TypeOf(s) = "Number"
              /\ ValueOf(s) = NumberValue(Whole(s), SubSeq(s, Len(Whole(s)) + 2, Len(s)))
  <2>1. /\ ~IsWord(s) /\ IsNumeral(s) /\ ~IsString(s) /\ ~IsUnterminated(s) /\ ~IsComment(s)
        /\ ~IsOperator(s) /\ s # <<"/">> /\ Head(s) \notin Signs
    BY <1>1, <1>2, <1>3, <1>5, <1>8, <1>14
  <2>2. (IsTooLarge(s) => IsWrong(s)) /\ (~IsTooLarge(s) => IsToken(s))
    BY <2>1 DEF IsToken, IsLexeme, IsWrong
  <2>3. TypeOf(s) = "Number"
    BY <2>1, SingleIs DEF TypeOf
  <2>4. ValueOf(s) = NumberValue(Whole(s), SubSeq(s, Len(Whole(s)) + 2, Len(s)))
    BY <2>1 DEF ValueOf
  <2> QED  BY <2>2, <2>3, <2>4
<1>15. ASSUME ~LexemeAt(i, k)
       PROVE  /\ ~IsToken(s)
              /\ IsWrong(s) <=> c \notin Blanks \cup {"\n"}
  <2>1. ~IsLexeme(s) /\ ~IsNumeral(s) /\ ~IsUnterminated(s)
    BY <1>4, <1>15 DEF IsLexeme
  <2> QED  BY <1>1, <2>1 DEF IsToken, IsWrong, IsTooLarge
<1> QED  BY <1>9, <1>10, <1>11, <1>12, <1>13, <1>14, <1>15 DEF s, c

LEMMA AddIs ==
  ASSUME NEW type, NEW value, Add(type, value), IsToken(ReadText),
         TypeOf(ReadText) = type, ValueOf(ReadText) = value
  PROVE  TokenStep
BY DEF Add, Between, ReadText, TokenStep

LEMMA FailIs ==
  ASSUME NEW message \in Messages, Fail(message), IsWrong(ReadText)
  PROVE  ErrorStep
BY DEF Fail, ErrorStep

Reported == TokenStep \/ ErrorStep \/ SkipStep

LEMMA PlaceIs ==
  ASSUME Placed, Reading
  PROVE  /\ current \in Nat /\ Len(text) \in Nat /\ current < Len(text)
         /\ current + 1 \in 1..Len(text) /\ current + 1 - 1 = current
         /\ Peek(1) = text[current + 1]
         /\ \A c \in {"=", "/"} :
              Peek(2) = c <=> current + 1 < Len(text) /\ text[current + 2] = c
<1>1. Len(text) \in Nat /\ current \in Nat /\ current < Len(text)
  BY LenProperties DEF Placed, Reading
<1>2. current + 2 <= Len(text) <=> current + 1 < Len(text)
  BY <1>1
<1>3. current + 1 <= Len(text) /\ current + 1 \in 1..Len(text) /\ current + 1 - 1 = current
  BY <1>1
<1>4. Peek(1) = text[current + 1]
  BY <1>3, Zenon DEF Peek
<1>5. "" # "=" /\ "" # "/"
  BY Zenon
<1>6. ASSUME NEW c \in {"=", "/"}
      PROVE  Peek(2) = c <=> current + 1 < Len(text) /\ text[current + 2] = c
  BY <1>2, <1>5, Zenon DEF Peek
<1> QED  BY <1>1, <1>3, <1>4, <1>6

LEMMA OneCharacterStep ==
  ASSUME Placed, OneCharacter
  PROVE  Moved /\ Reported
<1> DEFINE i == current + 1
<1>1. /\ Reading /\ Peek(1) \in Signs
      /\ AdvanceTo(i) /\ Add(Single[Peek(1)], <<>>)
  BY SingleIs DEF OneCharacter
<1>2. i \in 1..Len(text) /\ Peek(1) = text[i] /\ text \in Seq(STRING) /\ i \in i..Len(text)
  BY <1>1, PlaceIs DEF Placed
<1>3. text[i] \in Signs /\ text[i] \notin Firsts /\ text[i] # "\n"
  BY <1>1, <1>2, Different
<1> HIDE DEF i
<1>4. PieceAt(i) = <<i, i>> /\ OperatorAt(i, i)
  BY <1>2, <1>3, OperatorPiece
<1>5. \A m \in i..i : text[m] # "\n"
  BY <1>2, <1>3
<1>6. Moved /\ current' = i /\ ReadText = SubSeq(text, i, i)
  BY <1>1, <1>2, <1>4, <1>5, AdvanceMoves DEF i
<1>7. IsToken(ReadText) /\ ValueOf(ReadText) = <<>> /\ TypeOf(ReadText) = Single[text[i]]
  BY <1>2, <1>3, <1>4, <1>6, TypeIs
<1>8. TokenStep
  BY <1>1, <1>2, <1>7, AddIs
<1> QED  BY <1>6, <1>8 DEF Reported

LEMMA OneOrTwoStep ==
  ASSUME Placed, OneOrTwo
  PROVE  Moved /\ Reported
<1> DEFINE i == current + 1
           n == IF Peek(2) = "=" THEN 2 ELSE 1
           e == current + n
<1>1. /\ Reading /\ Peek(1) \in Firsts
      /\ AdvanceTo(e) /\ Add(Double[Peek(1)][n], <<>>)
  BY DoubleIs DEF OneOrTwo
<1>2. /\ i \in 1..Len(text) /\ Peek(1) = text[i] /\ text \in Seq(STRING) /\ current \in Nat
      /\ Len(text) \in Nat
      /\ Peek(2) = "=" <=> i < Len(text) /\ text[current + 2] = "="
  BY <1>1, PlaceIs DEF Placed
<1>3. text[i] \in Firsts /\ text[i] # "\n" /\ "=" # "\n" /\ current + 2 = i + 1
  BY <1>1, <1>2, Different
<1>4. n = 2 <=> i < Len(text) /\ text[i + 1] = "="
  BY <1>2, <1>3
<1>5. e = IF text[i] \in Firsts /\ i < Len(text) /\ text[i + 1] = "=" THEN i + 1 ELSE i
  BY <1>2, <1>3, <1>4
<1>6. e \in i..Len(text) /\ PieceAt(i) = <<i, e>> /\ OperatorAt(i, e)
  <2> HIDE DEF e, i
  <2> QED  BY <1>2, <1>3, <1>5, OperatorPiece
<1>7. n = e - i + 1
  BY <1>2
<1> HIDE DEF n, e, i
<1>8. \A m \in i..e : text[m] # "\n"
  <2>1. e = i \/ (e = i + 1 /\ text[i + 1] = "=")
    BY <1>5
  <2>2. \A m \in i..e : m = i \/ (m = i + 1 /\ e = i + 1)
    BY <1>2, <2>1
  <2> QED  BY <1>2, <1>3, <2>1, <2>2
<1>9. Moved /\ current' = e /\ ReadText = SubSeq(text, i, e)
  BY <1>1, <1>6, <1>8, AdvanceMoves DEF i
<1>10. IsToken(ReadText) /\ ValueOf(ReadText) = <<>> /\ TypeOf(ReadText) = Double[text[i]][n]
  BY <1>2, <1>3, <1>6, <1>7, <1>9, TypeIs
<1>11. TokenStep
  BY <1>1, <1>2, <1>10, AddIs
<1> QED  BY <1>9, <1>11 DEF Reported

LEMMA SlashOrCommentStep ==
  ASSUME Placed, SlashOrComment
  PROVE  Moved /\ Reported
<1> DEFINE i == current + 1
           e == Before(i + 1, "\n")
<1>1. Reading /\ Peek(1) = "/"
  BY DEF SlashOrComment
<1>2. /\ i \in 1..Len(text) /\ Peek(1) = text[i] /\ text \in Seq(STRING) /\ current \in Nat
      /\ Len(text) \in Nat
      /\ Peek(2) = "/" <=> i < Len(text) /\ text[current + 2] = "/"
  BY <1>1, PlaceIs DEF Placed
<1>3. text[i] = "/" /\ current + 2 = i + 1
  BY <1>1, <1>2
<1>4. Peek(2) = "/" <=> i < Len(text) /\ text[i + 1] = "/"
  BY <1>2, <1>3
<1>5. CASE Peek(2) = "/"
  <2>1. AdvanceTo(e) /\ Skip
    BY <1>3, <1>5 DEF SlashOrComment
  <2> HIDE DEF e, i
  <2>2. /\ e \in (i + 1)..Len(text) /\ PieceAt(i) = <<i, e>> /\ CommentAt(i, e)
        /\ \A m \in i..e : text[m] # "\n"
    BY <1>2, <1>3, <1>4, <1>5, SlashPiece DEF e
  <2>3. e \in i..Len(text)
    BY <1>2, <2>2
  <2>4. Moved /\ current' = e /\ ReadText = SubSeq(text, i, e)
    BY <1>1, <2>1, <2>2, <2>3, AdvanceMoves DEF i
  <2>5. ~IsToken(ReadText) /\ ~IsWrong(ReadText)
    BY <1>2, <2>2, <2>3, <2>4, TypeIs
  <2>6. SkipStep
    BY <2>1, <2>5 DEF Skip, SkipStep
  <2> QED  BY <2>4, <2>6 DEF Reported
<1>6. CASE Peek(2) # "/"
  <2>1. AdvanceTo(i) /\ Add("Slash", <<>>)
    BY <1>6 DEF SlashOrComment
  <2> HIDE DEF e, i
  <2>2. PieceAt(i) = <<i, i>> /\ OperatorAt(i, i)
    BY <1>2, <1>3, <1>4, <1>6, SlashPiece
  <2>3. i \in i..Len(text) /\ \A m \in i..i : text[m] # "\n"
    BY <1>2, <1>3
  <2>4. Moved /\ current' = i /\ ReadText = SubSeq(text, i, i)
    BY <1>1, <2>1, <2>2, <2>3, AdvanceMoves DEF i
  <2>5. IsToken(ReadText) /\ ValueOf(ReadText) = <<>> /\ TypeOf(ReadText) = "Slash"
    BY <1>2, <1>3, <2>2, <2>3, <2>4, TypeIs
  <2>6. TokenStep
    BY <2>1, <2>5, AddIs
  <2> QED  BY <2>4, <2>6 DEF Reported
<1> QED  BY <1>5, <1>6

LEMMA BlankStep ==
  ASSUME Placed, Blank
  PROVE  Moved /\ Reported
<1> DEFINE i == current + 1
<1>1. Reading /\ Peek(1) \in Blanks /\ AdvanceTo(i) /\ Skip
  BY DEF Blank
<1>2. i \in 1..Len(text) /\ Peek(1) = text[i] /\ text \in Seq(STRING) /\ i \in i..Len(text)
  BY <1>1, PlaceIs DEF Placed
<1>3. text[i] \in Blanks /\ text[i] # "\n"
  BY <1>1, <1>2, Different
<1> HIDE DEF i
<1>4. PieceAt(i) = <<i, i>> /\ ~LexemeAt(i, i)
  BY <1>2, <1>3, LonePiece
<1>5. \A m \in i..i : text[m] # "\n"
  BY <1>2, <1>3
<1>6. Moved /\ current' = i /\ ReadText = SubSeq(text, i, i)
  BY <1>1, <1>2, <1>4, <1>5, AdvanceMoves DEF i
<1>7. ~IsToken(ReadText) /\ ~IsWrong(ReadText)
  BY <1>2, <1>3, <1>4, <1>6, TypeIs
<1>8. SkipStep
  BY <1>1, <1>7 DEF Skip, SkipStep
<1> QED  BY <1>6, <1>8 DEF Reported

LEMMA NewlineStep ==
  ASSUME Placed, Newline
  PROVE  Moved /\ Reported
<1> DEFINE i == current + 1
<1>1. /\ Reading /\ Peek(1) = "\n" /\ current' = i /\ line' = line + 1 /\ column' = 1 /\ Skip
      /\ UNCHANGED <<text, ended>>
  BY DEF Newline
<1>2. i \in 1..Len(text) /\ Peek(1) = text[i] /\ text \in Seq(STRING) /\ i \in i..Len(text)
      /\ current \in Nat
  BY <1>1, PlaceIs DEF Placed
<1>3. text[i] = "\n"
  BY <1>1, <1>2
<1>4. PieceAt(i) = <<i, i>> /\ ~LexemeAt(i, i)
  <2> HIDE DEF i
  <2> QED  BY <1>2, <1>3, LonePiece
<1>5. Lines(current, current') = {i}
  BY <1>1, <1>2, <1>3 DEF Lines
<1>6. Cardinality(Lines(current, current')) = 1
  BY <1>5, FS_Singleton
<1>7. Moved
  BY <1>1, <1>2, <1>3, <1>4, <1>6 DEF Moved, Reading
<1> HIDE DEF i
<1>8. ~IsToken(SubSeq(text, i, i)) /\ ~IsWrong(SubSeq(text, i, i))
  BY <1>2, <1>3, <1>4, TypeIs
<1>9. SkipStep
  BY <1>1, <1>8 DEF Skip, SkipStep, ReadText, i
<1> QED  BY <1>7, <1>9 DEF Reported

LEMMA UnexpectedStep ==
  ASSUME Placed, Unexpected
  PROVE  Moved /\ Reported
<1> DEFINE i == current + 1
<1>1. /\ Reading /\ AdvanceTo(i) /\ Fail("unexpected character")
      /\ Peek(1) \notin Digits \cup Letters \cup Blanks \cup Signs \cup Firsts \cup {"/", "\n", Quote}
  BY SingleIs, DoubleIs DEF Unexpected, Quote
<1>a. Reading
  BY DEF Unexpected
<1>2. i \in 1..Len(text) /\ Peek(1) = text[i] /\ text \in Seq(STRING) /\ i \in i..Len(text)
  BY <1>a, PlaceIs DEF Placed
<1>3. /\ text[i] \notin Letters \cup Digits \cup Signs \cup Firsts \cup {"/", Quote}
      /\ text[i] \notin Blanks \cup {"\n"} /\ text[i] # "\n"
  BY <1>1, <1>2
<1> HIDE DEF i
<1>4. PieceAt(i) = <<i, i>> /\ ~LexemeAt(i, i)
  BY <1>2, <1>3, LonePiece
<1>5. \A m \in i..i : text[m] # "\n"
  BY <1>2, <1>3
<1>6. Moved /\ current' = i /\ ReadText = SubSeq(text, i, i)
  BY <1>1, <1>2, <1>4, <1>5, AdvanceMoves DEF i
<1>7. IsWrong(ReadText)
  BY <1>2, <1>3, <1>4, <1>6, TypeIs
<1>8. ErrorStep
  <2>1. Fail("unexpected character")
    BY <1>1
  <2>2. "unexpected character" \in Messages
    BY Zenon DEF Messages
  <2> QED  BY <1>7, <2>1, <2>2, FailIs, Zenon
<1> QED  BY <1>6, <1>8 DEF Reported

LEMMA WordStep ==
  ASSUME Placed, Word
  PROVE  Moved /\ Reported
<1> DEFINE i == current + 1
           e == RunEnd(current, Letters \cup Digits)
<1>1. Reading /\ Peek(1) \in Letters /\ AdvanceTo(e) /\ Add(WordType(Between(current, current')), <<>>)
  BY DEF Word
<1>2. /\ i \in 1..Len(text) /\ Peek(1) = text[i] /\ text \in Seq(STRING) /\ i - 1 = current
  BY <1>1, PlaceIs DEF Placed
<1>3. text[i] \in Letters
  BY <1>1, <1>2
<1>4. /\ e \in i..Len(text) /\ PieceAt(i) = <<i, e>> /\ WordAt(i, e)
      /\ \A m \in i..e : text[m] \in Letters \cup Digits
  <2> HIDE DEF i
  <2> QED  BY <1>2, <1>3, WordPiece
<1> HIDE DEF e, i
<1>5. \A m \in i..e : text[m] # "\n"
  BY <1>4, Different
<1>6. Moved /\ current' = e /\ ReadText = SubSeq(text, i, e)
  BY <1>1, <1>4, <1>5, AdvanceMoves DEF i
<1>7. IsToken(ReadText) /\ ValueOf(ReadText) = <<>> /\ TypeOf(ReadText) = WordType(ReadText)
  BY <1>2, <1>4, <1>6, TypeIs
<1>8. Add(WordType(ReadText), <<>>)
  BY <1>1 DEF Between, ReadText
<1>9. TokenStep
  BY <1>7, <1>8, AddIs
<1> QED  BY <1>6, <1>9 DEF Reported

LEMMA PartOfPart ==
  ASSUME text \in Seq(STRING), NEW i \in 1..Len(text), NEW k \in i..Len(text),
         NEW a \in 1..(k - i + 1), NEW b \in 1..(k - i + 1), NEW c, NEW d,
         c = i + a - 1, d = i + b - 1
  PROVE  SubSeq(SubSeq(text, i, k), a, b) = SubSeq(text, c, d)
<1>1. i \in 1..Len(text) /\ k \in 1..Len(text)
  BY LenProperties
<1> QED  BY <1>1, SubSeqOfSubSeq

(* The digits of a number before its point, and those after it.            *)
LEMMA WholeIs ==
  ASSUME text \in Seq(STRING), NEW i \in 1..Len(text), NEW whole \in i..Len(text),
         NEW k \in whole..Len(text), WholeAt(i, whole),
         k = whole \/ (whole + 2 <= k /\ text[whole + 1] = ".")
  PROVE  LET s == SubSeq(text, i, k)
         IN /\ Whole(s) = SubSeq(text, i, whole)
            /\ SubSeq(s, Len(Whole(s)) + 2, Len(s)) = SubSeq(text, whole + 2, k)
<1> DEFINE s == SubSeq(text, i, k)
           t == Append(s, ".")
           w == whole - i + 1
           I == {x \in 1..Len(t) : t[x] = "."}
<1>0. Len(text) \in Nat
  BY LenProperties
<1>1. k \in i..Len(text)
  BY <1>0
<1>2. /\ s \in Seq(STRING) /\ Len(s) = k - i + 1
      /\ \A m \in 1..(k - i + 1) : s[m] = text[i + m - 1]
  BY <1>1, PartIs
<1>3. /\ Len(t) = k - i + 2 /\ t[k - i + 2] = "."
      /\ \A x \in 1..(k - i + 1) : t[x] = text[i + x - 1]
  <2>1. s \in Seq(STRING \cup {"."}) /\ "." \in STRING \cup {"."}
    BY <1>2, SeqMonotonic
  <2>2. /\ Len(t) = Len(s) + 1 /\ t[Len(s) + 1] = "."
        /\ \A x \in 1..Len(s) : t[x] = s[x]
    BY <2>1, AppendProperties
  <2>3. Len(s) + 1 = k - i + 2
    BY <1>0, <1>2
  <2> QED  BY <1>2, <2>2, <2>3
<1>4. Whole(s) = SubSeq(s, 1, SelectInSeq(t, LAMBDA c : c = ".") - 1)
  BY DEF Whole
<1>5. SelectInSeq(t, LAMBDA c : c = ".") = IF I # {} THEN Min(I) ELSE 0
  BY DEF SelectInSeq
<1> HIDE DEF t
<1>6. w + 1 \in I
  <2>1. w + 1 \in 1..Len(t)
    BY <1>0, <1>1, <1>3
  <2>2. CASE k = whole
    <3>1. w + 1 = k - i + 2
      BY <1>0, <2>2
    <3> QED  BY <1>3, <2>1, <3>1
  <2>3. CASE whole + 2 <= k /\ text[whole + 1] = "."
    <3>1. w + 1 \in 1..(k - i + 1) /\ i + (w + 1) - 1 = whole + 1
      BY <1>0, <1>1, <2>3
    <3> QED  BY <1>3, <2>1, <2>3, <3>1
  <2> QED  BY <2>2, <2>3
<1>7. \A x \in 1..w : t[x] # "."
  <2>1. \A x \in 1..w : x \in 1..(k - i + 1) /\ i + x - 1 \in i..whole
    BY <1>0, <1>1
  <2>2. \A m \in i..whole : text[m] # "."
    BY Different DEF WholeAt
  <2> QED  BY <1>3, <2>1, <2>2
<1>8. I \subseteq Int /\ w \in Int /\ w >= 1 /\ w <= k - i + 1
  BY <1>0
<1>9. \A x \in I : x >= w + 1
  <2> SUFFICES ASSUME NEW x \in I, ~(x >= w + 1) PROVE FALSE
    OBVIOUS
  <2>1. x \in 1..w
    BY <1>8
  <2> QED  BY <1>7, <2>1
<1> HIDE DEF I, w
<1>10. Min(I) = w + 1 /\ I # {}
  BY <1>6, <1>8, <1>9, MinIs
<1>11. Whole(s) = SubSeq(s, 1, w)
  BY <1>4, <1>5, <1>8, <1>10
<1>12. Whole(s) = SubSeq(text, i, whole)
  <2>1. /\ i \in 1..Len(text) /\ k \in 1..Len(text) /\ 1 \in 1..(k - i + 1) /\ w \in 1..(k - i + 1)
        /\ i + 1 - 1 = i /\ i + w - 1 = whole
    BY <1>0, <1>1, <1>8 DEF w
  <2>2. SubSeq(SubSeq(text, i, k), 1, w) = SubSeq(text, i + 1 - 1, i + w - 1)
    BY <2>1, SubSeqOfSubSeq
  <2> QED  BY <1>11, <2>1, <2>2
<1>13. Len(Whole(s)) = w
  <2>1. whole \in 0..Len(text) /\ i <= whole
    BY <1>0
  <2>2. Len(SubSeq(text, i, whole)) = whole - i + 1
    BY <1>0, <2>1, PartFacts
  <2> QED  BY <1>12, <2>2 DEF w
<1>14. SubSeq(s, w + 2, Len(s)) = SubSeq(text, whole + 2, k)
  <2>1. CASE k = whole
    <3>1. w + 2 \in Int /\ Len(s) \in Int /\ Len(s) < w + 2 /\ whole + 2 \in Int /\ k \in Int /\ k < whole + 2
      BY <1>0, <1>2, <1>8, <2>1 DEF w
    <3>2. SubSeq(s, w + 2, Len(s)) = <<>>
      BY <3>1, SubSeqEmpty
    <3>3. SubSeq(text, whole + 2, k) = <<>>
      BY <3>1, SubSeqEmpty
    <3> QED  BY <3>2, <3>3
  <2>2. CASE whole + 2 <= k
    <3>1. /\ i \in 1..Len(text) /\ k \in 1..Len(text) /\ w + 2 \in 1..(k - i + 1)
          /\ k - i + 1 \in 1..(k - i + 1)
          /\ whole + 2 = i + (w + 2) - 1 /\ k = i + (k - i + 1) - 1
      BY <1>0, <1>1, <1>8, <2>2 DEF w
    <3> DEFINE a == w + 2
               b == k - i + 1
               c == whole + 2
    <3>a. a \in 1..(k - i + 1) /\ b \in 1..(k - i + 1) /\ c = i + a - 1 /\ k = i + b - 1
      BY <3>1
    <3> HIDE DEF a, b, c
    <3>b. SubSeq(SubSeq(text, i, k), a, b) = SubSeq(text, c, k)
      BY <1>1, <3>a, PartOfPart
    <3>2. SubSeq(SubSeq(text, i, k), w + 2, k - i + 1) = SubSeq(text, whole + 2, k)
      BY <3>b DEF a, b, c
    <3> QED  BY <1>2, <3>1, <3>2
  <2> QED  BY <2>1, <2>2
<1> QED  BY <1>12, <1>13, <1>14

LEMMA NumberStep ==
  ASSUME Placed, NumberToken
  PROVE  Moved /\ Reported
<1> DEFINE i == current + 1
           whole == RunEnd(current, Digits)
           e == IF Pointed(whole) THEN RunEnd(whole + 1, Digits) ELSE whole
<1>1. /\ Reading /\ Peek(1) \in Digits /\ AdvanceTo(e)
      /\ IF OutOfRange(Between(current, whole)) THEN Fail("invalid number literal")
         ELSE Add("Number", NumberValue(Between(current, whole), Between(whole + 1, e)))
  BY DEF NumberToken
<1>c. Reading /\ Peek(1) \in Digits
  BY DEF NumberToken
<1>2. /\ i \in 1..Len(text) /\ Peek(1) = text[i] /\ text \in Seq(STRING) /\ i - 1 = current
      /\ Len(text) \in Nat
  BY <1>c, PlaceIs DEF Placed
<1>3. text[i] \in Digits
  BY <1>c, <1>2
<1>4. /\ whole \in i..Len(text) /\ WholeAt(i, whole)
      /\ e \in whole..Len(text)
      /\ PieceAt(i) = <<i, e>>
      /\ WholeAt(i, e) \/ PointedAt(i, e)
      /\ \A m \in i..e : text[m] \in Digits \cup {"."}
      /\ e = whole \/ (whole + 2 <= e /\ text[whole + 1] = ".")
  <2> HIDE DEF i
  <2> QED  BY <1>2, <1>3, NumberPiece
<1>5. Between(current, whole) = SubSeq(text, i, whole)
  BY DEF Between
<1>6. Between(whole + 1, e) = SubSeq(text, whole + 2, e)
  <2>1. whole + 1 + 1 = whole + 2
    BY <1>2, <1>4
  <2> HIDE DEF whole, e
  <2> QED  BY <2>1 DEF Between
<1>a. AdvanceTo(e) /\ Reading
  BY <1>1
<1>b. IF OutOfRange(SubSeq(text, i, whole)) THEN Fail("invalid number literal")
      ELSE Add("Number", NumberValue(SubSeq(text, i, whole), SubSeq(text, whole + 2, e)))
  <2> HIDE DEF whole, e, i
  <2> QED  BY <1>1, <1>5, <1>6, Zenon
<1> HIDE DEF e, i, whole
<1>7. e \in i..Len(text)
  BY <1>2, <1>4
<1>8. \A m \in i..e : text[m] # "\n"
  <2>1. "." # "\n"
    OBVIOUS
  <2> QED  BY <1>4, <2>1, Different
<1>9. Moved /\ current' = e /\ ReadText = SubSeq(text, i, e)
  BY <1>a, <1>4, <1>7, <1>8, AdvanceMoves DEF i
<1>10. /\ Whole(ReadText) = SubSeq(text, i, whole)
       /\ SubSeq(ReadText, Len(Whole(ReadText)) + 2, Len(ReadText)) = SubSeq(text, whole + 2, e)
  BY <1>2, <1>4, <1>9, WholeIs
<1>11. /\ IsTooLarge(ReadText) => IsWrong(ReadText)
       /\ ~IsTooLarge(ReadText) => IsToken(ReadText)
       /\ TypeOf(ReadText) = "Number"
       /\ ValueOf(ReadText) = NumberValue(SubSeq(text, i, whole), SubSeq(text, whole + 2, e))
  BY <1>2, <1>4, <1>7, <1>9, <1>10, TypeIs
<1>12. IsNumeral(ReadText)
  BY <1>2, <1>4, <1>7, <1>9, LexemeIs
<1>13. CASE OutOfRange(SubSeq(text, i, whole))
  <2>1. Fail("invalid number literal")
    BY <1>b, <1>13, Zenon
  <2>2. IsTooLarge(ReadText)
    BY <1>10, <1>12, <1>13 DEF IsTooLarge
  <2>3. "invalid number literal" \in Messages
    BY Zenon DEF Messages
  <2>4. ErrorStep
    BY <1>11, <2>1, <2>2, <2>3, FailIs, Zenon
  <2> QED  BY <1>9, <2>4 DEF Reported
<1>14. CASE ~OutOfRange(SubSeq(text, i, whole))
  <2>1. Add("Number", NumberValue(SubSeq(text, i, whole), SubSeq(text, whole + 2, e)))
    BY <1>b, <1>14, Zenon
  <2>2. ~IsTooLarge(ReadText)
    BY <1>10, <1>14 DEF IsTooLarge
  <2>3. TokenStep
    BY <1>11, <2>1, <2>2, AddIs, Zenon
  <2> QED  BY <1>9, <2>3 DEF Reported
<1> QED  BY <1>13, <1>14

LEMMA StringStep ==
  ASSUME Placed, StringToken
  PROVE  Moved /\ Reported
<1> DEFINE i == current + 1
           closing == Before(i, Quote)
           e == Min({closing + 1, Len(text)})
           newlines == Lines(current, e)
<1>1. /\ Reading /\ Peek(1) = Quote
      /\ current' = e
      /\ line' = line + Cardinality(newlines)
      /\ column' = IF newlines = {} THEN column + (e - current) ELSE e - Max(newlines) + 2
      /\ IF closing = Len(text) THEN Fail("unterminated string")
         ELSE Add("String", Between(i, closing))
      /\ UNCHANGED <<text, ended>>
  BY Zenon DEF StringToken, Quote
<1>a. /\ Reading /\ Peek(1) = Quote
      /\ current' = e
      /\ line' = line + Cardinality(newlines)
      /\ column' = IF newlines = {} THEN column + (e - current) ELSE e - Max(newlines) + 2
      /\ UNCHANGED <<text, ended>>
  BY <1>1, Zenon
<1>2. /\ i \in 1..Len(text) /\ Peek(1) = text[i] /\ text \in Seq(STRING) /\ i - 1 = current
      /\ Len(text) \in Nat
  BY <1>a, PlaceIs DEF Placed
<1>3. text[i] = Quote
  BY <1>a, <1>2
<1>4. /\ closing \in i..Len(text) /\ e \in i..Len(text)
      /\ PieceAt(i) = <<i, e>>
      /\ closing = Len(text) => UnterminatedAt(i, e) /\ ~StringAt(i, e)
      /\ closing # Len(text) => StringAt(i, e) /\ ~UnterminatedAt(i, e) /\ e = closing + 1
  <2> HIDE DEF i
  <2> QED  BY <1>2, <1>3, StringPiece
<1> HIDE DEF e, closing
<1>5. Moved /\ ReadText = SubSeq(text, i, e)
  <2>1. ~ended
    BY <1>a DEF Reading
  <2>2. ReadText = SubSeq(text, i, e)
    BY <1>a DEF ReadText
  <2>3. \/ newlines = {} /\ column' = column + (e - current)
        \/ text[i] = Quote /\ newlines # {} /\ column' = e - Max(newlines) + 2
    BY <1>a, <1>3
  <2>4. Moved
    BY <1>a, <1>2, <1>4, <2>1, <2>3 DEF Moved
  <2> QED  BY <2>2, <2>4
<1>6. CASE closing = Len(text)
  <2>1. Fail("unterminated string")
    BY <1>1, <1>6, Zenon
  <2>2. IsWrong(ReadText)
    <3> HIDE DEF i
    <3> QED  BY <1>2, <1>4, <1>5, <1>6, TypeIs
  <2>3. "unterminated string" \in Messages
    BY Zenon DEF Messages
  <2>4. ErrorStep
    BY <2>1, <2>2, <2>3, FailIs, Zenon
  <2> QED  BY <1>5, <2>4 DEF Reported
<1>7. CASE closing # Len(text)
  <2>1. Add("String", Between(i, closing))
    BY <1>1, <1>7, Zenon
  <2>2. /\ IsToken(ReadText) /\ TypeOf(ReadText) = "String"
        /\ ValueOf(ReadText) = SubSeq(ReadText, 2, Len(ReadText) - 1)
    <3> HIDE DEF i
    <3> QED  BY <1>2, <1>4, <1>5, <1>7, TypeIs
  <2>3. SubSeq(ReadText, 2, Len(ReadText) - 1) = Between(i, closing)
    <3>1. i < e /\ e = closing + 1
      BY <1>4, <1>7 DEF StringAt
    <3> DEFINE R == SubSeq(text, i, e)
               n == Len(R) - 1
    <3>2. Len(R) = e - i + 1
      <4> HIDE DEF i
      <4> QED  BY <1>2, <1>4, PartIs
    <3>3. 2 \in 1..(e - i + 1) /\ n \in 1..(e - i + 1) /\ i + 1 = i + 2 - 1 /\ closing = i + n - 1
      BY <1>2, <1>4, <3>1, <3>2
    <3> HIDE DEF i, n
    <3>4. SubSeq(R, 2, n) = SubSeq(text, i + 1, closing)
      BY <1>2, <1>4, <3>3, PartOfPart
    <3> HIDE DEF R
    <3>5. ReadText = R
      BY <1>5 DEF R
    <3>6. SubSeq(R, 2, Len(R) - 1) = Between(i, closing)
      BY <3>4 DEF n, Between
    <3> QED  BY <3>5, <3>6
  <2>4. TokenStep
    BY <2>1, <2>2, <2>3, AddIs, Zenon
  <2> QED  BY <1>5, <2>4 DEF Reported
<1> QED  BY <1>6, <1>7
-----------------------------------------------------------------------------
(* The grammar's operators, of a text given to them.                       *)

PieceIn(t, i) == <<i, Max({i} \cup {k \in i..Len(t) : IsLexeme(SubSeq(t, i, k))})>>
PartIn(t, p) == SubSeq(t, p[1], p[2])

RestIn(t, W, F, i) ==
  IF i > Len(t) THEN <<>>
  ELSE (IF i \in W THEN <<PieceIn(t, i)>> ELSE <<>>) \o F[PieceIn(t, i)[2] + 1]
IsCutIn(t, W, b, F) == F = [i \in b..(Len(t) + 1) |-> RestIn(t, W, F, i)]
FromIn(t, W) == CHOOSE F : IsCutIn(t, W, 1, F)

TokensAt(t) == {i \in DOMAIN t : IsToken(PartIn(t, PieceIn(t, i)))}
WrongAt(t) == {i \in DOMAIN t : IsWrong(PartIn(t, PieceIn(t, i)))}
QuotedAt(t) == {i \in DOMAIN t : t[i] = Quote}
QuotedIn(t) == FromIn(t, QuotedAt(t))[1]

LineAt(t, n) == 1 + Cardinality({i \in 1..n : t[i] = "\n"})
LineIn(t, p) == LineAt(t, p[2])
NewlineBefore(t, n) == Max({0} \cup {i \in 1..(n - 1) : t[i] = "\n"})
InString(t, n) ==
  \E j \in DOMAIN QuotedIn(t) : QuotedIn(t)[j][1] < n /\ n <= QuotedIn(t)[j][2]
ColumnAt(t, n) == n - NewlineBefore(t, n) + (IF InString(t, NewlineBefore(t, n)) THEN 1 ELSE 0)
ColumnIn(t, p) == ColumnAt(t, p[1])

LEMMA FromInIs ==
  ASSUME NEW W
  PROVE  FromIn(text, W) = FromOf(W)
BY Zenon DEF FromIn, FromOf, IsCutIn, IsCut, RestIn, Rest, PieceIn, PieceAt

LEMMA InText ==
  /\ \A i : PieceIn(text, i) = PieceAt(i)
  /\ \A p : PartIn(text, p) = Piece(p)
  /\ TokenPieces = FromIn(text, TokensAt(text))[1]
  /\ WrongPieces = FromIn(text, WrongAt(text))[1]
  /\ QuotedPieces = QuotedIn(text)
  /\ \A p : LineIn(text, p) = LineOf(p)
  /\ \A p : ColumnIn(text, p) = ColumnOf(p)
<1>1. \A i : PieceIn(text, i) = PieceAt(i)
  BY DEF PieceIn, PieceAt
<1>2. \A p : PartIn(text, p) = Piece(p)
  BY DEF PartIn, Piece
<1>3. \A W : Pieces(W) = FromIn(text, W)[1]
  BY PiecesAre, FromInIs
<1>4. TokenPieces = FromIn(text, TokensAt(text))[1]
  BY <1>3, Zenon DEF TokenPieces, TokensAt, PieceIn, PieceAt, PartIn, Piece
<1>5. WrongPieces = FromIn(text, WrongAt(text))[1]
  BY <1>3, Zenon DEF WrongPieces, WrongAt, PieceIn, PieceAt, PartIn, Piece
<1>6. QuotedPieces = QuotedIn(text)
  BY <1>3, Zenon DEF QuotedPieces, QuotedIn, QuotedAt, Quote
<1>7. \A p : LineIn(text, p) = LineOf(p)
  BY DEF LineAt, LineIn, LineOf
<1>8. \A p : ColumnIn(text, p) = ColumnOf(p)
  BY <1>6, Zenon DEF ColumnAt, ColumnIn, ColumnOf, NewlineBefore, InString
<1> QED  BY <1>1, <1>2, <1>4, <1>5, <1>6, <1>7, <1>8

(* The wanted pieces d come before position c, and the others after it.    *)
SpotsIn(t) == (1..Len(t)) \X (1..Len(t))
Behind(t, W, d, c) == d \in Seq(SpotsIn(t)) /\ FromIn(t, W)[1] = d \o FromIn(t, W)[c + 1]

LEMMA RestInSeq ==
  ASSUME text \in Seq(STRING), NEW W, NEW c \in 0..Len(text)
  PROVE  /\ FromIn(text, W)[c + 1] \in Seq(Spots(c + 1))
         /\ FromIn(text, W)[c + 1] \in Seq(SpotsIn(text))
<1>1. c + 1 \in 1..(Len(text) + 1) /\ Len(text) \in Nat
  BY LenProperties
<1>2. FromIn(text, W)[c + 1] \in Seq(Spots(c + 1))
  BY <1>1, FromInSeq, FromInIs
<1>3. Spots(c + 1) \subseteq SpotsIn(text)
  BY <1>1 DEF Spots, SpotsIn
<1> QED  BY <1>2, <1>3, SeqMonotonic

LEMMA BehindStart ==
  ASSUME text \in Seq(STRING), NEW W
  PROVE  Behind(text, W, <<>>, 0)
<1>1. FromIn(text, W)[0 + 1] \in Seq(SpotsIn(text))
  <2>1. 0 \in 0..Len(text)
    BY LenProperties
  <2> QED  BY <2>1, RestInSeq
<1>2. <<>> \o FromIn(text, W)[1] = FromIn(text, W)[1]
  BY <1>1, ConcatEmptySeq
<1> QED  BY <1>2, EmptySeq DEF Behind

LEMMA BehindEnd ==
  ASSUME text \in Seq(STRING), NEW W, NEW d, Behind(text, W, d, Len(text))
  PROVE  FromIn(text, W)[1] = d
<1>1. Len(text) + 1 \in 1..(Len(text) + 1) /\ Len(text) + 1 > Len(text)
  BY LenProperties
<1>2. FromIn(text, W)[Len(text) + 1] = <<>>
  BY <1>1, FromIs, FromInIs DEF Rest
<1>3. d \o <<>> = d
  BY ConcatEmptySeq DEF Behind
<1> QED  BY <1>2, <1>3 DEF Behind

LEMMA BehindStep ==
  ASSUME text \in Seq(STRING), NEW c \in 0..Len(text), NEW k \in (c + 1)..Len(text),
         PieceAt(c + 1) = <<c + 1, k>>, NEW W, NEW d, Behind(text, W, d, c)
  PROVE  /\ c + 1 \in W => Behind(text, W, Append(d, <<c + 1, k>>), k)
         /\ c + 1 \notin W => Behind(text, W, d, k)
<1> DEFINE F == FromIn(text, W)
           p == <<c + 1, k>>
           S == SpotsIn(text)
<1>1. Len(text) \in Nat /\ c + 1 \in 1..Len(text) /\ c + 1 \in 1..(Len(text) + 1) /\ k \in 0..Len(text)
      /\ ~(c + 1 > Len(text)) /\ k \in 1..Len(text)
  BY LenProperties
<1>2. F[c + 1] = (IF c + 1 \in W THEN <<p>> ELSE <<>>) \o F[k + 1]
  <2>1. F[c + 1] = Rest(W, F, c + 1)
    BY <1>1, FromIs, FromInIs
  <2>2. p[2] = k
    OBVIOUS
  <2> HIDE DEF F, p
  <2> QED  BY <1>1, <2>1, <2>2 DEF Rest, p
<1>3. p \in S
  BY <1>1 DEF SpotsIn
<1>4. F[k + 1] \in Seq(S)
  BY <1>1, RestInSeq
<1>5. d \in Seq(S) /\ F[1] = d \o F[c + 1]
  BY DEF Behind
<1> HIDE DEF F, S, p
<1>6. ASSUME c + 1 \in W PROVE F[1] = Append(d, p) \o F[k + 1] /\ Append(d, p) \in Seq(S)
  <2> DEFINE q == <<p>>
             r == F[k + 1]
  <2>1. q \in Seq(S) /\ r \in Seq(S) /\ d \in Seq(S)
    BY <1>3, <1>4, <1>5
  <2>a. (d \o q) \o r = d \o (q \o r)
    <3> HIDE DEF q, r
    <3>1. \A x, y, z \in Seq(S) : (x \o y) \o z = x \o (y \o z)
      BY ConcatAssociative
    <3> QED  BY <2>1, <3>1
  <2>2. (d \o <<p>>) \o F[k + 1] = d \o (<<p>> \o F[k + 1])
    BY <2>a
  <2>3. Append(d, p) = d \o <<p>> /\ Append(d, p) \in Seq(S)
    BY <1>3, <1>5, AppendIsConcat, AppendProperties
  <2> QED  BY <1>2, <1>5, <1>6, <2>2, <2>3
<1>7. ASSUME c + 1 \notin W PROVE F[1] = d \o F[k + 1]
  <2>1. <<>> \o F[k + 1] = F[k + 1]
    BY <1>4, ConcatEmptySeq
  <2> QED  BY <1>2, <1>5, <1>7, <2>1
<1> QED  BY <1>5, <1>6, <1>7 DEF Behind, F, S, p

(* Where a newline stands in the text, and the lines and columns it makes. *)
LEMMA FiniteLines ==
  ASSUME NEW n \in Nat, NEW S, S \subseteq 1..n
  PROVE  IsFiniteSet(S) /\ Cardinality(S) \in Nat
<1>1. IsFiniteSet(1..n)
  BY FS_Interval
<1> QED  BY <1>1, FS_Subset, FS_CardinalityType

LEMMA LineStep ==
  ASSUME text \in Seq(STRING), NEW c \in 0..Len(text), NEW k \in c..Len(text)
  PROVE  /\ LineAt(text, k) = LineAt(text, c) + Cardinality(Lines(c, k))
         /\ Cardinality(Lines(c, k)) \in Nat
<1> DEFINE N(e) == {i \in 1..e : text[i] = "\n"}
<1>1. Len(text) \in Nat /\ c \in Nat /\ k \in Nat /\ c <= k
  BY LenProperties
<1>2. Lines(c, k) \subseteq 1..k /\ N(c) \subseteq 1..k
  BY <1>1 DEF Lines
<1>3. /\ IsFiniteSet(N(c)) /\ Cardinality(N(c)) \in Nat
      /\ IsFiniteSet(Lines(c, k)) /\ Cardinality(Lines(c, k)) \in Nat
  BY <1>1, <1>2, FiniteLines
<1>4. N(k) = N(c) \cup Lines(c, k) /\ N(c) \cap Lines(c, k) = {}
  BY <1>1 DEF Lines
<1> HIDE DEF N
<1>5. Cardinality(N(c) \cap Lines(c, k)) = 0
  BY <1>4, FS_EmptySet
<1>6. Cardinality(N(k)) = Cardinality(N(c)) + Cardinality(Lines(c, k)) - 0
  BY <1>3, <1>4, <1>5, FS_Union
<1>7. \A e : LineAt(text, e) = 1 + Cardinality(N(e))
  BY DEF LineAt, N
<1> QED  BY <1>3, <1>6, <1>7

LEMMA NewlineIs ==
  ASSUME text \in Seq(STRING), NEW c \in 0..Len(text), NEW k \in c..Len(text)
  PROVE  /\ NewlineBefore(text, c + 1) \in 0..c
         /\ Lines(c, k) = {} => NewlineBefore(text, k + 1) = NewlineBefore(text, c + 1)
         /\ Lines(c, k) # {} => /\ NewlineBefore(text, k + 1) = Max(Lines(c, k))
                                /\ Max(Lines(c, k)) \in Lines(c, k)
<1> DEFINE N(e) == {0} \cup {i \in 1..(e + 1 - 1) : text[i] = "\n"}
<1>1. Len(text) \in Nat /\ c \in Nat /\ k \in Nat /\ c <= k
  BY LenProperties
<1>2. NewlineBefore(text, c + 1) = Max(N(c)) /\ NewlineBefore(text, k + 1) = Max(N(k))
  BY DEF NewlineBefore
<1>3. N(c) \subseteq 0..c /\ N(c) # {}
  BY <1>1
<1>4. Max(N(c)) \in 0..c
  BY <1>1, <1>3, Greatest
<1>5. Lines(c, k) \subseteq 0..k /\ N(k) = N(c) \cup Lines(c, k) /\ N(k) \subseteq Int
  BY <1>1 DEF Lines
<1>6. ASSUME Lines(c, k) # {}
      PROVE  Max(N(k)) = Max(Lines(c, k)) /\ Max(Lines(c, k)) \in Lines(c, k)
  <2> DEFINE m == Max(Lines(c, k))
  <2>1. m \in Lines(c, k) /\ \A x \in Lines(c, k) : x <= m
    BY <1>1, <1>5, <1>6, Greatest
  <2>2. m \in (c + 1)..k
    BY <2>1 DEF Lines
  <2>3. \A x \in N(c) : x <= c
    BY <1>1, <1>3
  <2> HIDE DEF m, N
  <2>4. \A x \in N(k) : x <= m
    BY <1>1, <1>3, <1>5, <2>1, <2>2, <2>3
  <2>5. Max(N(k)) = m
    BY <1>5, <2>1, <2>4, MaxIs
  <2> QED  BY <2>1, <2>5 DEF m
<1> HIDE DEF N
<1>7. Lines(c, k) = {} => N(k) = N(c)
  BY <1>5
<1> QED  BY <1>2, <1>4, <1>6, <1>7

(* Before position c, every quoted piece has ended.                        *)
Closed(t, c) ==
  \E d : Behind(t, QuotedAt(t), d, c) /\ \A x \in 1..Len(d) : d[x][2] <= c

LEMMA ClosedFacts ==
  ASSUME text \in Seq(STRING), NEW c \in 0..Len(text), NEW k \in (c + 1)..Len(text),
         PieceAt(c + 1) = <<c + 1, k>>, Closed(text, c)
  PROVE  /\ Closed(text, k)
         /\ ~InString(text, c + 1)
         /\ text[c + 1] = Quote => \A n \in (c + 2)..k : InString(text, n)
<1> DEFINE W == QuotedAt(text)
           F == FromIn(text, W)
           p == <<c + 1, k>>
<1>1. /\ Len(text) \in Nat /\ c \in Nat /\ k \in Nat /\ c + 1 \in DOMAIN text /\ c + 1 \in 1..Len(text)
      /\ c <= k
  BY LenProperties
<1>2. PICK d : Behind(text, W, d, c) /\ \A x \in 1..Len(d) : d[x][2] <= c
  BY DEF Closed
<1>3. d \in Seq(SpotsIn(text)) /\ Len(d) \in Nat /\ QuotedIn(text) = d \o F[c + 1]
  BY <1>2, LenProperties DEF Behind, QuotedIn
<1>4. F[c + 1] \in Seq(Spots(c + 1)) /\ F[c + 1] \in Seq(SpotsIn(text)) /\ Len(F[c + 1]) \in Nat
  BY RestInSeq, LenProperties
<1>5. /\ QuotedIn(text) \in Seq(SpotsIn(text))
      /\ DOMAIN QuotedIn(text) = 1..(Len(d) + Len(F[c + 1]))
      /\ \A x \in 1..(Len(d) + Len(F[c + 1])) :
           QuotedIn(text)[x] = IF x <= Len(d) THEN d[x] ELSE F[c + 1][x - Len(d)]
  BY <1>3, <1>4, ConcatProperties, LenProperties
<1> HIDE DEF F, W
<1>6. ~InString(text, c + 1)
  <2> SUFFICES ASSUME NEW j \in DOMAIN QuotedIn(text),
                      QuotedIn(text)[j][1] < c + 1, c + 1 <= QuotedIn(text)[j][2]
               PROVE  FALSE
    BY DEF InString
  <2>1. CASE j <= Len(d)
    <3>1. j \in 1..Len(d) /\ QuotedIn(text)[j] = d[j]
      BY <1>3, <1>4, <1>5, <2>1
    <3>2. d[j] \in SpotsIn(text) /\ d[j][2] <= c
      BY <1>2, <1>3, <3>1, ElementOfSeq
    <3>3. d[j][2] \in Int
      BY <3>2 DEF SpotsIn
    <3> QED  BY <1>1, <3>1, <3>2, <3>3
  <2>2. CASE ~(j <= Len(d))
    <3>1. j - Len(d) \in 1..Len(F[c + 1]) /\ QuotedIn(text)[j] = F[c + 1][j - Len(d)]
      BY <1>3, <1>4, <1>5, <2>2
    <3>2. F[c + 1][j - Len(d)] \in Spots(c + 1)
      BY <1>4, <3>1, ElementOfSeq
    <3>3. F[c + 1][j - Len(d)][1] \in (c + 1)..Len(text)
      BY <3>2 DEF Spots
    <3> QED  BY <1>1, <3>1, <3>3
  <2> QED  BY <2>1, <2>2
<1>7. c + 1 \in W <=> text[c + 1] = Quote
  BY <1>1 DEF W, QuotedAt
<1>8. ASSUME text[c + 1] = Quote, NEW n \in (c + 2)..k PROVE InString(text, n)
  <2> DEFINE r == F[k + 1]
  <2>1. k \in 0..Len(text) /\ c + 1 \in 1..(Len(text) + 1) /\ ~(c + 1 > Len(text))
    BY <1>1
  <2>2. r \in Seq(SpotsIn(text))
    BY <2>1, RestInSeq DEF F
  <2>3. F[c + 1] = <<p>> \o r
    <3>1. F[c + 1] = Rest(W, F, c + 1)
      BY <2>1, FromIs, FromInIs DEF F
    <3>2. p[2] = k
      OBVIOUS
    <3> HIDE DEF p
    <3> QED  BY <1>7, <1>8, <2>1, <3>1, <3>2 DEF Rest, p
  <2>4. p \in SpotsIn(text)
    BY <1>1 DEF SpotsIn
  <2> HIDE DEF p, r
  <2>5. Len(F[c + 1]) >= 1 /\ F[c + 1][1] = p
    <3>1. <<p>> \in Seq(SpotsIn(text)) /\ Len(<<p>>) = 1 /\ <<p>>[1] = p
      BY <2>4
    <3> DEFINE q == <<p>>
    <3>2. q \in Seq(SpotsIn(text)) /\ Len(q) = 1 /\ q[1] = p /\ F[c + 1] = q \o r
      BY <2>3, <3>1
    <3> HIDE DEF q
    <3>3. /\ Len(q \o r) = Len(q) + Len(r) /\ Len(r) \in Nat
          /\ \A x \in 1..(Len(q) + Len(r)) : (q \o r)[x] = IF x <= Len(q) THEN q[x] ELSE r[x - Len(q)]
      BY <2>2, <3>2, ConcatProperties, LenProperties
    <3> QED  BY <3>2, <3>3
  <2>6. Len(d) + 1 \in 1..(Len(d) + Len(F[c + 1])) /\ ~(Len(d) + 1 <= Len(d)) /\ Len(d) + 1 - Len(d) = 1
    BY <1>3, <1>4, <2>5
  <2>7. QuotedIn(text)[Len(d) + 1] = p /\ Len(d) + 1 \in DOMAIN QuotedIn(text)
    BY <1>5, <2>5, <2>6
  <2>8. p[1] < n /\ n <= p[2]
    BY <1>1 DEF p
  <2> QED  BY <2>7, <2>8 DEF InString
<1>9. Closed(text, k)
  <2>1. CASE c + 1 \in W
    <3> DEFINE e == Append(d, p)
    <3>1. Behind(text, W, e, k)
      BY <1>2, <2>1, BehindStep
    <3>2. p \in SpotsIn(text) /\ p[2] = k
      BY <1>1 DEF SpotsIn
    <3> HIDE DEF p
    <3>3. Len(e) = Len(d) + 1 /\ e[Len(d) + 1] = p /\ \A x \in 1..Len(d) : e[x] = d[x]
      BY <1>3, <3>2, AppendProperties
    <3>4. ASSUME NEW x \in 1..Len(e) PROVE e[x][2] <= k
      <4>1. CASE x \in 1..Len(d)
        <5>1. d[x] \in SpotsIn(text) /\ d[x][2] <= c /\ e[x] = d[x]
          BY <1>2, <1>3, <3>3, <4>1, ElementOfSeq
        <5>2. d[x][2] \in Int
          BY <5>1 DEF SpotsIn
        <5> QED  BY <1>1, <5>1, <5>2
      <4>2. CASE x \notin 1..Len(d)
        <5>1. x = Len(d) + 1
          BY <1>3, <3>3, <4>2
        <5> QED  BY <1>1, <3>2, <3>3, <5>1
      <4> QED  BY <4>1, <4>2
    <3> HIDE DEF e
    <3> QED  BY <3>1, <3>4 DEF Closed, W
  <2>2. CASE c + 1 \notin W
    <3>1. Behind(text, W, d, k)
      BY <1>2, <2>2, BehindStep
    <3>2. ASSUME NEW x \in 1..Len(d) PROVE d[x][2] <= k
      <4>1. d[x] \in SpotsIn(text) /\ d[x][2] <= c
        BY <1>2, <1>3, ElementOfSeq
      <4>2. d[x][2] \in Int
        BY <4>1 DEF SpotsIn
      <4> QED  BY <1>1, <4>1, <4>2
    <3> QED  BY <3>1, <3>2 DEF Closed, W
  <2> QED  BY <2>1, <2>2
<1> QED  BY <1>6, <1>8, <1>9

(* The column of a position, from that of an earlier one and the piece     *)
(* between them.                                                           *)
LEMMA ColumnStep ==
  ASSUME text \in Seq(STRING), NEW c \in 0..Len(text), NEW k \in (c + 1)..Len(text),
         PieceAt(c + 1) = <<c + 1, k>>, Closed(text, c)
  PROVE  /\ Lines(c, k) = {} =>
              ColumnAt(text, k + 1) = ColumnAt(text, c + 1) + (k - c)
         /\ text[c + 1] = "\n" /\ k = c + 1 => ColumnAt(text, k + 1) = 1
         /\ text[c + 1] = Quote /\ Lines(c, k) # {} =>
              ColumnAt(text, k + 1) = k - Max(Lines(c, k)) + 2
         /\ ColumnAt(text, c + 1) \in Int
         /\ ColumnAt(text, k + 1) \in Int
<1> DEFINE B(e) == NewlineBefore(text, e + 1)
           A(e) == IF InString(text, B(e)) THEN 1 ELSE 0
<1>1. Len(text) \in Nat /\ c \in Nat /\ k \in Nat /\ c + 1 <= k /\ k \in c..Len(text)
      /\ k \in 0..Len(text) /\ k \in k..Len(text)
  BY LenProperties
<1> DEFINE C(e) == ColumnAt(text, e + 1)
<1>2. C(c) = (c + 1) - B(c) + A(c) /\ C(k) = (k + 1) - B(k) + A(k)
  BY DEF ColumnAt
<1>3. /\ B(c) \in 0..c /\ B(k) \in 0..k
      /\ Lines(c, k) = {} => B(k) = B(c)
      /\ Lines(c, k) # {} => B(k) = Max(Lines(c, k)) /\ Max(Lines(c, k)) \in Lines(c, k)
  BY <1>1, NewlineIs
<1>4. A(c) \in 0..1 /\ A(k) \in 0..1
  OBVIOUS
<1>5. /\ ~InString(text, c + 1)
      /\ text[c + 1] = Quote => \A n \in (c + 2)..k : InString(text, n)
  BY ClosedFacts
<1>6. Lines(c, k) = {} => A(k) = A(c)
  BY <1>3
<1>7. ASSUME text[c + 1] = "\n", k = c + 1 PROVE B(k) = c + 1 /\ A(k) = 0
  <2>1. Lines(c, k) = {c + 1}
    BY <1>1, <1>7 DEF Lines
  <2>2. Max(Lines(c, k)) \in {c + 1} /\ B(k) = Max(Lines(c, k))
    BY <1>3, <2>1
  <2>3. B(k) = c + 1
    BY <2>2
  <2> HIDE DEF B
  <2> QED  BY <1>5, <2>3
<1>8. ASSUME text[c + 1] = Quote, Lines(c, k) # {}
      PROVE  B(k) = Max(Lines(c, k)) /\ A(k) = 1
  <2>1. B(k) = Max(Lines(c, k)) /\ B(k) \in Lines(c, k)
    BY <1>3, <1>8
  <2>2. Quote # "\n"
    BY DEF Quote
  <2> HIDE DEF B
  <2>3. B(k) \in (c + 1)..k /\ text[B(k)] = "\n"
    BY <2>1 DEF Lines
  <2>4. B(k) # c + 1
    BY <1>8, <2>2, <2>3
  <2>5. B(k) \in (c + 2)..k
    BY <1>1, <2>3, <2>4
  <2> QED  BY <1>5, <1>8, <2>1, <2>5
<1> HIDE DEF A, B, C
<1>b. B(c) \in Int /\ B(k) \in Int /\ A(c) \in Int /\ A(k) \in Int
  BY <1>1, <1>3, <1>4
<1>9. C(c) \in Int /\ C(k) \in Int /\ B(c) \in Int /\ B(k) \in Int /\ A(c) \in Int /\ A(k) \in Int
  BY <1>1, <1>2, <1>b
<1>10. Lines(c, k) = {} => C(k) = C(c) + (k - c)
  BY <1>1, <1>3, <1>6, <1>9, <1>2
<1>11. text[c + 1] = "\n" /\ k = c + 1 => C(k) = 1
  BY <1>1, <1>7, <1>9, <1>2
<1>12. ASSUME text[c + 1] = Quote, Lines(c, k) # {} PROVE C(k) = k - Max(Lines(c, k)) + 2
  <2>1. B(k) = Max(Lines(c, k)) /\ A(k) = 1
    BY <1>8, <1>12
  <2>2. C(k) = k - B(k) + 2
    BY <1>1, <1>2, <1>9, <2>1
  <2> QED  BY <2>1, <2>2
<1> QED  BY <1>9, <1>10, <1>11, <1>12 DEF C
-----------------------------------------------------------------------------
(* What is true after every step: the tokens and the errors are those of   *)
(* the pieces up to current, and line and column are those of the next     *)
(* character.                                                              *)

TokenIn(t, p) ==
  [type |-> TypeOf(PartIn(t, p)), lexeme |-> PartIn(t, p), line |-> LineIn(t, p),
   column |-> ColumnIn(t, p), value |-> ValueOf(PartIn(t, p))]
TokensIn(t, d) == [x \in 1..Len(d) |-> TokenIn(t, d[x])]
EofToken == [type |-> "EOF", lexeme |-> <<>>, line |-> line, column |-> column, value |-> <<>>]

Errors == [line : Int, column : Int, message : Messages]

ReadSoFar ==
  \E d : /\ Behind(text, TokensAt(text), d, current)
         /\ tokens = IF ended THEN Append(TokensIn(text, d), EofToken) ELSE TokensIn(text, d)
FailedSoFar ==
  \E d : /\ Behind(text, WrongAt(text), d, current)
         /\ errors \in Seq(Errors) /\ Len(errors) = Len(d)
         /\ \A x \in 1..Len(d) : /\ errors[x].line = LineIn(text, d[x])
                                 /\ errors[x].column = ColumnIn(text, d[x])

LexInv ==
  /\ Placed
  /\ ended \in BOOLEAN /\ (ended => current = Len(text))
  /\ line = LineAt(text, current)
  /\ column = ColumnAt(text, current + 1)
  /\ Closed(text, current)
  /\ ReadSoFar
  /\ FailedSoFar

LEMMA AppendTokens ==
  ASSUME NEW t, NEW S, NEW d \in Seq(S), NEW p \in S
  PROVE  TokensIn(t, Append(d, p)) = Append(TokensIn(t, d), TokenIn(t, p))
<1> DEFINE T == {TokenIn(t, q) : q \in S}
           e == Append(d, p)
           u == TokensIn(t, d)
           z == TokenIn(t, p)
           v == TokensIn(t, e)
<1>1. /\ Len(d) \in Nat /\ Len(e) = Len(d) + 1 /\ e[Len(d) + 1] = p
      /\ \A x \in 1..Len(d) : e[x] = d[x] /\ d[x] \in S
  BY AppendProperties, LenProperties
<1>2. z \in T /\ \A x \in 1..Len(d) : TokenIn(t, d[x]) \in T
  BY <1>1
<1>3. u \in Seq(T) /\ Len(u) = Len(d) /\ \A x \in 1..Len(d) : u[x] = TokenIn(t, d[x])
  <2> HIDE DEF T
  <2> QED  BY <1>1, <1>2 DEF TokensIn
<1>4. v = [x \in 1..(Len(d) + 1) |-> TokenIn(t, e[x])]
  BY <1>1 DEF TokensIn
<1> HIDE DEF e, u, z, T, v
<1>5. \A x \in 1..(Len(d) + 1) : v[x] = IF x <= Len(d) THEN u[x] ELSE z
  <2> TAKE x \in 1..(Len(d) + 1)
  <2>1. v[x] = TokenIn(t, e[x])
    BY <1>4
  <2>2. CASE x <= Len(d)
    <3>1. x \in 1..Len(d)
      BY <1>1, <2>2
    <3> QED  BY <1>1, <1>3, <2>1, <2>2, <3>1
  <2>3. CASE ~(x <= Len(d))
    <3>1. x = Len(d) + 1
      BY <1>1, <2>3
    <3> QED  BY <1>1, <2>1, <2>3, <3>1 DEF z
  <2> QED  BY <2>2, <2>3
<1>6. v \in Seq(T) /\ Len(v) = Len(d) + 1
  <2>1. \A x \in 1..(Len(d) + 1) : v[x] \in T
    BY <1>1, <1>2, <1>3, <1>5
  <2>2. v = [x \in 1..(Len(d) + 1) |-> v[x]]
    BY <1>4
  <2> QED  BY <1>1, <2>1, <2>2
<1>7. /\ Append(u, z) \in Seq(T) /\ Len(Append(u, z)) = Len(d) + 1
      /\ \A x \in 1..(Len(d) + 1) : Append(u, z)[x] = IF x <= Len(d) THEN u[x] ELSE z
  <2>1. /\ Append(u, z) \in Seq(T) /\ Len(Append(u, z)) = Len(u) + 1
        /\ \A x \in 1..Len(u) : Append(u, z)[x] = u[x]
        /\ Append(u, z)[Len(u) + 1] = z
    BY <1>2, <1>3, AppendProperties
  <2> DEFINE y == Append(u, z)
  <2> HIDE DEF y
  <2> QED  BY <1>1, <1>3, <2>1
<1> DEFINE y == Append(u, z)
<1> HIDE DEF y
<1>8. v = y
  BY <1>5, <1>6, <1>7, SeqEqual DEF y
<1> QED  BY <1>8 DEF v, y, u, z, e

LEMMA InitLexInv ==
  ASSUME LexerAssumption, Init
  PROVE  LexInv
<1>1. /\ text \in Seq(STRING) /\ current = 0 /\ line = 1 /\ column = 1
      /\ tokens = <<>> /\ errors = <<>> /\ ended = FALSE
  BY DEF Init, LexerAssumption
<1>2. Len(text) \in Nat /\ 0 \in 0..Len(text)
  BY <1>1, LenProperties
<1>3. Placed
  BY <1>1, <1>2 DEF Placed
<1>4. LineAt(text, 0) = 1
  <2>1. {i \in 1..0 : text[i] = "\n"} = {}
    OBVIOUS
  <2> QED  BY <2>1, FS_EmptySet DEF LineAt
<1>5. ColumnAt(text, 1) = 1
  <2>1. NewlineBefore(text, 1) = 0
    <3> DEFINE T == {0} \cup {i \in 1..(1 - 1) : text[i] = "\n"}
    <3>1. T \subseteq Int /\ 0 \in T /\ \A x \in T : x <= 0
      OBVIOUS
    <3> HIDE DEF T
    <3>2. Max(T) = 0
      BY <3>1, MaxIs
    <3> QED  BY <3>2 DEF NewlineBefore, T
  <2>2. ~InString(text, 0)
    <3> SUFFICES ASSUME NEW j \in DOMAIN QuotedIn(text), QuotedIn(text)[j][1] < 0 PROVE FALSE
      BY DEF InString
    <3>1. QuotedIn(text) \in Seq(SpotsIn(text))
      <4>1. FromIn(text, QuotedAt(text))[0 + 1] \in Seq(SpotsIn(text))
        BY <1>1, <1>2, RestInSeq
      <4> QED  BY <4>1 DEF QuotedIn
    <3>2. QuotedIn(text)[j] \in SpotsIn(text)
      BY <3>1, ElementOfSeq, LenProperties
    <3>3. QuotedIn(text)[j][1] \in 1..Len(text)
      BY <3>2 DEF SpotsIn
    <3> QED  BY <1>2, <3>3
  <2> QED  BY <2>1, <2>2 DEF ColumnAt
<1>6. Closed(text, 0)
  <2>1. Behind(text, QuotedAt(text), <<>>, 0) /\ \A x \in 1..Len(<<>>) : <<>>[x][2] <= 0
    BY <1>1, BehindStart
  <2> QED  BY <2>1 DEF Closed
<1>7. ReadSoFar
  <2>1. Behind(text, TokensAt(text), <<>>, 0)
    BY <1>1, BehindStart
  <2>2. TokensIn(text, <<>>) = <<>>
    BY DEF TokensIn
  <2> QED  BY <1>1, <2>1, <2>2 DEF ReadSoFar
<1>8. FailedSoFar
  <2>1. Behind(text, WrongAt(text), <<>>, 0)
    BY <1>1, BehindStart
  <2>2. <<>> \in Seq(Errors) /\ Len(<<>>) = 0
    BY EmptySeq
  <2>3. \A x \in 1..Len(<<>>) : /\ errors[x].line = LineIn(text, <<>>[x])
                                /\ errors[x].column = ColumnIn(text, <<>>[x])
    BY <2>2
  <2> QED  BY <1>1, <2>1, <2>2, <2>3 DEF FailedSoFar
<1>9. current + 1 = 1
  BY <1>1
<1>10. line = LineAt(text, current) /\ column = ColumnAt(text, current + 1) /\ Closed(text, current)
  BY <1>1, <1>4, <1>5, <1>6, <1>9
<1>11. ended \in BOOLEAN /\ (ended => current = Len(text))
  BY <1>1
<1> QED  BY <1>3, <1>7, <1>8, <1>10, <1>11 DEF LexInv

(* A piece that is read keeps it. *)
LEMMA ReadKeeps ==
  ASSUME LexInv, Moved, Reported
  PROVE  LexInv'
<1> DEFINE c == current
           k == current'
           p == <<c + 1, k>>
<1>1. /\ text \in Seq(STRING) /\ c \in 0..Len(text) /\ c \in Nat /\ Len(text) \in Nat
      /\ c + 1 \in 1..Len(text) /\ k \in (c + 1)..Len(text) /\ k \in Nat
      /\ line \in Nat /\ column \in Int
      /\ PieceAt(c + 1) = p /\ ended = FALSE
      /\ text' = text /\ ended' = ended
      /\ Closed(text, c) /\ line = LineAt(text, c) /\ column = ColumnAt(text, c + 1)
  BY LenProperties DEF LexInv, Placed, Moved
<1>2. k \in c..Len(text) /\ k \in 0..Len(text) /\ c + 1 \in DOMAIN text
  BY <1>1, LenProperties
<1>3. line' = LineAt(text, k) /\ line' \in Nat
  <2>1. line' = line + Cardinality(Lines(c, k))
    BY DEF Moved
  <2>2. /\ LineAt(text, k) = LineAt(text, c) + Cardinality(Lines(c, k))
        /\ Cardinality(Lines(c, k)) \in Nat
    BY <1>1, <1>2, LineStep
  <2> QED  BY <1>1, <2>1, <2>2
<1>4. column' = ColumnAt(text, k + 1) /\ column' \in Int
  <2>1. \/ Lines(c, k) = {} /\ column' = column + (k - c)
        \/ text[c + 1] = "\n" /\ k = c + 1 /\ column' = 1
        \/ text[c + 1] = Quote /\ Lines(c, k) # {} /\ column' = k - Max(Lines(c, k)) + 2
    BY DEF Moved
  <2>2. /\ Lines(c, k) = {} => ColumnAt(text, k + 1) = ColumnAt(text, c + 1) + (k - c)
        /\ text[c + 1] = "\n" /\ k = c + 1 => ColumnAt(text, k + 1) = 1
        /\ text[c + 1] = Quote /\ Lines(c, k) # {} =>
             ColumnAt(text, k + 1) = k - Max(Lines(c, k)) + 2
        /\ ColumnAt(text, k + 1) \in Int
    BY <1>1, ColumnStep
  <2> QED  BY <1>1, <2>1, <2>2
<1>5. Closed(text, k)
  BY <1>1, ClosedFacts
<1>6. PartIn(text, p) = ReadText /\ PieceIn(text, c + 1) = p
  BY <1>1, InText DEF PartIn, ReadText
<1>7. p \in SpotsIn(text) /\ p[1] = c + 1 /\ p[2] = k
  BY <1>1, <1>2 DEF SpotsIn
<1>8. /\ c + 1 \in TokensAt(text) <=> IsToken(ReadText)
      /\ c + 1 \in WrongAt(text) <=> IsWrong(ReadText)
  BY <1>2, <1>6 DEF TokensAt, WrongAt
<1>9. IsToken(ReadText) => ~IsWrong(ReadText)
  BY DEF IsToken
<1> HIDE DEF p
<1>10. LineIn(text, p) = line' /\ ColumnIn(text, p) = column
  BY <1>1, <1>3, <1>7 DEF LineIn, ColumnIn
<1>11. ReadSoFar'
  <2>1. PICK d : Behind(text, TokensAt(text), d, c) /\ tokens = TokensIn(text, d)
    BY <1>1 DEF LexInv, ReadSoFar
  <2>2. CASE TokenStep
    <3>1. /\ IsToken(ReadText)
          /\ tokens' = Append(tokens, [type |-> TypeOf(ReadText), lexeme |-> ReadText, line |-> line',
                                       column |-> column, value |-> ValueOf(ReadText)])
      BY <2>2 DEF TokenStep
    <3>2. tokens' = Append(TokensIn(text, d), TokenIn(text, p))
      BY <1>6, <1>10, <2>1, <3>1 DEF TokenIn
    <3>3. d \in Seq(SpotsIn(text))
      BY <2>1 DEF Behind
    <3>4. tokens' = TokensIn(text, Append(d, p))
      BY <1>7, <3>2, <3>3, AppendTokens
    <3>5. Behind(text, TokensAt(text), Append(d, p), k)
      BY <1>1, <1>8, <2>1, <3>1, BehindStep DEF p
    <3>6. \E f : Behind(text, TokensAt(text), f, k) /\ tokens' = TokensIn(text, f)
      BY <3>4, <3>5
    <3> QED  BY <1>1, <3>6 DEF ReadSoFar
  <2>3. CASE ErrorStep \/ SkipStep
    <3>1. ~IsToken(ReadText) /\ tokens' = tokens
      BY <1>9, <2>3 DEF ErrorStep, SkipStep
    <3>2. Behind(text, TokensAt(text), d, k)
      BY <1>1, <1>8, <2>1, <3>1, BehindStep DEF p
    <3>3. \E f : Behind(text, TokensAt(text), f, k) /\ tokens' = TokensIn(text, f)
      BY <2>1, <3>1, <3>2
    <3> QED  BY <1>1, <3>3 DEF ReadSoFar
  <2> QED  BY <2>2, <2>3 DEF Reported
<1>12. FailedSoFar'
  <2>1. PICK d : /\ Behind(text, WrongAt(text), d, c)
                 /\ errors \in Seq(Errors) /\ Len(errors) = Len(d)
                 /\ \A x \in 1..Len(d) : /\ errors[x].line = LineIn(text, d[x])
                                         /\ errors[x].column = ColumnIn(text, d[x])
    BY DEF LexInv, FailedSoFar
  <2>2. CASE ErrorStep
    <3>1. IsWrong(ReadText)
      BY <2>2 DEF ErrorStep
    <3>2. PICK m \in Messages :
            errors' = Append(errors, [line |-> line', column |-> column, message |-> m])
      BY <2>2 DEF ErrorStep
    <3> DEFINE r == [line |-> line', column |-> column, message |-> m]
               f == Append(d, p)
    <3>3. r \in Errors /\ r.line = LineIn(text, p) /\ r.column = ColumnIn(text, p)
      BY <1>1, <1>3, <1>10 DEF Errors
    <3>4. Behind(text, WrongAt(text), f, k)
      BY <1>1, <1>8, <2>1, <3>1, BehindStep DEF p
    <3>5. /\ d \in Seq(SpotsIn(text)) /\ Len(d) \in Nat /\ Len(f) = Len(d) + 1
          /\ f[Len(d) + 1] = p /\ \A x \in 1..Len(d) : f[x] = d[x]
      BY <1>7, <2>1, AppendProperties, LenProperties DEF Behind
    <3> HIDE DEF r, f
    <3>6. /\ errors' \in Seq(Errors) /\ Len(errors') = Len(d) + 1 /\ errors'[Len(d) + 1] = r
          /\ \A x \in 1..Len(d) : errors'[x] = errors[x]
      <4>1. errors' = Append(errors, r)
        BY <3>2 DEF r
      <4> QED  BY <2>1, <3>3, <4>1, AppendProperties
    <3>7. ASSUME NEW x \in 1..Len(f)
          PROVE  errors'[x].line = LineIn(text, f[x]) /\ errors'[x].column = ColumnIn(text, f[x])
      <4>1. CASE x \in 1..Len(d)
        BY <2>1, <3>5, <3>6, <4>1
      <4>2. CASE x \notin 1..Len(d)
        <5>1. x = Len(d) + 1
          BY <3>5, <4>2
        <5> QED  BY <3>3, <3>5, <3>6, <5>1
      <4> QED  BY <4>1, <4>2
    <3>8. \E g : /\ Behind(text, WrongAt(text), g, k)
                 /\ errors' \in Seq(Errors) /\ Len(errors') = Len(g)
                 /\ \A x \in 1..Len(g) : /\ errors'[x].line = LineIn(text, g[x])
                                         /\ errors'[x].column = ColumnIn(text, g[x])
      BY <3>4, <3>5, <3>6, <3>7
    <3> QED  BY <1>1, <3>8 DEF FailedSoFar
  <2>3. CASE TokenStep \/ SkipStep
    <3>1. ~IsWrong(ReadText) /\ errors' = errors
      BY <1>9, <2>3 DEF TokenStep, SkipStep
    <3>2. Behind(text, WrongAt(text), d, k)
      BY <1>1, <1>8, <2>1, <3>1, BehindStep DEF p
    <3>3. \E g : /\ Behind(text, WrongAt(text), g, k)
                 /\ errors' \in Seq(Errors) /\ Len(errors') = Len(g)
                 /\ \A x \in 1..Len(g) : /\ errors'[x].line = LineIn(text, g[x])
                                         /\ errors'[x].column = ColumnIn(text, g[x])
      BY <2>1, <3>1, <3>2
    <3> QED  BY <1>1, <3>3 DEF FailedSoFar
  <2> QED  BY <2>2, <2>3 DEF Reported
<1>13. Placed'
  BY <1>1, <1>2, <1>3, <1>4 DEF Placed
<1> QED  BY <1>1, <1>3, <1>4, <1>5, <1>11, <1>12, <1>13 DEF LexInv

LEMMA EndKeeps ==
  ASSUME LexInv, EndOfText
  PROVE  LexInv'
<1>1. /\ ended = FALSE /\ ended' = TRUE /\ current = Len(text)
      /\ text' = text /\ current' = current /\ line' = line /\ column' = column /\ errors' = errors
      /\ tokens' = Append(tokens, EofToken)
  BY DEF EndOfText, EofToken, LexInv
<1>2. EofToken' = EofToken
  BY <1>1 DEF EofToken
<1>3. ReadSoFar'
  <2>1. PICK d : Behind(text, TokensAt(text), d, current) /\ tokens = TokensIn(text, d)
    BY <1>1 DEF LexInv, ReadSoFar
  <2>2. tokens' = Append(TokensIn(text, d), EofToken)
    BY <1>1, <2>1
  <2> HIDE DEF EofToken
  <2>3. \E f : Behind(text, TokensAt(text), f, current) /\ tokens' = Append(TokensIn(text, f), EofToken)
    BY <2>1, <2>2
  <2> QED  BY <1>1, <1>2, <2>3 DEF ReadSoFar
<1>4. FailedSoFar'
  BY <1>1 DEF LexInv, FailedSoFar
<1> QED  BY <1>1, <1>3, <1>4 DEF LexInv, Placed

LEMMA NextKeeps ==
  ASSUME LexInv, [Next]_vars
  PROVE  LexInv'
<1>0. Placed
  BY DEF LexInv
<1>1. CASE OneCharacter
  BY <1>0, <1>1, OneCharacterStep, ReadKeeps
<1>2. CASE OneOrTwo
  BY <1>0, <1>2, OneOrTwoStep, ReadKeeps
<1>3. CASE SlashOrComment
  BY <1>0, <1>3, SlashOrCommentStep, ReadKeeps
<1>4. CASE Blank
  BY <1>0, <1>4, BlankStep, ReadKeeps
<1>5. CASE Newline
  BY <1>0, <1>5, NewlineStep, ReadKeeps
<1>6. CASE StringToken
  BY <1>0, <1>6, StringStep, ReadKeeps
<1>7. CASE NumberToken
  BY <1>0, <1>7, NumberStep, ReadKeeps
<1>8. CASE Word
  BY <1>0, <1>8, WordStep, ReadKeeps
<1>9. CASE Unexpected
  BY <1>0, <1>9, UnexpectedStep, ReadKeeps
<1>10. CASE EndOfText
  BY <1>10, EndKeeps
<1>11. CASE UNCHANGED vars
  <2>1. ReadSoFar'
    BY <1>11 DEF LexInv, ReadSoFar, EofToken, vars
  <2>2. FailedSoFar'
    BY <1>11 DEF LexInv, FailedSoFar, vars
  <2> QED  BY <1>11, <2>1, <2>2 DEF LexInv, Placed, vars
<1> QED
  BY <1>1, <1>2, <1>3, <1>4, <1>5, <1>6, <1>7, <1>8, <1>9, <1>10, <1>11 DEF Next

(* The tokens and errors of a scan are always those of the pieces that it  *)
(* has read, where they are, and line and column are those of its place.   *)
THEOREM ScanExact == Spec => []LexInv
<1>1. Init => LexInv
  BY LexerAssumption, InitLexInv
<1>2. LexInv /\ [Next]_vars => LexInv'
  BY NextKeeps
<1> QED  BY <1>1, <1>2, PTL DEF Spec

(* At the end the pieces that were read are those of the whole text.       *)
LEMMA AtEnd ==
  ASSUME LexInv, ended
  PROVE  /\ TokenPieces \in Seq(SpotsIn(text)) /\ WrongPieces \in Seq(SpotsIn(text))
         /\ tokens = Append(TokensIn(text, TokenPieces), EofToken)
         /\ errors \in Seq(Errors) /\ Len(errors) = Len(WrongPieces)
         /\ \A x \in 1..Len(WrongPieces) : /\ errors[x].line = LineOf(WrongPieces[x])
                                           /\ errors[x].column = ColumnOf(WrongPieces[x])
<1>1. text \in Seq(STRING) /\ current = Len(text)
  BY DEF LexInv, Placed
<1>2. TokenPieces = FromIn(text, TokensAt(text))[1] /\ WrongPieces = FromIn(text, WrongAt(text))[1]
  BY InText
<1>3. PICK d : /\ Behind(text, TokensAt(text), d, current)
               /\ tokens = Append(TokensIn(text, d), EofToken)
  BY DEF LexInv, ReadSoFar
<1>4. d = TokenPieces /\ d \in Seq(SpotsIn(text))
  BY <1>1, <1>2, <1>3, BehindEnd DEF Behind
<1>5. PICK w : /\ Behind(text, WrongAt(text), w, current)
               /\ errors \in Seq(Errors) /\ Len(errors) = Len(w)
               /\ \A x \in 1..Len(w) : /\ errors[x].line = LineIn(text, w[x])
                                       /\ errors[x].column = ColumnIn(text, w[x])
  BY DEF LexInv, FailedSoFar
<1>6. w = WrongPieces /\ w \in Seq(SpotsIn(text))
  BY <1>1, <1>2, <1>5, BehindEnd DEF Behind
<1>7. \A p : LineIn(text, p) = LineOf(p) /\ ColumnIn(text, p) = ColumnOf(p)
  BY InText
<1> QED  BY <1>3, <1>4, <1>5, <1>6, <1>7

LEMMA AppendIs ==
  ASSUME NEW f, NEW n \in Nat, f = [x \in 1..n |-> f[x]], NEW e
  PROVE  /\ Len(Append(f, e)) = n + 1 /\ DOMAIN Append(f, e) = 1..(n + 1)
         /\ \A x \in 1..n : Append(f, e)[x] = f[x]
         /\ Append(f, e)[n + 1] = e
         /\ Front(Append(f, e)) = f
<1> DEFINE S == {f[x] : x \in 1..n} \cup {e}
           g == Append(f, e)
<1>1. \A x \in 1..n : f[x] \in S
  OBVIOUS
<1>2. e \in S
  OBVIOUS
<1> HIDE DEF S
<1>3. f \in Seq(S) /\ Len(f) = n
  BY <1>1
<1>4. /\ g \in Seq(S) /\ Len(g) = n + 1 /\ \A x \in 1..n : g[x] = f[x]
      /\ g[n + 1] = e
  BY <1>2, <1>3, AppendProperties
<1> HIDE DEF g
<1>5. DOMAIN g = 1..(n + 1)
  BY <1>4, LenProperties
<1>6. Front(g) = f
  <2>1. Front(g) = SubSeq(g, 1, n)
    BY <1>4 DEF Front
  <2>2. 1 \in 1..(Len(g) + 1) /\ n \in 0..Len(g) /\ n - 1 + 1 = n
    BY <1>4
  <2>3. /\ SubSeq(g, 1, n) \in Seq(S)
        /\ Len(SubSeq(g, 1, n)) = IF 1 <= n THEN n - 1 + 1 ELSE 0
        /\ \A m \in 1..(n - 1 + 1) : SubSeq(g, 1, n)[m] = g[1 + m - 1]
    BY <1>4, <2>2, PartFacts
  <2> DEFINE h == SubSeq(g, 1, n)
  <2>4. h \in Seq(S) /\ Len(h) = n
    BY <2>2, <2>3
  <2>5. \A m \in 1..n : 1 + m - 1 = m
    OBVIOUS
  <2>6. \A m \in 1..n : h[m] = f[m]
    BY <1>4, <2>2, <2>3, <2>5
  <2> HIDE DEF h
  <2>7. h = f
    BY <1>3, <2>4, <2>6, SeqEqual
  <2> QED  BY <2>1, <2>7 DEF h
<1> QED  BY <1>4, <1>5, <1>6 DEF g

(* Once Scan has returned, its tokens are the longest matches of the       *)
(* lexical grammar, in order, with the values that compiler.go relies on,  *)
(* and there is one error for every piece that is no lexeme: for sources   *)
(* of any length, over any characters, and any limit of digits.            *)
THEOREM LongestMatchHolds == Spec => []ScansLongestMatch
<1>1. ASSUME LexInv, ended PROVE ScansLongestMatch
  <2> DEFINE P == TokenPieces
             T == TokensIn(text, P)
  <2>1. /\ P \in Seq(SpotsIn(text)) /\ tokens = Append(T, EofToken)
        /\ Len(errors) = Len(WrongPieces)
    BY <1>1, AtEnd
  <2>2. Len(P) \in Nat /\ DOMAIN P = 1..Len(P)
    BY <2>1, LenProperties
  <2>3. /\ DOMAIN T = 1..Len(P) /\ T = [x \in 1..Len(P) |-> T[x]]
        /\ \A x \in 1..Len(P) : T[x] = TokenIn(text, P[x])
    BY DEF TokensIn
  <2> HIDE DEF P, T
  <2>4. Front(tokens) = T
    BY <2>1, <2>2, <2>3, AppendIs
  <2>5. \A p : PartIn(text, p) = Piece(p)
    BY InText
  <2>6. \A x \in 1..Len(P) : /\ T[x].type = TypeOf(Piece(P[x]))
                             /\ T[x].lexeme = Piece(P[x])
                             /\ T[x].value = ValueOf(Piece(P[x]))
    BY <2>3, <2>5 DEF TokenIn
  <2>7. [x \in 1..Len(P) |-> <<T[x].type, T[x].lexeme, T[x].value>>]
          = [x \in 1..Len(P) |-> <<TypeOf(Piece(P[x])), Piece(P[x]), ValueOf(Piece(P[x]))>>]
    BY <2>6
  <2>8. Map(T, LAMBDA t : <<t.type, t.lexeme, t.value>>)
          = Map(P, LAMBDA p : <<TypeOf(Piece(p)), Piece(p), ValueOf(Piece(p))>>)
    BY <2>2, <2>3, <2>7 DEF Map
  <2> QED  BY <2>1, <2>4, <2>8 DEF ScansLongestMatch, P
<1>2. LexInv => ScansLongestMatch
  BY <1>1 DEF ScansLongestMatch
<1> QED  BY <1>2, ScanExact, PTL

(* Once Scan has returned, every token, every error and the end of the     *)
(* text have the line on which they end and the column where they start,   *)
(* through blanks, comments and strings of any number of lines (but for    *)
(* the shift that ColumnOf describes).                                     *)
THEOREM PositionsHold == Spec => []PositionsExact
<1>1. ASSUME LexInv, ended PROVE PositionsExact
  <2> DEFINE P == TokenPieces
             T == TokensIn(text, P)
             n == Len(text)
             q == <<n + 1, n>>
             Q == Append(P, q)
  <2>0. /\ text \in Seq(STRING) /\ current = n /\ line = LineAt(text, n) /\ column = ColumnAt(text, n + 1)
    BY <1>1 DEF LexInv, Placed
  <2>1. /\ P \in Seq(SpotsIn(text)) /\ tokens = Append(T, EofToken)
        /\ WrongPieces \in Seq(SpotsIn(text))
        /\ errors \in Seq(Errors) /\ Len(errors) = Len(WrongPieces)
        /\ \A x \in 1..Len(WrongPieces) : /\ errors[x].line = LineOf(WrongPieces[x])
                                          /\ errors[x].column = ColumnOf(WrongPieces[x])
    BY <1>1, AtEnd
  <2>2. /\ Len(P) \in Nat /\ DOMAIN P = 1..Len(P) /\ P = [x \in 1..Len(P) |-> P[x]]
        /\ DOMAIN errors = 1..Len(WrongPieces) /\ DOMAIN WrongPieces = 1..Len(WrongPieces)
    BY <2>1, LenProperties
  <2>3. /\ T = [x \in 1..Len(P) |-> T[x]]
        /\ \A x \in 1..Len(P) : T[x] = TokenIn(text, P[x])
    BY DEF TokensIn
  <2>4. \A p : LineIn(text, p) = LineOf(p) /\ ColumnIn(text, p) = ColumnOf(p)
    BY InText
  <2>5. q[1] = n + 1 /\ q[2] = n
    OBVIOUS
  <2> HIDE DEF P, T, q, n
  <2>6. EofToken.line = LineOf(q) /\ EofToken.column = ColumnOf(q)
    <3>1. LineIn(text, q) = LineAt(text, n) /\ ColumnIn(text, q) = ColumnAt(text, n + 1)
      BY <2>5 DEF LineIn, ColumnIn
    <3>2. EofToken.line = line /\ EofToken.column = column
      BY DEF EofToken
    <3> QED  BY <2>0, <2>4, <3>1, <3>2
  <2>7. /\ DOMAIN tokens = 1..(Len(P) + 1) /\ \A x \in 1..Len(P) : tokens[x] = T[x]
        /\ tokens[Len(P) + 1] = EofToken
    BY <2>1, <2>2, <2>3, AppendIs
  <2>8. /\ DOMAIN Q = 1..(Len(P) + 1) /\ \A x \in 1..Len(P) : Q[x] = P[x]
        /\ Q[Len(P) + 1] = q
    BY <2>2, AppendIs
  <2> HIDE DEF Q
  <2>9. \A x \in 1..(Len(P) + 1) : tokens[x].line = LineOf(Q[x]) /\ tokens[x].column = ColumnOf(Q[x])
    <3> TAKE x \in 1..(Len(P) + 1)
    <3>1. CASE x \in 1..Len(P)
      <4>1. tokens[x] = TokenIn(text, P[x]) /\ Q[x] = P[x]
        BY <2>3, <2>7, <2>8, <3>1
      <4>2. /\ TokenIn(text, P[x]).line = LineIn(text, P[x])
            /\ TokenIn(text, P[x]).column = ColumnIn(text, P[x])
        BY DEF TokenIn
      <4> QED  BY <2>4, <4>1, <4>2
    <3>2. CASE x \notin 1..Len(P)
      <4>1. x = Len(P) + 1
        BY <2>2, <3>2
      <4> QED  BY <2>6, <2>7, <2>8, <4>1
    <3> QED  BY <3>1, <3>2
  <2>10. [x \in 1..(Len(P) + 1) |-> <<tokens[x].line, tokens[x].column>>]
           = [x \in 1..(Len(P) + 1) |-> <<LineOf(Q[x]), ColumnOf(Q[x])>>]
    BY <2>9
  <2>11. Map(tokens, LAMBDA t : <<t.line, t.column>>) = Positions(Q)
    BY <2>7, <2>8, <2>10 DEF Map, Positions
  <2>12. [x \in 1..Len(WrongPieces) |-> <<errors[x].line, errors[x].column>>]
           = [x \in 1..Len(WrongPieces) |-> <<LineOf(WrongPieces[x]), ColumnOf(WrongPieces[x])>>]
    BY <2>1
  <2>13. Map(errors, LAMBDA e : <<e.line, e.column>>) = Positions(WrongPieces)
    BY <2>2, <2>12 DEF Map, Positions
  <2> QED  BY <2>11, <2>13 DEF PositionsExact, Q, P, q, n
<1>2. LexInv => PositionsExact
  BY <1>1 DEF PositionsExact
<1> QED  BY <1>2, ScanExact, PTL
=============================================================================
