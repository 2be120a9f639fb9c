--------------------------- MODULE CompilerProofs ---------------------------
(***************************************************************************)
(* Proof that Compile keeps its types, and that Validate accepts whatever  *)
(* it emits without a diagnostic, for every source and every limit.        *)
(*                                                                         *)
(* The invariant Inv has two halves.  Planned follows what the calls that  *)
(* are still to be made will find: the scopes of the functions then under  *)
(* compilation, and whether a local awaits its initializer.  Sound holds   *)
(* as long as no error was found: the code of each function is cut into    *)
(* instructions, and each jump leads to one of them or is the operand of a *)
(* task of the agenda, which will patch it.                                *)
(*                                                                         *)
(* What the chunk builder does to a function is described by Continues,    *)
(* which composes.  Lemma Stepping says what an action has to show when it *)
(* works on the code, and Rescoping when it changes scopes; each action    *)
(* has one lemma of its own, and NextIInv collects them.                   *)
(***************************************************************************)
EXTENDS Compiler, SequenceTheorems

LOCAL INSTANCE SequencesExt
LOCAL INSTANCE FiniteSetsExt
LOCAL INSTANCE WellFoundedInduction
LOCAL INSTANCE TLAPS
-----------------------------------------------------------------------------
(* Facts about numbers and sequences. *)

LEMMA Sizes == ByteSize \in 1..256 /\ ShortSize \in Nat /\ ShortSize <= 256 * 256
<1>1. ByteSize \in 1..256 /\ ShortSize \in 1..(256 * 256)
  BY CompilerAssumption, Zenon
<1> QED  BY SMTT(30), <1>1

LEMMA SourceTypes == Sources \subseteq [tokens: Seq(Token), errors: Seq(STRING)]
BY CompilerAssumption, Zenon

Less == {r \in Nat \X Nat : r[1] < r[2]}

LEMMA LessIs == OpToRel(<, Nat) = Less
<1>1. \A r : r \in OpToRel(<, Nat) <=> r \in Less
  BY DEF OpToRel, Less
<1> QED  BY <1>1

(* A set of natural numbers that is not empty has a least element. *)
LEMMA Least ==
  ASSUME NEW S, S \subseteq Nat, S # {}
  PROVE  \E n \in S : \A m \in S : n <= m
<1>1. IsWellFoundedOn(Less, Nat)
  BY LessIs, NatLessThanWellFounded, Zenon
<1>2. PICK n \in S : \A y \in S : ~ (<<y, n>> \in Less)
  BY <1>1, WFMin
<1>3. \A y \in S : n \in Nat /\ y \in Nat /\ ~(y < n)
  BY <1>2 DEF Less
<1> QED  BY <1>2, <1>3

LEMMA Bytes ==
  /\ Byte = 0..255 /\ Byte \subseteq Nat
  /\ \A op \in Byte : OperandBytes(op) \in 0..2
BY DEF Byte, OperandBytes
-----------------------------------------------------------------------------
(* Code that is cut into instructions.  B holds the offsets at which they  *)
(* start, and the end of the code.                                         *)

End(code, n, o) == IF o = Len(code) THEN NoEnd ELSE InstructionEnd(code, n, o)

Cut(code, n, B) ==
  /\ B \subseteq 0..Len(code)
  /\ 0 \in B
  /\ Len(code) \in B
  /\ \A b \in B \ {Len(code)} :
        /\ InstructionEnd(code, n, b) \in B
        /\ \A c \in B : ~(b < c /\ c < InstructionEnd(code, n, b))

LEMMA EndFacts ==
  ASSUME NEW code \in Seq(Byte), NEW n \in Nat, NEW o \in Int,
         InstructionEnd(code, n, o) # NoEnd
  PROVE  /\ o \in 0..(Len(code) - 1)
         /\ ByteAt(code, o) \in Byte /\ Known(ByteAt(code, o))
         /\ InstructionEnd(code, n, o) = o + 1 + OperandBytes(ByteAt(code, o))
         /\ InstructionEnd(code, n, o) \in (o + 1)..Len(code)
         /\ UsesConstant(ByteAt(code, o)) => ByteAt(code, o + 1) < n
<1>1. o \in 0..(Len(code) - 1) /\ Known(ByteAt(code, o))
  BY DEF InstructionEnd
<1>2. ByteAt(code, o) \in Byte
  BY <1>1 DEF ByteAt
<1>3. OperandBytes(ByteAt(code, o)) \in 0..2
  BY <1>2, Bytes
<1>4. /\ InstructionEnd(code, n, o) = o + 1 + OperandBytes(ByteAt(code, o))
      /\ o + 1 + OperandBytes(ByteAt(code, o)) <= Len(code)
      /\ UsesConstant(ByteAt(code, o)) => ByteAt(code, o + 1) < n
  BY DEF InstructionEnd
<1> QED  BY <1>1, <1>2, <1>3, <1>4

(* The recursive function of BoundariesOf exists: at an offset it holds    *)
(* the offsets in every set closed under End that contains it.             *)
IsFrom(code, n, F) ==
  F = [o \in 0..Len(code) |->
         {o} \cup (IF End(code, n, o) = NoEnd THEN {} ELSE F[End(code, n, o)])]

Closed(code, n, S) == \A x \in S : End(code, n, x) = NoEnd \/ End(code, n, x) \in S

LEMMA FromExists ==
  ASSUME NEW code \in Seq(Byte), NEW n \in Nat
  PROVE  \E F : IsFrom(code, n, F)
<1> DEFINE O == 0..Len(code)
           C(o) == {S \in SUBSET O : o \in S /\ Closed(code, n, S)}
           F == [o \in O |-> {r \in O : \A S \in C(o) : r \in S}]
<1>1. ASSUME NEW o \in O, End(code, n, o) # NoEnd PROVE End(code, n, o) \in O
  <2>1. o \in Int /\ InstructionEnd(code, n, o) # NoEnd /\ End(code, n, o) = InstructionEnd(code, n, o)
    BY <1>1 DEF End
  <2> QED  BY <2>1, EndFacts
<1>2. ASSUME NEW o \in O
      PROVE F[o] = {o} \cup (IF End(code, n, o) = NoEnd THEN {} ELSE F[End(code, n, o)])
  <2>1. CASE End(code, n, o) = NoEnd
    <3>1. {o} \in C(o)
      BY <2>1 DEF Closed
    <3>2. o \in F[o]
      OBVIOUS
    <3> HIDE DEF C
    <3>3. F[o] \subseteq {o}
      BY <3>1
    <3> QED  BY <2>1, <3>2, <3>3
  <2>2. CASE End(code, n, o) # NoEnd
    <3> DEFINE e == End(code, n, o)
    <3>1. e \in O
      BY <1>1, <2>2
    <3>2. \A S \in C(o) : S \in C(e)
      BY <2>2 DEF Closed
    <3>3. F[e] \subseteq F[o]
      BY <3>1, <3>2
    <3>4. {o} \cup F[e] \in C(o)
      <4>1. ASSUME NEW x \in F[e], End(code, n, x) # NoEnd PROVE End(code, n, x) \in F[e]
        <5>1. \A S \in C(e) : End(code, n, x) \in S
          BY <3>1, <4>1 DEF Closed
        <5> QED  BY <1>1, <3>1, <4>1, <5>1
      <4>2. e \in F[e]
        BY <3>1
      <4>3. {o} \cup F[e] \in SUBSET O
        BY <3>1
      <4>4. Closed(code, n, {o} \cup F[e])
        BY <4>1, <4>2 DEF Closed
      <4> QED  BY <4>3, <4>4
    <3>5. o \in F[o]
      OBVIOUS
    <3>6. F[o] \subseteq {o} \cup F[e]
      BY <3>4
    <3>7. F[o] = {o} \cup F[e]
      <4> HIDE DEF F, e
      <4> QED  BY <3>3, <3>5, <3>6, Zenon
    <3> HIDE DEF F
    <3> QED  BY <2>2, <3>7
  <2> QED  BY <2>1, <2>2
<1>3. F = [o \in O |-> {o} \cup (IF End(code, n, o) = NoEnd THEN {} ELSE F[End(code, n, o)])]
  <2>1. F = [o \in O |-> F[o]]
    OBVIOUS
  <2> HIDE DEF F
  <2> QED  BY <1>2, <2>1
<1> HIDE DEF F
<1>4. IsFrom(code, n, F)
  BY <1>3 DEF IsFrom
<1> QED  BY <1>4

(* The boundaries of code that is cut are the offsets at which it is cut.  *)
LEMMA CutIsBoundaries ==
  ASSUME NEW code \in Seq(Byte), NEW n \in Nat, NEW B, Cut(code, n, B)
  PROVE  BoundariesOf(code, n) = B
<1> DEFINE G == CHOOSE from : IsFrom(code, n, from)
<1>1. BoundariesOf(code, n) = G[0]
  BY DEF BoundariesOf, IsFrom, End
<1>2. IsFrom(code, n, G)
  BY FromExists
<1> HIDE DEF G
<1>3. \A o \in 0..Len(code) :
        G[o] = {o} \cup (IF End(code, n, o) = NoEnd THEN {} ELSE G[End(code, n, o)])
  BY <1>2 DEF IsFrom
<1> DEFINE Good(b) == G[b] = {x \in B : b <= x}
           Bad == {d \in Nat : \E b \in B : d = Len(code) - b /\ ~Good(b)}
<1>4. /\ B \subseteq 0..Len(code) /\ 0 \in B /\ Len(code) \in B
      /\ Len(code) \in Nat /\ \A b \in B : b \in Nat /\ b <= Len(code)
  BY DEF Cut
<1>5. Bad = {}
  <2> SUFFICES ASSUME Bad # {} PROVE FALSE
    OBVIOUS
  <2>1. PICK d \in Bad : \A m \in Bad : d <= m
    BY Least
  <2>2. PICK b \in B : d = Len(code) - b /\ ~Good(b)
    BY <2>1
  <2>3. \A x \in B : b < x => Good(x)
    <3> SUFFICES ASSUME NEW x \in B, b < x, ~Good(x) PROVE FALSE
      OBVIOUS
    <3>1. Len(code) - x \in Nat /\ Len(code) - x < d /\ d \in Nat
      <4>1. x \in Nat /\ x <= Len(code) /\ b \in Nat /\ Len(code) \in Nat /\ d \in Nat
        BY <1>4
      <4>2. d = Len(code) - b /\ b < x
        BY <2>2
      <4> QED  BY <4>1, <4>2
    <3>2. Len(code) - x \in Bad
      BY <3>1
    <3>3. d <= Len(code) - x
      BY <2>1, <3>2
    <3> HIDE DEF Bad
    <3> QED  BY <3>1, <3>3
  <2>4. CASE b = Len(code)
    <3>1. G[b] = {b}
      BY <1>3, <1>4, <2>4 DEF End
    <3>2. \A x \in B : b <= x <=> x = b
      BY <1>4, <2>4
    <3>4. {x \in B : b <= x} = {b}
      BY <3>2
    <3> QED  BY <2>2, <3>1, <3>4
  <2>5. CASE b # Len(code)
    <3> DEFINE e == InstructionEnd(code, n, b)
    <3>1. e \in B /\ \A c \in B : ~(b < c /\ c < e)
      BY <2>5 DEF Cut
    <3>2. b < e /\ b \in Nat /\ e \in Nat /\ e # NoEnd
      <4>1. b \in Nat /\ e \in Nat /\ e # NoEnd
        BY <1>4, <3>1 DEF NoEnd
      <4>2. b \in Int /\ e \in (b + 1)..Len(code)
        BY <4>1, EndFacts
      <4> QED  BY <4>1, <4>2
    <3>3. G[b] = {b} \cup G[e]
      BY <1>3, <1>4, <2>5, <3>2 DEF End
    <3>4. G[e] = {x \in B : e <= x}
      BY <2>3, <3>1, <3>2
    <3> HIDE DEF e
    <3>5. \A x \in B : x \in Nat
      BY <1>4
    <3>6. \A x \in B : b <= x <=> x = b \/ e <= x
      BY <3>1, <3>2, <3>5
    <3>7. Good(b)
      BY <3>3, <3>4, <3>6
    <3> QED  BY <2>2, <3>7
  <2> QED  BY <2>4, <2>5
<1>6. Good(0)
  <2> SUFFICES ASSUME ~Good(0) PROVE FALSE
    OBVIOUS
  <2>1. Len(code) - 0 \in Nat
    OBVIOUS
  <2>2. Len(code) - 0 \in Bad
    BY <1>4, <2>1
  <2> QED  BY <1>5, <2>2
<1>7. \A x \in B : 0 <= x
  BY <1>4
<1>8. {x \in B : 0 <= x} = B
  BY <1>7
<1> QED  BY <1>1, <1>6, <1>8

-----------------------------------------------------------------------------
(* The functions under construction, and how one is continued by the       *)
(* operators of the chunk builder.                                         *)

Constant == Literal \cup ({"function"} \X Nat)
Emittable == [arity: Nat, upvalues: Seq(UpvalueSpec), constants: Seq(Constant),
              code: Seq(Byte)]

Bounds(f) == BoundariesOf(f.code, Len(f.constants))
Starts(f) == Bounds(f) \ {Len(f.code)}
Cuts(f) == Cut(f.code, Len(f.constants), Bounds(f))

(* The code of f is continued in g, which may rewrite operands of jumps    *)
(* only: each jump of g leads to a boundary, or its operand is in opened,  *)
(* or it is one of f that leads where it led there, and whose operand is   *)
(* not in closed.                                                          *)
Continues(f, g, opened, closed) ==
  Cuts(f) =>
    /\ Cuts(g)
    /\ Bounds(f) \subseteq Bounds(g)
    /\ Len(f.code) <= Len(g.code)
    /\ \A b \in Starts(f) : ByteAt(g.code, b) = ByteAt(f.code, b)
    /\ \A b \in Starts(g) :
          IsJump(ByteAt(g.code, b)) =>
            \/ JumpTarget(g.code, b) \in Bounds(g)
            \/ b + 1 \in opened
            \/ /\ b \in Starts(f) /\ b + 1 \notin closed
               /\ JumpTarget(g.code, b) = JumpTarget(f.code, b)

(* The operand at p is that of a jump forward. *)
IsOpen(f, p) ==
  /\ p \in Nat \ {0}
  /\ p - 1 \in Starts(f)
  /\ ByteAt(f.code, p - 1) \in {OpJump, OpJumpIfFalse}

LEMMA EmittableFacts ==
  ASSUME NEW f \in Emittable
  PROVE  /\ f.arity \in Nat /\ f.upvalues \in Seq(UpvalueSpec)
         /\ f.constants \in Seq(Constant) /\ Len(f.constants) \in Nat
         /\ f.code \in Seq(Byte) /\ Len(f.code) \in Nat
BY DEF Emittable

LEMMA CutFacts ==
  ASSUME NEW f \in Emittable, Cuts(f)
  PROVE  /\ Bounds(f) \subseteq 0..Len(f.code) /\ 0 \in Bounds(f) /\ Len(f.code) \in Bounds(f)
         /\ \A b \in Bounds(f) : b \in Nat /\ b <= Len(f.code)
         /\ \A b \in Starts(f) :
              LET e == InstructionEnd(f.code, Len(f.constants), b)
              IN /\ b \in Nat /\ b < Len(f.code)
                 /\ e \in Bounds(f) /\ e = b + 1 + OperandBytes(ByteAt(f.code, b))
                 /\ e \in (b + 1)..Len(f.code)
                 /\ ByteAt(f.code, b) \in Byte /\ Known(ByteAt(f.code, b))
                 /\ UsesConstant(ByteAt(f.code, b)) => ByteAt(f.code, b + 1) < Len(f.constants)
                 /\ \A c \in Bounds(f) : ~(b < c /\ c < e)
<1>1. /\ f.code \in Seq(Byte) /\ Len(f.constants) \in Nat /\ Len(f.code) \in Nat
  BY EmittableFacts
<1>2. /\ Bounds(f) \subseteq 0..Len(f.code) /\ 0 \in Bounds(f) /\ Len(f.code) \in Bounds(f)
      /\ \A b \in Starts(f) :
           /\ InstructionEnd(f.code, Len(f.constants), b) \in Bounds(f)
           /\ \A c \in Bounds(f) : ~(b < c /\ c < InstructionEnd(f.code, Len(f.constants), b))
  BY DEF Cuts, Cut, Starts
<1>3. \A b \in Bounds(f) : b \in Nat /\ b <= Len(f.code)
  BY <1>1, <1>2
<1>4. ASSUME NEW b \in Starts(f)
      PROVE /\ b \in Nat /\ b < Len(f.code)
            /\ InstructionEnd(f.code, Len(f.constants), b) # NoEnd
  <2>1. b \in Bounds(f) /\ b # Len(f.code)
    BY DEF Starts
  <2>2. InstructionEnd(f.code, Len(f.constants), b) \in Nat
    BY <1>2, <1>3
  <2> QED  BY <1>1, <1>3, <2>1, <2>2 DEF NoEnd
<1>5. ASSUME NEW b \in Starts(f)
      PROVE  LET e == InstructionEnd(f.code, Len(f.constants), b)
             IN /\ e = b + 1 + OperandBytes(ByteAt(f.code, b))
                /\ e \in (b + 1)..Len(f.code)
                /\ ByteAt(f.code, b) \in Byte /\ Known(ByteAt(f.code, b))
                /\ UsesConstant(ByteAt(f.code, b)) => ByteAt(f.code, b + 1) < Len(f.constants)
  BY <1>1, <1>4, EndFacts
<1> QED  BY <1>2, <1>3, <1>4, <1>5

LEMMA BoundsAre ==
  ASSUME NEW f \in Emittable, NEW B, Cut(f.code, Len(f.constants), B)
  PROVE  Bounds(f) = B /\ Cuts(f)
BY EmittableFacts, CutIsBoundaries DEF Bounds, Cuts

(* Operands that UsesConstant and IsJump speak of lie within the code. *)
LEMMA OperandsWithin ==
  ASSUME NEW f \in Emittable, Cuts(f), NEW b \in Starts(f)
  PROVE  /\ UsesConstant(ByteAt(f.code, b)) =>
              /\ b + 1 < Len(f.code) /\ ByteAt(f.code, b + 1) \in Byte
              /\ InstructionEnd(f.code, Len(f.constants), b) = b + 2
         /\ IsJump(ByteAt(f.code, b)) =>
              /\ b + 2 < Len(f.code)
              /\ InstructionEnd(f.code, Len(f.constants), b) = b + 3
              /\ ByteAt(f.code, b + 1) \in Byte /\ ByteAt(f.code, b + 2) \in Byte
<1> DEFINE op == ByteAt(f.code, b)
           e == InstructionEnd(f.code, Len(f.constants), b)
<1>1. /\ b \in Nat /\ e = b + 1 + OperandBytes(op) /\ e <= Len(f.code)
      /\ f.code \in Seq(Byte) /\ Len(f.code) \in Nat
  BY CutFacts, EmittableFacts
<1>2. UsesConstant(op) => OperandBytes(op) = 1
  BY DEF OperandBytes, UsesConstant, IsJump, OpJump, OpJumpIfFalse, OpLoop, OpConstant,
         OpGetGlobal, OpDefineGlobal, OpSetGlobal, OpClosure
<1>3. IsJump(op) => OperandBytes(op) = 2
  BY DEF OperandBytes
<1> HIDE DEF op, e
<1>4. \A i \in 0..(Len(f.code) - 1) : ByteAt(f.code, i) \in Byte
  BY <1>1 DEF ByteAt
<1>5. UsesConstant(op) => b + 1 < Len(f.code) /\ e = b + 2 /\ b + 1 \in 0..(Len(f.code) - 1)
  BY <1>1, <1>2
<1>6. IsJump(op) => /\ b + 2 < Len(f.code) /\ e = b + 3
                    /\ b + 1 \in 0..(Len(f.code) - 1) /\ b + 2 \in 0..(Len(f.code) - 1)
  BY <1>1, <1>3
<1> QED  BY <1>4, <1>5, <1>6 DEF op, e

LEMMA CutGrows ==
  ASSUME NEW f \in Emittable, NEW g \in Emittable, Cuts(f), NEW N,
         Len(f.code) <= Len(g.code), Len(f.constants) <= Len(g.constants),
         N \subseteq (Len(f.code) + 1)..Len(g.code), Len(g.code) \in Bounds(f) \cup N,
         \A b \in Starts(f) :
            /\ ByteAt(g.code, b) = ByteAt(f.code, b)
            /\ UsesConstant(ByteAt(f.code, b)) => ByteAt(g.code, b + 1) = ByteAt(f.code, b + 1),
         \A b \in ({Len(f.code)} \cup N) \ {Len(g.code)} :
            /\ InstructionEnd(g.code, Len(g.constants), b) \in N
            /\ \A c \in N : ~(b < c /\ c < InstructionEnd(g.code, Len(g.constants), b))
  PROVE  Bounds(g) = Bounds(f) \cup N /\ Cuts(g)
<1> DEFINE B == Bounds(f) \cup N
           E(b) == InstructionEnd(g.code, Len(g.constants), b)
<1>1. /\ Len(f.code) \in Nat /\ Len(g.code) \in Nat
      /\ Len(f.constants) \in Nat /\ Len(g.constants) \in Nat
  BY EmittableFacts
<1>2. ASSUME NEW b \in B \ {Len(g.code)}
      PROVE  E(b) \in B /\ \A c \in B : ~(b < c /\ c < E(b))
  <2>1. CASE b \in Starts(f)
    <3> DEFINE e == InstructionEnd(f.code, Len(f.constants), b)
    <3>1. /\ b \in Nat /\ b < Len(f.code) /\ e \in Bounds(f)
          /\ e = b + 1 + OperandBytes(ByteAt(f.code, b)) /\ e <= Len(f.code) /\ e \in Nat
          /\ Known(ByteAt(f.code, b))
          /\ UsesConstant(ByteAt(f.code, b)) => ByteAt(f.code, b + 1) < Len(f.constants)
          /\ \A c \in Bounds(f) : ~(b < c /\ c < e)
      BY <2>1, CutFacts
    <3>2. UsesConstant(ByteAt(f.code, b)) => ByteAt(f.code, b + 1) \in Nat
      <4>1. UsesConstant(ByteAt(f.code, b)) => ByteAt(f.code, b + 1) \in Byte
        BY <2>1, OperandsWithin
      <4> QED  BY <4>1, Bytes
    <3>3. UsesConstant(ByteAt(g.code, b)) => ByteAt(g.code, b + 1) < Len(g.constants)
      BY <1>1, <2>1, <3>1, <3>2
    <3>4. /\ b \in 0..(Len(g.code) - 1) /\ Known(ByteAt(g.code, b))
          /\ b + 1 + OperandBytes(ByteAt(g.code, b)) = e /\ e <= Len(g.code)
      BY <1>1, <2>1, <3>1
    <3>5. E(b) = e
      BY <3>3, <3>4 DEF InstructionEnd
    <3>6. \A c \in N : ~(c < e)
      BY <1>1, <3>1
    <3> QED  BY <3>1, <3>5, <3>6
  <2>2. CASE b \notin Starts(f)
    <3>1. b \in ({Len(f.code)} \cup N) \ {Len(g.code)} /\ b \in Nat /\ Len(f.code) <= b
      <4>1. CASE b \in N
        <5>1. b \in (Len(f.code) + 1)..Len(g.code)
          BY <4>1
        <5> QED  BY <1>1, <4>1, <5>1
      <4>2. CASE b \notin N
        <5>1. b = Len(f.code)
          BY <2>2, <4>2 DEF Starts
        <5> QED  BY <1>1, <5>1
      <4> QED  BY <4>1, <4>2
    <3>2. \A c \in Bounds(f) : ~(b < c)
      BY <1>1, <3>1, CutFacts
    <3> QED  BY <3>1, <3>2
  <2> QED  BY <2>1, <2>2
<1>3. B \subseteq 0..Len(g.code) /\ 0 \in B /\ Len(g.code) \in B
  <2>1. Bounds(f) \subseteq 0..Len(f.code) /\ 0 \in Bounds(f)
    BY CutFacts
  <2>2. 0..Len(f.code) \subseteq 0..Len(g.code) /\ N \subseteq 0..Len(g.code)
    BY <1>1
  <2> QED  BY <2>1, <2>2
<1>4. Cut(g.code, Len(g.constants), B)
  BY <1>2, <1>3 DEF Cut
<1> QED  BY <1>4, BoundsAre

(* The old code of g, and the new one, which is cut at N. *)
OldKept(f, g, N, closed) ==
  \A b \in Starts(f) :
     /\ ByteAt(g.code, b) = ByteAt(f.code, b)
     /\ UsesConstant(ByteAt(f.code, b)) => ByteAt(g.code, b + 1) = ByteAt(f.code, b + 1)
     /\ IsJump(ByteAt(f.code, b)) =>
          \/ JumpTarget(g.code, b) \in Bounds(f) \cup N
          \/ b + 1 \notin closed /\ JumpTarget(g.code, b) = JumpTarget(f.code, b)

NewCut(f, g, N, opened) ==
  /\ N \subseteq (Len(f.code) + 1)..Len(g.code)
  /\ Len(g.code) \in {Len(f.code)} \cup N
  /\ \A b \in ({Len(f.code)} \cup N) \ {Len(g.code)} :
        /\ InstructionEnd(g.code, Len(g.constants), b) \in N
        /\ \A c \in N : ~(b < c /\ c < InstructionEnd(g.code, Len(g.constants), b))
        /\ IsJump(ByteAt(g.code, b)) =>
             JumpTarget(g.code, b) \in Bounds(f) \cup N \/ b + 1 \in opened

LEMMA ContinuesBy ==
  ASSUME NEW f \in Emittable, NEW g \in Emittable, Cuts(f), NEW N, NEW opened, NEW closed,
         Len(f.code) <= Len(g.code), Len(f.constants) <= Len(g.constants),
         OldKept(f, g, N, closed), NewCut(f, g, N, opened)
  PROVE  Continues(f, g, opened, closed) /\ Bounds(g) = Bounds(f) \cup N /\ Cuts(g)
<1>1. Bounds(g) = Bounds(f) \cup N /\ Cuts(g)
  <2>1. Len(f.code) \in Bounds(f)
    BY CutFacts
  <2> QED  BY <2>1, CutGrows DEF OldKept, NewCut
<1>2. ASSUME NEW b \in Starts(g), b \notin Starts(f)
      PROVE  b \in ({Len(f.code)} \cup N) \ {Len(g.code)}
  BY <1>1, <1>2 DEF Starts
<1>3. ASSUME NEW b \in Starts(g), IsJump(ByteAt(g.code, b))
      PROVE  \/ JumpTarget(g.code, b) \in Bounds(g)
             \/ b + 1 \in opened
             \/ /\ b \in Starts(f) /\ b + 1 \notin closed
                /\ JumpTarget(g.code, b) = JumpTarget(f.code, b)
  BY <1>1, <1>2, <1>3 DEF OldKept, NewCut
<1>4. Len(f.code) <= Len(g.code) /\ \A b \in Starts(f) : ByteAt(g.code, b) = ByteAt(f.code, b)
  BY DEF OldKept
<1> QED  BY <1>1, <1>3, <1>4 DEF Continues

LEMMA EmitFacts ==
  ASSUME NEW f \in Emittable, NEW bytes \in Seq(Byte)
  PROVE  LET g == Emit(f, bytes)
         IN /\ g \in Emittable
            /\ g.constants = f.constants /\ g.upvalues = f.upvalues /\ g.arity = f.arity
            /\ g.code = f.code \o bytes
            /\ Len(g.code) = Len(f.code) + Len(bytes)
            /\ \A i \in 0..(Len(f.code) - 1) : ByteAt(g.code, i) = ByteAt(f.code, i)
            /\ \A j \in 1..Len(bytes) : ByteAt(g.code, Len(f.code) + j - 1) = bytes[j]
<1> DEFINE g == Emit(f, bytes)
<1>1. /\ f.code \in Seq(Byte) /\ f.code \o bytes \in Seq(Byte)
      /\ Len(f.code \o bytes) = Len(f.code) + Len(bytes)
      /\ Len(f.code) \in Nat /\ Len(bytes) \in Nat
  BY EmittableFacts
<1>2. /\ g \in Emittable
      /\ g.constants = f.constants /\ g.upvalues = f.upvalues /\ g.arity = f.arity
      /\ g.code = f.code \o bytes
  BY <1>1 DEF Emit, Emittable
<1>3. \A i \in 0..(Len(f.code) - 1) : (f.code \o bytes)[i + 1] = f.code[i + 1]
  <2>1. \A i \in 1..Len(f.code) : (f.code \o bytes)[i] = f.code[i]
    BY <1>1, ConcatProperties
  <2>2. \A i \in 0..(Len(f.code) - 1) : i + 1 \in 1..Len(f.code)
    BY <1>1
  <2> QED  BY <2>1, <2>2
<1>4. \A j \in 1..Len(bytes) : (f.code \o bytes)[Len(f.code) + j] = bytes[j]
  BY <1>1
<1>5. \A j \in 1..Len(bytes) : Len(f.code) + j - 1 + 1 = Len(f.code) + j
  BY <1>1
<1> QED  BY <1>1, <1>2, <1>3, <1>4, <1>5 DEF ByteAt

(* Bytes appended to a function, cut at N into instructions of their own. *)
LEMMA Appending ==
  ASSUME NEW f \in Emittable, Cuts(f), NEW bytes \in Seq(Byte), NEW N, NEW opened,
         NewCut(f, Emit(f, bytes), N, opened)
  PROVE  LET g == Emit(f, bytes)
         IN Continues(f, g, opened, {}) /\ Bounds(g) = Bounds(f) \cup N /\ Cuts(g)
<1> DEFINE g == Emit(f, bytes)
<1>1. /\ g \in Emittable /\ g.constants = f.constants
      /\ Len(g.code) = Len(f.code) + Len(bytes)
      /\ \A i \in 0..(Len(f.code) - 1) : ByteAt(g.code, i) = ByteAt(f.code, i)
      /\ Len(f.code) \in Nat /\ Len(bytes) \in Nat /\ Len(f.constants) \in Nat
  BY EmitFacts, EmittableFacts
<1>2. Len(f.code) <= Len(g.code) /\ Len(f.constants) <= Len(g.constants)
  BY <1>1
<1>4. ASSUME NEW b \in Starts(f)
      PROVE  /\ ByteAt(g.code, b) = ByteAt(f.code, b)
             /\ UsesConstant(ByteAt(f.code, b)) => ByteAt(g.code, b + 1) = ByteAt(f.code, b + 1)
             /\ IsJump(ByteAt(f.code, b)) =>
                  \/ JumpTarget(g.code, b) \in Bounds(f) \cup N
                  \/ b + 1 \notin {} /\ JumpTarget(g.code, b) = JumpTarget(f.code, b)
  <2>1. b \in 0..(Len(f.code) - 1)
    BY <1>1, CutFacts
  <2>2. UsesConstant(ByteAt(f.code, b)) => b + 1 \in 0..(Len(f.code) - 1)
    BY <1>1, <2>1, OperandsWithin
  <2>3. IsJump(ByteAt(f.code, b)) =>
          b + 1 \in 0..(Len(f.code) - 1) /\ b + 2 \in 0..(Len(f.code) - 1)
    BY <1>1, <2>1, OperandsWithin
  <2> QED  BY <1>1, <2>1, <2>2, <2>3 DEF JumpTarget
<1>5. OldKept(f, g, N, {})
  BY <1>4 DEF OldKept
<1> QED  BY <1>1, <1>2, <1>5, ContinuesBy

(* Instructions without an operand. *)
Single == {op \in Byte : Known(op) /\ OperandBytes(op) = 0}

LEMMA EmitSingles ==
  ASSUME NEW f \in Emittable, NEW bytes \in Seq(Single)
  PROVE  bytes \in Seq(Byte) /\ Continues(f, Emit(f, bytes), {}, {})
<1>1. bytes \in Seq(Byte)
  <2>1. Single \subseteq Byte
    BY DEF Single
  <2> QED  BY <2>1, SeqMonotonic
<1> SUFFICES ASSUME Cuts(f) PROVE Continues(f, Emit(f, bytes), {}, {})
  BY <1>1 DEF Continues
<1> DEFINE g == Emit(f, bytes)
           N == (Len(f.code) + 1)..Len(g.code)
<1>2. /\ g \in Emittable /\ Len(g.code) = Len(f.code) + Len(bytes)
      /\ \A j \in 1..Len(bytes) : ByteAt(g.code, Len(f.code) + j - 1) = bytes[j]
      /\ Len(f.code) \in Nat /\ Len(bytes) \in Nat
  BY <1>1, EmitFacts, EmittableFacts
<1>3. ASSUME NEW b \in ({Len(f.code)} \cup N) \ {Len(g.code)}
      PROVE  /\ InstructionEnd(g.code, Len(g.constants), b) = b + 1
             /\ ~IsJump(ByteAt(g.code, b))
             /\ b + 1 \in N
  <2>1. /\ b \in Nat /\ b \in 0..(Len(g.code) - 1)
        /\ b - Len(f.code) + 1 \in 1..Len(bytes)
        /\ b = Len(f.code) + (b - Len(f.code) + 1) - 1
    <3>1. b \in Nat /\ Len(f.code) <= b /\ b <= Len(g.code) /\ b # Len(g.code)
      BY <1>2
    <3> QED  BY <1>2, <3>1
  <2>2. ByteAt(g.code, b) \in Single
    <3>1. PICK j \in 1..Len(bytes) : b = Len(f.code) + j - 1
      BY <2>1
    <3>2. ByteAt(g.code, b) = bytes[j]
      BY <1>2, <3>1
    <3> QED  BY <3>2
  <2>3. /\ Known(ByteAt(g.code, b)) /\ OperandBytes(ByteAt(g.code, b)) = 0
    BY <2>2 DEF Single
  <2>4. ~IsJump(ByteAt(g.code, b)) /\ ~UsesConstant(ByteAt(g.code, b))
    BY <2>3 DEF OperandBytes
  <2>5. b + 1 + 0 = b + 1 /\ b + 1 <= Len(g.code) /\ b + 1 \in N
    BY <1>2, <2>1
  <2> QED  BY <2>1, <2>3, <2>4, <2>5 DEF InstructionEnd
<1>4. \A b \in ({Len(f.code)} \cup N) \ {Len(g.code)} : \A c \in N : ~(b < c /\ c < b + 1)
  BY <1>2
<1>5. Len(g.code) \in {Len(f.code)} \cup N
  BY <1>2
<1>6. NewCut(f, g, N, {})
  BY <1>3, <1>4, <1>5 DEF NewCut
<1> QED  BY <1>1, <1>6, Appending

(* One instruction, with its operands. *)
LEMMA EmitInstruction ==
  ASSUME NEW f \in Emittable, NEW bytes \in Seq(Byte), NEW opened,
         Len(bytes) > 0, Known(bytes[1]), Len(bytes) = 1 + OperandBytes(bytes[1]),
         UsesConstant(bytes[1]) => bytes[2] < Len(f.constants),
         Cuts(f) /\ IsJump(bytes[1]) =>
           \/ JumpTarget(Emit(f, bytes).code, Len(f.code)) \in Bounds(f)
           \/ Len(f.code) + 1 \in opened
  PROVE  /\ Continues(f, Emit(f, bytes), opened, {})
         /\ Cuts(f) => /\ Len(f.code) \in Starts(Emit(f, bytes))
                       /\ ByteAt(Emit(f, bytes).code, Len(f.code)) = bytes[1]
<1> SUFFICES ASSUME Cuts(f)
             PROVE  /\ Continues(f, Emit(f, bytes), opened, {})
                    /\ Len(f.code) \in Starts(Emit(f, bytes))
                    /\ ByteAt(Emit(f, bytes).code, Len(f.code)) = bytes[1]
  BY DEF Continues
<1> DEFINE g == Emit(f, bytes)
           N == {Len(g.code)}
           o == Len(f.code)
<1>1. /\ g \in Emittable /\ Len(g.code) = o + Len(bytes) /\ g.constants = f.constants
      /\ \A j \in 1..Len(bytes) : ByteAt(g.code, o + j - 1) = bytes[j]
      /\ o \in Nat /\ Len(bytes) \in Nat
  <2>1. o \in Nat /\ Len(bytes) \in Nat
    BY EmittableFacts
  <2> QED  BY <2>1, EmitFacts
<1> HIDE DEF g, o
<1>2. ByteAt(g.code, o) = bytes[1]
  <2>1. 1 \in 1..Len(bytes) /\ o + 1 - 1 = o
    BY <1>1
  <2> QED  BY <1>1, <2>1
<1>3. UsesConstant(bytes[1]) => ByteAt(g.code, o + 1) < Len(g.constants)
  <2>1. UsesConstant(bytes[1]) => OperandBytes(bytes[1]) = 1
    BY DEF OperandBytes, UsesConstant, IsJump, OpJump, OpJumpIfFalse, OpLoop, OpConstant,
           OpGetGlobal, OpDefineGlobal, OpSetGlobal, OpClosure
  <2>2. UsesConstant(bytes[1]) => 2 \in 1..Len(bytes) /\ o + 2 - 1 = o + 1
    BY <1>1, <2>1
  <2>3. UsesConstant(bytes[1]) => ByteAt(g.code, o + 1) = bytes[2]
    BY <1>1, <2>2
  <2> QED  BY <1>1, <2>3
<1>4. o + 1 + OperandBytes(bytes[1]) = Len(g.code) /\ o \in 0..(Len(g.code) - 1)
  <2>1. bytes[1] \in Byte
    BY <1>1
  <2>2. OperandBytes(bytes[1]) \in 0..2
    BY <2>1, Bytes
  <2> QED  BY <1>1, <2>2
<1>5. InstructionEnd(g.code, Len(g.constants), o) = Len(g.code)
  <2>1. Len(g.code) <= Len(g.code)
    BY <1>1
  <2> QED  BY <1>2, <1>3, <1>4, <2>1 DEF InstructionEnd
<1>6. NewCut(f, g, N, opened)
  <2>1. N \subseteq (o + 1)..Len(g.code) /\ Len(g.code) \in {o} \cup N
    BY <1>1
  <2>2. ({o} \cup N) \ {Len(g.code)} = {o}
    BY <1>1
  <2>3. \A c \in N : ~(o < c /\ c < Len(g.code))
    BY <1>1
  <2>4. IsJump(ByteAt(g.code, o)) => JumpTarget(g.code, o) \in Bounds(f) \/ o + 1 \in opened
    BY <1>2 DEF g, o
  <2> QED  BY <1>5, <2>1, <2>2, <2>3, <2>4 DEF NewCut, o
<1>7. Continues(f, g, opened, {}) /\ Bounds(g) = Bounds(f) \cup N
  BY <1>6, Appending DEF g
<1>8. o \in Starts(g)
  <2>1. o \in Bounds(f) /\ o # Len(g.code)
    BY <1>1, CutFacts DEF o
  <2> QED  BY <1>7, <2>1 DEF Starts
<1> QED  BY <1>2, <1>7, <1>8 DEF g, o

(* What the tasks Emit write: instructions without an operand, or one that *)
(* has an operand of one byte and, if it names a constant, one that exists. *)
WholeCode(bytes, n) ==
  \/ bytes \in Seq(Single)
  \/ /\ bytes \in Seq(Byte) /\ Len(bytes) = 2
     /\ Known(bytes[1]) /\ OperandBytes(bytes[1]) = 1
     /\ UsesConstant(bytes[1]) => bytes[2] < n

LEMMA EmitWhole ==
  ASSUME NEW f \in Emittable, NEW bytes, WholeCode(bytes, Len(f.constants))
  PROVE  bytes \in Seq(Byte) /\ Continues(f, Emit(f, bytes), {}, {})
<1>1. CASE bytes \in Seq(Single)
  BY <1>1, EmitSingles
<1>2. CASE bytes \notin Seq(Single)
  <2>1. /\ bytes \in Seq(Byte) /\ Len(bytes) = 2
        /\ Known(bytes[1]) /\ OperandBytes(bytes[1]) = 1
        /\ UsesConstant(bytes[1]) => bytes[2] < Len(f.constants)
    BY <1>2 DEF WholeCode
  <2>2. Len(bytes) > 0 /\ Len(bytes) = 1 + OperandBytes(bytes[1])
    BY <2>1
  <2>3. ~IsJump(bytes[1])
    BY <2>1 DEF OperandBytes
  <2> QED  BY <2>1, <2>2, <2>3, EmitInstruction
<1> QED  BY <1>1, <1>2

LEMMA EmitJumpFacts ==
  ASSUME NEW f \in Emittable, NEW op \in {OpJump, OpJumpIfFalse}
  PROVE  LET g == EmitJump(f, op)
         IN /\ g \in Emittable
            /\ g.constants = f.constants /\ g.upvalues = f.upvalues /\ g.arity = f.arity
            /\ Continues(f, g, {JumpOperand(f)}, {})
            /\ Cuts(f) => IsOpen(g, JumpOperand(f))
<1> DEFINE bytes == <<op, 255, 255>>
<1>1. /\ op \in Byte /\ Known(op) /\ OperandBytes(op) = 2 /\ ~UsesConstant(op)
  BY DEF Byte, Known, OperandBytes, UsesConstant, IsJump, OpJump, OpJumpIfFalse, OpLoop,
         OpConstant, OpGetGlobal, OpDefineGlobal, OpSetGlobal, OpClosure, OpReturn
<1>2. bytes \in Seq(Byte) /\ Len(bytes) = 3 /\ bytes[1] = op
  BY <1>1 DEF Byte
<1> HIDE DEF bytes
<1>3. Len(bytes) > 0 /\ Len(bytes) = 1 + OperandBytes(bytes[1])
  BY <1>1, <1>2
<1>4. /\ Emit(f, bytes) \in Emittable
      /\ Emit(f, bytes).constants = f.constants /\ Emit(f, bytes).upvalues = f.upvalues
      /\ Emit(f, bytes).arity = f.arity
  BY <1>2, EmitFacts
<1>5. Len(f.code) + 1 \in {JumpOperand(f)} /\ Len(f.code) \in Nat
  BY EmittableFacts DEF JumpOperand
<1>6. /\ Continues(f, Emit(f, bytes), {JumpOperand(f)}, {})
      /\ Cuts(f) => /\ Len(f.code) \in Starts(Emit(f, bytes))
                    /\ ByteAt(Emit(f, bytes).code, Len(f.code)) = op
  BY <1>1, <1>2, <1>3, <1>5, EmitInstruction
<1>7. Cuts(f) => IsOpen(Emit(f, bytes), JumpOperand(f))
  <2>1. JumpOperand(f) \in Nat \ {0} /\ JumpOperand(f) - 1 = Len(f.code)
    BY <1>5 DEF JumpOperand
  <2> QED  BY <1>6, <2>1 DEF IsOpen
<1> QED  BY <1>4, <1>6, <1>7 DEF EmitJump, bytes

LEMMA Divided ==
  ASSUME NEW n \in Nat
  PROVE  n \div 256 \in Int /\ n % 256 \in 0..255 /\ n = 256 * (n \div 256) + (n % 256)
<1>1. n \div 256 \in Int
  OBVIOUS
<1>2. n % 256 \in 0..255
  OBVIOUS
<1>3. n = 256 * (n \div 256) + (n % 256)
  OBVIOUS
<1> QED  BY <1>1, <1>2, <1>3

LEMMA Numbers ==
  ASSUME NEW n \in Nat, n < 256 * 256
  PROVE  /\ n \div 256 \in Byte /\ n % 256 \in Byte
         /\ DecodeUint16(n \div 256, n % 256) = n
<1> DEFINE q == n \div 256
           r == n % 256
<1>1. q \in Int /\ r \in 0..255 /\ n = 256 * q + r
  BY Divided
<1> HIDE DEF q, r
<1>2. q \in 0..255
  BY <1>1
<1>3. q * 256 + r = n
  BY <1>1
<1> QED  BY <1>1, <1>2, <1>3 DEF Byte, DecodeUint16, q, r

LEMMA FitsIsShort ==
  ASSUME NEW n \in Int, FitsShort(n)
  PROVE  n \in Nat /\ n < 256 * 256
<1>1. ShortSize \in Nat /\ ShortSize <= 256 * 256
  BY Sizes
<1> QED  BY <1>1 DEF FitsShort

LEMMA EmitLoopBytes ==
  ASSUME NEW f \in Emittable, NEW h \in Byte, NEW l \in Byte,
         Cuts(f) => (Len(f.code) + 3) - DecodeUint16(h, l) \in Bounds(f)
  PROVE  <<OpLoop, h, l>> \in Seq(Byte) /\ Continues(f, Emit(f, <<OpLoop, h, l>>), {}, {})
<1> DEFINE loop == <<OpLoop, h, l>>
           g == Emit(f, loop)
<1>1. /\ Known(OpLoop) /\ OperandBytes(OpLoop) = 2 /\ ~UsesConstant(OpLoop) /\ OpLoop \in Byte
  BY DEF Known, OperandBytes, UsesConstant, IsJump, OpJump, OpJumpIfFalse, OpLoop, Byte,
         OpConstant, OpGetGlobal, OpDefineGlobal, OpSetGlobal, OpClosure, OpReturn
<1>2. loop \in Seq(Byte) /\ Len(loop) = 3 /\ loop[1] = OpLoop /\ loop[2] = h /\ loop[3] = l
  BY <1>1
<1> HIDE DEF loop
<1>3. \A j \in 1..3 : ByteAt(g.code, Len(f.code) + j - 1) = loop[j]
  <2>1. \A j \in 1..Len(loop) : ByteAt(g.code, Len(f.code) + j - 1) = loop[j]
    BY <1>2, EmitFacts
  <2> QED  BY <1>2, <2>1
<1>4. /\ Len(f.code) + 1 - 1 = Len(f.code) /\ Len(f.code) + 2 - 1 = Len(f.code) + 1
      /\ Len(f.code) + 3 - 1 = Len(f.code) + 2
  BY EmittableFacts
<1> HIDE DEF g
<1>5. /\ ByteAt(g.code, Len(f.code)) = OpLoop
      /\ ByteAt(g.code, Len(f.code) + 1) = h
      /\ ByteAt(g.code, Len(f.code) + 2) = l
  BY <1>2, <1>3, <1>4
<1>6. Cuts(f) => JumpTarget(g.code, Len(f.code)) \in Bounds(f)
  BY <1>5 DEF JumpTarget
<1>7. Len(loop) > 0 /\ Len(loop) = 1 + OperandBytes(loop[1])
  BY <1>1, <1>2
<1>8. Continues(f, Emit(f, loop), {}, {})
  BY <1>1, <1>2, <1>6, <1>7, EmitInstruction DEF g
<1> QED  BY <1>2, <1>8 DEF loop

LEMMA LoopFacts ==
  ASSUME NEW f \in Emittable, NEW start
  PROVE  LET g == EmitLoop(f, start)
         IN /\ g \in Emittable
            /\ g.constants = f.constants /\ g.upvalues = f.upvalues /\ g.arity = f.arity
            /\ LoopErrors(f, start) = <<>> /\ (Cuts(f) => start \in Bounds(f)) =>
                 Continues(f, g, {}, {})
<1> DEFINE d == LoopDistance(f, start)
           bytes == <<OpLoop>> \o IF FitsShort(d) THEN EncodeUint16(d) ELSE <<>>
<1>1. Len(f.code) \in Nat
  BY EmittableFacts
<1>2. EmitLoop(f, start) = Emit(f, bytes)
  BY DEF EmitLoop
<1>3. d = (Len(f.code) + 1 - start) + 2
  BY DEF LoopDistance
<1> HIDE DEF d
<1>4. bytes \in Seq(Byte) /\ (FitsShort(d) /\ (Cuts(f) => start \in Bounds(f)) =>
                                Continues(f, Emit(f, bytes), {}, {}))
  <2>1. CASE FitsShort(d)
    <3>1. d \in Nat /\ d < 256 * 256
      <4>1. d \in Int
        BY <2>1 DEF FitsShort
      <4> QED  BY <2>1, <4>1, FitsIsShort
    <3>2. PICK h \in Byte, l \in Byte : EncodeUint16(d) = <<h, l>> /\ DecodeUint16(h, l) = d
      BY <3>1, Numbers DEF EncodeUint16
    <3>3. OpLoop \in Byte
      BY DEF OpLoop, Byte
    <3>4. bytes = <<OpLoop>> \o <<h, l>>
      BY <2>1, <3>2
    <3>5. <<OpLoop>> \o <<h, l>> = <<OpLoop, h, l>> /\ <<OpLoop, h, l>> \in Seq(Byte)
      <4> DEFINE whole == <<OpLoop>> \o <<h, l>>
      <4>1. <<OpLoop>> \in Seq(Byte) /\ <<h, l>> \in Seq(Byte) /\ <<OpLoop, h, l>> \in Seq(Byte)
        BY <3>3
      <4>2. whole \in Seq(Byte) /\ Len(whole) = 3
        BY <4>1
      <4>3. whole[1] = OpLoop /\ whole[2] = h /\ whole[3] = l
        BY <4>1
      <4>4. \A i \in 1..3 : whole[i] = <<OpLoop, h, l>>[i]
        BY <4>3
      <4> HIDE DEF whole
      <4>5. whole = <<OpLoop, h, l>>
        BY <4>1, <4>2, <4>4
      <4> QED  BY <4>1, <4>5 DEF whole
    <3> HIDE DEF bytes
    <3>6. ASSUME Cuts(f) => start \in Bounds(f)
          PROVE  Continues(f, Emit(f, bytes), {}, {})
      <4>1. ASSUME Cuts(f) PROVE (Len(f.code) + 3) - DecodeUint16(h, l) \in Bounds(f)
        <5>1. start \in Bounds(f) /\ start \in Nat
          BY <3>6, <4>1, CutFacts
        <5>2. (Len(f.code) + 3) - d = start
          BY <1>1, <1>3, <5>1
        <5> QED  BY <3>2, <5>1, <5>2
      <4> QED  BY <3>4, <3>5, <4>1, EmitLoopBytes
    <3> QED  BY <3>4, <3>5, <3>6
  <2>2. CASE ~FitsShort(d)
    <3>1. <<OpLoop>> \o <<>> = <<OpLoop>> /\ <<OpLoop>> \in Seq(Byte)
      BY DEF OpLoop, Byte
    <3> QED  BY <2>2, <3>1
  <2> QED  BY <2>1, <2>2
<1>5. LoopErrors(f, start) = <<>> => FitsShort(d)
  BY DEF LoopErrors, d
<1> HIDE DEF bytes
<1>6. /\ Emit(f, bytes) \in Emittable
      /\ Emit(f, bytes).constants = f.constants /\ Emit(f, bytes).upvalues = f.upvalues
      /\ Emit(f, bytes).arity = f.arity
  BY <1>4, EmitFacts
<1> QED  BY <1>2, <1>4, <1>5, <1>6

LEMMA AddConstantFacts ==
  ASSUME NEW f \in Emittable, NEW value \in Constant, Len(f.constants) <= ByteSize
  PROVE  LET g == AddConstant(f, value)
         IN /\ g \in Emittable
            /\ Len(g.constants) <= ByteSize /\ Len(f.constants) <= Len(g.constants)
            /\ g.code = f.code /\ g.upvalues = f.upvalues /\ g.arity = f.arity
            /\ ConstantIndex(f) \in 0..(Len(g.constants) - 1) /\ ConstantIndex(f) \in Byte
            /\ Continues(f, g, {}, {})
<1> DEFINE g == AddConstant(f, value)
<1>1. /\ f.constants \in Seq(Constant) /\ Len(f.constants) \in Nat /\ ByteSize \in 1..256
      /\ f.code \in Seq(Byte) /\ Len(f.code) \in Nat
  <2>1. ByteSize \in 1..256
    BY Sizes
  <2> QED  BY <2>1, EmittableFacts
<1>2. CASE FullPool(f)
  <2>1. g = f /\ ConstantIndex(f) = 0
    BY <1>2 DEF AddConstant, ConstantIndex
  <2>2. Len(f.constants) = ByteSize
    BY <1>1, <1>2 DEF FullPool
  <2>3. Continues(f, f, {}, {})
    BY SMTT(30), <1>1 DEF Continues
  <2> QED  BY <1>1, <2>1, <2>2, <2>3, SMTT(30) DEF Byte
<1>3. CASE ~FullPool(f)
  <2>1. /\ g = [f EXCEPT !.constants = Append(@, value)]
        /\ ConstantIndex(f) = Len(f.constants)
    BY <1>3 DEF AddConstant, ConstantIndex
  <2>2. /\ Append(f.constants, value) \in Seq(Constant)
        /\ Len(Append(f.constants, value)) = Len(f.constants) + 1
    BY <1>1
  <2>3. /\ g \in Emittable /\ g.constants = Append(f.constants, value)
        /\ g.code = f.code /\ g.upvalues = f.upvalues /\ g.arity = f.arity
    BY <2>1, <2>2 DEF Emittable
  <2>4. Len(f.constants) < ByteSize
    BY <1>1, <1>3 DEF FullPool
  <2>5. ASSUME Cuts(f) PROVE Continues(f, g, {}, {})
    <3>1. NewCut(f, g, {}, {})
      BY <2>3 DEF NewCut
    <3>2. OldKept(f, g, {}, {})
      BY <2>3 DEF OldKept
    <3>3. Len(f.code) <= Len(g.code) /\ Len(f.constants) <= Len(g.constants)
      BY <1>1, <2>2, <2>3
    <3> HIDE DEF g
    <3> QED  BY <2>3, <2>5, <3>1, <3>2, <3>3, ContinuesBy
  <2>6. Continues(f, g, {}, {})
    BY <2>5 DEF Continues
  <2>7. Len(g.constants) = Len(f.constants) + 1
    BY SMTT(30), <2>2, <2>3
  <2> HIDE DEF g
  <2>8. /\ Len(f.constants) \in 0..(Len(g.constants) - 1) /\ Len(f.constants) \in 0..255
        /\ Len(g.constants) <= ByteSize /\ Len(f.constants) <= Len(g.constants)
    <3> DEFINE old == Len(f.constants)
               new == Len(g.constants)
    <3>1. old \in Nat /\ new = old + 1 /\ ByteSize \in 1..256 /\ old < ByteSize
      BY <1>1, <2>4, <2>7
    <3> HIDE DEF old, new
    <3>2. old \in 0..(new - 1) /\ old \in 0..255 /\ new <= ByteSize /\ old <= new
      BY <3>1
    <3> QED  BY <3>2 DEF old, new
  <2> QED  BY <2>1, <2>3, <2>6, <2>8 DEF g, Byte
<1> QED  BY <1>2, <1>3

-----------------------------------------------------------------------------
(* How continuations compose, and what they keep. *)

LEMMA StartsKept ==
  ASSUME NEW f \in Emittable, NEW g \in Emittable, NEW opened, NEW closed,
         Continues(f, g, opened, closed), Cuts(f)
  PROVE  /\ Cuts(g) /\ Bounds(f) \subseteq Bounds(g) /\ Len(f.code) <= Len(g.code)
         /\ Starts(f) \subseteq Starts(g)
         /\ \A b \in Starts(f) : ByteAt(g.code, b) = ByteAt(f.code, b)
<1>1. /\ Cuts(g) /\ Bounds(f) \subseteq Bounds(g) /\ Len(f.code) <= Len(g.code)
      /\ \A b \in Starts(f) : ByteAt(g.code, b) = ByteAt(f.code, b)
  BY DEF Continues
<1>2. ASSUME NEW b \in Starts(f) PROVE b \in Starts(g)
  <2>1. b \in Bounds(f) /\ b \in Nat /\ b < Len(f.code)
    BY CutFacts DEF Starts
  <2>2. Len(f.code) \in Nat /\ Len(g.code) \in Nat
    BY EmittableFacts
  <2>3. b # Len(g.code)
    BY <1>1, <2>1, <2>2
  <2> QED  BY <1>1, <2>1, <2>3 DEF Starts
<1> QED  BY <1>1, <1>2

LEMMA Composed ==
  ASSUME NEW f \in Emittable, NEW g \in Emittable, NEW h \in Emittable,
         NEW o1, NEW c1, NEW o2, NEW c2, NEW opened, NEW closed,
         Continues(f, g, o1, c1), Continues(g, h, o2, c2),
         (o1 \ c2) \cup o2 \subseteq opened, closed \subseteq c1 \cup c2
  PROVE  Continues(f, h, opened, closed)
<1> SUFFICES ASSUME Cuts(f) PROVE Continues(f, h, opened, closed)
  BY DEF Continues
<1>1. /\ Cuts(g) /\ Bounds(f) \subseteq Bounds(g) /\ Len(f.code) <= Len(g.code)
      /\ Starts(f) \subseteq Starts(g)
      /\ \A b \in Starts(f) : ByteAt(g.code, b) = ByteAt(f.code, b)
  BY StartsKept
<1>2. /\ Cuts(h) /\ Bounds(g) \subseteq Bounds(h) /\ Len(g.code) <= Len(h.code)
      /\ \A b \in Starts(g) : ByteAt(h.code, b) = ByteAt(g.code, b)
  BY <1>1, StartsKept
<1>3. Len(f.code) <= Len(h.code)
  BY <1>1, <1>2, EmittableFacts
<1>4. ASSUME NEW b \in Starts(h), IsJump(ByteAt(h.code, b))
      PROVE  \/ JumpTarget(h.code, b) \in Bounds(h)
             \/ b + 1 \in opened
             \/ /\ b \in Starts(f) /\ b + 1 \notin closed
                /\ JumpTarget(h.code, b) = JumpTarget(f.code, b)
  <2>1. \/ JumpTarget(h.code, b) \in Bounds(h)
        \/ b + 1 \in o2
        \/ /\ b \in Starts(g) /\ b + 1 \notin c2
           /\ JumpTarget(h.code, b) = JumpTarget(g.code, b)
    BY <1>1, <1>4 DEF Continues
  <2>2. ASSUME b \in Starts(g)
        PROVE  \/ JumpTarget(g.code, b) \in Bounds(g)
               \/ b + 1 \in o1
               \/ /\ b \in Starts(f) /\ b + 1 \notin c1
                  /\ JumpTarget(g.code, b) = JumpTarget(f.code, b)
    <3>1. IsJump(ByteAt(g.code, b))
      BY <1>2, <1>4, <2>2
    <3> QED  BY <2>2, <3>1 DEF Continues
  <2> QED  BY <1>2, <2>1, <2>2
<1>5. \A b \in Starts(f) : ByteAt(h.code, b) = ByteAt(f.code, b)
  BY <1>1, <1>2
<1> QED  BY <1>1, <1>2, <1>3, <1>4, <1>5 DEF Continues

LEMMA Weakened ==
  ASSUME NEW f \in Emittable, NEW g \in Emittable,
         NEW o, NEW c, NEW opened, NEW closed,
         Continues(f, g, o, c), o \subseteq opened, closed \subseteq c
  PROVE  Continues(f, g, opened, closed)
BY DEF Continues

(* A function whose code and constants are those of another continues it. *)
LEMMA SameCode ==
  ASSUME NEW f \in Emittable, NEW g, g.code = f.code, g.constants = f.constants
  PROVE  Continues(f, g, {}, {})
<1>1. Bounds(g) = Bounds(f) /\ Starts(g) = Starts(f)
  BY DEF Bounds, Starts
<1>2. Len(f.code) <= Len(f.code)
  BY EmittableFacts
<1> QED  BY <1>1, <1>2 DEF Continues, Cuts

LEMMA StaysOpen ==
  ASSUME NEW f \in Emittable, NEW g \in Emittable, NEW opened, NEW closed,
         Continues(f, g, opened, closed), Cuts(f), NEW p, IsOpen(f, p)
  PROVE  IsOpen(g, p)
BY StartsKept DEF IsOpen

LEMMA Replaced ==
  ASSUME NEW S, NEW s \in Seq(S), NEW i, NEW x \in S
  PROVE  [s EXCEPT ![i] = x] \in Seq(S) /\ Len([s EXCEPT ![i] = x]) = Len(s)
<1>1. s \in [1..Len(s) -> S] /\ Len(s) \in Nat
  OBVIOUS
<1>2. [s EXCEPT ![i] = x] \in [1..Len(s) -> S]
  BY <1>1
<1> QED  BY <1>1, <1>2

(* patchJump makes a jump forward lead to the end of the code. *)
LEMMA PatchTypes ==
  ASSUME NEW f \in Emittable, NEW p
  PROVE  LET g == PatchJump(f, p)
         IN /\ g \in Emittable
            /\ g.constants = f.constants /\ g.upvalues = f.upvalues /\ g.arity = f.arity
<1>1. CASE FitsShort(Distance(f, p))
  <2> DEFINE d == Distance(f, p)
  <2>1. d \in Nat /\ d < 256 * 256
    <3>1. d \in Int
      BY <1>1 DEF FitsShort
    <3> QED  BY <1>1, <3>1, FitsIsShort
  <2> HIDE DEF d
  <2>2. PICK h \in Byte, l \in Byte : EncodeUint16(d) = <<h, l>>
    BY SMTT(30), <2>1, Numbers DEF EncodeUint16
  <2>3. PatchJump(f, p) = [f EXCEPT !.code = [[f.code EXCEPT ![p + 1] = h] EXCEPT ![p + 2] = l]]
    <3>1. PatchJump(f, p) = [f EXCEPT !.code[p + 1] = h, !.code[p + 2] = l]
      BY <1>1, <2>2 DEF PatchJump, d
    <3>2. f.code \in Seq(Byte) /\ f \in [{"arity", "upvalues", "constants", "code"} ->
              {f.arity, f.upvalues, f.constants, f.code}]
      BY DEF Emittable
    <3> QED  BY <3>1, <3>2 DEF Emittable
  <2>4. [[f.code EXCEPT ![p + 1] = h] EXCEPT ![p + 2] = l] \in Seq(Byte)
    BY EmittableFacts, Replaced
  <2> QED  BY <2>3, <2>4 DEF Emittable
<1>2. CASE ~FitsShort(Distance(f, p))
  BY <1>2 DEF PatchJump
<1> QED  BY <1>1, <1>2

LEMMA PatchFacts ==
  ASSUME NEW f \in Emittable, NEW p, IsOpen(f, p) \/ ~Cuts(f), PatchErrors(f, p) = <<>>
  PROVE  Continues(f, PatchJump(f, p), {}, {p})
<1> SUFFICES ASSUME Cuts(f) PROVE Continues(f, PatchJump(f, p), {}, {p})
  BY DEF Continues
<1> DEFINE d == Distance(f, p)
           g == PatchJump(f, p)
<1>1. FitsShort(d) /\ IsOpen(f, p)
  BY DEF PatchErrors
<1>2. /\ p \in Nat \ {0} /\ p - 1 \in Starts(f)
      /\ ByteAt(f.code, p - 1) \in {OpJump, OpJumpIfFalse}
  BY <1>1 DEF IsOpen
<1>3. f.code \in Seq(Byte) /\ Len(f.code) \in Nat /\ Len(f.constants) \in Nat
  BY EmittableFacts
<1>4. d \in Nat /\ d < 256 * 256 /\ d = Len(f.code) - p - 2
  <2>1. d \in Int /\ d = Len(f.code) - p - 2
    BY <1>2, <1>3 DEF Distance
  <2> QED  BY <1>1, <2>1, FitsIsShort
<1>5. PICK h \in Byte, l \in Byte : EncodeUint16(d) = <<h, l>> /\ DecodeUint16(h, l) = d
  <2> HIDE DEF d
  <2> QED  BY <1>4, Numbers DEF EncodeUint16
<1>6. p + 1 \in 1..Len(f.code) /\ p + 2 \in 1..Len(f.code)
  BY <1>2, <1>3, <1>4
<1>7. /\ g.code \in Seq(Byte) /\ Len(g.code) = Len(f.code)
      /\ g.code[p + 1] = h /\ g.code[p + 2] = l
      /\ \A i \in 1..Len(f.code) : i # p + 1 /\ i # p + 2 => g.code[i] = f.code[i]
  <2>1. g = [f EXCEPT !.code[p + 1] = h, !.code[p + 2] = l]
    BY <1>1, <1>5 DEF PatchJump
  <2>2. g.code = [[f.code EXCEPT ![p + 1] = h] EXCEPT ![p + 2] = l]
    BY <2>1 DEF Emittable
  <2>3. p + 1 # p + 2
    BY <1>2
  <2> HIDE DEF g
  <2> QED  BY <1>3, <1>6, <2>2, <2>3
<1>8. g \in Emittable /\ g.constants = f.constants
  BY PatchTypes
<1> HIDE DEF g, d
<1>9. \A c \in Starts(f) : c \in Nat /\ c < Len(f.code)
  BY CutFacts
<1>10. ASSUME NEW c \in Nat, c < Len(f.code), c # p, c # p + 1
       PROVE  ByteAt(g.code, c) = ByteAt(f.code, c)
  <2>1. c + 1 \in 1..Len(f.code) /\ c + 1 # p + 1 /\ c + 1 # p + 2
    BY <1>2, <1>3, <1>10
  <2> QED  BY <1>7, <2>1 DEF ByteAt
<1>11. /\ IsJump(ByteAt(f.code, p - 1)) /\ ~UsesConstant(ByteAt(f.code, p - 1))
       /\ ByteAt(f.code, p - 1) # OpLoop
  BY <1>2 DEF IsJump, UsesConstant, OpJump, OpJumpIfFalse, OpLoop, OpConstant,
       OpGetGlobal, OpDefineGlobal, OpSetGlobal, OpClosure
<1>12. InstructionEnd(f.code, Len(f.constants), p - 1) = p + 2
  <2>1. InstructionEnd(f.code, Len(f.constants), p - 1) = (p - 1) + 3
    BY <1>2, <1>11, OperandsWithin
  <2> QED  BY <1>2, <2>1
<1>13. \A c \in Starts(f) : c # p /\ c # p + 1
  <2>1. \A c \in Bounds(f) : ~(p - 1 < c /\ c < p + 2)
    BY <1>2, <1>12, CutFacts
  <2> QED  BY <1>2, <2>1 DEF Starts
<1>14. ASSUME NEW b \in Starts(f)
       PROVE /\ ByteAt(g.code, b) = ByteAt(f.code, b)
             /\ UsesConstant(ByteAt(f.code, b)) => ByteAt(g.code, b + 1) = ByteAt(f.code, b + 1)
             /\ IsJump(ByteAt(f.code, b)) =>
                  \/ JumpTarget(g.code, b) \in Bounds(f) \cup {}
                  \/ b + 1 \notin {p} /\ JumpTarget(g.code, b) = JumpTarget(f.code, b)
  <2>1. ByteAt(g.code, b) = ByteAt(f.code, b)
    BY <1>9, <1>10, <1>13
  <2>2. ASSUME UsesConstant(ByteAt(f.code, b))
        PROVE  ByteAt(g.code, b + 1) = ByteAt(f.code, b + 1)
    <3>1. b # p - 1
      BY <1>11, <2>2
    <3>2. b + 1 < Len(f.code)
      BY <2>2, OperandsWithin
    <3>3. b + 1 \in Nat /\ b + 1 # p /\ b + 1 # p + 1
      BY <1>2, <1>9, <1>13, <3>1
    <3> QED  BY <1>10, <3>2, <3>3
  <2>3. ASSUME IsJump(ByteAt(f.code, b)), b # p - 1
        PROVE  b + 1 \notin {p} /\ JumpTarget(g.code, b) = JumpTarget(f.code, b)
    <3>1. b + 2 < Len(f.code) /\ InstructionEnd(f.code, Len(f.constants), b) = b + 3
      BY <2>3, OperandsWithin
    <3>2. ~(b < p - 1 /\ p - 1 < b + 3)
      BY <1>2, <3>1, CutFacts DEF Starts
    <3>3. /\ b + 1 \in Nat /\ b + 1 < Len(f.code) /\ b + 1 # p /\ b + 1 # p + 1
          /\ b + 2 \in Nat /\ b + 2 # p /\ b + 2 # p + 1
      BY SMTT(30), <1>2, <1>3, <1>9, <1>13, <2>3, <3>1, <3>2
    <3>4. /\ ByteAt(g.code, b + 1) = ByteAt(f.code, b + 1)
          /\ ByteAt(g.code, b + 2) = ByteAt(f.code, b + 2)
      BY <1>10, <3>1, <3>3
    <3> QED  BY <2>1, <3>3, <3>4 DEF JumpTarget
  <2>4. ASSUME b = p - 1 PROVE JumpTarget(g.code, b) \in Bounds(f)
    <3>1. /\ b + 1 = p /\ b + 2 = p + 1 /\ b + 3 = p + 2 /\ (p + 1) + 1 = p + 2
      BY <1>2, <2>4
    <3>2. ByteAt(g.code, b + 1) = h /\ ByteAt(g.code, b + 2) = l
      BY <1>7, <3>1 DEF ByteAt
    <3>3. JumpTarget(g.code, b) = (p + 2) + d
      BY <1>5, <1>11, <2>1, <2>4, <3>1, <3>2 DEF JumpTarget
    <3>4. (p + 2) + d = Len(f.code)
      <4> DEFINE n == Len(f.code)
      <4>1. p \in Nat /\ n \in Nat /\ d = n - p - 2
        BY <1>2, <1>3, <1>4
      <4> HIDE DEF n
      <4>2. (p + 2) + d = n
        BY <4>1
      <4> QED  BY <4>2 DEF n
    <3> QED  BY <3>3, <3>4, CutFacts
  <2> QED  BY <2>1, <2>2, <2>3, <2>4
<1>15. OldKept(f, g, {}, {p})
  BY <1>14 DEF OldKept
<1>16. NewCut(f, g, {}, {})
  BY <1>7 DEF NewCut
<1>17. Len(f.code) <= Len(g.code) /\ Len(f.constants) <= Len(g.constants)
  BY <1>3, <1>7, <1>8
<1>18. Continues(f, g, {}, {p})
  BY <1>8, <1>15, <1>16, <1>17, ContinuesBy
<1> QED  BY <1>18 DEF g

-----------------------------------------------------------------------------
(* The code that several calls of the chunk builder leave. *)

OnlyCode(f, g) ==
  /\ g \in Emittable
  /\ g.constants = f.constants /\ g.upvalues = f.upvalues /\ g.arity = f.arity

LEMMA PopFacts ==
  ASSUME NEW f \in Emittable
  PROVE  OnlyCode(f, Emit(f, <<OpPop>>)) /\ Continues(f, Emit(f, <<OpPop>>), {}, {})
<1>1. <<OpPop>> \in Seq(Single)
  BY DEF Single, Byte, Known, OperandBytes, UsesConstant, IsJump, OpPop, OpJump, OpJumpIfFalse,
         OpLoop, OpConstant, OpGetGlobal, OpDefineGlobal, OpSetGlobal, OpClosure, OpGetLocal,
         OpSetLocal, OpGetUpvalue, OpSetUpvalue, OpCall, OpReturn
<1>2. <<OpPop>> \in Seq(Byte) /\ Continues(f, Emit(f, <<OpPop>>), {}, {})
  BY <1>1, EmitSingles
<1> QED  BY <1>2, EmitFacts DEF OnlyCode

TestOf(f) == Emit(EmitJump(f, OpJumpIfFalse), <<OpPop>>)

LEMMA TestFacts ==
  ASSUME NEW f \in Emittable
  PROVE  /\ OnlyCode(f, TestOf(f))
         /\ Continues(f, TestOf(f), {JumpOperand(f)}, {})
         /\ Cuts(f) => IsOpen(TestOf(f), JumpOperand(f))
<1> DEFINE g == EmitJump(f, OpJumpIfFalse)
<1>1. /\ OnlyCode(f, g)
      /\ Continues(f, g, {JumpOperand(f)}, {})
      /\ Cuts(f) => IsOpen(g, JumpOperand(f))
  BY EmitJumpFacts DEF OnlyCode
<1> HIDE DEF g
<1>2. OnlyCode(g, Emit(g, <<OpPop>>)) /\ Continues(g, Emit(g, <<OpPop>>), {}, {})
  BY <1>1, PopFacts DEF OnlyCode
<1> DEFINE h == Emit(g, <<OpPop>>)
<1> HIDE DEF h
<1>3. g \in Emittable /\ h \in Emittable /\ OnlyCode(f, h) /\ Continues(g, h, {}, {})
  BY <1>1, <1>2 DEF OnlyCode, h
<1>4. Continues(f, h, {JumpOperand(f)}, {})
  BY <1>1, <1>3, Composed
<1>5. ASSUME Cuts(f) PROVE IsOpen(h, JumpOperand(f))
  <2>1. Cuts(g)
    BY <1>1, <1>5 DEF Continues
  <2> QED  BY <1>1, <1>3, <1>5, <2>1, StaysOpen
<1> QED  BY <1>3, <1>4, <1>5 DEF TestOf, g, h

OrOf(f) ==
  LET tested == EmitJump(f, OpJumpIfFalse)
      jumped == EmitJump(tested, OpJump)
  IN Emit(PatchJump(jumped, JumpOperand(f)), <<OpPop>>)

(* A jump is emitted, one forward is patched, and a value is popped. *)
ElseOf(f, thenJump) == Emit(PatchJump(EmitJump(f, OpJump), thenJump), <<OpPop>>)

LEMMA ElseFacts ==
  ASSUME NEW f \in Emittable, NEW p
  PROVE  /\ OnlyCode(f, ElseOf(f, p))
         /\ PatchErrors(EmitJump(f, OpJump), p) = <<>> /\ (Cuts(f) => IsOpen(f, p)) =>
              /\ Continues(f, ElseOf(f, p), {JumpOperand(f)}, {p})
              /\ Cuts(f) => IsOpen(ElseOf(f, p), JumpOperand(f))
<1> DEFINE g == EmitJump(f, OpJump)
           h == PatchJump(g, p)
           i == Emit(h, <<OpPop>>)
<1>1. /\ OnlyCode(f, g)
      /\ Continues(f, g, {JumpOperand(f)}, {})
      /\ Cuts(f) => IsOpen(g, JumpOperand(f))
  BY EmitJumpFacts DEF OnlyCode
<1>2. i = ElseOf(f, p)
  BY DEF ElseOf
<1> HIDE DEF g
<1>3. OnlyCode(g, h)
  BY <1>1, PatchTypes DEF OnlyCode
<1> HIDE DEF h
<1>4. OnlyCode(h, i) /\ Continues(h, i, {}, {})
  BY <1>3, PopFacts DEF OnlyCode
<1> HIDE DEF i
<1>5. g \in Emittable /\ h \in Emittable /\ i \in Emittable /\ OnlyCode(f, i)
  BY <1>1, <1>3, <1>4 DEF OnlyCode
<1>6. ASSUME PatchErrors(g, p) = <<>>, Cuts(f) => IsOpen(f, p)
      PROVE  /\ Continues(f, i, {JumpOperand(f)}, {p})
             /\ Cuts(f) => IsOpen(i, JumpOperand(f))
  <2> SUFFICES ASSUME Cuts(f)
               PROVE  Continues(f, i, {JumpOperand(f)}, {p}) /\ IsOpen(i, JumpOperand(f))
    BY DEF Continues
  <2>1. Cuts(g) /\ IsOpen(g, p) /\ IsOpen(g, JumpOperand(f))
    <3>1. Cuts(g)
      BY <1>1 DEF Continues
    <3> QED  BY <1>1, <1>5, <1>6, <3>1, StaysOpen
  <2>2. Continues(g, h, {}, {p})
    BY <1>5, <1>6, <2>1, PatchFacts DEF h
  <2>3. Cuts(h) /\ IsOpen(h, JumpOperand(f))
    <3>1. Cuts(h)
      BY <2>1, <2>2 DEF Continues
    <3> QED  BY <1>5, <2>1, <2>2, <3>1, StaysOpen
  <2>4. IsOpen(i, JumpOperand(f))
    BY <1>4, <1>5, <2>3, StaysOpen
  <2>5. Continues(f, h, {JumpOperand(f)}, {p})
    <3>1. ({JumpOperand(f)} \ {p}) \cup {} \subseteq {JumpOperand(f)} /\ {p} \subseteq {} \cup {p}
      OBVIOUS
    <3> QED  BY <1>1, <1>5, <2>2, <3>1, Composed
  <2>6. Continues(f, i, {JumpOperand(f)}, {p})
    <3>1. ({JumpOperand(f)} \ {}) \cup {} \subseteq {JumpOperand(f)} /\ {p} \subseteq {p} \cup {}
      OBVIOUS
    <3> QED  BY <1>4, <1>5, <2>5, <3>1, Composed
  <2> QED  BY <2>4, <2>6
<1> QED  BY <1>2, <1>5, <1>6 DEF g

LEMMA OrFacts ==
  ASSUME NEW f \in Emittable
  PROVE  LET tested == EmitJump(f, OpJumpIfFalse)
         IN /\ OnlyCode(f, OrOf(f))
            /\ PatchErrors(EmitJump(tested, OpJump), JumpOperand(f)) = <<>> =>
                 /\ Continues(f, OrOf(f), {JumpOperand(tested)}, {})
                 /\ Cuts(f) => IsOpen(OrOf(f), JumpOperand(tested))
<1> DEFINE g == EmitJump(f, OpJumpIfFalse)
           i == ElseOf(g, JumpOperand(f))
<1>1. OrOf(f) = i
  BY DEF OrOf, ElseOf
<1>2. /\ OnlyCode(f, g)
      /\ Continues(f, g, {JumpOperand(f)}, {})
      /\ Cuts(f) => IsOpen(g, JumpOperand(f))
  BY EmitJumpFacts DEF OnlyCode
<1> HIDE DEF g
<1>3. g \in Emittable
  BY <1>2 DEF OnlyCode
<1>4. /\ OnlyCode(g, i)
      /\ PatchErrors(EmitJump(g, OpJump), JumpOperand(f)) = <<>>
           /\ (Cuts(g) => IsOpen(g, JumpOperand(f))) =>
           /\ Continues(g, i, {JumpOperand(g)}, {JumpOperand(f)})
           /\ Cuts(g) => IsOpen(i, JumpOperand(g))
  BY <1>3, ElseFacts
<1> HIDE DEF i
<1>5. i \in Emittable /\ OnlyCode(f, i)
  BY <1>2, <1>4 DEF OnlyCode
<1>6. ASSUME PatchErrors(EmitJump(g, OpJump), JumpOperand(f)) = <<>>, Cuts(f)
      PROVE  Continues(f, i, {JumpOperand(g)}, {}) /\ IsOpen(i, JumpOperand(g))
  <2>1. Cuts(g)
    BY <1>2, <1>6 DEF Continues
  <2>2. Continues(g, i, {JumpOperand(g)}, {JumpOperand(f)}) /\ IsOpen(i, JumpOperand(g))
    BY <1>2, <1>4, <1>6, <2>1
  <2>3. ({JumpOperand(f)} \ {JumpOperand(f)}) \cup {JumpOperand(g)} \subseteq {JumpOperand(g)}
    OBVIOUS
  <2> QED  BY <1>2, <1>3, <1>5, <2>2, <2>3, Composed
<1>7. ASSUME PatchErrors(EmitJump(g, OpJump), JumpOperand(f)) = <<>>
      PROVE  Continues(f, i, {JumpOperand(g)}, {})
  BY <1>6, <1>7 DEF Continues
<1> QED  BY <1>1, <1>5, <1>6, <1>7 DEF g

EndWhileOf(f, loopStart, exitJump) == Emit(PatchJump(EmitLoop(f, loopStart), exitJump), <<OpPop>>)

LEMMA EndWhileFacts ==
  ASSUME NEW f \in Emittable, NEW s, NEW p
  PROVE  /\ OnlyCode(f, EndWhileOf(f, s, p))
         /\ /\ LoopErrors(f, s) = <<>> /\ PatchErrors(EmitLoop(f, s), p) = <<>>
            /\ Cuts(f) => IsOpen(f, p) /\ s \in Bounds(f)
            => Continues(f, EndWhileOf(f, s, p), {}, {p})
<1> DEFINE g == EmitLoop(f, s)
           h == PatchJump(g, p)
           i == Emit(h, <<OpPop>>)
<1>1. /\ OnlyCode(f, g)
      /\ LoopErrors(f, s) = <<>> /\ (Cuts(f) => s \in Bounds(f)) => Continues(f, g, {}, {})
  BY LoopFacts DEF OnlyCode
<1>2. i = EndWhileOf(f, s, p)
  BY DEF EndWhileOf
<1> HIDE DEF g
<1>3. OnlyCode(g, h)
  BY <1>1, PatchTypes DEF OnlyCode
<1> HIDE DEF h
<1>4. OnlyCode(h, i) /\ Continues(h, i, {}, {})
  BY <1>3, PopFacts DEF OnlyCode
<1> HIDE DEF i
<1>5. g \in Emittable /\ h \in Emittable /\ i \in Emittable /\ OnlyCode(f, i)
  BY <1>1, <1>3, <1>4 DEF OnlyCode
<1>6. ASSUME LoopErrors(f, s) = <<>>, PatchErrors(g, p) = <<>>,
             Cuts(f) => IsOpen(f, p) /\ s \in Bounds(f)
      PROVE  Continues(f, i, {}, {p})
  <2> SUFFICES ASSUME Cuts(f) PROVE Continues(f, i, {}, {p})
    BY DEF Continues
  <2>1. Continues(f, g, {}, {})
    BY <1>1, <1>6
  <2>2. Cuts(g) /\ IsOpen(g, p)
    <3>1. Cuts(g)
      BY <2>1 DEF Continues
    <3> QED  BY <1>5, <1>6, <2>1, <3>1, StaysOpen
  <2>3. Continues(g, h, {}, {p})
    BY <1>5, <1>6, <2>2, PatchFacts DEF h
  <2>4. Continues(f, h, {}, {p})
    <3>1. ({} \ {p}) \cup {} \subseteq {} /\ {p} \subseteq {} \cup {p}
      OBVIOUS
    <3> QED  BY <1>5, <2>1, <2>3, <3>1, Composed
  <2> QED
    <3>1. ({} \ {}) \cup {} \subseteq {} /\ {p} \subseteq {p} \cup {}
      OBVIOUS
    <3> QED  BY <1>4, <1>5, <2>4, <3>1, Composed
<1> QED  BY <1>2, <1>5, <1>6 DEF g

LEMMA ConstantCodeFacts ==
  ASSUME NEW f \in Emittable, NEW value \in Constant, Len(f.constants) <= ByteSize,
         NEW op \in {OpConstant, OpClosure}
  PROVE  LET g == Emit(AddConstant(f, value), <<op, ConstantIndex(f)>>)
         IN /\ g \in Emittable
            /\ Len(g.constants) <= ByteSize /\ Len(f.constants) <= Len(g.constants)
            /\ g.upvalues = f.upvalues /\ g.arity = f.arity
            /\ Continues(f, g, {}, {})
<1> DEFINE h == AddConstant(f, value)
           bytes == <<op, ConstantIndex(f)>>
           g == Emit(h, bytes)
<1>1. /\ h \in Emittable
      /\ Len(h.constants) <= ByteSize /\ Len(f.constants) <= Len(h.constants)
      /\ h.upvalues = f.upvalues /\ h.arity = f.arity
      /\ ConstantIndex(f) \in 0..(Len(h.constants) - 1) /\ ConstantIndex(f) \in Byte
      /\ Continues(f, h, {}, {})
  BY AddConstantFacts
<1>2. op \in Byte /\ Known(op) /\ OperandBytes(op) = 1
  BY DEF Byte, Known, OperandBytes, UsesConstant, IsJump, OpJump, OpJumpIfFalse, OpLoop,
         OpConstant, OpGetGlobal, OpDefineGlobal, OpSetGlobal, OpClosure, OpReturn
<1>3. ConstantIndex(f) < Len(h.constants)
  BY <1>1, EmittableFacts
<1> HIDE DEF h
<1>4. WholeCode(bytes, Len(h.constants))
  BY <1>1, <1>2, <1>3 DEF WholeCode
<1> HIDE DEF bytes
<1>5. bytes \in Seq(Byte) /\ Continues(h, g, {}, {})
  BY <1>1, <1>4, EmitWhole
<1>6. g \in Emittable /\ g.constants = h.constants /\ g.upvalues = h.upvalues /\ g.arity = h.arity
  BY <1>1, <1>5, EmitFacts
<1> HIDE DEF g
<1>7. Continues(f, g, {}, {})
  BY <1>1, <1>5, <1>6, Composed
<1> QED  BY <1>1, <1>6, <1>7 DEF g, h, bytes

LEMMA ReturnFacts ==
  ASSUME NEW f \in Emittable
  PROVE  LET g == Emit(f, <<OpNil, OpReturn>>)
         IN OnlyCode(f, g) /\ Continues(f, g, {}, {}) /\ EndsWithReturn(g.code)
<1> DEFINE bytes == <<OpNil, OpReturn>>
<1>1. bytes \in Seq(Single) /\ Len(bytes) = 2 /\ bytes[2] = OpReturn
  BY DEF Single, Byte, Known, OperandBytes, UsesConstant, IsJump, OpNil, OpJump, OpJumpIfFalse,
         OpLoop, OpConstant, OpGetGlobal, OpDefineGlobal, OpSetGlobal, OpClosure, OpGetLocal,
         OpSetLocal, OpGetUpvalue, OpSetUpvalue, OpCall, OpReturn
<1> HIDE DEF bytes
<1>2. bytes \in Seq(Byte) /\ Continues(f, Emit(f, bytes), {}, {})
  BY <1>1, EmitSingles
<1> DEFINE g == Emit(f, bytes)
<1>3. /\ OnlyCode(f, g) /\ Len(g.code) = Len(f.code) + Len(bytes)
      /\ \A j \in 1..Len(bytes) : ByteAt(g.code, Len(f.code) + j - 1) = bytes[j]
  BY <1>2, EmitFacts DEF OnlyCode
<1> HIDE DEF g
<1>4. Len(g.code) = Len(f.code) + 2 /\ ByteAt(g.code, Len(f.code) + 2 - 1) = OpReturn
  BY <1>1, <1>3
<1>5. Len(g.code) > 0 /\ Len(f.code) + 2 - 1 + 1 = Len(g.code)
  BY <1>4, EmittableFacts
<1> QED  BY <1>2, <1>3, <1>4, <1>5 DEF EndsWithReturn, ByteAt, g, bytes
-----------------------------------------------------------------------------
(* The inductive invariant.                                                *)
(*                                                                         *)
(* The agenda has a plan: for each of its tasks, and for its end, the      *)
(* scope depths of the functions that will be under compilation when its   *)
(* turn comes, and whether all locals of the innermost one will be         *)
(* initialized then.  The plan starts with what compilers holds now, and   *)
(* each task leads from its entry to the next one.                         *)

Entry == {e \in [scopes: Seq(Nat), ready: BOOLEAN] : Len(e.scopes) > 0}

ScopeOf(e) == e.scopes[Len(e.scopes)]

IsSequence(s) == \E S : s \in Seq(S)

(* Tasks that leave the scopes as they are, those that do and need all     *)
(* locals initialized, and those that end with the function.               *)
SimpleTasks ==
  {"Consume", "Precedence", "Infix", "Emit", "Patch", "Arguments", "Initializer"}
WholeTasks ==
  {"Script", "Declaration", "Recover", "Statement", "Block", "Then", "Else", "WhileBody",
   "EndWhile", "Function"}
HeadingTasks == {"Parameters", "Parameter", "MoreParameters", "EndFunction"}

IsWhole(task) ==
  \/ task[1] \in WholeTasks
  \/ task[1] = "ParseVariable" /\ task[2] \in {"variable", "function"}
IsHeading(task) ==
  \/ task[1] \in HeadingTasks
  \/ task[1] = "ParseVariable" /\ task[2] = "parameter"

Follows(task, s, t) ==
  \/ task[1] \in SimpleTasks /\ t = s
  \/ IsWhole(task) /\ s.ready /\ t = s
  \/ IsHeading(task) /\ s.ready /\ t.ready /\ \E n \in Nat : s.scopes = Append(t.scopes, n)
  \/ task[1] = "Define" /\ t.ready /\ t.scopes = s.scopes
  \/ task[1] = "EndScope" /\ s.ready /\ t.ready
       /\ s.scopes = [t.scopes EXCEPT ![Len(t.scopes)] = @ + 1]

(* What a task needs of the function it works on, and of the scope.  *)
Wanted(task, f, scope) ==
  /\ task[1] = "Emit" => WholeCode(task[2], Len(f.constants))
  /\ task[1] = "Define" /\ scope = 0 => task[2] \in Byte /\ task[2] < Len(f.constants)
  /\ task[1] = "Arguments" => task[2] \in Nat

(* The jumps a task will patch, and what else it needs of the code. *)
Operands(task) ==
  IF task[1] \in {"Patch", "Else"} THEN {task[2]}
  ELSE IF task[1] = "EndWhile" THEN {task[3]} ELSE {}

Awaits(task, f) ==
  /\ \A p \in Operands(task) : IsOpen(f, p)
  /\ task[1] \in {"WhileBody", "EndWhile"} => task[2] \in Bounds(f)

Settled(c) == \A k \in DOMAIN c.locals : c.locals[k].depth # -1

Sorted(c) ==
  \A i, j \in DOMAIN c.locals :
     i < j => /\ c.locals[i].depth >= 0
              /\ c.locals[j].depth = -1 \/ c.locals[i].depth <= c.locals[j].depth

WellScoped(c) ==
  /\ c \in FunctionCompiler
  /\ Sorted(c)
  /\ \A k \in DOMAIN c.locals : c.locals[k].depth <= c.scopeDepth
  /\ c.scopeDepth = 0 => Settled(c)

Scoped(cs, n) ==
  /\ cs \in Seq(FunctionCompiler) /\ Len(cs) > 0
  /\ \A l \in 1..Len(cs) : WellScoped(cs[l]) /\ cs[l].function \in 1..n
  /\ \A l, m \in 1..Len(cs) : l < m => cs[l].function < cs[m].function
  /\ \A l \in 1..(Len(cs) - 1) : Settled(cs[l])

Pools(f) == Len(f.constants) <= ByteSize /\ Len(f.upvalues) <= ByteSize

Generated(fs) == fs \in Seq(Emittable) /\ \A k \in 1..Len(fs) : Pools(fs[k])

Parsed ==
  /\ source \in Seq(Token)
  /\ current \in 0..(Len(source) + 1)
  /\ panicMode \in BOOLEAN
  /\ panicMode => diagnostics # <<>>
  /\ IsSequence(diagnostics)

FunctionOf(e, cs) == cs[Len(e.scopes)].function

Matches(e, cs) ==
  /\ Len(e.scopes) = Len(cs)
  /\ \A l \in 1..Len(cs) : e.scopes[l] = cs[l].scopeDepth
  /\ e.ready => Settled(cs[Len(cs)])

Planned(plan, tasks, cs, fs) ==
  /\ IsSequence(tasks)
  /\ plan \in Seq(Entry) /\ Len(plan) = Len(tasks) + 1
  /\ Len(plan[Len(plan)].scopes) = 1
  /\ \A i \in 1..Len(tasks) :
        /\ tasks[i][1] = "Script" <=> i = Len(tasks)
        /\ Follows(tasks[i], plan[i], plan[i + 1])
        /\ Wanted(tasks[i], fs[FunctionOf(plan[i], cs)], ScopeOf(plan[i]))
  /\ \A i, j \in 1..Len(plan) : i < j => Len(plan[j].scopes) <= Len(plan[i].scopes)
  /\ Matches(plan[1], cs)

(* Without a diagnostic so far, the code of every function is cut into     *)
(* instructions, and its jumps lead to one of them or will be patched.     *)
IsPending(p, k, plan, tasks, cs) ==
  \E i \in 1..Len(tasks) : FunctionOf(plan[i], cs) = k /\ p \in Operands(tasks[i])

Linked(k, plan, tasks, cs, fs) ==
  /\ Cuts(fs[k])
  /\ \A b \in Starts(fs[k]) :
        IsJump(ByteAt(fs[k].code, b)) =>
          \/ JumpTarget(fs[k].code, b) \in Bounds(fs[k])
          \/ IsPending(b + 1, k, plan, tasks, cs)

Ended(k, cs) == \A l \in 1..Len(cs) : cs[l].function # k

Sound(plan, tasks, cs, fs) ==
  /\ \A k \in 1..Len(fs) :
        /\ Linked(k, plan, tasks, cs, fs)
        /\ fs[k].arity <= 255
        /\ Ended(k, cs) => EndsWithReturn(fs[k].code)
  /\ \A i \in 1..Len(tasks) : Awaits(tasks[i], fs[FunctionOf(plan[i], cs)])

Inv(plan) ==
  /\ Parsed
  /\ Scoped(compilers, Len(functions))
  /\ Generated(functions)
  /\ Planned(plan, agenda, compilers, functions)
  /\ diagnostics = <<>> => Sound(plan, agenda, compilers, functions)

IInv ==
  \/ outcome = "none" /\ \E plan : Inv(plan)
  \/ outcome \in {"compiled", "failed"} /\ agenda = <<>> /\ TypeOK
-----------------------------------------------------------------------------
(* What replacing the first task by others does to the plan. *)

NewPlan(plan, T, q) == [i \in 1..Len(T) |-> q] \o Tail(plan)

LEMMA Replacing ==
  ASSUME NEW S, NEW s \in Seq(S), s # <<>>, NEW T, IsSequence(T)
  PROVE  /\ Len(T) \in Nat /\ Len(s) \in Nat /\ Len(s) > 0
         /\ IsSequence(T \o Tail(s))
         /\ Len(T \o Tail(s)) = Len(T) + Len(s) - 1
         /\ \A i \in 1..Len(T) : (T \o Tail(s))[i] = T[i]
         /\ \A i \in 2..Len(s) : (T \o Tail(s))[Len(T) + i - 1] = s[i]
<1>1. PICK S2 : T \in Seq(S2)
  BY DEF IsSequence
<1> DEFINE U == S \cup S2
<1>2. T \in Seq(U) /\ s \in Seq(U)
  <2>1. S \subseteq U /\ S2 \subseteq U
    OBVIOUS
  <2> QED  BY <1>1, <2>1, SeqMonotonic
<1> HIDE DEF U
<1>3. Tail(s) \in Seq(U) /\ Len(Tail(s)) = Len(s) - 1 /\ Len(s) \in Nat /\ Len(s) > 0
  BY <1>2
<1>4. T \o Tail(s) \in Seq(U) /\ Len(T \o Tail(s)) = Len(T) + Len(s) - 1 /\ Len(T) \in Nat
  BY <1>2, <1>3
<1>5. \A i \in 1..Len(T) : (T \o Tail(s))[i] = T[i]
  BY <1>2, <1>3
<1>6. ASSUME NEW i \in 2..Len(s) PROVE (T \o Tail(s))[Len(T) + i - 1] = s[i]
  <2>1. i - 1 \in 1..Len(Tail(s)) /\ Tail(s)[i - 1] = s[i]
    BY <1>2, <1>3
  <2>2. (T \o Tail(s))[Len(T) + (i - 1)] = Tail(s)[i - 1]
    BY <1>2, <1>3, <2>1
  <2>3. Len(T) + (i - 1) = Len(T) + i - 1
    BY <1>4
  <2> QED  BY <2>1, <2>2, <2>3
<1> QED  BY <1>3, <1>4, <1>5, <1>6 DEF IsSequence

LEMMA NewPlanIs ==
  ASSUME NEW plan \in Seq(Entry), Len(plan) > 1, NEW T, IsSequence(T), NEW q \in Entry
  PROVE  LET new == NewPlan(plan, T, q)
         IN /\ new \in Seq(Entry)
            /\ Len(new) = Len(T) + Len(plan) - 1
            /\ \A i \in 1..Len(T) : new[i] = q
            /\ \A i \in 2..Len(plan) : new[Len(T) + i - 1] = plan[i]
<1> DEFINE Q == [i \in 1..Len(T) |-> q]
<1>1. Len(T) \in Nat
  BY DEF IsSequence
<1>2. Q \in Seq(Entry) /\ Len(Q) = Len(T) /\ \A i \in 1..Len(T) : Q[i] = q
  BY <1>1
<1>3. plan # <<>> /\ Tail(plan) \in Seq(Entry)
  OBVIOUS
<1> HIDE DEF Q
<1>4. Q \o Tail(plan) \in Seq(Entry)
  BY <1>2, <1>3
<1>5. IsSequence(Q)
  BY <1>2 DEF IsSequence
<1>6. /\ Len(Q \o Tail(plan)) = Len(Q) + Len(plan) - 1
      /\ \A i \in 1..Len(Q) : (Q \o Tail(plan))[i] = Q[i]
      /\ \A i \in 2..Len(plan) : (Q \o Tail(plan))[Len(Q) + i - 1] = plan[i]
  BY <1>3, <1>5, Replacing
<1> QED  BY <1>2, <1>4, <1>6 DEF NewPlan, Q

LEMMA NewPlanLater ==
  ASSUME NEW plan \in Seq(Entry), Len(plan) > 1, NEW T, IsSequence(T), NEW q \in Entry,
         NEW i \in 2..Len(plan), NEW j, j = Len(T) + i - 1
  PROVE  NewPlan(plan, T, q)[j] = plan[i]
<1>1. \A k \in 2..Len(plan) : NewPlan(plan, T, q)[Len(T) + k - 1] = plan[k]
  BY NewPlanIs
<1> QED  BY <1>1

(* The tasks T fit between an entry q and the entry t that follows. *)
Fits(T, q, t, script) ==
  /\ IsSequence(T)
  /\ T = <<>> => q = t /\ ~script
  /\ \A i \in 1..Len(T) :
        /\ T[i][1] = "Script" <=> (i = Len(T) /\ script)
        /\ Follows(T[i], q, IF i = Len(T) THEN t ELSE q)

(* What the functions may lose: nothing. *)
Grown(fs, fs2) ==
  /\ Len(fs) <= Len(fs2)
  /\ \A k \in 1..Len(fs) : Len(fs[k].constants) <= Len(fs2[k].constants)

SameLevels(t, cs, cs2) ==
  \A l \in 1..Len(t.scopes) : cs2[l].function = cs[l].function

AllWanted(T, f, scope) == \A i \in 1..Len(T) : Wanted(T[i], f, scope)

LEMMA StaysWanted ==
  ASSUME NEW task, NEW f \in Emittable, NEW g \in Emittable, NEW scope,
         Len(f.constants) <= Len(g.constants), Wanted(task, f, scope)
  PROVE  Wanted(task, g, scope)
<1> DEFINE m == Len(f.constants)
           n == Len(g.constants)
<1>1. m \in Nat /\ n \in Nat /\ m <= n
  BY EmittableFacts
<1> HIDE DEF m, n
<1>2. \A b \in Byte : b < m => b < n
  BY <1>1, Bytes
<1>3. ASSUME WholeCode(task[2], m) PROVE WholeCode(task[2], n)
  <2>1. CASE task[2] \in Seq(Single)
    BY <2>1 DEF WholeCode
  <2>2. CASE task[2] \notin Seq(Single)
    <3>1. /\ task[2] \in Seq(Byte) /\ Len(task[2]) = 2
          /\ Known(task[2][1]) /\ OperandBytes(task[2][1]) = 1
          /\ UsesConstant(task[2][1]) => task[2][2] < m
      BY <1>3, <2>2 DEF WholeCode
    <3>2. task[2][2] \in Byte
      BY <3>1
    <3> QED  BY <1>2, <3>1, <3>2 DEF WholeCode
  <2> QED  BY <2>1, <2>2
<1> QED  BY <1>2, <1>3 DEF Wanted, m, n

(* The first of these tasks is replaced by T, and its entry in the plan by *)
(* q, while the functions become fs2 and their compilers cs2.              *)
Leads(plan, tasks, cs, fs, T, q, cs2, fs2) ==
  /\ q \in Entry
  /\ Planned(plan, tasks, cs, fs) /\ tasks # <<>>
  /\ Scoped(cs, Len(fs)) /\ Scoped(cs2, Len(fs2)) /\ Generated(fs) /\ Generated(fs2)
  /\ Grown(fs, fs2) /\ SameLevels(plan[2], cs, cs2)
  /\ Fits(T, q, plan[2], tasks[1][1] = "Script")
  /\ Len(plan[2].scopes) <= Len(q.scopes)
  /\ AllWanted(T, fs2[FunctionOf(q, cs2)], ScopeOf(q))
  /\ Matches(q, cs2)

Shifted(plan, tasks, T, q, cs, fs, cs2) ==
  LET n == Len(T)
      m == Len(tasks)
      new == NewPlan(plan, T, q)
      after == T \o Tail(tasks)
  IN /\ m \in Nat \ {0} /\ n \in Nat /\ Len(after) = n + m - 1
     /\ \A i \in 1..n : new[i] = q /\ after[i] = T[i]
     /\ \A i \in 2..m : /\ new[n + i - 1] = plan[i]
                        /\ after[n + i - 1] = tasks[i]
                        /\ FunctionOf(plan[i], cs2) = FunctionOf(plan[i], cs)
                        /\ FunctionOf(plan[i], cs) \in 1..Len(fs)

LEMMA PlannedNext ==
  ASSUME NEW plan, NEW tasks, NEW cs, NEW fs, NEW cs2, NEW fs2, NEW T, NEW q,
         Leads(plan, tasks, cs, fs, T, q, cs2, fs2)
  PROVE  /\ Planned(NewPlan(plan, T, q), T \o Tail(tasks), cs2, fs2)
         /\ Shifted(plan, tasks, T, q, cs, fs, cs2)
<1>0. /\ q \in Entry
      /\ Planned(plan, tasks, cs, fs) /\ tasks # <<>>
      /\ Scoped(cs, Len(fs)) /\ Scoped(cs2, Len(fs2)) /\ Generated(fs) /\ Generated(fs2)
      /\ Grown(fs, fs2) /\ SameLevels(plan[2], cs, cs2)
      /\ Fits(T, q, plan[2], tasks[1][1] = "Script")
      /\ Len(plan[2].scopes) <= Len(q.scopes)
      /\ AllWanted(T, fs2[FunctionOf(q, cs2)], ScopeOf(q))
      /\ Matches(q, cs2)
  BY DEF Leads
<1> USE <1>0
<1> DEFINE new == NewPlan(plan, T, q)
           after == T \o Tail(tasks)
           n == Len(T)
           m == Len(tasks)
<1>1. /\ IsSequence(tasks) /\ IsSequence(T)
      /\ plan \in Seq(Entry) /\ Len(plan) = m + 1
  BY DEF Planned, Fits
<1>2. PICK S : tasks \in Seq(S)
  BY <1>1 DEF IsSequence
<1>3. m \in Nat \ {0} /\ n \in Nat
  <2>1. n \in Nat
    BY <1>1 DEF IsSequence
  <2> QED  BY <1>2, <2>1
<1>4. /\ IsSequence(after) /\ Len(after) = n + m - 1
      /\ \A i \in 1..n : after[i] = T[i]
      /\ \A i \in 2..m : after[n + i - 1] = tasks[i]
  BY <1>1, <1>2, Replacing
<1>5. /\ new \in Seq(Entry) /\ Len(new) = n + (m + 1) - 1
      /\ \A i \in 1..n : new[i] = q
      /\ \A i \in 2..(m + 1) : new[n + i - 1] = plan[i]
  <2>1. Len(plan) > 1
    BY <1>1, <1>3
  <2> HIDE DEF m, n, new
  <2>2. /\ new \in Seq(Entry) /\ Len(new) = n + Len(plan) - 1
        /\ \A i \in 1..n : new[i] = q
        /\ \A i \in 2..Len(plan) : new[n + i - 1] = plan[i]
    <3>1. NewPlan(plan, T, q) \in Seq(Entry)
      BY <1>1, <2>1, NewPlanIs
    <3>2. Len(NewPlan(plan, T, q)) = Len(T) + Len(plan) - 1
      BY <1>1, <2>1, NewPlanIs
    <3>3. \A i \in 1..Len(T) : NewPlan(plan, T, q)[i] = q
      BY <1>1, <2>1, NewPlanIs
    <3>4. \A i \in 2..Len(plan) : NewPlan(plan, T, q)[Len(T) + i - 1] = plan[i]
      <4>1. Len(T) \in Nat
        BY <1>3 DEF n
      <4> SUFFICES ASSUME NEW i \in 2..Len(plan)
                   PROVE  NewPlan(plan, T, q)[Len(T) + i - 1] = plan[i]
        OBVIOUS
      <4> DEFINE j == Len(T) + i - 1
      <4>2. j = Len(T) + i - 1
        OBVIOUS
      <4> HIDE DEF j
      <4>3. NewPlan(plan, T, q)[j] = plan[i]
        BY <1>1, <2>1, <4>2, NewPlanLater
      <4> QED  BY <4>3 DEF j
    <3> QED  BY <3>1, <3>2, <3>3, <3>4 DEF new, n
  <2> QED  BY <1>1, <2>2
<1> HIDE DEF new, after, m, n
<1>6. Len(new) = Len(after) + 1
  BY <1>3, <1>4, <1>5
<1>7. 2 \in 2..(m + 1) /\ n + 2 - 1 = n + 1 /\ new[n + 1] = plan[2] /\ plan[2] \in Entry
  <2>1. 2 \in 2..(m + 1) /\ n + 2 - 1 = n + 1 /\ 2 \in 1..Len(plan)
    BY <1>1, <1>3
  <2> QED  BY <1>1, <1>5, <2>1
<1>8. Matches(new[1], cs2)
  <2>1. CASE T = <<>>
    <3>1. n = 0 /\ q = plan[2]
      BY <2>1 DEF Fits, n
    <3> QED  BY <1>7, <3>1
  <2>2. CASE T # <<>>
    <3>1. n # 0
      BY <1>1, <2>2 DEF IsSequence, n
    <3>2. 1 \in 1..n
      BY <1>3, <3>1
    <3> QED  BY <1>5, <3>2
  <2> QED  BY <2>1, <2>2
<1>9. \A i \in 1..Len(new) : (i \in 1..n /\ new[i] = q) \/
                             \E j \in 2..(m + 1) : i = n + j - 1 /\ new[i] = plan[j]
  <2> SUFFICES ASSUME NEW i \in 1..Len(new), i \notin 1..n
               PROVE  \E j \in 2..(m + 1) : i = n + j - 1 /\ new[i] = plan[j]
    BY <1>5
  <2>1. i - n + 1 \in 2..(m + 1) /\ i = n + (i - n + 1) - 1
    BY <1>3, <1>5
  <2> QED  BY <1>5, <2>1
<1>10. \A i, j \in 1..Len(new) : i < j => Len(new[j].scopes) <= Len(new[i].scopes)
  <2>1. \A i, j \in 1..(m + 1) : i < j => Len(plan[j].scopes) <= Len(plan[i].scopes)
    BY <1>1 DEF Planned
  <2>2. \A i \in 1..(m + 1) : Len(plan[i].scopes) \in Nat
    BY <1>1 DEF Entry
  <2>3. Len(q.scopes) \in Nat
    BY DEF Entry
  <2>4. \A j \in 2..(m + 1) : Len(plan[j].scopes) <= Len(plan[2].scopes)
    <3> SUFFICES ASSUME NEW j \in 2..(m + 1) PROVE Len(plan[j].scopes) <= Len(plan[2].scopes)
      OBVIOUS
    <3>1. j \in 1..(m + 1) /\ 2 \in 1..(m + 1) /\ (j = 2 \/ 2 < j)
      BY <1>3, <1>7
    <3> QED  BY <2>1, <2>2, <3>1
  <2>5. \A j \in 2..(m + 1) : Len(plan[j].scopes) <= Len(q.scopes)
    <3> SUFFICES ASSUME NEW j \in 2..(m + 1) PROVE Len(plan[j].scopes) <= Len(q.scopes)
      OBVIOUS
    <3>1. j \in 1..(m + 1) /\ 2 \in 1..(m + 1)
      BY <1>3, <1>7
    <3>2. /\ Len(plan[j].scopes) \in Nat /\ Len(plan[2].scopes) \in Nat
          /\ Len(plan[j].scopes) <= Len(plan[2].scopes)
      BY <2>2, <2>4, <3>1
    <3>3. Len(plan[2].scopes) <= Len(q.scopes)
      BY <1>0
    <3> DEFINE a == Len(plan[j].scopes)
               b == Len(plan[2].scopes)
               c == Len(q.scopes)
    <3>4. a \in Nat /\ b \in Nat /\ c \in Nat /\ a <= b /\ b <= c
      BY <2>3, <3>2, <3>3
    <3> HIDE DEF a, b, c
    <3>5. a <= c
      BY ONLY <3>4
    <3> QED  BY <3>5 DEF a, c
  <2> SUFFICES ASSUME NEW i \in 1..Len(new), NEW j \in 1..Len(new), i < j
               PROVE  Len(new[j].scopes) <= Len(new[i].scopes)
    OBVIOUS
  <2>6. CASE new[i] = q /\ new[j] = q
    BY <2>3, <2>6
  <2>7. ASSUME new[i] = q, NEW j2 \in 2..(m + 1), new[j] = plan[j2]
        PROVE  Len(new[j].scopes) <= Len(new[i].scopes)
    BY <2>5, <2>7
  <2>8. ASSUME NEW i2 \in 2..(m + 1), i = n + i2 - 1, new[i] = plan[i2],
               NEW j2 \in 2..(m + 1), j = n + j2 - 1, new[j] = plan[j2]
        PROVE  Len(new[j].scopes) <= Len(new[i].scopes)
    <3>1. i2 < j2 /\ i2 \in 1..(m + 1) /\ j2 \in 1..(m + 1)
      BY <1>3, <2>8
    <3> QED  BY <2>1, <2>8, <3>1
  <2>9. ASSUME NEW i2 \in 2..(m + 1), i = n + i2 - 1 PROVE j \notin 1..n
    BY <1>3, <2>9
  <2> QED  BY <1>9, <2>6, <2>7, <2>8, <2>9
<1>11. Len(new[Len(new)].scopes) = 1
  <2>1. Len(new) = n + (m + 1) - 1 /\ m + 1 \in 2..(m + 1)
    BY <1>3, <1>5
  <2>2. new[Len(new)] = plan[m + 1]
    BY <1>5, <2>1
  <2> QED  BY <1>1, <2>2 DEF Planned
<1>12. ASSUME NEW i \in 2..m
       PROVE  /\ FunctionOf(plan[i], cs2) = FunctionOf(plan[i], cs)
              /\ FunctionOf(plan[i], cs) \in 1..Len(fs)
              /\ FunctionOf(plan[i], cs) \in 1..Len(fs2)
  <2>1. i \in 1..Len(plan) /\ 2 \in 1..Len(plan) /\ 1 \in 1..Len(plan) /\ (i = 2 \/ 2 < i) /\ 1 < i
    BY <1>1, <1>3
  <2>2. /\ Len(plan[i].scopes) <= Len(plan[2].scopes) /\ Len(plan[i].scopes) <= Len(plan[1].scopes)
        /\ Len(plan[i].scopes) \in Nat \ {0} /\ Len(plan[2].scopes) \in Nat
        /\ Len(plan[1].scopes) \in Nat
    <3>1. /\ Len(plan[i].scopes) \in Nat \ {0} /\ Len(plan[2].scopes) \in Nat
          /\ Len(plan[1].scopes) \in Nat
      <4>1. plan[i] \in Entry /\ plan[2] \in Entry /\ plan[1] \in Entry
        BY <1>1, <2>1
      <4>2. \A e \in Entry : Len(e.scopes) \in Nat /\ Len(e.scopes) > 0
        BY DEF Entry
      <4>3. \A x \in Nat : x > 0 => x \in Nat \ {0}
        OBVIOUS
      <4> QED  BY <4>1, <4>2, <4>3
    <3>2. \A j, k \in 1..Len(plan) : j < k => Len(plan[k].scopes) <= Len(plan[j].scopes)
      BY DEF Planned
    <3> QED  BY <2>1, <3>1, <3>2
  <2>3. Len(plan[i].scopes) \in 1..Len(plan[2].scopes)
    BY ONLY <2>2
  <2>4. Len(plan[1].scopes) = Len(cs)
    BY DEF Planned, Matches
  <2>5. Len(plan[i].scopes) \in 1..Len(cs)
    <3>1. Len(plan[i].scopes) \in 1..Len(plan[1].scopes)
      BY ONLY <2>2
    <3> QED  BY <2>4, <3>1
  <2>6. FunctionOf(plan[i], cs) \in 1..Len(fs)
    BY <2>5 DEF Scoped, FunctionOf
  <2>7. Len(fs) \in Nat /\ Len(fs2) \in Nat /\ Len(fs) <= Len(fs2)
    BY DEF Grown, Generated
  <2>8. FunctionOf(plan[i], cs2) = FunctionOf(plan[i], cs)
    BY <2>3 DEF SameLevels, FunctionOf
  <2>9. \A k \in 1..Len(fs) : k \in 1..Len(fs2)
    BY <2>7
  <2> QED  BY <2>6, <2>8, <2>9
<1>13. ASSUME NEW i \in 1..Len(after)
       PROVE  /\ after[i][1] = "Script" <=> i = Len(after)
              /\ Follows(after[i], new[i], new[i + 1])
              /\ Wanted(after[i], fs2[FunctionOf(new[i], cs2)], ScopeOf(new[i]))
  <2>1. CASE i \in 1..n
    <3>1. after[i] = T[i] /\ new[i] = q
      BY <1>4, <1>5, <2>1
    <3>2. new[i + 1] = IF i = n THEN plan[2] ELSE q
      <4>1. i = n \/ i + 1 \in 1..n
        BY <1>3, <2>1
      <4>2. i = n => i + 1 \notin 1..n
        BY <1>3
      <4> QED  BY <1>3, <1>5, <1>7, <4>1, <4>2, <2>1
    <3>3. /\ T[i][1] = "Script" <=> i = n /\ tasks[1][1] = "Script"
          /\ Follows(T[i], q, IF i = n THEN plan[2] ELSE q)
          /\ Wanted(T[i], fs2[FunctionOf(q, cs2)], ScopeOf(q))
      BY <2>1 DEF Fits, AllWanted, n
    <3>4. tasks[1][1] = "Script" <=> 1 = m
      <4>1. 1 \in 1..m
        BY <1>3
      <4> QED  BY <4>1 DEF Planned, m
    <3>5. i = Len(after) <=> i = n /\ m = 1
      BY <1>3, <1>4, <2>1
    <3> QED  BY <3>1, <3>2, <3>3, <3>4, <3>5
  <2>2. CASE i \notin 1..n
    <3> DEFINE j == i - n + 1
    <3>1. /\ j \in 2..m /\ j \in 1..m /\ i = n + j - 1 /\ i + 1 = n + (j + 1) - 1
          /\ j + 1 \in 2..(m + 1) /\ j \in 2..(m + 1)
          /\ j = m <=> i = Len(after)
      <4>1. m \in Nat /\ n \in Nat /\ i \in Nat /\ n < i /\ i <= n + m - 1 /\ Len(after) = n + m - 1
        BY <1>3, <1>4, <2>2
      <4>2. j \in Int /\ 2 <= j /\ j <= m /\ i = n + j - 1 /\ i + 1 = n + (j + 1) - 1
        BY <4>1
      <4> HIDE DEF j
      <4>3. j \in 2..m /\ j \in 1..m /\ j + 1 \in 2..(m + 1) /\ j \in 2..(m + 1)
        BY <4>1, <4>2
      <4>4. j = m <=> i = Len(after)
        BY <4>1, <4>2
      <4> QED  BY <4>2, <4>3, <4>4
    <3> HIDE DEF j
    <3>2. after[i] = tasks[j] /\ new[i] = plan[j] /\ new[i + 1] = plan[j + 1]
      BY <1>4, <1>5, <3>1
    <3>3. /\ tasks[j][1] = "Script" <=> j = m
          /\ Follows(tasks[j], plan[j], plan[j + 1])
          /\ Wanted(tasks[j], fs[FunctionOf(plan[j], cs)], ScopeOf(plan[j]))
      BY <3>1 DEF Planned, m
    <3> DEFINE k == FunctionOf(plan[j], cs)
    <3>4. k \in 1..Len(fs) /\ k \in 1..Len(fs2) /\ FunctionOf(plan[j], cs2) = k
      BY <1>12, <3>1
    <3> HIDE DEF k
    <3>5. fs[k] \in Emittable /\ fs2[k] \in Emittable /\ Len(fs[k].constants) <= Len(fs2[k].constants)
      BY <3>4 DEF Generated, Grown
    <3>6. Wanted(tasks[j], fs2[k], ScopeOf(plan[j]))
      BY <3>3, <3>5, StaysWanted DEF k
    <3> QED  BY <3>1, <3>2, <3>3, <3>4, <3>6
  <2> QED  BY <2>1, <2>2
<1>14. Planned(new, after, cs2, fs2)
  BY <1>4, <1>5, <1>6, <1>8, <1>10, <1>11, <1>13 DEF Planned
<1>15. \A i \in 2..m : new[n + i - 1] = plan[i]
  <2>1. \A i \in 2..m : i \in 2..(m + 1)
    BY <1>3
  <2> QED  BY <1>5, <2>1
<1>16. /\ m \in Nat \ {0} /\ n \in Nat /\ Len(after) = n + m - 1
       /\ \A i \in 1..n : new[i] = q /\ after[i] = T[i]
       /\ \A i \in 2..m : /\ new[n + i - 1] = plan[i]
                          /\ after[n + i - 1] = tasks[i]
                          /\ FunctionOf(plan[i], cs2) = FunctionOf(plan[i], cs)
                          /\ FunctionOf(plan[i], cs) \in 1..Len(fs)
  BY <1>3, <1>4, <1>5, <1>12, <1>15
<1>17. Shifted(plan, tasks, T, q, cs, fs, cs2)
  BY ONLY <1>16 DEF Shifted, new, after, m, n
<1> QED  BY <1>14, <1>17 DEF new, after

(* What a step does to the code of the functions: each continues, the one  *)
(* at work with jumps opened and closed; those that no longer are under    *)
(* compilation have ended.                                                 *)
Worked(fs, fs2, k0, opened, closed) ==
  \A k \in 1..Len(fs) :
    /\ Continues(fs[k], fs2[k], IF k = k0 THEN opened ELSE {}, IF k = k0 THEN closed ELSE {})
    /\ fs[k].arity <= 255 => fs2[k].arity <= 255

Begun(f) == Cuts(f) /\ Starts(f) = {} /\ f.arity = 0

EndsKept(fs, fs2, cs, cs2) ==
  \A k \in 1..Len(fs2) :
    Ended(k, cs2) =>
      \/ EndsWithReturn(fs2[k].code)
      \/ k \in 1..Len(fs) /\ Ended(k, cs) /\ fs2[k].code = fs[k].code

AllAwaited(T, f) == \A i \in 1..Len(T) : Awaits(T[i], f)

(* Every jump that is open is an operand of a task to come. *)
Handed(task, T, opened, closed) ==
  \A p \in opened \cup (Operands(task) \ closed) : \E i \in 1..Len(T) : p \in Operands(T[i])

LEMMA StaysAwaited ==
  ASSUME NEW f \in Emittable, NEW g \in Emittable, NEW opened, NEW closed,
         Continues(f, g, opened, closed), Cuts(f), NEW task, Awaits(task, f)
  PROVE  Awaits(task, g)
<1>1. \A p \in Operands(task) : IsOpen(g, p)
  BY StaysOpen DEF Awaits
<1>2. Bounds(f) \subseteq Bounds(g)
  BY StartsKept
<1> QED  BY <1>1, <1>2 DEF Awaits

Transforms(plan, tasks, cs, fs, T, q, cs2, fs2, opened, closed) ==
  /\ Worked(fs, fs2, FunctionOf(plan[1], cs), opened, closed)
  /\ \A k \in (Len(fs) + 1)..Len(fs2) : Begun(fs2[k])
  /\ EndsKept(fs, fs2, cs, cs2)
  /\ AllAwaited(T, fs2[FunctionOf(q, cs2)])
  /\ Handed(tasks[1], T, opened, closed)
  /\ \/ opened \cup (Operands(tasks[1]) \ closed) = {}
     \/ FunctionOf(q, cs2) = FunctionOf(plan[1], cs)

LEMMA SoundNext ==
  ASSUME NEW plan, NEW tasks, NEW cs, NEW fs, NEW cs2, NEW fs2, NEW T, NEW q,
         NEW opened, NEW closed,
         Leads(plan, tasks, cs, fs, T, q, cs2, fs2),
         Sound(plan, tasks, cs, fs),
         Transforms(plan, tasks, cs, fs, T, q, cs2, fs2, opened, closed)
  PROVE  Sound(NewPlan(plan, T, q), T \o Tail(tasks), cs2, fs2)
<1> DEFINE new == NewPlan(plan, T, q)
           after == T \o Tail(tasks)
           n == Len(T)
           m == Len(tasks)
           k0 == FunctionOf(plan[1], cs)
<1>1. /\ m \in Nat \ {0} /\ n \in Nat /\ Len(after) = n + m - 1
      /\ \A i \in 1..n : new[i] = q /\ after[i] = T[i]
      /\ \A i \in 2..m : /\ new[n + i - 1] = plan[i]
                         /\ after[n + i - 1] = tasks[i]
                         /\ FunctionOf(plan[i], cs2) = FunctionOf(plan[i], cs)
                         /\ FunctionOf(plan[i], cs) \in 1..Len(fs)
  <2>1. Shifted(plan, tasks, T, q, cs, fs, cs2)
    BY PlannedNext
  <2> QED  BY ONLY <2>1 DEF Shifted
<1> HIDE DEF new, after
<1>0. /\ Worked(fs, fs2, k0, opened, closed)
      /\ \A k \in (Len(fs) + 1)..Len(fs2) : Begun(fs2[k])
      /\ EndsKept(fs, fs2, cs, cs2)
      /\ AllAwaited(T, fs2[FunctionOf(q, cs2)])
      /\ Handed(tasks[1], T, opened, closed)
      /\ opened \cup (Operands(tasks[1]) \ closed) = {} \/ FunctionOf(q, cs2) = k0
      /\ Generated(fs) /\ Generated(fs2) /\ Grown(fs, fs2)
  BY DEF Transforms, Leads
<1> USE <1>0
<1> HIDE DEF k0
<1>2. /\ Len(fs) \in Nat /\ Len(fs2) \in Nat /\ Len(fs) <= Len(fs2)
      /\ \A k \in 1..Len(fs) : fs[k] \in Emittable
      /\ \A k \in 1..Len(fs2) : fs2[k] \in Emittable
  BY DEF Generated, Grown
<1>3. \A k \in 1..Len(fs) : k \in 1..Len(fs2)
  BY <1>2
<1>4. ASSUME NEW k \in 1..Len(fs), NEW p, IsPending(p, k, plan, tasks, cs),
             k = k0 => p \notin closed
      PROVE  IsPending(p, k, new, after, cs2)
  <2>1. PICK i \in 1..m : FunctionOf(plan[i], cs) = k /\ p \in Operands(tasks[i])
    BY <1>4 DEF IsPending
  <2>2. CASE i = 1
    <3>1. k = k0 /\ p \in Operands(tasks[1]) \ closed
      BY <1>4, <2>1, <2>2 DEF k0
    <3>2. PICK j \in 1..n : p \in Operands(T[j])
      BY <3>1 DEF Handed
    <3>4. FunctionOf(q, cs2) = k
      BY <3>1
    <3>5. j \in 1..Len(after) /\ new[j] = q /\ after[j] = T[j]
      BY <1>1
    <3> QED  BY <3>2, <3>4, <3>5 DEF IsPending
  <2>3. CASE i # 1
    <3>1. i \in 2..m /\ n + i - 1 \in 1..Len(after)
      <4>1. i \in Nat /\ i <= m /\ 1 < i /\ n \in Nat /\ m \in Nat /\ Len(after) = n + m - 1
        BY <1>1, <2>3
      <4> QED  BY <4>1
    <3>2. /\ new[n + i - 1] = plan[i] /\ after[n + i - 1] = tasks[i]
          /\ FunctionOf(plan[i], cs2) = k
      BY <1>1, <2>1, <3>1
    <3> QED  BY <2>1, <3>1, <3>2 DEF IsPending
  <2> QED  BY <2>2, <2>3
<1>5. ASSUME NEW p \in opened PROVE IsPending(p, k0, new, after, cs2)
  <2>1. PICK j \in 1..n : p \in Operands(T[j])
    BY DEF Handed
  <2>3. FunctionOf(q, cs2) = k0
    OBVIOUS
  <2>4. j \in 1..Len(after) /\ new[j] = q /\ after[j] = T[j]
    BY <1>1
  <2> QED  BY <2>1, <2>3, <2>4 DEF IsPending
<1>6. ASSUME NEW k \in 1..Len(fs) PROVE Linked(k, new, after, cs2, fs2)
  <2> DEFINE f == fs[k]
             g == fs2[k]
             o == IF k = k0 THEN opened ELSE {}
             c == IF k = k0 THEN closed ELSE {}
  <2>1. Continues(f, g, o, c)
    BY DEF Worked
  <2>2. /\ Cuts(f)
        /\ \A b \in Starts(f) :
             IsJump(ByteAt(f.code, b)) =>
               JumpTarget(f.code, b) \in Bounds(f) \/ IsPending(b + 1, k, plan, tasks, cs)
    BY DEF Sound, Linked
  <2>3. f \in Emittable /\ g \in Emittable
    BY <1>2, <1>3
  <2> HIDE DEF f, g, k0
  <2>4. Cuts(g) /\ Bounds(f) \subseteq Bounds(g)
        /\ \A b \in Starts(f) : ByteAt(g.code, b) = ByteAt(f.code, b)
    BY <2>1, <2>2, <2>3, StartsKept
  <2>5. ASSUME NEW b \in Starts(g), IsJump(ByteAt(g.code, b))
        PROVE  JumpTarget(g.code, b) \in Bounds(g) \/ IsPending(b + 1, k, new, after, cs2)
    <3>1. \/ JumpTarget(g.code, b) \in Bounds(g)
          \/ b + 1 \in o
          \/ b \in Starts(f) /\ b + 1 \notin c /\ JumpTarget(g.code, b) = JumpTarget(f.code, b)
      BY <2>1, <2>2, <2>5 DEF Continues
    <3>2. CASE b + 1 \in o
      BY <1>5, <3>2
    <3>3. CASE b \in Starts(f) /\ b + 1 \notin c /\ JumpTarget(g.code, b) = JumpTarget(f.code, b)
      <4>1. JumpTarget(f.code, b) \in Bounds(f) \/ IsPending(b + 1, k, plan, tasks, cs)
        BY <2>2, <2>4, <2>5, <3>3
      <4>2. k = k0 => b + 1 \notin closed
        BY <3>3
      <4>3. IsPending(b + 1, k, plan, tasks, cs) => IsPending(b + 1, k, new, after, cs2)
        BY <1>4, <4>2 DEF k0
      <4> QED  BY <2>4, <3>3, <4>1, <4>3
    <3> QED  BY <3>1, <3>2, <3>3
  <2> QED  BY <2>4, <2>5 DEF Linked, g
<1>7. ASSUME NEW k \in 1..Len(fs2)
      PROVE  /\ Linked(k, new, after, cs2, fs2)
             /\ fs2[k].arity <= 255
             /\ Ended(k, cs2) => EndsWithReturn(fs2[k].code)
  <2>1. k \in 1..Len(fs) \/ k \in (Len(fs) + 1)..Len(fs2)
    BY <1>2
  <2>2. CASE k \in 1..Len(fs)
    <3>1. fs[k].arity <= 255 /\ (Ended(k, cs) => EndsWithReturn(fs[k].code))
      BY <2>2 DEF Sound
    <3>2. fs2[k].arity <= 255
      BY <2>2, <3>1 DEF Worked
    <3>3. Ended(k, cs2) => EndsWithReturn(fs2[k].code)
      BY <3>1 DEF EndsKept
    <3> QED  BY <1>6, <2>2, <3>2, <3>3
  <2>3. CASE k \in (Len(fs) + 1)..Len(fs2)
    <3>1. Begun(fs2[k]) /\ k \notin 1..Len(fs)
      BY <1>2, <2>3
    <3>2. Linked(k, new, after, cs2, fs2) /\ fs2[k].arity <= 255
      BY <3>1 DEF Begun, Linked
    <3>3. Ended(k, cs2) => EndsWithReturn(fs2[k].code)
      BY <3>1 DEF EndsKept
    <3> QED  BY <3>2, <3>3
  <2> QED  BY <2>1, <2>2, <2>3
<1>8. ASSUME NEW i \in 1..Len(after) PROVE Awaits(after[i], fs2[FunctionOf(new[i], cs2)])
  <2>1. CASE i \in 1..n
    BY <1>1, <2>1 DEF AllAwaited
  <2>2. CASE i \notin 1..n
    <3>1. PICK j \in 2..m : i = n + j - 1
      <4>1. i - n + 1 \in 2..m /\ i = n + (i - n + 1) - 1
        <5>1. /\ i \in Nat /\ n < i /\ i <= n + m - 1 /\ n \in Nat /\ m \in Nat
          BY <1>1, <2>2
        <5> QED  BY <5>1
      <4> QED  BY <4>1
    <3>2. /\ new[i] = plan[j] /\ after[i] = tasks[j]
          /\ FunctionOf(plan[j], cs2) = FunctionOf(plan[j], cs)
      BY <1>1, <3>1
    <3> DEFINE k == FunctionOf(plan[j], cs)
    <3>3. j \in 1..m /\ Awaits(tasks[j], fs[k])
      <4>1. j \in 1..m
        BY <1>1
      <4> QED  BY <4>1 DEF Sound
    <3>4. k \in 1..Len(fs)
      BY <1>1
    <3> HIDE DEF k
    <3>5. fs[k] \in Emittable /\ fs2[k] \in Emittable /\ Cuts(fs[k])
      BY <1>2, <1>3, <3>4 DEF Sound, Linked
    <3>6. \E o, c : Continues(fs[k], fs2[k], o, c)
      BY SMTT(30), <3>4 DEF Worked
    <3>7. Awaits(tasks[j], fs2[k])
      BY <3>3, <3>5, <3>6, StaysAwaited
    <3> QED  BY <3>2, <3>7 DEF k
  <2> QED  BY <2>1, <2>2
<1> QED  BY <1>7, <1>8 DEF Sound, new, after

-----------------------------------------------------------------------------
(* What an action finds: the task it does, the function it works on. *)

LEMMA AtHand ==
  ASSUME NEW plan, Inv(plan), agenda # <<>>
  PROVE  /\ plan[1] \in Entry /\ plan[2] \in Entry
         /\ Len(plan[2].scopes) <= Len(plan[1].scopes)
         /\ Follows(agenda[1], plan[1], plan[2])
         /\ Wanted(agenda[1], Target, Scope.scopeDepth)
         /\ agenda[1][1] = "Script" <=> Len(agenda) = 1
         /\ FunctionOf(plan[1], compilers) = Scope.function
         /\ ScopeOf(plan[1]) = Scope.scopeDepth
         /\ plan[1].ready \in BOOLEAN /\ plan[1].ready => Settled(Scope)
         /\ Depth \in Nat \ {0} /\ Scope \in FunctionCompiler /\ WellScoped(Scope)
         /\ Len(plan[1].scopes) = Depth
         /\ Scope.function \in 1..Len(functions)
         /\ Target \in Emittable /\ Pools(Target)
         /\ diagnostics = <<>> =>
              /\ Sound(plan, agenda, compilers, functions)
              /\ Cuts(Target) /\ Awaits(agenda[1], Target)
<1>1. /\ Planned(plan, agenda, compilers, functions)
      /\ Scoped(compilers, Len(functions)) /\ Generated(functions)
      /\ diagnostics = <<>> => Sound(plan, agenda, compilers, functions)
  BY DEF Inv
<1>2. Len(agenda) \in Nat \ {0}
  <2>1. PICK S : agenda \in Seq(S)
    BY <1>1 DEF Planned, IsSequence
  <2> QED  BY <2>1
<1>3. /\ 1 \in 1..Len(agenda) /\ 1 \in 1..Len(plan) /\ 2 \in 1..Len(plan)
      /\ plan \in Seq(Entry)
  BY <1>1, <1>2 DEF Planned
<1>4. plan[1] \in Entry /\ plan[2] \in Entry
  BY <1>3
<1>5. /\ Len(plan[2].scopes) <= Len(plan[1].scopes)
      /\ Follows(agenda[1], plan[1], plan[1 + 1])
      /\ Wanted(agenda[1], functions[FunctionOf(plan[1], compilers)], ScopeOf(plan[1]))
      /\ agenda[1][1] = "Script" <=> 1 = Len(agenda)
      /\ Matches(plan[1], compilers)
  <2>1. \A i, j \in 1..Len(plan) : i < j => Len(plan[j].scopes) <= Len(plan[i].scopes)
    BY <1>1 DEF Planned
  <2>2. Len(plan[2].scopes) <= Len(plan[1].scopes)
    BY <1>3, <2>1
  <2>3. /\ Follows(agenda[1], plan[1], plan[1 + 1])
        /\ Wanted(agenda[1], functions[FunctionOf(plan[1], compilers)], ScopeOf(plan[1]))
        /\ agenda[1][1] = "Script" <=> 1 = Len(agenda)
        /\ Matches(plan[1], compilers)
    BY <1>1, <1>3 DEF Planned
  <2> QED  BY <2>2, <2>3
<1>6. Depth \in Nat \ {0} /\ Depth \in 1..Len(compilers)
  <2>1. Len(compilers) \in Nat /\ Len(compilers) > 0
    BY <1>1 DEF Scoped
  <2> QED  BY <2>1 DEF Depth
<1>7. /\ Scope \in FunctionCompiler /\ WellScoped(Scope) /\ Scope.function \in 1..Len(functions)
  BY <1>1, <1>6 DEF Scoped, Scope, WellScoped
<1>8. /\ FunctionOf(plan[1], compilers) = Scope.function
      /\ ScopeOf(plan[1]) = Scope.scopeDepth
      /\ plan[1].ready => Settled(Scope)
      /\ Len(plan[1].scopes) = Depth
  BY <1>5, <1>6 DEF Matches, FunctionOf, ScopeOf, Scope, Depth
<1>9. Target \in Emittable /\ Pools(Target)
  BY <1>1, <1>7 DEF Generated, Target
<1>10. ASSUME diagnostics = <<>>
       PROVE  /\ Sound(plan, agenda, compilers, functions)
              /\ Cuts(Target) /\ Awaits(agenda[1], Target)
  BY <1>1, <1>3, <1>7, <1>8, <1>10 DEF Sound, Linked, Target
<1>11. plan[1].ready \in BOOLEAN
  BY <1>4 DEF Entry
<1>12. Follows(agenda[1], plan[1], plan[2])
  <2>1. 1 + 1 = 2
    OBVIOUS
  <2> QED  BY <1>5, <2>1
<1>13. Wanted(agenda[1], Target, Scope.scopeDepth)
  BY <1>5, <1>8 DEF Target
<1> QED  BY <1>4, <1>5, <1>6, <1>7, <1>8, <1>9, <1>10, <1>11, <1>12, <1>13

LEMMA MinOfTwo ==
  ASSUME NEW a \in Int, NEW b \in Int
  PROVE  Min({a, b}) = IF a <= b THEN a ELSE b
<1> DEFINE m == IF a <= b THEN a ELSE b
<1>1. m \in {a, b} /\ \A y \in {a, b} : m <= y
  OBVIOUS
<1>2. \A x \in {a, b} : (\A y \in {a, b} : x <= y) => x = m
  OBVIOUS
<1> QED  BY <1>1, <1>2 DEF Min

(* The parser's own variables. *)
LEMMA Advanced ==
  ASSUME Parsed, NEW n \in Nat, Advance(n), source' = source
  PROVE  source' \in Seq(Token) /\ current' \in 0..(Len(source') + 1)
<1>1. source \in Seq(Token) /\ current \in 0..(Len(source) + 1) /\ Len(source) \in Nat
  BY DEF Parsed
<1>2. current + n \in Int /\ Len(source) + 1 \in Int
  BY <1>1
<1>3. current' = IF current + n <= Len(source) + 1 THEN current + n ELSE Len(source) + 1
  BY <1>2, MinOfTwo DEF Advance
<1>4. current' \in 0..(Len(source) + 1)
  BY <1>1, <1>3
<1> QED  BY <1>1, <1>4

LEMMA Reported ==
  ASSUME Parsed, NEW errors, Report(errors)
  PROVE  /\ panicMode' \in BOOLEAN /\ IsSequence(diagnostics')
         /\ panicMode' => diagnostics' # <<>>
         /\ diagnostics' = <<>> => diagnostics = <<>> /\ errors = <<>>
<1>1. PICK S : diagnostics \in Seq(S)
  BY DEF Parsed, IsSequence
<1>2. /\ panicMode \in BOOLEAN /\ panicMode => diagnostics # <<>>
      /\ panicMode' = (panicMode \/ errors # <<>>)
      /\ diagnostics' = IF panicMode \/ errors = <<>> THEN diagnostics
                        ELSE Append(diagnostics, errors[1])
  BY DEF Parsed, Report
<1>3. CASE panicMode \/ errors = <<>>
  BY <1>1, <1>2, <1>3 DEF IsSequence
<1>4. CASE ~(panicMode \/ errors = <<>>)
  <2>1. diagnostics \in Seq(S \cup {errors[1]})
    <3>1. S \subseteq S \cup {errors[1]}
      OBVIOUS
    <3> QED  BY <1>1, <3>1, SeqMonotonic
  <2>2. /\ Append(diagnostics, errors[1]) \in Seq(S \cup {errors[1]})
        /\ Append(diagnostics, errors[1]) # <<>>
    <3> DEFINE longer == Append(diagnostics, errors[1])
    <3>1. longer \in Seq(S \cup {errors[1]}) /\ Len(longer) = Len(diagnostics) + 1
      BY <2>1
    <3>2. Len(diagnostics) \in Nat
      BY <2>1
    <3> HIDE DEF longer
    <3>3. Len(longer) # 0
      BY <3>1, <3>2
    <3> QED  BY <3>1, <3>3 DEF longer
  <2> QED  BY <1>2, <1>4, <2>2 DEF IsSequence
<1> QED  BY <1>3, <1>4

LEMMA ParsedNext ==
  ASSUME Parsed, NEW n \in Nat, Advance(n), source' = source, NEW errors, Report(errors)
  PROVE  Parsed' /\ (diagnostics' = <<>> => diagnostics = <<>> /\ errors = <<>>)
BY Advanced, Reported DEF Parsed

LEMMA QuietReports ==
  ASSUME Parsed, Quiet
  PROVE  Report(<<>>)
<1>1. panicMode \in BOOLEAN /\ panicMode' = panicMode /\ diagnostics' = diagnostics
  BY DEF Parsed, Quiet
<1> QED  BY <1>1 DEF Report
-----------------------------------------------------------------------------
(* A step of the compiler preserves the invariant. *)

LEMMA Stepping ==
  ASSUME NEW plan, Inv(plan), NEW T, NEW q, NEW opened, NEW closed,
         agenda' = T \o Tail(agenda), Parsed',
         Leads(plan, agenda, compilers, functions, T, q, compilers', functions'),
         diagnostics' = <<>> =>
           /\ diagnostics = <<>>
           /\ Transforms(plan, agenda, compilers, functions, T, q, compilers', functions',
                         opened, closed)
  PROVE  \E p : Inv(p)'
<1> DEFINE new == NewPlan(plan, T, q)
<1>1. Planned(new, T \o Tail(agenda), compilers', functions')
  BY PlannedNext
<1>2. ASSUME diagnostics' = <<>>
      PROVE  Sound(new, T \o Tail(agenda), compilers', functions')
  <2>1. Sound(plan, agenda, compilers, functions)
    BY <1>2 DEF Inv
  <2> QED  BY <1>2, <2>1, SoundNext
<1>3. Scoped(compilers', Len(functions')) /\ Generated(functions')
  BY DEF Leads
<1> HIDE DEF new
<1>4. /\ Parsed' /\ Scoped(compilers', Len(functions')) /\ Generated(functions')
      /\ Planned(new, agenda', compilers', functions')
      /\ diagnostics' = <<>> => Sound(new, agenda', compilers', functions')
  BY <1>1, <1>2, <1>3
<1> QED  BY <1>4 DEF Inv

GrownTo(f, g) == g \in Emittable /\ Pools(g) /\ Len(f.constants) <= Len(g.constants)

(* One function is changed. *)
Updated(fs, k0, g) == [fs EXCEPT ![k0] = g]

LEMMA OneFunction ==
  ASSUME NEW fs, Generated(fs), NEW k0 \in 1..Len(fs), NEW g, GrownTo(fs[k0], g)
  PROVE  LET fs2 == Updated(fs, k0, g)
         IN /\ Generated(fs2) /\ Grown(fs, fs2) /\ Len(fs2) = Len(fs) /\ fs2[k0] = g
            /\ \A k \in 1..Len(fs) : k # k0 => fs2[k] = fs[k]
<1> DEFINE fs2 == [fs EXCEPT ![k0] = g]
<1>1. fs \in Seq(Emittable) /\ Len(fs) \in Nat /\ \A k \in 1..Len(fs) : Pools(fs[k])
  BY DEF Generated
<1>2. g \in Emittable /\ Pools(g) /\ Len(fs[k0].constants) <= Len(g.constants)
  BY DEF GrownTo
<1>3. fs2 \in Seq(Emittable) /\ Len(fs2) = Len(fs)
  BY <1>1, <1>2, Replaced
<1>4. fs2[k0] = g /\ \A k \in 1..Len(fs) : k # k0 => fs2[k] = fs[k]
  BY <1>1
<1>5. \A k \in 1..Len(fs2) : Pools(fs2[k])
  BY <1>1, <1>2, <1>3, <1>4
<1>6. \A k \in 1..Len(fs) : Len(fs[k].constants) <= Len(fs2[k].constants)
  <2>1. \A k \in 1..Len(fs) : Len(fs[k].constants) \in Nat
    BY <1>1, EmittableFacts
  <2>2. \A k \in 1..Len(fs) : Len(fs[k].constants) <= Len(fs[k].constants)
    BY <2>1
  <2> QED  BY <1>2, <1>4, <2>2
<1>7. Len(fs) <= Len(fs2)
  BY <1>1, <1>3
<1>8. fs2 = Updated(fs, k0, g)
  BY DEF Updated
<1> HIDE DEF fs2
<1> QED  BY <1>3, <1>4, <1>5, <1>6, <1>7, <1>8 DEF Generated, Grown

(* The innermost scope is changed, but not its function. *)
LEMMA OneScope ==
  ASSUME NEW cs, NEW n, Scoped(cs, n), NEW scope, WellScoped(scope),
         scope.function = cs[Len(cs)].function
  PROVE  LET cs2 == Updated(cs, Len(cs), scope)
         IN /\ Scoped(cs2, n) /\ Len(cs2) = Len(cs) /\ cs2[Len(cs)] = scope
            /\ \A l \in 1..(Len(cs) - 1) : cs2[l] = cs[l]
            /\ \A l \in 1..Len(cs) : cs2[l].function = cs[l].function
<1> DEFINE cs2 == [cs EXCEPT ![Len(cs)] = scope]
<1>1. /\ cs \in Seq(FunctionCompiler) /\ Len(cs) \in Nat /\ Len(cs) > 0
      /\ \A l \in 1..Len(cs) : WellScoped(cs[l]) /\ cs[l].function \in 1..n
      /\ \A l, m \in 1..Len(cs) : l < m => cs[l].function < cs[m].function
      /\ \A l \in 1..(Len(cs) - 1) : Settled(cs[l])
      /\ scope \in FunctionCompiler
  BY DEF Scoped, WellScoped
<1>2. cs2 \in Seq(FunctionCompiler) /\ Len(cs2) = Len(cs)
  BY <1>1, Replaced
<1>3. cs2[Len(cs)] = scope /\ \A l \in 1..(Len(cs) - 1) : cs2[l] = cs[l]
  BY <1>1
<1>4. cs2 = Updated(cs, Len(cs), scope)
  BY DEF Updated
<1> HIDE DEF cs2
<1>5. \A l \in 1..Len(cs) : l = Len(cs) \/ l \in 1..(Len(cs) - 1)
  BY <1>1
<1>6. \A l \in 1..Len(cs) : WellScoped(cs2[l]) /\ cs2[l].function = cs[l].function
  BY <1>1, <1>3, <1>5
<1>7. \A l \in 1..(Len(cs) - 1) : Settled(cs2[l])
  BY <1>1, <1>3
<1> QED  BY <1>1, <1>2, <1>3, <1>4, <1>6, <1>7 DEF Scoped

(* A step that changes the innermost scope and the function at work. *)
LEMMA Rescoping ==
  ASSUME NEW plan, Inv(plan), agenda # <<>>,
         NEW T, NEW q \in Entry, NEW scope, NEW g, NEW opened, NEW closed,
         Generate(g), SetScope(scope), Then(T), Parsed', GrownTo(Target, g),
         WellScoped(scope), scope.function = Scope.function,
         q.scopes = Updated(plan[1].scopes, Depth, scope.scopeDepth),
         q.ready => Settled(scope),
         Fits(T, q, plan[2], agenda[1][1] = "Script"),
         AllWanted(T, g, scope.scopeDepth),
         diagnostics' = <<>> =>
           /\ diagnostics = <<>>
           /\ Continues(Target, g, opened, closed)
           /\ Target.arity <= 255 => g.arity <= 255
           /\ AllAwaited(T, g)
           /\ Handed(agenda[1], T, opened, closed)
  PROVE  \E p : Inv(p)'
<1> DEFINE k0 == Scope.function
           fs2 == Updated(functions, k0, g)
           cs2 == Updated(compilers, Depth, scope)
<1>2. functions' = fs2 /\ compilers' = cs2 /\ agenda' = T \o Tail(agenda)
  BY DEF Generate, SetScope, Then, Updated
<1>3. /\ Planned(plan, agenda, compilers, functions)
      /\ Scoped(compilers, Len(functions)) /\ Generated(functions)
  BY DEF Inv
<1>5. /\ plan[1] \in Entry /\ plan[2] \in Entry /\ Len(plan[2].scopes) <= Len(plan[1].scopes)
      /\ FunctionOf(plan[1], compilers) = k0
      /\ Len(plan[1].scopes) = Depth /\ Depth \in Nat \ {0}
      /\ k0 \in 1..Len(functions) /\ functions[k0] = Target
      /\ diagnostics = <<>> => Sound(plan, agenda, compilers, functions)
  <2>1. functions[k0] = Target
    BY DEF Target
  <2> QED  BY <2>1, AtHand
<1> HIDE DEF fs2
<1>6. /\ Generated(fs2) /\ Grown(functions, fs2) /\ Len(fs2) = Len(functions) /\ fs2[k0] = g
      /\ \A k \in 1..Len(functions) : k # k0 => fs2[k] = functions[k]
  <2>1. GrownTo(functions[k0], g) /\ k0 \in 1..Len(functions)
    BY <1>5
  <2> HIDE DEF k0
  <2> QED  BY <1>3, <2>1, OneFunction DEF fs2
<1>7. /\ Scoped(cs2, Len(functions)) /\ Len(cs2) = Depth /\ cs2[Depth] = scope
      /\ \A l \in 1..(Depth - 1) : cs2[l] = compilers[l]
      /\ \A l \in 1..Depth : cs2[l].function = compilers[l].function
  BY <1>3, OneScope DEF Depth, Scope
<1> HIDE DEF cs2
<1>8. plan[1].scopes \in Seq(Nat) /\ scope.scopeDepth \in Nat
  BY <1>5 DEF Entry, WellScoped, FunctionCompiler
<1>9. /\ Len(q.scopes) = Depth /\ q.scopes[Depth] = scope.scopeDepth
      /\ \A l \in 1..(Depth - 1) : q.scopes[l] = plan[1].scopes[l]
  BY SMTT(30), <1>5, <1>8 DEF Updated
<1>10. Matches(q, cs2)
  <2>1. \A l \in 1..Depth : plan[1].scopes[l] = compilers[l].scopeDepth
    BY <1>3, <1>5 DEF Planned, Matches
  <2>2. \A l \in 1..Depth : l = Depth \/ l \in 1..(Depth - 1)
    BY <1>5
  <2>3. \A l \in 1..Depth : q.scopes[l] = cs2[l].scopeDepth
    BY <1>7, <1>9, <2>1, <2>2
  <2> QED  BY <1>7, <1>9, <2>3 DEF Matches
<1>11. FunctionOf(q, cs2) = k0 /\ ScopeOf(q) = scope.scopeDepth
  BY <1>7, <1>9 DEF FunctionOf, ScopeOf
<1>12. SameLevels(plan[2], compilers, cs2)
  <2>1. \A l \in 1..Len(plan[2].scopes) : l \in 1..Depth
    <3>1. plan[2].scopes \in Seq(Nat)
      BY <1>5 DEF Entry
    <3> QED  BY <1>5, <3>1
  <2> QED  BY <1>7, <2>1 DEF SameLevels
<1> HIDE DEF k0
<1>13. Leads(plan, agenda, compilers, functions, T, q, cs2, fs2)
  BY <1>3, <1>5, <1>6, <1>7, <1>9, <1>10, <1>11, <1>12 DEF Leads
<1>14. ASSUME diagnostics' = <<>>
       PROVE  Transforms(plan, agenda, compilers, functions, T, q, cs2, fs2, opened, closed)
  <2>1. /\ Continues(Target, g, opened, closed)
        /\ Target.arity <= 255 => g.arity <= 255
        /\ AllAwaited(T, g)
        /\ Handed(agenda[1], T, opened, closed)
        /\ diagnostics = <<>> /\ Sound(plan, agenda, compilers, functions)
    BY <1>5, <1>14
  <2>2. ASSUME NEW k \in 1..Len(functions)
        PROVE  /\ Continues(functions[k], fs2[k], IF k = k0 THEN opened ELSE {},
                            IF k = k0 THEN closed ELSE {})
               /\ functions[k].arity <= 255 => fs2[k].arity <= 255
    <3>1. CASE k = k0
      BY <1>5, <1>6, <2>1, <3>1
    <3>2. CASE k # k0
      <4>1. fs2[k] = functions[k] /\ functions[k] \in Emittable
        BY <1>3, <1>6, <3>2 DEF Generated
      <4> QED  BY <3>2, <4>1, SameCode
    <3> QED  BY <3>1, <3>2
  <2>3. Worked(functions, fs2, FunctionOf(plan[1], compilers), opened, closed)
    BY <1>5, <2>2 DEF Worked
  <2>4. \A k \in (Len(functions) + 1)..Len(fs2) : Begun(fs2[k])
    <3>1. Len(functions) \in Nat
      BY <1>3 DEF Generated
    <3> QED  BY <1>6, <3>1
  <2>5. EndsKept(functions, fs2, compilers, cs2)
    <3> SUFFICES ASSUME NEW k \in 1..Len(fs2), Ended(k, cs2)
                 PROVE  /\ k \in 1..Len(functions) /\ Ended(k, compilers)
                        /\ fs2[k].code = functions[k].code
      BY DEF EndsKept
    <3>1. Depth \in 1..Depth /\ Depth = Len(compilers)
      BY <1>5 DEF Depth
    <3>2. Ended(k, compilers)
      BY <1>7, <3>1 DEF Ended
    <3>3. k # k0
      BY <3>1, <3>2 DEF Ended, k0, Scope
    <3> QED  BY <1>6, <3>2, <3>3
  <2>6. AllAwaited(T, fs2[FunctionOf(q, cs2)])
    BY <1>6, <1>11, <2>1
  <2> QED  BY <1>5, <1>11, <2>1, <2>3, <2>4, <2>5, <2>6 DEF Transforms
<1>15. diagnostics' = <<>> => diagnostics = <<>>
  OBVIOUS
<1> QED  BY <1>2, <1>13, <1>14, <1>15, Stepping

(* A step that leaves the scopes alone, and changes the function at work. *)
LEMMA Working ==
  ASSUME NEW plan, Inv(plan), agenda # <<>>,
         NEW T, NEW g, NEW opened, NEW closed,
         Generate(g), Then(T), compilers' = compilers, Parsed', GrownTo(Target, g),
         Fits(T, plan[1], plan[2], agenda[1][1] = "Script"),
         AllWanted(T, g, Scope.scopeDepth),
         diagnostics' = <<>> =>
           /\ diagnostics = <<>>
           /\ Continues(Target, g, opened, closed)
           /\ Target.arity <= 255 => g.arity <= 255
           /\ AllAwaited(T, g)
           /\ Handed(agenda[1], T, opened, closed)
  PROVE  \E p : Inv(p)'
<1>1. /\ plan[1] \in Entry /\ ScopeOf(plan[1]) = Scope.scopeDepth
      /\ Len(plan[1].scopes) = Depth /\ Depth \in Nat \ {0}
      /\ plan[1].ready => Settled(Scope)
      /\ WellScoped(Scope)
  BY AtHand
<1>2. SetScope(Scope)
  <2>1. compilers \in Seq(FunctionCompiler)
    BY DEF Inv, Scoped
  <2>2. compilers = [compilers EXCEPT ![Depth] = Scope]
    BY <1>1, <2>1 DEF Depth, Scope
  <2> QED  BY <2>2 DEF SetScope
<1>3. plan[1].scopes = Updated(plan[1].scopes, Depth, Scope.scopeDepth)
  <2>1. plan[1].scopes \in Seq(Nat) /\ plan[1].scopes[Depth] = Scope.scopeDepth
    BY <1>1 DEF Entry, ScopeOf
  <2> QED  BY SMTT(30), <1>1, <2>1 DEF Updated
<1> QED  BY <1>1, <1>2, <1>3, Rescoping

LEMMA Writing ==
  ASSUME NEW plan, Inv(plan), agenda # <<>>,
         NEW n \in Nat, NEW T, NEW g, NEW errors, NEW opened, NEW closed,
         Write(n, g, errors, T), GrownTo(Target, g),
         Fits(T, plan[1], plan[2], agenda[1][1] = "Script"),
         AllWanted(T, g, Scope.scopeDepth),
         errors = <<>> /\ diagnostics = <<>> =>
           /\ Continues(Target, g, opened, closed)
           /\ Target.arity <= 255 => g.arity <= 255
           /\ AllAwaited(T, g)
           /\ Handed(agenda[1], T, opened, closed)
  PROVE  \E p : Inv(p)'
<1>1. /\ Advance(n) /\ Generate(g) /\ Report(errors) /\ Then(T) /\ compilers' = compilers
      /\ source' = source
  BY DEF Write, Then
<1>2. Parsed
  BY DEF Inv
<1>3. Parsed' /\ (diagnostics' = <<>> => diagnostics = <<>> /\ errors = <<>>)
  BY <1>1, <1>2, ParsedNext
<1> QED  BY <1>1, <1>3, Working

-----------------------------------------------------------------------------
(* Tasks that can be done in turn: they leave the scopes as they are, find *)
(* what they want, and wait for nothing in the code.                       *)

Free(task) == Operands(task) = {} /\ task[1] \notin {"WhileBody", "EndWhile"}

Suits(task, e, f, scope) ==
  task[1] # "Script" /\ Follows(task, e, e) /\ Wanted(task, f, scope)

AllSuit(T, e, f, scope) ==
  IsSequence(T) /\ \A i \in 1..Len(T) : Suits(T[i], e, f, scope)
AllFree(T) == \A i \in 1..Len(T) : Free(T[i])

LEMMA FreeAwaits ==
  ASSUME NEW task, Free(task), NEW f
  PROVE  Awaits(task, f)
BY DEF Free, Awaits

LEMMA Sequences ==
  /\ IsSequence(<<>>) /\ Len(<<>>) = 0
  /\ \A a : IsSequence(<<a>>) /\ Len(<<a>>) = 1 /\ <<a>>[1] = a
  /\ \A a, b : /\ IsSequence(<<a, b>>) /\ Len(<<a, b>>) = 2
               /\ <<a, b>>[1] = a /\ <<a, b>>[2] = b
  /\ \A a, b, c : /\ IsSequence(<<a, b, c>>) /\ Len(<<a, b, c>>) = 3
                  /\ <<a, b, c>>[1] = a /\ <<a, b, c>>[2] = b /\ <<a, b, c>>[3] = c
  /\ \A a, b, c, d : /\ IsSequence(<<a, b, c, d>>) /\ Len(<<a, b, c, d>>) = 4
                     /\ <<a, b, c, d>>[1] = a /\ <<a, b, c, d>>[2] = b
                     /\ <<a, b, c, d>>[3] = c /\ <<a, b, c, d>>[4] = d
<1>1. IsSequence(<<>>)
  <2>1. <<>> \in Seq({})
    OBVIOUS
  <2> QED  BY <2>1 DEF IsSequence
<1>2. ASSUME NEW a PROVE IsSequence(<<a>>)
  <2>1. <<a>> \in Seq({a})
    OBVIOUS
  <2> QED  BY <2>1 DEF IsSequence
<1>3. ASSUME NEW a, NEW b PROVE IsSequence(<<a, b>>)
  <2> DEFINE S == {a, b}
  <2>0. a \in S /\ b \in S
    OBVIOUS
  <2> HIDE DEF S
  <2>1. <<a, b>> \in Seq(S)
    BY <2>0
  <2> QED  BY <2>1 DEF IsSequence
<1>4. ASSUME NEW a, NEW b, NEW c PROVE IsSequence(<<a, b, c>>)
  <2> DEFINE S == {a, b, c}
  <2>0. a \in S /\ b \in S /\ c \in S
    OBVIOUS
  <2> HIDE DEF S
  <2>1. <<a, b, c>> \in Seq(S)
    BY <2>0
  <2> QED  BY <2>1 DEF IsSequence
<1>5. ASSUME NEW a, NEW b, NEW c, NEW d PROVE IsSequence(<<a, b, c, d>>)
  <2> DEFINE S == {a, b, c, d}
  <2>0. a \in S /\ b \in S /\ c \in S /\ d \in S
    OBVIOUS
  <2> HIDE DEF S
  <2>1. <<a, b, c, d>> \in Seq(S)
    BY <2>0
  <2> QED  BY <2>1 DEF IsSequence
<1> QED  BY <1>1, <1>2, <1>3, <1>4, <1>5

(* The tasks of a list satisfy what each of them satisfies. *)
OneOf(T, a, b, c, d) ==
  IsSequence(T) /\ \A i \in 1..Len(T) : T[i] = a \/ T[i] = b \/ T[i] = c \/ T[i] = d

LEMMA Listed ==
  /\ \A a : OneOf(<<>>, a, a, a, a)
  /\ \A a : OneOf(<<a>>, a, a, a, a)
  /\ \A a, b : OneOf(<<a, b>>, a, b, b, b)
  /\ \A a, b, c : OneOf(<<a, b, c>>, a, b, c, c)
  /\ \A a, b, c, d : OneOf(<<a, b, c, d>>, a, b, c, d)
<1>1. ASSUME NEW a PROVE OneOf(<<>>, a, a, a, a) /\ OneOf(<<a>>, a, a, a, a)
  BY Sequences DEF OneOf
<1>2. ASSUME NEW a, NEW b PROVE OneOf(<<a, b>>, a, b, b, b)
  <2>1. \A i \in 1..2 : <<a, b>>[i] = a \/ <<a, b>>[i] = b
    OBVIOUS
  <2> QED  BY <2>1, Sequences DEF OneOf
<1>3. ASSUME NEW a, NEW b, NEW c PROVE OneOf(<<a, b, c>>, a, b, c, c)
  <2>1. \A i \in 1..3 : <<a, b, c>>[i] = a \/ <<a, b, c>>[i] = b \/ <<a, b, c>>[i] = c
    OBVIOUS
  <2> QED  BY <2>1, Sequences DEF OneOf
<1>4. ASSUME NEW a, NEW b, NEW c, NEW d PROVE OneOf(<<a, b, c, d>>, a, b, c, d)
  <2>1. \A i \in 1..4 : \/ <<a, b, c, d>>[i] = a \/ <<a, b, c, d>>[i] = b
                        \/ <<a, b, c, d>>[i] = c \/ <<a, b, c, d>>[i] = d
    OBVIOUS
  <2> QED  BY <2>1, Sequences DEF OneOf
<1> QED  BY <1>1, <1>2, <1>3, <1>4

LEMMA Joined ==
  ASSUME NEW U, NEW V, IsSequence(U), IsSequence(V)
  PROVE  /\ IsSequence(U \o V)
         /\ \A i \in 1..Len(U \o V) :
              \/ \E j \in 1..Len(U) : (U \o V)[i] = U[j]
              \/ \E j \in 1..Len(V) : (U \o V)[i] = V[j]
         /\ \A j \in 1..Len(V) : \E i \in 1..Len(U \o V) : (U \o V)[i] = V[j]
         /\ \A j \in 1..Len(U) : \E i \in 1..Len(U \o V) : (U \o V)[i] = U[j]
<1>1. PICK S1, S2 : U \in Seq(S1) /\ V \in Seq(S2)
  BY DEF IsSequence
<1> DEFINE S == S1 \cup S2
<1>2. U \in Seq(S) /\ V \in Seq(S)
  <2>1. S1 \subseteq S /\ S2 \subseteq S
    OBVIOUS
  <2> QED  BY <1>1, <2>1, SeqMonotonic
<1> HIDE DEF S
<1>3. /\ U \o V \in Seq(S) /\ Len(U \o V) = Len(U) + Len(V)
      /\ Len(U) \in Nat /\ Len(V) \in Nat
  BY <1>2
<1>4. ASSUME NEW i \in 1..Len(U \o V)
      PROVE  \/ \E j \in 1..Len(U) : (U \o V)[i] = U[j]
             \/ \E j \in 1..Len(V) : (U \o V)[i] = V[j]
  <2>1. CASE i \in 1..Len(U)
    <3>1. (U \o V)[i] = U[i]
      BY <1>2, <2>1
    <3> QED  BY <2>1, <3>1
  <2>2. CASE i \notin 1..Len(U)
    <3>1. i - Len(U) \in 1..Len(V) /\ i = Len(U) + (i - Len(U))
      BY <1>3, <2>2
    <3>2. (U \o V)[i] = V[i - Len(U)]
      BY <1>2, <1>3, <3>1
    <3> QED  BY <3>1, <3>2
  <2> QED  BY <2>1, <2>2
<1>5. ASSUME NEW j \in 1..Len(V) PROVE \E i \in 1..Len(U \o V) : (U \o V)[i] = V[j]
  <2>1. Len(U) + j \in 1..Len(U \o V)
    BY <1>3
  <2>2. (U \o V)[Len(U) + j] = V[j]
    BY <1>2, <1>3
  <2> QED  BY <2>1, <2>2
<1>6. ASSUME NEW j \in 1..Len(U) PROVE \E i \in 1..Len(U \o V) : (U \o V)[i] = U[j]
  <2>1. j \in 1..Len(U \o V)
    BY <1>3
  <2>2. (U \o V)[j] = U[j]
    BY <1>2, <1>3
  <2> QED  BY <2>1, <2>2
<1>7. IsSequence(U \o V)
  BY <1>3 DEF IsSequence
<1> QED  BY <1>4, <1>5, <1>6, <1>7

LEMMA JoinedSuit ==
  ASSUME NEW U, NEW V, NEW e, NEW f, NEW scope,
         AllSuit(U, e, f, scope), AllSuit(V, e, f, scope)
  PROVE  /\ AllSuit(U \o V, e, f, scope)
         /\ AllFree(U) /\ AllFree(V) => AllFree(U \o V)
BY Joined DEF AllSuit, AllFree

(* Tasks of each kind. *)
LEMMA SimpleSuit ==
  ASSUME NEW e, NEW f, NEW scope
  PROVE  /\ \A type : LET t == Expect(type) IN Suits(t, e, f, scope) /\ Free(t)
         /\ \A p : LET t == <<"Precedence", p>> IN Suits(t, e, f, scope) /\ Free(t)
         /\ \A p : LET t == <<"Infix", p>> IN Suits(t, e, f, scope) /\ Free(t)
         /\ \A n \in Nat : LET t == <<"Arguments", n>> IN Suits(t, e, f, scope) /\ Free(t)
         /\ LET t == <<"Initializer">> IN Suits(t, e, f, scope) /\ Free(t)
         /\ \A p : LET t == <<"Patch", p>> IN Suits(t, e, f, scope) /\ Operands(t) = {p}
         /\ \A bytes : WholeCode(bytes, Len(f.constants)) =>
                         LET t == Code(bytes) IN Suits(t, e, f, scope) /\ Free(t)
         /\ LET t == Expression IN Suits(t, e, f, scope) /\ Free(t)
         /\ \A p : LET t == <<"Patch", p>>
                   IN \A g : Awaits(t, g) <=> IsOpen(g, p)
BY DEF Suits, Free, Follows, SimpleTasks, Wanted, Operands, Awaits, Expect, Code, Expression

LEMMA WholeSuit ==
  ASSUME NEW e, NEW f, NEW scope, e.ready
  PROVE  /\ \A name \in {"Declaration", "Recover", "Statement", "Block", "Then", "Function"} :
              LET t == <<name>> IN Suits(t, e, f, scope) /\ Free(t)
         /\ \A role \in {"variable", "function"} :
              LET t == <<"ParseVariable", role>> IN Suits(t, e, f, scope) /\ Free(t)
         /\ \A p : LET t == <<"Else", p>>
                   IN /\ Suits(t, e, f, scope) /\ Operands(t) = {p}
                      /\ \A g : Awaits(t, g) <=> IsOpen(g, p)
         /\ \A s : LET t == <<"WhileBody", s>>
                   IN /\ Suits(t, e, f, scope) /\ Operands(t) = {}
                      /\ \A g : Awaits(t, g) <=> s \in Bounds(g)
         /\ \A s, p : LET t == <<"EndWhile", s, p>>
                      IN /\ Suits(t, e, f, scope) /\ Operands(t) = {p}
                         /\ \A g : Awaits(t, g) <=> IsOpen(g, p) /\ s \in Bounds(g)
<1>1. \A name \in {"Declaration", "Recover", "Statement", "Block", "Then", "Function"} :
        LET t == <<name>> IN Suits(t, e, f, scope) /\ Free(t)
  BY DEF Suits, Free, Follows, IsWhole, WholeTasks, Wanted, Operands
<1>2. \A role \in {"variable", "function"} :
        LET t == <<"ParseVariable", role>> IN Suits(t, e, f, scope) /\ Free(t)
  BY DEF Suits, Free, Follows, IsWhole, WholeTasks, Wanted, Operands
<1>3. ASSUME NEW p, NEW g, NEW t, t = <<"Else", p>>
      PROVE  Suits(t, e, f, scope) /\ Operands(t) = {p} /\ (Awaits(t, g) <=> IsOpen(g, p))
  BY <1>3 DEF Suits, Follows, IsWhole, WholeTasks, Wanted, Operands, Awaits
<1>4. ASSUME NEW s, NEW g, NEW t, t = <<"WhileBody", s>>
      PROVE  Suits(t, e, f, scope) /\ Operands(t) = {} /\ (Awaits(t, g) <=> s \in Bounds(g))
  BY <1>4 DEF Suits, Follows, IsWhole, WholeTasks, Wanted, Operands, Awaits
<1>5. ASSUME NEW s, NEW p, NEW g, NEW t, t = <<"EndWhile", s, p>>
      PROVE  /\ Suits(t, e, f, scope) /\ Operands(t) = {p}
             /\ Awaits(t, g) <=> IsOpen(g, p) /\ s \in Bounds(g)
  BY <1>5 DEF Suits, Follows, IsWhole, WholeTasks, Wanted, Operands, Awaits
<1> QED  BY <1>1, <1>2, <1>3, <1>4, <1>5

(* A step that does one task at a time, without a change of the scopes. *)
LEMMA SteadyFits ==
  ASSUME NEW plan, Inv(plan), agenda # <<>>, plan[2] = plan[1], agenda[1][1] # "Script",
         NEW T, NEW g, AllSuit(T, plan[1], g, Scope.scopeDepth)
  PROVE  /\ Fits(T, plan[1], plan[2], agenda[1][1] = "Script")
         /\ AllWanted(T, g, Scope.scopeDepth)
BY DEF AllSuit, Suits, Fits, AllWanted

LEMMA Unchanging ==
  ASSUME NEW plan, Inv(plan), agenda # <<>>, UNCHANGED functions
  PROVE  Generate(Target) /\ GrownTo(Target, Target) /\ Continues(Target, Target, {}, {})
<1>1. /\ Target \in Emittable /\ Pools(Target) /\ Scope.function \in 1..Len(functions)
  BY AtHand
<1>2. functions \in Seq(Emittable)
  BY DEF Inv, Generated
<1>3. Generate(Target)
  <2>1. functions = [functions EXCEPT ![Scope.function] = Target]
    BY <1>1, <1>2 DEF Target
  <2> QED  BY <2>1 DEF Generate
<1>4. GrownTo(Target, Target)
  <2>1. Len(Target.constants) <= Len(Target.constants)
    BY <1>1, EmittableFacts
  <2> QED  BY <1>1, <2>1 DEF GrownTo
<1>5. Continues(Target, Target, {}, {})
  BY <1>1, SameCode
<1> QED  BY <1>3, <1>4, <1>5

LEMMA Reading ==
  ASSUME NEW plan, Inv(plan), agenda # <<>>, plan[2] = plan[1],
         agenda[1][1] # "Script", Operands(agenda[1]) = {},
         NEW n \in Nat, NEW T, NEW errors,
         AllSuit(T, plan[1], Target, Scope.scopeDepth),
         diagnostics = <<>> => AllAwaited(T, Target),
         Advance(n), Report(errors), Then(T), UNCHANGED <<compilers, functions>>
  PROVE  \E p : Inv(p)'
<1>1. Generate(Target) /\ GrownTo(Target, Target) /\ Continues(Target, Target, {}, {})
  BY Unchanging
<1>2. Write(n, Target, errors, T)
  BY <1>1 DEF Write
<1>3. Handed(agenda[1], T, {}, {})
  BY DEF Handed
<1>4. /\ Fits(T, plan[1], plan[2], agenda[1][1] = "Script")
      /\ AllWanted(T, Target, Scope.scopeDepth)
  BY SteadyFits
<1> QED  BY <1>1, <1>2, <1>3, <1>4, Writing

LEMMA FreeAwaited ==
  ASSUME NEW T, AllFree(T), NEW f
  PROVE  AllAwaited(T, f)
BY FreeAwaits DEF AllFree, AllAwaited

-----------------------------------------------------------------------------
(* The instructions that the tasks emit. *)

LEMMA SingleOps ==
  {OpNil, OpTrue, OpFalse, OpPop, OpEqual, OpGreater, OpLess, OpAdd, OpSubtract, OpMultiply,
   OpDivide, OpNot, OpNegate, OpPrint, OpCloseUpvalue, OpReturn} \subseteq Single
BY DEF Single, Byte, Known, OperandBytes, UsesConstant, IsJump, OpNil, OpTrue, OpFalse, OpPop,
       OpEqual, OpGreater, OpLess, OpAdd, OpSubtract, OpMultiply, OpDivide, OpNot, OpNegate,
       OpPrint, OpCloseUpvalue, OpReturn, OpJump, OpJumpIfFalse, OpLoop, OpConstant,
       OpGetGlobal, OpDefineGlobal, OpSetGlobal, OpClosure, OpGetLocal, OpSetLocal,
       OpGetUpvalue, OpSetUpvalue, OpCall

LEMMA WholeSingles ==
  ASSUME NEW n
  PROVE  /\ \A a \in Single : WholeCode(<<a>>, n)
         /\ \A a \in Single, b \in Single : WholeCode(<<a, b>>, n)
BY DEF WholeCode

LEMMA WholeOperand ==
  ASSUME NEW n, NEW b \in Byte
  PROVE  /\ \A op \in {OpGetLocal, OpSetLocal, OpGetUpvalue, OpSetUpvalue, OpCall} :
              WholeCode(<<op, b>>, n)
         /\ b < n => \A op \in {OpGetGlobal, OpSetGlobal, OpDefineGlobal} :
                       WholeCode(<<op, b>>, n)
<1>1. \A op \in {OpGetLocal, OpSetLocal, OpGetUpvalue, OpSetUpvalue, OpCall} :
        op \in Byte /\ Known(op) /\ OperandBytes(op) = 1 /\ ~UsesConstant(op)
  BY DEF Byte, Known, OperandBytes, UsesConstant, IsJump, OpReturn, OpJump, OpJumpIfFalse,
         OpLoop, OpConstant, OpGetGlobal, OpDefineGlobal, OpSetGlobal, OpClosure, OpGetLocal,
         OpSetLocal, OpGetUpvalue, OpSetUpvalue, OpCall
<1>2. \A op \in {OpGetGlobal, OpSetGlobal, OpDefineGlobal} :
        op \in Byte /\ Known(op) /\ OperandBytes(op) = 1
  BY DEF Byte, Known, OperandBytes, UsesConstant, IsJump, OpReturn, OpJump, OpJumpIfFalse,
         OpLoop, OpConstant, OpGetGlobal, OpDefineGlobal, OpSetGlobal, OpClosure
<1>3. \A op \in Byte : <<op, b>> \in Seq(Byte) /\ Len(<<op, b>>) = 2
  OBVIOUS
<1> QED  BY <1>1, <1>2, <1>3 DEF WholeCode

LEMMA AsByteIs ==
  ASSUME NEW n \in Int
  PROVE  AsByte(n) \in Byte
<1>1. ByteSize \in 1..256
  BY Sizes
<1>2. n % ByteSize \in 0..(ByteSize - 1)
  BY <1>1
<1> QED  BY <1>1, <1>2 DEF AsByte, Byte

LEMMA OperationCode ==
  ASSUME NEW type \in DOMAIN Operations, NEW n
  PROVE  WholeCode(Operations[type], n)
<1>1. Operations[type] \in {<<OpEqual, OpNot>>, <<OpEqual>>, <<OpGreater>>, <<OpLess, OpNot>>,
                            <<OpLess>>, <<OpGreater, OpNot>>, <<OpAdd>>, <<OpSubtract>>,
                            <<OpMultiply>>, <<OpDivide>>}
  BY DEF Operations
<1>2. /\ OpEqual \in Single /\ OpNot \in Single /\ OpGreater \in Single /\ OpLess \in Single
      /\ OpAdd \in Single /\ OpSubtract \in Single /\ OpMultiply \in Single
      /\ OpDivide \in Single
  BY SingleOps
<1> QED  BY ONLY <1>1, <1>2, WholeSingles
-----------------------------------------------------------------------------
(* Tasks that suit, and wait for nothing. *)

EasyOne(task, e, f, scope) == Suits(task, e, f, scope) /\ Free(task)
Easy(T, e, f, scope) == AllSuit(T, e, f, scope) /\ AllFree(T)

LEMMA EasyLists ==
  ASSUME NEW e, NEW f, NEW scope
  PROVE  /\ Easy(<<>>, e, f, scope)
         /\ \A a : EasyOne(a, e, f, scope) => Easy(<<a>>, e, f, scope)
         /\ \A a, b : EasyOne(a, e, f, scope) /\ EasyOne(b, e, f, scope) =>
                        Easy(<<a, b>>, e, f, scope)
         /\ \A a, b, c : /\ EasyOne(a, e, f, scope) /\ EasyOne(b, e, f, scope)
                         /\ EasyOne(c, e, f, scope)
                         => Easy(<<a, b, c>>, e, f, scope)
         /\ \A U, V : Easy(U, e, f, scope) /\ Easy(V, e, f, scope) => Easy(U \o V, e, f, scope)
<1>1. ASSUME NEW T, NEW a, NEW b, NEW c, NEW d, OneOf(T, a, b, c, d),
             EasyOne(a, e, f, scope), EasyOne(b, e, f, scope),
             EasyOne(c, e, f, scope), EasyOne(d, e, f, scope)
      PROVE  Easy(T, e, f, scope)
  BY <1>1 DEF OneOf, Easy, EasyOne, AllSuit, AllFree
<1>2. Easy(<<>>, e, f, scope)
  BY Sequences DEF Easy, AllSuit, AllFree
<1>3. ASSUME NEW U, NEW V, Easy(U, e, f, scope), Easy(V, e, f, scope)
      PROVE  Easy(U \o V, e, f, scope)
  BY <1>3, JoinedSuit DEF Easy
<1> QED  BY <1>1, <1>2, <1>3, Listed

LEMMA EasyTasks ==
  ASSUME NEW e, NEW f, NEW scope
  PROVE  /\ \A type : EasyOne(Expect(type), e, f, scope)
         /\ \A p : EasyOne(<<"Precedence", p>>, e, f, scope)
         /\ EasyOne(Rest, e, f, scope)
         /\ EasyOne(Expression, e, f, scope)
         /\ \A n \in Nat : EasyOne(<<"Arguments", n>>, e, f, scope)
         /\ \A bytes : WholeCode(bytes, Len(f.constants)) => EasyOne(Code(bytes), e, f, scope)
BY SimpleSuit DEF EasyOne, Rest

LEMMA StatementTasks ==
  ASSUME NEW e, NEW f, NEW scope, e.ready
  PROVE  /\ \A name \in {"Declaration", "Recover", "Statement", "Block", "Then", "Function"} :
              EasyOne(<<name>>, e, f, scope)
         /\ \A role \in {"variable", "function"} :
              EasyOne(<<"ParseVariable", role>>, e, f, scope)
BY WholeSuit DEF EasyOne

(* What the plan says of the scopes while a task is done. *)
LEMMA SteadyTask ==
  ASSUME NEW plan, Inv(plan), agenda # <<>>,
         agenda[1][1] \in SimpleTasks \cup WholeTasks
  PROVE  /\ plan[2] = plan[1]
         /\ agenda[1][1] \in WholeTasks => plan[1].ready
<1>1. Follows(agenda[1], plan[1], plan[2])
  BY AtHand
<1> QED  BY <1>1 DEF Follows, SimpleTasks, WholeTasks, IsWhole, IsHeading, HeadingTasks

SteadyNames == (SimpleTasks \cup WholeTasks) \ {"Script"}

LEMMA EasyReads ==
  ASSUME NEW plan, Inv(plan), agenda # <<>>, agenda[1][1] \in SteadyNames,
         Operands(agenda[1]) = {},
         NEW n \in Nat, NEW T, Easy(T, plan[1], Target, Scope.scopeDepth)
  PROVE  /\ Read(n, T) => \E p : Inv(p)'
         /\ \A failure, error : ReadOrFail(n, failure, error, T) => \E p : Inv(p)'
<1>1. plan[2] = plan[1] /\ agenda[1][1] # "Script"
  BY SteadyTask DEF SteadyNames
<1>2. AllSuit(T, plan[1], Target, Scope.scopeDepth) /\ AllAwaited(T, Target)
  BY FreeAwaited DEF Easy
<1>3. Parsed
  BY DEF Inv
<1>4. ASSUME Read(n, T) PROVE \E p : Inv(p)'
  <2>1. /\ Advance(n) /\ Then(T) /\ Report(<<>>) /\ UNCHANGED <<compilers, functions>>
    BY <1>3, <1>4, QuietReports DEF Read
  <2> QED  BY <1>1, <1>2, <2>1, Reading
<1>5. ASSUME NEW failure, NEW error, ReadOrFail(n, failure, error, T) PROVE \E p : Inv(p)'
  <2> DEFINE errors == IF failure THEN <<error>> ELSE <<>>
  <2>1. /\ Advance(n) /\ Then(T) /\ Report(errors) /\ UNCHANGED <<compilers, functions>>
    BY <1>5 DEF ReadOrFail
  <2> HIDE DEF errors
  <2> QED  BY <1>1, <1>2, <2>1, Reading
<1> QED  BY <1>4, <1>5

LEMMA OneIfIs == \A c : OneIf(c) \in 0..1 /\ OneIf(c) \in Nat /\ 1 + OneIf(c) \in Nat
BY DEF OneIf

-----------------------------------------------------------------------------
(* The actions that only read, and whose tasks ask nothing of the code.    *)

OpenlessNames == SteadyNames \ {"Patch", "Else", "EndWhile"}

LEMMA OpenlessTask ==
  ASSUME NEW name \in OpenlessNames, Task(name)
  PROVE  /\ agenda # <<>> /\ agenda[1][1] = name
         /\ agenda[1][1] \in SteadyNames /\ Operands(agenda[1]) = {}
BY DEF Task, OpenlessNames, Operands

LEMMA Names ==
  /\ {"Consume", "Precedence", "Infix", "Emit", "Arguments", "Initializer", "Declaration",
      "Recover", "Statement", "Block", "Then", "WhileBody", "Function"} \subseteq OpenlessNames
  /\ {"Declaration", "Recover", "Statement", "Block", "Then", "Else", "WhileBody",
      "EndWhile", "Function"} \subseteq WholeTasks
BY DEF OpenlessNames, SteadyNames, SimpleTasks, WholeTasks

(* A step that reads, and leaves tasks that wait for nothing. *)
LEMMA EasyStep ==
  ASSUME NEW plan, Inv(plan), NEW name \in OpenlessNames, Task(name),
         NEW n \in Nat, NEW T, Easy(T, plan[1], Target, Scope.scopeDepth),
         Read(n, T) \/ \E failure, error : ReadOrFail(n, failure, error, T)
  PROVE  \E p : Inv(p)'
BY OpenlessTask, EasyReads

LEMMA ConsumeStep ==
  ASSUME NEW plan, Inv(plan), Consume
  PROVE  \E p : Inv(p)'
<1> DEFINE type == agenda[1][2]
           n == OneIf(Check(type))
<1>1. Task("Consume") /\ ReadOrFail(n, ~Check(type), type, <<>>)
  BY DEF Consume
<1>2. n \in Nat
  BY OneIfIs
<1> HIDE DEF n
<1> QED  BY <1>1, <1>2, Names, EasyLists, EasyStep

LEMMA InitializerStep ==
  ASSUME NEW plan, Inv(plan), Initializer
  PROVE  \E p : Inv(p)'
<1> DEFINE n == OneIf(Check("Equal"))
           t == IF Check("Equal") THEN Expression ELSE Code(<<OpNil>>)
<1>1. Task("Initializer") /\ Read(n, <<t>>)
  BY DEF Initializer
<1>2. n \in Nat
  BY OneIfIs
<1>3. WholeCode(<<OpNil>>, Len(Target.constants))
  BY SingleOps, WholeSingles
<1>4. EasyOne(t, plan[1], Target, Scope.scopeDepth)
  BY <1>3, EasyTasks
<1> HIDE DEF n, t
<1> QED  BY <1>1, <1>2, <1>4, Names, EasyLists, EasyStep

LEMMA GroupingStep ==
  ASSUME NEW plan, Inv(plan), Grouping
  PROVE  \E p : Inv(p)'
<1> DEFINE T == <<Expression, Expect("RightParen"), Rest>>
<1>1. Task("Precedence") /\ Read(1, T)
  BY DEF Grouping, Operand
<1>2. Easy(T, plan[1], Target, Scope.scopeDepth)
  BY EasyTasks, EasyLists
<1> HIDE DEF T
<1> QED  BY <1>1, <1>2, Names, EasyStep

LEMMA UnaryStep ==
  ASSUME NEW plan, Inv(plan), Unary
  PROVE  \E p : Inv(p)'
<1> DEFINE op == IF Check("Bang") THEN OpNot ELSE OpNegate
           T == <<<<"Precedence", UnaryPrecedence>>, Code(<<op>>), Rest>>
<1>1. Task("Precedence") /\ Read(1, T)
  BY DEF Unary, Operand
<1>2. WholeCode(<<op>>, Len(Target.constants))
  BY SingleOps, WholeSingles
<1> HIDE DEF op
<1>3. Easy(T, plan[1], Target, Scope.scopeDepth)
  BY <1>2, EasyTasks, EasyLists
<1> HIDE DEF T
<1> QED  BY <1>1, <1>3, Names, EasyStep

LEMMA NoOperandStep ==
  ASSUME NEW plan, Inv(plan), NoOperand
  PROVE  \E p : Inv(p)'
<1>1. Task("Precedence") /\ ReadOrFail(1, TRUE, "expected expression", <<>>)
  BY DEF NoOperand
<1> QED  BY <1>1, Names, EasyLists, EasyStep

LEMMA BinaryStep ==
  ASSUME NEW plan, Inv(plan), Binary
  PROVE  \E p : Inv(p)'
<1> DEFINE bytes == Operations[CurrentToken[1]]
           T == <<<<"Precedence", PrecedenceOf(CurrentToken[1]) + 1>>, Code(bytes), Rest>>
<1>1. Task("Infix") /\ CurrentToken[1] \in DOMAIN Operations /\ Read(1, T)
  BY DEF Binary, Operator
<1>2. WholeCode(bytes, Len(Target.constants))
  BY <1>1, OperationCode
<1> HIDE DEF bytes
<1>3. Easy(T, plan[1], Target, Scope.scopeDepth)
  BY <1>2, EasyTasks, EasyLists
<1> HIDE DEF T
<1> QED  BY <1>1, <1>3, Names, EasyStep

LEMMA EndCallTasks ==
  ASSUME NEW count \in Nat, NEW e, NEW f, NEW scope
  PROVE  Easy(EndCall(count), e, f, scope)
<1>1. count \in Int
  OBVIOUS
<1>2. AsByte(count) \in Byte
  BY <1>1, AsByteIs
<1>3. WholeCode(<<OpCall, AsByte(count)>>, Len(f.constants))
  BY <1>2, WholeOperand
<1> QED  BY <1>3, EasyTasks, EasyLists DEF EndCall

LEMMA CallStep ==
  ASSUME NEW plan, Inv(plan), Call
  PROVE  \E p : Inv(p)'
<1> DEFINE U == IF TokenAt(current + 2)[1] = "RightParen" THEN EndCall(0)
                ELSE <<Expression, <<"Arguments", 1>>>>
           T == U \o <<Rest>>
<1>1. Task("Infix") /\ Read(1, T)
  BY DEF Call, Operator
<1>2. Easy(U, plan[1], Target, Scope.scopeDepth)
  BY EndCallTasks, EasyTasks, EasyLists
<1>3. Easy(<<Rest>>, plan[1], Target, Scope.scopeDepth)
  BY EasyTasks, EasyLists
<1> HIDE DEF U
<1>4. Easy(T, plan[1], Target, Scope.scopeDepth)
  BY <1>2, <1>3, EasyLists
<1> HIDE DEF T
<1> QED  BY <1>1, <1>4, Names, EasyStep

LEMMA ArgumentsStep ==
  ASSUME NEW plan, Inv(plan), Arguments
  PROVE  \E p : Inv(p)'
<1> DEFINE count == agenda[1][2]
           n == OneIf(Check("Comma"))
           T == IF Check("Comma") THEN <<Expression, <<"Arguments", count + 1>>>>
                ELSE EndCall(count)
<1>1. /\ Task("Arguments")
      /\ ReadOrFail(n, count > ByteSize - 1, "too many arguments", T)
  BY DEF Arguments
<1>2. n \in Nat
  BY OneIfIs
<1>3. count \in Nat
  <2>1. agenda # <<>> /\ agenda[1][1] = "Arguments"
    BY <1>1 DEF Task
  <2> QED  BY <2>1, AtHand DEF Wanted
<1> HIDE DEF n, count
<1>4. Easy(T, plan[1], Target, Scope.scopeDepth)
  <2>1. count + 1 \in Nat
    BY <1>3
  <2> QED  BY <1>3, <2>1, EndCallTasks, EasyTasks, EasyLists
<1> HIDE DEF T
<1> QED  BY <1>1, <1>2, <1>4, Names, EasyStep

LEMMA EndExpressionStep ==
  ASSUME NEW plan, Inv(plan), EndExpression
  PROVE  \E p : Inv(p)'
<1> DEFINE assigned == CanAssign /\ Check("Equal")
           n == OneIf(assigned)
<1>1. Task("Infix") /\ ReadOrFail(n, assigned, "invalid assignment target", <<>>)
  BY DEF EndExpression
<1>2. n \in Nat
  BY OneIfIs
<1> HIDE DEF n
<1> QED  BY <1>1, <1>2, Names, EasyLists, EasyStep

LEMMA MinFacts ==
  ASSUME NEW S, S \subseteq Nat, S # {}
  PROVE  Min(S) \in S /\ \A x \in S : Min(S) <= x
<1>1. PICK n \in S : \A m \in S : n <= m
  BY Least
<1> QED  BY <1>1 DEF Min

LEMMA MaxFacts ==
  ASSUME NEW S, NEW bound \in Nat, S \subseteq 0..bound, S # {}
  PROVE  Max(S) \in S /\ \A x \in S : Max(S) >= x
<1> DEFINE D == {bound - x : x \in S}
<1>1. D \subseteq Nat /\ D # {}
  <2>1. \A x \in S : bound - x \in Nat
    OBVIOUS
  <2>2. PICK x : x \in S
    OBVIOUS
  <2> QED  BY <2>1, <2>2
<1>2. PICK d \in D : \A e \in D : d <= e
  BY <1>1, Least
<1>3. PICK x \in S : d = bound - x
  OBVIOUS
<1>4. ASSUME NEW y \in S PROVE x >= y
  <2>1. bound - y \in D
    OBVIOUS
  <2>2. bound - x <= bound - y
    BY <1>2, <1>3, <2>1
  <2>3. x \in Nat /\ y \in Nat
    OBVIOUS
  <2> QED  BY <2>2, <2>3
<1> QED  BY <1>4 DEF Max
-----------------------------------------------------------------------------
(* Statements that only read. *)

LEMMA RecoverStep ==
  ASSUME NEW plan, Inv(plan), Recover
  PROVE  \E p : Inv(p)'
<1> DEFINE last == Max({current, Len(source)})
           points == {i \in current..last : SyncPoint(i)}
<1>1. /\ Task("Recover") /\ panicMode' = FALSE
      /\ current' = IF ~panicMode THEN current ELSE Min(points)
      /\ Then(<<>>) /\ UNCHANGED <<diagnostics, compilers, functions>>
  BY DEF Recover
<1>2. /\ source \in Seq(Token) /\ Len(source) \in Nat /\ current \in 0..(Len(source) + 1)
      /\ IsSequence(diagnostics)
  BY DEF Inv, Parsed
<1>3. last \in {current, Len(source)} /\ last >= current /\ last >= Len(source)
  <2>1. {current, Len(source)} \subseteq 0..(Len(source) + 1) /\ Len(source) + 1 \in Nat
    BY <1>2
  <2> QED  BY <2>1, MaxFacts
<1> HIDE DEF last
<1>4. last \in 0..(Len(source) + 1) /\ last \in current..last /\ current \in Nat
  BY <1>2, <1>3
<1>5. SyncPoint(last)
  <2>1. last + 1 \notin 1..Len(source)
    BY <1>2, <1>3
  <2>2. TokenAt(last + 1)[1] = "EOF"
    BY <2>1 DEF TokenAt
  <2> QED  BY <2>2 DEF SyncPoint
<1>6. points \subseteq Nat /\ points # {} /\ points \subseteq current..last
  BY <1>4, <1>5
<1> HIDE DEF points
<1>7. current' \in 0..(Len(source) + 1)
  <2>1. Min(points) \in current..last
    BY <1>6, MinFacts
  <2> QED  BY <1>1, <1>2, <1>4, <2>1
<1>8. Parsed'
  <2>1. source' = source
    BY <1>1 DEF Then
  <2> QED  BY <1>1, <1>2, <1>7, <2>1 DEF Parsed
<1>9. /\ agenda # <<>> /\ plan[2] = plan[1] /\ agenda[1][1] # "Script"
      /\ Operands(agenda[1]) = {}
  BY <1>1, OpenlessTask, Names, SteadyTask DEF SteadyNames
<1>10. Easy(<<>>, plan[1], Target, Scope.scopeDepth)
  BY EasyLists
<1>11. /\ Fits(<<>>, plan[1], plan[2], agenda[1][1] = "Script")
       /\ AllWanted(<<>>, Target, Scope.scopeDepth) /\ AllAwaited(<<>>, Target)
  BY <1>9, <1>10, SteadyFits, FreeAwaited DEF Easy
<1>12. Generate(Target) /\ GrownTo(Target, Target) /\ Continues(Target, Target, {}, {})
  BY <1>1, <1>9, Unchanging
<1>13. Handed(agenda[1], <<>>, {}, {})
  BY <1>9 DEF Handed
<1> QED  BY <1>1, <1>8, <1>9, <1>11, <1>12, <1>13, Working

LEMMA PrintStep ==
  ASSUME NEW plan, Inv(plan), PrintStatement
  PROVE  \E p : Inv(p)'
<1> DEFINE T == <<Expression, Expect("Semicolon"), Code(<<OpPrint>>)>>
<1>1. Task("Statement") /\ Read(1, T)
  BY DEF PrintStatement, Statement
<1>2. WholeCode(<<OpPrint>>, Len(Target.constants))
  BY SingleOps, WholeSingles
<1>3. Easy(T, plan[1], Target, Scope.scopeDepth)
  BY <1>2, EasyTasks, EasyLists
<1> HIDE DEF T
<1> QED  BY <1>1, <1>3, Names, EasyStep

LEMMA ExpressionStatementStep ==
  ASSUME NEW plan, Inv(plan), ExpressionStatement
  PROVE  \E p : Inv(p)'
<1> DEFINE T == <<Expression, Expect("Semicolon"), Code(<<OpPop>>)>>
<1>1. Task("Statement") /\ Read(0, T)
  BY DEF ExpressionStatement
<1>2. WholeCode(<<OpPop>>, Len(Target.constants))
  BY SingleOps, WholeSingles
<1>3. Easy(T, plan[1], Target, Scope.scopeDepth)
  BY <1>2, EasyTasks, EasyLists
<1> HIDE DEF T
<1> QED  BY <1>1, <1>3, Names, EasyStep

LEMMA ReadyTask ==
  ASSUME NEW plan, Inv(plan), NEW name \in OpenlessNames \cap WholeTasks, Task(name)
  PROVE  plan[1].ready /\ plan[2] = plan[1]
BY OpenlessTask, SteadyTask DEF SteadyNames

LEMMA ConditionTasks ==
  ASSUME NEW e, NEW f, NEW scope
  PROVE  Easy(Condition, e, f, scope)
BY EasyTasks, EasyLists DEF Condition

LEMMA IfStep ==
  ASSUME NEW plan, Inv(plan), IfStatement
  PROVE  \E p : Inv(p)'
<1> DEFINE T == Condition \o <<<<"Then">>>>
<1>1. Task("Statement") /\ Read(1, T)
  BY DEF IfStatement, Statement
<1>2. plan[1].ready
  BY <1>1, Names, ReadyTask
<1>3. EasyOne(<<"Then">>, plan[1], Target, Scope.scopeDepth)
  BY <1>2, StatementTasks
<1>4. Easy(T, plan[1], Target, Scope.scopeDepth)
  BY <1>3, ConditionTasks, EasyLists
<1> HIDE DEF T
<1> QED  BY <1>1, <1>4, Names, EasyStep

LEMMA ReturnStep ==
  ASSUME NEW plan, Inv(plan), ReturnStatement
  PROVE  \E p : Inv(p)'
<1> DEFINE empty == TokenAt(current + 2)[1] = "Semicolon"
           n == 1 + OneIf(empty)
           T == IF empty THEN <<Code(<<OpNil, OpReturn>>)>>
                ELSE <<Expression, Expect("Semicolon"), Code(<<OpReturn>>)>>
<1>1. Task("Statement") /\ ReadOrFail(n, Depth = 1, "return from top-level code", T)
  BY DEF ReturnStatement, Statement
<1>2. n \in Nat
  BY OneIfIs
<1> HIDE DEF n
<1>3. /\ WholeCode(<<OpNil, OpReturn>>, Len(Target.constants))
      /\ WholeCode(<<OpReturn>>, Len(Target.constants))
  BY SingleOps, WholeSingles
<1>4. Easy(T, plan[1], Target, Scope.scopeDepth)
  BY <1>3, EasyTasks, EasyLists
<1> HIDE DEF T
<1> QED  BY <1>1, <1>2, <1>4, Names, EasyStep

LEMMA BlockStep ==
  ASSUME NEW plan, Inv(plan), Block
  PROVE  \E p : Inv(p)'
<1> DEFINE T == IF CurrentToken[1] \in {"RightBrace", "EOF"} THEN <<Expect("RightBrace")>>
                ELSE <<<<"Declaration">>, <<"Block">>>>
<1>1. Task("Block") /\ Read(0, T)
  BY DEF Block
<1>2. plan[1].ready
  BY <1>1, Names, ReadyTask
<1>3. Easy(T, plan[1], Target, Scope.scopeDepth)
  BY <1>2, EasyTasks, StatementTasks, EasyLists
<1> HIDE DEF T
<1> QED  BY <1>1, <1>3, Names, EasyStep

LEMMA DeclarationStep ==
  ASSUME NEW plan, Inv(plan), Declaration
  PROVE  \E p : Inv(p)'
<1> DEFINE n == OneIf(Check("Fun") \/ Check("Var"))
           t == CASE Check("Fun") -> <<"ParseVariable", "function">>
                  [] Check("Var") -> <<"ParseVariable", "variable">>
                  [] OTHER -> <<"Statement">>
           T == <<t, <<"Recover">>>>
<1>1. Task("Declaration") /\ Read(n, T)
  BY DEF Declaration
<1>2. n \in Nat
  BY OneIfIs
<1>3. plan[1].ready
  BY <1>1, Names, ReadyTask
<1>4. t \in {<<"ParseVariable", "function">>, <<"ParseVariable", "variable">>, <<"Statement">>}
  OBVIOUS
<1> HIDE DEF n, t
<1>5. EasyOne(t, plan[1], Target, Scope.scopeDepth)
  BY <1>3, <1>4, StatementTasks
<1>6. Easy(T, plan[1], Target, Scope.scopeDepth)
  BY <1>3, <1>5, StatementTasks, EasyLists
<1> HIDE DEF T
<1> QED  BY <1>1, <1>2, <1>6, Names, EasyStep

(* A loop will come back to here. *)
LEMMA WhileStep ==
  ASSUME NEW plan, Inv(plan), WhileStatement
  PROVE  \E p : Inv(p)'
<1> DEFINE task == <<"WhileBody", Len(Target.code)>>
           U == <<task>>
           T == Condition \o U
<1>1. Task("Statement") /\ Read(1, T)
  BY DEF WhileStatement, Statement
<1>2. plan[1].ready /\ plan[2] = plan[1]
  BY <1>1, Names, ReadyTask
<1>3. /\ agenda # <<>> /\ agenda[1][1] # "Script" /\ Operands(agenda[1]) = {}
  BY <1>1, Names, OpenlessTask DEF SteadyNames
<1>4. /\ Suits(task, plan[1], Target, Scope.scopeDepth)
      /\ diagnostics = <<>> => Awaits(task, Target)
  <2>1. ASSUME diagnostics = <<>> PROVE Len(Target.code) \in Bounds(Target)
    BY <1>3, <2>1, AtHand, CutFacts
  <2> QED  BY <1>2, <2>1, WholeSuit
<1> HIDE DEF task
<1>5. IsSequence(U) /\ Len(U) = 1 /\ U[1] = task
  BY Sequences
<1> HIDE DEF U
<1>6. /\ AllSuit(U, plan[1], Target, Scope.scopeDepth)
      /\ diagnostics = <<>> => AllAwaited(U, Target)
  BY <1>4, <1>5 DEF AllSuit, AllAwaited
<1>7. /\ AllSuit(Condition, plan[1], Target, Scope.scopeDepth)
      /\ AllAwaited(Condition, Target)
  BY ConditionTasks, FreeAwaited DEF Easy
<1>8. /\ AllSuit(T, plan[1], Target, Scope.scopeDepth)
      /\ diagnostics = <<>> => AllAwaited(T, Target)
  BY <1>6, <1>7, JoinedSuit, Joined DEF AllSuit, AllAwaited
<1>9. /\ Advance(1) /\ Then(T) /\ Report(<<>>) /\ UNCHANGED <<compilers, functions>>
  BY <1>1, QuietReports DEF Read, Inv
<1> HIDE DEF T
<1> QED  BY <1>2, <1>3, <1>8, <1>9, Reading

-----------------------------------------------------------------------------
(* The actions that emit code and leave the scopes alone. *)

LEMMA OnlyCodeGrows ==
  ASSUME NEW f, NEW g, f \in Emittable, Pools(f), OnlyCode(f, g)
  PROVE  GrownTo(f, g) /\ (f.arity <= 255 => g.arity <= 255)
<1>1. Len(f.constants) <= Len(f.constants)
  BY EmittableFacts
<1> QED  BY <1>1 DEF OnlyCode, GrownTo, Pools

(* A step of a task that leaves the scopes alone and changes only the code. *)
LEMMA CodeStep ==
  ASSUME NEW plan, Inv(plan), agenda # <<>>, agenda[1][1] \in SteadyNames,
         NEW n \in Nat, NEW T, NEW g, NEW errors, NEW opened, NEW closed,
         Write(n, g, errors, T), OnlyCode(Target, g),
         AllSuit(T, plan[1], g, Scope.scopeDepth),
         errors = <<>> /\ diagnostics = <<>> =>
           /\ Continues(Target, g, opened, closed)
           /\ AllAwaited(T, g)
           /\ Handed(agenda[1], T, opened, closed)
  PROVE  \E p : Inv(p)'
<1>1. plan[2] = plan[1] /\ agenda[1][1] # "Script"
  BY SteadyTask DEF SteadyNames
<1>2. Target \in Emittable /\ Pools(Target)
  BY AtHand
<1>3. GrownTo(Target, g) /\ (Target.arity <= 255 => g.arity <= 255)
  BY <1>2, OnlyCodeGrows
<1>4. /\ Fits(T, plan[1], plan[2], agenda[1][1] = "Script")
      /\ AllWanted(T, g, Scope.scopeDepth)
  BY <1>1, SteadyFits
<1> QED  BY <1>3, <1>4, Writing

LEMMA EmitStep ==
  ASSUME NEW plan, Inv(plan), EmitCode
  PROVE  \E p : Inv(p)'
<1> DEFINE bytes == agenda[1][2]
           g == Emit(Target, bytes)
<1>1. Task("Emit") /\ Write(0, g, <<>>, <<>>)
  BY DEF EmitCode
<1>2. /\ agenda # <<>> /\ agenda[1][1] = "Emit" /\ agenda[1][1] \in SteadyNames
      /\ Operands(agenda[1]) = {}
  BY <1>1, Names, OpenlessTask
<1>3. Target \in Emittable /\ WholeCode(bytes, Len(Target.constants))
  BY <1>2, AtHand DEF Wanted
<1> HIDE DEF bytes
<1>4. bytes \in Seq(Byte) /\ Continues(Target, g, {}, {})
  BY <1>3, EmitWhole
<1>5. OnlyCode(Target, g)
  BY <1>3, <1>4, EmitFacts DEF OnlyCode
<1> HIDE DEF g
<1>6. AllSuit(<<>>, plan[1], g, Scope.scopeDepth) /\ AllAwaited(<<>>, g)
  BY EasyLists, FreeAwaited DEF Easy
<1>7. Handed(agenda[1], <<>>, {}, {})
  BY <1>2 DEF Handed
<1> QED  BY <1>1, <1>2, <1>4, <1>5, <1>6, <1>7, CodeStep

LEMMA PatchStep ==
  ASSUME NEW plan, Inv(plan), Patch
  PROVE  \E p : Inv(p)'
<1> DEFINE operand == agenda[1][2]
           g == PatchJump(Target, operand)
           errors == PatchErrors(Target, operand)
<1>1. Task("Patch") /\ Write(0, g, errors, <<>>)
  BY DEF Patch
<1>2. /\ agenda # <<>> /\ agenda[1][1] = "Patch" /\ agenda[1][1] \in SteadyNames
      /\ Operands(agenda[1]) = {operand}
  BY <1>1 DEF Task, Operands, SteadyNames, SimpleTasks
<1>3. Target \in Emittable /\ (diagnostics = <<>> => Cuts(Target) /\ IsOpen(Target, operand))
  BY <1>2, AtHand DEF Awaits
<1> HIDE DEF operand
<1>4. OnlyCode(Target, g)
  BY <1>3, PatchTypes DEF OnlyCode
<1>5. errors = <<>> /\ diagnostics = <<>> => Continues(Target, g, {}, {operand})
  BY <1>3, PatchFacts
<1> HIDE DEF g, errors
<1>6. AllSuit(<<>>, plan[1], g, Scope.scopeDepth) /\ AllAwaited(<<>>, g)
  BY EasyLists, FreeAwaited DEF Easy
<1>7. Handed(agenda[1], <<>>, {}, {operand})
  BY <1>2 DEF Handed
<1> QED  BY <1>1, <1>2, <1>4, <1>5, <1>6, <1>7, CodeStep

(* Lists of which one task waits for a jump to patch. *)
LEMMA PatchLists ==
  ASSUME NEW e, NEW f, NEW scope, NEW p, NEW a, NEW b,
         EasyOne(a, e, f, scope), EasyOne(b, e, f, scope),
         NEW t, Suits(t, e, f, scope), Operands(t) = {p}
  PROVE  LET T == <<a, t, b>>
             U == <<a, t>>
             V == <<t>>
         IN /\ AllSuit(T, e, f, scope) /\ AllSuit(U, e, f, scope) /\ AllSuit(V, e, f, scope)
            /\ Awaits(t, f) => AllAwaited(T, f) /\ AllAwaited(U, f) /\ AllAwaited(V, f)
            /\ \A task, closed : Operands(task) \subseteq closed =>
                 /\ Handed(task, T, {p}, closed) /\ Handed(task, U, {p}, closed)
                 /\ Handed(task, V, {p}, closed)
<1> DEFINE T == <<a, t, b>>
           U == <<a, t>>
           V == <<t>>
<1>1. /\ OneOf(T, a, t, b, b) /\ OneOf(U, a, t, t, t) /\ OneOf(V, t, t, t, t)
      /\ Len(T) = 3 /\ Len(U) = 2 /\ Len(V) = 1
      /\ T[2] = t /\ U[2] = t /\ V[1] = t
  BY Listed, Sequences
<1> HIDE DEF T, U, V
<1>2. /\ AllSuit(T, e, f, scope) /\ AllSuit(U, e, f, scope) /\ AllSuit(V, e, f, scope)
  BY <1>1 DEF AllSuit, OneOf, EasyOne
<1>3. Awaits(a, f) /\ Awaits(b, f)
  BY FreeAwaits DEF EasyOne
<1>4. Awaits(t, f) => AllAwaited(T, f) /\ AllAwaited(U, f) /\ AllAwaited(V, f)
  BY <1>1, <1>3 DEF AllAwaited, OneOf
<1>5. 2 \in 1..Len(T) /\ 2 \in 1..Len(U) /\ 1 \in 1..Len(V)
  BY <1>1
<1>6. ASSUME NEW task, NEW closed, Operands(task) \subseteq closed
      PROVE  /\ Handed(task, T, {p}, closed) /\ Handed(task, U, {p}, closed)
             /\ Handed(task, V, {p}, closed)
  <2>1. {p} \cup (Operands(task) \ closed) = {p}
    BY <1>6
  <2> QED  BY <1>1, <1>5, <2>1 DEF Handed
<1> QED  BY <1>2, <1>4, <1>6 DEF T, U, V

(* An operator that jumps over its right operand: the jump is patched after it. *)
LEMMA ShortCircuit ==
  ASSUME NEW plan, Inv(plan), Task("Infix"), NEW g, NEW errors, NEW level, NEW operand,
         Write(1, g, errors, <<<<"Precedence", level>>, <<"Patch", operand>>, Rest>>),
         OnlyCode(Target, g),
         errors = <<>> /\ diagnostics = <<>> =>
           Continues(Target, g, {operand}, {}) /\ IsOpen(g, operand)
  PROVE  \E p : Inv(p)'
<1> DEFINE patch == <<"Patch", operand>>
           right == <<"Precedence", level>>
           T == <<right, patch, Rest>>
<1>1. /\ agenda # <<>> /\ agenda[1][1] \in SteadyNames /\ Operands(agenda[1]) = {}
  BY Names, OpenlessTask
<1>2. /\ Suits(patch, plan[1], g, Scope.scopeDepth) /\ Operands(patch) = {operand}
      /\ Awaits(patch, g) <=> IsOpen(g, operand)
      /\ EasyOne(right, plan[1], g, Scope.scopeDepth)
      /\ EasyOne(Rest, plan[1], g, Scope.scopeDepth)
  BY SimpleSuit, EasyTasks
<1>3. Write(1, g, errors, T)
  OBVIOUS
<1> HIDE DEF patch, right
<1>4. /\ AllSuit(T, plan[1], g, Scope.scopeDepth)
      /\ IsOpen(g, operand) => AllAwaited(T, g)
      /\ Handed(agenda[1], T, {operand}, {})
  BY <1>1, <1>2, PatchLists
<1> HIDE DEF T
<1> QED  BY <1>1, <1>3, <1>4, CodeStep

LEMMA AndStep ==
  ASSUME NEW plan, Inv(plan), And
  PROVE  \E p : Inv(p)'
<1> DEFINE level == PrecedenceOf("And")
           operand == JumpOperand(Target)
<1>1. /\ Task("Infix")
      /\ Write(1, TestOf(Target), <<>>, <<<<"Precedence", level>>, <<"Patch", operand>>, Rest>>)
  BY DEF And, Operator, Test, TestOf
<1>2. Target \in Emittable /\ (diagnostics = <<>> => Cuts(Target))
  BY <1>1, AtHand DEF Task
<1>3. /\ OnlyCode(Target, TestOf(Target))
      /\ Continues(Target, TestOf(Target), {operand}, {})
      /\ diagnostics = <<>> => IsOpen(TestOf(Target), operand)
  BY <1>2, TestFacts
<1> HIDE DEF level, operand
<1> QED  BY <1>1, <1>3, ShortCircuit

LEMMA OrStep ==
  ASSUME NEW plan, Inv(plan), Or
  PROVE  \E p : Inv(p)'
<1> DEFINE level == PrecedenceOf("Or")
           tested == EmitJump(Target, OpJumpIfFalse)
           operand == JumpOperand(tested)
           errors == PatchErrors(EmitJump(tested, OpJump), JumpOperand(Target))
<1>1. /\ Task("Infix")
      /\ Write(1, OrOf(Target), errors, <<<<"Precedence", level>>, <<"Patch", operand>>, Rest>>)
  BY DEF Or, Operator, OrOf
<1>2. Target \in Emittable /\ (diagnostics = <<>> => Cuts(Target))
  BY <1>1, AtHand DEF Task
<1>3. /\ OnlyCode(Target, OrOf(Target))
      /\ errors = <<>> => /\ Continues(Target, OrOf(Target), {operand}, {})
                          /\ Cuts(Target) => IsOpen(OrOf(Target), operand)
  BY <1>2, OrFacts
<1> HIDE DEF level, operand, errors
<1> QED  BY <1>1, <1>2, <1>3, ShortCircuit

-----------------------------------------------------------------------------
(* Branches and loops. *)

LEMMA WaitingTask ==
  ASSUME NEW plan, Inv(plan), NEW name \in {"Then", "Else", "WhileBody", "EndWhile"}, Task(name)
  PROVE  /\ agenda # <<>> /\ agenda[1][1] = name /\ agenda[1][1] \in SteadyNames
         /\ plan[1].ready
         /\ Target \in Emittable
         /\ diagnostics = <<>> => Cuts(Target) /\ Awaits(agenda[1], Target)
<1>1. agenda # <<>> /\ agenda[1][1] = name
  BY DEF Task
<1>2. name \in SteadyNames /\ name \in WholeTasks
  BY DEF SteadyNames, WholeTasks
<1>3. plan[1].ready
  BY <1>1, <1>2, SteadyTask DEF SteadyNames
<1> QED  BY <1>1, <1>2, <1>3, AtHand

LEMMA ThenStep ==
  ASSUME NEW plan, Inv(plan), ThenBranch
  PROVE  \E p : Inv(p)'
<1> DEFINE operand == JumpOperand(Target)
           body == <<"Statement">>
           task == <<"Else", operand>>
           g == TestOf(Target)
           T == <<body, task>>
<1>1. Task("Then") /\ Write(0, g, <<>>, T)
  BY DEF ThenBranch, Test, TestOf
<1>2. /\ agenda # <<>> /\ agenda[1][1] = "Then" /\ agenda[1][1] \in SteadyNames
      /\ plan[1].ready /\ Target \in Emittable /\ (diagnostics = <<>> => Cuts(Target))
  BY <1>1, WaitingTask
<1>3. /\ OnlyCode(Target, g) /\ Continues(Target, g, {operand}, {})
      /\ diagnostics = <<>> => IsOpen(g, operand)
  BY <1>2, TestFacts
<1>4. Operands(agenda[1]) = {}
  BY <1>2 DEF Operands
<1> HIDE DEF g, operand
<1>5. /\ Suits(task, plan[1], g, Scope.scopeDepth) /\ Operands(task) = {operand}
      /\ Awaits(task, g) <=> IsOpen(g, operand)
      /\ EasyOne(body, plan[1], g, Scope.scopeDepth)
  BY <1>2, WholeSuit, StatementTasks
<1> HIDE DEF task, body
<1>6. /\ AllSuit(T, plan[1], g, Scope.scopeDepth)
      /\ IsOpen(g, operand) => AllAwaited(T, g)
      /\ Handed(agenda[1], T, {operand}, {})
  BY <1>4, <1>5, PatchLists
<1> HIDE DEF T
<1> QED  BY <1>1, <1>2, <1>3, <1>6, CodeStep

LEMMA ElseStep ==
  ASSUME NEW plan, Inv(plan), ElseBranch
  PROVE  \E p : Inv(p)'
<1> DEFINE thenJump == agenda[1][2]
           operand == JumpOperand(Target)
           task == <<"Patch", operand>>
           g == ElseOf(Target, thenJump)
           n == OneIf(Check("Else"))
           errors == PatchErrors(EmitJump(Target, OpJump), thenJump)
           U == IF Check("Else") THEN <<<<"Statement">>>> ELSE <<>>
           V == <<task>>
           T == U \o V
<1>1. Task("Else") /\ Write(n, g, errors, T)
  BY DEF ElseBranch, ElseOf
<1>2. /\ agenda # <<>> /\ agenda[1][1] = "Else" /\ agenda[1][1] \in SteadyNames
      /\ plan[1].ready /\ Target \in Emittable
      /\ diagnostics = <<>> => Cuts(Target) /\ Awaits(agenda[1], Target)
  BY <1>1, WaitingTask
<1>3. Operands(agenda[1]) = {thenJump} /\ (diagnostics = <<>> => IsOpen(Target, thenJump))
  BY <1>2 DEF Operands, Awaits
<1> HIDE DEF thenJump
<1>4. /\ OnlyCode(Target, g)
      /\ errors = <<>> /\ diagnostics = <<>> =>
           Continues(Target, g, {operand}, {thenJump}) /\ IsOpen(g, operand)
  BY <1>2, <1>3, ElseFacts
<1>5. n \in Nat
  BY OneIfIs
<1> HIDE DEF g, operand, errors, n
<1>6. /\ Suits(task, plan[1], g, Scope.scopeDepth) /\ Operands(task) = {operand}
      /\ Awaits(task, g) <=> IsOpen(g, operand)
  BY SimpleSuit
<1> HIDE DEF task
<1>7. /\ AllSuit(V, plan[1], g, Scope.scopeDepth)
      /\ IsOpen(g, operand) => AllAwaited(V, g)
      /\ Handed(agenda[1], V, {operand}, {thenJump})
  <2>1. EasyOne(Rest, plan[1], g, Scope.scopeDepth)
    BY EasyTasks
  <2> QED  BY <1>3, <1>6, <2>1, PatchLists
<1>8. AllSuit(U, plan[1], g, Scope.scopeDepth) /\ AllAwaited(U, g)
  <2>1. Easy(U, plan[1], g, Scope.scopeDepth)
    BY <1>2, StatementTasks, EasyLists
  <2> QED  BY <2>1, FreeAwaited DEF Easy
<1> HIDE DEF U, V
<1>9. /\ AllSuit(T, plan[1], g, Scope.scopeDepth)
      /\ IsOpen(g, operand) => AllAwaited(T, g)
      /\ Handed(agenda[1], T, {operand}, {thenJump})
  <2>1. IsSequence(U) /\ IsSequence(V)
    BY <1>7, <1>8 DEF AllSuit
  <2>2. AllSuit(T, plan[1], g, Scope.scopeDepth)
    BY <1>7, <1>8, JoinedSuit
  <2>3. IsOpen(g, operand) => AllAwaited(T, g)
    BY <1>7, <1>8, <2>1, Joined DEF AllAwaited
  <2>4. Handed(agenda[1], T, {operand}, {thenJump})
    <3> SUFFICES ASSUME NEW p \in {operand} \cup (Operands(agenda[1]) \ {thenJump})
                 PROVE  \E i \in 1..Len(T) : p \in Operands(T[i])
      BY DEF Handed
    <3>1. PICK j \in 1..Len(V) : p \in Operands(V[j])
      BY <1>7 DEF Handed
    <3>2. PICK i \in 1..Len(T) : T[i] = V[j]
      BY <2>1, Joined
    <3> QED  BY <3>1, <3>2
  <2> QED  BY <2>2, <2>3, <2>4
<1> HIDE DEF T
<1> QED  BY <1>1, <1>2, <1>4, <1>5, <1>9, CodeStep

LEMMA WhileBodyStep ==
  ASSUME NEW plan, Inv(plan), WhileBody
  PROVE  \E p : Inv(p)'
<1> DEFINE operand == JumpOperand(Target)
           start == agenda[1][2]
           body == <<"Statement">>
           task == <<"EndWhile", start, operand>>
           g == TestOf(Target)
           T == <<body, task>>
<1>1. Task("WhileBody") /\ Write(0, g, <<>>, T)
  BY DEF WhileBody, Test, TestOf
<1>2. /\ agenda # <<>> /\ agenda[1][1] = "WhileBody" /\ agenda[1][1] \in SteadyNames
      /\ plan[1].ready /\ Target \in Emittable
      /\ diagnostics = <<>> => Cuts(Target) /\ Awaits(agenda[1], Target)
  BY <1>1, WaitingTask
<1>3. Operands(agenda[1]) = {} /\ (diagnostics = <<>> => start \in Bounds(Target))
  BY <1>2 DEF Operands, Awaits
<1>4. /\ OnlyCode(Target, g) /\ Continues(Target, g, {operand}, {})
      /\ diagnostics = <<>> => IsOpen(g, operand)
  BY <1>2, TestFacts
<1> HIDE DEF g, operand, start
<1>5. diagnostics = <<>> => start \in Bounds(g)
  BY <1>2, <1>3, <1>4 DEF Continues
<1>6. /\ Suits(task, plan[1], g, Scope.scopeDepth) /\ Operands(task) = {operand}
      /\ Awaits(task, g) <=> IsOpen(g, operand) /\ start \in Bounds(g)
      /\ EasyOne(body, plan[1], g, Scope.scopeDepth)
  BY <1>2, WholeSuit, StatementTasks
<1>7. diagnostics = <<>> => Awaits(task, g)
  BY <1>4, <1>5, <1>6
<1> HIDE DEF task, body
<1>8. /\ AllSuit(T, plan[1], g, Scope.scopeDepth)
      /\ Awaits(task, g) => AllAwaited(T, g)
      /\ Handed(agenda[1], T, {operand}, {})
  BY <1>3, <1>6, PatchLists
<1> HIDE DEF T
<1> QED  BY <1>1, <1>2, <1>4, <1>7, <1>8, CodeStep

LEMMA NoneOfTwo ==
  ASSUME NEW U, NEW V, IsSequence(U), IsSequence(V), U \o V = <<>>
  PROVE  U = <<>> /\ V = <<>>
<1>1. PICK S1, S2 : U \in Seq(S1) /\ V \in Seq(S2)
  BY DEF IsSequence
<1> DEFINE S == S1 \cup S2
<1>2. U \in Seq(S) /\ V \in Seq(S)
  <2>1. S1 \subseteq S /\ S2 \subseteq S
    OBVIOUS
  <2> QED  BY <1>1, <2>1, SeqMonotonic
<1> HIDE DEF S
<1>3. Len(U \o V) = Len(U) + Len(V) /\ Len(U) \in Nat /\ Len(V) \in Nat /\ Len(U \o V) = 0
  BY <1>2
<1>4. Len(U) = 0 /\ Len(V) = 0
  BY <1>3
<1> QED  BY <1>2, <1>4

LEMMA EndWhileStep ==
  ASSUME NEW plan, Inv(plan), EndWhile
  PROVE  \E p : Inv(p)'
<1> DEFINE start == agenda[1][2]
           exitJump == agenda[1][3]
           g == EndWhileOf(Target, start, exitJump)
           U == LoopErrors(Target, start)
           V == PatchErrors(EmitLoop(Target, start), exitJump)
           errors == U \o V
<1>1. Task("EndWhile") /\ Write(0, g, errors, <<>>)
  BY DEF EndWhile, EndWhileOf
<1>2. /\ agenda # <<>> /\ agenda[1][1] = "EndWhile" /\ agenda[1][1] \in SteadyNames
      /\ plan[1].ready /\ Target \in Emittable
      /\ diagnostics = <<>> => Cuts(Target) /\ Awaits(agenda[1], Target)
  BY <1>1, WaitingTask
<1>3. /\ Operands(agenda[1]) = {exitJump}
      /\ diagnostics = <<>> => IsOpen(Target, exitJump) /\ start \in Bounds(Target)
  BY <1>2 DEF Operands, Awaits
<1> HIDE DEF start, exitJump
<1>4. /\ OnlyCode(Target, g)
      /\ U = <<>> /\ V = <<>> /\ diagnostics = <<>> => Continues(Target, g, {}, {exitJump})
  BY <1>2, <1>3, EndWhileFacts
<1>5. IsSequence(U) /\ IsSequence(V)
  BY Sequences DEF LoopErrors, PatchErrors
<1> HIDE DEF U, V, g
<1>6. errors = <<>> => U = <<>> /\ V = <<>>
  BY <1>5, NoneOfTwo
<1> HIDE DEF errors
<1>7. AllSuit(<<>>, plan[1], g, Scope.scopeDepth) /\ AllAwaited(<<>>, g)
  BY EasyLists, FreeAwaited DEF Easy
<1>8. Handed(agenda[1], <<>>, {}, {exitJump})
  BY <1>3 DEF Handed
<1> QED  BY <1>1, <1>2, <1>4, <1>6, <1>7, <1>8, CodeStep

-----------------------------------------------------------------------------
(* Operands. *)

(* A step of a task that leaves the scopes alone and may add a constant. *)
LEMMA ConstantStep ==
  ASSUME NEW plan, Inv(plan), agenda # <<>>, agenda[1][1] \in SteadyNames,
         Operands(agenda[1]) = {},
         NEW n \in Nat, NEW T, NEW g, NEW errors,
         Write(n, g, errors, T), GrownTo(Target, g), g.arity = Target.arity,
         Easy(T, plan[1], g, Scope.scopeDepth),
         Continues(Target, g, {}, {})
  PROVE  \E p : Inv(p)'
<1>1. plan[2] = plan[1] /\ agenda[1][1] # "Script"
  BY SteadyTask DEF SteadyNames
<1>2. AllSuit(T, plan[1], g, Scope.scopeDepth) /\ AllAwaited(T, g)
  BY FreeAwaited DEF Easy
<1>3. /\ Fits(T, plan[1], plan[2], agenda[1][1] = "Script")
      /\ AllWanted(T, g, Scope.scopeDepth)
  BY <1>1, <1>2, SteadyFits
<1>4. Handed(agenda[1], T, {}, {})
  BY DEF Handed
<1> QED  BY <1>2, <1>3, <1>4, Writing

LEMMA TokenFacts ==
  ASSUME Parsed, NEW i
  PROVE  /\ TokenAt(i)[1] \in {"Number", "String"} => TokenAt(i)[2] \in Literal
         /\ Lexeme(TokenAt(i)) \in Name
<1>1. source \in Seq(Token)
  BY DEF Parsed
<1>2. CASE i \in 1..Len(source)
  <2>1. TokenAt(i) \in Token
    BY <1>1, <1>2 DEF TokenAt
  <2> DEFINE t == TokenAt(i)
  <2> HIDE DEF t
  <2>2. \/ t \in {"Identifier"} \X Name \/ t \in {"Number", "String"} \X Literal
        \/ t \in PlainTokens \X {<<>>}
    BY <2>1 DEF Token, t
  <2>3. t[1] \in PlainTokens => t[1] \notin {"Number", "String", "Identifier"}
    BY DEF PlainTokens
  <2>4. t[1] \in {"Number", "String"} => t[2] \in Literal
    BY <2>2, <2>3
  <2>5. t[1] = "Identifier" => t[2] \in Name
    BY <2>2, <2>3
  <2>6. t[1] # "Identifier" => t[1] \in Symbols
    <3>1. t[1] # "Identifier" => t[1] \in PlainTokens \cup {"EOF", "Number", "String"}
      BY <2>2
    <3> QED  BY <3>1, LexemeAssumption
  <2>7. t[1] # "Identifier" => <<t[1]>> \in Name
    BY <2>6 DEF Name
  <2> QED  BY <2>4, <2>5, <2>7 DEF Lexeme, t
<1>3. CASE i \notin 1..Len(source)
  <2>1. TokenAt(i) = <<"EOF", <<>>>>
    BY <1>3 DEF TokenAt
  <2>2. "EOF" \in Symbols
    BY LexemeAssumption
  <2> QED  BY <2>1, <2>2 DEF Lexeme, Name
<1> QED  BY <1>2, <1>3

LEMMA LiteralStep ==
  ASSUME NEW plan, Inv(plan), LiteralOperand
  PROVE  \E p : Inv(p)'
<1> DEFINE value == CurrentToken[2]
           g == Emit(AddConstant(Target, value), <<OpConstant, ConstantIndex(Target)>>)
           errors == ConstantErrors(Target)
           T == <<Rest>>
<1>1. Task("Precedence") /\ CurrentToken[1] \in {"Number", "String"} /\ Write(1, g, errors, T)
  BY DEF LiteralOperand, Operand, Literals
<1>2. /\ agenda # <<>> /\ agenda[1][1] \in SteadyNames /\ Operands(agenda[1]) = {}
  BY <1>1, Names, OpenlessTask
<1>3. Target \in Emittable /\ Pools(Target)
  BY <1>2, AtHand
<1>4. value \in Constant
  BY <1>1, TokenFacts DEF Inv, CurrentToken, Constant
<1> HIDE DEF value
<1>5. /\ g \in Emittable
      /\ Len(g.constants) <= ByteSize /\ Len(Target.constants) <= Len(g.constants)
      /\ g.upvalues = Target.upvalues /\ g.arity = Target.arity
      /\ Continues(Target, g, {}, {})
  BY <1>3, <1>4, ConstantCodeFacts DEF Pools
<1> HIDE DEF g, errors
<1>6. GrownTo(Target, g)
  BY <1>3, <1>5 DEF GrownTo, Pools
<1>7. Easy(T, plan[1], g, Scope.scopeDepth)
  BY EasyTasks, EasyLists
<1> HIDE DEF T
<1> QED  BY <1>1, <1>2, <1>5, <1>6, <1>7, ConstantStep

LEMMA KeywordStep ==
  ASSUME NEW plan, Inv(plan), KeywordOperand
  PROVE  \E p : Inv(p)'
<1> DEFINE op == Keyword[CurrentToken[1]]
           g == Emit(Target, <<op>>)
           T == <<Rest>>
<1>1. Task("Precedence") /\ CurrentToken[1] \in DOMAIN Keyword /\ Write(1, g, <<>>, T)
  BY DEF KeywordOperand, Operand
<1>2. /\ agenda # <<>> /\ agenda[1][1] \in SteadyNames /\ Operands(agenda[1]) = {}
  BY <1>1, Names, OpenlessTask
<1>3. Target \in Emittable /\ Pools(Target)
  BY <1>2, AtHand
<1>4. op \in Single
  <2>1. op \in {OpFalse, OpTrue, OpNil}
    BY <1>1 DEF Keyword
  <2> QED  BY <2>1, SingleOps
<1> HIDE DEF op
<1>5. <<op>> \in Seq(Byte) /\ Continues(Target, g, {}, {})
  BY <1>3, <1>4, WholeSingles, EmitWhole
<1>6. OnlyCode(Target, g)
  BY <1>3, <1>5, EmitFacts DEF OnlyCode
<1> HIDE DEF g
<1>7. GrownTo(Target, g) /\ g.arity = Target.arity
  BY <1>3, <1>6, OnlyCodeGrows DEF OnlyCode
<1>8. Easy(T, plan[1], g, Scope.scopeDepth)
  BY EasyTasks, EasyLists
<1> HIDE DEF T
<1> QED  BY <1>1, <1>2, <1>5, <1>7, <1>8, ConstantStep

-----------------------------------------------------------------------------
(* Names. *)

LEMMA LocalIndexFacts ==
  ASSUME NEW plan, Inv(plan), NEW level \in 1..Depth, NEW name
  PROVE  LocalIndex(level, name) \in 0..Len(compilers[level].locals)
<1> DEFINE locals == compilers[level].locals
           I == {i \in 1..Len(locals) : locals[i].name = name}
<1>1. Len(locals) \in Nat
  <2>1. compilers[level] \in FunctionCompiler
    BY DEF Inv, Scoped, Depth
  <2> QED  BY <2>1 DEF FunctionCompiler
<1>2. LocalIndex(level, name) = IF I # {} THEN Max(I) ELSE 0
  BY DEF LocalIndex, SelectLastInSeq
<1>3. I # {} => Max(I) \in I
  <2>1. I \subseteq 0..Len(locals)
    BY <1>1
  <2> HIDE DEF I
  <2> QED  BY <1>1, <2>1, MaxFacts
<1> QED  BY <1>1, <1>2, <1>3

LEMMA OwnerFacts ==
  ASSUME NEW plan, Inv(plan), agenda # <<>>, NEW name
  PROVE  /\ Depth \in Nat \ {0} /\ Owner(name) \in 0..Depth
         /\ Owner(name) # 0 => LocalIndex(Owner(name), name) # 0
<1> DEFINE L == {0} \cup {level \in 1..Depth : LocalIndex(level, name) # 0}
<1>1. Depth \in Nat \ {0}
  BY AtHand
<1>2. L \subseteq 0..Depth /\ L # {}
  BY <1>1
<1>3. Owner(name) = Max(L)
  BY DEF Owner
<1>4. Max(L) \in L
  <2> HIDE DEF L
  <2> QED  BY <1>1, <1>2, MaxFacts
<1> QED  BY <1>1, <1>2, <1>3, <1>4

AccessTasks(assigned, getOp, setOp, argument) ==
  (IF assigned THEN <<Expression, Code(<<setOp, argument>>)>> ELSE <<Code(<<getOp, argument>>)>>)
  \o <<Rest>>

LEMMA AccessFacts ==
  ASSUME NEW getOp, NEW setOp, NEW argument, Access(getOp, setOp, argument)
  PROVE  \E n \in Nat, assigned \in BOOLEAN :
           /\ Advance(n)
           /\ Then(AccessTasks(assigned, getOp, setOp, argument))
<1> DEFINE assigned == CanAssign /\ TokenAt(current + 2)[1] = "Equal"
           n == 1 + OneIf(assigned)
           T == (IF assigned THEN <<Expression, Code(<<setOp, argument>>)>>
                 ELSE <<Code(<<getOp, argument>>)>>) \o <<Rest>>
<1>1. Advance(n) /\ Then(T)
  BY DEF Access
<1>2. n \in Nat
  BY OneIfIs
<1>3. T = AccessTasks(TRUE, getOp, setOp, argument) \/ T = AccessTasks(FALSE, getOp, setOp, argument)
  BY DEF AccessTasks
<1> HIDE DEF n, T
<1> QED  BY <1>1, <1>2, <1>3

LEMMA AccessEasy ==
  ASSUME NEW assigned \in BOOLEAN, NEW getOp, NEW setOp, NEW argument, NEW e, NEW f, NEW scope,
         WholeCode(<<getOp, argument>>, Len(f.constants)),
         WholeCode(<<setOp, argument>>, Len(f.constants))
  PROVE  Easy(AccessTasks(assigned, getOp, setOp, argument), e, f, scope)
<1> DEFINE U == IF assigned THEN <<Expression, Code(<<setOp, argument>>)>>
                ELSE <<Code(<<getOp, argument>>)>>
<1>1. Easy(U, e, f, scope) /\ Easy(<<Rest>>, e, f, scope)
  BY EasyTasks, EasyLists
<1> HIDE DEF U
<1>2. Easy(U \o <<Rest>>, e, f, scope)
  BY <1>1, EasyLists
<1> QED  BY <1>2 DEF AccessTasks, U

LEMMA NamedLocalStep ==
  ASSUME NEW plan, Inv(plan), Task("Precedence"), NEW name, NamedLocal(name)
  PROVE  \E p : Inv(p)'
<1> DEFINE index == LocalIndex(Depth, name)
           argument == AsByte(index - 1)
           errors == InitializerErrors(Depth, index)
<1>1. /\ Access(OpGetLocal, OpSetLocal, argument) /\ Report(errors)
      /\ UNCHANGED <<compilers, functions>>
  BY DEF NamedLocal
<1>2. /\ agenda # <<>> /\ agenda[1][1] \in SteadyNames /\ Operands(agenda[1]) = {}
      /\ plan[2] = plan[1] /\ agenda[1][1] # "Script"
  BY Names, OpenlessTask, SteadyTask DEF SteadyNames
<1>3. argument \in Byte
  <2>1. Depth \in 1..Depth
    BY <1>2, OwnerFacts
  <2>2. index \in 0..Len(compilers[Depth].locals)
    BY <2>1, LocalIndexFacts
  <2>3. index - 1 \in Int
    BY <2>2
  <2> QED  BY <2>3, AsByteIs
<1> HIDE DEF argument, errors
<1>4. PICK n \in Nat, assigned \in BOOLEAN :
        Advance(n) /\ Then(AccessTasks(assigned, OpGetLocal, OpSetLocal, argument))
  BY <1>1, AccessFacts
<1> DEFINE T == AccessTasks(assigned, OpGetLocal, OpSetLocal, argument)
<1>5. Easy(T, plan[1], Target, Scope.scopeDepth)
  BY <1>3, WholeOperand, AccessEasy
<1> HIDE DEF T
<1>6. AllSuit(T, plan[1], Target, Scope.scopeDepth) /\ AllAwaited(T, Target)
  BY <1>5, FreeAwaited DEF Easy
<1> QED  BY <1>1, <1>2, <1>4, <1>6, Reading DEF T

LEMMA NamedGlobalStep ==
  ASSUME NEW plan, Inv(plan), Task("Precedence"), NEW name \in Name, NamedGlobal(name)
  PROVE  \E p : Inv(p)'
<1> DEFINE argument == ConstantIndex(Target)
           errors == ConstantErrors(Target)
           g == AddConstant(Target, String(name))
<1>1. /\ Access(OpGetGlobal, OpSetGlobal, argument) /\ Generate(g) /\ Report(errors)
      /\ UNCHANGED compilers
  BY DEF NamedGlobal
<1>2. /\ agenda # <<>> /\ agenda[1][1] \in SteadyNames /\ Operands(agenda[1]) = {}
  BY Names, OpenlessTask
<1>3. Target \in Emittable /\ Pools(Target)
  BY <1>2, AtHand
<1>4. String(name) \in Constant
  BY DEF String, Constant, Literal
<1>5. /\ g \in Emittable
      /\ Len(g.constants) <= ByteSize /\ Len(Target.constants) <= Len(g.constants)
      /\ g.upvalues = Target.upvalues /\ g.arity = Target.arity
      /\ argument \in 0..(Len(g.constants) - 1) /\ argument \in Byte
      /\ Continues(Target, g, {}, {})
  BY <1>3, <1>4, AddConstantFacts DEF Pools
<1>6. argument < Len(g.constants)
  BY <1>5, EmittableFacts
<1> HIDE DEF argument, errors, g
<1>7. GrownTo(Target, g)
  BY <1>3, <1>5 DEF GrownTo, Pools
<1>8. PICK n \in Nat, assigned \in BOOLEAN :
        Advance(n) /\ Then(AccessTasks(assigned, OpGetGlobal, OpSetGlobal, argument))
  BY <1>1, AccessFacts
<1> DEFINE T == AccessTasks(assigned, OpGetGlobal, OpSetGlobal, argument)
<1>9. Easy(T, plan[1], g, Scope.scopeDepth)
  <2>1. /\ WholeCode(<<OpGetGlobal, argument>>, Len(g.constants))
        /\ WholeCode(<<OpSetGlobal, argument>>, Len(g.constants))
    BY <1>5, <1>6, WholeOperand
  <2> QED  BY <2>1, AccessEasy
<1>10. Write(n, g, errors, T)
  BY <1>1, <1>8 DEF Write
<1> HIDE DEF T
<1> QED  BY <1>2, <1>5, <1>7, <1>9, <1>10, ConstantStep

-----------------------------------------------------------------------------
(* Captured variables. *)

CaptureWith(level, spec) ==
  LET upvalues == functions[compilers[level].function].upvalues
      known == SelectInSeq(upvalues, LAMBDA upvalue : upvalue = spec)
      full == known = 0 /\ Len(upvalues) >= ByteSize
  IN [index |-> IF full THEN 0 ELSE IF known > 0 THEN known - 1 ELSE Len(upvalues),
      upvalues |-> IF full \/ known > 0 THEN upvalues ELSE Append(upvalues, spec),
      errors |-> IF full THEN <<"captures too many values">> ELSE <<>>]

SpecAt(owner, index, c, level) ==
  IF level = owner + 1 THEN Local(AsByte(index - 1)) ELSE Outer(c[level - 1].index)

IsCapture(owner, index, c, m) ==
  c = [level \in (owner + 1)..m |-> CaptureWith(level, SpecAt(owner, index, c, level))]

LEMMA CaptureExists ==
  ASSUME NEW owner \in Nat, NEW index, NEW last \in Nat
  PROVE  \E c : IsCapture(owner, index, c, last)
<1> DEFINE Bad == {m \in Nat : ~ \E c : IsCapture(owner, index, c, m)}
<1> SUFFICES ASSUME Bad # {} PROVE FALSE
  OBVIOUS
<1>1. PICK m \in Bad : \A n \in Bad : m <= n
  <2>1. Bad \subseteq Nat
    OBVIOUS
  <2> HIDE DEF Bad
  <2> QED  BY <2>1, Least
<1>2. CASE m < owner + 1
  <2> DEFINE c == [level \in (owner + 1)..m |-> 0]
  <2>1. (owner + 1)..m = {}
    BY <1>2
  <2>2. c = [level \in (owner + 1)..m |-> CaptureWith(level, SpecAt(owner, index, c, level))]
    BY <2>1
  <2> HIDE DEF c
  <2>3. IsCapture(owner, index, c, m)
    BY <2>2 DEF IsCapture
  <2> QED  BY <1>1, <2>3
<1>3. CASE ~(m < owner + 1)
  <2>1. m \in Nat /\ m - 1 \in Nat /\ m >= owner + 1
    BY <1>3
  <2>2. m - 1 \notin Bad
    BY <1>1, <2>1
  <2>3. PICK c : IsCapture(owner, index, c, m - 1)
    BY <2>1, <2>2
  <2> DEFINE d == [level \in (owner + 1)..m |->
                     IF level = m THEN CaptureWith(m, SpecAt(owner, index, c, m)) ELSE c[level]]
  <2>4. ASSUME NEW level \in (owner + 1)..m
        PROVE  d[level] = CaptureWith(level, SpecAt(owner, index, d, level))
    <3>1. SpecAt(owner, index, d, level) = SpecAt(owner, index, c, level)
      <4>1. CASE level = owner + 1
        BY <4>1 DEF SpecAt
      <4>2. CASE level # owner + 1
        <5>1. level - 1 \in (owner + 1)..m /\ level - 1 # m
          BY <2>1, <4>2
        <5>2. d[level - 1] = c[level - 1]
          BY <5>1
        <5> QED  BY <4>2, <5>2 DEF SpecAt
      <4> QED  BY <4>1, <4>2
    <3>2. CASE level = m
      <4>1. d[level] = CaptureWith(m, SpecAt(owner, index, c, m))
        BY <3>2
      <4> QED  BY <3>1, <3>2, <4>1
    <3>3. CASE level # m
      <4>1. level \in (owner + 1)..(m - 1) /\ d[level] = c[level]
        BY <2>1, <3>3
      <4> HIDE DEF d
      <4>2. c[level] = CaptureWith(level, SpecAt(owner, index, c, level))
        BY <2>3, <4>1 DEF IsCapture
      <4> QED  BY <3>1, <4>1, <4>2
    <3> QED  BY <3>2, <3>3
  <2>5. d = [level \in (owner + 1)..m |-> d[level]]
    OBVIOUS
  <2> HIDE DEF d
  <2>6. IsCapture(owner, index, d, m)
    BY <2>4, <2>5 DEF IsCapture
  <2> QED  BY <1>1, <2>6
<1> QED  BY <1>2, <1>3

LEMMA CapturesAre ==
  ASSUME NEW owner \in Nat, NEW index, Depth \in Nat
  PROVE  IsCapture(owner, index, Captures(owner, index), Depth)
<1>1. \E c : IsCapture(owner, index, c, Depth)
  BY CaptureExists
<1>2. Captures(owner, index) = CHOOSE c : IsCapture(owner, index, c, Depth)
  BY DEF Captures, IsCapture, CaptureWith, SpecAt
<1> QED  BY <1>1, <1>2

FirstOf(s, x) ==
  LET I == {i \in 1..Len(s) : s[i] = x} IN IF I # {} THEN Min(I) ELSE 0

LEMMA FirstOfFacts ==
  ASSUME NEW S, NEW s \in Seq(S), NEW x
  PROVE  FirstOf(s, x) \in 0..Len(s)
<1> DEFINE I == {i \in 1..Len(s) : s[i] = x}
<1>1. FirstOf(s, x) = IF I # {} THEN Min(I) ELSE 0
  BY DEF FirstOf
<1>2. I \subseteq 1..Len(s) /\ I \subseteq Nat /\ Len(s) \in Nat
  OBVIOUS
<1> HIDE DEF I
<1>3. I # {} => Min(I) \in I
  BY <1>2, MinFacts
<1>4. \A i \in I : i \in 0..Len(s)
  <2>1. \A i \in 1..Len(s) : i \in 0..Len(s)
    BY <1>2
  <2> QED  BY <1>2, <2>1
<1>5. 0 \in 0..Len(s)
  BY <1>2
<1> QED  BY <1>1, <1>3, <1>4, <1>5

LEMMA CaptureFacts ==
  ASSUME NEW plan, Inv(plan), NEW level \in 1..Depth, NEW spec \in UpvalueSpec
  PROVE  LET c == CaptureWith(level, spec)
         IN /\ c.index \in Byte
            /\ c.upvalues \in Seq(UpvalueSpec) /\ Len(c.upvalues) <= ByteSize
<1> DEFINE f == functions[compilers[level].function]
           upvalues == f.upvalues
           known == SelectInSeq(upvalues, LAMBDA upvalue : upvalue = spec)
<1>1. f \in Emittable /\ Pools(f)
  BY DEF Inv, Scoped, Generated, Depth
<1>2. upvalues \in Seq(UpvalueSpec) /\ Len(upvalues) \in Nat /\ Len(upvalues) <= ByteSize
  BY SMTT(30), <1>1, EmittableFacts DEF Pools
<1>3. known \in 0..Len(upvalues)
  <2>1. known = FirstOf(upvalues, spec)
    BY DEF SelectInSeq, FirstOf
  <2> HIDE DEF known, upvalues
  <2> QED  BY <1>2, <2>1, FirstOfFacts
<1> DEFINE full == known = 0 /\ Len(upvalues) >= ByteSize
           i == IF full THEN 0 ELSE IF known > 0 THEN known - 1 ELSE Len(upvalues)
           u == IF full \/ known > 0 THEN upvalues ELSE Append(upvalues, spec)
<1>4. CaptureWith(level, spec).index = i /\ CaptureWith(level, spec).upvalues = u
  BY DEF CaptureWith
<1> HIDE DEF upvalues, known
<1>5. ByteSize \in 1..256
  BY Sizes
<1>6. i \in Byte
  <2>1. i = 0 \/ (known > 0 /\ i = known - 1) \/ (Len(upvalues) < ByteSize /\ i = Len(upvalues))
    BY <1>2, <1>3, <1>5
  <2> HIDE DEF i
  <2>2. i \in Nat /\ i <= 255
    BY <1>2, <1>3, <1>5, <2>1
  <2> QED  BY <2>2 DEF Byte
<1>7. u \in Seq(UpvalueSpec) /\ Len(u) <= ByteSize
  BY <1>2, <1>3, <1>5
<1> QED  BY <1>4, <1>6, <1>7

LEMMA CaptureTypes ==
  ASSUME NEW plan, Inv(plan), agenda # <<>>, NEW owner \in Nat, NEW index \in Int,
         NEW level \in (owner + 1)..Depth
  PROVE  LET c == Captures(owner, index)[level]
         IN /\ c.index \in Byte
            /\ c.upvalues \in Seq(UpvalueSpec) /\ Len(c.upvalues) <= ByteSize
<1> DEFINE captures == Captures(owner, index)
           Good(l) == /\ captures[l].index \in Byte
                      /\ captures[l].upvalues \in Seq(UpvalueSpec)
                      /\ Len(captures[l].upvalues) <= ByteSize
           Bad == {l \in (owner + 1)..Depth : ~Good(l)}
<1>0. Depth \in Nat \ {0}
  BY AtHand
<1>1. IsCapture(owner, index, captures, Depth)
  BY <1>0, CapturesAre
<1> HIDE DEF captures
<1>2. \A l \in (owner + 1)..Depth : captures[l] = CaptureWith(l, SpecAt(owner, index, captures, l))
  BY <1>1 DEF IsCapture
<1>3. ASSUME Bad # {} PROVE FALSE
  <2>1. PICK l \in Bad : \A m \in Bad : l <= m
    <3>1. Bad \subseteq Nat
      BY <1>0
    <3> HIDE DEF Bad
    <3> QED  BY <1>3, <3>1, Least
  <2>2. l \in (owner + 1)..Depth /\ l \in 1..Depth /\ ~Good(l)
    BY <1>0
  <2>3. SpecAt(owner, index, captures, l) \in UpvalueSpec
    <3>1. CASE l = owner + 1
      <4>1. AsByte(index - 1) \in Byte
        BY AsByteIs
      <4> QED  BY <3>1, <4>1 DEF SpecAt, Local, UpvalueSpec
    <3>2. CASE l # owner + 1
      <4>1. l - 1 \in (owner + 1)..Depth /\ ~(l <= l - 1)
        BY <1>0, <2>2, <3>2
      <4>2. Good(l - 1)
        BY <2>1, <4>1
      <4> QED  BY <3>2, <4>2 DEF SpecAt, Outer, UpvalueSpec
    <3> QED  BY <3>1, <3>2
  <2> DEFINE spec == SpecAt(owner, index, captures, l)
  <2> HIDE DEF spec
  <2>4. captures[l] = CaptureWith(l, spec) /\ spec \in UpvalueSpec
    BY <1>2, <2>2, <2>3 DEF spec
  <2>5. Good(l)
    BY <2>2, <2>4, CaptureFacts
  <2> QED  BY <2>2, <2>5
<1>4. Good(level)
  BY <1>3
<1> QED  BY <1>4 DEF captures

(* A local of a level is captured. *)
Captured(c, index) ==
  [c EXCEPT !.locals =
     [c.locals EXCEPT ![index] = [c.locals[index] EXCEPT !.isCaptured = TRUE]]]

LEMMA CapturedFacts ==
  ASSUME NEW c, WellScoped(c), NEW index \in 1..Len(c.locals)
  PROVE  LET d == Captured(c, index)
         IN /\ WellScoped(d) /\ d.function = c.function /\ d.scopeDepth = c.scopeDepth
            /\ Settled(c) => Settled(d)
<1> DEFINE local == [c.locals[index] EXCEPT !.isCaptured = TRUE]
           locals == [c.locals EXCEPT ![index] = local]
           d == [c EXCEPT !.locals = locals]
<1>1. /\ c \in FunctionCompiler /\ c.locals \in Seq(LocalVariable) /\ Len(c.locals) \in Nat
      /\ c.scopeDepth \in Nat
  BY DEF WellScoped, FunctionCompiler
<1>2. c.locals[index] \in LocalVariable
  BY <1>1
<1>3. local \in LocalVariable /\ local.depth = c.locals[index].depth
  BY <1>2 DEF LocalVariable
<1>4. d = Captured(c, index)
  BY DEF Captured
<1> HIDE DEF local
<1>5. locals \in Seq(LocalVariable) /\ Len(locals) = Len(c.locals)
  BY <1>1, <1>3, Replaced
<1>6. \A k \in 1..Len(c.locals) : locals[k].depth = c.locals[k].depth
  BY <1>1, <1>3
<1> HIDE DEF locals
<1>7. /\ d \in FunctionCompiler /\ d.locals = locals
      /\ d.function = c.function /\ d.scopeDepth = c.scopeDepth
  BY <1>1, <1>5 DEF FunctionCompiler
<1> HIDE DEF d
<1>8. DOMAIN d.locals = 1..Len(c.locals) /\ DOMAIN c.locals = 1..Len(c.locals)
  BY <1>1, <1>5, <1>7
<1>9. Settled(c) => Settled(d)
  BY <1>6, <1>7, <1>8 DEF Settled
<1>10. Sorted(d)
  <2>1. Sorted(c)
    BY DEF WellScoped
  <2> QED  BY <1>6, <1>7, <1>8, <2>1 DEF Sorted
<1>11. \A k \in DOMAIN d.locals : d.locals[k].depth <= d.scopeDepth
  BY <1>6, <1>7, <1>8 DEF WellScoped
<1>12. d.scopeDepth = 0 => Settled(d)
  BY <1>7, <1>9 DEF WellScoped
<1> QED  BY <1>4, <1>7, <1>9, <1>10, <1>11, <1>12 DEF WellScoped

LEMMA OtherScope ==
  ASSUME NEW cs, NEW n, Scoped(cs, n), NEW k \in 1..Len(cs), NEW scope, WellScoped(scope),
         scope.function = cs[k].function, scope.scopeDepth = cs[k].scopeDepth,
         Settled(cs[k]) => Settled(scope)
  PROVE  LET cs2 == Updated(cs, k, scope)
         IN /\ Scoped(cs2, n) /\ Len(cs2) = Len(cs)
            /\ \A l \in 1..Len(cs) : /\ cs2[l].function = cs[l].function
                                     /\ cs2[l].scopeDepth = cs[l].scopeDepth
                                     /\ Settled(cs[l]) => Settled(cs2[l])
<1> DEFINE cs2 == [cs EXCEPT ![k] = scope]
<1>1. /\ cs \in Seq(FunctionCompiler) /\ Len(cs) \in Nat /\ Len(cs) > 0
      /\ \A l \in 1..Len(cs) : WellScoped(cs[l]) /\ cs[l].function \in 1..n
      /\ \A l, m \in 1..Len(cs) : l < m => cs[l].function < cs[m].function
      /\ \A l \in 1..(Len(cs) - 1) : Settled(cs[l])
      /\ scope \in FunctionCompiler
  BY DEF Scoped, WellScoped
<1>2. cs2 \in Seq(FunctionCompiler) /\ Len(cs2) = Len(cs)
  BY <1>1, Replaced
<1>3. cs2[k] = scope /\ \A l \in 1..Len(cs) : l # k => cs2[l] = cs[l]
  BY <1>1
<1>4. cs2 = Updated(cs, k, scope)
  BY DEF Updated
<1> HIDE DEF cs2
<1>5. \A l \in 1..Len(cs) : /\ WellScoped(cs2[l]) /\ cs2[l].function = cs[l].function
                            /\ cs2[l].scopeDepth = cs[l].scopeDepth
                            /\ Settled(cs[l]) => Settled(cs2[l])
  BY <1>1, <1>3
<1>6. \A l \in 1..(Len(cs) - 1) : Settled(cs2[l])
  BY <1>1, <1>5
<1> QED  BY <1>1, <1>2, <1>4, <1>5, <1>6 DEF Scoped

(* Every function gets other upvalues, or stays what it is. *)
OnlyUpvalues(fs, fs2) ==
  /\ Len(fs2) = Len(fs) /\ Generated(fs2)
  /\ \A k \in 1..Len(fs) : /\ fs2[k].code = fs[k].code /\ fs2[k].constants = fs[k].constants
                           /\ fs2[k].arity = fs[k].arity

Annotated(fs, fs2) ==
  /\ fs2 = [k \in DOMAIN fs |-> fs2[k]]
  /\ \A k \in DOMAIN fs :
       \/ fs2[k] = fs[k]
       \/ \E u \in Seq(UpvalueSpec) :
            Len(u) <= ByteSize /\ fs2[k] = [fs[k] EXCEPT !.upvalues = u]

LEMMA UpvaluesGiven ==
  ASSUME NEW fs, Generated(fs), NEW fs2, Annotated(fs, fs2)
  PROVE  OnlyUpvalues(fs, fs2)
<1>1. /\ fs \in Seq(Emittable) /\ Len(fs) \in Nat /\ DOMAIN fs = 1..Len(fs)
      /\ \A k \in 1..Len(fs) : fs[k] \in Emittable /\ Pools(fs[k])
  BY DEF Generated
<1>2. ASSUME NEW k \in 1..Len(fs)
      PROVE  /\ fs2[k] \in Emittable /\ Pools(fs2[k])
             /\ fs2[k].code = fs[k].code /\ fs2[k].constants = fs[k].constants
             /\ fs2[k].arity = fs[k].arity
  <2> DEFINE f == fs[k]
  <2>1. f \in Emittable /\ Pools(f)
    BY <1>1
  <2>2. CASE fs2[k] = f
    BY <2>1, <2>2
  <2>3. CASE fs2[k] # f
    <3>1. PICK u \in Seq(UpvalueSpec) : Len(u) <= ByteSize /\ fs2[k] = [f EXCEPT !.upvalues = u]
      BY <1>1, <2>3 DEF Annotated
    <3> HIDE DEF f
    <3> QED  BY <2>1, <3>1 DEF Emittable, Pools, f
  <2> QED  BY <2>2, <2>3
<1>3. fs2 \in [1..Len(fs) -> Emittable]
  BY <1>1, <1>2 DEF Annotated
<1>4. fs2 \in Seq(Emittable) /\ Len(fs2) = Len(fs)
  BY <1>1, <1>3
<1> QED  BY <1>2, <1>4 DEF OnlyUpvalues, Generated

(* A step that changes no code, constant or scope depth. *)
LEMMA Annotating ==
  ASSUME NEW plan, Inv(plan), agenda # <<>>, agenda[1][1] \in SteadyNames,
         Operands(agenda[1]) = {},
         NEW n \in Nat, NEW T, NEW errors, NEW scope, NEW level \in 1..Depth,
         Advance(n), Report(errors), Then(T),
         Easy(T, plan[1], functions'[Scope.function], Scope.scopeDepth),
         OnlyUpvalues(functions, functions'),
         compilers' = Updated(compilers, level, scope),
         WellScoped(scope), scope.function = compilers[level].function,
         scope.scopeDepth = compilers[level].scopeDepth,
         Settled(compilers[level]) => Settled(scope)
  PROVE  \E p : Inv(p)'
<1> DEFINE q == plan[1]
           fs2 == functions'
           cs2 == compilers'
           k0 == Scope.function
<1>1. /\ Parsed /\ Planned(plan, agenda, compilers, functions)
      /\ Scoped(compilers, Len(functions)) /\ Generated(functions)
  BY DEF Inv
<1>2. /\ q \in Entry /\ plan[2] = q /\ agenda[1][1] # "Script"
      /\ FunctionOf(q, compilers) = k0 /\ ScopeOf(q) = Scope.scopeDepth
      /\ Len(q.scopes) = Depth /\ Depth \in Nat \ {0} /\ k0 \in 1..Len(functions)
      /\ diagnostics = <<>> => Sound(plan, agenda, compilers, functions)
  BY AtHand, SteadyTask DEF SteadyNames
<1>3. agenda' = T \o Tail(agenda) /\ source' = source
  BY DEF Then
<1>4. Parsed' /\ (diagnostics' = <<>> => diagnostics = <<>>)
  BY <1>1, <1>3, ParsedNext
<1>5. /\ Scoped(cs2, Len(functions)) /\ Len(cs2) = Depth
      /\ \A l \in 1..Depth : /\ cs2[l].function = compilers[l].function
                             /\ cs2[l].scopeDepth = compilers[l].scopeDepth
                             /\ Settled(compilers[l]) => Settled(cs2[l])
  <2>1. cs2 = Updated(compilers, level, scope) /\ level \in 1..Len(compilers)
    BY DEF Depth
  <2> HIDE DEF cs2
  <2> QED  BY <1>1, <2>1, OtherScope DEF Depth
<1>6. /\ Len(fs2) = Len(functions) /\ Generated(fs2) /\ Len(functions) \in Nat
      /\ \A k \in 1..Len(functions) :
           /\ functions[k] \in Emittable /\ fs2[k].code = functions[k].code
           /\ fs2[k].constants = functions[k].constants /\ fs2[k].arity = functions[k].arity
  BY <1>1 DEF OnlyUpvalues, Generated
<1>7. Grown(functions, fs2)
  <2>1. \A k \in 1..Len(functions) : Len(functions[k].constants) <= Len(functions[k].constants)
    BY <1>6, EmittableFacts
  <2>2. Len(functions) <= Len(fs2)
    BY <1>6
  <2> QED  BY <1>6, <2>1, <2>2 DEF Grown
<1>8. /\ FunctionOf(q, cs2) = k0 /\ SameLevels(plan[2], compilers, cs2)
  <2>1. Depth \in 1..Depth
    BY <1>2
  <2> QED  BY <1>2, <1>5, <2>1 DEF FunctionOf, SameLevels
<1>9. Matches(q, cs2)
  <2>1. Matches(q, compilers)
    BY <1>1 DEF Planned
  <2>2. Depth \in 1..Depth /\ Depth = Len(compilers)
    BY <1>2 DEF Depth
  <2> QED  BY <1>2, <1>5, <2>1, <2>2 DEF Matches
<1>10. AllSuit(T, q, fs2[k0], Scope.scopeDepth) /\ AllAwaited(T, fs2[k0])
  BY FreeAwaited DEF Easy
<1>11. Fits(T, q, plan[2], agenda[1][1] = "Script") /\ AllWanted(T, fs2[k0], Scope.scopeDepth)
  BY <1>2, <1>10, SteadyFits
<1>12. Len(plan[2].scopes) <= Len(q.scopes)
  BY <1>2
<1> HIDE DEF q, fs2, cs2, k0
<1>13. Leads(plan, agenda, compilers, functions, T, q, cs2, fs2)
  <2>1. agenda # <<>> /\ Scoped(cs2, Len(fs2))
    BY <1>5, <1>6
  <2> QED  BY <1>1, <1>2, <1>6, <1>7, <1>8, <1>9, <1>11, <1>12, <2>1 DEF Leads
<1>14. ASSUME diagnostics = <<>>
       PROVE  Transforms(plan, agenda, compilers, functions, T, q, cs2, fs2, {}, {})
  <2>1. Worked(functions, fs2, FunctionOf(plan[1], compilers), {}, {})
    <3> SUFFICES ASSUME NEW k \in 1..Len(functions)
                 PROVE  /\ Continues(functions[k], fs2[k], {}, {})
                        /\ functions[k].arity <= 255 => fs2[k].arity <= 255
      BY DEF Worked
    <3> QED  BY <1>6, SameCode
  <2>2. \A k \in (Len(functions) + 1)..Len(fs2) : Begun(fs2[k])
    BY <1>6
  <2>3. EndsKept(functions, fs2, compilers, cs2)
    <3> SUFFICES ASSUME NEW k \in 1..Len(fs2), Ended(k, cs2)
                 PROVE  /\ k \in 1..Len(functions) /\ Ended(k, compilers)
                        /\ fs2[k].code = functions[k].code
      BY DEF EndsKept
    <3> QED  BY <1>5, <1>6 DEF Ended, Depth
  <2>4. AllAwaited(T, fs2[FunctionOf(q, cs2)])
    BY <1>8, <1>10
  <2>5. Handed(agenda[1], T, {}, {}) /\ {} \cup (Operands(agenda[1]) \ {}) = {}
    BY DEF Handed
  <2> QED  BY <2>1, <2>2, <2>3, <2>4, <2>5 DEF Transforms
<1> QED  BY <1>3, <1>4, <1>13, <1>14, Stepping DEF cs2, fs2

LEMMA NamedUpvalueStep ==
  ASSUME NEW plan, Inv(plan), Task("Precedence"), NEW name, NamedUpvalue(name)
  PROVE  \E p : Inv(p)'
<1> DEFINE owner == Owner(name)
           index == LocalIndex(owner, name)
           captures == Captures(owner, index)
           argument == captures[Depth].index
           scope == Captured(compilers[owner], index)
           errors == InitializerErrors(owner, index)
                     \o FlattenSeq([n \in 1..(Depth - owner) |-> captures[owner + n].errors])
           Levels(k) == {level \in DOMAIN captures : compilers[level].function = k}
<1>1. /\ owner \in 1..(Depth - 1)
      /\ Access(OpGetUpvalue, OpSetUpvalue, argument)
      /\ compilers' = [compilers EXCEPT ![owner].locals[index].isCaptured = TRUE]
      /\ functions' = [k \in DOMAIN functions |->
           IF Levels(k) = {} THEN functions[k]
           ELSE [functions[k] EXCEPT !.upvalues = captures[Max(Levels(k))].upvalues]]
      /\ Report(errors)
  BY DEF NamedUpvalue
<1>2. /\ agenda # <<>> /\ agenda[1][1] \in SteadyNames /\ Operands(agenda[1]) = {}
  BY Names, OpenlessTask
<1>3. /\ Scoped(compilers, Len(functions)) /\ Generated(functions)
      /\ compilers \in Seq(FunctionCompiler)
  BY DEF Inv, Scoped
<1>4. /\ Depth \in Nat \ {0} /\ owner \in Nat /\ owner \in 1..Depth
      /\ Depth \in (owner + 1)..Depth /\ index # 0
  BY <1>1, <1>2, OwnerFacts
<1>5. index \in 1..Len(compilers[owner].locals) /\ index \in Int
  <2>1. index \in 0..Len(compilers[owner].locals)
    BY <1>4, LocalIndexFacts
  <2> QED  BY <1>4, <2>1
<1>6. WellScoped(compilers[owner])
  BY <1>3, <1>4 DEF Scoped, Depth
<1>7. compilers' = Updated(compilers, owner, scope)
  BY <1>1 DEF Updated, Captured
<1>8. /\ WellScoped(scope) /\ scope.function = compilers[owner].function
      /\ scope.scopeDepth = compilers[owner].scopeDepth
      /\ Settled(compilers[owner]) => Settled(scope)
  BY <1>5, <1>6, CapturedFacts
<1> HIDE DEF owner, index, scope, errors
<1>9. DOMAIN captures = (owner + 1)..Depth
  <2>1. IsCapture(owner, index, captures, Depth)
    BY <1>4, CapturesAre
  <2> HIDE DEF captures
  <2> QED  BY <2>1 DEF IsCapture
<1>10. \A level \in (owner + 1)..Depth :
         /\ captures[level].index \in Byte
         /\ captures[level].upvalues \in Seq(UpvalueSpec)
         /\ Len(captures[level].upvalues) <= ByteSize
  BY <1>2, <1>4, <1>5, CaptureTypes
<1> HIDE DEF captures
<1>11. \A k : Levels(k) # {} => Max(Levels(k)) \in (owner + 1)..Depth
  <2> SUFFICES ASSUME NEW k, Levels(k) # {} PROVE Max(Levels(k)) \in (owner + 1)..Depth
    OBVIOUS
  <2> DEFINE L == Levels(k)
  <2>1. L # {} /\ L \subseteq 0..Depth /\ L \subseteq (owner + 1)..Depth
    BY <1>4, <1>9
  <2> HIDE DEF L
  <2>2. Max(L) \in L
    BY <1>4, <2>1, MaxFacts
  <2> QED  BY <2>1, <2>2 DEF L
<1> HIDE DEF Levels
<1>12. OnlyUpvalues(functions, functions')
  <2> DEFINE fs2 == functions'
  <2>1. fs2 = [k \in DOMAIN functions |-> fs2[k]]
    BY <1>1
  <2>2. ASSUME NEW k \in DOMAIN functions
        PROVE  \/ functions'[k] = functions[k]
               \/ \E u \in Seq(UpvalueSpec) :
                    Len(u) <= ByteSize /\ functions'[k] = [functions[k] EXCEPT !.upvalues = u]
    <3>1. CASE Levels(k) = {}
      BY <1>1, <3>1
    <3>2. CASE Levels(k) # {}
      <4>1. functions'[k] = [functions[k] EXCEPT !.upvalues = captures[Max(Levels(k))].upvalues]
        BY <1>1, <3>2
      <4>2. /\ captures[Max(Levels(k))].upvalues \in Seq(UpvalueSpec)
            /\ Len(captures[Max(Levels(k))].upvalues) <= ByteSize
        BY <1>10, <1>11, <3>2
      <4> QED  BY <4>1, <4>2
    <3> QED  BY <3>1, <3>2
  <2>3. Annotated(functions, fs2)
    BY <2>1, <2>2 DEF Annotated
  <2> HIDE DEF fs2
  <2>4. OnlyUpvalues(functions, fs2)
    BY <1>3, <2>3, UpvaluesGiven
  <2> QED  BY <2>4 DEF fs2
<1>13. argument \in Byte
  BY <1>4, <1>10
<1>14. PICK n \in Nat, assigned \in BOOLEAN :
         Advance(n) /\ Then(AccessTasks(assigned, OpGetUpvalue, OpSetUpvalue, argument))
  BY <1>1, AccessFacts
<1> DEFINE T == AccessTasks(assigned, OpGetUpvalue, OpSetUpvalue, argument)
<1>15. Easy(T, plan[1], functions'[Scope.function], Scope.scopeDepth)
  BY <1>13, WholeOperand, AccessEasy
<1>16. Then(T) /\ Report(errors)
  BY <1>1, <1>14
<1> HIDE DEF T, argument
<1> QED  BY <1>2, <1>4, <1>7, <1>8, <1>12, <1>14, <1>15, <1>16, Annotating

LEMMA NamedStep ==
  ASSUME NEW plan, Inv(plan), NamedVariable
  PROVE  \E p : Inv(p)'
<1> DEFINE name == Lexeme(CurrentToken)
<1>1. Task("Precedence") /\ (NamedLocal(name) \/ NamedUpvalue(name) \/ NamedGlobal(name))
  BY DEF NamedVariable, Operand
<1>2. name \in Name
  BY TokenFacts DEF Inv, CurrentToken
<1> HIDE DEF name
<1> QED  BY <1>1, <1>2, NamedLocalStep, NamedUpvalueStep, NamedGlobalStep

-----------------------------------------------------------------------------
(* Scopes. *)

LEMMA DeclareFacts ==
  ASSUME WellScoped(Scope), Settled(Scope), NEW name \in Name
  PROVE  LET d == DeclareVariable(name)
         IN WellScoped(d) /\ d.function = Scope.function /\ d.scopeDepth = Scope.scopeDepth
<1> DEFINE c == Scope
           n == Len(c.locals)
           local == [name |-> name, depth |-> -1, isCaptured |-> FALSE]
           locals == Append(c.locals, local)
           d == [c EXCEPT !.locals = locals]
<1>1. CASE DeclareVariable(name) = Scope
  BY <1>1
<1>2. CASE DeclareVariable(name) # Scope
  <2>1. DeclareVariable(name) = d /\ c.scopeDepth # 0
    BY <1>2 DEF DeclareVariable
  <2>2. /\ c \in FunctionCompiler /\ c.locals \in Seq(LocalVariable) /\ n \in Nat
        /\ c.scopeDepth \in Nat /\ DOMAIN c.locals = 1..n
    BY DEF WellScoped, FunctionCompiler
  <2>3. local \in LocalVariable /\ local.depth = -1
    BY DEF LocalVariable
  <2> HIDE DEF local
  <2>4. \A k \in 1..n : c.locals[k].depth \in Nat
    <3>1. \A k \in 1..n : c.locals[k] \in LocalVariable /\ c.locals[k].depth # -1
      BY <2>2 DEF Settled
    <3> QED  BY <3>1 DEF LocalVariable
  <2>5. Sorted(c) /\ \A k \in 1..n : c.locals[k].depth <= c.scopeDepth
    BY <2>2 DEF WellScoped
  <2> HIDE DEF c
  <2>6. /\ locals \in Seq(LocalVariable) /\ Len(locals) = n + 1 /\ DOMAIN locals = 1..(n + 1)
        /\ \A k \in 1..n : locals[k] = c.locals[k]
        /\ locals[n + 1] = local
    BY <2>2, <2>3
  <2> HIDE DEF locals
  <2>7. /\ d \in FunctionCompiler /\ d.locals = locals
        /\ d.function = c.function /\ d.scopeDepth = c.scopeDepth
    BY <2>2, <2>6 DEF FunctionCompiler
  <2> HIDE DEF d
  <2>8. \A k \in 1..(n + 1) : k \in 1..n \/ k = n + 1
    BY <2>2
  <2>9. Sorted(d)
    <3> SUFFICES ASSUME NEW i \in 1..(n + 1), NEW j \in 1..(n + 1), i < j
                 PROVE  /\ locals[i].depth >= 0
                        /\ locals[j].depth = -1 \/ locals[i].depth <= locals[j].depth
      BY <2>6, <2>7 DEF Sorted
    <3>1. i \in 1..n /\ locals[i].depth \in Nat
      BY SMTT(30), <2>2, <2>4, <2>6
    <3>2. CASE j = n + 1
      BY <2>3, <2>6, <3>1, <3>2
    <3>3. CASE j \in 1..n
      BY <2>2, <2>5, <2>6, <3>1, <3>3 DEF Sorted
    <3> QED  BY <2>8, <3>2, <3>3
  <2>10. \A k \in DOMAIN d.locals : d.locals[k].depth <= d.scopeDepth
    BY <2>2, <2>3, <2>5, <2>6, <2>7, <2>8
  <2>11. WellScoped(d)
    BY <2>1, <2>7, <2>9, <2>10 DEF WellScoped
  <2> QED  BY <2>1, <2>7, <2>11 DEF c
<1> QED  BY <1>1, <1>2

LEMMA MarkFacts ==
  ASSUME NEW c, WellScoped(c)
  PROVE  LET d == MarkInitialized(c)
         IN /\ WellScoped(d) /\ Settled(d)
            /\ d.function = c.function /\ d.scopeDepth = c.scopeDepth
<1> DEFINE n == Len(c.locals)
           local == [c.locals[n] EXCEPT !.depth = c.scopeDepth]
           locals == [c.locals EXCEPT ![n] = local]
           d == [c EXCEPT !.locals = locals]
<1>1. CASE c.scopeDepth = 0
  BY <1>1 DEF MarkInitialized, WellScoped
<1>2. CASE c.scopeDepth # 0
  <2>1. MarkInitialized(c) = d
    BY <1>2 DEF MarkInitialized
  <2>2. /\ c \in FunctionCompiler /\ c.locals \in Seq(LocalVariable) /\ n \in Nat
        /\ c.scopeDepth \in Nat /\ DOMAIN c.locals = 1..n
    BY DEF WellScoped, FunctionCompiler
  <2>3. n \in 1..n => local \in LocalVariable /\ local.depth = c.scopeDepth
    <3> DEFINE last == c.locals[n]
    <3>1. n \in 1..n => last \in LocalVariable
      BY <2>2
    <3> HIDE DEF last
    <3>2. n \in 1..n => LET l == [last EXCEPT !.depth = c.scopeDepth]
                        IN l \in LocalVariable /\ l.depth = c.scopeDepth
      BY <2>2, <3>1 DEF LocalVariable
    <3> QED  BY <3>2 DEF last
  <2> HIDE DEF local
  <2>4. locals \in Seq(LocalVariable) /\ Len(locals) = n /\ DOMAIN locals = 1..n
    <3>1. CASE n \in 1..n
      BY <2>2, <2>3, <3>1, Replaced
    <3>2. CASE n \notin 1..n
      <4>1. locals = c.locals
        BY <2>2, <3>2
      <4> QED  BY <2>2, <4>1
    <3> QED  BY <3>1, <3>2
  <2>5. \A k \in 1..n : /\ locals[k] = IF k = n THEN local ELSE c.locals[k]
                        /\ k = n => n \in 1..n
    BY <2>2
  <2> HIDE DEF locals
  <2>6. /\ d \in FunctionCompiler /\ d.locals = locals
        /\ d.function = c.function /\ d.scopeDepth = c.scopeDepth
    BY <2>2, <2>4 DEF FunctionCompiler
  <2> HIDE DEF d
  <2>7. /\ Sorted(c) /\ \A k \in 1..n : c.locals[k].depth <= c.scopeDepth
        /\ \A k \in 1..n : c.locals[k].depth \in Nat \cup {-1}
    <3>1. \A k \in 1..n : c.locals[k] \in LocalVariable
      BY <2>2
    <3>2. \A k \in 1..n : c.locals[k].depth \in Nat \cup {-1}
      BY <3>1 DEF LocalVariable
    <3> QED  BY <2>2, <3>2 DEF WellScoped
  <2>8. \A k \in 1..n : k # n => c.locals[k].depth \in Nat
    <3> SUFFICES ASSUME NEW k \in 1..n, k # n PROVE c.locals[k].depth >= 0
      BY <2>7
    <3>1. k < n /\ n \in 1..n
      BY <2>2
    <3> QED  BY <2>2, <2>7, <3>1 DEF Sorted
  <2>9. \A k \in 1..n : locals[k].depth \in Nat /\ locals[k].depth <= c.scopeDepth
    BY <2>2, <2>3, <2>5, <2>7, <2>8
  <2>10. Settled(d)
    BY <2>4, <2>6, <2>9 DEF Settled
  <2>11. Sorted(d)
    <3> SUFFICES ASSUME NEW i \in 1..n, NEW j \in 1..n, i < j
                 PROVE  locals[i].depth >= 0 /\ locals[i].depth <= locals[j].depth
      BY <2>4, <2>6 DEF Sorted
    <3>1. CASE j = n
      BY <2>2, <2>3, <2>5, <2>9, <3>1
    <3>2. CASE j # n
      <4>1. i # n /\ locals[i] = c.locals[i] /\ locals[j] = c.locals[j]
        BY <2>2, <2>5, <3>2
      <4>2. c.locals[j].depth = -1 \/ c.locals[i].depth <= c.locals[j].depth
        BY <2>2, <2>7 DEF Sorted
      <4>3. c.locals[j].depth \in Nat
        BY <2>8, <3>2
      <4> QED  BY <2>9, <4>1, <4>2, <4>3
    <3> QED  BY <3>1, <3>2
  <2>12. WellScoped(d)
    BY <2>4, <2>6, <2>9, <2>10, <2>11 DEF WellScoped
  <2> QED  BY <2>1, <2>6, <2>10, <2>12
<1> QED  BY <1>1, <1>2

(* The locals kept are those no deeper than the scope that goes on. *)
Narrowed(c, kept) ==
  [c EXCEPT !.scopeDepth = c.scopeDepth - 1, !.locals = SubSeq(c.locals, 1, kept)]

LEMMA NarrowedFacts ==
  ASSUME NEW c, WellScoped(c), Settled(c), c.scopeDepth > 0, NEW kept \in 0..Len(c.locals),
         kept # 0 => c.locals[kept].depth <= c.scopeDepth - 1
  PROVE  LET d == Narrowed(c, kept)
         IN /\ WellScoped(d) /\ Settled(d)
            /\ d.function = c.function /\ d.scopeDepth = c.scopeDepth - 1
<1> DEFINE n == Len(c.locals)
           locals == SubSeq(c.locals, 1, kept)
           d == Narrowed(c, kept)
<1>1. /\ c \in FunctionCompiler /\ c.locals \in Seq(LocalVariable) /\ n \in Nat
      /\ c.scopeDepth \in Nat /\ DOMAIN c.locals = 1..n
  BY DEF WellScoped, FunctionCompiler
<1>2. /\ locals \in Seq(LocalVariable) /\ Len(locals) = kept /\ DOMAIN locals = 1..kept
      /\ kept \in Nat /\ kept <= n
      /\ \A k \in 1..kept : locals[k] = c.locals[k]
  BY <1>1
<1> HIDE DEF locals
<1>3. /\ d \in FunctionCompiler /\ d.locals = locals
      /\ d.function = c.function /\ d.scopeDepth = c.scopeDepth - 1
  <2>1. d = [c EXCEPT !.scopeDepth = c.scopeDepth - 1, !.locals = locals]
    BY DEF Narrowed, locals
  <2>2. c.scopeDepth - 1 \in Nat
    BY <1>1
  <2> HIDE DEF d
  <2> QED  BY <1>1, <1>2, <2>1, <2>2 DEF FunctionCompiler
<1> HIDE DEF d
<1>4. \A k \in 1..n : c.locals[k].depth \in Nat
  <2>1. \A k \in 1..n : c.locals[k] \in LocalVariable /\ c.locals[k].depth # -1
    BY <1>1 DEF Settled
  <2> QED  BY <2>1 DEF LocalVariable
<1>5. Sorted(c)
  BY DEF WellScoped
<1>6. \A k \in 1..kept : k \in 1..n
  BY <1>1, <1>2
<1>7. \A k \in 1..kept : locals[k].depth \in Nat /\ locals[k].depth <= c.scopeDepth - 1
  <2> SUFFICES ASSUME NEW k \in 1..kept PROVE c.locals[k].depth <= c.scopeDepth - 1
    BY <1>2, <1>4, <1>6
  <2>1. kept # 0 /\ k \in 1..n /\ kept \in 1..n
    BY <1>1, <1>2
  <2>2. CASE k = kept
    BY <2>1, <2>2
  <2>3. CASE k # kept
    <3>1. k < kept
      BY <1>2, <2>3
    <3>2. c.locals[kept].depth = -1 \/ c.locals[k].depth <= c.locals[kept].depth
      BY <1>1, <1>5, <2>1, <3>1 DEF Sorted
    <3> QED  BY SMTT(30), <1>1, <1>4, <2>1, <3>2
  <2> QED  BY <2>2, <2>3
<1>8. Settled(d)
  BY <1>2, <1>3, <1>7 DEF Settled
<1>9. Sorted(d)
  <2> SUFFICES ASSUME NEW i \in 1..kept, NEW j \in 1..kept, i < j
               PROVE  /\ c.locals[i].depth >= 0
                      /\ c.locals[j].depth = -1 \/ c.locals[i].depth <= c.locals[j].depth
    BY <1>2, <1>3 DEF Sorted
  <2> QED  BY <1>1, <1>5, <1>6 DEF Sorted
<1>10. WellScoped(d)
  BY <1>2, <1>3, <1>7, <1>8, <1>9 DEF WellScoped
<1> QED  BY <1>3, <1>8, <1>10 DEF d

-----------------------------------------------------------------------------
(* The actions that change the scopes of the function at work. *)

LEMMA FitsLists ==
  ASSUME NEW q, NEW t
  PROVE  /\ q = t => Fits(<<>>, q, t, FALSE)
         /\ \A a : a[1] # "Script" /\ Follows(a, q, t) => Fits(<<a>>, q, t, FALSE)
         /\ \A a, b : /\ "Script" \notin {a[1], b[1]}
                      /\ Follows(a, q, q) /\ Follows(b, q, t)
                      => Fits(<<a, b>>, q, t, FALSE)
         /\ \A a, b, c : /\ "Script" \notin {a[1], b[1], c[1]}
                         /\ Follows(a, q, q) /\ Follows(b, q, q) /\ Follows(c, q, t)
                         => Fits(<<a, b, c>>, q, t, FALSE)
         /\ \A a, b, c, d : /\ "Script" \notin {a[1], b[1], c[1], d[1]}
                            /\ Follows(a, q, q) /\ Follows(b, q, q) /\ Follows(c, q, q)
                            /\ Follows(d, q, t)
                            => Fits(<<a, b, c, d>>, q, t, FALSE)
<1>1. q = t => Fits(<<>>, q, t, FALSE)
  BY Sequences DEF Fits
<1>2. ASSUME NEW a, a[1] # "Script", Follows(a, q, t) PROVE Fits(<<a>>, q, t, FALSE)
  <2> DEFINE T == <<a>>
  <2>1. IsSequence(T) /\ Len(T) = 1 /\ T[1] = a
    BY Sequences
  <2> HIDE DEF T
  <2> QED  BY <1>2, <2>1, Sequences DEF Fits
<1>3. ASSUME NEW a, NEW b, "Script" \notin {a[1], b[1]},
             Follows(a, q, q), Follows(b, q, t)
      PROVE  Fits(<<a, b>>, q, t, FALSE)
  <2> DEFINE T == <<a, b>>
  <2>1. IsSequence(T) /\ Len(T) = 2 /\ T[1] = a /\ T[2] = b
    BY Sequences
  <2>2. a[1] # "Script" /\ b[1] # "Script"
    BY <1>3
  <2> HIDE DEF T
  <2> QED  BY <1>3, <2>1, <2>2, Sequences DEF Fits
<1>4. ASSUME NEW a, NEW b, NEW c, "Script" \notin {a[1], b[1], c[1]},
             Follows(a, q, q), Follows(b, q, q), Follows(c, q, t)
      PROVE  Fits(<<a, b, c>>, q, t, FALSE)
  <2> DEFINE T == <<a, b, c>>
  <2>1. IsSequence(T) /\ Len(T) = 3 /\ T[1] = a /\ T[2] = b /\ T[3] = c
    BY Sequences
  <2>2. a[1] # "Script" /\ b[1] # "Script" /\ c[1] # "Script"
    BY <1>4
  <2> HIDE DEF T
  <2> QED  BY <1>4, <2>1, <2>2, Sequences DEF Fits
<1>5. ASSUME NEW a, NEW b, NEW c, NEW d,
             "Script" \notin {a[1], b[1], c[1], d[1]},
             Follows(a, q, q), Follows(b, q, q), Follows(c, q, q), Follows(d, q, t)
      PROVE  Fits(<<a, b, c, d>>, q, t, FALSE)
  <2> DEFINE T == <<a, b, c, d>>
  <2>1. IsSequence(T) /\ Len(T) = 4 /\ T[1] = a /\ T[2] = b /\ T[3] = c /\ T[4] = d
    BY Sequences
  <2>2. a[1] # "Script" /\ b[1] # "Script" /\ c[1] # "Script" /\ d[1] # "Script"
    BY <1>5
  <2> HIDE DEF T
  <2> QED  BY <1>5, <2>1, <2>2, Sequences DEF Fits
<1> QED  BY <1>1, <1>2, <1>3, <1>4, <1>5

(* Tasks that are wanted and wait for nothing, whatever the plan says.  *)
Light(T, f, scope) ==
  \A i \in 1..Len(T) : Wanted(T[i], f, scope) /\ Free(T[i])

LEMMA LightLists ==
  ASSUME NEW f, NEW scope
  PROVE  /\ Light(<<>>, f, scope)
         /\ \A a : Wanted(a, f, scope) /\ Free(a) => Light(<<a>>, f, scope)
         /\ \A a, b : Wanted(a, f, scope) /\ Free(a) /\ Wanted(b, f, scope) /\ Free(b)
                      => Light(<<a, b>>, f, scope)
         /\ \A a, b, c : /\ Wanted(a, f, scope) /\ Free(a) /\ Wanted(b, f, scope) /\ Free(b)
                         /\ Wanted(c, f, scope) /\ Free(c)
                         => Light(<<a, b, c>>, f, scope)
         /\ \A a, b, c, d : /\ Wanted(a, f, scope) /\ Free(a) /\ Wanted(b, f, scope) /\ Free(b)
                            /\ Wanted(c, f, scope) /\ Free(c) /\ Wanted(d, f, scope) /\ Free(d)
                            => Light(<<a, b, c, d>>, f, scope)
<1>1. ASSUME NEW T, NEW a, NEW b, NEW c, NEW d, OneOf(T, a, b, c, d),
             Wanted(a, f, scope), Free(a), Wanted(b, f, scope), Free(b),
             Wanted(c, f, scope), Free(c), Wanted(d, f, scope), Free(d)
      PROVE  Light(T, f, scope)
  BY <1>1 DEF OneOf, Light
<1>2. Light(<<>>, f, scope)
  BY Sequences DEF Light
<1>3. ASSUME NEW a, NEW b, NEW c, NEW d,
             Wanted(a, f, scope), Free(a), Wanted(b, f, scope), Free(b),
             Wanted(c, f, scope), Free(c), Wanted(d, f, scope), Free(d)
      PROVE  Light(<<a, b, c, d>>, f, scope)
  <2> DEFINE T == <<a, b, c, d>>
  <2>1. Len(T) = 4 /\ T[1] = a /\ T[2] = b /\ T[3] = c /\ T[4] = d
    BY Sequences
  <2> HIDE DEF T
  <2> QED  BY <1>3, <2>1 DEF Light
<1> QED  BY <1>1, <1>2, <1>3, Listed

(* A step whose tasks open no jump and patch none. *)
LEMMA ScopeStep ==
  ASSUME NEW plan, Inv(plan), agenda # <<>>, Operands(agenda[1]) = {},
         agenda[1][1] # "Script",
         NEW n \in Nat, NEW T, NEW q \in Entry, NEW scope, NEW g, NEW errors,
         Advance(n), Report(errors), Generate(g), SetScope(scope), Then(T),
         GrownTo(Target, g), WellScoped(scope), scope.function = Scope.function,
         q.scopes = Updated(plan[1].scopes, Depth, scope.scopeDepth),
         q.ready => Settled(scope),
         Fits(T, q, plan[2], FALSE), Light(T, g, scope.scopeDepth),
         errors = <<>> => /\ Continues(Target, g, {}, {})
                          /\ Target.arity <= 255 => g.arity <= 255
  PROVE  \E p : Inv(p)'
<1>1. Parsed /\ source' = source
  BY DEF Inv, Then
<1>2. Parsed' /\ (diagnostics' = <<>> => diagnostics = <<>> /\ errors = <<>>)
  BY <1>1, ParsedNext
<1>3. AllWanted(T, g, scope.scopeDepth) /\ AllFree(T)
  BY DEF Light, AllWanted, AllFree
<1>4. AllAwaited(T, g)
  BY <1>3, FreeAwaited
<1>5. Handed(agenda[1], T, {}, {})
  BY DEF Handed
<1>6. Fits(T, q, plan[2], agenda[1][1] = "Script")
  <2>1. (agenda[1][1] = "Script") = FALSE
    OBVIOUS
  <2> QED  BY <2>1
<1> QED  BY <1>2, <1>3, <1>4, <1>5, <1>6, Rescoping

LEMMA SameScopes ==
  ASSUME NEW plan, Inv(plan), agenda # <<>>
  PROVE  /\ plan[1].scopes = Updated(plan[1].scopes, Depth, Scope.scopeDepth)
         /\ plan[1] \in Entry
         /\ compilers' = compilers => SetScope(Scope)
<1>1. /\ plan[1] \in Entry /\ ScopeOf(plan[1]) = Scope.scopeDepth
      /\ Len(plan[1].scopes) = Depth /\ Depth \in Nat \ {0}
  BY AtHand
<1>2. plan[1].scopes \in Seq(Nat) /\ plan[1].scopes[Depth] = Scope.scopeDepth
  BY <1>1 DEF Entry, ScopeOf
<1>3. compilers = [compilers EXCEPT ![Depth] = compilers[Depth]]
  <2>1. compilers \in Seq(FunctionCompiler)
    BY DEF Inv, Scoped
  <2> QED  BY <1>1, <2>1 DEF Depth
<1> QED  BY <1>1, <1>2, <1>3 DEF Updated, SetScope, Scope

LEMMA Staying ==
  ASSUME Parsed, UNCHANGED current
  PROVE  Advance(0)
<1>1. current \in 0..(Len(source) + 1) /\ Len(source) \in Nat
  BY DEF Parsed
<1>2. current + 0 = current /\ current \in Int /\ Len(source) + 1 \in Int
  BY <1>1
<1>3. Min({current + 0, Len(source) + 1}) = current
  BY <1>1, <1>2, MinOfTwo
<1> QED  BY <1>3 DEF Advance

(* The declaration of a local or a global is complete. *)
LEMMA DefineStep ==
  ASSUME NEW plan, Inv(plan), DefineVariable
  PROVE  \E p : Inv(p)'
<1> DEFINE q == plan[2]
           index == agenda[1][2]
<1>1. agenda # <<>> /\ agenda[1][1] = "Define" /\ agenda[1][1] # "Script"
  BY DEF DefineVariable, Task
<1>2. Operands(agenda[1]) = {}
  BY <1>1 DEF Operands
<1>3. q \in Entry /\ q.ready /\ q.scopes = plan[1].scopes
  <2>1. q \in Entry /\ Follows(agenda[1], plan[1], q)
    BY <1>1, AtHand
  <2> HIDE DEF q
  <2> QED  BY <1>1, <2>1 DEF Follows, SimpleTasks, IsWhole, WholeTasks, IsHeading, HeadingTasks
<1>4. Fits(<<>>, q, plan[2], FALSE)
  BY FitsLists
<1>5. WellScoped(Scope) /\ Target \in Emittable /\ Pools(Target)
  BY <1>1, AtHand
<1>6. q.scopes = Updated(plan[1].scopes, Depth, Scope.scopeDepth)
  BY <1>1, <1>3, SameScopes
<1>7. CASE Scope.scopeDepth > 0
  <2> DEFINE scope == MarkInitialized(Scope)
  <2>1. SetScope(scope) /\ Then(<<>>) /\ Quiet /\ UNCHANGED <<current, functions>>
    BY <1>7 DEF DefineVariable
  <2>2. Advance(0) /\ Report(<<>>)
    BY <2>1, Staying, QuietReports DEF Inv
  <2>3. /\ WellScoped(scope) /\ Settled(scope)
        /\ scope.function = Scope.function /\ scope.scopeDepth = Scope.scopeDepth
    BY <1>5, MarkFacts
  <2>4. Generate(Target) /\ GrownTo(Target, Target) /\ Continues(Target, Target, {}, {})
    BY <1>1, <2>1, Unchanging
  <2>5. q.scopes = Updated(plan[1].scopes, Depth, scope.scopeDepth)
    BY <1>6, <2>3
  <2>6. Light(<<>>, Target, scope.scopeDepth)
    BY LightLists
  <2> HIDE DEF scope, q
  <2> QED  BY <1>1, <1>2, <1>3, <1>4, <2>1, <2>2, <2>3, <2>4, <2>5, <2>6, ScopeStep
<1>8. CASE Scope.scopeDepth = 0
  <2> DEFINE bytes == <<OpDefineGlobal, index>>
             g == Emit(Target, bytes)
  <2>1. Write(0, g, <<>>, <<>>)
    BY <1>8 DEF DefineVariable
  <2>2. Wanted(agenda[1], Target, Scope.scopeDepth)
    BY <1>1, AtHand
  <2>3. index \in Byte /\ index < Len(Target.constants)
    BY <1>1, <1>8, <2>2 DEF Wanted
  <2>4. WholeCode(bytes, Len(Target.constants))
    BY <2>3, WholeOperand
  <2> HIDE DEF bytes
  <2>5. bytes \in Seq(Byte) /\ Continues(Target, g, {}, {})
    BY <1>5, <2>4, EmitWhole
  <2>6. OnlyCode(Target, g)
    BY <1>5, <2>5, EmitFacts DEF OnlyCode
  <2> HIDE DEF g
  <2>7. GrownTo(Target, g) /\ (Target.arity <= 255 => g.arity <= 255)
    BY <1>5, <2>6, OnlyCodeGrows
  <2>8. Advance(0) /\ Report(<<>>) /\ Generate(g) /\ Then(<<>>) /\ SetScope(Scope)
    BY <1>1, <2>1, SameScopes DEF Write
  <2>9. Settled(Scope)
    BY <1>5, <1>8 DEF WellScoped
  <2>10. Light(<<>>, g, Scope.scopeDepth)
    BY LightLists
  <2> HIDE DEF q
  <2> QED  BY <1>1, <1>2, <1>3, <1>4, <1>5, <1>6, <2>5, <2>7, <2>8, <2>9, <2>10, ScopeStep
<1> QED
  <2>1. Scope.scopeDepth > 0 \/ Scope.scopeDepth = 0
    BY DEF DefineVariable
  <2> QED  BY <1>7, <1>8, <2>1

LEMMA BlockStatementStep ==
  ASSUME NEW plan, Inv(plan), BlockStatement
  PROVE  \E p : Inv(p)'
<1> DEFINE depth == Scope.scopeDepth + 1
           scope == [Scope EXCEPT !.scopeDepth = depth]
           scopes == Updated(plan[1].scopes, Depth, depth)
           q == [scopes |-> scopes, ready |-> TRUE]
           a == <<"Block">>
           b == <<"EndScope">>
           T == <<a, b>>
<1>1. /\ Task("Statement") /\ Advance(1) /\ SetScope(scope) /\ Then(T) /\ Quiet
      /\ UNCHANGED functions
  BY DEF BlockStatement, Statement
<1>2. /\ agenda # <<>> /\ agenda[1][1] # "Script" /\ Operands(agenda[1]) = {}
      /\ plan[1].ready /\ plan[2] = plan[1]
  BY <1>1, OpenlessTask, Names, ReadyTask DEF SteadyNames
<1>3. /\ plan[1] \in Entry /\ WellScoped(Scope) /\ Settled(Scope) /\ Scope \in FunctionCompiler
      /\ Len(plan[1].scopes) = Depth /\ Depth \in Nat \ {0}
      /\ ScopeOf(plan[1]) = Scope.scopeDepth
  BY <1>2, AtHand
<1>4. Scope.scopeDepth \in Nat /\ depth \in Nat /\ depth > 0 /\ depth >= Scope.scopeDepth
  BY <1>3 DEF FunctionCompiler
<1>5. /\ WellScoped(scope) /\ Settled(scope)
      /\ scope.function = Scope.function /\ scope.scopeDepth = depth
  <2> DEFINE c == Scope
             d == scope
  <2>1. /\ c \in FunctionCompiler /\ WellScoped(c) /\ Settled(c) /\ c.scopeDepth \in Nat
        /\ d = [c EXCEPT !.scopeDepth = depth] /\ depth \in Nat /\ depth > 0
        /\ depth >= c.scopeDepth
    BY <1>3, <1>4
  <2> HIDE DEF c, d, depth
  <2>2. /\ d \in FunctionCompiler /\ d.locals = c.locals /\ d.scopeDepth = depth
        /\ d.function = c.function
    BY <2>1 DEF FunctionCompiler
  <2>3. Sorted(d) /\ Settled(d)
    BY <2>1, <2>2 DEF WellScoped, Sorted, Settled
  <2>4. \A k \in DOMAIN d.locals : d.locals[k].depth <= d.scopeDepth
    <3> SUFFICES ASSUME NEW k \in DOMAIN c.locals PROVE c.locals[k].depth <= depth
      BY <2>2
    <3>1. c.locals[k].depth \in Int
      <4>1. c.locals[k] \in LocalVariable
        BY <2>1 DEF FunctionCompiler
      <4> QED  BY <4>1 DEF LocalVariable
    <3>2. c.locals[k].depth <= c.scopeDepth
      BY <2>1 DEF WellScoped
    <3> QED  BY <2>1, <3>1, <3>2
  <2>5. WellScoped(d)
    BY <2>1, <2>2, <2>3, <2>4 DEF WellScoped
  <2> QED  BY <2>2, <2>3, <2>5 DEF c, d
<1>6. plan[1].scopes \in Seq(Nat)
  BY <1>3 DEF Entry
<1>7. scopes \in Seq(Nat) /\ Len(scopes) = Depth
  BY <1>3, <1>4, <1>6, Replaced DEF Updated
<1>8. q \in Entry
  BY <1>3, <1>7 DEF Entry
<1>9. Follows(b, q, plan[2])
  <2>1. scopes = [plan[1].scopes EXCEPT ![Len(plan[1].scopes)] = @ + 1]
    BY <1>3 DEF ScopeOf, Updated
  <2>2. q.scopes = scopes /\ q.ready
    OBVIOUS
  <2> HIDE DEF scopes, q
  <2> QED  BY <1>2, <2>1, <2>2 DEF Follows
<1>10. q.scopes = Updated(plan[1].scopes, Depth, scope.scopeDepth) /\ q.ready
  BY <1>5
<1> HIDE DEF q, scope, depth, scopes
<1>11. Follows(a, q, q)
  BY <1>10 DEF Follows, IsWhole, WholeTasks
<1>12. Fits(T, q, plan[2], FALSE)
  <2>1. "Script" \notin {a[1], b[1]}
    OBVIOUS
  <2> HIDE DEF a, b
  <2> QED  BY <1>9, <1>11, <2>1, FitsLists
<1>13. Light(T, Target, scope.scopeDepth)
  <2>1. /\ Wanted(a, Target, scope.scopeDepth) /\ Free(a)
        /\ Wanted(b, Target, scope.scopeDepth) /\ Free(b)
    BY DEF Wanted, Free, Operands
  <2> QED  BY <2>1, LightLists
<1>14. Generate(Target) /\ GrownTo(Target, Target) /\ Continues(Target, Target, {}, {})
  BY <1>1, <1>2, Unchanging
<1>15. Report(<<>>)
  BY <1>1, QuietReports DEF Inv
<1> HIDE DEF T
<1> QED  BY <1>1, <1>2, <1>5, <1>8, <1>10, <1>12, <1>13, <1>14, <1>15, ScopeStep

LEMMA EndScopeStep ==
  ASSUME NEW plan, Inv(plan), EndScope
  PROVE  \E p : Inv(p)'
<1> DEFINE depth == Scope.scopeDepth - 1
           locals == Scope.locals
           I == {i \in 1..Len(locals) : locals[i].depth <= depth}
           kept == IF I # {} THEN Max(I) ELSE 0
           ended == Reverse(SubSeq(locals, kept + 1, Len(locals)))
           bytes == [i \in DOMAIN ended |-> IF ended[i].isCaptured THEN OpCloseUpvalue ELSE OpPop]
           g == Emit(Target, bytes)
           scope == Narrowed(Scope, kept)
           q == plan[2]
<1>1. /\ Task("EndScope") /\ Generate(g)
      /\ SetScope([Scope EXCEPT !.scopeDepth = depth, !.locals = SubSeq(locals, 1, kept)])
      /\ Then(<<>>) /\ Quiet /\ UNCHANGED current
  BY SMTT(30) DEF EndScope, SelectLastInSeq
<1>2. SetScope(scope)
  BY SMTT(30), <1>1 DEF Narrowed
<1>3. /\ agenda # <<>> /\ agenda[1][1] = "EndScope" /\ agenda[1][1] # "Script"
      /\ Operands(agenda[1]) = {}
  BY <1>1 DEF Task, Operands
<1>4. /\ plan[1] \in Entry /\ q \in Entry /\ Follows(agenda[1], plan[1], q)
      /\ plan[1].ready => Settled(Scope)
      /\ Len(plan[1].scopes) = Depth /\ Depth \in Nat \ {0}
      /\ ScopeOf(plan[1]) = Scope.scopeDepth
      /\ WellScoped(Scope) /\ Scope \in FunctionCompiler
      /\ Target \in Emittable /\ Pools(Target)
  BY <1>3, AtHand
<1>5. /\ plan[1].ready /\ q.ready
      /\ plan[1].scopes = [q.scopes EXCEPT ![Len(q.scopes)] = @ + 1]
  <2> HIDE DEF q
  <2> QED  BY <1>3, <1>4 DEF Follows, SimpleTasks, IsWhole, WholeTasks, IsHeading, HeadingTasks
<1>6. q.scopes \in Seq(Nat) /\ Len(q.scopes) = Depth /\ plan[1].scopes \in Seq(Nat)
  <2>1. q.scopes \in Seq(Nat) /\ plan[1].scopes \in Seq(Nat)
    BY <1>4 DEF Entry
  <2> QED  BY <1>4, <1>5, <2>1
<1>7. Scope.scopeDepth = q.scopes[Depth] + 1 /\ q.scopes[Depth] \in Nat
  BY <1>4, <1>5, <1>6 DEF ScopeOf
<1>8. Scope.scopeDepth > 0 /\ Settled(Scope) /\ Len(locals) \in Nat /\ depth = q.scopes[Depth]
  <2>1. Len(locals) \in Nat
    BY SMTT(30), <1>4 DEF FunctionCompiler
  <2> QED  BY <1>4, <1>5, <1>7, <2>1
<1>9. kept \in 0..Len(locals) /\ (kept # 0 => locals[kept].depth <= depth)
  <2>1. I # {} => Max(I) \in I
    <3>1. I \subseteq 0..Len(locals)
      BY <1>8
    <3> HIDE DEF I
    <3> QED  BY <1>8, <3>1, MaxFacts
  <2>2. CASE I # {}
    BY <1>8, <2>1, <2>2
  <2>3. CASE I = {}
    BY <1>8, <2>3
  <2> QED  BY <2>2, <2>3
<1> HIDE DEF kept
<1>10. /\ WellScoped(scope) /\ Settled(scope) /\ scope.function = Scope.function
       /\ scope.scopeDepth = depth
  BY <1>4, <1>8, <1>9, NarrowedFacts
<1>11. q.scopes = Updated(plan[1].scopes, Depth, scope.scopeDepth)
  <2>1. q.scopes = [plan[1].scopes EXCEPT ![Depth] = q.scopes[Depth]]
    BY <1>5, <1>6
  <2> QED  BY <1>8, <1>10, <2>1 DEF Updated
<1>12. bytes \in Seq(Single)
  <2>1. Len(ended) \in Nat /\ DOMAIN ended = 1..Len(ended)
    <3> DEFINE s == SubSeq(locals, kept + 1, Len(locals))
    <3>1. Len(s) \in Nat
      <4>1. locals \in Seq(LocalVariable)
        BY <1>4 DEF FunctionCompiler
      <4> QED  BY <1>8, <1>9, <4>1
    <3>2. ended = [i \in 1..Len(s) |-> s[(Len(s) - i) + 1]]
      BY DEF Reverse
    <3> HIDE DEF s, ended
    <3>3. ended \in Seq({s[(Len(s) - i) + 1] : i \in 1..Len(s)})
      BY <3>1, <3>2
    <3> QED  BY <3>3
  <2>2. OpPop \in Single /\ OpCloseUpvalue \in Single
    BY SingleOps
  <2> HIDE DEF ended
  <2>3. bytes \in [1..Len(ended) -> Single]
    BY <2>1, <2>2
  <2> QED  BY <2>1, <2>3
<1> HIDE DEF bytes
<1>13. bytes \in Seq(Byte) /\ Continues(Target, g, {}, {})
  BY <1>4, <1>12, EmitSingles
<1>14. OnlyCode(Target, g)
  BY <1>4, <1>13, EmitFacts DEF OnlyCode
<1> HIDE DEF g
<1>15. GrownTo(Target, g) /\ (Target.arity <= 255 => g.arity <= 255)
  BY <1>4, <1>14, OnlyCodeGrows
<1>16. Fits(<<>>, q, plan[2], FALSE) /\ Light(<<>>, g, scope.scopeDepth)
  BY FitsLists, LightLists
<1>17. Advance(0) /\ Report(<<>>)
  BY <1>1, Staying, QuietReports DEF Inv
<1> HIDE DEF q, scope
<1> QED  BY <1>1, <1>2, <1>3, <1>4, <1>10, <1>11, <1>13, <1>15, <1>16, <1>17, ScopeStep
-----------------------------------------------------------------------------
(* The parameters of a function. *)

Heading(T) ==
  \/ T = Body \/ T = <<<<"Parameter">>>> \/ T = <<<<"MoreParameters">>>>
  \/ T = <<<<"ParseVariable", "parameter">>>>

LEMMA HeadingLists ==
  ASSUME NEW s, NEW t, s.ready, t.ready, \E n \in Nat : s.scopes = Append(t.scopes, n),
         NEW T, Heading(T), NEW f, NEW scope
  PROVE  Fits(T, s, t, FALSE) /\ Light(T, f, scope)
<1>1. ASSUME NEW a, IsHeading(a) PROVE Follows(a, s, t)
  BY <1>1 DEF Follows
<1>2. CASE T = Body
  <2> DEFINE a == Expect("RightParen")
             b == Expect("LeftBrace")
             c == <<"Block">>
             d == <<"EndFunction">>
  <2>1. "Script" \notin {a[1], b[1], c[1], d[1]}
    BY DEF Expect
  <2>2. Follows(a, s, s) /\ Follows(b, s, s) /\ Follows(c, s, s) /\ Follows(d, s, t)
    <3>1. IsHeading(d)
      BY DEF IsHeading, HeadingTasks
    <3>2. Follows(a, s, s) /\ Follows(b, s, s)
      BY DEF Follows, Expect, SimpleTasks
    <3>3. Follows(c, s, s)
      BY DEF Follows, IsWhole, WholeTasks
    <3> HIDE DEF a, b, c, d
    <3> QED  BY <1>1, <3>1, <3>2, <3>3
  <2>3. /\ Wanted(a, f, scope) /\ Free(a) /\ Wanted(b, f, scope) /\ Free(b)
        /\ Wanted(c, f, scope) /\ Free(c) /\ Wanted(d, f, scope) /\ Free(d)
    BY DEF Wanted, Free, Operands, Expect
  <2>4. T = <<a, b, c, d>>
    BY <1>2 DEF Body
  <2> HIDE DEF a, b, c, d
  <2>5. Fits(<<a, b, c, d>>, s, t, FALSE)
    BY <2>1, <2>2, FitsLists
  <2>6. Light(<<a, b, c, d>>, f, scope)
    BY <2>3, LightLists
  <2> QED  BY <2>4, <2>5, <2>6
<1>3. ASSUME NEW a \in {<<"Parameter">>, <<"MoreParameters">>, <<"ParseVariable", "parameter">>},
             T = <<a>>
      PROVE  Fits(T, s, t, FALSE) /\ Light(T, f, scope)
  <2>1. IsHeading(a) /\ a[1] # "Script"
    BY <1>3 DEF IsHeading, HeadingTasks
  <2>2. Wanted(a, f, scope) /\ Free(a)
    BY <1>3 DEF Wanted, Free, Operands
  <2>3. Follows(a, s, t)
    BY <1>1, <2>1
  <2>4. Fits(<<a>>, s, t, FALSE)
    BY <2>1, <2>3, FitsLists
  <2>5. Light(<<a>>, f, scope)
    BY <2>2, LightLists
  <2> QED  BY <1>3, <2>4, <2>5
<1> QED  BY <1>2, <1>3 DEF Heading

(* A step between the parameters, in the function at work. *)
LEMMA HeadingStep ==
  ASSUME NEW plan, Inv(plan), agenda # <<>>, IsHeading(agenda[1]),
         NEW n \in Nat, NEW T, Heading(T), NEW g, NEW errors,
         Advance(n), Report(errors), Generate(g), UNCHANGED compilers, Then(T),
         GrownTo(Target, g),
         errors = <<>> => /\ Continues(Target, g, {}, {})
                          /\ Target.arity <= 255 => g.arity <= 255
  PROVE  \E p : Inv(p)'
<1>1. agenda[1][1] # "Script" /\ Operands(agenda[1]) = {}
  BY DEF IsHeading, HeadingTasks, Operands
<1>2. Follows(agenda[1], plan[1], plan[2]) /\ WellScoped(Scope) /\ (plan[1].ready => Settled(Scope))
  BY AtHand
<1>3. /\ plan[1].ready /\ plan[2].ready
      /\ \E m \in Nat : plan[1].scopes = Append(plan[2].scopes, m)
  BY <1>2 DEF Follows, IsHeading, HeadingTasks, SimpleTasks, IsWhole, WholeTasks
<1>4. Fits(T, plan[1], plan[2], FALSE) /\ Light(T, g, Scope.scopeDepth)
  BY <1>3, HeadingLists
<1>5. /\ plan[1] \in Entry /\ SetScope(Scope)
      /\ plan[1].scopes = Updated(plan[1].scopes, Depth, Scope.scopeDepth)
  BY SameScopes
<1> QED  BY <1>1, <1>2, <1>3, <1>4, <1>5, ScopeStep

LEMMA ParametersStep ==
  ASSUME NEW plan, Inv(plan), Parameters \/ MoreParameters
  PROVE  \E p : Inv(p)'
<1>1. PICK n, T : n \in Nat /\ Heading(T) /\ Read(n, T)
  <2>1. CASE Parameters
    <3> DEFINE T == IF Check("RightParen") THEN Body ELSE <<<<"Parameter">>>>
    <3>1. Heading(T) /\ Read(0, T)
      BY <2>1 DEF Parameters, Heading
    <3> QED  BY <3>1
  <2>2. CASE MoreParameters
    <3> DEFINE n == OneIf(Check("Comma"))
               T == IF Check("Comma") THEN <<<<"Parameter">>>> ELSE Body
    <3>1. Heading(T) /\ Read(n, T) /\ n \in Nat
      BY <2>2, OneIfIs DEF MoreParameters, Heading
    <3> HIDE DEF n, T
    <3> QED  BY <3>1
  <2> QED  BY <2>1, <2>2
<1>2. agenda # <<>> /\ IsHeading(agenda[1])
  BY DEF Parameters, MoreParameters, Task, IsHeading, HeadingTasks
<1>3. /\ Advance(n) /\ Report(<<>>) /\ Then(T) /\ UNCHANGED <<compilers, functions>>
  BY <1>1, QuietReports DEF Read, Inv
<1>4. Generate(Target) /\ GrownTo(Target, Target) /\ Continues(Target, Target, {}, {})
  BY <1>2, <1>3, Unchanging
<1> QED  BY <1>1, <1>2, <1>3, <1>4, HeadingStep

LEMMA ParameterStep ==
  ASSUME NEW plan, Inv(plan), Parameter
  PROVE  \E p : Inv(p)'
<1> DEFINE arity == Target.arity + 1
           g == [Target EXCEPT !.arity = arity]
           errors == IF arity > ByteSize - 1 THEN <<"too many parameters">> ELSE <<>>
           T == <<<<"ParseVariable", "parameter">>>>
<1>1. Task("Parameter") /\ Write(0, g, errors, T)
  BY DEF Parameter
<1>2. agenda # <<>> /\ IsHeading(agenda[1])
  BY <1>1 DEF Task, IsHeading, HeadingTasks
<1>3. Target \in Emittable /\ Pools(Target) /\ arity \in Nat
  BY <1>2, AtHand, EmittableFacts
<1>4. errors = <<>> => arity <= 255
  <2>1. errors = <<>> => ~(arity > ByteSize - 1)
    OBVIOUS
  <2> QED  BY <1>3, <2>1, Sizes
<1>5. /\ g \in Emittable /\ g.arity = arity /\ g.code = Target.code
      /\ g.constants = Target.constants /\ g.upvalues = Target.upvalues
  BY <1>3 DEF Emittable
<1> HIDE DEF g, arity, errors
<1>6. Continues(Target, g, {}, {})
  BY <1>3, <1>5, SameCode
<1>7. GrownTo(Target, g)
  <2>1. Len(Target.constants) <= Len(Target.constants)
    BY <1>3, EmittableFacts
  <2> QED  BY <1>3, <1>5, <2>1 DEF GrownTo, Pools
<1>8. Heading(T)
  BY DEF Heading
<1> HIDE DEF T
<1> QED  BY <1>1, <1>2, <1>4, <1>5, <1>6, <1>7, <1>8, HeadingStep DEF Write

(* The name of a variable, a function or a parameter is declared. *)
LEMMA ParseVariableStep ==
  ASSUME NEW plan, Inv(plan), ParseVariable
  PROVE  \E p : Inv(p)'
<1> DEFINE name == Lexeme(CurrentToken)
           global == Scope.scopeDepth = 0
           index == IF global THEN ConstantIndex(Target) ELSE 0
           declared == DeclareVariable(name)
           marked == MarkInitialized(declared)
           h == AddConstant(Target, String(name))
           g == IF global THEN h ELSE Target
           errors == (IF Check("Identifier") THEN <<>> ELSE <<"Identifier">>)
                     \o DeclareErrors(name) \o (IF global THEN ConstantErrors(Target) ELSE <<>>)
           n == OneIf(Check("Identifier"))
           role == Variable
           define == <<"Define", index>>
<1>1. /\ agenda # <<>> /\ agenda[1][1] = "ParseVariable" /\ agenda[1][1] # "Script"
      /\ agenda[1][2] = role /\ Operands(agenda[1]) = {}
  BY DEF ParseVariable, Task, Operands, Variable
<1>2. /\ Advance(n) /\ Report(errors)
      /\ SetScope(IF role = "variable" THEN declared ELSE marked)
      /\ IF global THEN Generate(h) ELSE UNCHANGED functions
      /\ role = "variable" => Then(<<<<"Initializer">>, Expect("Semicolon"), define>>)
      /\ role = "function" => Then(<<<<"Function">>, define>>)
      /\ role = "parameter" => Then(<<<<"MoreParameters">>>>)
  BY DEF ParseVariable
<1>3. /\ plan[1] \in Entry /\ plan[2] \in Entry /\ Follows(agenda[1], plan[1], plan[2])
      /\ plan[1].ready => Settled(Scope)
      /\ WellScoped(Scope) /\ Target \in Emittable /\ Pools(Target)
  BY <1>1, AtHand
<1> HIDE DEF role
<1>4. /\ plan[1].ready /\ role \in {"variable", "function", "parameter"}
      /\ role \in {"variable", "function"} => plan[2] = plan[1]
      /\ role = "parameter" => IsHeading(agenda[1]) /\ plan[2].ready
           /\ \E m \in Nat : plan[1].scopes = Append(plan[2].scopes, m)
  BY <1>1, <1>3 DEF Follows, SimpleTasks, IsWhole, WholeTasks, IsHeading, HeadingTasks
<1>5. name \in Name /\ n \in Nat
  BY TokenFacts, OneIfIs DEF Inv, CurrentToken
<1>6. String(name) \in Constant
  BY <1>5 DEF String, Constant, Literal
<1> HIDE DEF name, n, errors
<1>7. /\ WellScoped(declared)
      /\ declared.function = Scope.function /\ declared.scopeDepth = Scope.scopeDepth
  BY <1>3, <1>4, <1>5, DeclareFacts
<1> HIDE DEF declared
<1>8. /\ WellScoped(marked) /\ Settled(marked)
      /\ marked.function = Scope.function /\ marked.scopeDepth = Scope.scopeDepth
  BY <1>7, MarkFacts
<1> HIDE DEF marked
<1>9. /\ Generate(g) /\ GrownTo(Target, g) /\ Continues(Target, g, {}, {})
      /\ g.arity = Target.arity
      /\ global => index \in Byte /\ index < Len(g.constants)
  <2>1. CASE global
    <3>1. /\ h \in Emittable
          /\ Len(h.constants) <= ByteSize /\ Len(Target.constants) <= Len(h.constants)
          /\ h.upvalues = Target.upvalues /\ h.arity = Target.arity
          /\ ConstantIndex(Target) \in 0..(Len(h.constants) - 1)
          /\ ConstantIndex(Target) \in Byte
          /\ Continues(Target, h, {}, {})
      BY <1>3, <1>6, AddConstantFacts DEF Pools
    <3>2. ConstantIndex(Target) < Len(h.constants)
      BY <3>1, EmittableFacts
    <3> HIDE DEF h
    <3>3. GrownTo(Target, h)
      BY <1>3, <3>1 DEF GrownTo, Pools
    <3> QED  BY <1>2, <2>1, <3>1, <3>2, <3>3
  <2>2. CASE ~global
    <3>1. Generate(Target) /\ GrownTo(Target, Target) /\ Continues(Target, Target, {}, {})
      BY <1>1, <1>2, <2>2, Unchanging
    <3> QED  BY <2>2, <3>1
  <2> QED  BY <2>1, <2>2
<1> HIDE DEF g, h
<1>10. Wanted(define, g, Scope.scopeDepth) /\ Free(define) /\ define[1] = "Define"
  <2>1. Scope.scopeDepth = 0 => index \in Byte /\ index < Len(g.constants)
    BY <1>9
  <2>2. define[1] = "Define" /\ define[2] = index
    OBVIOUS
  <2> HIDE DEF define, index
  <2> QED  BY <2>1, <2>2 DEF Wanted, Free, Operands
<1>11. /\ plan[1].scopes = Updated(plan[1].scopes, Depth, Scope.scopeDepth)
  BY <1>1, SameScopes
<1> HIDE DEF global, define
<1>12. CASE role = "variable"
  <2> DEFINE q == [plan[1] EXCEPT !.ready = FALSE]
             a == <<"Initializer">>
             b == Expect("Semicolon")
             T == <<a, b, define>>
  <2>1. q \in Entry /\ q.scopes = plan[1].scopes /\ ~q.ready
    BY <1>3 DEF Entry
  <2> HIDE DEF q
  <2>2. Follows(a, q, q) /\ Follows(b, q, q)
    BY DEF Follows, SimpleTasks, Expect
  <2>3. Follows(define, q, plan[2])
    BY <1>4, <1>10, <1>12, <2>1 DEF Follows
  <2>4. a[1] # "Script" /\ b[1] # "Script" /\ define[1] # "Script"
    BY <1>10 DEF Expect
  <2>5. /\ Wanted(a, g, Scope.scopeDepth) /\ Free(a) /\ Wanted(b, g, Scope.scopeDepth) /\ Free(b)
    BY DEF Wanted, Free, Operands, Expect
  <2>6. Then(T) /\ SetScope(declared)
    BY <1>2, <1>12
  <2> HIDE DEF a, b
  <2>7. Fits(T, q, plan[2], FALSE)
    BY <2>2, <2>3, <2>4, FitsLists
  <2>8. Light(T, g, declared.scopeDepth)
    BY <1>7, <1>10, <2>5, LightLists
  <2>9. q.scopes = Updated(plan[1].scopes, Depth, declared.scopeDepth)
    BY <1>7, <1>11, <2>1
  <2> HIDE DEF T
  <2> QED  BY <1>1, <1>2, <1>5, <1>7, <1>9, <2>1, <2>6, <2>7, <2>8, <2>9, ScopeStep
<1>13. plan[1].scopes = Updated(plan[1].scopes, Depth, marked.scopeDepth)
  BY <1>8, <1>11
<1>14. CASE role = "function"
  <2> DEFINE q == plan[1]
             a == <<"Function">>
             T == <<a, define>>
  <2>1. Follows(a, q, q) /\ a[1] # "Script" /\ define[1] # "Script"
    BY <1>4, <1>10 DEF Follows, IsWhole, WholeTasks
  <2>2. Follows(define, q, plan[2])
    BY <1>4, <1>10, <1>14 DEF Follows
  <2>3. Wanted(a, g, Scope.scopeDepth) /\ Free(a)
    BY DEF Wanted, Free, Operands
  <2>4. Then(T) /\ SetScope(marked)
    BY <1>2, <1>14
  <2> HIDE DEF a, q
  <2>5. Fits(T, q, plan[2], FALSE)
    BY <2>1, <2>2, FitsLists
  <2>6. Light(T, g, marked.scopeDepth)
    BY <1>8, <1>10, <2>3, LightLists
  <2>7. q \in Entry /\ q.scopes = Updated(plan[1].scopes, Depth, marked.scopeDepth)
    BY <1>3, <1>13 DEF q
  <2> HIDE DEF T
  <2> QED  BY <1>1, <1>2, <1>5, <1>8, <1>9, <2>4, <2>5, <2>6, <2>7, ScopeStep
<1>15. CASE role = "parameter"
  <2> DEFINE T == <<<<"MoreParameters">>>>
  <2>1. Then(T) /\ SetScope(marked)
    BY <1>2, <1>15
  <2>2. Heading(T)
    BY DEF Heading
  <2> HIDE DEF T
  <2>3. Fits(T, plan[1], plan[2], FALSE) /\ Light(T, g, marked.scopeDepth)
    BY <1>4, <1>15, <2>2, HeadingLists
  <2> QED  BY <1>1, <1>2, <1>3, <1>5, <1>8, <1>9, <1>13, <2>1, <2>3, ScopeStep
<1> QED  BY <1>4, <1>12, <1>14, <1>15

-----------------------------------------------------------------------------
(* A function begins and ends. *)

LEMMA NewFunctionFacts ==
  LET f == NewFunction IN f \in Emittable /\ Pools(f) /\ Begun(f)
<1> DEFINE f == NewFunction
<1>1. /\ f.arity = 0 /\ f.upvalues = <<>> /\ f.constants = <<>> /\ f.code = <<>>
      /\ f \in Emittable
  BY DEF NewFunction, Emittable
<1>2. Len(f.code) = 0 /\ Len(f.constants) = 0 /\ Len(f.upvalues) = 0
  BY <1>1
<1> HIDE DEF f
<1>3. Cut(f.code, Len(f.constants), {0})
  BY <1>2 DEF Cut
<1>4. Bounds(f) = {0} /\ Cuts(f)
  BY <1>1, <1>3, BoundsAre
<1>5. Starts(f) = {}
  BY <1>2, <1>4 DEF Starts
<1>6. Pools(f)
  BY <1>2, Sizes DEF Pools
<1> QED  BY <1>1, <1>4, <1>5, <1>6 DEF Begun, f

LEMMA NewScopeFacts ==
  ASSUME NEW k \in Nat, NEW depth \in Nat
  PROVE  LET c == NewFunctionCompiler(k, depth)
         IN WellScoped(c) /\ Settled(c) /\ c.function = k /\ c.scopeDepth = depth
<1> DEFINE c == NewFunctionCompiler(k, depth)
           local == [name |-> <<>>, depth |-> 0, isCaptured |-> FALSE]
           locals == <<local>>
<1>1. local \in LocalVariable /\ local.depth = 0
  BY DEF LocalVariable, Name
<1> HIDE DEF local
<1>2. locals \in Seq(LocalVariable) /\ DOMAIN locals = {1} /\ locals[1] = local
  BY <1>1
<1>3. c.function = k /\ c.scopeDepth = depth /\ c.locals = locals
  BY DEF NewFunctionCompiler, local
<1>4. c = [function |-> k, scopeDepth |-> depth, locals |-> locals]
  BY DEF NewFunctionCompiler, local
<1> HIDE DEF locals
<1>5. c \in FunctionCompiler
  BY <1>2, <1>4 DEF FunctionCompiler
<1> HIDE DEF c
<1>6. Sorted(c) /\ Settled(c)
  BY <1>1, <1>2, <1>3 DEF Sorted, Settled
<1>7. \A i \in DOMAIN c.locals : c.locals[i].depth <= c.scopeDepth
  BY <1>1, <1>2, <1>3
<1> QED  BY <1>3, <1>5, <1>6, <1>7 DEF WellScoped, c

LEMMA CompileFunctionStep ==
  ASSUME NEW plan, Inv(plan), CompileFunction
  PROVE  \E p : Inv(p)'
<1> DEFINE m == Len(functions)
           c == NewFunctionCompiler(m + 1, 1)
           cs2 == Append(compilers, c)
           fs2 == Append(functions, NewFunction)
           a == Expect("LeftParen")
           b == <<"Parameters">>
           T == <<a, b>>
           scopes == Append(plan[1].scopes, 1)
           q == [scopes |-> scopes, ready |-> TRUE]
<1>1. /\ Task("Function") /\ compilers' = cs2 /\ functions' = fs2
      /\ Then(T) /\ Quiet /\ UNCHANGED current
  BY DEF CompileFunction
<1>2. /\ agenda # <<>> /\ agenda[1][1] # "Script" /\ Operands(agenda[1]) = {}
      /\ plan[1].ready /\ plan[2] = plan[1]
  BY <1>1, OpenlessTask, Names, ReadyTask DEF SteadyNames
<1>3. /\ plan[1] \in Entry /\ Len(plan[1].scopes) = Depth /\ Depth \in Nat \ {0}
      /\ WellScoped(Scope) /\ Settled(Scope)
      /\ FunctionOf(plan[1], compilers) = Scope.function
      /\ Scope.function \in 1..m
  BY <1>2, AtHand
<1>4. /\ Planned(plan, agenda, compilers, functions)
      /\ Scoped(compilers, m) /\ Generated(functions) /\ Parsed
  BY DEF Inv
<1>5. /\ m \in Nat /\ functions \in Seq(Emittable)
      /\ \A k \in 1..m : functions[k] \in Emittable /\ Pools(functions[k])
  BY <1>4 DEF Generated
<1>6. /\ WellScoped(c) /\ Settled(c) /\ c.function = m + 1 /\ c.scopeDepth = 1
  BY <1>5, NewScopeFacts
<1>7. NewFunction \in Emittable /\ Pools(NewFunction) /\ Begun(NewFunction)
  BY NewFunctionFacts
<1> HIDE DEF c
<1>8. /\ fs2 \in Seq(Emittable) /\ Len(fs2) = m + 1 /\ fs2[m + 1] = NewFunction
      /\ \A k \in 1..m : fs2[k] = functions[k]
  BY <1>5, <1>7
<1>9. /\ compilers \in Seq(FunctionCompiler) /\ Depth = Len(compilers)
      /\ Scope = compilers[Depth]
  BY <1>4 DEF Scoped, Depth, Scope
<1>10. /\ cs2 \in Seq(FunctionCompiler) /\ Len(cs2) = Depth + 1 /\ cs2[Depth + 1] = c
       /\ \A l \in 1..Depth : cs2[l] = compilers[l]
  <2>1. c \in FunctionCompiler
    BY <1>6 DEF WellScoped
  <2> QED  BY <1>3, <1>9, <2>1
<1> HIDE DEF cs2, fs2, m
<1>11. \A l \in 1..(Depth + 1) : l \in 1..Depth \/ l = Depth + 1
  BY <1>3
<1>12. Scoped(cs2, m + 1)
  <2>1. \A l \in 1..Depth : /\ WellScoped(cs2[l]) /\ Settled(cs2[l])
                            /\ cs2[l].function \in 1..m
    <3> SUFFICES ASSUME NEW l \in 1..Depth
                 PROVE  /\ WellScoped(compilers[l]) /\ Settled(compilers[l])
                        /\ compilers[l].function \in 1..m
      BY <1>10
    <3>1. l = Depth \/ l \in 1..(Depth - 1)
      BY <1>3
    <3>2. WellScoped(compilers[l]) /\ compilers[l].function \in 1..m
      BY <1>4, <1>9 DEF Scoped
    <3>3. Settled(compilers[l])
      BY <1>3, <1>4, <1>9, <3>1 DEF Scoped
    <3> QED  BY <3>2, <3>3
  <2>2. \A l \in 1..(Depth + 1) : WellScoped(cs2[l]) /\ cs2[l].function \in 1..(m + 1)
    BY <1>5, <1>6, <1>10, <1>11, <2>1
  <2>3. ASSUME NEW l \in 1..(Depth + 1), NEW k \in 1..(Depth + 1), l < k
        PROVE  cs2[l].function < cs2[k].function
    <3>1. l \in 1..Depth /\ cs2[l].function \in 1..m
      BY <1>3, <2>1, <2>3
    <3>2. CASE k = Depth + 1
      BY <1>5, <1>6, <1>10, <3>1, <3>2
    <3>3. CASE k \in 1..Depth
      BY <1>4, <1>9, <1>10, <2>3, <3>1, <3>3 DEF Scoped
    <3> QED  BY <1>11, <3>2, <3>3
  <2>4. \A l \in 1..(Len(cs2) - 1) : Settled(cs2[l])
    BY <1>3, <1>10, <2>1
  <2>5. Len(cs2) > 0
    BY <1>3, <1>10
  <2> QED  BY <1>10, <2>2, <2>3, <2>4, <2>5 DEF Scoped
<1>13. Generated(fs2)
  <2>1. \A k \in 1..(m + 1) : k \in 1..m \/ k = m + 1
    BY <1>5
  <2>2. \A k \in 1..(m + 1) : Pools(fs2[k])
    BY <1>5, <1>7, <1>8, <2>1
  <2> QED  BY <1>8, <2>2 DEF Generated
<1>14. Grown(functions, fs2) /\ Len(functions) = m
  <2>1. \A k \in 1..m : Len(functions[k].constants) <= Len(fs2[k].constants)
    <3>1. \A k \in 1..m : Len(functions[k].constants) \in Nat
      BY <1>5, EmittableFacts
    <3> QED  BY <1>8, <3>1
  <2> QED  BY <1>5, <1>8, <2>1 DEF Grown, m
<1>15. /\ scopes \in Seq(Nat) /\ Len(scopes) = Depth + 1 /\ scopes[Depth + 1] = 1
       /\ \A l \in 1..Depth : scopes[l] = plan[1].scopes[l]
  <2>1. plan[1].scopes \in Seq(Nat)
    BY <1>3 DEF Entry
  <2> QED  BY <1>3, <2>1
<1>16. q \in Entry /\ q.ready /\ q.scopes = scopes
  BY <1>3, <1>15 DEF Entry
<1>17. \E n \in Nat : q.scopes = Append(plan[2].scopes, n)
  BY <1>2, <1>16
<1> HIDE DEF q, scopes
<1>18. Matches(q, cs2)
  <2>1. \A l \in 1..Depth : plan[1].scopes[l] = compilers[l].scopeDepth
    BY <1>3, <1>4, <1>9 DEF Planned, Matches
  <2>2. \A l \in 1..(Depth + 1) : q.scopes[l] = cs2[l].scopeDepth
    BY <1>6, <1>10, <1>11, <1>15, <1>16, <2>1
  <2> QED  BY <1>6, <1>10, <1>15, <1>16, <2>2 DEF Matches
<1>19. FunctionOf(q, cs2) = m + 1
  BY <1>6, <1>10, <1>15, <1>16 DEF FunctionOf
<1>20. SameLevels(plan[2], compilers, cs2)
  BY <1>2, <1>3, <1>10 DEF SameLevels
<1>21. Fits(T, q, plan[2], FALSE) /\ Light(T, fs2[m + 1], ScopeOf(q))
  <2>1. Follows(a, q, q)
    BY DEF Follows, Expect, SimpleTasks
  <2>2. IsHeading(b) /\ Follows(b, q, plan[2])
    <3>1. IsHeading(b)
      BY DEF IsHeading, HeadingTasks
    <3> HIDE DEF b
    <3> QED  BY <1>2, <1>16, <1>17, <3>1 DEF Follows
  <2>3. "Script" \notin {a[1], b[1]}
    BY DEF Expect
  <2>4. /\ Wanted(a, fs2[m + 1], ScopeOf(q)) /\ Free(a)
        /\ Wanted(b, fs2[m + 1], ScopeOf(q)) /\ Free(b)
    BY DEF Wanted, Free, Operands, Expect
  <2> HIDE DEF a, b
  <2> QED  BY <2>1, <2>2, <2>3, <2>4, FitsLists, LightLists
<1> HIDE DEF T
<1>22. AllWanted(T, fs2[m + 1], ScopeOf(q)) /\ AllFree(T)
  BY <1>21 DEF Light, AllWanted, AllFree
<1>23. Leads(plan, agenda, compilers, functions, T, q, cs2, fs2)
  <2>1. Fits(T, q, plan[2], agenda[1][1] = "Script")
    <3>1. (agenda[1][1] = "Script") = FALSE
      BY <1>2
    <3> QED  BY <1>21, <3>1
  <2>2. Len(plan[2].scopes) <= Len(q.scopes)
    BY <1>2, <1>3, <1>15, <1>16
  <2> QED  BY <1>2, <1>4, <1>8, <1>12, <1>13, <1>14, <1>16, <1>18, <1>19, <1>20, <1>22,
              <2>1, <2>2 DEF Leads
<1>24. Transforms(plan, agenda, compilers, functions, T, q, cs2, fs2, {}, {})
  <2>1. Worked(functions, fs2, FunctionOf(plan[1], compilers), {}, {})
    <3> SUFFICES ASSUME NEW k \in 1..m
                 PROVE  /\ Continues(functions[k], fs2[k], {}, {})
                        /\ functions[k].arity <= 255 => fs2[k].arity <= 255
      BY <1>14 DEF Worked
    <3> QED  BY <1>5, <1>8, SameCode
  <2>2. \A k \in (m + 1)..Len(fs2) : Begun(fs2[k])
    BY <1>5, <1>7, <1>8
  <2>3. EndsKept(functions, fs2, compilers, cs2)
    <3> SUFFICES ASSUME NEW k \in 1..Len(fs2), Ended(k, cs2)
                 PROVE  /\ k \in 1..m /\ Ended(k, compilers)
                        /\ fs2[k].code = functions[k].code
      BY <1>14 DEF EndsKept
    <3>1. k # m + 1
      <4>1. Depth + 1 \in 1..Len(cs2)
        BY <1>3, <1>10
      <4> QED  BY <1>6, <1>10, <4>1 DEF Ended
    <3>2. k \in 1..m
      BY <1>5, <1>8, <3>1
    <3>3. Ended(k, compilers)
      <4>1. \A l \in 1..Depth : l \in 1..Len(cs2)
        BY <1>3, <1>10
      <4> QED  BY <1>9, <1>10, <4>1 DEF Ended
    <3> QED  BY <1>8, <3>2, <3>3
  <2>4. AllAwaited(T, fs2[FunctionOf(q, cs2)])
    BY <1>22, FreeAwaited
  <2>5. Handed(agenda[1], T, {}, {}) /\ {} \cup (Operands(agenda[1]) \ {}) = {}
    BY <1>2 DEF Handed
  <2> QED  BY <1>14, <2>1, <2>2, <2>3, <2>4, <2>5 DEF Transforms
<1>25. agenda' = T \o Tail(agenda) /\ source' = source
  BY <1>1 DEF Then
<1>26. Parsed' /\ (diagnostics' = <<>> => diagnostics = <<>>)
  <2>1. Advance(0) /\ Report(<<>>)
    BY <1>1, <1>4, Staying, QuietReports
  <2> QED  BY <1>4, <1>25, <2>1, ParsedNext
<1> QED  BY <1>1, <1>23, <1>24, <1>25, <1>26, Stepping

LEMMA EndFunctionStep ==
  ASSUME NEW plan, Inv(plan), EndFunction
  PROVE  \E p : Inv(p)'
<1> DEFINE n == Len(functions)
           q == plan[2]
           k0 == Scope.function
           parent == compilers[Depth - 1].function
           enclosing == functions[parent]
           ended == Emit(Target, <<OpNil, OpReturn>>)
           bytes == <<OpClosure, ConstantIndex(enclosing)>>
           closing == Emit(AddConstant(enclosing, FunctionRef(k0)), bytes)
           errors == ConstantErrors(enclosing)
           cs2 == SubSeq(compilers, 1, Depth - 1)
           fs1 == Updated(functions, k0, ended)
           fs2 == Updated(fs1, parent, closing)
<1>1. /\ Task("EndFunction") /\ Report(errors) /\ compilers' = cs2 /\ Then(<<>>)
      /\ UNCHANGED current
      /\ functions' = [functions EXCEPT
                         ![k0] = Emit(@, <<OpNil, OpReturn>>),
                         ![parent] = Emit(AddConstant(@, FunctionRef(k0)), bytes)]
  BY DEF EndFunction
<1>2. /\ agenda # <<>> /\ agenda[1][1] = "EndFunction" /\ agenda[1][1] # "Script"
      /\ Operands(agenda[1]) = {}
  BY <1>1 DEF Task, Operands
<1>3. /\ plan[1] \in Entry /\ q \in Entry /\ Follows(agenda[1], plan[1], q)
      /\ Len(plan[1].scopes) = Depth /\ Depth \in Nat \ {0}
      /\ FunctionOf(plan[1], compilers) = k0 /\ k0 \in 1..n
      /\ Target \in Emittable /\ Pools(Target)
  BY <1>2, AtHand
<1>4. /\ Planned(plan, agenda, compilers, functions)
      /\ Scoped(compilers, n) /\ Generated(functions) /\ Parsed
  BY DEF Inv
<1>5. plan[1].ready /\ q.ready /\ \E d \in Nat : plan[1].scopes = Append(q.scopes, d)
  <2> HIDE DEF q
  <2> QED  BY <1>2, <1>3 DEF Follows, SimpleTasks, IsWhole, WholeTasks, IsHeading, HeadingTasks
<1> HIDE DEF q
<1>6. /\ q.scopes \in Seq(Nat) /\ Len(q.scopes) = Depth - 1 /\ Depth - 1 \in Nat \ {0}
      /\ \A l \in 1..(Depth - 1) : q.scopes[l] = plan[1].scopes[l]
  <2>1. q.scopes \in Seq(Nat) /\ Len(q.scopes) > 0
    BY <1>3 DEF Entry
  <2>2. PICK d \in Nat : plan[1].scopes = Append(q.scopes, d)
    BY <1>5
  <2>3. Len(q.scopes) + 1 = Depth
    BY <1>3, <2>1, <2>2
  <2> QED  BY SMTT(30), <1>3, <2>1, <2>2, <2>3
<1>7. /\ compilers \in Seq(FunctionCompiler) /\ Depth = Len(compilers)
      /\ Scope = compilers[Depth]
  BY <1>4 DEF Scoped, Depth, Scope
<1>8. /\ cs2 \in Seq(FunctionCompiler) /\ Len(cs2) = Depth - 1
      /\ \A l \in 1..(Depth - 1) : cs2[l] = compilers[l] /\ l \in 1..Depth
  BY <1>3, <1>6, <1>7
<1>9. parent \in 1..n /\ parent < k0
  <2>1. Depth - 1 \in 1..Len(compilers) /\ Depth \in 1..Len(compilers) /\ Depth - 1 < Depth
    BY <1>3, <1>6, <1>7
  <2> QED  BY <1>4, <1>7, <2>1 DEF Scoped
<1>10. parent # k0 /\ k0 \in Nat /\ parent \in Nat /\ n \in Nat
  <2>1. n \in Nat
    BY <1>4 DEF Generated
  <2> QED  BY <1>3, <1>9, <2>1
<1>11. /\ functions \in Seq(Emittable) /\ enclosing \in Emittable /\ Pools(enclosing)
       /\ functions[k0] = Target
       /\ \A k \in 1..n : functions[k] \in Emittable /\ Pools(functions[k])
  BY <1>4, <1>9 DEF Generated, Target
<1>12. OnlyCode(Target, ended) /\ Continues(Target, ended, {}, {}) /\ EndsWithReturn(ended.code)
  BY SMTT(30), <1>3, ReturnFacts
<1>13. /\ closing \in Emittable
       /\ Len(closing.constants) <= ByteSize
       /\ Len(enclosing.constants) <= Len(closing.constants)
       /\ closing.upvalues = enclosing.upvalues /\ closing.arity = enclosing.arity
       /\ Continues(enclosing, closing, {}, {})
  <2>1. FunctionRef(k0) \in Constant
    BY <1>10 DEF FunctionRef, Constant
  <2> QED  BY <1>11, <2>1, ConstantCodeFacts DEF Pools
<1>14. functions' = fs2
  <2>1. functions' = [[functions EXCEPT ![k0] = Emit(functions[k0], <<OpNil, OpReturn>>)]
                         EXCEPT ![parent] = Emit(AddConstant(functions[parent],
                                                             FunctionRef(k0)), bytes)]
    <3> HIDE DEF k0, parent, bytes
    <3> QED  BY <1>1, <1>10
  <2> QED  BY <1>11, <2>1 DEF Updated
<1>15. GrownTo(Target, ended) /\ (Target.arity <= 255 => ended.arity <= 255)
  BY SMTT(30), <1>3, <1>12, OnlyCodeGrows
<1>16. GrownTo(enclosing, closing)
  BY <1>11, <1>13 DEF GrownTo, Pools
<1> HIDE DEF ended, closing, bytes
<1>17. /\ Generated(fs1) /\ Grown(functions, fs1) /\ Len(fs1) = n /\ fs1[k0] = ended
       /\ \A k \in 1..n : k # k0 => fs1[k] = functions[k]
  <2> HIDE DEF k0, fs1
  <2>1. GrownTo(functions[k0], ended)
    BY <1>11, <1>15
  <2> QED  BY <1>3, <1>4, <2>1, OneFunction DEF fs1
<1>18. fs1[parent] = enclosing
  BY <1>9, <1>10, <1>17
<1> HIDE DEF fs1
<1>19. /\ Generated(fs2) /\ Grown(fs1, fs2) /\ Len(fs2) = n /\ fs2[parent] = closing
       /\ \A k \in 1..n : k # parent => fs2[k] = fs1[k]
  <2>1. GrownTo(fs1[parent], closing) /\ parent \in 1..Len(fs1)
    BY <1>9, <1>16, <1>17, <1>18
  <2> HIDE DEF parent, fs2
  <2> QED  BY <1>17, <2>1, OneFunction DEF fs2
<1> HIDE DEF fs2
<1>20. \A k \in 1..n : /\ k # parent /\ k # k0 => fs2[k] = functions[k]
                       /\ k = k0 => fs2[k] = ended
                       /\ k = parent => fs2[k] = closing
  BY <1>10, <1>17, <1>19
<1> HIDE DEF k0, parent, n
<1>21. Grown(functions, fs2)
  <2>1. ASSUME NEW k \in 1..n PROVE Len(functions[k].constants) <= Len(fs2[k].constants)
    <3>1. Len(functions[k].constants) \in Nat
      BY <1>11, EmittableFacts
    <3>2. CASE k = k0
      BY <1>11, <1>15, <1>20, <3>2 DEF GrownTo
    <3>3. CASE k = parent
      BY <1>16, <1>20, <3>3 DEF GrownTo
    <3> QED  BY <1>20, <3>1, <3>2, <3>3
  <2>2. n <= Len(fs2)
    BY <1>10, <1>19
  <2> QED  BY <2>1, <2>2 DEF Grown, n
<1> HIDE DEF enclosing
<1>22. Scoped(cs2, n)
  <2>1. \A l \in 1..(Depth - 1) : WellScoped(cs2[l]) /\ cs2[l].function \in 1..n
    BY <1>4, <1>7, <1>8 DEF Scoped
  <2>2. \A l, k \in 1..(Depth - 1) : l < k => cs2[l].function < cs2[k].function
    BY <1>4, <1>7, <1>8 DEF Scoped
  <2>3. \A l \in 1..((Depth - 1) - 1) : Settled(cs2[l])
    <3>1. \A l \in 1..((Depth - 1) - 1) : l \in 1..(Depth - 1)
      BY <1>3
    <3> QED  BY <1>4, <1>7, <1>8, <3>1 DEF Scoped
  <2>4. Len(cs2) > 0 /\ Len(cs2) = Depth - 1 /\ cs2 \in Seq(FunctionCompiler)
    BY <1>3, <1>6, <1>8
  <2> HIDE DEF cs2
  <2> QED  BY <2>1, <2>2, <2>3, <2>4 DEF Scoped
<1>23. Matches(q, cs2)
  <2>1. \A l \in 1..Depth : plan[1].scopes[l] = compilers[l].scopeDepth
    BY <1>3, <1>4, <1>7 DEF Planned, Matches
  <2>2. Depth - 1 \in 1..(Depth - 1)
    BY <1>3, <1>6
  <2>3. Settled(cs2[Depth - 1])
    BY <1>4, <1>7, <1>8, <2>2 DEF Scoped
  <2> QED  BY <1>6, <1>8, <2>1, <2>3 DEF Matches
<1>24. SameLevels(q, compilers, cs2)
  BY <1>6, <1>8 DEF SameLevels
<1>25. /\ Fits(<<>>, q, plan[2], agenda[1][1] = "Script")
       /\ \A f, scope : AllWanted(<<>>, f, scope) /\ AllAwaited(<<>>, f)
  <2>1. (agenda[1][1] = "Script") = FALSE
    BY <1>2
  <2>2. Fits(<<>>, q, plan[2], FALSE)
    BY FitsLists DEF q
  <2>3. ASSUME NEW f, NEW scope PROVE AllWanted(<<>>, f, scope) /\ AllAwaited(<<>>, f)
    <3>1. Light(<<>>, f, scope)
      BY LightLists
    <3> QED  BY <3>1, FreeAwaited DEF Light, AllWanted, AllFree
  <2> QED  BY <2>1, <2>2, <2>3
<1>26. Leads(plan, agenda, compilers, functions, <<>>, q, cs2, fs2)
  <2>1. Len(plan[2].scopes) <= Len(q.scopes) /\ SameLevels(plan[2], compilers, cs2)
    BY <1>6, <1>24 DEF q
  <2>2. Scoped(compilers, Len(functions)) /\ Scoped(cs2, Len(fs2))
    BY <1>4, <1>19, <1>22 DEF n
  <2> HIDE DEF cs2
  <2> QED  BY <1>2, <1>3, <1>4, <1>19, <1>21, <1>23, <1>25, <2>1, <2>2 DEF Leads
<1>27. Transforms(plan, agenda, compilers, functions, <<>>, q, cs2, fs2, {}, {})
  <2>1. Worked(functions, fs2, FunctionOf(plan[1], compilers), {}, {})
    <3>1. ASSUME NEW k \in 1..n
          PROVE  /\ Continues(functions[k], fs2[k], {}, {})
                 /\ functions[k].arity <= 255 => fs2[k].arity <= 255
      <4>1. CASE k = k0
        BY <1>11, <1>12, <1>15, <1>20, <4>1
      <4>2. CASE k = parent
        BY <1>13, <1>20, <4>2 DEF enclosing
      <4>3. CASE k # k0 /\ k # parent
        BY <1>11, <1>20, <4>3, SameCode
      <4> QED  BY <4>1, <4>2, <4>3
    <3> QED  BY <3>1 DEF Worked, n
  <2>2. \A k \in (Len(functions) + 1)..Len(fs2) : Begun(fs2[k])
    BY <1>10, <1>19 DEF n
  <2>3. EndsKept(functions, fs2, compilers, cs2)
    <3> SUFFICES ASSUME NEW k \in 1..n, Ended(k, cs2)
                 PROVE  \/ EndsWithReturn(fs2[k].code)
                        \/ Ended(k, compilers) /\ fs2[k].code = functions[k].code
      BY <1>19 DEF EndsKept, n
    <3>1. CASE k = k0
      BY <1>12, <1>20, <3>1
    <3>2. CASE k # k0
      <4>1. k # parent
        <5>1. Depth - 1 \in 1..Len(cs2)
          BY <1>3, <1>6, <1>8
        <5> QED  BY <1>8, <5>1 DEF Ended, parent
      <4>2. ASSUME NEW l \in 1..Len(compilers) PROVE compilers[l].function # k
        <5>1. l = Depth \/ l \in 1..(Depth - 1)
          BY <1>3, <1>7
        <5>2. CASE l = Depth
          BY <1>7, <3>2, <5>2 DEF k0
        <5>3. CASE l \in 1..(Depth - 1)
          BY <1>8, <5>3 DEF Ended
        <5> QED  BY <5>1, <5>2, <5>3
      <4> QED  BY <1>20, <3>2, <4>1, <4>2 DEF Ended
    <3> QED  BY <3>1, <3>2
  <2>4. Handed(agenda[1], <<>>, {}, {}) /\ {} \cup (Operands(agenda[1]) \ {}) = {}
    BY <1>2 DEF Handed
  <2> HIDE DEF cs2
  <2> QED  BY <1>25, <2>1, <2>2, <2>3, <2>4 DEF Transforms
<1>28. agenda' = <<>> \o Tail(agenda) /\ source' = source
  BY <1>1 DEF Then
<1>29. Parsed' /\ (diagnostics' = <<>> => diagnostics = <<>>)
  <2>1. Advance(0)
    BY <1>1, <1>4, Staying
  <2> HIDE DEF errors
  <2> QED  BY SMTT(30), <1>1, <1>4, <1>28, <2>1, ParsedNext
<1> HIDE DEF cs2
<1> QED  BY <1>1, <1>14, <1>26, <1>27, <1>28, <1>29, Stepping
-----------------------------------------------------------------------------
(* The script. *)

LEMMA ScriptStep ==
  ASSUME NEW plan, Inv(plan), Script
  PROVE  \E p : Inv(p)'
<1> DEFINE q == plan[1]
           a == <<"Declaration">>
           b == <<"Script">>
           T == <<a, b>>
<1>1. Task("Script") /\ Read(0, T)
  BY DEF Script
<1>2. agenda # <<>> /\ agenda[1][1] = "Script" /\ Operands(agenda[1]) = {}
  BY <1>1 DEF Task, Operands
<1>3. plan[2] = q /\ q.ready
  BY <1>2, SteadyTask DEF WholeTasks
<1> HIDE DEF q
<1>4. Follows(a, q, q) /\ Follows(b, q, q)
  BY <1>3 DEF Follows, IsWhole, WholeTasks
<1>5. a[1] # "Script" /\ b[1] = "Script"
  OBVIOUS
<1>6. /\ Wanted(a, Target, Scope.scopeDepth) /\ Free(a)
      /\ Wanted(b, Target, Scope.scopeDepth) /\ Free(b)
  BY DEF Wanted, Free, Operands
<1>7. IsSequence(T) /\ Len(T) = 2 /\ T[1] = a /\ T[2] = b
  BY Sequences
<1> HIDE DEF a, b
<1>8. Light(T, Target, Scope.scopeDepth)
  BY <1>6, LightLists
<1> HIDE DEF T
<1>9. Fits(T, q, plan[2], TRUE)
  BY <1>3, <1>4, <1>5, <1>7, Sequences DEF Fits
<1>10. AllWanted(T, Target, Scope.scopeDepth) /\ AllAwaited(T, Target)
  BY <1>8, FreeAwaited DEF Light, AllWanted, AllFree
<1>11. /\ Advance(0) /\ Report(<<>>) /\ Then(T) /\ UNCHANGED <<compilers, functions>>
  BY <1>1, QuietReports DEF Read, Inv
<1>12. Generate(Target) /\ GrownTo(Target, Target) /\ Continues(Target, Target, {}, {})
  BY <1>2, <1>11, Unchanging
<1>13. Write(0, Target, <<>>, T)
  BY <1>11, <1>12 DEF Write
<1>14. Handed(agenda[1], T, {}, {})
  BY <1>2 DEF Handed
<1>15. Fits(T, plan[1], plan[2], agenda[1][1] = "Script")
  <2>1. (agenda[1][1] = "Script") = TRUE
    BY <1>2
  <2> QED  BY <1>9, <2>1 DEF q
<1> QED  BY <1>2, <1>10, <1>12, <1>13, <1>14, <1>15, Writing

(* A function whose jumps are all patched, and that returns, is accepted. *)
LEMMA CutsValidated ==
  ASSUME NEW f \in Emittable, Cuts(f), f.arity <= 255, EndsWithReturn(f.code),
         \A b \in Starts(f) : IsJump(ByteAt(f.code, b)) => JumpTarget(f.code, b) \in Bounds(f)
  PROVE  Validated(Compiled(f))
<1> DEFINE g == Compiled(f)
<1>1. /\ g.arity = f.arity /\ g.code = f.code /\ g.constants = f.constants
      /\ g.boundaries = Bounds(f)
  BY DEF Compiled, Bounds
<1> HIDE DEF g
<1>2. f.arity \in 0..255
  <2>1. f.arity \in Nat
    BY EmittableFacts
  <2> QED  BY <2>1
<1>3. WellFormed(f.code, Len(f.constants), Bounds(f))
  <2>1. /\ Bounds(f) \subseteq 0..Len(f.code) /\ 0 \in Bounds(f) /\ Len(f.code) \in Bounds(f)
        /\ \A b \in Starts(f) : InstructionEnd(f.code, Len(f.constants), b) \in Bounds(f)
    BY DEF Cuts, Cut, Starts
  <2> QED  BY <2>1 DEF WellFormed, Starts
<1> QED  BY <1>1, <1>2, <1>3 DEF Validated, g

(* Where only the script is left, nothing waits to be patched. *)
LEMMA AtTheEnd ==
  ASSUME NEW plan, Inv(plan), Task("Script"), diagnostics = <<>>
  PROVE  /\ Depth = 1
         /\ \A k \in 1..Len(functions) :
              LET f == functions[k]
              IN /\ f \in Emittable /\ Cuts(f) /\ f.arity <= 255
                 /\ k # Scope.function => EndsWithReturn(f.code)
                 /\ \A b \in Starts(f) :
                      IsJump(ByteAt(f.code, b)) => JumpTarget(f.code, b) \in Bounds(f)
<1>1. agenda # <<>> /\ agenda[1][1] = "Script" /\ Operands(agenda[1]) = {}
  BY DEF Task, Operands
<1>2. /\ Len(agenda) = 1 /\ Len(plan[1].scopes) = Depth /\ Depth \in Nat \ {0}
      /\ plan[2] = plan[1]
      /\ Sound(plan, agenda, compilers, functions)
  <2>1. plan[2] = plan[1]
    BY <1>1, SteadyTask DEF WholeTasks
  <2> QED  BY <1>1, <2>1, AtHand
<1>3. Depth = 1
  <2>1. Len(plan) = Len(agenda) + 1 /\ Len(plan[Len(plan)].scopes) = 1
    BY DEF Inv, Planned
  <2>2. Len(plan) = 2
    BY <1>2, <2>1
  <2> QED  BY <1>2, <2>1, <2>2
<1>4. ASSUME NEW k \in 1..Len(functions)
      PROVE  LET f == functions[k]
             IN /\ f \in Emittable /\ Cuts(f) /\ f.arity <= 255
                /\ k # Scope.function => EndsWithReturn(f.code)
                /\ \A b \in Starts(f) :
                     IsJump(ByteAt(f.code, b)) => JumpTarget(f.code, b) \in Bounds(f)
  <2>1. /\ Linked(k, plan, agenda, compilers, functions) /\ functions[k].arity <= 255
        /\ Ended(k, compilers) => EndsWithReturn(functions[k].code)
    BY <1>2 DEF Sound
  <2>2. functions[k] \in Emittable
    BY DEF Inv, Generated
  <2>3. k # Scope.function => Ended(k, compilers)
    BY <1>3 DEF Ended, Scope, Depth
  <2>4. ASSUME NEW p PROVE ~IsPending(p, k, plan, agenda, compilers)
    BY <1>1, <1>2 DEF IsPending
  <2> QED  BY <2>1, <2>2, <2>3, <2>4 DEF Linked
<1> QED  BY <1>3, <1>4

LEMMA InvTypes ==
  ASSUME NEW plan, Inv(plan), outcome \in {"none", "compiled", "failed", "invalid"}
  PROVE  TypeOK
<1>1. Parsed /\ Scoped(compilers, Len(functions)) /\ Generated(functions)
  BY DEF Inv
<1>2. DOMAIN functions = 1..Len(functions) /\ DOMAIN compilers = 1..Len(compilers)
  BY <1>1 DEF Generated, Scoped
<1>3. \A k \in DOMAIN functions : functions[k].code \in Seq(Byte)
  BY <1>1, <1>2, EmittableFacts DEF Generated
<1>4. \A level \in DOMAIN compilers :
        LET c == compilers[level]
        IN /\ c \in FunctionCompiler /\ c.function \in DOMAIN functions
           /\ \A k \in DOMAIN c.locals : c.locals[k].depth <= c.scopeDepth
  BY <1>1, <1>2 DEF Scoped, WellScoped
<1> QED  BY <1>1, <1>3, <1>4 DEF TypeOK, Parsed

LEMMA FinishStep ==
  ASSUME NEW plan, Inv(plan), outcome = "none", Finish
  PROVE  outcome' \in {"compiled", "failed"} /\ agenda' = <<>> /\ TypeOK'
<1> DEFINE k0 == Scope.function
           g == Emit(Target, <<OpNil, OpReturn>>)
           fs2 == functions'
<1>1. /\ Task("Script") /\ Generate(g) /\ agenda' = <<>> /\ Quiet
      /\ UNCHANGED <<source, current, compilers>>
      /\ outcome' = IF diagnostics # <<>> THEN "failed"
                    ELSE IF \A k \in DOMAIN fs2 : Validated(Compiled(fs2[k]))
                    THEN "compiled" ELSE "invalid"
  BY DEF Finish
<1>2. /\ agenda # <<>> /\ k0 \in 1..Len(functions) /\ Target \in Emittable /\ Pools(Target)
      /\ functions[k0] = Target
  <2>1. agenda # <<>>
    BY <1>1 DEF Task
  <2> QED  BY <2>1, AtHand DEF Target
<1>3. OnlyCode(Target, g) /\ Continues(Target, g, {}, {}) /\ EndsWithReturn(g.code)
  BY <1>2, ReturnFacts
<1>4. GrownTo(Target, g) /\ (Target.arity <= 255 => g.arity <= 255)
  BY <1>2, <1>3, OnlyCodeGrows
<1> HIDE DEF g
<1>5. fs2 = Updated(functions, k0, g)
  BY <1>1 DEF Generate, Updated
<1> HIDE DEF k0, fs2
<1>6. /\ Generated(fs2) /\ Len(fs2) = Len(functions) /\ fs2[k0] = g
      /\ \A k \in 1..Len(functions) : k # k0 => fs2[k] = functions[k]
  <2>1. Generated(functions) /\ GrownTo(functions[k0], g)
    BY <1>2, <1>4 DEF Inv
  <2> QED  BY <1>2, <1>5, <2>1, OneFunction
<1>7. DOMAIN fs2 = 1..Len(functions)
  BY <1>6 DEF Generated
<1>8. ASSUME diagnostics = <<>>, NEW k \in 1..Len(functions)
      PROVE  Validated(Compiled(fs2[k]))
  <2> DEFINE f == functions[k]
  <2>1. /\ f \in Emittable /\ Cuts(f) /\ f.arity <= 255
        /\ k # k0 => EndsWithReturn(f.code)
        /\ \A b \in Starts(f) :
             IsJump(ByteAt(f.code, b)) => JumpTarget(f.code, b) \in Bounds(f)
    BY <1>1, <1>8, AtTheEnd DEF k0
  <2> HIDE DEF f
  <2>2. CASE k # k0
    <3>1. fs2[k] = f
      BY <1>6, <2>2 DEF f
    <3> QED  BY <2>1, <2>2, <3>1, CutsValidated
  <2>3. CASE k = k0
    <3>1. f = Target /\ fs2[k] = g
      BY <1>2, <1>6, <2>3 DEF f
    <3>2. /\ Cuts(g) /\ Bounds(f) \subseteq Bounds(g)
          /\ \A b \in Starts(g) :
               IsJump(ByteAt(g.code, b)) =>
                 \/ JumpTarget(g.code, b) \in Bounds(g)
                 \/ b \in Starts(f) /\ ByteAt(g.code, b) = ByteAt(f.code, b)
                      /\ JumpTarget(g.code, b) = JumpTarget(f.code, b)
      BY <1>3, <2>1, <3>1 DEF Continues
    <3>3. \A b \in Starts(g) : IsJump(ByteAt(g.code, b)) => JumpTarget(g.code, b) \in Bounds(g)
      BY <2>1, <3>2
    <3>4. g \in Emittable /\ g.arity <= 255
      BY <1>4, <2>1, <3>1 DEF GrownTo
    <3> QED  BY <1>3, <3>1, <3>2, <3>3, <3>4, CutsValidated
  <2> QED  BY <2>2, <2>3
<1>9. outcome' \in {"compiled", "failed"}
  BY <1>1, <1>7, <1>8
<1>10. TypeOK'
  <2>1. Parsed /\ Scoped(compilers, Len(functions))
    BY DEF Inv
  <2>2. DOMAIN compilers = 1..Len(compilers)
    BY <2>1 DEF Scoped
  <2>3. \A k \in DOMAIN fs2 : fs2[k].code \in Seq(Byte)
    BY <1>6, <1>7, EmittableFacts DEF Generated
  <2>4. \A level \in DOMAIN compilers :
          LET c == compilers[level]
          IN /\ c \in FunctionCompiler /\ c.function \in DOMAIN fs2
             /\ \A k \in DOMAIN c.locals : c.locals[k].depth <= c.scopeDepth
    BY <1>7, <2>1, <2>2 DEF Scoped, WellScoped
  <2>5. /\ current' \in 0..(Len(source') + 1) /\ panicMode' \in BOOLEAN
        /\ panicMode' => diagnostics' # <<>>
    BY <1>1, <2>1 DEF Parsed, Quiet
  <2> QED  BY <1>1, <1>9, <2>3, <2>4, <2>5 DEF TypeOK, fs2
<1> QED  BY <1>1, <1>9, <1>10
-----------------------------------------------------------------------------
(* The invariant holds. *)

LEMMA InitIInv == Init => IInv
<1> SUFFICES ASSUME Init PROVE IInv
  OBVIOUS
<1> DEFINE c == NewFunctionCompiler(1, 0)
           f == NewFunction
           e == [scopes |-> <<0>>, ready |-> TRUE]
           plan == <<e, e>>
           task == <<"Script">>
<1>1. /\ current = 0 /\ panicMode = FALSE /\ compilers = <<c>> /\ functions = <<f>>
      /\ agenda = <<task>> /\ outcome = "none"
  BY DEF Init
<1>2. source \in Seq(Token) /\ IsSequence(diagnostics)
  <2>1. PICK s \in Sources : source = s.tokens /\ diagnostics = s.errors
    BY DEF Init
  <2>2. s.tokens \in Seq(Token) /\ s.errors \in Seq(STRING)
    <3> DEFINE A == Seq(Token)
               B == Seq(STRING)
    <3>1. Sources \subseteq [tokens: A, errors: B]
      BY SourceTypes, Zenon
    <3> HIDE DEF A, B
    <3>2. s.tokens \in A /\ s.errors \in B
      BY <3>1
    <3> QED  BY <3>2, ZenonT(60) DEF A, B
  <2> QED  BY <2>1, <2>2 DEF IsSequence
<1>3. Parsed
  <2>1. Len(source) \in Nat
    BY <1>2
  <2>2. current \in 0..(Len(source) + 1)
    BY <1>1, <2>1
  <2>3. panicMode \in BOOLEAN /\ ~panicMode
    BY <1>1
  <2> QED  BY <1>2, <2>2, <2>3 DEF Parsed
<1>4. WellScoped(c) /\ Settled(c) /\ c.function = 1 /\ c.scopeDepth = 0
  BY NewScopeFacts
<1>5. f \in Emittable /\ Pools(f) /\ Begun(f)
  BY NewFunctionFacts
<1> HIDE DEF c, f
<1>6. /\ compilers \in Seq(FunctionCompiler) /\ Len(compilers) = 1 /\ compilers[1] = c
      /\ functions \in Seq(Emittable) /\ Len(functions) = 1 /\ functions[1] = f
  <2>1. c \in FunctionCompiler
    BY <1>4 DEF WellScoped
  <2> QED  BY <1>1, <1>5, <2>1
<1>7. Scoped(compilers, Len(functions))
  BY <1>4, <1>6 DEF Scoped
<1>8. Generated(functions)
  BY <1>5, <1>6 DEF Generated
<1>9. e \in Entry /\ e.ready /\ Len(e.scopes) = 1 /\ e.scopes[1] = 0
  BY DEF Entry
<1>10. IsSequence(agenda) /\ Len(agenda) = 1 /\ agenda[1] = task
  BY <1>1, Sequences
<1>11. Follows(task, e, e) /\ task[1] = "Script" /\ Operands(task) = {}
  BY DEF Follows, IsWhole, WholeTasks, Operands
<1>12. \A g, scope : Wanted(task, g, scope)
  BY DEF Wanted
<1>13. \A g : Awaits(task, g)
  BY <1>11 DEF Awaits
<1> HIDE DEF e, task
<1>14. plan \in Seq(Entry) /\ Len(plan) = 2 /\ plan[1] = e /\ plan[2] = e
  BY <1>9
<1> HIDE DEF plan
<1>15. Matches(plan[1], compilers)
  BY <1>4, <1>6, <1>9, <1>14 DEF Matches
<1>16. Planned(plan, agenda, compilers, functions)
  <2>1. \A i \in 1..Len(agenda) : i = 1 /\ plan[i] = e /\ plan[i + 1] = e /\ agenda[i] = task
    BY <1>10, <1>14
  <2>2. \A i \in 1..Len(plan) : plan[i] = e
    BY <1>14
  <2>3. \A i, j \in 1..Len(plan) : Len(plan[j].scopes) <= Len(plan[i].scopes)
    BY <1>9, <2>2
  <2>4. Len(plan) = Len(agenda) + 1 /\ Len(plan[Len(plan)].scopes) = 1
    BY <1>9, <1>10, <1>14
  <2>5. \A i \in 1..Len(agenda) :
          /\ agenda[i][1] = "Script" <=> i = Len(agenda)
          /\ Follows(agenda[i], plan[i], plan[i + 1])
          /\ Wanted(agenda[i], functions[FunctionOf(plan[i], compilers)], ScopeOf(plan[i]))
    BY <1>10, <1>11, <1>12, <2>1
  <2> QED  BY <1>10, <1>14, <1>15, <2>3, <2>4, <2>5 DEF Planned
<1>17. Sound(plan, agenda, compilers, functions)
  <2>1. Linked(1, plan, agenda, compilers, functions) /\ functions[1].arity <= 255
    BY <1>5, <1>6 DEF Linked, Begun
  <2>2. ~Ended(1, compilers)
    BY <1>4, <1>6 DEF Ended
  <2>3. \A k \in 1..Len(functions) : k = 1
    BY <1>6
  <2>4. \A i \in 1..Len(agenda) : Awaits(agenda[i], functions[FunctionOf(plan[i], compilers)])
    BY <1>10, <1>13
  <2> QED  BY <2>1, <2>2, <2>3, <2>4 DEF Sound
<1>18. Inv(plan)
  BY <1>3, <1>7, <1>8, <1>16, <1>17 DEF Inv
<1> QED  BY <1>1, <1>18 DEF IInv

(* The actions of each section of the compiler: each does one task, and    *)
(* none ends the compilation.                                              *)
Declaring ==
  \/ Script \/ Declaration \/ Recover \/ Consume
  \/ ParseVariable \/ Initializer \/ DefineVariable
  \/ CompileFunction \/ Parameters \/ Parameter \/ MoreParameters \/ EndFunction
Executing ==
  \/ PrintStatement \/ IfStatement \/ ThenBranch \/ ElseBranch
  \/ WhileStatement \/ WhileBody \/ EndWhile \/ ReturnStatement
  \/ BlockStatement \/ ExpressionStatement \/ Block \/ EndScope
Evaluating ==
  \/ LiteralOperand \/ KeywordOperand \/ Grouping \/ Unary \/ NamedVariable \/ NoOperand
  \/ Binary \/ And \/ Or \/ Call \/ Arguments \/ EndExpression
  \/ EmitCode \/ Patch

LEMMA NextIs == Next <=> Finish \/ Declaring \/ Executing \/ Evaluating
BY DEF Next, Declaring, Executing, Evaluating

LEMMA DeclaringStep ==
  ASSUME NEW plan, Inv(plan), Declaring
  PROVE  (\E p : Inv(p)') /\ outcome' = outcome
<1>1. \E p : Inv(p)'
  BY ScriptStep, DeclarationStep, RecoverStep, ConsumeStep, ParseVariableStep,
     InitializerStep, DefineStep, CompileFunctionStep, ParametersStep, ParameterStep,
     EndFunctionStep DEF Declaring
<1>2. outcome' = outcome
  <2>1. CASE Script \/ Declaration \/ Recover \/ Consume
    BY <2>1 DEF Script, Declaration, Recover, Consume, Read, ReadOrFail, Then
  <2>2. CASE ParseVariable
    BY <2>2 DEF ParseVariable, Then
  <2>3. CASE Initializer \/ DefineVariable
    BY <2>3 DEF Initializer, DefineVariable, Read, Write, Then
  <2>4. CASE CompileFunction \/ EndFunction
    BY <2>4 DEF CompileFunction, EndFunction, Then
  <2>5. CASE Parameters \/ Parameter \/ MoreParameters
    BY <2>5 DEF Parameters, Parameter, MoreParameters, Read, Write, Then
  <2> QED  BY <2>1, <2>2, <2>3, <2>4, <2>5 DEF Declaring
<1> QED  BY <1>1, <1>2

LEMMA ExecutingStep ==
  ASSUME NEW plan, Inv(plan), Executing
  PROVE  (\E p : Inv(p)') /\ outcome' = outcome
<1>1. \E p : Inv(p)'
  BY PrintStep, IfStep, ThenStep, ElseStep, WhileStep, WhileBodyStep, EndWhileStep,
     ReturnStep, BlockStatementStep, ExpressionStatementStep, BlockStep, EndScopeStep
     DEF Executing
<1>2. outcome' = outcome
  <2>1. CASE PrintStatement \/ IfStatement \/ WhileStatement \/ ReturnStatement
    BY <2>1 DEF PrintStatement, IfStatement, WhileStatement, ReturnStatement, Read,
                ReadOrFail, Then
  <2>2. CASE ThenBranch \/ ElseBranch \/ WhileBody \/ EndWhile
    BY <2>2 DEF ThenBranch, ElseBranch, WhileBody, EndWhile, Write, Then
  <2>3. CASE BlockStatement \/ EndScope
    BY <2>3 DEF BlockStatement, EndScope, Then
  <2>4. CASE ExpressionStatement \/ Block
    BY <2>4 DEF ExpressionStatement, Block, Read, Then
  <2> QED  BY <2>1, <2>2, <2>3, <2>4 DEF Executing
<1> QED  BY <1>1, <1>2

LEMMA EvaluatingStep ==
  ASSUME NEW plan, Inv(plan), Evaluating
  PROVE  (\E p : Inv(p)') /\ outcome' = outcome
<1>1. \E p : Inv(p)'
  BY LiteralStep, KeywordStep, GroupingStep, UnaryStep, NamedStep, NoOperandStep, BinaryStep,
     AndStep, OrStep, CallStep, ArgumentsStep, EndExpressionStep, EmitStep, PatchStep
     DEF Evaluating
<1>2. outcome' = outcome
  <2>1. CASE LiteralOperand \/ KeywordOperand \/ Grouping \/ Unary \/ NoOperand
    BY <2>1, ZenonT(60) DEF LiteralOperand, KeywordOperand, Grouping, Unary, NoOperand, Read, ReadOrFail,
                Write, Then
  <2>2. CASE NamedVariable
    BY <2>2 DEF NamedVariable, NamedLocal, NamedUpvalue, NamedGlobal, Access, Then
  <2>3. CASE Binary \/ And \/ Or
    BY <2>3 DEF Binary, And, Or, Read, Write, Then
  <2>4. CASE Call \/ Arguments \/ EndExpression
    BY <2>4 DEF Call, Arguments, EndExpression, Read, ReadOrFail, Then
  <2>5. CASE EmitCode \/ Patch
    BY <2>5 DEF EmitCode, Patch, Write, Then
  <2> QED  BY <2>1, <2>2, <2>3, <2>4, <2>5 DEF Evaluating
<1> QED  BY <1>1, <1>2

(* Once Compile returned, no task is left. *)
LEMMA NoneLeft ==
  ASSUME agenda = <<>>
  PROVE  ~Next
<1>1. \A name : ~Task(name)
  BY DEF Task
<1>2. ~Finish
  BY <1>1 DEF Finish
<1>3. ~Declaring
  BY <1>1 DEF Declaring, Script, Declaration, Recover, Consume, ParseVariable, Initializer,
              DefineVariable, CompileFunction, Parameters, Parameter, MoreParameters,
              EndFunction
<1>4. ~Executing
  BY <1>1 DEF Executing, PrintStatement, IfStatement, ThenBranch, ElseBranch, WhileStatement,
              WhileBody, EndWhile, ReturnStatement, BlockStatement, ExpressionStatement,
              Block, EndScope, Statement
<1>5. ~Evaluating
  BY <1>1 DEF Evaluating, LiteralOperand, KeywordOperand, Grouping, Unary, NamedVariable,
              NoOperand, Binary, And, Or, Call, Arguments, EndExpression, EmitCode, Patch,
              Operand, Operator
<1> QED  BY <1>2, <1>3, <1>4, <1>5, NextIs

LEMMA NextIInv == IInv /\ [Next]_vars => IInv'
<1>1. ASSUME IInv, UNCHANGED vars PROVE IInv'
  <2>1. CASE outcome = "none" /\ \E plan : Inv(plan)
    <3>1. PICK plan : Inv(plan)
      BY <2>1
    <3>2. Inv(plan)'
      BY <1>1, <3>1 DEF vars, Inv, Parsed
    <3> QED  BY <1>1, <2>1, <3>2 DEF vars, IInv
  <2>2. CASE outcome \in {"compiled", "failed"} /\ agenda = <<>> /\ TypeOK
    BY <1>1, <2>2 DEF vars, IInv, TypeOK
  <2> QED  BY <1>1, <2>1, <2>2 DEF IInv
<1>2. ASSUME IInv, Next PROVE IInv'
  <2>1. outcome = "none" /\ \E plan : Inv(plan)
    BY <1>2, NoneLeft DEF IInv
  <2>2. PICK plan : Inv(plan)
    BY <2>1
  <2>3. CASE Finish
    BY <2>1, <2>2, <2>3, FinishStep DEF IInv
  <2>4. CASE Declaring
    BY <2>1, <2>2, <2>4, DeclaringStep DEF IInv
  <2>5. CASE Executing
    BY <2>1, <2>2, <2>5, ExecutingStep DEF IInv
  <2>6. CASE Evaluating
    BY <2>1, <2>2, <2>6, EvaluatingStep DEF IInv
  <2> QED  BY <1>2, <2>3, <2>4, <2>5, <2>6, NextIs
<1> QED  BY <1>1, <1>2

(* For every source, the parser never reads past the end, every local of a *)
(* function under compilation belongs to a scope that is open, and only    *)
(* bytes are emitted (internal/compiler).                                  *)
THEOREM CompilerTyped == Spec => []TypeOK
<1>1. IInv => TypeOK
  BY InvTypes DEF IInv
<1> QED  BY <1>1, InitIInv, NextIInv, PTL DEF Spec

(* For every source, whatever Compile emits without a diagnostic, Validate *)
(* accepts: the error of compiler.go:49 is never returned.                 *)
THEOREM CompilerOutputValid == Spec => []OutputValid
<1>1. IInv => OutputValid
  BY DEF IInv, OutputValid
<1> QED  BY <1>1, InitIInv, NextIInv, PTL DEF Spec
=============================================================================
