----------------------------- MODULE Discipline -----------------------------
(***************************************************************************)
(* What code has to be like for internal/vm to run it without an internal  *)
(* error: the discipline that the compiler follows and the machine relies  *)
(* on, although nothing in the source states or checks it (Validate looks  *)
(* at the boundaries of the instructions only).                            *)
(*                                                                         *)
(* The shapes of a function say, for each offset of its code, the heights  *)
(* above the base of its frame that the stack can have when execution      *)
(* comes there, and the slots that open upvalues may then stand for.  A    *)
(* program is disciplined when its shapes are closed under every           *)
(* instruction and every instruction finds in them what it needs.          *)
(***************************************************************************)
EXTENDS Runtime, FiniteSets

(* How many values the instruction at o takes off the stack. *)
Takes(code, o) ==
  LET op == ByteAt(code, o)
  IN CASE op = OpCall -> ByteAt(code, o + 1) + 1
       [] op \in OpEqual..OpDivide -> 2
       [] op \in {OpPop, OpDefineGlobal, OpNot, OpNegate, OpPrint,
                  OpCloseUpvalue, OpReturn} -> 1
       [] OTHER -> 0

(* By how much it changes the height of the stack. *)
Effect(code, o) ==
  IF ByteAt(code, o) = OpCall THEN -ByteAt(code, o + 1) ELSE StackEffect(ByteAt(code, o))

(* Where execution goes from it, in the same function. *)
Successors(code, o) ==
  CASE ByteAt(code, o) = OpReturn -> {}
    [] ByteAt(code, o) \in {OpJump, OpLoop} -> {JumpTarget(code, o)}
    [] ByteAt(code, o) = OpJumpIfFalse -> {o + 3, JumpTarget(code, o)}
    [] OTHER -> {o + 1 + OperandBytes(ByteAt(code, o))}

ConstantAt(f, o) == f.constants[ByteAt(f.code, o + 1) + 1]

(* The slots of its frame that it captures. *)
CapturesAt(p, f, o) ==
  LET constant == ConstantAt(f, o)
  IN IF ByteAt(f.code, o) = OpClosure /\ constant[1] = "function"
     THEN LET specs == p[constant[2]].upvalues
          IN {specs[i].index : i \in {j \in DOMAIN specs : specs[j].isLocal}}
     ELSE {}

(* The captured slots after it, when it runs at this height. *)
CapturedAfter(p, f, o, height, captured) ==
  IF ByteAt(f.code, o) = OpCloseUpvalue
  THEN captured \ {height - 1}
  ELSE captured \cup CapturesAt(p, f, o)

(* What a relation, a set of pairs, holds for an offset. *)
At(relation, o) == {pair[2] : pair \in {r \in relation : r[1] = o}}

(* The shapes of function k, found by following the instructions in the    *)
(* order of their offsets, once more for every LOOP, which leads back.     *)
ShapesOf(p, k) ==
  LET f == p[k]
      size == Len(f.code)
      starts == f.boundaries \ {size}
      rounds == 1 + Cardinality({o \in starts : ByteAt(f.code, o) = OpLoop})
      flow[n \in 0..(size * rounds)] ==
        IF n = 0 THEN [heights |-> {<<0, f.arity + 1>>}, captured |-> {}]
        ELSE LET before == flow[n - 1]
                 o == (n - 1) % size
                 heights == At(before.heights, o)
                 captured == UNION {CapturedAfter(p, f, o, h, At(before.captured, o)) :
                                      h \in heights}
             IN IF o \notin starts THEN before
                ELSE [heights |-> before.heights \cup
                        {<<next, h + Effect(f.code, o)>> :
                           next \in Successors(f.code, o), h \in heights},
                      captured |-> before.captured \cup
                        Successors(f.code, o) \X captured]
  IN flow[size * rounds]

(* The instruction at o, reached at this height, finds what it refers to:  *)
(* its local is on the stack, its upvalue in the closure, its constant     *)
(* has the right type, and the variables a new closure captures exist (its *)
(* own slot is the next one).                                              *)
RefersWell(p, f, o, height) ==
  LET op == ByteAt(f.code, o)
      n == ByteAt(f.code, o + 1)
      constant == ConstantAt(f, o)
  IN /\ op \in {OpGetLocal, OpSetLocal} => n \in 1..(height - 1)
     /\ op \in {OpGetUpvalue, OpSetUpvalue} => n < Len(f.upvalues)
     /\ op \in {OpGetGlobal, OpSetGlobal, OpDefineGlobal} => IsString(constant)
     /\ op = OpConstant => constant[1] # "function"
     /\ op = OpClosure =>
          /\ constant[1] = "function"
          /\ LET specs == p[constant[2]].upvalues
             IN \A i \in DOMAIN specs :
                  IF specs[i].isLocal THEN specs[i].index \in 1..height
                  ELSE specs[i].index < Len(f.upvalues)

(* Captured slots lie between the closure of the frame and what the        *)
(* instruction takes off the stack; CLOSE_UPVALUE may take one.            *)
SlotsSafe(f, o, height, captured) ==
  captured \subseteq
    1..(height - 1 - (IF ByteAt(f.code, o) = OpCloseUpvalue THEN 0 ELSE Takes(f.code, o)))

DisciplinedAt(p, f, shapes, o, height) ==
  /\ Takes(f.code, o) < height
  /\ RefersWell(p, f, o, height)
  /\ SlotsSafe(f, o, height, At(shapes.captured, o))
  /\ \A next \in Successors(f.code, o) :
       /\ next \in f.boundaries \ {Len(f.code)}
       /\ height + Effect(f.code, o) \in At(shapes.heights, next)
       /\ CapturedAfter(p, f, o, height, At(shapes.captured, o)) \subseteq At(shapes.captured, next)

Disciplined(p) ==
  /\ p[1].upvalues = <<>>
  /\ \A k \in 1..Len(p) :
       LET f == p[k]
           shapes == ShapesOf(p, k)
       IN /\ Validated(f)
          /\ f.arity + 1 \in At(shapes.heights, 0)
          /\ \A o \in f.boundaries \ {Len(f.code)} : \A h \in At(shapes.heights, o) :
               DisciplinedAt(p, f, shapes, o, h)
=============================================================================
