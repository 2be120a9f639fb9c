------------------------------ MODULE VMProofs ------------------------------
(***************************************************************************)
(* Proof that the machine is safe on every program and under every limit:  *)
(* its variables keep their types, no limit is exceeded, no frame leaves   *)
(* the instruction boundaries of a validated function, and a machine that  *)
(* is done has released all it held.                                       *)
(*                                                                         *)
(* The invariant is the conjunction of the four, with what a machine that  *)
(* is not prepared looks like.  Each action is split into what it does to  *)
(* the stack (StackFits) and to the frames (FramesFit); most actions       *)
(* change nothing else, and StackOpStep concludes for them.                *)
(***************************************************************************)
EXTENDS VM, SequenceTheorems, TLAPS

NotPrepared == ~prepared => ~done /\ err = "none"

BottomFrame == frames # <<>> => frames[1].base = 0

(* A machine that has a frame runs a program whose functions are all valid. *)
Loaded == frames # <<>> => \A k \in Functions : Validated(program[k])

IInv ==
  /\ TypeOK /\ LimitsRespected /\ DecodesCleanly /\ DoneIsClean
  /\ NotPrepared /\ BottomFrame /\ Loaded

FrameType == [closure: Closure(Functions, Addresses), ip: Nat, base: Nat]

SafeErrors == Errors \ {"bad_instruction"}

(* The stack, its peak and the error after a step.  The values are those   *)
(* of the next state, which may have more upvalue objects.                 *)
StackFits ==
  /\ stack' \in Seq(Val') /\ peak' \in Nat
  /\ Len(stack') <= peak' /\ peak' <= limits.maxStack
  /\ err' \in SafeErrors

(* The frames after a step that calls nothing. *)
FramesFit ==
  /\ frames' \in Seq(FrameType)
  /\ Len(frames') <= Len(frames)
  /\ \A i \in 1..Len(frames') : OnBoundary(frames'[i])
  /\ BottomFrame'

Fitting(s) == s \in Seq(Val') /\ Len(s) <= limits.maxStack

(* Limits and peak are numbers. *)
LEMMA Numeric ==
  ASSUME IInv
  PROVE  /\ limits.maxStack \in Nat \ {0} /\ limits.maxFrames \in Nat
         /\ limits.maxSteps \in Nat /\ limits.maxOutputBytes \in Nat
         /\ peak \in Nat /\ peak <= limits.maxStack
         /\ stack \in Seq(Val) /\ Len(stack) \in Nat /\ Len(stack) <= limits.maxStack
         /\ frames \in Seq(FrameType) /\ Len(frames) \in Nat
<1>1. /\ limits \in LimitsSet /\ stack \in Seq(Val) /\ peak \in Nat
      /\ frames \in Seq(FrameType)
    BY DEF IInv, TypeOK, FrameType
<1>2. limits \in [maxStack: Nat \ {0}, maxFrames: Nat, maxSteps: Nat, maxOutputBytes: Nat]
    BY <1>1, VMAssumption
<1>3. Len(stack) <= peak /\ peak <= limits.maxStack
    BY DEF IInv, LimitsRespected
<1>4. limits.maxStack \in Nat \ {0} /\ limits.maxFrames \in Nat
      /\ limits.maxSteps \in Nat /\ limits.maxOutputBytes \in Nat
    BY <1>2
<1>5. Len(stack) \in Nat /\ Len(frames) \in Nat
    BY <1>1
<1>6. QED
    BY <1>1, <1>3, <1>4, <1>5

LEMMA OutcomeFits ==
  ASSUME IInv, Fitting(stack'), peak' = Larger(peak, Len(stack')), err' \in SafeErrors
  PROVE  StackFits
<1>1. Len(stack') \in Nat
    BY DEF Fitting
<1>2. QED
    BY <1>1, Numeric DEF Fitting, StackFits, Larger

LEMMA PushFits ==
  ASSUME IInv, NEW s, NEW v \in Val', Fitting(s), Push(s, v)
  PROVE  StackFits
<1>1. CASE Len(s) >= limits.maxStack
    <2>1. stack' = s /\ peak' = Larger(peak, Len(stack')) /\ err' = "stack_overflow"
        BY <1>1 DEF Push, Outcome
    <2>2. err' \in SafeErrors
        BY <2>1 DEF SafeErrors, Errors
    <2>3. QED
        BY <2>1, <2>2, OutcomeFits
<1>2. CASE ~(Len(s) >= limits.maxStack)
    <2>1. Fitting(Append(s, v))
        BY <1>2, Numeric DEF Fitting
    <2>2. stack' = Append(s, v) /\ peak' = Larger(peak, Len(stack')) /\ err' = "none"
        BY <1>2 DEF Push, Keep, Outcome
    <2>3. err' \in SafeErrors
        BY <2>2 DEF SafeErrors, Errors
    <2>4. QED
        BY <2>1, <2>2, <2>3, OutcomeFits
<1>3. QED
    BY <1>1, <1>2

(* Values stay values when upvalue objects are added. *)
Growing == program' = program /\ Addresses \subseteq Addresses'

LEMMA Growth ==
  ASSUME Growing
  PROVE  /\ Val \subseteq Val'
         /\ Closure(Functions, Addresses) \subseteq Closure(Functions, Addresses)'
         /\ FrameType \subseteq FrameType'
<1>1. Functions' = Functions /\ Addresses \subseteq Addresses'
    BY DEF Growing, Functions
<1>2. Seq(Addresses) \subseteq Seq(Addresses')
    BY <1>1
<1>3. Closure(Functions, Addresses) \subseteq Closure(Functions, Addresses)'
    BY <1>1, <1>2 DEF Closure
<1>4. QED
    BY <1>1, <1>3 DEF Val, Value, FrameType

(* What the stack's operations leave is on the stack already. *)
LEMMA StackParts ==
  ASSUME IInv, Growing
  PROVE  /\ Fitting(stack) /\ Fitting(<<>>)
         /\ \A n \in Nat : n <= Len(stack) => Fitting(SubSeq(stack, 1, n))
         /\ \A n \in 1..Len(stack) : Fitting(Popped(n)) /\ Peek(n - 1) \in Val
         /\ \A i \in 1..Len(stack) : stack[i] \in Val
         /\ \A i \in 1..Len(stack), v \in Val : Fitting([stack EXCEPT ![i] = v])
<1>0. stack \in Seq(Val') /\ Val \subseteq Val'
    BY Growth, Numeric
<1>1. Fitting(stack) /\ Fitting(<<>>)
    BY <1>0, Numeric DEF Fitting
<1>2. \A n \in Nat : n <= Len(stack) => Fitting(SubSeq(stack, 1, n))
    BY <1>0, Numeric DEF Fitting
<1>3. \A n \in 1..Len(stack) : Fitting(Popped(n)) /\ Peek(n - 1) \in Val
    <2>1. TAKE n \in 1..Len(stack)
    <2>2. Len(stack) - n \in Nat /\ Len(stack) - n <= Len(stack)
        BY Numeric
    <2>3. Fitting(Popped(n))
        BY <1>2, <2>2 DEF Popped
    <2>4. Len(stack) - (n - 1) \in 1..Len(stack)
        BY Numeric
    <2>5. QED
        BY <2>3, <2>4, Numeric DEF Peek
<1>4. \A i \in 1..Len(stack) : stack[i] \in Val
    BY Numeric
<1>5. \A i \in 1..Len(stack), v \in Val : Fitting([stack EXCEPT ![i] = v])
    <2>1. TAKE i \in 1..Len(stack), v \in Val
    <2>2. Len([stack EXCEPT ![i] = v]) = Len(stack)
        BY Numeric
    <2>3. [stack EXCEPT ![i] = v] \in Seq(Val')
        BY <1>0, ExceptSeq
    <2>4. QED
        BY <2>2, <2>3, Numeric DEF Fitting
<1>6. QED
    BY <1>1, <1>2, <1>3, <1>4, <1>5

(* The running frame is typed and its function validated. *)
LEMMA FrameFacts ==
  ASSUME IInv, frames # <<>>
  PROVE  /\ Len(frames) \in Nat \ {0}
         /\ Frame \in FrameType
         /\ Frame.closure.fn \in Functions /\ Running \in Function
         /\ OnBoundary(Frame)
<1>1. Len(frames) \in Nat \ {0} /\ Frame \in FrameType
    BY Numeric DEF Frame
<1>2. Frame.closure \in Closure(Functions, Addresses)
    BY <1>1 DEF FrameType
<1>3. Frame.closure.fn \in Functions
    BY <1>2 DEF Closure
<1>4. program \in Seq(Function)
    BY DEF IInv, TypeOK, IsProgram
<1>5. Running \in Function
    BY <1>3, <1>4 DEF Running, Functions
<1>6. OnBoundary(Frame)
    BY <1>1 DEF IInv, DecodesCleanly, Frame
<1>7. QED
    BY <1>1, <1>3, <1>5, <1>6

(* What is known of the instruction that Fetch found. *)
LEMMA FetchFacts ==
  ASSUME IInv, NEW op, Fetch(op)
  PROVE  /\ frames # <<>> /\ prepared /\ ~done /\ err = "none" /\ Op = op
         /\ instructions' \in Nat /\ instructions' <= limits.maxSteps
         /\ NextIP \in Running.boundaries
         /\ IsJump(op) => JumpTarget(Running.code, Frame.ip) \in Running.boundaries
         /\ OperandBytes(op) > 0 => Operand \in Byte
         /\ UsesConstant(op) => Operand + 1 \in 1..Len(Running.constants)
<1>1. /\ frames # <<>> /\ prepared /\ ~done /\ err = "none" /\ Op = op
      /\ Frame.ip \in 0..(Len(Running.code) - 1)
      /\ instructions < limits.maxSteps /\ instructions' = instructions + 1
      /\ Decodes
    BY DEF Fetch, WithinSteps, Active, InRange
<1>2. instructions' \in Nat /\ instructions' <= limits.maxSteps
    <2>1. instructions \in Nat
        BY DEF IInv, TypeOK
    <2>2. QED
        BY <1>1, <2>1, Numeric
<1>3. /\ Running.code \in Seq(Byte) /\ Running.boundaries \subseteq Nat
      /\ Len(Running.constants) \in Nat
    BY SMTT(30), <1>1, FrameFacts DEF Function
<1>4. /\ WellFormed(Running.code, Len(Running.constants), Running.boundaries)
      /\ Frame.ip \in Running.boundaries
    BY Zenon, <1>1, FrameFacts DEF OnBoundary, Validated, Running
<1>5. Len(Running.code) \in Nat /\ Frame.ip \in Nat /\ Frame.ip # Len(Running.code)
    BY <1>1, <1>3
<1>6. /\ NextIP = InstructionEnd(Running.code, Len(Running.constants), Frame.ip)
      /\ NextIP <= Len(Running.code)
      /\ UsesConstant(op) => Operand < Len(Running.constants)
    BY <1>1 DEF Decodes, InstructionEnd, NextIP, Op, Operand
<1>7. NextIP \in Running.boundaries
    BY <1>4, <1>5, <1>6 DEF WellFormed
<1>8. IsJump(op) => JumpTarget(Running.code, Frame.ip) \in Running.boundaries
    BY <1>1, <1>4, <1>5 DEF WellFormed, Op
<1>9. OperandBytes(op) > 0 => Operand \in Byte
    <2>1. SUFFICES ASSUME OperandBytes(op) > 0 PROVE Operand \in Byte
        OBVIOUS
    <2>2. OperandBytes(op) \in {1, 2}
        BY <2>1 DEF OperandBytes
    <2>3. Frame.ip + 1 + 1 \in 1..Len(Running.code)
        BY <1>1, <1>5, <1>6, <2>2 DEF NextIP
    <2>4. QED
        BY <1>3, <2>3 DEF Operand, ByteAt
<1>10. UsesConstant(op) => Operand + 1 \in 1..Len(Running.constants)
    <2>1. SUFFICES ASSUME UsesConstant(op) PROVE Operand + 1 \in 1..Len(Running.constants)
        OBVIOUS
    <2>2. Operand \in Nat
        <3>1. OperandBytes(op) = 1
            BY <2>1 DEF UsesConstant, OperandBytes, IsJump, OpConstant, OpGetGlobal,
                        OpDefineGlobal, OpSetGlobal, OpClosure, OpJump,
                        OpJumpIfFalse, OpLoop
        <3>2. QED
            BY <1>9, <3>1 DEF Byte
    <2>3. QED
        BY <1>3, <1>6, <2>1, <2>2
<1>11. QED
    BY <1>1, <1>2, <1>7, <1>8, <1>9, <1>10

(* The frames with the IP of the running one moved. *)
Moved(ip) == [frames EXCEPT ![Len(frames)].ip = ip]

LEMMA MovedFits ==
  ASSUME IInv, frames # <<>>, NEW ip \in Running.boundaries
  PROVE  /\ Moved(ip) \in Seq(FrameType) /\ Len(Moved(ip)) = Len(frames)
         /\ \A i \in 1..Len(frames) : OnBoundary(Moved(ip)[i])
         /\ Moved(ip)[1].base = 0
<1> DEFINE frame == [Frame EXCEPT !.ip = ip]
<1>1. ip \in Nat
    BY FrameFacts DEF Function
<1>2. /\ frames \in Seq(FrameType) /\ Len(frames) \in Nat \ {0}
      /\ \A i \in 1..Len(frames) : OnBoundary(frames[i])
    BY FrameFacts, Numeric DEF IInv, DecodesCleanly
<1>3. /\ frame \in FrameType /\ frame.closure = Frame.closure
      /\ frame.ip = ip /\ frame.base = Frame.base
    BY <1>1, FrameFacts DEF FrameType
<1>4. Moved(ip) = [frames EXCEPT ![Len(frames)] = frame]
    BY DEF Moved, Frame
<1>5. OnBoundary(frame)
    BY <1>3, FrameFacts DEF OnBoundary, Running
<1> HIDE DEF frame
<1>6. Moved(ip) \in Seq(FrameType) /\ Len(Moved(ip)) = Len(frames)
    BY <1>2, <1>3, <1>4, ExceptSeq
<1>7. \A i \in 1..Len(frames) : OnBoundary(Moved(ip)[i])
    BY <1>2, <1>4, <1>5
<1>8. frames[1].base = 0 /\ 1 \in 1..Len(frames) /\ Moved(ip)[1].base = frames[1].base
    BY <1>2, <1>3, <1>4 DEF IInv, BottomFrame, Frame
<1>9. QED
    BY <1>6, <1>7, <1>8

LEMMA GotoFits ==
  ASSUME IInv, frames # <<>>, NEW ip \in Running.boundaries, Goto(ip)
  PROVE  FramesFit
<1>1. frames' = Moved(ip)
    BY DEF Goto, Moved
<1>2. Len(frames) \in Nat
    BY Numeric
<1>3. QED
    BY <1>1, <1>2, MovedFits DEF FramesFit, BottomFrame

HeapFits ==
  /\ closures' \in Nat
  /\ upvalues' \in [Addresses' -> [open: BOOLEAN, closed: Val']]
  /\ Addresses' \subseteq Nat \X Nat
  /\ open' \in [DOMAIN open' -> Addresses'] /\ DOMAIN open' \subseteq Nat

GlobalsFit == globals' \in [DOMAIN globals' -> Val'] /\ DOMAIN globals' \subseteq Name

PrintedFits ==
  /\ output' \in Seq(Val') /\ outputBytes' \in Nat
  /\ outputBytes' <= limits.maxOutputBytes

(* A step keeps the invariant when each part of the state it leaves fits. *)
LEMMA StepFits ==
  ASSUME IInv, Growing, StackFits, HeapFits, GlobalsFit, PrintedFits,
         limits' = limits, prepared' = TRUE,
         BottomFrame', Loaded', frames' \in Seq(FrameType'), \A i \in 1..Len(frames') : OnBoundary(frames'[i]),
         Len(frames') <= maxFrames', maxFrames' <= limits.maxFrames, maxFrames' \in Nat,
         instructions' \in Nat, instructions' <= limits.maxSteps,
         done' \in BOOLEAN, result' \in Val',
         done' => frames' = <<>> /\ stack' = <<>> /\ DOMAIN open' = {} /\ err' = "none"
  PROVE  IInv'
<1>1. TypeOK'
    <2>1. limits' \in LimitsSet /\ IsProgram(program)'
        BY DEF IInv, TypeOK, Growing, IsProgram
    <2>2. err' \in Errors
        BY DEF StackFits, SafeErrors
    <2>3. QED
        BY <2>1, <2>2 DEF TypeOK, StackFits, HeapFits, GlobalsFit, PrintedFits, FrameType
<1>2. LimitsRespected'
    BY DEF LimitsRespected, StackFits, PrintedFits
<1>3. DecodesCleanly'
    <2>1. err' # "bad_instruction"
        BY DEF StackFits, SafeErrors
    <2>2. \A i \in 1..Len(frames') : OnBoundary(frames[i])'
        BY DEF Growing, OnBoundary
    <2>3. QED
        BY <2>1, <2>2 DEF DecodesCleanly
<1>4. DoneIsClean' /\ NotPrepared'
    BY DEF DoneIsClean, NotPrepared
<1>5. QED
    BY <1>1, <1>2, <1>3, <1>4 DEF IInv

(* What a step leaves unchanged still fits. *)
LEMMA UnchangedFits ==
  ASSUME IInv
  PROVE  /\ UNCHANGED heap /\ program' = program => HeapFits
         /\ Growing /\ UNCHANGED globals => GlobalsFit
         /\ Growing /\ UNCHANGED printed => PrintedFits
         /\ Growing /\ UNCHANGED result => result' \in Val'
         /\ UNCHANGED heap /\ program' = program => Growing
<1>1. UNCHANGED heap /\ program' = program => HeapFits /\ Growing
    <2>1. SUFFICES ASSUME UNCHANGED heap, program' = program
                   PROVE  HeapFits /\ Growing
        OBVIOUS
    <2>2. Addresses' = Addresses /\ Functions' = Functions
        BY <2>1 DEF heap, Addresses, Functions
    <2>3. Growing
        BY <2>1, <2>2 DEF Growing
    <2>4. Val' = Val
        BY <2>2 DEF Val
    <2>5. QED
        BY <2>1, <2>2, <2>3, <2>4 DEF IInv, TypeOK, heap, HeapFits
<1>2. Growing /\ UNCHANGED globals => GlobalsFit
    BY Growth DEF IInv, TypeOK, GlobalsFit
<1>3. Growing /\ UNCHANGED printed => PrintedFits
    BY Growth DEF IInv, TypeOK, LimitsRespected, printed, PrintedFits
<1>4. Growing /\ UNCHANGED result => result' \in Val'
    BY Growth DEF IInv, TypeOK
<1>5. QED
    BY <1>1, <1>2, <1>3, <1>4

(* A step inside a frame: no call, no return. *)
LEMMA InnerStep ==
  ASSUME IInv, prepared, ~done, Growing, StackFits, FramesFit, HeapFits, GlobalsFit,
         PrintedFits, UNCHANGED <<setup, maxFrames, ending>>,
         instructions' \in Nat, instructions' <= limits.maxSteps
  PROVE  IInv'
<1>1. limits' = limits /\ prepared' = TRUE /\ done' = FALSE /\ maxFrames' = maxFrames
    BY DEF setup, ending, IInv, TypeOK
<1>2. result' \in Val'
    BY UnchangedFits DEF ending
<1>3. frames' \in Seq(FrameType')
    BY Growth DEF FramesFit
<1>4. Len(frames') <= maxFrames' /\ maxFrames' <= limits.maxFrames /\ maxFrames' \in Nat
    <2>1. /\ Len(frames) <= maxFrames /\ maxFrames <= limits.maxFrames /\ maxFrames \in Nat
          /\ Len(frames) \in Nat /\ limits.maxFrames \in Nat
        BY Numeric DEF IInv, LimitsRespected, TypeOK
    <2>2. Len(frames') <= Len(frames) /\ Len(frames') \in Nat
        BY <1>3 DEF FramesFit
    <2>3. QED
        BY <1>1, <2>1, <2>2
<1>5. BottomFrame' /\ \A i \in 1..Len(frames') : OnBoundary(frames'[i])
    BY DEF FramesFit
<1>6. Loaded'
    <2>1. frames' # <<>> => frames # <<>>
        BY <1>3, Numeric DEF FramesFit
    <2>2. program' = program /\ Functions' = Functions
        BY DEF Growing, Functions
    <2>3. QED
        BY <2>1, <2>2 DEF IInv, Loaded
<1>7. QED
    BY <1>1, <1>2, <1>3, <1>4, <1>5, <1>6, StepFits

(* A case of Step that changes nothing but the stack. *)
LEMMA StackOpStep ==
  ASSUME IInv, NEW op, StackOp(op), StackFits
  PROVE  IInv'
<1>1. /\ prepared /\ ~done /\ frames # <<>> /\ NextIP \in Running.boundaries
      /\ instructions' \in Nat /\ instructions' <= limits.maxSteps
    BY FetchFacts DEF StackOp
<1>2. FramesFit
    BY <1>1, GotoFits DEF StackOp, Advance
<1>3. program' = program
    BY DEF StackOp, setup
<1>4. Growing /\ HeapFits
    BY <1>3, UnchangedFits DEF StackOp
<1>5. GlobalsFit /\ PrintedFits
    BY <1>4, UnchangedFits DEF StackOp
<1>6. QED
    BY <1>1, <1>2, <1>4, <1>5, InnerStep DEF StackOp
-----------------------------------------------------------------------------
(* The errors a step may end with. *)
LEMMA FailFits ==
  ASSUME IInv, Growing, err' \in SafeErrors, stack' = stack,
         peak' = Larger(peak, Len(stack'))
  PROVE  StackFits
BY OutcomeFits, StackParts

(* The cases that change nothing but the stack. *)
LEMMA Literals ==
  ASSUME Growing
  PROVE  /\ Literal \subseteq Val'
         /\ \A b \in BOOLEAN : Bool(b) \in Val'
         /\ \A n \in Int : Number(n) \in Val'
         /\ \A s \in Name : String(s) \in Val'
         /\ Nil \in Val'
BY DEF Val, Value, Literal, Bool, Number, String

LEMMA StackOpGrows == ASSUME IInv, NEW op, StackOp(op) PROVE Growing
BY UnchangedFits DEF StackOp, setup

LEMMA PushesIInv == IInv /\ (PushNil \/ PushTrue \/ PushFalse) => IInv'
<1> SUFFICES ASSUME IInv, PushNil \/ PushTrue \/ PushFalse PROVE IInv'
    OBVIOUS
<1>1. CASE PushNil
    <2>1. Growing
        BY <1>1, StackOpGrows DEF PushNil
    <2>2. StackFits
        BY <1>1, <2>1, StackParts, Literals, PushFits DEF PushNil
    <2>3. QED
        BY <1>1, <2>2, StackOpStep DEF PushNil
<1>2. CASE PushTrue
    <2>1. Growing
        BY <1>2, StackOpGrows DEF PushTrue
    <2>2. StackFits
        BY <1>2, <2>1, StackParts, Literals, PushFits DEF PushTrue
    <2>3. QED
        BY <1>2, <2>2, StackOpStep DEF PushTrue
<1>3. CASE PushFalse
    <2>1. Growing
        BY <1>3, StackOpGrows DEF PushFalse
    <2>2. StackFits
        BY <1>3, <2>1, StackParts, Literals, PushFits DEF PushFalse
    <2>3. QED
        BY <1>3, <2>2, StackOpStep DEF PushFalse
<1>4. QED
    BY <1>1, <1>2, <1>3

LEMMA PopDupIInv == IInv /\ (Pop \/ Dup) => IInv'
<1> SUFFICES ASSUME IInv, Pop \/ Dup PROVE IInv'
    OBVIOUS
<1>0. stack # <<>> => 1 \in 1..Len(stack)
    BY Numeric
<1>1. CASE Pop
    <2>1. Growing
        BY <1>1, StackOpGrows DEF Pop
    <2>2. CASE stack = <<>>
        <3>1. StackFits
            BY <1>1, <2>1, <2>2, FailFits DEF Pop, Fail, Outcome, SafeErrors, Errors
        <3>2. QED
            BY <1>1, <3>1, StackOpStep DEF Pop
    <2>3. CASE stack # <<>>
        <3>1. Fitting(Popped(1))
            BY <1>0, <2>1, <2>3, StackParts
        <3>2. StackFits
            BY <1>1, <2>3, <3>1, OutcomeFits DEF Pop, Keep, Outcome, SafeErrors, Errors
        <3>3. QED
            BY <1>1, <3>2, StackOpStep DEF Pop
    <2>4. QED
        BY <2>2, <2>3
<1>2. CASE Dup
    <2>1. Growing
        BY <1>2, StackOpGrows DEF Dup
    <2>2. CASE stack = <<>>
        <3>1. StackFits
            BY <1>2, <2>1, <2>2, FailFits DEF Dup, Fail, Outcome, SafeErrors, Errors
        <3>2. QED
            BY <1>2, <3>1, StackOpStep DEF Dup
    <2>3. CASE stack # <<>>
        <3>1. Peek(0) \in Val'
            BY <1>0, <2>1, <2>3, StackParts, Growth
        <3>2. StackFits
            BY <1>2, <2>1, <2>3, <3>1, StackParts, PushFits DEF Dup
        <3>3. QED
            BY <1>2, <3>2, StackOpStep DEF Dup
    <2>4. QED
        BY <2>2, <2>3
<1>3. QED
    BY <1>1, <1>2

(* The data of a value of each type. *)
LEMMA ValueData ==
  ASSUME NEW v \in Val
  PROVE  /\ IsNumber(v) => v[2] \in Int
         /\ IsString(v) => v[2] \in Name
         /\ IsClosure(v) => v[2] \in Closure(Functions, Addresses)
BY DEF Val, Value, Literal, IsNumber, IsString, IsClosure, TypeName, Nil

LEMMA OperandSizes ==
  /\ \A op \in {OpConstant, OpGetLocal, OpSetLocal, OpGetGlobal, OpDefineGlobal,
                OpSetGlobal, OpGetUpvalue, OpSetUpvalue, OpCall, OpClosure} :
       OperandBytes(op) > 0
  /\ \A op \in {OpConstant, OpGetGlobal, OpDefineGlobal, OpSetGlobal, OpClosure} :
       UsesConstant(op)
  /\ \A op \in {OpJump, OpJumpIfFalse, OpLoop} : IsJump(op)
BY DEF OperandBytes, IsJump, UsesConstant, OpConstant, OpGetLocal, OpSetLocal,
       OpGetGlobal, OpDefineGlobal, OpSetGlobal, OpGetUpvalue, OpSetUpvalue, OpCall,
       OpClosure, OpJump, OpJumpIfFalse, OpLoop

LEMMA ConstantType ==
  ASSUME IInv, NEW op, Fetch(op), UsesConstant(op)
  PROVE  /\ Constant[1] # "function" => Constant \in Literal
         /\ Constant[1] = "function" => Constant[2] \in Functions
<1>1. Operand + 1 \in 1..Len(Running.constants) /\ frames # <<>>
    BY FetchFacts
<1>2. Running.constants \in Seq(Literal \cup ({"function"} \X Nat))
    BY <1>1, FrameFacts DEF Function
<1>3. Constant \in Literal \cup ({"function"} \X Nat)
    BY <1>1, <1>2 DEF Constant
<1>4. Frame.closure.fn \in Functions
    BY <1>1, FrameFacts
<1>5. Constant[1] = "function" => Constant[2] \in Functions
    BY <1>1, <1>4 DEF IInv, TypeOK, IsProgram, Constant, Running, Functions
<1>6. QED
    BY <1>3, <1>5

LEMMA OperandType ==
  ASSUME IInv, NEW op, Fetch(op), OperandBytes(op) > 0
  PROVE  Operand \in Byte /\ Operand \in Nat /\ frames # <<>>
<1>1. Operand \in Byte /\ frames # <<>>
    BY FetchFacts
<1>2. QED
    BY <1>1 DEF Byte

LEMMA SlotType ==
  ASSUME IInv, NEW op, Fetch(op), OperandBytes(op) > 0
  PROVE  Slot \in Nat /\ (Slot < Len(stack) => Slot + 1 \in 1..Len(stack) /\ stack # <<>>)
<1>1. Operand \in Nat /\ Frame.base \in Nat
    <2>1. Operand \in Nat /\ frames # <<>>
        BY OperandType
    <2>2. Frame \in FrameType
        BY <2>1, FrameFacts
    <2>3. QED
        BY <2>1, <2>2 DEF FrameType
<1>2. QED
    BY SMTT(30), <1>1, Numeric DEF Slot

LEMMA PushConstantIInv == IInv /\ PushConstant => IInv'
<1> SUFFICES ASSUME IInv, PushConstant PROVE IInv'
    OBVIOUS
<1>1. StackOp(OpConstant) /\ Growing
    BY StackOpGrows DEF PushConstant
<1>2. CASE Constant[1] = "function"
    <2>1. StackFits
        BY <1>1, <1>2, FailFits DEF PushConstant, Fail, Outcome, SafeErrors, Errors
    <2>2. QED
        BY <1>1, <2>1, StackOpStep
<1>3. CASE Constant[1] # "function"
    <2>1. Constant \in Val'
        BY <1>1, <1>3, ConstantType, OperandSizes, Literals DEF StackOp
    <2>2. StackFits
        BY <1>1, <1>3, <2>1, StackParts, PushFits DEF PushConstant
    <2>3. QED
        BY <1>1, <2>2, StackOpStep
<1>4. QED
    BY <1>2, <1>3

LEMMA GetLocalIInv == IInv /\ GetLocal => IInv'
<1> SUFFICES ASSUME IInv, GetLocal PROVE IInv'
    OBVIOUS
<1>1. StackOp(OpGetLocal) /\ Growing
    BY StackOpGrows DEF GetLocal
<1>2. Slot \in Nat /\ (Slot < Len(stack) => Slot + 1 \in 1..Len(stack))
    BY <1>1, SlotType, OperandSizes DEF StackOp
<1>3. CASE Slot >= Len(stack)
    <2>1. StackFits
        BY <1>1, <1>3, FailFits DEF GetLocal, Fail, Outcome, SafeErrors, Errors
    <2>2. QED
        BY <1>1, <2>1, StackOpStep
<1>4. CASE ~(Slot >= Len(stack))
    <2>1. stack[Slot + 1] \in Val'
        BY <1>1, <1>2, <1>4, Numeric, StackParts, Growth
    <2>2. StackFits
        BY <1>1, <1>4, <2>1, StackParts, PushFits DEF GetLocal
    <2>3. QED
        BY <1>1, <2>2, StackOpStep
<1>5. QED
    BY <1>3, <1>4

LEMMA SetLocalIInv == IInv /\ SetLocal => IInv'
<1> SUFFICES ASSUME IInv, SetLocal PROVE IInv'
    OBVIOUS
<1>1. StackOp(OpSetLocal) /\ Growing
    BY StackOpGrows DEF SetLocal
<1>2. Slot \in Nat /\ (Slot < Len(stack) => Slot + 1 \in 1..Len(stack))
    BY <1>1, SlotType, OperandSizes DEF StackOp
<1>3. CASE Slot >= Len(stack)
    <2>1. StackFits
        BY <1>1, <1>3, FailFits DEF SetLocal, Fail, Outcome, SafeErrors, Errors
    <2>2. QED
        BY <1>1, <2>1, StackOpStep
<1>4. CASE ~(Slot >= Len(stack))
    <2>1. Slot + 1 \in 1..Len(stack) /\ 1 \in 1..Len(stack)
        BY <1>2, <1>4, Numeric
    <2>2. Peek(0) \in Val
        BY <1>1, <2>1, StackParts
    <2>3. Fitting([stack EXCEPT ![Slot + 1] = Peek(0)])
        BY <1>1, <2>1, <2>2, StackParts
    <2>4. StackFits
        BY <1>4, <2>3, OutcomeFits DEF SetLocal, Keep, Outcome, SafeErrors, Errors
    <2>5. QED
        BY <1>1, <2>4, StackOpStep
<1>5. QED
    BY <1>3, <1>4

(* A binary operator, given the type of its result. *)
LEMMA BinaryOpIInv ==
  ASSUME IInv, NEW op, NEW STATE accepted, NEW STATE outcome,
         BinaryOp(op, accepted, outcome),
         Len(stack) >= 2 /\ accepted => outcome \in Val'
  PROVE  IInv'
<1>1. StackOp(op) /\ Growing
    BY StackOpGrows DEF BinaryOp
<1>2. StackFits
    <2>1. CASE Len(stack) < 2
        BY <1>1, <2>1, StackParts, OutcomeFits DEF BinaryOp, Outcome, SafeErrors, Errors
    <2>2. CASE ~(Len(stack) < 2)
        <3>1. Fitting(Popped(2)) /\ Len(stack) >= 2
            BY <1>1, <2>2, StackParts, Numeric
        <3>2. CASE ~accepted
            BY <2>2, <3>1, <3>2, OutcomeFits DEF BinaryOp, Outcome, SafeErrors, Errors
        <3>3. CASE accepted
            BY <2>2, <3>1, <3>3, PushFits DEF BinaryOp
        <3>4. QED
            BY <3>2, <3>3
    <2>3. QED
        BY <2>1, <2>2
<1>3. QED
    BY <1>1, <1>2, StackOpStep

LEMMA Operands ==
  ASSUME IInv, Len(stack) >= 2
  PROVE  /\ Left \in Val /\ Right \in Val
         /\ Numbers => Left[2] \in Int /\ Right[2] \in Int
<1>1. Left \in Val /\ Right \in Val
    <2>1. Len(stack) - 1 \in 1..Len(stack) /\ Len(stack) - 0 \in 1..Len(stack)
        BY Numeric
    <2>2. QED
        BY <2>1, Numeric DEF Left, Right, Peek
<1>2. QED
    BY <1>1, ValueData DEF Numbers

LEMMA ComparisonsIInv == IInv /\ (CompareEqual \/ Greater \/ Less) => IInv'
<1> SUFFICES ASSUME IInv, CompareEqual \/ Greater \/ Less PROVE IInv'
    OBVIOUS
<1>1. CASE CompareEqual
    <2>1. Growing
        BY <1>1, StackOpGrows DEF CompareEqual, BinaryOp
    <2>2. Equal(Left, Right) \in BOOLEAN
        BY DEF Equal
    <2>3. Bool(Equal(Left, Right)) \in Val'
        BY <2>1, <2>2, Literals
    <2>4. QED
        BY <1>1, <2>3, BinaryOpIInv DEF CompareEqual
<1>2. CASE Greater
    <2>1. Growing
        BY <1>2, StackOpGrows DEF Greater, BinaryOp
    <2>2. (Left[2] > Right[2]) \in BOOLEAN
        OBVIOUS
    <2>3. Bool(Left[2] > Right[2]) \in Val'
        BY <2>1, <2>2, Literals
    <2>4. QED
        BY <1>2, <2>3, BinaryOpIInv DEF Greater
<1>3. CASE Less
    <2>1. Growing
        BY <1>3, StackOpGrows DEF Less, BinaryOp
    <2>2. (Left[2] < Right[2]) \in BOOLEAN
        OBVIOUS
    <2>3. Bool(Left[2] < Right[2]) \in Val'
        BY <2>1, <2>2, Literals
    <2>4. QED
        BY <1>3, <2>3, BinaryOpIInv DEF Less
<1>4. QED
    BY <1>1, <1>2, <1>3

LEMMA AddIInv == IInv /\ Add => IInv'
<1> SUFFICES ASSUME IInv, Add PROVE IInv'
    OBVIOUS
<1> DEFINE accepted == Numbers \/ (IsString(Left) /\ IsString(Right))
           sum == IF IsNumber(Left) THEN Number(Left[2] + Right[2])
                  ELSE String(Left[2] \o Right[2])
<1>1. Growing
    BY StackOpGrows DEF Add, BinaryOp
<1>2. ASSUME Len(stack) >= 2, accepted
      PROVE  sum \in Val'
    <2>1. CASE Numbers
        <3>1. Left[2] + Right[2] \in Int
            BY <1>2, <2>1, Operands
        <3>2. QED
            BY <1>1, <2>1, <3>1, Literals DEF Numbers
    <2>2. CASE ~Numbers
        <3>1. IsString(Left) /\ IsString(Right) /\ ~IsNumber(Left)
            BY <1>2, <2>2 DEF IsString, IsNumber
        <3>2. Left[2] \in Name /\ Right[2] \in Name
            BY <1>2, <3>1, Operands, ValueData
        <3>3. Left[2] \o Right[2] \in Name
            BY <3>2 DEF Name
        <3>4. QED
            BY <1>1, <3>1, <3>3, Literals
    <2>3. QED
        BY <2>1, <2>2
<1>3. BinaryOp(OpAdd, accepted, sum)
    BY DEF Add
<1> HIDE DEF accepted, sum
<1>4. QED
    BY <1>2, <1>3, BinaryOpIInv

LEMMA SubtractMultiplyIInv == IInv /\ (Subtract \/ Multiply) => IInv'
<1> SUFFICES ASSUME IInv, Subtract \/ Multiply PROVE IInv'
    OBVIOUS
<1>1. CASE Subtract
    <2>1. Growing
        BY <1>1, StackOpGrows DEF Subtract, BinaryOp
    <2>2. Len(stack) >= 2 /\ Numbers => Left[2] - Right[2] \in Int
        BY Operands
    <2>3. Len(stack) >= 2 /\ Numbers => Number(Left[2] - Right[2]) \in Val'
        BY <2>1, <2>2, Literals
    <2>4. QED
        BY <1>1, <2>3, BinaryOpIInv DEF Subtract
<1>2. CASE Multiply
    <2>1. Growing
        BY <1>2, StackOpGrows DEF Multiply, BinaryOp
    <2>2. Len(stack) >= 2 /\ Numbers => Left[2] * Right[2] \in Int
        BY Operands
    <2>3. Len(stack) >= 2 /\ Numbers => Number(Left[2] * Right[2]) \in Val'
        BY <2>1, <2>2, Literals
    <2>4. QED
        BY <1>2, <2>3, BinaryOpIInv DEF Multiply
<1>3. QED
    BY <1>1, <1>2

LEMMA QuotientIsInt ==
  ASSUME NEW a \in Int, NEW b \in Int, b # 0
  PROVE  Quotient(a, b) \in Int
<1>1. CASE b > 0
    BY <1>1 DEF Quotient
<1>2. CASE ~(b > 0)
    <2>1. -a \in Int /\ -b \in Nat /\ -b > 0
        BY <1>2
    <2>2. (-a) \div (-b) \in Int
        BY <2>1
    <2>3. QED
        BY <1>2, <2>2 DEF Quotient
<1>3. QED
    BY <1>1, <1>2

LEMMA DivideIInv == IInv /\ Divide => IInv'
<1> SUFFICES ASSUME IInv, Divide PROVE IInv'
    OBVIOUS
<1>1. StackOp(OpDivide) /\ Growing
    BY StackOpGrows DEF Divide
<1>2. StackFits
    <2>1. CASE Len(stack) < 2
        BY <1>1, <2>1, StackParts, OutcomeFits DEF Divide, Outcome, SafeErrors, Errors
    <2>2. CASE ~(Len(stack) < 2)
        <3>1. Fitting(Popped(2)) /\ Len(stack) >= 2
            BY <1>1, <2>2, StackParts, Numeric
        <3>2. CASE ~Numbers \/ Right[2] = 0
            BY <2>2, <3>1, <3>2, OutcomeFits DEF Divide, Outcome, SafeErrors, Errors
        <3>3. CASE Numbers /\ Right[2] # 0
            <4>1. Quotient(Left[2], Right[2]) \in Int
                BY <3>1, <3>3, Operands, QuotientIsInt
            <4>2. Number(Quotient(Left[2], Right[2])) \in Val'
                BY <1>1, <4>1, Literals
            <4>3. Push(Popped(2), Number(Quotient(Left[2], Right[2])))
                BY <2>2, <3>3 DEF Divide
            <4>4. QED
                BY <3>1, <4>2, <4>3, PushFits
        <3>4. QED
            BY <3>2, <3>3
    <2>3. QED
        BY <2>1, <2>2
<1>3. QED
    BY <1>1, <1>2, StackOpStep

LEMMA UnaryIInv == IInv /\ (Not \/ Negate) => IInv'
<1> SUFFICES ASSUME IInv, Not \/ Negate PROVE IInv'
    OBVIOUS
<1>0. ASSUME Growing, stack # <<>>
      PROVE  Fitting(Popped(1)) /\ Peek(0) \in Val
    <2>1. 1 \in 1..Len(stack)
        BY <1>0, Numeric
    <2>2. QED
        BY <1>0, <2>1, StackParts
<1>1. CASE Not
    <2>1. StackOp(OpNot) /\ Growing
        BY <1>1, StackOpGrows DEF Not
    <2>2. CASE stack = <<>>
        <3>1. StackFits
            BY <1>1, <2>1, <2>2, FailFits DEF Not, Fail, Outcome, SafeErrors, Errors
        <3>2. QED
            BY <2>1, <3>1, StackOpStep
    <2>3. CASE stack # <<>>
        <3>1. IsFalsey(Peek(0)) \in BOOLEAN
            BY DEF IsFalsey
        <3>2. Bool(IsFalsey(Peek(0))) \in Val'
            BY <2>1, <3>1, Literals
        <3>3. StackFits
            BY <1>0, <1>1, <2>1, <2>3, <3>2, PushFits DEF Not
        <3>4. QED
            BY <2>1, <3>3, StackOpStep
    <2>4. QED
        BY <2>2, <2>3
<1>2. CASE Negate
    <2>1. StackOp(OpNegate) /\ Growing
        BY <1>2, StackOpGrows DEF Negate
    <2>2. CASE stack = <<>>
        <3>1. StackFits
            BY <1>2, <2>1, <2>2, FailFits DEF Negate, Fail, Outcome, SafeErrors, Errors
        <3>2. QED
            BY <2>1, <3>1, StackOpStep
    <2>3. CASE stack # <<>> /\ ~IsNumber(Peek(0))
        <3>1. StackFits
            BY <1>0, <1>2, <2>1, <2>3, OutcomeFits DEF Negate, Outcome, SafeErrors, Errors
        <3>2. QED
            BY <2>1, <3>1, StackOpStep
    <2>4. CASE stack # <<>> /\ IsNumber(Peek(0))
        <3>1. -Peek(0)[2] \in Int
            BY <1>0, <2>1, <2>4, ValueData
        <3>2. Number(-Peek(0)[2]) \in Val'
            BY <2>1, <3>1, Literals
        <3>3. StackFits
            BY <1>0, <1>2, <2>1, <2>4, <3>2, PushFits DEF Negate
        <3>4. QED
            BY <2>1, <3>3, StackOpStep
    <2>5. QED
        BY <2>2, <2>3, <2>4
<1>3. QED
    BY <1>1, <1>2
-----------------------------------------------------------------------------
(* The cases that end a run before an instruction. *)
LEMMA StopIInv ==
  ASSUME IInv, prepared, ~done, NEW e \in SafeErrors, Stop(e)
  PROVE  IInv'
<1>1. /\ program' = program /\ frames' = frames /\ instructions' = instructions
      /\ UNCHANGED heap /\ UNCHANGED globals /\ UNCHANGED printed
      /\ UNCHANGED <<setup, maxFrames, ending>>
      /\ err' = e /\ stack' = stack /\ peak' = Larger(peak, Len(stack'))
    BY DEF Stop, setup, Fail, Outcome
<1>2. Growing /\ HeapFits /\ GlobalsFit /\ PrintedFits
    BY <1>1, UnchangedFits
<1>3. StackFits
    BY <1>1, <1>2, FailFits
<1>4. FramesFit
    BY <1>1, Numeric DEF FramesFit, IInv, DecodesCleanly, BottomFrame
<1>5. instructions' \in Nat /\ instructions' <= limits.maxSteps
    BY <1>1 DEF IInv, TypeOK, LimitsRespected
<1>6. QED
    BY <1>1, <1>2, <1>3, <1>4, <1>5, InnerStep

(* A boundary decodes: the branch of DecodeFault that finds no instruction *)
(* there is never taken.                                                   *)
LEMMA BoundaryDecodes ==
  ASSUME IInv, InRange
  PROVE  Decodes
<1>1. frames # <<>> /\ Frame.ip \in 0..(Len(Running.code) - 1)
    BY DEF InRange
<1>2. Running.code \in Seq(Byte)
    BY SMTT(30), <1>1, FrameFacts DEF Function
<1>3. /\ WellFormed(Running.code, Len(Running.constants), Running.boundaries)
      /\ Frame.ip \in Running.boundaries
    BY Zenon, <1>1, FrameFacts DEF OnBoundary, Validated, Running
<1>4. Frame.ip # Len(Running.code)
    BY <1>1, <1>2
<1>5. InstructionEnd(Running.code, Len(Running.constants), Frame.ip) \in 0..Len(Running.code)
    BY <1>3, <1>4 DEF WellFormed
<1>6. QED
    BY <1>5 DEF Decodes, NoEnd

LEMMA StopsIInv == IInv /\ (Cancel \/ InstructionLimit \/ DecodeFault) => IInv'
<1> SUFFICES ASSUME IInv, Cancel \/ InstructionLimit \/ DecodeFault PROVE IInv'
    OBVIOUS
<1>1. {"canceled", "instruction_limit", "instruction_pointer"} \subseteq SafeErrors
    BY DEF SafeErrors, Errors
<1>2. prepared /\ ~done
    BY DEF Cancel, InstructionLimit, DecodeFault, WithinSteps, Active
<1>3. CASE Cancel
    BY <1>1, <1>2, <1>3, StopIInv DEF Cancel
<1>4. CASE InstructionLimit
    BY <1>1, <1>2, <1>4, StopIInv DEF InstructionLimit
<1>5. CASE DecodeFault
    BY <1>1, <1>2, <1>5, StopIInv, BoundaryDecodes DEF DecodeFault
<1>6. QED
    BY <1>3, <1>4, <1>5

(* An instruction that leaves the frame, with what it changes fitting. *)
LEMMA AdvanceIInv ==
  ASSUME IInv, NEW op, Fetch(op), Advance, Growing, StackFits, HeapFits, GlobalsFit,
         PrintedFits, UNCHANGED <<setup, maxFrames, ending>>
  PROVE  IInv'
<1>1. /\ prepared /\ ~done /\ frames # <<>> /\ NextIP \in Running.boundaries
      /\ instructions' \in Nat /\ instructions' <= limits.maxSteps
    BY FetchFacts
<1>2. FramesFit
    BY <1>1, GotoFits DEF Advance
<1>3. QED
    BY <1>1, <1>2, InnerStep

LEMMA TopType ==
  ASSUME IInv, Growing, stack # <<>>
  PROVE  Fitting(Popped(1)) /\ Peek(0) \in Val /\ Peek(0) \in Val'
<1>1. 1 \in 1..Len(stack)
    BY Numeric
<1>2. QED
    BY <1>1, StackParts, Growth

LEMMA GlobalOpFacts ==
  ASSUME IInv, NEW op \in {OpGetGlobal, OpDefineGlobal, OpSetGlobal}, GlobalOp(op)
  PROVE  /\ Fetch(op) /\ Advance /\ Growing /\ HeapFits /\ PrintedFits
         /\ UNCHANGED <<setup, maxFrames, ending>>
         /\ IsString(Constant) => Constant[2] \in Name
<1>1. /\ Fetch(op) /\ Advance /\ UNCHANGED heap /\ UNCHANGED printed
      /\ program' = program /\ UNCHANGED <<setup, maxFrames, ending>>
    BY DEF GlobalOp, setup
<1>2. Growing /\ HeapFits /\ PrintedFits
    BY <1>1, UnchangedFits
<1>3. IsString(Constant) => Constant[2] \in Name
    <2>1. IsString(Constant) => Constant \in Literal
        BY <1>1, ConstantType, OperandSizes DEF IsString, TypeName
    <2>2. QED
        BY <2>1 DEF Literal, IsString, TypeName, Nil
<1>4. QED
    BY <1>1, <1>2, <1>3

LEMMA BindFits ==
  ASSUME IInv, Growing, NEW v \in Val', Constant[2] \in Name, BindGlobal(v)
  PROVE  GlobalsFit
<1>1. globals \in [DOMAIN globals -> Val'] /\ DOMAIN globals \subseteq Name
    BY Growth DEF IInv, TypeOK
<1>2. QED
    BY <1>1 DEF BindGlobal, GlobalsFit

LEMMA GetGlobalIInv == IInv /\ GetGlobal => IInv'
<1> SUFFICES ASSUME IInv, GetGlobal PROVE IInv'
    OBVIOUS
<1>1. GlobalOp(OpGetGlobal) /\ UNCHANGED globals
    BY DEF GetGlobal
<1>2. /\ Fetch(OpGetGlobal) /\ Advance /\ Growing /\ HeapFits /\ PrintedFits
      /\ UNCHANGED <<setup, maxFrames, ending>>
    BY <1>1, GlobalOpFacts
<1>3. GlobalsFit
    BY <1>1, <1>2, UnchangedFits
<1>4. CASE ~IsString(Constant) \/ ~Defined
    <2>1. StackFits
        BY <1>2, <1>4, FailFits DEF GetGlobal, Fail, Outcome, SafeErrors, Errors
    <2>2. QED
        BY <1>2, <1>3, <2>1, AdvanceIInv
<1>5. CASE IsString(Constant) /\ Defined
    <2>1. globals[Constant[2]] \in Val'
        BY <1>2, <1>5, Growth DEF Defined, IInv, TypeOK
    <2>2. StackFits
        BY <1>2, <1>5, <2>1, StackParts, PushFits DEF GetGlobal
    <2>3. QED
        BY <1>2, <1>3, <2>2, AdvanceIInv
<1>6. QED
    BY <1>4, <1>5

LEMMA DefineGlobalIInv == IInv /\ DefineGlobal => IInv'
<1> SUFFICES ASSUME IInv, DefineGlobal PROVE IInv'
    OBVIOUS
<1>1. GlobalOp(OpDefineGlobal)
    BY DEF DefineGlobal
<1>2. /\ Fetch(OpDefineGlobal) /\ Advance /\ Growing /\ HeapFits /\ PrintedFits
      /\ UNCHANGED <<setup, maxFrames, ending>>
      /\ IsString(Constant) => Constant[2] \in Name
    BY <1>1, GlobalOpFacts
<1>3. CASE IsString(Constant) /\ ~Defined /\ stack # <<>>
    <2>1. BindGlobal(Peek(0)) /\ Keep(Popped(1))
        BY <1>3 DEF DefineGlobal
    <2>2. Fitting(Popped(1)) /\ Peek(0) \in Val'
        BY <1>2, <1>3, TopType
    <2>3. StackFits
        BY <2>1, <2>2, OutcomeFits DEF Keep, Outcome, SafeErrors, Errors
    <2>4. GlobalsFit
        BY <1>2, <1>3, <2>1, <2>2, BindFits
    <2>5. QED
        BY <1>2, <2>3, <2>4, AdvanceIInv
<1>4. CASE ~(IsString(Constant) /\ ~Defined /\ stack # <<>>)
    <2>1. GlobalsFit
        BY <1>2, <1>4, UnchangedFits DEF DefineGlobal
    <2>2. StackFits
        BY <1>2, <1>4, FailFits DEF DefineGlobal, Fail, Outcome, SafeErrors, Errors
    <2>3. QED
        BY <1>2, <2>1, <2>2, AdvanceIInv
<1>5. QED
    BY <1>3, <1>4

LEMMA SetGlobalIInv == IInv /\ SetGlobal => IInv'
<1> SUFFICES ASSUME IInv, SetGlobal PROVE IInv'
    OBVIOUS
<1>1. GlobalOp(OpSetGlobal)
    BY DEF SetGlobal
<1>2. /\ Fetch(OpSetGlobal) /\ Advance /\ Growing /\ HeapFits /\ PrintedFits
      /\ UNCHANGED <<setup, maxFrames, ending>>
      /\ IsString(Constant) => Constant[2] \in Name
    BY <1>1, GlobalOpFacts
<1>3. CASE IsString(Constant) /\ Defined /\ stack # <<>>
    <2>1. BindGlobal(Peek(0)) /\ Keep(stack)
        BY <1>3 DEF SetGlobal
    <2>2. Fitting(stack) /\ Peek(0) \in Val'
        BY <1>2, <1>3, TopType, StackParts
    <2>3. StackFits
        BY <2>1, <2>2, OutcomeFits DEF Keep, Outcome, SafeErrors, Errors
    <2>4. GlobalsFit
        BY <1>2, <1>3, <2>1, <2>2, BindFits
    <2>5. QED
        BY <1>2, <2>3, <2>4, AdvanceIInv
<1>4. CASE ~(IsString(Constant) /\ Defined /\ stack # <<>>)
    <2>1. GlobalsFit
        BY <1>2, <1>4, UnchangedFits DEF SetGlobal
    <2>2. StackFits
        BY <1>2, <1>4, FailFits DEF SetGlobal, Fail, Outcome, SafeErrors, Errors
    <2>3. QED
        BY <1>2, <2>1, <2>2, AdvanceIInv
<1>5. QED
    BY <1>3, <1>4
-----------------------------------------------------------------------------
(* Upvalues. *)
LEMMA CapturedType ==
  ASSUME IInv, frames # <<>>
  PROVE  Captured \in Seq(Addresses) /\ Len(Captured) \in Nat
<1>1. Frame.closure \in Closure(Functions, Addresses)
    BY FrameFacts DEF FrameType
<1>2. QED
    BY <1>1 DEF Closure, Captured

LEMMA ReadType ==
  ASSUME IInv, NEW a \in Addresses
  PROVE  /\ a[2] \in Nat
         /\ Readable(a) => Read(a) \in Val
         /\ Readable(a) /\ upvalues[a].open => a[2] + 1 \in 1..Len(stack)
         /\ upvalues[a].closed \in Val
<1>1. /\ a[2] \in Nat /\ upvalues[a] \in [open: BOOLEAN, closed: Val]
    BY DEF IInv, TypeOK
<1>2. Readable(a) /\ upvalues[a].open => a[2] + 1 \in 1..Len(stack)
    BY <1>1, Numeric DEF Readable
<1>3. upvalues[a].open => Read(a) = stack[a[2] + 1]
    BY DEF Read
<1>4. ~upvalues[a].open => Read(a) = upvalues[a].closed
    BY DEF Read
<1>5. QED
    BY SMTT(30), <1>1, <1>2, <1>3, <1>4, Numeric

LEMMA OperandAddress ==
  ASSUME IInv, NEW op \in {OpGetUpvalue, OpSetUpvalue}, Fetch(op), Operand < Len(Captured)
  PROVE  Captured[Operand + 1] \in Addresses
<1>1. Operand \in Nat /\ frames # <<>>
    BY OperandType, OperandSizes
<1>2. Operand + 1 \in 1..Len(Captured)
    BY <1>1, CapturedType
<1>3. QED
    BY <1>1, <1>2, CapturedType

LEMMA GetUpvalueIInv == IInv /\ GetUpvalue => IInv'
<1> SUFFICES ASSUME IInv, GetUpvalue PROVE IInv'
    OBVIOUS
<1>1. StackOp(OpGetUpvalue) /\ Fetch(OpGetUpvalue) /\ Growing
    BY StackOpGrows DEF GetUpvalue, StackOp
<1>2. CASE Operand >= Len(Captured) \/ ~Readable(Captured[Operand + 1])
    <2>1. StackFits
        BY <1>1, <1>2, FailFits DEF GetUpvalue, Fail, Outcome, SafeErrors, Errors
    <2>2. QED
        BY <1>1, <2>1, StackOpStep
<1>3. CASE ~(Operand >= Len(Captured)) /\ Readable(Captured[Operand + 1])
    <2>1. Operand < Len(Captured)
        <3>1. Operand \in Nat /\ Len(Captured) \in Nat
            BY <1>1, OperandType, OperandSizes, CapturedType
        <3>2. QED
            BY <1>3, <3>1
    <2>2. Captured[Operand + 1] \in Addresses
        BY <1>1, <2>1, OperandAddress
    <2>3. Read(Captured[Operand + 1]) \in Val'
        BY <1>1, <1>3, <2>2, ReadType, Growth
    <2>4. StackFits
        BY <1>1, <1>3, <2>3, StackParts, PushFits DEF GetUpvalue
    <2>5. QED
        BY <1>1, <2>4, StackOpStep
<1>4. QED
    BY <1>2, <1>3

LEMMA SetUpvalueIInv == IInv /\ SetUpvalue => IInv'
<1> SUFFICES ASSUME IInv, SetUpvalue PROVE IInv'
    OBVIOUS
<1>1. /\ Fetch(OpSetUpvalue) /\ Advance /\ UNCHANGED <<setup, maxFrames, ending>>
      /\ program' = program /\ UNCHANGED globals /\ UNCHANGED printed
      /\ closures' = closures /\ open' = open
    BY DEF SetUpvalue, setup
<1>2. ASSUME DOMAIN upvalues' = DOMAIN upvalues
      PROVE  Growing /\ Val' = Val /\ GlobalsFit /\ PrintedFits
    <2>1. Growing /\ Functions' = Functions /\ Addresses' = Addresses
        BY <1>1, <1>2 DEF Growing, Functions, Addresses
    <2>2. QED
        BY <1>1, <2>1, UnchangedFits DEF Val
<1>3. CASE Operand < Len(Captured) /\ stack # <<>> /\ Readable(Captured[Operand + 1])
    <2> DEFINE a == Captured[Operand + 1]
    <2>1. a \in Addresses
        BY <1>1, <1>3, OperandAddress
    <2>2. Assign(a, Peek(0))
        BY <1>3 DEF SetUpvalue
    <2> HIDE DEF a
    <2>3. upvalues[a] \in [open: BOOLEAN, closed: Val]
        BY <2>1 DEF IInv, TypeOK
    <2>4. CASE upvalues[a].open
        <3>1. upvalues' = upvalues /\ Keep([stack EXCEPT ![a[2] + 1] = Peek(0)])
            BY <2>2, <2>4 DEF Assign
        <3>2. UNCHANGED heap
            BY <1>1, <3>1 DEF heap
        <3>3. Growing /\ HeapFits /\ GlobalsFit /\ PrintedFits
            BY <1>1, <1>2, <3>1, <3>2, UnchangedFits
        <3>4. a[2] + 1 \in 1..Len(stack) /\ Peek(0) \in Val
            BY <1>3, <2>1, <2>4, <3>3, ReadType, TopType DEF a
        <3>5. Fitting([stack EXCEPT ![a[2] + 1] = Peek(0)])
            BY <3>3, <3>4, StackParts
        <3>6. StackFits
            BY <3>1, <3>5, OutcomeFits DEF Keep, Outcome, SafeErrors, Errors
        <3>7. QED
            BY <1>1, <3>3, <3>6, AdvanceIInv
    <2>5. CASE ~upvalues[a].open
        <3>1. /\ Keep(stack) /\ upvalues' = [upvalues EXCEPT ![a].closed = Peek(0)]
            BY <2>2, <2>5 DEF Assign
        <3>2. DOMAIN upvalues' = DOMAIN upvalues
            BY <3>1
        <3>3. Growing /\ Val' = Val /\ GlobalsFit /\ PrintedFits /\ Addresses' = Addresses
            BY <1>2, <3>2 DEF Addresses
        <3>4. Peek(0) \in Val
            BY <1>3, <3>3, TopType
        <3>5. upvalues' \in [Addresses -> [open: BOOLEAN, closed: Val]]
            BY <2>1, <2>3, <3>1, <3>4 DEF IInv, TypeOK
        <3>6. HeapFits
            BY <1>1, <3>3, <3>5 DEF HeapFits, IInv, TypeOK
        <3>7. StackFits
            BY <3>1, <3>3, StackParts, OutcomeFits DEF Keep, Outcome, SafeErrors, Errors
        <3>8. QED
            BY <1>1, <3>3, <3>6, <3>7, AdvanceIInv
    <2>6. QED
        BY <2>4, <2>5
<1>4. CASE ~(Operand < Len(Captured) /\ stack # <<>> /\ Readable(Captured[Operand + 1]))
    <2>1. upvalues' = upvalues /\ UNCHANGED heap
        BY <1>1, <1>4 DEF SetUpvalue, heap
    <2>2. Growing /\ HeapFits /\ GlobalsFit /\ PrintedFits
        BY <1>1, <1>2, <2>1, UnchangedFits
    <2>3. StackFits
        BY <1>4, <2>2, FailFits DEF SetUpvalue, Fail, Outcome, SafeErrors, Errors
    <2>4. QED
        BY <1>1, <2>2, <2>3, AdvanceIInv
<1>5. QED
    BY <1>3, <1>4

LEMMA SpecIndex == \A spec \in UpvalueSpec : spec.index \in Nat
BY SMTT(30) DEF UpvalueSpec, Byte

LEMMA CreateClosureIInv == IInv /\ CreateClosure => IInv'
<1> SUFFICES ASSUME IInv, CreateClosure PROVE IInv'
    OBVIOUS
<1>1. /\ Fetch(OpClosure) /\ Advance /\ UNCHANGED <<setup, maxFrames, ending>>
      /\ program' = program /\ UNCHANGED globals /\ UNCHANGED printed
    BY Zenon DEF CreateClosure, setup
<1>2. frames # <<>>
    BY <1>1, FetchFacts
<1>3. CASE Constant[1] # "function"
    <2>1. UNCHANGED heap /\ Fail("constant_type")
        BY <1>3 DEF CreateClosure
    <2>2. Growing /\ HeapFits /\ GlobalsFit /\ PrintedFits
        BY <1>1, <2>1, UnchangedFits
    <2>3. StackFits
        BY <2>1, <2>2, FailFits DEF Fail, Outcome, SafeErrors, Errors
    <2>4. QED
        BY <1>1, <2>2, <2>3, AdvanceIInv
<1>4. CASE Constant[1] = "function"
    <2> DEFINE k == Constant[2]
               specs == program[k].upvalues
               SlotOf(i) == Frame.base + specs[i].index
               missing == {i \in 1..Len(specs) :
                             ~specs[i].isLocal /\ specs[i].index >= Len(Captured)}
               reached == {i \in 1..Len(specs) : \A j \in missing : i < j}
               locals == {SlotOf(i) : i \in {j \in reached : specs[j].isLocal}}
               fresh == {Capture(slot) : slot \in locals} \ DOMAIN upvalues
               Address(i) == IF specs[i].isLocal THEN Capture(SlotOf(i))
                             ELSE Captured[specs[i].index + 1]
               closure == [id |-> closures, fn |-> k,
                           upvalues |-> [i \in 1..Len(specs) |-> Address(i)]]
    <2>1. /\ closures' = closures + 1
          /\ open' = [slot \in DOMAIN open \cup locals |-> Capture(slot)]
          /\ upvalues' = [a \in DOMAIN upvalues \cup fresh |->
                            IF a \in DOMAIN upvalues THEN upvalues[a]
                            ELSE [open |-> TRUE, closed |-> Nil]]
          /\ IF missing # {} THEN Fail("upvalue_index")
             ELSE Push(stack, ClosureValue(closure))
        BY Zenon, <1>4 DEF CreateClosure
    <2>2. k \in Functions
        BY <1>1, <1>4, ConstantType, OperandSizes
    <2>3. specs \in Seq(UpvalueSpec)
        <3>1. program[k] \in Function
            BY <2>2 DEF IInv, TypeOK, IsProgram, Functions
        <3>2. QED
            BY <3>1 DEF Function
    <2>4. \A i \in 1..Len(specs) : specs[i].index \in Nat /\ SlotOf(i) \in Nat
        <3>1. Frame.base \in Nat
            BY <1>2, FrameFacts DEF FrameType
        <3>2. TAKE i \in 1..Len(specs)
        <3>3. specs[i] \in UpvalueSpec
            BY <2>3
        <3>4. specs[i].index \in Nat
            BY <3>3, SpecIndex
        <3>5. QED
            BY SMTT(30), <3>1, <3>4
    <2>5. locals \subseteq Nat
        BY <2>4
    <2>6. /\ open \in [DOMAIN open -> Addresses] /\ DOMAIN open \subseteq Nat
          /\ Addresses \subseteq Nat \X Nat /\ closures \in Nat
          /\ upvalues \in [Addresses -> [open: BOOLEAN, closed: Val]]
        BY DEF IInv, TypeOK
    <2>7. \A slot \in locals : Capture(slot) \in Nat \X Nat
        BY <2>5, <2>6 DEF Capture
    <2>8. \A i \in 1..Len(specs) : i \in reached /\ specs[i].isLocal => SlotOf(i) \in locals
        OBVIOUS
    <2>9. missing = {} => reached = 1..Len(specs)
        OBVIOUS
    <2>10. \A i \in 1..Len(specs) :
              i \notin missing /\ ~specs[i].isLocal => Captured[specs[i].index + 1] \in Addresses
        <3>1. TAKE i \in 1..Len(specs)
        <3>2. SUFFICES ASSUME i \notin missing, ~specs[i].isLocal
                       PROVE  Captured[specs[i].index + 1] \in Addresses
            OBVIOUS
        <3>3. ~(specs[i].index >= Len(Captured)) /\ specs[i].index \in Nat
            BY <2>4, <3>2
        <3>4. specs[i].index + 1 \in 1..Len(Captured)
            BY SMTT(30), <1>2, <3>3, CapturedType
        <3>5. QED
            BY <1>2, <3>4, CapturedType
    <2>11. \A i \in 1..Len(specs) :
              Address(i) = IF specs[i].isLocal THEN Capture(SlotOf(i))
                           ELSE Captured[specs[i].index + 1]
        OBVIOUS
    <2>12. fresh = {Capture(slot) : slot \in locals} \ Addresses
        BY DEF Addresses
    <2>13. closure = [id |-> closures, fn |-> k,
                      upvalues |-> [i \in 1..Len(specs) |-> Address(i)]]
        OBVIOUS
    <2> HIDE DEF k, specs, SlotOf, missing, reached, locals, fresh, Address, closure
    <2>14. Addresses' = Addresses \cup fresh /\ fresh \subseteq Nat \X Nat
        BY <2>1, <2>7, <2>12 DEF Addresses
    <2>15. Growing /\ Nil \in Val' /\ Val \subseteq Val'
        BY <1>1, <2>14, Growth, Literals DEF Growing
    <2>16. HeapFits
        <3>1. upvalues' \in [Addresses' -> [open: BOOLEAN, closed: Val']]
            BY <2>1, <2>6, <2>14, <2>15 DEF Addresses
        <3>2. \A slot \in DOMAIN open \cup locals : Capture(slot) \in Addresses'
            BY <2>6, <2>12, <2>14 DEF Capture
        <3>3. QED
            BY <2>1, <2>5, <2>6, <2>14, <3>1, <3>2 DEF HeapFits
    <2>17. GlobalsFit /\ PrintedFits
        BY <1>1, <2>15, UnchangedFits
    <2>18. StackFits
        <3>1. CASE missing # {}
            BY <2>1, <2>15, <3>1, FailFits DEF Fail, Outcome, SafeErrors, Errors
        <3>2. CASE missing = {}
            <4>1. \A i \in 1..Len(specs) : Address(i) \in Addresses'
                BY <2>8, <2>9, <2>10, <2>11, <2>12, <2>14, <3>2
            <4>2. [i \in 1..Len(specs) |-> Address(i)] \in Seq(Addresses')
                BY <2>3, <4>1
            <4>3. Functions' = Functions
                BY <1>1 DEF Functions
            <4>4. closure \in Closure(Functions, Addresses)'
                BY <2>2, <2>6, <2>13, <4>2, <4>3 DEF Closure
            <4>5. ClosureValue(closure) \in Val'
                BY <4>4 DEF Val, Value, ClosureValue
            <4>6. QED
                BY <2>1, <2>15, <3>2, <4>5, StackParts, PushFits
        <3>3. QED
            BY <3>1, <3>2
    <2>19. QED
        BY SMTT(30), <1>1, <2>15, <2>16, <2>17, <2>18, AdvanceIInv
<1>5. QED
    BY <1>3, <1>4

(* Closing upvalues on a part of the stack. *)
LEMMA CloseUpvaluesFits ==
  ASSUME IInv, NEW last \in Int, NEW s \in Seq(Val), CloseUpvalues(last, s),
         program' = program
  PROVE  Growing /\ HeapFits /\ DOMAIN open' = {slot \in DOMAIN open : ~(slot >= last)}
<1>1. /\ open \in [DOMAIN open -> Addresses] /\ DOMAIN open \subseteq Nat
      /\ Addresses \subseteq Nat \X Nat /\ closures \in Nat
      /\ upvalues \in [Addresses -> [open: BOOLEAN, closed: Val]]
    BY DEF IInv, TypeOK
<1>2. Addresses' = Addresses /\ Functions' = Functions /\ closures' = closures
    BY DEF CloseUpvalues, Addresses, Functions
<1>3. Growing /\ Val' = Val
    BY <1>2 DEF Growing, Val
<1>4. \A a \in Addresses : a[2] \in Nat /\ (a[2] < Len(s) => s[a[2] + 1] \in Val)
    <2>1. TAKE a \in Addresses
    <2>2. a[2] \in Nat /\ Len(s) \in Nat
        BY <1>1
    <2>3. a[2] < Len(s) => a[2] + 1 \in 1..Len(s)
        BY <2>2
    <2>4. QED
        BY <2>2, <2>3
<1>5. upvalues' \in [Addresses -> [open: BOOLEAN, closed: Val]]
    BY <1>1, <1>4 DEF CloseUpvalues, Addresses
<1>6. /\ DOMAIN open' = {slot \in DOMAIN open : ~(slot >= last)}
      /\ \A slot \in DOMAIN open' : open'[slot] = open[slot]
      /\ open' = [slot \in DOMAIN open' |-> open'[slot]]
    BY DEF CloseUpvalues
<1>7. open' \in [DOMAIN open' -> Addresses] /\ DOMAIN open' \subseteq Nat
    BY <1>1, <1>6
<1>8. QED
    BY <1>1, <1>2, <1>3, <1>5, <1>6, <1>7 DEF HeapFits

LEMMA CloseUpvalueIInv == IInv /\ CloseUpvalue => IInv'
<1> SUFFICES ASSUME IInv, CloseUpvalue PROVE IInv'
    OBVIOUS
<1>1. /\ Fetch(OpCloseUpvalue) /\ Advance /\ UNCHANGED <<setup, maxFrames, ending>>
      /\ program' = program /\ UNCHANGED globals /\ UNCHANGED printed
      /\ CloseUpvalues(Len(stack) - 1, stack)
    BY DEF CloseUpvalue, setup
<1>2. Growing /\ HeapFits /\ GlobalsFit /\ PrintedFits
    <2>1. Len(stack) - 1 \in Int /\ stack \in Seq(Val)
        BY Numeric
    <2>2. Growing /\ HeapFits
        BY <1>1, <2>1, CloseUpvaluesFits
    <2>3. QED
        BY <1>1, <2>2, UnchangedFits
<1>3. CASE stack = <<>>
    <2>1. StackFits
        BY <1>2, <1>3, FailFits DEF CloseUpvalue, Fail, Outcome, SafeErrors, Errors
    <2>2. QED
        BY <1>1, <1>2, <2>1, AdvanceIInv
<1>4. CASE stack # <<>>
    <2>1. Fitting(Popped(1))
        BY <1>2, <1>4, TopType
    <2>2. StackFits
        BY <1>4, <2>1, OutcomeFits DEF CloseUpvalue, Keep, Outcome, SafeErrors, Errors
    <2>3. QED
        BY <1>1, <1>2, <2>2, AdvanceIInv
<1>5. QED
    BY <1>3, <1>4
-----------------------------------------------------------------------------
LEMMA PrintValueIInv == IInv /\ PrintValue => IInv'
<1> SUFFICES ASSUME IInv, PrintValue PROVE IInv'
    OBVIOUS
<1>1. /\ Fetch(OpPrint) /\ Advance /\ UNCHANGED <<setup, maxFrames, ending>>
      /\ program' = program /\ UNCHANGED globals /\ UNCHANGED heap
    BY DEF PrintValue, setup
<1>2. Growing /\ HeapFits /\ GlobalsFit
    BY <1>1, UnchangedFits
<1>3. CASE stack = <<>>
    <2>1. StackFits
        BY <1>2, <1>3, FailFits DEF PrintValue, Fail, Outcome, SafeErrors, Errors
    <2>2. PrintedFits
        BY <1>2, <1>3, UnchangedFits DEF PrintValue
    <2>3. QED
        BY <1>1, <1>2, <2>1, <2>2, AdvanceIInv
<1>4. CASE stack # <<>>
    <2>1. PICK size \in TextSizes :
            IF outputBytes + size > limits.maxOutputBytes
            THEN Outcome(Popped(1), "output_limit") /\ UNCHANGED printed
            ELSE /\ Keep(Popped(1))
                 /\ output' = Append(output, Peek(0))
                 /\ outputBytes' = outputBytes + size
        BY <1>4 DEF PrintValue
    <2>2. Fitting(Popped(1)) /\ Peek(0) \in Val'
        BY <1>2, <1>4, TopType
    <2>3. stack' = Popped(1) /\ peak' = Larger(peak, Len(stack'))
          /\ err' \in {"output_limit", "none"}
        BY <2>1 DEF Keep, Outcome
    <2>4. StackFits
        BY <2>2, <2>3, OutcomeFits DEF SafeErrors, Errors
    <2>5. PrintedFits
        <3>1. CASE outputBytes + size > limits.maxOutputBytes
            BY <1>2, <2>1, <3>1, UnchangedFits
        <3>2. CASE ~(outputBytes + size > limits.maxOutputBytes)
            <4>1. output \in Seq(Val') /\ outputBytes \in Nat
                BY <1>2, Growth DEF IInv, TypeOK
            <4>2. size \in Nat /\ limits.maxOutputBytes \in Nat
                BY VMAssumption, Numeric
            <4>3. QED
                BY SMTT(30), <2>1, <2>2, <3>2, <4>1, <4>2 DEF PrintedFits
        <3>3. QED
            BY <3>1, <3>2
    <2>6. QED
        BY <1>1, <1>2, <2>4, <2>5, AdvanceIInv
<1>5. QED
    BY <1>3, <1>4

(* A jump: it leads where decoding alone says, and that is a boundary. *)
LEMMA JumpsLead ==
  ASSUME IInv, NEW op \in {OpJump, OpJumpIfFalse, OpLoop}, Fetch(op)
  PROVE  /\ op # OpLoop => NextIP + Short = JumpTarget(Running.code, Frame.ip)
         /\ op = OpLoop => NextIP - Short = JumpTarget(Running.code, Frame.ip)
<1>1. Op = op /\ OperandBytes(op) = 2
    <2>1. OperandBytes(op) = 2
        BY OperandSizes DEF OperandBytes
    <2>2. QED
        BY <2>1, FetchFacts
<1>2. Frame.ip \in Nat
    BY FetchFacts, FrameFacts DEF FrameType
<1>3. Short = DecodeUint16(ByteAt(Running.code, Frame.ip + 1), ByteAt(Running.code, Frame.ip + 2))
    BY DEF Short, Operand
<1>4. NextIP = Frame.ip + 3
    BY <1>1, <1>2 DEF NextIP
<1>5. JumpTarget(Running.code, Frame.ip)
        = IF op = OpLoop THEN (Frame.ip + 3) - Short ELSE Frame.ip + 3 + Short
    BY <1>1, <1>3 DEF JumpTarget, Op
<1>6. NextIP - Short = (Frame.ip + 3) - Short /\ NextIP + Short = Frame.ip + 3 + Short
    BY <1>4
<1>7. QED
    BY <1>5, <1>6

LEMMA JumpTargets ==
  ASSUME IInv, NEW op \in {OpJump, OpJumpIfFalse, OpLoop}, Fetch(op)
  PROVE  /\ op # OpLoop => NextIP + Short \in Running.boundaries
         /\ op = OpLoop => NextIP - Short \in Running.boundaries
<1>1. JumpTarget(Running.code, Frame.ip) \in Running.boundaries
    BY FetchFacts, OperandSizes
<1>2. QED
    BY <1>1, JumpsLead

LEMMA JumpOpIInv ==
  ASSUME IInv, NEW op, JumpOp(op), NEW ip \in Running.boundaries, Goto(ip), StackFits
  PROVE  IInv'
<1>1. /\ Fetch(op) /\ UNCHANGED <<setup, maxFrames, ending>> /\ program' = program
      /\ UNCHANGED heap /\ UNCHANGED globals /\ UNCHANGED printed
    BY DEF JumpOp, setup
<1>2. Growing /\ HeapFits /\ GlobalsFit /\ PrintedFits
    BY <1>1, UnchangedFits
<1>3. /\ prepared /\ ~done /\ frames # <<>>
      /\ instructions' \in Nat /\ instructions' <= limits.maxSteps
    BY <1>1, FetchFacts
<1>4. FramesFit
    BY <1>3, GotoFits
<1>5. QED
    BY <1>1, <1>2, <1>3, <1>4, InnerStep

LEMMA JumpOpGrows == ASSUME IInv, NEW op, JumpOp(op) PROVE Growing /\ Fetch(op)
BY UnchangedFits DEF JumpOp, setup

LEMMA JumpsIInv == IInv /\ (Jump \/ JumpIfFalse \/ Loop) => IInv'
<1> SUFFICES ASSUME IInv, Jump \/ JumpIfFalse \/ Loop PROVE IInv'
    OBVIOUS
<1>0. ASSUME Growing, Keep(stack)
      PROVE  StackFits
    BY <1>0, StackParts, OutcomeFits DEF Keep, Outcome, SafeErrors, Errors
<1>1. CASE Jump
    <2>1. JumpOp(OpJump) /\ Growing /\ Fetch(OpJump)
        BY <1>1, JumpOpGrows DEF Jump
    <2>2. NextIP + Short \in Running.boundaries
        BY <2>1, JumpTargets DEF OpJump, OpLoop
    <2>3. Goto(NextIP + Short) /\ StackFits
        BY <1>0, <1>1, <2>1 DEF Jump
    <2>4. QED
        BY <2>1, <2>2, <2>3, JumpOpIInv
<1>2. CASE Loop
    <2>1. JumpOp(OpLoop) /\ Growing /\ Fetch(OpLoop)
        BY <1>2, JumpOpGrows DEF Loop
    <2>2. NextIP - Short \in Running.boundaries
        BY <2>1, JumpTargets
    <2>3. Goto(NextIP - Short) /\ StackFits
        BY <1>0, <1>2, <2>1 DEF Loop
    <2>4. QED
        BY <2>1, <2>2, <2>3, JumpOpIInv
<1>3. CASE JumpIfFalse
    <2>1. JumpOp(OpJumpIfFalse) /\ Growing /\ Fetch(OpJumpIfFalse)
        BY <1>3, JumpOpGrows DEF JumpIfFalse
    <2>2. NextIP + Short \in Running.boundaries /\ NextIP \in Running.boundaries
        BY <2>1, JumpTargets, FetchFacts DEF OpJumpIfFalse, OpLoop
    <2>3. CASE stack = <<>>
        <3>1. StackFits
            BY <1>3, <2>1, <2>3, FailFits DEF JumpIfFalse, Fail, Outcome, SafeErrors, Errors
        <3>2. QED
            BY <1>3, <2>1, <2>2, <2>3, <3>1, JumpOpIInv DEF JumpIfFalse, Advance
    <2>4. CASE stack # <<>>
        <3>1. Keep(stack) /\ Goto(IF IsFalsey(Peek(0)) THEN NextIP + Short ELSE NextIP)
            BY <1>3, <2>4 DEF JumpIfFalse
        <3>2. StackFits
            BY <1>0, <2>1, <3>1
        <3>3. QED
            BY <2>1, <2>2, <3>1, <3>2, JumpOpIInv
    <2>5. QED
        BY <2>3, <2>4
<1>4. QED
    BY <1>1, <1>2, <1>3
-----------------------------------------------------------------------------
(* Calls. *)
LEMMA PeekType ==
  ASSUME IInv, NEW n \in Nat, n < Len(stack)
  PROVE  Peek(n) \in Val
<1>1. n + 1 \in 1..Len(stack)
    BY Numeric
<1>2. stack[Len(stack) - n] \in Val
    BY <1>1, Numeric
<1>3. QED
    BY <1>2 DEF Peek

LEMMA ClosureData ==
  ASSUME NEW v \in Val, IsClosure(v)
  PROVE  v[2] \in Closure(Functions, Addresses) /\ v[2].fn \in Functions
<1>1. v[2] \in Closure(Functions, Addresses)
    BY ValueData
<1>2. QED
    BY <1>1 DEF Closure

(* A frame entered at the first instruction of a valid function. *)
LEMMA EntryFits ==
  ASSUME IInv, NEW c \in Closure(Functions, Addresses), NEW base \in Nat,
         Validated(program[c.fn])
  PROVE  LET entry == [closure |-> c, ip |-> 0, base |-> base]
         IN entry \in FrameType /\ OnBoundary(entry)
<1> DEFINE entry == [closure |-> c, ip |-> 0, base |-> base]
<1>1. entry \in FrameType
    BY DEF FrameType
<1>2. 0 \in program[c.fn].boundaries
    BY DEF Validated, WellFormed
<1>3. QED
    BY <1>1, <1>2 DEF OnBoundary

LEMMA CallClosureIInv ==
  ASSUME IInv, Fetch(OpCall), UNCHANGED <<setup, globals, heap, printed, ending>>,
         Operand < Len(stack), IsClosure(Peek(Operand)),
         CallClosure(Peek(Operand)[2], Operand, Advanced, stack)
  PROVE  IInv'
<1> DEFINE callee == Peek(Operand)[2]
           entry == [closure |-> callee, ip |-> 0, base |-> Len(stack) - Operand - 1]
<1>1. /\ frames # <<>> /\ prepared /\ ~done /\ NextIP \in Running.boundaries
      /\ instructions' \in Nat /\ instructions' <= limits.maxSteps
    BY FetchFacts
<1>2. program' = program /\ UNCHANGED heap /\ UNCHANGED globals /\ UNCHANGED printed
      /\ limits' = limits /\ prepared' = TRUE /\ done' = FALSE /\ result' = result
    BY <1>1 DEF setup, ending, IInv, TypeOK
<1>3. Growing /\ HeapFits /\ GlobalsFit /\ PrintedFits /\ result' \in Val'
    BY <1>2, UnchangedFits
<1>4. Operand \in Nat
    BY OperandType, OperandSizes
<1>5. callee \in Closure(Functions, Addresses) /\ callee.fn \in Functions
    BY <1>4, PeekType, ClosureData
<1>6. Advanced = Moved(NextIP)
    BY DEF Advanced, Moved
<1>7. /\ Advanced \in Seq(FrameType) /\ Len(Advanced) = Len(frames)
      /\ \A i \in 1..Len(frames) : OnBoundary(Advanced[i])
      /\ Advanced[1].base = 0
    BY <1>1, <1>6, MovedFits
<1>8. Len(frames) \in Nat \ {0} /\ limits.maxFrames \in Nat /\ maxFrames \in Nat
      /\ Len(frames) <= maxFrames /\ maxFrames <= limits.maxFrames
    BY <1>1, Numeric, FrameFacts DEF IInv, TypeOK, LimitsRespected
<1>9. Loaded'
    BY <1>1, <1>2 DEF IInv, Loaded, Functions
<1>10. CASE program[callee.fn].arity # Operand \/ Len(Advanced) >= limits.maxFrames
    <2>1. /\ frames' = Advanced /\ maxFrames' = maxFrames /\ stack' = stack
          /\ peak' = Larger(peak, Len(stack')) /\ err' \in {"arity", "frame_limit"}
        BY <1>10 DEF CallClosure, Outcome
    <2>2. StackFits
        BY <1>3, <2>1, FailFits DEF SafeErrors, Errors
    <2>3. FramesFit
        BY <1>7, <1>8, <2>1 DEF FramesFit, BottomFrame
    <2>4. UNCHANGED <<setup, maxFrames, ending>>
        BY <2>1
    <2>5. QED
        BY <1>1, <1>3, <2>2, <2>3, <2>4, InnerStep
<1>11. CASE ~(program[callee.fn].arity # Operand \/ Len(Advanced) >= limits.maxFrames)
    <2>1. /\ frames' = Append(Advanced, entry)
          /\ maxFrames' = Larger(maxFrames, Len(Advanced) + 1)
          /\ Keep(stack)
        BY <1>11 DEF CallClosure
    <2>2. StackFits
        BY <1>3, <2>1, StackParts, OutcomeFits DEF Keep, Outcome, SafeErrors, Errors
    <2>3. Len(stack) - Operand - 1 \in Nat
        BY <1>4, Numeric
    <2>4. Validated(program[callee.fn])
        BY <1>1, <1>5 DEF IInv, Loaded
    <2>5. entry \in FrameType /\ OnBoundary(entry)
        BY <1>5, <2>3, <2>4, EntryFits
    <2> HIDE DEF entry, callee
    <2>6. /\ frames' \in Seq(FrameType) /\ Len(frames') = Len(frames) + 1
          /\ \A i \in 1..Len(frames) : frames'[i] = Advanced[i]
          /\ frames'[Len(frames) + 1] = entry
        BY <1>7, <1>8, <2>1, <2>5
    <2>7. \A i \in 1..Len(frames') : OnBoundary(frames'[i])
        BY SMTT(30), <1>7, <1>8, <2>5, <2>6
    <2>8. BottomFrame'
        BY <1>7, <1>8, <2>6 DEF BottomFrame
    <2>9. /\ Len(frames') <= maxFrames' /\ maxFrames' <= limits.maxFrames
          /\ maxFrames' \in Nat
        BY <1>7, <1>8, <1>11, <2>1, <2>6 DEF Larger
    <2>10. frames' \in Seq(FrameType')
        BY <1>3, <2>6, Growth
    <2>11. QED
        BY <1>1, <1>2, <1>3, <1>9, <2>2, <2>7, <2>8, <2>9, <2>10, StepFits
<1>12. QED
    BY <1>10, <1>11

(* The values of the native functions. *)
LEMMA InvokeType ==
  ASSUME NEW name, NEW args \in Seq(Val), Growing, NEW v \in Invoke(name, args)
  PROVE  v \in Val'
<1>1. CASE \E t \in ClockReadings : v = Number(t)
    BY <1>1, VMAssumption, Literals
<1>2. CASE Len(args) = 1 /\ v = String(<<TypeName(args[1])>>)
    <2>1. args[1] \in Val
        BY <1>2
    <2>2. TypeName(args[1]) \in TypeNames
        BY <2>1 DEF Val, Value, Literal, TypeName, TypeNames, Nil
    <2>3. <<TypeName(args[1])>> \in Name
        BY <2>2, SymbolAssumption DEF Name
    <2>4. QED
        BY <1>2, <2>3, Literals
<1>3. CASE Len(args) = 1 /\ IsString(args[1]) /\ v = Number(Len(args[1][2]))
    <2>1. args[1] \in Val
        BY <1>3
    <2>2. args[1][2] \in Name
        BY <1>3, <2>1 DEF Val, Value, Literal, IsString, TypeName, Nil
    <2>3. Len(args[1][2]) \in Int
        BY <2>2 DEF Name
    <2>4. QED
        BY <1>3, <2>3, Literals
<1>4. QED
    BY <1>1, <1>2, <1>3 DEF Invoke

LEMMA CallNativeFits ==
  ASSUME IInv, Growing, NEW name, NEW count \in Nat, count < Len(stack),
         CallNative(name, count)
  PROVE  StackFits
<1> DEFINE base == Len(stack) - count - 1
           args == SubSeq(stack, base + 2, Len(stack))
<1>1. base \in Nat /\ base <= Len(stack)
    BY Numeric
<1>2. args \in Seq(Val)
    BY <1>1, Numeric
<1>3. Fitting(SubSeq(stack, 1, base))
    BY <1>1, StackParts
<1>4. CASE Fail("native")
    BY <1>4, FailFits DEF Fail, Outcome, SafeErrors, Errors
<1>5. ASSUME NEW v \in Invoke(name, args), Push(SubSeq(stack, 1, base), v)
      PROVE  StackFits
    BY <1>2, <1>3, <1>5, InvokeType, PushFits
<1>6. QED
    BY <1>4, <1>5 DEF CallNative

LEMMA CallIInv == IInv /\ Call => IInv'
<1> SUFFICES ASSUME IInv, Call PROVE IInv'
    OBVIOUS
<1>1. /\ Fetch(OpCall) /\ UNCHANGED <<setup, globals, heap, printed, ending>>
      /\ program' = program /\ UNCHANGED heap /\ UNCHANGED globals /\ UNCHANGED printed
    BY DEF Call, setup
<1>2. Growing /\ HeapFits /\ GlobalsFit /\ PrintedFits
    BY <1>1, UnchangedFits
<1>3. Operand \in Nat
    BY <1>1, OperandType, OperandSizes
<1>4. CASE Operand < Len(stack) /\ IsClosure(Peek(Operand))
    BY <1>1, <1>4, CallClosureIInv DEF Call
<1>5. CASE ~(Operand < Len(stack) /\ IsClosure(Peek(Operand)))
    <2>1. Advance /\ UNCHANGED maxFrames
        BY <1>5 DEF Call
    <2>2. UNCHANGED <<setup, maxFrames, ending>>
        BY <1>1, <2>1
    <2>3. CASE Operand < Len(stack) /\ IsNative(Peek(Operand))
        <3>1. ~(Operand >= Len(stack))
            BY <1>3, <2>3, Numeric
        <3>2. CallNative(Peek(Operand)[2], Operand)
            BY <1>5, <2>3, <3>1 DEF Call
        <3>3. StackFits
            BY <1>2, <1>3, <2>3, <3>2, CallNativeFits
        <3>4. QED
            BY <1>1, <1>2, <2>1, <2>2, <3>3, AdvanceIInv
    <2>4. CASE ~(Operand < Len(stack) /\ IsNative(Peek(Operand)))
        <3>1. Operand >= Len(stack) \/ ~IsNative(Peek(Operand))
            BY <1>3, <2>4, Numeric
        <3>2. Fail("stack_index") \/ Fail("not_callable")
            BY <1>5, <3>1 DEF Call
        <3>3. StackFits
            BY <1>2, <3>2, FailFits DEF Fail, Outcome, SafeErrors, Errors
        <3>4. QED
            BY <1>1, <1>2, <2>1, <2>2, <3>3, AdvanceIInv
    <2>5. QED
        BY <2>3, <2>4
<1>6. QED
    BY <1>4, <1>5

LEMMA ReturnIInv == IInv /\ Return => IInv'
<1> SUFFICES ASSUME IInv, Return PROVE IInv'
    OBVIOUS
<1> DEFINE rest == Popped(1)
<1>1. /\ Fetch(OpReturn) /\ UNCHANGED <<setup, globals, printed, maxFrames>>
      /\ program' = program /\ limits' = limits /\ prepared' = prepared
      /\ UNCHANGED globals /\ UNCHANGED printed /\ maxFrames' = maxFrames
    BY DEF Return, setup
<1>2. /\ frames # <<>> /\ prepared /\ ~done /\ err = "none"
      /\ instructions' \in Nat /\ instructions' <= limits.maxSteps
    BY <1>1, FetchFacts
<1>3. CASE stack = <<>>
    <2>1. Advance /\ Fail("stack_underflow") /\ UNCHANGED heap /\ UNCHANGED ending
        BY <1>3 DEF Return
    <2>2. Growing /\ HeapFits /\ GlobalsFit /\ PrintedFits
        BY <1>1, <2>1, UnchangedFits
    <2>3. StackFits
        BY <2>1, <2>2, FailFits DEF Fail, Outcome, SafeErrors, Errors
    <2>4. UNCHANGED <<setup, maxFrames, ending>>
        BY <1>1, <2>1
    <2>5. QED
        BY <1>1, <2>1, <2>2, <2>3, <2>4, AdvanceIInv
<1>4. CASE stack # <<>>
    <2>1. /\ CloseUpvalues(Frame.base, rest)
          /\ frames' = SubSeq(frames, 1, Len(frames) - 1)
          /\ IF Frame.base > Len(rest)
             THEN Outcome(rest, "truncate") /\ UNCHANGED ending
             ELSE IF Len(frames) = 1
             THEN /\ done' = TRUE /\ result' = Peek(0)
                  /\ Keep(SubSeq(rest, 1, Frame.base))
             ELSE /\ UNCHANGED ending
                  /\ Push(SubSeq(rest, 1, Frame.base), Peek(0))
        BY <1>4 DEF Return
    <2>2. Frame.base \in Nat /\ Len(frames) \in Nat \ {0} /\ frames \in Seq(FrameType)
        BY <1>2, FrameFacts, Numeric DEF FrameType
    <2>3. rest \in Seq(Val) /\ Len(rest) \in Nat /\ Len(rest) <= limits.maxStack
          /\ \A n \in Nat : n <= Len(rest) => SubSeq(rest, 1, n) \in Seq(Val)
        BY <1>4, Numeric DEF Popped
    <2>4. /\ Growing /\ HeapFits
          /\ DOMAIN open' = {slot \in DOMAIN open : ~(slot >= Frame.base)}
        <3>1. Frame.base \in Int
            BY <2>2
        <3> HIDE DEF rest
        <3>2. QED
            BY <1>1, <2>1, <2>3, <3>1, CloseUpvaluesFits
    <2>5. GlobalsFit /\ PrintedFits /\ Peek(0) \in Val' /\ Fitting(rest)
        BY <1>1, <1>4, <2>4, UnchangedFits, TopType
    <2>6. ASSUME ~(Frame.base > Len(rest))
          PROVE  Fitting(SubSeq(rest, 1, Frame.base))
                 /\ Len(SubSeq(rest, 1, Frame.base)) = Frame.base
        <3>1. SubSeq(rest, 1, Frame.base) \in Seq(Val) /\ Frame.base <= Len(rest)
              /\ Len(SubSeq(rest, 1, Frame.base)) = Frame.base
            BY <2>2, <2>3, <2>6
        <3>2. SubSeq(rest, 1, Frame.base) \in Seq(Val')
            BY <2>4, <3>1, Growth
        <3>3. QED
            BY <2>2, <2>3, <3>1, <3>2, Numeric DEF Fitting
    <2>7. /\ frames' \in Seq(FrameType) /\ Len(frames') = Len(frames) - 1
          /\ \A i \in 1..(Len(frames) - 1) : frames'[i] = frames[i]
        <3>1. Len(frames) - 1 \in Nat /\ Len(frames) - 1 <= Len(frames)
            BY <2>2
        <3>2. \A n \in Nat : n <= Len(frames) =>
                 /\ SubSeq(frames, 1, n) \in Seq(FrameType)
                 /\ Len(SubSeq(frames, 1, n)) = n
                 /\ \A i \in 1..n : SubSeq(frames, 1, n)[i] = frames[i]
            BY <2>2
        <3>3. QED
            BY <2>1, <3>1, <3>2
    <2>8. FramesFit
        <3>1. \A i \in 1..Len(frames') : OnBoundary(frames'[i])
            BY <2>2, <2>7 DEF IInv, DecodesCleanly
        <3>2. BottomFrame'
            BY <1>2, <2>2, <2>7 DEF IInv, BottomFrame
        <3>3. QED
            BY <2>2, <2>7, <3>1, <3>2 DEF FramesFit
    <2>9. CASE Frame.base > Len(rest)
        <3>1. Outcome(rest, "truncate") /\ UNCHANGED ending
            BY <2>1, <2>9
        <3>2. StackFits
            BY <2>5, <3>1, OutcomeFits DEF Outcome, SafeErrors, Errors
        <3>3. UNCHANGED <<setup, maxFrames, ending>>
            BY <1>1, <3>1
        <3>4. QED
            BY <1>2, <2>4, <2>5, <2>8, <3>2, <3>3, InnerStep
    <2>10. CASE ~(Frame.base > Len(rest)) /\ Len(frames) # 1
        <3>1. Push(SubSeq(rest, 1, Frame.base), Peek(0)) /\ UNCHANGED ending
            BY <2>1, <2>10
        <3>2. StackFits
            BY <2>5, <2>6, <2>10, <3>1, PushFits
        <3>3. UNCHANGED <<setup, maxFrames, ending>>
            BY <1>1, <3>1
        <3>4. QED
            BY <1>2, <2>4, <2>5, <2>8, <3>2, <3>3, InnerStep
    <2>11. CASE ~(Frame.base > Len(rest)) /\ Len(frames) = 1
        <3>1. done' = TRUE /\ result' = Peek(0) /\ Keep(SubSeq(rest, 1, Frame.base))
            BY <2>1, <2>11
        <3>2. StackFits /\ err' = "none"
            BY <2>6, <2>11, <3>1, OutcomeFits DEF Keep, Outcome, SafeErrors, Errors
        <3>3. Frame.base = 0
            BY <1>2, <2>11 DEF IInv, BottomFrame, Frame
        <3>4. frames' = <<>>
            BY <2>7, <2>11
        <3>5. stack' = <<>>
            <4>1. stack' = SubSeq(rest, 1, Frame.base)
                BY <3>1 DEF Keep, Outcome
            <4>2. stack' \in Seq(Val') /\ Len(stack') = 0
                BY <2>6, <2>11, <3>3, <4>1 DEF Fitting
            <4>3. QED
                BY <4>2
        <3>6. DOMAIN open' = {}
            BY <2>4, <3>3 DEF IInv, TypeOK
        <3>7. /\ Len(frames') <= maxFrames' /\ maxFrames' <= limits.maxFrames
              /\ maxFrames' \in Nat
            BY <1>1, <3>4, Numeric DEF IInv, TypeOK, LimitsRespected
        <3>8. Loaded' /\ BottomFrame' /\ frames' \in Seq(FrameType')
              /\ \A i \in 1..Len(frames') : OnBoundary(frames'[i])
            BY <3>4 DEF Loaded, BottomFrame
        <3>9. limits' = limits /\ prepared' = TRUE
            BY <1>1, <1>2 DEF IInv, TypeOK
        <3>10. QED
            BY <1>2, <2>4, <2>5, <3>1, <3>2, <3>4, <3>5, <3>6, <3>7, <3>8, <3>9, StepFits
    <2>12. QED
        BY <2>9, <2>10, <2>11
<1>5. QED
    BY <1>3, <1>4
-----------------------------------------------------------------------------
LEMMA ScriptType ==
  ASSUME IInv, Growing
  PROVE  /\ 1 \in Functions /\ Script \in Closure(Functions, Addresses)
         /\ ClosureValue(Script) \in Val'
<1>1. program \in Seq(Function) /\ Len(program) > 0
    BY DEF IInv, TypeOK, IsProgram
<1>2. 1 \in Functions
    BY <1>1 DEF Functions
<1>3. Script \in Closure(Functions, Addresses)
    BY <1>2 DEF Script, Closure
<1>4. Script \in Closure(Functions, Addresses)'
    BY <1>3, Growth
<1>5. QED
    BY <1>2, <1>3, <1>4 DEF ClosureValue, Val, Value

LEMMA PrepareIInv == IInv /\ Prepare => IInv'
<1> SUFFICES ASSUME IInv, Prepare PROVE IInv'
    OBVIOUS
<1> DEFINE invalid == \E k \in 1..Len(program) : ~Validated(program[k])
           s == <<ClosureValue(Script)>>
           entry == [closure |-> Script, ip |-> 0, base |-> 0]
<1>1. /\ ~prepared /\ prepared' = TRUE /\ limits' = limits /\ program' = program
      /\ UNCHANGED globals /\ upvalues' = upvalues /\ open' = open /\ UNCHANGED printed
      /\ instructions' = instructions /\ done' = FALSE /\ result' = result
    BY DEF Prepare, ending, IInv, NotPrepared, TypeOK
<1>2. Growing /\ Functions' = Functions /\ Addresses' = Addresses /\ Val' = Val
    <2>1. Functions' = Functions /\ Addresses' = Addresses
        BY <1>1 DEF Functions, Addresses
    <2>2. QED
        BY <1>1, <2>1 DEF Growing, Val
<1>3. GlobalsFit /\ PrintedFits /\ result' \in Val'
    BY <1>1, <1>2, UnchangedFits
<1>4. closures' \in Nat => HeapFits
    BY <1>1, <1>2 DEF HeapFits, IInv, TypeOK
<1>5. instructions' \in Nat /\ instructions' <= limits.maxSteps
    BY <1>1 DEF IInv, TypeOK, LimitsRespected
<1>6. /\ Len(frames) \in Nat /\ limits.maxFrames \in Nat /\ maxFrames \in Nat
      /\ Len(frames) <= maxFrames /\ maxFrames <= limits.maxFrames
      /\ frames \in Seq(FrameType)
    BY Numeric DEF IInv, TypeOK, LimitsRespected
<1>7. CASE invalid
    <2>1. Fail("invalid_function") /\ frames' = frames /\ maxFrames' = maxFrames
          /\ closures' = closures
        BY <1>7 DEF Prepare
    <2>2. StackFits
        BY <1>2, <2>1, FailFits DEF Fail, Outcome, SafeErrors, Errors
    <2>3. HeapFits
        BY <1>4, <2>1 DEF IInv, TypeOK
    <2>4. BottomFrame' /\ Loaded' /\ \A i \in 1..Len(frames') : OnBoundary(frames'[i])
        BY <1>1, <1>2, <2>1 DEF IInv, BottomFrame, Loaded, DecodesCleanly
    <2>5. frames' \in Seq(FrameType')
        BY <1>2, <1>6, <2>1, Growth
    <2>6. QED
        BY <1>1, <1>2, <1>3, <1>5, <1>6, <2>1, <2>2, <2>3, <2>4, <2>5, StepFits
<1>8. CASE ~invalid
    <2>1. closures' = 1 /\ CallClosure(Script, 0, <<>>, s)
        BY <1>8 DEF Prepare
    <2>2. HeapFits
        BY <1>4, <2>1
    <2>3. Fitting(s) /\ Len(s) = 1
        BY <1>2, ScriptType, Numeric DEF Fitting
    <2>4. /\ 1 \in Functions /\ Script \in Closure(Functions, Addresses) /\ Script.fn = 1
        BY <1>2, ScriptType DEF Script
    <2>5. \A k \in Functions : Validated(program[k])
        BY <1>8 DEF Functions
    <2>6. Loaded'
        BY <1>1, <1>2, <2>5 DEF Loaded
    <2>7. CASE program[Script.fn].arity # 0 \/ Len(<<>>) >= limits.maxFrames
        <3>1. frames' = <<>> /\ maxFrames' = maxFrames /\ stack' = s
              /\ peak' = Larger(peak, Len(stack')) /\ err' \in {"arity", "frame_limit"}
            BY <2>1, <2>7 DEF CallClosure, Outcome
        <3>2. StackFits
            BY <2>3, <3>1, OutcomeFits DEF SafeErrors, Errors
        <3>3. BottomFrame' /\ frames' \in Seq(FrameType') /\ Len(frames') = 0
              /\ \A i \in 1..Len(frames') : OnBoundary(frames'[i])
            BY <3>1 DEF BottomFrame
        <3>4. /\ Len(frames') <= maxFrames' /\ maxFrames' <= limits.maxFrames
              /\ maxFrames' \in Nat
            BY <1>6, <3>1, <3>3
        <3>5. QED
            BY <1>1, <1>2, <1>3, <1>5, <2>2, <2>6, <3>2, <3>3, <3>4, StepFits
    <2>8. CASE ~(program[Script.fn].arity # 0 \/ Len(<<>>) >= limits.maxFrames)
        <3>1. /\ frames' = Append(<<>>, entry) /\ maxFrames' = Larger(maxFrames, 1)
              /\ stack' = s /\ peak' = Larger(peak, Len(stack')) /\ err' = "none"
            BY <2>1, <2>3, <2>8 DEF CallClosure, Keep, Outcome
        <3>2. StackFits
            BY <2>3, <3>1, OutcomeFits DEF SafeErrors, Errors
        <3>3. entry \in FrameType /\ OnBoundary(entry)
            BY <2>4, <2>5, EntryFits
        <3>4. entry.base = 0
            OBVIOUS
        <3> HIDE DEF entry
        <3>5. frames' \in Seq(FrameType) /\ Len(frames') = 1 /\ frames'[1] = entry
            BY <3>1, <3>3
        <3>6. BottomFrame' /\ \A i \in 1..Len(frames') : OnBoundary(frames'[i])
            BY <3>3, <3>4, <3>5 DEF BottomFrame
        <3>7. frames' \in Seq(FrameType')
            BY <1>2, <3>5, Growth
        <3>8. /\ Len(frames') <= maxFrames' /\ maxFrames' <= limits.maxFrames
              /\ maxFrames' \in Nat
            BY <1>6, <2>8, <3>1, <3>5 DEF Larger
        <3>9. QED
            BY <1>1, <1>2, <1>3, <1>5, <2>2, <2>6, <3>2, <3>6, <3>7, <3>8, StepFits
    <2>9. QED
        BY <2>7, <2>8
<1>9. QED
    BY <1>7, <1>8
-----------------------------------------------------------------------------
LEMMA InitIInv == Init => IInv
<1> SUFFICES ASSUME Init PROVE IInv
    OBVIOUS
<1>1. limits \in LimitsSet /\ IsProgram(program) /\ prepared = FALSE
      /\ stack = <<>> /\ peak = 0 /\ frames = <<>> /\ maxFrames = 0
      /\ closures = 0 /\ output = <<>> /\ outputBytes = 0 /\ instructions = 0
      /\ done = FALSE /\ result = Nil /\ err = "none"
    BY VMAssumption DEF Init
<1>2. upvalues = [a \in {} |-> Nil] /\ open = [slot \in {} |-> Nil]
    BY DEF Init
<1>3. DOMAIN upvalues = {} /\ DOMAIN open = {}
    BY <1>2
<1>4. upvalues \in [Addresses -> [open: BOOLEAN, closed: Val]]
      /\ open \in [DOMAIN open -> Addresses]
    BY <1>2, <1>3 DEF Addresses
<1>5. Nil \in Val
    BY DEF Val, Value, Literal
<1>6. globals \in [DOMAIN globals -> Val] /\ DOMAIN globals \subseteq Name
    <2>1. globals = [name \in {<<n>> : n \in Natives} |-> NativeValue(name[1])]
        BY DEF Init
    <2>2. DOMAIN globals = {<<n>> : n \in Natives}
        BY <2>1
    <2>3. \A n \in Natives : <<n>> \in Name
        BY SymbolAssumption DEF Name
    <2>4. \A n \in Natives : NativeValue(n) \in Val
        BY DEF NativeValue, Val, Value
    <2>5. \A name \in DOMAIN globals : globals[name] \in Val
        BY <2>1, <2>2, <2>4
    <2>6. QED
        BY <2>1, <2>2, <2>3, <2>5
<1>7. "none" \in Errors
    BY DEF Errors
<1>8. TypeOK
    <2>1. stack \in Seq(Val) /\ output \in Seq(Val)
          /\ frames \in Seq([closure: Closure(Functions, Addresses), ip: Nat, base: Nat])
        BY <1>1
    <2>2. Addresses \subseteq Nat \X Nat /\ DOMAIN open \subseteq Nat
        BY <1>3 DEF Addresses
    <2>3. result \in Val /\ err \in Errors /\ prepared \in BOOLEAN /\ done \in BOOLEAN
        BY <1>1, <1>5, <1>7
    <2>4. QED
        BY <1>1, <1>4, <1>6, <2>1, <2>2, <2>3 DEF TypeOK
<1>9. LimitsRespected
    <2>1. limits \in [maxStack: Nat \ {0}, maxFrames: Nat, maxSteps: Nat, maxOutputBytes: Nat]
        BY <1>1, VMAssumption
    <2>2. Len(stack) = 0 /\ Len(frames) = 0
        BY <1>1
    <2>3. QED
        BY <1>1, <2>1, <2>2 DEF LimitsRespected
<1>10. DecodesCleanly /\ DoneIsClean /\ NotPrepared /\ BottomFrame /\ Loaded
    BY <1>1 DEF DecodesCleanly, DoneIsClean, NotPrepared, BottomFrame, Loaded
<1>11. QED
    BY <1>8, <1>9, <1>10 DEF IInv

LEMMA NextIInv == IInv /\ [Next]_vars => IInv'
<1>1. IInv /\ UNCHANGED vars => IInv'
    <2>1. SUFFICES ASSUME IInv, UNCHANGED vars PROVE IInv'
        OBVIOUS
    <2>2. /\ UNCHANGED setup /\ UNCHANGED heap /\ UNCHANGED printed
          /\ UNCHANGED ending /\ UNCHANGED <<stack, peak, frames, globals,
                                             instructions, maxFrames, err>>
        BY <2>1 DEF vars
    <2>3. Functions' = Functions /\ Addresses' = Addresses
        BY <2>2 DEF setup, heap, Functions, Addresses
    <2>4. Val' = Val
        BY <2>3 DEF Val
    <2>5. TypeOK'
        BY <2>1, <2>2, <2>3, <2>4 DEF IInv, TypeOK, setup, heap, printed, ending,
                                     IsProgram
    <2>6. QED
        BY <2>1, <2>2, <2>3, <2>5 DEF IInv, setup, heap, printed, ending,
                 LimitsRespected, DecodesCleanly, OnBoundary, DoneIsClean,
                 NotPrepared, BottomFrame, Loaded
<1>2. IInv /\ Next => IInv'
    BY PrepareIInv, StopsIInv, PushConstantIInv, PushesIInv, PopDupIInv,
       GetLocalIInv, SetLocalIInv, GetGlobalIInv, DefineGlobalIInv,
       SetGlobalIInv, GetUpvalueIInv, SetUpvalueIInv, CreateClosureIInv,
       CloseUpvalueIInv, ComparisonsIInv, AddIInv, SubtractMultiplyIInv,
       DivideIInv, UnaryIInv, PrintValueIInv, JumpsIInv, CallIInv, ReturnIInv
    DEF Next
<1>3. QED
    BY <1>1, <1>2

(* Whatever program it is given and under whatever limits, the machine     *)
(* keeps every value well typed, exceeds none of its limits, decodes only  *)
(* the instructions of functions that Validate accepted, and is clean when *)
(* it is done.                                                             *)
THEOREM VMSafe ==
  Spec => [](TypeOK /\ LimitsRespected /\ DecodesCleanly /\ DoneIsClean)
<1>1. IInv /\ [Next]_vars => IInv'
    BY NextIInv
<1>2. IInv => TypeOK /\ LimitsRespected /\ DecodesCleanly /\ DoneIsClean
    BY DEF IInv
<1>3. QED
    BY InitIInv, <1>1, <1>2, PTL DEF Spec

(* No run exceeds its limits of stack, frames, steps or output, whatever   *)
(* bytecode Step is given and wherever the run stops.                      *)
THEOREM LimitsHold == Spec => []LimitsRespected
BY VMSafe, PTL

(* Once returnFromCall has ended the script, nothing is left: no frame, no *)
(* value on the stack and no upvalue that is still open.                   *)
THEOREM MachineEndsClean == Spec => []DoneIsClean
BY VMSafe, PTL
-----------------------------------------------------------------------------
(* Traces.  A step moves the running frame, enters or leaves one above the *)
(* others, or leaves the frames alone.                                     *)
Entered(entry) == Fetch(OpCall) /\ frames' = Append(Moved(NextIP), entry)
Left1 == frames' = SubSeq(frames, 1, Len(frames) - 1)

FramesStep ==
  \/ UNCHANGED frames
  \/ frames # <<>> /\ \E ip : frames' = Moved(ip)
  \/ frames # <<>> /\ \E entry : Entered(entry)
  \/ frames # <<>> /\ Left1
  \/ Len(frames') \in 0..1

LEMMA GotoMoves == \A ip : Goto(ip) => frames' = Moved(ip)
BY DEF Goto, Moved

LEMMA FetchHasFrame == \A op : Fetch(op) => frames # <<>> /\ Op = op
BY DEF Fetch, InRange

LEMMA CallStep ==
  ASSUME Call
  PROVE  FramesStep
<1>1. frames # <<>> /\ Fetch(OpCall) /\ Advanced = Moved(NextIP)
    BY FetchHasFrame DEF Call, Advanced, Moved
<1>2. CASE Operand < Len(stack) /\ IsClosure(Peek(Operand))
    <2>1. CallClosure(Peek(Operand)[2], Operand, Advanced, stack)
        BY <1>2 DEF Call
    <2>2. frames' = Advanced \/ \E entry : frames' = Append(Advanced, entry)
        BY <2>1 DEF CallClosure
    <2>3. QED
        BY <1>1, <2>2 DEF FramesStep, Entered
<1>3. CASE ~(Operand < Len(stack) /\ IsClosure(Peek(Operand)))
    <2>1. Goto(NextIP)
        BY <1>3 DEF Call, Advance
    <2>2. QED
        BY <1>1, <2>1, GotoMoves DEF FramesStep
<1>4. QED
    BY <1>2, <1>3

LEMMA NextFrames ==
  ASSUME Next
  PROVE  FramesStep /\ program' = program
<1>1. CASE Cancel \/ InstructionLimit
    BY <1>1 DEF Cancel, InstructionLimit, Stop, FramesStep, setup
<1>2. CASE DecodeFault
    <2>1. CASE Stop("instruction_pointer")
        BY <2>1 DEF Stop, FramesStep, setup
    <2>2. CASE InRange /\ UNCHANGED setup /\ \E ip : Goto(ip)
        BY <2>2, GotoMoves DEF InRange, FramesStep, setup
    <2>3. QED
        BY <1>2, <2>1, <2>2 DEF DecodeFault
<1>3. CASE PushConstant \/ PushNil \/ PushTrue \/ PushFalse \/ Pop \/ Dup
           \/ GetLocal \/ SetLocal \/ GetUpvalue \/ Not \/ Negate \/ Divide
    <2>1. PICK op : StackOp(op)
        BY <1>3 DEF PushConstant, PushNil, PushTrue, PushFalse, Pop, Dup, GetLocal,
                    SetLocal, GetUpvalue, Not, Negate, Divide
    <2>2. QED
        BY <2>1, FetchHasFrame, GotoMoves DEF StackOp, Advance, FramesStep, setup
<1>4. CASE CompareEqual \/ Greater \/ Less \/ Add \/ Subtract \/ Multiply
    <2>1. PICK op : StackOp(op)
        BY <1>4 DEF CompareEqual, Greater, Less, Add, Subtract, Multiply, BinaryOp
    <2>2. QED
        BY <2>1, FetchHasFrame, GotoMoves DEF StackOp, Advance, FramesStep, setup
<1>5. CASE GetGlobal \/ DefineGlobal \/ SetGlobal
    <2>1. PICK op : GlobalOp(op)
        BY <1>5 DEF GetGlobal, DefineGlobal, SetGlobal
    <2>2. QED
        BY <2>1, FetchHasFrame, GotoMoves DEF GlobalOp, Advance, FramesStep, setup
<1>6. CASE Jump \/ JumpIfFalse \/ Loop
    <2>1. PICK op, ip : JumpOp(op) /\ Goto(ip)
        BY <1>6 DEF Jump, JumpIfFalse, Loop, Advance
    <2>2. QED
        BY <2>1, FetchHasFrame, GotoMoves DEF JumpOp, FramesStep, setup
<1>7. CASE SetUpvalue \/ CreateClosure \/ CloseUpvalue \/ PrintValue
    <2>1. PICK op : Fetch(op) /\ Advance /\ UNCHANGED setup
        BY Zenon, <1>7 DEF SetUpvalue, CreateClosure, CloseUpvalue, PrintValue
    <2>2. QED
        BY SMTT(30), <2>1, FetchHasFrame, GotoMoves DEF Advance, FramesStep, setup
<1>8. CASE Call
    BY <1>8, CallStep DEF Call, setup
<1>9. CASE Return
    <2>1. Advance \/ Left1
        BY <1>9 DEF Return, Left1
    <2>2. QED
        BY <1>9, <2>1, FetchHasFrame, GotoMoves DEF Return, Advance, FramesStep, setup
<1>10. CASE Prepare
    <2>1. CASE UNCHANGED frames
        BY <1>10, <2>1 DEF Prepare, FramesStep
    <2>2. CASE CallClosure(Script, 0, <<>>, <<ClosureValue(Script)>>)
        <3>1. frames' = <<>> \/ \E entry : frames' = Append(<<>>, entry)
            BY <2>2 DEF CallClosure
        <3>2. Len(frames') \in 0..1
            BY <3>1
        <3>3. QED
            BY <1>10, <3>2 DEF Prepare, FramesStep
    <2>3. QED
        BY <1>10, <2>1, <2>2 DEF Prepare
<1>11. QED
    BY <1>1, <1>2, <1>3, <1>4, <1>5, <1>6, <1>7, <1>8, <1>9, <1>10 DEF Next

(* A frame that has read a CALL and its operand waits at that call.        *)
LEMMA MovedPastCall ==
  ASSUME IInv, frames # <<>>, Op = OpCall
  PROVE  WaitsAtCall(Moved(NextIP)[Len(frames)])
<1> DEFINE f == Moved(NextIP)[Len(frames)]
<1>1. frames \in Seq(FrameType) /\ Len(frames) \in Nat \ {0} /\ Frame.ip \in Nat
    BY FrameFacts, Numeric DEF FrameType
<1>2. OperandBytes(OpCall) = 1
    BY DEF OperandBytes, IsJump, OpCall, OpJump, OpJumpIfFalse, OpLoop, OpConstant
<1>3. f = [Frame EXCEPT !.ip = NextIP]
    BY <1>1 DEF Moved, Frame
<1>4. Frame \in FrameType
    BY FrameFacts
<1>5. f.closure = Frame.closure /\ f.ip = NextIP
    BY <1>3, <1>4 DEF FrameType
<1>6. NextIP = Frame.ip + 2
    BY <1>1, <1>2 DEF NextIP
<1>7. TraceOffset(f) = Frame.ip + 1
    BY <1>1, <1>5, <1>6 DEF TraceOffset, Larger
<1>8. Frame.ip \in Running.boundaries
    BY FrameFacts DEF OnBoundary, Running
<1>9. ByteAt(Running.code, Frame.ip) = OpCall
    BY DEF Op
<1> HIDE DEF f
<1>10. WaitsAtCall(f)
    BY <1>2, <1>5, <1>7, <1>8, <1>9 DEF WaitsAtCall, Running
<1>11. QED
    BY <1>10 DEF f

LEMMA WaitsKept ==
  ASSUME program' = program, NEW f, WaitsAtCall(f)
  PROVE  WaitsAtCall(f)'
BY DEF WaitsAtCall, TraceOffset

LEMMA TraceStep ==
  ASSUME IInv, TraceNamesCalls, Next
  PROVE  TraceNamesCalls'
<1>1. FramesStep /\ program' = program
    BY NextFrames
<1>2. frames \in Seq(FrameType) /\ Len(frames) \in Nat
    BY Numeric
<1>3. SUFFICES ASSUME NEW i \in 1..(Len(frames') - 1)
               PROVE  WaitsAtCall(frames'[i])
    BY <1>1 DEF TraceNamesCalls, WaitsAtCall, TraceOffset
<1>4. CASE UNCHANGED frames
    BY <1>3, <1>4 DEF TraceNamesCalls
<1>5. CASE frames # <<>> /\ \E ip : frames' = Moved(ip)
    <2>1. Len(frames') = Len(frames) /\ i \in 1..(Len(frames) - 1) /\ frames'[i] = frames[i]
        BY <1>2, <1>3, <1>5 DEF Moved
    <2>2. QED
        BY <2>1 DEF TraceNamesCalls
<1>6. CASE frames # <<>> /\ \E entry : Entered(entry)
    <2>1. PICK entry : Entered(entry)
        BY <1>6
    <2>2. /\ i \in 1..Len(frames) /\ frames'[i] = Moved(NextIP)[i]
          /\ i # Len(frames) => frames'[i] = frames[i]
        <3>1. Moved(NextIP) \in Seq(FrameType) /\ Len(Moved(NextIP)) = Len(frames)
            <4>1. NextIP \in Running.boundaries
                BY <2>1, FetchFacts DEF Entered
            <4>2. QED
                BY <1>6, <4>1, MovedFits
        <3>2. QED
            BY <1>2, <1>3, <2>1, <3>1 DEF Entered, Moved
    <2>3. QED
        <3>1. Op = OpCall
            BY <2>1, FetchHasFrame DEF Entered
        <3>2. CASE i = Len(frames)
            BY <1>6, <2>2, <3>1, <3>2, MovedPastCall
        <3>3. CASE i # Len(frames)
            <4>1. i \in 1..(Len(frames) - 1)
                BY <1>2, <2>2, <3>3
            <4>2. QED
                BY <2>2, <3>3, <4>1 DEF TraceNamesCalls
        <3>4. QED
            BY <3>2, <3>3
<1>7. CASE frames # <<>> /\ Left1
    <2>1. i \in 1..(Len(frames) - 1) /\ frames'[i] = frames[i]
        BY <1>2, <1>3, <1>7 DEF Left1
    <2>2. QED
        BY <2>1 DEF TraceNamesCalls
<1>8. ~(Len(frames') \in 0..1)
    <2>1. \A n \in 0..1 : 1..(n - 1) = {}
        OBVIOUS
    <2>2. 1..(Len(frames') - 1) # {}
        BY <1>3
    <2>3. QED
        BY <2>1, <2>2
<1>9. QED
    BY <1>1, <1>4, <1>5, <1>6, <1>7, <1>8 DEF FramesStep

(* Whatever bytecode runs, FrameSnapshot gives for every frame that waits  *)
(* the line of the call it waits for.                                      *)
THEOREM TracesNameCalls == Spec => []TraceNamesCalls
<1>1. Init => TraceNamesCalls
    BY DEF Init, TraceNamesCalls
<1>2. IInv /\ TraceNamesCalls /\ [Next]_vars => TraceNamesCalls'
    <2>1. UNCHANGED vars /\ TraceNamesCalls => TraceNamesCalls'
        BY DEF vars, setup, TraceNamesCalls, WaitsAtCall, TraceOffset
    <2>2. QED
        BY <2>1, TraceStep
<1>3. QED
    BY InitIInv, NextIInv, <1>1, <1>2, PTL DEF Spec
-----------------------------------------------------------------------------
(* The machine implements module Machine. *)
CallerView == [limit |-> limits.maxSteps, executed |-> instructions, status |-> Status]

(* A step of a running machine: what it counts, and how it may end. *)
Counted ==
  /\ prepared /\ ~done /\ err = "none"
  /\ UNCHANGED setup
  /\ \/ instructions < limits.maxSteps /\ instructions' = instructions + 1
     \/ instructions' = instructions /\ done' = done /\ err' # "none"

LEMMA FetchCounted ==
  ASSUME NEW op, Fetch(op), UNCHANGED setup
  PROVE  Counted
BY DEF Fetch, WithinSteps, Active, Counted

LEMMA StopCounted ==
  ASSUME NEW e, Active, Stop(e), e # "none"
  PROVE  Counted
<1>1. err' = e
    BY DEF Stop, Fail, Outcome
<1>2. UNCHANGED setup /\ instructions' = instructions /\ done' = done
    BY DEF Stop, ending
<1>3. QED
    BY <1>1, <1>2 DEF Active, Counted

LEMMA NextCounted ==
  ASSUME Next, prepared
  PROVE  Counted
<1>1. CASE Cancel \/ InstructionLimit
    BY <1>1, StopCounted DEF Cancel, InstructionLimit
<1>2. CASE DecodeFault
    <2>1. Active /\ instructions < limits.maxSteps
        BY <1>2 DEF DecodeFault, WithinSteps
    <2>2. CASE Stop("instruction_pointer")
        BY <2>1, <2>2, StopCounted
    <2>3. CASE instructions' = instructions + 1 /\ UNCHANGED setup
        BY <2>1, <2>3 DEF Active, Counted
    <2>4. QED
        BY <1>2, <2>2, <2>3 DEF DecodeFault
<1>3. CASE PushConstant \/ PushNil \/ PushTrue \/ PushFalse \/ Pop \/ Dup
           \/ GetLocal \/ SetLocal \/ GetUpvalue \/ Not \/ Negate \/ Divide
    <2>1. PICK op : StackOp(op)
        BY <1>3 DEF PushConstant, PushNil, PushTrue, PushFalse, Pop, Dup, GetLocal,
                    SetLocal, GetUpvalue, Not, Negate, Divide
    <2>2. QED
        BY <2>1, FetchCounted DEF StackOp
<1>4. CASE CompareEqual \/ Greater \/ Less \/ Add \/ Subtract \/ Multiply
    <2>1. PICK op : StackOp(op)
        BY <1>4 DEF CompareEqual, Greater, Less, Add, Subtract, Multiply, BinaryOp
    <2>2. QED
        BY <2>1, FetchCounted DEF StackOp
<1>5. CASE GetGlobal \/ DefineGlobal \/ SetGlobal
    <2>1. PICK op : GlobalOp(op)
        BY <1>5 DEF GetGlobal, DefineGlobal, SetGlobal
    <2>2. QED
        BY <2>1, FetchCounted DEF GlobalOp
<1>6. CASE Jump \/ JumpIfFalse \/ Loop
    <2>1. PICK op : JumpOp(op)
        BY <1>6 DEF Jump, JumpIfFalse, Loop
    <2>2. QED
        BY <2>1, FetchCounted DEF JumpOp
<1>7. CASE SetUpvalue \/ CreateClosure \/ CloseUpvalue \/ PrintValue \/ Call \/ Return
    <2>1. PICK op : Fetch(op) /\ UNCHANGED setup
        BY Zenon, <1>7 DEF SetUpvalue, CreateClosure, CloseUpvalue, PrintValue, Call, Return
    <2>2. QED
        BY SMTT(30), <2>1, FetchCounted
<1>8. ~Prepare
    BY DEF Prepare
<1>9. QED
    BY <1>1, <1>2, <1>3, <1>4, <1>5, <1>6, <1>7, <1>8 DEF Next

LEMMA ViewStep ==
  ASSUME IInv, Next
  PROVE  Abstract!Next
<1> DEFINE m == CallerView
<1>0. IInv'
    BY NextIInv
<1>1. done \in BOOLEAN /\ done' \in BOOLEAN /\ prepared \in BOOLEAN
    BY <1>0 DEF IInv, TypeOK
<1>2. CASE prepared
    <2>1. Counted
        BY <1>2, NextCounted
    <2>2. /\ limits' = limits /\ prepared' /\ m.status = "running"
          /\ m = [limit |-> limits.maxSteps, executed |-> instructions, status |-> "running"]
        BY <1>2, <2>1 DEF Counted, setup, CallerView, Status
    <2>3. CASE instructions < limits.maxSteps /\ instructions' = instructions + 1
        <3>1. Status' \in {"running", "done", "failed"}
            BY <2>2 DEF Status
        <3>2. m' = [limit |-> m.limit, executed |-> m.executed + 1, status |-> Status']
            BY <2>2, <2>3 DEF CallerView
        <3>3. m' \in Abstract!Execute(m)
            BY <2>2, <2>3, <3>1, <3>2 DEF Abstract!Execute
        <3>4. QED
            BY <3>3 DEF Abstract!Next, CallerView
    <2>4. CASE instructions' = instructions /\ done' = done /\ err' # "none"
        <3>1. Status' = "failed"
            BY <2>1, <2>2, <2>4 DEF Status, Counted
        <3>2. m' = [m EXCEPT !.status = "failed"]
            BY <2>2, <2>4, <3>1 DEF CallerView
        <3>3. m' \in Abstract!Refuse(m)
            BY SMTT(30), <2>2, <3>2 DEF Abstract!Refuse
        <3>4. QED
            BY <3>3 DEF Abstract!Next, CallerView
    <2>5. QED
        BY <2>1, <2>3, <2>4 DEF Counted
<1>3. CASE ~prepared
    <2>1. Prepare
        BY Zenon, <1>3 DEF Next, Cancel, InstructionLimit, DecodeFault, Active, WithinSteps,
                    Fetch, StackOp, GlobalOp, JumpOp, BinaryOp, PushConstant, PushNil,
                    PushTrue, PushFalse, Pop, Dup, GetLocal, SetLocal, GetGlobal,
                    DefineGlobal, SetGlobal, GetUpvalue, SetUpvalue, CreateClosure,
                    CloseUpvalue, CompareEqual, Greater, Less, Add, Subtract, Multiply,
                    Divide, Not, Negate, PrintValue, Jump, JumpIfFalse, Loop, Call, Return
    <2>2. /\ limits' = limits /\ prepared' /\ instructions' = instructions
          /\ ~done'
        BY <1>3, <2>1 DEF Prepare, ending, IInv, NotPrepared
    <2>3. m = [limit |-> limits.maxSteps, executed |-> instructions, status |-> "new"]
        BY <1>3 DEF CallerView, Status
    <2>4. Status' \in {"running", "failed"}
        BY <2>2 DEF Status
    <2>5. m' = [m EXCEPT !.status = Status']
        BY <2>2, <2>3 DEF CallerView
    <2>6. m' \in Abstract!Prepare(m)
        BY <2>3, <2>4, <2>5 DEF Abstract!Prepare
    <2>7. QED
        BY <2>6 DEF Abstract!Next, CallerView
<1>4. QED
    BY <1>1, <1>2, <1>3

(* Seen through its limit, its instruction count and its status, every run *)
(* of the machine is a run of the abstract one.                            *)
THEOREM VMImplementsMachine == Spec => Abstract!Safety
<1>1. Init => Abstract!Init
    BY DEF Init, Abstract!Init, Abstract!New, Status
<1>2. IInv /\ [Next]_vars => IInv'
    BY NextIInv
<1>3. IInv /\ [Next]_vars => [Abstract!Next]_(CallerView)
    <2>1. ASSUME IInv, Next PROVE Abstract!Next
        BY <2>1, ViewStep
    <2>2. UNCHANGED vars => UNCHANGED CallerView
        BY DEF vars, setup, ending, CallerView, Status
    <2>3. QED
        BY <2>1, <2>2
<1>4. QED
    BY InitIInv, <1>1, <1>2, <1>3, PTL DEF Spec, Abstract!Safety, CallerView

-----------------------------------------------------------------------------
(* The table of stack effects.  A step that gives no error changes the     *)
(* length of the stack by d.                                               *)
ChangesBy(d) == err' = "none" => Len(stack') = Len(stack) + d

LEMMA Effects ==
  /\ \A op \in {OpConstant, OpNil, OpTrue, OpFalse, OpDup, OpGetLocal, OpGetGlobal,
                OpGetUpvalue, OpClosure} : StackEffect(op) = 1
  /\ \A op \in {OpSetLocal, OpSetGlobal, OpSetUpvalue, OpNot, OpNegate, OpJump,
                OpJumpIfFalse, OpLoop} : StackEffect(op) = 0
  /\ \A op \in {OpPop, OpDefineGlobal, OpEqual, OpGreater, OpLess, OpAdd, OpSubtract,
                OpMultiply, OpDivide, OpPrint, OpCloseUpvalue} : StackEffect(op) = -1
BY DEF StackEffect,
       OpConstant, OpNil, OpTrue, OpFalse, OpPop, OpDup, OpGetLocal, OpSetLocal,
       OpGetGlobal, OpDefineGlobal, OpSetGlobal, OpGetUpvalue, OpSetUpvalue, OpEqual,
       OpGreater, OpLess, OpAdd, OpSubtract, OpMultiply, OpDivide, OpNot, OpNegate,
       OpPrint, OpJump, OpJumpIfFalse, OpLoop, OpCall, OpClosure, OpCloseUpvalue, OpReturn

(* What the ways of leaving the stack do to its length. *)
LEMMA Lengths ==
  ASSUME IInv
  PROVE  /\ \A e : e # "none" => (Fail(e) => err' # "none")
         /\ \A s, e : e # "none" => (Outcome(s, e) => err' # "none")
         /\ \A v : Push(stack, v) => ChangesBy(1)
         /\ Keep(stack) => ChangesBy(0)
         /\ \A i, v : Keep([stack EXCEPT ![i] = v]) => ChangesBy(0)
         /\ stack # <<>> => /\ Keep(Popped(1)) => ChangesBy(-1)
                            /\ \A v : Push(Popped(1), v) => ChangesBy(0)
         /\ ~(Len(stack) < 2) => \A v : Push(Popped(2), v) => ChangesBy(-1)
<1>1. stack \in Seq(Val) /\ Len(stack) \in Nat
    BY Numeric
<1>2. \A e : e # "none" => (Fail(e) => err' # "none")
    BY DEF Fail, Outcome
<1>3. \A s, e : e # "none" => (Outcome(s, e) => err' # "none")
    BY DEF Outcome
<1>4. ASSUME NEW s \in Seq(Val), NEW v, Push(s, v), err' = "none"
      PROVE  Len(stack') = Len(s) + 1
    <2>1. stack' = Append(s, v)
        BY <1>3, <1>4 DEF Push, Keep, Outcome
    <2>2. QED
        BY <2>1
<1>5. \A v : Push(stack, v) => ChangesBy(1)
    BY <1>1, <1>4 DEF ChangesBy
<1>6. Keep(stack) => ChangesBy(0)
    BY <1>1 DEF ChangesBy, Keep, Outcome
<1>7. ASSUME NEW i, NEW v, Keep([stack EXCEPT ![i] = v])
      PROVE  ChangesBy(0)
    <2>1. Len([stack EXCEPT ![i] = v]) = Len(stack)
        BY <1>1
    <2>2. QED
        BY <1>1, <1>7, <2>1 DEF ChangesBy, Keep, Outcome
<1>8. ASSUME NEW n \in Nat, n <= Len(stack)
      PROVE  Popped(n) \in Seq(Val) /\ Len(Popped(n)) = Len(stack) - n
    <2>1. Len(stack) - n \in Nat /\ Len(stack) - n <= Len(stack)
        BY <1>1, <1>8
    <2>2. \A k \in Nat : k <= Len(stack) =>
             SubSeq(stack, 1, k) \in Seq(Val) /\ Len(SubSeq(stack, 1, k)) = k
        BY <1>1
    <2>3. QED
        BY <2>1, <2>2 DEF Popped
<1>9. ASSUME stack # <<>>
      PROVE  /\ Keep(Popped(1)) => ChangesBy(-1)
             /\ \A v : Push(Popped(1), v) => ChangesBy(0)
    <2>1. 1 <= Len(stack)
        BY <1>1, <1>9
    <2>2. Popped(1) \in Seq(Val) /\ Len(Popped(1)) = Len(stack) - 1
        BY <1>8, <2>1
    <2>3. Keep(Popped(1)) => ChangesBy(-1)
        BY <1>1, <2>2 DEF ChangesBy, Keep, Outcome
    <2>4. ASSUME NEW v, Push(Popped(1), v), err' = "none"
          PROVE  Len(stack') = Len(stack) + 0
        <3>1. Len(stack') = Len(Popped(1)) + 1
            BY <1>4, <2>2, <2>4
        <3>2. QED
            BY <1>1, <2>2, <3>1
    <2>5. QED
        BY <2>3, <2>4 DEF ChangesBy
<1>10. ASSUME ~(Len(stack) < 2), NEW v, Push(Popped(2), v), err' = "none"
       PROVE  Len(stack') = Len(stack) + (-1)
    <2>1. 2 <= Len(stack)
        BY <1>1, <1>10
    <2>2. Popped(2) \in Seq(Val) /\ Len(Popped(2)) = Len(stack) - 2
        BY <1>8, <2>1
    <2>3. Len(stack') = Len(Popped(2)) + 1
        BY <1>4, <1>10, <2>2
    <2>4. QED
        BY <1>1, <2>2, <2>3
<1>11. ~(Len(stack) < 2) => \A v : Push(Popped(2), v) => ChangesBy(-1)
    BY <1>10 DEF ChangesBy
<1>12. QED
    BY <1>2, <1>3, <1>5, <1>6, <1>7, <1>9, <1>11

LEMMA FailureShows == \A s, e : Outcome(s, e) /\ e # "none" => err' # "none"
BY DEF Outcome

LEMMA StackOpEffects ==
  ASSUME IInv, \/ PushConstant \/ PushNil \/ PushTrue \/ PushFalse \/ Pop \/ Dup
               \/ GetLocal \/ SetLocal \/ GetUpvalue \/ Not \/ Negate
  PROVE  ChangesBy(StackEffect(Op))
<1>1. ASSUME NEW op, StackOp(op) PROVE Op = op
    BY <1>1 DEF StackOp, Fetch
<1>2. CASE PushConstant
    BY <1>1, <1>2, Lengths, Effects DEF PushConstant, ChangesBy
<1>3. CASE PushNil \/ PushTrue \/ PushFalse
    BY <1>1, <1>3, Lengths, Effects DEF PushNil, PushTrue, PushFalse
<1>4. CASE Pop
    BY <1>1, <1>4, Lengths, Effects DEF Pop, ChangesBy
<1>5. CASE Dup
    BY <1>1, <1>5, Lengths, Effects DEF Dup, ChangesBy
<1>6. CASE GetLocal
    BY <1>1, <1>6, Lengths, Effects DEF GetLocal, ChangesBy
<1>7. CASE SetLocal
    BY <1>1, <1>7, Lengths, Effects DEF SetLocal, ChangesBy
<1>8. CASE GetUpvalue
    BY <1>1, <1>8, Lengths, Effects DEF GetUpvalue, ChangesBy
<1>9. CASE Not
    BY <1>1, <1>9, Lengths, Effects DEF Not, ChangesBy
<1>10. CASE Negate
    BY <1>1, <1>10, Lengths, Effects DEF Negate, ChangesBy
<1>11. QED
    BY <1>2, <1>3, <1>4, <1>5, <1>6, <1>7, <1>8, <1>9, <1>10

LEMMA BinaryEffects ==
  ASSUME IInv, \/ CompareEqual \/ Greater \/ Less \/ Add \/ Subtract \/ Multiply \/ Divide
  PROVE  ChangesBy(StackEffect(Op))
<1>1. ASSUME NEW op, StackOp(op) PROVE Op = op
    BY <1>1 DEF StackOp, Fetch
<1>2. ASSUME NEW op, NEW accepted, NEW outcome, BinaryOp(op, accepted, outcome)
      PROVE  Op = op /\ ChangesBy(-1)
    BY <1>1, <1>2, Lengths DEF BinaryOp, ChangesBy
<1>3. CASE Divide
    BY <1>1, <1>3, Lengths, Effects DEF Divide, ChangesBy
<1>4. CASE CompareEqual \/ Greater \/ Less
    BY <1>2, <1>4, Effects DEF CompareEqual, Greater, Less
<1>5. CASE Add
    BY <1>2, <1>5, Effects DEF Add
<1>6. CASE Subtract \/ Multiply
    BY <1>2, <1>6, Effects DEF Subtract, Multiply
<1>7. QED
    BY <1>3, <1>4, <1>5, <1>6

LEMMA OtherEffects ==
  ASSUME IInv, \/ GetGlobal \/ DefineGlobal \/ SetGlobal \/ SetUpvalue \/ CreateClosure
               \/ CloseUpvalue \/ PrintValue \/ Jump \/ JumpIfFalse \/ Loop
  PROVE  ChangesBy(StackEffect(Op))
<1>1. ASSUME NEW op, Fetch(op) \/ GlobalOp(op) \/ JumpOp(op) PROVE Op = op
    BY <1>1 DEF GlobalOp, JumpOp, Fetch
<1>2. CASE GetGlobal
    BY <1>1, <1>2, Lengths, Effects DEF GetGlobal, ChangesBy
<1>3. CASE DefineGlobal
    <2>1. Op = OpDefineGlobal /\ (err' # "none" \/ (stack # <<>> /\ Keep(Popped(1))))
        <3>1. Op = OpDefineGlobal
            BY <1>1, <1>3 DEF DefineGlobal
        <3>2. (stack # <<>> /\ Keep(Popped(1))) \/ \E e : e # "none" /\ Outcome(stack, e)
            BY <1>3 DEF DefineGlobal, Fail
        <3>3. QED
            BY <3>1, <3>2, FailureShows
    <2>2. QED
        BY <2>1, Lengths, Effects DEF ChangesBy
<1>4. CASE SetGlobal
    <2>1. Op = OpSetGlobal /\ (err' # "none" \/ Keep(stack))
        BY <1>1, <1>4, Lengths DEF SetGlobal
    <2>2. QED
        BY <2>1, Lengths, Effects DEF ChangesBy
<1>5. CASE SetUpvalue
    <2>1. Op = OpSetUpvalue
          /\ (\/ err' # "none" \/ Keep(stack)
              \/ \E i : Keep([stack EXCEPT ![i] = Peek(0)]))
        BY <1>1, <1>5, Lengths DEF SetUpvalue, Assign
    <2>2. QED
        BY <2>1, Lengths, Effects DEF ChangesBy
<1>6. CASE CreateClosure
    <2>1. Op = OpClosure /\ (err' # "none" \/ \E v : Push(stack, v))
        BY Zenon, <1>1, <1>6, Lengths DEF CreateClosure
    <2>2. QED
        BY <2>1, Lengths, Effects DEF ChangesBy
<1>7. CASE CloseUpvalue
    <2>1. Op = OpCloseUpvalue /\ (err' # "none" \/ (stack # <<>> /\ Keep(Popped(1))))
        <3>1. Op = OpCloseUpvalue
            BY <1>1, <1>7 DEF CloseUpvalue
        <3>2. (stack # <<>> /\ Keep(Popped(1))) \/ Outcome(stack, "stack_underflow")
            BY <1>7 DEF CloseUpvalue, Fail
        <3>3. QED
            BY <3>1, <3>2, FailureShows
    <2>2. QED
        BY <2>1, Lengths, Effects DEF ChangesBy
<1>8. CASE PrintValue
    <2>1. Op = OpPrint /\ (err' # "none" \/ (stack # <<>> /\ Keep(Popped(1))))
        <3>1. Op = OpPrint
            BY <1>1, <1>8 DEF PrintValue
        <3>2. \/ (stack # <<>> /\ Keep(Popped(1))) \/ Outcome(stack, "stack_underflow")
              \/ Outcome(Popped(1), "output_limit")
            BY <1>8 DEF PrintValue, Fail
        <3>3. QED
            BY <3>1, <3>2, FailureShows
    <2>2. QED
        BY <2>1, Lengths, Effects DEF ChangesBy
<1>9. CASE Jump \/ Loop
    BY <1>1, <1>9, Lengths, Effects DEF Jump, Loop
<1>10. CASE JumpIfFalse
    BY <1>1, <1>10, Lengths, Effects DEF JumpIfFalse, ChangesBy
<1>11. QED
    BY <1>2, <1>3, <1>4, <1>5, <1>6, <1>7, <1>8, <1>9, <1>10

(* Where an instruction leads that does not fail: the taken jumps where    *)
(* decoding says that they do, all others to where they end.               *)
EndOfFetched == InstructionEnd(Running.code, Len(Running.constants), Frame.ip)
Jumping == Op \in {OpJump, OpLoop} \/ (Op = OpJumpIfFalse /\ IsFalsey(Peek(0)))
Destination == IF Jumping THEN JumpTarget(Running.code, Frame.ip) ELSE EndOfFetched

LEMMA GotoShows ==
  ASSUME IInv, NEW op, Fetch(op), NEW ip, Goto(ip)
  PROVE  frames'[Len(frames')].ip = ip /\ Op = op /\ NextIP = EndOfFetched
<1>1. frames \in Seq(FrameType) /\ frames # <<>> /\ Op = op /\ Decodes
    <2>1. frames \in Seq(FrameType)
        BY Numeric
    <2>2. QED
        BY <2>1 DEF Fetch, InRange
<1>2. Len(frames) \in 1..Len(frames) /\ frames[Len(frames)] \in FrameType
    BY <1>1
<1>3. /\ frames' = [frames EXCEPT ![Len(frames)] =
                       [frames[Len(frames)] EXCEPT !.ip = ip]]
      /\ Len(frames') = Len(frames)
    BY <1>1, <1>2 DEF Goto
<1>4. frames'[Len(frames')].ip = ip
    BY <1>1, <1>2, <1>3 DEF FrameType
<1>5. NextIP = EndOfFetched
    BY <1>1 DEF NextIP, EndOfFetched, Decodes, InstructionEnd, Op
<1>6. QED
    BY <1>1, <1>4, <1>5

LEMMA StayInLine ==
  \A op \in {OpConstant, OpNil, OpTrue, OpFalse, OpPop, OpDup, OpGetLocal, OpSetLocal,
             OpGetGlobal, OpDefineGlobal, OpSetGlobal, OpGetUpvalue, OpSetUpvalue, OpEqual,
             OpGreater, OpLess, OpAdd, OpSubtract, OpMultiply, OpDivide, OpNot, OpNegate,
             OpPrint, OpClosure, OpCloseUpvalue} :
    op \notin {OpJump, OpJumpIfFalse, OpLoop}
BY DEF OpConstant, OpNil, OpTrue, OpFalse, OpPop, OpDup, OpGetLocal, OpSetLocal,
       OpGetGlobal, OpDefineGlobal, OpSetGlobal, OpGetUpvalue, OpSetUpvalue, OpEqual,
       OpGreater, OpLess, OpAdd, OpSubtract, OpMultiply, OpDivide, OpNot, OpNegate,
       OpPrint, OpJump, OpJumpIfFalse, OpLoop, OpClosure, OpCloseUpvalue

LEMMA OthersAdvance ==
  ASSUME IInv, NEW op, op \notin {OpJump, OpJumpIfFalse, OpLoop}, Fetch(op), Advance
  PROVE  frames'[Len(frames')].ip = Destination
BY GotoShows DEF Advance, Destination, Jumping

LEMMA JumpsArrive ==
  ASSUME IInv, Jump \/ JumpIfFalse \/ Loop, err' = "none"
  PROVE  frames'[Len(frames')].ip = Destination
<1>1. OpLoop \notin {OpJump, OpJumpIfFalse} /\ OpJumpIfFalse # OpJump
    BY DEF OpLoop, OpJump, OpJumpIfFalse
<1>2. CASE Jump
    <2>1. Fetch(OpJump) /\ Goto(NextIP + Short)
        BY <1>2 DEF Jump, JumpOp
    <2>2. QED
        BY <1>1, <2>1, GotoShows, JumpsLead DEF Destination, Jumping
<1>3. CASE Loop
    <2>1. Fetch(OpLoop) /\ Goto(NextIP - Short)
        BY <1>3 DEF Loop, JumpOp
    <2>2. QED
        BY <1>1, <2>1, GotoShows, JumpsLead DEF Destination, Jumping
<1>4. CASE JumpIfFalse
    <2>1. Fetch(OpJumpIfFalse)
          /\ Goto(IF IsFalsey(Peek(0)) THEN NextIP + Short ELSE NextIP)
        BY <1>4 DEF JumpIfFalse, JumpOp, Fail, Outcome
    <2>2. QED
        BY <1>1, <2>1, GotoShows, JumpsLead DEF Destination, Jumping
<1>5. QED
    BY <1>2, <1>3, <1>4

(* Whatever bytecode the machine runs, an instruction that does not fail   *)
(* goes where decoding says, and all but CALL and RETURN change the stack  *)
(* by the effect that the table gives them.                                *)
THEOREM StepsAreAsDecoded == Spec => StepsAsDecoded
<1> DEFINE decoded == Executed /\ err' = "none" /\ Op \notin {OpCall, OpReturn} =>
                        /\ frames'[Len(frames')].ip = Destination
                        /\ Len(stack') = Len(stack) + StackEffect(Op)
<1>1. ASSUME IInv, Next PROVE decoded
    <2>1. CASE Prepare \/ Cancel \/ InstructionLimit
        BY <2>1 DEF Prepare, Cancel, InstructionLimit, Stop, Executed
    <2>2. CASE DecodeFault
        <3>1. instructions' = instructions \/ Fail("bad_instruction")
            BY <2>2 DEF DecodeFault, Stop
        <3>2. QED
            BY <3>1, <1>1, Lengths DEF Executed
    <2>3. CASE Call \/ Return
        BY <2>3 DEF Call, Return, Fetch
    <2>4. CASE \/ PushConstant \/ PushNil \/ PushTrue \/ PushFalse \/ Pop \/ Dup
               \/ GetLocal \/ SetLocal \/ GetUpvalue \/ Not \/ Negate
        <3>1. \E op : op \notin {OpJump, OpJumpIfFalse, OpLoop} /\ StackOp(op)
            BY <2>4, StayInLine
            DEF PushConstant, PushNil, PushTrue, PushFalse, Pop, Dup,
                GetLocal, SetLocal, GetUpvalue, Not, Negate
        <3>2. frames'[Len(frames')].ip = Destination
            BY <1>1, <3>1, OthersAdvance DEF StackOp
        <3>3. QED
            BY <1>1, <2>4, <3>2, StackOpEffects DEF ChangesBy
    <2>5. CASE \/ CompareEqual \/ Greater \/ Less \/ Add \/ Subtract \/ Multiply \/ Divide
        <3>1. \E op : op \notin {OpJump, OpJumpIfFalse, OpLoop} /\ StackOp(op)
            BY <2>5, StayInLine
            DEF CompareEqual, Greater, Less, Add, Subtract, Multiply, Divide, BinaryOp
        <3>2. frames'[Len(frames')].ip = Destination
            BY <1>1, <3>1, OthersAdvance DEF StackOp
        <3>3. QED
            BY <1>1, <2>5, <3>2, BinaryEffects DEF ChangesBy
    <2>6. CASE \/ GetGlobal \/ DefineGlobal \/ SetGlobal \/ SetUpvalue \/ CreateClosure
               \/ CloseUpvalue \/ PrintValue
        <3>1. \E op : op \notin {OpJump, OpJumpIfFalse, OpLoop} /\ Fetch(op) /\ Advance
            BY <2>6, StayInLine
            DEF GetGlobal, DefineGlobal, SetGlobal, GlobalOp, SetUpvalue, CreateClosure,
                CloseUpvalue, PrintValue
        <3>2. frames'[Len(frames')].ip = Destination
            BY <1>1, <3>1, OthersAdvance
        <3>3. QED
            BY <1>1, <2>6, <3>2, OtherEffects DEF ChangesBy
    <2>7. CASE Jump \/ JumpIfFalse \/ Loop
        <3>1. ChangesBy(StackEffect(Op))
            BY <1>1, <2>7, OtherEffects
        <3>2. QED
            BY <1>1, <2>7, <3>1, JumpsArrive DEF ChangesBy
    <2>8. QED
        BY <1>1, <2>1, <2>2, <2>3, <2>4, <2>5, <2>6, <2>7 DEF Next
<1>2. UNCHANGED vars => ~Executed
    BY DEF vars, Executed
<1>3. IInv /\ [Next]_vars => [decoded]_vars
    BY <1>1, <1>2
<1>4. QED
    BY InitIInv, NextIInv, <1>3, PTL
    DEF Spec, StepsAsDecoded, Destination, Jumping, EndOfFetched
=============================================================================
