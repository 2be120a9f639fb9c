-------------------------- MODULE DisciplineProofs --------------------------
(***************************************************************************)
(* Proof that the discipline of module Discipline is enough: the machine   *)
(* runs a disciplined program without an internal error, its frames nest,  *)
(* its map of open upvalues is exact, and only an assignment changes a     *)
(* captured variable or a slot of a caller.                                *)
(*                                                                         *)
(* The invariant DInv relates every frame to the shapes of its function.   *)
(* A step that neither calls nor returns is described by Inside, which     *)
(* says nothing of what the instruction computes: that Inside is enough is *)
(* proved once, and each action is shown to be such a step.                *)
(***************************************************************************)
EXTENDS VMProofs

Shapes(f) == ShapesOf(program, f.closure.fn)
HeightsOf(f) == At(Shapes(f).heights, f.ip)
CapturedOf(f) == At(Shapes(f).captured, f.ip)

(* Where the part of the stack that belongs to frame i ends: a suspended   *)
(* frame waits for the result, which will replace its callee.              *)
Top(i) == IF i = Len(frames) THEN Len(stack) ELSE frames[i + 1].base + 1

(* A closure has as many upvalues as its function. *)
WellMade(v) == IsClosure(v) => Len(v[2].upvalues) = Len(program[v[2].fn].upvalues)

AllMade ==
  /\ \A i \in 1..Len(stack) : WellMade(stack[i])
  /\ \A name \in DOMAIN globals : WellMade(globals[name])
  /\ \A a \in Addresses : WellMade(upvalues[a].closed)

HeapExact ==
  /\ \A a \in Addresses :
        /\ a[1] < closures
        /\ upvalues[a].open => a[2] \in DOMAIN open /\ open[a[2]] = a
  /\ \A slot \in DOMAIN open : open[slot][2] = slot /\ upvalues[open[slot]].open

Untouched ==
  ~prepared => stack = <<>> /\ frames = <<>> /\ Addresses = {} /\ DOMAIN open = {}

(* A machine that may step has a frame to run. *)
Underway == prepared /\ ~done /\ err = "none" => frames # <<>>

(* FramesNest, with the order of the bases stated for every two frames. *)
Nested ==
  /\ \A i \in 1..Len(frames) :
        /\ frames[i].base < Len(stack)
        /\ stack[frames[i].base + 1] = ClosureValue(frames[i].closure)
  /\ \A i, j \in 1..Len(frames) : i < j => frames[i].base < frames[j].base

(* Slot belongs to frame i. *)
Within(slot, i) ==
  frames[i].base <= slot /\ (i < Len(frames) => slot < frames[i + 1].base)

Shaped ==
  /\ \A slot \in DOMAIN open : slot < Len(stack)
  /\ \A i \in 1..Len(frames) :
        /\ frames[i].ip # Len(program[frames[i].closure.fn].code)
        /\ Top(i) - frames[i].base \in HeightsOf(frames[i])
        /\ \A slot \in DOMAIN open :
              Within(slot, i) => slot - frames[i].base \in CapturedOf(frames[i])

DInv ==
  /\ AllMade /\ HeapExact /\ Untouched /\ Underway /\ Nested
  /\ err \notin Internal
  /\ err = "none" => Shaped

Sound == IInv /\ Disciplined(program) /\ DInv

LEMMA DInvImplies == DInv => NoInternalError /\ FramesNest /\ OpenIsExact
<1> SUFFICES ASSUME DInv PROVE NoInternalError /\ FramesNest /\ OpenIsExact
    OBVIOUS
<1>1. NoInternalError
    BY DEF DInv, NoInternalError
<1>2. OpenIsExact
    BY DEF DInv, HeapExact, Shaped, OpenIsExact
<1>3. FramesNest
    <2>1. SUFFICES ASSUME NEW i \in 1..Len(frames)
                   PROVE  /\ frames[i].base < Len(stack)
                          /\ stack[frames[i].base + 1] = ClosureValue(frames[i].closure)
                          /\ i > 1 => frames[i - 1].base < frames[i].base
        BY DEF FramesNest
    <2>2. i > 1 => i - 1 \in 1..Len(frames) /\ i - 1 < i
        BY <2>1
    <2>3. QED
        BY <2>1, <2>2 DEF DInv, Nested
<1>4. QED
    BY <1>1, <1>2, <1>3

(* Every frame stands at an instruction, with the stack that the shapes of *)
(* its function promise there.                                             *)
LEMMA FrameDisciplined ==
  ASSUME Sound, err = "none", NEW i \in 1..Len(frames)
  PROVE  /\ frames[i] \in FrameType /\ frames[i].base \in Nat
         /\ frames[i].closure.fn \in Functions
         /\ program[frames[i].closure.fn] \in Function
         /\ frames[i].ip \in program[frames[i].closure.fn].boundaries
                             \ {Len(program[frames[i].closure.fn].code)}
         /\ DisciplinedAt(program, program[frames[i].closure.fn], Shapes(frames[i]),
                          frames[i].ip, Top(i) - frames[i].base)
<1>1. frames[i] \in FrameType
    BY Numeric DEF Sound
<1>2. frames[i].base \in Nat /\ frames[i].closure \in Closure(Functions, Addresses)
    BY <1>1 DEF FrameType
<1>3. frames[i].closure.fn \in Functions
    BY <1>2 DEF Closure
<1>4. program[frames[i].closure.fn] \in Function
    <2>1. program \in Seq(Function)
        BY DEF Sound, IInv, TypeOK, IsProgram
    <2>2. QED
        BY <1>3, <2>1 DEF Functions
<1>5. frames[i].ip \in program[frames[i].closure.fn].boundaries
                             \ {Len(program[frames[i].closure.fn].code)}
    BY DEF Sound, IInv, DecodesCleanly, OnBoundary, DInv, Shaped
<1>6. Top(i) - frames[i].base \in HeightsOf(frames[i])
    BY DEF Sound, DInv, Shaped
<1>7. DisciplinedAt(program, program[frames[i].closure.fn], Shapes(frames[i]),
                    frames[i].ip, Top(i) - frames[i].base)
    BY <1>3, <1>5, <1>6 DEF Sound, Disciplined, Functions, Shapes, HeightsOf
<1>8. QED
    BY <1>1, <1>2, <1>3, <1>4, <1>5, <1>7

Height == Len(stack) - Frame.base
Code == Running.code

(* What an instruction is given: the running frame, its discipline, and    *)
(* the frames below it.                                                    *)
LEMMA Here ==
  ASSUME Sound, Fetch(Op)
  PROVE  /\ Len(frames) \in Nat \ {0} /\ Len(frames) \in 1..Len(frames)
         /\ Frame = frames[Len(frames)] /\ Frame \in FrameType
         /\ Frame.base \in Nat /\ Frame.ip \in Nat /\ Len(stack) \in Nat
         /\ Running \in Function /\ Code \in Seq(Byte) /\ err = "none" /\ prepared
         /\ Height \in Nat /\ Frame.base + Height = Len(stack)
         /\ Frame.ip \in Running.boundaries \ {Len(Code)}
         /\ DisciplinedAt(program, Running, Shapes(Frame), Frame.ip, Height)
         /\ \A i \in 1..Len(frames) : frames[i].base \in Nat /\ frames[i].base <= Frame.base
         /\ \A slot \in DOMAIN open :
               /\ slot \in Nat /\ slot < Len(stack)
               /\ slot >= Frame.base => slot - Frame.base \in CapturedOf(Frame)
<1>1. /\ Len(frames) \in Nat \ {0} /\ Len(stack) \in Nat /\ err = "none" /\ prepared
      /\ Frame = frames[Len(frames)] /\ Len(frames) \in 1..Len(frames)
    <2>1. Active /\ frames # <<>>
        BY DEF Fetch, WithinSteps, InRange
    <2>2. QED
        BY <2>1, Numeric DEF Sound, Frame, Active
<1>2. /\ Frame \in FrameType /\ Frame.base \in Nat /\ Running \in Function
      /\ Frame.ip \in Running.boundaries \ {Len(Code)}
      /\ DisciplinedAt(program, Running, Shapes(Frame), Frame.ip, Top(Len(frames)) - Frame.base)
    BY <1>1, FrameDisciplined DEF Running, Code
<1>3. Top(Len(frames)) - Frame.base = Height
    BY DEF Top, Height
<1>4. Frame.ip \in Nat /\ Code \in Seq(Byte)
    BY <1>2 DEF FrameType, Function, Code
<1>5. \A i \in 1..Len(frames) : frames[i].base \in Nat /\ frames[i].base <= Frame.base
    <2>1. TAKE i \in 1..Len(frames)
    <2>2. frames[i].base \in Nat
        BY <1>1, FrameDisciplined
    <2>3. i < Len(frames) => frames[i].base < Frame.base
        BY <1>1 DEF Sound, DInv, Nested
    <2>4. QED
        BY <1>1, <1>2, <2>2, <2>3
<1>6. Frame.base < Len(stack)
    BY <1>1 DEF Sound, DInv, Nested
<1>7. Height \in Nat /\ Frame.base + Height = Len(stack)
    BY <1>1, <1>2, <1>6 DEF Height
<1>8. \A slot \in DOMAIN open :
         /\ slot \in Nat /\ slot < Len(stack)
         /\ slot >= Frame.base => slot - Frame.base \in CapturedOf(Frame)
    <2>1. TAKE slot \in DOMAIN open
    <2>2. slot \in Nat /\ slot < Len(stack)
        BY <1>1 DEF Sound, IInv, TypeOK, DInv, Shaped
    <2>3. slot >= Frame.base => Within(slot, Len(frames))
        BY <1>1, <1>2, <2>2 DEF Within
    <2>4. QED
        BY <1>1, <2>2, <2>3 DEF Sound, DInv, Shaped
<1>9. QED
    BY <1>1, <1>2, <1>3, <1>4, <1>5, <1>7, <1>8

(* The stack slots that the instruction assigns to. *)
Written(i) ==
  \/ Op = OpSetLocal /\ i = Slot + 1
  \/ /\ Op = OpSetUpvalue /\ Operand < Len(Captured)
     /\ upvalues[Captured[Operand + 1]].open
     /\ i = Captured[Operand + 1][2] + 1

(* The stack after a step that neither calls nor returns. *)
StackInside ==
  /\ err' \notin Internal
  /\ err' = "none" => Len(stack') = Len(stack) + Effect(Code, Frame.ip)
  /\ Len(stack') \in Nat /\ Len(stack') >= Len(stack) - Takes(Code, Frame.ip)
  /\ \A i \in 1..(Len(stack) - Takes(Code, Frame.ip)) :
        stack'[i] = stack[i] \/ Written(i)

FramesInside ==
  \E ip \in Nat :
    /\ frames' = Moved(ip)
    /\ err' = "none" => ip \in Successors(Code, Frame.ip)

(* The slots that are open after it. *)
OpenInside ==
  \A slot \in DOMAIN open' :
    /\ slot \in Nat
    /\ slot < Frame.base => slot \in DOMAIN open
    /\ slot >= Frame.base =>
         slot - Frame.base \in
           CapturedAfter(program, Running, Frame.ip, Height, CapturedOf(Frame))

Inside ==
  /\ Fetch(Op)
  /\ UNCHANGED setup
  /\ StackInside /\ FramesInside

(* No assignment goes to the slot of a closure that runs. *)
LEMMA WrittenSafe ==
  ASSUME Sound, Fetch(Op), NEW i \in 1..Len(frames)
  PROVE  /\ frames[i].base \notin DOMAIN open
         /\ ~Written(frames[i].base + 1)
<1>1. /\ frames[i].base \in Nat /\ err = "none"
      /\ DisciplinedAt(program, program[frames[i].closure.fn], Shapes(frames[i]),
                       frames[i].ip, Top(i) - frames[i].base)
    BY SMTT(30), Here, FrameDisciplined
<1>2. 0 \notin CapturedOf(frames[i])
    BY <1>1 DEF DisciplinedAt, SlotsSafe, CapturedOf
<1>3. frames[i].base \notin DOMAIN open
    <2>1. SUFFICES ASSUME frames[i].base \in DOMAIN open PROVE FALSE
        OBVIOUS
    <2>2. Within(frames[i].base, i)
        <3>1. i < Len(frames) => i + 1 \in 1..Len(frames) /\ i < i + 1
            BY Numeric DEF Sound
        <3>2. QED
            BY <1>1, <3>1 DEF Within, Sound, DInv, Nested
    <2>3. frames[i].base - frames[i].base \in CapturedOf(frames[i])
        BY <1>1, <2>1, <2>2 DEF Sound, DInv, Shaped
    <2>4. QED
        BY <1>1, <1>2, <2>3
<1>4. ~(Op = OpSetLocal /\ frames[i].base + 1 = Slot + 1)
    <2>1. SUFFICES ASSUME Op = OpSetLocal PROVE frames[i].base < Slot
        BY <1>1, SlotType, OperandSizes DEF Sound
    <2>2. Operand \in 1..(Height - 1)
        BY <2>1, Here DEF DisciplinedAt, RefersWell, Op, Operand, Code
    <2>3. frames[i].base <= Frame.base /\ Frame.base \in Nat /\ Height \in Nat
        BY Here
    <2>4. QED
        BY <1>1, <2>2, <2>3 DEF Slot
<1>5. ~(/\ Op = OpSetUpvalue /\ Operand < Len(Captured)
        /\ upvalues[Captured[Operand + 1]].open
        /\ frames[i].base + 1 = Captured[Operand + 1][2] + 1)
    <2>1. SUFFICES ASSUME Op = OpSetUpvalue, Operand < Len(Captured),
                          upvalues[Captured[Operand + 1]].open
                   PROVE  Captured[Operand + 1][2] \in DOMAIN open
                          /\ Captured[Operand + 1][2] \in Nat
        BY <1>1, <1>3
    <2>2. Captured[Operand + 1] \in Addresses
        BY <2>1, OperandAddress DEF Sound
    <2>3. QED
        BY <2>1, <2>2 DEF Sound, DInv, HeapExact, IInv, TypeOK
<1>6. QED
    BY <1>3, <1>4, <1>5 DEF Written

LEMMA ByteIsNat == \A b \in Byte : b \in Nat
BY DEF Byte

(* The operand of a CALL is a byte. *)
LEMMA TakesType ==
  ASSUME NEW f \in Function, Validated(f), NEW o \in f.boundaries \ {Len(f.code)}
  PROVE  Takes(f.code, o) \in Nat /\ Effect(f.code, o) \in Int
<1>1. f.code \in Seq(Byte) /\ o \in Nat
    BY DEF Function
<1>2. InstructionEnd(f.code, Len(f.constants), o) \in 0..Len(f.code)
    BY DEF Validated, WellFormed
<1>3. o + 1 + OperandBytes(ByteAt(f.code, o)) <= Len(f.code)
    BY <1>2 DEF InstructionEnd, NoEnd
<1>4. ByteAt(f.code, o) = OpCall => ByteAt(f.code, o + 1) \in Nat
    <2>1. SUFFICES ASSUME ByteAt(f.code, o) = OpCall PROVE ByteAt(f.code, o + 1) \in Nat
        OBVIOUS
    <2>2. OperandBytes(OpCall) = 1
        BY DEF OperandBytes, IsJump, UsesConstant, OpCall, OpJump, OpJumpIfFalse, OpLoop,
               OpConstant, OpGetGlobal, OpDefineGlobal, OpSetGlobal, OpClosure
    <2>3. o + 1 + 1 \in 1..Len(f.code)
        BY <1>1, <1>3, <2>1, <2>2
    <2>4. ByteAt(f.code, o + 1) \in Byte
        BY <1>1, <2>3 DEF ByteAt
    <2>5. QED
        BY <2>4, ByteIsNat
<1>5. QED
    BY <1>4 DEF Takes, Effect, StackEffect

(* The frames with the IP of the running one moved, frame by frame. *)
LEMMA MovedFrames ==
  ASSUME Sound, Fetch(Op), NEW ip \in Nat
  PROVE  /\ Len(Moved(ip)) = Len(frames)
         /\ \A i \in 1..Len(frames) :
              /\ Moved(ip)[i].closure = frames[i].closure
              /\ Moved(ip)[i].base = frames[i].base
              /\ i < Len(frames) => Moved(ip)[i] = frames[i]
         /\ Moved(ip)[Len(frames)].ip = ip
<1>1. frames \in Seq(FrameType) /\ Len(frames) \in 1..Len(frames) /\ Len(frames) \in Nat
    BY Here, Numeric DEF Sound
<1>2. \A i \in 1..Len(frames) : frames[i] \in FrameType
    BY <1>1
<1>3. /\ Len(Moved(ip)) = Len(frames)
      /\ \A i \in 1..Len(frames) :
           Moved(ip)[i] = IF i = Len(frames) THEN [frames[i] EXCEPT !.ip = ip] ELSE frames[i]
    BY <1>1 DEF Moved
<1>4. \A f \in FrameType : /\ [f EXCEPT !.ip = ip].closure = f.closure
                           /\ [f EXCEPT !.ip = ip].base = f.base
                           /\ [f EXCEPT !.ip = ip].ip = ip
    BY DEF FrameType
<1>5. \A i \in 1..Len(frames) :
         /\ Moved(ip)[i].closure = frames[i].closure
         /\ Moved(ip)[i].base = frames[i].base
         /\ i < Len(frames) => Moved(ip)[i] = frames[i]
    <2>1. TAKE i \in 1..Len(frames)
    <2>2. CASE i = Len(frames)
        <3>1. Moved(ip)[i] = [frames[i] EXCEPT !.ip = ip] /\ ~(i < Len(frames))
            BY <1>1, <1>3, <2>2
        <3>2. QED
            BY <1>2, <1>4, <3>1
    <2>3. CASE i # Len(frames)
        BY <1>3, <2>3
    <2>4. QED
        BY <2>2, <2>3
<1>6. Moved(ip)[Len(frames)].ip = ip
    BY <1>1, <1>2, <1>3, <1>4
<1>7. QED
    BY <1>3, <1>5, <1>6

LEMMA HereTyped ==
  ASSUME Sound, Fetch(Op)
  PROVE  /\ Validated(Running)
         /\ Takes(Code, Frame.ip) \in Nat /\ Effect(Code, Frame.ip) \in Int
<1>1. Validated(Running) /\ Running \in Function /\ Frame.ip \in Running.boundaries \ {Len(Code)}
    BY Here, FrameFacts DEF Sound, OnBoundary, Running, Fetch, InRange
<1>2. QED
    BY <1>1, TakesType DEF Code

LEMMA BasesKept ==
  ASSUME Sound, Inside, NEW i \in 1..Len(frames)
  PROVE  /\ frames[i].base < Len(stack')
         /\ frames[i].base < Len(stack) - Takes(Code, Frame.ip)
         /\ stack'[frames[i].base + 1] = stack[frames[i].base + 1]
<1>1. Fetch(Op) /\ StackInside
    BY DEF Inside
<1>2. /\ frames[i].base \in Nat /\ frames[i].base <= Frame.base
      /\ Height \in Nat /\ Frame.base \in Nat /\ Frame.base + Height = Len(stack)
    BY <1>1, Here
<1>3. Takes(Code, Frame.ip) < Height
    BY <1>1, Here DEF DisciplinedAt, Code
<1>4. Takes(Code, Frame.ip) \in Int
    BY <1>1, HereTyped
<1>5. frames[i].base < Len(stack) - Takes(Code, Frame.ip)
    BY SMTT(30), <1>2, <1>3, <1>4
<1>6. Len(stack') \in Nat /\ Len(stack') >= Len(stack) - Takes(Code, Frame.ip)
    BY <1>1 DEF StackInside
<1>7. frames[i].base + 1 \in 1..(Len(stack) - Takes(Code, Frame.ip))
    BY SMTT(30), <1>2, <1>4, <1>5, <1>1, Here
<1>8. stack'[frames[i].base + 1] = stack[frames[i].base + 1]
    BY <1>1, <1>7, WrittenSafe DEF StackInside
<1>9. Len(stack) \in Nat
    BY <1>1, Here
<1>10. QED
    BY <1>2, <1>4, <1>5, <1>6, <1>8, <1>9

LEMMA InsideNested ==
  ASSUME Sound, Inside
  PROVE  Nested'
<1>1. Fetch(Op) /\ FramesInside
    BY DEF Inside
<1>2. PICK ip \in Nat : frames' = Moved(ip)
    BY <1>1 DEF FramesInside
<1>3. /\ Len(frames') = Len(frames)
      /\ \A i \in 1..Len(frames) : /\ frames'[i].base = frames[i].base
                                   /\ frames'[i].closure = frames[i].closure
    BY <1>1, <1>2, MovedFrames
<1>4. Nested
    BY DEF Sound, DInv
<1>5. \A i \in 1..Len(frames') :
         /\ frames'[i].base < Len(stack')
         /\ stack'[frames'[i].base + 1] = ClosureValue(frames'[i].closure)
    BY <1>3, <1>4, BasesKept DEF Nested
<1>6. \A i, j \in 1..Len(frames') : i < j => frames'[i].base < frames'[j].base
    BY <1>3, <1>4 DEF Nested
<1>7. QED
    BY <1>5, <1>6 DEF Nested

LEMMA InsideShaped ==
  ASSUME Sound, Inside, OpenInside, err' = "none"
  PROVE  Shaped'
<1>1. Fetch(Op) /\ FramesInside /\ StackInside /\ program' = program
    BY DEF Inside, setup
<1>2. PICK ip \in Nat : frames' = Moved(ip) /\ ip \in Successors(Code, Frame.ip)
    BY <1>1 DEF FramesInside
<1> DEFINE top == Len(frames)
           last == frames'[top]
           shapes == Shapes(Frame)
           heights == At(shapes.heights, ip)
           captured == At(shapes.captured, ip)
<1>3. /\ Len(frames') = Len(frames) /\ top \in 1..top /\ top \in Nat
      /\ \A i \in 1..Len(frames) : /\ frames'[i].base = frames[i].base
                                   /\ frames'[i].closure = frames[i].closure
                                   /\ i < top => frames'[i] = frames[i]
      /\ last.base = Frame.base /\ last.closure = Frame.closure /\ last.ip = ip
    <2>1. Frame = frames[top] /\ top \in 1..top /\ top \in Nat
        BY <1>1, Here
    <2>2. QED
        BY <1>1, <1>2, <2>1, MovedFrames
<1>4. /\ ip \in Running.boundaries \ {Len(Code)}
      /\ Height + Effect(Code, Frame.ip) \in heights
      /\ CapturedAfter(program, Running, Frame.ip, Height, CapturedOf(Frame)) \subseteq captured
    BY <1>1, <1>2, Here DEF DisciplinedAt, Code, CapturedOf
<1>5. /\ Len(stack') = Len(stack) + Effect(Code, Frame.ip) /\ Len(stack') \in Nat
      /\ Frame.base \in Nat /\ Frame.base + Height = Len(stack) /\ Height \in Nat
      /\ Len(stack) \in Nat
    BY <1>1, Here DEF StackInside
<1>6. Len(stack') - Frame.base \in heights
    <2>1. Effect(Code, Frame.ip) \in Int
        BY <1>1, HereTyped
    <2>2. Height + Effect(Code, Frame.ip) = Len(stack') - Frame.base
        BY SMTT(30), <1>5, <2>1
    <2>3. QED
        BY <1>4, <2>2
<1>7. captured \subseteq 1..(Len(stack') - Frame.base - 1)
    <2>1. DisciplinedAt(program, Running, shapes, ip, Len(stack') - Frame.base)
        BY <1>1, <1>4, <1>6, Here, FrameFacts
           DEF Sound, Disciplined, Functions, Shapes, Running, Code, Fetch, InRange
    <2>2. Takes(Code, ip) \in Nat
        BY <1>1, <1>4, Here, HereTyped, TakesType DEF Code
    <2>3. captured \subseteq
            1..(Len(stack') - Frame.base - 1 - (IF ByteAt(Code, ip) = OpCloseUpvalue
                                                THEN 0 ELSE Takes(Code, ip)))
        BY <2>1 DEF DisciplinedAt, SlotsSafe, Code
    <2>4. QED
        BY <1>5, <2>2, <2>3
<1>8. /\ HeightsOf(frames[Len(frames)])' = heights
      /\ CapturedOf(frames[Len(frames)])' = captured
    BY <1>1, <1>3 DEF HeightsOf, CapturedOf, Shapes
<1>9. \A slot \in DOMAIN open' : slot \in Nat /\ slot < Len(stack')
    <2>1. TAKE slot \in DOMAIN open'
    <2>2. CASE slot < Frame.base
        <3>1. Frame.base < Len(stack')
            BY <1>1, <1>3, Here, BasesKept
        <3>2. QED
            BY <1>5, <2>2, <3>1 DEF OpenInside
    <2>3. CASE slot >= Frame.base
        <3>1. slot - Frame.base \in captured /\ slot \in Nat
            BY <1>4, <2>3 DEF OpenInside
        <3>2. slot - Frame.base \in 1..(Len(stack') - Frame.base - 1)
            BY <1>7, <3>1
        <3>3. QED
            BY <1>5, <3>1, <3>2
    <2>4. slot \in Nat
        BY DEF OpenInside
    <2>5. QED
        BY <1>5, <2>2, <2>3, <2>4
<1>10. ASSUME NEW i \in 1..Len(frames'), i = Len(frames')
       PROVE  /\ frames'[i].ip # Len(program'[frames'[i].closure.fn].code)
              /\ Top(i)' - frames'[i].base \in HeightsOf(frames[i])'
              /\ \A slot \in DOMAIN open' :
                    Within(slot, i)' => slot - frames'[i].base \in CapturedOf(frames[i])'
    <2>1. frames'[i].ip # Len(program'[frames'[i].closure.fn].code)
        BY <1>1, <1>3, <1>4, <1>10 DEF Running, Code
    <2>2. Top(i)' = Len(stack')
        BY <1>10 DEF Top
    <2>3. \A slot \in DOMAIN open' : Within(slot, i)' => slot - Frame.base \in captured
        BY <1>3, <1>4, <1>5, <1>9, <1>10 DEF Within, OpenInside
    <2>4. QED
        BY <1>3, <1>6, <1>8, <1>10, <2>1, <2>2, <2>3
<1>11. ASSUME NEW i \in 1..Len(frames'), i < Len(frames')
       PROVE  /\ frames'[i].ip # Len(program'[frames'[i].closure.fn].code)
              /\ Top(i)' - frames'[i].base \in HeightsOf(frames[i])'
              /\ \A slot \in DOMAIN open' :
                    Within(slot, i)' => slot - frames'[i].base \in CapturedOf(frames[i])'
    <2>1. /\ i \in 1..Len(frames) /\ i < Len(frames) /\ i + 1 \in 1..Len(frames)
          /\ frames'[i] = frames[i] /\ frames'[i + 1].base = frames[i + 1].base
        BY <1>3, <1>11
    <2>2. Top(i)' = Top(i)
        BY <1>3, <2>1 DEF Top
    <2>3. HeightsOf(frames[i])' = HeightsOf(frames[i]) /\ CapturedOf(frames[i])' = CapturedOf(frames[i])
        BY <1>1, <2>1 DEF HeightsOf, CapturedOf, Shapes
    <2>4. \A slot \in DOMAIN open' : Within(slot, i)' => slot \in DOMAIN open /\ Within(slot, i)
        <3>1. TAKE slot \in DOMAIN open'
        <3>2. frames[i + 1].base \in Nat /\ frames[i + 1].base <= Frame.base
            BY <1>1, <2>1, Here
        <3>3. QED
            BY <1>3, <1>5, <1>9, <2>1, <3>2 DEF Within, OpenInside
    <2>5. Shaped
        BY <1>1, Here DEF Sound, DInv
    <2>6. QED
        BY <1>1, <2>1, <2>2, <2>3, <2>4, <2>5 DEF Shaped
<1>12. QED
    <2>1. \A i \in 1..Len(frames') : i = Len(frames') \/ i < Len(frames')
        BY <1>3
    <2>2. QED
        BY <1>9, <1>10, <1>11, <2>1 DEF Shaped

LEMMA FetchExecutes == ASSUME Sound, Fetch(Op) PROVE Executed
BY FetchFacts DEF Fetch, Executed, InRange, Sound, IInv, TypeOK

(* What a step inside a frame keeps of the callers. *)
LEMMA InsideKeepsCaller ==
  ASSUME Sound, Inside
  PROVE  KeepsCallerSlots
<1>1. Fetch(Op) /\ StackInside
    BY DEF Inside
<1>2. SUFFICES ASSUME NEW i \in 1..Frame.base
               PROVE  /\ i <= Len(stack')
                      /\ stack'[i] = stack[i] \/ (Executed /\ Op = OpSetUpvalue)
    BY DEF KeepsCallerSlots
<1>3. /\ Len(frames) \in 1..Len(frames) /\ Frame = frames[Len(frames)]
      /\ Frame.base \in Nat /\ Len(stack) \in Nat
    BY <1>1, Here
<1>4. /\ Frame.base < Len(stack') /\ Frame.base < Len(stack) - Takes(Code, Frame.ip)
      /\ Len(stack') \in Nat /\ Takes(Code, Frame.ip) \in Nat
    BY <1>1, <1>3, BasesKept, HereTyped DEF StackInside
<1>5. stack'[i] = stack[i] \/ Written(i)
    <2>1. i \in 1..(Len(stack) - Takes(Code, Frame.ip))
        BY <1>2, <1>3, <1>4
    <2>2. QED
        BY <1>1, <2>1 DEF StackInside
<1>6. Written(i) => Op = OpSetUpvalue
    <2>1. SUFFICES ASSUME Op = OpSetLocal, i = Slot + 1 PROVE FALSE
        BY DEF Written
    <2>2. Operand \in Nat
        BY <1>1, <2>1, OperandType, OperandSizes DEF Sound
    <2>3. QED
        BY <1>2, <1>3, <2>1, <2>2 DEF Slot
<1>7. Executed
    BY <1>1, FetchExecutes
<1>8. QED
    BY <1>2, <1>3, <1>4, <1>5, <1>6, <1>7

(* An open slot is below what an instruction but CLOSE_UPVALUE takes. *)
LEMMA OpenBelow ==
  ASSUME Sound, Fetch(Op), Op # OpCloseUpvalue, NEW slot \in DOMAIN open
  PROVE  slot \in Nat /\ slot + 1 \in 1..(Len(stack) - Takes(Code, Frame.ip))
<1>1. /\ slot \in Nat /\ Frame.base \in Nat /\ Height \in Nat
      /\ Frame.base + Height = Len(stack) /\ Len(stack) \in Nat
      /\ slot >= Frame.base => slot - Frame.base \in CapturedOf(Frame)
    BY Here
<1>2. Takes(Code, Frame.ip) \in Nat /\ Takes(Code, Frame.ip) < Height
    BY Here, HereTyped DEF DisciplinedAt, Code
<1>3. CapturedOf(Frame) \subseteq 1..(Height - 1 - Takes(Code, Frame.ip))
    BY Here DEF DisciplinedAt, SlotsSafe, CapturedOf, Op, Code
<1>4. slot >= Frame.base => slot - Frame.base <= Height - 1 - Takes(Code, Frame.ip)
    BY <1>1, <1>2, <1>3
<1>5. QED
    BY SMTT(30), <1>1, <1>2, <1>4

(* Open objects and open slots correspond. *)
LEMMA OpenObjects ==
  ASSUME Sound
  PROVE  /\ \A a \in Addresses : a[2] \in Nat /\ a[1] \in Nat /\ a[1] < closures
         /\ closures \in Nat
         /\ \A a \in Addresses :
              upvalues[a].open => a[2] \in DOMAIN open /\ open[a[2]] = a
         /\ \A slot \in DOMAIN open :
              /\ slot \in Nat /\ open[slot] \in Addresses
              /\ open[slot][2] = slot /\ upvalues[open[slot]].open
BY DEF Sound, IInv, TypeOK, DInv, HeapExact

(* A step that assigns to the stack slot of an open object assigns to it. *)
LEMMA WrittenAssigns ==
  ASSUME Sound, Fetch(Op), NEW a \in Addresses, upvalues[a].open, Written(a[2] + 1)
  PROVE  Executed /\ Assigns(a)
<1>1. Executed
    BY FetchExecutes
<1>2. a[2] \in Nat
    BY OpenObjects
<1>3. CASE Op = OpSetLocal /\ a[2] + 1 = Slot + 1
    <2>1. Slot \in Nat
        BY <1>3, SlotType, OperandSizes DEF Sound
    <2>2. QED
        BY <1>1, <1>2, <1>3, <2>1 DEF Assigns
<1>4. CASE /\ Op = OpSetUpvalue /\ Operand < Len(Captured)
           /\ upvalues[Captured[Operand + 1]].open
           /\ a[2] + 1 = Captured[Operand + 1][2] + 1
    <2>1. Captured[Operand + 1] \in Addresses
        BY <1>4, OperandAddress DEF Sound
    <2>2. Captured[Operand + 1][2] = a[2]
        BY <1>2, <1>4, <2>1, OpenObjects
    <2>3. Captured[Operand + 1] = a
        BY <1>4, <2>1, <2>2, OpenObjects
    <2>4. QED
        BY <1>1, <1>4, <2>3 DEF Assigns
<1>5. QED
    BY <1>3, <1>4 DEF Written

(* A step inside a frame that leaves an open object open keeps its value. *)
LEMMA InsideKeepsOpen ==
  ASSUME Sound, Inside, Op # OpCloseUpvalue, NEW a \in Addresses, upvalues[a].open,
         upvalues'[a].open
  PROVE  (Readable(a)' /\ Read(a)' = Read(a)) \/ (Executed /\ Assigns(a))
<1>1. Fetch(Op) /\ StackInside
    BY DEF Inside
<1>2. a[2] \in Nat /\ a[2] + 1 \in 1..(Len(stack) - Takes(Code, Frame.ip))
    BY <1>1, OpenObjects, OpenBelow
<1>3. a[2] < Len(stack')
    BY SMTT(60), <1>1, <1>2, Here, HereTyped DEF StackInside
<1>4. stack'[a[2] + 1] = stack[a[2] + 1] \/ Written(a[2] + 1)
    BY <1>1, <1>2 DEF StackInside
<1>5. QED
    BY <1>1, <1>3, <1>4, WrittenAssigns DEF Readable, Read

(* What a step inside a frame keeps when it leaves the heap alone. *)
LEMMA QuietHeap ==
  ASSUME Sound, Inside, UNCHANGED heap, Op # OpCloseUpvalue
  PROVE  KeepsCaptured /\ OpenInside /\ HeapExact'
<1>1. Fetch(Op) /\ StackInside
    BY DEF Inside
<1>2. open' = open /\ upvalues' = upvalues /\ closures' = closures
    BY DEF heap
<1>3. HeapExact'
    BY <1>2 DEF Sound, DInv, HeapExact, Addresses
<1>4. OpenInside
    <2>1. CapturedOf(Frame)
            \subseteq CapturedAfter(program, Running, Frame.ip, Height, CapturedOf(Frame))
        BY DEF CapturedAfter, Op, Code
    <2>2. QED
        BY <1>1, <1>2, <2>1, Here DEF OpenInside
<1>5. KeepsCaptured
    <2>1. SUFFICES ASSUME NEW a \in Addresses, Readable(a)
                   PROVE  \/ Readable(a)' /\ Read(a)' = Read(a)
                          \/ Executed /\ Assigns(a)
        BY DEF KeepsCaptured
    <2>2. CASE upvalues[a].open
        BY <1>2, <2>2, InsideKeepsOpen
    <2>3. CASE ~upvalues[a].open
        BY <1>2, <2>3 DEF Readable, Read
    <2>4. QED
        BY <2>2, <2>3
<1>6. QED
    BY <1>3, <1>4, <1>5

(* What is to be shown of a step. *)
Kept == DInv' /\ KeepsCaptured /\ KeepsCallerSlots

LEMMA InsideKept ==
  ASSUME Sound, Inside, OpenInside, AllMade', HeapExact', KeepsCaptured
  PROVE  Kept
<1>1. Untouched' /\ err' \notin Internal
    BY Here DEF Inside, setup, StackInside, Untouched
<1>2. Underway'
    <2>1. PICK ip \in Nat : frames' = Moved(ip)
        BY DEF Inside, FramesInside
    <2>2. Len(frames') = Len(frames) /\ Len(frames) \in Nat \ {0}
        BY <2>1, Here, MovedFrames DEF Inside
    <2>3. QED
        BY <2>2 DEF Underway
<1>3. QED
    BY <1>1, <1>2, InsideNested, InsideShaped, InsideKeepsCaller DEF Kept, DInv

LEMMA QuietKept ==
  ASSUME Sound, Inside, UNCHANGED heap, Op # OpCloseUpvalue, AllMade'
  PROVE  Kept
BY InsideKept, QuietHeap

-----------------------------------------------------------------------------
(* What the instructions take and leave. *)
Pushing ==
  {OpConstant, OpNil, OpTrue, OpFalse, OpDup, OpGetLocal, OpGetGlobal, OpGetUpvalue, OpClosure}
Dropping == {OpPop, OpDefineGlobal, OpPrint, OpCloseUpvalue}
Replacing == {OpNot, OpNegate}
Combining ==
  {OpEqual, OpGreater, OpLess, OpAdd, OpSubtract, OpMultiply, OpDivide}
Level == {OpSetLocal, OpSetGlobal, OpSetUpvalue, OpJump, OpJumpIfFalse, OpLoop}

LEMMA Sizes ==
  ASSUME NEW code, NEW o
  PROVE  /\ ByteAt(code, o) \in Pushing => Takes(code, o) = 0 /\ Effect(code, o) = 1
         /\ ByteAt(code, o) \in Dropping => Takes(code, o) = 1 /\ Effect(code, o) = -1
         /\ ByteAt(code, o) \in Replacing => Takes(code, o) = 1 /\ Effect(code, o) = 0
         /\ ByteAt(code, o) \in Combining => Takes(code, o) = 2 /\ Effect(code, o) = -1
         /\ ByteAt(code, o) \in Level => Takes(code, o) = 0 /\ Effect(code, o) = 0
         /\ ByteAt(code, o) = OpCall =>
              /\ Takes(code, o) = ByteAt(code, o + 1) + 1
              /\ Effect(code, o) = -ByteAt(code, o + 1)
         /\ ByteAt(code, o) = OpReturn => Takes(code, o) = 1
BY DEF Takes, Effect, StackEffect, Pushing, Dropping, Replacing, Combining, Level,
       OpConstant, OpNil, OpTrue, OpFalse, OpPop, OpDup, OpGetLocal, OpSetLocal,
       OpGetGlobal, OpDefineGlobal, OpSetGlobal, OpGetUpvalue, OpSetUpvalue, OpEqual,
       OpGreater, OpLess, OpAdd, OpSubtract, OpMultiply, OpDivide, OpNot, OpNegate,
       OpPrint, OpJump, OpJumpIfFalse, OpLoop, OpCall, OpClosure, OpCloseUpvalue, OpReturn

Inner == Pushing \cup Dropping \cup Replacing \cup Combining \cup Level \cup {OpCall}

(* The next instruction follows every instruction but a jump and RETURN. *)
LEMMA Follows ==
  ASSUME NEW code, NEW o \in Nat
  PROVE  /\ ByteAt(code, o) \in Inner \ {OpJump, OpLoop} =>
              o + 1 + OperandBytes(ByteAt(code, o)) \in Successors(code, o)
         /\ ByteAt(code, o) \in {OpJump, OpJumpIfFalse, OpLoop} =>
              JumpTarget(code, o) \in Successors(code, o)
<1>1. CASE ByteAt(code, o) \in {OpJump, OpJumpIfFalse, OpLoop}
    <2>1. OperandBytes(OpJumpIfFalse) = 2
        BY DEF OperandBytes, IsJump
    <2>2. OpJumpIfFalse \notin {OpJump, OpLoop, OpReturn} /\ OpReturn \notin {OpJump, OpLoop}
        BY DEF OpJump, OpJumpIfFalse, OpLoop, OpReturn
    <2>3. QED
        BY <1>1, <2>1, <2>2 DEF Successors
<1>2. CASE ByteAt(code, o) \notin {OpJump, OpJumpIfFalse, OpLoop}
    <2>1. OpReturn \notin Inner
        BY DEF Inner, Pushing, Dropping, Replacing, Combining, Level,
               OpConstant, OpNil, OpTrue, OpFalse, OpPop, OpDup, OpGetLocal, OpSetLocal,
               OpGetGlobal, OpDefineGlobal, OpSetGlobal, OpGetUpvalue, OpSetUpvalue,
               OpEqual, OpGreater, OpLess, OpAdd, OpSubtract, OpMultiply, OpDivide,
               OpNot, OpNegate, OpPrint, OpJump, OpJumpIfFalse, OpLoop, OpCall,
               OpClosure, OpCloseUpvalue, OpReturn
    <2>2. QED
        BY <1>2, <2>1 DEF Successors
<1>3. QED
    BY <1>1, <1>2

LEMMA AdvanceInside ==
  ASSUME Sound, Fetch(Op), Op \in Inner \ {OpJump, OpLoop}, Advance
  PROVE  FramesInside
<1>1. Frame.ip \in Nat /\ NextIP \in Nat
    BY Here, FetchFacts DEF Sound, Function
<1>2. NextIP \in Successors(Code, Frame.ip)
    BY <1>1, Follows DEF NextIP, Op, Code
<1>3. QED
    BY <1>1, <1>2 DEF Advance, Goto, Moved, FramesInside

(* The stack without what the instruction takes. *)
Rest(s) ==
  /\ s \in Seq(Val) /\ Len(s) = Len(stack) - Takes(Code, Frame.ip)
  /\ \A i \in 1..Len(s) : s[i] = stack[i]

LEMMA RestOfStack ==
  ASSUME Sound, Fetch(Op)
  PROVE  /\ \A n \in Nat : Takes(Code, Frame.ip) = n => Rest(Popped(n))
         /\ Takes(Code, Frame.ip) = 0 => Rest(stack)
         /\ Takes(Code, Frame.ip) + 1 <= Len(stack) /\ stack # <<>>
<1>1. /\ stack \in Seq(Val) /\ Len(stack) \in Nat
      /\ Takes(Code, Frame.ip) \in Nat /\ Takes(Code, Frame.ip) < Height
      /\ Frame.base \in Nat /\ Frame.base + Height = Len(stack) /\ Height \in Nat
    BY Here, HereTyped, Numeric DEF Sound, DisciplinedAt, Code
<1>2. Takes(Code, Frame.ip) + 1 <= Len(stack) /\ stack # <<>>
    BY <1>1
<1>3. ASSUME NEW n \in Nat, Takes(Code, Frame.ip) = n
      PROVE  Rest(Popped(n))
    <2>1. Len(stack) - n \in 0..Len(stack)
        BY <1>1, <1>2, <1>3
    <2>2. QED
        BY <1>1, <1>3, <2>1 DEF Popped, Rest
<1>4. Takes(Code, Frame.ip) = 0 => Rest(stack)
    BY <1>1 DEF Rest
<1>5. QED
    BY <1>2, <1>3, <1>4

StackMade == \A i \in 1..Len(stack') : WellMade(stack'[i])

LEMMA RestInside ==
  ASSUME Sound, Fetch(Op), NEW s, Rest(s), stack' = s, err' \notin Internal,
         err' = "none" => Takes(Code, Frame.ip) + Effect(Code, Frame.ip) = 0
  PROVE  StackInside /\ StackMade
<1>1. Len(stack) \in Nat /\ Takes(Code, Frame.ip) \in Nat
    BY Here, HereTyped
<1>2. /\ Len(s) \in Nat /\ Len(s) = Len(stack) - Takes(Code, Frame.ip)
      /\ \A i \in 1..Len(s) : s[i] = stack[i]
    BY DEF Rest
<1>3. \A i \in 1..Len(s) : i \in 1..Len(stack)
    BY <1>1, <1>2
<1>4. \A i \in 1..Len(s) : WellMade(s[i])
    BY <1>2, <1>3 DEF Sound, DInv, AllMade
<1>5. err' = "none" => Len(stack') = Len(stack) + Effect(Code, Frame.ip)
    <2>1. Effect(Code, Frame.ip) \in Int
        BY HereTyped
    <2>2. QED
        BY <1>1, <1>2, <2>1
<1>6. QED
    BY <1>1, <1>2, <1>4, <1>5 DEF StackInside, StackMade

LEMMA PushInside ==
  ASSUME Sound, Fetch(Op), NEW s, Rest(s), NEW v, WellMade(v), Push(s, v),
         Effect(Code, Frame.ip) = 1 - Takes(Code, Frame.ip)
  PROVE  StackInside /\ StackMade
<1>1. Len(stack) \in Nat /\ Takes(Code, Frame.ip) \in Nat
    BY Here, HereTyped
<1>2. /\ Len(s) \in Nat /\ Len(s) = Len(stack) - Takes(Code, Frame.ip)
      /\ \A i \in 1..Len(s) : s[i] = stack[i]
    BY DEF Rest
<1>3. CASE Len(s) >= limits.maxStack
    <2>1. stack' = s /\ err' = "stack_overflow"
        BY <1>3 DEF Push, Outcome
    <2>2. QED
        BY <2>1, RestInside DEF Internal
<1>4. CASE ~(Len(s) >= limits.maxStack)
    <2>1. stack' = Append(s, v) /\ err' = "none"
        BY <1>4 DEF Push, Keep, Outcome
    <2>2. Len(stack') = Len(s) + 1 /\ stack'[Len(s) + 1] = v
          /\ \A i \in 1..Len(s) : stack'[i] = s[i]
        BY <1>2, <2>1 DEF Rest
    <2>3. \A i \in 1..Len(s) : WellMade(s[i])
        <3>1. \A i \in 1..Len(s) : i \in 1..Len(stack)
            BY <1>1, <1>2
        <3>2. QED
            BY <1>2, <3>1 DEF Sound, DInv, AllMade
    <2>4. StackMade
        <3>1. \A i \in 1..Len(stack') : i \in 1..Len(s) \/ i = Len(s) + 1
            BY <1>2, <2>2
        <3>2. QED
            BY <2>2, <2>3, <3>1 DEF StackMade
    <2>5. StackInside
        BY <1>1, <1>2, <2>1, <2>2 DEF StackInside, Internal
    <2>6. QED
        BY <2>4, <2>5
<1>5. QED
    BY <1>3, <1>4

(* The values made so far stay well made. *)
LEMMA MadeKept ==
  ASSUME Sound, program' = program, StackMade, UNCHANGED <<globals, upvalues>>
  PROVE  AllMade'
BY DEF Sound, DInv, AllMade, StackMade, WellMade, Addresses

(* A step that advances and changes nothing but the stack. *)
LEMMA StackOpKept ==
  ASSUME Sound, NEW op \in Inner \ {OpJump, OpLoop, OpCloseUpvalue},
         Fetch(op), Advance, UNCHANGED <<setup, globals, heap>>, StackInside, StackMade
  PROVE  Kept
<1>1. Op = op /\ Fetch(Op)
    BY DEF Fetch
<1>2. Inside
    BY <1>1, AdvanceInside DEF Inside
<1>3. AllMade'
    BY MadeKept DEF setup, heap
<1>4. QED
    BY <1>1, <1>2, <1>3, QuietKept

LEMMA InnerOps ==
  Pushing \cup Replacing \cup Combining \cup (Dropping \ {OpCloseUpvalue})
    \cup (Level \ {OpJump, OpLoop}) \cup {OpCall}
    \subseteq Inner \ {OpJump, OpLoop, OpCloseUpvalue}
BY SMTT(30) DEF Inner, Pushing, Dropping, Replacing, Combining, Level,
       OpConstant, OpNil, OpTrue, OpFalse, OpPop, OpDup, OpGetLocal, OpSetLocal,
       OpGetGlobal, OpDefineGlobal, OpSetGlobal, OpGetUpvalue, OpSetUpvalue,
       OpEqual, OpGreater, OpLess, OpAdd, OpSubtract, OpMultiply, OpDivide,
       OpNot, OpNegate, OpPrint, OpJump, OpJumpIfFalse, OpLoop, OpCall,
       OpClosure, OpCloseUpvalue, OpReturn

(* What the instruction refers to is there. *)
LEMMA HereRefers ==
  ASSUME Sound, NEW op, Fetch(op)
  PROVE  /\ Op = op /\ Fetch(Op) /\ stack # <<>> /\ 1 \in 1..Len(stack)
         /\ op \in {OpGetLocal, OpSetLocal} => Operand \in 1..(Height - 1)
         /\ op \in {OpGetUpvalue, OpSetUpvalue} => Operand < Len(Running.upvalues)
         /\ op \in {OpGetGlobal, OpSetGlobal, OpDefineGlobal} => IsString(Constant)
         /\ op = OpConstant => Constant[1] # "function"
         /\ op = OpClosure =>
              /\ Constant[1] = "function"
              /\ \A i \in DOMAIN program[Constant[2]].upvalues :
                   LET spec == program[Constant[2]].upvalues[i]
                   IN IF spec.isLocal THEN spec.index \in 1..Height
                      ELSE spec.index < Len(Running.upvalues)
<1>1. Op = op /\ Fetch(Op)
    BY DEF Fetch
<1>2. stack # <<>> /\ 1 \in 1..Len(stack)
    BY <1>1, RestOfStack, Here
<1>3. RefersWell(program, Running, Frame.ip, Height)
    BY <1>1, Here DEF DisciplinedAt
<1>4. Constant = ConstantAt(Running, Frame.ip)
    BY DEF Constant, ConstantAt, Operand
<1>5. QED
    BY <1>1, <1>2, <1>3, <1>4 DEF RefersWell, Op, Operand

(* The values on the stack are well made, and so is any but a closure. *)
LEMMA Made ==
  ASSUME Sound
  PROVE  /\ \A i \in 1..Len(stack) : WellMade(stack[i])
         /\ \A v \in Literal : WellMade(v)
         /\ WellMade(Nil) /\ \A x : WellMade(Bool(x)) /\ WellMade(Number(x)) /\ WellMade(String(x))
         /\ stack # <<>> => WellMade(Peek(0))
<1>1. \A i \in 1..Len(stack) : WellMade(stack[i])
    BY DEF Sound, DInv, AllMade
<1>2. stack # <<>> => Len(stack) - 0 \in 1..Len(stack)
    BY Numeric DEF Sound
<1>3. QED
    BY <1>1, <1>2 DEF WellMade, IsClosure, TypeName, Literal, Nil, Bool, Number, String, Peek

LEMMA StackOpParts ==
  ASSUME NEW op, StackOp(op)
  PROVE  Fetch(op) /\ Advance /\ UNCHANGED <<setup, globals, heap>>
BY DEF StackOp

LEMMA PushStackKept ==
  ASSUME Sound, NEW op \in Pushing \ {OpClosure}, Fetch(op), Advance,
         UNCHANGED <<setup, globals, heap>>, NEW v, WellMade(v), Push(stack, v)
  PROVE  Kept
<1>1. Op = op /\ Fetch(Op)
    BY DEF Fetch
<1>2. Takes(Code, Frame.ip) = 0 /\ Effect(Code, Frame.ip) = 1
    BY <1>1, Sizes DEF Op, Code
<1>3. StackInside /\ StackMade
    BY <1>1, <1>2, RestOfStack, PushInside
<1>4. QED
    BY <1>3, InnerOps, StackOpKept

LEMMA PushesKept == Sound /\ (PushConstant \/ PushNil \/ PushTrue \/ PushFalse \/ Dup) => Kept
<1> SUFFICES ASSUME Sound, PushConstant \/ PushNil \/ PushTrue \/ PushFalse \/ Dup PROVE Kept
    OBVIOUS
<1>1. {OpConstant, OpNil, OpTrue, OpFalse, OpDup} \subseteq Pushing \ {OpClosure}
    BY DEF Pushing, OpConstant, OpNil, OpTrue, OpFalse, OpDup, OpClosure
<1>2. CASE PushConstant
    <2>1. Fetch(OpConstant) /\ StackOp(OpConstant)
        BY <1>2, StackOpParts DEF PushConstant
    <2>2. Constant[1] # "function" /\ Constant \in Literal
        BY <2>1, HereRefers, ConstantType, OperandSizes DEF Sound
    <2>3. Push(stack, Constant)
        BY <1>2, <2>2 DEF PushConstant
    <2>4. QED
        BY <1>1, <2>1, <2>2, <2>3, Made, StackOpParts, PushStackKept
<1>3. CASE PushNil
    BY <1>1, <1>3, Made, StackOpParts, PushStackKept DEF PushNil
<1>4. CASE PushTrue
    BY <1>1, <1>4, Made, StackOpParts, PushStackKept DEF PushTrue
<1>5. CASE PushFalse
    BY <1>1, <1>5, Made, StackOpParts, PushStackKept DEF PushFalse
<1>6. CASE Dup
    <2>1. StackOp(OpDup) /\ Fetch(OpDup)
        BY <1>6, StackOpParts DEF Dup
    <2>2. stack # <<>>
        BY <2>1, HereRefers
    <2>3. Push(stack, Peek(0))
        BY <1>6, <2>2 DEF Dup
    <2>4. QED
        BY <1>1, <2>1, <2>2, <2>3, Made, StackOpParts, PushStackKept
<1>7. QED
    BY <1>2, <1>3, <1>4, <1>5, <1>6

LEMMA PopKept == Sound /\ Pop => Kept
<1> SUFFICES ASSUME Sound, Pop PROVE Kept
    OBVIOUS
<1>1. StackOp(OpPop) /\ Fetch(OpPop) /\ Fetch(Op) /\ Op = OpPop /\ stack # <<>>
    BY StackOpParts, HereRefers DEF Pop
<1>2. Takes(Code, Frame.ip) = 1 /\ Effect(Code, Frame.ip) = -1
    BY <1>1, Sizes DEF Op, Code, Dropping
<1>3. stack' = Popped(1) /\ err' = "none"
    BY <1>1 DEF Pop, Keep, Outcome
<1>4. StackInside /\ StackMade
    BY <1>1, <1>2, <1>3, RestOfStack, RestInside DEF Internal
<1>5. OpPop \in Inner \ {OpJump, OpLoop, OpCloseUpvalue}
    BY InnerOps DEF Dropping, OpPop, OpCloseUpvalue
<1>6. QED
    BY <1>1, <1>4, <1>5, StackOpParts, StackOpKept

LEMMA GetLocalKept == Sound /\ GetLocal => Kept
<1> SUFFICES ASSUME Sound, GetLocal PROVE Kept
    OBVIOUS
<1>1. StackOp(OpGetLocal) /\ Fetch(OpGetLocal) /\ Fetch(Op) /\ Operand \in 1..(Height - 1)
    BY StackOpParts, HereRefers DEF GetLocal
<1>2. Slot + 1 \in 1..Len(stack) /\ ~(Slot >= Len(stack))
    <2>1. Height \in Nat /\ Frame.base \in Nat /\ Frame.base + Height = Len(stack)
        BY <1>1, Here
    <2>2. QED
        BY <1>1, <2>1 DEF Slot
<1>3. Push(stack, stack[Slot + 1]) /\ WellMade(stack[Slot + 1])
    BY <1>2, Made DEF GetLocal
<1>4. OpGetLocal \in Pushing \ {OpClosure}
    BY DEF Pushing, OpGetLocal, OpClosure
<1>5. QED
    BY <1>1, <1>3, <1>4, StackOpParts, PushStackKept

LEMMA AssignInside ==
  ASSUME Sound, Fetch(Op), Op \in Level, NEW i \in 1..Len(stack), NEW v, WellMade(v),
         Written(i), Keep([stack EXCEPT ![i] = v])
  PROVE  StackInside /\ StackMade
<1>1. Takes(Code, Frame.ip) = 0 /\ Effect(Code, Frame.ip) = 0
    BY Sizes DEF Op, Code
<1>2. stack' = [stack EXCEPT ![i] = v] /\ err' = "none"
    BY DEF Keep, Outcome
<1>3. stack \in Seq(Val) /\ Len(stack) \in Nat
    BY Numeric DEF Sound
<1>4. /\ Len(stack') = Len(stack)
      /\ \A j \in 1..Len(stack) : stack'[j] = IF j = i THEN v ELSE stack[j]
    BY <1>2, <1>3
<1>5. StackMade
    BY <1>4, Made DEF StackMade
<1>6. StackInside
    BY <1>1, <1>2, <1>3, <1>4 DEF StackInside, Internal
<1>7. QED
    BY <1>5, <1>6

(* A step that leaves the stack as it is. *)
LEMMA SameInside ==
  ASSUME Sound, Fetch(Op), Op \in Level, stack' = stack, err' \notin Internal
  PROVE  StackInside /\ StackMade
<1>1. Takes(Code, Frame.ip) = 0 /\ Effect(Code, Frame.ip) = 0
    BY Sizes DEF Op, Code
<1>2. Rest(stack)
    BY <1>1, RestOfStack
<1>3. Takes(Code, Frame.ip) + Effect(Code, Frame.ip) = 0
    BY <1>1
<1>4. QED
    BY <1>2, <1>3, RestInside

LEMMA SetLocalKept == Sound /\ SetLocal => Kept
<1> SUFFICES ASSUME Sound, SetLocal PROVE Kept
    OBVIOUS
<1>1. /\ StackOp(OpSetLocal) /\ Fetch(OpSetLocal) /\ Fetch(Op) /\ Op = OpSetLocal
      /\ Operand \in 1..(Height - 1) /\ stack # <<>>
    BY StackOpParts, HereRefers DEF SetLocal
<1>2. Slot + 1 \in 1..Len(stack) /\ ~(Slot >= Len(stack))
    <2>1. Height \in Nat /\ Frame.base \in Nat /\ Frame.base + Height = Len(stack)
        BY <1>1, Here
    <2>2. QED
        BY <1>1, <2>1 DEF Slot
<1>3. Keep([stack EXCEPT ![Slot + 1] = Peek(0)]) /\ Written(Slot + 1) /\ WellMade(Peek(0))
    BY <1>1, <1>2, Made DEF SetLocal, Written
<1>4. OpSetLocal \in Level /\ OpSetLocal \in Inner \ {OpJump, OpLoop, OpCloseUpvalue}
    BY InnerOps DEF Level, OpSetLocal, OpJump, OpLoop
<1>5. StackInside /\ StackMade
    BY <1>1, <1>2, <1>3, <1>4, AssignInside
<1>6. QED
    BY <1>1, <1>4, <1>5, StackOpParts, StackOpKept

(* The closure that runs has the upvalues of its function. *)
LEMMA CapturedLength ==
  ASSUME Sound, Fetch(Op)
  PROVE  Len(Captured) = Len(Running.upvalues)
<1>1. /\ Frame = frames[Len(frames)] /\ Len(frames) \in 1..Len(frames)
      /\ Frame.base \in Nat /\ Len(stack) \in Nat
    BY Here
<1>2. Frame.base + 1 \in 1..Len(stack) /\ stack[Frame.base + 1] = ClosureValue(Frame.closure)
    BY <1>1 DEF Sound, DInv, Nested
<1>3. WellMade(ClosureValue(Frame.closure))
    BY <1>2, Made
<1>4. QED
    BY <1>3 DEF WellMade, ClosureValue, IsClosure, TypeName, Captured, Running

(* Every upvalue object can be read, and holds a well-made value. *)
LEMMA AllReadable ==
  ASSUME Sound, err = "none", NEW a \in Addresses
  PROVE  Readable(a) /\ WellMade(Read(a))
<1>1. a[2] \in Nat /\ Len(stack) \in Nat
    BY OpenObjects, Numeric DEF Sound
<1>2. upvalues[a].open => a[2] < Len(stack)
    BY OpenObjects DEF Sound, DInv, Shaped
<1>3. upvalues[a].open => a[2] + 1 \in 1..Len(stack)
    BY <1>1, <1>2
<1>4. QED
    BY <1>2, <1>3, Made DEF Readable, Read, Sound, DInv, AllMade

LEMMA UpvalueHere ==
  ASSUME Sound, NEW op \in {OpGetUpvalue, OpSetUpvalue}, Fetch(op)
  PROVE  /\ Operand < Len(Captured) /\ ~(Operand >= Len(Captured))
         /\ Captured[Operand + 1] \in Addresses
         /\ Readable(Captured[Operand + 1]) /\ WellMade(Read(Captured[Operand + 1]))
<1>1. Fetch(Op) /\ err = "none" /\ Operand < Len(Running.upvalues) /\ Operand \in Nat
    BY HereRefers, FetchFacts, OperandType, OperandSizes DEF Sound
<1>2. Operand < Len(Captured) /\ Len(Captured) \in Nat
    BY <1>1, CapturedLength, CapturedType DEF Sound, Fetch, InRange
<1>3. Captured[Operand + 1] \in Addresses
    BY <1>2, OperandAddress DEF Sound
<1>4. QED
    BY <1>1, <1>2, <1>3, AllReadable

LEMMA GetUpvalueKept == Sound /\ GetUpvalue => Kept
<1> SUFFICES ASSUME Sound, GetUpvalue PROVE Kept
    OBVIOUS
<1>1. StackOp(OpGetUpvalue) /\ Fetch(OpGetUpvalue)
    BY StackOpParts DEF GetUpvalue
<1>2. Push(stack, Read(Captured[Operand + 1])) /\ WellMade(Read(Captured[Operand + 1]))
    BY <1>1, UpvalueHere DEF GetUpvalue
<1>3. OpGetUpvalue \in Pushing \ {OpClosure}
    BY DEF Pushing, OpGetUpvalue, OpClosure
<1>4. QED
    BY <1>1, <1>2, <1>3, StackOpParts, PushStackKept

LEMMA SetUpvalueKept == Sound /\ SetUpvalue => Kept
<1> SUFFICES ASSUME Sound, SetUpvalue PROVE Kept
    OBVIOUS
<1> DEFINE b == Captured[Operand + 1]
<1>1. /\ Fetch(OpSetUpvalue) /\ Fetch(Op) /\ Op = OpSetUpvalue /\ Advance /\ stack # <<>>
      /\ UNCHANGED <<setup, globals, closures, open>>
    BY HereRefers DEF SetUpvalue
<1>2. Operand < Len(Captured) /\ b \in Addresses /\ Readable(b)
    BY <1>1, UpvalueHere
<1>3. Assign(b, Peek(0)) /\ WellMade(Peek(0))
    BY <1>1, <1>2, Made DEF SetUpvalue
<1>4. OpSetUpvalue \in Level /\ OpSetUpvalue \in Inner \ {OpJump, OpLoop, OpCloseUpvalue}
    BY InnerOps DEF Level, OpSetUpvalue, OpJump, OpLoop
<1>5. CASE upvalues[b].open
    <2>1. Keep([stack EXCEPT ![b[2] + 1] = Peek(0)]) /\ UNCHANGED upvalues
        BY <1>3, <1>5 DEF Assign
    <2>2. b[2] + 1 \in 1..Len(stack)
        BY <1>2, <1>5, ReadType DEF Sound
    <2>3. Written(b[2] + 1)
        BY <1>1, <1>2, <1>5 DEF Written
    <2>4. StackInside /\ StackMade
        BY <1>1, <1>3, <1>4, <2>1, <2>2, <2>3, AssignInside
    <2>5. QED
        BY <1>1, <1>4, <2>1, <2>4, StackOpKept DEF heap
<1>6. CASE ~upvalues[b].open
    <2>1. stack' = stack /\ err' = "none"
          /\ upvalues' = [upvalues EXCEPT ![b].closed = Peek(0)]
        BY <1>3, <1>6 DEF Assign, Keep, Outcome
    <2>2. /\ Addresses' = Addresses /\ program' = program
          /\ \A a \in Addresses :
               /\ upvalues'[a].open = upvalues[a].open
               /\ a # b => upvalues'[a] = upvalues[a]
               /\ upvalues'[a].closed = IF a = b THEN Peek(0) ELSE upvalues[a].closed
        <3>1. \A a \in Addresses : upvalues[a] \in [open: BOOLEAN, closed: Val]
            BY DEF Sound, IInv, TypeOK
        <3>2. QED
            BY <1>1, <2>1, <3>1 DEF Addresses, setup
    <2>3. StackInside /\ StackMade
        BY <1>1, <1>4, <2>1, SameInside DEF Internal
    <2>4. Inside
        BY <1>1, <1>4, <2>3, AdvanceInside DEF Inside
    <2>5. AllMade'
        BY <1>1, <1>3, <2>2, <2>3 DEF AllMade, StackMade, WellMade, Sound, DInv
    <2>6. HeapExact'
        BY <1>1, <2>2, OpenObjects DEF HeapExact
    <2>7. OpenInside
        <3>1. CapturedOf(Frame)
                \subseteq CapturedAfter(program, Running, Frame.ip, Height, CapturedOf(Frame))
            BY <1>1, <1>4 DEF CapturedAfter, Op, Code
        <3>2. QED
            BY <1>1, <3>1, Here DEF OpenInside
    <2>8. KeepsCaptured
        <3>1. SUFFICES ASSUME NEW a \in Addresses, Readable(a)
                       PROVE  \/ Readable(a)' /\ Read(a)' = Read(a)
                              \/ Executed /\ Assigns(a)
            BY DEF KeepsCaptured
        <3>2. CASE a = b
            BY <1>1, <3>2, FetchExecutes DEF Assigns
        <3>3. CASE a # b
            BY <2>1, <2>2, <3>1, <3>3 DEF Readable, Read
        <3>4. QED
            BY <3>2, <3>3
    <2>9. QED
        BY <2>4, <2>5, <2>6, <2>7, <2>8, InsideKept
<1>7. QED
    BY <1>5, <1>6

LEMMA GlobalOpParts ==
  ASSUME NEW op, GlobalOp(op)
  PROVE  Fetch(op) /\ Advance /\ UNCHANGED <<setup, heap>>
BY DEF GlobalOp

(* A global that is bound to a well-made value. *)
LEMMA BindMade ==
  ASSUME Sound, NEW v, WellMade(v), BindGlobal(v), program' = program, StackMade,
         UNCHANGED upvalues
  PROVE  AllMade'
<1>1. \A name \in DOMAIN globals' :
         globals'[name] = v \/ (name \in DOMAIN globals /\ globals'[name] = globals[name])
    BY DEF BindGlobal
<1>2. \A name \in DOMAIN globals' : WellMade(globals'[name])
    BY <1>1 DEF Sound, DInv, AllMade
<1>3. QED
    BY <1>2 DEF Sound, DInv, AllMade, StackMade, WellMade, Addresses

(* As StackOpKept, for an instruction that may bind a global. *)
LEMMA GlobalKept ==
  ASSUME Sound, NEW op \in Inner \ {OpJump, OpLoop, OpCloseUpvalue},
         Fetch(op), Advance, UNCHANGED <<setup, heap>>, StackInside, AllMade'
  PROVE  Kept
<1>1. Op = op /\ Fetch(Op)
    BY DEF Fetch
<1>2. Inside
    BY <1>1, AdvanceInside DEF Inside
<1>3. QED
    BY <1>1, <1>2, QuietKept

(* A step that fails before it changes the stack. *)
LEMMA FailInside ==
  ASSUME Sound, Fetch(Op), NEW e, Fail(e), e \notin Internal, e # "none"
  PROVE  StackInside /\ StackMade
<1>1. stack' = stack /\ err' = e
    BY DEF Fail, Outcome
<1>2. Len(stack) \in Nat /\ Takes(Code, Frame.ip) \in Nat
    BY Here, HereTyped
<1>3. StackInside
    BY <1>1, <1>2 DEF StackInside
<1>4. StackMade
    BY <1>1, Made DEF StackMade
<1>5. QED
    BY <1>3, <1>4

LEMMA GetGlobalKept == Sound /\ GetGlobal => Kept
<1> SUFFICES ASSUME Sound, GetGlobal PROVE Kept
    OBVIOUS
<1>1. /\ GlobalOp(OpGetGlobal) /\ Fetch(OpGetGlobal) /\ Fetch(Op) /\ Op = OpGetGlobal
      /\ Advance /\ UNCHANGED <<setup, heap>> /\ UNCHANGED globals /\ IsString(Constant)
    BY GlobalOpParts, HereRefers DEF GetGlobal
<1>2. OpGetGlobal \in Pushing \ {OpClosure}
    BY DEF Pushing, OpGetGlobal, OpClosure
<1>3. CASE Defined
    <2>1. Push(stack, globals[Constant[2]])
        BY <1>1, <1>3 DEF GetGlobal
    <2>2. WellMade(globals[Constant[2]])
        BY <1>3 DEF Defined, Sound, DInv, AllMade
    <2>3. QED
        BY <1>1, <1>2, <2>1, <2>2, PushStackKept
<1>4. CASE ~Defined
    <2>1. Fail("undefined_variable")
        BY <1>1, <1>4 DEF GetGlobal
    <2>2. StackInside /\ StackMade
        BY <1>1, <2>1, FailInside DEF Internal
    <2>3. QED
        BY <1>1, <1>2, <2>2, InnerOps, StackOpKept
<1>5. QED
    BY <1>3, <1>4

LEMMA DefineGlobalKept == Sound /\ DefineGlobal => Kept
<1> SUFFICES ASSUME Sound, DefineGlobal PROVE Kept
    OBVIOUS
<1>1. /\ GlobalOp(OpDefineGlobal) /\ Fetch(OpDefineGlobal) /\ Fetch(Op) /\ Op = OpDefineGlobal
      /\ Advance /\ UNCHANGED <<setup, heap>> /\ IsString(Constant) /\ stack # <<>>
    BY GlobalOpParts, HereRefers DEF DefineGlobal
<1>2. OpDefineGlobal \in Dropping \ {OpCloseUpvalue}
    BY DEF Dropping, OpDefineGlobal, OpCloseUpvalue
<1>3. CASE ~Defined
    <2>1. BindGlobal(Peek(0)) /\ stack' = Popped(1) /\ err' = "none"
        BY <1>1, <1>3 DEF DefineGlobal, Keep, Outcome
    <2>2. Rest(Popped(1)) /\ Takes(Code, Frame.ip) + Effect(Code, Frame.ip) = 0
        BY <1>1, <1>2, Sizes, RestOfStack DEF Op, Code
    <2>3. StackInside /\ StackMade
        BY <1>1, <2>1, <2>2, RestInside DEF Internal
    <2>4. AllMade'
        BY <1>1, <2>1, <2>3, Made, BindMade DEF setup, heap
    <2>5. QED
        BY <1>1, <1>2, <2>3, <2>4, InnerOps, GlobalKept
<1>4. CASE Defined
    <2>1. Fail("already_defined") /\ UNCHANGED globals
        BY <1>1, <1>4 DEF DefineGlobal
    <2>2. StackInside /\ StackMade
        BY <1>1, <2>1, FailInside DEF Internal
    <2>3. QED
        BY <1>1, <1>2, <2>1, <2>2, InnerOps, StackOpKept
<1>5. QED
    BY <1>3, <1>4

LEMMA SetGlobalKept == Sound /\ SetGlobal => Kept
<1> SUFFICES ASSUME Sound, SetGlobal PROVE Kept
    OBVIOUS
<1>1. /\ GlobalOp(OpSetGlobal) /\ Fetch(OpSetGlobal) /\ Fetch(Op) /\ Op = OpSetGlobal
      /\ Advance /\ UNCHANGED <<setup, heap>> /\ IsString(Constant) /\ stack # <<>>
    BY GlobalOpParts, HereRefers DEF SetGlobal
<1>2. OpSetGlobal \in Level /\ OpSetGlobal \in Level \ {OpJump, OpLoop}
    BY DEF Level, OpSetGlobal, OpJump, OpLoop
<1>3. CASE Defined
    <2>1. BindGlobal(Peek(0)) /\ stack' = stack /\ err' = "none"
        BY <1>1, <1>3 DEF SetGlobal, Keep, Outcome
    <2>2. StackInside /\ StackMade
        BY <1>1, <1>2, <2>1, SameInside DEF Internal
    <2>3. AllMade'
        BY <1>1, <2>1, <2>2, Made, BindMade DEF setup, heap
    <2>4. QED
        BY <1>1, <1>2, <2>2, <2>3, InnerOps, GlobalKept
<1>4. CASE ~Defined
    <2>1. Fail("undefined_variable") /\ UNCHANGED globals
        BY <1>1, <1>4 DEF SetGlobal
    <2>2. StackInside /\ StackMade
        BY <1>1, <2>1, FailInside DEF Internal
    <2>3. QED
        BY <1>1, <1>2, <2>1, <2>2, InnerOps, StackOpKept
<1>5. QED
    BY <1>3, <1>4

(* A step that takes its operands off the stack and pushes a value that is *)
(* no closure, or fails without it.                                        *)
LEMMA ReplaceKept ==
  ASSUME Sound, NEW op \in Combining \cup Replacing, Fetch(op), Advance,
         UNCHANGED <<setup, globals, heap>>,
         \/ \E v : WellMade(v) /\ Push(Popped(Takes(Code, Frame.ip)), v)
         \/ \E e : /\ Outcome(Popped(Takes(Code, Frame.ip)), e)
                   /\ e \notin Internal /\ e # "none"
  PROVE  Kept
<1>1. Op = op /\ Fetch(Op)
    BY DEF Fetch
<1>2. Effect(Code, Frame.ip) = 1 - Takes(Code, Frame.ip)
    BY <1>1, Sizes DEF Op, Code
<1>3. Rest(Popped(Takes(Code, Frame.ip)))
    BY <1>1, RestOfStack, HereTyped
<1>4. StackInside /\ StackMade
    <2>1. ASSUME NEW v, WellMade(v), Push(Popped(Takes(Code, Frame.ip)), v)
          PROVE  StackInside /\ StackMade
        BY <1>1, <1>2, <1>3, <2>1, PushInside
    <2>2. ASSUME NEW e, Outcome(Popped(Takes(Code, Frame.ip)), e), e \notin Internal, e # "none"
          PROVE  StackInside /\ StackMade
        BY <1>1, <1>3, <2>2, RestInside DEF Outcome
    <2>3. QED
        BY <2>1, <2>2
<1>5. QED
    BY <1>4, InnerOps, StackOpKept

LEMMA BinaryOpKept ==
  ASSUME Sound, NEW op \in Combining, NEW accepted, NEW outcome, WellMade(outcome),
         BinaryOp(op, accepted, outcome)
  PROVE  Kept
<1>1. StackOp(op) /\ Fetch(op) /\ Advance /\ UNCHANGED <<setup, globals, heap>> /\ Op = op
      /\ Fetch(Op)
    BY StackOpParts, HereRefers DEF BinaryOp
<1>2. Takes(Code, Frame.ip) = 2
    BY <1>1, Sizes DEF Op, Code
<1>3. ~(Len(stack) < 2)
    BY <1>1, <1>2, RestOfStack, Here
<1>4. Outcome(Popped(2), "operand_type") \/ Push(Popped(2), outcome)
    BY <1>3 DEF BinaryOp
<1>5. "operand_type" \notin Internal
    BY DEF Internal
<1>6. QED
    BY <1>1, <1>2, <1>4, <1>5, ReplaceKept

LEMMA CombiningKept ==
  Sound /\ (CompareEqual \/ Greater \/ Less \/ Add \/ Subtract \/ Multiply) => Kept
<1> SUFFICES ASSUME Sound, CompareEqual \/ Greater \/ Less \/ Add \/ Subtract \/ Multiply
             PROVE  Kept
    OBVIOUS
<1>1. {OpEqual, OpGreater, OpLess, OpAdd, OpSubtract, OpMultiply} \subseteq Combining
    BY DEF Combining
<1>2. \A x : WellMade(Bool(x)) /\ WellMade(Number(x)) /\ WellMade(String(x))
    BY Made
<1>3. CASE CompareEqual
    BY <1>1, <1>2, <1>3, BinaryOpKept DEF CompareEqual
<1>4. CASE Greater
    BY <1>1, <1>2, <1>4, BinaryOpKept DEF Greater
<1>5. CASE Less
    BY <1>1, <1>2, <1>5, BinaryOpKept DEF Less
<1>6. CASE Add
    <2>1. WellMade(IF IsNumber(Left) THEN Number(Left[2] + Right[2])
                   ELSE String(Left[2] \o Right[2]))
        BY <1>2
    <2>2. QED
        BY <1>1, <1>6, <2>1, BinaryOpKept DEF Add
<1>7. CASE Subtract
    BY <1>1, <1>2, <1>7, BinaryOpKept DEF Subtract
<1>8. CASE Multiply
    BY <1>1, <1>2, <1>8, BinaryOpKept DEF Multiply
<1>9. QED
    BY <1>3, <1>4, <1>5, <1>6, <1>7, <1>8

LEMMA DivideKept == Sound /\ Divide => Kept
<1> SUFFICES ASSUME Sound, Divide PROVE Kept
    OBVIOUS
<1>1. StackOp(OpDivide) /\ Fetch(OpDivide) /\ Advance /\ UNCHANGED <<setup, globals, heap>>
      /\ Op = OpDivide /\ Fetch(Op)
    BY StackOpParts, HereRefers DEF Divide
<1>2. OpDivide \in Combining
    BY DEF Combining
<1>3. Takes(Code, Frame.ip) = 2
    BY <1>1, <1>2, Sizes DEF Op, Code
<1>4. ~(Len(stack) < 2)
    BY <1>1, <1>3, RestOfStack, Here
<1>5. \/ Outcome(Popped(2), "operand_type") \/ Outcome(Popped(2), "division_by_zero")
      \/ Push(Popped(2), Number(Quotient(Left[2], Right[2])))
    BY <1>4 DEF Divide
<1>6. {"operand_type", "division_by_zero"} \cap (Internal \cup {"none"}) = {}
    BY DEF Internal
<1>7. WellMade(Number(Quotient(Left[2], Right[2])))
    BY Made
<1>8. QED
    BY <1>1, <1>2, <1>3, <1>5, <1>6, <1>7, ReplaceKept

LEMMA UnaryKept == Sound /\ (Not \/ Negate) => Kept
<1> SUFFICES ASSUME Sound, Not \/ Negate PROVE Kept
    OBVIOUS
<1>1. \A x : WellMade(Bool(x)) /\ WellMade(Number(x))
    BY Made
<1>2. CASE Not
    <2>1. StackOp(OpNot) /\ Fetch(OpNot) /\ Advance /\ UNCHANGED <<setup, globals, heap>>
          /\ Op = OpNot /\ Fetch(Op) /\ stack # <<>>
        BY <1>2, StackOpParts, HereRefers DEF Not
    <2>2. OpNot \in Replacing
        BY DEF Replacing
    <2>3. Takes(Code, Frame.ip) = 1
        BY <2>1, <2>2, Sizes DEF Op, Code
    <2>4. Push(Popped(1), Bool(IsFalsey(Peek(0))))
        BY <1>2, <2>1 DEF Not
    <2>5. QED
        BY <1>1, <2>1, <2>2, <2>3, <2>4, ReplaceKept
<1>3. CASE Negate
    <2>1. StackOp(OpNegate) /\ Fetch(OpNegate) /\ Advance /\ UNCHANGED <<setup, globals, heap>>
          /\ Op = OpNegate /\ Fetch(Op) /\ stack # <<>>
        BY <1>3, StackOpParts, HereRefers DEF Negate
    <2>2. OpNegate \in Replacing
        BY DEF Replacing
    <2>3. Takes(Code, Frame.ip) = 1
        BY <2>1, <2>2, Sizes DEF Op, Code
    <2>4. Outcome(Popped(1), "operand_type") \/ Push(Popped(1), Number(-Peek(0)[2]))
        BY <1>3, <2>1 DEF Negate
    <2>5. "operand_type" \notin Internal
        BY DEF Internal
    <2>6. QED
        BY <1>1, <2>1, <2>2, <2>3, <2>4, <2>5, ReplaceKept
<1>4. QED
    BY <1>2, <1>3

LEMMA PrintValueKept == Sound /\ PrintValue => Kept
<1> SUFFICES ASSUME Sound, PrintValue PROVE Kept
    OBVIOUS
<1>1. /\ Fetch(OpPrint) /\ Fetch(Op) /\ Op = OpPrint /\ Advance /\ stack # <<>>
      /\ UNCHANGED <<setup, globals, heap>>
    BY HereRefers DEF PrintValue
<1>2. OpPrint \in Dropping \ {OpCloseUpvalue}
    BY DEF Dropping, OpPrint, OpCloseUpvalue
<1>3. stack' = Popped(1) /\ (err' = "none" \/ err' = "output_limit")
    BY <1>1 DEF PrintValue, Keep, Outcome
<1>4. Rest(Popped(1)) /\ Takes(Code, Frame.ip) + Effect(Code, Frame.ip) = 0
    BY <1>1, <1>2, Sizes, RestOfStack DEF Op, Code
<1>5. StackInside /\ StackMade
    BY <1>1, <1>3, <1>4, RestInside DEF Internal
<1>6. QED
    BY <1>1, <1>2, <1>5, InnerOps, StackOpKept

(* A jump to one of its successors. *)
LEMMA JumpKept ==
  ASSUME Sound, NEW op \in {OpJump, OpJumpIfFalse, OpLoop}, JumpOp(op),
         NEW ip \in Successors(Code, Frame.ip), Goto(ip), Keep(stack)
  PROVE  Kept
<1>1. Fetch(op) /\ Fetch(Op) /\ Op = op /\ UNCHANGED <<setup, globals, heap>>
    BY HereRefers DEF JumpOp
<1>2. op \in Level /\ op # OpCloseUpvalue
    BY DEF Level, OpJump, OpJumpIfFalse, OpLoop, OpCloseUpvalue
<1>3. stack' = stack /\ err' = "none"
    BY DEF Keep, Outcome
<1>4. StackInside /\ StackMade
    BY <1>1, <1>2, <1>3, SameInside DEF Internal
<1>5. ip \in Nat
    BY <1>1, Here DEF DisciplinedAt, Function, Code
<1>6. FramesInside
    BY <1>5 DEF Goto, Moved, FramesInside
<1>7. Inside
    BY <1>1, <1>4, <1>6 DEF Inside
<1>8. AllMade'
    BY <1>1, <1>4, MadeKept DEF setup, heap
<1>9. QED
    BY <1>1, <1>2, <1>7, <1>8, QuietKept

LEMMA JumpsKept == Sound /\ (Jump \/ JumpIfFalse \/ Loop) => Kept
<1> SUFFICES ASSUME Sound, Jump \/ JumpIfFalse \/ Loop PROVE Kept
    OBVIOUS
<1>1. ASSUME NEW op \in {OpJump, OpJumpIfFalse, OpLoop}, JumpOp(op)
      PROVE  /\ Op = op /\ stack # <<>>
             /\ op # OpLoop => NextIP + Short \in Successors(Code, Frame.ip)
             /\ op = OpLoop => NextIP - Short \in Successors(Code, Frame.ip)
             /\ op = OpJumpIfFalse => NextIP \in Successors(Code, Frame.ip)
    <2>1. Fetch(op) /\ Fetch(Op) /\ Op = op /\ stack # <<>> /\ Frame.ip \in Nat
        BY <1>1, HereRefers, Here DEF JumpOp
    <2>2. JumpTarget(Code, Frame.ip) \in Successors(Code, Frame.ip)
        BY <2>1, Follows DEF Op, Code
    <2>3. OperandBytes(op) = 2
        BY OperandSizes DEF OperandBytes
    <2>4. JumpTarget(Code, Frame.ip)
            = IF op = OpLoop THEN NextIP - Short ELSE NextIP + Short
        <3>1. NextIP = Frame.ip + 3
            BY <2>1, <2>3 DEF NextIP
        <3>2. Short = DecodeUint16(ByteAt(Code, Frame.ip + 1), ByteAt(Code, Frame.ip + 2))
            BY DEF Short, Operand, Code
        <3>3. QED
            BY <2>1, <3>1, <3>2 DEF JumpTarget, Op, Code
    <2>5. op = OpJumpIfFalse => NextIP \in Successors(Code, Frame.ip)
        <3>1. OpJumpIfFalse \in Inner \ {OpJump, OpLoop}
            BY InnerOps DEF Level, OpJump, OpLoop, OpJumpIfFalse
        <3>2. QED
            BY <2>1, <3>1, Follows DEF NextIP, Op, Code
    <2>6. QED
        BY <2>1, <2>2, <2>4, <2>5
<1>2. OpJump # OpLoop /\ OpJumpIfFalse # OpLoop
    BY DEF OpJump, OpJumpIfFalse, OpLoop
<1>3. CASE Jump
    BY <1>1, <1>2, <1>3, JumpKept DEF Jump
<1>4. CASE JumpIfFalse
    <2>1. JumpOp(OpJumpIfFalse) /\ stack # <<>>
        BY <1>1, <1>4 DEF JumpIfFalse
    <2>2. Goto(NextIP + Short) \/ Goto(NextIP)
        BY <1>4, <2>1 DEF JumpIfFalse
    <2>3. Keep(stack)
        BY <1>4, <2>1 DEF JumpIfFalse
    <2>4. QED
        BY <1>1, <1>2, <2>1, <2>2, <2>3, JumpKept
<1>5. CASE Loop
    BY <1>1, <1>5, JumpKept DEF Loop
<1>6. QED
    BY <1>3, <1>4, <1>5

(* A call that enters no frame: of a native function, or one that fails. *)
LEMMA CallInside ==
  ASSUME Sound, Fetch(OpCall), Advance, UNCHANGED <<setup, globals, heap>>,
         StackInside, StackMade
  PROVE  Kept
<1>1. OpCall \in Inner \ {OpJump, OpLoop, OpCloseUpvalue}
    BY InnerOps
<1>2. QED
    BY <1>1, StackOpKept

(* The callee and its arguments are above the slots of the caller. *)
LEMMA CallFacts ==
  ASSUME Sound, Fetch(OpCall)
  PROVE  /\ Fetch(Op) /\ Operand \in Nat /\ Len(stack) \in Nat
         /\ Takes(Code, Frame.ip) = Operand + 1 /\ Effect(Code, Frame.ip) = -Operand
         /\ Operand + 1 < Height /\ Height \in Nat /\ Frame.base \in Nat
         /\ Frame.base + Height = Len(stack)
         /\ Len(stack) - Operand \in 1..Len(stack)
         /\ Peek(Operand) = stack[Len(stack) - Operand] /\ WellMade(Peek(Operand))
<1>1. Fetch(Op) /\ Op = OpCall /\ Operand \in Nat
    BY HereRefers, OperandType, OperandSizes DEF Sound
<1>2. Takes(Code, Frame.ip) = Operand + 1 /\ Effect(Code, Frame.ip) = -Operand
    BY <1>1, Sizes DEF Op, Operand, Code
<1>3. /\ Takes(Code, Frame.ip) < Height /\ Height \in Nat /\ Frame.base \in Nat
      /\ Frame.base + Height = Len(stack) /\ Len(stack) \in Nat
    BY <1>1, Here DEF DisciplinedAt, Code
<1>4. Len(stack) - Operand \in 1..Len(stack)
    BY <1>1, <1>2, <1>3
<1>5. WellMade(Peek(Operand))
    BY <1>4, Made DEF Peek
<1>6. QED
    BY <1>1, <1>2, <1>3, <1>4, <1>5 DEF Peek

LEMMA InvokeMade ==
  ASSUME Sound, NEW name, NEW args, NEW v \in Invoke(name, args)
  PROVE  WellMade(v)
<1>1. v \in {Number(t) : t \in ClockReadings} \cup {String(<<TypeName(args[1])>>)}
            \cup {Number(Len(args[1][2]))}
    BY DEF Invoke
<1>2. QED
    BY <1>1, Made

LEMMA CallNativeKept ==
  ASSUME Sound, Fetch(OpCall), Advance, UNCHANGED <<setup, globals, heap>>,
         NEW name, CallNative(name, Operand)
  PROVE  Kept
<1> DEFINE args == SubSeq(stack, Len(stack) - Operand - 1 + 2, Len(stack))
<1>1. CASE Fail("native")
    BY <1>1, CallFacts, FailInside, CallInside DEF Internal
<1>2. CASE ~Fail("native")
    <2>1. PICK v \in Invoke(name, args) : Push(SubSeq(stack, 1, Len(stack) - Operand - 1), v)
        BY <1>2 DEF CallNative
    <2>2. /\ Popped(Operand + 1) = SubSeq(stack, 1, Len(stack) - Operand - 1)
          /\ Rest(Popped(Operand + 1))
        <3>1. Operand \in Nat /\ Len(stack) \in Nat /\ Fetch(Op)
              /\ Takes(Code, Frame.ip) = Operand + 1
            BY CallFacts
        <3>2. Operand + 1 \in Nat /\ Len(stack) - (Operand + 1) = Len(stack) - Operand - 1
            BY <3>1
        <3>3. QED
            BY <3>1, <3>2, RestOfStack DEF Popped
    <2>3. Effect(Code, Frame.ip) = 1 - Takes(Code, Frame.ip)
        BY CallFacts
    <2>4. StackInside /\ StackMade
        BY <2>1, <2>2, <2>3, CallFacts, InvokeMade, PushInside
    <2>5. QED
        BY <2>4, CallInside
<1>3. QED
    BY <1>1, <1>2

(* What entering a frame does. *)
Enters(callee) ==
  /\ Fetch(OpCall) /\ Peek(Operand) = ClosureValue(callee)
  /\ program[callee.fn].arity = Operand
  /\ frames' = Append(Moved(NextIP), [closure |-> callee, ip |-> 0,
                                      base |-> Len(stack) - Operand - 1])
  /\ stack' = stack /\ err' = "none"
  /\ UNCHANGED <<setup, globals, heap>>

LEMMA EnteredFrames ==
  ASSUME Sound, NEW callee, Enters(callee)
  PROVE  LET m == Len(frames)
         IN /\ m \in Nat \ {0} /\ Len(frames') = m + 1
            /\ \A i \in 1..m : /\ frames'[i].closure = frames[i].closure
                               /\ frames'[i].base = frames[i].base
                               /\ i < m => frames'[i] = frames[i]
            /\ frames'[m].ip = NextIP
            /\ frames'[m + 1] = [closure |-> callee, ip |-> 0,
                                 base |-> Len(stack) - Operand - 1]
<1> DEFINE m == Len(frames)
<1>1. Fetch(OpCall) /\ Fetch(Op) /\ NextIP \in Running.boundaries
    BY FetchFacts, CallFacts DEF Enters, Sound
<1>2. NextIP \in Nat /\ m \in Nat \ {0}
    BY <1>1, Here DEF Function
<1>3. Moved(NextIP) \in Seq(FrameType)
    BY <1>1, MovedFits DEF Sound, Fetch, InRange
<1>4. /\ Len(Moved(NextIP)) = m
      /\ \A i \in 1..m : /\ Moved(NextIP)[i].closure = frames[i].closure
                         /\ Moved(NextIP)[i].base = frames[i].base
                         /\ i < m => Moved(NextIP)[i] = frames[i]
      /\ Moved(NextIP)[m].ip = NextIP
    BY <1>1, <1>2, MovedFrames
<1> HIDE DEF m
<1>5. /\ Len(frames') = m + 1
      /\ \A i \in 1..m : frames'[i] = Moved(NextIP)[i]
      /\ frames'[m + 1] = [closure |-> callee, ip |-> 0, base |-> Len(stack) - Operand - 1]
    BY <1>2, <1>3, <1>4 DEF Enters
<1>6. m \in 1..m
    BY <1>2
<1>7. QED
    BY <1>2, <1>4, <1>5, <1>6 DEF m

LEMMA EnterNested ==
  ASSUME Sound, NEW callee, Enters(callee)
  PROVE  Nested'
<1> DEFINE m == Len(frames)
<1>1. /\ m \in Nat /\ Len(frames') = m + 1 /\ stack' = stack
      /\ \A i \in 1..m : /\ frames'[i].closure = frames[i].closure
                         /\ frames'[i].base = frames[i].base
      /\ frames'[m + 1].closure = callee
      /\ frames'[m + 1].base = Len(stack) - Operand - 1
    BY EnteredFrames DEF Enters
<1>2. /\ Len(stack) \in Nat /\ Operand \in Nat /\ Frame.base \in Nat
      /\ Operand + 1 < Height /\ Frame.base + Height = Len(stack) /\ Height \in Nat
      /\ stack[Len(stack) - Operand] = ClosureValue(callee)
    BY CallFacts DEF Enters
<1>3. \A i \in 1..m : frames[i].base \in Nat /\ frames[i].base <= Frame.base
    BY CallFacts, Here DEF Enters
<1>4. frames'[m + 1].base < Len(stack) /\ frames'[m + 1].base > Frame.base
      /\ frames'[m + 1].base + 1 = Len(stack) - Operand /\ frames'[m + 1].base \in Nat
    <2>1. \A b : b = Len(stack) - Operand - 1 =>
                 b < Len(stack) /\ b > Frame.base /\ b + 1 = Len(stack) - Operand /\ b \in Nat
        BY <1>2
    <2>2. QED
        BY <1>1, <2>1
<1>5. \A i \in 1..(m + 1) : i \in 1..m \/ i = m + 1
    BY <1>1
<1>6. \A i \in 1..Len(frames') :
         /\ frames'[i].base < Len(stack')
         /\ stack'[frames'[i].base + 1] = ClosureValue(frames'[i].closure)
    BY <1>1, <1>2, <1>4, <1>5 DEF Sound, DInv, Nested
<1>7. ASSUME NEW i \in 1..Len(frames'), NEW j \in 1..Len(frames'), i < j
      PROVE  frames'[i].base < frames'[j].base
    <2>1. i \in 1..m
        BY <1>1, <1>7
    <2>2. CASE j \in 1..m
        BY <1>1, <1>7, <2>1, <2>2 DEF Sound, DInv, Nested
    <2>3. CASE j = m + 1
        <3>1. frames'[i].base \in Nat /\ frames'[i].base <= Frame.base
            BY <1>1, <1>3, <2>1
        <3>2. frames'[j].base \in Nat /\ frames'[j].base > Frame.base /\ Frame.base \in Nat
            BY <1>2, <1>4, <2>3
        <3>3. QED
            BY <3>1, <3>2
    <2>4. QED
        BY <1>1, <1>5, <2>2, <2>3
<1>8. QED
    BY <1>6, <1>7 DEF Nested

LEMMA EnterShaped ==
  ASSUME Sound, NEW callee, Enters(callee), callee.fn \in Functions
  PROVE  Shaped'
<1> DEFINE m == Len(frames)
           base == Len(stack) - Operand - 1
<1>1. /\ m \in Nat \ {0} /\ Len(frames') = m + 1
      /\ stack' = stack /\ program' = program /\ open' = open
      /\ \A i \in 1..m : /\ frames'[i].closure = frames[i].closure
                         /\ frames'[i].base = frames[i].base
                         /\ i < m => frames'[i] = frames[i]
      /\ frames'[m].ip = NextIP
      /\ frames'[m + 1] = [closure |-> callee, ip |-> 0, base |-> base]
      /\ program[callee.fn].arity = Operand
    BY EnteredFrames DEF Enters, setup, heap
<1>2. /\ Fetch(Op) /\ Op = OpCall /\ Len(stack) \in Nat /\ Operand \in Nat
      /\ Frame.base \in Nat /\ Operand + 1 < Height
      /\ Frame.base + Height = Len(stack) /\ Height \in Nat
      /\ Effect(Code, Frame.ip) = -Operand /\ Takes(Code, Frame.ip) = Operand + 1
    BY CallFacts, HereRefers DEF Enters
<1>3. Frame = frames[m] /\ m \in 1..m /\ err = "none" /\ Frame.ip \in Nat
    BY <1>2, Here
<1>4. \A slot \in DOMAIN open : slot \in Nat /\ slot < base
    <2>1. OpCall # OpCloseUpvalue
        BY DEF OpCall, OpCloseUpvalue
    <2>2. QED
        BY <1>2, <2>1, OpenBelow
<1>5. Shaped
    BY <1>3 DEF Sound, DInv
<1>6. ASSUME NEW i \in 1..(m + 1), i < m
      PROVE  /\ frames'[i].ip # Len(program'[frames'[i].closure.fn].code)
             /\ Top(i)' - frames'[i].base \in HeightsOf(frames[i])'
             /\ \A slot \in DOMAIN open' :
                   Within(slot, i)' => slot - frames'[i].base \in CapturedOf(frames[i])'
    <2>1. i \in 1..m /\ i + 1 \in 1..m /\ frames'[i] = frames[i]
          /\ frames'[i + 1].base = frames[i + 1].base
        BY <1>1, <1>6
    <2>2. Top(i)' = Top(i)
        BY <1>1, <1>6, <2>1 DEF Top
    <2>3. HeightsOf(frames[i])' = HeightsOf(frames[i]) /\ CapturedOf(frames[i])' = CapturedOf(frames[i])
        BY <1>1, <2>1 DEF HeightsOf, CapturedOf, Shapes
    <2>4. \A slot \in DOMAIN open : Within(slot, i)' => Within(slot, i)
        BY <1>1, <1>6, <2>1 DEF Within
    <2>5. QED
        BY <1>1, <1>5, <2>1, <2>2, <2>3, <2>4 DEF Shaped
<1>7. ASSUME NEW i \in 1..(m + 1), i = m
      PROVE  /\ frames'[i].ip # Len(program'[frames'[i].closure.fn].code)
             /\ Top(i)' - frames'[i].base \in HeightsOf(frames[i])'
             /\ \A slot \in DOMAIN open' :
                   Within(slot, i)' => slot - frames'[i].base \in CapturedOf(frames[i])'
    <2>1. NextIP \in Successors(Code, Frame.ip)
        <3>1. OpCall \in Inner \ {OpJump, OpLoop}
            BY InnerOps
        <3>2. QED
            BY <1>2, <1>3, <3>1, Follows DEF NextIP, Op, Code
    <2>2. /\ NextIP # Len(Code)
          /\ Height + Effect(Code, Frame.ip) \in At(Shapes(Frame).heights, NextIP)
          /\ CapturedAfter(program, Running, Frame.ip, Height, CapturedOf(Frame))
               \subseteq At(Shapes(Frame).captured, NextIP)
        BY <1>2, <2>1, Here DEF DisciplinedAt, Code, CapturedOf
    <2>3. /\ HeightsOf(frames[i])' = At(Shapes(Frame).heights, NextIP)
          /\ CapturedOf(frames[i])' = At(Shapes(Frame).captured, NextIP)
        BY <1>1, <1>3, <1>7 DEF HeightsOf, CapturedOf, Shapes
    <2>4. Top(i)' - frames'[i].base = Height + Effect(Code, Frame.ip)
        <3>1. Top(i)' = base + 1
            BY <1>1, <1>7 DEF Top
        <3>2. QED
            BY SMTT(30), <1>1, <1>2, <1>3, <1>7, <3>1
    <2>5. frames'[i].ip # Len(program'[frames'[i].closure.fn].code)
        BY <1>1, <1>3, <1>7, <2>2 DEF Running, Code
    <2>6. CapturedOf(Frame) \subseteq At(Shapes(Frame).captured, NextIP)
        <3>1. OpCall # OpCloseUpvalue
            BY DEF OpCall, OpCloseUpvalue
        <3>2. QED
            BY <1>2, <2>2, <3>1 DEF CapturedAfter, Op, Code
    <2>7. \A slot \in DOMAIN open :
            Within(slot, i)' => slot - Frame.base \in CapturedOf(Frame)
        BY <1>1, <1>2, <1>3, <1>7, Here DEF Within
    <2>8. QED
        BY <1>1, <1>3, <1>7, <2>2, <2>3, <2>4, <2>5, <2>6, <2>7
<1>8. ASSUME NEW i \in 1..(m + 1), i = m + 1
      PROVE  /\ frames'[i].ip # Len(program'[frames'[i].closure.fn].code)
             /\ Top(i)' - frames'[i].base \in HeightsOf(frames[i])'
             /\ \A slot \in DOMAIN open' :
                   Within(slot, i)' => slot - frames'[i].base \in CapturedOf(frames[i])'
    <2>1. /\ Len(program[callee.fn].code) > 0
          /\ program[callee.fn].arity + 1 \in At(ShapesOf(program, callee.fn).heights, 0)
        BY DEF Sound, Disciplined, Functions, Validated, EndsWithReturn
    <2>2. HeightsOf(frames[i])' = At(ShapesOf(program, callee.fn).heights, 0)
        BY <1>1, <1>8 DEF HeightsOf, Shapes
    <2>3. Top(i)' - frames'[i].base = Operand + 1
        BY <1>1, <1>2, <1>8 DEF Top
    <2>4. \A slot \in DOMAIN open : ~Within(slot, i)'
        BY <1>1, <1>2, <1>4, <1>8 DEF Within
    <2>5. QED
        BY <1>1, <1>8, <2>1, <2>2, <2>3, <2>4
<1>9. QED
    <2>1. \A i \in 1..Len(frames') : i \in 1..(m + 1) /\ (i < m \/ i = m \/ i = m + 1)
        BY <1>1
    <2>2. \A slot \in DOMAIN open' : slot < Len(stack')
        BY <1>1, <1>3, <1>5 DEF Shaped
    <2>3. QED
        BY <1>6, <1>7, <1>8, <2>1, <2>2 DEF Shaped

LEMMA EnterKept ==
  ASSUME Sound, NEW callee, Enters(callee), callee.fn \in Functions
  PROVE  Kept
<1>1. Fetch(Op) /\ prepared' /\ program' = program
    BY CallFacts, Here DEF Enters, setup
<1>2. AllMade' /\ HeapExact'
    BY <1>1 DEF Enters, Sound, DInv, AllMade, HeapExact, WellMade, Addresses, heap
<1>3. KeepsCaptured
    BY DEF KeepsCaptured, Enters, heap, Readable, Read
<1>4. KeepsCallerSlots
    <2>1. Frame.base \in Nat /\ Frame.base <= Len(stack) /\ Len(stack) \in Nat
        BY <1>1, Here
    <2>2. QED
        BY <2>1 DEF KeepsCallerSlots, Enters
<1>5. Untouched' /\ err' \notin Internal
    BY <1>1 DEF Untouched, Enters, Internal
<1>6. Underway'
    <2>1. Len(frames) \in Nat /\ Len(frames') = Len(frames) + 1
        BY EnteredFrames
    <2>2. Len(frames') # 0
        BY <2>1
    <2>3. QED
        BY <2>2 DEF Underway
<1>7. QED
    BY <1>2, <1>3, <1>4, <1>5, <1>6, EnterNested, EnterShaped DEF Kept, DInv

LEMMA CallKept == Sound /\ Call => Kept
<1> SUFFICES ASSUME Sound, Call PROVE Kept
    OBVIOUS
<1>1. Fetch(OpCall) /\ Fetch(Op) /\ UNCHANGED <<setup, globals, heap>>
    BY CallFacts DEF Call
<1>2. Operand < Len(stack) /\ Operand \in Nat /\ Advanced = Moved(NextIP)
    BY <1>1, CallFacts DEF Advanced, Moved
<1>3. CASE IsClosure(Peek(Operand))
    <2> DEFINE callee == Peek(Operand)[2]
    <2>1. CallClosure(callee, Operand, Moved(NextIP), stack)
        BY <1>2, <1>3 DEF Call
    <2>2. Peek(Operand) = ClosureValue(callee) /\ callee.fn \in Functions
        <3>1. Peek(Operand) \in Val
            BY <1>1, <1>2, PeekType DEF Sound
        <3>2. callee \in Closure(Functions, Addresses)
            BY <1>3, <3>1, ValueData
        <3>3. Peek(Operand) = ClosureValue(callee)
            BY <1>3, <3>1 DEF Val, Value, Literal, IsClosure, TypeName, ClosureValue, Nil
        <3>4. QED
            BY <3>2, <3>3 DEF Closure
    <2> HIDE DEF callee
    <2>3. CASE frames' = Moved(NextIP)
        <3>1. Fail("arity") \/ Fail("frame_limit") \/ Enters(callee)
            BY <1>1, <2>1, <2>2 DEF CallClosure, Enters, Fail, Keep, Outcome
        <3>2. CASE Fail("arity") \/ Fail("frame_limit")
            <4>1. StackInside /\ StackMade
                BY <1>1, <3>2, FailInside DEF Internal
            <4>2. QED
                BY <1>1, <2>3, <4>1, CallInside DEF Advance, Goto, Moved
        <3>3. QED
            BY <2>2, <3>1, <3>2, EnterKept
    <2>4. CASE frames' # Moved(NextIP)
        <3>1. Enters(callee)
            BY <1>1, <2>1, <2>2, <2>4 DEF CallClosure, Enters, Keep, Outcome
        <3>2. QED
            BY <2>2, <3>1, EnterKept
    <2>5. QED
        BY <2>3, <2>4
<1>4. CASE ~IsClosure(Peek(Operand))
    <2>1. Advance /\ ~(Operand >= Len(stack))
        BY <1>1, <1>2, <1>4, CallFacts DEF Call
    <2>2. CASE IsNative(Peek(Operand))
        <3>1. CallNative(Peek(Operand)[2], Operand)
            BY <1>4, <2>1, <2>2 DEF Call
        <3>2. QED
            BY <1>1, <2>1, <3>1, CallNativeKept
    <2>3. CASE ~IsNative(Peek(Operand))
        <3>1. Fail("not_callable")
            BY <1>4, <2>1, <2>3 DEF Call
        <3>2. StackInside /\ StackMade
            BY <1>1, <3>1, FailInside DEF Internal
        <3>3. QED
            BY <1>1, <2>1, <3>2, CallInside
    <2>4. QED
        BY <2>2, <2>3
<1>5. QED
    BY <1>3, <1>4

-----------------------------------------------------------------------------
(* What creating a closure that captures these slots does to the heap. *)
Opens(slots) ==
  /\ closures' = closures + 1
  /\ open' = [slot \in DOMAIN open \cup slots |-> Capture(slot)]
  /\ upvalues' = [a \in DOMAIN upvalues \cup ({Capture(slot) : slot \in slots} \ DOMAIN upvalues) |->
                    IF a \in DOMAIN upvalues THEN upvalues[a]
                    ELSE [open |-> TRUE, closed |-> Nil]]

LEMMA OpensHeap ==
  ASSUME Sound, NEW slots \in SUBSET Nat, Opens(slots)
  PROVE  /\ HeapExact'
         /\ \A a \in Addresses : a \in Addresses' /\ upvalues'[a] = upvalues[a]
         /\ \A a \in Addresses' \ Addresses : upvalues'[a].closed = Nil
<1>1. /\ Addresses' = Addresses \cup ({Capture(slot) : slot \in slots} \ Addresses)
      /\ \A a \in Addresses' : upvalues'[a] = IF a \in Addresses THEN upvalues[a]
                                              ELSE [open |-> TRUE, closed |-> Nil]
      /\ DOMAIN open' = DOMAIN open \cup slots
      /\ \A slot \in DOMAIN open' : open'[slot] = Capture(slot)
      /\ closures' = closures + 1 /\ closures \in Nat
    BY OpenObjects DEF Opens, Addresses
<1>2. /\ \A slot \in DOMAIN open : Capture(slot) = open[slot] /\ Capture(slot) \in Addresses
      /\ \A slot : slot \notin DOMAIN open =>
           Capture(slot) = <<closures, slot>> /\ Capture(slot) \notin Addresses
    <2>1. \A slot : <<closures, slot>> \notin Addresses
        <3>1. SUFFICES ASSUME NEW slot, <<closures, slot>> \in Addresses PROVE FALSE
            OBVIOUS
        <3>2. <<closures, slot>>[1] < closures
            BY <3>1, OpenObjects
        <3>3. QED
            BY <1>1, <3>2
    <2>2. QED
        BY <2>1, OpenObjects DEF Capture
<1>3. ASSUME NEW a \in Addresses'
      PROVE  /\ a[1] < closures'
             /\ upvalues'[a].open => a[2] \in DOMAIN open' /\ open'[a[2]] = a
    <2>1. CASE a \in Addresses
        <3>1. a[1] < closures' /\ upvalues'[a] = upvalues[a]
            BY <1>1, <2>1, OpenObjects
        <3>2. upvalues[a].open => a[2] \in DOMAIN open /\ open[a[2]] = a
            BY <2>1, OpenObjects
        <3>3. QED
            BY <1>1, <1>2, <3>1, <3>2
    <2>2. CASE a \notin Addresses
        <3>1. PICK slot \in slots : a = Capture(slot)
            BY <1>1, <2>2
        <3>2. slot \notin DOMAIN open
            BY <1>2, <2>2, <3>1
        <3>3. a = <<closures, slot>>
            BY <1>2, <3>1, <3>2
        <3>4. a[1] = closures /\ a[2] = slot
            BY <3>3
        <3>5. QED
            BY <1>1, <3>1, <3>4
    <2>3. QED
        BY <2>1, <2>2
<1>4. ASSUME NEW slot \in DOMAIN open'
      PROVE  open'[slot][2] = slot /\ upvalues'[open'[slot]].open
    <2>1. CASE slot \in DOMAIN open
        BY <1>1, <1>2, <2>1, OpenObjects
    <2>2. CASE slot \notin DOMAIN open
        <3>0. slot \in slots /\ open'[slot] = Capture(slot)
            BY <1>1, <2>2
        <3>1. open'[slot] = <<closures, slot>> /\ open'[slot] \in Addresses' \ Addresses
            <4>1. Capture(slot) = <<closures, slot>> /\ Capture(slot) \notin Addresses
                BY <1>2, <2>2
            <4>2. Capture(slot) \in Addresses'
                BY <1>1, <3>0, <4>1
            <4>3. QED
                BY <3>0, <4>1, <4>2
        <3>2. upvalues'[open'[slot]] = [open |-> TRUE, closed |-> Nil]
            BY <1>1, <3>1
        <3>3. QED
            BY <3>1, <3>2
    <2>3. QED
        BY <2>1, <2>2
<1>5. HeapExact'
    BY <1>3, <1>4 DEF HeapExact
<1>6. QED
    BY <1>1, <1>5

LEMMA CreateClosureKept == Sound /\ CreateClosure => Kept
<1> SUFFICES ASSUME Sound, CreateClosure PROVE Kept
    OBVIOUS
<1> DEFINE specs == program[Constant[2]].upvalues
           SlotOf(i) == Frame.base + specs[i].index
           missing == {i \in 1..Len(specs) : ~specs[i].isLocal /\ specs[i].index >= Len(Captured)}
           reached == {i \in 1..Len(specs) : \A j \in missing : i < j}
           locals == {SlotOf(i) : i \in {j \in reached : specs[j].isLocal}}
           fresh == {Capture(slot) : slot \in locals} \ DOMAIN upvalues
           Address(i) == IF specs[i].isLocal THEN Capture(SlotOf(i))
                         ELSE Captured[specs[i].index + 1]
           closure == [id |-> closures, fn |-> Constant[2],
                       upvalues |-> [i \in 1..Len(specs) |-> Address(i)]]
<1>1. /\ Fetch(OpClosure) /\ Fetch(Op) /\ Op = OpClosure /\ Advance
      /\ UNCHANGED <<setup, globals>> /\ Constant[1] = "function"
      /\ \A i \in DOMAIN specs : IF specs[i].isLocal THEN specs[i].index \in 1..Height
                                 ELSE specs[i].index < Len(Running.upvalues)
    BY Zenon, HereRefers DEF CreateClosure
<1>2. /\ Constant[2] \in Functions /\ specs \in Seq(UpvalueSpec)
      /\ Len(Captured) = Len(Running.upvalues) /\ Len(Captured) \in Nat
    <2>1. Constant[2] \in Functions
        BY <1>1, ConstantType, OperandSizes DEF Sound
    <2>2. program \in Seq(Function)
        BY DEF Sound, IInv, TypeOK, IsProgram
    <2>3. program[Constant[2]] \in Function
        BY <2>1, <2>2 DEF Functions
    <2>4. QED
        BY <1>1, <2>1, <2>3, CapturedLength, CapturedType DEF Function, Sound, Fetch, InRange
<1>3. DOMAIN specs = 1..Len(specs) /\ Len(specs) \in Nat /\ missing = {}
    <2>1. DOMAIN specs = 1..Len(specs) /\ Len(specs) \in Nat
        BY <1>2
    <2>2. \A i \in 1..Len(specs) : specs[i].index \in Nat
        BY <1>2, SpecIndex
    <2>3. QED
        BY SMTT(30), <1>1, <1>2, <2>1, <2>2
<1>4. Opens(locals) /\ Push(stack, ClosureValue(closure))
    BY Zenon, <1>1, <1>3 DEF CreateClosure, Opens
<1>5. Len(closure.upvalues) = Len(specs) /\ closure.fn = Constant[2]
    BY <1>3
<1>6. \A slot \in locals : \E i \in DOMAIN specs : slot = SlotOf(i) /\ specs[i].isLocal
    BY SMTT(30), <1>3
<1>7. CapturesAt(program, Running, Frame.ip)
        = {specs[i].index : i \in {j \in DOMAIN specs : specs[j].isLocal}}
    BY Zenon, <1>1 DEF CapturesAt, ConstantAt, Constant, Operand, Op
<1>8. \A i \in DOMAIN specs : SlotOf(i) = Frame.base + specs[i].index
    BY SMTT(30)
<1>9. WellMade(ClosureValue(closure))
    BY Zenon, <1>5 DEF WellMade, ClosureValue, IsClosure, TypeName
<1> HIDE DEF SlotOf, missing, reached, locals, fresh, Address, closure
<1>10. Frame.base \in Nat /\ Height \in Nat
    BY <1>1, Here
<1>11. \A slot \in locals :
         /\ slot \in Nat /\ slot > Frame.base
         /\ slot - Frame.base \in CapturesAt(program, Running, Frame.ip)
    <2>1. TAKE slot \in locals
    <2>2. PICK i \in DOMAIN specs : slot = SlotOf(i) /\ specs[i].isLocal
        BY <1>6
    <2>3. specs[i].index \in 1..Height /\ slot = Frame.base + specs[i].index
        BY <1>1, <1>8, <2>2
    <2>4. slot - Frame.base = specs[i].index /\ slot \in Nat /\ slot > Frame.base
        BY <1>10, <2>3
    <2>5. QED
        BY <1>7, <2>2, <2>4
<1>12. /\ HeapExact'
       /\ \A a \in Addresses : a \in Addresses' /\ upvalues'[a] = upvalues[a]
       /\ \A a \in Addresses' \ Addresses : upvalues'[a].closed = Nil
    <2>1. locals \in SUBSET Nat
        BY <1>11
    <2>2. QED
        BY <1>4, <2>1, OpensHeap
<1>13. OpClosure \in Pushing /\ OpClosure \in Inner \ {OpJump, OpLoop, OpCloseUpvalue}
    BY InnerOps DEF Pushing
<1>14. StackInside /\ StackMade
    <2>1. Takes(Code, Frame.ip) = 0 /\ Effect(Code, Frame.ip) = 1
        BY <1>1, <1>13, Sizes DEF Op, Code
    <2>2. QED
        BY <1>1, <1>4, <1>9, <2>1, RestOfStack, PushInside
<1>15. Inside
    BY <1>1, <1>13, <1>14, AdvanceInside DEF Inside
<1>16. OpenInside
    <2>1. DOMAIN open' = DOMAIN open \cup locals
        BY <1>4 DEF Opens
    <2>2. CapturedAfter(program, Running, Frame.ip, Height, CapturedOf(Frame))
            = CapturedOf(Frame) \cup CapturesAt(program, Running, Frame.ip)
        BY <1>1, <1>13 DEF CapturedAfter, Op, Code
    <2>3. \A slot \in DOMAIN open :
             slot \in Nat /\ (slot >= Frame.base => slot - Frame.base \in CapturedOf(Frame))
        BY <1>1, Here
    <2>4. \A slot \in locals : ~(slot < Frame.base)
        BY <1>10, <1>11
    <2>5. QED
        BY <1>11, <2>1, <2>2, <2>3, <2>4 DEF OpenInside
<1>17. AllMade'
    <2>1. \A a \in Addresses' : WellMade(upvalues'[a].closed)
        BY <1>12, Made DEF Sound, DInv, AllMade
    <2>2. QED
        BY <1>1, <1>14, <2>1 DEF AllMade, StackMade, WellMade, Sound, DInv, setup
<1>18. KeepsCaptured
    <2>1. SUFFICES ASSUME NEW a \in Addresses, Readable(a)
                   PROVE  \/ Readable(a)' /\ Read(a)' = Read(a)
                          \/ Executed /\ Assigns(a)
        BY DEF KeepsCaptured
    <2>2. CASE upvalues[a].open
        BY <1>1, <1>12, <1>13, <1>15, <2>2, InsideKeepsOpen
    <2>3. CASE ~upvalues[a].open
        BY <1>12, <2>3 DEF Readable, Read
    <2>4. QED
        BY <2>2, <2>3
<1>19. QED
    BY SMTT(30), <1>12, <1>15, <1>16, <1>17, <1>18, InsideKept

-----------------------------------------------------------------------------
(* What closing the upvalues from a slot on does to the heap, when they    *)
(* are all on the stack s.                                                 *)
LEMMA ClosesHeap ==
  ASSUME Sound, NEW last \in Nat, NEW s, Len(s) \in Nat, CloseUpvalues(last, s),
         \A slot \in DOMAIN open : slot >= last => slot < Len(s)
  PROVE  /\ HeapExact' /\ Addresses' = Addresses
         /\ DOMAIN open' = {slot \in DOMAIN open : slot < last}
         /\ \A a \in Addresses :
              /\ upvalues[a].open /\ a[2] >= last =>
                   upvalues'[a] = [open |-> FALSE, closed |-> s[a[2] + 1]]
              /\ ~(upvalues[a].open /\ a[2] >= last) => upvalues'[a] = upvalues[a]
<1> DEFINE closing == {slot \in DOMAIN open : slot >= last}
<1>1. /\ open' = [slot \in DOMAIN open \ closing |-> open[slot]]
      /\ upvalues' = [a \in DOMAIN upvalues |->
                        IF a[2] \in closing /\ open[a[2]] = a /\ a[2] < Len(s)
                        THEN [open |-> FALSE, closed |-> s[a[2] + 1]]
                        ELSE upvalues[a]]
      /\ closures' = closures
    BY DEF CloseUpvalues
<1>2. DOMAIN open' = {slot \in DOMAIN open : slot < last} /\ Addresses' = Addresses
    <2>1. DOMAIN open' = DOMAIN open \ closing
        BY <1>1
    <2>2. \A slot \in DOMAIN open : slot \notin closing <=> slot < last
        BY OpenObjects
    <2>3. Addresses' = Addresses
        BY <1>1 DEF Addresses
    <2>4. QED
        BY <2>1, <2>2, <2>3
<1>3. ASSUME NEW a \in Addresses
      PROVE  (a[2] \in closing /\ open[a[2]] = a /\ a[2] < Len(s))
               <=> (upvalues[a].open /\ a[2] >= last)
    BY OpenObjects
<1> HIDE DEF closing
<1>4. \A a \in Addresses :
        /\ upvalues[a].open /\ a[2] >= last =>
             upvalues'[a] = [open |-> FALSE, closed |-> s[a[2] + 1]]
        /\ ~(upvalues[a].open /\ a[2] >= last) => upvalues'[a] = upvalues[a]
    BY <1>1, <1>3 DEF Addresses
<1>5. \A slot \in DOMAIN open' : slot \in DOMAIN open /\ slot < last /\ open'[slot] = open[slot]
    BY <1>1, <1>2
<1>6. \A a \in Addresses' :
        /\ a[1] < closures'
        /\ upvalues'[a].open => a[2] \in DOMAIN open' /\ open'[a[2]] = a
    <2>1. TAKE a \in Addresses'
    <2>2. a \in Addresses /\ a[1] < closures'
        BY <1>1, <1>2, OpenObjects
    <2>3. ASSUME upvalues'[a].open
          PROVE  a[2] \in DOMAIN open' /\ open'[a[2]] = a
        <3>1. ~(upvalues[a].open /\ a[2] >= last) /\ upvalues[a].open
            <4>1. CASE upvalues[a].open /\ a[2] >= last
                <5>1. upvalues'[a] = [open |-> FALSE, closed |-> s[a[2] + 1]]
                    BY <1>4, <2>2, <4>1
                <5>2. QED
                    BY <2>3, <5>1
            <4>2. CASE ~(upvalues[a].open /\ a[2] >= last)
                <5>1. upvalues'[a] = upvalues[a]
                    BY <1>4, <2>2, <4>2
                <5>2. QED
                    BY <2>3, <4>2, <5>1
            <4>3. QED
                BY <4>1, <4>2
        <3>2. a[2] \in DOMAIN open /\ open[a[2]] = a /\ a[2] \in Nat
            BY <2>2, <3>1, OpenObjects
        <3>3. QED
            BY <1>2, <1>5, <3>1, <3>2
    <2>4. QED
        BY <2>2, <2>3
<1>7. \A slot \in DOMAIN open' : open'[slot][2] = slot /\ upvalues'[open'[slot]].open
    <2>1. TAKE slot \in DOMAIN open'
    <2>2. /\ open'[slot] = open[slot] /\ open[slot] \in Addresses /\ open[slot][2] = slot
          /\ upvalues[open[slot]].open /\ slot < last /\ slot \in Nat
        BY <1>5, OpenObjects
    <2>3. upvalues'[open[slot]] = upvalues[open[slot]]
        <3>1. ~(open[slot][2] >= last)
            BY <2>2
        <3>2. QED
            BY <1>4, <2>2, <3>1
    <2>4. QED
        BY <2>2, <2>3
<1>8. QED
    BY <1>2, <1>4, <1>6, <1>7 DEF HeapExact

(* Closed upvalues keep the values that the stack held. *)
LEMMA ClosesMade ==
  ASSUME Sound, Addresses' = Addresses,
         \A a \in Addresses :
           \/ upvalues'[a] = upvalues[a]
           \/ \E i \in 1..Len(stack) : upvalues'[a] = [open |-> FALSE, closed |-> stack[i]],
         program' = program, StackMade, UNCHANGED globals
  PROVE  AllMade'
<1>1. ASSUME NEW a \in Addresses
      PROVE  WellMade(upvalues'[a].closed)
    <2>1. WellMade(upvalues[a].closed)
        BY DEF Sound, DInv, AllMade
    <2>2. CASE upvalues'[a] = upvalues[a]
        BY <2>1, <2>2
    <2>3. ASSUME NEW i \in 1..Len(stack),
                 upvalues'[a] = [open |-> FALSE, closed |-> stack[i]]
          PROVE  WellMade(upvalues'[a].closed)
        <3>1. upvalues'[a].closed = stack[i]
            BY <2>3
        <3>2. QED
            BY <3>1, Made
    <2>4. QED
        BY <2>2, <2>3
<1>2. QED
    BY <1>1 DEF AllMade, StackMade, WellMade, Sound, DInv

LEMMA CloseUpvalueKept == Sound /\ CloseUpvalue => Kept
<1> SUFFICES ASSUME Sound, CloseUpvalue PROVE Kept
    OBVIOUS
<1> DEFINE last == Len(stack) - 1
<1>1. /\ Fetch(OpCloseUpvalue) /\ Fetch(Op) /\ Op = OpCloseUpvalue /\ Advance /\ stack # <<>>
      /\ UNCHANGED <<setup, globals>> /\ CloseUpvalues(last, stack)
    BY HereRefers DEF CloseUpvalue
<1>2. stack' = Popped(1) /\ err' = "none"
    BY <1>1 DEF CloseUpvalue, Keep, Outcome
<1>3. /\ Len(stack) \in Nat \ {0} /\ last \in Nat /\ Frame.base \in Nat /\ Height \in Nat
      /\ Frame.base + Height = Len(stack)
      /\ \A slot \in DOMAIN open :
           /\ slot \in Nat /\ slot < Len(stack)
           /\ slot >= Frame.base => slot - Frame.base \in CapturedOf(Frame)
    <2>1. Len(stack) \in Nat \ {0}
        BY <1>1, Here
    <2>2. QED
        BY <1>1, <2>1, Here
<1>4. OpCloseUpvalue \in Dropping /\ OpCloseUpvalue \in Inner \ {OpJump, OpLoop}
    BY DEF Dropping, Inner, OpCloseUpvalue, OpJump, OpLoop
<1>5. Rest(Popped(1)) /\ Takes(Code, Frame.ip) + Effect(Code, Frame.ip) = 0
      /\ Takes(Code, Frame.ip) = 1
    BY <1>1, <1>4, Sizes, RestOfStack DEF Op, Code
<1>6. StackInside /\ StackMade
    BY <1>1, <1>2, <1>5, RestInside DEF Internal
<1>7. Inside
    BY <1>1, <1>4, <1>6, AdvanceInside DEF Inside
<1>8. /\ HeapExact' /\ Addresses' = Addresses
      /\ DOMAIN open' = {slot \in DOMAIN open : slot < last}
      /\ \A a \in Addresses :
           /\ upvalues[a].open /\ a[2] >= last =>
                upvalues'[a] = [open |-> FALSE, closed |-> stack[a[2] + 1]]
           /\ ~(upvalues[a].open /\ a[2] >= last) => upvalues'[a] = upvalues[a]
    BY <1>1, <1>3, ClosesHeap
<1>9. OpenInside
    <2>1. CapturedAfter(program, Running, Frame.ip, Height, CapturedOf(Frame))
            = CapturedOf(Frame) \ {Height - 1}
        BY <1>1 DEF CapturedAfter, Op, Code
    <2>2. \A slot \in DOMAIN open' : slot - Frame.base # Height - 1
        BY <1>3, <1>8
    <2>3. QED
        BY <1>3, <1>8, <2>1, <2>2 DEF OpenInside
<1>10. \A a \in Addresses : upvalues[a].open =>
          a[2] \in Nat /\ a[2] < Len(stack) /\ a[2] + 1 \in 1..Len(stack)
    <2>1. \A slot \in DOMAIN open : slot \in Nat /\ slot < Len(stack) /\ slot + 1 \in 1..Len(stack)
        BY <1>3
    <2>2. QED
        BY <2>1, OpenObjects
<1>11. AllMade'
    <2>1. \A a \in Addresses :
            \/ upvalues'[a] = upvalues[a]
            \/ \E i \in 1..Len(stack) : upvalues'[a] = [open |-> FALSE, closed |-> stack[i]]
        BY <1>8, <1>10
    <2>2. QED
        BY <1>1, <1>6, <1>8, <2>1, ClosesMade DEF setup
<1>12. KeepsCaptured
    <2>1. SUFFICES ASSUME NEW a \in Addresses, Readable(a)
                   PROVE  \/ Readable(a)' /\ Read(a)' = Read(a)
                          \/ Executed /\ Assigns(a)
        BY DEF KeepsCaptured
    <2>2. CASE ~upvalues[a].open
        BY <1>8, <2>2 DEF Readable, Read
    <2>3. CASE upvalues[a].open /\ a[2] >= last
        <3>1. upvalues'[a] = [open |-> FALSE, closed |-> stack[a[2] + 1]]
            BY <1>8, <2>3
        <3>2. ~upvalues'[a].open /\ upvalues'[a].closed = stack[a[2] + 1]
            BY <3>1
        <3>3. QED
            BY <2>3, <3>2 DEF Readable, Read
    <2>4. CASE upvalues[a].open /\ ~(a[2] >= last)
        <3>1. a[2] \in Nat /\ a[2] + 1 \in 1..(Len(stack) - 1)
            BY <1>3, <1>10, <2>4
        <3>2. /\ Len(Popped(1)) = Len(stack) - 1
              /\ Popped(1)[a[2] + 1] = stack[a[2] + 1]
            BY <1>5, <3>1 DEF Rest
        <3>3. a[2] < Len(stack') /\ stack'[a[2] + 1] = stack[a[2] + 1]
            BY <1>2, <1>3, <3>1, <3>2
        <3>4. QED
            BY <1>8, <2>4, <3>3 DEF Readable, Read
    <2>5. QED
        BY <2>2, <2>3, <2>4
<1>13. QED
    BY <1>7, <1>8, <1>9, <1>11, <1>12, InsideKept

-----------------------------------------------------------------------------
(* What leaving the running frame does. *)
Leaves ==
  /\ Fetch(OpReturn) /\ UNCHANGED <<setup, globals>>
  /\ CloseUpvalues(Frame.base, Popped(1))
  /\ frames' = SubSeq(frames, 1, Len(frames) - 1)
  /\ Len(stack') \in Nat /\ Len(stack') >= Frame.base
  /\ \A i \in 1..Frame.base : stack'[i] = stack[i]
  /\ StackMade
  /\ err' \notin Internal
  /\ err' = "none" => \/ Len(frames) = 1 /\ done'
                      \/ Len(frames) > 1 /\ Len(stack') = Frame.base + 1

(* The result is above the callee, which is above what the frame leaves. *)
LEMMA ReturnFacts ==
  ASSUME Sound, Fetch(OpReturn)
  PROVE  /\ Fetch(Op) /\ Len(stack) \in Nat /\ Frame.base \in Nat
         /\ Len(Popped(1)) = Len(stack) - 1 /\ Frame.base < Len(stack) - 1
         /\ \A i \in 1..(Len(stack) - 1) : Popped(1)[i] = stack[i]
         /\ Popped(1) \in Seq(Val) /\ stack # <<>>
         /\ \A slot \in DOMAIN open : slot \in Nat /\ slot + 1 \in 1..(Len(stack) - 1)
<1>1. Fetch(Op) /\ Op = OpReturn /\ stack # <<>>
    BY HereRefers
<1>2. Takes(Code, Frame.ip) = 1
    BY <1>1, Sizes DEF Op, Code
<1>3. /\ Takes(Code, Frame.ip) < Height /\ Height \in Nat /\ Frame.base \in Nat
      /\ Frame.base + Height = Len(stack) /\ Len(stack) \in Nat
    BY <1>1, Here DEF DisciplinedAt, Code
<1>4. Rest(Popped(1))
    BY <1>1, <1>2, RestOfStack
<1>5. OpReturn # OpCloseUpvalue
    BY DEF OpReturn, OpCloseUpvalue
<1>6. \A slot \in DOMAIN open : slot \in Nat /\ slot + 1 \in 1..(Len(stack) - 1)
    BY <1>1, <1>2, <1>5, OpenBelow
<1>7. QED
    BY <1>1, <1>2, <1>3, <1>4, <1>6 DEF Rest

LEMMA ReturnLeaves ==
  ASSUME Sound, Return
  PROVE  Leaves
<1> DEFINE prefix == SubSeq(Popped(1), 1, Frame.base)
<1>1. /\ Fetch(OpReturn) /\ UNCHANGED <<setup, globals>> /\ stack # <<>>
      /\ Len(stack) \in Nat /\ Frame.base \in Nat
      /\ Len(Popped(1)) = Len(stack) - 1 /\ Frame.base < Len(stack) - 1
      /\ \A i \in 1..(Len(stack) - 1) : Popped(1)[i] = stack[i]
      /\ Popped(1) \in Seq(Val)
    BY ReturnFacts DEF Return
<1>2. ~(Frame.base > Len(Popped(1)))
    BY <1>1
<1>3. /\ CloseUpvalues(Frame.base, Popped(1))
      /\ frames' = SubSeq(frames, 1, Len(frames) - 1)
      /\ IF Len(frames) = 1
         THEN done' = TRUE /\ Keep(prefix)
         ELSE Push(prefix, Peek(0))
    BY <1>1, <1>2 DEF Return
<1>4. prefix \in Seq(Val) /\ Len(prefix) = Frame.base
      /\ \A i \in 1..Frame.base : prefix[i] = stack[i]
    <2>1. \A i \in 1..Frame.base : i \in 1..(Len(stack) - 1)
        BY <1>1
    <2>2. /\ prefix \in Seq(Val) /\ Len(prefix) = Frame.base
          /\ \A i \in 1..Frame.base : prefix[i] = Popped(1)[i]
        BY <1>1
    <2>3. QED
        BY <1>1, <2>1, <2>2
<1>5. WellMade(Peek(0)) /\ \A i \in 1..Frame.base : WellMade(stack[i])
    <2>1. Len(stack) - 0 \in 1..Len(stack) /\ \A i \in 1..Frame.base : i \in 1..Len(stack)
        BY <1>1
    <2>2. QED
        BY <2>1, Made DEF Peek
<1>6. Len(frames) \in Nat \ {0}
    BY Here, ReturnFacts, <1>1
<1> HIDE DEF prefix
<1>7. CASE stack' = prefix /\ ((Len(frames) = 1 /\ done' /\ err' = "none") \/ err' = "stack_overflow")
    <2>1. StackMade
        BY <1>4, <1>5, <1>7 DEF StackMade
    <2>2. QED
        BY <1>1, <1>3, <1>4, <1>7, <2>1 DEF Leaves, Internal
<1>8. CASE Len(frames) # 1 /\ stack' = Append(prefix, Peek(0)) /\ err' = "none"
    <2>1. /\ Len(stack') = Frame.base + 1 /\ stack'[Frame.base + 1] = Peek(0)
          /\ \A i \in 1..Frame.base : stack'[i] = prefix[i]
        BY <1>1, <1>4, <1>8
    <2>2. \A i \in 1..Len(stack') : i \in 1..Frame.base \/ i = Frame.base + 1
        BY <1>1, <2>1
    <2>3. StackMade
        BY <1>4, <1>5, <2>1, <2>2 DEF StackMade
    <2>4. /\ Len(frames) > 1 /\ err' \notin Internal
          /\ Len(stack') \in Nat /\ Len(stack') >= Frame.base
        <3>1. Len(frames) > 1
            <4>1. \A n \in Nat \ {0} : n # 1 => n > 1
                OBVIOUS
            <4>2. QED
                BY <1>6, <1>8, <4>1
        <3>2. err' \notin Internal
            BY <1>8 DEF Internal
        <3>3. QED
            BY <1>1, <2>1, <3>1, <3>2
    <2>5. \A i \in 1..Frame.base : stack'[i] = stack[i]
        BY <1>4, <2>1
    <2>6. QED
        BY <1>1, <1>3, <2>1, <2>3, <2>4, <2>5 DEF Leaves
<1>9. QED
    BY <1>3, <1>7, <1>8 DEF Push, Keep, Outcome

LEMMA LeftFrames ==
  ASSUME Sound, Leaves
  PROVE  /\ Len(frames) \in Nat \ {0} /\ Len(frames') = Len(frames) - 1
         /\ Frame = frames[Len(frames)]
         /\ \A i \in 1..(Len(frames) - 1) :
              /\ i \in 1..Len(frames) /\ frames'[i] = frames[i]
              /\ frames[i].base \in Nat /\ frames[i].base < Frame.base
<1>1. /\ Len(frames) \in Nat \ {0} /\ Frame = frames[Len(frames)]
      /\ Len(frames) \in 1..Len(frames) /\ frames \in Seq(FrameType)
    BY ReturnFacts, Here, Numeric DEF Leaves, Sound
<1>2. Len(frames) - 1 \in Nat /\ Len(frames) - 1 <= Len(frames)
    BY <1>1
<1>3. \A n \in Nat : n <= Len(frames) =>
         /\ Len(SubSeq(frames, 1, n)) = n
         /\ \A i \in 1..n : SubSeq(frames, 1, n)[i] = frames[i]
    BY <1>1
<1>4. Len(frames') = Len(frames) - 1
      /\ \A i \in 1..(Len(frames) - 1) : frames'[i] = frames[i]
    BY <1>2, <1>3 DEF Leaves
<1>5. \A i \in 1..(Len(frames) - 1) : i \in 1..Len(frames) /\ i < Len(frames)
    BY <1>1
<1>6. \A i \in 1..Len(frames) : frames[i].base \in Nat
    BY ReturnFacts, Here DEF Leaves
<1>7. \A i \in 1..(Len(frames) - 1) : frames[i].base < Frame.base
    BY <1>1, <1>5 DEF Sound, DInv, Nested
<1>8. QED
    BY <1>1, <1>4, <1>5, <1>6, <1>7

LEMMA LeaveNested ==
  ASSUME Sound, Leaves
  PROVE  Nested'
<1>1. /\ Len(frames) \in Nat \ {0} /\ Len(frames') = Len(frames) - 1
      /\ \A i \in 1..(Len(frames) - 1) :
           /\ i \in 1..Len(frames) /\ frames'[i] = frames[i]
           /\ frames[i].base \in Nat /\ frames[i].base < Frame.base
    BY LeftFrames
<1>2. /\ Frame.base \in Nat /\ Len(stack') \in Nat /\ Len(stack') >= Frame.base
      /\ \A i \in 1..Frame.base : stack'[i] = stack[i]
    BY ReturnFacts DEF Leaves
<1>3. ASSUME NEW i \in 1..Len(frames')
      PROVE  /\ frames'[i].base < Len(stack')
             /\ stack'[frames'[i].base + 1] = ClosureValue(frames'[i].closure)
    <2>1. i \in 1..Len(frames) /\ frames'[i] = frames[i]
          /\ frames[i].base \in Nat /\ frames[i].base < Frame.base
        BY <1>1, <1>3
    <2>2. frames[i].base + 1 \in 1..Frame.base /\ frames[i].base < Len(stack')
        BY <1>2, <2>1
    <2>3. stack[frames[i].base + 1] = ClosureValue(frames[i].closure)
        BY <2>1 DEF Sound, DInv, Nested
    <2>4. QED
        BY <1>2, <2>1, <2>2, <2>3
<1>4. \A i, j \in 1..Len(frames') : i < j => frames'[i].base < frames'[j].base
    BY <1>1 DEF Sound, DInv, Nested
<1>5. QED
    BY <1>3, <1>4 DEF Nested

LEMMA LeaveShaped ==
  ASSUME Sound, Leaves, err' = "none",
         DOMAIN open' = {slot \in DOMAIN open : slot < Frame.base}
  PROVE  Shaped'
<1> DEFINE m == Len(frames)
<1>1. /\ m \in Nat \ {0} /\ Len(frames') = m - 1 /\ Frame = frames[m]
      /\ \A i \in 1..(m - 1) :
           /\ i \in 1..m /\ frames'[i] = frames[i]
           /\ frames[i].base \in Nat /\ frames[i].base < Frame.base
    BY LeftFrames
<1>2. Frame.base \in Nat /\ Len(stack') \in Nat /\ Len(stack') >= Frame.base
      /\ program' = program /\ \A slot \in DOMAIN open : slot \in Nat
    BY ReturnFacts DEF Leaves, setup
<1>3. \A slot \in DOMAIN open' : slot < Len(stack')
    BY <1>2
<1>4. Shaped
    BY ReturnFacts, Here DEF Leaves, Sound, DInv
<1>5. ASSUME NEW i \in 1..Len(frames')
      PROVE  /\ frames'[i].ip # Len(program'[frames'[i].closure.fn].code)
             /\ Top(i)' - frames'[i].base \in HeightsOf(frames[i])'
             /\ \A slot \in DOMAIN open' :
                   Within(slot, i)' => slot - frames'[i].base \in CapturedOf(frames[i])'
    <2>1. i \in 1..(m - 1) /\ i \in 1..m /\ frames'[i] = frames[i]
        BY <1>1, <1>5
    <2>2. HeightsOf(frames[i])' = HeightsOf(frames[i]) /\ CapturedOf(frames[i])' = CapturedOf(frames[i])
        BY <1>2, <2>1 DEF HeightsOf, CapturedOf, Shapes
    <2>3. Top(i)' = Top(i)
        <3>1. CASE i = m - 1
            <4>1. m > 1 /\ i # m /\ i + 1 = m
                BY <1>1, <2>1, <3>1
            <4>2. Len(stack') = Frame.base + 1
                BY <4>1 DEF Leaves
            <4>3. Top(i)' = Len(stack')
                BY <1>1, <3>1 DEF Top
            <4>4. Top(i) = Frame.base + 1
                BY <1>1, <4>1 DEF Top
            <4>5. QED
                BY <4>2, <4>3, <4>4
        <3>2. CASE i # m - 1
            <4>1. i + 1 \in 1..(m - 1) /\ i # m
                BY <1>1, <2>1, <3>2
            <4>2. frames'[i + 1] = frames[i + 1]
                BY <1>1, <4>1
            <4>3. QED
                BY <1>1, <3>2, <4>1, <4>2 DEF Top
        <3>3. QED
            BY <3>1, <3>2
    <2>4. ASSUME NEW slot \in DOMAIN open', Within(slot, i)'
          PROVE  slot \in DOMAIN open /\ Within(slot, i)
        <3>1. slot \in DOMAIN open /\ slot < Frame.base
            OBVIOUS
        <3>2. CASE i = m - 1
            <4>1. i + 1 = m
                BY <1>1, <3>2
            <4>2. QED
                BY <1>1, <2>1, <2>4, <3>1, <4>1 DEF Within
        <3>3. CASE i # m - 1
            <4>1. i + 1 \in 1..(m - 1) /\ i < Len(frames')
                BY <1>1, <2>1, <3>3
            <4>2. frames'[i + 1] = frames[i + 1]
                BY <1>1, <4>1
            <4>3. QED
                BY <2>1, <2>4, <3>1, <4>1, <4>2 DEF Within
        <3>4. QED
            BY <3>2, <3>3
    <2>5. QED
        BY <1>2, <1>4, <2>1, <2>2, <2>3, <2>4 DEF Shaped
<1>6. QED
    BY <1>3, <1>5 DEF Shaped

LEMMA ReturnKept == Sound /\ Return => Kept
<1> SUFFICES ASSUME Sound, Return PROVE Kept
    OBVIOUS
<1>1. Leaves
    BY ReturnLeaves
<1>2. /\ Len(stack) \in Nat /\ Frame.base \in Nat /\ Fetch(Op)
      /\ Len(Popped(1)) = Len(stack) - 1 /\ Frame.base < Len(stack) - 1
      /\ \A i \in 1..(Len(stack) - 1) : Popped(1)[i] = stack[i]
      /\ \A slot \in DOMAIN open : slot \in Nat /\ slot + 1 \in 1..(Len(stack) - 1)
    BY <1>1, ReturnFacts DEF Leaves
<1>3. /\ Len(stack') \in Nat /\ Len(stack') >= Frame.base
      /\ \A i \in 1..Frame.base : stack'[i] = stack[i]
      /\ program' = program /\ prepared' = prepared /\ globals' = globals
      /\ StackMade /\ err' \notin Internal
    BY <1>1 DEF Leaves, setup
<1>4. /\ HeapExact' /\ Addresses' = Addresses
      /\ DOMAIN open' = {slot \in DOMAIN open : slot < Frame.base}
      /\ \A a \in Addresses :
           /\ upvalues[a].open /\ a[2] >= Frame.base =>
                upvalues'[a] = [open |-> FALSE, closed |-> Popped(1)[a[2] + 1]]
           /\ ~(upvalues[a].open /\ a[2] >= Frame.base) => upvalues'[a] = upvalues[a]
    <2>1. Len(Popped(1)) \in Nat /\ \A slot \in DOMAIN open : slot < Len(Popped(1))
        BY <1>2
    <2>2. CloseUpvalues(Frame.base, Popped(1))
        BY <1>1 DEF Leaves
    <2>3. QED
        BY <1>2, <2>1, <2>2, ClosesHeap
<1>5. \A a \in Addresses : upvalues[a].open =>
         /\ a[2] \in Nat /\ a[2] + 1 \in 1..Len(stack)
         /\ Popped(1)[a[2] + 1] = stack[a[2] + 1]
    <2>1. TAKE a \in Addresses
    <2>2. upvalues[a].open => a[2] \in Nat /\ a[2] + 1 \in 1..(Len(stack) - 1)
        BY <1>2, OpenObjects
    <2>3. QED
        BY <1>2, <2>2
<1>6. AllMade'
    <2>1. \A a \in Addresses :
            \/ upvalues'[a] = upvalues[a]
            \/ \E i \in 1..Len(stack) : upvalues'[a] = [open |-> FALSE, closed |-> stack[i]]
        BY <1>4, <1>5
    <2>2. QED
        BY <1>3, <1>4, <2>1, ClosesMade
<1>7. KeepsCaptured
    <2>1. SUFFICES ASSUME NEW a \in Addresses, Readable(a)
                   PROVE  Readable(a)' /\ Read(a)' = Read(a)
        BY DEF KeepsCaptured
    <2>2. CASE ~upvalues[a].open
        BY <1>4, <2>2 DEF Readable, Read
    <2>3. CASE upvalues[a].open /\ a[2] >= Frame.base
        <3>1. upvalues'[a] = [open |-> FALSE, closed |-> stack[a[2] + 1]]
            BY <1>4, <1>5, <2>3
        <3>2. ~upvalues'[a].open /\ upvalues'[a].closed = stack[a[2] + 1]
            BY <3>1
        <3>3. QED
            BY <2>3, <3>2 DEF Readable, Read
    <2>4. CASE upvalues[a].open /\ ~(a[2] >= Frame.base)
        <3>1. a[2] + 1 \in 1..Frame.base /\ a[2] < Len(stack')
            BY <1>2, <1>3, <1>5, <2>4
        <3>2. QED
            BY <1>3, <1>4, <2>4, <3>1 DEF Readable, Read
    <2>5. QED
        BY <2>2, <2>3, <2>4
<1>8. KeepsCallerSlots
    BY <1>2, <1>3 DEF KeepsCallerSlots
<1>9. Untouched' /\ Underway'
    <2>1. prepared
        BY <1>2, Here
    <2>2. err' = "none" => done' \/ Len(frames) > 1
        BY <1>1 DEF Leaves
    <2>3. Len(frames) > 1 => Len(frames') # 0
        BY <1>1, LeftFrames
    <2>4. QED
        BY <1>3, <2>1, <2>2, <2>3 DEF Untouched, Underway
<1>10. QED
    BY <1>1, <1>3, <1>4, <1>6, <1>7, <1>8, <1>9, LeaveNested, LeaveShaped DEF Kept, DInv

-----------------------------------------------------------------------------
(* A step that ends the run and changes nothing else. *)
LEMMA StopKept ==
  ASSUME Sound, NEW e, e \notin Internal \cup {"none"}, Active, Stop(e)
  PROVE  Kept
<1>1. /\ stack' = stack /\ err' = e /\ UNCHANGED <<setup, frames, globals, heap>>
    BY DEF Stop, Fail, Outcome
<1>2. AllMade' /\ HeapExact' /\ Nested'
    BY <1>1 DEF Sound, DInv, AllMade, HeapExact, Nested, WellMade, Addresses, heap, setup
<1>3. Untouched' /\ Underway' /\ err' \notin Internal /\ err' # "none"
    BY <1>1 DEF Untouched, Underway, Active, setup
<1>4. KeepsCaptured
    BY <1>1 DEF KeepsCaptured, heap, Readable, Read
<1>5. KeepsCallerSlots
    <2>1. SUFFICES ASSUME frames # <<>>, NEW i \in 1..Frame.base PROVE i <= Len(stack')
        BY <1>1 DEF KeepsCallerSlots
    <2>2. Len(frames) \in 1..Len(frames) /\ Frame \in FrameType /\ Len(stack) \in Nat
        BY <2>1, FrameFacts, Numeric DEF Sound
    <2>3. Frame.base < Len(stack) /\ Frame.base \in Nat
        BY <2>2 DEF Sound, DInv, Nested, Frame, FrameType
    <2>4. QED
        BY <1>1, <2>1, <2>2, <2>3
<1>6. QED
    BY <1>2, <1>3, <1>4, <1>5 DEF Kept, DInv

(* The instruction pointer of a disciplined program is never out of range. *)
LEMMA NoDecodeFault ==
  ASSUME Sound
  PROVE  ~DecodeFault
<1> SUFFICES ASSUME DecodeFault PROVE FALSE
    OBVIOUS
<1>1. Active /\ frames # <<>> /\ (~InRange \/ (InRange /\ ~Decodes))
    BY DEF DecodeFault, WithinSteps, Active, Sound, DInv, Underway
<1>2. InRange
    <2>1. Len(frames) \in 1..Len(frames) /\ Frame = frames[Len(frames)] /\ err = "none"
          /\ Running \in Function /\ OnBoundary(Frame)
        BY <1>1, FrameFacts DEF Sound, Frame, Active
    <2>2. Frame.ip \in Running.boundaries \ {Len(Running.code)}
        BY SMTT(30), <2>1, FrameDisciplined DEF Running
    <2>3. Running.boundaries \subseteq 0..Len(Running.code) /\ Len(Running.code) \in Nat
        BY Zenon, <2>1 DEF OnBoundary, Validated, WellFormed, Function, Running
    <2>4. QED
        BY <1>1, <2>2, <2>3 DEF InRange
<1>3. QED
    BY <1>1, <1>2, BoundaryDecodes DEF Sound

LEMMA StopsKept == Sound /\ (Cancel \/ InstructionLimit \/ DecodeFault) => Kept
<1>1. {"canceled", "instruction_limit"} \cap (Internal \cup {"none"}) = {}
    BY DEF Internal
<1>2. QED
    BY <1>1, NoDecodeFault, StopKept DEF Cancel, InstructionLimit

-----------------------------------------------------------------------------
(* Prepare finds every function valid, and enters the first.  A call that  *)
(* fails leaves the closure on the stack, and no frame.                    *)
LEMMA PrepareKept == Sound /\ Prepare => Kept
<1> SUFFICES ASSUME Sound, Prepare PROVE Kept
    OBVIOUS
<1> DEFINE entry == [closure |-> Script, ip |-> 0, base |-> 0]
           s == <<ClosureValue(Script)>>
<1>1. /\ ~prepared /\ prepared' = TRUE /\ program' = program
      /\ UNCHANGED globals /\ upvalues' = upvalues /\ open' = open
      /\ stack = <<>> /\ frames = <<>> /\ Addresses = {} /\ DOMAIN open = {}
    BY DEF Prepare, Sound, DInv, Untouched
<1>2. /\ program[1].upvalues = <<>> /\ 1 \in Functions
      /\ \A k \in 1..Len(program) :
           /\ Validated(program[k])
           /\ program[k].arity + 1 \in At(ShapesOf(program, k).heights, 0)
    <2>1. 1 \in Functions
        BY DEF Sound, IInv, TypeOK, IsProgram, Functions
    <2>2. QED
        BY <2>1 DEF Sound, Disciplined
<1>3. CallClosure(Script, 0, <<>>, s)
    BY <1>2 DEF Prepare
<1>4. stack' = s /\ Len(s) = 1 /\ s[1] = ClosureValue(Script)
    BY <1>3 DEF CallClosure, Keep, Outcome
<1>5. AllMade'
    <2>1. WellMade(ClosureValue(Script))
        BY <1>2 DEF WellMade, ClosureValue, Script
    <2>2. QED
        BY <1>1, <1>4, <2>1 DEF AllMade, WellMade, Sound, DInv, Addresses
<1>6. HeapExact' /\ Untouched' /\ KeepsCaptured /\ KeepsCallerSlots
    BY <1>1 DEF HeapExact, Untouched, KeepsCaptured, KeepsCallerSlots, Addresses
<1>7. CASE frames' = <<>>
    <2>1. err' \in {"arity", "frame_limit"}
        BY <1>3, <1>7 DEF CallClosure, Keep, Outcome
    <2>2. err' \notin Internal /\ err' # "none"
        BY <2>1 DEF Internal
    <2>3. Nested' /\ Underway'
        BY <1>7, <2>2 DEF Nested, Underway
    <2>4. QED
        BY <1>5, <1>6, <2>2, <2>3 DEF Kept, DInv
<1>8. CASE frames' # <<>>
    <2>1. frames' = <<entry>> /\ err' = "none" /\ program[Script.fn].arity = 0
        BY <1>3, <1>8 DEF CallClosure, Keep, Outcome
    <2>2. Len(frames') = 1 /\ frames'[1] = entry
        BY <2>1
    <2>3. \A i \in 1..Len(frames') : i = 1
        BY <2>2
    <2>4. Nested' /\ Underway'
        BY <1>4, <1>8, <2>2, <2>3 DEF Nested, Underway
    <2>5. Shaped'
        <3>1. frames'[1].ip # Len(program'[frames'[1].closure.fn].code)
            BY <1>1, <1>2, <2>2 DEF Script, Validated, EndsWithReturn, Functions
        <3>2. Top(1)' - frames'[1].base = 1
            BY <1>4, <2>2 DEF Top
        <3>3. HeightsOf(frames[1])' = At(ShapesOf(program, 1).heights, 0)
            BY <1>1, <2>2 DEF HeightsOf, Shapes, Script
        <3>4. 1 \in At(ShapesOf(program, 1).heights, 0)
            BY <1>2, <2>1 DEF Script, Functions
        <3>5. QED
            BY <1>1, <2>3, <3>1, <3>2, <3>3, <3>4 DEF Shaped
    <2>6. err' \notin Internal
        BY <2>1 DEF Internal
    <2>7. QED
        BY <1>5, <1>6, <2>4, <2>5, <2>6 DEF Kept, DInv
<1>9. QED
    BY <1>7, <1>8

LEMMA InitDInv == Init => DInv
<1> SUFFICES ASSUME Init PROVE DInv
    OBVIOUS
<1>1. /\ stack = <<>> /\ frames = <<>> /\ prepared = FALSE /\ err = "none"
      /\ DOMAIN upvalues = {} /\ DOMAIN open = {}
      /\ globals = [name \in {<<n>> : n \in Natives} |-> NativeValue(name[1])]
    BY DEF Init
<1>2. \A name \in DOMAIN globals : WellMade(globals[name])
    BY <1>1 DEF WellMade, NativeValue, IsClosure, TypeName
<1>3. AllMade /\ HeapExact
    BY <1>1, <1>2 DEF AllMade, HeapExact, Addresses
<1>4. Untouched /\ Underway /\ Nested /\ Shaped /\ err \notin Internal
    BY <1>1 DEF Untouched, Underway, Nested, Shaped, Internal, Addresses
<1>5. QED
    BY <1>3, <1>4 DEF DInv

LEMMA UnchangedKept == Sound /\ UNCHANGED vars => Kept
<1> SUFFICES ASSUME Sound, UNCHANGED vars PROVE Kept
    OBVIOUS
<1>1. /\ stack' = stack /\ frames' = frames /\ prepared' = prepared /\ err' = err
      /\ upvalues' = upvalues /\ open' = open /\ closures' = closures /\ done' = done
      /\ globals' = globals /\ program' = program
    BY DEF vars, setup, heap, ending
<1>2. DInv'
    BY <1>1 DEF Sound, DInv, AllMade, HeapExact, Untouched, Underway, Nested, Shaped,
                WellMade, Within, Top, HeightsOf, CapturedOf, Shapes, Addresses
<1>3. KeepsCaptured
    BY <1>1 DEF KeepsCaptured, Readable, Read
<1>4. KeepsCallerSlots
    <2>1. SUFFICES ASSUME frames # <<>>, NEW i \in 1..Frame.base PROVE i <= Len(stack')
        BY <1>1 DEF KeepsCallerSlots
    <2>2. Len(frames) \in 1..Len(frames) /\ Frame \in FrameType /\ Len(stack) \in Nat
        BY <2>1, FrameFacts, Numeric DEF Sound
    <2>3. Frame.base < Len(stack) /\ Frame.base \in Nat
        BY SMTT(30), <2>2 DEF Sound, DInv, Nested, Frame, FrameType
    <2>4. QED
        BY <1>1, <2>1, <2>2, <2>3
<1>5. QED
    BY <1>2, <1>3, <1>4 DEF Kept

LEMMA ProgramKept == Next => program' = program
BY Zenon DEF Next, Prepare, Cancel, InstructionLimit, DecodeFault, Stop, PushConstant,
       PushNil, PushTrue, PushFalse, Pop, Dup, GetLocal, SetLocal, GlobalOp, GetGlobal,
       DefineGlobal, SetGlobal, GetUpvalue, SetUpvalue, CreateClosure, CloseUpvalue,
       BinaryOp, CompareEqual, Greater, Less, Add, Subtract, Multiply, Divide, Not,
       Negate, PrintValue, JumpOp, Jump, JumpIfFalse, Loop, Call, Return, StackOp, setup

LEMMA NextKept == Sound /\ [Next]_vars => Kept
<1>1. Sound /\ Next => Kept
    BY PrepareKept, StopsKept, PushesKept, PopKept, GetLocalKept, SetLocalKept,
       GetGlobalKept, DefineGlobalKept, SetGlobalKept, GetUpvalueKept, SetUpvalueKept,
       CreateClosureKept, CloseUpvalueKept, CombiningKept, DivideKept, UnaryKept,
       PrintValueKept, JumpsKept, CallKept, ReturnKept
    DEF Next
<1>2. QED
    BY <1>1, UnchangedKept

(* The invariant of both theorems: on a disciplined program, DInv. *)
DisciplinedSound == IInv /\ (DInv \/ ~Disciplined(program))

LEMMA NextDisciplined ==
  DisciplinedSound /\ [Next]_vars =>
    DisciplinedSound' /\ ((KeepsCaptured /\ KeepsCallerSlots) \/ ~Disciplined(program))
<1> SUFFICES ASSUME DisciplinedSound, [Next]_vars
             PROVE  DisciplinedSound' /\ ((KeepsCaptured /\ KeepsCallerSlots) \/ ~Disciplined(program))
    OBVIOUS
<1>1. IInv'
    BY NextIInv DEF DisciplinedSound
<1>2. program' = program
    BY ProgramKept DEF vars, setup
<1>3. Disciplined(program)' <=> Disciplined(program)
    BY <1>2
<1>4. Disciplined(program) => Kept
    BY NextKept DEF DisciplinedSound, Sound
<1>5. QED
    BY <1>1, <1>3, <1>4 DEF DisciplinedSound, Kept

(* Whatever compiled it, a program that follows the discipline runs to its *)
(* end, its limits or an error of its own: the machine never underflows or *)
(* leaves its stack, never misses an upvalue or a constant and never runs  *)
(* off a function; its frames nest and its map of open upvalues is exact.  *)
THEOREM DisciplinedRuns == Spec => []DisciplineSuffices
<1>1. Init => DisciplinedSound
    BY InitIInv, InitDInv DEF DisciplinedSound
<1>2. DisciplinedSound /\ [Next]_vars => DisciplinedSound'
    BY NextDisciplined
<1>3. DisciplinedSound => DisciplineSuffices
    BY DInvImplies DEF DisciplinedSound, DisciplineSuffices
<1>4. QED
    BY <1>1, <1>2, <1>3, PTL DEF Spec

(* And no step of it changes a captured variable or a slot of a caller but *)
(* an assignment to it: not the end of a block, a return or the reuse of a *)
(* slot.                                                                   *)
THEOREM DisciplinedKeepsVariables == Spec => DisciplineKeepsVariables
<1>1. Init => DisciplinedSound
    BY InitIInv, InitDInv DEF DisciplinedSound
<1>2. DisciplinedSound /\ [Next]_vars => DisciplinedSound'
    BY NextDisciplined
<1>3. DisciplinedSound /\ [Next]_vars =>
        [(KeepsCaptured /\ KeepsCallerSlots) \/ ~Disciplined(program)]_vars
    BY NextDisciplined
<1>4. QED
    BY <1>1, <1>2, <1>3, PTL DEF Spec, DisciplineKeepsVariables
=============================================================================
