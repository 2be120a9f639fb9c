--------------------------------- MODULE VM ---------------------------------
(***************************************************************************)
(* internal/vm: one machine, from Prepare until the program is done or a   *)
(* step fails.  Every action is one call of VM.Step: what precedes the     *)
(* switch (cancellation, instruction limit, readOp) and one of its cases.  *)
(*                                                                         *)
(* A failing step keeps what it changed before the error, as the source    *)
(* does, and is the last step: Execute returns and a debug session never   *)
(* steps the machine again.                                                *)
(*                                                                         *)
(* The heap of upvalue objects is the function upvalues; the address of an *)
(* object is the identity of the closure whose creation allocated it and   *)
(* the stack slot it was opened on, which its field index keeps.           *)
(***************************************************************************)
EXTENDS Discipline

CONSTANTS Programs,       \* the programs handed to Prepare
          LimitsSet,      \* the Limits a machine may be made with
          TextSizes,      \* the bytes a printed value and its newline may take
          ClockReadings   \* what the native function clock may return

ASSUME VMAssumption ==
  /\ \A p \in Programs : IsProgram(p)
  /\ LimitsSet \subseteq [maxStack: Nat \ {0}, maxFrames: Nat, maxSteps: Nat,
                          maxOutputBytes: Nat]
  /\ TextSizes \subseteq Nat \ {0}
  /\ ClockReadings \subseteq Int

VARIABLES limits, program,     \* what the machine was made with and runs
          prepared,            \* Prepare has been called
          stack, peak,         \* vm.stack: its values and the largest length
          frames,              \* vm.frames, the running one last
          globals,             \* vm.globals
          closures,            \* closures created so far
          upvalues,            \* the upvalue objects
          open,                \* vm.open: slot -> upvalue object
          output, outputBytes, \* values printed, and the length of their text
          instructions,        \* stats.Instructions
          maxFrames,           \* stats.MaxFrames
          done, result,        \* vm.done, vm.result
          err                  \* the kind of error that ended the run, or "none"

setup == <<limits, program, prepared>>
heap == <<closures, upvalues, open>>
printed == <<output, outputBytes>>
ending == <<done, result>>
vars == <<setup, stack, peak, frames, globals, heap, printed, instructions,
          maxFrames, ending, err>>

(* New *)
Init ==
  /\ limits \in LimitsSet
  /\ program \in Programs
  /\ prepared = FALSE
  /\ stack = <<>> /\ peak = 0
  /\ frames = <<>> /\ maxFrames = 0
  /\ globals = [name \in {<<n>> : n \in Natives} |-> NativeValue(name[1])]
  /\ closures = 0
  /\ upvalues = [a \in {} |-> Nil]
  /\ open = [slot \in {} |-> Nil]
  /\ output = <<>> /\ outputBytes = 0
  /\ instructions = 0
  /\ done = FALSE /\ result = Nil
  /\ err = "none"
-----------------------------------------------------------------------------
(* The running frame, and the instruction at its IP. *)
Frame == frames[Len(frames)]
Running == program[Frame.closure.fn]
Op == ByteAt(Running.code, Frame.ip)
Operand == ByteAt(Running.code, Frame.ip + 1)
Short == DecodeUint16(Operand, ByteAt(Running.code, Frame.ip + 2))
Constant == Running.constants[Operand + 1]
NextIP == Frame.ip + 1 + OperandBytes(Op)
Slot == Frame.base + Operand
Captured == Frame.closure.upvalues

Larger(m, n) == IF m >= n THEN m ELSE n

(* Stack.Peek and what two pops leave. *)
Peek(distance) == stack[Len(stack) - distance]
Popped(n) == SubSeq(stack, 1, Len(stack) - n)

(* How a step leaves the stack, and its error. *)
Outcome(s, e) ==
  /\ stack' = s
  /\ peak' = Larger(peak, Len(s))
  /\ err' = e

Fail(e) == Outcome(stack, e)
Keep(s) == Outcome(s, "none")

(* Stack.Push on a stack that the step has changed to s. *)
Push(s, v) ==
  IF Len(s) >= limits.maxStack
  THEN Outcome(s, "stack_overflow")
  ELSE Keep(Append(s, v))

Active == prepared /\ ~done /\ err = "none"
WithinSteps == Active /\ instructions < limits.maxSteps
InRange == frames # <<>> /\ Frame.ip \in 0..(Len(Running.code) - 1)
Decodes == InstructionEnd(Running.code, Len(Running.constants), Frame.ip) # NoEnd

(* readOp and the operand reads of a case that finds op.  (Definitions     *)
(* placed before another with a shorter name, like FetchUncounted, are     *)
(* faulty versions that the properties must tell from the real one.)       *)
FetchUncounted(op) ==
  /\ WithinSteps
  /\ InRange
  /\ Decodes
  /\ Op = op
  /\ UNCHANGED instructions

FetchPastLimit(op) ==
  /\ Active /\ instructions <= limits.maxSteps
  /\ InRange
  /\ Decodes
  /\ Op = op
  /\ instructions' = instructions + 1

Fetch(op) ==
  /\ WithinSteps
  /\ InRange
  /\ Decodes
  /\ Op = op
  /\ instructions' = instructions + 1

Goto(ip) == frames' = [frames EXCEPT ![Len(frames)].ip = ip]
Advance == Goto(NextIP)

(* A case that changes nothing but the stack. *)
StackOp(op) ==
  /\ Fetch(op)
  /\ Advance
  /\ UNCHANGED <<setup, globals, heap, printed, maxFrames, ending>>
-----------------------------------------------------------------------------
(* The cases of Step that end a run before an instruction. *)
Stop(e) == Fail(e) /\ UNCHANGED <<setup, frames, globals, heap, printed,
                                  instructions, maxFrames, ending>>

Cancel == Active /\ Stop("canceled")

InstructionLimit ==
  /\ Active
  /\ instructions >= limits.maxSteps
  /\ Stop("instruction_limit")

(* readOp, readByte and readConstant fail: the IP is left after the bytes  *)
(* that could be read.                                                     *)
DecodeFault ==
  /\ WithinSteps
  /\ \/ ~InRange /\ Stop("instruction_pointer")
     \/ /\ InRange
        /\ ~Decodes
        /\ Fail("bad_instruction")
        /\ instructions' = instructions + 1
        /\ \E ip \in (Frame.ip + 1)..(Frame.ip + 3) : Goto(ip)
        /\ UNCHANGED <<setup, globals, heap, printed, maxFrames, ending>>
-----------------------------------------------------------------------------
(* Constants, and values already on the stack. *)
PushConstant ==
  /\ StackOp(OpConstant)
  /\ IF Constant[1] = "function" THEN Fail("constant_type") ELSE Push(stack, Constant)

PushNil == StackOp(OpNil) /\ Push(stack, Nil)
PushTrue == StackOp(OpTrue) /\ Push(stack, Bool(TRUE))
PushFalse == StackOp(OpFalse) /\ Push(stack, Bool(FALSE))

Pop ==
  /\ StackOp(OpPop)
  /\ IF stack = <<>> THEN Fail("stack_underflow") ELSE Keep(Popped(1))

Dup ==
  /\ StackOp(OpDup)
  /\ IF stack = <<>> THEN Fail("stack_index") ELSE Push(stack, Peek(0))

GetLocal ==
  /\ StackOp(OpGetLocal)
  /\ IF Slot >= Len(stack) THEN Fail("stack_index") ELSE Push(stack, stack[Slot + 1])

SetLocalAbsolute ==
  /\ StackOp(OpSetLocal)
  /\ IF Operand >= Len(stack)
     THEN Fail("stack_index")
     ELSE Keep([stack EXCEPT ![Operand + 1] = Peek(0)])

SetLocal ==
  /\ StackOp(OpSetLocal)
  /\ IF Slot >= Len(stack)
     THEN Fail("stack_index")
     ELSE Keep([stack EXCEPT ![Slot + 1] = Peek(0)])
-----------------------------------------------------------------------------
(* Globals: readName, then the map. *)
GlobalOp(op) ==
  /\ Fetch(op)
  /\ Advance
  /\ UNCHANGED <<setup, heap, printed, maxFrames, ending>>

Defined == Constant[2] \in DOMAIN globals
BindGlobal(v) ==
  globals' = [name \in DOMAIN globals \cup {Constant[2]} |->
                IF name = Constant[2] THEN v ELSE globals[name]]

GetGlobal ==
  /\ GlobalOp(OpGetGlobal)
  /\ UNCHANGED globals
  /\ IF ~IsString(Constant) THEN Fail("constant_type")
     ELSE IF ~Defined THEN Fail("undefined_variable")
     ELSE Push(stack, globals[Constant[2]])

DefineGlobal ==
  /\ GlobalOp(OpDefineGlobal)
  /\ IF /\ IsString(Constant)
        /\ ~Defined
        /\ stack # <<>>
     THEN BindGlobal(Peek(0)) /\ Keep(Popped(1))
     ELSE /\ UNCHANGED globals
          /\ Fail(IF ~IsString(Constant) THEN "constant_type"
                  ELSE IF Defined THEN "already_defined"
                  ELSE "stack_underflow")

SetGlobal ==
  /\ GlobalOp(OpSetGlobal)
  /\ IF /\ IsString(Constant)
        /\ Defined
        /\ stack # <<>>
     THEN BindGlobal(Peek(0)) /\ Keep(stack)
     ELSE /\ UNCHANGED globals
          /\ Fail(IF ~IsString(Constant) THEN "constant_type"
                  ELSE IF ~Defined THEN "undefined_variable"
                  ELSE "stack_index")
-----------------------------------------------------------------------------
(* Upvalue.Get: through the stack slot while the object is open. *)
Readable(a) == upvalues[a].open => a[2] < Len(stack)
Read(a) == IF upvalues[a].open THEN stack[a[2] + 1] ELSE upvalues[a].closed

GetUpvalue ==
  /\ StackOp(OpGetUpvalue)
  /\ IF Operand >= Len(Captured) THEN Fail("upvalue_index")
     ELSE IF ~Readable(Captured[Operand + 1]) THEN Fail("stack_index")
     ELSE Push(stack, Read(Captured[Operand + 1]))

(* Upvalue.Set *)
Assign(a, v) ==
  IF upvalues[a].open
  THEN Keep([stack EXCEPT ![a[2] + 1] = v]) /\ UNCHANGED upvalues
  ELSE Keep(stack) /\ upvalues' = [upvalues EXCEPT ![a].closed = v]

SetUpvalue ==
  /\ Fetch(OpSetUpvalue)
  /\ Advance
  /\ UNCHANGED <<setup, globals, closures, open, printed, maxFrames, ending>>
  /\ IF Operand < Len(Captured) /\ stack # <<>> /\ Readable(Captured[Operand + 1])
     THEN Assign(Captured[Operand + 1], Peek(0))
     ELSE /\ UNCHANGED upvalues
          /\ Fail(IF Operand >= Len(Captured) THEN "upvalue_index" ELSE "stack_index")

(* captureUpvalue: the object open on slot, a new one if there is none. *)
CaptureFresh(slot) == <<closures, slot>>

Capture(slot) == IF slot \in DOMAIN open THEN open[slot] ELSE <<closures, slot>>

CreateClosure ==
  /\ Fetch(OpClosure)
  /\ Advance
  /\ UNCHANGED <<setup, globals, printed, maxFrames, ending>>
  /\ IF Constant[1] # "function"
     THEN Fail("constant_type") /\ UNCHANGED heap
     ELSE LET specs == program[Constant[2]].upvalues
              SlotOf(i) == Frame.base + specs[i].index
              missing == {i \in 1..Len(specs) :
                            ~specs[i].isLocal /\ specs[i].index >= Len(Captured)}
              reached == {i \in 1..Len(specs) : \A j \in missing : i < j}
              locals == {SlotOf(i) : i \in {j \in reached : specs[j].isLocal}}
              fresh == {Capture(slot) : slot \in locals} \ DOMAIN upvalues
              Address(i) == IF specs[i].isLocal THEN Capture(SlotOf(i))
                            ELSE Captured[specs[i].index + 1]
          IN /\ closures' = closures + 1
             /\ open' = [slot \in DOMAIN open \cup locals |-> Capture(slot)]
             /\ upvalues' = [a \in DOMAIN upvalues \cup fresh |->
                               IF a \in DOMAIN upvalues THEN upvalues[a]
                               ELSE [open |-> TRUE, closed |-> Nil]]
             /\ IF missing # {}
                THEN Fail("upvalue_index")
                ELSE Push(stack, ClosureValue(
                       [id |-> closures, fn |-> Constant[2],
                        upvalues |-> [i \in 1..Len(specs) |-> Address(i)]]))

(* closeUpvalues(last) on the stack s.  An object opened beyond s cannot   *)
(* be closed (Upvalue.Close fails) but leaves the map like the others.     *)
CloseUpvaluesUndeleted(last, s) ==
  /\ upvalues' = [a \in DOMAIN upvalues |->
                    IF a[2] >= last /\ a[2] < Len(s)
                    THEN [open |-> FALSE, closed |-> s[a[2] + 1]]
                    ELSE upvalues[a]]
  /\ UNCHANGED <<closures, open>>

CloseUpvaluesForget(last, s) ==
  /\ open' = [slot \in {o \in DOMAIN open : o < last} |-> open[slot]]
  /\ UNCHANGED <<closures, upvalues>>

CloseUpvalues(last, s) ==
  LET closing == {slot \in DOMAIN open : slot >= last}
  IN /\ open' = [slot \in DOMAIN open \ closing |-> open[slot]]
     /\ upvalues' = [a \in DOMAIN upvalues |->
                       IF a[2] \in closing /\ open[a[2]] = a /\ a[2] < Len(s)
                       THEN [open |-> FALSE, closed |-> s[a[2] + 1]]
                       ELSE upvalues[a]]
     /\ UNCHANGED closures

CloseUpvalue ==
  /\ Fetch(OpCloseUpvalue)
  /\ Advance
  /\ CloseUpvalues(Len(stack) - 1, stack)
  /\ IF stack = <<>> THEN Fail("stack_underflow") ELSE Keep(Popped(1))
  /\ UNCHANGED <<setup, globals, printed, maxFrames, ending>>
-----------------------------------------------------------------------------
(* Operators.  accepted and result are those of the two operands. *)
Left == Peek(1)
Right == Peek(0)
Numbers == IsNumber(Left) /\ IsNumber(Right)

BinaryOp(op, accepted, outcome) ==
  /\ StackOp(op)
  /\ IF Len(stack) < 2 THEN Outcome(<<>>, "stack_underflow")
     ELSE IF ~accepted THEN Outcome(Popped(2), "operand_type")
     ELSE Push(Popped(2), outcome)

CompareEqual == BinaryOp(OpEqual, TRUE, Bool(Equal(Left, Right)))
Greater == BinaryOp(OpGreater, Numbers, Bool(Left[2] > Right[2]))
Less == BinaryOp(OpLess, Numbers, Bool(Left[2] < Right[2]))

Add ==
  BinaryOp(OpAdd, Numbers \/ (IsString(Left) /\ IsString(Right)),
           IF IsNumber(Left) THEN Number(Left[2] + Right[2])
           ELSE String(Left[2] \o Right[2]))

SubtractSwapped == BinaryOp(OpSubtract, Numbers, Number(Right[2] - Left[2]))
Subtract == BinaryOp(OpSubtract, Numbers, Number(Left[2] - Right[2]))
Multiply == BinaryOp(OpMultiply, Numbers, Number(Left[2] * Right[2]))

Quotient(a, b) == IF b > 0 THEN a \div b ELSE (-a) \div (-b)

Divide ==
  /\ StackOp(OpDivide)
  /\ IF Len(stack) < 2 THEN Outcome(<<>>, "stack_underflow")
     ELSE IF ~Numbers THEN Outcome(Popped(2), "operand_type")
     ELSE IF Right[2] = 0 THEN Outcome(Popped(2), "division_by_zero")
     ELSE Push(Popped(2), Number(Quotient(Left[2], Right[2])))

Not ==
  /\ StackOp(OpNot)
  /\ IF stack = <<>> THEN Fail("stack_underflow")
     ELSE Push(Popped(1), Bool(IsFalsey(Peek(0))))

Negate ==
  /\ StackOp(OpNegate)
  /\ IF stack = <<>> THEN Fail("stack_underflow")
     ELSE IF ~IsNumber(Peek(0)) THEN Outcome(Popped(1), "operand_type")
     ELSE Push(Popped(1), Number(-Peek(0)[2]))

PrintValue ==
  /\ Fetch(OpPrint)
  /\ Advance
  /\ UNCHANGED <<setup, globals, heap, maxFrames, ending>>
  /\ IF stack = <<>> THEN Fail("stack_underflow") /\ UNCHANGED printed
     ELSE \E size \in TextSizes :
            IF outputBytes + size > limits.maxOutputBytes
            THEN Outcome(Popped(1), "output_limit") /\ UNCHANGED printed
            ELSE /\ Keep(Popped(1))
                 /\ output' = Append(output, Peek(0))
                 /\ outputBytes' = outputBytes + size
-----------------------------------------------------------------------------
(* Jumps. *)
JumpOp(op) ==
  /\ Fetch(op)
  /\ UNCHANGED <<setup, globals, heap, printed, maxFrames, ending>>

Jump == JumpOp(OpJump) /\ Goto(NextIP + Short) /\ Keep(stack)

JumpIfFalsePops ==
  /\ JumpOp(OpJumpIfFalse)
  /\ IF stack = <<>> THEN Advance /\ Fail("stack_index")
     ELSE /\ Goto(IF IsFalsey(Peek(0)) THEN NextIP + Short ELSE NextIP)
          /\ Keep(Popped(1))

JumpIfFalse ==
  /\ JumpOp(OpJumpIfFalse)
  /\ IF stack = <<>> THEN Advance /\ Fail("stack_index")
     ELSE /\ Goto(IF IsFalsey(Peek(0)) THEN NextIP + Short ELSE NextIP)
          /\ Keep(stack)

LoopFromOpcode == JumpOp(OpLoop) /\ Goto(Frame.ip - Short) /\ Keep(stack)

Loop == JumpOp(OpLoop) /\ Goto(NextIP - Short) /\ Keep(stack)
-----------------------------------------------------------------------------
(* Calls.  callClosure, with the frames of the caller. *)
CallClosureAboveCallee(callee, count, caller, s) ==
  IF program[callee.fn].arity # count \/ Len(caller) >= limits.maxFrames
  THEN frames' = caller /\ UNCHANGED maxFrames /\ Outcome(s, "frame_limit")
  ELSE /\ frames' = Append(caller, [closure |-> callee, ip |-> 0,
                                    base |-> Len(s) - count])
       /\ maxFrames' = Larger(maxFrames, Len(caller) + 1)
       /\ Keep(s)

CallClosure(callee, count, caller, s) ==
  IF program[callee.fn].arity # count \/ Len(caller) >= limits.maxFrames
  THEN /\ frames' = caller
       /\ UNCHANGED maxFrames
       /\ Outcome(s, IF program[callee.fn].arity # count THEN "arity" ELSE "frame_limit")
  ELSE /\ frames' = Append(caller, [closure |-> callee, ip |-> 0,
                                    base |-> Len(s) - count - 1])
       /\ maxFrames' = Larger(maxFrames, Len(caller) + 1)
       /\ Keep(s)

(* Native.Invoke: the values the native may return, none if it fails. *)
Invoke(name, args) ==
  CASE name = "clock" /\ args = <<>> -> {Number(t) : t \in ClockReadings}
    [] name = "type" /\ Len(args) = 1 -> {String(<<TypeName(args[1])>>)}
    [] name = "len" /\ Len(args) = 1 /\ IsString(args[1]) ->
         {Number(Len(args[1][2]))}
    [] OTHER -> {}

CallNative(name, count) ==
  LET base == Len(stack) - count - 1
      results == Invoke(name, SubSeq(stack, base + 2, Len(stack)))
  IN \/ results = {} /\ Fail("native")
     \/ \E v \in results : Push(SubSeq(stack, 1, base), v)

AdvancedToOperand == [frames EXCEPT ![Len(frames)].ip = Frame.ip + 1]

Advanced == [frames EXCEPT ![Len(frames)].ip = NextIP]

Call ==
  /\ Fetch(OpCall)
  /\ UNCHANGED <<setup, globals, heap, printed, ending>>
  /\ IF Operand < Len(stack) /\ IsClosure(Peek(Operand))
     THEN CallClosure(Peek(Operand)[2], Operand, Advanced, stack)
     ELSE /\ Advance
          /\ UNCHANGED maxFrames
          /\ IF Operand >= Len(stack) THEN Fail("stack_index")
             ELSE IF IsNative(Peek(Operand)) THEN CallNative(Peek(Operand)[2], Operand)
             ELSE Fail("not_callable")

(* returnFromCall: the result leaves the stack before the upvalues of the  *)
(* frame are closed, and the frame leaves before the stack is truncated.   *)
Return ==
  /\ Fetch(OpReturn)
  /\ UNCHANGED <<setup, globals, printed, maxFrames>>
  /\ IF stack = <<>>
     THEN Advance /\ Fail("stack_underflow") /\ UNCHANGED <<heap, ending>>
     ELSE LET rest == Popped(1)
          IN /\ CloseUpvalues(Frame.base, rest)
             /\ frames' = SubSeq(frames, 1, Len(frames) - 1)
             /\ IF Frame.base > Len(rest)
                THEN Outcome(rest, "truncate") /\ UNCHANGED ending
                ELSE IF Len(frames) = 1
                THEN /\ done' = TRUE
                     /\ result' = Peek(0)
                     /\ Keep(SubSeq(rest, 1, Frame.base))
                ELSE /\ UNCHANGED ending
                     /\ Push(SubSeq(rest, 1, Frame.base), Peek(0))
-----------------------------------------------------------------------------
(* Prepare: Validate, Reset, then the call of the script, whose closure    *)
(* has no upvalues.  The machine is new, so Reset changes nothing.         *)
Script == [id |-> 0, fn |-> 1, upvalues |-> <<>>]

PrepareUnvalidated ==
  /\ ~prepared
  /\ prepared' = TRUE
  /\ closures' = 1
  /\ CallClosure(Script, 0, <<>>, <<ClosureValue(Script)>>)
  /\ UNCHANGED <<limits, program, globals, upvalues, open, printed,
                 instructions, ending>>

Prepare ==
  /\ ~prepared
  /\ prepared' = TRUE
  /\ UNCHANGED <<limits, program, globals, upvalues, open, printed,
                 instructions, ending>>
  /\ IF \E k \in 1..Len(program) : ~Validated(program[k])
     THEN Fail("invalid_function") /\ UNCHANGED <<frames, maxFrames, closures>>
     ELSE closures' = 1 /\ CallClosure(Script, 0, <<>>, <<ClosureValue(Script)>>)

Next ==
  \/ Prepare
  \/ Cancel \/ InstructionLimit \/ DecodeFault
  \/ PushConstant \/ PushNil \/ PushTrue \/ PushFalse \/ Pop \/ Dup
  \/ GetLocal \/ SetLocal
  \/ GetGlobal \/ DefineGlobal \/ SetGlobal
  \/ GetUpvalue \/ SetUpvalue \/ CreateClosure \/ CloseUpvalue
  \/ CompareEqual \/ Greater \/ Less
  \/ Add \/ Subtract \/ Multiply \/ Divide \/ Not \/ Negate
  \/ PrintValue
  \/ Jump \/ JumpIfFalse \/ Loop
  \/ Call \/ Return

(* Execute loops until the program is done or a step fails. *)
Spec == Init /\ [][Next]_vars /\ WF_vars(Next)
-----------------------------------------------------------------------------
Errors ==
  {"none", "canceled", "instruction_limit", "output_limit", "frame_limit",
   "stack_overflow", "undefined_variable", "already_defined", "operand_type",
   "division_by_zero", "not_callable", "arity", "native",
   "instruction_pointer", "bad_instruction", "constant_type", "stack_underflow",
   "stack_index", "upvalue_index", "truncate", "invalid_function"}

Functions == 1..Len(program)
Addresses == DOMAIN upvalues
Val == Value(Functions, Addresses)

(* Types of the variables of the machine. *)
TypeOK ==
  /\ limits \in LimitsSet /\ IsProgram(program)
  /\ prepared \in BOOLEAN /\ done \in BOOLEAN
  /\ stack \in Seq(Val) /\ peak \in Nat
  /\ frames \in Seq([closure: Closure(Functions, Addresses), ip: Nat, base: Nat])
  /\ globals \in [DOMAIN globals -> Val] /\ DOMAIN globals \subseteq Name
  /\ closures \in Nat
  /\ upvalues \in [Addresses -> [open: BOOLEAN, closed: Val]]
  /\ Addresses \subseteq Nat \X Nat
  /\ open \in [DOMAIN open -> Addresses] /\ DOMAIN open \subseteq Nat
  /\ output \in Seq(Val) /\ outputBytes \in Nat
  /\ instructions \in Nat /\ maxFrames \in Nat
  /\ result \in Val
  /\ err \in Errors

(* No run exceeds one of its Limits, whatever the program does and however *)
(* it ends, and the statistics it reports bound what it used.              *)
LimitsRespected ==
  /\ Len(stack) <= peak /\ peak <= limits.maxStack
  /\ Len(frames) <= maxFrames /\ maxFrames <= limits.maxFrames
  /\ instructions <= limits.maxSteps
  /\ outputBytes <= limits.maxOutputBytes

(* What Validate buys the machine: through every call, return and jump the *)
(* IP of every frame stays on an instruction boundary of a validated       *)
(* function, so that Step never reads an unknown opcode, a truncated       *)
(* operand or a missing constant.                                          *)
OnBoundary(f) ==
  Validated(program[f.closure.fn]) /\ f.ip \in program[f.closure.fn].boundaries

DecodesCleanly ==
  /\ err # "bad_instruction"
  /\ \A i \in 1..Len(frames) : OnBoundary(frames[i])

(* A machine that is done has returned from every call, released its whole *)
(* stack and closed every upvalue, whatever bytecode it ran.               *)
DoneIsClean ==
  done => frames = <<>> /\ stack = <<>> /\ DOMAIN open = {} /\ err = "none"

(* The errors that no source program may cause: each would be a fault of   *)
(* the compiler or of the machine.                                         *)
Internal == {"instruction_pointer", "bad_instruction", "constant_type",
             "stack_underflow", "stack_index", "upvalue_index", "truncate",
             "invalid_function"}

(* The compiler and the machine agree: compiled code never underflows the  *)
(* stack, leaves it or runs off its function, and is always valid.         *)
NoInternalError == err \notin Internal

(* Frames nest: each one starts on the slot that holds its closure, above  *)
(* the frame that called it.                                               *)
FramesNest ==
  \A i \in 1..Len(frames) :
    /\ frames[i].base < Len(stack)
    /\ stack[frames[i].base + 1] = ClosureValue(frames[i].closure)
    /\ i > 1 => frames[i - 1].base < frames[i].base

(* FrameSnapshot: the offset whose line stands for a frame in a trace.     *)
TraceOffset(f) == Larger(f.ip - 1, 0)

(* A trace names the calls under way: for every frame but the running one  *)
(* it gives the line of the CALL that the frame waits for, although the IP *)
(* of the frame is already behind it.                                      *)
WaitsAtCall(f) ==
  \E o \in program[f.closure.fn].boundaries :
    /\ TraceOffset(f) = o + OperandBytes(OpCall)
    /\ ByteAt(program[f.closure.fn].code, o) = OpCall

TraceNamesCalls == \A i \in 1..(Len(frames) - 1) : WaitsAtCall(frames[i])

(* vm.open is exactly the set of open upvalue objects, each for a slot     *)
(* still on the stack: no object is left behind when its slot is reused,   *)
(* so two closures that capture one variable share one object.             *)
OpenIsExact ==
  /\ \A a \in Addresses : upvalues[a].open => a[2] \in DOMAIN open /\ open[a[2]] = a
  /\ \A slot \in DOMAIN open :
        /\ upvalues[open[slot]].open
        /\ err = "none" => slot < Len(stack)

Executed == frames # <<>> /\ instructions' # instructions

(* The instruction about to run assigns to the variable captured by a. *)
Assigns(a) ==
  \/ Op = OpSetLocal /\ upvalues[a].open /\ Slot = a[2]
  \/ Op = OpSetUpvalue /\ Captured[Operand + 1] = a

(* A captured variable keeps its value until it is assigned: neither the   *)
(* end of its block or function, nor the reuse of its slot, nor another    *)
(* call may change what a closure reads.                                   *)
KeepsCaptured ==
  \A a \in Addresses :
    Readable(a) => \/ Readable(a)' /\ Read(a)' = Read(a)
                   \/ Executed /\ Assigns(a)

CapturedVariablesKept == [][KeepsCaptured]_vars

(* A call leaves the caller's slots alone: below the base of the running   *)
(* frame only an assignment to a captured variable changes the stack.      *)
KeepsCallerSlots ==
  frames # <<>> =>
    \A i \in 1..Frame.base :
      /\ i <= Len(stack')
      /\ stack'[i] = stack[i] \/ (Executed /\ Op = OpSetUpvalue)

CallerSlotsKept == [][KeepsCallerSlots]_vars

(* The discipline of module Discipline is enough for the machine, whatever *)
(* compiled the program and however the run ends: no internal error, nested *)
(* frames, and a map of open upvalues that is exact ...                    *)
DisciplineSuffices ==
  (NoInternalError /\ FramesNest /\ OpenIsExact) \/ ~Disciplined(program)

(* ... and no step but an assignment changes a captured variable or a slot *)
(* of a caller.                                                            *)
DisciplineKeepsVariables ==
  [][(KeepsCaptured /\ KeepsCallerSlots) \/ ~Disciplined(program)]_vars

(* An instruction that does not fail goes where the other readers of the   *)
(* code say it goes (Validate and Disassemble work out for themselves      *)
(* where it ends and where a jump leads), and changes the height of the    *)
(* stack as the table infos says; a call and a return enter other code.    *)
StepsAsDecoded ==
  [][Executed /\ err' = "none" /\ Op \notin {OpCall, OpReturn} =>
       /\ frames'[Len(frames')].ip =
            IF Op \in {OpJump, OpLoop} \/ (Op = OpJumpIfFalse /\ IsFalsey(Peek(0)))
            THEN JumpTarget(Running.code, Frame.ip)
            ELSE InstructionEnd(Running.code, Len(Running.constants), Frame.ip)
       /\ Len(stack') = Len(stack) + StackEffect(Op)]_vars

Status ==
  IF ~prepared THEN "new"
  ELSE IF done THEN "done"
  ELSE IF err # "none" THEN "failed" ELSE "running"

Abstract ==
  INSTANCE Machine
  WITH machine <- [limit |-> limits.maxSteps, executed |-> instructions,
                   status |-> Status],
       StepLimits <- {l.maxSteps : l \in LimitsSet}

(* The machine is all that its callers rely on: it goes from new to        *)
(* running to done or failed, never back and never past either end, and no *)
(* step goes uncounted or executes two instructions.                       *)
ImplementsMachine == Abstract!Spec
=============================================================================
