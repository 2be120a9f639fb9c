---------------------------- MODULE Disassembler ----------------------------
(***************************************************************************)
(* bytecode.Disassemble: the listing of a function that the command disasm *)
(* and the endpoint compile show.  They call it with what Compile returns, *)
(* whose functions Validate has accepted; it takes any chunk, so here it   *)
(* follows Validate whatever the verdict.  Its loop decodes with the       *)
(* instructionEnd of the validator, one instruction per step, and stops at *)
(* the first that does not decode.                                         *)
(*                                                                         *)
(* A line is an offset, its opcode, the operand and what the operand means *)
(* to a reader: the index of a constant, or the target of a jump.          *)
(***************************************************************************)
EXTENDS Validator

VARIABLES next,        \* the offset of Disassemble
          listing,     \* the lines written
          stopped      \* the loop has ended
listVars == <<vars, next, listing, stopped>>

ListInit == Init /\ next = 0 /\ listing = <<>> /\ stopped = FALSE

NextEnd == InstructionEnd(code, chunk.constants, next)

Nowhere == -1
Operand(o) ==
  CASE OperandBytes(ByteAt(code, o)) = 0 -> 0
    [] OperandBytes(ByteAt(code, o)) = 1 -> ByteAt(code, o + 1)
    [] OTHER -> DecodeUint16(ByteAt(code, o + 1), ByteAt(code, o + 2))

TargetForward(o) == IF IsJump(ByteAt(code, o)) THEN o + 3 + Operand(o) ELSE Nowhere

Target(o) ==
  CASE ByteAt(code, o) \in {OpJump, OpJumpIfFalse} -> (o + 3) + Operand(o)
    [] ByteAt(code, o) = OpLoop -> (o + 3) - Operand(o)
    [] OTHER -> Nowhere

Line(o) ==
  [offset |-> o, op |-> ByteAt(code, o), operand |-> Operand(o), target |-> Target(o)]

Going == pc = "done" /\ ~stopped /\ UNCHANGED vars

(* DisassembleInstruction, and the ERROR line. *)
ListWithoutOperands ==
  /\ Going
  /\ next < Len(code) /\ NextEnd # NoEnd
  /\ listing' = Append(listing, Line(next))
  /\ next' = next + 1
  /\ UNCHANGED stopped

List ==
  /\ Going
  /\ next < Len(code) /\ NextEnd # NoEnd
  /\ listing' = Append(listing, Line(next))
  /\ next' = NextEnd
  /\ UNCHANGED stopped

Fault ==
  /\ Going
  /\ next < Len(code) /\ NextEnd = NoEnd
  /\ listing' = Append(listing, [offset |-> next, op |-> NoEnd])
  /\ stopped' = TRUE
  /\ UNCHANGED next

Stop ==
  /\ Going
  /\ next >= Len(code)
  /\ stopped' = TRUE
  /\ UNCHANGED <<next, listing>>

ListNext == (Next /\ UNCHANGED <<next, listing, stopped>>) \/ List \/ Fault \/ Stop

ListSpec == ListInit /\ [][ListNext]_listVars
-----------------------------------------------------------------------------
(* A chunk that Validate accepts is listed to its end without an ERROR     *)
(* line, whatever its operands look like: both decode alike.               *)
NeverFaulty == verdict = "ok" => \A i \in DOMAIN listing : listing[i].op # NoEnd

(* What assembling a line gives back: its opcode and its operand. *)
Assembled(line) ==
  CASE OperandBytes(line.op) = 0 -> <<line.op>>
    [] OperandBytes(line.op) = 1 -> <<line.op, line.operand>>
    [] OTHER -> <<line.op, line.operand \div 256, line.operand % 256>>

(* A line shows the bytes at its offset and, for a jump, the target that   *)
(* Validate worked out on its own and to which the machine goes (property  *)
(* StepsAsDecoded of module VM); no other line shows one.                  *)
ShowsInstruction(line) ==
  /\ Assembled(line) = SubSeq(code, line.offset + 1, line.offset + 1 + OperandBytes(line.op))
  /\ line.target = IF IsJump(line.op) THEN JumpTarget(code, line.offset) ELSE Nowhere

(* The listing of such a chunk is the program that the machine runs: each  *)
(* instruction that decoding from 0 reaches has its line, in order, with   *)
(* its own opcode and operand, and each jump its own target.               *)
ListsWhatRuns ==
  verdict = "ok" /\ stopped =>
    /\ {listing[i].offset : i \in DOMAIN listing} = boundaries \ {Len(code)}
    /\ \A i, j \in DOMAIN listing : i < j => listing[i].offset < listing[j].offset
    /\ \A i \in DOMAIN listing : ShowsInstruction(listing[i])
=============================================================================
