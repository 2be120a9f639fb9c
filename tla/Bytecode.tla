------------------------------ MODULE Bytecode ------------------------------
(***************************************************************************)
(* internal/bytecode: the instruction set, the coding of operands, and     *)
(* what it means for a chunk to be a sequence of whole instructions.       *)
(*                                                                         *)
(* Code is the byte slice Chunk.Code.  Offsets are those of the source,    *)
(* counted from 0, while TLA+ sequences count from 1: ByteAt hides the     *)
(* difference.                                                             *)
(***************************************************************************)
EXTENDS Integers, Sequences

Byte == 0..255

(* OpCode: the constants of the source, numbered by iota. *)
OpConstant == 0
OpNil == 1
OpTrue == 2
OpFalse == 3
OpPop == 4
OpDup == 5
OpGetLocal == 6
OpSetLocal == 7
OpGetGlobal == 8
OpDefineGlobal == 9
OpSetGlobal == 10
OpGetUpvalue == 11
OpSetUpvalue == 12
OpEqual == 13
OpGreater == 14
OpLess == 15
OpAdd == 16
OpSubtract == 17
OpMultiply == 18
OpDivide == 19
OpNot == 20
OpNegate == 21
OpPrint == 22
OpJump == 23
OpJumpIfFalse == 24
OpLoop == 25
OpCall == 26
OpClosure == 27
OpCloseUpvalue == 28
OpReturn == 29

Known(op) == op \in OpConstant..OpReturn

IsJump(op) == op \in {OpJump, OpJumpIfFalse, OpLoop}

UsesConstant(op) ==
  op \in {OpConstant, OpGetGlobal, OpDefineGlobal, OpSetGlobal, OpClosure}

(* The OperandBytes column of the table infos. *)
OperandBytes(op) ==
  IF IsJump(op) THEN 2
  ELSE IF UsesConstant(op) \/ op \in {OpGetLocal, OpSetLocal, OpGetUpvalue,
                                      OpSetUpvalue, OpCall} THEN 1
  ELSE 0

(* The StackEffect column of the table infos. *)
StackEffect(op) ==
  CASE op \in {OpConstant, OpNil, OpTrue, OpFalse, OpDup, OpGetLocal,
               OpGetGlobal, OpGetUpvalue, OpClosure} -> 1
    [] op \in {OpSetLocal, OpSetGlobal, OpSetUpvalue, OpNot, OpNegate, OpJump,
               OpJumpIfFalse, OpLoop, OpCall} -> 0
    [] OTHER -> -1

DecodeUint16(high, low) == high * 256 + low

ByteAt(code, offset) == code[offset + 1]

(* instructionEnd: where the instruction at offset ends, or NoEnd when the *)
(* source returns an error.  constants is the length of Chunk.Constants.   *)
NoEnd == -1

InstructionEnd(code, constants, offset) ==
  LET op == ByteAt(code, offset)
      end == offset + 1 + OperandBytes(op)
  IN IF /\ offset \in 0..(Len(code) - 1)
        /\ Known(op)
        /\ end <= Len(code)
        /\ UsesConstant(op) => ByteAt(code, offset + 1) < constants
     THEN end
     ELSE NoEnd

(* Where the jump at offset leads: forward from its end, or back for LOOP. *)
JumpTarget(code, offset) ==
  LET distance == DecodeUint16(ByteAt(code, offset + 1), ByteAt(code, offset + 2))
  IN IF ByteAt(code, offset) = OpLoop THEN (offset + 3) - distance
     ELSE offset + 3 + distance

(* The offsets that decoding from 0 passes: what the first loop of         *)
(* Validate collects when it reports no error.                             *)
BoundariesOf(code, constants) ==
  LET from[offset \in 0..Len(code)] ==
        LET end == IF offset = Len(code) THEN NoEnd
                   ELSE InstructionEnd(code, constants, offset)
        IN {offset} \cup (IF end = NoEnd THEN {} ELSE from[end])
  IN from[0]

EndsWithReturn(code) == Len(code) > 0 /\ code[Len(code)] = OpReturn

(***************************************************************************)
(* What an accepted chunk satisfies: B contains the first offset and the   *)
(* end of the code, every other member starts a whole instruction whose    *)
(* end is in B, and every jump leads into B.                               *)
(***************************************************************************)
WellFormed(code, constants, B) ==
  /\ B \subseteq 0..Len(code)
  /\ 0 \in B
  /\ Len(code) \in B
  /\ \A offset \in B \ {Len(code)} :
        /\ InstructionEnd(code, constants, offset) \in B
        /\ IsJump(ByteAt(code, offset)) => JumpTarget(code, offset) \in B
=============================================================================
