-------------------------------- MODULE MCVM --------------------------------
(***************************************************************************)
(* An instance of module VM: every short sequence of valid instructions,   *)
(* and every operator on values of every kind.                             *)
(***************************************************************************)
EXTENDS VM

LOCAL INSTANCE SequencesExt

AllSymbols == STRING

Str(s) == String(<<s>>)

Fn(captured, constants, code) ==
  [arity |-> 0, upvalues |-> captured, constants |-> constants, code |-> code,
   boundaries |-> BoundariesOf(code, Len(constants))]

CONSTANT RawLength     \* the most instructions before the last RETURN

(* Instructions with the operands worth telling apart: a jump may lead to  *)
(* the next instruction, into it, past it, to the end or back to itself.   *)
RawInstructions ==
  {<<op>> : op \in {OpNil, OpPop, OpDup, OpAdd, OpNot, OpPrint, OpCloseUpvalue,
                    OpReturn}}
  \cup {<<op, n>> : op \in {OpConstant, OpClosure, OpDefineGlobal, OpGetLocal,
                            OpSetLocal, OpGetUpvalue, OpSetUpvalue}, n \in 0..1}
  \cup {<<OpCall, 0>>, <<OpCall, 1>>, <<OpGetGlobal, 0>>, <<OpSetGlobal, 0>>,
        <<OpGetGlobal, 2>>, <<OpDefineGlobal, 2>>,
        <<OpJumpIfFalse, 0, 1>>, <<OpJump, 0, 1>>, <<OpLoop, 0, 3>>}

RawConstants == <<Str("len"), FunctionRef(2), Str("x")>>

RawSequences ==
  {FlattenSeq(s) : s \in UNION {[1..n -> RawInstructions] : n \in 0..RawLength}}

RawCallees ==
  {Fn(<<Local(1)>>, <<>>, <<OpGetUpvalue, 0, OpReturn>>),
   Fn(<<Local(0), Outer(0)>>, <<>>, <<OpReturn>>)}

(* Two operands of every kind, or too few, under every operator. *)
Operands == {<<>>, <<OpTrue>>, <<OpFalse>>} \cup {<<OpConstant, n>> : n \in 0..2}
OperatorCodes ==
  {a \o b \o <<binary, unary, OpReturn>> :
     a \in Operands, b \in Operands,
     binary \in {OpEqual, OpGreater, OpLess, OpAdd, OpSubtract, OpMultiply, OpDivide},
     unary \in {OpNot, OpNegate, OpPrint}}

RawPrograms ==
  {<<Fn(<<>>, RawConstants, s \o <<OpReturn>>), callee>> :
     s \in RawSequences, callee \in RawCallees}
  \cup {<<Fn(<<>>, <<Number(0), Number(6), Str("x")>>, c)>> : c \in OperatorCodes}

RawLimits ==
  {[maxStack |-> 3, maxFrames |-> 2, maxSteps |-> 6, maxOutputBytes |-> 2]}
=============================================================================
