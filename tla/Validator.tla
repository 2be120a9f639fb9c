------------------------------ MODULE Validator ------------------------------
(***************************************************************************)
(* bytecode.Validate: the two linear passes over a chunk, one loop         *)
(* iteration per step.  The first pass collects the instruction            *)
(* boundaries; the second checks that every jump leads to one.             *)
(*                                                                         *)
(* A chunk is its code bytes, the number of its constants and the number   *)
(* of entries of its line table; Validate reads nothing else of it.        *)
(***************************************************************************)
EXTENDS Bytecode

CONSTANT Chunks        \* the chunks handed to Validate

ASSUME ChunksAssumption ==
  Chunks \subseteq [code: Seq(Byte), constants: Nat, lines: Nat]

VARIABLES chunk,       \* the argument
          pc,          \* "start", "boundaries", "jumps" or "done"
          offset,      \* the loop variable of the current pass
          boundaries,  \* the map of the source, as the set of its keys
          verdict      \* "none", then "ok" or the error returned

vars == <<chunk, pc, offset, boundaries, verdict>>

code == chunk.code

Init ==
  /\ chunk \in Chunks
  /\ pc = "start"
  /\ offset = 0
  /\ boundaries = {}
  /\ verdict = "none"

End == InstructionEnd(code, chunk.constants, offset)

Conclude(v) ==
  /\ pc' = "done"
  /\ verdict' = v
  /\ UNCHANGED <<chunk, offset, boundaries>>

CompareTables ==
  /\ pc = "start"
  /\ IF Len(code) # chunk.lines
     THEN Conclude("code and lines differ")
     ELSE pc' = "boundaries" /\ UNCHANGED <<chunk, offset, boundaries, verdict>>

(* One iteration of the first loop: boundaries[offset] = true comes before *)
(* the instruction is decoded.                                             *)
MarkBoundary ==
  /\ pc = "boundaries"
  /\ offset < Len(code)
  /\ boundaries' = boundaries \cup {offset}
  /\ UNCHANGED chunk
  /\ IF End = NoEnd
     THEN pc' = "done" /\ verdict' = "bad instruction" /\ UNCHANGED offset
     ELSE offset' = End /\ UNCHANGED <<pc, verdict>>

MarkEnd ==
  /\ pc = "boundaries"
  /\ offset >= Len(code)
  /\ boundaries' = boundaries \cup {Len(code)}
  /\ pc' = "jumps"
  /\ offset' = 0
  /\ UNCHANGED <<chunk, verdict>>

(* JumpRejectedForwardOnly, and other definitions placed before another    *)
(* with a shorter name, are faulty versions of it that the properties must *)
(* tell from the real one.                                                 *)
JumpRejectedForwardOnly ==
  /\ ByteAt(code, offset) \in {OpJump, OpJumpIfFalse}
  /\ JumpTarget(code, offset) \notin boundaries

JumpRejectedAtEnd ==
  /\ IsJump(ByteAt(code, offset))
  /\ JumpTarget(code, offset) \notin boundaries \ {Len(code)}

JumpRejected ==
  /\ IsJump(ByteAt(code, offset))
  /\ JumpTarget(code, offset) \notin boundaries

CheckJump ==
  /\ pc = "jumps"
  /\ offset < Len(code)
  /\ IF JumpRejected
     THEN Conclude("jump target")
     ELSE offset' = End /\ UNCHANGED <<chunk, pc, boundaries, verdict>>

CheckLastByte ==
  /\ pc = "jumps"
  /\ offset >= Len(code)
  /\ Conclude(IF EndsWithReturn(code) THEN "ok" ELSE "no RETURN")

Next == CompareTables \/ MarkBoundary \/ MarkEnd \/ CheckJump \/ CheckLastByte

Spec == Init /\ [][Next]_vars
-----------------------------------------------------------------------------
Verdicts == {"none", "ok", "code and lines differ", "bad instruction",
             "jump target", "no RETURN"}

(* Types of the variables of Validate. *)
TypeOK ==
  /\ chunk \in [code: Seq(Byte), constants: Nat, lines: Nat]
  /\ pc \in {"start", "boundaries", "jumps", "done"}
  /\ offset \in Nat
  /\ boundaries \subseteq Nat
  /\ verdict \in Verdicts

(* What Validate promises the machine: once it returns nil, the boundaries *)
(* it collected cut the code into whole known instructions with constants  *)
(* in range, and no jump leads anywhere else (Validate and VM.readOp rely  *)
(* on the same offsets).                                                   *)
AcceptedIsWellFormed ==
  verdict = "ok" => /\ WellFormed(code, chunk.constants, boundaries)
                    /\ EndsWithReturn(code)

(* A set of offsets that linear decoding from 0 cannot leave. *)
ClosedUnderDecoding(S) ==
  /\ 0 \in S
  /\ \A o \in S : InstructionEnd(code, chunk.constants, o) # NoEnd
                    => InstructionEnd(code, chunk.constants, o) \in S

(* Validate rejects nothing it should accept: a chunk is refused only when *)
(* no set of offsets, closed under decoding and contained in every other   *)
(* such set, would make it well formed, when its tables differ, or when    *)
(* its last byte is not RETURN.                                            *)
RejectedIsIllFormed ==
  verdict \notin {"none", "ok"} =>
    \/ Len(code) # chunk.lines
    \/ ~EndsWithReturn(code)
    \/ \A B \in SUBSET (0..Len(code)) :
         \/ ~WellFormed(code, chunk.constants, B)
         \/ \E S \in SUBSET (0..Len(code)) :
              ClosedUnderDecoding(S) /\ ~(B \subseteq S)

(* The message of validator.go:30, "chunk must end with RETURN", read of   *)
(* instructions: in an accepted chunk some boundary starts the RETURN      *)
(* instruction that ends the code.                                         *)
AcceptedEndsWithReturn ==
  verdict = "ok" => /\ Len(code) - 1 \in boundaries
                    /\ ByteAt(code, Len(code) - 1) = OpReturn
=============================================================================
