--------------------------- MODULE ValidatorProofs ---------------------------
(***************************************************************************)
(* Proof that Validate accepts only well-formed chunks, for every chunk,   *)
(* and that Disassemble lists without an ERROR line whatever it accepts.   *)
(*                                                                         *)
(* The invariant follows the two loops.  In the first, the boundaries      *)
(* found so far lie below offset, in the order in which they decode, and   *)
(* each ends at another or at offset.  In the second, the jumps below      *)
(* offset are checked; that no boundary lies strictly between offset and   *)
(* the end of its instruction (InOrder) is what lets one iteration extend  *)
(* that range to the next offset.                                          *)
(***************************************************************************)
EXTENDS Disassembler, SequenceTheorems, TLAPS

EndOf(o) == InstructionEnd(code, chunk.constants, o)

InOrder == \A o, p \in boundaries : o < p => EndOf(o) <= p

Scanning ==
  pc = "boundaries" =>
    /\ offset \in 0..Len(code)
    /\ offset = 0 \/ 0 \in boundaries
    /\ \A o \in boundaries : /\ o \in 0..(Len(code) - 1)
                             /\ o < EndOf(o)
                             /\ EndOf(o) <= offset
                             /\ EndOf(o) \in boundaries \cup {offset}
    /\ InOrder

Checking ==
  pc = "jumps" =>
    /\ boundaries \subseteq 0..Len(code)
    /\ 0 \in boundaries /\ Len(code) \in boundaries /\ offset \in boundaries
    /\ \A o \in boundaries \ {Len(code)} : o < EndOf(o) /\ EndOf(o) \in boundaries
    /\ \A o \in boundaries \ {Len(code)} :
          o < offset /\ IsJump(ByteAt(code, o)) => JumpTarget(code, o) \in boundaries
    /\ InOrder

IInv ==
  /\ TypeOK
  /\ pc = "start" => offset = 0 /\ boundaries = {}
  /\ pc # "done" => verdict = "none"
  /\ Scanning
  /\ Checking
  /\ AcceptedIsWellFormed

(* An instruction that decodes ends after its offset, within the code.     *)
LEMMA EndBounds ==
  ASSUME NEW o \in Nat, TypeOK, EndOf(o) # NoEnd
  PROVE  /\ o \in 0..(Len(code) - 1)
         /\ EndOf(o) \in 0..Len(code)
         /\ o < EndOf(o)
BY DEF TypeOK, EndOf, InstructionEnd, OperandBytes, NoEnd, code

LEMMA CodeIsBytes == TypeOK => code \in Seq(Byte) /\ Len(code) \in Nat
BY DEF TypeOK, code

LEMMA EndIsInt == \A o \in Nat : EndOf(o) \in Int
BY DEF EndOf, InstructionEnd, OperandBytes, NoEnd

LEMMA InitIInv == Init => IInv
BY ChunksAssumption DEF Init, IInv, TypeOK, Verdicts, Scanning, Checking, AcceptedIsWellFormed

LEMMA MarkBoundaryIInv == IInv /\ MarkBoundary => IInv'
<1> SUFFICES ASSUME IInv, MarkBoundary PROVE IInv'
    OBVIOUS
<1>0. /\ Len(code) \in Nat /\ offset \in Nat /\ boundaries \subseteq Nat
      /\ \A o \in Nat : EndOf(o) \in Int
    BY CodeIsBytes, EndIsInt DEF IInv, TypeOK
<1>t. TypeOK /\ (pc # "done" => verdict = "none") /\ AcceptedIsWellFormed
    BY DEF IInv
<1>s. Scanning /\ Checking
    BY DEF IInv
<1>1. /\ pc = "boundaries" /\ offset \in Nat /\ chunk' = chunk /\ code' = code
      /\ End = EndOf(offset)
      /\ boundaries' = boundaries \cup {offset}
    BY Zenon, <1>0 DEF MarkBoundary, End, EndOf, code
<1>2. CASE End = NoEnd
    BY Zenon, <1>0, <1>t, <1>s, <1>1, <1>2 DEF IInv, TypeOK, Verdicts,
           MarkBoundary, Scanning, Checking, AcceptedIsWellFormed
<1>3. CASE End # NoEnd
    <2>1. pc' = pc /\ verdict' = verdict /\ verdict = "none" /\ offset' = EndOf(offset)
        BY <1>0, <1>t, <1>1, <1>3 DEF MarkBoundary
    <2>2. /\ EndOf(offset) \in 0..Len(code) /\ offset < EndOf(offset)
          /\ offset \in 0..(Len(code) - 1)
        BY <1>0, <1>t, <1>1, <1>3, EndBounds
    <2>3. \A o : EndOf(o)' = EndOf(o)
        BY <1>0, <1>1 DEF EndOf
    <2>4. Scanning'
        <3>1. /\ offset' \in 0..Len(code)' /\ 0 \in boundaries'
              /\ \A o \in boundaries' :
                    /\ o \in 0..(Len(code) - 1)
                    /\ o < EndOf(o)
                    /\ EndOf(o) <= offset'
                    /\ EndOf(o) \in boundaries' \cup {offset'}
            BY SMTT(30), <1>0, <1>s, <1>1, <2>1, <2>2 DEF Scanning
        <3>2. \A o, p \in boundaries' : o < p => EndOf(o) <= p
            BY <1>0, <1>s, <1>1, <2>1, <2>2 DEF Scanning, InOrder
        <3>3. QED
            BY <1>0, <1>s, <1>1, <2>3, <3>1, <3>2 DEF Scanning, InOrder
    <2>5. QED
        BY SMTT(30), <1>0, <1>t, <1>s, <1>1, <2>1, <2>2, <2>4 DEF IInv, TypeOK, Verdicts,
           Checking, AcceptedIsWellFormed
<1>4. QED
    BY <1>2, <1>3

LEMMA MarkEndIInv == IInv /\ MarkEnd => IInv'
<1> SUFFICES ASSUME IInv, MarkEnd PROVE IInv'
    OBVIOUS
<1>0. /\ Len(code) \in Nat /\ offset \in Nat /\ boundaries \subseteq Nat
      /\ \A o \in Nat : EndOf(o) \in Int
    BY CodeIsBytes, EndIsInt DEF IInv, TypeOK
<1>t. TypeOK /\ (pc # "done" => verdict = "none") /\ AcceptedIsWellFormed
    BY DEF IInv
<1>s. Scanning /\ Checking
    BY DEF IInv
<1>1. /\ pc = "boundaries" /\ pc' = "jumps" /\ offset' = 0 /\ chunk' = chunk
      /\ code' = code /\ verdict' = verdict /\ Len(code) \in Nat
      /\ boundaries' = boundaries \cup {Len(code)}
    BY DEF MarkEnd, code
<1>2. offset = Len(code)
    BY <1>0, <1>s, <1>1 DEF MarkEnd, Scanning
<1>3. \A o : EndOf(o)' = EndOf(o)
    BY <1>0, <1>1 DEF EndOf
<1>4. Checking'
    <2>1. \A o \in boundaries : o \in 0..(Len(code) - 1) /\ EndOf(o) \in 0..Len(code)
        BY <1>0, <1>s, <1>1, <1>2 DEF Scanning
    <2>2. /\ boundaries' \subseteq 0..Len(code)
          /\ 0 \in boundaries' /\ Len(code) \in boundaries' /\ offset' \in boundaries'
        <3>1. 0 \in boundaries \/ 0 = Len(code)
            BY <1>s, <1>1, <1>2 DEF Scanning
        <3>2. boundaries \subseteq 0..Len(code)
            BY <1>0, <2>1
        <3>3. boundaries' = boundaries \cup {Len(code)} /\ offset' = 0
            BY <1>1
        <3>4. boundaries' \subseteq 0..Len(code)
            <4>1. Len(code) \in 0..Len(code)
                BY <1>0
            <4>2. QED
                BY <3>2, <3>3, <4>1
        <3>5. 0 \in boundaries' /\ Len(code) \in boundaries'
            BY <3>1, <3>3
        <3>6. QED
            BY <3>3, <3>4, <3>5
    <2>3. \A o \in boundaries' \ {Len(code)} : o < EndOf(o) /\ EndOf(o) \in boundaries'
        BY <1>0, <1>s, <1>1, <1>2, <2>1 DEF Scanning
    <2>4. \A o, p \in boundaries' : o < p => EndOf(o) <= p
        BY <1>0, <1>s, <1>1, <1>2, <2>1 DEF Scanning, InOrder
    <2>5. \A o \in boundaries' \ {Len(code)} : ~(o < offset')
        BY <1>0, <1>1, <2>2
    <2>6. QED
        BY <1>0, <1>s, <1>1, <1>3, <2>2, <2>3, <2>4, <2>5 DEF Checking, InOrder
<1>5. QED
    BY <1>0, <1>t, <1>s, <1>1, <1>4 DEF IInv, TypeOK, Verdicts,
           Scanning, AcceptedIsWellFormed

LEMMA CheckJumpIInv == IInv /\ CheckJump => IInv'
<1> SUFFICES ASSUME IInv, CheckJump PROVE IInv'
    OBVIOUS
<1>0. /\ Len(code) \in Nat /\ offset \in Nat /\ boundaries \subseteq Nat
      /\ \A o \in Nat : EndOf(o) \in Int
    BY CodeIsBytes, EndIsInt DEF IInv, TypeOK
<1>t. TypeOK /\ (pc # "done" => verdict = "none") /\ AcceptedIsWellFormed
    BY DEF IInv
<1>s. Scanning /\ Checking
    BY DEF IInv
<1>1. /\ pc = "jumps" /\ chunk' = chunk /\ code' = code /\ boundaries' = boundaries
      /\ End = EndOf(offset)
    BY Zenon DEF CheckJump, Conclude, End, EndOf, code
<1>2. CASE JumpRejected
    BY Zenon, <1>0, <1>t, <1>s, <1>1, <1>2 DEF IInv, TypeOK, Verdicts,
           CheckJump, Conclude, Scanning, Checking, AcceptedIsWellFormed
<1>3. CASE ~JumpRejected
    <2>1. pc' = pc /\ verdict' = verdict /\ verdict = "none" /\ offset' = EndOf(offset)
        BY <1>0, <1>t, <1>1, <1>3 DEF CheckJump
    <2>2. offset \in boundaries \ {Len(code)} /\ Len(code) \in Nat
        <3>1. offset \in boundaries
            BY <1>s, <1>1 DEF Checking
        <3>2. offset < Len(code)
            BY Zenon DEF CheckJump
        <3>3. QED
            BY <1>0, <3>1, <3>2
    <2>3. offset < EndOf(offset) /\ EndOf(offset) \in boundaries
        BY <1>0, <1>s, <1>1, <2>2 DEF Checking
    <2>4. \A o : EndOf(o)' = EndOf(o)
        BY <1>0, <1>1 DEF EndOf
    <2>5. ASSUME NEW o \in boundaries \ {Len(code)}, o < EndOf(offset),
                 o \in Nat, EndOf(offset) \in Nat,
                 IsJump(ByteAt(code, o))
          PROVE  JumpTarget(code, o) \in boundaries
        <3>1. CASE o < offset
            BY <1>0, <1>s, <1>1, <2>5, <3>1 DEF Checking
        <3>2. CASE o = offset
            BY <1>3, <2>5, <3>2 DEF JumpRejected
        <3>3. CASE o > offset
            <4>1. EndOf(offset) <= o
                BY <1>0, <1>s, <1>1, <2>2, <2>5, <3>3 DEF Checking, InOrder
            <4>2. QED
                BY <2>5, <4>1, <2>1
        <3>4. QED
            BY <1>0, <2>2, <2>5, <3>1, <3>2, <3>3
    <2>6. Checking'
        BY <1>0, <1>s, <1>1, <2>1, <2>2, <2>3, <2>4, <2>5 DEF Checking, InOrder
    <2>7. QED
        BY <1>0, <1>t, <1>s, <1>1, <2>1, <2>2, <2>3, <2>6 DEF IInv, TypeOK, Verdicts,
           Checking, Scanning, AcceptedIsWellFormed
<1>4. QED
    BY <1>2, <1>3

LEMMA CheckLastByteIInv == IInv /\ CheckLastByte => IInv'
<1> SUFFICES ASSUME IInv, CheckLastByte PROVE IInv'
    OBVIOUS
<1>0. /\ Len(code) \in Nat /\ offset \in Nat /\ boundaries \subseteq Nat
      /\ \A o \in Nat : EndOf(o) \in Int
    BY CodeIsBytes, EndIsInt DEF IInv, TypeOK
<1>t. TypeOK /\ (pc # "done" => verdict = "none") /\ AcceptedIsWellFormed
    BY DEF IInv
<1>s. Scanning /\ Checking
    BY DEF IInv
<1>1. /\ pc = "jumps" /\ pc' = "done" /\ chunk' = chunk /\ code' = code
      /\ boundaries' = boundaries /\ offset' = offset /\ offset >= Len(code)
      /\ verdict' = IF EndsWithReturn(code) THEN "ok" ELSE "no RETURN"
    BY Zenon DEF CheckLastByte, Conclude, code
<1>2. WellFormed(code, chunk.constants, boundaries)
    <2>1. offset = Len(code)
        <3>1. offset \in 0..Len(code)
            BY Zenon, <1>s, <1>1 DEF Checking
        <3>2. offset >= Len(code)
            BY Zenon, <1>1
        <3>3. QED
            BY <1>0, <3>1, <3>2
    <2>2. \A o \in boundaries \ {Len(code)} : o < offset
        <3>1. boundaries \subseteq 0..Len(code)
            BY Zenon, <1>s, <1>1 DEF Checking
        <3>2. QED
            BY <1>0, <2>1, <3>1
    <2>3. QED
        BY Zenon, <1>0, <1>s, <1>1, <2>2 DEF Checking, WellFormed, EndOf
<1>3. QED
    BY Zenon, <1>0, <1>t, <1>s, <1>1, <1>2 DEF IInv, TypeOK, Verdicts,
           Scanning, Checking, AcceptedIsWellFormed

LEMMA NextIInv == IInv /\ [Next]_vars => IInv'
<1> SUFFICES ASSUME IInv, [Next]_vars PROVE IInv'
    OBVIOUS
<1>1. CASE CompareTables
    <2>1. /\ TypeOK /\ offset = 0 /\ boundaries = {} /\ verdict = "none"
          /\ chunk' = chunk /\ offset' = offset /\ boundaries' = boundaries
          /\ \/ pc' = "done" /\ verdict' = "code and lines differ"
             \/ pc' = "boundaries" /\ verdict' = verdict
        BY Zenon, <1>1 DEF CompareTables, Conclude, IInv
    <2>2. TypeOK' /\ AcceptedIsWellFormed'
        BY Zenon, <2>1 DEF TypeOK, Verdicts, AcceptedIsWellFormed
    <2>3. Scanning'
        <3>1. Len(code) \in Nat /\ Len(code)' = Len(code)
            BY Zenon, <2>1, CodeIsBytes DEF code
        <3>2. 0 \in 0..Len(code)
            BY <3>1
        <3>3. offset' \in 0..Len(code)' /\ offset' = 0 /\ boundaries' = {}
            BY Zenon, <2>1, <3>1, <3>2
        <3>4. QED
            BY <3>3 DEF Scanning, InOrder
    <2>5. Checking'
        BY <2>1 DEF Checking
    <2>4. QED
        BY Zenon, <2>1, <2>2, <2>3, <2>5 DEF IInv
<1>2. CASE MarkBoundary
    BY <1>2, MarkBoundaryIInv
<1>3. CASE MarkEnd
    BY <1>3, MarkEndIInv
<1>4. CASE CheckJump
    BY <1>4, CheckJumpIInv
<1>5. CASE CheckLastByte
    BY <1>5, CheckLastByteIInv
<1>6. CASE UNCHANGED vars
    BY <1>6 DEF vars, IInv, TypeOK, Scanning, Checking, InOrder, EndOf,
                AcceptedIsWellFormed, code
<1>7. QED
    BY <1>1, <1>2, <1>3, <1>4, <1>5, <1>6 DEF Next

(* Whatever chunk it is given, bytecode.Validate returns nil only for one  *)
(* whose boundaries cut it into whole instructions and contain every jump  *)
(* target, and whose last byte is RETURN.                                  *)
THEOREM ValidatorSound == Spec => [](TypeOK /\ AcceptedIsWellFormed)
<1>1. IInv => TypeOK /\ AcceptedIsWellFormed
    BY DEF IInv
<1>2. QED
    BY InitIInv, NextIInv, <1>1, PTL DEF Spec
-----------------------------------------------------------------------------
(* The other direction.  What the loops have reached lies in every         *)
(* well-formed cut of the chunk, because such a cut is closed under        *)
(* decoding, and once they are complete the boundaries are closed too.     *)
Reached ==
  pc \in {"boundaries", "jumps"} =>
    \A B \in SUBSET (0..Len(code)) :
      WellFormed(code, chunk.constants, B) => boundaries \cup {offset} \subseteq B

CInv == Reached /\ RejectedIsIllFormed

LEMMA NoEndAtEnd == TypeOK => EndOf(Len(code)) = NoEnd
BY DEF TypeOK, EndOf, InstructionEnd, code

(* A well-formed cut goes on wherever it has reached.                      *)
LEMMA CutGoesOn ==
  ASSUME TypeOK, NEW B \in SUBSET (0..Len(code)),
         WellFormed(code, chunk.constants, B), NEW o \in B, o < Len(code)
  PROVE  /\ EndOf(o) \in B /\ EndOf(o) # NoEnd
         /\ IsJump(ByteAt(code, o)) => JumpTarget(code, o) \in B
<1>1. o # Len(code) /\ Len(code) \in Nat
    BY CodeIsBytes
<1>2. EndOf(o) \in B /\ (IsJump(ByteAt(code, o)) => JumpTarget(code, o) \in B)
    BY <1>1 DEF WellFormed, EndOf
<1>3. NoEnd \notin 0..Len(code)
    BY <1>1 DEF NoEnd
<1>4. QED
    BY <1>2, <1>3

LEMMA BoundariesAreClosed == IInv /\ pc = "jumps" => ClosedUnderDecoding(boundaries)
<1> SUFFICES ASSUME IInv, pc = "jumps" PROVE ClosedUnderDecoding(boundaries)
    OBVIOUS
<1>1. 0 \in boundaries /\ \A o \in boundaries \ {Len(code)} : EndOf(o) \in boundaries
    BY DEF IInv, Checking
<1>2. EndOf(Len(code)) = NoEnd
    BY NoEndAtEnd DEF IInv
<1>3. QED
    BY <1>1, <1>2 DEF ClosedUnderDecoding, EndOf

LEMMA KeptIllFormed ==
  ASSUME RejectedIsIllFormed, chunk' = chunk, verdict' = verdict
  PROVE  RejectedIsIllFormed'
BY DEF RejectedIsIllFormed, ClosedUnderDecoding, code

LEMMA CompareTablesCInv == IInv /\ CInv /\ CompareTables => CInv'
<1> SUFFICES ASSUME IInv, CInv, CompareTables PROVE CInv'
    OBVIOUS
<1>1. chunk' = chunk /\ code' = code /\ offset' = 0 /\ boundaries' = {} /\ verdict = "none"
    BY Zenon DEF CompareTables, Conclude, IInv, code
<1>2. Reached'
    BY <1>1 DEF Reached, WellFormed
<1>3. CASE Len(code) # chunk.lines
    BY <1>1, <1>2, <1>3 DEF CInv, RejectedIsIllFormed
<1>4. CASE Len(code) = chunk.lines
    BY <1>1, <1>2, <1>4, KeptIllFormed DEF CInv, CompareTables
<1>5. QED
    BY <1>3, <1>4

LEMMA MarkBoundaryCInv == IInv /\ CInv /\ MarkBoundary => CInv'
<1> SUFFICES ASSUME IInv, CInv, MarkBoundary PROVE CInv'
    OBVIOUS
<1>1. /\ TypeOK /\ pc = "boundaries" /\ offset < Len(code) /\ End = EndOf(offset)
      /\ chunk' = chunk /\ code' = code /\ boundaries' = boundaries \cup {offset}
    BY Zenon DEF MarkBoundary, IInv, End, EndOf, code
<1>2. ASSUME NEW B \in SUBSET (0..Len(code)), WellFormed(code, chunk.constants, B)
      PROVE  boundaries \cup {offset} \subseteq B /\ EndOf(offset) \in B /\ EndOf(offset) # NoEnd
    <2>1. boundaries \cup {offset} \subseteq B
        BY <1>1, <1>2 DEF CInv, Reached
    <2>2. QED
        BY <1>1, <1>2, <2>1, CutGoesOn
<1>3. CASE End = NoEnd
    <2>1. pc' = "done" /\ \A B \in SUBSET (0..Len(code)) : ~WellFormed(code, chunk.constants, B)
        BY Zenon, <1>1, <1>2, <1>3 DEF MarkBoundary
    <2>2. Reached' /\ RejectedIsIllFormed'
        BY <1>1, <2>1 DEF Reached, RejectedIsIllFormed
    <2>3. QED
        BY <2>2 DEF CInv
<1>4. CASE End # NoEnd
    <2>1. pc' = pc /\ verdict' = verdict /\ offset' = EndOf(offset)
        BY <1>1, <1>4 DEF MarkBoundary
    <2>2. Reached'
        BY <1>1, <1>2, <2>1 DEF Reached
    <2>3. QED
        BY <1>1, <2>1, <2>2, KeptIllFormed DEF CInv
<1>5. QED
    BY <1>3, <1>4

LEMMA MarkEndCInv == IInv /\ CInv /\ MarkEnd => CInv'
<1> SUFFICES ASSUME IInv, CInv, MarkEnd PROVE CInv'
    OBVIOUS
<1>1. /\ pc = "boundaries" /\ chunk' = chunk /\ code' = code /\ verdict' = verdict
      /\ offset' = 0 /\ boundaries' = boundaries \cup {Len(code)}
    BY DEF MarkEnd, code
<1>2. \A B : WellFormed(code, chunk.constants, B) => {0, Len(code)} \subseteq B
    BY DEF WellFormed
<1>3. Reached'
    BY <1>1, <1>2 DEF CInv, Reached
<1>4. QED
    BY <1>1, <1>3, KeptIllFormed DEF CInv

LEMMA CheckJumpCInv == IInv /\ CInv /\ CheckJump => CInv'
<1> SUFFICES ASSUME IInv, CInv, CheckJump PROVE CInv'
    OBVIOUS
<1>1. /\ TypeOK /\ pc = "jumps" /\ offset < Len(code) /\ End = EndOf(offset)
      /\ chunk' = chunk /\ code' = code /\ boundaries' = boundaries
    BY Zenon DEF CheckJump, Conclude, IInv, End, EndOf, code
<1>2. ASSUME NEW B \in SUBSET (0..Len(code)), WellFormed(code, chunk.constants, B)
      PROVE  /\ boundaries \cup {offset} \subseteq B /\ EndOf(offset) \in B
             /\ IsJump(ByteAt(code, offset)) => JumpTarget(code, offset) \in B
    <2>1. boundaries \cup {offset} \subseteq B
        BY <1>1, <1>2 DEF CInv, Reached
    <2>2. QED
        BY <1>1, <1>2, <2>1, CutGoesOn
<1>3. CASE JumpRejected
    <2>1. pc' = "done"
        BY Zenon, <1>3 DEF CheckJump, Conclude
    <2>2. boundaries \in SUBSET (0..Len(code)) /\ ClosedUnderDecoding(boundaries)
        BY <1>1, BoundariesAreClosed DEF IInv, Checking
    <2>3. \A B \in SUBSET (0..Len(code)) :
            WellFormed(code, chunk.constants, B) => ~(B \subseteq boundaries)
        BY <1>2, <1>3 DEF JumpRejected
    <2>4. ClosedUnderDecoding(boundaries)' <=> ClosedUnderDecoding(boundaries)
        BY <1>1 DEF ClosedUnderDecoding
    <2>5. RejectedIsIllFormed'
        <3>1. SUFFICES ASSUME NEW B \in SUBSET (0..Len(code)),
                              WellFormed(code, chunk.constants, B)
                       PROVE  \E S \in SUBSET (0..Len(code)) :
                                ClosedUnderDecoding(S)' /\ ~(B \subseteq S)
            BY <1>1 DEF RejectedIsIllFormed
        <3>2. ClosedUnderDecoding(boundaries)' /\ ~(B \subseteq boundaries)
            BY <2>2, <2>3, <2>4, <3>1
        <3>3. QED
            BY <1>1, <2>2, <3>2 DEF ClosedUnderDecoding
    <2>6. QED
        BY <2>1, <2>5 DEF CInv, Reached
<1>4. CASE ~JumpRejected
    <2>1. pc' = pc /\ verdict' = verdict /\ offset' = EndOf(offset)
        BY <1>1, <1>4 DEF CheckJump
    <2>2. Reached'
        BY <1>1, <1>2, <2>1 DEF Reached
    <2>3. QED
        BY <1>1, <2>1, <2>2, KeptIllFormed DEF CInv
<1>5. QED
    BY <1>3, <1>4

LEMMA CheckLastByteCInv == IInv /\ CInv /\ CheckLastByte => CInv'
<1> SUFFICES ASSUME IInv, CInv, CheckLastByte PROVE CInv'
    OBVIOUS
<1>1. /\ chunk' = chunk /\ code' = code /\ pc' = "done"
      /\ verdict' = IF EndsWithReturn(code) THEN "ok" ELSE "no RETURN"
    BY Zenon DEF CheckLastByte, Conclude, code
<1>2. RejectedIsIllFormed'
    BY Zenon, <1>1 DEF RejectedIsIllFormed
<1>3. QED
    BY Zenon, <1>1, <1>2 DEF CInv, Reached

(* Whatever chunk it is given, bytecode.Validate refuses only one that     *)
(* cannot be cut into whole instructions with every jump on a boundary,    *)
(* whose tables differ in length or whose last byte is not RETURN.         *)
THEOREM ValidatorComplete == Spec => []RejectedIsIllFormed
<1>1. Init => CInv
    BY DEF Init, CInv, Reached, RejectedIsIllFormed
<1>2. IInv /\ CInv /\ [Next]_vars => CInv'
    <2> SUFFICES ASSUME IInv, CInv, [Next]_vars PROVE CInv'
        OBVIOUS
    <2>1. CASE UNCHANGED vars
        <3>1. chunk' = chunk /\ code' = code /\ pc' = pc /\ offset' = offset
              /\ boundaries' = boundaries /\ verdict' = verdict
            BY <2>1 DEF vars, code
        <3>2. Reached'
            BY <3>1 DEF CInv, Reached
        <3>3. QED
            BY <3>1, <3>2, KeptIllFormed DEF CInv
    <2>2. QED
        BY <2>1, CompareTablesCInv, MarkBoundaryCInv, MarkEndCInv, CheckJumpCInv,
           CheckLastByteCInv DEF Next
<1>3. CInv => RejectedIsIllFormed
    BY DEF CInv
<1>4. QED
    BY InitIInv, NextIInv, <1>1, <1>2, <1>3, PTL DEF Spec
-----------------------------------------------------------------------------
(* The disassembler: it starts on a boundary that Validate has collected,  *)
(* on a boundary an instruction decodes, and it ends at the next one.      *)

Entries == [offset: Nat, op: Byte, operand: Int, target: Int] \cup [offset: Nat, op: {NoEnd}]

ListTypeOK == next \in Nat /\ listing \in Seq(Entries)

OnBoundary ==
  /\ pc # "done" => next = 0 /\ listing = <<>>
  /\ verdict = "ok" => next \in boundaries
  /\ NeverFaulty

ListIInv == IInv /\ ListTypeOK /\ OnBoundary

(* A boundary before the end of an accepted chunk starts an instruction    *)
(* that decodes, and ends at a boundary.                                   *)
LEMMA BoundaryDecodes ==
  ASSUME ListIInv, verdict = "ok", next < Len(code)
  PROVE  NextEnd \in boundaries /\ NextEnd # NoEnd
<1>1. WellFormed(code, chunk.constants, boundaries) /\ next \in boundaries
  BY DEF ListIInv, IInv, AcceptedIsWellFormed, OnBoundary
<1>2. next \in boundaries \ {Len(code)} /\ boundaries \subseteq Nat
  BY <1>1, CodeIsBytes DEF ListIInv, IInv, TypeOK
<1>3. NextEnd \in boundaries
  BY <1>1, <1>2 DEF WellFormed, NextEnd
<1> QED  BY <1>2, <1>3 DEF NoEnd

(* The line of an instruction that decodes is not an ERROR line.           *)
LEMMA LineIsEntry ==
  ASSUME TypeOK, next \in Nat, next < Len(code), NextEnd # NoEnd
  PROVE  /\ Line(next) \in Entries
         /\ Line(next).op # NoEnd
         /\ NextEnd \in Nat
<1>0. code \in Seq(Byte) /\ Len(code) \in Nat 
  BY DEF TypeOK, code
<1>1. ByteAt(code, next) \in Byte
  BY <1>0 DEF ByteAt
<1>2. /\ NextEnd = next + 1 + OperandBytes(ByteAt(code, next))
      /\ NextEnd <= Len(code)
  BY DEF NextEnd, InstructionEnd
<1>3. OperandBytes(ByteAt(code, next)) \in {0, 1, 2}
  BY DEF OperandBytes
<1>4. Operand(next) \in Int
  <2>1. CASE OperandBytes(ByteAt(code, next)) = 0
    BY <2>1 DEF Operand
  <2>2. CASE OperandBytes(ByteAt(code, next)) = 1
    <3>1. ByteAt(code, next + 1) \in Byte
      BY <1>0, <1>2, <2>2 DEF ByteAt
    <3>2. Operand(next) = ByteAt(code, next + 1)
      BY <2>2 DEF Operand
    <3> QED  BY <3>1, <3>2 DEF Byte
  <2>3. CASE OperandBytes(ByteAt(code, next)) = 2
    <3>1. ByteAt(code, next + 1) \in Byte /\ ByteAt(code, next + 2) \in Byte
      BY <1>0, <1>2, <2>3 DEF ByteAt
    <3>2. Operand(next) = DecodeUint16(ByteAt(code, next + 1), ByteAt(code, next + 2))
      BY <2>3 DEF Operand
    <3>3. \A high, low \in Byte : DecodeUint16(high, low) \in Int
      BY DEF Byte, DecodeUint16
    <3> QED  BY <3>1, <3>2, <3>3
  <2> QED  BY <1>3, <2>1, <2>2, <2>3
<1>5. Target(next) \in Int
  BY <1>0, <1>4 DEF Target, Nowhere
<1>6. Line(next) \in Entries
  BY <1>0, <1>1, <1>4, <1>5 DEF Line, Entries
<1>7. Line(next).op # NoEnd
  <2>1. Line(next).op = ByteAt(code, next)
    BY DEF Line
  <2>2. \A b \in Byte : b # NoEnd
    BY DEF NoEnd, Byte
  <2> QED  BY <1>1, <2>1, <2>2
<1> QED  BY <1>0, <1>2, <1>3, <1>6, <1>7

LEMMA ListInitIInv == ListInit => ListIInv
<1> SUFFICES ASSUME ListInit PROVE ListIInv
  OBVIOUS
<1>1. IInv
  BY InitIInv DEF ListInit
<1>2. verdict # "ok"
  BY DEF ListInit, Init
<1> QED  BY <1>1, <1>2 DEF ListInit, ListIInv, ListTypeOK, OnBoundary, NeverFaulty

(* Nothing is listed while Validate runs, and 0 is a boundary of what it   *)
(* accepts.                                                                *)
LEMMA ValidateKeepsIInv ==
  ASSUME ListIInv, Next, UNCHANGED <<next, listing, stopped>>
  PROVE  ListIInv'
<1>1. IInv'
  BY NextIInv DEF ListIInv
<1>2. pc # "done"
  BY Zenon DEF Next, CompareTables, MarkBoundary, MarkEnd, CheckJump, CheckLastByte
<1>3. next' = 0 /\ listing' = <<>>
  BY <1>2 DEF ListIInv, OnBoundary
<1>4. verdict' = "ok" => 0 \in boundaries'
  BY <1>1 DEF IInv, AcceptedIsWellFormed, WellFormed
<1> QED  BY <1>1, <1>3, <1>4 DEF ListIInv, ListTypeOK, OnBoundary, NeverFaulty

LEMMA ListIInvStep ==
  ASSUME ListIInv, List
  PROVE  ListIInv'
<1>1. /\ UNCHANGED vars /\ pc = "done"
      /\ next < Len(code) /\ NextEnd # NoEnd
      /\ next' = NextEnd /\ listing' = Append(listing, Line(next))
  BY DEF List, Going
<1>2. IInv'
  BY <1>1, NextIInv DEF ListIInv
<1>3. Line(next) \in Entries /\ Line(next).op # NoEnd /\ NextEnd \in Nat
  BY <1>1, LineIsEntry DEF ListIInv, IInv, ListTypeOK
<1>4. ListTypeOK'
  BY <1>1, <1>3 DEF ListIInv, ListTypeOK
<1>5. ASSUME verdict = "ok" PROVE next' \in boundaries
  BY <1>1, <1>5, BoundaryDecodes
<1>6. ASSUME verdict = "ok" PROVE \A i \in DOMAIN listing' : listing'[i].op # NoEnd
  <2>1. \A i \in DOMAIN listing' :
           listing'[i] = IF i \in DOMAIN listing THEN listing[i] ELSE Line(next)
    BY <1>1, <1>3 DEF ListIInv, ListTypeOK
  <2>2. \A i \in DOMAIN listing : listing[i].op # NoEnd
    BY <1>6 DEF ListIInv, OnBoundary, NeverFaulty
  <2> QED  BY <1>3, <2>1, <2>2
<1>7. pc' = "done" /\ verdict' = verdict /\ boundaries' = boundaries
  BY <1>1 DEF vars
<1>8. OnBoundary'
  BY <1>5, <1>6, <1>7 DEF OnBoundary, NeverFaulty
<1> QED  BY <1>2, <1>4, <1>8 DEF ListIInv

LEMMA FaultIInv ==
  ASSUME ListIInv, Fault
  PROVE  ListIInv'
<1>1. /\ UNCHANGED vars /\ pc = "done"
      /\ next < Len(code) /\ NextEnd = NoEnd
      /\ next' = next /\ listing' = Append(listing, [offset |-> next, op |-> NoEnd])
  BY DEF Fault, Going
<1>2. IInv'
  BY <1>1, NextIInv DEF ListIInv
<1>3. verdict # "ok"
  BY <1>1, BoundaryDecodes
<1>4. ListTypeOK'
  BY <1>1 DEF ListIInv, ListTypeOK, Entries
<1> QED  BY <1>1, <1>2, <1>3, <1>4 DEF vars, ListIInv, OnBoundary, NeverFaulty

LEMMA ListNextIInv == ListIInv /\ [ListNext]_listVars => ListIInv'
<1> SUFFICES ASSUME ListIInv, [ListNext]_listVars PROVE ListIInv'
  OBVIOUS
<1>1. CASE UNCHANGED vars /\ UNCHANGED <<next, listing>>
  <2>1. IInv'
    BY <1>1, NextIInv DEF ListIInv
  <2> QED  BY <1>1, <2>1 DEF vars, ListIInv, ListTypeOK, OnBoundary, NeverFaulty
<1>2. CASE Stop \/ UNCHANGED listVars
  BY <1>1, <1>2 DEF Stop, Going, listVars
<1>3. CASE List
  BY <1>3, ListIInvStep
<1>4. CASE Fault
  BY <1>4, FaultIInv
<1>5. CASE Next /\ UNCHANGED <<next, listing, stopped>>
  BY <1>5, ValidateKeepsIInv
<1> QED  BY <1>2, <1>3, <1>4, <1>5 DEF ListNext

(* What Validate accepts is listed without an ERROR line. *)
THEOREM AcceptedIsListed == ListSpec => []NeverFaulty
<1>1. ListIInv => NeverFaulty
  BY DEF ListIInv, OnBoundary
<1> QED  BY <1>1, ListInitIInv, ListNextIInv, PTL DEF ListSpec

-----------------------------------------------------------------------------
(* The listing of an accepted chunk.  That no boundary lies between an     *)
(* instruction and its end, which the loops of Validate keep, is what lets *)
(* the lines below next be the boundaries below it.                        *)
Ordered == verdict = "ok" => InOrder

Listed == {listing[i].offset : i \in DOMAIN listing}

Exact ==
  verdict = "ok" =>
    /\ Listed = {b \in boundaries : b < next}
    /\ \A i, j \in DOMAIN listing : i < j => listing[i].offset < listing[j].offset
    /\ \A i \in DOMAIN listing : ShowsInstruction(listing[i])
    /\ stopped => next >= Len(code)

RunsIInv == ListIInv /\ Ordered /\ (pc # "done" => ~stopped) /\ Exact

(* Only the last step of Validate gives the verdict ok.                    *)
LEMMA OrderedKept == IInv /\ Ordered /\ [Next]_vars => Ordered'
<1> SUFFICES ASSUME IInv, Ordered, [Next]_vars PROVE Ordered'
  OBVIOUS
<1>1. CASE CheckLastByte
  <2>1. /\ pc = "jumps" /\ code' = code /\ boundaries' = boundaries /\ chunk' = chunk
    BY Zenon, <1>1 DEF CheckLastByte, Conclude, code
  <2>2. InOrder
    BY <2>1 DEF IInv, Checking
  <2> QED  BY <2>1, <2>2 DEF Ordered, InOrder, EndOf
<1>2. CASE UNCHANGED vars
  BY <1>2 DEF vars, Ordered, InOrder, EndOf, code
<1>3. CASE CompareTables \/ MarkBoundary \/ MarkEnd \/ CheckJump
  <2>1. verdict = "none"
    BY Zenon, <1>3 DEF IInv, CompareTables, MarkBoundary, MarkEnd, CheckJump
  <2>2. verdict' # "ok"
    BY Zenon, <1>3, <2>1 DEF CompareTables, MarkBoundary, MarkEnd, CheckJump, Conclude
  <2> QED  BY <2>2 DEF Ordered
<1> QED  BY <1>1, <1>2, <1>3 DEF Next

(* A part of a code is known by its bytes. *)
LEMMA PartOfCode ==
  ASSUME NEW s \in Seq(Byte), NEW m \in Nat \ {0}, NEW n \in Nat, m <= n, n <= Len(s),
         NEW t \in Seq(Byte), Len(t) = n - m + 1,
         \A i \in 1..Len(t) : t[i] = s[m + i - 1]
  PROVE  t = SubSeq(s, m, n)
<1>1. \A i \in m..n : s[i] \in Byte
  OBVIOUS
<1>2. /\ SubSeq(s, m, n) \in Seq(Byte)
      /\ Len(SubSeq(s, m, n)) = n - m + 1
      /\ \A i \in 1..(n - m + 1) : SubSeq(s, m, n)[i] = s[m + i - 1]
  BY <1>1, SubSeqProperties
<1> QED  BY <1>2, SeqEqual

(* A line shows the bytes at its offset, operand and all, and the target   *)
(* of a jump.                                                              *)
LEMMA LineShowsInstruction ==
  ASSUME TypeOK, next \in Nat, next < Len(code), NextEnd # NoEnd
  PROVE  ShowsInstruction(Line(next))
<1> DEFINE op == ByteAt(code, next)
           line == Line(next)
           bytes == SubSeq(code, next + 1, next + 1 + OperandBytes(op))
<1>0. code \in Seq(Byte) /\ Len(code) \in Nat
  BY DEF TypeOK, code
<1>1. next + 1 + OperandBytes(op) <= Len(code)
  BY DEF NextEnd, InstructionEnd
<1>2. line.offset = next /\ line.op = op /\ line.operand = Operand(next) /\ line.target = Target(next)
  BY DEF Line
<1>3. OperandBytes(op) \in {0, 1, 2}
  BY DEF OperandBytes
<1>4. op \in Byte
  BY <1>0 DEF ByteAt
<1>5. Assembled(line) = bytes
  <2>1. CASE OperandBytes(op) = 0
    <3>1. Assembled(line) = <<op>>
      BY <1>2, <2>1 DEF Assembled
    <3>2. <<op>> = bytes
      BY <1>0, <1>1, <1>4, <2>1, PartOfCode DEF ByteAt
    <3> QED  BY <3>1, <3>2
  <2>2. CASE OperandBytes(op) = 1
    <3> DEFINE low == ByteAt(code, next + 1)
    <3>1. Assembled(line) = <<op, low>>
      BY <1>2, <2>2 DEF Assembled, Operand
    <3>2. low \in Byte
      BY <1>0, <1>1, <2>2 DEF ByteAt
    <3>3. <<op, low>> = bytes
      BY <1>0, <1>1, <1>4, <2>2, <3>2, PartOfCode DEF ByteAt
    <3> QED  BY <3>1, <3>3
  <2>3. CASE OperandBytes(op) = 2
    <3> DEFINE high == ByteAt(code, next + 1)
               low == ByteAt(code, next + 2)
    <3>1. high \in Byte /\ low \in Byte
      BY <1>0, <1>1, <2>3 DEF ByteAt
    <3>2. line.operand = high * 256 + low
      BY <1>2, <2>3 DEF Operand, DecodeUint16
    <3>3. \A h, l \in Byte : (h * 256 + l) \div 256 = h /\ (h * 256 + l) % 256 = l
      BY DEF Byte
    <3>4. line.operand \div 256 = high /\ line.operand % 256 = low
      BY <3>1, <3>2, <3>3
    <3>5. Assembled(line) = <<op, high, low>>
      BY <1>2, <2>3, <3>4 DEF Assembled
    <3> HIDE DEF high, low
    <3>6. <<op, high, low>> = bytes
      <4>1. high = code[next + 2] /\ low = code[next + 3]
        BY <1>0 DEF high, low, ByteAt
      <4> QED  BY <1>0, <1>1, <1>4, <2>3, <3>1, <4>1, PartOfCode DEF ByteAt
    <3> QED  BY <3>5, <3>6
  <2> QED  BY <1>3, <2>1, <2>2, <2>3
<1>6. line.target = IF IsJump(op) THEN JumpTarget(code, next) ELSE Nowhere
  <2>1. CASE op \in {OpJump, OpJumpIfFalse, OpLoop}
    <3>1. Operand(next) = DecodeUint16(ByteAt(code, next + 1), ByteAt(code, next + 2))
      <4>1. OperandBytes(op) = 2
        BY <2>1 DEF OperandBytes, IsJump
      <4> QED  BY <4>1 DEF Operand
    <3>2. OpLoop \notin {OpJump, OpJumpIfFalse}
      BY DEF OpLoop, OpJump, OpJumpIfFalse
    <3>3. Target(next) = JumpTarget(code, next)
      BY <2>1, <3>1, <3>2 DEF Target, JumpTarget
    <3> QED  BY <1>2, <2>1, <3>3 DEF IsJump
  <2>2. CASE op \notin {OpJump, OpJumpIfFalse, OpLoop}
    BY <1>2, <2>2 DEF Target, IsJump
  <2> QED  BY <2>1, <2>2
<1> QED  BY <1>2, <1>5, <1>6 DEF ShowsInstruction

LEMMA ListKeepsExact ==
  ASSUME RunsIInv, List
  PROVE  Exact'
<1> SUFFICES ASSUME verdict = "ok" PROVE Exact'
  BY DEF List, Going, vars, Exact
<1>1. /\ UNCHANGED vars /\ ~stopped /\ stopped' = stopped
      /\ next < Len(code) /\ NextEnd # NoEnd
      /\ next' = NextEnd /\ listing' = Append(listing, Line(next))
  BY DEF List, Going
<1>2. Line(next) \in Entries /\ NextEnd \in Nat /\ next \in Nat /\ listing \in Seq(Entries)
  BY <1>1, LineIsEntry DEF RunsIInv, ListIInv, IInv, ListTypeOK
<1>3. next < NextEnd /\ next \in boundaries /\ boundaries \subseteq Nat
  BY <1>1, <1>2, EndBounds DEF RunsIInv, ListIInv, IInv, TypeOK, OnBoundary, NextEnd, EndOf
<1>4. \A b \in boundaries : next < b => NextEnd <= b
  BY <1>3 DEF RunsIInv, Ordered, InOrder, EndOf, NextEnd
<1>5. /\ Listed = {b \in boundaries : b < next}
      /\ \A i, j \in DOMAIN listing : i < j => listing[i].offset < listing[j].offset
      /\ \A i \in DOMAIN listing : ShowsInstruction(listing[i])
  BY DEF RunsIInv, Exact
<1>6. /\ DOMAIN listing = 1..Len(listing) /\ Len(listing) \in Nat
      /\ DOMAIN listing' = 1..(Len(listing) + 1)
      /\ \A i \in DOMAIN listing : listing'[i] = listing[i]
      /\ listing'[Len(listing) + 1] = Line(next)
  BY <1>1, <1>2
<1>7. Line(next).offset = next /\ ShowsInstruction(Line(next))
  <2>1. Line(next).offset = next
    BY DEF Line
  <2> QED  BY <1>1, <1>2, <2>1, LineShowsInstruction DEF RunsIInv, ListIInv, IInv
<1>8. \A i \in DOMAIN listing' : i \in DOMAIN listing \/ i = Len(listing) + 1
  BY <1>6
<1>9. Listed' = {b \in boundaries' : b < next'}
  <2>1. Listed' = Listed \cup {next}
    BY <1>6, <1>7, <1>8 DEF Listed
  <2>2. \A b \in boundaries : b < NextEnd <=> b < next \/ b = next
    <3>1. \A b \in boundaries : b \in Nat
      BY <1>3
    <3> QED  BY <1>2, <1>3, <1>4, <3>1
  <2>3. {b \in boundaries : b < NextEnd} = {b \in boundaries : b < next} \cup {next}
    BY <1>3, <2>2
  <2> QED  BY <1>1, <1>5, <2>1, <2>3 DEF vars
<1>10. \A i \in DOMAIN listing : listing[i].offset < next
  BY <1>5 DEF Listed
<1>11. ASSUME NEW i \in DOMAIN listing', NEW j \in DOMAIN listing', i < j
       PROVE  listing'[i].offset < listing'[j].offset
  <2>1. i \in DOMAIN listing
    BY <1>6, <1>11
  <2> QED  BY <1>5, <1>6, <1>7, <1>8, <1>10, <1>11, <2>1
<1>12. (\A i \in DOMAIN listing : ShowsInstruction(listing[i]))'
  <2>1. \A i \in DOMAIN listing' : ShowsInstruction(listing'[i])
    BY <1>5, <1>6, <1>7, <1>8
  <2>2. code' = code
    BY <1>1 DEF vars, code
  <2> QED  BY <2>1, <2>2 DEF ShowsInstruction
<1> QED  BY <1>1, <1>9, <1>11, <1>12 DEF Exact, vars

LEMMA RunsNextIInv == RunsIInv /\ [ListNext]_listVars => RunsIInv'
<1> SUFFICES ASSUME RunsIInv, [ListNext]_listVars PROVE RunsIInv'
  OBVIOUS
<1>1. ListIInv'
  BY ListNextIInv DEF RunsIInv
<1>2. Ordered'
  <2>1. [Next]_vars
    BY DEF ListNext, List, Fault, Stop, Going, listVars
  <2> QED  BY <2>1, OrderedKept DEF RunsIInv, ListIInv
<1>3. (pc # "done" => ~stopped)'
  BY Zenon DEF RunsIInv, ListNext, List, Fault, Stop, Going, listVars, vars,
         Next, CompareTables, MarkBoundary, MarkEnd, CheckJump, CheckLastByte
<1>4. CASE List
  BY <1>1, <1>2, <1>3, <1>4, ListKeepsExact DEF RunsIInv
<1>5. CASE Fault
  <2>1. verdict # "ok" /\ verdict' = verdict
    BY <1>5, BoundaryDecodes DEF Fault, Going, RunsIInv, vars
  <2> QED  BY <1>1, <1>2, <1>3, <2>1 DEF RunsIInv, Exact
<1>6. CASE Stop
  BY <1>1, <1>2, <1>3, <1>6
  DEF Stop, Going, RunsIInv, Exact, Listed, ShowsInstruction, vars, code
<1>7. CASE Next /\ UNCHANGED <<next, listing, stopped>>
  <2>1. pc # "done"
    BY Zenon, <1>7 DEF Next, CompareTables, MarkBoundary, MarkEnd, CheckJump, CheckLastByte
  <2>2. next' = 0 /\ listing' = <<>> /\ ~stopped'
    BY <1>7, <2>1 DEF RunsIInv, ListIInv, OnBoundary
  <2>3. boundaries' \subseteq Nat
    BY <1>1 DEF ListIInv, IInv, TypeOK
  <2>4. Listed' = {} /\ {b \in boundaries' : b < next'} = {}
    <3>1. DOMAIN listing' = {}
      BY <2>2
    <3>2. \A b \in boundaries' : ~(b < next')
      BY <2>2, <2>3
    <3> QED  BY <3>1, <3>2 DEF Listed
  <2>5. Exact'
    BY <2>2, <2>4 DEF Exact
  <2> QED  BY <1>1, <1>2, <1>3, <2>5 DEF RunsIInv
<1>8. CASE UNCHANGED listVars
  BY <1>1, <1>2, <1>3, <1>8
  DEF listVars, vars, RunsIInv, Exact, Listed, ShowsInstruction, code
<1> QED  BY <1>4, <1>5, <1>6, <1>7, <1>8 DEF ListNext

(* The listing of an accepted chunk has one line, in order, for each       *)
(* instruction that the machine can run, with its own opcode and operand,  *)
(* and shows the target of every jump.                                     *)
THEOREM ListingIsTheProgram == ListSpec => []ListsWhatRuns
<1>1. ListInit => RunsIInv
  <2> SUFFICES ASSUME ListInit PROVE RunsIInv
    OBVIOUS
  <2>1. verdict = "none" /\ ~stopped
    BY DEF ListInit, Init
  <2> QED  BY <2>1, ListInitIInv DEF RunsIInv, Ordered, Exact
<1>2. RunsIInv => ListsWhatRuns
  <2> SUFFICES ASSUME RunsIInv, verdict = "ok", stopped PROVE ListsWhatRuns
    BY DEF ListsWhatRuns
  <2>1. WellFormed(code, chunk.constants, boundaries) /\ Len(code) \in Nat
    BY CodeIsBytes DEF RunsIInv, ListIInv, IInv, AcceptedIsWellFormed
  <2>2. next >= Len(code) /\ next \in boundaries /\ boundaries \subseteq 0..Len(code)
    BY <2>1 DEF RunsIInv, Exact, ListIInv, OnBoundary, WellFormed
  <2>3. {b \in boundaries : b < next} = boundaries \ {Len(code)}
    <3>1. next = Len(code)
      BY <2>1, <2>2
    <3>2. \A b \in boundaries : b < next <=> b # Len(code)
      BY <2>1, <2>2, <3>1
    <3> QED  BY <3>2
  <2> QED  BY <2>3 DEF RunsIInv, Exact, ListsWhatRuns, Listed
<1> QED  BY <1>1, <1>2, RunsNextIInv, PTL DEF ListSpec
=============================================================================
