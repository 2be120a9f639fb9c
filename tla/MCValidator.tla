----------------------------- MODULE MCValidator -----------------------------
(***************************************************************************)
(* Validator, then Disassembler, on every code of at most MaxLen bytes     *)
(* over an alphabet that holds an opcode of each kind, small operand       *)
(* values (which are opcodes too) and a byte that is no opcode.            *)
(***************************************************************************)
EXTENDS Disassembler

CONSTANTS MaxLen, Alphabet

MCChunks ==
  LET Codes == UNION {[1..n -> Alphabet] : n \in 0..MaxLen}
  IN {c \in [code: Codes, constants: 0..1, lines: 0..MaxLen] :
        c.lines = Len(c.code) \/ (c.lines = MaxLen /\ c.constants = 0)}
=============================================================================
