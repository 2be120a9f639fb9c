------------------------------ MODULE Runtime ------------------------------
(***************************************************************************)
(* internal/runtime: values, functions and upvalue specifications.         *)
(*                                                                         *)
(* A value is a tuple of its type name and its data.  A string is a        *)
(* sequence of symbols: a rune, or a word (an identifier or a type name)   *)
(* that stands for its runes where nothing counts them.  A number is an    *)
(* integer, which stands for the float64 of the source (no property        *)
(* depends on what a fraction is).  A closure is its identity, the index   *)
(* of its function in the program, and the addresses of its upvalues,      *)
(* which never change once the value exists.  A native function is its     *)
(* name.                                                                   *)
(***************************************************************************)
EXTENDS Bytecode

CONSTANT Symbols      \* what strings are made of

Nil == <<"nil">>
Number(n) == <<"number", n>>
Bool(b) == <<"bool", b>>
String(s) == <<"string", s>>
ClosureValue(c) == <<"closure", c>>
NativeValue(name) == <<"native", name>>

TypeName(v) == v[1]
IsNumber(v) == TypeName(v) = "number"
IsString(v) == TypeName(v) = "string"
IsClosure(v) == TypeName(v) = "closure"
IsNative(v) == TypeName(v) = "native"

IsFalsey(v) == v = Nil \/ v = Bool(FALSE)

(* Value.Equal: closures and natives are compared as pointers. *)
Equal(a, b) == TypeName(a) = TypeName(b) /\ a = b

Natives == {"clock", "type", "len"}
TypeNames == {"nil", "number", "bool", "string", "closure", "native"}

ASSUME SymbolAssumption == Natives \cup TypeNames \subseteq Symbols

Name == Seq(Symbols)

(* The values of a compiled constant pool. *)
Literal ==
  {Nil} \cup ({"number"} \X Int) \cup ({"bool"} \X BOOLEAN) \cup ({"string"} \X Name)

Closure(functions, addresses) ==
  [id: Nat, fn: functions, upvalues: Seq(addresses)]

Value(functions, addresses) ==
  Literal \cup ({"native"} \X Natives)
          \cup ({"closure"} \X Closure(functions, addresses))

(* A *Function in a constant pool: its index in the program. *)
FunctionRef(k) == <<"function", k>>

(* UpvalueSpec: a captured local of the enclosing function, or one of its upvalues. *)
UpvalueSpec == [isLocal: BOOLEAN, index: Byte]
Local(i) == [isLocal |-> TRUE, index |-> i]
Outer(i) == [isLocal |-> FALSE, index |-> i]

(***************************************************************************)
(* A program is the sequence of its functions, the script first: the tree  *)
(* of *Function constants in preorder.  boundaries holds the instruction   *)
(* boundaries that bytecode.Validate collects for the function's chunk     *)
(* (module Validator); the program does not keep them.                     *)
(***************************************************************************)
Function == [arity: Nat, code: Seq(Byte), boundaries: SUBSET Nat,
             constants: Seq(Literal \cup ({"function"} \X Nat)),
             upvalues: Seq(UpvalueSpec)]

IsProgram(p) ==
  /\ p \in Seq(Function)
  /\ Len(p) > 0
  /\ \A k \in 1..Len(p) : \A c \in 1..Len(p[k].constants) :
        LET constant == p[k].constants[c]
        IN constant[1] = "function" => constant[2] \in 1..Len(p)

(* Function.Validate *)
Validated(f) ==
  /\ f.arity \in 0..255
  /\ WellFormed(f.code, Len(f.constants), f.boundaries)
  /\ EndsWithReturn(f.code)
=============================================================================
