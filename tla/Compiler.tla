------------------------------ MODULE Compiler ------------------------------
(***************************************************************************)
(* internal/compiler: the single pass from tokens to bytecode, with the    *)
(* chunk builder it emits through.                                         *)
(*                                                                         *)
(* The source is a set of mutually recursive procedures.  Here the work    *)
(* that their stack of calls has left is the variable agenda, a sequence   *)
(* of tasks, the next one first, and one action does one task: it looks    *)
(* at the tokens, emits code, changes the scopes, and replaces its task by *)
(* those of the calls it makes.  A task is a tuple of its name and the     *)
(* local variables of the procedure that outlive a call.                   *)
(*                                                                         *)
(* A token is its type and its value: the name of an identifier, the       *)
(* constant of a literal.  Functions are numbered in the order in which    *)
(* they are begun, the script first, and are appended to one sequence.     *)
(* Lines and columns are left out.                                         *)
(***************************************************************************)
EXTENDS Discipline

LOCAL INSTANCE SequencesExt
LOCAL INSTANCE FiniteSetsExt

CONSTANTS Sources,      \* records: the tokens, and the scanner's diagnostics
          ByteSize,     \* how many numbers a byte holds (256)
          ShortSize     \* how many numbers two bytes hold (65536)

(* lexer.Token, but for the position. *)
PlainTokens ==
  {"LeftParen", "RightParen", "LeftBrace", "RightBrace", "Comma", "Minus", "Plus",
   "Semicolon", "Slash", "Star", "Bang", "BangEqual", "Equal", "EqualEqual", "Greater",
   "GreaterEqual", "Less", "LessEqual", "And", "Else", "False", "Fun", "If", "Nil", "Or",
   "Print", "Return", "True", "Var", "While"}
Token == ({"Identifier"} \X Name) \cup ({"Number", "String"} \X Literal)
         \cup (PlainTokens \X {<<>>})

ASSUME CompilerAssumption ==
  /\ Sources \subseteq [tokens: Seq(Token), errors: Seq(STRING)]
  /\ ByteSize \in 1..256
  /\ ShortSize \in 1..(256 * 256)

(* Where a name is missing, the source uses the lexeme of another token. *)
ASSUME LexemeAssumption == PlainTokens \cup {"EOF", "Number", "String"} \subseteq Symbols

VARIABLES source,       \* the tokens, without the final EOF
          current,      \* parser.current: how many tokens were read
          panicMode,    \* parser.panicMode
          diagnostics,  \* parser.diagnostics, as what each reports
          compilers,    \* the functionCompilers, from the script to c.current
          functions,    \* the functions begun so far
          agenda,       \* what is left to do, the next task first
          outcome       \* "none", or how Compile returned

vars == <<source, current, panicMode, diagnostics, compilers, functions, agenda, outcome>>

LocalVariable == [name: Name, depth: Nat \cup {-1}, isCaptured: BOOLEAN]
FunctionCompiler == [function: Nat, locals: Seq(LocalVariable), scopeDepth: Nat]

NewFunction == [arity |-> 0, upvalues |-> <<>>, constants |-> <<>>, code |-> <<>>]

(* A function's first local is the slot of its closure, which has no name. *)
NewFunctionCompiler(function, scopeDepth) ==
  [function |-> function, scopeDepth |-> scopeDepth,
   locals |-> <<[name |-> <<>>, depth |-> 0, isCaptured |-> FALSE]>>]

Init ==
  /\ \E s \in Sources : source = s.tokens /\ diagnostics = s.errors
  /\ current = 0
  /\ panicMode = FALSE
  /\ compilers = <<NewFunctionCompiler(1, 0)>>
  /\ functions = <<NewFunction>>
  /\ agenda = <<<<"Script">>>>
  /\ outcome = "none"
-----------------------------------------------------------------------------
(* The parser. *)

TokenAt(i) == IF i \in 1..Len(source) THEN source[i] ELSE <<"EOF", <<>>>>
CurrentToken == TokenAt(current + 1)
Check(type) == CurrentToken[1] = type

Lexeme(token) == IF token[1] = "Identifier" THEN token[2] ELSE <<token[1]>>

(* advance, n times: the token EOF is read once. *)
Advance(n) == current' = Min({current + n, Len(source) + 1})

OneIf(condition) == IF condition THEN 1 ELSE 0

(* errorAt for each of the errors an action meets, in their order: only    *)
(* the first is kept, and none while the parser is in panic mode.          *)
Report(errors) ==
  /\ panicMode' = (panicMode \/ errors # <<>>)
  /\ diagnostics' = IF panicMode \/ errors = <<>> THEN diagnostics
                    ELSE Append(diagnostics, errors[1])

Task(name) == agenda # <<>> /\ agenda[1][1] = name

(* The task is done, and those of the calls it makes come next. *)
Then(tasks) ==
  /\ agenda' = tasks \o Tail(agenda)
  /\ UNCHANGED <<source, outcome>>

Quiet == UNCHANGED <<panicMode, diagnostics>>

(* An action that only reads n tokens, and one that may report an error.   *)
Read(n, tasks) ==
  Advance(n) /\ Then(tasks) /\ Quiet /\ UNCHANGED <<compilers, functions>>
ReadOrFail(n, failure, error, tasks) ==
  /\ Advance(n)
  /\ Report(IF failure THEN <<error>> ELSE <<>>)
  /\ Then(tasks)
  /\ UNCHANGED <<compilers, functions>>

Expect(type) == <<"Consume", type>>
Consume ==
  /\ Task("Consume")
  /\ LET type == agenda[1][2]
     IN ReadOrFail(OneIf(Check(type)), ~Check(type), type, <<>>)

(* The tokens that start a statement, to which synchronize skips. *)
Keywords == {"Fun", "Var", "If", "While", "Print", "Return"}

SyncPoint(i) ==
  TokenAt(i + 1)[1] \in {"EOF"} \cup Keywords \/ TokenAt(i)[1] = "Semicolon"

RecoverStuck ==
  /\ Task("Recover")
  /\ panicMode' = FALSE
  /\ IF panicMode => SyncPoint(current)
     THEN Then(<<>>) /\ UNCHANGED <<current, diagnostics, compilers, functions>>
     ELSE UNCHANGED vars

(* The end of declaration: synchronize reads on until the end, after a     *)
(* semicolon, or before a keyword.                                         *)
Recover ==
  /\ Task("Recover")
  /\ panicMode' = FALSE
  /\ current' = IF ~panicMode THEN current
                ELSE Min({i \in current..Max({current, Len(source)}) : SyncPoint(i)})
  /\ Then(<<>>)
  /\ UNCHANGED <<diagnostics, compilers, functions>>
-----------------------------------------------------------------------------
(* The chunk builder.  These operators return the changed function. *)

Depth == Len(compilers)
Scope == compilers[Depth]                \* c.current
Target == functions[Scope.function]      \* c.current.function

Generate(function) == functions' = [functions EXCEPT ![Scope.function] = function]
SetScope(scope) == compilers' = [compilers EXCEPT ![Depth] = scope]

(* The conversion byte(n). *)
AsByte(n) == n % ByteSize

Emit(function, bytes) == [function EXCEPT !.code = @ \o bytes]

FullPool(function) == Len(function.constants) >= ByteSize
AddConstant(function, value) ==
  IF FullPool(function) THEN function
  ELSE [function EXCEPT !.constants = Append(@, value)]
ConstantIndex(function) == IF FullPool(function) THEN 0 ELSE Len(function.constants)
ConstantErrors(function) == IF FullPool(function) THEN <<"too many constants">> ELSE <<>>

FitsShort(distance) == distance \in 0..(ShortSize - 1)
EncodeUint16(n) == <<n \div 256, n % 256>>

(* EmitJump: where its operand is, and the function with the jump. *)
JumpOperand(function) == Len(function.code) + 1
EmitJump(function, op) == Emit(function, <<op, 255, 255>>)

Distance(function, operand) == (Len(function.code) - operand) - 2
PatchJump(function, operand) ==
  LET bytes == EncodeUint16(Distance(function, operand))
  IN IF FitsShort(Distance(function, operand))
     THEN [function EXCEPT !.code[operand + 1] = bytes[1], !.code[operand + 2] = bytes[2]]
     ELSE function
PatchErrors(function, operand) ==
  IF FitsShort(Distance(function, operand)) THEN <<>> ELSE <<"jump is too large">>

LoopDistanceShort(function, start) == (Len(function.code) + 1 - start) + 1
LoopDistance(function, start) == (Len(function.code) + 1 - start) + 2
EmitLoop(function, start) ==
  Emit(function, <<OpLoop>> \o IF FitsShort(LoopDistance(function, start))
                               THEN EncodeUint16(LoopDistance(function, start))
                               ELSE <<>>)
LoopErrors(function, start) ==
  IF FitsShort(LoopDistance(function, start)) THEN <<>> ELSE <<"loop is too large">>

(* An action that reads n tokens and changes only the current function. *)
Write(n, function, errors, tasks) ==
  /\ Advance(n)
  /\ Generate(function)
  /\ Report(errors)
  /\ Then(tasks)
  /\ UNCHANGED compilers

(* Tasks that emit code, and that patch a jump. *)
Code(bytes) == <<"Emit", bytes>>
EmitCode == Task("Emit") /\ Write(0, Emit(Target, agenda[1][2]), <<>>, <<>>)

Patch ==
  /\ Task("Patch")
  /\ LET operand == agenda[1][2]
     IN Write(0, PatchJump(Target, operand), PatchErrors(Target, operand), <<>>)
-----------------------------------------------------------------------------
(* Variables. *)

UnaryPrecedence == 8

(* The precedence parsePrecedence was given; canAssign. *)
Level == agenda[1][2]
CanAssignAlways == Level <= UnaryPrecedence
CanAssign == Level <= 1
Expression == <<"Precedence", 1>>
Rest == <<"Infix", Level>>         \* the operators after an operand

(* declareVariable: the locals of the innermost scope, in which a name may *)
(* be declared once.                                                       *)
InScope(i) == Scope.locals[i].depth = -1 \/ Scope.locals[i].depth >= Scope.scopeDepth
DeclareErrorsLate(name) ==
  IF Scope.scopeDepth > 0 /\ Len(Scope.locals) > ByteSize
  THEN <<"too many locals">> ELSE <<>>

DeclareErrors(name) ==
  IF Scope.scopeDepth = 0 THEN <<>>
  ELSE (IF \E i \in 1..Len(Scope.locals) :
              /\ \A j \in i..Len(Scope.locals) : InScope(j)
              /\ Scope.locals[i].name = name
        THEN <<"already declared">> ELSE <<>>)
       \o (IF Len(Scope.locals) >= ByteSize THEN <<"too many locals">> ELSE <<>>)

DeclareVariable(name) ==
  IF Scope.scopeDepth = 0 \/ Len(Scope.locals) >= ByteSize THEN Scope
  ELSE [Scope EXCEPT !.locals =
          Append(@, [name |-> name, depth |-> -1, isCaptured |-> FALSE])]

MarkInitialized(scope) ==
  IF scope.scopeDepth = 0 THEN scope
  ELSE [scope EXCEPT !.locals[Len(scope.locals)].depth = scope.scopeDepth]

(* parseVariable, which a variable, a function and a parameter use: each   *)
(* with what its caller does next.  A global keeps its name in a constant. *)
Variable == agenda[1][2]

ParseVariable ==
  /\ Task("ParseVariable")
  /\ Advance(OneIf(Check("Identifier")))
  /\ LET name == Lexeme(CurrentToken)
         global == Scope.scopeDepth = 0
         index == IF global THEN ConstantIndex(Target) ELSE 0
         declared == DeclareVariable(name)
     IN /\ SetScope(IF Variable = "variable" THEN declared ELSE MarkInitialized(declared))
        /\ IF global THEN Generate(AddConstant(Target, String(name)))
           ELSE UNCHANGED functions
        /\ Report((IF Check("Identifier") THEN <<>> ELSE <<"Identifier">>)
                  \o DeclareErrors(name)
                  \o (IF global THEN ConstantErrors(Target) ELSE <<>>))
        /\ Then(CASE Variable = "variable" ->
                       <<<<"Initializer">>, Expect("Semicolon"), <<"Define", index>>>>
                  [] Variable = "function" -> <<<<"Function">>, <<"Define", index>>>>
                  [] Variable = "parameter" -> <<<<"MoreParameters">>>>)

Initializer ==
  /\ Task("Initializer")
  /\ Read(OneIf(Check("Equal")), <<IF Check("Equal") THEN Expression ELSE Code(<<OpNil>>)>>)

DefineVariable ==
  /\ Task("Define")
  /\ \/ /\ Scope.scopeDepth > 0
        /\ SetScope(MarkInitialized(Scope))
        /\ Then(<<>>)
        /\ Quiet
        /\ UNCHANGED <<current, functions>>
     \/ /\ Scope.scopeDepth = 0
        /\ Write(0, Emit(Target, <<OpDefineGlobal, agenda[1][2]>>), <<>>, <<>>)

(* resolveLocal: the last local of a function with this name, or 0. *)
LocalIndex(level, name) ==
  SelectLastInSeq(compilers[level].locals, LAMBDA local : local.name = name)

(* The function among the enclosing ones whose local the name is, or 0. *)
Owner(name) == Max({0} \cup {level \in 1..Depth : LocalIndex(level, name) # 0})

InitializerErrorsNone(level, index) == <<>>

InitializerErrors(level, index) ==
  IF compilers[level].locals[index].depth = -1
  THEN <<"read in its own initializer">> ELSE <<>>

(* resolveUpvalue: each function between the owner and the current one     *)
(* gets an upvalue (AddUpvalue: once for each captured variable), of the   *)
(* owner's local or of the upvalue of the function around it.              *)
Captures(owner, index) ==
  LET capture[level \in (owner + 1)..Depth] ==
        LET upvalues == functions[compilers[level].function].upvalues
            spec == IF level = owner + 1 THEN Local(AsByte(index - 1))
                    ELSE Outer(capture[level - 1].index)
            known == SelectInSeq(upvalues, LAMBDA upvalue : upvalue = spec)
            full == known = 0 /\ Len(upvalues) >= ByteSize
        IN [index |-> IF full THEN 0 ELSE IF known > 0 THEN known - 1 ELSE Len(upvalues),
            upvalues |-> IF full \/ known > 0 THEN upvalues ELSE Append(upvalues, spec),
            errors |-> IF full THEN <<"captures too many values">> ELSE <<>>]
  IN capture

(* The rest of namedVariable, once the name is resolved. *)
Access(getOp, setOp, argument) ==
  LET assigned == CanAssign /\ TokenAt(current + 2)[1] = "Equal"
  IN /\ Advance(1 + OneIf(assigned))
     /\ Then((IF assigned THEN <<Expression, Code(<<setOp, argument>>)>>
              ELSE <<Code(<<getOp, argument>>)>>) \o <<Rest>>)
-----------------------------------------------------------------------------
(* Expressions. *)

PrecedenceOf(type) ==
  CASE type = "Or" -> 2
    [] type = "And" -> 3
    [] type \in {"BangEqual", "EqualEqual"} -> 4
    [] type \in {"Greater", "GreaterEqual", "Less", "LessEqual"} -> 5
    [] type \in {"Plus", "Minus"} -> 6
    [] type \in {"Star", "Slash"} -> 7
    [] type = "LeftParen" -> 9
    [] OTHER -> 0

Operations ==
  [BangEqual |-> <<OpEqual, OpNot>>, EqualEqual |-> <<OpEqual>>,
   Greater |-> <<OpGreater>>, GreaterEqual |-> <<OpLess, OpNot>>,
   Less |-> <<OpLess>>, LessEqual |-> <<OpGreater, OpNot>>,
   Plus |-> <<OpAdd>>, Minus |-> <<OpSubtract>>,
   Star |-> <<OpMultiply>>, Slash |-> <<OpDivide>>]

Keyword == [False |-> OpFalse, True |-> OpTrue, Nil |-> OpNil]

(* parsePrecedence reads the token that starts an operand. *)
Operand(types) == Task("Precedence") /\ CurrentToken[1] \in types

Literals == {"Number", "String"}
LiteralOperand ==
  /\ Operand(Literals)
  /\ Write(1, Emit(AddConstant(Target, CurrentToken[2]), <<OpConstant, ConstantIndex(Target)>>),
           ConstantErrors(Target), <<Rest>>)

KeywordOperand ==
  /\ Operand(DOMAIN Keyword)
  /\ Write(1, Emit(Target, <<Keyword[CurrentToken[1]]>>), <<>>, <<Rest>>)

Grouping ==
  /\ Operand({"LeftParen"})
  /\ Read(1, <<Expression, Expect("RightParen"), Rest>>)

Unary ==
  /\ Operand({"Minus", "Bang"})
  /\ Read(1, <<<<"Precedence", UnaryPrecedence>>,
               Code(<<IF Check("Bang") THEN OpNot ELSE OpNegate>>), Rest>>)

NamedLocal(name) ==
  LET index == LocalIndex(Depth, name)
  IN /\ Owner(name) = Depth
     /\ Access(OpGetLocal, OpSetLocal, AsByte(index - 1))
     /\ Report(InitializerErrors(Depth, index))
     /\ UNCHANGED <<compilers, functions>>

NamedUpvalue(name) ==
  LET owner == Owner(name)
      index == LocalIndex(owner, name)
      captures == Captures(owner, index)
  IN /\ owner \in 1..(Depth - 1)
     /\ Access(OpGetUpvalue, OpSetUpvalue, captures[Depth].index)
     /\ compilers' = [compilers EXCEPT ![owner].locals[index].isCaptured = TRUE]
     /\ functions' = [k \in DOMAIN functions |->
          LET levels == {level \in DOMAIN captures : compilers[level].function = k}
          IN IF levels = {} THEN functions[k]
             ELSE [functions[k] EXCEPT !.upvalues = captures[Max(levels)].upvalues]]
     /\ Report(InitializerErrors(owner, index)
               \o FlattenSeq([n \in 1..(Depth - owner) |-> captures[owner + n].errors]))

NamedGlobal(name) ==
  /\ Owner(name) = 0
  /\ Access(OpGetGlobal, OpSetGlobal, ConstantIndex(Target))
  /\ Generate(AddConstant(Target, String(name)))
  /\ Report(ConstantErrors(Target))
  /\ UNCHANGED compilers

NamedVariable ==
  /\ Operand({"Identifier"})
  /\ LET name == Lexeme(CurrentToken)
     IN NamedLocal(name) \/ NamedUpvalue(name) \/ NamedGlobal(name)

NoOperand ==
  /\ Task("Precedence")
  /\ CurrentToken[1] \notin Literals \cup DOMAIN Keyword
                              \cup {"LeftParen", "Minus", "Bang", "Identifier"}
  /\ ReadOrFail(1, TRUE, "expected expression", <<>>)

(* The loop of parsePrecedence: an operator that binds as tightly as the   *)
(* level asks.                                                             *)
Operator(types) ==
  /\ Task("Infix")
  /\ CurrentToken[1] \in types
  /\ Level <= PrecedenceOf(CurrentToken[1])

BinaryToTheRight ==
  /\ Operator(DOMAIN Operations)
  /\ Read(1, <<<<"Precedence", PrecedenceOf(CurrentToken[1])>>,
               Code(Operations[CurrentToken[1]]), Rest>>)

Binary ==
  /\ Operator(DOMAIN Operations)
  /\ Read(1, <<<<"Precedence", PrecedenceOf(CurrentToken[1]) + 1>>,
               Code(Operations[CurrentToken[1]]), Rest>>)

(* Code that skips what follows when the top of the stack is false, and    *)
(* else pops it: and, if and while emit it.                                *)
Test == Emit(EmitJump(Target, OpJumpIfFalse), <<OpPop>>)

And ==
  /\ Operator({"And"})
  /\ Write(1, Test, <<>>,
           <<<<"Precedence", PrecedenceOf("And")>>, <<"Patch", JumpOperand(Target)>>, Rest>>)

Or ==
  /\ Operator({"Or"})
  /\ LET elseJump == JumpOperand(Target)
         tested == EmitJump(Target, OpJumpIfFalse)
         jumped == EmitJump(tested, OpJump)
     IN Write(1, Emit(PatchJump(jumped, elseJump), <<OpPop>>), PatchErrors(jumped, elseJump),
              <<<<"Precedence", PrecedenceOf("Or")>>, <<"Patch", JumpOperand(tested)>>, Rest>>)

EndCall(count) == <<Expect("RightParen"), Code(<<OpCall, AsByte(count)>>)>>

Call ==
  /\ Operator({"LeftParen"})
  /\ Read(1, (IF TokenAt(current + 2)[1] = "RightParen" THEN EndCall(0)
              ELSE <<Expression, <<"Arguments", 1>>>>) \o <<Rest>>)

(* After the argument with this number. *)
Arguments ==
  /\ Task("Arguments")
  /\ LET count == agenda[1][2]
     IN ReadOrFail(OneIf(Check("Comma")), count > ByteSize - 1, "too many arguments",
                   IF Check("Comma") THEN <<Expression, <<"Arguments", count + 1>>>>
                   ELSE EndCall(count))

EndExpression ==
  /\ Task("Infix")
  /\ Level > PrecedenceOf(CurrentToken[1])
  /\ LET assigned == CanAssign /\ Check("Equal")
     IN ReadOrFail(OneIf(assigned), assigned, "invalid assignment target", <<>>)
-----------------------------------------------------------------------------
(* Statements. *)

Statement(type) == Task("Statement") /\ Check(type)

PrintStatement ==
  Statement("Print") /\ Read(1, <<Expression, Expect("Semicolon"), Code(<<OpPrint>>)>>)

Condition == <<Expect("LeftParen"), Expression, Expect("RightParen")>>

IfStatement == Statement("If") /\ Read(1, Condition \o <<<<"Then">>>>)

ThenBranch ==
  Task("Then") /\ Write(0, Test, <<>>, <<<<"Statement">>, <<"Else", JumpOperand(Target)>>>>)

ElseBranchUnpopped ==
  /\ Task("Else")
  /\ LET jumped == EmitJump(Target, OpJump)
     IN Write(OneIf(Check("Else")),
              PatchJump(jumped, agenda[1][2]), PatchErrors(jumped, agenda[1][2]),
              (IF Check("Else") THEN <<<<"Statement">>>> ELSE <<>>)
              \o <<<<"Patch", JumpOperand(Target)>>>>)

ElseBranch ==
  /\ Task("Else")
  /\ LET thenJump == agenda[1][2]
         jumped == EmitJump(Target, OpJump)
     IN Write(OneIf(Check("Else")),
              Emit(PatchJump(jumped, thenJump), <<OpPop>>), PatchErrors(jumped, thenJump),
              (IF Check("Else") THEN <<<<"Statement">>>> ELSE <<>>)
              \o <<<<"Patch", JumpOperand(Target)>>>>)

WhileStatement ==
  Statement("While") /\ Read(1, Condition \o <<<<"WhileBody", Len(Target.code)>>>>)

WhileBody ==
  /\ Task("WhileBody")
  /\ Write(0, Test, <<>>,
           <<<<"Statement">>, <<"EndWhile", agenda[1][2], JumpOperand(Target)>>>>)

EndWhile ==
  /\ Task("EndWhile")
  /\ LET loopStart == agenda[1][2]
         exitJump == agenda[1][3]
         looped == EmitLoop(Target, loopStart)
     IN Write(0, Emit(PatchJump(looped, exitJump), <<OpPop>>),
              LoopErrors(Target, loopStart) \o PatchErrors(looped, exitJump), <<>>)

ReturnStatement ==
  /\ Statement("Return")
  /\ LET empty == TokenAt(current + 2)[1] = "Semicolon"
     IN ReadOrFail(1 + OneIf(empty), Depth = 1, "return from top-level code",
                   IF empty THEN <<Code(<<OpNil, OpReturn>>)>>
                   ELSE <<Expression, Expect("Semicolon"), Code(<<OpReturn>>)>>)

BlockStatementUnscoped ==
  Statement("LeftBrace") /\ Read(1, <<<<"Block">>, <<"EndScope">>>>)

BlockStatement ==
  /\ Statement("LeftBrace")
  /\ Advance(1)
  /\ SetScope([Scope EXCEPT !.scopeDepth = @ + 1])
  /\ Then(<<<<"Block">>, <<"EndScope">>>>)
  /\ Quiet
  /\ UNCHANGED functions

ExpressionStatement ==
  /\ Task("Statement")
  /\ CurrentToken[1] \notin {"Print", "If", "While", "Return", "LeftBrace"}
  /\ Read(0, <<Expression, Expect("Semicolon"), Code(<<OpPop>>)>>)

BlockUnclosed ==
  /\ Task("Block")
  /\ Read(0, IF Check("RightBrace") THEN <<Expect("RightBrace")>>
             ELSE IF Check("EOF") THEN <<>>
             ELSE <<<<"Declaration">>, <<"Block">>>>)

Block ==
  /\ Task("Block")
  /\ Read(0, IF CurrentToken[1] \in {"RightBrace", "EOF"} THEN <<Expect("RightBrace")>>
             ELSE <<<<"Declaration">>, <<"Block">>>>)

(* endScope pops the locals deeper than the scope it returns to, the last  *)
(* first.                                                                  *)
EndScope ==
  /\ Task("EndScope")
  /\ LET depth == Scope.scopeDepth - 1
         locals == Scope.locals
         kept == SelectLastInSeq(locals, LAMBDA local : local.depth <= depth)
         ended == Reverse(SubSeq(locals, kept + 1, Len(locals)))
     IN /\ Generate(Emit(Target, [i \in DOMAIN ended |->
                                    IF ended[i].isCaptured THEN OpCloseUpvalue ELSE OpPop]))
        /\ SetScope([Scope EXCEPT !.scopeDepth = depth, !.locals = SubSeq(locals, 1, kept)])
  /\ Then(<<>>)
  /\ Quiet
  /\ UNCHANGED current
-----------------------------------------------------------------------------
(* Declarations and functions. *)

Declaration ==
  /\ Task("Declaration")
  /\ Read(OneIf(Check("Fun") \/ Check("Var")),
          <<CASE Check("Fun") -> <<"ParseVariable", "function">>
              [] Check("Var") -> <<"ParseVariable", "variable">>
              [] OTHER -> <<"Statement">>,
            <<"Recover">>>>)

(* compileFunction: a new function, in whose outermost scope (beginScope)  *)
(* its parameters are declared.                                            *)
CompileFunction ==
  /\ Task("Function")
  /\ compilers' = Append(compilers, NewFunctionCompiler(Len(functions) + 1, 1))
  /\ functions' = Append(functions, NewFunction)
  /\ Then(<<Expect("LeftParen"), <<"Parameters">>>>)
  /\ Quiet
  /\ UNCHANGED current

Body == <<Expect("RightParen"), Expect("LeftBrace"), <<"Block">>, <<"EndFunction">>>>

Parameters ==
  Task("Parameters") /\ Read(0, IF Check("RightParen") THEN Body ELSE <<<<"Parameter">>>>)

Parameter ==
  /\ Task("Parameter")
  /\ Write(0, [Target EXCEPT !.arity = @ + 1],
           IF Target.arity + 1 > ByteSize - 1 THEN <<"too many parameters">> ELSE <<>>,
           <<<<"ParseVariable", "parameter">>>>)

MoreParameters ==
  /\ Task("MoreParameters")
  /\ Read(OneIf(Check("Comma")), IF Check("Comma") THEN <<<<"Parameter">>>> ELSE Body)

EndFunction ==
  /\ Task("EndFunction")
  /\ LET parent == compilers[Depth - 1].function
         enclosing == functions[parent]
     IN /\ functions' =
             [functions EXCEPT
                ![Scope.function] = Emit(@, <<OpNil, OpReturn>>),
                ![parent] = Emit(AddConstant(@, FunctionRef(Scope.function)),
                                 <<OpClosure, ConstantIndex(enclosing)>>)]
        /\ Report(ConstantErrors(enclosing))
  /\ compilers' = SubSeq(compilers, 1, Depth - 1)
  /\ Then(<<>>)
  /\ UNCHANGED current

(* Compile: declarations until the end of the tokens. *)
Script == Task("Script") /\ ~Check("EOF") /\ Read(0, <<<<"Declaration">>, <<"Script">>>>)

(* A function with the boundaries that Validate collects for its chunk. *)
Compiled(f) ==
  [arity |-> f.arity, upvalues |-> f.upvalues, constants |-> f.constants, code |-> f.code,
   boundaries |-> BoundariesOf(f.code, Len(f.constants))]

Finish ==
  /\ Task("Script")
  /\ Check("EOF")
  /\ Generate(Emit(Target, <<OpNil, OpReturn>>))
  /\ outcome' = IF diagnostics # <<>> THEN "failed"
                ELSE IF \A k \in DOMAIN functions' : Validated(Compiled(functions'[k]))
                THEN "compiled" ELSE "invalid"
  /\ agenda' = <<>>
  /\ Quiet
  /\ UNCHANGED <<source, current, compilers>>

Next ==
  \/ Script \/ Finish \/ Declaration \/ Recover \/ Consume
  \/ ParseVariable \/ Initializer \/ DefineVariable
  \/ CompileFunction \/ Parameters \/ Parameter \/ MoreParameters \/ EndFunction
  \/ PrintStatement \/ IfStatement \/ ThenBranch \/ ElseBranch
  \/ WhileStatement \/ WhileBody \/ EndWhile \/ ReturnStatement
  \/ BlockStatement \/ ExpressionStatement \/ Block \/ EndScope
  \/ LiteralOperand \/ KeywordOperand \/ Grouping \/ Unary \/ NamedVariable \/ NoOperand
  \/ Binary \/ And \/ Or \/ Call \/ Arguments \/ EndExpression
  \/ EmitCode \/ Patch

(* Compile runs in the goroutine of its caller and nothing in it blocks. *)
Spec == Init /\ [][Next]_vars /\ WF_vars(Next)
-----------------------------------------------------------------------------
(* Types of the variables of Compile. *)
TypeOK ==
  /\ current \in 0..(Len(source) + 1)
  /\ panicMode \in BOOLEAN
  /\ panicMode => diagnostics # <<>>
  /\ \A level \in DOMAIN compilers :
        LET c == compilers[level]
        IN /\ c \in FunctionCompiler
           /\ c.function \in DOMAIN functions
           /\ \A k \in DOMAIN c.locals : c.locals[k].depth <= c.scopeDepth
  /\ \A k \in DOMAIN functions : functions[k].code \in Seq(Byte)
  /\ outcome \in {"none", "compiled", "failed", "invalid"}

(* The functions emitted so far, as a program. *)
Emitted == [k \in DOMAIN functions |-> Compiled(functions[k])]

(* The compiler numbers the locals as the machine stacks them: between two *)
(* statements of a program without an error so far, the code emitted for   *)
(* the function leaves on the stack exactly the locals in scope            *)
(* (c.current.locals), whatever jumps were taken.  A jump that waits for   *)
(* its target holds the operand 255, 255, which leads nowhere while the    *)
(* code is this short; in longer code it could happen to lead to its end.  *)
SlotsMatchStack ==
  (/\ diagnostics = <<>>
   /\ Len(Target.code) < 3 + 256 * 256 - 1
   /\ Task("Script") \/ Task("Declaration") \/ Task("Statement") \/ Task("Block")) =>
    At(ShapesOf(Emitted, Scope.function).heights, Len(Target.code))
      \subseteq {Len(Scope.locals)}

(* A compiled program is safe to run: it is disciplined, so that the       *)
(* machine runs it without an internal error (theorem DisciplinedRuns      *)
(* of module DisciplineProofs), and every function reaches each of its     *)
(* instructions at one height only, never below its parameters.            *)
CompiledIsSafe ==
  outcome = "compiled" =>
    /\ Disciplined(Emitted)
    /\ \A k \in DOMAIN functions :
         LET shapes == ShapesOf(Emitted, k)
         IN \A o \in Emitted[k].boundaries \ {Len(functions[k].code)} :
              /\ \A h1, h2 \in At(shapes.heights, o) : h1 = h2
              /\ \A h \in At(shapes.heights, o) : h > functions[k].arity

(* Compile never meets the error of compiler.go:49: whatever it emits      *)
(* without a diagnostic, Validate accepts.                                 *)
OutputValid == outcome # "invalid"

(* Compile returns for every source: recovery always gets past the token   *)
(* at which the parser was stuck.                                          *)
Terminates == <>(outcome # "none")
=============================================================================
