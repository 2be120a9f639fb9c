----------------------------- MODULE Stackbyte -----------------------------
(***************************************************************************)
(* cmd/stackbyte and the endpoints compile and run of internal/api: from a *)
(* source to what its user is shown, through the scanner, the compiler and *)
(* a new machine (modules Lexer, Compiler and VM), one after the other.    *)
(*                                                                         *)
(* A job is an entry of the program with the texts it will read: one file  *)
(* or request body, or the lines of a REPL.  An endpoint takes its limits  *)
(* from the configuration and its context ends with the request; a command *)
(* runs on its own until the program ends.                                 *)
(***************************************************************************)
EXTENDS Runtime

LOCAL INSTANCE SequencesExt

CONSTANTS Jobs,           \* records: the entry, and the texts it reads
          Unreadable,     \* a text that cannot be read: no file, a bad request
          Malformed,      \* a byte that is in no UTF-8 text
          MaxDigits, ByteSize, ShortSize, LimitsSet, TextSizes, ClockReadings

Commands == {"run", "check", "disasm", "repl"}
Endpoints == {"POST compile", "POST run"}
Running == {"run", "repl", "POST run"}

VARIABLES
  job, read, phase,                             \* the texts read so far, and the call made
  shown, exit,                                  \* what each text gave; the exit or HTTP status
  text, position, line, column, tokens, errors, ended,
  source, current, panicMode, diagnostics, compilers, functions, agenda, outcome,
  limits, program, prepared, stack, peak, frames, globals, closures, upvalues, open,
  output, outputBytes, instructions, maxFrames, done, result, err

scanner == <<text, position, line, column, tokens, errors, ended>>
compiler == <<source, current, panicMode, diagnostics, compilers, functions, agenda, outcome>>
machine == <<program, prepared, stack, peak, frames, globals, closures, upvalues, open,
             output, outputBytes, instructions, maxFrames, done, result, err>>
vars == <<job, read, phase, shown, exit, scanner, compiler, limits, machine>>

(* What the compiler makes of no tokens. *)
Nothing == <<[arity |-> 0, upvalues |-> <<>>, constants |-> <<>>, code |-> <<OpNil, OpReturn>>,
              boundaries |-> {0, 1, 2}]>>

L == INSTANCE Lexer WITH Texts <- {<<>>}, current <- position
C == INSTANCE Compiler WITH Sources <- {[tokens |-> <<>>, errors |-> <<>>]}
M == INSTANCE VM WITH Programs <- {Nothing}

Init ==
  /\ job \in Jobs /\ read = 0 /\ phase = "read" /\ shown = <<>> /\ exit = -1
  /\ L!Init /\ C!Init /\ M!Init
-----------------------------------------------------------------------------
(* strings.TrimSpace *)
IsSpace(c) == c \in L!Blanks \cup {"\n"}
Trim(t) ==
  LET first == SelectInSeq(t, LAMBDA c : ~IsSpace(c))
      last == SelectLastInSeq(t, LAMBDA c : ~IsSpace(c))
  IN IF first = 0 THEN <<>> ELSE SubSeq(t, first, last)

Given == job.texts[read + 1]
Text == IF job.entry = "repl" THEN Trim(Given) ELSE Given

ValidUTF8 == \A i \in DOMAIN Text : Text[i] # Malformed

(* What a text gives: the values printed, that it compiles, or what failed. *)
Printed(values) == <<"printed", values>>
Compiles == <<"compiles", <<>>>>
Failed(kind) == <<"failed", kind>>

Give(what) ==
  /\ shown' = Append(shown, what)
  /\ read' = read + 1
  /\ UNCHANGED job

Status(command, endpoint) == IF job.entry \in Commands THEN command ELSE endpoint

(* The REPL goes on to the next line, and every other entry ends. *)
Conclude(what, command, endpoint) ==
  /\ Give(what)
  /\ IF job.entry = "repl"
     THEN phase' = "read" /\ UNCHANGED exit
     ELSE phase' = "exit" /\ exit' = Status(command, endpoint)

(* readAndCompile, readSource and the input of the REPL: an error ends even the REPL. *)
FailToRead ==
  /\ phase = "read" /\ read < Len(job.texts)
  /\ \/ Given = Unreadable
     \/ job.entry \in Endpoints /\ Given = <<>>
  /\ Give(Failed("read")) /\ phase' = "exit" /\ exit' = Status(74, 400)
  /\ UNCHANGED <<scanner, compiler, limits, machine>>

EndOfInput ==
  /\ phase = "read" /\ read = Len(job.texts)
  /\ phase' = "exit" /\ exit' = 0
  /\ UNCHANGED <<job, read, shown, scanner, compiler, limits, machine>>

Readable ==
  /\ phase = "read" /\ read < Len(job.texts) /\ Given # Unreadable
  /\ job.entry \in Endpoints => Given # <<>>

SkipLine ==
  /\ Readable
  /\ job.entry = "repl" /\ Text = <<>>
  /\ read' = read + 1
  /\ UNCHANGED <<job, phase, shown, exit, scanner, compiler, limits, machine>>

(* Compile refuses what is not UTF-8 before it scans. *)
RefuseBytes ==
  /\ Readable
  /\ ~ValidUTF8
  /\ Conclude(Failed("compile"), 65, 422)
  /\ UNCHANGED <<scanner, compiler, limits, machine>>

Scan ==
  /\ Readable
  /\ job.entry = "repl" => Text # <<>>
  /\ ValidUTF8
  /\ phase' = "scan"
  /\ text' = Text /\ position' = 0 /\ line' = 1 /\ column' = 1
  /\ tokens' = <<>> /\ errors' = <<>> /\ ended' = FALSE
  /\ UNCHANGED <<job, read, shown, exit, compiler, limits, machine>>

ScanToken ==
  /\ phase = "scan"
  /\ L!Next
  /\ UNCHANGED <<job, read, phase, shown, exit, compiler, limits, machine>>

(* A lexeme that is a name is one symbol; one that is a literal is its value. *)
Spelled(lexeme) == FoldLeft(LAMBDA s, c : s \o c, "", lexeme)
AsToken(t) ==
  CASE t.type = "Identifier" -> <<"Identifier", <<Spelled(t.lexeme)>>>>
    [] t.type = "Number" -> <<"Number", Number(t.value.digits \div 10 ^ t.value.scale)>>
    [] t.type = "String" -> <<"String", String(t.value)>>
    [] OTHER -> <<t.type, <<>>>>

(* newParser, with the tokens (but for EOF) and the errors of the scanner. *)
Compile ==
  /\ phase = "scan" /\ ended
  /\ phase' = "compile"
  /\ source' = [i \in 1..(Len(tokens) - 1) |-> AsToken(tokens[i])]
  /\ diagnostics' = [i \in DOMAIN errors |-> errors[i].message]
  /\ current' = 0 /\ panicMode' = FALSE
  /\ compilers' = <<C!NewFunctionCompiler(1, 0)>> /\ functions' = <<C!NewFunction>>
  /\ agenda' = <<<<"Script">>>> /\ outcome' = "none"
  /\ UNCHANGED <<job, read, shown, exit, scanner, limits, machine>>

CompileTask ==
  /\ phase = "compile"
  /\ C!Next
  /\ UNCHANGED <<job, read, phase, shown, exit, scanner, limits, machine>>

FailToCompile ==
  /\ phase = "compile" /\ outcome \in {"failed", "invalid"}
  /\ Conclude(Failed("compile"), 65, 422)
  /\ UNCHANGED <<scanner, compiler, limits, machine>>

Report ==
  /\ phase = "compile" /\ outcome = "compiled" /\ job.entry \notin Running
  /\ Conclude(Compiles, 0, 200)
  /\ UNCHANGED <<scanner, compiler, limits, machine>>

(* vm.New *)
Execute ==
  /\ phase = "compile" /\ outcome = "compiled" /\ job.entry \in Running
  /\ phase' = "execute"
  /\ program' = [k \in DOMAIN functions |-> C!Compiled(functions[k])]
  /\ prepared' = FALSE /\ stack' = <<>> /\ peak' = 0 /\ frames' = <<>> /\ maxFrames' = 0
  /\ globals' = [name \in {<<n>> : n \in Natives} |-> NativeValue(name[1])]
  /\ closures' = 0 /\ upvalues' = [a \in {} |-> Nil] /\ open' = [slot \in {} |-> Nil]
  /\ output' = <<>> /\ outputBytes' = 0 /\ instructions' = 0
  /\ done' = FALSE /\ result' = Nil /\ err' = "none"
  /\ UNCHANGED <<job, read, shown, exit, scanner, compiler, limits>>

(* Only the context of a request is ever canceled. *)
MachineStep ==
  /\ phase = "execute"
  /\ M!Next
  /\ err' = "canceled" => job.entry \in Endpoints
  /\ UNCHANGED <<job, read, phase, shown, exit, scanner, compiler>>

(* What a failing program has printed is not shown. *)
EndOfRun ==
  /\ phase = "execute" /\ (done \/ err # "none")
  /\ IF done THEN Conclude(Printed(output), 0, 200) ELSE Conclude(Failed(err), 70, 422)
  /\ UNCHANGED <<scanner, compiler, limits, machine>>

Next ==
  \/ FailToRead \/ EndOfInput \/ SkipLine \/ RefuseBytes
  \/ Scan \/ ScanToken
  \/ Compile \/ CompileTask \/ FailToCompile \/ Report
  \/ Execute \/ MachineStep \/ EndOfRun

Spec == Init /\ [][Next]_vars
=============================================================================
