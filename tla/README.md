# StackByte VM: specification, model checking and proofs

TLA+ specifications of StackByte VM (Go): its scanner and compiler, its bytecode
validator and disassembler, its virtual machine, the manager of its debug sessions, the
web console that drives them, and the server that runs it all; with the TLC runs that
check them on small instances and the theorems that TLAPS proves for every instance.

## 1. Inventory

The program compiles a small language to bytecode, validates it, and runs it on a stack
machine: at once (`run`, `repl`, `POST /api/v1/run`) or one instruction at a time in debug
sessions that many HTTP requests share.

| Component | State | Operations | Who calls it |
|---|---|---|---|
| `lexer` | position, line, column, tokens, errors | `Scan` | compiler |
| `compiler` | token cursor, `panicMode`, a stack of `functionCompiler` (locals, depth, upvalues) and their chunks | `Compile` | every entry, `Create` |
| `bytecode` | `Chunk` (code, lines, constants) | emit and patch, `Validate`, `Disassemble` | compiler, `Function.Validate`, disasm |
| `runtime` | values, `Stack`, `Upvalue` (open on a slot or closed), `Closure` | push, pop, get, set, close | machine |
| `vm` | stack, frames, globals, open upvalues, output, statistics, done | `Prepare`, `Step`, `Execute`, traces | CLI, run handler, sessions |
| `debug` | `Manager.sessions` under `Manager.mu`; per session `expires`, `err` and a machine under `session.mu` | `Create`, `Step`, `Continue`, `Delete`, `get`, sweep | HTTP handlers, concurrently |
| `api` | configuration, the manager | handlers with a context and a timeout | net/http, a goroutine per request |
| `config`, `serve` | environment, two goroutines, a channel, the requests in flight | `Load`, `ListenAndServe`, `Shutdown` | the operator, signals |
| `cmd` | the text read, the exit code | run, check, disasm, repl | the user |
| `web` | `sessionId`, `busy`, disabled buttons | compile, run, step, continue, reset | browser events, asynchronous |

What is hard, and what makes each part correct:

* **Scanner.** One pass of longest matches that must lose nothing and keep going after an
  error; a token begins and ends with characters it looks at but does not take (`1.`,
  `a=`, `//`), and strings and comments move the position over lines.
* **Compiler.** A single pass numbers the locals as the machine will stack them, while
  jumps, early returns and blocks change the stack at run time; a captured variable is
  threaded through every function around its user; operands are bytes and each limit is
  checked elsewhere; after an error the parser goes on emitting, in panic mode, and must
  neither loop nor accept. What it compiles must mean what the source says.
* **Validator and disassembler.** The machine trusts the validator: an accepted chunk must
  consist of whole instructions with every jump on a boundary, and nothing valid may be
  refused. The disassembler decodes in a loop of its own and must show what will run.
* **Machine.** Closures capture stack slots by reference; a slot is reused while closures
  that captured it live on. Calls, returns and jumps must keep every IP on a boundary and
  every frame on its own slots; four limits must hold whatever the program does; a failing
  step may leave half of its effects; a trace must blame the call a frame waits for.
* **Sessions.** Requests on one session race with each other, with deletion, with expiry
  and with the sweep of a creation; a session found in the map may be gone when its lock
  is obtained; a deadline may pass while a request waits.
* **Console.** Each click awaits an answer while other buttons stay enabled; answers come
  in any order or never; a session may be created by an answer that nobody waits for.
* **Serve.** Signals come before, during and after the start; `Shutdown` may begin before
  `ListenAndServe` does; main returns, and with it every request, while they drain.

`PROJECT.json` lists the hazards one by one, at their lines.

## 2. Modules

```
Bytecode -- Validator -- Disassembler -- MCValidator
                              \--------- ValidatorProofs

Runtime -- Discipline -- VM -- VMProofs -- DisciplineProofs     Machine <- VM (refines it)
                     |    \--- MCVM                                     <- Sessions (obeys it)
                     \--- Compiler -- MCCompiler
                                 \--- CompilerProofs
Lexer -- MCLexer -- LexerProofs
Lexer + Compiler + VM -- Stackbyte -- MCStackbyte -- MCMeaning

Sessions -- SessionsUse -- SessionsProofs, MCSessions
   \- Console -- MCConsole -- ConsoleProofs
Serve -- ServeProofs, MCServe
```

**Lexer** is `Scan`. Each action is one call of `scanToken`, one case of its switch with
its inner loop taken to its end. A character is a string of length one; positions, values
and diagnostics are kept. A number is its digits and its scale, exactly.

**Compiler** is the parser and generator, from tokens to functions. Its procedures call
each other recursively; `agenda` is what their call stack has left to do, a sequence of
tasks, and each action does one task: it looks at the current token, reads, emits, opens
and closes scopes, and puts the tasks of the calls it makes before the rest. What a
procedure keeps across a call (a jump to patch, a loop's start, the precedence level) is
in its task. `compilers` is the chain of `functionCompiler`s, `functions` all functions in
the order they are begun. The chunk builder's `AddConstant`, `EmitJump`, `PatchJump` and
`EmitLoop` are operators on a function. Positions, and the texts of diagnostics beyond
their kind, are left out. `ByteSize` and `ShortSize` are 256 and 65536 in the source.
**MCCompiler** has the grammar of the language as a reference definition (`Ends`), written
without precedences, scopes or recovery.

**Bytecode** has the opcodes with the source's numbers, the columns of `infos`, operand
decoding, `instructionEnd`, and `WellFormed`: what it means for a set of offsets to cut a
chunk into whole instructions. **Validator** is `Validate`, one loop iteration per action;
`boundaries` is the map of the source. **Disassembler** follows it on the same chunk, one
instruction per step, with the operand and the jump target that a line shows. What a line
must show is stated from the bytes: they are what assembling the line gives back, and its
target is `JumpTarget`, where Validate looks for a boundary and the machine goes
(`StepsAsDecoded`).

**Runtime** has values, functions and programs. A program is the sequence of its
functions, the script first; a function constant is an index into it. Strings are
sequences of symbols; numbers are integers, which stand for `float64`: fractions, NaN and
infinities are not modelled.

**Discipline** is what code must be like for the machine to run it without an internal
error, which nothing in the source states: `Validate` looks at boundaries only. `ShapesOf`
gives, for each offset of a function, the heights the stack may have there and the slots
that may be captured; `Disciplined` says that each instruction finds what it takes and
refers to, and leads to a shape. The compiler keeps it (`CompiledIsSafe`, checked) and the
machine needs no more (`DisciplineSuffices`, proved): the module is where the two meet.

**VM** is one machine. Each action is one call of `Step`: what precedes the switch
(`Cancel`, `InstructionLimit`, `DecodeFault`) or one of its 30 cases with all of its error
paths. A failing step keeps what it did before the error and sets `err`; after that
nothing is enabled, as `Execute` returns and a session never steps the machine again
(module Sessions checks that). An upvalue object is addressed by the closure that
allocated it and the slot it was opened on. `TraceOffset` is the offset whose line a
trace shows for a frame. The text of a printed value is its size in bytes,
chosen from `TextSizes`.

**Machine** is what callers rely on: a machine is prepared once, executes at most `limit`
instructions, and ends done or failed. VM implements it (`ImplementsMachine`), and
Sessions obeys it from the other side (`MachinesObeyed`), so the two meet in one small
specification.

**Stackbyte** is the program as its user meets it: `run`, `check`, `disasm`, `repl` and
the endpoints compile and run. A job has an entry and the texts it reads; each is scanned,
compiled and executed by the actions of Lexer, Compiler and VM, instantiated on shared
variables, and ends in what is shown and an exit code or an HTTP status. A REPL makes a
new machine for each line. **MCMeaning** adds a definitional interpreter of syntax trees,
with environments and a store in place of slots and upvalues, and jobs that are generated
trees, written out as tokens, to compare what the compiled program prints with it.

**Sessions** is the manager with its handlers. What runs under `Manager.mu` is one action
(`Create`, `Lookup`, `Delete`, `Evict`); what runs under `session.mu` is one action per
machine step (`Drive`) and one for the refresh, the snapshot and the unlock (`Finish`).
Between `Lookup`, `CheckExpiry`, `Evict` and `Acquire` other handlers and the clock move.
Two choices abstract the code: the sweep reads all `expires` at one instant, and a machine
is reduced to its instruction count, `done` and error. A new session id is fresh (12
random bytes). **SessionsUse** adds what the clients know: when each session was last shown
to one of them (`used`), and whether a session that a request looks up has been idle for
the time to live at some moment since the request came (`seenIdle`). They are history
variables, which no action of Sessions reads; what becomes of a session is judged by them
(`UseDecides`) and not by `expires`, which the manager reads without the session's lock.

**Console** is `app.js` composed with Sessions: each click is an action up to its first
`await`, each answer is one from the `await` to the end of the handler, and each request
of the page is served by a handler of Sessions. An answer may be overtaken by another or
lost with its connection, while the server goes on. **MCConsole** adds two history
variables, the sessions the page forgot and whether its user was calm: clicked only while
nothing was under way, and had no connection break before its answer was there.

**Serve** is the command `serve`: `config.Load` over an environment, `signal.Notify`, the
goroutine that waits and calls `Shutdown`, the parts of net/http's `ListenAndServe` and
`Shutdown` that it relies on (external), and the requests in flight.

Definitions placed before another one with a shorter name (`FetchUncounted` before
`Fetch`) are faulty versions of it, at least one for each property, under which that
property fails.

## 3. Runs

| Run | Module, config | Question | Instance | States |
|---|---|---|---|---|
| `lexer` | MCLexer, Lexer.cfg | Is every text cut into the longest lexemes, with the right values and positions, and nothing lost? | every text of at most 4 of 11 characters, and of at most 6 of quote, newline, slash and digit | 110 thousand |
| `compiler_tokens` | MCCompiler, CompilerTokens.cfg | Does Compile return, whatever it is given, and accept the intended language? | every sequence of at most 3 of 21 tokens, and of at most 5 of 8 tokens of expressions with a semicolon | 590 thousand |
| `compiler_pieces` | MCCompiler, CompilerPieces.cfg | Does the code keep the stack as the compiler counts it, and refer to what exists? | every sequence of at most 3 of 10 pieces, and of at most 4 in a function in a block | 862 thousand |
| `compiler_limits` | MCCompiler, CompilerLimits.cfg | Are the limits exact? | bytes of 4 values, jumps below 24; each limited thing in numbers below, at and above its limit | 5 thousand |
| `validator` | MCValidator, Validator.cfg | Does Validate accept exactly the well-formed chunks, and does the listing show them as they run? | every code of at most 5 bytes over 7 bytes (an opcode of each kind, both jump directions, an unknown byte), 0 or 1 constants, equal or unequal tables | 299 thousand |
| `validator_return` | MCValidator, ValidatorReturn.cfg | Must a chunk end with RETURN? Fails, see section 6 | codes of at most 3 bytes | few |
| `vm_compiled` | MCMeaning, Stackbyte.cfg | Does the program do what its source means, from the text to the exit code, and the machine not fail inside? | 27 sources, one file for every entry, a REPL session and unreadable texts, under 7 limits, with a cancellation at any instruction; 3,167 generated programs | 683 thousand |
| `vm_raw` | MCVM, VMRaw.cfg | Is the machine safe for any bytecode, does it decode as the validator and the listing do, and is the discipline of compiled code enough for it? | every sequence of at most 3 of 31 instructions and a RETURN, two callees; every operator on operands of 5 kinds, or too few | 365 thousand |
| `sessions` | MCSessions, Sessions.cfg | Are sessions bounded, isolated, driven in turn, and kept for as long as they are used? | 2 handlers, 2 ids, maximum 1, TTL 1, 2 steps, 3 clock values, symmetric | 2.1 million |
| `sessions_live` | Sessions, SessionsLive.cfg | Is every request answered? | the same with 1 id, no symmetry | 71 thousand |
| `console` | MCConsole, Console.cfg | Does the page survive answers in any order, and leave no session behind? | 2 requests under way, 2 ids, maximum 1, TTL 0, 1 step, 2 clock values, symmetric | 1.8 million |
| `serve` | MCServe, Serve.cfg | Are the limits set in force, and does a signal stop the server? | every environment of 5 variables over 6 values, 2 requests, 2 signals | 62 thousand |

What they show, by property: a comment above each definition says it in a sentence.

Why the bounds are enough:

* Four characters hold every token that looks ahead (`1.1`, `==`, `//`) with a neighbour on
  each side, and a character of each class; the six of the second family put a string or
  a comment over several lines with tokens before and after. `MaxDigits = 2` brings the
  largest float64, 309 digits, within reach.
* Three tokens reach every error of the parser from a fresh start, a stuck position after
  a semicolon or an open brace, and the end of the source in the middle of any construct.
  Five tokens nest an assignment, a call and two operators. Pieces such as
  `var c = a or c;` or `if (a)` stand for several tokens, so four of them, inside
  `{ var b; fun f(a) { ... } }`, give a function in a function, a variable captured across
  two functions, branches, loops and returns with locals in scope, and blocks left open or
  closed twice. The smaller byte and jump range bring the limits within reach; the code
  compares with the constants only.
* Five bytes hold a jump (3) with instructions on both sides, so targets fall before,
  inside, at and past the end; operand values 0, 1, 4 are opcodes too, so an operand can
  be mistaken for an instruction.
* The fixed sources are those of `vm_test.go` and `BuiltinExamples` (Fibonacci shortened to
  5 rounds), others that capture, and one for each runtime error, with what each must
  print. The small limits end a program inside calls, expressions and prints.
* The generated programs are all expressions of two nested operators (of a call, an
  assignment, `and`, `or`, comparison, minus, not) over two variables, and all sequences of
  three statements of a function that declare, shadow, capture, assign captured variables,
  loop, branch and return. They capture in every way the language has: a parameter, a
  block variable, a loop's variable, two closures of one variable, a closure outliving its
  frame.
* Three raw instructions underflow the stack, call, capture, close, jump into an operand
  and return from the callee; longer sequences repeat these.
* Two handlers give every pairwise race. `Maximum = 1` makes the limit, the sweep and an
  eviction meet; two ids allow a session to be created after another is gone; TTL 1 in 3
  clock values lets a session be refreshed and expire again.
* Two requests of the page are one more than `setBusy` intends, so one answer overtakes
  another; the second session is created after or while the first is given up.
* Of the settings, one is unset, one is no number, two are not positive, one is below and
  one above the defaults it is compared with. Two signals are the one that stops the
  server and one more, at any moment.

`CHECK_DEADLOCK FALSE` everywhere: a scan, a compilation, a validation, a run or a server
ends; a session model ends when ids and clock run out.

## 4. Fairness

* `Compiler`, `VM` and `Machine`: `WF(Next)`. They run in the goroutine that called them
  and never block.
* `Sessions`: weak fairness for every step of a handler, since the scheduler runs every
  goroutine that can run; strong fairness of `Acquire`, since a `sync.Mutex` in starvation
  mode is handed to the longest waiter. Nothing is assumed of clients, of the clock or of
  cancellation: `RequestsAnswered` holds because `Continue` is bounded by the instruction
  limit.
* `Serve`: weak fairness of main and of the goroutine that waits for a signal, which run
  whenever they can, and of `Accept` failing once its listener is closed. No request has
  to be answered and `Shutdown` need not return: `SignalStops` holds without.
* `Lexer`, `Validator`, `Disassembler`, `Stackbyte` and `Console` state safety only. The
  loops of the first three read one position or more per step.

## 5. Proofs

`tlapm` checks all of the following from nothing. `CompilerProofs` takes about ten minutes,
`LexerProofs` about six, `DisciplineProofs` about four, each of the other modules less.

* **LongestMatchHolds, PositionsHold** (`LexerProofs`): `ScansLongestMatch` and
  `PositionsExact` (the line on which a token ends, the column in which it starts) for
  every set of texts, of any length and over any characters. The
  pieces that the properties speak of are a recursive function of the position where one
  starts, which the prover takes as `CHOOSE`: `CutExists` shows that there is one, from the
  shortest end of the text on which there would be none. The invariant `LexInv`
  (`ScanExact`) says that tokens and errors are those of the pieces behind `current`
  (`ReadSoFar`, `FailedSoFar`), that `line` and `column` are those of the character at
  `current`, and that no quoted piece spans `current` (`Closed`), without which a newline
  within a string could not be told from one outside it, and the shift of columns
  would not follow. A step takes exactly one piece: for each kind of first
  character a lemma gives the longest lexeme that begins there (for `1.` or a lone quote,
  why no longer one does), and the inner loop of its case is shown to end where it ends.
* **ValidatorSound, ValidatorComplete** (`ValidatorProofs`): `AcceptedIsWellFormed` and
  `RejectedIsIllFormed` for every set of chunks. The invariant `IInv` says that the offsets
  already marked decode to marked offsets or to the current one (`Scanning`), that after
  the first pass they cut the code and the jumps before the current offset of the second
  pass lead to boundaries (`Checking`), and that the passes come in order (`InOrder`); all
  are needed, as the property speaks only of the end. For completeness `CInv`
  adds that every cut of the chunk into whole instructions contains the offsets reached.
* **AcceptedIsListed** (`ValidatorProofs`): `NeverFaulty`, from the invariant of the
  validator: the listing stays on its boundaries, and there an instruction decodes.
* **ListingIsTheProgram**: `ListsWhatRuns`. The lines so far are those of the boundaries
  below the offset reached, in order (`Exact`), since no boundary lies inside an
  instruction (`Ordered`); and each shows the bytes at its offset and the exact target of
  a jump (`LineShowsInstruction`).
* **VMSafe, LimitsHold, MachineEndsClean** (`VMProofs`): types, `LimitsRespected`,
  `DecodesCleanly` and `DoneIsClean` for every set of programs, limits, text sizes and
  clock readings. `IInv` adds that nothing is set before `Prepare`, that a running program
  is validated in all its functions (`Loaded`: a call enters another function, so
  boundaries must be known for all), and that the bottom frame starts at slot 0
  (`BottomFrame`: so the last return empties the stack and closes every upvalue).
* **TracesNameCalls** (`VMProofs`): `TraceNamesCalls`. A frame that waits was left by a
  call, whose offset its IP has just passed; a step changes the IP of the top frame only.
* **StepsAreAsDecoded** (`VMProofs`): `StepsAsDecoded`, action by action, for any bytecode:
  the bytes a case has read when it is done are those of `instructionEnd`, and a jump taken
  leads to `JumpTarget` (`JumpsLead`). With ListingIsTheProgram, the listing of an accepted
  chunk shows where the machine goes.
* **DisciplinedRuns, DisciplinedKeepsVariables** (`DisciplineProofs`): `DisciplineSuffices`
  and `DisciplineKeepsVariables` for every program, compiled or not. The invariant `DInv`
  is that of the machine's stack as the discipline sees it: frames lie one above the other,
  each on its closure (`Nested`); each is at an offset, at a height and with captured slots
  that are shapes of its function (`Shaped`); an open upvalue is in the map exactly under
  the slot it was opened on (`HeapExact`); and a closure has the upvalues its function
  specifies (`AllMade`). With `CompiledIsSafe` it gives for compiled programs what
  `vm_compiled` checks on some: no internal error, exact upvalues, callers' slots kept.
* **VMImplementsMachine**: `Spec => Abstract!Safety`, the safety part of
  `ImplementsMachine`, from the same invariant.
* **CompilerTyped, CompilerOutputValid** (`CompilerProofs`): `TypeOK` and `OutputValid` for
  every source, broken or not, and every limit. The invariant says that the agenda has a
  plan (`Planned`): for each task, the scopes of the functions that will be under
  compilation at its turn and whether a local then awaits its initializer, so that a task
  pops the scope and ends the function it is meant for, also after an error. Without
  a diagnostic so far, it adds that the code of every function is cut into instructions,
  that each jump leads to one of them or its operand belongs to a task of the agenda, which
  will patch it, and that a function that ended ends with RETURN (`Sound`). Boundaries
  alone would not do: a loop's start must remain one while its body is compiled, and
  an operand is patched after the code it skips. The operators of the chunk
  builder are described once, by how they continue a function (`Continues`); each action is
  then a step of one of a few kinds (`Stepping`, `Rescoping`, `Working`).
* **SessionsSafe, GoneIsUnreachable** (`SessionsProofs`): types, `CapacityRespected` and
  `GoneStaysGone` for any handlers, a finite set of ids, and any bounds. `IInv` says that
  an id reached by a handler was issued, and that a session not yet issued is untouched.
* **StepsAreNotLost**: `PausesDiffer`, by mutual exclusion: the handler that drives a machine
  holds its lock (`Drivers`), progress once reported is never undone (`Past`), and a
  handler about to report has made a step that no pause reported so far has seen
  (`Stepped`).
* **NotFoundMeansGone, MachinesUsedAsAgreed**: the action properties `NotFoundIsFinal` and
  `MachinesObeyed`, from the invariant.
* **UseIsWhatCounts**: `UseDecides`. `UInv` adds that the expiry of every session issued is
  the time to live after its last answer (`Known`), that a handler about to evict has seen
  its session idle, even if another has refreshed it since (`Seen`), and that only a
  request to delete deletes (`Asked`).
* **QuietPageIsConsistent** (`ConsoleProofs`): `QuietPage` for any number of requests
  under way. Nothing of the server is needed but what it leaves of the page.
* **ForgottenForGood**: `ForgottenStaysForgotten`. No answer still to be shown offers a
  session that the page has held before, and no two offer the same one (`Offered`).
* **CalmLeavesNoneBehind**: `NoneLeftBehind`. For a calm user there is one call at a time,
  it does what its click was about (`Matches`), the server's answers tell the truth
  (`Honest`), and so a session that still runs is always the page's or the call's
  (`Covered`).
* **LimitsAreInForce, ExitIsTold** (`ServeProofs`): `LimitsInForce` and `ExitTells` for any
  settings, defaults, requests and signals. `IInv` follows the knowledge that a signal was
  sent, through the channel and `Shutdown` to the exit code.

Assumptions: `SymbolAssumption`, `CompilerAssumption`, `LexemeAssumption`, `VMAssumption`,
`ChunksAssumption`, `SessionsAssumption`, `ConsoleAssumption`, `LexerAssumption` and
`ServeAssumption`, which give the constants their types; TLC evaluates them in the runs.
(`LexemeAssumption`: where a name is missing, the source uses the lexeme of another token,
so that too is a string a constant can hold.) The type invariants of Validator, VM,
Sessions and Disassembler are proved and are in no run.

Only model-checked:

* `AcceptsLanguage`, whose reference is a recursive grammar; `LimitsExact`, which reads
  what a run of given length emitted; `SlotsMatchStack` and `CompiledIsSafe`, which speak of
  the shapes of compiled code (`ShapesOf`): that invariant would have to carry, for every
  task, the shapes its code will lead from and to. (`SlotsMatchStack` speaks of code
  shorter than the placeholder 255, 255 of an unpatched jump reaches, about 64 KiB: what
  it would say of a longer one depends on where that placeholder happens to lead.)
* `MeansWhatItSays` and `CompiledMeansSource`, whose reference is an interpreter defined by
  recursion over syntax trees.
* `NoInternalError`, `OpenIsExact` and `CallerSlotsKept` of compiled programs: proved of
  disciplined ones, and that compiled ones are disciplined is checked (`CompiledIsSafe`).
  Of arbitrary bytecode they are false: it may pop the slot of its own closure or assign
  below its locals' lifetime.
* All liveness (`Terminates`, `RequestsAnswered`, `SignalStops`, the fairness part of
  `ImplementsMachine`), which is out of the prover's reach.

## 6. Findings and observations

`bytecode/validator.go:30` reports "chunk must end with RETURN" but compares only the last
byte, which may be an operand. `GET_LOCAL 29` (bytes 6, 29) is accepted
(`validator_return`). The machine then runs off the code, which `readOp` reports as
"instruction pointer out of range" (in VM: `instruction_pointer`), so nothing worse
follows; compiled functions always end with NIL, RETURN.

Observed, and no document says otherwise:

* A string of several lines has the line on which it ends and the column in which it
  starts: `add` takes the line when the token is complete.
* After a string of several lines the columns of the rest of its last line are one too
  large: the loop of `stringToken` sets the column to 1 before it advances over the
  newline. `PositionsExact` states where exactly.
* A request may evict a session that another has just refreshed, because `get` reads
  `expires` before it deletes by id: `UseDecides` says that the session was then idle at
  some moment while that request was under way.
* `serve` returns when `ListenAndServe` does, that is when `Shutdown` begins, so requests
  in flight are cut rather than drained. `ExitTells` says when a request may be cut.
* A user who clicks Reset while a session is being created may leave it on the server
  until it expires; `NoneLeftBehind` says that this takes two requests under way or a
  connection that broke.

## 7. Not modelled

* The decoding of JSON and of paths, HTTP headers, connection timeouts and the endpoints
  that keep no state (examples, health, files); the usage errors and `version` of the
  command line; what the page renders, its tabs, its list of examples, a reload and a
  second page, which forget or share nothing but the server's sessions.
* The line table of a chunk (the trace is modelled by offsets), the texts of diagnostics,
  errors, listings and snapshots, and elapsed time.
* `float64` beyond integers; `Prepare` on a machine used before and `EmitConstant`, which
  no caller does.
* The debug sessions' machines in full: Sessions takes them as module Machine, which VM
  implements.
* Generated programs are checked for safety only: evaluating ENABLED on a long source
  costs more than the run. That runs end is `ImplementsMachine` on raw code and the
  instruction limit, and that compilations end is `Terminates` on short sources.
