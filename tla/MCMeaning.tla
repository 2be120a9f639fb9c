----------------------------- MODULE MCMeaning -----------------------------
(***************************************************************************)
(* What a program means, as a definitional interpreter of its syntax tree  *)
(* with environments and a store, and an instance of module Stackbyte that *)
(* compiles and runs generated programs to be compared with it.            *)
(*                                                                         *)
(* An expression is <<"lit", v>>, <<"var", x>>, <<"set", x, e>>,           *)
(* <<"call", e, args>> or <<op, e>> or <<op, e, e>>; a statement is        *)
(* <<"expr", e>>, <<"print", e>>, <<"return", e>>, <<"let", x, e>>,        *)
(* <<"fun", x, params, block>>, <<"if", e, s, s>>, <<"while", e, s>> or    *)
(* <<"block", stmts>>.                                                     *)
(***************************************************************************)
EXTENDS MCStackbyte

LOCAL INSTANCE SequencesExt

MeaningLimits ==
  {[maxStack |-> 64, maxFrames |-> 10, maxSteps |-> 250, maxOutputBytes |-> 100]}
-----------------------------------------------------------------------------
(* The state of the interpreter: the value of the last expression, the     *)
(* locals in scope, where they are, and the value returned, if any.        *)
Fresh ==
  [v |-> Nil, env |-> <<>>, store |-> <<>>, top |-> TRUE, ret |-> <<>>, err |-> "none",
   out |-> <<>>, closures |-> 0,
   globals |-> [x \in Natives |-> NativeValue(x)]]

Err(s, e) == [s EXCEPT !.err = e]
Going(s) == s.err = "none" /\ s.ret = <<>>
With(f, x, v) == [y \in DOMAIN f \cup {x} |-> IF y = x THEN v ELSE f[y]]

Arithmetic(op, a, b, s) ==
  IF op \in {"==", "!="} THEN [s EXCEPT !.v = Bool((op = "==") = Equal(a, b))]
  ELSE IF op = "+" /\ IsString(a) /\ IsString(b) THEN [s EXCEPT !.v = String(a[2] \o b[2])]
  ELSE IF ~IsNumber(a) \/ ~IsNumber(b) THEN Err(s, "operand_type")
  ELSE IF op = "/" /\ b[2] = 0 THEN Err(s, "division_by_zero")
  ELSE [s EXCEPT !.v =
         CASE op = "+" -> Number(a[2] + b[2]) [] op = "-" -> Number(a[2] - b[2])
           [] op = "*" -> Number(a[2] * b[2]) [] op = "/" -> Number(M!Quotient(a[2], b[2]))
           [] op = "<" -> Bool(a[2] < b[2]) [] op = "<=" -> Bool(a[2] <= b[2])
           [] op = ">" -> Bool(a[2] > b[2]) [] op = ">=" -> Bool(a[2] >= b[2])]

(* A local variable has a place of its own in the store. *)
Bind(s, x, v) ==
  [s EXCEPT !.store = Append(@, v), !.env = With(@, x, Len(s.store) + 1)]
Define(s, x, v) ==
  IF ~s.top THEN Bind(s, x, v)
  ELSE IF x \in DOMAIN s.globals THEN Err(s, "already_defined")
  ELSE [s EXCEPT !.globals = With(@, x, v)]

RECURSIVE Eval(_, _), EvalAll(_, _, _), Exec(_, _), ExecAll(_, _), Apply(_, _, _)

Eval(e, s) ==
  CASE ~Going(s) -> s
    [] e[1] = "lit" -> [s EXCEPT !.v = e[2]]
    [] e[1] = "var" ->
         IF e[2] \in DOMAIN s.env THEN [s EXCEPT !.v = s.store[s.env[e[2]]]]
         ELSE IF e[2] \in DOMAIN s.globals THEN [s EXCEPT !.v = s.globals[e[2]]]
         ELSE Err(s, "undefined_variable")
    [] e[1] = "set" ->
         LET r == Eval(e[3], s)
         IN IF ~Going(r) THEN r
            ELSE IF e[2] \in DOMAIN r.env THEN [r EXCEPT !.store[r.env[e[2]]] = r.v]
            ELSE IF e[2] \in DOMAIN r.globals THEN [r EXCEPT !.globals[e[2]] = r.v]
            ELSE Err(r, "undefined_variable")
    [] e[1] \in {"and", "or"} ->
         LET l == Eval(e[2], s)
         IN IF ~Going(l) \/ IsFalsey(l.v) = (e[1] = "and") THEN l ELSE Eval(e[3], l)
    [] e[1] = "!" -> LET r == Eval(e[2], s) IN [r EXCEPT !.v = Bool(IsFalsey(r.v))]
    [] e[1] = "call" -> LET f == Eval(e[2], s) IN EvalAll(e[3], <<f.v>>, f)
    [] Len(e) = 2 ->
         LET r == Eval(e[2], s)
         IN IF Going(r) THEN Arithmetic("-", Number(0), r.v, r) ELSE r
    [] OTHER ->
         LET l == Eval(e[2], s)
             r == Eval(e[3], l)
         IN IF Going(r) THEN Arithmetic(e[1], l.v, r.v, r) ELSE r

(* The arguments of a call, left to right, and then the call. *)
EvalAll(es, values, s) ==
  IF ~Going(s) THEN s
  ELSE IF es = <<>> THEN Apply(Head(values), Tail(values), s)
  ELSE LET r == Eval(Head(es), s) IN EvalAll(Tail(es), Append(values, r.v), r)

Apply(f, arguments, s) ==
  IF ~IsClosure(f) THEN Err(s, "not_callable")
  ELSE IF Len(arguments) # Len(f[2].params) THEN Err(s, "arity")
  ELSE LET bind[i \in 0..Len(arguments)] ==
             IF i = 0 THEN [s EXCEPT !.env = f[2].env, !.top = FALSE]
             ELSE Bind(bind[i - 1], f[2].params[i], arguments[i])
           r == ExecAll(f[2].body, bind[Len(arguments)])
       IN [r EXCEPT !.v = IF r.ret = <<>> THEN Nil ELSE r.ret[1], !.ret = <<>>,
                    !.env = s.env, !.top = s.top]

Exec(t, s) ==
  CASE ~Going(s) -> s
    [] t[1] = "expr" -> Eval(t[2], s)
    [] t[1] = "print" ->
         LET r == Eval(t[2], s) IN IF Going(r) THEN [r EXCEPT !.out = Append(@, r.v)] ELSE r
    [] t[1] = "return" ->
         LET r == Eval(t[2], s) IN IF Going(r) THEN [r EXCEPT !.ret = <<r.v>>] ELSE r
    [] t[1] = "let" -> LET r == Eval(t[3], s) IN IF Going(r) THEN Define(r, t[2], r.v) ELSE r
    [] t[1] = "fun" ->
         LET env == IF s.top THEN s.env ELSE With(s.env, t[2], Len(s.store) + 1)
         IN Define([s EXCEPT !.closures = @ + 1], t[2],
                   ClosureValue([id |-> s.closures, params |-> t[3], body |-> t[4], env |-> env]))
    [] t[1] = "if" ->
         LET r == Eval(t[2], s) IN Exec(IF IsFalsey(r.v) THEN t[4] ELSE t[3], r)
    [] t[1] = "while" ->
         LET r == Eval(t[2], s)
         IN IF ~Going(r) \/ IsFalsey(r.v) THEN r
            ELSE Exec(t, Exec(t[3], r))
    [] t[1] = "block" ->
         [ExecAll(t[2], [s EXCEPT !.top = FALSE]) EXCEPT !.env = s.env, !.top = s.top]

ExecAll(ts, s) == IF ts = <<>> THEN s ELSE ExecAll(Tail(ts), Exec(Head(ts), s))
-----------------------------------------------------------------------------
(* A program as tokens, with no more parentheses than the grammar needs.   *)
Sign(type) == <<type, <<>>>>
Identifier(x) == <<"Identifier", <<x>>>>

Operator ==
  "or" :> <<"Or", 2>> @@ "and" :> <<"And", 3>> @@ "==" :> <<"EqualEqual", 4>> @@
  "!=" :> <<"BangEqual", 4>> @@ "<" :> <<"Less", 5>> @@ "<=" :> <<"LessEqual", 5>> @@
  ">" :> <<"Greater", 5>> @@ ">=" :> <<"GreaterEqual", 5>> @@ "+" :> <<"Plus", 6>> @@
  "-" :> <<"Minus", 6>> @@ "*" :> <<"Star", 7>> @@ "/" :> <<"Slash", 7>>

Level(e) ==
  CASE e[1] = "set" -> 1 [] e[1] \in {"lit", "var", "call"} -> 9
    [] Len(e) = 2 -> 8 [] OTHER -> Operator[e[1]][2]

LiteralToken(v) ==
  CASE v = Nil -> Sign("Nil") [] v = Bool(TRUE) -> Sign("True") [] v = Bool(FALSE) -> Sign("False")
    [] IsNumber(v) -> <<"Number", v>> [] OTHER -> <<"String", v>>

RECURSIVE Written(_, _), Phrase(_)

Written(e, level) ==
  LET bare ==
        CASE e[1] = "lit" -> <<LiteralToken(e[2])>>
          [] e[1] = "var" -> <<Identifier(e[2])>>
          [] e[1] = "set" -> <<Identifier(e[2]), Sign("Equal")>> \o Written(e[3], 1)
          [] e[1] = "call" ->
               LET argument(i) == (IF i = 1 THEN <<>> ELSE <<Sign("Comma")>>) \o Written(e[3][i], 1)
               IN Written(e[2], 9) \o <<Sign("LeftParen")>>
                  \o FlattenSeq([i \in DOMAIN e[3] |-> argument(i)]) \o <<Sign("RightParen")>>
          [] Len(e) = 2 -> <<Sign(IF e[1] = "!" THEN "Bang" ELSE "Minus")>> \o Written(e[2], 8)
          [] OTHER -> Written(e[2], Level(e)) \o <<Sign(Operator[e[1]][1])>>
                      \o Written(e[3], Level(e) + 1)
  IN IF Level(e) >= level THEN bare ELSE <<Sign("LeftParen")>> \o bare \o <<Sign("RightParen")>>

Ended(words) == words \o <<Sign("Semicolon")>>
Parenthesized(e) == <<Sign("LeftParen")>> \o Written(e, 1) \o <<Sign("RightParen")>>
Braced(ts) == <<Sign("LeftBrace")>> \o FlattenSeq([i \in DOMAIN ts |-> Phrase(ts[i])])
              \o <<Sign("RightBrace")>>

Phrase(t) ==
  CASE t[1] = "expr" -> Ended(Written(t[2], 1))
    [] t[1] = "print" -> <<Sign("Print")>> \o Ended(Written(t[2], 1))
    [] t[1] = "return" -> <<Sign("Return")>> \o Ended(Written(t[2], 1))
    [] t[1] = "let" -> <<Sign("Var"), Identifier(t[2]), Sign("Equal")>> \o Ended(Written(t[3], 1))
    [] t[1] = "fun" ->
         LET param(i) == (IF i = 1 THEN <<>> ELSE <<Sign("Comma")>>) \o <<Identifier(t[3][i])>>
         IN <<Sign("Fun"), Identifier(t[2]), Sign("LeftParen")>>
            \o FlattenSeq([i \in DOMAIN t[3] |-> param(i)]) \o <<Sign("RightParen")>> \o Braced(t[4])
    [] t[1] = "if" -> <<Sign("If")>> \o Parenthesized(t[2]) \o Phrase(t[3]) \o <<Sign("Else")>>
                      \o Phrase(t[4])
    [] t[1] = "while" -> <<Sign("While")>> \o Parenthesized(t[2]) \o Phrase(t[3])
    [] t[1] = "block" -> Braced(t[2])
-----------------------------------------------------------------------------
(* Generated programs. *)
Num(n) == <<"lit", Number(n)>>
A == <<"var", "a">>
B == <<"var", "b">>
Call(f, es) == <<"call", <<"var", f>>, es>>
Set(x, e) == <<"expr", <<"set", x, e>>>>
Show(e) == <<"print", e>>
Return(e) == <<"return", e>>
Block(ts) == <<"block", ts>>
None == Block(<<>>)

(* Expressions in two variables and a call that prints. *)
Leaves == {A, B, Call("f", <<Num(2)>>)}
Over(S, T) ==
  {<<op, x, y>> : op \in {"-", "<", "==", "and", "or"}, x \in S, y \in T}
Deeper(S) == {<<op, x>> : op \in {"-", "!"}, x \in S} \cup {<<"set", "a", x>> : x \in S}
Shallow == Over(Leaves, Leaves) \cup Deeper(Leaves)
Expressions == Shallow \cup Over(Shallow, Leaves) \cup Over(Leaves, Shallow) \cup Deeper(Shallow)

ExpressionPrograms ==
  {<<<<"let", "a", Num(1)>>, <<"let", "b", <<"lit", Nil>>>>,
     <<"fun", "f", <<"x">>, <<Show(<<"var", "x">>), Return(<<"var", "x">>)>>>>,
     Show(e), Show(A)>> : e \in Expressions}

(* Statements of a function with a parameter a and a variable g, which may *)
(* declare b, capture what they see, and leave a closure in g.             *)
Counter(x, n) ==
  <<<<"fun", "k", <<>>, <<Set(x, <<"+", <<"var", x>>, Num(n)>>), Return(<<"var", x>>)>>>>,
    Set("g", <<"var", "k">>)>>
Statements ==
  {<<"let", "b", A>>,
   Set("a", <<"+", A, Num(1)>>),
   Set("b", A),
   Show(<<"+", A, B>>),
   Block(Counter("a", 10)),
   Block(<<<<"let", "b", Num(5)>>>> \o Counter("b", 1) \o <<Set("b", Num(7)), Show(A)>>),
   Block(<<<<"let", "a", B>>>> \o Counter("a", 2)),
   Block(<<<<"fun", "k", <<"c">>, <<Set("c", <<"+", <<"var", "c">>, A>>), Return(<<"var", "c">>)>>>>,
           Set("a", Call("k", <<Num(4)>>))>>),
   <<"if", <<"var", "g">>, Show(Call("g", <<>>)), Show(A)>>,
   <<"if", <<"==", A, Num(1)>>, Return(<<"var", "g">>), None>>,
   <<"while", <<"<", A, Num(3)>>,
     Block(<<<<"let", "b", A>>, Set("a", <<"+", A, Num(1)>>)>> \o Counter("b", 1))>>}

StatementPrograms ==
  {<<<<"let", "b", Num(100)>>,
     <<"fun", "f", <<"a">>, <<<<"let", "g", <<"lit", Nil>>>>, s1, s2, s3, Return(<<"var", "g">>)>>>>,
     <<"let", "h", Call("f", <<Num(1)>>)>>, <<"let", "i", Call("f", <<Num(2)>>)>>,
     Show(Call("h", <<>>)), Show(Call("i", <<>>)), Show(Call("h", <<>>)), Show(B)>> :
     s1, s2, s3 \in Statements}

(* A job starts where its program has been scanned.                        *)
MeaningInit ==
  /\ \E p \in ExpressionPrograms \cup StatementPrograms :
       /\ job = [entry |-> "run", texts |-> <<>>, program |-> p]
       /\ source = FlattenSeq([i \in DOMAIN p |-> Phrase(p[i])])
  /\ read = 0 /\ phase = "compile" /\ shown = <<>> /\ exit = -1
  /\ L!Init /\ M!Init
  /\ current = 0 /\ panicMode = FALSE /\ diagnostics = <<>>
  /\ compilers = <<C!NewFunctionCompiler(1, 0)>> /\ functions = <<C!NewFunction>>
  /\ agenda = <<<<"Script">>>> /\ outcome = "none"

Generated == "program" \in DOMAIN job

AllLimits == ManyLimits \cup MeaningLimits
AllInit == (Init /\ limits \in ManyLimits) \/ (MeaningInit /\ limits \in MeaningLimits)
AllSpec == AllInit /\ [][Next]_vars

Seen(values) == [i \in DOMAIN values |-> IF IsClosure(values[i]) THEN <<"closure">> ELSE values[i]]

(* A program that compiles does what its source means: it prints the same  *)
(* values in the same order, and ends or fails in the same way.            *)
CompiledMeansSource ==
  Generated /\ phase = "exit" /\ outcome = "compiled" =>
    LET meant == ExecAll(job.program, Fresh)
    IN err = meant.err /\ Seen(output) = Seen(meant.out)

NoInternalError == M!NoInternalError
OpenIsExact == M!OpenIsExact
CallerSlotsKept == M!CallerSlotsKept
=============================================================================
