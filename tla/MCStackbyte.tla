---------------------------- MODULE MCStackbyte ----------------------------
(***************************************************************************)
(* Instances of module Stackbyte: the sources of vm_test.go and of         *)
(* BuiltinExamples, others that capture variables or fail, what each must  *)
(* give, and jobs made of them.                                            *)
(***************************************************************************)
EXTENDS Stackbyte, TLC

LOCAL INSTANCE SequencesExt

AllSymbols == STRING

Numbers(s) == Printed([i \in DOMAIN s |-> Number(s[i])])
Word(s) == String(<<s>>)

(* What each source gives under generous limits. *)
Fixtures ==
  "print 1 + 2 * 3; print 10 > 4;" :> Printed(<<Number(7), Bool(TRUE)>>) @@
  "print 7-2-1; print 2 * 3 - 4 / 2; // to the left" :> Numbers(<<4, 4>>) @@
  "print \"stack\" + \"byte\" == \"stackbyte\";" :> Printed(<<Bool(TRUE)>>) @@
  "var a = 0; var b = 1; var i = 0;\n" \o
  "while (i < 5) { print a; var n = a + b; a = b; b = n; i = i + 1; }"
    :> Numbers(<<0, 1, 1, 2, 3>>) @@
  "fun factorial(n) { if (n <= 1) return 1; return n * factorial(n - 1); }\n" \o
  "print factorial(6);" :> Numbers(<<720>>) @@
  "fun make() { var n = 0; fun next() { n = n + 1; return n; } return next; }\n" \o
  "var a = make(); var b = make(); print a(); print a(); print b();"
    :> Numbers(<<1, 2, 1>>) @@
  "fun makePair() { var n = 0; fun add() { n = n + 1; return n; } fun read() { return n; } " \o
  "print add(); print read(); }\nmakePair();" :> Numbers(<<1, 1>>) @@
  "var total = 0; var i = 1;\nwhile (i <= 4) { total = total + i; i = i + 1; }\n" \o
  "if (total == 10 and len(\"vm\") == 2) print \"ok\"; else print \"bad\";\nprint type(total);"
    :> Printed(<<String(<<"o", "k">>), Word("number")>>) @@
  "print !(nil or false); print 6/3 != 2; print -1 >= 2-4; print type(clock());"
    :> Printed(<<Bool(TRUE), Bool(FALSE), Bool(TRUE), Word("number")>>) @@
  "var x = 1;" :> Printed(<<>>) @@
  "print 1; print 1 / 0;" :> Failed("division_by_zero") @@
  "print x;" :> Failed("undefined_variable") @@
  "x = 1;" :> Failed("undefined_variable") @@
  "var x = 1; var x = 2;" :> Failed("already_defined") @@
  "print 1 + \"a\";" :> Failed("operand_type") @@
  "print -nil;" :> Failed("operand_type") @@
  "print 1 < nil;" :> Failed("operand_type") @@
  "1(2);" :> Failed("not_callable") @@
  "fun f(a) {} f();" :> Failed("arity") @@
  "clock(1);" :> Failed("native") @@
  "len(1);" :> Failed("native") @@
  "fun f(n) { return f(n + 1); } f(0);" :> Failed("frame_limit") @@
  "while (true) {}" :> Failed("instruction_limit") @@
  "print 1" :> Failed("compile") @@
  "print 999;" :> Failed("compile") @@
  "print \"open;\n" :> Failed("compile") @@
  "var b = @;" :> Failed("compile")

Job(entry, sources) == [entry |-> entry, texts |-> [i \in DOMAIN sources |-> L!Chars(sources[i])]]
One(entry, t) == [entry |-> entry, texts |-> <<t>>]

(* Lines of one REPL, which do not share their variables. *)
Session == <<"var x = 1;", "print x;", " ", "print 1 + 2 * 3; print 10 > 4;\t", "print 1",
             "print 1; print 1 / 0;", "var x = 1;">>

ManyJobs ==
  {Job("POST run", <<s>>) : s \in DOMAIN Fixtures}
  \cup {Job(e, <<s>>) : e \in Commands \cup {"POST compile"},
                        s \in {"print 1; print 1 / 0;", "print 1", "var x = 1;"}}
  \cup {Job("repl", Session)}
  \cup {One(e, t) : e \in Commands \cup Endpoints, t \in {<<>>, Unreadable, <<"1", Malformed>>}}

Generous == [maxStack |-> 64, maxFrames |-> 10, maxSteps |-> 250, maxOutputBytes |-> 16]
ManyLimits ==
  {Generous,
   [Generous EXCEPT !.maxStack = 3], [Generous EXCEPT !.maxStack = 6],
   [Generous EXCEPT !.maxFrames = 0], [Generous EXCEPT !.maxFrames = 2],
   [Generous EXCEPT !.maxSteps = 9], [Generous EXCEPT !.maxOutputBytes = 3]}
-----------------------------------------------------------------------------
Gives(t) ==
  LET meant == IF \E i \in DOMAIN t : t[i] = Malformed THEN Failed("compile")
               ELSE IF t = <<>> THEN Printed(<<>>)
               ELSE Fixtures[CHOOSE s \in DOMAIN Fixtures : L!Chars(s) = t]
  IN IF job.entry \in Running \/ meant = Failed("compile") THEN meant ELSE Compiles

(* What the texts of the job must give, from one of them on. *)
Expected ==
  LET from[i \in Nat] ==
        IF i > Len(job.texts) THEN <<>>
        ELSE LET t == job.texts[i]
             IN IF t = Unreadable \/ (t = <<>> /\ job.entry \in Endpoints) THEN <<Failed("read")>>
                ELSE IF job.entry # "repl" THEN <<Gives(t)>>
                ELSE (IF Trim(t) = <<>> THEN <<>> ELSE <<Gives(Trim(t))>>) \o from[i + 1]
  IN from[1]

ExpectedExit ==
  LET given == Expected
      last == IF given = <<>> THEN Compiles ELSE given[Len(given)]
  IN IF last = Failed("read") THEN Status(74, 400)
     ELSE IF job.entry = "repl" \/ last[1] # "failed" THEN Status(0, 200)
     ELSE Status(IF last = Failed("compile") THEN 65 ELSE 70, 422)

Canceled == \E i \in DOMAIN shown : shown[i] = Failed("canceled")

(* Every entry of the program shows what each of its texts means on its    *)
(* own: the lines of a REPL share nothing, a program that fails shows      *)
(* nothing of what it printed, and the exit code or status tells which     *)
(* phase failed.  (Of tight limits only that much can be said: what is     *)
(* shown is what is expected, or an error.)                                *)
MeansWhatItSays ==
  phase = "exit" /\ job \in ManyJobs =>
    IF limits = Generous /\ ~Canceled THEN shown = Expected /\ exit = ExpectedExit
    ELSE /\ Len(shown) = Len(Expected)
         /\ \A i \in DOMAIN shown : shown[i] = Expected[i] \/ shown[i][1] = "failed"
=============================================================================
