---------------------------- MODULE ConsoleProofs ----------------------------
(***************************************************************************)
(* Proofs, for any number of calls under way at once, whatever the server  *)
(* answers and whichever connections break: that a quiet page is not busy  *)
(* and offers to continue exactly if it has a session, that a session it   *)
(* forgot is never taken up again, and that a calm user leaves no session  *)
(* behind.                                                                 *)
(*                                                                         *)
(* The first is inductive: a click either awaits an answer or ends in      *)
(* setBusy(false), and so does the last answer that was awaited.  The      *)
(* others need to know what an answer still to come can bring: a session   *)
(* of its own (Offered), or, if the user is calm, the one the page holds   *)
(* (Matches).                                                              *)
(***************************************************************************)
EXTENDS MCConsole, TLAPS

Activities == {"nothing", "compile", "run", "reset", "resetAndRun", "create", "step", "continue"}

-----------------------------------------------------------------------------
IInv == awaits \in [Calls -> Activities] /\ QuietPage

(* A call that awaits an answer keeps the page from being quiet. *)
LEMMA AwaitingIsUnquiet ==
  ASSUME IInv, NEW c \in Calls, NEW what \in Activities \ {"nothing"}, Await(c, what)
  PROVE  IInv'
<1>1. awaits' \in [Calls -> Activities] /\ awaits'[c] = what
  BY DEF Await, IInv
<1> QED  BY <1>1 DEF IInv, QuietPage

(* After setBusy(false) the buttons agree with the session. *)
LEMMA FreeIsConsistent ==
  ASSUME IInv, NEW c \in Calls, SetBusy(FALSE), UNCHANGED awaits \/ Await(c, "nothing")
  PROVE  IInv'
<1>1. awaits' \in [Calls -> Activities]
  BY DEF Await, IInv, Activities
<1>2. ~busy' /\ continuable' = (sessionId' # NoSession)
  BY DEF SetBusy
<1> QED  BY <1>1, <1>2 DEF IInv, QuietPage

LEMMA ClickIInv == ASSUME IInv, NEW c \in Calls, Click(c) PROVE IInv'
<1>1. ASSUME NEW what \in Activities \ {"nothing"}, Await(c, what) PROVE IInv'
  BY <1>1, AwaitingIsUnquiet
<1>2. \/ \E what \in Activities \ {"nothing"} : Await(c, what)
      \/ SetBusy(FALSE) /\ UNCHANGED awaits
  <2>1. {"compile", "run", "reset", "resetAndRun", "create", "step", "continue"}
           \subseteq Activities \ {"nothing"}
    BY DEF Activities
  <2>2. CASE Compile(c)
    BY <2>1, <2>2 DEF Compile
  <2>3. CASE Reset(c)
    BY <2>1, <2>3 DEF Reset
  <2>4. CASE Run(c)
    BY <2>1, <2>4 DEF Run
  <2>5. CASE Step(c)
    BY <2>1, <2>5 DEF Step
  <2>6. CASE Continue(c)
    BY <2>1, <2>6 DEF Continue
  <2> QED  BY <2>2, <2>3, <2>4, <2>5, <2>6 DEF Click
<1> QED  BY <1>1, <1>2, FreeIsConsistent

LEMMA AnswerIInv == ASSUME IInv, NEW c \in Calls, Answer(c) \/ Disconnect(c) PROVE IInv'
<1>1. \/ SetBusy(FALSE) /\ Await(c, "nothing")
      \/ Await(c, "run")
  BY DEF Answer, Render, ShowError, End, GoOn, Disconnect, Settle
<1>2. "run" \in Activities \ {"nothing"}
  BY DEF Activities
<1> QED  BY <1>1, <1>2, AwaitingIsUnquiet, FreeIsConsistent

LEMMA NextIInv == IInv /\ [Next]_vars => IInv'
<1>1. ASSUME IInv, Server \/ UNCHANGED vars PROVE IInv'
  BY <1>1 DEF Server, vars, page, IInv, QuietPage
<1> QED  BY <1>1, ClickIInv, AnswerIInv DEF Next

LEMMA InitIInv == Init => IInv
BY DEF Init, IInv, QuietPage, Activities

(* Once nothing is under way the buttons tell the truth. *)
THEOREM QuietPageIsConsistent == Spec => []QuietPage
<1>1. IInv => QuietPage
  BY DEF IInv
<1> QED  BY <1>1, InitIInv, NextIInv, PTL DEF Spec
-----------------------------------------------------------------------------
(* What both further invariants need to know of the server's state. *)
Shape ==
  /\ awaits \in [Calls -> Activities]
  /\ DOMAIN pc = Calls /\ DOMAIN request = Calls /\ DOMAIN answer = Calls
  /\ DOMAIN err = Ids /\ DOMAIN done = Ids
  /\ sessions \subseteq issued /\ issued \subseteq Ids
  /\ sessionId \in issued \cup {NoSession}
  /\ \A c \in Calls :
       /\ pc[c] \notin {"idle", "create"} => request[c].id \in issued
       /\ S!Answered(answer[c]) => answer[c].id \in issued

(* The handler of c moves and the others do not. *)
OnlyMoves(c) ==
  /\ DOMAIN pc' = Calls /\ DOMAIN request' = Calls /\ DOMAIN answer' = Calls
  /\ \A d \in Calls \ {c} :
       pc'[d] = pc[d] /\ request'[d] = request[d] /\ answer'[d] = answer[d]

Store == <<sessions, issued>>
Driving == {"lookup", "check", "evict", "wait", "drive", "finish"}

(* What a call that starts does to the server. *)
Starts(c) ==
  /\ OnlyMoves(c)
  /\ UNCHANGED <<Store, err, done>>
  /\ pc[c] = "idle" /\ ~S!Answered(answer'[c])
  /\ \/ request'[c].kind = "create" /\ pc'[c] = "create"
     \/ request'[c].kind = "delete" /\ pc'[c] = "delete" /\ request'[c].id \in Ids
     \/ request'[c].kind \in {"step", "continue"} /\ pc'[c] = "lookup" /\ request'[c].id \in Ids

(* The four ways in which a handler goes on. *)
Creates(c, id) ==
  /\ pc[c] = "create" /\ pc'[c] = "idle"
  /\ id \in Ids \ issued
  /\ issued' = issued \cup {id} /\ sessions' \subseteq sessions \cup {id} /\ id \in sessions'
  /\ S!Answered(answer'[c]) /\ answer'[c].id = id /\ (answer'[c].over <=> S!Over(id))
  /\ request'[c].kind = "none"
  /\ UNCHANGED <<err, done>>

Refuses(c) ==
  /\ pc[c] # "idle" /\ pc'[c] = "idle"
  /\ issued' = issued /\ sessions' \subseteq sessions
  /\ pc[c] = "delete" => request[c].id \notin sessions'
  /\ ~S!Answered(answer'[c])
  /\ request'[c].kind = "none"
  /\ UNCHANGED <<err, done>>

Proceeds(c) ==
  /\ pc[c] \in Driving /\ pc'[c] \in Driving
  /\ UNCHANGED <<Store, request, answer>>

Shows(c) ==
  /\ pc[c] \in Driving /\ pc'[c] = "idle"
  /\ S!Answered(answer'[c])
  /\ answer'[c].id = request[c].id /\ (answer'[c].over <=> S!Over(request[c].id))
  /\ request'[c].kind = "none"
  /\ UNCHANGED <<Store, err, done>>

(* What is over stays over. *)
OverKept ==
  /\ DOMAIN err' = Ids /\ DOMAIN done' = Ids
  /\ \A id \in Ids : S!Over(id) => S!Over(id)'

LEMMA StartStarts == ASSUME Shape, NEW c \in Calls, S!Start(c) PROVE Starts(c)
<1>1. ASSUME NEW r, NEW label, S!Receive(c, r, label)
      PROVE  /\ OnlyMoves(c) /\ UNCHANGED <<Store, err, done>>
             /\ pc[c] = "idle" /\ ~S!Answered(answer'[c])
             /\ request'[c] = r /\ pc'[c] = label
  <2>1. "refusal" \in DOMAIN S!Refused("none")
    BY DEF S!Refused
  <2>2. /\ pc' = [pc EXCEPT ![c] = label] /\ request' = [request EXCEPT ![c] = r]
        /\ answer' = [answer EXCEPT ![c] = S!Refused("none")]
        /\ UNCHANGED <<Store, err, done>> /\ pc[c] = "idle"
    BY <1>1 DEF S!Receive, S!Goto, S!store, S!item, Store
  <2> QED  BY <2>1, <2>2 DEF Shape, OnlyMoves, S!Answered
<1>2. CASE S!Receive(c, [kind |-> "create"], "create")
  <2>1. [kind |-> "create"].kind = "create"
    OBVIOUS
  <2> QED  BY <1>1, <1>2, <2>1 DEF Starts
<1>3. CASE \E kind \in S!Kinds, id \in Ids :
             S!Receive(c, [kind |-> kind, id |-> id, gone |-> id \in issued \ sessions],
                       IF kind = "delete" THEN "delete" ELSE "lookup")
  <2>1. PICK kind \in S!Kinds, id \in Ids :
             S!Receive(c, [kind |-> kind, id |-> id, gone |-> id \in issued \ sessions],
                       IF kind = "delete" THEN "delete" ELSE "lookup")
    BY <1>3
  <2> DEFINE r == [kind |-> kind, id |-> id, gone |-> id \in issued \ sessions]
  <2>2. r.kind = kind /\ r.id = id
    OBVIOUS
  <2>3. /\ OnlyMoves(c) /\ UNCHANGED <<Store, err, done>>
        /\ pc[c] = "idle" /\ ~S!Answered(answer'[c])
        /\ request'[c] = r /\ pc'[c] = (IF kind = "delete" THEN "delete" ELSE "lookup")
    <3> HIDE DEF r
    <3> QED  BY <1>1, <2>1 DEF r
  <2>4. request'[c].kind = kind /\ request'[c].id = id
    BY <2>2, <2>3
  <2> HIDE DEF r
  <2> QED  BY <2>3, <2>4 DEF Starts, S!Kinds
<1> QED  BY <1>2, <1>3 DEF S!Start

(* A reply, whatever it says. *)
LEMMA ReplyMoves ==
  ASSUME Shape, NEW c \in Calls, NEW a, S!Reply(c, a)
  PROVE  OnlyMoves(c) /\ answer'[c] = a /\ pc'[c] = "idle" /\ request'[c].kind = "none"
<1>1. S!NoRequest.kind = "none"
  BY DEF S!NoRequest
<1>2. /\ pc' = [pc EXCEPT ![c] = "idle"] /\ request' = [request EXCEPT ![c] = S!NoRequest]
      /\ answer' = [answer EXCEPT ![c] = a]
  BY DEF S!Reply, S!Goto
<1> QED  BY <1>1, <1>2 DEF Shape, OnlyMoves

LEMMA AnswersShown ==
  /\ \A refusal : ~S!Answered(S!Refused(refusal))
  /\ \A id : /\ S!Answered(S!Snapshot(id)) /\ S!Snapshot(id).id = id
            /\ (S!Snapshot(id).over <=> S!Over(id))
<1>1. ASSUME NEW refusal PROVE "refusal" \in DOMAIN S!Refused(refusal)
  BY DEF S!Refused
<1>2. ASSUME NEW id PROVE "refusal" \notin DOMAIN S!Snapshot(id)
  BY DEF S!Snapshot
<1>3. ASSUME NEW id PROVE S!Snapshot(id).id = id
  BY DEF S!Snapshot
<1>4. ASSUME NEW id PROVE (S!Snapshot(id).over <=> S!Over(id))
  <2>1. S!Snapshot(id).over = (done[id] \/ err[id] # "none")
    BY DEF S!Snapshot
  <2>2. S!Over(id) <=> (err[id] # "none" \/ done[id])
    BY DEF S!Over
  <2> QED  BY <2>1, <2>2
<1> QED  BY <1>1, <1>2, <1>3, <1>4 DEF S!Answered

(* Every move of a handler is one of the four, and keeps what is over.     *)
LEMMA CreateMoves ==
  ASSUME Shape, NEW c \in Calls, S!Reject(c) \/ S!Create(c)
  PROVE  OnlyMoves(c) /\ OverKept /\ (Refuses(c) \/ \E id \in Ids : Creates(c, id))
<1> DEFINE kept == {id \in sessions : ~S!Expired(id)}
<1>1. pc[c] = "create"
  BY DEF S!Reject, S!Create
<1>2. \/ \E refusal : /\ S!Reply(c, S!Refused(refusal))
                      /\ issued' = issued /\ sessions' \subseteq sessions
                      /\ UNCHANGED <<err, done>>
      \/ \E id \in Ids \ issued : S!Admit(c, kept, id)
  <2>1. CASE S!Reject(c)
    BY <2>1 DEF S!Reject, S!store, S!item
  <2>2. ASSUME NEW refusal, S!Decline(c, kept, refusal)
        PROVE  /\ S!Reply(c, S!Refused(refusal))
               /\ issued' = issued /\ sessions' \subseteq sessions
               /\ UNCHANGED <<err, done>>
    BY <2>2 DEF S!Decline, S!item
  <2>3. CASE S!Create(c)
    <3>1. \/ S!Decline(c, kept, "limit") \/ S!Decline(c, kept, "rejected")
          \/ \E id \in Ids \ issued : S!Admit(c, kept, id)
      BY <2>3 DEF S!Create, S!Unexpired
    <3> HIDE DEF kept
    <3> QED  BY <3>1, <2>2
  <2> QED  BY <2>1, <2>3
<1>3. CASE \E refusal : /\ S!Reply(c, S!Refused(refusal))
                        /\ issued' = issued /\ sessions' \subseteq sessions
                        /\ UNCHANGED <<err, done>>
  <2>1. PICK refusal : /\ S!Reply(c, S!Refused(refusal))
                       /\ issued' = issued /\ sessions' \subseteq sessions
                       /\ UNCHANGED <<err, done>>
    BY <1>3
  <2>2. OnlyMoves(c) /\ answer'[c] = S!Refused(refusal) /\ pc'[c] = "idle"
        /\ request'[c].kind = "none"
    BY <2>1, ReplyMoves
  <2>3. Refuses(c)
    BY <1>1, <2>1, <2>2, AnswersShown DEF Refuses
  <2>4. OverKept
    BY <2>1 DEF OverKept, S!Over, Shape
  <2> QED  BY <2>2, <2>3, <2>4
<1>4. CASE \E id \in Ids \ issued : S!Admit(c, kept, id)
  <2>1. PICK id \in Ids \ issued : S!Admit(c, kept, id)
    BY <1>4
  <2>2. /\ sessions' = kept \cup {id} /\ issued' = issued \cup {id}
        /\ S!Reply(c, S!Snapshot(id)) /\ UNCHANGED <<err, done>>
    BY <2>1 DEF S!Admit
  <2>3. OnlyMoves(c) /\ answer'[c] = S!Snapshot(id) /\ pc'[c] = "idle"
        /\ request'[c].kind = "none"
    BY <2>2, ReplyMoves
  <2>4. kept \subseteq sessions
    OBVIOUS
  <2>5. Creates(c, id)
    <3> HIDE DEF kept
    <3> QED  BY <1>1, <2>2, <2>3, <2>4, AnswersShown DEF Creates
  <2>6. OverKept
    BY <2>2 DEF OverKept, S!Over, Shape
  <2> QED  BY <2>3, <2>5, <2>6
<1> QED  BY <1>2, <1>3, <1>4

LEMMA DeleteMoves ==
  ASSUME Shape, NEW c \in Calls, S!Delete(c) \/ S!Evict(c)
  PROVE  OnlyMoves(c) /\ OverKept /\ Refuses(c)
<1>1. PICK refusal : S!Reply(c, S!Refused(refusal))
  BY DEF S!Delete, S!Evict
<1>2. /\ pc[c] # "idle" /\ issued' = issued
      /\ sessions' = sessions \ {request[c].id} /\ UNCHANGED <<err, done>>
  BY DEF S!Delete, S!Evict, S!Remove, S!Id, S!item
<1>3. OnlyMoves(c) /\ answer'[c] = S!Refused(refusal) /\ pc'[c] = "idle"
      /\ request'[c].kind = "none"
  BY <1>1, ReplyMoves
<1>4. Refuses(c)
  BY <1>2, <1>3, AnswersShown DEF Refuses
<1>5. OverKept
  BY <1>2 DEF OverKept, S!Over, Shape
<1> QED  BY <1>3, <1>4, <1>5

(* A handler that goes on within get, Step or Continue. *)
LEMMA GoesOn ==
  ASSUME Shape, NEW c \in Calls, NEW label \in Driving,
         pc[c] \in Driving, S!Goto(c, label), UNCHANGED <<Store, request, answer>>
  PROVE  OnlyMoves(c) /\ Proceeds(c)
BY DEF Shape, OnlyMoves, Proceeds, S!Goto

LEMMA LookupMoves ==
  ASSUME Shape, NEW c \in Calls, S!Lookup(c) \/ S!CheckExpiry(c) \/ S!Acquire(c)
  PROVE  OnlyMoves(c) /\ OverKept /\ (Refuses(c) \/ Proceeds(c))
<1>1. UNCHANGED <<Store, err, done>> /\ pc[c] \in {"lookup", "check", "wait"}
  BY DEF S!Lookup, S!CheckExpiry, S!Acquire, S!store, S!item, Store
<1>2. OverKept
  BY <1>1 DEF OverKept, S!Over, Shape
<1>3. CASE S!Reply(c, S!Refused("not_found"))
  <2>1. OnlyMoves(c) /\ answer'[c] = S!Refused("not_found") /\ pc'[c] = "idle"
        /\ request'[c].kind = "none"
    BY <1>3, ReplyMoves
  <2>2. Refuses(c)
    BY <1>1, <2>1, AnswersShown DEF Refuses, Store
  <2> QED  BY <1>2, <2>1, <2>2
<1>4. CASE /\ S!Goto(c, "check") \/ S!Goto(c, "evict") \/ S!Goto(c, "wait") \/ S!Goto(c, "drive")
           /\ UNCHANGED <<request, answer>>
  <2>1. pc[c] \in Driving /\ {"check", "evict", "wait", "drive"} \subseteq Driving
    BY <1>1 DEF Driving
  <2>2. UNCHANGED <<Store, request, answer>>
    BY <1>1, <1>4
  <2> QED  BY <1>2, <1>4, <2>1, <2>2, GoesOn
<1> QED  BY <1>3, <1>4 DEF S!Lookup, S!CheckExpiry, S!Acquire

LEMMA DriveMoves == ASSUME Shape, NEW c \in Calls, S!Drive(c) PROVE OnlyMoves(c) /\ OverKept /\ Proceeds(c)
<1>1. /\ pc[c] = "drive" /\ UNCHANGED <<Store, request, answer>>
      /\ S!StepMachine(request[c].id, canceled[c])
      /\ S!Goto(c, "finish") \/ S!Goto(c, "drive")
  BY DEF S!Drive, S!Id, S!store, Store
<1>2. OnlyMoves(c) /\ Proceeds(c)
  <2>1. pc[c] \in Driving /\ {"finish", "drive"} \subseteq Driving
    BY <1>1 DEF Driving
  <2> QED  BY <1>1, <2>1, GoesOn
<1>3. /\ err' = err \/ err' = [err EXCEPT ![request[c].id] = "canceled"]
                    \/ err' = [err EXCEPT ![request[c].id] = "failed"]
      /\ done' = done \/ done' = [done EXCEPT ![request[c].id] = TRUE]
  BY <1>1 DEF S!StepMachine
<1>4. DOMAIN err' = Ids /\ DOMAIN done' = Ids
  BY <1>3 DEF Shape
<1>5. ASSUME NEW id \in Ids, S!Over(id) PROVE S!Over(id)'
  BY <1>3, <1>5 DEF Shape, S!Over
<1> QED  BY <1>2, <1>4, <1>5 DEF OverKept

LEMMA FinishMoves == ASSUME Shape, NEW c \in Calls, S!Finish(c) PROVE OnlyMoves(c) /\ OverKept /\ Shows(c)
<1>1. /\ pc[c] \in Driving /\ UNCHANGED <<Store, err, done>>
      /\ S!Reply(c, S!Snapshot(request[c].id))
  BY DEF S!Finish, S!Id, S!store, Store, Driving
<1>2. OnlyMoves(c) /\ answer'[c] = S!Snapshot(request[c].id) /\ pc'[c] = "idle"
      /\ request'[c].kind = "none"
  BY <1>1, ReplyMoves
<1>3. Shows(c)
  BY <1>1, <1>2, AnswersShown DEF Shows
<1>4. OverKept
  BY <1>1 DEF OverKept, S!Over, Shape
<1> QED  BY <1>2, <1>3, <1>4

(* A step of the server, as the page may come to see it. *)
Moves(c) ==
  /\ OnlyMoves(c) /\ OverKept
  /\ Refuses(c) \/ Proceeds(c) \/ Shows(c) \/ \E id \in Ids : Creates(c, id)

Seen == <<sessions, issued, err, done, pc, request, answer>>

LEMMA ServerMoves ==
  ASSUME Shape, Server
  PROVE  UNCHANGED page /\ (UNCHANGED Seen \/ \E c \in Calls : Moves(c))
<1>1. CASE S!Tick
  BY <1>1 DEF S!Tick, S!store, S!item, Seen, Server
<1>2. ASSUME NEW c \in Calls, S!Cancel(c) PROVE UNCHANGED Seen
  BY <1>2 DEF S!Cancel, S!store, S!item, Seen
<1>3. ASSUME NEW c \in Calls, S!Serve(c) \/ S!Acquire(c) PROVE Moves(c)
  BY <1>3, CreateMoves, DeleteMoves, LookupMoves, DriveMoves, FinishMoves DEF S!Serve, Moves
<1> QED  BY <1>1, <1>2, <1>3 DEF Server
-----------------------------------------------------------------------------
(* The clicks: one that asks nothing about the session, one that has it    *)
(* deleted, and one that asks for a session or for progress of the one     *)
(* there is.                                                               *)
Leaves(c) ==
  /\ UNCHANGED <<server, sessionId>>
  /\ \/ UNCHANGED awaits
     \/ Await(c, "compile") \/ Await(c, "run")

Forgets(c) ==
  /\ Starts(c) /\ request'[c].kind = "delete" /\ request'[c].id = sessionId
  /\ sessionId # NoSession /\ sessionId' = NoSession
  /\ Await(c, "reset") \/ Await(c, "resetAndRun")

Asks(c) ==
  /\ Starts(c) /\ UNCHANGED sessionId
  /\ \/ sessionId = NoSession /\ request'[c].kind = "create" /\ Await(c, "create")
     \/ request'[c].kind \in {"step", "continue"} /\ request'[c].id = sessionId
        /\ (Await(c, "step") \/ Await(c, "continue"))

LEMMA ClickEffect ==
  ASSUME Shape, NEW c \in Calls, Click(c)
  PROVE  Free(c) /\ (Leaves(c) \/ Forgets(c) \/ Asks(c))
<1>1. Free(c)
  BY DEF Click, Compile, Reset, Run, Step, Continue
<1>2. ASSUME NEW kind \in {"create", "delete", "step", "continue"}, Request(c, kind)
      PROVE  Starts(c) /\ request'[c].kind = kind /\ (kind # "create" => request'[c].id = sessionId)
  BY <1>2, StartStarts DEF Request
<1>3. CASE Compile(c)
  BY <1>3 DEF Compile, Leaves
<1>4. CASE Reset(c) \/ Run(c)
  <2>1. CASE sessionId = NoSession
    BY <1>4, <2>1 DEF Reset, Run, Leaves
  <2>2. CASE sessionId # NoSession
    <3>1. /\ Request(c, "delete") /\ sessionId' = NoSession
          /\ Await(c, "reset") \/ Await(c, "resetAndRun")
      BY <1>4, <2>2 DEF Reset, Run
    <3> QED  BY <1>1, <1>2, <2>2, <3>1 DEF Forgets
  <2> QED  BY <2>1, <2>2
<1>5. CASE Step(c)
  <2>1. CASE sessionId = NoSession
    <3>1. Request(c, "create") /\ Await(c, "create") /\ sessionId' = sessionId
      BY <1>5, <2>1 DEF Step
    <3> QED  BY <1>1, <1>2, <2>1, <3>1 DEF Asks
  <2>2. CASE sessionId # NoSession
    <3>1. Request(c, "step") /\ Await(c, "step") /\ sessionId' = sessionId
      BY <1>5, <2>2 DEF Step
    <3> QED  BY <1>1, <1>2, <2>2, <3>1 DEF Asks
  <2> QED  BY <2>1, <2>2
<1>6. CASE Continue(c)
  <2>1. Request(c, "continue") /\ Await(c, "continue") /\ sessionId' = sessionId
    BY <1>6 DEF Continue
  <2> QED  BY <1>1, <1>2, <2>1 DEF Asks
<1> QED  BY <1>1, <1>3, <1>4, <1>5, <1>6 DEF Click

(* The answers: one is shown, or the call ends and the session stays. *)
Adopts(c) ==
  /\ pc[c] = "idle" /\ awaits[c] \in Shown /\ S!Answered(answer[c])
  /\ sessionId' = IF answer[c].over THEN NoSession
                  ELSE IF awaits[c] = "create" THEN answer[c].id ELSE sessionId
  /\ Await(c, "nothing") /\ UNCHANGED server

Drops(c) ==
  /\ awaits[c] # "nothing" /\ UNCHANGED <<server, sessionId>>
  /\ Await(c, "nothing") \/ (awaits[c] = "resetAndRun" /\ Await(c, "run"))

LEMMA AnswerEffect ==
  ASSUME NEW c \in Calls, Answer(c)
  PROVE  pc[c] = "idle" /\ (Adopts(c) \/ (Drops(c) /\ ~(awaits[c] \in Shown /\ S!Answered(answer[c]))))
<1>1. CASE Render(c)
  BY <1>1 DEF Render, Adopts, Settle
<1>2. CASE ShowError(c)
  BY <1>2 DEF ShowError, Drops, Settle, Shown
<1>3. CASE End(c)
  BY <1>3 DEF End, Drops, Settle, Shown
<1>4. CASE GoOn(c)
  BY <1>4 DEF GoOn, Drops, Shown
<1> QED  BY <1>1, <1>2, <1>3, <1>4 DEF Answer

LEMMA DisconnectEffect == ASSUME NEW c \in Calls, Disconnect(c) PROVE Drops(c)
BY DEF Disconnect, Drops

-----------------------------------------------------------------------------
LEMMA ShapeStarts ==
  ASSUME Shape, NEW c \in Calls, Starts(c), sessionId' \in {sessionId, NoSession},
         request'[c].kind # "create" => request'[c].id = sessionId,
         awaits' \in [Calls -> Activities]
  PROVE  Shape'
<1>1. sessions' = sessions /\ issued' = issued /\ err' = err /\ done' = done
  BY DEF Starts, Store
<1>2. pc'[c] \notin {"idle", "create"} => request'[c].id \in issued
  <2>1. CASE request'[c].kind = "create"
    BY <2>1 DEF Starts
  <2>2. CASE request'[c].kind # "create"
    BY <2>2, ConsoleAssumption DEF Starts, Shape
  <2> QED  BY <2>1, <2>2
<1>3. ASSUME NEW d \in Calls \ {c}
      PROVE  /\ pc'[d] \notin {"idle", "create"} => request'[d].id \in issued
             /\ S!Answered(answer'[d]) => answer'[d].id \in issued
  BY <1>3 DEF Starts, OnlyMoves, Shape
<1>4. ~S!Answered(answer'[c])
  BY DEF Starts
<1>5. DOMAIN pc' = Calls /\ DOMAIN request' = Calls /\ DOMAIN answer' = Calls
  BY DEF Starts, OnlyMoves
<1>6. \A d \in Calls :
         /\ pc'[d] \notin {"idle", "create"} => request'[d].id \in issued'
         /\ S!Answered(answer'[d]) => answer'[d].id \in issued'
  BY <1>1, <1>2, <1>3, <1>4
<1>7. \A d \in Calls : S!Answered(answer'[d]) <=> S!Answered(answer[d])'
  BY DEF S!Answered
<1> QED  BY <1>1, <1>5, <1>6, <1>7 DEF Shape

LEMMA ShapeMoves ==
  ASSUME Shape, NEW c \in Calls, Moves(c), UNCHANGED page
  PROVE  Shape'
<1>1. DOMAIN pc' = Calls /\ DOMAIN request' = Calls /\ DOMAIN answer' = Calls
      /\ DOMAIN err' = Ids /\ DOMAIN done' = Ids
  BY DEF Moves, OnlyMoves, OverKept
<1>2. issued \subseteq issued' /\ sessions' \subseteq issued' /\ issued' \subseteq Ids
  BY DEF Moves, Refuses, Proceeds, Shows, Creates, Store, Shape
<1>3. pc'[c] \notin {"idle", "create"} => request'[c].id \in issued'
  <2>1. CASE Proceeds(c)
    BY <2>1 DEF Proceeds, Shape, Store, Driving
  <2>2. CASE ~Proceeds(c)
    BY <2>2 DEF Moves, Refuses, Shows, Creates
  <2> QED  BY <2>1, <2>2
<1>4. S!Answered(answer'[c]) => answer'[c].id \in issued'
  <2>1. CASE Refuses(c)
    BY <2>1 DEF Refuses
  <2>2. CASE Proceeds(c)
    BY <2>2 DEF Proceeds, Store, Shape
  <2>3. CASE Shows(c)
    BY <2>3 DEF Shows, Store, Shape, Driving
  <2>4. CASE \E id \in Ids : Creates(c, id)
    BY <2>4 DEF Creates
  <2> QED  BY <2>1, <2>2, <2>3, <2>4 DEF Moves
<1>5. ASSUME NEW d \in Calls \ {c}
      PROVE  /\ pc'[d] \notin {"idle", "create"} => request'[d].id \in issued'
             /\ S!Answered(answer'[d]) => answer'[d].id \in issued'
  BY <1>2, <1>5 DEF Moves, OnlyMoves, Shape
<1>6. \A d \in Calls :
         /\ pc'[d] \notin {"idle", "create"} => request'[d].id \in issued'
         /\ S!Answered(answer'[d]) => answer'[d].id \in issued'
  BY <1>3, <1>4, <1>5
<1>7. \A d \in Calls : S!Answered(answer'[d]) <=> S!Answered(answer[d])'
  BY DEF S!Answered
<1>8. awaits' = awaits /\ sessionId' = sessionId
  BY DEF page
<1> QED  BY <1>1, <1>2, <1>6, <1>7, <1>8 DEF Shape

(* A step of the page alone. *)
LEMMA ShapePage ==
  ASSUME Shape, UNCHANGED server, awaits' \in [Calls -> Activities],
         sessionId' \in issued \cup {NoSession}
  PROVE  Shape'
BY DEF Shape, server, S!Answered

LEMMA ShapeNext == Shape /\ [Next]_vars => Shape'
<1> SUFFICES ASSUME Shape, [Next]_vars PROVE Shape'
  OBVIOUS
<1> USE DEF Activities
<1>1. CASE UNCHANGED vars
  BY <1>1, ShapePage DEF vars, page, Shape
<1>2. CASE Server
  <2>1. CASE UNCHANGED Seen
    <3>1. UNCHANGED page
      BY <1>2, ServerMoves
    <3> QED  BY <2>1, <3>1 DEF Seen, page, Shape, S!Answered
  <2>2. CASE \E c \in Calls : Moves(c)
    BY <1>2, <2>2, ServerMoves, ShapeMoves
  <2> QED  BY <1>2, <2>1, <2>2, ServerMoves
<1>3. ASSUME NEW c \in Calls, Click(c) PROVE Shape'
  <2>1. CASE Leaves(c)
    <3>1. awaits' \in [Calls -> Activities] /\ UNCHANGED <<server, sessionId>>
      BY <2>1 DEF Leaves, Await, Shape
    <3> QED  BY <3>1, ShapePage DEF Shape
  <2>2. CASE Forgets(c)
    <3>1. awaits' \in [Calls -> Activities]
      BY <2>2 DEF Forgets, Await, Shape
    <3> QED  BY <2>2, <3>1, ShapeStarts DEF Forgets
  <2>3. CASE Asks(c)
    <3>1. awaits' \in [Calls -> Activities]
      BY <2>3 DEF Asks, Await, Shape
    <3> QED  BY <2>3, <3>1, ShapeStarts DEF Asks
  <2> QED  BY <1>3, <2>1, <2>2, <2>3, ClickEffect
<1>4. ASSUME NEW c \in Calls, Adopts(c) \/ Drops(c) PROVE Shape'
  <2>1. awaits' \in [Calls -> Activities] /\ UNCHANGED server
    BY <1>4 DEF Adopts, Drops, Await, Shape
  <2>2. sessionId' \in issued \cup {NoSession}
    BY <1>4 DEF Adopts, Drops, Shape
  <2> QED  BY <2>1, <2>2, ShapePage
<1> QED  BY <1>1, <1>2, <1>3, <1>4, AnswerEffect, DisconnectEffect DEF Next

-----------------------------------------------------------------------------
(* No session that can still be adopted has been forgotten: an answer that *)
(* offers one offers its own.                                              *)
Offers(c) == awaits[c] = "create" /\ S!Answered(answer[c])

Fresh(c) == answer[c].id \notin forgotten \cup {sessionId}

Offered ==
  /\ forgotten \subseteq issued
  /\ sessionId \notin forgotten
  /\ \A c \in Calls :
       /\ awaits[c] = "create" => pc[c] \in {"create", "idle"}
       /\ Offers(c) => pc[c] # "create" /\ Fresh(c)
  /\ \A c, d \in Calls : Offers(c) /\ Offers(d) /\ c # d => answer[c].id # answer[d].id

Remembers == forgotten' = forgotten \cup ({sessionId} \ {sessionId', NoSession})

LEMMA OfferedMoves ==
  ASSUME Shape, Offered, NEW c \in Calls, Moves(c), UNCHANGED page, Remembers
  PROVE  Offered'
<1>1. awaits' = awaits /\ sessionId' = sessionId /\ forgotten' = forgotten
  BY DEF page, Remembers
<1>2. issued \subseteq issued'
  BY DEF Moves, Refuses, Proceeds, Shows, Creates, Store
<1>3. awaits[c] = "create" =>
        /\ pc'[c] \in {"create", "idle"}
        /\ S!Answered(answer'[c]) => pc'[c] # "create"
        /\ S!Answered(answer'[c]) => answer'[c].id \in Ids \ issued
  <2> SUFFICES ASSUME awaits[c] = "create"
               PROVE  /\ pc'[c] \in {"create", "idle"}
                      /\ S!Answered(answer'[c]) => pc'[c] # "create"
                      /\ S!Answered(answer'[c]) => answer'[c].id \in Ids \ issued
    OBVIOUS
  <2>1. pc[c] \in {"create", "idle"}
    BY DEF Offered
  <2>2. pc[c] \notin Driving
    BY <2>1 DEF Driving
  <2>3. CASE Refuses(c)
    BY <2>3 DEF Refuses
  <2>4. CASE \E id \in Ids : Creates(c, id)
    BY <2>4 DEF Creates
  <2> QED  BY <2>2, <2>3, <2>4 DEF Moves, Proceeds, Shows
<1>4. \A d \in Calls \ {c} : pc'[d] = pc[d] /\ answer'[d] = answer[d]
  BY DEF Moves, OnlyMoves
<1>5. \A d \in Calls \ {c} : (Offers(d)' <=> Offers(d)) /\ (Offers(d) => answer[d].id \in issued)
  BY <1>1, <1>4 DEF Offers, S!Answered, Shape
<1>6. Offers(c)' => awaits[c] = "create" /\ S!Answered(answer'[c])
  BY <1>1 DEF Offers, S!Answered
<1>7. ASSUME NEW d \in Calls
      PROVE  /\ awaits'[d] = "create" => pc'[d] \in {"create", "idle"}
             /\ Offers(d)' => pc'[d] # "create" /\ Fresh(d)'
  <2>1. CASE d = c
    BY <1>1, <1>3, <1>6, <2>1, ConsoleAssumption DEF Fresh, Offered, Shape
  <2>2. CASE d # c
    BY <1>1, <1>4, <1>5, <2>2 DEF Fresh, Offered
  <2> QED  BY <2>1, <2>2
<1>8. ASSUME NEW d \in Calls, NEW e \in Calls, Offers(d)', Offers(e)', d # e
      PROVE  answer'[d].id # answer'[e].id
  <2>1. CASE d = c
    BY <1>3, <1>4, <1>5, <1>6, <1>8, <2>1
  <2>2. CASE e = c
    BY <1>3, <1>4, <1>5, <1>6, <1>8, <2>2
  <2>3. CASE d # c /\ e # c
    BY <1>4, <1>5, <1>8, <2>3 DEF Offered
  <2> QED  BY <2>1, <2>2, <2>3
<1>9. forgotten' \subseteq issued' /\ sessionId' \notin forgotten'
  BY <1>1, <1>2 DEF Offered
<1> QED  BY <1>7, <1>8, <1>9 DEF Offered

(* What the page keeps of its offers is still fresh. *)
LEMMA OfferedPage ==
  ASSUME Shape, Offered, Remembers, sessionId' \in {sessionId, NoSession}, issued' = issued,
         \A d \in Calls : Offers(d)' => Offers(d) /\ answer'[d] = answer[d] /\ pc'[d] = pc[d],
         \A d \in Calls : awaits'[d] = "create" => pc'[d] \in {"create", "idle"}
  PROVE  Offered'
<1>1. forgotten' \subseteq issued'
  BY DEF Remembers, Offered, Shape
<1>2. sessionId' \notin forgotten'
  BY ConsoleAssumption DEF Remembers, Offered, Shape
<1>3. ASSUME NEW d \in Calls, Offers(d)' PROVE pc'[d] # "create" /\ Fresh(d)'
  <2>1. Fresh(d) /\ pc'[d] # "create" /\ answer'[d] = answer[d]
    BY <1>3 DEF Offered
  <2>2. answer[d].id # NoSession
    BY <1>3, ConsoleAssumption DEF Offers, Shape
  <2> QED  BY <2>1, <2>2 DEF Fresh, Remembers
<1>4. ASSUME NEW d \in Calls, NEW e \in Calls, Offers(d)', Offers(e)', d # e
      PROVE  answer'[d].id # answer'[e].id
  BY <1>4 DEF Offered
<1> QED  BY <1>1, <1>2, <1>3, <1>4 DEF Offered

LEMMA OfferedClick ==
  ASSUME Shape, Offered, NEW c \in Calls, Click(c), Remembers
  PROVE  Offered'
<1>1. Free(c) /\ (Leaves(c) \/ Forgets(c) \/ Asks(c))
  BY ClickEffect
<1>2. CASE Leaves(c)
  <2>1. UNCHANGED <<pc, answer, issued, sessionId>>
        /\ \A d \in Calls : awaits'[d] = "create" => awaits[d] = "create"
    BY <1>2 DEF Leaves, Await, server, Shape
  <2>2. \A d \in Calls : Offers(d)' => Offers(d)
    BY <2>1 DEF Offers, S!Answered
  <2> QED  BY <2>1, <2>2, OfferedPage DEF Offered
<1>3. CASE Forgets(c) \/ Asks(c)
  <2>1. Starts(c) /\ sessionId' \in {sessionId, NoSession}
    BY <1>3 DEF Forgets, Asks
  <2>2. issued' = issued
    BY <2>1 DEF Starts, Store
  <2>3. ~S!Answered(answer'[c])
    BY <2>1 DEF Starts
  <2>4. awaits'[c] = "create" => pc'[c] = "create"
    BY <1>3 DEF Forgets, Asks, Await, Shape, Starts
  <2>5. \A d \in Calls \ {c} : pc'[d] = pc[d] /\ answer'[d] = answer[d] /\ awaits'[d] = awaits[d]
    BY <1>3, <2>1 DEF Forgets, Asks, Await, Shape, Starts, OnlyMoves
  <2>6. \A d \in Calls : awaits'[d] = "create" => pc'[d] \in {"create", "idle"}
    BY <2>4, <2>5 DEF Offered
  <2>7. \A d \in Calls : Offers(d)' => Offers(d) /\ answer'[d] = answer[d] /\ pc'[d] = pc[d]
    BY <2>3, <2>5 DEF Offers, S!Answered
  <2> QED  BY <2>1, <2>2, <2>6, <2>7, OfferedPage
<1> QED  BY <1>1, <1>2, <1>3

LEMMA OfferedDrops ==
  ASSUME Shape, Offered, NEW c \in Calls, Drops(c), Remembers
  PROVE  Offered'
<1>1. UNCHANGED <<pc, answer, issued, sessionId>>
      /\ \A d \in Calls : awaits'[d] = "create" => awaits[d] = "create"
  BY DEF Drops, Await, server, Shape
<1>2. \A d \in Calls : Offers(d)' => Offers(d)
  BY <1>1 DEF Offers, S!Answered
<1> QED  BY <1>1, <1>2, OfferedPage DEF Offered

LEMMA OfferedAdopts ==
  ASSUME Shape, Offered, NEW c \in Calls, Adopts(c), Remembers
  PROVE  Offered'
<1>1. UNCHANGED <<pc, answer, issued>> /\ awaits' = [awaits EXCEPT ![c] = "nothing"]
  BY DEF Adopts, Await, server
<1>2. \A d \in Calls : awaits'[d] = "create" => awaits[d] = "create" /\ d # c
  BY <1>1 DEF Shape
<1>3. \A d \in Calls : Offers(d)' => Offers(d) /\ d # c
  BY <1>1, <1>2 DEF Offers, S!Answered
<1>4. \A d \in Calls : awaits'[d] = "create" => pc'[d] \in {"create", "idle"}
  BY <1>1, <1>2 DEF Offered
<1>5. CASE sessionId' \in {sessionId, NoSession}
  BY <1>1, <1>3, <1>4, <1>5, OfferedPage
<1>6. CASE Offers(c) /\ sessionId' = answer[c].id
  <2>1. forgotten' \subseteq issued'
    BY <1>1 DEF Remembers, Offered, Shape
  <2>2. sessionId' \notin forgotten'
    BY <1>6 DEF Remembers, Offered, Fresh
  <2>3. ASSUME NEW d \in Calls, Offers(d)' PROVE pc'[d] # "create" /\ Fresh(d)'
    <3>1. Offers(d) /\ d # c /\ answer' = answer
      BY <1>1, <1>3, <2>3
    <3>2. Fresh(d) /\ pc'[d] # "create" /\ answer[d].id # answer[c].id
      BY <1>1, <1>6, <3>1 DEF Offered
    <3> QED  BY <1>6, <3>1, <3>2 DEF Fresh, Remembers
  <2>4. ASSUME NEW d \in Calls, NEW e \in Calls, Offers(d)', Offers(e)', d # e
        PROVE  answer'[d].id # answer'[e].id
    BY <1>1, <1>3, <2>4 DEF Offered
  <2> QED  BY <1>4, <2>1, <2>2, <2>3, <2>4 DEF Offered
<1>7. sessionId' \in {sessionId, NoSession} \/ (Offers(c) /\ sessionId' = answer[c].id)
  BY DEF Adopts, Offers
<1> QED  BY <1>5, <1>6, <1>7

LEMMA OfferedNext == Shape /\ Offered /\ [MCNext]_<<vars, forgotten, calm>> => Offered'
<1> SUFFICES ASSUME Shape, Offered, [MCNext]_<<vars, forgotten, calm>> PROVE Offered'
  OBVIOUS
<1>1. CASE UNCHANGED <<vars, forgotten, calm>>
  <2>1. UNCHANGED <<issued, awaits, sessionId, pc, answer, forgotten>>
    BY <1>1 DEF vars, page, server
  <2> QED  BY <2>1 DEF Offered, Offers, Fresh, S!Answered
<1>2. CASE MCNext
  <2>1. Remembers /\ Next
    BY <1>2 DEF MCNext, Remembers
  <2>2. CASE Server
    <3>1. UNCHANGED page /\ (UNCHANGED Seen \/ \E c \in Calls : Moves(c))
      BY <2>2, ServerMoves
    <3>2. CASE UNCHANGED Seen
      <4>1. UNCHANGED <<issued, awaits, sessionId, pc, answer>>
        BY <3>1, <3>2 DEF page, Seen
      <4>2. \A d \in Calls : Offers(d)' => Offers(d)
        BY <4>1 DEF Offers, S!Answered
      <4> QED  BY <2>1, <4>1, <4>2, OfferedPage DEF Offered
    <3> QED  BY <2>1, <3>1, <3>2, OfferedMoves
  <2> QED  BY <2>1, <2>2, OfferedClick, OfferedDrops, OfferedAdopts, AnswerEffect,
              DisconnectEffect DEF Next
<1> QED  BY <1>1, <1>2

MCVars == <<vars, forgotten, calm>>

LEMMA InitShape == MCInit => Shape /\ Offered
<1>1. ASSUME MCInit, NEW c \in Calls
      PROVE  pc[c] = "idle" /\ ~S!Answered(answer[c]) /\ awaits[c] = "nothing"
  BY <1>1, AnswersShown DEF MCInit, Init, S!Init
<1>2. ASSUME MCInit
      PROVE  /\ awaits \in [Calls -> Activities]
             /\ DOMAIN pc = Calls /\ DOMAIN request = Calls /\ DOMAIN answer = Calls
             /\ DOMAIN err = Ids /\ DOMAIN done = Ids
             /\ sessions = {} /\ issued = {} /\ forgotten = {} /\ sessionId = NoSession
  BY <1>2 DEF MCInit, Init, S!Init, Activities
<1> QED  BY <1>1, <1>2 DEF Shape, Offered, Offers

(* A session that was reset or shown to be over is never taken up again,   *)
(* whichever answer about it is still to come.                             *)
THEOREM ForgottenForGood == MCSpec => []ForgottenStaysForgotten
<1>1. Shape /\ Offered /\ [MCNext]_MCVars => Shape' /\ Offered'
  <2>1. [MCNext]_MCVars => [Next]_vars
    BY DEF MCNext, MCVars
  <2> QED  BY <2>1, ShapeNext, OfferedNext DEF MCVars
<1>2. Offered => ForgottenStaysForgotten
  BY DEF Offered, ForgottenStaysForgotten
<1> QED  BY <1>1, <1>2, InitShape, PTL DEF MCSpec, MCVars
-----------------------------------------------------------------------------
(* For a calm user.  The server deletes what it is asked to delete, and    *)
(* what was shown to be over is.                                           *)
Honest ==
  \A c \in Calls :
    /\ request[c].kind = "delete" => pc[c] = "delete"
    /\ S!Answered(answer[c]) /\ answer[c].over => S!Over(answer[c].id)

(* What a call does is what its click was about. *)
Matches(c) ==
  /\ awaits[c] \notin {"create", "step", "continue", "reset", "resetAndRun"} => pc[c] = "idle"
  /\ awaits[c] = "create" => sessionId = NoSession
  /\ awaits[c] \in {"step", "continue"} =>
       /\ pc[c] \notin {"create", "delete"}
       /\ pc[c] # "idle" => request[c].id = sessionId
       /\ S!Answered(answer[c]) => answer[c].id = sessionId
  /\ awaits[c] \in {"reset", "resetAndRun"} => pc[c] \in {"delete", "idle"}

OverNext(id) == err'[id] # "none" \/ done'[id]

(* There is one call at a time, and every session that is not over is the  *)
(* one the page holds or the one this call is about.                       *)
Covered == \A id \in sessions : S!Over(id) \/ id \in Held

Calm ==
  /\ \A c, d \in Calls : c # d => Free(c) \/ Free(d)
  /\ \A c \in Calls : Matches(c)
  /\ Covered

(* The two last parts of Calm, as seen by the only call. *)
Only(c) == \A d \in Calls \ {c} : Free(d)

CoveredBy(c) ==
  \A id \in sessions :
    \/ S!Over(id)
    \/ id = sessionId
    \/ Offers(c) /\ answer[c].id = id
    \/ request[c].kind = "delete" /\ request[c].id = id

LEMMA HeldBy ==
  ASSUME NEW id
  PROVE  id \in Held <=>
           \/ id = sessionId
           \/ \E c \in Calls : Offers(c) /\ answer[c].id = id
           \/ \E c \in Calls : request[c].kind = "delete" /\ request[c].id = id
BY DEF Held, Offers

LEMMA CoveredByOnly ==
  ASSUME Honest, Covered, NEW c \in Calls, Only(c)
  PROVE  CoveredBy(c)
<1> SUFFICES ASSUME NEW id \in sessions, ~S!Over(id)
             PROVE  \/ id = sessionId
                    \/ Offers(c) /\ answer[c].id = id
                    \/ request[c].kind = "delete" /\ request[c].id = id
  BY DEF CoveredBy
<1>1. id \in Held
  BY DEF Covered
<1>2. \A d \in Calls \ {c} : ~Offers(d) /\ request[d].kind # "delete"
  BY DEF Only, Free, Offers, Honest
<1> QED  BY <1>1, <1>2, HeldBy
-----------------------------------------------------------------------------
LEMMA HonestMoves ==
  ASSUME Shape, Honest, NEW c \in Calls, Moves(c) PROVE Honest'
<1>1. ASSUME NEW d \in Calls, d # c
      PROVE  /\ request'[d].kind = "delete" => pc'[d] = "delete"
             /\ S!Answered(answer'[d]) /\ answer'[d].over => OverNext(answer'[d].id)
  <2>1. request'[d] = request[d] /\ pc'[d] = pc[d] /\ answer'[d] = answer[d]
    BY <1>1 DEF Moves, OnlyMoves
  <2>2. S!Answered(answer[d]) => answer[d].id \in Ids
    BY DEF Shape
  <2>3. \A id \in Ids : S!Over(id) => OverNext(id)
    BY DEF Moves, OverKept, OverNext, S!Over
  <2> QED  BY <2>1, <2>2, <2>3 DEF Honest
<1>2. request'[c].kind = "delete" => pc'[c] = "delete"
  BY DEF Moves, Refuses, Proceeds, Shows, Creates, Honest, Driving
<1>3. S!Answered(answer'[c]) /\ answer'[c].over => OverNext(answer'[c].id)
  <2>1. CASE Refuses(c)
    BY <2>1 DEF Refuses
  <2>2. CASE Proceeds(c)
    <3>1. S!Answered(answer[c]) => answer[c].id \in Ids
      BY DEF Shape
    <3>2. answer' = answer /\ \A id \in Ids : S!Over(id) => OverNext(id)
      BY <2>2 DEF Moves, OverKept, Proceeds, OverNext, S!Over
    <3> QED  BY <3>1, <3>2 DEF Honest
  <2>3. CASE Shows(c) \/ \E id \in Ids : Creates(c, id)
    BY <2>3 DEF Shows, Creates, S!Over, OverNext
  <2> QED  BY <2>1, <2>2, <2>3 DEF Moves
<1>4. \A d \in Calls :
        /\ request'[d].kind = "delete" => pc'[d] = "delete"
        /\ S!Answered(answer'[d]) /\ answer'[d].over => OverNext(answer'[d].id)
  BY <1>1, <1>2, <1>3
<1> QED  BY <1>4 DEF Honest, S!Answered, S!Over, OverNext

LEMMA HonestStarts ==
  ASSUME Shape, Honest, NEW c \in Calls, Starts(c) PROVE Honest'
<1>1. \A d \in Calls \ {c} : request'[d] = request[d] /\ pc'[d] = pc[d] /\ answer'[d] = answer[d]
  BY DEF Starts, OnlyMoves
<1>2. ~S!Answered(answer'[c]) /\ (request'[c].kind = "delete" => pc'[c] = "delete")
  BY DEF Starts
<1>3. err' = err /\ done' = done
  BY DEF Starts
<1> QED  BY <1>1, <1>2, <1>3 DEF Honest, S!Answered, S!Over, OverNext

LEMMA HonestNext == Shape /\ Honest /\ [Next]_vars => Honest'
<1> SUFFICES ASSUME Shape, Honest, [Next]_vars PROVE Honest'
  OBVIOUS
<1>1. ASSUME UNCHANGED <<err, done, pc, request, answer>> PROVE Honest'
  BY <1>1 DEF Honest, S!Answered, S!Over, OverNext
<1>2. CASE UNCHANGED vars
  BY <1>1, <1>2 DEF vars, server
<1>3. CASE Server
  BY <1>1, <1>3, ServerMoves, HonestMoves DEF Seen
<1>4. ASSUME NEW c \in Calls, Click(c) PROVE Honest'
  BY <1>1, <1>4, ClickEffect, HonestStarts DEF Leaves, Forgets, Asks, server
<1>5. ASSUME NEW c \in Calls, Adopts(c) \/ Drops(c) PROVE Honest'
  BY <1>1, <1>5 DEF Adopts, Drops, server
<1> QED  BY <1>2, <1>3, <1>4, <1>5, AnswerEffect, DisconnectEffect DEF Next

(* Conversely, after a step. *)
LEMMA CalmFrom ==
  ASSUME NEW c \in Calls, Only(c)', Matches(c)', CoveredBy(c)'
  PROVE  Calm'
<1>1. \A d \in Calls \ {c} : Matches(d)'
  BY DEF Only, Free, Matches
<1>2. Covered'
  <2>1. ASSUME NEW id \in sessions', ~OverNext(id) PROVE id \in Held'
    BY <2>1 DEF CoveredBy, Offers, Held, S!Over, OverNext
  <2> QED  BY <2>1 DEF Covered, S!Over, OverNext
<1> QED  BY <1>1, <1>2 DEF Calm, Only
-----------------------------------------------------------------------------
(* A step of the server: the only call that is not free moves. *)
LEMMA CalmMoves ==
  ASSUME Shape, Offered, Honest, Calm, NEW c \in Calls, Moves(c), UNCHANGED page
  PROVE  Calm'
<1>1. pc[c] # "idle" /\ Matches(c)
  BY DEF Moves, Refuses, Proceeds, Shows, Creates, Driving, Calm
<1>2. Only(c) /\ CoveredBy(c)
  <2>1. Only(c)
    BY <1>1 DEF Calm, Only, Free
  <2> QED  BY <2>1, CoveredByOnly DEF Calm
<1>3. awaits' = awaits /\ sessionId' = sessionId
  BY DEF page
<1>4. Only(c)'
  BY <1>2, <1>3 DEF Only, Free, Moves, OnlyMoves
<1>5. /\ pc'[c] \in {"idle"} \cup Driving
      /\ pc'[c] \in Driving => pc[c] \in Driving /\ request'[c] = request[c]
      /\ S!Answered(answer'[c]) => \/ answer'[c] = answer[c]
                                   \/ pc[c] = "create"
                                   \/ pc[c] \in Driving /\ answer'[c].id = request[c].id
  BY DEF Moves, Refuses, Proceeds, Shows, Creates, Driving
<1>6. Matches(c)'
  <2>1. (S!Answered(answer[c]))' <=> S!Answered(answer'[c])
    BY DEF S!Answered
  <2>2. CASE awaits[c] \in {"step", "continue"}
    <3>1. pc'[c] \notin {"create", "delete"} /\ (pc'[c] # "idle" => request'[c].id = sessionId)
      BY <1>1, <1>5, <2>2 DEF Matches, Driving
    <3>2. S!Answered(answer'[c]) => answer'[c].id = sessionId
      BY <1>1, <1>5, <2>2 DEF Matches
    <3> QED  BY <1>3, <2>1, <2>2, <3>1, <3>2 DEF Matches
  <2>3. CASE awaits[c] \notin {"step", "continue"}
    <3>1. pc'[c] = "idle"
      BY <1>1, <1>5, <2>3 DEF Matches, Offered, Driving
    <3> QED  BY <1>1, <1>3, <2>3, <3>1 DEF Matches
  <2> QED  BY <2>2, <2>3
<1>7. CoveredBy(c)'
  <2>1. ~Offers(c)
    BY <1>1 DEF Offered, Offers
  <2>2. \A id \in sessions : S!Over(id) => OverNext(id)
    BY DEF Moves, OverKept, Shape, S!Over, OverNext
  <2>3. request[c].kind = "delete" => request[c].id \notin sessions'
    <3>1. request[c].kind = "delete" => pc[c] = "delete"
      BY DEF Honest
    <3>2. pc[c] = "delete" => Refuses(c)
      BY DEF Moves, Proceeds, Shows, Creates, Driving
    <3> QED  BY <3>1, <3>2 DEF Refuses
  <2>4. ASSUME NEW id \in sessions', id \in sessions PROVE OverNext(id) \/ id = sessionId
    BY <1>2, <2>1, <2>2, <2>3, <2>4 DEF CoveredBy
  <2>5. ASSUME NEW id \in sessions', id \notin sessions
        PROVE  awaits[c] = "create" /\ S!Answered(answer'[c]) /\ answer'[c].id = id
    <3>1. PICK new \in Ids : Creates(c, new)
      BY <2>5 DEF Moves, Refuses, Proceeds, Shows, Store
    <3>2. id = new /\ pc[c] = "create"
      BY <2>5, <3>1 DEF Creates
    <3>3. awaits[c] = "create"
      BY <1>1, <3>2 DEF Matches
    <3> QED  BY <3>1, <3>2, <3>3 DEF Creates
  <2> QED  BY <1>3, <2>4, <2>5 DEF CoveredBy, Offers, S!Answered, S!Over, OverNext
<1> QED  BY <1>4, <1>6, <1>7, CalmFrom

(* A click: no other call is under way. *)
LEMMA CalmClick ==
  ASSUME Shape, Honest, Calm, NEW c \in Calls, Click(c), Alone
  PROVE  Calm'
<1>1. Free(c) /\ (Leaves(c) \/ Forgets(c) \/ Asks(c))
  BY ClickEffect
<1>2. Only(c) /\ CoveredBy(c)
  <2>1. Only(c)
    BY DEF Only, Alone
  <2> QED  BY <2>1, CoveredByOnly DEF Calm
<1>3. ASSUME NEW id \in sessions PROVE S!Over(id) \/ id = sessionId
  BY <1>1, <1>2, <1>3 DEF CoveredBy, Free, Offers, Honest
<1>4. sessions' = sessions /\ err' = err /\ done' = done
  BY <1>1 DEF Leaves, Forgets, Asks, Starts, Store, server
<1>5. Only(c)'
  <2>1. CASE Leaves(c)
    BY <1>2, <2>1 DEF Leaves, Await, Only, Free, Shape, server
  <2>2. CASE Forgets(c) \/ Asks(c)
    <3>1. Starts(c) /\ \A d \in Calls \ {c} : awaits'[d] = awaits[d]
      BY <2>2 DEF Forgets, Asks, Await, Shape
    <3> QED  BY <1>2, <3>1 DEF Starts, OnlyMoves, Only, Free
  <2> QED  BY <1>1, <2>1, <2>2
<1>6. CASE Leaves(c)
  <2>1. /\ pc'[c] = "idle" /\ sessionId' = sessionId
        /\ awaits'[c] \in {"nothing", "compile", "run"}
    BY <1>1, <1>6 DEF Leaves, Free, Await, Shape, server
  <2>2. Matches(c)'
    BY <2>1 DEF Matches
  <2>3. CoveredBy(c)'
    BY <1>3, <1>4, <2>1 DEF CoveredBy, S!Over
  <2> QED  BY <1>5, <2>2, <2>3, CalmFrom
<1>7. CASE Forgets(c)
  <2>1. /\ pc'[c] = "delete" /\ awaits'[c] \in {"reset", "resetAndRun"}
        /\ request'[c].kind = "delete" /\ request'[c].id = sessionId
    BY <1>7 DEF Forgets, Starts, Await, Shape
  <2>2. Matches(c)'
    BY <2>1 DEF Matches
  <2>3. CoveredBy(c)'
    BY <1>3, <1>4, <2>1 DEF CoveredBy, S!Over
  <2> QED  BY <1>5, <2>2, <2>3, CalmFrom
<1>8. CASE Asks(c)
  <2>1. sessionId' = sessionId /\ ~S!Answered(answer'[c])
    BY <1>8 DEF Asks, Starts
  <2>2. Matches(c)'
    <3>1. ~(S!Answered(answer[c]))'
      BY <2>1 DEF S!Answered
    <3>2. CASE sessionId = NoSession /\ request'[c].kind = "create" /\ Await(c, "create")
      <4>1. awaits'[c] = "create"
        BY <3>2 DEF Await, Shape
      <4> QED  BY <2>1, <3>2, <4>1 DEF Matches
    <3>3. CASE /\ request'[c].kind \in {"step", "continue"} /\ request'[c].id = sessionId
               /\ Await(c, "step") \/ Await(c, "continue")
      <4>1. awaits'[c] \in {"step", "continue"}
        BY <3>3 DEF Await, Shape
      <4>2. pc'[c] = "lookup"
        BY <1>8, <3>3 DEF Asks, Starts
      <4> QED  BY <2>1, <3>1, <3>3, <4>1, <4>2 DEF Matches
    <3> QED  BY <1>8, <3>2, <3>3 DEF Asks
  <2>3. CoveredBy(c)'
    BY <1>3, <1>4, <2>1 DEF CoveredBy, S!Over
  <2> QED  BY <1>5, <2>2, <2>3, CalmFrom
<1> QED  BY <1>1, <1>6, <1>7, <1>8

(* An answer: the call it ends was the only one. *)
LEMMA CalmAnswer ==
  ASSUME Shape, Honest, Calm, NEW c \in Calls, Answer(c)
  PROVE  Calm'
<1>1. /\ pc[c] = "idle"
      /\ Adopts(c) \/ (Drops(c) /\ ~(awaits[c] \in Shown /\ S!Answered(answer[c])))
  BY AnswerEffect
<1>2. awaits[c] # "nothing" /\ Matches(c)
  BY <1>1 DEF Adopts, Drops, Shown, Calm
<1>3. Only(c) /\ CoveredBy(c)
  <2>1. Only(c)
    BY <1>2 DEF Calm, Only, Free
  <2> QED  BY <2>1, CoveredByOnly DEF Calm
<1>4. /\ pc' = pc /\ sessions' = sessions /\ err' = err /\ done' = done
      /\ awaits'[c] \in {"nothing", "run"}
      /\ \A d \in Calls \ {c} : awaits'[d] = awaits[d]
  BY <1>1 DEF Adopts, Drops, Await, server, Shape
<1>5. Only(c)' /\ Matches(c)'
  BY <1>1, <1>3, <1>4 DEF Only, Free, Matches
<1>6. request[c].kind # "delete"
  BY <1>1 DEF Honest
<1>7. ASSUME NEW id \in sessions PROVE S!Over(id) \/ id = sessionId'
  <2>1. S!Over(id) \/ id = sessionId \/ (Offers(c) /\ answer[c].id = id)
    BY <1>3, <1>6 DEF CoveredBy
  <2>2. CASE Adopts(c)
    <3>1. id # NoSession
      BY ConsoleAssumption DEF Shape
    <3>2. (awaits[c] = "create" => sessionId = NoSession)
          /\ (awaits[c] # "create" => answer[c].id = sessionId)
      BY <1>2, <2>2 DEF Matches, Adopts, Shown
    <3>3. S!Over(id) \/ id = answer[c].id
      BY <2>1, <3>1, <3>2 DEF Offers
    <3>4. answer[c].over => S!Over(answer[c].id)
      BY <2>2 DEF Adopts, Honest
    <3> QED  BY <2>2, <3>2, <3>3, <3>4 DEF Adopts
  <2>3. CASE Drops(c) /\ ~(awaits[c] \in Shown /\ S!Answered(answer[c]))
    BY <2>1, <2>3 DEF Drops, Offers, Shown
  <2> QED  BY <1>1, <2>2, <2>3
<1>8. CoveredBy(c)'
  BY <1>4, <1>7 DEF CoveredBy, S!Over
<1> QED  BY <1>5, <1>8, CalmFrom

(* What holds in every state of a page with a calm user. *)
CalmInv == Shape /\ Offered /\ Honest /\ (calm => Calm)

LEMMA InitCalm == MCInit => CalmInv
<1> SUFFICES ASSUME MCInit PROVE CalmInv
  OBVIOUS
<1>1. ASSUME NEW c \in Calls
      PROVE  /\ pc[c] = "idle" /\ awaits[c] = "nothing" /\ request[c].kind = "none"
             /\ ~S!Answered(answer[c])
  BY AnswersShown DEF MCInit, Init, S!Init, S!NoRequest
<1>2. Honest
  BY <1>1 DEF Honest
<1>3. Calm
  BY <1>1 DEF Calm, Free, Matches, Covered, MCInit, Init, S!Init
<1> QED  BY <1>2, <1>3, InitShape DEF CalmInv

LEMMA CalmNext == CalmInv /\ [MCNext]_MCVars => CalmInv'
<1> SUFFICES ASSUME CalmInv, [MCNext]_MCVars PROVE CalmInv'
  OBVIOUS
<1>1. [Next]_vars
  BY DEF MCNext, MCVars
<1>2. Shape' /\ Offered' /\ Honest'
  BY <1>1, ShapeNext, OfferedNext, HonestNext DEF CalmInv, MCVars
<1>3. ASSUME calm' PROVE Calm'
  <2>1. CASE UNCHANGED MCVars
    <3>1. Calm /\ UNCHANGED <<sessions, err, done, pc, request, answer, awaits, sessionId>>
      BY <1>3, <2>1 DEF CalmInv, MCVars, vars, page, server
    <3> QED  BY <3>1 DEF Calm, Matches, Free, Covered, Held, S!Over, S!Answered
  <2>2. CASE MCNext
    <3>1. Calm /\ Next
      BY <1>3, <2>2 DEF MCNext, CalmInv
    <3>2. \A c \in Calls : (Disconnect(c) => Answer(c)) /\ (Click(c) => Alone)
      BY <1>3, <2>2 DEF MCNext
    <3>3. CASE Server
      <4>1. UNCHANGED page /\ (UNCHANGED Seen \/ \E c \in Calls : Moves(c))
        BY <3>3, ServerMoves DEF CalmInv
      <4>2. CASE UNCHANGED Seen
        <5>1. UNCHANGED <<sessions, err, done, pc, request, answer, awaits, sessionId>>
          BY <4>1, <4>2 DEF Seen, page
        <5> QED  BY <3>1, <5>1 DEF Calm, Matches, Free, Covered, Held, S!Over, S!Answered
      <4> QED  BY <3>1, <4>1, <4>2, CalmMoves DEF CalmInv
    <3>4. ASSUME NEW c \in Calls, Click(c) PROVE Calm'
      BY <3>1, <3>2, <3>4, CalmClick DEF CalmInv
    <3>5. ASSUME NEW c \in Calls, Answer(c) \/ Disconnect(c) PROVE Calm'
      BY <3>1, <3>2, <3>5, CalmAnswer DEF CalmInv
    <3> QED  BY <3>1, <3>3, <3>4, <3>5 DEF Next
  <2> QED  BY <2>1, <2>2 DEF MCVars
<1> QED  BY <1>2, <1>3 DEF CalmInv

(* A calm user leaves no session behind on the server: one that is not     *)
(* over is the one the page holds, or a call about it is under way.        *)
THEOREM CalmLeavesNoneBehind == MCSpec => []NoneLeftBehind
<1>1. CalmInv => NoneLeftBehind
  BY DEF CalmInv, Calm, Covered, NoneLeftBehind
<1> QED  BY <1>1, InitCalm, CalmNext, PTL DEF MCSpec, MCVars
=============================================================================
