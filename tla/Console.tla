------------------------------ MODULE Console ------------------------------
(***************************************************************************)
(* web/app.js and the debug sessions of the server it talks to.            *)
(*                                                                         *)
(* A handler of a click runs until it awaits the answer to a request; the  *)
(* other buttons can be clicked meanwhile, except those that setBusy has   *)
(* disabled.  Several requests are then under way, their answers come back *)
(* in any order, and a connection may break and its answer be lost.        *)
(*                                                                         *)
(* The server's side is module Sessions, whose handlers serve one call of  *)
(* the page each.  Requests that do not touch the sessions (compile, run)  *)
(* only take time.  The page is one page that is never reloaded.           *)
(***************************************************************************)
EXTENDS Integers, FiniteSets

CONSTANTS Calls,          \* requests of the page under way at one time
          NoSession,      \* null
          Ids, Maximum, TTL, MaxSteps, LastTick, NoHandler

ASSUME ConsoleAssumption == NoSession \notin Ids

VARIABLES sessionId, busy,    \* state.sessionId, state.busy
          continuable,        \* #continueBtn is not disabled
          awaits              \* what awaits the answer of each call
page == <<sessionId, busy, continuable, awaits>>

VARIABLES clock, sessions, issued, expires, err, executed, done, holder, pc, request,
          canceled, answer
server == <<clock, sessions, issued, expires, err, executed, done, holder, pc, request,
            canceled, answer>>
vars == <<page, server>>

S == INSTANCE Sessions WITH Handlers <- Calls

Init ==
  /\ sessionId = NoSession /\ busy = FALSE /\ continuable = FALSE
  /\ awaits = [c \in Calls |-> "nothing"]
  /\ S!Init

SetBusy(b) ==
  /\ busy' = b
  /\ continuable' = (~b /\ sessionId' # NoSession)

Free(c) == awaits[c] = "nothing" /\ pc[c] = "idle"
Await(c, what) == awaits' = [awaits EXCEPT ![c] = what]

(* request: a call of the server about the current session. *)
Request(c, kind) ==
  /\ S!Start(c)
  /\ request'[c].kind = kind
  /\ kind # "create" => request'[c].id = sessionId
-----------------------------------------------------------------------------
(* The buttons; those of compile, run and step are disabled while busy.    *)
Compile(c) ==
  /\ Free(c) /\ ~busy
  /\ UNCHANGED <<sessionId, server>>
  /\ SetBusy(TRUE) /\ Await(c, "compile")

(* resetSession, up to the answer to its DELETE if there is a session.     *)
ResetForgetting(c) ==
  /\ Free(c)
  /\ sessionId' = NoSession
  /\ SetBusy(FALSE)
  /\ UNCHANGED <<awaits, server>>

Reset(c) ==
  /\ Free(c)
  /\ sessionId' = NoSession
  /\ IF sessionId = NoSession
     THEN SetBusy(FALSE) /\ UNCHANGED <<awaits, server>>
     ELSE Request(c, "delete") /\ Await(c, "reset") /\ UNCHANGED <<busy, continuable>>

(* run: resetSession, then the request. *)
Run(c) ==
  /\ Free(c) /\ ~busy
  /\ sessionId' = NoSession
  /\ IF sessionId = NoSession
     THEN SetBusy(TRUE) /\ Await(c, "run") /\ UNCHANGED server
     ELSE Request(c, "delete") /\ Await(c, "resetAndRun") /\ UNCHANGED <<busy, continuable>>

Step(c) ==
  /\ Free(c) /\ ~busy
  /\ UNCHANGED sessionId
  /\ SetBusy(TRUE)
  /\ LET what == IF sessionId = NoSession THEN "create" ELSE "step"
     IN Request(c, what) /\ Await(c, what)

(* With no session continueRun returns at once. *)
Continue(c) ==
  /\ Free(c) /\ continuable /\ sessionId # NoSession
  /\ UNCHANGED sessionId
  /\ SetBusy(TRUE)
  /\ Request(c, "continue") /\ Await(c, "continue")

Click(c) == Compile(c) \/ Reset(c) \/ Run(c) \/ Step(c) \/ Continue(c)
-----------------------------------------------------------------------------
(* The answers. *)
Shown == {"create", "step", "continue"}
Settle(c) == Await(c, "nothing") /\ UNCHANGED server

(* step stores the id of the session it has created, and renderSnapshot    *)
(* forgets the current session when the one shown is over.                 *)
RenderAdopting(c) ==
  /\ awaits[c] \in Shown /\ pc[c] = "idle" /\ S!Answered(answer[c])
  /\ sessionId' = IF answer[c].over THEN NoSession ELSE answer[c].id
  /\ SetBusy(FALSE) /\ Settle(c)

Render(c) ==
  /\ awaits[c] \in Shown /\ pc[c] = "idle" /\ S!Answered(answer[c])
  /\ sessionId' = IF answer[c].over THEN NoSession
                  ELSE IF awaits[c] = "create" THEN answer[c].id ELSE sessionId
  /\ SetBusy(FALSE) /\ Settle(c)

(* showError *)
ShowErrorBusy(c) ==
  /\ awaits[c] \in Shown /\ pc[c] = "idle" /\ ~S!Answered(answer[c])
  /\ UNCHANGED <<sessionId, busy, continuable>>
  /\ Settle(c)

ShowError(c) ==
  /\ awaits[c] \in Shown /\ pc[c] = "idle" /\ ~S!Answered(answer[c])
  /\ UNCHANGED sessionId
  /\ SetBusy(FALSE) /\ Settle(c)

(* compile, run and resetSession end alike, whatever the answer. *)
End(c) ==
  /\ awaits[c] \in {"compile", "run", "reset"} /\ pc[c] = "idle"
  /\ UNCHANGED sessionId
  /\ SetBusy(FALSE) /\ Settle(c)

(* run, once resetSession has ended: nothing is handled between its        *)
(* setBusy(false) and the setBusy(true) of run.                            *)
GoOn(c) ==
  /\ awaits[c] = "resetAndRun" /\ pc[c] = "idle"
  /\ UNCHANGED <<sessionId, server>>
  /\ SetBusy(TRUE) /\ Await(c, "run")

Answer(c) == Render(c) \/ ShowError(c) \/ End(c) \/ GoOn(c)

(* The connection breaks: fetch fails, whatever the server has done or     *)
(* will still do.                                                          *)
Disconnect(c) ==
  /\ awaits[c] # "nothing"
  /\ UNCHANGED <<sessionId, server>>
  /\ IF awaits[c] = "resetAndRun"
     THEN SetBusy(TRUE) /\ Await(c, "run")
     ELSE SetBusy(FALSE) /\ Await(c, "nothing")
-----------------------------------------------------------------------------
Server ==
  /\ \/ S!Tick
     \/ \E c \in Calls : S!Cancel(c) \/ S!Serve(c) \/ S!Acquire(c)
  /\ UNCHANGED page

Next == Server \/ \E c \in Calls : Click(c) \/ Answer(c) \/ Disconnect(c)

Spec == Init /\ [][Next]_vars
-----------------------------------------------------------------------------
(* Whatever was clicked and lost, once nothing is under way the page is    *)
(* not busy, and offers to continue exactly if it has a session.           *)
QuietPage ==
  (\A c \in Calls : awaits[c] = "nothing") =>
    ~busy /\ continuable = (sessionId # NoSession)
=============================================================================
