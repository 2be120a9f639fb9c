----------------------------- MODULE MCConsole -----------------------------
(* Instances of module Console, with the sessions that its page forgot and *)
(* whether its user has been calm: has waited for every answer before the  *)
(* next click, on a connection that lost none.                             *)
EXTENDS Console, TLC

VARIABLES forgotten, calm

Alone == \A c \in Calls : Free(c)

MCInit == Init /\ forgotten = {} /\ calm = TRUE
MCNext ==
  /\ Next
  /\ forgotten' = forgotten \cup ({sessionId} \ {sessionId', NoSession})
  /\ calm' = (calm /\ \A c \in Calls : (Disconnect(c) => Answer(c)) /\ (Click(c) => Alone))
MCSpec == MCInit /\ [][MCNext]_<<vars, forgotten, calm>>

(* A session that was reset or shown to be over is never taken up again,   *)
(* whichever answer about it is still to come.                             *)
ForgottenStaysForgotten == sessionId \notin forgotten

(* A calm user leaves no session behind: one that is not over is the one   *)
(* the page holds, or a call about it is under way.                        *)
Held == {sessionId} \cup
        {answer[c].id : c \in {d \in Calls : awaits[d] = "create" /\ S!Answered(answer[d])}} \cup
        {request[c].id : c \in {d \in Calls : request[d].kind = "delete"}}
NoneLeftBehind == calm => {id \in sessions : ~S!Over(id)} \subseteq Held

Symmetry == Permutations(Calls) \cup Permutations(Ids)
=============================================================================
