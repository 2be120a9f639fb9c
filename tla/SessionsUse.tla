---------------------------- MODULE SessionsUse ----------------------------
(***************************************************************************)
(* The debug sessions as their clients know them.  A client knows when it  *)
(* was last answered about a session, and that a session lasts TTL from    *)
(* then; the manager knows expires, which get and the sweep of Create read *)
(* without session.mu, and acts on what it read some steps later.          *)
(*                                                                         *)
(* Two history variables record what the clients know; no action of module *)
(* Sessions depends on them.                                               *)
(***************************************************************************)
EXTENDS Sessions

VARIABLES used,       \* when each session was last shown to a client
          seenIdle    \* whether the session a request looks up was idle since it came

useVars == <<vars, used, seenIdle>>

(* No client was answered about the session during its time to live. *)
Idle(id) == clock > used[id] + TTL

(* The handler answers, and it answers with a snapshot of the session. *)
Ends(h) == pc[h] # "idle" /\ pc'[h] = "idle"
Shows(h, id) == Ends(h) /\ Answered(answer'[h]) /\ answer'[h].id = id

Looking == {"lookup", "check", "evict"}

UseInit ==
  /\ Init
  /\ used = [id \in Ids |-> 0]
  /\ seenIdle = [h \in Handlers |-> FALSE]

UseNext ==
  /\ Next
  /\ used' = [id \in Ids |-> IF \E h \in Handlers : Shows(h, id) THEN clock ELSE used[id]]
  /\ seenIdle' = [h \in Handlers |-> pc'[h] \in Looking /\ (seenIdle[h] \/ Idle(Id(h))')]

UseSpec == UseInit /\ [][UseNext]_useVars
-----------------------------------------------------------------------------
(* The client of the request lets the session go: it deletes it, or it     *)
(* asks for one that was idle at some moment since it asked.               *)
GivesUp(h, id) ==
  /\ Ends(h) /\ request[h].kind \in Kinds /\ Id(h) = id
  /\ request[h].kind = "delete" \/ seenIdle[h]

(* Whether a session is kept, and whether another finds room, depends on   *)
(* its use.  No session disappears but one that is idle, that its client   *)
(* deletes, or that was idle at some moment of the request that removes    *)
(* it: get may remove a session that another request has just refreshed,   *)
(* because it read expires without its lock and earlier, but never one     *)
(* that was in use throughout.  And a client is told that the limit is     *)
(* reached only while that many sessions are in use, however long no       *)
(* request has removed the idle ones.                                      *)
UseDecides ==
  [][/\ \A id \in sessions \ sessions' : Idle(id) \/ \E h \in Handlers : GivesUp(h, id)
     /\ \A h \in Handlers :
          Ends(h) /\ answer'[h] = Refused("limit") =>
            Cardinality({id \in sessions' : ~Idle(id)}) >= Maximum]_useVars
=============================================================================
