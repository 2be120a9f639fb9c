------------------------------ MODULE Sessions ------------------------------
(***************************************************************************)
(* internal/debug: the Manager of debug sessions, as the HTTP handlers     *)
(* use it.  Each handler is a goroutine that serves one request at a time. *)
(*                                                                         *)
(* What runs under Manager.mu (Create from line 43, Delete, the map read   *)
(* of get) is one action; what runs under session.mu is an action for each *)
(* machine step and one for the refresh and the snapshot.  Between them    *)
(* other handlers and the clock move.  get and removeExpiredLocked read    *)
(* expires without session.mu, so they may see it before or after a        *)
(* concurrent refresh, never a mixture: Time.After compares only the       *)
(* monotonic reading, one word.                                            *)
(*                                                                         *)
(* The expiry of a request's context and the disconnection of its client   *)
(* are one action, Cancel: neither is ordered with anything else.          *)
(***************************************************************************)
EXTENDS Integers, FiniteSets

CONSTANTS Handlers,       \* the goroutines that serve requests
          Ids,            \* session ids
          Maximum,        \* Manager.maximum
          TTL,            \* Manager.ttl, in ticks of the clock
          MaxSteps,       \* the instruction limit of the machines
          LastTick,       \* where the clock of the model stops
          NoHandler

ASSUME SessionsAssumption ==
  /\ IsFiniteSet(Ids)
  /\ Maximum \in Nat /\ TTL \in Nat /\ MaxSteps \in Nat /\ LastTick \in Nat
  /\ NoHandler \notin Handlers

VARIABLES clock,          \* time.Now
          sessions,       \* the keys of Manager.sessions
          issued,         \* ids generated so far
          expires, err,   \* fields of each session
          executed, done, \* and of its machine
          holder,         \* the handler that holds session.mu
          pc,             \* where each handler is
          request,        \* what it serves
          canceled,       \* its context is done
          answer          \* the last answer of each handler

store == <<sessions, issued>>
item == <<expires, err, executed, done, holder>>
vars == <<clock, store, item, pc, request, canceled, answer>>

Kinds == {"step", "continue", "delete"}

(* A request, and whether its session was already gone when it arrived. *)
NoRequest == [kind |-> "none"]
Request == [kind: {"none", "create"}] \cup [kind: Kinds, id: Ids, gone: BOOLEAN]

(* Answers without a snapshot, and snapshots: the machine's progress, and  *)
(* whether the session is over.                                            *)
Refusals == {"none", "not_found", "limit", "rejected", "deleted"}
Snapshot(id) ==
  [id |-> id, executed |-> executed[id], over |-> done[id] \/ err[id] # "none"]
Answer == [id: Ids, executed: Nat, over: BOOLEAN] \cup [refusal: Refusals]
Refused(r) == [refusal |-> r]
Answered(a) == "refusal" \notin DOMAIN a

Init ==
  /\ clock = 0
  /\ sessions = {} /\ issued = {}
  /\ expires = [id \in Ids |-> 0]
  /\ err = [id \in Ids |-> "none"]
  /\ executed = [id \in Ids |-> 0]
  /\ done = [id \in Ids |-> FALSE]
  /\ holder = [id \in Ids |-> NoHandler]
  /\ pc = [h \in Handlers |-> "idle"]
  /\ request = [h \in Handlers |-> NoRequest]
  /\ canceled = [h \in Handlers |-> FALSE]
  /\ answer = [h \in Handlers |-> Refused("none")]

Id(h) == request[h].id
Expired(id) == clock > expires[id]
Over(id) == err[id] # "none" \/ done[id]

Goto(h, label) == pc' = [pc EXCEPT ![h] = label]
Receive(h, r, label) ==
  /\ pc[h] = "idle"
  /\ request' = [request EXCEPT ![h] = r]
  /\ answer' = [answer EXCEPT ![h] = Refused("none")]
  /\ Goto(h, label)
  /\ UNCHANGED <<clock, store, item, canceled>>
Reply(h, a) ==
  /\ answer' = [answer EXCEPT ![h] = a]
  /\ canceled' = [canceled EXCEPT ![h] = FALSE]
  /\ request' = [request EXCEPT ![h] = NoRequest]
  /\ Goto(h, "idle")
  /\ UNCHANGED clock

(* Where expires is set: Create, Step and Continue. *)
Refresh(id) == expires' = [expires EXCEPT ![id] = clock + TTL]
-----------------------------------------------------------------------------
(* The clock advances. *)
Tick ==
  /\ clock < LastTick
  /\ clock' = clock + 1
  /\ UNCHANGED <<store, item, pc, request, canceled, answer>>

(* A handler receives a request. *)
Start(h) ==
  \/ Receive(h, [kind |-> "create"], "create")
  \/ \E kind \in Kinds, id \in Ids :
       Receive(h, [kind |-> kind, id |-> id, gone |-> id \in issued \ sessions],
               IF kind = "delete" THEN "delete" ELSE "lookup")

(* The context of a step or continue is done. *)
Cancel(h) ==
  /\ pc[h] \in {"lookup", "check", "wait", "drive"}
  /\ ~canceled[h]
  /\ canceled' = [canceled EXCEPT ![h] = TRUE]
  /\ UNCHANGED <<clock, store, item, pc, request, answer>>
-----------------------------------------------------------------------------
(* Create: the source does not compile or Prepare fails. *)
Reject(h) ==
  /\ pc[h] = "create"
  /\ Reply(h, Refused("rejected"))
  /\ UNCHANGED <<store, item>>

(* Create under Manager.mu: removeExpiredLocked, the limit, newID (which   *)
(* may fail) and the new session.                                          *)
Unexpired == {id \in sessions : ~Expired(id)}

Admit(h, kept, id) ==
  /\ sessions' = kept \cup {id}
  /\ issued' = issued \cup {id}
  /\ Refresh(id)
  /\ Reply(h, Snapshot(id))
  /\ UNCHANGED <<err, executed, done, holder>>

Decline(h, kept, refusal) ==
  /\ sessions' = kept
  /\ Reply(h, Refused(refusal))
  /\ UNCHANGED <<issued, item>>

CreateUnswept(h) ==
  /\ pc[h] = "create"
  /\ IF Cardinality(sessions) >= Maximum
     THEN Decline(h, sessions, "limit")
     ELSE \/ Decline(h, sessions, "rejected")
          \/ \E id \in Ids \ issued : Admit(h, sessions, id)

CreateOverLimit(h) ==
  /\ pc[h] = "create"
  /\ IF Cardinality(Unexpired) > Maximum
     THEN Decline(h, Unexpired, "limit")
     ELSE \/ Decline(h, Unexpired, "rejected")
          \/ \E id \in Ids \ issued : Admit(h, Unexpired, id)

CreateReusingIds(h) ==
  /\ pc[h] = "create"
  /\ IF Cardinality(Unexpired) >= Maximum
     THEN Decline(h, Unexpired, "limit")
     ELSE \/ Decline(h, Unexpired, "rejected")
          \/ \E id \in Ids \ Unexpired : Admit(h, Unexpired, id)

Create(h) ==
  /\ pc[h] = "create"
  /\ IF Cardinality(Unexpired) >= Maximum
     THEN Decline(h, Unexpired, "limit")
     ELSE \/ Decline(h, Unexpired, "rejected")
          \/ \E id \in Ids \ issued : Admit(h, Unexpired, id)
-----------------------------------------------------------------------------
(* get: the map under Manager.mu, then the expiry, then Delete. *)
Lookup(h) ==
  /\ pc[h] = "lookup"
  /\ UNCHANGED <<store, item>>
  /\ IF Id(h) \in sessions
     THEN Goto(h, "check") /\ UNCHANGED <<clock, request, canceled, answer>>
     ELSE Reply(h, Refused("not_found"))

CheckExpiry(h) ==
  /\ pc[h] = "check"
  /\ Goto(h, IF Expired(Id(h)) THEN "evict" ELSE "wait")
  /\ UNCHANGED <<clock, store, item, request, canceled, answer>>

Remove(id) == sessions' = sessions \ {id} /\ UNCHANGED <<issued, item>>

EvictKeeping(h) ==
  /\ pc[h] = "evict"
  /\ UNCHANGED <<store, item>>
  /\ Reply(h, Refused("not_found"))

Evict(h) ==
  /\ pc[h] = "evict"
  /\ Remove(Id(h))
  /\ Reply(h, Refused("not_found"))

Delete(h) ==
  /\ pc[h] = "delete"
  /\ Remove(Id(h))
  /\ Reply(h, Refused(IF Id(h) \in sessions THEN "deleted" ELSE "not_found"))
-----------------------------------------------------------------------------
(* Step and Continue from item.mu.Lock on. *)
AcquireUnlocked(h) ==
  /\ pc[h] = "wait"
  /\ Goto(h, "drive")
  /\ UNCHANGED <<clock, store, item, request, canceled, answer>>

Acquire(h) ==
  /\ pc[h] = "wait"
  /\ holder[Id(h)] = NoHandler
  /\ holder' = [holder EXCEPT ![Id(h)] = h]
  /\ Goto(h, "drive")
  /\ UNCHANGED <<clock, store, expires, err, executed, done, request, canceled, answer>>

(* machine.Step(ctx): it fails because ctx is done or the instruction      *)
(* limit is reached, or executes an instruction, which may end the program *)
(* or fail.                                                                *)
StepMachine(id, stopped) ==
  IF stopped \/ executed[id] >= MaxSteps
  THEN /\ err' = [err EXCEPT ![id] = IF stopped THEN "canceled" ELSE "failed"]
       /\ UNCHANGED <<executed, done>>
  ELSE /\ executed' = [executed EXCEPT ![id] = @ + 1]
       /\ \/ UNCHANGED <<err, done>>
          \/ done' = [done EXCEPT ![id] = TRUE] /\ UNCHANGED err
          \/ err' = [err EXCEPT ![id] = "failed"] /\ UNCHANGED done

DriveFailed(h) ==
  /\ pc[h] = "drive"
  /\ ~done[Id(h)]
  /\ StepMachine(Id(h), canceled[h])
  /\ Goto(h, IF request[h].kind = "step" THEN "finish" ELSE "drive")
  /\ UNCHANGED <<clock, store, expires, holder, request, canceled, answer>>

Drive(h) ==
  /\ pc[h] = "drive"
  /\ ~Over(Id(h))
  /\ StepMachine(Id(h), canceled[h])
  /\ Goto(h, IF request[h].kind = "step" THEN "finish" ELSE "drive")
  /\ UNCHANGED <<clock, store, expires, holder, request, canceled, answer>>

(* The refresh of expires, the snapshot and the unlock. *)
FinishLocked(h) ==
  /\ pc[h] = "finish" \/ (pc[h] = "drive" /\ Over(Id(h)))
  /\ Refresh(Id(h))
  /\ Reply(h, Snapshot(Id(h)))
  /\ UNCHANGED <<store, err, executed, done, holder>>

FinishUnrefreshed(h) ==
  /\ pc[h] = "finish" \/ (pc[h] = "drive" /\ Over(Id(h)))
  /\ holder' = [holder EXCEPT ![Id(h)] = NoHandler]
  /\ Reply(h, Snapshot(Id(h)))
  /\ UNCHANGED <<store, expires, err, executed, done>>

Finish(h) ==
  /\ pc[h] = "finish" \/ (pc[h] = "drive" /\ Over(Id(h)))
  /\ Refresh(Id(h))
  /\ holder' = [holder EXCEPT ![Id(h)] = NoHandler]
  /\ Reply(h, Snapshot(Id(h)))
  /\ UNCHANGED <<store, err, executed, done>>
-----------------------------------------------------------------------------
Serve(h) ==
  \/ Reject(h) \/ Create(h) \/ Delete(h)
  \/ Lookup(h) \/ CheckExpiry(h) \/ Evict(h)
  \/ Drive(h) \/ Finish(h)

Next ==
  \/ Tick
  \/ \E h \in Handlers :
       \/ Start(h)
       \/ Cancel(h)
       \/ Serve(h)
       \/ Acquire(h)

(* The scheduler runs every goroutine that can run, and a sync.Mutex       *)
(* cannot be passed over for ever: after a millisecond it is handed to the *)
(* goroutine that has waited longest.  Nobody has to send a request, and   *)
(* no client has to disconnect.                                            *)
Fairness == \A h \in Handlers : WF_vars(Serve(h)) /\ SF_vars(Acquire(h))

Spec == Init /\ [][Next]_vars /\ Fairness
-----------------------------------------------------------------------------
Labels == {"idle", "create", "delete", "lookup", "check", "evict", "wait",
           "drive", "finish"}

TypeOK ==
  /\ clock \in Nat
  /\ sessions \subseteq issued /\ issued \subseteq Ids
  /\ expires \in [Ids -> Nat]
  /\ err \in [Ids -> {"none", "canceled", "failed"}]
  /\ executed \in [Ids -> Nat] /\ done \in [Ids -> BOOLEAN]
  /\ holder \in [Ids -> Handlers \cup {NoHandler}]
  /\ pc \in [Handlers -> Labels]
  /\ request \in [Handlers -> Request]
  /\ canceled \in [Handlers -> BOOLEAN]
  /\ answer \in [Handlers -> Answer]

(* No interleaving of requests fills the manager beyond its maximum. *)
CapacityRespected == Cardinality(sessions) <= Maximum

(* A request that arrives after its session was deleted or evicted never   *)
(* reaches it, although earlier requests may still be driving it.          *)
GoneStaysGone ==
  \A h \in Handlers :
    request[h].kind \in Kinds /\ request[h].gone => pc[h] \in {"lookup", "delete"}

(* A client that is told that a session is not found is told so for good:  *)
(* get deletes a session that has expired even if a request which had      *)
(* reached it before has refreshed it since.                               *)
NotFoundIsFinal ==
  [][\A h \in Handlers :
       /\ pc[h] \notin {"idle", "create"} /\ pc'[h] = "idle"
       /\ answer'[h] = Refused("not_found")
       => Id(h) \notin sessions']_vars

(* Concurrent requests on one session advance it one after another: no two *)
(* handlers report the same pause, so no step is lost to a client.         *)
PausesDiffer ==
  \A g, h \in Handlers :
    LET a == answer[g]
        b == answer[h]
    IN g # h /\ Answered(a) /\ Answered(b) /\ a.id = b.id /\ a.executed = b.executed
         => a.over \/ b.over

(* The machine of a session, as module Machine sees it. *)
Status(id) ==
  IF id \notin issued THEN "new"
  ELSE IF done[id] THEN "done"
  ELSE IF err[id] # "none" THEN "failed" ELSE "running"

View(id) == [limit |-> MaxSteps, executed |-> executed[id], status |-> Status(id)]

Driven(id) == INSTANCE Machine WITH machine <- View(id), StepLimits <- {MaxSteps}

(* Whatever requests race for a session, its machine is used as package vm *)
(* requires: prepared once, and never stepped after its end or its error,  *)
(* whoever caused the error.                                               *)
MachinesObeyed ==
  /\ \A id \in Ids : Driven(id)!Init
  /\ [][\A id \in Ids : Driven(id)!Next \/ UNCHANGED View(id)]_vars

(* Every request is answered, whatever the others do: no handler waits for *)
(* ever on a session that another one drives.                              *)
RequestsAnswered == \A h \in Handlers : pc[h] # "idle" ~> pc[h] = "idle"
=============================================================================
