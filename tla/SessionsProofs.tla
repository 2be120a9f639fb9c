--------------------------- MODULE SessionsProofs ---------------------------
(***************************************************************************)
(* Proofs about the debug sessions, for any number of handlers and of      *)
(* sessions, any time to live and any pace of the clock: the manager never *)
(* exceeds its maximum, a removed session is never reached again, the      *)
(* machines are used as module Machine requires, and what clients lose or  *)
(* are refused follows from what they used.                                *)
(***************************************************************************)
EXTENDS SessionsUse, FiniteSetTheorems, TLAPS

(* Labels of a handler that has found its session. *)
Reached == {"check", "evict", "wait", "drive", "finish"}

(* What is true of a handler wherever it is. *)
Sound(h) ==
  /\ pc[h] \in Reached \cup {"lookup", "delete"} => request[h].kind \in Kinds
  /\ pc[h] \in Reached => Id(h) \in issued
  /\ request[h].kind \in Kinds /\ request[h].gone =>
       pc[h] \in {"lookup", "delete"} /\ Id(h) \in issued \ sessions

(* An id that was not generated has a machine that did nothing. *)
Unused(id) == executed[id] = 0 /\ err[id] = "none" /\ ~done[id]

Bounded == \A id \in Ids : executed[id] <= MaxSteps

IInv ==
  /\ TypeOK /\ CapacityRespected /\ Bounded
  /\ \A h \in Handlers : Sound(h)
  /\ \A id \in Ids \ issued : Unused(id)

(* Answers and requests have their types. *)
LEMMA Answers ==
  ASSUME TypeOK
  PROVE  /\ \A r \in Refusals : Refused(r) \in Answer
         /\ \A id \in Ids : Snapshot(id) \in Answer
         /\ NoRequest \in Request /\ [kind |-> "create"] \in Request
BY DEF TypeOK, Refused, Answer, Snapshot, NoRequest, Request

LEMMA RequestId ==
  ASSUME TypeOK, NEW h \in Handlers, request[h].kind \in Kinds
  PROVE  Id(h) \in Ids /\ request[h].gone \in BOOLEAN
<1>1. request[h] \in Request
    BY DEF TypeOK
<1>2. request[h] \in [kind: Kinds, id: Ids, gone: BOOLEAN]
    BY <1>1 DEF Request, Kinds
<1>3. QED
    BY <1>2 DEF Id

(* Only the handlers that a step does not move, and sessions that it does  *)
(* not bring back, matter to the others.                                   *)
LEMMA OthersSound ==
  ASSUME IInv, NEW h \in Handlers,
         \A g \in Handlers : g # h => pc'[g] = pc[g] /\ request'[g] = request[g],
         issued \subseteq issued', issued \ sessions \subseteq issued' \ sessions'
  PROVE  \A g \in Handlers : g # h => Sound(g)'
BY DEF IInv, Sound, Id

LEMMA ReplyType ==
  ASSUME TypeOK, NEW h \in Handlers, NEW a \in Answer, Reply(h, a)
  PROVE  /\ clock' \in Nat /\ pc' \in [Handlers -> Labels]
         /\ request' \in [Handlers -> Request]
         /\ canceled' \in [Handlers -> BOOLEAN] /\ answer' \in [Handlers -> Answer]
         /\ pc'[h] = "idle" /\ request'[h] = NoRequest /\ clock' = clock
         /\ \A g \in Handlers : g # h => pc'[g] = pc[g] /\ request'[g] = request[g]
BY Answers DEF TypeOK, Reply, Goto, Labels

(* A handler that has answered serves nothing. *)
LEMMA IdleSound ==
  ASSUME NEW h, pc'[h] = "idle", request'[h] = NoRequest
  PROVE  Sound(h)'
BY DEF Sound, Reached, NoRequest, Kinds

LEMMA ReplySound ==
  ASSUME IInv, NEW h \in Handlers, NEW a \in Answer, Reply(h, a),
         issued \subseteq issued', issued \ sessions \subseteq issued' \ sessions'
  PROVE  \A g \in Handlers : Sound(g)'
<1>1. TypeOK
    BY DEF IInv
<1>2. /\ \A g \in Handlers : g # h => pc'[g] = pc[g] /\ request'[g] = request[g]
      /\ pc'[h] = "idle" /\ request'[h] = NoRequest
    BY <1>1, ReplyType
<1>3. Sound(h)'
    BY <1>2, IdleSound
<1>4. \A g \in Handlers : g # h => Sound(g)'
    BY <1>2, OthersSound
<1>5. QED
    BY <1>3, <1>4

(* Sets of sessions are finite, and smaller ones hold no more. *)
LEMMA Fewer ==
  ASSUME IInv, NEW S \in SUBSET sessions
  PROVE  IsFiniteSet(S) /\ Cardinality(S) \in Nat /\ Cardinality(S) <= Maximum
<1>1. IsFiniteSet(sessions)
    BY SessionsAssumption, FS_Subset DEF IInv, TypeOK
<1>2. IsFiniteSet(S) /\ Cardinality(S) <= Cardinality(sessions)
    BY <1>1, FS_Subset
<1>3. Cardinality(S) \in Nat /\ Cardinality(sessions) \in Nat
    BY <1>1, <1>2, FS_CardinalityType
<1>4. QED
    BY <1>2, <1>3, SessionsAssumption DEF IInv, CapacityRespected
-----------------------------------------------------------------------------
(* An answer given while the machines stand still. *)
LEMMA ReplyIInv ==
  ASSUME IInv, NEW h \in Handlers, NEW a \in Answer, Reply(h, a),
         UNCHANGED issued, UNCHANGED item, sessions' \subseteq sessions
  PROVE  IInv'
<1>1. \A g \in Handlers : Sound(g)'
    BY ReplySound
<1>2. TypeOK /\ TypeOK'
    BY ReplyType DEF IInv, TypeOK, item
<1>3. CapacityRespected'
    BY Fewer DEF CapacityRespected
<1>4. Bounded' /\ \A id \in Ids \ issued' : Unused(id)'
    BY DEF IInv, Bounded, Unused, item
<1>5. QED
    BY <1>1, <1>2, <1>3, <1>4 DEF IInv

(* A step that changes only where one handler is. *)
LEMMA MoveIInv ==
  ASSUME IInv, NEW h \in Handlers, NEW label \in Labels, Goto(h, label),
         UNCHANGED <<clock, store, request, answer>>, UNCHANGED item,
         canceled' \in [Handlers -> BOOLEAN], Sound(h)'
  PROVE  IInv'
<1>1. TypeOK'
    BY DEF IInv, TypeOK, Goto, store, item
<1>2. \A g \in Handlers : Sound(g)'
    <2>1. \A g \in Handlers : g # h => pc'[g] = pc[g] /\ request'[g] = request[g]
        BY DEF IInv, TypeOK, Goto
    <2>2. issued' = issued /\ sessions' = sessions
        BY DEF store
    <2>3. QED
        BY <2>1, <2>2, OthersSound
<1>3. CapacityRespected' /\ Bounded' /\ \A id \in Ids \ issued' : Unused(id)'
    BY DEF IInv, CapacityRespected, Bounded, Unused, item, store
<1>4. QED
    BY <1>1, <1>2, <1>3 DEF IInv

LEMMA StartIInv == ASSUME IInv, NEW h \in Handlers, Start(h) PROVE IInv'
<1>1. TypeOK /\ issued \subseteq Ids
    BY DEF IInv, TypeOK
<1>2. ASSUME NEW r \in Request, NEW label \in {"create", "delete", "lookup"},
             Receive(h, r, label),
             r.kind \in Kinds => r.gone = (r.id \in issued \ sessions),
             r.kind \in Kinds <=> label # "create"
      PROVE  IInv'
    <2>1. /\ pc' = [pc EXCEPT ![h] = label] /\ request' = [request EXCEPT ![h] = r]
          /\ answer' = [answer EXCEPT ![h] = Refused("none")]
          /\ clock' = clock /\ issued' = issued /\ sessions' = sessions
          /\ canceled' = canceled /\ UNCHANGED item
        BY <1>2 DEF Receive, Goto, store
    <2>2. TypeOK'
        <3>1. Refused("none") \in Answer /\ label \in Labels
            BY <1>1, Answers DEF Refusals, Labels
        <3>2. QED
            BY <1>1, <2>1, <3>1 DEF TypeOK, item
    <2>3. pc'[h] = label /\ request'[h] = r
        BY <1>1, <2>1 DEF TypeOK
    <2>4. Sound(h)'
        BY <1>2, <2>1, <2>3 DEF Sound, Reached, Id
    <2>5. \A g \in Handlers : Sound(g)'
        <3>1. \A g \in Handlers : g # h => pc'[g] = pc[g] /\ request'[g] = request[g]
            BY <1>1, <2>1 DEF TypeOK
        <3>2. QED
            BY <2>1, <2>4, <3>1, OthersSound
    <2>6. CapacityRespected' /\ Bounded' /\ \A id \in Ids \ issued' : Unused(id)'
        BY <2>1 DEF IInv, CapacityRespected, Bounded, Unused, item
    <2>7. QED
        BY <2>2, <2>5, <2>6 DEF IInv
<1>3. CASE Receive(h, [kind |-> "create"], "create")
    <2>1. [kind |-> "create"] \in Request /\ "create" \notin Kinds
        BY <1>1, Answers DEF Kinds
    <2>2. QED
        BY <1>2, <1>3, <2>1
<1>4. ASSUME NEW kind \in Kinds, NEW id \in Ids,
             Receive(h, [kind |-> kind, id |-> id, gone |-> id \in issued \ sessions],
                     IF kind = "delete" THEN "delete" ELSE "lookup")
      PROVE  IInv'
    <2> DEFINE r == [kind |-> kind, id |-> id, gone |-> id \in issued \ sessions]
               label == IF kind = "delete" THEN "delete" ELSE "lookup"
    <2>1. r \in Request /\ r.kind \in Kinds /\ r.gone = (r.id \in issued \ sessions)
        BY DEF Request
    <2>2. label \in {"create", "delete", "lookup"} /\ label # "create"
        OBVIOUS
    <2>3. Receive(h, r, label)
        BY <1>4
    <2> HIDE DEF r, label
    <2>4. QED
        BY <1>2, <2>1, <2>2, <2>3
<1>5. QED
    BY <1>3, <1>4 DEF Start

LEMMA CancelIInv == ASSUME IInv, NEW h \in Handlers, Cancel(h) PROVE IInv'
<1>1. TypeOK'
    BY DEF IInv, TypeOK, Cancel, store, item
<1>2. (\A g \in Handlers : Sound(g)')
    BY DEF IInv, Cancel, Sound, Id, store
<1>3. CapacityRespected' /\ Bounded' /\ \A id \in Ids \ issued' : Unused(id)'
    BY DEF IInv, CapacityRespected, Bounded, Unused, item, store, Cancel
<1>4. QED
    BY <1>1, <1>2, <1>3 DEF IInv

LEMMA TickIInv == IInv /\ Tick => IInv'
<1> SUFFICES ASSUME IInv, Tick PROVE IInv'
    OBVIOUS
<1>1. TypeOK'
    BY DEF IInv, TypeOK, Tick, store, item
<1>2. \A g \in Handlers : Sound(g)'
    BY DEF IInv, Tick, Sound, Id, store
<1>3. CapacityRespected' /\ Bounded' /\ \A id \in Ids \ issued' : Unused(id)'
    BY DEF IInv, CapacityRespected, Bounded, Unused, item, store, Tick
<1>4. QED
    BY <1>1, <1>2, <1>3 DEF IInv

LEMMA CreateIInv == ASSUME IInv, NEW h \in Handlers, Create(h) PROVE IInv'
<1>1. TypeOK /\ Unexpired \subseteq sessions
    BY DEF IInv, Unexpired
<1>2. ASSUME NEW refusal \in Refusals, Decline(h, Unexpired, refusal)
      PROVE  IInv'
    <2>1. Refused(refusal) \in Answer
        BY <1>1, <1>2, Answers
    <2>2. QED
        BY <1>1, <1>2, <2>1, ReplyIInv DEF Decline
<1>3. ASSUME NEW id \in Ids \ issued, Admit(h, Unexpired, id),
             ~(Cardinality(Unexpired) >= Maximum)
      PROVE  IInv'
    <2>1. /\ sessions' = Unexpired \cup {id} /\ issued' = issued \cup {id}
          /\ expires' = [expires EXCEPT ![id] = clock + TTL]
          /\ Reply(h, Snapshot(id)) /\ Snapshot(id) \in Answer
          /\ err' = err /\ executed' = executed /\ done' = done /\ holder' = holder
        BY <1>1, <1>3, Answers DEF Admit, Refresh
    <2>2. TypeOK'
        <3>1. clock + TTL \in Nat
            BY <1>1, SessionsAssumption DEF TypeOK
        <3>2. QED
            BY <1>1, <2>1, <3>1, ReplyType DEF TypeOK
    <2>3. \A g \in Handlers : Sound(g)'
        <3>1. issued \subseteq issued' /\ issued \ sessions \subseteq issued' \ sessions'
            BY <1>1, <2>1
        <3>2. QED
            BY <2>1, <3>1, ReplySound
    <2>4. CapacityRespected'
        <3>1. IsFiniteSet(Unexpired) /\ Cardinality(Unexpired) \in Nat
            BY <1>1, Fewer
        <3>2. Cardinality(Unexpired \cup {id}) = Cardinality(Unexpired) + 1
            <4>1. id \notin Unexpired
                BY <1>1 DEF TypeOK
            <4>2. QED
                BY <3>1, <4>1, FS_AddElement
        <3>3. IsFiniteSet(Unexpired \cup {id}) /\ Cardinality(Unexpired \cup {id}) \in Nat
            BY <3>1, FS_AddElement, FS_CardinalityType
        <3>4. QED
            BY <1>3, <2>1, <3>1, <3>2, <3>3, SessionsAssumption DEF CapacityRespected
    <2>5. Bounded' /\ \A i \in Ids \ issued' : Unused(i)'
        BY <2>1 DEF IInv, Bounded, Unused
    <2>6. QED
        BY <2>2, <2>3, <2>4, <2>5 DEF IInv
<1>4. QED
    BY <1>2, <1>3 DEF Create, Refusals

LEMMA GetIInv ==
  ASSUME IInv, NEW h \in Handlers, Lookup(h) \/ CheckExpiry(h) \/ Evict(h) \/ Delete(h)
  PROVE  IInv'
<1>1. /\ TypeOK /\ Sound(h) /\ Refused("not_found") \in Answer
      /\ Refused("deleted") \in Answer
    BY Answers DEF IInv, Refusals
<1>2. CASE Lookup(h) /\ Id(h) \in sessions
    <2>1. Goto(h, "check") /\ UNCHANGED <<clock, store, request, answer>>
          /\ UNCHANGED item /\ canceled' = canceled /\ UNCHANGED store
        BY <1>2 DEF Lookup
    <2>2. pc'[h] = "check" /\ pc[h] = "lookup" /\ request' = request
          /\ issued' = issued /\ sessions' = sessions
        BY <1>1, <1>2, <2>1 DEF TypeOK, Goto, store, Lookup
    <2>3. Sound(h)'
        BY <1>1, <1>2, <2>2 DEF Sound, Reached, Id, TypeOK
    <2>4. canceled' \in [Handlers -> BOOLEAN] /\ "check" \in Labels
        BY <1>1, <2>1 DEF TypeOK, Labels
    <2>5. QED
        BY <2>1, <2>3, <2>4, MoveIInv
<1>3. CASE Lookup(h) /\ Id(h) \notin sessions
    BY <1>1, <1>3, ReplyIInv DEF Lookup, store
<1>4. CASE CheckExpiry(h)
    <2> DEFINE label == IF Expired(Id(h)) THEN "evict" ELSE "wait"
    <2>1. Goto(h, label) /\ UNCHANGED <<clock, store, request, answer>>
          /\ UNCHANGED item /\ canceled' = canceled /\ UNCHANGED store
        BY <1>4 DEF CheckExpiry
    <2>2. label \in {"evict", "wait"}
        OBVIOUS
    <2> HIDE DEF label
    <2>3. pc'[h] = label /\ pc[h] = "check" /\ request' = request
          /\ issued' = issued /\ sessions' = sessions
        BY <1>1, <1>4, <2>1 DEF TypeOK, Goto, store, CheckExpiry
    <2>4. Sound(h)'
        BY <1>1, <2>2, <2>3 DEF Sound, Reached, Id
    <2>5. canceled' \in [Handlers -> BOOLEAN] /\ label \in Labels
        BY <1>1, <2>1, <2>2 DEF TypeOK, Labels
    <2>6. QED
        BY <2>1, <2>4, <2>5, MoveIInv
<1>5. CASE Evict(h)
    BY <1>1, <1>5, ReplyIInv DEF Evict, Remove
<1>6. CASE Delete(h)
    <2>1. PICK a \in Answer : Reply(h, a)
        BY <1>1, <1>6 DEF Delete
    <2>2. QED
        BY <1>6, <2>1, ReplyIInv DEF Delete, Remove
<1>7. QED
    BY <1>2, <1>3, <1>4, <1>5, <1>6

LEMMA AcquireIInv == ASSUME IInv, NEW h \in Handlers, Acquire(h) PROVE IInv'
<1>1. TypeOK /\ Sound(h)
    BY DEF IInv
<1>2. /\ pc[h] = "wait" /\ pc' = [pc EXCEPT ![h] = "drive"] /\ request' = request
      /\ holder' = [holder EXCEPT ![Id(h)] = h]
      /\ clock' = clock /\ issued' = issued /\ sessions' = sessions
      /\ expires' = expires /\ err' = err /\ executed' = executed /\ done' = done
      /\ canceled' = canceled /\ answer' = answer
    BY DEF Acquire, Goto, store
<1>3. TypeOK'
    BY <1>1, <1>2 DEF TypeOK, Labels
<1>4. \A g \in Handlers : Sound(g)'
    <2>1. pc'[h] = "drive" /\ \A g \in Handlers : g # h => pc'[g] = pc[g]
        BY <1>1, <1>2 DEF TypeOK
    <2>2. Sound(h)'
        BY <1>1, <1>2, <2>1 DEF Sound, Reached, Id
    <2>3. QED
        BY <1>2, <2>1, <2>2, OthersSound
<1>5. CapacityRespected' /\ Bounded' /\ \A id \in Ids \ issued' : Unused(id)'
    BY <1>2 DEF IInv, CapacityRespected, Bounded, Unused
<1>6. QED
    BY <1>3, <1>4, <1>5 DEF IInv

(* What machine.Step does to the machine of an id that has been issued. *)
LEMMA StepMachineFits ==
  ASSUME IInv, NEW id \in issued, NEW stopped \in BOOLEAN, StepMachine(id, stopped)
  PROVE  /\ err' \in [Ids -> {"none", "canceled", "failed"}]
         /\ executed' \in [Ids -> Nat] /\ done' \in [Ids -> BOOLEAN]
         /\ \A i \in Ids : executed'[i] <= MaxSteps
         /\ \A i \in Ids \ issued : executed'[i] = executed[i] /\ err'[i] = err[i]
                                    /\ done'[i] = done[i]
<1>1. /\ err \in [Ids -> {"none", "canceled", "failed"}] /\ id \in Ids
      /\ executed \in [Ids -> Nat] /\ done \in [Ids -> BOOLEAN]
      /\ \A i \in Ids : executed[i] <= MaxSteps
      /\ MaxSteps \in Nat
    BY SessionsAssumption DEF IInv, TypeOK, Bounded
<1>2. CASE stopped \/ executed[id] >= MaxSteps
    <2>1. PICK e \in {"canceled", "failed"} : err' = [err EXCEPT ![id] = e]
        BY <1>2 DEF StepMachine
    <2>2. executed' = executed /\ done' = done
        BY <1>2 DEF StepMachine
    <2>3. QED
        BY <1>1, <2>1, <2>2
<1>3. CASE ~(stopped \/ executed[id] >= MaxSteps)
    <2>1. /\ executed' = [executed EXCEPT ![id] = @ + 1]
          /\ \/ err' = err /\ done' = done
             \/ err' = err /\ done' = [done EXCEPT ![id] = TRUE]
             \/ err' = [err EXCEPT ![id] = "failed"] /\ done' = done
        BY <1>3 DEF StepMachine
    <2>2. executed[id] \in Nat /\ executed[id] + 1 <= MaxSteps
        BY <1>1, <1>3
    <2>3. /\ executed' \in [Ids -> Nat] /\ \A i \in Ids : executed'[i] <= MaxSteps
          /\ \A i \in Ids \ issued : executed'[i] = executed[i]
        BY <1>1, <2>1, <2>2
    <2>4. QED
        BY <1>1, <2>1, <2>3
<1>4. QED
    BY <1>2, <1>3

LEMMA DriveIInv == ASSUME IInv, NEW h \in Handlers, Drive(h) PROVE IInv'
<1> DEFINE label == IF request[h].kind = "step" THEN "finish" ELSE "drive"
<1>1. TypeOK /\ Sound(h)
    BY DEF IInv
<1>2. /\ pc[h] = "drive" /\ pc' = [pc EXCEPT ![h] = label] /\ request' = request
      /\ StepMachine(Id(h), canceled[h])
      /\ clock' = clock /\ issued' = issued /\ sessions' = sessions
      /\ expires' = expires /\ holder' = holder
      /\ canceled' = canceled /\ answer' = answer
    BY DEF Drive, Goto, store
<1>3. label \in {"finish", "drive"}
    OBVIOUS
<1> HIDE DEF label
<1>4. Id(h) \in issued /\ canceled[h] \in BOOLEAN
    BY <1>1, <1>2 DEF Sound, Reached, TypeOK
<1>5. /\ err' \in [Ids -> {"none", "canceled", "failed"}]
      /\ executed' \in [Ids -> Nat] /\ done' \in [Ids -> BOOLEAN]
      /\ \A i \in Ids : executed'[i] <= MaxSteps
      /\ \A i \in Ids \ issued : executed'[i] = executed[i] /\ err'[i] = err[i]
                                 /\ done'[i] = done[i]
    BY <1>2, <1>4, StepMachineFits
<1>6. TypeOK'
    BY <1>1, <1>2, <1>3, <1>5 DEF TypeOK, Labels
<1>7. \A g \in Handlers : Sound(g)'
    <2>1. pc'[h] = label /\ \A g \in Handlers : g # h => pc'[g] = pc[g]
        BY <1>1, <1>2 DEF TypeOK
    <2>2. Sound(h)'
        BY <1>1, <1>2, <1>3, <2>1 DEF Sound, Reached, Id
    <2>3. QED
        BY <1>2, <2>1, <2>2, OthersSound
<1>8. CapacityRespected' /\ Bounded' /\ \A id \in Ids \ issued' : Unused(id)'
    BY <1>2, <1>5 DEF IInv, CapacityRespected, Bounded, Unused
<1>9. QED
    BY <1>6, <1>7, <1>8 DEF IInv

LEMMA FinishIInv == ASSUME IInv, NEW h \in Handlers, Finish(h) PROVE IInv'
<1>1. TypeOK /\ Sound(h)
    BY DEF IInv
<1>2. Id(h) \in issued /\ Id(h) \in Ids
    BY <1>1 DEF Sound, Reached, Finish, TypeOK
<1>3. /\ expires' = [expires EXCEPT ![Id(h)] = clock + TTL]
      /\ holder' = [holder EXCEPT ![Id(h)] = NoHandler]
      /\ Reply(h, Snapshot(Id(h))) /\ Snapshot(Id(h)) \in Answer
      /\ issued' = issued /\ sessions' = sessions
      /\ err' = err /\ executed' = executed /\ done' = done
    BY <1>1, <1>2, Answers DEF Finish, Refresh, store
<1>4. TypeOK'
    <2>1. clock + TTL \in Nat
        BY <1>1, SessionsAssumption DEF TypeOK
    <2>2. QED
        BY <1>1, <1>2, <1>3, <2>1, ReplyType DEF TypeOK
<1>5. \A g \in Handlers : Sound(g)'
    BY <1>3, ReplySound
<1>6. CapacityRespected' /\ Bounded' /\ \A id \in Ids \ issued' : Unused(id)'
    BY <1>3 DEF IInv, CapacityRespected, Bounded, Unused
<1>7. QED
    BY <1>4, <1>5, <1>6 DEF IInv

LEMMA NextIInv == IInv /\ [Next]_vars => IInv'
<1> SUFFICES ASSUME IInv, [Next]_vars PROVE IInv'
    OBVIOUS
<1>1. CASE Tick
    BY <1>1, TickIInv
<1>2. ASSUME NEW h \in Handlers, Start(h) \/ Cancel(h) \/ Serve(h) \/ Acquire(h)
      PROVE  IInv'
    <2>1. CASE Reject(h)
        <3>1. Refused("rejected") \in Answer /\ Reply(h, Refused("rejected"))
              /\ UNCHANGED item /\ issued' = issued /\ sessions' = sessions
            BY <2>1, Answers DEF IInv, Refusals, Reject, store
        <3>2. QED
            BY <3>1, ReplyIInv
    <2>2. CASE Serve(h) /\ ~Reject(h)
        BY <2>2, CreateIInv, GetIInv, DriveIInv, FinishIInv DEF Serve
    <2>3. QED
        BY <1>2, <2>1, <2>2, StartIInv, CancelIInv, AcquireIInv
<1>3. CASE UNCHANGED vars
    <2>1. /\ clock' = clock /\ sessions' = sessions /\ issued' = issued
          /\ expires' = expires /\ err' = err /\ executed' = executed /\ done' = done
          /\ holder' = holder /\ pc' = pc /\ request' = request
          /\ canceled' = canceled /\ answer' = answer
        BY <1>3 DEF vars, store, item
    <2>2. TypeOK' /\ CapacityRespected' /\ Bounded'
        BY <2>1 DEF IInv, TypeOK, CapacityRespected, Bounded
    <2>3. \A h \in Handlers : Sound(h)'
        BY <2>1 DEF IInv, Sound, Id
    <2>4. \A id \in Ids \ issued' : Unused(id)'
        BY <2>1 DEF IInv, Unused
    <2>5. QED
        BY <2>2, <2>3, <2>4 DEF IInv
<1>4. QED
    BY <1>1, <1>2, <1>3 DEF Next

LEMMA InitIInv == Init => IInv
<1> SUFFICES ASSUME Init PROVE IInv
    OBVIOUS
<1>1. TypeOK
    <2>1. Refused("none") \in Answer /\ NoRequest \in Request
        BY DEF Refused, Answer, Refusals, NoRequest, Request
    <2>2. QED
        BY <2>1 DEF Init, TypeOK, Labels
<1>2. CapacityRespected
    BY FS_EmptySet, SessionsAssumption DEF Init, CapacityRespected
<1>3. \A h \in Handlers : Sound(h)
    BY DEF Init, Sound, Reached, NoRequest, Kinds
<1>4. Bounded /\ \A id \in Ids \ issued : Unused(id)
    BY SessionsAssumption DEF Init, Bounded, Unused
<1>5. QED
    BY <1>1, <1>2, <1>3, <1>4 DEF IInv

(* The manager never holds more sessions than its maximum, and a request   *)
(* for a session that is gone never reaches it, whatever requests, expiry  *)
(* and removal of sessions interleave.                                     *)
THEOREM SessionsSafe == Spec => [](TypeOK /\ CapacityRespected /\ GoneStaysGone)
<1>1. IInv => TypeOK /\ CapacityRespected /\ GoneStaysGone
    BY DEF IInv, Sound, GoneStaysGone
<1>2. QED
    BY InitIInv, NextIInv, <1>1, PTL DEF Spec

(* A request that arrives after a session was deleted, evicted or swept    *)
(* does not reach its machine, whatever other requests still hold it.      *)
THEOREM GoneIsUnreachable == Spec => []GoneStaysGone
BY SessionsSafe, PTL
-----------------------------------------------------------------------------
(* The machines. *)
LEMMA ViewKept ==
  ASSUME NEW id, UNCHANGED <<executed, done, err>>, id \in issued' <=> id \in issued
  PROVE  UNCHANGED View(id)
BY DEF View, Status

LEMMA ReplyView ==
  ASSUME UNCHANGED item, UNCHANGED issued, NEW id
  PROVE  UNCHANGED View(id)
BY ViewKept DEF item

(* A session that is driven has a machine that runs: its step is a step of *)
(* module Machine and leaves the other machines alone.                     *)
LEMMA StepView ==
  ASSUME IInv, NEW driven \in issued, ~Over(driven), UNCHANGED issued,
         NEW stopped, StepMachine(driven, stopped)
  PROVE  \A id \in Ids : Driven(id)!Next \/ UNCHANGED View(id)
<1>1. driven \in Ids /\ issued' = issued
    BY DEF IInv, TypeOK
<1>2. /\ err \in [Ids -> {"none", "canceled", "failed"}]
      /\ executed \in [Ids -> Nat] /\ done \in [Ids -> BOOLEAN]
      /\ executed[driven] <= MaxSteps
    BY <1>1 DEF IInv, TypeOK, Bounded
<1>3. \A id \in Ids \ {driven} :
         executed'[id] = executed[id] /\ err'[id] = err[id] /\ done'[id] = done[id]
    BY <1>1, <1>2 DEF StepMachine
<1>4. \A id \in Ids \ {driven} : UNCHANGED View(id)
    BY <1>1, <1>3 DEF View, Status
<1>5. View(driven) = [limit |-> MaxSteps, executed |-> executed[driven], status |-> "running"]
    BY <1>1, <1>2 DEF View, Status, Over
<1>6. CASE stopped \/ executed[driven] >= MaxSteps
    <2>1. executed' = executed /\ done' = done /\ err'[driven] # "none"
        BY <1>1, <1>2, <1>6 DEF StepMachine
    <2>2. Status(driven)' = "failed"
        BY <1>1, <2>1 DEF Status, Over
    <2>3. View(driven)' = [View(driven) EXCEPT !.status = "failed"]
        BY <1>5, <2>1, <2>2 DEF View
    <2>4. View(driven)' \in Driven(driven)!Refuse(View(driven))
        BY <1>5, <2>3 DEF Driven!Refuse
    <2>5. Driven(driven)!Next
        BY <2>4 DEF Driven!Next
    <2>6. QED
        BY <1>4, <2>5
<1>7. CASE ~(stopped \/ executed[driven] >= MaxSteps)
    <2>1. executed'[driven] = executed[driven] + 1 /\ executed[driven] < MaxSteps
        BY <1>1, <1>2, <1>7, SessionsAssumption DEF StepMachine
    <2>2. Status(driven)' \in {"running", "done", "failed"}
        BY <1>1 DEF Status
    <2>3. View(driven)' = [limit |-> View(driven).limit,
                           executed |-> View(driven).executed + 1,
                           status |-> Status(driven)']
        BY <1>5, <2>1 DEF View
    <2>4. View(driven)' \in Driven(driven)!Execute(View(driven))
        BY <1>5, <2>1, <2>2, <2>3 DEF Driven!Execute
    <2>5. Driven(driven)!Next
        BY <2>4 DEF Driven!Next
    <2>6. QED
        BY <1>4, <2>5
<1>8. QED
    BY <1>6, <1>7

LEMMA DriveView ==
  ASSUME IInv, NEW h \in Handlers, Drive(h)
  PROVE  \A id \in Ids : Driven(id)!Next \/ UNCHANGED View(id)
<1>1. /\ Id(h) \in issued /\ ~Over(Id(h)) /\ issued' = issued
      /\ StepMachine(Id(h), canceled[h])
    BY DEF IInv, TypeOK, Sound, Reached, Drive, store
<1>2. \E driven \in issued, stopped \in {canceled[h]} :
         ~Over(driven) /\ StepMachine(driven, stopped)
    BY <1>1
<1>3. QED
    BY <1>1, <1>2, StepView

LEMMA AdmitView ==
  ASSUME IInv, NEW h, NEW kept, NEW fresh \in Ids \ issued, Admit(h, kept, fresh)
  PROVE  \A id \in Ids : Driven(id)!Next \/ UNCHANGED View(id)
<1>1. /\ issued' = issued \cup {fresh} /\ executed' = executed /\ done' = done
      /\ err' = err /\ Unused(fresh)
    BY DEF Admit, IInv
<1>2. \A id \in Ids \ {fresh} : UNCHANGED View(id)
    BY <1>1, ViewKept
<1>3. Status(fresh) = "new" /\ Status(fresh)' = "running"
    BY <1>1 DEF Status, Unused
<1>4. View(fresh)' = [View(fresh) EXCEPT !.status = "running"]
      /\ View(fresh).status = "new"
    BY <1>1, <1>3 DEF View
<1>5. View(fresh)' \in Driven(fresh)!Prepare(View(fresh))
    BY <1>4 DEF Driven!Prepare
<1>6. Driven(fresh)!Next
    BY <1>5 DEF Driven!Next
<1>7. QED
    BY <1>2, <1>6

LEMMA NextView ==
  ASSUME IInv, Next
  PROVE  \A id \in Ids : Driven(id)!Next \/ UNCHANGED View(id)
<1>1. CASE UNCHANGED <<executed, done, err>> /\ UNCHANGED issued
    BY <1>1, ViewKept
<1>2. CASE \E h \in Handlers : Drive(h)
    BY <1>2, DriveView
<1>3. CASE \E h \in Handlers : Create(h)
    <2>1. PICK h \in Handlers : Create(h)
        BY <1>3
    <2>2. CASE \E id \in Ids \ issued : Admit(h, Unexpired, id)
        BY <2>2, AdmitView
    <2>3. CASE UNCHANGED issued /\ UNCHANGED item
        BY <2>3, ReplyView
    <2>4. QED
        BY <2>1, <2>2, <2>3 DEF Create, Decline
<1>4. QED
    BY <1>1, <1>2, <1>3
    DEF Next, Tick, Start, Receive, Cancel, Serve, Reject, Delete, Lookup,
        CheckExpiry, Evict, Remove, Acquire, Finish, Reply, store, item

(* Every session uses its machine as module Machine requires: prepared     *)
(* once and never stepped after its end or its error.                      *)
THEOREM MachinesUsedAsAgreed == Spec => MachinesObeyed
<1>1. Init => \A id \in Ids : Driven(id)!Init
    <2>1. SUFFICES ASSUME Init, NEW id \in Ids PROVE Driven(id)!Init
        OBVIOUS
    <2>2. issued = {} /\ executed = [i \in Ids |-> 0]
        BY <2>1 DEF Init
    <2>3. executed[id] = 0
        BY <2>2
    <2>4. Status(id) = "new"
        BY <2>2 DEF Status
    <2>5. View(id) = [limit |-> MaxSteps, executed |-> 0, status |-> "new"]
        BY <2>3, <2>4 DEF View
    <2>6. QED
        BY <2>5 DEF Driven!Init, Driven!New
<1>2. IInv /\ [Next]_vars =>
        [\A id \in Ids : Driven(id)!Next \/ UNCHANGED View(id)]_vars
    BY NextView
<1>3. QED
    BY InitIInv, NextIInv, <1>1, <1>2, PTL DEF Spec, MachinesObeyed
-----------------------------------------------------------------------------
(* Which answer ends a request, and what is then true of the sessions.     *)
LEMMA RefusalsDiffer ==
  ASSUME NEW r, NEW q, Refused(r) = Refused(q)
  PROVE  r = q
<1>1. Refused(r).refusal = r /\ Refused(q).refusal = q
    BY DEF Refused
<1>2. QED
    BY <1>1

LEMMA SnapshotIsAnswer ==
  ASSUME NEW id, NEW r
  PROVE  Answered(Snapshot(id)) /\ Snapshot(id) # Refused(r) /\ ~Answered(Refused(r))
<1>1. DOMAIN Snapshot(id) = {"id", "executed", "over"} /\ DOMAIN Refused(r) = {"refusal"}
    BY DEF Snapshot, Refused
<1>2. QED
    BY <1>1 DEF Answered

(* The actions in which a handler goes idle. *)
LEMMA EndOfRequest ==
  ASSUME IInv, Next, NEW h \in Handlers, pc[h] # "idle", pc'[h] = "idle"
  PROVE  Serve(h) /\ ~CheckExpiry(h)
<1>1. pc \in [Handlers -> Labels]
    BY DEF IInv, TypeOK
<1>2. ASSUME NEW g \in Handlers, NEW label, label # "idle", Goto(g, label)
      PROVE  FALSE
    BY <1>1, <1>2 DEF Goto
<1>3. ASSUME NEW g \in Handlers, NEW a, Reply(g, a)
      PROVE  g = h
    BY <1>1, <1>3 DEF Reply, Goto
<1>4. ASSUME NEW g \in Handlers, Start(g) \/ Acquire(g) \/ CheckExpiry(g) \/ Drive(g)
      PROVE  FALSE
    BY <1>2, <1>4 DEF Start, Receive, Acquire, CheckExpiry, Drive
<1>5. ASSUME NEW g \in Handlers, Serve(g)
      PROVE  g = h
    BY <1>2, <1>3, <1>4, <1>5
    DEF Serve, Reject, Create, Admit, Decline, Delete, Lookup, Evict, Finish
<1>6. QED
    BY <1>1, <1>4, <1>5 DEF Next, Tick, Cancel

(* A client that is told that a session is not found is told so for good.  *)
THEOREM NotFoundMeansGone == Spec => NotFoundIsFinal
<1>1. ASSUME IInv, [Next]_vars, NEW h \in Handlers, pc[h] \notin {"idle", "create"},
             pc'[h] = "idle", answer'[h] = Refused("not_found")
      PROVE  Id(h) \notin sessions'
    <2>1. answer \in [Handlers -> Answer] /\ pc \in [Handlers -> Labels]
        BY <1>1 DEF IInv, TypeOK
    <2>2. Serve(h) /\ ~CheckExpiry(h)
        BY <1>1, EndOfRequest DEF vars
    <2>3. \A id : ~Reply(h, Snapshot(id))
        BY <1>1, <2>1, SnapshotIsAnswer DEF Reply
    <2>4. ~Finish(h) /\ ~Create(h) /\ ~Reject(h)
        BY <1>1, <2>3 DEF Finish, Create, Reject
    <2>5. ~Drive(h)
        BY <1>1, <2>1 DEF Drive, Goto
    <2>6. CASE Lookup(h)
        <3>1. pc'[h] # "check"
            BY <1>1
        <3>2. Id(h) \notin sessions
            BY <2>1, <2>6, <3>1 DEF Lookup, Goto
        <3>3. QED
            BY <2>6, <3>2 DEF Lookup, store
    <2>7. CASE Evict(h) \/ Delete(h)
        BY <2>7 DEF Evict, Delete, Remove
    <2>8. QED
        BY <2>2, <2>4, <2>5, <2>6, <2>7 DEF Serve
<1>2. IInv /\ [Next]_vars =>
        [\A h \in Handlers :
           /\ pc[h] \notin {"idle", "create"} /\ pc'[h] = "idle"
           /\ answer'[h] = Refused("not_found")
           => Id(h) \notin sessions']_vars
    BY <1>1
<1>3. QED
    BY InitIInv, NextIInv, <1>2, PTL DEF Spec, NotFoundIsFinal
-----------------------------------------------------------------------------
(***************************************************************************)
(* Pauses.  session.mu keeps a machine to one handler at a time (Drivers), *)
(* progress that was reported is never undone (Past), and a handler that   *)
(* is about to report has made a step that no pause reported so far has    *)
(* seen (Stepped).                                                         *)
(***************************************************************************)
Driving(h) == pc[h] \in {"drive", "finish"}
Paused(h) == Answered(answer[h]) /\ ~answer[h].over

Drivers == \A h \in Handlers : Driving(h) => holder[Id(h)] = h
Past ==
  \A h \in Handlers :
    Answered(answer[h]) => answer[h].id \in issued /\ answer[h].executed <= executed[answer[h].id]
Stepped ==
  \A g, h \in Handlers :
    pc[g] = "finish" /\ ~Over(Id(g)) /\ Paused(h) /\ answer[h].id = Id(g) =>
      answer[h].executed < executed[Id(g)]

PInv == Drivers /\ Past /\ Stepped /\ PausesDiffer

LEMMA AnsweredType ==
  ASSUME TypeOK, NEW h \in Handlers, Answered(answer[h])
  PROVE  answer[h].id \in Ids /\ answer[h].executed \in Nat /\ answer[h].over \in BOOLEAN
<1>1. answer[h] \in Answer
    BY DEF TypeOK
<1>2. \A r \in [refusal: Refusals] : "refusal" \in DOMAIN r
    OBVIOUS
<1>3. answer[h] \in [id: Ids, executed: Nat, over: BOOLEAN]
    BY <1>1, <1>2 DEF Answer, Answered
<1>4. QED
    BY <1>3

(* A step of h that touches no machine and reports no pause.               *)
LEMMA OthersPInv ==
  ASSUME IInv, PInv, NEW h \in Handlers,
         executed' = executed, err' = err, done' = done, issued \subseteq issued',
         \A g \in Handlers \ {h} :
            pc'[g] = pc[g] /\ request'[g] = request[g] /\ answer'[g] = answer[g],
         ~Answered(answer'[h]) \/ answer'[h] = answer[h],
         pc'[h] # "finish", pc'[h] = "drive" => holder'[Id(h)'] = h,
         \A g \in Handlers \ {h} : Driving(g) => holder'[Id(g)] = holder[Id(g)]
  PROVE  PInv'
<1>1. \A g \in Handlers \ {h} :
        Id(g)' = Id(g) /\ (Driving(g)' <=> Driving(g)) /\ (Paused(g)' <=> Paused(g))
    BY DEF Id, Driving, Paused
<1>2. Paused(h)' => Paused(h) /\ answer'[h] = answer[h]
    BY DEF Paused
<1>3. Drivers'
    BY <1>1 DEF PInv, Drivers, Driving
<1>4. Past'
    BY DEF PInv, Past
<1>5. Stepped'
    BY <1>1, <1>2 DEF PInv, Stepped, Over
<1>6. PausesDiffer'
    <2>1. SUFFICES ASSUME NEW g \in Handlers, NEW k \in Handlers, g # k,
                          Answered(answer'[g]), Answered(answer'[k]),
                          answer'[g].id = answer'[k].id,
                          answer'[g].executed = answer'[k].executed
                   PROVE  answer'[g].over \/ answer'[k].over
        BY DEF PausesDiffer
    <2>2. answer'[g] = answer[g] /\ answer'[k] = answer[k]
        BY <2>1
    <2>3. QED
        BY <2>1, <2>2 DEF PInv, PausesDiffer
<1>7. QED
    BY <1>3, <1>4, <1>5, <1>6 DEF PInv

(* A snapshot that h reports of a machine that no other handler drives and *)
(* that is over, or has executed more than any pause of it tells.          *)
LEMMA SnapshotPInv ==
  ASSUME IInv, PInv, NEW h \in Handlers, NEW id \in Ids, Reply(h, Snapshot(id)),
         executed' = executed, err' = err, done' = done, issued \subseteq issued',
         id \in issued',
         \A g \in Handlers \ {h} : Driving(g) => Id(g) # id /\ holder'[Id(g)] = holder[Id(g)],
         ~Over(id) => \A g \in Handlers :
            Paused(g) /\ answer[g].id = id => answer[g].executed < executed[id]
  PROVE  PInv'
<1>1. /\ pc'[h] = "idle" /\ answer'[h] = Snapshot(id) /\ TypeOK
      /\ \A g \in Handlers \ {h} :
            pc'[g] = pc[g] /\ request'[g] = request[g] /\ answer'[g] = answer[g]
    BY DEF IInv, TypeOK, Reply, Goto
<1>2. /\ answer'[h].id = id /\ answer'[h].executed = executed[id]
      /\ answer'[h].over <=> Over(id)
    <2>1. Snapshot(id).id = id /\ Snapshot(id).executed = executed[id]
        BY DEF Snapshot
    <2>2. Snapshot(id).over <=> Over(id)
        BY Zenon DEF Snapshot, Over
    <2>3. QED
        BY <1>1, <2>1, <2>2
<1>3. \A g \in Handlers \ {h} :
        Id(g)' = Id(g) /\ (Driving(g)' <=> Driving(g)) /\ (Paused(g)' <=> Paused(g))
    BY <1>1 DEF Id, Driving, Paused
<1>4. executed[id] \in Nat
    BY <1>1 DEF TypeOK
<1>5. Drivers'
    BY <1>1, <1>3 DEF PInv, Drivers, Driving
<1>6. Past'
    BY <1>1, <1>2, <1>4 DEF PInv, Past
<1>7. Stepped'
    <2>1. SUFFICES ASSUME NEW g \in Handlers, NEW k \in Handlers, pc'[g] = "finish",
                          ~Over(Id(g))', Paused(k)', answer'[k].id = Id(g)'
                   PROVE  answer'[k].executed < executed'[Id(g)']
        BY DEF Stepped
    <2>2. g # h /\ Driving(g)
        BY <1>1, <1>3, <2>1 DEF Driving
    <2>3. Id(g)' = Id(g) /\ Id(g) # id
        BY <1>3, <2>2
    <2>4. k # h
        BY <1>2, <2>1, <2>3
    <2>5. QED
        BY <1>1, <1>3, <2>1, <2>2, <2>3, <2>4 DEF PInv, Stepped, Over
<1>8. PausesDiffer'
    <2>1. SUFFICES ASSUME NEW g \in Handlers, NEW k \in Handlers, g # k,
                          Answered(answer'[g]), Answered(answer'[k]),
                          answer'[g].id = answer'[k].id,
                          answer'[g].executed = answer'[k].executed
                   PROVE  answer'[g].over \/ answer'[k].over
        BY DEF PausesDiffer
    <2>2. CASE g # h /\ k # h
        BY <1>1, <2>1, <2>2 DEF PInv, PausesDiffer
    <2>3. ASSUME NEW p \in Handlers \ {h}, Answered(answer[p]), answer[p].id = id,
                 answer[p].executed = executed[id]
          PROVE  answer[p].over \/ Over(id)
        <3>1. answer[p].executed \in Nat
            BY <1>1, <2>3, AnsweredType
        <3>2. QED
            BY <2>3, <3>1 DEF Paused
    <2>4. QED
        BY <1>1, <1>2, <2>1, <2>2, <2>3
<1>9. QED
    BY <1>5, <1>6, <1>7, <1>8 DEF PInv


LEMMA DriveChanges ==
  ASSUME IInv, NEW h \in Handlers, Drive(h)
  PROVE  /\ Id(h) \in Ids /\ ~Over(Id(h)) /\ pc[h] = "drive"
         /\ \/ Over(Id(h))'
            \/ executed'[Id(h)] = executed[Id(h)] + 1
         /\ executed[Id(h)] \in Nat /\ executed'[Id(h)] \in Nat
         /\ executed[Id(h)] <= executed'[Id(h)]
         /\ \A id \in Ids \ {Id(h)} : executed'[id] = executed[id] /\ (Over(id)' <=> Over(id))
<1>1. TypeOK /\ Sound(h)
    BY DEF IInv
<1>2. Id(h) \in Ids
    BY <1>1 DEF Sound, Reached, Drive, TypeOK
<1>3. /\ executed \in [Ids -> Nat] /\ done \in [Ids -> BOOLEAN]
      /\ err \in [Ids -> {"none", "canceled", "failed"}]
    BY <1>1 DEF TypeOK
<1>4. StepMachine(Id(h), canceled[h]) /\ ~Over(Id(h)) /\ pc[h] = "drive"
    BY DEF Drive
<1>5. CASE canceled[h] \/ executed[Id(h)] >= MaxSteps
    <2>1. /\ executed' = executed /\ done' = done
          /\ err' = [err EXCEPT ![Id(h)] = IF canceled[h] THEN "canceled" ELSE "failed"]
        BY <1>4, <1>5 DEF StepMachine
    <2>2. err'[Id(h)] # "none" /\ \A id \in Ids \ {Id(h)} : err'[id] = err[id]
        BY <1>2, <1>3, <2>1
    <2>3. Id(h)' = Id(h)
        BY DEF Drive, Id
    <2>4. Over(Id(h))' /\ \A id \in Ids \ {Id(h)} : Over(id)' <=> Over(id)
        BY <1>2, <2>1, <2>2, <2>3 DEF Over
    <2>5. QED
        BY <1>2, <1>3, <1>4, <2>1, <2>4
<1>6. CASE ~(canceled[h] \/ executed[Id(h)] >= MaxSteps)
    <2>1. /\ executed' = [executed EXCEPT ![Id(h)] = @ + 1]
          /\ \/ err' = err /\ done' = done
             \/ err' = err /\ done' = [done EXCEPT ![Id(h)] = TRUE]
             \/ done' = done /\ err' = [err EXCEPT ![Id(h)] = "failed"]
        BY <1>4, <1>6 DEF StepMachine
    <2>2. executed'[Id(h)] = executed[Id(h)] + 1
          /\ \A id \in Ids \ {Id(h)} : executed'[id] = executed[id]
        BY <1>2, <1>3, <2>1
    <2>3. \A id \in Ids \ {Id(h)} : err'[id] = err[id] /\ done'[id] = done[id]
        BY <1>2, <1>3, <2>1
    <2>4. QED
        BY <1>2, <1>3, <1>4, <2>2, <2>3 DEF Over
<1>7. QED
    BY <1>5, <1>6

LEMMA DrivePInv == ASSUME IInv, PInv, NEW h \in Handlers, Drive(h) PROVE PInv'
<1>1. /\ TypeOK /\ request' = request /\ answer' = answer /\ issued' = issued
      /\ holder' = holder
      /\ pc'[h] \in {"drive", "finish"} /\ \A g \in Handlers \ {h} : pc'[g] = pc[g]
    BY DEF IInv, TypeOK, Drive, Goto, store
<1>2. \A g \in Handlers : Id(g)' = Id(g) /\ (Paused(g)' <=> Paused(g))
                          /\ (Driving(g)' <=> Driving(g))
    BY <1>1 DEF Id, Paused, Driving, Drive
<1>3. Drivers'
    BY <1>1, <1>2 DEF PInv, Drivers
<1>4. \A g \in Handlers :
        Answered(answer[g]) =>
          /\ answer[g].id \in issued /\ answer[g].id \in Ids
          /\ answer[g].executed \in Nat
          /\ answer[g].executed <= executed[answer[g].id]
    BY <1>1, AnsweredType DEF PInv, Past
<1>5. Past'
    <2>1. SUFFICES ASSUME NEW g \in Handlers, Answered(answer[g])
                   PROVE  answer[g].executed <= executed'[answer[g].id]
        BY <1>1, <1>4 DEF Past
    <2>2. CASE answer[g].id = Id(h)
        BY <1>4, <2>1, <2>2, DriveChanges
    <2>3. CASE answer[g].id # Id(h)
        BY <1>4, <2>1, <2>3, DriveChanges
    <2>4. QED
        BY <2>2, <2>3
<1>6. Stepped'
    <2>1. SUFFICES ASSUME NEW g \in Handlers, NEW k \in Handlers, pc'[g] = "finish",
                          ~Over(Id(g))', Paused(k), answer[k].id = Id(g)
                   PROVE  answer[k].executed < executed'[Id(g)]
        BY <1>1, <1>2 DEF Stepped
    <2>2. /\ Answered(answer[k]) /\ answer[k].executed \in Nat /\ Id(g) \in Ids
          /\ answer[k].executed <= executed[Id(g)]
        BY <1>4, <2>1 DEF Paused
    <2>3. CASE Id(g) = Id(h)
        <3>1. executed'[Id(h)] = executed[Id(h)] + 1 /\ executed[Id(h)] \in Nat
            BY <1>2, <2>1, <2>3, DriveChanges DEF Over
        <3>2. QED
            BY <2>2, <2>3, <3>1
    <2>4. CASE Id(g) # Id(h)
        <3>1. pc[g] = "finish"
            BY <1>1, <2>1, <2>4
        <3>2. ~Over(Id(g)) /\ executed'[Id(g)] = executed[Id(g)]
            BY <1>2, <2>1, <2>2, <2>4, DriveChanges DEF Over
        <3>3. QED
            BY <2>1, <3>1, <3>2 DEF PInv, Stepped
    <2>5. QED
        BY <2>3, <2>4
<1>7. PausesDiffer'
    BY <1>1 DEF PInv, PausesDiffer
<1>8. QED
    BY <1>3, <1>5, <1>6, <1>7 DEF PInv

LEMMA FinishPInv == ASSUME IInv, PInv, NEW h \in Handlers, Finish(h) PROVE PInv'
<1>1. TypeOK /\ Sound(h) /\ Driving(h)
    BY DEF IInv, Finish, Driving
<1>2. Id(h) \in Ids /\ Id(h) \in issued /\ holder[Id(h)] = h
    BY <1>1 DEF Sound, Reached, Driving, TypeOK, PInv, Drivers
<1>3. /\ Reply(h, Snapshot(Id(h))) /\ holder' = [holder EXCEPT ![Id(h)] = NoHandler]
      /\ executed' = executed /\ err' = err /\ done' = done /\ issued' = issued
    BY DEF Finish, store
<1>4. \A g \in Handlers \ {h} : Driving(g) => Id(g) # Id(h) /\ holder'[Id(g)] = holder[Id(g)]
    <2>1. \A g \in Handlers \ {h} : Driving(g) => Id(g) # Id(h)
        BY <1>2 DEF PInv, Drivers
    <2>2. QED
        BY <1>1, <1>2, <1>3, <2>1 DEF TypeOK
<1>5. ~Over(Id(h)) => \A g \in Handlers :
         Paused(g) /\ answer[g].id = Id(h) => answer[g].executed < executed[Id(h)]
    BY DEF Finish, PInv, Stepped
<1>6. QED
    BY <1>2, <1>3, <1>4, <1>5, SnapshotPInv

LEMMA CreatePInv == ASSUME IInv, PInv, NEW h \in Handlers, Create(h) PROVE PInv'
<1>1. TypeOK /\ pc \in [Handlers -> Labels] /\ answer \in [Handlers -> Answer]
      /\ request \in [Handlers -> Request]
    BY DEF IInv, TypeOK
<1>2. ASSUME NEW r, Decline(h, Unexpired, r)
      PROVE  PInv'
    <2>1. /\ executed' = executed /\ err' = err /\ done' = done /\ issued' = issued
          /\ holder' = holder /\ Reply(h, Refused(r))
        BY <1>2 DEF Decline, item
    <2>2. /\ pc'[h] = "idle" /\ answer'[h] = Refused(r)
          /\ \A g \in Handlers \ {h} :
               pc'[g] = pc[g] /\ request'[g] = request[g] /\ answer'[g] = answer[g]
        BY <1>1, <2>1 DEF Reply, Goto
    <2>3. QED
        BY <2>1, <2>2, OthersPInv, SnapshotIsAnswer
<1>3. ASSUME NEW id \in Ids \ issued, Admit(h, Unexpired, id)
      PROVE  PInv'
    <2>1. /\ executed' = executed /\ err' = err /\ done' = done
          /\ holder' = holder /\ Reply(h, Snapshot(id)) /\ issued' = issued \cup {id}
        BY <1>3 DEF Admit
    <2>2. \A g \in Handlers : Driving(g) => Id(g) # id
        BY DEF IInv, Sound, Driving, Reached
    <2>3. \A g \in Handlers : Paused(g) => answer[g].id # id
        BY DEF PInv, Past, Paused
    <2>4. QED
        BY <2>1, <2>2, <2>3, SnapshotPInv
<1>4. QED
    BY <1>2, <1>3 DEF Create

(* Every other step of a handler. *)
LEMMA RestPInv ==
  ASSUME IInv, PInv, NEW h \in Handlers,
         Start(h) \/ Reject(h) \/ Delete(h) \/ Lookup(h) \/ CheckExpiry(h) \/ Evict(h)
  PROVE  PInv'
<1>1. TypeOK /\ pc \in [Handlers -> Labels] /\ answer \in [Handlers -> Answer]
      /\ request \in [Handlers -> Request]
    BY DEF IInv, TypeOK
<1>2. executed' = executed /\ err' = err /\ done' = done /\ issued' = issued /\ holder' = holder
    BY DEF Start, Receive, Reject, Delete, Lookup, CheckExpiry, Evict, Remove, store, item
<1>3. ASSUME NEW r, Reply(h, Refused(r))
      PROVE  PInv'
    <2>1. /\ pc'[h] = "idle" /\ answer'[h] = Refused(r)
          /\ \A g \in Handlers \ {h} :
               pc'[g] = pc[g] /\ request'[g] = request[g] /\ answer'[g] = answer[g]
        BY <1>1, <1>3 DEF Reply, Goto
    <2>2. QED
        BY <1>2, <2>1, OthersPInv, SnapshotIsAnswer
<1>4. ASSUME NEW r, NEW label \in {"create", "delete", "lookup"}, Receive(h, r, label)
      PROVE  PInv'
    <2>1. /\ pc'[h] = label /\ answer'[h] = Refused("none")
          /\ \A g \in Handlers \ {h} :
               pc'[g] = pc[g] /\ request'[g] = request[g] /\ answer'[g] = answer[g]
        BY <1>1, <1>4 DEF Receive, Goto
    <2>2. QED
        BY <1>2, <2>1, OthersPInv, SnapshotIsAnswer
<1>5. ASSUME NEW label \in {"check", "evict", "wait"}, Goto(h, label),
             UNCHANGED <<request, answer>>
      PROVE  PInv'
    <2>1. pc'[h] = label /\ \A g \in Handlers \ {h} : pc'[g] = pc[g]
        BY <1>1, <1>5 DEF Goto
    <2>2. QED
        BY <1>2, <1>5, <2>1, OthersPInv
<1>6. CASE Start(h)
    BY <1>4, <1>6 DEF Start
<1>7. CASE Reject(h) \/ Delete(h) \/ Evict(h)
    BY <1>3, <1>7 DEF Reject, Delete, Evict
<1>8. CASE Lookup(h)
    BY <1>3, <1>5, <1>8 DEF Lookup
<1>9. CASE CheckExpiry(h)
    BY <1>5, <1>9 DEF CheckExpiry
<1>10. QED
    BY <1>6, <1>7, <1>8, <1>9

LEMMA AcquirePInv == ASSUME IInv, PInv, NEW h \in Handlers, Acquire(h) PROVE PInv'
<1>1. TypeOK /\ Sound(h) /\ pc[h] = "wait" /\ holder[Id(h)] = NoHandler
    BY DEF IInv, Acquire
<1>2. Id(h) \in Ids
    BY <1>1 DEF Sound, Reached, TypeOK
<1>3. /\ holder' = [holder EXCEPT ![Id(h)] = h] /\ request' = request /\ answer' = answer
      /\ executed' = executed /\ err' = err /\ done' = done /\ issued' = issued
      /\ pc'[h] = "drive" /\ \A g \in Handlers \ {h} : pc'[g] = pc[g]
    BY <1>1 DEF Acquire, Goto, store, TypeOK
<1>4. holder'[Id(h)'] = h
    BY <1>1, <1>2, <1>3 DEF TypeOK, Id
<1>5. \A g \in Handlers \ {h} : Driving(g) => holder'[Id(g)] = holder[Id(g)]
    <2>1. \A g \in Handlers \ {h} : Driving(g) => Id(g) # Id(h)
        BY <1>1, SessionsAssumption DEF PInv, Drivers
    <2>2. QED
        BY <1>1, <1>2, <1>3, <2>1 DEF TypeOK
<1>6. QED
    BY <1>3, <1>4, <1>5, OthersPInv

LEMMA NextPInv == IInv /\ PInv /\ [Next]_vars => PInv'
<1> SUFFICES ASSUME IInv, PInv, [Next]_vars PROVE PInv'
    OBVIOUS
<1>1. ASSUME UNCHANGED <<executed, err, done, issued, holder, pc, request, answer>>
      PROVE  PInv'
    BY <1>1 DEF PInv, Drivers, Past, Stepped, PausesDiffer, Driving, Paused, Over, Id
<1>2. CASE Tick \/ UNCHANGED vars \/ \E h \in Handlers : Cancel(h)
    BY <1>1, <1>2 DEF Tick, Cancel, vars, store, item
<1>3. ASSUME NEW h \in Handlers, Start(h) \/ Serve(h) \/ Acquire(h)
      PROVE  PInv'
    BY <1>3, CreatePInv, RestPInv, DrivePInv, FinishPInv, AcquirePInv DEF Serve
<1>4. QED
    BY <1>2, <1>3 DEF Next

(* No two handlers report the same pause of a session, whatever requests   *)
(* race for it: no step is lost to a client.                               *)
THEOREM StepsAreNotLost == Spec => []PausesDiffer
<1>1. Init => PInv
    <2>1. SUFFICES ASSUME Init PROVE PInv
        OBVIOUS
    <2>2. \A h \in Handlers : pc[h] = "idle" /\ ~Answered(answer[h])
        BY <2>1, SnapshotIsAnswer DEF Init
    <2>3. QED
        BY <2>2 DEF PInv, Drivers, Past, Stepped, PausesDiffer, Driving, Paused
<1>2. PInv => PausesDiffer
    BY DEF PInv
<1>3. QED
    BY InitIInv, NextIInv, NextPInv, <1>1, <1>2, PTL DEF Spec
-----------------------------------------------------------------------------
(***************************************************************************)
(* What clients know.  expires is what they expect of every session issued *)
(* (Known), and a request that is about to evict its session has seen it   *)
(* idle (Seen), even if another has refreshed it since.                    *)
(***************************************************************************)
Known == \A id \in issued : used[id] + TTL = expires[id]
Seen == \A h \in Handlers : pc[h] = "evict" => seenIdle[h]
Asked == \A h \in Handlers : pc[h] = "delete" => request[h].kind = "delete"

UInv ==
  /\ IInv
  /\ used \in [Ids -> Nat]
  /\ seenIdle \in [Handlers -> BOOLEAN]
  /\ Known /\ Seen /\ Asked

LEMMA OneEnds ==
  ASSUME IInv, NEW h \in Handlers, NEW a, Reply(h, a), pc[h] # "idle"
  PROVE  answer'[h] = a /\ clock' = clock /\ \A g \in Handlers : Ends(g) <=> g = h
BY DEF IInv, TypeOK, Reply, Goto, Ends

LEMMA NoneEnds ==
  ASSUME IInv, NEW h \in Handlers, NEW label, label # "idle", Goto(h, label)
  PROVE  \A g \in Handlers : ~Ends(g)
BY DEF IInv, TypeOK, Goto, Ends

(* What a step does to the answers and to expires. *)
Unanswered == (\A h \in Handlers : ~Ends(h)) /\ UNCHANGED <<issued, expires>>
Refuses(h) == ~Answered(answer'[h]) /\ UNCHANGED <<issued, expires>>
Refreshes(h, id) ==
  /\ answer'[h] = Snapshot(id)
  /\ issued' = issued \cup {id}
  /\ expires' = [expires EXCEPT ![id] = clock + TTL]
Answering(h) ==
  /\ clock' = clock
  /\ \A g \in Handlers : Ends(g) <=> g = h
  /\ Refuses(h) \/ \E id \in Ids : Refreshes(h, id)

LEMMA CreateAnswers ==
  ASSUME IInv, NEW h \in Handlers, Create(h)
  PROVE  Answering(h)
<1>1. pc[h] # "idle"
    BY DEF Create
<1>2. ASSUME NEW kept, NEW r, Decline(h, kept, r) PROVE Answering(h)
    <2>1. Reply(h, Refused(r)) /\ issued' = issued /\ expires' = expires
        BY <1>2 DEF Decline, item
    <2>2. QED
        BY <1>1, <2>1, OneEnds, SnapshotIsAnswer DEF Answering, Refuses
<1>3. ASSUME NEW kept, NEW id \in Ids, Admit(h, kept, id) PROVE Answering(h)
    <2>1. Reply(h, Snapshot(id)) /\ Refreshes(h, id)
        BY <1>1, <1>3, OneEnds DEF Admit, Refresh, Refreshes
    <2>2. QED
        BY <1>1, <2>1, OneEnds DEF Answering
<1>4. QED
    BY <1>2, <1>3 DEF Create

LEMMA ServeAnswers ==
  ASSUME IInv, NEW h \in Handlers, Serve(h)
  PROVE  Unanswered \/ Answering(h)
<1>1. ASSUME NEW r, pc[h] # "idle", Reply(h, Refused(r)), UNCHANGED <<issued, expires>>
      PROVE  Answering(h)
    BY <1>1, OneEnds, SnapshotIsAnswer DEF Answering, Refuses
<1>2. ASSUME NEW label, label # "idle", Goto(h, label), UNCHANGED <<issued, expires>>
      PROVE  Unanswered
    BY <1>2, NoneEnds DEF Unanswered
<1>3. CASE Reject(h)
    BY <1>1, <1>3 DEF Reject, store, item
<1>4. CASE Evict(h)
    BY <1>1, <1>4 DEF Evict, Remove, item
<1>5. CASE Delete(h)
    BY <1>1, <1>5 DEF Delete, Remove, item
<1>6. CASE Lookup(h)
    BY <1>1, <1>2, <1>6 DEF Lookup, store, item
<1>7. CASE CheckExpiry(h)
    <2>1. Goto(h, IF Expired(Id(h)) THEN "evict" ELSE "wait") /\ UNCHANGED <<issued, expires>>
        BY <1>7 DEF CheckExpiry, store, item
    <2>2. QED
        BY <1>2, <2>1
<1>8. CASE Drive(h)
    <2>1. Goto(h, IF request[h].kind = "step" THEN "finish" ELSE "drive")
          /\ UNCHANGED <<issued, expires>>
        BY <1>8 DEF Drive, store
    <2>2. QED
        BY <1>2, <2>1
<1>9. CASE Finish(h)
    <2>1. pc[h] # "idle" /\ Reply(h, Snapshot(Id(h))) /\ issued' = issued /\ Refresh(Id(h))
        BY <1>9 DEF Finish, store
    <2>2. Id(h) \in issued /\ issued \subseteq Ids
        BY <1>9 DEF IInv, TypeOK, Sound, Reached, Finish
    <2>3. Refreshes(h, Id(h))
        BY <2>1, <2>2, OneEnds DEF Refreshes, Refresh
    <2>4. QED
        BY <2>1, <2>2, <2>3, OneEnds DEF Answering
<1>10. CASE Create(h)
    BY <1>10, CreateAnswers
<1>11. QED
    BY <1>3, <1>4, <1>5, <1>6, <1>7, <1>8, <1>9, <1>10 DEF Serve

LEMMA StepAnswers ==
  ASSUME IInv, Next
  PROVE  Unanswered \/ \E h \in Handlers : Answering(h)
<1>1. CASE Tick
    BY <1>1 DEF Tick, Unanswered, Ends, store, item
<1>2. ASSUME NEW h \in Handlers, Start(h) \/ Cancel(h) \/ Acquire(h)
      PROVE  Unanswered
    <2>1. CASE Start(h)
        <3>1. \E label \in {"create", "delete", "lookup"} : Goto(h, label)
            BY <2>1 DEF Start, Receive
        <3>2. UNCHANGED <<issued, expires>>
            BY <2>1 DEF Start, Receive, store, item
        <3>3. QED
            BY <3>1, <3>2, NoneEnds DEF Unanswered
    <2>2. CASE Cancel(h)
        BY <2>2 DEF Cancel, Unanswered, Ends, store, item
    <2>3. CASE Acquire(h)
        BY <2>3, NoneEnds DEF Acquire, Unanswered, store
    <2>4. QED
        BY <1>2, <2>1, <2>2, <2>3
<1>3. QED
    BY <1>1, <1>2, ServeAnswers DEF Next

(* How a handler comes to evict, and to delete. *)
Comes(h, label) == pc'[h] = label /\ ~(pc[h] = label /\ request'[h] = request[h])

LEMMA StartComes ==
  ASSUME IInv, NEW g \in Handlers, Start(g), NEW h \in Handlers
  PROVE  /\ ~Comes(h, "evict")
         /\ Comes(h, "delete") => request'[h].kind = "delete"
<1>1. pc \in [Handlers -> Labels] /\ request \in [Handlers -> Request]
    BY DEF IInv, TypeOK
<1>2. ASSUME NEW r, NEW label \in {"create", "delete", "lookup"}, Receive(g, r, label),
             label = "delete" => r.kind = "delete"
      PROVE  /\ ~Comes(h, "evict")
             /\ Comes(h, "delete") => request'[h].kind = "delete"
    BY <1>1, <1>2 DEF Receive, Goto, Comes
<1>3. CASE Receive(g, [kind |-> "create"], "create")
    BY <1>2, <1>3
<1>4. ASSUME NEW kind \in Kinds, NEW id \in Ids,
             Receive(g, [kind |-> kind, id |-> id, gone |-> id \in issued \ sessions],
                     IF kind = "delete" THEN "delete" ELSE "lookup")
      PROVE  /\ ~Comes(h, "evict")
             /\ Comes(h, "delete") => request'[h].kind = "delete"
    <2>1. CASE kind = "delete"
        BY <1>2, <1>4, <2>1
    <2>2. CASE kind # "delete"
        BY <1>2, <1>4, <2>2
    <2>3. QED
        BY <2>1, <2>2
<1>5. QED
    BY <1>3, <1>4 DEF Start

LEMMA StepComes ==
  ASSUME IInv, Next, NEW h \in Handlers
  PROVE  /\ Comes(h, "evict") => CheckExpiry(h) /\ Expired(Id(h))
         /\ Comes(h, "delete") => request'[h].kind = "delete"
<1> DEFINE Right == /\ Comes(h, "evict") => CheckExpiry(h) /\ Expired(Id(h))
                    /\ Comes(h, "delete") => request'[h].kind = "delete"
<1>1. pc \in [Handlers -> Labels] /\ request \in [Handlers -> Request]
    BY DEF IInv, TypeOK
<1>2. ASSUME NEW g \in Handlers, NEW a, Reply(g, a) PROVE Right
    BY <1>1, <1>2 DEF Reply, Goto, Comes
<1>3. ASSUME NEW g \in Handlers, NEW label, label \notin {"evict", "delete"},
             Goto(g, label), request' = request
      PROVE  Right
    BY <1>1, <1>3 DEF Goto, Comes
<1>4. ASSUME NEW g \in Handlers, CheckExpiry(g) PROVE Right
    <2>1. CASE Expired(Id(g))
        BY <1>1, <1>4, <2>1 DEF CheckExpiry, Goto, Comes
    <2>2. CASE ~Expired(Id(g))
        BY <1>3, <1>4, <2>2 DEF CheckExpiry
    <2>3. QED
        BY <2>1, <2>2
<1>5. ASSUME Tick PROVE Right
    BY <1>5 DEF Tick, Comes
<1>6. ASSUME NEW g \in Handlers, Cancel(g) PROVE Right
    BY <1>6 DEF Cancel, Comes
<1>7. ASSUME NEW g \in Handlers, Acquire(g) PROVE Right
    BY <1>3, <1>7 DEF Acquire
<1>8. ASSUME NEW g \in Handlers, Drive(g) PROVE Right
    <2>1. \E label \in {"finish", "drive"} : Goto(g, label)
        BY <1>8 DEF Drive
    <2>2. QED
        BY <1>3, <1>8, <2>1 DEF Drive
<1>9. ASSUME NEW g \in Handlers, Serve(g), ~CheckExpiry(g), ~Drive(g) PROVE Right
    BY <1>2, <1>3, <1>9
    DEF Serve, Reject, Create, Admit, Decline, Delete, Lookup, Evict, Finish
<1>10. ASSUME NEW g \in Handlers, Start(g) PROVE Right
    BY <1>10, StartComes
<1> HIDE DEF Right
<1>11. Right
    BY <1>4, <1>5, <1>6, <1>7, <1>8, <1>9, <1>10 DEF Next
<1>12. QED
    BY <1>11 DEF Right

LEMMA UseInitUInv == UseInit => UInv
BY InitIInv DEF UseInit, Init, UInv, Known, Seen, Asked

LEMMA KnownKept == ASSUME UInv, UseNext PROVE Known' /\ used' \in [Ids -> Nat]
<1>1. /\ IInv /\ Next /\ issued \subseteq Ids /\ clock \in Nat /\ TTL \in Nat
      /\ expires \in [Ids -> Nat] /\ used \in [Ids -> Nat]
      /\ used' = [id \in Ids |->
                    IF \E h \in Handlers : Shows(h, id) THEN clock ELSE used[id]]
    BY SessionsAssumption DEF UInv, IInv, TypeOK, UseNext
<1>2. used' \in [Ids -> Nat]
    BY <1>1
<1>3. ASSUME NEW id \in issued', ~\E h \in Handlers : Shows(h, id),
             issued' = issued, expires' = expires
      PROVE  used'[id] + TTL = expires'[id]
    BY <1>1, <1>3 DEF UInv, Known
<1>4. CASE Unanswered
    BY <1>2, <1>3, <1>4 DEF Unanswered, Shows, Known
<1>5. ASSUME NEW h \in Handlers, Answering(h)
      PROVE  Known'
    <2>1. CASE Refuses(h)
        <3>1. \A id : ~\E g \in Handlers : Shows(g, id)
            BY <1>5, <2>1 DEF Answering, Refuses, Shows
        <3>2. QED
            BY <1>3, <2>1, <3>1 DEF Refuses, Known
    <2>2. ASSUME NEW id \in Ids, Refreshes(h, id)
          PROVE  Known'
        <3>1. Answered(answer'[h]) /\ answer'[h].id = id
            BY <2>2, SnapshotIsAnswer DEF Refreshes, Snapshot
        <3>2. \A other \in Ids : (\E g \in Handlers : Shows(g, other)) <=> other = id
            BY <1>5, <3>1 DEF Answering, Shows
        <3>3. used'[id] = clock /\ expires'[id] = clock + TTL
            BY <1>1, <2>2, <3>2 DEF Refreshes
        <3>4. ASSUME NEW other \in issued', other # id
              PROVE  used'[other] + TTL = expires'[other]
            <4>1. other \in issued /\ other \in Ids
                BY <1>1, <2>2, <3>4 DEF Refreshes
            <4>2. used'[other] = used[other] /\ expires'[other] = expires[other]
                BY <1>1, <2>2, <3>2, <3>4, <4>1 DEF Refreshes
            <4>3. QED
                BY <4>1, <4>2 DEF UInv, Known
        <3>5. QED
            BY <3>3, <3>4 DEF Known
    <2>3. QED
        BY <1>5, <2>1, <2>2 DEF Answering
<1>6. QED
    BY <1>1, <1>2, <1>4, <1>5, StepAnswers

LEMMA SeenKept == ASSUME UInv, UseNext PROVE Seen' /\ Asked'
<1>1. /\ IInv /\ Next /\ expires \in [Ids -> Nat] /\ used \in [Ids -> Nat]
      /\ used' = [id \in Ids |->
                    IF \E h \in Handlers : Shows(h, id) THEN clock ELSE used[id]]
      /\ seenIdle' = [h \in Handlers |-> pc'[h] \in Looking /\ (seenIdle[h] \/ Idle(Id(h))')]
    BY DEF UInv, IInv, TypeOK, UseNext
<1>2. Asked'
    BY <1>1, StepComes DEF UInv, Asked, Comes
<1>3. ASSUME NEW h \in Handlers, pc'[h] = "evict"
      PROVE  seenIdle'[h]
    <2>1. CASE pc[h] = "evict"
        BY <1>1, <1>3, <2>1 DEF UInv, Seen, Looking
    <2>2. CASE pc[h] # "evict"
        <3>1. CheckExpiry(h) /\ Expired(Id(h))
            BY <1>1, <1>3, <2>2, StepComes DEF Comes
        <3>2. Id(h) \in issued /\ issued \subseteq Ids
            BY <1>1, <3>1 DEF IInv, TypeOK, Sound, Reached, CheckExpiry
        <3>3. \A g \in Handlers : ~Ends(g)
            <4>1. Goto(h, IF Expired(Id(h)) THEN "evict" ELSE "wait")
                BY <3>1 DEF CheckExpiry
            <4>2. QED
                BY <1>1, <3>1, <4>1, NoneEnds
        <3>4. used'[Id(h)] = used[Id(h)] /\ clock' = clock /\ request' = request
            BY <1>1, <3>1, <3>2, <3>3 DEF CheckExpiry, Shows
        <3>5. clock > used[Id(h)] + TTL
            BY <3>1, <3>2 DEF UInv, Known, Expired
        <3>6. Idle(Id(h))'
            BY <3>4, <3>5 DEF Idle, Id
        <3>7. QED
            BY <1>1, <1>3, <3>6 DEF Looking
    <2>3. QED
        BY <2>1, <2>2
<1>4. QED
    BY <1>2, <1>3 DEF Seen

LEMMA UseNextUInv == UInv /\ [UseNext]_useVars => UInv'
<1>1. ASSUME UInv, UseNext PROVE UInv'
    <2>1. IInv'
        BY <1>1, NextIInv DEF UInv, UseNext
    <2>2. seenIdle' \in [Handlers -> BOOLEAN]
        <3>1. \A h \in Handlers : seenIdle[h] \in BOOLEAN
            BY <1>1 DEF UInv
        <3>2. QED
            BY <1>1, <3>1 DEF UseNext, Idle
    <2>3. QED
        BY <1>1, <2>1, <2>2, KnownKept, SeenKept DEF UInv
<1>2. ASSUME UInv, UNCHANGED useVars PROVE UInv'
    <2>1. IInv' /\ UNCHANGED vars /\ used' = used /\ seenIdle' = seenIdle
        BY <1>2, NextIInv DEF UInv, useVars
    <2>2. QED
        BY <1>2, <2>1 DEF UInv, Known, Seen, Asked, vars, store, item
<1>3. QED
    BY <1>1, <1>2

(* For a session the clients' time to live is the manager's. *)
LEMMA IdleIsExpired ==
  ASSUME UInv, NEW id \in issued
  PROVE  Idle(id) <=> Expired(id)
BY DEF UInv, Known, Idle, Expired

(* A session is lost only if it is idle, its client deletes it, or it was  *)
(* idle while the request that evicts it was under way.                    *)
LEMMA LostIfUnused ==
  ASSUME UInv, Next, NEW id \in sessions \ sessions'
  PROVE  Idle(id) \/ \E h \in Handlers : GivesUp(h, id)
<1>1. IInv /\ TypeOK /\ id \in issued
    BY DEF UInv, IInv, TypeOK
<1>2. ASSUME NEW h \in Handlers, Create(h) PROVE Idle(id)
    <2>1. Unexpired \subseteq sessions'
        BY <1>2 DEF Create, Admit, Decline
    <2>2. QED
        BY <1>1, <2>1, IdleIsExpired DEF Unexpired
<1>3. ASSUME NEW h \in Handlers, Evict(h) \/ Delete(h) PROVE GivesUp(h, id)
    <2>1. pc[h] \in {"evict", "delete"} /\ Id(h) = id
        BY <1>3 DEF Evict, Delete, Remove
    <2>2. Ends(h)
        BY <1>1, <1>3, <2>1 DEF Evict, Delete, Reply, Goto, Ends, TypeOK
    <2>3. request[h].kind \in Kinds
        BY <1>1, <2>1 DEF IInv, Sound, Reached
    <2>4. request[h].kind = "delete" \/ seenIdle[h]
        BY <2>1 DEF UInv, Seen, Asked
    <2>5. QED
        BY <2>1, <2>2, <2>3, <2>4 DEF GivesUp
<1>4. \E h \in Handlers : Create(h) \/ Evict(h) \/ Delete(h)
    BY DEF Next, Tick, Start, Receive, Cancel, Acquire, Serve, Reject, Lookup,
           CheckExpiry, Drive, Finish, store
<1>5. QED
    BY <1>2, <1>3, <1>4

(* The limit is told only by Create, and after its sweep. *)
LEMMA LimitOnlyForUse ==
  ASSUME UInv, Next, NEW h \in Handlers, Ends(h), answer'[h] = Refused("limit")
  PROVE  Cardinality({id \in sessions' : ~Idle(id)}) >= Maximum
<1>1. IInv /\ answer \in [Handlers -> Answer] /\ pc \in [Handlers -> Labels]
    BY DEF UInv, IInv, TypeOK
<1>2. Serve(h) /\ ~CheckExpiry(h) /\ pc[h] # "idle" /\ pc'[h] = "idle"
    BY <1>1, EndOfRequest DEF Ends
<1>3. \A a : Reply(h, a) => a = Refused("limit")
    BY <1>1 DEF Reply
<1>4. \A id : ~Reply(h, Snapshot(id))
    BY <1>3, SnapshotIsAnswer
<1>5. \A r \in {"rejected", "not_found", "deleted"} : ~Reply(h, Refused(r))
    BY <1>3, RefusalsDiffer
<1>6. ~Reject(h) /\ ~Delete(h) /\ ~Evict(h) /\ ~Finish(h)
    BY <1>4, <1>5 DEF Reject, Delete, Evict, Finish
<1>7. ~Lookup(h)
    BY <1>1, <1>2, <1>5 DEF Lookup, Goto
<1>8. ~Drive(h)
    BY <1>1, <1>2 DEF Drive, Goto
<1>9. Create(h)
    BY <1>2, <1>6, <1>7, <1>8 DEF Serve
<1>10. sessions' = Unexpired /\ Cardinality(Unexpired) >= Maximum
    BY <1>4, <1>5, <1>9 DEF Create, Admit, Decline
<1>11. {id \in Unexpired : ~Idle(id)} = Unexpired
    <2>1. sessions \subseteq issued
        BY <1>1 DEF IInv, TypeOK
    <2>2. QED
        BY <2>1, IdleIsExpired DEF Unexpired
<1>12. QED
    BY <1>10, <1>11

(* Whatever requests race, a session is lost only through disuse or to its *)
(* client's own request, and a creation is refused only when sessions in   *)
(* use leave no room.                                                      *)
THEOREM UseIsWhatCounts == UseSpec => UseDecides
<1> DEFINE decides ==
      /\ \A id \in sessions \ sessions' : Idle(id) \/ \E h \in Handlers : GivesUp(h, id)
      /\ \A h \in Handlers :
           Ends(h) /\ answer'[h] = Refused("limit") =>
             Cardinality({id \in sessions' : ~Idle(id)}) >= Maximum
<1>1. UInv /\ [UseNext]_useVars => [decides]_useVars
    BY LostIfUnused, LimitOnlyForUse DEF UseNext
<1>2. QED
    BY UseInitUInv, UseNextUInv, <1>1, PTL DEF UseSpec, UseDecides
=============================================================================
