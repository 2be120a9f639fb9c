------------------------------ MODULE Machine ------------------------------
(***************************************************************************)
(* What the callers of package vm rely on: a machine is prepared once, is  *)
(* stepped at most limit times, and ends done or failed.  Module VM        *)
(* implements it; module Sessions uses one machine for each session.       *)
(***************************************************************************)
EXTENDS Naturals

CONSTANT StepLimits          \* the values Limits.MaxSteps may have

VARIABLE machine

New(limit) == [limit |-> limit, executed |-> 0, status |-> "new"]

Init == machine \in {New(limit) : limit \in StepLimits}

(* Prepare: the machine can run, or the function was refused. *)
Prepare(m) ==
  {[m EXCEPT !.status = s] : s \in {status \in {"running", "failed"} : m.status = "new"}}

(* Step, when it executes an instruction. *)
Execute(m) ==
  {[limit |-> m.limit, executed |-> m.executed + 1, status |-> s] :
     s \in {status \in {"running", "done", "failed"} :
              m.status = "running" /\ m.executed < m.limit}}

(* Step, when it fails before the instruction. *)
Refuse(m) == {[m EXCEPT !.status = s] : s \in {status \in {"failed"} : m.status = "running"}}

Next == machine' \in Prepare(machine) \cup Execute(machine) \cup Refuse(machine)

Safety == Init /\ [][Next]_machine

Spec == Safety /\ WF_machine(Next)
=============================================================================
