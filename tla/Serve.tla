------------------------------- MODULE Serve -------------------------------
(***************************************************************************)
(* The command serve of cmd/stackbyte: the configuration read from the     *)
(* environment (internal/config), the limits it puts into force, and the   *)
(* life of the server until a signal or an error stops it.                 *)
(*                                                                         *)
(* Two goroutines: main, in ListenAndServe, and stopper, which waits for a *)
(* signal and calls Shutdown.  Every accepted request has a goroutine of   *)
(* its own, and all of them end when main returns.                         *)
(***************************************************************************)
EXTENDS Integers

CONSTANTS Settings,       \* the values of the environment's variables
          Unset, NotANumber,
          Default,        \* config.Default
          Requests,       \* requests that may come in
          MaxSignals      \* how many signals may be sent

Names == {"MaxStack", "MaxFrames", "MaxSteps", "MaxOutputBytes", "MaxSessions"}

ASSUME ServeAssumption ==
  /\ Default \in [Names -> Nat \ {0}] /\ Default["MaxFrames"] <= Default["MaxStack"]
  /\ Settings \subseteq Int \cup {Unset, NotANumber}
  /\ {Unset, NotANumber} \cap Int = {}
  /\ MaxSignals \in Nat

VARIABLES env, cfg,
          main, exit,             \* where main is, and the exit code
          stopper,                \* where the goroutine that waits for a signal is
          signals,                \* signals sent so far
          queued,                 \* the channel done holds one
          inShutdown,             \* Shutdown has begun and closed the listener
          requests                \* each request: none, served, answered or cut
vars == <<env, cfg, main, exit, stopper, signals, queued, inShutdown, requests>>

Init ==
  /\ env \in [Names -> Settings] /\ cfg = Default
  /\ main = "load" /\ exit = -1
  /\ stopper = "none" /\ signals = 0 /\ queued = FALSE /\ inShutdown = FALSE
  /\ requests = [r \in Requests |-> "none"]
-----------------------------------------------------------------------------
(* Load: every variable that is set must be a positive integer. *)
BadUnlessNumber(name) == env[name] = NotANumber

Bad(name) == env[name] # Unset /\ (env[name] = NotANumber \/ env[name] <= 0)

Loaded == [name \in Names |-> IF env[name] = Unset THEN Default[name] ELSE env[name]]

(* main returns: the process exits and cuts every request it is serving.   *)
Return(code) ==
  /\ main' = "exited" /\ exit' = code
  /\ requests' = [r \in Requests |-> IF requests[r] = "served" THEN "cut" ELSE requests[r]]
  /\ UNCHANGED <<env, stopper, signals, queued, inShutdown>>

Go(label) == main' = label /\ UNCHANGED <<env, exit, signals, queued, inShutdown, requests>>

Load ==
  /\ main = "load"
  /\ IF (\E name \in Names : Bad(name)) \/ Loaded["MaxFrames"] > Loaded["MaxStack"]
     THEN Return(74) /\ UNCHANGED cfg
     ELSE cfg' = Loaded /\ Go("loaded") /\ UNCHANGED stopper

(* signal.Notify, and go func. *)
Notify ==
  /\ main = "loaded"
  /\ Go("notified") /\ stopper' = "started" /\ UNCHANGED cfg

(* ListenAndServe: it returns at once if Shutdown has begun; it binds the  *)
(* address, or fails; Serve then checks again before it accepts.           *)
Listen ==
  /\ main = "notified"
  /\ \/ inShutdown /\ Return(0)
     \/ ~inShutdown /\ Return(74)
     \/ ~inShutdown /\ Go("bound") /\ UNCHANGED stopper
  /\ UNCHANGED cfg

Serve ==
  /\ main = "bound"
  /\ IF inShutdown THEN Return(0) ELSE Go("serving") /\ UNCHANGED stopper
  /\ UNCHANGED cfg

(* Accept fails: with ErrServerClosed once the listener is closed.         *)
StopServingQuietly ==
  /\ main = "serving"
  /\ Return(0)
  /\ UNCHANGED cfg

StopServing ==
  /\ main = "serving"
  /\ Return(IF inShutdown THEN 0 ELSE 74)
  /\ UNCHANGED cfg
-----------------------------------------------------------------------------
Accept(r) ==
  /\ main = "serving" /\ ~inShutdown
  /\ requests[r] = "none"
  /\ requests' = [requests EXCEPT ![r] = "served"]
  /\ UNCHANGED <<env, cfg, main, exit, stopper, signals, queued, inShutdown>>

Answer(r) ==
  /\ main # "exited"
  /\ requests[r] = "served"
  /\ requests' = [requests EXCEPT ![r] = "answered"]
  /\ UNCHANGED <<env, cfg, main, exit, stopper, signals, queued, inShutdown>>

(* A signal: it kills a process that has not called Notify; otherwise it   *)
(* is put into the channel, which has room for one, or dropped.            *)
SignalUnbuffered ==
  /\ main # "exited" /\ signals < MaxSignals
  /\ signals' = signals + 1
  /\ IF stopper = "none"
     THEN main' = "exited" /\ UNCHANGED queued
     ELSE queued' = (queued \/ stopper = "waiting") /\ UNCHANGED main
  /\ UNCHANGED <<env, cfg, exit, stopper, inShutdown, requests>>

Signal ==
  /\ main # "exited" /\ signals < MaxSignals
  /\ signals' = signals + 1
  /\ IF stopper = "none"
     THEN main' = "exited" /\ UNCHANGED queued
     ELSE queued' = TRUE /\ UNCHANGED main
  /\ UNCHANGED <<env, cfg, exit, stopper, inShutdown, requests>>

Stopper(from, to) ==
  /\ main # "exited"
  /\ stopper = from /\ stopper' = to
  /\ UNCHANGED <<env, cfg, main, exit, signals, requests>>

Wait == Stopper("started", "waiting") /\ UNCHANGED <<queued, inShutdown>>

Shutdown ==
  /\ Stopper("waiting", "draining")
  /\ queued /\ queued' = FALSE
  /\ inShutdown' = TRUE

(* Shutdown returns when no request is served or after five seconds.       *)
ShutdownReturns ==
  /\ Stopper("draining", "done")
  /\ UNCHANGED <<queued, inShutdown>>

Main == Load \/ Notify \/ Listen \/ Serve
Next ==
  \/ Main \/ StopServing \/ Wait \/ Shutdown \/ ShutdownReturns \/ Signal
  \/ \E r \in Requests : Accept(r) \/ Answer(r)

(* Every goroutine runs on, but no request has to be answered, and Accept  *)
(* has to fail only when its listener is closed.                           *)
Fairness ==
  /\ WF_vars(Main) /\ WF_vars(Wait) /\ WF_vars(Shutdown)
  /\ WF_vars(inShutdown /\ StopServing)

Spec == Init /\ [][Next]_vars /\ Fairness
-----------------------------------------------------------------------------
(* vm.New: what the machines enforce. *)
Enforced == IF cfg["MaxStack"] <= 0 THEN Default ELSE cfg

(* What an operator sets is what the machines enforce, and every machine   *)
(* of a server that has started has room for a program to begin.           *)
LimitsInForce ==
  main \in {"notified", "bound", "serving"} =>
    /\ \A name \in Names : env[name] # Unset => Enforced[name] = env[name]
    /\ 1 <= Enforced["MaxFrames"] /\ Enforced["MaxFrames"] <= Enforced["MaxStack"]

(* The process ends with 0 only because it was told to, and cuts a request *)
(* only when it was told to stop or tells of an error.                     *)
ExitTells ==
  /\ exit = 0 => inShutdown /\ signals > 0
  /\ \A r \in Requests : requests[r] = "cut" => inShutdown \/ exit = 74

(* A signal stops the server, whenever it comes and however long the       *)
(* requests take.                                                          *)
SignalStops == signals > 0 ~> main = "exited"
=============================================================================
