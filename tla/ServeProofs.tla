----------------------------- MODULE ServeProofs -----------------------------
(***************************************************************************)
(* Proofs that a server which has started enforces the limits its          *)
(* environment sets, and that it exits with 0 and cuts requests only when  *)
(* told to, for any settings, requests and signals.                        *)
(*                                                                         *)
(* The configuration is that of Load from the moment main goes on, and the *)
(* knowledge that a signal was sent travels with the channel done (queued) *)
(* to Shutdown (inShutdown), and from there to the exit code.              *)
(***************************************************************************)
EXTENDS Serve, TLAPS

Started == main \in {"loaded", "notified", "bound", "serving"}

Usable ==
  /\ \A name \in Names : env[name] # Unset => cfg[name] = env[name]
  /\ cfg["MaxFrames"] \in Nat \ {0} /\ cfg["MaxStack"] \in Nat \ {0}
  /\ cfg["MaxFrames"] <= cfg["MaxStack"]

Told ==
  /\ signals \in Nat /\ requests \in [Requests -> {"none", "served", "answered", "cut"}]
  /\ queued => signals > 0
  /\ inShutdown => signals > 0
  /\ exit = 0 => inShutdown
  /\ \A r \in Requests : requests[r] = "cut" => main = "exited" /\ (inShutdown \/ exit = 74)

IInv ==
  /\ env \in [Names -> Settings]
  /\ Started => Usable
  /\ Told

(* What Load makes of settings that are not Bad. *)
LEMMA LoadedIsUsable ==
  ASSUME env \in [Names -> Settings], NEW name \in Names, ~Bad(name)
  PROVE  /\ Loaded[name] \in Nat \ {0}
         /\ env[name] # Unset => Loaded[name] = env[name]
<1>1. Loaded[name] = IF env[name] = Unset THEN Default[name] ELSE env[name]
  BY DEF Loaded
<1>2. CASE env[name] = Unset
  BY <1>1, <1>2, ServeAssumption
<1>3. CASE env[name] # Unset
  <2>1. env[name] \in Int \cup {Unset, NotANumber}
    BY ServeAssumption
  <2>2. env[name] \in Int /\ ~(env[name] <= 0)
    BY <1>3, <2>1 DEF Bad
  <2> QED  BY <1>1, <1>3, <2>2
<1> QED  BY <1>2, <1>3

LEMMA ReturnTells ==
  ASSUME IInv, NEW code, Return(code), code = 74 \/ (code = 0 /\ inShutdown)
  PROVE  IInv'
<1>1. ~Started'
  BY DEF Return, Started
<1>2. Told'
  BY DEF IInv, Told, Return
<1> QED  BY <1>1, <1>2 DEF IInv, Return

(* A step that lets main be, or ends it without an exit code.              *)
LEMMA AsideTells ==
  ASSUME IInv, UNCHANGED <<env, cfg, exit>>, main' = main \/ main' = "exited",
         requests' \in [Requests -> {"none", "served", "answered", "cut"}],
         \A r \in Requests : requests'[r] = "cut" => requests[r] = "cut",
         signals' \in Nat, signals <= signals', inShutdown => inShutdown',
         queued' => signals' > 0, inShutdown' => signals' > 0
  PROVE  IInv'
<1>1. Started' => Started
  BY DEF Started
<1>2. Usable' <=> Usable
  BY DEF Usable
<1>3. Told'
  BY DEF IInv, Told
<1> QED  BY <1>1, <1>2, <1>3 DEF IInv

LEMMA MainTells == ASSUME IInv, Main \/ StopServing PROVE IInv'
<1>1. CASE Load
  <2>1. CASE Return(74)
    BY <2>1, ReturnTells
  <2>2. CASE ~((\E name \in Names : Bad(name)) \/ Loaded["MaxFrames"] > Loaded["MaxStack"])
             /\ cfg' = Loaded /\ Go("loaded")
    <3>1. \A name \in Names :
            Loaded[name] \in Nat \ {0} /\ (env[name] # Unset => Loaded[name] = env[name])
      BY <2>2, LoadedIsUsable DEF IInv
    <3>2. "MaxFrames" \in Names /\ "MaxStack" \in Names
      BY DEF Names
    <3>3. env' = env /\ cfg' = Loaded
      BY <2>2 DEF Go
    <3>4. Loaded["MaxFrames"] <= Loaded["MaxStack"]
      BY <2>2, <3>1, <3>2
    <3>5. Usable'
      BY <3>1, <3>2, <3>3, <3>4 DEF Usable
    <3>6. Told'
      BY <1>1, <2>2 DEF IInv, Told, Go, Load
    <3> QED  BY <3>3, <3>5, <3>6 DEF IInv
  <2> QED  BY <1>1, <2>1, <2>2 DEF Load
<1>2. ASSUME NEW label, Go(label), UNCHANGED cfg, Started, main # "exited"
      PROVE  IInv'
  BY <1>2 DEF IInv, Told, Usable, Go
<1>3. CASE Notify \/ Listen \/ Serve
  BY <1>2, <1>3, ReturnTells DEF Notify, Listen, Serve, Started
<1>4. CASE StopServing
  BY <1>4, ReturnTells DEF StopServing
<1> QED  BY <1>1, <1>3, <1>4 DEF Main

LEMMA NextIInv == IInv /\ [Next]_vars => IInv'
<1> SUFFICES ASSUME IInv, [Next]_vars PROVE IInv'
  OBVIOUS
<1>1. Told
  BY DEF IInv
<1>2. CASE Signal
  BY <1>1, <1>2, AsideTells DEF Signal, Told
<1>3. CASE Wait \/ Shutdown \/ ShutdownReturns
  BY <1>1, <1>3, AsideTells DEF Wait, Shutdown, ShutdownReturns, Stopper, Told
<1>4. ASSUME NEW r \in Requests, Accept(r) \/ Answer(r)
      PROVE  IInv'
  <2>1. /\ requests' \in [Requests -> {"none", "served", "answered", "cut"}]
        /\ \A q \in Requests : requests'[q] = "cut" => requests[q] = "cut"
    BY <1>1, <1>4 DEF Accept, Answer, Told
  <2> QED  BY <1>1, <1>4, <2>1, AsideTells DEF Accept, Answer, Told
<1>5. CASE UNCHANGED vars
  BY <1>1, <1>5, AsideTells DEF vars, Told
<1> QED  BY <1>2, <1>3, <1>4, <1>5, MainTells DEF Next

LEMMA InitIInv == Init => IInv
BY DEF Init, IInv, Started, Told

(* What an operator sets is what the machines of a started server enforce. *)
THEOREM LimitsAreInForce == Spec => []LimitsInForce
<1>1. IInv => LimitsInForce
  BY DEF IInv, Started, Usable, LimitsInForce, Enforced
<1> QED  BY <1>1, InitIInv, NextIInv, PTL DEF Spec

(* Exit code 0 and requests cut without an error tell of a signal.         *)
THEOREM ExitIsTold == Spec => []ExitTells
<1>1. IInv => ExitTells
  BY DEF IInv, Told, ExitTells
<1> QED  BY <1>1, InitIInv, NextIInv, PTL DEF Spec
=============================================================================
