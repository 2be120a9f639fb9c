------------------------------ MODULE MCServe ------------------------------
(* Instances of module Serve, with the values of config.Default.           *)
EXTENDS Serve

Defaults == [MaxStack |-> 4096, MaxFrames |-> 64, MaxSteps |-> 1000000,
             MaxOutputBytes |-> 262144, MaxSessions |-> 64]
SomeSettings == {Unset, NotANumber, -1, 0, 63, 5000}
=============================================================================
