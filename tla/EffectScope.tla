---------------------------- MODULE EffectScope ----------------------------
(***************************************************************************)
(* What the incident control plane promises about one effect scope (one    *)
(* operation on one version of a case): at most one command holds it, only *)
(* the holder writes the effect, and a scope whose effect has begun is     *)
(* never given to anyone else.                                             *)
(***************************************************************************)
CONSTANTS Commands, None

VARIABLES holder, writer

Init == holder = None /\ writer = None

Acquire(c) == holder = None /\ holder' = c /\ UNCHANGED writer

Release == holder # None /\ writer = None /\ holder' = None /\ UNCHANGED writer

Write == holder # None /\ writer = None /\ writer' = holder /\ UNCHANGED holder

Next == (\E c \in Commands : Acquire(c)) \/ Release \/ Write

Spec == Init /\ [][Next]_<<holder, writer>>
=============================================================================
