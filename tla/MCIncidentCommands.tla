------------------------- MODULE MCIncidentCommands -------------------------
(* Model checking instance of IncidentCommands: where each thread runs. *)
EXTENDS IncidentCommands, TLC

CONSTANTS p1, p2, h1, h2

TwoHosts == p1 :> h1 @@ p2 :> h2

\* Threads trade places together with their processes.
Swap == p1 :> p2 @@ p2 :> p1 @@ h1 :> h2 @@ h2 :> h1
Symmetry == {Swap} \cup Permutations(Bindings) \cup Permutations(Decides \ Stale)
            \cup Permutations(Resumes \ Stale)
=============================================================================
