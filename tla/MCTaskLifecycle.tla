--------------------------- MODULE MCTaskLifecycle ---------------------------
(***************************************************************************)
(* Model checking instance of TaskLifecycle: two tasks, one of which may    *)
(* replace the other after a crash, and two processes.                      *)
(***************************************************************************)
EXTENDS TaskLifecycle, TLC

\* Tasks are interchangeable, and so are processes.
Symmetry == Permutations(Tasks) \cup Permutations(Procs)
=============================================================================
