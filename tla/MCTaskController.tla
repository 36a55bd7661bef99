------------------------- MODULE MCTaskController -------------------------
(***************************************************************************)
(* Two workers and two sessions for TLC.  They are interchangeable, but    *)
(* the runs check liveness and a refinement and so use no symmetry.        *)
(***************************************************************************)
EXTENDS TaskController

CONSTANTS w1, w2, s1, s2

TwoWorkers == {w1, w2}
TwoSessions == {s1, s2}

=============================================================================
