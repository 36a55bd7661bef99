--------------------------- MODULE MCTaskBuilder ---------------------------
(* Instances of TaskBuilder for TLC.                                       *)
EXTENDS TaskBuilder

EveryFault == {"open", "build", "blank", "send"}

=============================================================================
