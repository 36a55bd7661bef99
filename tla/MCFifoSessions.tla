-------------------------- MODULE MCFifoSessions --------------------------
(* Two clients that start at the same time; one client at any place of     *)
(* which the server is stopped, or which may be interrupted; and a client  *)
(* that may die, of a server that crashes and is started again, after      *)
(* which another client comes.                                             *)
EXTENDS FifoSessions, TLC

CONSTANTS c1, c2

Two == {c1, c2}
One == {c1}
Alike == Permutations(Two)

TwiceTwo ==
  {[clients |-> Two, requests |-> 2, interrupted |-> Two, killed |-> Two,
    stop |-> FALSE, crash |-> FALSE, after |-> {}]}
CalmStoppedOrCrashed ==
  {[clients |-> Two, requests |-> 1, interrupted |-> {}, killed |-> {},
    stop |-> FALSE, crash |-> FALSE, after |-> {}],
   [clients |-> One, requests |-> 2, interrupted |-> {}, killed |-> {},
    stop |-> TRUE, crash |-> FALSE, after |-> {}],
   [clients |-> One, requests |-> 2, interrupted |-> One, killed |-> {},
    stop |-> FALSE, crash |-> FALSE, after |-> {}],
   [clients |-> Two, requests |-> 1, interrupted |-> {}, killed |-> One,
    stop |-> FALSE, crash |-> TRUE, after |-> {c2}]}

=============================================================================
