--------------------------- MODULE MCTcpSessions ---------------------------
(* Two clients, of which the first may be interrupted or die, or has two   *)
(* requests that may fail; a server that is stopped while the first sends  *)
(* without end; a heartbeat that is late twice; and a server that fails to *)
(* start.                                                                  *)
EXTENDS TcpSessions

CONSTANTS c1, c2

Two == {c1, c2}
Nobody == {}

Calm(requests, beats) ==
  [requests |-> requests, beats |-> beats, endless |-> Nobody, beating |-> {c1},
   interrupted |-> Nobody, killed |-> Nobody, faulty |-> Nobody, slow |-> Nobody,
   stop |-> FALSE, fails |-> FALSE]

TroubleOrStop ==
  {[Calm(1, 1) EXCEPT !.interrupted = {c1}, !.killed = {c1}],
   [Calm(2, 1) EXCEPT !.faulty = {c1}],
   [Calm(1, 1) EXCEPT !.endless = {c1}, !.stop = TRUE],
   [Calm(1, 2) EXCEPT !.slow = {c1}],
   [Calm(1, 1) EXCEPT !.beating = Nobody, !.fails = TRUE]}

=============================================================================
