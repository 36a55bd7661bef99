----------------------------- MODULE BatchQueue -----------------------------
(***************************************************************************)
(* What the batch engine promises to the sessions, whatever its threads    *)
(* do: a batch that was submitted is answered once, the batches are        *)
(* answered in the order they were submitted in, and a session is told of  *)
(* the answer to the batch it submitted last.                              *)
(***************************************************************************)
EXTENDS Sequences

CONSTANT Session

VARIABLES
  pending,  \* the sessions whose batch is not answered, the oldest first
  status    \* "idle", "pending" or "answered" for every session

bqVars == <<pending, status>>

BQInit ==
  /\ pending = <<>>
  /\ status = [s \in Session |-> "idle"]

Submit(s) ==
  /\ status[s] = "idle"
  /\ pending' = Append(pending, s)
  /\ status' = [status EXCEPT ![s] = "pending"]

Serve ==
  /\ pending # <<>>
  /\ pending' = Tail(pending)
  /\ status' = [status EXCEPT ![Head(pending)] = "answered"]

Take(s) ==
  /\ status[s] = "answered"
  /\ status' = [status EXCEPT ![s] = "idle"]
  /\ UNCHANGED pending

BQNext ==
  \/ \E s \in Session : Submit(s) \/ Take(s)
  \/ Serve

BQSafety == BQInit /\ [][BQNext]_bqVars

(* Batches keep being served and answers keep being taken.                 *)
BQSpec ==
  /\ BQSafety
  /\ WF_bqVars(Serve)
  /\ \A s \in Session : WF_bqVars(Take(s))

=============================================================================
