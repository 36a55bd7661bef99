--------------------------- MODULE TaskController ---------------------------
(***************************************************************************)
(* The batch engine of the server (src/TaskController.cpp, src/Task.cpp).  *)
(*                                                                         *)
(* Every session owns one Task and reuses it for each batch of requests:   *)
(* it rewrites the Task (Task::update), pushes it on the controller's      *)
(* queue and blocks on the Task's promise.  All the workers of the pool    *)
(* process one Task at a time, in two rounds separated by a std::barrier:  *)
(* PREPROCESSTASK computes the sort key of every request, PROCESSTASK      *)
(* computes every response.  The completion function of the barrier moves  *)
(* the controller from round to round: it sorts, or it fulfils the promise *)
(* and blocks until the next Task arrives.                                 *)
(*                                                                         *)
(* Data is abstracted to its age: the text of a batch is the number of the *)
(* batch in its session, a size key is the number of the batch it was      *)
(* computed from, a response is the pair of the batch it answers and of    *)
(* the batch of the key it was computed with.                              *)
(*                                                                         *)
(* Some helpers come after a faulty variant of themselves, such as         *)
(* WakeUpDeaf before WakeUp: a fault that the properties must tell from    *)
(* the code.  No action uses the variants.                                 *)
(***************************************************************************)
EXTENDS Integers, Sequences

CONSTANTS
  Worker,      \* the threads of TaskController::_threadPool
  Session,     \* the sessions; each stands for its Task too
  EmptyTask,   \* the Task the constructor of the controller starts with
  MaxSize,     \* bound: requests of a batch
  MaxBatches,  \* bound: batches a session submits
  SortInput    \* ServerOptions::_policyEnum = POLICYENUM::SORTINPUT

ASSUME ConstantsAssumption ==
  /\ Worker # {}
  /\ EmptyTask \notin Session
  /\ MaxSize \in Nat
  /\ MaxBatches \in Nat
  /\ SortInput \in BOOLEAN

VARIABLES
  phase,     \* TaskController::_phase
  task,      \* TaskController::_task
  queue,     \* TaskController::_queue
  stopped,   \* TaskController::_stopped
  index,     \* Task::_index of every Task
  size,      \* Task::_size
  batch,     \* the batch whose text the Task holds, 0 before the first
  key,       \* Request::_sizeKey of every row, as the batch it comes from
  sorted,    \* Task::_sortedIndices
  response,  \* Task::_response
  promise,   \* Task::_promise: was set_value called on it
  wpc,       \* where every worker is in Worker::run
  widx,      \* the local index of preprocessNext and processNext
  bpc,       \* where the completion function of the barrier is
  spc        \* where every session is in its loop

ctrl == <<phase, task, queue, stopped, bpc>>
data == <<size, batch, key, sorted, response, promise>>
vars == <<ctrl, data, index, wpc, widx, spc>>

Task == Session \union {EmptyTask}
Row == 0 .. MaxSize - 1
Batch == 0 .. MaxBatches
Answer == [batch : Batch, key : Batch]
NoAnswer == [batch |-> 0, key |-> 0]

Rows(t) == {i \in Row : i < size[t]}

(* The row the claim i stands for: processNext goes through the sorted     *)
(* indices only under SORTINPUT.                                           *)
OrgIndex(t, i) == IF SortInput THEN sorted[t][i] ELSE i

(* _phase is a static member that no constructor resets: a controller      *)
(* created after one that was stopped between its two first rounds starts  *)
(* with PROCESSTASK.                                                       *)
Init ==
  /\ phase \in {"PREPROCESSTASK", "PROCESSTASK"}
  /\ task = EmptyTask
  /\ queue = <<>>
  /\ stopped = FALSE
  /\ index = [t \in Task |-> 0]
  /\ size = [t \in Task |-> 0]
  /\ batch = [t \in Task |-> 0]
  /\ key = [t \in Task |-> [i \in Row |-> 0]]
  /\ sorted = [t \in Task |-> [i \in Row |-> i]]
  /\ response = [t \in Task |-> [i \in Row |-> NoAnswer]]
  /\ promise = [t \in Task |-> FALSE]
  /\ wpc = [w \in Worker |-> "check"]
  /\ widx = [w \in Worker |-> 0]
  /\ bpc = "idle"
  /\ spc = [s \in Session |-> "idle"]

-----------------------------------------------------------------------------
(* Worker::run.  A worker reads _phase after _stopped and twice; it cannot *)
(* change under a worker that has not arrived, so the reads are one step.  *)

Continue(w) ==
  /\ wpc[w] = "check"
  /\ ~stopped
  /\ wpc' = [wpc EXCEPT ![w] = "claim"]
  /\ UNCHANGED <<ctrl, data, index, widx, spc>>

Exit(w) ==
  /\ wpc[w] = "check"
  /\ stopped
  /\ wpc' = [wpc EXCEPT ![w] = "exit"]
  /\ UNCHANGED <<ctrl, data, index, widx, spc>>

(* index < _size: tested on the claim and again after the work.            *)
HasRowShort(i) == i + 1 < size[task]
HasRow(i) == i < size[task]

(* _index.fetch_add(1), the first step of preprocessNext and processNext.  *)
Claim(w) ==
  /\ wpc[w] = "claim"
  /\ widx' = [widx EXCEPT ![w] = index[task]]
  /\ index' = [index EXCEPT ![task] = @ + 1]
  /\ wpc' = [wpc EXCEPT ![w] = IF HasRow(index[task]) THEN "work" ELSE "test"]
  /\ UNCHANGED <<ctrl, data, spc>>

(* Transaction::createSizeKey of the present text of the row.              *)
SizeKey(t, i) == batch[t]

Preprocess(w) ==
  /\ wpc[w] = "work"
  /\ phase = "PREPROCESSTASK"
  /\ key' = [key EXCEPT ![task][widx[w]] = SizeKey(task, widx[w])]
  /\ wpc' = [wpc EXCEPT ![w] = "test"]
  /\ UNCHANGED <<ctrl, size, batch, sorted, response, promise, index, widx, spc>>

Process(w) ==
  /\ wpc[w] = "work"
  /\ phase = "PROCESSTASK"
  /\ LET org == OrgIndex(task, widx[w]) IN
       response' = [response EXCEPT ![task][org] =
                      [batch |-> batch[task], key |-> key[task][org]]]
  /\ wpc' = [wpc EXCEPT ![w] = "test"]
  /\ UNCHANGED <<ctrl, size, batch, key, sorted, promise, index, widx, spc>>

(* return _index < _size: the counter is read again, after the work.       *)
Test(w) ==
  /\ wpc[w] = "test"
  /\ wpc' = [wpc EXCEPT ![w] = IF HasRow(index[task]) THEN "claim" ELSE "barrier"]
  /\ UNCHANGED <<ctrl, data, index, widx, spc>>

-----------------------------------------------------------------------------
(* onTaskCompletion: one worker runs it when all have arrived, and all     *)
(* stay in the barrier until it returns.                                   *)

AllArrivedButOne == \E v \in Worker : \A w \in Worker \ {v} : wpc[w] = "barrier"
AllArrived == \A w \in Worker : wpc[w] = "barrier"

Release == wpc' = [w \in Worker |-> "check"]

(* std::sort of _sortedIndices by key: any order of the rows, since the    *)
(* model does not keep the values of the keys.                             *)
SortedIndicesAny(t) == [Row -> Row]
SortedIndices(t) ==
  {p \in [Row -> Row] :
     /\ \A i \in Row \ Rows(t) : p[i] = i
     /\ \A j \in Rows(t) : \E i \in Rows(t) : p[i] = j
     /\ \A i, j \in Rows(t) : p[i] \in Rows(t) /\ (i # j => p[i] # p[j])}

CompletePreprocess ==
  /\ AllArrived
  /\ bpc = "idle"
  /\ phase = "PREPROCESSTASK"
  /\ IF SortInput
       THEN \E p \in SortedIndices(task) : sorted' = [sorted EXCEPT ![task] = p]
       ELSE UNCHANGED sorted
  /\ index' = [index EXCEPT ![task] = 0]
  /\ phase' = "PROCESSTASK"
  /\ Release
  /\ UNCHANGED <<task, queue, stopped, bpc, size, batch, key, response, promise, widx, spc>>

(* Task::finish: from here on the session may wake up and rewrite its Task *)
(* while the completion function still runs.                               *)
Finish ==
  /\ AllArrived
  /\ bpc = "idle"
  /\ phase = "PROCESSTASK"
  /\ promise' = [promise EXCEPT ![task] = TRUE]
  /\ bpc' = "setNextTask"
  /\ UNCHANGED <<phase, task, queue, stopped, size, batch, key, sorted, response,
                 index, wpc, widx, spc>>

(* The predicate setNextTask waits for.                                    *)
WakeUpLate == Len(queue) > 1 \/ stopped
WakeUpDeaf == queue # <<>>
WakeUp == queue # <<>> \/ stopped

(* setNextTask, resetIndex and the change of phase, once the wait ends; a  *)
(* stopped controller keeps the Task it has finished.                      *)
SetNextTask ==
  /\ bpc = "setNextTask"
  /\ WakeUp
  /\ IF stopped
       THEN UNCHANGED <<task, queue>>
       ELSE task' = Head(queue) /\ queue' = Tail(queue)
  /\ index' = [index EXCEPT ![task'] = 0]
  /\ phase' = "PREPROCESSTASK"
  /\ bpc' = "idle"
  /\ Release
  /\ UNCHANGED <<data, stopped, widx, spc>>

-----------------------------------------------------------------------------
(* Session::processTask in the loop of a session.                          *)

(* _response.resize: the rows it keeps hold the responses of the batch     *)
(* before.                                                                 *)
ResizedShort(r, n) == [i \in 0 .. n - 2 |-> r[i]]
Resized(r, n) == [i \in Row |-> IF i < n THEN r[i] ELSE NoAnswer]

(* _promise = std::promise<void>().                                        *)
RenewedNot(s) == promise
Renewed(s) == [promise EXCEPT ![s] = FALSE]

(* Task::update with the n requests of the next batch; the rows of         *)
(* _requests are reused with their old keys.                               *)
Update(s) ==
  /\ spc[s] = "idle"
  /\ batch[s] < MaxBatches
  /\ \E n \in 0 .. MaxSize :
       /\ size' = [size EXCEPT ![s] = n]
       /\ response' = [response EXCEPT ![s] = Resized(@, n)]
  /\ batch' = [batch EXCEPT ![s] = @ + 1]
  /\ sorted' = [sorted EXCEPT ![s] = IF SortInput THEN [i \in Row |-> i] ELSE @]
  /\ promise' = Renewed(s)
  /\ spc' = [spc EXCEPT ![s] = "push"]
  /\ UNCHANGED <<ctrl, key, index, wpc, widx>>

EnqueueFront(s) == <<s>> \o queue
Enqueue(s) == Append(queue, s)

(* get_future and push.                                                    *)
Push(s) ==
  /\ spc[s] = "push"
  /\ queue' = Enqueue(s)
  /\ spc' = [spc EXCEPT ![s] = "wait"]
  /\ UNCHANGED <<phase, task, stopped, bpc, data, index, wpc, widx>>

(* future.get() returns.                                                   *)
Collect(s) ==
  /\ spc[s] = "wait"
  /\ promise[s]
  /\ spc' = [spc EXCEPT ![s] = "reply"]
  /\ UNCHANGED <<ctrl, data, index, wpc, widx>>

(* Session::buildReply reads the responses and the reply is sent.          *)
SendReply(s) ==
  /\ spc[s] = "reply"
  /\ spc' = [spc EXCEPT ![s] = "idle"]
  /\ UNCHANGED <<ctrl, data, index, wpc, widx>>

(* The session ends between two batches.                                   *)
EndSession(s) ==
  /\ spc[s] = "idle"
  /\ spc' = [spc EXCEPT ![s] = "done"]
  /\ UNCHANGED <<ctrl, data, index, wpc, widx>>

(* TaskController::stop, called by Server::stop only after the pool of the *)
(* sessions has been joined.                                               *)
Stop ==
  /\ ~stopped
  /\ \A s \in Session : spc[s] = "done"
  /\ stopped' = TRUE
  /\ UNCHANGED <<phase, task, queue, bpc, data, index, wpc, widx, spc>>

-----------------------------------------------------------------------------
WorkerStep(w) ==
  \/ Continue(w)
  \/ Exit(w)
  \/ Claim(w)
  \/ Preprocess(w)
  \/ Process(w)
  \/ Test(w)

Completion ==
  \/ CompletePreprocess
  \/ Finish
  \/ SetNextTask

SessionStep(s) ==
  \/ Update(s)
  \/ Push(s)
  \/ Collect(s)
  \/ SendReply(s)
  \/ EndSession(s)

(* _threadPool.stop() has joined every worker.                             *)
Joined == \A w \in Worker : wpc[w] = "exit"

(* After the join the controller is destroyed and nothing moves any more.  *)
Destroyed == Joined /\ UNCHANGED vars

Next ==
  \/ \E w \in Worker : WorkerStep(w)
  \/ Completion
  \/ \E s \in Session : SessionStep(s)
  \/ Stop
  \/ Destroyed

Spec == Init /\ [][Next]_vars

(* Threads are scheduled and a session inside a call of the engine goes    *)
(* on; that a session submits, ends or is stopped is its client's choice.  *)
Fairness ==
  /\ \A w \in Worker : WF_vars(WorkerStep(w))
  /\ WF_vars(Completion)
  /\ \A s \in Session : WF_vars(Push(s) \/ Collect(s) \/ SendReply(s))

FairSpec == Spec /\ Fairness

-----------------------------------------------------------------------------
(* Every variable has its type.                                            *)
TypeOK ==
  /\ phase \in {"PREPROCESSTASK", "PROCESSTASK"}
  /\ task \in Task
  /\ queue \in Seq(Session)
  /\ stopped \in BOOLEAN
  /\ index \in [Task -> Nat]
  /\ size \in [Task -> 0 .. MaxSize]
  /\ batch \in [Task -> Batch]
  /\ key \in [Task -> [Row -> Batch]]
  /\ sorted \in [Task -> [Row -> Row]]
  /\ response \in [Task -> [Row -> Answer]]
  /\ promise \in [Task -> BOOLEAN]
  /\ wpc \in [Worker -> {"check", "claim", "work", "test", "barrier", "exit"}]
  /\ widx \in [Worker -> Nat]
  /\ bpc \in {"idle", "setNextTask"}
  /\ spc \in [Session -> {"idle", "push", "wait", "reply", "done"}]

(* A worker that may touch the rows of a Task.                             *)
Touching(w) == wpc[w] \in {"claim", "work", "test"}

(* While any worker may touch the current Task, its session is blocked in  *)
(* future.get() on a promise nobody has fulfilled: no worker ever works on *)
(* a Task that Task::update may be rewriting or buildReply reading, though *)
(* the session wakes up in finish() before the controller drops the Task.  *)
OwnedWhileTouched ==
  (task # EmptyTask /\ \E w \in Worker : Touching(w)) =>
     spc[task] = "wait" /\ ~promise[task]

(* The row a working worker reads and writes.                              *)
WorkRow(w) == IF phase = "PROCESSTASK" THEN OrgIndex(task, widx[w]) ELSE widx[w]

(* Two workers never hold the same row: the fetch_add of one round, the    *)
(* reset by the completion function and the sort keep the claims apart.    *)
ClaimsDisjoint ==
  \A v, w \in Worker :
     (v # w /\ wpc[v] = "work" /\ wpc[w] = "work") => WorkRow(v) # WorkRow(w)

(* The rows of a Task hold the answers to its present batch, computed with *)
(* the keys of that batch.                                                 *)
Answered(s) ==
  \A i \in Rows(s) : response[s][i] = [batch |-> batch[s], key |-> batch[s]]

(* When future.get() returns, and while the reply is built, every response *)
(* answers the present batch with a key of the present batch: no row was   *)
(* skipped by the claims or the sort, none is left over from the batch     *)
(* before in the reused _requests and _response.                           *)
RepliesComplete ==
  \A s \in Session :
     (spc[s] = "wait" /\ promise[s]) \/ spc[s] = "reply" => Answered(s)

(* finish() never meets a promise it has already fulfilled: set_value      *)
(* would throw out of the noexcept completion function and end the server. *)
FinishOnce ==
  AllArrived /\ bpc = "idle" /\ phase = "PROCESSTASK" => ~promise[task]

(* sortIndices never compares a key of an older batch: when the barrier of *)
(* the first round completes, every row has been preprocessed.             *)
SortSeesFreshKeys ==
  AllArrived /\ bpc = "idle" /\ phase = "PREPROCESSTASK" =>
     \A i \in Rows(task) : key[task][i] = batch[task]

(* A batch that was pushed is answered: the barrier never waits for a      *)
(* worker that does not come and setNextTask does not lose a Task.         *)
BatchesAnswered == \A s \in Session : (spc[s] = "wait") ~> (spc[s] = "reply")

(* TaskController::stop returns, once a batch has been answered: then the  *)
(* workers are together in the barrier of setNextTask and leave together.  *)
StopReturnsWhenWarm ==
  (stopped /\ \E s \in Session : batch[s] > 0) ~> Joined

(* What the comment "stop threads" of TaskController::stop says: whenever  *)
(* stop is called, the workers end and the join returns.                   *)
StopReturns == stopped ~> Joined

(* The Task the workers are on, from the moment it leaves the queue until  *)
(* finish() fulfils its promise.                                           *)
InService ==
  IF bpc = "idle" /\ task # EmptyTask /\ spc[task] = "wait" /\ ~promise[task]
    THEN <<task>>
    ELSE <<>>

BatchStatus(s) ==
  IF spc[s] = "wait" THEN IF promise[s] THEN "answered" ELSE "pending" ELSE "idle"

Promised == INSTANCE BatchQueue WITH
  pending <- InService \o queue,
  status <- [s \in Session |-> BatchStatus(s)]

(* The engine implements the queue of batches: however the rounds, the     *)
(* barrier and the sessions that wake up in the middle of the completion   *)
(* function interleave, each batch is answered once and in turn.           *)
ImplementsBatchQueue == Promised!BQSpec

=============================================================================
