---------------------------- MODULE TaskBuilder ----------------------------
(***************************************************************************)
(* The batch builder of a client (TaskBuilder), the thread of the client's *)
(* pool that runs it (ThreadPoolBase) and the main thread (Client::start,  *)
(* run, processTask, stop).  The builder reads a source in subtasks, the   *)
(* client takes all the subtasks of a source in one swap, lets the builder *)
(* go on with the next source and sends what it took.                      *)
(*                                                                         *)
(* A subtask is the pair of its source and its position in it; the source  *)
(* may change from one reading to the next.  A thread waits on a condition *)
(* variable in two steps: it tests the predicate, with the mutex held, and *)
(* sleeps; only a notification lets it test again.                         *)
(*                                                                         *)
(* A helper that follows a faulty variant of itself is the code; no action *)
(* uses the variants.                                                      *)
(***************************************************************************)
EXTENDS Integers, Sequences, FiniteSets

CONSTANTS
  MaxSubtasks,  \* bound: the subtasks of a source
  MaxTasks,     \* _maxNumberTasks
  RunLoop,      \* _runLoop
  Faults        \* what may go wrong: "open", "build", "blank", "send"

ASSUME BuilderAssumption ==
  /\ MaxSubtasks \in Nat \ {0}
  /\ MaxTasks \in Nat \ {0}
  /\ RunLoop \in BOOLEAN
  /\ Faults \subseteq {"open", "build", "blank", "send"}

VARIABLES
  subtasks,     \* _subtasks
  index,        \* _subtaskIndex
  status,       \* _status of the builder
  resume,       \* _resume
  stopped,      \* _stopped
  queue,        \* _queue of the pool
  objects,      \* _totalNumberObjects of the pool
  poolStopped,  \* _stopped of the pool
  bpc,          \* where the thread of the pool is
  sources,      \* how many subtasks every source read so far has
  blank,        \* a blank line ends the source before its last line
  made,         \* the subtasks made of the present source
  task,         \* _task of the client
  size,         \* the size getTask returned
  got,          \* the status getTask returned
  sent,         \* the subtasks of _task sent and answered
  numberTasks,  \* the local of Client::run
  cpc           \* where the main thread is

shared == <<subtasks, index, status, resume, stopped>>
pool == <<queue, objects, poolStopped>>
builder == <<sources, blank, made>>
client == <<task, size, got, sent, numberTasks>>
vars == <<shared, pool, bpc, builder, client, cpc>>

Status == {"NONE", "SUBTASK_DONE", "TASK_DONE", "ERROR", "STOPPED"}

Init ==
  /\ subtasks = <<>>
  /\ index = 0
  /\ status = "NONE"
  /\ resume = FALSE
  /\ stopped = FALSE
  /\ queue = <<>>
  /\ objects = 0
  /\ poolStopped = FALSE
  /\ bpc = "absent"
  /\ sources = <<>>
  /\ blank = FALSE
  /\ made = 0
  /\ task = <<>>
  /\ size = 0
  /\ got = "NONE"
  /\ sent = 0
  /\ numberTasks = 0
  /\ cpc = "start"

WakeClient == cpc' = IF cpc = "asleep" THEN "get" ELSE cpc
WakeBuilder == bpc' = IF bpc = "asleep" THEN "await" ELSE bpc

-----------------------------------------------------------------------------
(* ThreadPoolBase, with room for 1000 threads: a thread takes a runnable,  *)
(* runs it and comes back.  Only the builder is pushed here.               *)

CreateThread == IF bpc = "absent" THEN "fetch" ELSE bpc

Push(runnable) ==
  /\ objects' = objects + 1
  /\ queue' = Append(queue, runnable)
  /\ bpc' = CreateThread
  /\ UNCHANGED poolStopped

(* get, which waits for a runnable or the end of the pool.                 *)
Fetches == queue # <<>> /\ ~poolStopped /\ ~stopped

Get ==
  /\ bpc = "fetch"
  /\ Fetches
  /\ queue' = Tail(queue)
  /\ bpc' = "loop"
  /\ UNCHANGED <<shared, objects, poolStopped, builder, client, cpc>>

(* run has returned, and the thread has let the builder go.                *)
Finally ==
  /\ bpc = "done"
  /\ objects' = objects - 1
  /\ bpc' = "fetch"
  /\ UNCHANGED <<shared, queue, poolStopped, builder, client, cpc>>

LeaveThread ==
  /\ bpc = "fetch"
  /\ poolStopped
  /\ bpc' = "exit"
  /\ UNCHANGED <<shared, pool, builder, client, cpc>>

-----------------------------------------------------------------------------
(* TaskBuilder::run, in the thread of the client's pool.                   *)

Loop ==
  /\ bpc = "loop"
  /\ bpc' = IF stopped THEN "done" ELSE "open"
  /\ UNCHANGED <<pool, shared, builder, client, cpc>>

OpenSource ==
  /\ bpc = "open"
  /\ resume' = FALSE
  /\ \E n \in 0 .. MaxSubtasks, b \in BOOLEAN :
       /\ (b \/ n = 0) => "blank" \in Faults
       /\ sources' = Append(sources, n)
       /\ blank' = (b \/ n = 0)
  /\ made' = 0
  /\ bpc' = "create"
  /\ UNCHANGED <<pool, subtasks, index, status, stopped, client, cpc>>

(* createSubtask: the lines of a subtask, then compressEncryptSubtask.     *)
Subtask == <<Len(sources), made + 1>>

Stored ==
  IF index < Len(subtasks) THEN [subtasks EXCEPT ![index + 1] = Subtask]
                           ELSE Append(subtasks, Subtask)

AllDone == made + 1 = sources[Len(sources)] /\ ~blank

(* The lock is free, the builder is not stopped and there are lines.       *)
Creates == bpc = "create" /\ made < sources[Len(sources)] /\ ~stopped

SubtaskDone ==
  /\ Creates
  /\ ~AllDone
  /\ subtasks' = Stored
  /\ index' = index + 1
  /\ made' = made + 1
  /\ status' = "SUBTASK_DONE"
  /\ UNCHANGED <<pool, resume, stopped, bpc, sources, blank, client, cpc>>

LastIndexBeyond == index + 1
LastIndex == index
NotifyTaskNot == cpc' = cpc
NotifyTask == WakeClient

TaskDone ==
  /\ Creates
  /\ AllDone
  /\ subtasks' = Stored
  /\ index' = LastIndex
  /\ made' = made + 1
  /\ status' = "TASK_DONE"
  /\ bpc' = "await"
  /\ NotifyTask
  /\ UNCHANGED <<pool, resume, stopped, sources, blank, client>>

(* createSubtask returns STOPPED, or NONE when getLine finds no line.      *)
NoSubtask ==
  /\ bpc = "create"
  /\ stopped \/ made = sources[Len(sources)]
  /\ bpc' = "await"
  /\ UNCHANGED <<pool, shared, builder, client, cpc>>

(* The source cannot be opened or read, or its data cannot be compressed   *)
(* or encrypted: the catch block notifies nobody.                          *)
Throw ==
  /\ \/ bpc = "open" /\ "open" \in Faults
     \/ bpc = "create" /\ "build" \in Faults
  /\ resume' = IF bpc = "open" THEN FALSE ELSE resume
  /\ status' = "ERROR"
  /\ bpc' = "done"
  /\ UNCHANGED <<pool, subtasks, index, stopped, builder, client, cpc>>

MayProceedOnResume == resume
MayProceed == resume \/ stopped

Await ==
  /\ bpc = "await"
  /\ bpc' = IF MayProceed THEN "loop" ELSE "asleep"
  /\ UNCHANGED <<pool, shared, builder, client, cpc>>

-----------------------------------------------------------------------------
(* Client::processTask and run, in the main thread.                        *)

TaskReady == status \in {"TASK_DONE", "ERROR", "STOPPED"}

AfterGet == IF status = "ERROR" THEN "leave" ELSE IF RunLoop THEN "resume" ELSE "send"

(* The lock of the weak pointer to the builder.                            *)
Alive == queue # <<>> \/ bpc \notin {"fetch", "exit"}

(* Client::start.                                                          *)
Start ==
  /\ cpc = "start"
  /\ Push("builder")
  /\ cpc' = "task"
  /\ UNCHANGED <<shared, builder, client>>

ProcessTask ==
  /\ cpc = "task"
  /\ cpc' = IF Alive THEN "get" ELSE "leave"
  /\ UNCHANGED <<shared, pool, bpc, builder, client>>

GetTask ==
  /\ cpc = "get"
  /\ TaskReady
  /\ task' = subtasks
  /\ subtasks' = task
  /\ size' = index + 1
  /\ got' = status
  /\ sent' = 0
  /\ cpc' = AfterGet
  /\ UNCHANGED <<pool, index, status, resume, stopped, bpc, builder, numberTasks>>

WaitTask ==
  /\ cpc = "get"
  /\ ~TaskReady
  /\ cpc' = "asleep"
  /\ UNCHANGED <<pool, shared, bpc, builder, client>>

FirstIndexKept == index
FirstIndex == 0

(* Only the thread that resumes stops the builder, so that the early       *)
(* return is not met here.                                                 *)
Resume ==
  /\ cpc = "resume"
  /\ IF stopped THEN UNCHANGED <<index, status, resume, bpc>>
     ELSE /\ index' = FirstIndex
          /\ status' = "NONE"
          /\ resume' = TRUE
          /\ WakeBuilder
  /\ cpc' = "send"
  /\ UNCHANGED <<pool, subtasks, stopped, builder, client>>

Send ==
  /\ cpc = "send"
  /\ sent < size
  /\ sent' = sent + 1
  /\ UNCHANGED <<pool, shared, bpc, builder, task, size, got, numberTasks, cpc>>

SendFails ==
  /\ cpc = "send"
  /\ sent < size
  /\ "send" \in Faults
  /\ cpc' = "leave"
  /\ UNCHANGED <<pool, shared, bpc, builder, client>>

EndTask ==
  /\ cpc = "send"
  /\ sent = size
  /\ numberTasks' = numberTasks + 1
  /\ cpc' = IF RunLoop /\ numberTasks' # MaxTasks THEN "task" ELSE "leave"
  /\ UNCHANGED <<pool, shared, bpc, builder, task, size, got, sent>>

(* TaskBuilder::stop.                                                      *)
StopBuilder ==
  /\ stopped' = TRUE
  /\ status' = "STOPPED"
  /\ WakeBuilder

(* Client::stop: the builder is stopped, if there is one, then the pool.   *)
Stop ==
  /\ cpc = "leave"
  /\ cpc' = "pool"
  /\ IF Alive THEN StopBuilder ELSE UNCHANGED <<stopped, status, bpc>>
  /\ UNCHANGED <<pool, subtasks, index, resume, builder, client>>

StopPool ==
  /\ cpc = "pool"
  /\ cpc' = "join"
  /\ poolStopped' = TRUE
  /\ UNCHANGED <<shared, queue, objects, bpc, builder, client>>

Join ==
  /\ cpc = "join"
  /\ bpc = "exit"
  /\ queue' = <<>>
  /\ cpc' = "end"
  /\ UNCHANGED <<shared, objects, poolStopped, bpc, builder, client>>

-----------------------------------------------------------------------------
BuilderStep ==
  \/ Get
  \/ Finally
  \/ LeaveThread
  \/ Loop
  \/ OpenSource
  \/ SubtaskDone
  \/ TaskDone
  \/ NoSubtask
  \/ Throw
  \/ Await

ClientStep ==
  \/ Start
  \/ ProcessTask
  \/ GetTask
  \/ WaitTask
  \/ Resume
  \/ Send
  \/ SendFails
  \/ EndTask
  \/ Stop
  \/ StopPool
  \/ Join

Next == BuilderStep \/ ClientStep

Spec == Init /\ [][Next]_vars

FairSpec == Spec /\ WF_vars(BuilderStep) /\ WF_vars(ClientStep)

-----------------------------------------------------------------------------
(* Every variable has its type, and the indices stay within a batch.       *)
TypeOK ==
  /\ subtasks \in Seq(Nat \X Nat)
  /\ index \in 0 .. MaxSubtasks
  /\ status \in Status
  /\ resume \in BOOLEAN
  /\ stopped \in BOOLEAN
  /\ queue \in {<<>>, <<"builder">>}
  /\ objects \in 0 .. 1
  /\ poolStopped \in BOOLEAN
  /\ bpc \in {"absent", "fetch", "exit", "loop", "open", "create", "await", "asleep", "done"}
  /\ sources \in Seq(0 .. MaxSubtasks)
  /\ blank \in BOOLEAN
  /\ made \in 0 .. MaxSubtasks
  /\ task \in Seq(Nat \X Nat)
  /\ size \in 0 .. MaxSubtasks + 1
  /\ got \in Status
  /\ sent \in 0 .. MaxSubtasks
  /\ numberTasks \in 0 .. MaxTasks
  /\ cpc \in 
       {"start", "task", "get", "asleep", "resume", "send", "leave", "pool", "join", "end"}

Batch(n) == [i \in 1 .. sources[n] |-> <<n, i>>]

(* What the client sends as its next task is the next source, whole and in *)
(* order, with nothing of the batch the other buffer of the swap held,     *)
(* although the builder already writes a source of another size.           *)
SendsBatch ==
  cpc = "send" => /\ size <= Len(task)
                  /\ SubSeq(task, 1, size) = Batch(numberTasks + 1)

(* A client that asks for a task gets it, unless the builder has failed or *)
(* found a blank line: no notification and no resume is lost.              *)
TaskArrives ==
  cpc \in {"get", "asleep"} ~>
    cpc \in {"resume", "send"} \/ status = "ERROR" \/ blank

(* stop returns: wherever the builder is, it sees _stopped and its thread  *)
(* is joined.                                                              *)
StopJoins == cpc = "join" ~> cpc = "end"

(* getTask ends its wait when the status is ERROR, and processTask returns *)
(* false for it: a client in that wait learns that the builder failed.     *)
ErrorReported == (cpc = "asleep" /\ status = "ERROR") ~> cpc = "leave"

=============================================================================
