------------------------- MODULE TaskBuilderProofs -------------------------
(***************************************************************************)
(* The safety of the batch builder for sources of any size, any number of  *)
(* tasks, with and without a loop, and any faults.                         *)
(*                                                                         *)
(* The argument follows the sources.  While the client wants tasks, the    *)
(* builder has opened as many sources as the client has taken tasks, or    *)
(* one more (SourcesInv); in that one the subtasks of the buffer up to the *)
(* index are those made so far, and they are the whole source when the     *)
(* status says so (BatchInv).  Between TASK_DONE and the resume of the     *)
(* client the builder cannot leave its wait, so what the client has        *)
(* swapped is the batch of the next source (TakenInv).                     *)
(***************************************************************************)
EXTENDS TaskBuilder, SequenceTheorems, TLAPS

Waits == {"await", "asleep"}
Running == {"loop", "open", "create", "await", "asleep", "done"}

(* The thread of the pool and its one runnable; who has stopped what.      *)
ThreadInv ==
  /\ bpc = "absent" <=> cpc = "start"
  /\ bpc = "absent" => queue = <<>> /\ objects = 0
  /\ queue # <<>> => bpc \in {"fetch", "exit"} /\ objects = 1
  /\ bpc \in Running => objects = 1
  /\ bpc = "done" \/ (bpc = "fetch" /\ queue = <<>>) => status = "ERROR" \/ stopped
  /\ status = "ERROR" => bpc \in {"done", "fetch", "exit"} /\ queue = <<>>
  /\ stopped => cpc \in {"pool", "join", "end"}
  /\ poolStopped => cpc \in {"join", "end"}
  /\ bpc = "exit" => poolStopped
  /\ status = "STOPPED" => stopped
  /\ cpc \notin {"leave", "pool", "join", "end"} => numberTasks < MaxTasks

(* The subtasks made of the source that is open.                           *)
IndexInv ==
  /\ bpc = "absent" \/ queue # <<>> => index = 0
  /\ bpc \in Waits /\ resume => index = 0
  /\ bpc = "loop" => index = 0 \/ stopped
  /\ bpc = "open" => index = 0
  /\ bpc = "create" =>
       /\ ~resume /\ index = made
       /\ sources # <<>> /\ made <= sources[Len(sources)]

(* The client still wants what the builder makes.                          *)
Wanted == cpc \in {"start", "task", "get", "asleep"} \/ (cpc = "send" /\ RunLoop)
Working == Wanted /\ status # "ERROR"

TasksTaken == IF cpc = "send" THEN numberTasks + 1 ELSE numberTasks

SourceOpen == bpc = "create" \/ (bpc \in Waits /\ ~resume)

SourcesInv ==
  Working => Len(sources) = TasksTaken + (IF SourceOpen THEN 1 ELSE 0)

Holds(buffer, n, k) ==
  k <= Len(buffer) /\ \A i \in 1 .. k : buffer[i] = <<n, i>>

BatchInv ==
  Working =>
    /\ bpc = "create" => Holds(subtasks, Len(sources), made)
    /\ status = "TASK_DONE" =>
         /\ bpc \in Waits /\ ~resume
         /\ index + 1 = sources[Len(sources)]
         /\ Holds(subtasks, Len(sources), index + 1)

TakenInv ==
  /\ cpc = "resume" => /\ status = "TASK_DONE"
                       /\ bpc \in Waits /\ ~resume
                       /\ Len(sources) = numberTasks + 1
  /\ cpc \in {"resume", "send"} =>
       /\ numberTasks + 1 <= Len(sources)
       /\ size = sources[numberTasks + 1] /\ sent <= size
       /\ Holds(task, numberTasks + 1, size)

BuilderInv == TypeOK /\ ThreadInv /\ IndexInv /\ SourcesInv /\ BatchInv /\ TakenInv

-----------------------------------------------------------------------------
(* The queue holds the one runnable or nothing.                            *)
LEMMA QueueFacts ==
  /\ Tail(<<"builder">>) = <<>>
  /\ Append(<<>>, "builder") = <<"builder">>
OBVIOUS

(* The source that is open is the last one.                                *)
LEMMA LastSource ==
  ASSUME TypeOK, sources # <<>>
  PROVE  Len(sources) \in Nat \ {0} /\ sources[Len(sources)] \in 0 .. MaxSubtasks
BY EmptySeq, ElementOfSeq, BuilderAssumption DEF TypeOK, BuilderAssumption

(* One more source leaves those before it as they are.                     *)
LEMMA OneMoreSource ==
  ASSUME TypeOK, NEW n \in 0 .. MaxSubtasks
  PROVE  /\ Append(sources, n) \in Seq(0 .. MaxSubtasks)
         /\ Len(Append(sources, n)) = Len(sources) + 1
         /\ \A i \in 1 .. Len(sources) : Append(sources, n)[i] = sources[i]
BY DEF TypeOK

(* The buffer after a subtask has been stored at the index.                *)
LEMMA StoredType ==
  ASSUME TypeOK, bpc = "create", IndexInv
  PROVE  Subtask \in Nat \X Nat /\ Stored \in Seq(Nat \X Nat)
<1>1. Len(sources) \in Nat /\ made + 1 \in Nat
  BY LastSource, BuilderAssumption DEF TypeOK, IndexInv, BuilderAssumption
<1>2. Subtask \in Nat \X Nat
  BY <1>1 DEF Subtask
<1>3. CASE index < Len(subtasks)
  <2>1. index + 1 \in 1 .. Len(subtasks)
    BY <1>3, LenProperties, BuilderAssumption DEF TypeOK, BuilderAssumption
  <2> QED BY <1>2, <1>3, <2>1, ExceptSeq DEF TypeOK, Stored
<1>4. CASE ~(index < Len(subtasks))
  BY <1>2, <1>4 DEF TypeOK, Stored
<1> QED BY <1>2, <1>3, <1>4

LEMMA StoredHolds ==
  ASSUME TypeOK, bpc = "create", IndexInv, Holds(subtasks, Len(sources), made)
  PROVE  Holds(Stored, Len(sources), made + 1)
<1>1. /\ index = made /\ made \in Nat /\ made <= Len(subtasks)
      /\ \A i \in 1 .. made : subtasks[i] = <<Len(sources), i>>
  BY SMTT(30), BuilderAssumption DEF TypeOK, IndexInv, Holds, BuilderAssumption
<1>2. Subtask \in Nat \X Nat /\ Subtask = <<Len(sources), made + 1>>
  BY StoredType DEF Subtask
<1>3. subtasks \in Seq(Nat \X Nat) /\ Len(subtasks) \in Nat
  BY LenProperties DEF TypeOK
<1>4. CASE made < Len(subtasks)
  <2>1. made + 1 \in 1 .. Len(subtasks)
    BY <1>1, <1>3, <1>4
  <2>2. Stored = [subtasks EXCEPT ![made + 1] = Subtask]
    BY <1>1, <1>4 DEF Stored
  <2>3. /\ Len(Stored) = Len(subtasks)
        /\ \A j \in 1 .. Len(subtasks) :
             Stored[j] = IF j = made + 1 THEN Subtask ELSE subtasks[j]
    BY <1>2, <1>3, <2>1, <2>2, ExceptSeq
  <2>4. ASSUME NEW i \in 1 .. made + 1 PROVE Stored[i] = <<Len(sources), i>>
    <3>1. CASE i = made + 1
      BY <1>2, <2>1, <2>3, <3>1
    <3>2. CASE i # made + 1
      <4>1. i \in 1 .. made /\ i \in 1 .. Len(subtasks)
        BY SMTT(30), <1>1, <1>3, <3>2
      <4> QED BY <1>1, <2>3, <3>2, <4>1
    <3> QED BY <3>1, <3>2
  <2> QED BY <1>1, <1>3, <2>1, <2>3, <2>4 DEF Holds
<1>5. CASE made = Len(subtasks)
  <2>1. Stored = Append(subtasks, Subtask)
    BY <1>1, <1>3, <1>5 DEF Stored
  <2>2. /\ Len(Stored) = made + 1 /\ Stored[made + 1] = Subtask
        /\ \A j \in 1 .. made : Stored[j] = subtasks[j]
    BY <1>2, <1>3, <1>5, <2>1
  <2> QED BY <1>1, <1>2, <2>2 DEF Holds
<1> QED BY <1>1, <1>3, <1>4, <1>5

-----------------------------------------------------------------------------
(* One lemma for every action, and in it one step for every part of the    *)
(* invariant.                                                              *)
LEMMA GetKeeps == ASSUME BuilderInv, Get PROVE BuilderInv'
<1> USE DEF BuilderInv, Get, Fetches, shared, builder, client
<1>0. queue' = <<>>
  BY QueueFacts DEF TypeOK
<1>1. TypeOK'
  BY <1>0 DEF TypeOK
<1>2. ThreadInv'
  BY <1>0 DEF ThreadInv, Running
<1>3. IndexInv'
  BY <1>0 DEF IndexInv, Waits
<1>4. SourcesInv'
  BY DEF SourcesInv, Working, Wanted, TasksTaken, SourceOpen, Waits
<1>5. BatchInv'
  BY DEF BatchInv, Working, Wanted, Waits, Holds
<1>6. TakenInv'
  BY DEF TakenInv, Waits, Holds
<1> QED BY <1>1, <1>2, <1>3, <1>4, <1>5, <1>6

LEMMA FinallyKeeps == ASSUME BuilderInv, Finally PROVE BuilderInv'
<1> USE DEF BuilderInv, Finally, shared, builder, client
<1>1. TypeOK'
  BY DEF TypeOK, ThreadInv, Running
<1>2. ThreadInv'
  BY DEF ThreadInv, Running
<1>3. IndexInv'
  BY DEF IndexInv, Waits
<1>4. SourcesInv'
  BY DEF SourcesInv, Working, Wanted, TasksTaken, SourceOpen, Waits
<1>5. BatchInv'
  BY DEF BatchInv, Working, Wanted, Waits, Holds
<1>6. TakenInv'
  BY DEF TakenInv, Waits, Holds
<1> QED BY <1>1, <1>2, <1>3, <1>4, <1>5, <1>6

LEMMA LeaveThreadKeeps == ASSUME BuilderInv, LeaveThread PROVE BuilderInv'
<1> USE DEF BuilderInv, LeaveThread, shared, pool, builder, client
<1>1. TypeOK'
  BY DEF TypeOK
<1>2. ThreadInv'
  BY DEF ThreadInv, Running
<1>3. IndexInv'
  BY DEF IndexInv, Waits
<1>4. SourcesInv'
  BY DEF SourcesInv, Working, Wanted, TasksTaken, SourceOpen, Waits
<1>5. BatchInv'
  BY DEF BatchInv, Working, Wanted, Waits, Holds
<1>6. TakenInv'
  BY DEF TakenInv, Waits, Holds
<1> QED BY <1>1, <1>2, <1>3, <1>4, <1>5, <1>6

LEMMA LoopKeeps == ASSUME BuilderInv, Loop PROVE BuilderInv'
<1> USE DEF BuilderInv, Loop, pool, shared, builder, client
<1>1. TypeOK'
  BY DEF TypeOK
<1>2. ThreadInv'
  BY DEF ThreadInv, Running
<1>3. IndexInv'
  BY DEF IndexInv, Waits
<1>4. SourcesInv'
  BY DEF SourcesInv, Working, Wanted, TasksTaken, SourceOpen, Waits
<1>5. BatchInv'
  BY DEF BatchInv, Working, Wanted, Waits, Holds
<1>6. TakenInv'
  BY DEF TakenInv, Waits, Holds
<1> QED BY <1>1, <1>2, <1>3, <1>4, <1>5, <1>6

LEMMA OpenSourceKeeps == ASSUME BuilderInv, OpenSource PROVE BuilderInv'
<1> USE DEF BuilderInv, OpenSource, pool, client
<1>0. PICK n \in 0 .. MaxSubtasks : sources' = Append(sources, n)
  OBVIOUS
<1>a. /\ sources' \in Seq(0 .. MaxSubtasks) /\ Len(sources') = Len(sources) + 1
      /\ \A i \in 1 .. Len(sources) : sources'[i] = sources[i]
      /\ Len(sources) \in Nat
  BY <1>0, OneMoreSource, LenProperties DEF TypeOK
<1>1. TypeOK'
  <2>1. blank' \in BOOLEAN /\ made' \in 0 .. MaxSubtasks
    BY BuilderAssumption DEF TypeOK, BuilderAssumption
  <2> QED BY <1>a, <2>1 DEF TypeOK
<1>2. ThreadInv'
  BY DEF ThreadInv, Running
<1>3. IndexInv'
  <2>1. sources' # <<>> /\ sources'[Len(sources')] \in 0 .. MaxSubtasks
    BY <1>a, EmptySeq, ElementOfSeq
  <2> QED BY <2>1 DEF IndexInv, Waits
<1>4. SourcesInv'
  BY <1>a DEF TypeOK, SourcesInv, Working, Wanted, TasksTaken, SourceOpen, Waits
<1>5. BatchInv'
  BY DEF BatchInv, Working, Wanted, Waits, Holds
<1>6. TakenInv'
  <2>1. CASE cpc = "send"
    <3>1. numberTasks + 1 \in 1 .. Len(sources)
      BY <1>a, <2>1 DEF TypeOK, TakenInv
    <3> QED BY <1>a, <2>1, <3>1 DEF TakenInv, Holds
  <2>2. CASE cpc # "send"
    BY <2>2 DEF TakenInv, Waits
  <2> QED BY <2>1, <2>2
<1> QED BY <1>1, <1>2, <1>3, <1>4, <1>5, <1>6

LEMMA SubtaskDoneKeeps == ASSUME BuilderInv, SubtaskDone PROVE BuilderInv'
<1> USE DEF BuilderInv, SubtaskDone, Creates, AllDone, pool, client
<1>0. Stored \in Seq(Nat \X Nat) /\ Len(sources) \in Nat \ {0}
  BY StoredType, LastSource DEF IndexInv
<1>a. made' = made + 1 /\ made + 1 <= sources[Len(sources)] /\ made \in Nat
  BY LastSource, BuilderAssumption DEF TypeOK, IndexInv, BuilderAssumption
<1>b. sources[Len(sources)] \in 0 .. MaxSubtasks /\ index = made
  BY LastSource DEF IndexInv
<1>1. TypeOK'
  <2>1. made' \in 0 .. MaxSubtasks /\ index' \in 0 .. MaxSubtasks
    BY <1>a, <1>b, BuilderAssumption DEF TypeOK, BuilderAssumption
  <2> QED BY <1>0, <2>1 DEF TypeOK, Status
<1>2. ThreadInv'
  BY DEF ThreadInv, Running
<1>3. IndexInv'
  BY <1>a, <1>b DEF ThreadInv, IndexInv, Waits
<1>4. SourcesInv'
  BY DEF ThreadInv, SourcesInv, Working, Wanted, TasksTaken, SourceOpen, Waits
<1>5. BatchInv'
  <2>1. ASSUME Working' PROVE Holds(Stored, Len(sources), made + 1)
    <3>1. Working /\ bpc = "create"
      BY <2>1 DEF ThreadInv, Working, Wanted
    <3> QED BY <3>1, StoredHolds DEF BatchInv
  <2> QED BY <2>1 DEF BatchInv, Waits
<1>6. TakenInv'
  BY DEF TakenInv, Waits, Holds
<1> QED BY <1>1, <1>2, <1>3, <1>4, <1>5, <1>6

LEMMA TaskDoneKeeps == ASSUME BuilderInv, TaskDone PROVE BuilderInv'
<1> USE DEF BuilderInv, TaskDone, Creates, AllDone, LastIndex, NotifyTask, WakeClient, pool,
  client
<1>0. Stored \in Seq(Nat \X Nat) /\ Len(sources) \in Nat \ {0}
  BY StoredType, LastSource DEF IndexInv
<1>a. made' = made + 1 /\ made + 1 <= sources[Len(sources)] /\ made \in Nat
  BY LastSource, BuilderAssumption DEF TypeOK, IndexInv, BuilderAssumption
<1>b. sources[Len(sources)] \in 0 .. MaxSubtasks /\ index = made
  BY LastSource DEF IndexInv
<1>1. TypeOK'
  <2>1. made' \in 0 .. MaxSubtasks /\ index' \in 0 .. MaxSubtasks
    BY <1>a, <1>b, BuilderAssumption DEF TypeOK, BuilderAssumption
  <2> QED BY <1>0, <2>1 DEF TypeOK, Status
<1>2. ThreadInv'
  BY DEF ThreadInv, Running
<1>3. IndexInv'
  BY DEF IndexInv, Waits
<1>4. SourcesInv'
  BY DEF ThreadInv, IndexInv, SourcesInv, Working, Wanted, TasksTaken, SourceOpen, Waits
<1>5. BatchInv'
  <2>1. ASSUME Working' PROVE Holds(Stored, Len(sources), made + 1)
    <3>1. Working /\ bpc = "create"
      BY <2>1 DEF ThreadInv, Working, Wanted
    <3> QED BY <3>1, StoredHolds DEF BatchInv
  <2> QED BY <1>b, <2>1 DEF BatchInv, IndexInv, Waits
<1>6. TakenInv'
  BY DEF TakenInv, Waits, Holds
<1> QED BY <1>1, <1>2, <1>3, <1>4, <1>5, <1>6

LEMMA NoSubtaskKeeps == ASSUME BuilderInv, NoSubtask PROVE BuilderInv'
<1> USE DEF BuilderInv, NoSubtask, pool, shared, builder, client
<1>1. TypeOK'
  BY DEF TypeOK
<1>2. ThreadInv'
  BY DEF ThreadInv, Running
<1>3. IndexInv'
  BY DEF IndexInv, Waits
<1>4. SourcesInv'
  BY DEF IndexInv, SourcesInv, Working, Wanted, TasksTaken, SourceOpen, Waits
<1>5. BatchInv'
  BY DEF BatchInv, Working, Wanted, Waits, Holds
<1>6. TakenInv'
  BY DEF TakenInv, Waits, Holds
<1> QED BY <1>1, <1>2, <1>3, <1>4, <1>5, <1>6

LEMMA ThrowKeeps == ASSUME BuilderInv, Throw PROVE BuilderInv'
<1> USE DEF BuilderInv, Throw, pool, builder, client
<1>1. TypeOK'
  BY ZenonT(30) DEF TypeOK, Status
<1>2. ThreadInv'
  BY DEF ThreadInv, Running
<1>3. IndexInv'
  BY DEF IndexInv, Waits
<1>4. SourcesInv'
  BY DEF SourcesInv, Working, Wanted, TasksTaken, SourceOpen, Waits
<1>5. BatchInv'
  BY DEF BatchInv, Working, Wanted, Waits, Holds
<1>6. TakenInv'
  BY DEF TakenInv, Waits, Holds
<1> QED BY <1>1, <1>2, <1>3, <1>4, <1>5, <1>6

LEMMA AwaitKeeps == ASSUME BuilderInv, Await PROVE BuilderInv'
<1> USE DEF BuilderInv, Await, MayProceed, pool, shared, builder, client
<1>1. TypeOK'
  BY DEF TypeOK
<1>2. ThreadInv'
  BY DEF ThreadInv, Running
<1>3. IndexInv'
  BY DEF IndexInv, Waits
<1>4. SourcesInv'
  BY DEF TypeOK, ThreadInv, SourcesInv, Working, Wanted, TasksTaken, SourceOpen, Waits
<1>5. BatchInv'
  BY DEF ThreadInv, BatchInv, Working, Wanted, Waits, Holds
<1>6. TakenInv'
  BY DEF ThreadInv, TakenInv, Waits, Holds
<1> QED BY <1>1, <1>2, <1>3, <1>4, <1>5, <1>6

LEMMA StartKeeps == ASSUME BuilderInv, Start PROVE BuilderInv'
<1> USE DEF BuilderInv, Start, Push, CreateThread, shared, builder, client
<1>1. TypeOK'
  BY QueueFacts DEF TypeOK, ThreadInv
<1>2. ThreadInv'
  <2>1. queue' = <<"builder">> /\ objects' = 1 /\ bpc' = "fetch"
    BY QueueFacts DEF ThreadInv
  <2> QED BY <2>1 DEF ThreadInv, Running
<1>3. IndexInv'
  BY DEF ThreadInv, IndexInv, Waits
<1>4. SourcesInv'
  BY DEF SourcesInv, Working, Wanted, TasksTaken, SourceOpen, Waits
<1>5. BatchInv'
  BY DEF BatchInv, Working, Wanted, Waits, Holds
<1>6. TakenInv'
  BY DEF TakenInv, Waits, Holds
<1> QED BY <1>1, <1>2, <1>3, <1>4, <1>5, <1>6

LEMMA ProcessTaskKeeps == ASSUME BuilderInv, ProcessTask PROVE BuilderInv'
<1> USE DEF BuilderInv, ProcessTask, Alive, shared, pool, builder, client
<1>1. TypeOK'
  BY DEF TypeOK
<1>2. ThreadInv'
  BY DEF ThreadInv, Running
<1>3. IndexInv'
  BY DEF IndexInv, Waits
<1>4. SourcesInv'
  BY DEF SourcesInv, Working, Wanted, TasksTaken, SourceOpen, Waits
<1>5. BatchInv'
  BY DEF BatchInv, Working, Wanted, Waits, Holds
<1>6. TakenInv'
  BY DEF TakenInv, Waits, Holds
<1> QED BY <1>1, <1>2, <1>3, <1>4, <1>5, <1>6

LEMMA GetTaskKeeps == ASSUME BuilderInv, GetTask PROVE BuilderInv'
<1> USE DEF BuilderInv, GetTask, TaskReady, AfterGet, pool, builder
<1>1. TypeOK'
  BY BuilderAssumption DEF TypeOK, Status, BuilderAssumption
<1>2. ThreadInv'
  BY DEF ThreadInv, Running
<1>3. IndexInv'
  BY DEF IndexInv, Waits
<1>4. SourcesInv'
  BY DEF SourcesInv, Working, Wanted, TasksTaken, SourceOpen, Waits
<1>5. BatchInv'
  BY DEF BatchInv, Working, Wanted, Waits, Holds
<1>6. TakenInv'
  <2>1. CASE status = "ERROR"
    BY <2>1 DEF TakenInv
  <2>2. CASE status # "ERROR"
    <3>1. status = "TASK_DONE" /\ Working
      BY <2>2 DEF ThreadInv, Working, Wanted
    <3>2. /\ bpc \in Waits /\ ~resume /\ index + 1 = sources[Len(sources)]
          /\ Holds(subtasks, Len(sources), index + 1)
      BY <3>1 DEF BatchInv
    <3>3. Len(sources) = numberTasks + 1
      BY <3>1, <3>2 DEF TypeOK, SourcesInv, TasksTaken, SourceOpen
    <3>4. numberTasks \in Nat /\ 0 <= index + 1
      BY BuilderAssumption DEF TypeOK, BuilderAssumption
    <3> QED BY <3>1, <3>2, <3>3, <3>4 DEF TakenInv, Holds, Waits
  <2> QED BY <2>1, <2>2
<1> QED BY <1>1, <1>2, <1>3, <1>4, <1>5, <1>6

LEMMA WaitTaskKeeps == ASSUME BuilderInv, WaitTask PROVE BuilderInv'
<1> USE DEF BuilderInv, WaitTask, TaskReady, pool, shared, builder, client
<1>1. TypeOK'
  BY DEF TypeOK
<1>2. ThreadInv'
  BY DEF ThreadInv, Running
<1>3. IndexInv'
  BY DEF IndexInv, Waits
<1>4. SourcesInv'
  BY DEF SourcesInv, Working, Wanted, TasksTaken, SourceOpen, Waits
<1>5. BatchInv'
  BY DEF BatchInv, Working, Wanted, Waits, Holds
<1>6. TakenInv'
  BY DEF TakenInv, Waits, Holds
<1> QED BY <1>1, <1>2, <1>3, <1>4, <1>5, <1>6

LEMMA ResumeKeeps == ASSUME BuilderInv, Resume PROVE BuilderInv'
<1> USE DEF BuilderInv, WakeBuilder, pool, builder, client
<1>1. /\ cpc = "resume" /\ cpc' = "send" /\ index' = 0 /\ status' = "NONE" /\ resume' = TRUE
      /\ WakeBuilder /\ UNCHANGED <<pool, subtasks, stopped, builder, client>>
  <2>1. ~stopped
    BY DEF Resume, ThreadInv
  <2> QED BY <2>1 DEF Resume, FirstIndex
<1>2. bpc \in Waits /\ bpc' = "await" /\ Len(sources) = numberTasks + 1
  BY <1>1 DEF TakenInv, Waits
<1>3. TypeOK'
  BY <1>1, BuilderAssumption DEF TypeOK, Status, BuilderAssumption
<1>4. ThreadInv'
  BY <1>1, <1>2 DEF TypeOK, ThreadInv, Running, Waits
<1>5. IndexInv'
  BY <1>1, <1>2 DEF IndexInv, Waits
<1>6. SourcesInv'
  BY <1>1, <1>2 DEF SourcesInv, Working, Wanted, TasksTaken, SourceOpen, Waits
<1>7. BatchInv'
  BY <1>1, <1>2 DEF BatchInv, Waits
<1>8. TakenInv'
  BY <1>1 DEF TakenInv, Waits, Holds
<1> QED BY <1>3, <1>4, <1>5, <1>6, <1>7, <1>8

LEMMA SendKeeps == ASSUME BuilderInv, Send PROVE BuilderInv'
<1> USE DEF BuilderInv, Send, pool, shared, builder
<1>1. TypeOK'
  <2>1. size \in 0 .. MaxSubtasks
    <3>1. numberTasks + 1 \in 1 .. Len(sources)
      BY DEF TypeOK, TakenInv
    <3> QED BY <3>1, ElementOfSeq DEF TypeOK, TakenInv
  <2>2. sent' \in 0 .. MaxSubtasks
    BY <2>1, BuilderAssumption DEF TypeOK, BuilderAssumption
  <2> QED BY <2>2 DEF TypeOK
<1>2. ThreadInv'
  BY DEF ThreadInv, Running
<1>3. IndexInv'
  BY DEF IndexInv, Waits
<1>4. SourcesInv'
  BY DEF SourcesInv, Working, Wanted, TasksTaken, SourceOpen, Waits
<1>5. BatchInv'
  BY DEF BatchInv, Working, Wanted, Waits, Holds
<1>6. TakenInv'
  <2>1. sent' <= size
    BY BuilderAssumption DEF TypeOK, BuilderAssumption
  <2> QED BY <2>1 DEF TakenInv, Waits, Holds
<1> QED BY <1>1, <1>2, <1>3, <1>4, <1>5, <1>6

LEMMA SendFailsKeeps == ASSUME BuilderInv, SendFails PROVE BuilderInv'
<1> USE DEF BuilderInv, SendFails, pool, shared, builder, client
<1>1. TypeOK'
  BY DEF TypeOK
<1>2. ThreadInv'
  BY DEF ThreadInv, Running
<1>3. IndexInv'
  BY DEF IndexInv, Waits
<1>4. SourcesInv'
  BY DEF SourcesInv, Working, Wanted, TasksTaken, SourceOpen, Waits
<1>5. BatchInv'
  BY DEF BatchInv, Working, Wanted, Waits, Holds
<1>6. TakenInv'
  BY DEF TakenInv, Waits, Holds
<1> QED BY <1>1, <1>2, <1>3, <1>4, <1>5, <1>6

LEMMA EndTaskKeeps == ASSUME BuilderInv, EndTask PROVE BuilderInv'
<1> USE DEF BuilderInv, EndTask, pool, shared, builder
<1>1. TypeOK'
  <2>1. numberTasks + 1 \in 0 .. MaxTasks
    BY BuilderAssumption DEF TypeOK, ThreadInv, BuilderAssumption
  <2> QED BY <2>1 DEF TypeOK
<1>2. ThreadInv'
  BY BuilderAssumption DEF TypeOK, ThreadInv, Running, BuilderAssumption
<1>3. IndexInv'
  BY DEF IndexInv, Waits
<1>4. SourcesInv'
  BY DEF SourcesInv, Working, Wanted, TasksTaken, SourceOpen, Waits
<1>5. BatchInv'
  BY DEF BatchInv, Working, Wanted, Waits, Holds
<1>6. TakenInv'
  BY DEF TakenInv, Waits, Holds
<1> QED BY <1>1, <1>2, <1>3, <1>4, <1>5, <1>6

LEMMA StopKeeps == ASSUME BuilderInv, Stop PROVE BuilderInv'
<1> USE DEF BuilderInv, Stop, StopBuilder, WakeBuilder, pool, builder, client
<1>1. TypeOK'
  BY ZenonT(30) DEF TypeOK, Status
<1>2. ThreadInv'
  BY DEF ThreadInv, Running
<1>3. IndexInv'
  BY DEF IndexInv, Waits
<1>4. SourcesInv'
  BY DEF SourcesInv, Working, Wanted, TasksTaken, SourceOpen, Waits
<1>5. BatchInv'
  BY DEF BatchInv, Working, Wanted, Waits, Holds
<1>6. TakenInv'
  BY DEF TakenInv, Waits, Holds
<1> QED BY <1>1, <1>2, <1>3, <1>4, <1>5, <1>6

LEMMA StopPoolKeeps == ASSUME BuilderInv, StopPool PROVE BuilderInv'
<1> USE DEF BuilderInv, StopPool, shared, builder, client
<1>1. TypeOK'
  BY DEF TypeOK
<1>2. ThreadInv'
  BY DEF ThreadInv, Running
<1>3. IndexInv'
  BY DEF IndexInv, Waits
<1>4. SourcesInv'
  BY DEF SourcesInv, Working, Wanted, TasksTaken, SourceOpen, Waits
<1>5. BatchInv'
  BY DEF BatchInv, Working, Wanted, Waits, Holds
<1>6. TakenInv'
  BY DEF TakenInv, Waits, Holds
<1> QED BY <1>1, <1>2, <1>3, <1>4, <1>5, <1>6

LEMMA JoinKeeps == ASSUME BuilderInv, Join PROVE BuilderInv'
<1> USE DEF BuilderInv, Join, shared, builder, client
<1>1. TypeOK'
  BY DEF TypeOK
<1>2. ThreadInv'
  BY DEF ThreadInv, Running
<1>3. IndexInv'
  BY DEF IndexInv, Waits
<1>4. SourcesInv'
  BY DEF SourcesInv, Working, Wanted, TasksTaken, SourceOpen, Waits
<1>5. BatchInv'
  BY DEF BatchInv, Working, Wanted, Waits, Holds
<1>6. TakenInv'
  BY DEF TakenInv, Waits, Holds
<1> QED BY <1>1, <1>2, <1>3, <1>4, <1>5, <1>6

-----------------------------------------------------------------------------
LEMMA BuilderInit == Init => BuilderInv
<1> SUFFICES ASSUME Init PROVE BuilderInv
  OBVIOUS
<1>1. TypeOK
  <2>1. <<>> \in Seq(Nat \X Nat) /\ <<>> \in Seq(0 .. MaxSubtasks)
    BY EmptySeq
  <2>2. 0 \in 0 .. MaxSubtasks /\ 0 \in 0 .. MaxSubtasks + 1 /\ 0 \in 0 .. MaxTasks
    BY BuilderAssumption DEF BuilderAssumption
  <2> USE DEF Init
  <2>3. /\ subtasks \in Seq(Nat \X Nat) /\ task \in Seq(Nat \X Nat)
        /\ sources \in Seq(0 .. MaxSubtasks)
    BY <2>1
  <2>4. /\ index \in 0 .. MaxSubtasks /\ made \in 0 .. MaxSubtasks
        /\ size \in 0 .. MaxSubtasks + 1 /\ sent \in 0 .. MaxSubtasks
        /\ numberTasks \in 0 .. MaxTasks
    BY <2>2
  <2>5. objects \in 0 .. 1 /\ status \in Status /\ got \in Status
    BY DEF Status
  <2>6. /\ resume \in BOOLEAN /\ stopped \in BOOLEAN /\ poolStopped \in BOOLEAN
        /\ blank \in BOOLEAN /\ queue \in {<<>>, <<"builder">>}
    OBVIOUS
  <2> QED BY <2>3, <2>4, <2>5, <2>6, Zenon DEF TypeOK
<1>2. ThreadInv /\ IndexInv
  BY BuilderAssumption DEF Init, ThreadInv, IndexInv, Running, Waits, BuilderAssumption
<1>3. SourcesInv /\ BatchInv /\ TakenInv
  BY EmptySeq DEF Init, SourcesInv, BatchInv, TakenInv, Working, Wanted, TasksTaken,
    SourceOpen, Waits
<1> QED BY <1>1, <1>2, <1>3 DEF BuilderInv

LEMMA BuilderStepKeeps == BuilderInv /\ [Next]_vars => BuilderInv'
<1> SUFFICES ASSUME BuilderInv, [Next]_vars PROVE BuilderInv'
  OBVIOUS
<1>1. CASE BuilderStep
  BY <1>1, GetKeeps, FinallyKeeps, LeaveThreadKeeps, LoopKeeps, OpenSourceKeeps,
    SubtaskDoneKeeps, TaskDoneKeeps, NoSubtaskKeeps, ThrowKeeps, AwaitKeeps DEF BuilderStep
<1>2. CASE ClientStep
  BY <1>2, StartKeeps, ProcessTaskKeeps, GetTaskKeeps, WaitTaskKeeps, ResumeKeeps, SendKeeps,
    SendFailsKeeps, EndTaskKeeps, StopKeeps, StopPoolKeeps, JoinKeeps DEF ClientStep
<1>3. CASE UNCHANGED vars
  <2> USE <1>3 DEF vars, shared, pool, builder, client, BuilderInv
  <2>1. TypeOK'
    BY DEF TypeOK
  <2>2. ThreadInv' /\ IndexInv'
    BY DEF ThreadInv, IndexInv
  <2>3. SourcesInv' /\ BatchInv' /\ TakenInv'
    BY DEF SourcesInv, BatchInv, TakenInv, Holds, Working, Wanted, TasksTaken, SourceOpen
  <2> QED BY <2>1, <2>2, <2>3
<1> QED BY <1>1, <1>2, <1>3 DEF Next

(* The parts of the argument hold in every state a client can reach.       *)
THEOREM BuilderInvariant == Spec => []BuilderInv
<1> QED BY BuilderInit, BuilderStepKeeps, PTL DEF Spec

(* The buffers, the indices and the counters of the builder and of the     *)
(* client keep their types, for every source and with every fault.         *)
THEOREM BuilderTypes == Spec => []TypeOK
<1>1. BuilderInv => TypeOK
  BY DEF BuilderInv
<1> QED BY <1>1, BuilderInvariant, PTL

LEMMA PrefixFacts ==
  ASSUME NEW S, NEW s \in Seq(S), NEW k \in Nat, k <= Len(s)
  PROVE  /\ SubSeq(s, 1, k) \in Seq(S)
         /\ Len(SubSeq(s, 1, k)) = k
         /\ \A i \in 1 .. k : SubSeq(s, 1, k)[i] = s[i]
<1>1. \A i \in 1 .. k : s[i] \in S
  BY ElementOfSeq, LenProperties
<1>2. k - 1 + 1 = k /\ \A i \in 1 .. k : 1 + i - 1 = i
  OBVIOUS
<1>3. /\ SubSeq(s, 1, k) \in Seq(S)
      /\ Len(SubSeq(s, 1, k)) = IF 1 <= k THEN k - 1 + 1 ELSE 0
      /\ \A i \in 1 .. k - 1 + 1 : SubSeq(s, 1, k)[i] = s[1 + i - 1]
  BY <1>1, SubSeqProperties
<1> QED BY <1>2, <1>3

(* The swap of getTask gives Client::processTask the next source, whole    *)
(* and in order, whatever the other buffer held.                           *)
THEOREM SendsTheBatch == Spec => []SendsBatch
<1>1. BuilderInv => SendsBatch
  <2> SUFFICES ASSUME BuilderInv, cpc = "send"
               PROVE  /\ size <= Len(task)
                      /\ SubSeq(task, 1, size) = Batch(numberTasks + 1)
    BY DEF SendsBatch
  <2> DEFINE n == numberTasks + 1
  <2>1. n \in 1 .. Len(sources) /\ size = sources[n]
    BY DEF BuilderInv, TypeOK, TakenInv
  <2>2. /\ size <= Len(task) /\ size \in Nat
        /\ \A i \in 1 .. size : task[i] = <<n, i>>
    <3>1. size \in Nat
      BY BuilderAssumption DEF BuilderInv, TypeOK, BuilderAssumption
    <3> QED BY <3>1 DEF BuilderInv, TakenInv, Holds
  <2>3. task \in Seq(Nat \X Nat) /\ Len(task) \in Nat /\ n \in Nat
    BY LenProperties, BuilderAssumption DEF BuilderInv, TypeOK, BuilderAssumption
  <2>4. \A i \in 1 .. size : task[i] \in Nat \X Nat /\ <<n, i>> \in Nat \X Nat
    BY <2>2, <2>3, ElementOfSeq
  <2>5. /\ SubSeq(task, 1, size) \in Seq(Nat \X Nat)
        /\ Len(SubSeq(task, 1, size)) = size
        /\ \A i \in 1 .. size : SubSeq(task, 1, size)[i] = task[i]
    BY <2>2, <2>3, PrefixFacts
  <2>6. /\ Batch(n) \in Seq(Nat \X Nat)
        /\ Len(Batch(n)) = size
        /\ \A i \in 1 .. size : Batch(n)[i] = <<n, i>>
    BY <2>1, <2>2, <2>4 DEF Batch
  <2>7. SubSeq(task, 1, size) = Batch(n)
    BY <2>2, <2>5, <2>6, SeqEqual
  <2> QED BY <2>2, <2>7
<1> QED BY <1>1, BuilderInvariant, PTL

=============================================================================
