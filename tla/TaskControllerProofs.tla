----------------------- MODULE TaskControllerProofs -----------------------
(***************************************************************************)
(* Proofs about TaskController for any set of workers and sessions, any    *)
(* size and number of batches, with and without SORTINPUT.                 *)
(*                                                                         *)
(* The inductive invariant IInv says, for the Task in service, how far the *)
(* round has come: the rows below the counter are done or in the hands of  *)
(* a worker (RoundProgress), a worker that has arrived saw the counter     *)
(* beyond the size (WorkersOK), so that when all have arrived every row is *)
(* done; and who owns the Task (ServiceOK, SessionsOK).                    *)
(***************************************************************************)
EXTENDS TaskController, SequenceTheorems, TLAPS

-----------------------------------------------------------------------------
(* Leaving: a stopped controller whose workers can only exit.              *)
Leaving == stopped /\ \A w \in Worker : wpc[w] \in {"check", "exit"}

(* The Task in service is unanswered and its session waits for it.         *)
ServiceOK ==
  /\ bpc = "idle" =>
       \/ ~promise[task] /\ (task # EmptyTask => spc[task] = "wait")
       \/ Leaving
  /\ size[EmptyTask] = 0
  /\ bpc = "setNextTask" => AllArrived /\ phase = "PROCESSTASK"

(* Where a session is says what its promise and its queue entry are.       *)
SessionsOK ==
  /\ \A s \in Session : spc[s] = "push" => ~promise[s]
  /\ stopped => \A s \in Session : spc[s] = "done"
  /\ \A s \in Session :
       (spc[s] = "wait" /\ promise[s]) \/ spc[s] = "reply" => Answered(s)

(* The sessions in the queue wait, unanswered, once each, and none of them *)
(* is in service.                                                          *)
QueueOK ==
  \A i \in 1 .. Len(queue) :
    /\ spc[queue[i]] = "wait"
    /\ ~promise[queue[i]]
    /\ bpc = "idle" => queue[i] # task
    /\ \A j \in 1 .. Len(queue) : i # j => queue[i] # queue[j]

(* The claims of working workers are distinct rows below the counter; a    *)
(* worker in the barrier saw the counter beyond the size.                  *)
WorkersOK ==
  /\ \A w \in Worker : wpc[w] = "work" => widx[w] < index[task] /\ widx[w] < size[task]
  /\ \A v, w \in Worker :
       v # w /\ wpc[v] = "work" /\ wpc[w] = "work" => widx[v] # widx[w]
  /\ bpc = "idle" => \A w \in Worker : wpc[w] = "barrier" => size[task] <= index[task]
  /\ \A w \in Worker : wpc[w] = "exit" => stopped

InHand(i) == \E w \in Worker : wpc[w] = "work" /\ widx[w] = i

KeyFresh(i) == key[task][i] = batch[task]

RowAnswered(i) ==
  response[task][OrgIndex(task, i)] = [batch |-> batch[task], key |-> batch[task]]

(* The rows below the counter are done or being done.                      *)
RoundProgress ==
  bpc = "idle" =>
    /\ phase = "PREPROCESSTASK" =>
         \A i \in Rows(task) : i < index[task] => KeyFresh(i) \/ InHand(i)
    /\ phase = "PROCESSTASK" =>
         /\ \A i \in Rows(task) : KeyFresh(i)
         /\ SortInput => sorted[task] \in SortedIndices(task)
         /\ \A i \in Rows(task) : i < index[task] => RowAnswered(i) \/ InHand(i)

IInv ==
  /\ TypeOK
  /\ ServiceOK
  /\ SessionsOK
  /\ QueueOK
  /\ WorkersOK
  /\ RoundProgress

-----------------------------------------------------------------------------
(* Type correctness of the batch engine.                                   *)

LEMMA TypeInit == Init => TypeOK
  <1> SUFFICES ASSUME Init PROVE TypeOK
    OBVIOUS
  <1> USE ConstantsAssumption DEF ConstantsAssumption, Init
  <1>1. 0 \in Batch /\ NoAnswer \in Answer
    BY DEF Batch, NoAnswer, Answer
  <1>2. size \in [Task -> 0 .. MaxSize]
    OBVIOUS
  <1>3. /\ batch \in [Task -> Batch]
        /\ key \in [Task -> [Row -> Batch]]
        /\ response \in [Task -> [Row -> Answer]]
        /\ sorted \in [Task -> [Row -> Row]]
    BY <1>1
  <1>4. index \in [Task -> Nat] /\ promise \in [Task -> BOOLEAN] /\ task \in Task
    BY DEF Task
  <1>5. /\ wpc \in [Worker -> {"check", "claim", "work", "test", "barrier", "exit"}]
        /\ widx \in [Worker -> Nat]
        /\ spc \in [Session -> {"idle", "push", "wait", "reply", "done"}]
    OBVIOUS
  <1>6. queue \in Seq(Session)
    OBVIOUS
  <1>7. phase \in {"PREPROCESSTASK", "PROCESSTASK"} /\ stopped \in BOOLEAN
        /\ bpc \in {"idle", "setNextTask"}
    OBVIOUS
  <1> HIDE DEF Init
  <1>8. QED
    BY <1>2, <1>3, <1>4, <1>5, <1>6, <1>7 DEF TypeOK

LEMMA TypeStep == TypeOK /\ [Next]_vars => TypeOK'
  <1> SUFFICES ASSUME TypeOK, [Next]_vars PROVE TypeOK'
    OBVIOUS
  <1> USE ConstantsAssumption DEF ConstantsAssumption, TypeOK, ctrl, data, Task
  <1>1. ASSUME NEW w \in Worker, WorkerStep(w) PROVE TypeOK'
    <2>1. CASE Continue(w)
      BY <2>1 DEF Continue
    <2>2. CASE Exit(w)
      BY <2>2 DEF Exit
    <2>3. CASE Claim(w)
      BY <2>3 DEF HasRow, Claim
    <2>4. CASE Preprocess(w)
      BY <2>4 DEF SizeKey, Preprocess
    <2>5. CASE Process(w)
      <3> DEFINE org == OrgIndex(task, widx[w])
                 ans == [batch |-> batch[task], key |-> key[task][org]]
      <3>1. response' = [response EXCEPT ![task][org] = ans]
        BY <2>5 DEF Process
      <3>2. CASE org \in Row
        <4>1. ans \in Answer
          BY <3>2 DEF Answer
        <4>2. response' \in [Task -> [Row -> Answer]]
          BY <3>1, <3>2, <4>1
        <4>3. QED
          BY <2>5, <4>2 DEF Process
      <3>3. CASE org \notin Row
        <4>1. response' \in [Task -> [Row -> Answer]]
          BY <3>1, <3>3
        <4>2. QED
          BY <2>5, <4>1 DEF Process
      <3>4. QED
        BY <3>2, <3>3
    <2>6. CASE Test(w)
      BY <2>6 DEF Test
    <2>7. QED
      BY <1>1, <2>1, <2>2, <2>3, <2>4, <2>5, <2>6 DEF WorkerStep
  <1>2. ASSUME Completion PROVE TypeOK'
    <2>1. CASE CompletePreprocess
      <3>1. sorted' \in [Task -> [Row -> Row]]
        BY <2>1 DEF CompletePreprocess, SortedIndices
      <3>2. index' \in [Task -> Nat] /\ wpc' \in [Worker -> {"check"}]
        BY <2>1 DEF CompletePreprocess, Release
      <3>3. QED
        BY <2>1, <3>1, <3>2 DEF CompletePreprocess
    <2>2. CASE Finish
      BY <2>2 DEF Finish
    <2>3. CASE SetNextTask
      <3>1. task' \in Task /\ queue' \in Seq(Session)
        <4>1. CASE stopped
          BY <2>3, <4>1 DEF SetNextTask
        <4>2. CASE ~stopped
          <5>1. queue # <<>> /\ task' = Head(queue) /\ queue' = Tail(queue)
            BY <2>3, <4>2 DEF WakeUp, SetNextTask
          <5>2. Head(queue) \in Session /\ Tail(queue) \in Seq(Session)
            BY <5>1
          <5>3. QED
            BY <5>1, <5>2
        <4>3. QED
          BY <4>1, <4>2
      <3>2. index' \in [Task -> Nat] /\ wpc' \in [Worker -> {"check"}]
        BY <2>3, <3>1 DEF SetNextTask, Release
      <3>3. QED
        BY <2>3, <3>1, <3>2 DEF SetNextTask
    <2>4. QED
      BY <1>2, <2>1, <2>2, <2>3 DEF Completion
  <1>3. ASSUME NEW s \in Session, SessionStep(s) PROVE TypeOK'
    <2>1. CASE Update(s)
      <3>1. batch' \in [Task -> Batch]
        <4>1. batch[s] \in Batch /\ batch[s] < MaxBatches
          BY <2>1 DEF Update
        <4>2. batch[s] + 1 \in Batch
          BY <4>1 DEF Batch
        <4>3. QED
          BY <2>1, <4>2 DEF Update
      <3>2. PICK n \in 0 .. MaxSize :
              /\ size' = [size EXCEPT ![s] = n]
              /\ response' = [response EXCEPT ![s] = Resized(@, n)]
        BY <2>1 DEF Resized, Update
      <3>3. NoAnswer \in Answer
        BY DEF NoAnswer, Answer, Batch
      <3>4. response' \in [Task -> [Row -> Answer]] /\ size' \in [Task -> 0 .. MaxSize]
        BY <3>2, <3>3 DEF Resized
      <3>5. sorted' \in [Task -> [Row -> Row]]
        BY <2>1 DEF Update
      <3>6. QED
        BY <2>1, <3>1, <3>4, <3>5 DEF Renewed, Update
    <2>2. CASE Push(s)
      BY <2>2 DEF Enqueue, Push
    <2>3. CASE Collect(s)
      BY <2>3 DEF Collect
    <2>4. CASE SendReply(s)
      BY <2>4 DEF SendReply
    <2>5. CASE EndSession(s)
      BY <2>5 DEF EndSession
    <2>6. QED
      BY <1>3, <2>1, <2>2, <2>3, <2>4, <2>5 DEF SessionStep
  <1>4. CASE Stop
    BY <1>4 DEF Stop
  <1>5. CASE UNCHANGED vars
    BY <1>5 DEF vars
  <1>6. QED
    BY <1>1, <1>2, <1>3, <1>4, <1>5 DEF Next, Destroyed

(* Every variable keeps its type in every behaviour of the batch engine.   *)
THEOREM TypeCorrect == Spec => []TypeOK
  BY TypeInit, TypeStep, PTL DEF Spec

-----------------------------------------------------------------------------
(* The inductive invariant, one lemma per group of actions.                *)

LEMMA IInvInit == Init => IInv
  <1> SUFFICES ASSUME Init PROVE IInv
    OBVIOUS
  <1> USE ConstantsAssumption DEF ConstantsAssumption
  <1>1. TypeOK
    BY TypeInit
  <1>2. ServiceOK
    BY DEF Init, ServiceOK, Task
  <1>3. SessionsOK /\ QueueOK
    BY DEF Init, SessionsOK, QueueOK
  <1>4. WorkersOK
    BY DEF Init, WorkersOK
  <1>5. Rows(task) = {}
    BY DEF Init, Rows, Row, Task
  <1>6. sorted[task] \in SortedIndices(task)
    BY <1>5 DEF Init, SortedIndices, Task
  <1>7. RoundProgress
    BY <1>5, <1>6 DEF RoundProgress
  <1>8. QED
    BY <1>1, <1>2, <1>3, <1>4, <1>7 DEF IInv

(* Steps of a worker that change nothing but its place.                    *)
LEMMA PlaceSteps ==
  ASSUME IInv, NEW w \in Worker, Continue(w) \/ Exit(w) \/ Test(w)
  PROVE IInv'
  <1> USE DEF IInv
  <1>1. TypeOK'
    <2>1. WorkerStep(w)
      BY DEF WorkerStep
    <2>2. QED
      BY <2>1, TypeStep DEF Next
  <1>2. /\ UNCHANGED <<ctrl, data, index, widx, spc>>
        /\ \E p \in {"claim", "exit", "barrier"} : wpc' = [wpc EXCEPT ![w] = p]
        /\ wpc[w] \in {"check", "test"}
    BY DEF HasRow, Continue, Exit, Test
  <1>3. /\ \A v \in Worker : (wpc'[v] = "work" <=> wpc[v] = "work")
        /\ AllArrived => wpc[w] = "barrier"
    BY <1>2 DEF TypeOK, AllArrived
  <1>4. ServiceOK'
    <2>1. bpc # "setNextTask"
      BY <1>2, <1>3 DEF ServiceOK
    <2>2. Leaving => Leaving'
      BY <1>2 DEF Leaving, Continue, Exit, Test, TypeOK, ctrl
    <2>3. QED
      BY <1>2, <2>1, <2>2 DEF ServiceOK, ctrl, data
  <1>5. SessionsOK'
    BY <1>2 DEF SessionsOK, Answered, Rows, ctrl, data
  <1>6. QueueOK'
    BY <1>2 DEF QueueOK, ctrl, data
  <1>7. WorkersOK'
    <2>1. /\ \A v \in Worker : wpc'[v] = "barrier" =>
               wpc[v] = "barrier" \/ size[task] <= index[task]
          /\ \A v \in Worker : wpc'[v] = "exit" => wpc[v] = "exit" \/ stopped
      BY DEF HasRow, Continue, Exit, Test, TypeOK
    <2>2. QED
      BY <1>2, <1>3, <2>1 DEF WorkersOK, ctrl, data
  <1>8. RoundProgress'
    <2>1. \A i : InHand(i) => InHand(i)'
      BY <1>2, <1>3 DEF InHand
    <2>2. QED
      BY <1>2, <2>1 DEF RoundProgress, Rows, KeyFresh, RowAnswered, OrgIndex,
                        SortedIndices, ctrl, data
  <1>9. QED
    BY <1>1, <1>4, <1>5, <1>6, <1>7, <1>8

(* A worker that claims or works is on a Task that nobody else may touch.  *)
LEMMA BusyFacts ==
  ASSUME IInv, NEW w \in Worker, Touching(w)
  PROVE  /\ bpc = "idle"
         /\ ~promise[task]
         /\ task # EmptyTask => spc[task] = "wait"
         /\ ~Leaving
         /\ ~AllArrived
  BY DEF IInv, TypeOK, ServiceOK, AllArrived, Leaving, Touching

LEMMA ClaimStep ==
  ASSUME IInv, NEW w \in Worker, Claim(w)
  PROVE IInv'
  <1> USE DEF IInv
  <1>1. TypeOK'
    BY TypeStep DEF WorkerStep, Next
  <1>2. /\ bpc = "idle" /\ ~promise[task] /\ ~AllArrived
        /\ task # EmptyTask => spc[task] = "wait"
    BY BusyFacts DEF Touching, Claim
  <1>3. /\ UNCHANGED <<ctrl, data, spc>>
        /\ index' = [index EXCEPT ![task] = index[task] + 1]
        /\ index[task] \in Nat
        /\ size[task] \in Nat
    BY ConstantsAssumption DEF HasRow, Claim, TypeOK, ConstantsAssumption
  <1>4. /\ widx' = [widx EXCEPT ![w] = index[task]]
        /\ \A v \in Worker \ {w} : wpc'[v] = wpc[v] /\ widx'[v] = widx[v]
        /\ index'[task] = index[task] + 1
        /\ wpc[w] = "claim"
    BY DEF Claim, TypeOK
  <1>5. \/ index[task] < size[task] /\ wpc'[w] = "work" /\ widx'[w] = index[task]
        \/ ~(index[task] < size[task]) /\ wpc'[w] = "test"
    BY DEF HasRow, Claim, TypeOK
  <1>6. ServiceOK'
    BY <1>2, <1>3 DEF ServiceOK, ctrl, data
  <1>7. SessionsOK'
    BY <1>3 DEF SessionsOK, Answered, Rows, ctrl, data
  <1>8. QueueOK'
    BY <1>3 DEF QueueOK, ctrl, data
  <1>9. WorkersOK'
    <2>1. /\ size' = size /\ task' = task /\ bpc' = bpc /\ stopped' = stopped
      BY <1>3 DEF ctrl, data
    <2>2. \A v \in Worker : wpc'[v] = "work" =>
             widx'[v] < index'[task] /\ widx'[v] < size[task]
      BY <1>3, <1>4, <1>5 DEF WorkersOK, TypeOK
    <2>3. \A u, v \in Worker :
             u # v /\ wpc'[u] = "work" /\ wpc'[v] = "work" => widx'[u] # widx'[v]
      BY <1>3, <1>4, <1>5 DEF WorkersOK, TypeOK
    <2>4. \A v \in Worker :
             /\ wpc'[v] = "barrier" => size[task] <= index'[task]
             /\ wpc'[v] = "exit" => stopped
      BY <1>2, <1>3, <1>4, <1>5 DEF WorkersOK
    <2>5. QED
      BY <2>1, <2>2, <2>3, <2>4 DEF WorkersOK
  <1>10. RoundProgress'
    <2>1. \A i : InHand(i) => InHand(i)'
      BY <1>4 DEF InHand
    <2>2. \A i \in Rows(task) : i = index[task] => InHand(i)'
      BY <1>5 DEF InHand, Rows
    <2>3. \A i \in Rows(task) : i < index'[task] => i < index[task] \/ InHand(i)'
      BY <1>3, <1>4, <2>2, ConstantsAssumption DEF Rows, Row, ConstantsAssumption
    <2>4. QED
      BY <1>2, <1>3, <2>1, <2>3 DEF RoundProgress, Rows, KeyFresh, RowAnswered, OrgIndex,
                                    SortedIndices, ctrl, data
  <1>11. QED
    BY <1>1, <1>6, <1>7, <1>8, <1>9, <1>10

LEMMA PreprocessStep ==
  ASSUME IInv, NEW w \in Worker, Preprocess(w)
  PROVE IInv'
  <1> USE DEF IInv
  <1>1. TypeOK'
    BY TypeStep DEF WorkerStep, Next
  <1>2. /\ bpc = "idle" /\ ~promise[task] /\ ~AllArrived
        /\ task # EmptyTask => spc[task] = "wait"
    BY BusyFacts DEF Touching, Preprocess
  <1>3. /\ UNCHANGED <<ctrl, size, batch, sorted, response, promise, index, widx, spc>>
        /\ key' = [key EXCEPT ![task][widx[w]] = batch[task]]
        /\ phase = "PREPROCESSTASK"
        /\ wpc[w] = "work" /\ wpc'[w] = "test"
        /\ \A v \in Worker \ {w} : wpc'[v] = wpc[v]
    BY DEF SizeKey, Preprocess, TypeOK
  <1>4. ServiceOK'
    BY <1>2, <1>3 DEF ServiceOK, ctrl
  <1>5. SessionsOK'
    BY <1>3 DEF SessionsOK, Answered, Rows, ctrl
  <1>6. QueueOK'
    BY <1>3 DEF QueueOK, ctrl
  <1>7. WorkersOK'
    BY <1>3 DEF WorkersOK, ctrl
  <1>8. \A i \in Rows(task) : KeyFresh(i) \/ InHand(i) => (KeyFresh(i) \/ InHand(i))'
    <2> SUFFICES ASSUME NEW i \in Rows(task), KeyFresh(i) \/ InHand(i)
                 PROVE (KeyFresh(i) \/ InHand(i))'
      OBVIOUS
    <2>1. i \in Row /\ task \in Task /\ task' = task /\ batch' = batch
      BY <1>3 DEF Rows, TypeOK, ctrl
    <2>2. CASE i = widx[w]
      BY <1>3, <2>1, <2>2 DEF KeyFresh, TypeOK
    <2>3. CASE i # widx[w]
      <3>1. key'[task][i] = key[task][i]
        BY <1>3, <2>1, <2>3 DEF TypeOK
      <3>2. InHand(i) => InHand(i)'
        BY <1>3, <2>3 DEF InHand
      <3>3. QED
        BY <2>1, <3>1, <3>2 DEF KeyFresh
    <2>4. QED
      BY <2>2, <2>3
  <1>9. RoundProgress'
    BY <1>2, <1>3, <1>8 DEF RoundProgress, Rows, ctrl
  <1>10. QED
    BY <1>1, <1>4, <1>5, <1>6, <1>7, <1>9

LEMMA ProcessStep ==
  ASSUME IInv, NEW w \in Worker, Process(w)
  PROVE IInv'
  <1> USE DEF IInv
  <1> DEFINE org == OrgIndex(task, widx[w])
             ans == [batch |-> batch[task], key |-> key[task][org]]
  <1>1. TypeOK'
    BY TypeStep DEF WorkerStep, Next
  <1>2. /\ bpc = "idle" /\ ~promise[task] /\ ~AllArrived
        /\ task # EmptyTask => spc[task] = "wait"
    BY BusyFacts DEF Touching, Process
  <1>3. /\ UNCHANGED <<ctrl, size, batch, key, sorted, promise, index, widx, spc>>
        /\ response' = [response EXCEPT ![task][org] = ans]
        /\ phase = "PROCESSTASK"
        /\ wpc[w] = "work" /\ wpc'[w] = "test"
        /\ \A v \in Worker \ {w} : wpc'[v] = wpc[v]
    BY DEF Process, TypeOK
  <1>4. ServiceOK'
    BY <1>2, <1>3 DEF ServiceOK, ctrl
  <1>5. SessionsOK'
    <2>1. \A s \in Session :
            (spc[s] = "wait" /\ promise[s]) \/ spc[s] = "reply" => response'[s] = response[s]
      BY <1>2, <1>3, ConstantsAssumption DEF TypeOK, Task, ConstantsAssumption
    <2>2. QED
      BY <1>3, <2>1 DEF SessionsOK, Answered, Rows, ctrl
  <1>6. QueueOK'
    BY <1>3 DEF QueueOK, ctrl
  <1>7. WorkersOK'
    BY <1>3 DEF WorkersOK, ctrl
  <1>8. \A i \in Rows(task) : OrgIndex(task, i) \in Rows(task)
    BY <1>2, <1>3 DEF RoundProgress, SortedIndices, OrgIndex
  <1>9. widx[w] \in Rows(task)
    BY <1>3, ConstantsAssumption DEF WorkersOK, Rows, Row, TypeOK, ConstantsAssumption
  <1>10. ans = [batch |-> batch[task], key |-> batch[task]]
    BY <1>2, <1>3, <1>8, <1>9 DEF RoundProgress, KeyFresh
  <1>11. \A i \in Rows(task) : RowAnswered(i) \/ InHand(i) => (RowAnswered(i) \/ InHand(i))'
    <2> SUFFICES ASSUME NEW i \in Rows(task), RowAnswered(i) \/ InHand(i)
                 PROVE (RowAnswered(i) \/ InHand(i))'
      OBVIOUS
    <2> DEFINE o == OrgIndex(task, i)
    <2>1. o \in Row /\ org \in Row /\ task \in Task
      BY <1>8, <1>9 DEF Rows, TypeOK
    <2>2. task' = task /\ OrgIndex(task, i)' = o /\ batch' = batch
      BY <1>3 DEF OrgIndex, ctrl
    <2>3. CASE o = org
      <3>1. response'[task][o] = ans
        BY <1>3, <2>1, <2>3 DEF TypeOK
      <3>2. QED
        BY <1>10, <2>2, <3>1 DEF RowAnswered
    <2>4. CASE o # org
      <3>1. response'[task][o] = response[task][o]
        BY <1>3, <2>1, <2>4 DEF TypeOK
      <3>2. RowAnswered(i) => RowAnswered(i)'
        BY <2>2, <3>1 DEF RowAnswered
      <3>3. InHand(i) => InHand(i)'
        BY <1>3, <2>4 DEF InHand
      <3>4. QED
        BY <3>2, <3>3
    <2>5. QED
      BY <2>3, <2>4
  <1>12. RoundProgress'
    BY <1>2, <1>3, <1>11 DEF RoundProgress, Rows, KeyFresh, SortedIndices, ctrl
  <1>13. QED
    BY <1>1, <1>4, <1>5, <1>6, <1>7, <1>12

-----------------------------------------------------------------------------
(* When all have arrived nothing is in hand: the round is complete.        *)
LEMMA RoundComplete ==
  ASSUME IInv, AllArrived, bpc = "idle"
  PROVE  /\ ~promise[task]
         /\ task # EmptyTask => spc[task] = "wait"
         /\ phase = "PREPROCESSTASK" => \A i \in Rows(task) : KeyFresh(i)
         /\ phase = "PROCESSTASK" => \A i \in Rows(task) : RowAnswered(i)
  <1> USE DEF IInv
  <1>1. \A w \in Worker : wpc[w] = "barrier"
    BY DEF AllArrived
  <1>2. PICK w \in Worker : wpc[w] = "barrier"
    BY <1>1, ConstantsAssumption DEF ConstantsAssumption
  <1>3. ~Leaving
    BY <1>2 DEF Leaving
  <1>4. \A i \in Rows(task) : i < index[task] /\ ~InHand(i)
    <2>1. size[task] <= index[task] /\ size[task] \in Nat /\ index[task] \in Nat
      BY <1>2, ConstantsAssumption DEF WorkersOK, TypeOK, ConstantsAssumption
    <2>2. QED
      BY <1>1, <2>1, ConstantsAssumption DEF Rows, Row, InHand, ConstantsAssumption
  <1>5. QED
    BY <1>3, <1>4 DEF ServiceOK, RoundProgress

LEMMA CompletePreprocessStep ==
  ASSUME IInv, CompletePreprocess
  PROVE IInv'
  <1> USE DEF IInv
  <1>1. TypeOK'
    BY TypeStep DEF Completion, Next
  <1>2. /\ ~promise[task]
        /\ task # EmptyTask => spc[task] = "wait"
        /\ \A i \in Rows(task) : KeyFresh(i)
    BY RoundComplete DEF CompletePreprocess
  <1>3. /\ UNCHANGED <<task, queue, stopped, bpc, size, batch, key, response, promise, widx, spc>>
        /\ bpc = "idle"
        /\ phase' = "PROCESSTASK"
        /\ index'[task] = 0
        /\ \A w \in Worker : wpc'[w] = "check"
    BY DEF CompletePreprocess, Release, TypeOK
  <1>4. ServiceOK'
    BY <1>2, <1>3 DEF ServiceOK
  <1>5. SessionsOK' /\ QueueOK'
    BY <1>3 DEF SessionsOK, QueueOK, Answered, Rows
  <1>6. WorkersOK'
    BY <1>3 DEF WorkersOK
  <1>7. RoundProgress'
    <2>1. Rows(task)' = Rows(task) /\ SortedIndices(task)' = SortedIndices(task)
      BY <1>3 DEF Rows, SortedIndices
    <2>2. SortInput => sorted'[task] \in SortedIndices(task)
      BY DEF CompletePreprocess, TypeOK
    <2>3. \A i \in Rows(task) : KeyFresh(i)'
      BY <1>2, <1>3 DEF KeyFresh
    <2>4. \A i \in Rows(task) : ~(i < 0)
      BY ConstantsAssumption DEF Rows, Row, ConstantsAssumption
    <2>5. QED
      BY <1>3, <2>1, <2>2, <2>3, <2>4 DEF RoundProgress
  <1>8. QED
    BY <1>1, <1>4, <1>5, <1>6, <1>7

LEMMA FinishStep ==
  ASSUME IInv, Finish
  PROVE IInv'
  <1> USE DEF IInv
  <1>1. TypeOK'
    BY TypeStep DEF Completion, Next
  <1>2. /\ task # EmptyTask => spc[task] = "wait"
        /\ \A i \in Rows(task) : RowAnswered(i)
    BY RoundComplete DEF Finish
  <1>3. /\ UNCHANGED <<phase, task, queue, stopped, size, batch, key, sorted, response,
                       index, wpc, widx, spc>>
        /\ promise' = [promise EXCEPT ![task] = TRUE]
        /\ AllArrived /\ bpc = "idle" /\ phase = "PROCESSTASK"
        /\ bpc' = "setNextTask"
    BY DEF Finish
  <1>4. ServiceOK'
    BY <1>3 DEF ServiceOK, AllArrived
  <1>5. SessionsOK'
    <2>1. \A i \in Rows(task) :
             response[task][i] = [batch |-> batch[task], key |-> batch[task]]
      <3>1. \A j \in Rows(task) : \E i \in Rows(task) : OrgIndex(task, i) = j
        BY <1>3 DEF RoundProgress, OrgIndex, SortedIndices
      <3>2. QED
        BY <1>2, <3>1 DEF RowAnswered
    <2>2. \A s \in Session : s = task => Answered(s) /\ spc[s] = "wait"
      BY <1>2, <2>1, ConstantsAssumption DEF Answered, ConstantsAssumption
    <2>3. \A s \in Session : s # task => promise'[s] = promise[s]
      BY <1>3 DEF TypeOK, Task
    <2>4. QED
      BY <1>3, <2>2, <2>3 DEF SessionsOK, Answered, Rows
  <1>6. QueueOK'
    <2>1. \A i \in 1 .. Len(queue) : queue[i] \in Session /\ queue[i] # task
      BY <1>3 DEF QueueOK, TypeOK
    <2>2. QED
      BY <1>3, <2>1 DEF QueueOK, TypeOK, Task
  <1>7. WorkersOK'
    BY <1>3 DEF WorkersOK
  <1>8. RoundProgress'
    BY <1>3 DEF RoundProgress
  <1>9. QED
    BY <1>1, <1>4, <1>5, <1>6, <1>7, <1>8

LEMMA SetNextTaskStep ==
  ASSUME IInv, SetNextTask
  PROVE IInv'
  <1> USE DEF IInv
  <1>1. TypeOK'
    BY TypeStep DEF Completion, Next
  <1>2. /\ UNCHANGED <<data, stopped, widx, spc>>
        /\ bpc = "setNextTask" /\ bpc' = "idle"
        /\ phase' = "PREPROCESSTASK"
        /\ \A w \in Worker : wpc'[w] = "check"
    BY DEF WakeUp, SetNextTask, Release
  <1>3. task \in Task /\ task' \in Task /\ index'[task'] = 0
    BY <1>1 DEF SetNextTask, TypeOK
  <1>4. \/ stopped /\ task' = task /\ queue' = queue
        \/ ~stopped /\ queue # <<>> /\ task' = Head(queue) /\ queue' = Tail(queue)
    BY DEF WakeUp, SetNextTask
  <1>5. SessionsOK'
    BY <1>2 DEF SessionsOK, Answered, Rows, data
  <1>6. WorkersOK'
    BY <1>2 DEF WorkersOK
  <1>7. RoundProgress'
    <2>1. \A i \in Row : ~(i < 0)
      BY ConstantsAssumption DEF Row, ConstantsAssumption
    <2>2. QED
      BY <1>2, <1>3, <2>1 DEF RoundProgress, Rows
  <1>8. CASE stopped
    <2>1. Leaving'
      BY <1>2, <1>8 DEF Leaving
    <2>2. ServiceOK'
      BY <1>2, <2>1 DEF ServiceOK, data
    <2>3. \A i \in 1 .. Len(queue) : FALSE
      <3>1. \A i \in 1 .. Len(queue) : queue[i] \in Session /\ spc[queue[i]] = "wait"
        BY DEF QueueOK, TypeOK
      <3>2. QED
        BY <1>8, <3>1 DEF SessionsOK
    <2>4. QueueOK'
      BY <1>4, <1>8, <2>3 DEF QueueOK
    <2>5. QED
      BY <1>1, <1>5, <1>6, <1>7, <2>2, <2>4
  <1>9. CASE ~stopped
    <2>1. queue # <<>> /\ task' = Head(queue) /\ queue' = Tail(queue)
      BY <1>4, <1>9
    <2>2. 1 \in 1 .. Len(queue) /\ task' = queue[1]
      BY <2>1 DEF TypeOK
    <2>3. ServiceOK'
      BY <1>2, <2>2 DEF ServiceOK, QueueOK, data
    <2>4. /\ Len(queue') = Len(queue) - 1
          /\ \A i \in 1 .. Len(queue') : i + 1 \in 1 .. Len(queue) /\ queue'[i] = queue[i + 1]
      BY <2>1 DEF TypeOK
    <2>5. \A i \in 1 .. Len(queue') : i + 1 # 1 /\ i \in Int
      OBVIOUS
    <2>6. QueueOK'
      <3> SUFFICES ASSUME NEW i \in 1 .. Len(queue')
                   PROVE  /\ spc[queue'[i]] = "wait"
                          /\ ~promise[queue'[i]]
                          /\ queue'[i] # task'
                          /\ \A j \in 1 .. Len(queue') : i # j => queue'[i] # queue'[j]
        BY <1>2 DEF QueueOK, data
      <3>1. i + 1 \in 1 .. Len(queue) /\ queue'[i] = queue[i + 1] /\ i + 1 # 1
        BY <2>4, <2>5
      <3>2. ASSUME NEW j \in 1 .. Len(queue'), i # j PROVE queue'[i] # queue'[j]
        <4>1. j + 1 \in 1 .. Len(queue) /\ queue'[j] = queue[j + 1] /\ i + 1 # j + 1
          BY <2>4, <3>2
        <4>2. QED
          BY <3>1, <4>1 DEF QueueOK
      <3>3. QED
        BY <2>2, <3>1, <3>2 DEF QueueOK
    <2>7. QED
      BY <1>1, <1>5, <1>6, <1>7, <2>3, <2>6
  <1>10. QED
    BY <1>8, <1>9

-----------------------------------------------------------------------------
(* A session that is not blocked in future.get() is neither in service nor *)
(* in the queue, and the controller is not stopped unless it is done.      *)
LEMMA OutsideFacts ==
  ASSUME IInv, NEW s \in Session, spc[s] \in {"idle", "push", "reply"}
  PROVE  /\ bpc = "idle" => s # task
         /\ \A i \in 1 .. Len(queue) : queue[i] # s
         /\ ~stopped
  <1>1. ~stopped
    BY DEF IInv, SessionsOK
  <1>2. bpc = "idle" => s # task
    BY <1>1, ConstantsAssumption DEF IInv, ServiceOK, Leaving, ConstantsAssumption
  <1>3. QED
    BY <1>1, <1>2 DEF IInv, QueueOK

LEMMA UpdateStep ==
  ASSUME IInv, NEW s \in Session, Update(s)
  PROVE IInv'
  <1> USE DEF IInv
  <1>1. TypeOK'
    BY TypeStep DEF SessionStep, Next
  <1>2. /\ bpc = "idle" => s # task
        /\ \A i \in 1 .. Len(queue) : queue[i] # s
        /\ ~stopped
    BY OutsideFacts DEF Update
  <1>3. /\ UNCHANGED <<ctrl, key, index, wpc, widx>>
        /\ promise' = [promise EXCEPT ![s] = FALSE]
        /\ spc' = [spc EXCEPT ![s] = "push"]
        /\ \A t \in Task \ {s} : /\ size'[t] = size[t]
                                 /\ batch'[t] = batch[t]
                                 /\ sorted'[t] = sorted[t]
                                 /\ response'[t] = response[t]
    BY DEF Renewed, Update, TypeOK
  <1>4. /\ s \in Task /\ s # EmptyTask /\ EmptyTask \in Task
        /\ \A t \in Task \ {s} : promise'[t] = promise[t]
        /\ \A r \in Session \ {s} : spc'[r] = spc[r]
        /\ promise'[s] = FALSE /\ spc'[s] = "push"
    BY <1>3, ConstantsAssumption DEF TypeOK, Task, ConstantsAssumption
  <1>5. ServiceOK'
    BY <1>2, <1>3, <1>4 DEF ServiceOK, Leaving, AllArrived, ctrl, TypeOK, Task
  <1>6. SessionsOK'
    BY <1>2, <1>3, <1>4 DEF SessionsOK, Answered, Rows, ctrl, Task
  <1>7. QueueOK'
    <2>1. \A i \in 1 .. Len(queue) : queue[i] \in Session \ {s}
      BY <1>2 DEF TypeOK
    <2>2. QED
      BY <1>3, <1>4, <2>1 DEF QueueOK, ctrl, Task
  <1>8. WorkersOK'
    <2>1. bpc = "idle" => size'[task] = size[task]
      BY <1>2, <1>3 DEF TypeOK
    <2>2. \A w \in Worker : wpc[w] = "work" => bpc = "idle"
      BY BusyFacts DEF Touching
    <2>3. QED
      BY <1>3, <2>1, <2>2 DEF WorkersOK, ctrl
  <1>9. RoundProgress'
    <2> SUFFICES ASSUME bpc = "idle" PROVE RoundProgress'
      BY <1>3 DEF RoundProgress, ctrl
    <2>1. task' = task /\ task \in Task \ {s}
      BY <1>2, <1>3 DEF TypeOK, ctrl
    <2>2. \A i : InHand(i)' <=> InHand(i)
      BY <1>3 DEF InHand
    <2>3. QED
      BY <1>3, <2>1, <2>2 DEF RoundProgress, Rows, KeyFresh, RowAnswered, OrgIndex,
                              SortedIndices, ctrl
  <1>10. QED
    BY <1>1, <1>5, <1>6, <1>7, <1>8, <1>9

LEMMA PushStep ==
  ASSUME IInv, NEW s \in Session, Push(s)
  PROVE IInv'
  <1> USE DEF IInv
  <1>1. TypeOK'
    BY TypeStep DEF SessionStep, Next
  <1>2. /\ bpc = "idle" => s # task
        /\ \A i \in 1 .. Len(queue) : queue[i] # s
        /\ ~stopped
        /\ ~promise[s]
    BY OutsideFacts DEF Push, SessionsOK
  <1>3. /\ UNCHANGED <<phase, task, stopped, bpc, data, index, wpc, widx>>
        /\ queue' = Append(queue, s)
        /\ spc'[s] = "wait"
        /\ \A r \in Session \ {s} : spc'[r] = spc[r]
    BY DEF Enqueue, Push, TypeOK
  <1>4. ServiceOK'
    BY <1>2, <1>3 DEF ServiceOK, Leaving, AllArrived, TypeOK, Task, data
  <1>5. SessionsOK'
    BY <1>2, <1>3 DEF SessionsOK, Answered, Rows, data
  <1>6. QueueOK'
    <2>1. /\ Len(queue') = Len(queue) + 1 /\ Len(queue) \in Nat
          /\ \A i \in 1 .. Len(queue) : /\ queue'[i] = queue[i]
                                       /\ queue[i] \in Session \ {s}
                                       /\ i # Len(queue) + 1
          /\ queue'[Len(queue) + 1] = s
      BY <1>2, <1>3 DEF TypeOK
    <2>2. \A i \in 1 .. Len(queue') : i \in 1 .. Len(queue) \/ i = Len(queue) + 1
      BY <2>1
    <2> SUFFICES ASSUME NEW i \in 1 .. Len(queue')
                 PROVE  /\ spc'[queue'[i]] = "wait"
                        /\ ~promise[queue'[i]]
                        /\ bpc = "idle" => queue'[i] # task
                        /\ \A j \in 1 .. Len(queue') : i # j => queue'[i] # queue'[j]
      BY <1>3 DEF QueueOK, data
    <2>3. CASE i \in 1 .. Len(queue)
      BY <1>3, <2>1, <2>2, <2>3 DEF QueueOK
    <2>4. CASE i = Len(queue) + 1
      BY <1>2, <1>3, <2>1, <2>2, <2>4
    <2>5. QED
      BY <2>2, <2>3, <2>4
  <1>7. WorkersOK'
    BY <1>3 DEF WorkersOK, data
  <1>8. RoundProgress'
    <2>1. \A i : InHand(i)' <=> InHand(i)
      BY <1>3 DEF InHand
    <2>2. QED
      BY <1>3, <2>1 DEF RoundProgress, Rows, KeyFresh, RowAnswered, OrgIndex,
                        SortedIndices, data
  <1>9. QED
    BY <1>1, <1>4, <1>5, <1>6, <1>7, <1>8

(* Collect, SendReply and EndSession move the session and nothing else.    *)
LEMMA SessionPlaceSteps ==
  ASSUME IInv, NEW s \in Session, Collect(s) \/ SendReply(s) \/ EndSession(s)
  PROVE IInv'
  <1> USE DEF IInv
  <1>1. TypeOK'
    BY TypeStep DEF SessionStep, Next
  <1>2. /\ UNCHANGED <<ctrl, data, index, wpc, widx>>
        /\ \A r \in Session \ {s} : spc'[r] = spc[r]
        /\ \/ spc[s] = "wait" /\ promise[s] /\ spc'[s] = "reply"
           \/ spc[s] \in {"idle", "reply"} /\ spc'[s] \in {"idle", "done"}
    BY DEF Collect, SendReply, EndSession, TypeOK
  <1>3. /\ bpc = "idle" => s # task
        /\ \A i \in 1 .. Len(queue) : queue[i] # s
        /\ ~stopped
    <2>1. CASE spc[s] \in {"idle", "reply"}
      BY <2>1, OutsideFacts
    <2>2. CASE spc[s] = "wait" /\ promise[s]
      <3>1. ~stopped
        BY <2>2 DEF SessionsOK
      <3>2. QED
        BY <2>2, <3>1 DEF ServiceOK, Leaving, QueueOK
    <2>3. QED
      BY <1>2, <2>1, <2>2
  <1>4. ServiceOK'
    BY <1>2, <1>3 DEF ServiceOK, Leaving, AllArrived, TypeOK, Task, ctrl, data
  <1>5. SessionsOK'
    BY <1>2, <1>3 DEF SessionsOK, Answered, Rows, ctrl, data
  <1>6. QueueOK'
    <2>1. \A i \in 1 .. Len(queue) : queue[i] \in Session \ {s}
      BY <1>3 DEF TypeOK
    <2>2. QED
      BY <1>2, <2>1 DEF QueueOK, ctrl, data
  <1>7. WorkersOK'
    BY <1>2 DEF WorkersOK, ctrl, data
  <1>8. RoundProgress'
    <2>1. \A i : InHand(i)' <=> InHand(i)
      BY <1>2 DEF InHand
    <2>2. QED
      BY <1>2, <2>1 DEF RoundProgress, Rows, KeyFresh, RowAnswered, OrgIndex,
                        SortedIndices, ctrl, data
  <1>9. QED
    BY <1>1, <1>4, <1>5, <1>6, <1>7, <1>8

LEMMA StopStep ==
  ASSUME IInv, Stop
  PROVE IInv'
  <1> USE DEF IInv
  <1>1. TypeOK'
    BY TypeStep DEF Next
  <1>2. /\ UNCHANGED <<phase, task, queue, bpc, data, index, wpc, widx, spc>>
        /\ ~stopped /\ stopped'
        /\ \A s \in Session : spc[s] = "done"
    BY DEF Stop
  <1>3. ServiceOK'
    BY <1>2 DEF ServiceOK, Leaving, AllArrived, data
  <1>4. SessionsOK' /\ QueueOK'
    BY <1>2 DEF SessionsOK, QueueOK, Answered, Rows, data
  <1>5. WorkersOK'
    BY <1>2 DEF WorkersOK, data
  <1>6. RoundProgress'
    <2>1. \A i : InHand(i)' <=> InHand(i)
      BY <1>2 DEF InHand
    <2>2. QED
      BY <1>2, <2>1 DEF RoundProgress, Rows, KeyFresh, RowAnswered, OrgIndex,
                        SortedIndices, data
  <1>7. QED
    BY <1>1, <1>3, <1>4, <1>5, <1>6

LEMMA IInvStep == IInv /\ [Next]_vars => IInv'
  <1> SUFFICES ASSUME IInv, [Next]_vars PROVE IInv'
    OBVIOUS
  <1>1. ASSUME NEW w \in Worker, WorkerStep(w) PROVE IInv'
    BY <1>1, PlaceSteps, ClaimStep, PreprocessStep, ProcessStep DEF WorkerStep
  <1>2. CASE Completion
    BY <1>2, CompletePreprocessStep, FinishStep, SetNextTaskStep DEF Completion
  <1>3. ASSUME NEW s \in Session, SessionStep(s) PROVE IInv'
    BY <1>3, UpdateStep, PushStep, SessionPlaceSteps DEF SessionStep
  <1>4. CASE Stop
    BY <1>4, StopStep
  <1>5. CASE UNCHANGED vars
    <2>1. TypeOK' /\ UNCHANGED <<ctrl, data, index, wpc, widx, spc>>
      BY <1>5, TypeStep DEF IInv, vars
    <2>2. ServiceOK' /\ QueueOK'
      BY <2>1 DEF IInv, ServiceOK, QueueOK, Leaving, AllArrived, ctrl, data
    <2>3. SessionsOK' /\ WorkersOK'
      BY <2>1 DEF IInv, SessionsOK, WorkersOK, Answered, Rows, ctrl, data
    <2>4. \A i : InHand(i)' <=> InHand(i)
      BY <2>1 DEF InHand
    <2>5. RoundProgress'
      BY <2>1, <2>4 DEF IInv, RoundProgress, Rows, KeyFresh, RowAnswered, OrgIndex,
                        SortedIndices, ctrl, data
    <2>6. QED
      BY <2>1, <2>2, <2>3, <2>5 DEF IInv
  <1>6. QED
    BY <1>1, <1>2, <1>3, <1>4, <1>5 DEF Next, Destroyed

LEMMA Inductive == Spec => []IInv
  BY IInvInit, IInvStep, PTL DEF Spec

-----------------------------------------------------------------------------
(* No worker touches a Task its session may be rewriting or reading        *)
(* (TaskController::onCompletion hands it back by finish() only when every *)
(* worker is in the barrier).                                              *)
THEOREM NoForeignTask == Spec => []OwnedWhileTouched
  <1>1. IInv => OwnedWhileTouched
    BY BusyFacts DEF OwnedWhileTouched
  <1>2. QED
    BY <1>1, Inductive, PTL

(* Two workers never read or write the same row of a Task at once          *)
(* (Task::preprocessNext, Task::processNext).                              *)
THEOREM RowsApart == Spec => []ClaimsDisjoint
  <1>1. IInv => ClaimsDisjoint
    <2> SUFFICES ASSUME IInv, NEW v \in Worker, NEW w \in Worker, v # w,
                        wpc[v] = "work", wpc[w] = "work"
                 PROVE WorkRow(v) # WorkRow(w)
      BY DEF ClaimsDisjoint
    <2>1. bpc = "idle" /\ widx[v] # widx[w]
      BY BusyFacts DEF IInv, WorkersOK, Touching
    <2>2. widx[v] \in Rows(task) /\ widx[w] \in Rows(task)
      BY ConstantsAssumption DEF IInv, WorkersOK, TypeOK, Rows, Row, ConstantsAssumption
    <2>3. QED
      BY <2>1, <2>2 DEF IInv, RoundProgress, WorkRow, OrgIndex, SortedIndices
  <1>2. QED
    BY <1>1, Inductive, PTL

(* Whenever future.get() returns, every response of the Task answers the   *)
(* batch the session submitted, with keys of that batch.                   *)
THEOREM EveryReplyComplete == Spec => []RepliesComplete
  <1>1. IInv => RepliesComplete
    BY DEF IInv, SessionsOK, RepliesComplete
  <1>2. QED
    BY <1>1, Inductive, PTL

(* Task::finish never meets a fulfilled promise, so set_value never throws *)
(* out of the noexcept completion function of the barrier.                 *)
THEOREM PromiseKeptOnce == Spec => []FinishOnce
  <1>1. IInv => FinishOnce
    BY RoundComplete DEF FinishOnce
  <1>2. QED
    BY <1>1, Inductive, PTL

(* Task::sortIndices compares the keys of the present batch only.          *)
THEOREM SortAfterPreprocess == Spec => []SortSeesFreshKeys
  <1>1. IInv => SortSeesFreshKeys
    BY RoundComplete DEF SortSeesFreshKeys, KeyFresh
  <1>2. QED
    BY <1>1, Inductive, PTL

-----------------------------------------------------------------------------
(* The refinement: which step of the engine is which step of the queue.    *)

(* finish() of a session's Task serves the head of the abstract queue.     *)
LEMMA FinishServes ==
  ASSUME IInv, Finish
  PROVE  Promised!BQNext \/ UNCHANGED Promised!bqVars
  <1> USE DEF IInv
  <1>1. /\ ~promise[task]
        /\ task # EmptyTask => spc[task] = "wait"
    BY RoundComplete DEF Finish
  <1>2. /\ bpc = "idle" /\ bpc' = "setNextTask" /\ UNCHANGED <<queue, task, spc>>
        /\ promise' = [promise EXCEPT ![task] = TRUE]
        /\ queue \in Seq(Session)
    BY DEF Finish, TypeOK
  <1>3. InService' = <<>> /\ (InService \o queue)' = queue
    BY <1>2, ConcatEmptySeq DEF InService
  <1>4. CASE task = EmptyTask
    <2>1. InService \o queue = queue
      BY <1>2, <1>4, ConcatEmptySeq DEF InService
    <2>2. \A s \in Session : BatchStatus(s)' = BatchStatus(s)
      BY <1>2, <1>4, ConstantsAssumption DEF BatchStatus, ConstantsAssumption, TypeOK
    <2>3. QED
      BY <1>3, <2>1, <2>2 DEF Promised!bqVars
  <1>5. CASE task # EmptyTask
    <2>1. task \in Session
      BY <1>5 DEF TypeOK, Task
    <2>2. InService = <<task>>
      BY <1>1, <1>2, <1>5 DEF InService
    <2>3. /\ InService \o queue # <<>>
          /\ Head(InService \o queue) = task
          /\ Tail(InService \o queue) = queue
      BY <1>2, <2>1, <2>2
    <2>4. \A s \in Session :
             BatchStatus(s)' = IF s = task THEN "answered" ELSE BatchStatus(s)
      BY <1>1, <1>2, <1>5, <2>1 DEF BatchStatus, TypeOK, Task
    <2>5. [s \in Session |-> BatchStatus(s)'] =
            [[s \in Session |-> BatchStatus(s)] EXCEPT ![task] = "answered"]
      BY <2>1, <2>4
    <2>6. Promised!Serve
      BY <1>3, <2>3, <2>5 DEF Promised!Serve
    <2>7. QED
      BY <2>6 DEF Promised!BQNext
  <1>6. QED
    BY <1>4, <1>5

(* setNextTask moves the head of the queue into service.                   *)
LEMMA SetNextTaskStutters ==
  ASSUME IInv, SetNextTask
  PROVE  UNCHANGED Promised!bqVars
  <1> USE DEF IInv
  <1>1. /\ UNCHANGED <<promise, spc>>
        /\ bpc = "setNextTask" /\ bpc' = "idle"
        /\ queue \in Seq(Session)
    BY DEF SetNextTask, data, TypeOK
  <1>2. InService \o queue = queue
    BY <1>1, ConcatEmptySeq DEF InService
  <1>3. (InService \o queue)' = queue
    <2>1. CASE stopped
      <3>1. task' = task /\ queue' = queue
        BY <2>1 DEF SetNextTask
      <3>2. task # EmptyTask => spc[task] # "wait"
        BY <2>1 DEF SessionsOK, TypeOK, Task
      <3>3. InService' = <<>>
        BY <1>1, <3>1, <3>2 DEF InService
      <3>4. QED
        BY <1>1, <3>1, <3>3, ConcatEmptySeq
    <2>2. CASE ~stopped
      <3>1. queue # <<>> /\ task' = Head(queue) /\ queue' = Tail(queue)
        BY <2>2 DEF WakeUp, SetNextTask
      <3>2. 1 \in 1 .. Len(queue) /\ task' = queue[1] /\ queue[1] \in Session
        BY <1>1, <3>1
      <3>3. InService' = <<Head(queue)>>
        BY <1>1, <3>1, <3>2, ConstantsAssumption DEF InService, QueueOK, ConstantsAssumption
      <3>4. <<Head(queue)>> \o Tail(queue) = queue
        BY <1>1, <3>1
      <3>5. QED
        BY <3>1, <3>3, <3>4
    <2>3. QED
      BY <2>1, <2>2
  <1>4. \A s \in Session : BatchStatus(s)' = BatchStatus(s)
    BY <1>1 DEF BatchStatus
  <1>5. QED
    BY <1>2, <1>3, <1>4 DEF Promised!bqVars

(* Push submits, Collect takes the answer, the other steps of a session    *)
(* are not steps of the queue.                                             *)
LEMMA SessionRefines ==
  ASSUME IInv, NEW s \in Session, SessionStep(s)
  PROVE  Promised!BQNext \/ UNCHANGED Promised!bqVars
  <1> USE DEF IInv
  <1>1. queue \in Seq(Session)
    BY DEF TypeOK
  <1>2. /\ UNCHANGED <<task, bpc>>
        /\ \A r \in Session \ {s} : spc'[r] = spc[r] /\ promise'[r] = promise[r]
        /\ \A r \in Session \ {s} : BatchStatus(r)' = BatchStatus(r)
    <2>1. /\ UNCHANGED <<task, bpc>>
          /\ \A r \in Session \ {s} : spc'[r] = spc[r] /\ promise'[r] = promise[r]
      BY DEF Renewed, SessionStep, Update, Push, Collect, SendReply, EndSession, ctrl, data,
        TypeOK, Task
    <2>2. QED
      BY <2>1 DEF BatchStatus
  <1>3. InService' = InService
    <2>1. CASE s # task \/ bpc # "idle"
      BY <1>2, <2>1 DEF InService, TypeOK, Task
    <2>2. CASE s = task /\ bpc = "idle"
      <3>1. spc[s] = "wait"
        BY <2>2, OutsideFacts DEF SessionStep, Update, Push, Collect, SendReply, EndSession
      <3>2. promise[s] /\ spc'[s] = "reply"
        BY <3>1 DEF SessionStep, Update, Push, Collect, SendReply, EndSession, TypeOK
      <3>3. QED
        BY <1>2, <2>2, <3>1, <3>2 DEF InService
    <2>3. QED
      BY <2>1, <2>2
  <1>4. CASE Push(s)
    <2>1. queue' = Append(queue, s) /\ ~promise[s] /\ UNCHANGED promise
          /\ spc[s] = "push" /\ spc'[s] = "wait"
      BY <1>4 DEF Enqueue, Push, SessionsOK, data, TypeOK
    <2>2. InService \in Seq(Session)
      BY DEF InService, TypeOK, Task
    <2>3. InService \o Append(queue, s) = Append(InService \o queue, s)
      <3>1. \/ InService = <<>>
            \/ InService = <<task>> /\ task \in Session
        BY DEF InService, TypeOK, Task
      <3>2. QED
        BY <1>1, <3>1
    <2>4. BatchStatus(s) = "idle" /\ BatchStatus(s)' = "pending"
      BY <2>1 DEF BatchStatus
    <2>5. [r \in Session |-> BatchStatus(r)'] =
            [[r \in Session |-> BatchStatus(r)] EXCEPT ![s] = "pending"]
      BY <1>2, <2>4
    <2>6. Promised!Submit(s)
      BY <1>3, <2>1, <2>3, <2>4, <2>5 DEF Promised!Submit
    <2>7. QED
      BY <2>6 DEF Promised!BQNext
  <1>5. CASE Collect(s)
    <2>1. UNCHANGED queue /\ BatchStatus(s) = "answered" /\ BatchStatus(s)' = "idle"
      BY <1>5 DEF Collect, BatchStatus, ctrl, data, TypeOK
    <2>2. [r \in Session |-> BatchStatus(r)'] =
            [[r \in Session |-> BatchStatus(r)] EXCEPT ![s] = "idle"]
      BY <1>2, <2>1
    <2>3. Promised!Take(s)
      BY <1>3, <2>1, <2>2 DEF Promised!Take
    <2>4. QED
      BY <2>3 DEF Promised!BQNext
  <1>6. CASE Update(s) \/ SendReply(s) \/ EndSession(s)
    <2>1. UNCHANGED queue /\ BatchStatus(s) = "idle" /\ BatchStatus(s)' = "idle"
      BY <1>6 DEF Update, SendReply, EndSession, BatchStatus, ctrl, TypeOK
    <2>2. \A r \in Session : BatchStatus(r)' = BatchStatus(r)
      BY <1>2, <2>1
    <2>3. QED
      BY <1>3, <2>1, <2>2 DEF Promised!bqVars
  <1>7. QED
    BY <1>4, <1>5, <1>6 DEF SessionStep

(* The engine implements the queue of batches: every batch is answered     *)
(* once and in the order of the pushes (TaskController::push,              *)
(* TaskController::setNextTask, Task::finish).                             *)
THEOREM Refinement == Spec => Promised!BQSafety
  <1>1. Init => Promised!BQInit
    BY ConcatEmptySeq, EmptySeq DEF Init, InService, BatchStatus, Promised!BQInit
  <1>2. IInv /\ [Next]_vars => [Promised!BQNext]_(Promised!bqVars)
    <2> SUFFICES ASSUME IInv, [Next]_vars
                 PROVE  Promised!BQNext \/ UNCHANGED Promised!bqVars
      OBVIOUS
    <2>1. (UNCHANGED <<task, queue, bpc, promise, spc>>) => UNCHANGED Promised!bqVars
      BY DEF InService, BatchStatus, Promised!bqVars
    <2>2. ASSUME NEW w \in Worker, WorkerStep(w) PROVE UNCHANGED Promised!bqVars
      BY <2>1, <2>2 DEF WorkerStep, Continue, Exit, Claim, Preprocess, Process, Test, ctrl, data
    <2>3. CASE CompletePreprocess
      BY <2>1, <2>3 DEF CompletePreprocess
    <2>4. CASE Stop
      BY <2>1, <2>4 DEF Stop, data
    <2>5. CASE UNCHANGED vars
      BY <2>1, <2>5 DEF vars, ctrl, data
    <2>6. QED
      BY <2>2, <2>3, <2>4, <2>5, FinishServes, SetNextTaskStutters, SessionRefines
         DEF Next, Completion, Destroyed
  <1>3. QED
    BY <1>1, <1>2, Inductive, PTL DEF Spec, Promised!BQSafety

=============================================================================
