---------------------------- MODULE SessionPool ----------------------------
(***************************************************************************)
(* The pool the sessions run in: ThreadPoolSessions over ThreadPoolBase,   *)
(* the running counters of Runnable.h, and Server::startSession that feeds *)
(* it under the mutex of the server, one session at a time.                *)
(*                                                                         *)
(* A thread is created at most once per session, by calculateStatus.  It   *)
(* loops: sleep while the queue is empty, take the first session whose     *)
(* type is below its limit, run it, and decrement the number of objects,   *)
(* also when it found none to take.  The counters are atomic but are read  *)
(* and written outside the mutex of the queue, so each access is a step.   *)
(*                                                                         *)
(* Server::stop marks the sessions there are, waits for the acceptors that *)
(* make them, and stops the pool, which joins its threads.                 *)
(*                                                                         *)
(* A helper that follows a faulty variant of itself is the code; no action *)
(* uses the variants.                                                      *)
(***************************************************************************)
EXTENDS Integers, Sequences, FiniteSets

CONSTANTS
  Session,    \* the sessions clients ask for
  Type,       \* the types of session: tcp and fifo
  TypeOf,     \* the type of every session
  MaxOfType,  \* _maxNumberRunningByType: MaxTcpSessions, MaxFifoSessions
  Slots,      \* bound: the threads the model has a place for
  Uses,       \* the uses that are made of the pool, a set of Use
  Wrap,       \* 2^32, the number of values of an unsigned counter
  None

(* A use: who connects, who of two always connects first, the _maxSize of  *)
(* the pool (MaxTotalSessions in the options of the server), and whether   *)
(* the server is stopped.                                                  *)
Use == [sessions : SUBSET Session, order : SUBSET (Session \X Session),
        maxTotal : 1 .. Slots, stop : BOOLEAN]

Status == {"NONE", "MAX_OBJECTS_OF_TYPE", "MAX_TOTAL_OBJECTS"}

ASSUME PoolAssumption ==
  /\ TypeOf \in [Session -> Type]
  /\ MaxOfType \in [Type -> Nat \ {0}]
  /\ Slots \in Nat
  /\ Wrap \in Nat \ {0}
  /\ None \notin Session \union Status
  /\ Uses \subseteq Use

Thread == 1 .. Slots

VARIABLES
  use,       \* the use that is made of the pool, never changed
  total,     \* _totalNumberObjects
  size,      \* _threads.size()
  queue,     \* _queue
  scanner,   \* the thread in the loop of get, which holds _queueMutex
  pos,       \* its position in the queue, 1 when there is none
  running,   \* _numberRunningByType of every type
  runTotal,  \* _numberRunningTotal
  status,    \* _status of every session
  told,      \* the status the constructor of the session sent its client
  creating,  \* the session Server::create...Session is at, with _mutex held
  cpc,       \* where that call is
  need,      \* condition1 of calculateStatus, while it is needed
  tpc,       \* where every thread is
  ses,       \* the session the thread runs
  halted,    \* the sessions whose _stopped is set
  srv        \* where Server::stop is; the pool is _stopped from "joining" on

creator == <<status, told, creating, cpc, need>>
counters == <<running, runTotal>>
threads == <<tpc, ses>>
stop == <<use, halted, srv>>
vars == <<total, size, queue, scanner, pos, counters, creator, threads, stop>>

ThreadPlace ==
  {"absent", "get", "asleep", "scan", "countType", "countTotal", "run", "uncountType",
   "uncountTotal", "finally", "decrement", "ended"}

Init ==
  /\ total = 0
  /\ size = 0
  /\ queue = <<>>
  /\ scanner = 0
  /\ pos = 1
  /\ running = [y \in Type |-> 0]
  /\ runTotal = 0
  /\ status = [s \in Session |-> "NONE"]
  /\ told = [s \in Session |-> None]
  /\ creating = None
  /\ cpc = "idle"
  /\ need = FALSE
  /\ tpc = [t \in Thread |-> "absent"]
  /\ ses = [t \in Thread |-> None]
  /\ use \in Uses
  /\ halted = {}
  /\ srv = "up"

MaxTotal == use.maxTotal

PoolStopped == srv \in {"joining", "down"}

HasRoom(s) == running[TypeOf[s]] < MaxOfType[TypeOf[s]]

-----------------------------------------------------------------------------
(* Server::createTcpSession and createFifoSession.                         *)

(* The constructor sends the status of the session to the client.          *)
Construct(s) ==
  /\ cpc = "idle" /\ srv \in {"up", "acceptors"}
  /\ s \in use.sessions /\ told[s] = None
  /\ \A p \in use.order : p[2] = s => told[p[1]] # None
  /\ told' = [told EXCEPT ![s] = status[s]]
  /\ creating' = s
  /\ cpc' = "add"
  /\ UNCHANGED <<total, size, queue, scanner, pos, counters, status, need, threads, stop>>

(* calculateStatus, in four accesses to the counters of the pool.          *)
AddObject ==
  /\ cpc = "add"
  /\ total' = (total + 1) % Wrap
  /\ cpc' = "condition1"
  /\ UNCHANGED <<size, queue, scanner, pos, counters, status, told, creating, need, threads, stop>>

MoreObjects == total > size

Condition1 ==
  /\ cpc = "condition1"
  /\ need' = MoreObjects
  /\ cpc' = "condition2"
  /\ UNCHANGED <<total, size, queue, scanner, pos, counters, status, told, creating, threads, stop>>

BelowMaximumAbsent == TRUE
BelowMaximum == size < MaxTotal

CreateThread ==
  /\ cpc = "condition2"
  /\ need /\ HasRoom(creating) /\ BelowMaximum
  /\ size' = size + 1
  /\ tpc' = [tpc EXCEPT ![size + 1] = "get"]
  /\ need' = FALSE
  /\ cpc' = "push"
  /\ UNCHANGED <<total, queue, scanner, pos, counters, status, told, creating, ses, stop>>

SetStatus ==
  /\ cpc = "condition2"
  /\ ~(need /\ HasRoom(creating) /\ BelowMaximum)
  /\ status' = [status EXCEPT ![creating] =
                  IF ~HasRoom(creating) THEN "MAX_OBJECTS_OF_TYPE"
                  ELSE IF runTotal >= MaxTotal THEN "MAX_TOTAL_OBJECTS" ELSE @]
  /\ need' = FALSE
  /\ cpc' = "push"
  /\ UNCHANGED <<total, size, queue, scanner, pos, counters, told, creating, threads, stop>>

(* _queueCondition: a thread that is notified asks for the mutex again.    *)
Awake(S) == [t \in Thread |-> IF t \in S THEN "get" ELSE tpc[t]]
Asleep == {t \in Thread : tpc[t] = "asleep"}

NotifyNobody == tpc' = tpc
NotifyOne ==
  \/ \E t \in Asleep : tpc' = Awake({t})
  \/ Asleep = {} /\ tpc' = tpc

Push ==
  /\ cpc = "push"
  /\ scanner = 0
  /\ queue' = Append(queue, creating)
  /\ NotifyOne
  /\ creating' = None
  /\ cpc' = "idle"
  /\ UNCHANGED <<total, size, scanner, pos, counters, status, told, need, ses, stop>>

-----------------------------------------------------------------------------
(* The loop of a thread: get.                                              *)

(* A wake-up without a notification finds the queue as empty as before.    *)
Sleep(t) ==
  /\ tpc[t] = "get"
  /\ scanner = 0
  /\ queue = <<>> /\ ~PoolStopped
  /\ tpc' = [tpc EXCEPT ![t] = "asleep"]
  /\ UNCHANGED <<total, size, queue, scanner, pos, counters, creator, ses, stop>>

StartScan(t) ==
  /\ tpc[t] = "get"
  /\ scanner = 0
  /\ queue # <<>> /\ ~PoolStopped
  /\ scanner' = t
  /\ tpc' = [tpc EXCEPT ![t] = "scan"]
  /\ UNCHANGED <<total, size, queue, pos, counters, creator, ses, stop>>

(* get returns nothing when the pool is stopped.                           *)
WakesNever == FALSE
Wakes == PoolStopped

GetNothing(t) ==
  /\ tpc[t] = "get" /\ scanner = 0
  /\ Wakes
  /\ tpc' = [tpc EXCEPT ![t] = "finally"]
  /\ UNCHANGED <<total, size, queue, scanner, pos, counters, creator, ses, stop>>

RemainingAll == queue
Remaining == SubSeq(queue, 1, pos - 1) \o SubSeq(queue, pos + 1, Len(queue))

Runnable(s) == HasRoom(s) /\ s \notin halted

Take(t) ==
  /\ tpc[t] = "scan"
  /\ pos <= Len(queue)
  /\ Runnable(queue[pos])
  /\ queue' = Remaining
  /\ ses' = [ses EXCEPT ![t] = queue[pos]]
  /\ scanner' = 0 /\ pos' = 1
  /\ tpc' = [tpc EXCEPT ![t] = "countType"]
  /\ UNCHANGED <<total, size, counters, creator, stop>>

Skip(t) ==
  /\ tpc[t] = "scan"
  /\ pos <= Len(queue)
  /\ ~Runnable(queue[pos])
  /\ pos' = pos + 1
  /\ UNCHANGED <<total, size, queue, scanner, counters, creator, threads, stop>>

GiveUp(t) ==
  /\ tpc[t] = "scan"
  /\ pos > Len(queue)
  /\ scanner' = 0 /\ pos' = 1
  /\ tpc' = [tpc EXCEPT ![t] = "finally"]
  /\ UNCHANGED <<total, size, queue, counters, creator, ses, stop>>

(* The session runs between the constructor and the destructor of          *)
(* CountRunning, each of which changes two counters.  Its status is reset  *)
(* around them (before by TcpSession::run, after by receiveRequest of a    *)
(* FifoSession); nothing reads it in between.                              *)
CountType(t) ==
  /\ tpc[t] = "countType"
  /\ running' = [running EXCEPT ![TypeOf[ses[t]]] = @ + 1]
  /\ tpc' = [tpc EXCEPT ![t] = "countTotal"]
  /\ UNCHANGED <<total, size, queue, scanner, pos, runTotal, creator, ses, stop>>

CountTotal(t) ==
  /\ tpc[t] = "countTotal"
  /\ runTotal' = runTotal + 1
  /\ status' = [status EXCEPT ![ses[t]] = "NONE"]
  /\ tpc' = [tpc EXCEPT ![t] = "run"]
  /\ UNCHANGED <<total, size, queue, scanner, pos, running, told, creating, cpc, need, ses, stop>>

(* run returns: the client left, or the connection failed.                 *)
Leave(t) ==
  /\ tpc[t] = "run"
  /\ tpc' = [tpc EXCEPT ![t] = "uncountType"]
  /\ UNCHANGED <<total, size, queue, scanner, pos, counters, creator, ses, stop>>

OneLessTwice(y) == [running EXCEPT ![y] = @ - 2]
OneLess(y) == [running EXCEPT ![y] = @ - 1]

UncountType(t) ==
  /\ tpc[t] = "uncountType"
  /\ running' = OneLess(TypeOf[ses[t]])
  /\ tpc' = [tpc EXCEPT ![t] = "uncountTotal"]
  /\ UNCHANGED <<total, size, queue, scanner, pos, runTotal, creator, ses, stop>>

UncountTotal(t) ==
  /\ tpc[t] = "uncountTotal"
  /\ runTotal' = runTotal - 1
  /\ ses' = [ses EXCEPT ![t] = None]
  /\ tpc' = [tpc EXCEPT ![t] = "finally"]
  /\ UNCHANGED <<total, size, queue, scanner, pos, running, creator, stop>>

(* The loop of the thread goes on until the pool is stopped.               *)
Again == IF PoolStopped THEN "ended" ELSE "get"

(* The destructor of Finally tests the counter and then decrements it.     *)
Finally(t) ==
  /\ tpc[t] = "finally"
  /\ tpc' = [tpc EXCEPT ![t] = IF total > 0 THEN "decrement" ELSE Again]
  /\ UNCHANGED <<total, size, queue, scanner, pos, counters, creator, ses, stop>>

Decrement(t) ==
  /\ tpc[t] = "decrement"
  /\ total' = (total - 1) % Wrap
  /\ tpc' = [tpc EXCEPT ![t] = Again]
  /\ UNCHANGED <<size, queue, scanner, pos, counters, creator, ses, stop>>

-----------------------------------------------------------------------------
(* Server::stop.                                                           *)
StopGoes(from, to) ==
  /\ srv = from /\ srv' = to
  /\ UNCHANGED <<use, total, size, scanner, pos, counters, creator, ses>>

(* stopSessions takes the mutex the sessions are made under.               *)
StopSessions ==
  /\ use.stop /\ cpc = "idle"
  /\ StopGoes("up", "acceptors")
  /\ halted' = {s \in Session : told[s] # None}
  /\ UNCHANGED <<queue, tpc>>

(* The acceptors have been joined; the pool notifies all its threads.      *)
StopPool ==
  /\ cpc = "idle" /\ scanner = 0
  /\ StopGoes("acceptors", "joining")
  /\ tpc' = Awake(Asleep)
  /\ UNCHANGED <<halted, queue>>

Join ==
  /\ \A t \in Thread : tpc[t] \in {"absent", "ended"}
  /\ StopGoes("joining", "down")
  /\ queue' = <<>>
  /\ UNCHANGED <<halted, tpc>>

-----------------------------------------------------------------------------
CreatorStep ==
  \/ AddObject
  \/ Condition1
  \/ CreateThread
  \/ SetStatus
  \/ Push

GetStep(t) ==
  \/ Sleep(t)
  \/ StartScan(t)
  \/ GetNothing(t)
  \/ Take(t)
  \/ Skip(t)
  \/ GiveUp(t)

RunStep(t) ==
  \/ CountType(t)
  \/ CountTotal(t)
  \/ UncountType(t)
  \/ UncountTotal(t)
  \/ Finally(t)
  \/ Decrement(t)

StopStep == StopSessions \/ StopPool \/ Join

Next ==
  \/ \E s \in Session : Construct(s)
  \/ CreatorStep
  \/ StopStep
  \/ \E t \in Thread : GetStep(t) \/ RunStep(t) \/ Leave(t)

Spec == Init /\ [][Next]_vars

(* A session that has been stopped returns; in the runs without a stop     *)
(* every client leaves in the end.                                         *)
Returns(t) == Leave(t) /\ (~use.stop \/ ses[t] \in halted)

(* Threads are scheduled, and the mutex of the queue is granted in the end *)
(* to whoever asks for it again and again.                                 *)
Scheduling ==
  /\ SF_vars(CreatorStep)
  /\ SF_vars(StopPool \/ Join)
  /\ \A t \in Thread : SF_vars(GetStep(t) \/ RunStep(t) \/ Returns(t))

ClientsLeave == Spec /\ Scheduling

-----------------------------------------------------------------------------
(* Every variable has its type: no thread is created that the model has no *)
(* place for, and no counter falls below zero.                             *)
TypeOK ==
  /\ total \in 0 .. Wrap - 1
  /\ size \in 0 .. Slots
  /\ queue \in Seq(Session)
  /\ scanner \in Thread \union {0}
  /\ pos \in Nat \ {0}
  /\ running \in [Type -> Nat]
  /\ runTotal \in Nat
  /\ status \in [Session -> Status]
  /\ told \in [Session -> Status \union {None}]
  /\ creating \in Session \union {None}
  /\ cpc \in {"idle", "add", "condition1", "condition2", "push"}
  /\ need \in BOOLEAN
  /\ tpc \in [Thread -> ThreadPlace]
  /\ ses \in [Thread -> Session \union {None}]
  /\ use \in Uses
  /\ halted \in SUBSET Session
  /\ srv \in {"up", "acceptors", "joining", "down"}

Taken(s) == {t \in Thread : ses[t] = s}
InQueue(s) == {i \in 1 .. Len(queue) : queue[i] = s}

(* A session is in the queue once, or with one thread, never both: the     *)
(* threads that scan the queue at the same time do not run it twice.       *)
RunsOnce ==
  \A s \in Session :
    Cardinality(Taken(s)) + Cardinality(InQueue(s)) + (IF creating = s THEN 1 ELSE 0) <= 1

(* "constraints on the total number of running objects": the sessions in   *)
(* run never exceed MaxTotalSessions, nor does the counter calculateStatus *)
(* compares with it.                                                       *)
WithinTotal ==
  /\ Cardinality({t \in Thread : tpc[t] = "run"}) <= MaxTotal
  /\ runTotal <= MaxTotal

(* "constraints on the number of running objects of every type": the       *)
(* sessions of a type in run never exceed their limit.                     *)
WithinType ==
  \A y \in Type :
    Cardinality({t \in Thread : tpc[t] = "run" /\ TypeOf[ses[t]] = y}) <= MaxOfType[y]

(* "When one of the previously started clients exits, the waiting client   *)
(* at the head of the queue starts running": once clients leave, the       *)
(* sessions in the queue are taken in the end.  No notification is lost    *)
(* between the test of the queue and the sleep of a thread, and however    *)
(* far the number of objects falls behind, there is some thread.  There is *)
(* not always one for every session within the limits: threads that take   *)
(* no session subtract objects, calculateStatus then creates no thread for *)
(* a later session, and it waits until another has left.  A client asks    *)
(* for one session, so an empty queue means that all that waited had their *)
(* turn.                                                                   *)
WaitingRuns == (queue # <<>> /\ ~use.stop) ~> queue = <<>>

(* stop returns although clients stay: the threads that wait, scan or run  *)
(* a stopped session all come to an end.  A session made while the         *)
(* acceptors end is not stopped, and is waited for.                        *)
StopJoins ==
  srv = "acceptors" ~>
    (srv = "down" \/ \E s \in Session : told[s] # None /\ s \notin halted)

=============================================================================
