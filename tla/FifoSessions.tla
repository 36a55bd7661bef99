---------------------------- MODULE FifoSessions ----------------------------
(***************************************************************************)
(* Fifo clients and the server: FifoClient, FifoAcceptor, FifoSession,     *)
(* Fifo, Server::createFifoSession and the fifo part of Server::stop.      *)
(*                                                                         *)
(* A client takes the named mutex, sends its signature through the pipe of *)
(* the acceptor, reads the status (with the name of its own pipe) from the *)
(* same pipe, releases the mutex, and then sends requests and reads        *)
(* replies through its own pipe.  The acceptor creates a session per       *)
(* signature; a thread of the pool runs it.  Every open, write, read and   *)
(* close is a step.                                                        *)
(*                                                                         *)
(* A write open repeats the attempt numberRepeatENXIO times a millisecond  *)
(* apart while no one reads.  Here it may fail only when it has run out of *)
(* attempts: at any time if Late, otherwise only when no other thread is   *)
(* on its way to open the pipe for reading (Coming).  Late = FALSE is the  *)
(* assumption that a thread which can run does so within 200 ms.           *)
(*                                                                         *)
(* The server may crash and be started again: it removes the named mutex   *)
(* and all pipes.  A client that has opened the old mutex goes on with it, *)
(* one that starts later makes a new one, so mutex maps the number of      *)
(* every such object to its holder.  Likewise an open that waits on a pipe *)
(* which has been removed waits for ever: the model forgets the pipe.      *)
(*                                                                         *)
(* A session is named after its client: getUniqueId never repeats an id    *)
(* and a client signs once.  Business logic, cryptography and the choice   *)
(* of the session a thread runs are in other modules.                      *)
(***************************************************************************)
EXTENDS Pipes, Integers, FiniteSets

CONSTANTS
  Client,       \* the fifo clients
  MaxRequests,  \* bound: requests a client sends at most
  Late,         \* whether a write open may run out of attempts at any time
  Uses,         \* the uses that are made of the system, a set of Use
  Acceptor,     \* the thread and the pipe of the acceptor
  Server,       \* the main thread of the server
  None

(* A use: which clients start, how many requests each sends, which of them *)
(* the user may interrupt and which may die at any point; whether the      *)
(* server is stopped, whether it may crash and is started again, and which *)
(* clients start after that, not before.                                   *)
Use == [clients : SUBSET Client, requests : 1 .. MaxRequests,
        interrupted : SUBSET Client, killed : SUBSET Client,
        stop : BOOLEAN, crash : BOOLEAN, after : SUBSET Client]

(* The thread of the session of c.                                         *)
Session(c) == <<"session", c>>

ASSUME FifoAssumption ==
  /\ IsFiniteSet(Client)
  /\ MaxRequests \in Nat \ {0}
  /\ Late \in BOOLEAN
  /\ Uses \subseteq Use
  /\ Acceptor # Server /\ None \notin {Acceptor, Server}
  /\ {Acceptor, Server, None} \cap Client = {}
  /\ \A c \in Client : Session(c) \notin Client \cup {Acceptor, Server}

Process == Client \cup {Session(c) : c \in Client} \cup {Acceptor, Server}
Pipe == Client \cup {Acceptor}

Message == [kind : {"signature", "status", "request", "reply"},
            id : Client, n : 0 .. MaxRequests]

To(m) == CASE m.kind = "signature" -> Acceptor
           [] m.kind = "request" -> Session(m.id)
           [] OTHER -> m.id

VARIABLES
  use,    \* the use that is made of the system, never changed
  pipe,   \* the pipes
  mutex,  \* the clients that hold the mutexes named FIFO_NAMED_MUTEX so far
  cl,     \* the clients
  acc,    \* the acceptor: its place, _stopped, whose signature it has read
  ses,    \* the sessions: their place, _stopped, the request they process
  lock,   \* who holds Server::_mutex
  srv     \* Server: where stop is, the sessions left to stop, the current one,
          \* the number of the present mutex, whether it has been started again

vars == <<use, pipe, mutex, cl, acc, ses, lock, srv>>

Number == 1 .. 3

ClientPlace ==
  {"start", "lock", "sign", "signWrite", "signClose", "status", "statusRead", "statusClose",
   "send", "exitOpen", "exitClose", "remove", "sendOpen", "sendWrite", "sendClose",
   "sendCheck", "recv", "recvRead", "recvClose", "dtor", "dtorOpen", "dtorClose",
   "ended", "dead"}
AcceptorPlace ==
  {"top", "open", "read", "close", "create", "statusOpen", "statusWrite",
   "statusClose", "mkfifo", "push", "ended"}
SessionPlace ==
  {"none", "queued", "run", "loop", "open", "read", "close", "task", "reply",
   "replyOpen", "replyWrite", "replyClose", "dtor", "gone"}
ServerPlace ==
  {"up", "mark", "pick", "exitOpen", "exitClose", "accOpen", "accClose",
   "joinAcceptor", "joinPool", "down", "crashed"}

Init ==
  /\ use \in Uses
  /\ pipe = [p \in Pipe |-> IF p = Acceptor THEN Link(NewPipe) ELSE NewPipe]
  /\ mutex = [k \in Number |-> None]
  /\ cl = [c \in Client |-> [pc |-> IF c \in use.clients THEN "start" ELSE "ended", of |-> 1,
                            name |-> None, done |-> 0, closeFlag |-> FALSE]]
  /\ acc = [pc |-> "top", stopped |-> FALSE, for |-> None]
  /\ ses = [c \in Client |-> [pc |-> "none", stopped |-> FALSE, n |-> 0]]
  /\ lock = None
  /\ srv = [pc |-> "up", todo |-> {}, now |-> None, named |-> 1, again |-> FALSE]

-----------------------------------------------------------------------------
(* Fifo.h and Fifo.cpp.                                                    *)

(* Who is about to open p for reading without waiting for anything.        *)
Coming(p) ==
  {c \in Client :
     \/ p = Acceptor /\ cl[c].pc \in {"signClose", "status"}
     \/ p = cl[c].name /\ cl[c].pc \in {"sendClose", "recv"}}
  \cup {Session(c) : c \in {d \in Client \cap {p} :
                              ses[d].pc \in {"run", "loop", "open", "replyClose"}}}
  \cup {i \in {Acceptor} : p = Acceptor /\ acc.pc \notin {"read", "ended"}}

(* openWriteNonBlock: it opens, or fails with ENOENT, or runs out of ENXIO. *)
CanOpen(p) == pipe[p].linked /\ HasReader(pipe[p])
NoSecondAttempt(i, p) == ~HasReader(pipe[p])
OutOfAttempts(i, p) == ~HasReader(pipe[p]) /\ (Late \/ Coming(p) \ {i} = {})
CannotOpen(i, p) == ~pipe[p].linked \/ OutOfAttempts(i, p)

Does(p, q) == pipe' = [pipe EXCEPT ![p] = q]

(* CloseFileDescriptor.                                                    *)
LeavesOpen(i, p) == UNCHANGED pipe
Closes(i, p) == Does(p, Close(pipe[p], i))

(* onExit unblocks a reader, or nobody.                                    *)
OnExit(i, p, opened, failed) ==
  \/ CanOpen(p) /\ opened /\ Does(p, OpenWrite(pipe[p], i))
  \/ CannotOpen(i, p) /\ failed /\ UNCHANGED pipe

(* writeString: EPIPE throws when the last reader has left.                *)
Write(i, p, m) == HasReader(pipe[p]) /\ Does(p, Put(pipe[p], m))
BrokenPipe(i, p) == ~HasReader(pipe[p]) /\ Closes(i, p)

(* readStringBlock: the open has returned, and there is data, or no writer. *)
HasRead(i, p) ==
  i \in pipe[p].reading /\ pipe[p].data # <<>> /\ Does(p, Drain(pipe[p]))
HasEnded(i, p) ==
  i \in pipe[p].reading /\ EndOfFile(pipe[p]) /\ Does(p, Close(pipe[p], i))

-----------------------------------------------------------------------------
(* FifoClient.                                                             *)

Goes(c, from, to) == cl[c].pc = from /\ cl' = [cl EXCEPT ![c].pc = to]
OnlyClient == UNCHANGED <<use, acc, ses, lock, srv>>

KeepsMutex(c) == UNCHANGED mutex
ReleasesMutex(c) == mutex' = [mutex EXCEPT ![cl[c].of] = None]

(* The constructor throws: the mutex is released, its destructor does not  *)
(* run.                                                                    *)
Throws(c, from) == Goes(c, from, "ended") /\ ReleasesMutex(c)

MutexFreeIgnored(c) == TRUE
MutexFree(c) == mutex[cl[c].of] = None

(* open_or_create, and the lock.                                           *)
LockMutex(c) ==
  /\ UNCHANGED pipe /\ OnlyClient
  /\ \/ /\ cl[c].pc = "start"
        /\ c \in use.after <=> srv.again
        /\ cl' = [cl EXCEPT ![c].pc = "lock", ![c].of = srv.named]
        /\ UNCHANGED mutex
     \/ /\ Goes(c, "lock", "sign")
        /\ MutexFree(c)
        /\ mutex' = [mutex EXCEPT ![cl[c].of] = c]

SendSignature(c) ==
  /\ OnlyClient
  /\ \/ /\ CanOpen(Acceptor)
        /\ Goes(c, "sign", "signWrite")
        /\ Does(Acceptor, OpenWrite(pipe[Acceptor], c))
        /\ UNCHANGED mutex
     \/ /\ CannotOpen(c, Acceptor)
        /\ Throws(c, "sign")
        /\ UNCHANGED pipe
     \/ /\ Goes(c, "signWrite", "signClose")
        /\ Write(c, Acceptor, [kind |-> "signature", id |-> c, n |-> 0])
        /\ UNCHANGED mutex
     \/ /\ BrokenPipe(c, Acceptor)
        /\ Throws(c, "signWrite")
     \/ /\ Goes(c, "signClose", "status")
        /\ Closes(c, Acceptor)
        /\ UNCHANGED mutex

(* receiveStatus.  Anything but a status fails the exchange of keys.       *)
ReceiveStatus(c) ==
  /\ OnlyClient
  /\ \/ /\ pipe[Acceptor].linked
        /\ Goes(c, "status", "statusRead")
        /\ Does(Acceptor, OpenRead(pipe[Acceptor], c))
        /\ UNCHANGED mutex
     \/ /\ ~pipe[Acceptor].linked
        /\ Throws(c, "status")
        /\ UNCHANGED pipe
     \/ /\ cl[c].pc = "statusRead"
        /\ HasRead(c, Acceptor)
        /\ LET m == Head(pipe[Acceptor].data) IN
           cl' = [cl EXCEPT ![c].pc = "statusClose",
                            ![c].name = IF m.kind = "status" THEN m.id ELSE None]
        /\ UNCHANGED mutex
     \/ /\ HasEnded(c, Acceptor)
        /\ Throws(c, "statusRead")
     \/ /\ Goes(c, "statusClose", IF cl[c].name = None THEN "ended" ELSE "send")
        /\ Closes(c, Acceptor)
        /\ ReleasesMutex(c)

(* processTask: a batch is sent, then its reply is received.               *)
NoReply == "recvClose"
AfterSend == "recv"

(* send.  An interrupted client unblocks its session, removes the pipe and *)
(* tries to send all the same.                                             *)
Send(c) ==
  LET p == cl[c].name IN
  /\ UNCHANGED mutex /\ OnlyClient
  /\ \/ /\ Goes(c, "send", IF cl[c].closeFlag THEN "exitOpen" ELSE "sendOpen")
        /\ UNCHANGED pipe
     \/ /\ cl[c].pc = "exitOpen"
        /\ OnExit(c, p, Goes(c, "exitOpen", "exitClose"), Goes(c, "exitOpen", "remove"))
     \/ /\ Goes(c, "exitClose", "remove")
        /\ Closes(c, p)
     \/ /\ Goes(c, "remove", "sendOpen")
        /\ Does(p, Unlink(pipe[p]))
     \/ /\ cl[c].pc = "sendOpen" /\ CanOpen(p)
        /\ Goes(c, "sendOpen", "sendWrite")
        /\ Does(p, OpenWrite(pipe[p], c))
     \/ /\ cl[c].pc = "sendOpen" /\ CannotOpen(c, p)
        /\ Goes(c, "sendOpen", "sendCheck")
        /\ UNCHANGED pipe
     \/ /\ Goes(c, "sendWrite", "sendClose")
        /\ Write(c, p, [kind |-> "request", id |-> c, n |-> cl[c].done + 1])
     \/ /\ Goes(c, "sendWrite", "dtor")
        /\ BrokenPipe(c, p)
     \/ /\ Goes(c, "sendClose", AfterSend)
        /\ Closes(c, p)
     \/ /\ Goes(c, "sendCheck", IF pipe[p].linked THEN "send" ELSE "dtor")
        /\ UNCHANGED pipe

(* receive, and the loop of Client::run.                                   *)
OneTooMany(c) == cl[c].done = use.requests
Last(c) == cl[c].done + 1 = use.requests

Receive(c) ==
  LET p == cl[c].name IN
  /\ UNCHANGED mutex /\ OnlyClient
  /\ \/ /\ cl[c].pc = "recv" /\ pipe[p].linked
        /\ Goes(c, "recv", "recvRead")
        /\ Does(p, OpenRead(pipe[p], c))
     \/ /\ cl[c].pc = "recv" /\ ~pipe[p].linked
        /\ Goes(c, "recv", "dtor")
        /\ UNCHANGED pipe
     \/ /\ Goes(c, "recvRead", "recvClose")
        /\ HasRead(c, p)
     \/ /\ Goes(c, "recvRead", "dtor")
        /\ HasEnded(c, p)
     \/ /\ cl[c].pc = "recvClose"
        /\ cl' = [cl EXCEPT ![c].done = @ + 1,
                            ![c].pc = IF Last(c) THEN "dtor" ELSE "send"]
        /\ Closes(c, p)

(* ~FifoClient unblocks the session.                                       *)
UnblocksNobody(c) == FALSE
Unblocks(c) == pipe[cl[c].name].linked

Destroy(c) ==
  LET p == cl[c].name IN
  /\ UNCHANGED mutex /\ OnlyClient
  /\ \/ /\ cl[c].pc = "dtor"
        /\ Goes(c, "dtor", IF Unblocks(c) THEN "dtorOpen" ELSE "ended")
        /\ UNCHANGED pipe
     \/ /\ cl[c].pc = "dtorOpen"
        /\ OnExit(c, p, Goes(c, "dtorOpen", "dtorClose"), Goes(c, "dtorOpen", "ended"))
     \/ /\ Goes(c, "dtorClose", "ended")
        /\ Closes(c, p)

Interrupt(c) ==
  /\ c \in use.interrupted
  /\ cl[c].pc \notin {"ended", "dead"} /\ ~cl[c].closeFlag
  /\ cl' = [cl EXCEPT ![c].closeFlag = TRUE]
  /\ UNCHANGED <<pipe, mutex>> /\ OnlyClient

(* The system closes the descriptors of a dead client; the named mutex     *)
(* stays locked.                                                           *)
Kill(c) ==
  /\ c \in use.killed
  /\ cl[c].pc \notin {"ended", "dead"}
  /\ cl' = [cl EXCEPT ![c].pc = "dead"]
  /\ pipe' = [p \in Pipe |-> Close(pipe[p], c)]
  /\ UNCHANGED mutex /\ OnlyClient

ClientStep(c) ==
  LockMutex(c) \/ SendSignature(c) \/ ReceiveStatus(c) \/ Send(c) \/ Receive(c) \/ Destroy(c)

-----------------------------------------------------------------------------
(* FifoAcceptor::run with unblockAcceptor, and Server::createFifoSession.  *)

AcceptorGoes(from, to) == acc.pc = from /\ acc' = [acc EXCEPT !.pc = to]
OnlyAcceptor == UNCHANGED <<use, mutex, cl, srv>>

AcceptorReads ==
  /\ OnlyAcceptor /\ UNCHANGED <<ses, lock>>
  /\ \/ /\ AcceptorGoes("top", IF acc.stopped THEN "ended" ELSE "open")
        /\ UNCHANGED pipe
     \/ /\ AcceptorGoes("open", "read")
        /\ Does(Acceptor, OpenRead(pipe[Acceptor], Acceptor))
     \/ /\ acc.pc = "read"
        /\ HasRead(Acceptor, Acceptor)
        /\ LET m == Head(pipe[Acceptor].data) IN
           acc' = [acc EXCEPT !.pc = "close",
                              !.for = IF m.kind = "signature" THEN m.id ELSE None]
     \/ /\ AcceptorGoes("read", "top")
        /\ HasEnded(Acceptor, Acceptor)
     \/ /\ AcceptorGoes("close", IF acc.stopped THEN "ended"
                                 ELSE IF acc.for = None THEN "top" ELSE "create")
        /\ Closes(Acceptor, Acceptor)

(* The session sends the status from its constructor.  That it could not   *)
(* is not noticed; that the pipe broke ends the acceptor.                  *)
SendStatus ==
  /\ OnlyAcceptor /\ UNCHANGED ses
  /\ \/ /\ CanOpen(Acceptor)
        /\ AcceptorGoes("statusOpen", "statusWrite")
        /\ Does(Acceptor, OpenWrite(pipe[Acceptor], Acceptor))
        /\ UNCHANGED lock
     \/ /\ CannotOpen(Acceptor, Acceptor)
        /\ AcceptorGoes("statusOpen", "mkfifo")
        /\ UNCHANGED <<pipe, lock>>
     \/ /\ AcceptorGoes("statusWrite", "statusClose")
        /\ Write(Acceptor, Acceptor, [kind |-> "status", id |-> acc.for, n |-> 0])
        /\ UNCHANGED lock
     \/ /\ AcceptorGoes("statusWrite", "ended")
        /\ BrokenPipe(Acceptor, Acceptor)
        /\ lock' = None
     \/ /\ AcceptorGoes("statusClose", "mkfifo")
        /\ Closes(Acceptor, Acceptor)
        /\ UNCHANGED lock

(* FifoSession::start, called by startSession after the constructor.       *)
CreatePipe ==
  /\ OnlyAcceptor /\ UNCHANGED <<ses, lock>>
  /\ AcceptorGoes("mkfifo", "push")
  /\ Does(acc.for, Link(pipe[acc.for]))

(* The constructor of the session begins with the status.                  *)
ConstructSession == AcceptorGoes("create", "statusOpen")

(* createFifoSession takes the mutex of the server, constructs the session *)
(* and starts it; startSession ends with the push to the pool.             *)
CreateSession ==
  /\ OnlyAcceptor /\ UNCHANGED pipe
  /\ \/ /\ ConstructSession
        /\ lock = None /\ lock' = Acceptor
        /\ UNCHANGED ses
     \/ /\ AcceptorGoes("push", "top")
        /\ ses' = [ses EXCEPT ![acc.for].pc = "queued"]
        /\ lock' = None

AcceptorStep == AcceptorReads \/ CreateSession \/ SendStatus \/ CreatePipe

-----------------------------------------------------------------------------
(* FifoSession, and the loop of the thread that runs it.                   *)

SessionGoes(c, from, to) == ses[c].pc = from /\ ses' = [ses EXCEPT ![c].pc = to]
OnlySession == UNCHANGED <<use, mutex, cl, acc, lock, srv>>
PoolStopped == srv.pc \in {"joinPool", "down", "crashed"}

(* ThreadPoolSessions::get; run.                                           *)
Run(c) ==
  /\ OnlySession /\ UNCHANGED pipe
  /\ \/ /\ ~PoolStopped /\ ~ses[c].stopped
        /\ SessionGoes(c, "queued", "run")
     \/ SessionGoes(c, "run", IF ~pipe[c].linked \/ ses[c].stopped THEN "dtor" ELSE "loop")

(* receiveRequest, processTask.                                            *)
ReceiveRequest(c) ==
  /\ OnlySession
  /\ \/ /\ SessionGoes(c, "loop", IF ~pipe[c].linked \/ ses[c].stopped THEN "dtor" ELSE "open")
        /\ UNCHANGED pipe
     \/ /\ ~pipe[c].linked
        /\ SessionGoes(c, "open", "dtor")
        /\ UNCHANGED pipe
     \/ /\ pipe[c].linked
        /\ SessionGoes(c, "open", "read")
        /\ Does(c, OpenRead(pipe[c], Session(c)))
     \/ /\ ses[c].pc = "read"
        /\ HasRead(Session(c), c)
        /\ ses' = [ses EXCEPT ![c].pc = "close", ![c].n = Head(pipe[c].data).n]
     \/ /\ SessionGoes(c, "read", "dtor")
        /\ HasEnded(Session(c), c)
     \/ /\ SessionGoes(c, "close", "task")
        /\ Closes(Session(c), c)
     \/ /\ SessionGoes(c, "task", "reply")
        /\ UNCHANGED pipe

(* sendResponse.  An exception is caught in receiveRequest.                *)
SendResponse(c) ==
  /\ OnlySession
  /\ \/ /\ SessionGoes(c, "reply", IF pipe[c].linked THEN "replyOpen" ELSE "dtor")
        /\ UNCHANGED pipe
     \/ /\ CanOpen(c)
        /\ SessionGoes(c, "replyOpen", "replyWrite")
        /\ Does(c, OpenWrite(pipe[c], Session(c)))
     \/ /\ CannotOpen(Session(c), c)
        /\ SessionGoes(c, "replyOpen", "dtor")
        /\ UNCHANGED pipe
     \/ /\ SessionGoes(c, "replyWrite", "replyClose")
        /\ Write(Session(c), c, [kind |-> "reply", id |-> c, n |-> ses[c].n])
     \/ /\ SessionGoes(c, "replyWrite", "dtor")
        /\ BrokenPipe(Session(c), c)
     \/ /\ SessionGoes(c, "replyClose", "loop")
        /\ Closes(Session(c), c)

DestroySession(c) ==
  /\ OnlySession
  /\ SessionGoes(c, "dtor", "gone")
  /\ Does(c, Unlink(pipe[c]))

SessionStep(c) == Run(c) \/ ReceiveRequest(c) \/ SendResponse(c) \/ DestroySession(c)

-----------------------------------------------------------------------------
(* Server::stop: stopSessions, FifoAcceptor::stop, the two pools, and the  *)
(* destructor of the acceptor.                                             *)

ServerGoes(from, to) == srv.pc = from /\ srv' = [srv EXCEPT !.pc = to]
OnlyServer == UNCHANGED <<use, mutex, cl>>

Stop ==
  /\ use.stop /\ ~srv.again
  /\ ServerGoes("up", "mark")
  /\ OnlyServer /\ UNCHANGED <<pipe, acc, ses, lock>>

(* FifoSession::stop.                                                      *)
StopSession(c) ==
  /\ UNCHANGED <<ses, lock>>
  /\ \/ /\ srv.pc = "exitOpen"
        /\ OnExit(Server, c, ServerGoes("exitOpen", "exitClose"), ServerGoes("exitOpen", "pick"))
     \/ /\ ServerGoes("exitClose", "pick")
        /\ Closes(Server, c)

StopSessions ==
  /\ OnlyServer /\ UNCHANGED acc
  /\ \/ /\ srv.pc = "mark" /\ lock = None
        /\ LET alive == {c \in Client : ses[c].pc \notin {"none", "gone"}} IN
           /\ ses' = [c \in Client |-> [ses[c] EXCEPT !.stopped = @ \/ c \in alive]]
           /\ srv' = [srv EXCEPT !.pc = "pick", !.todo = alive]
        /\ lock' = Server
        /\ UNCHANGED pipe
     \/ /\ srv.pc = "pick"
        /\ \E c \in srv.todo :
             srv' = [srv EXCEPT !.pc = "exitOpen", !.todo = @ \ {c}, !.now = c]
        /\ UNCHANGED <<pipe, ses, lock>>
     \/ StopSession(srv.now)

(* FifoAcceptor::stop goes on to open the pipe of the acceptor.            *)
JoinsAtOnce == "joinAcceptor"
Unblocking == "accOpen"

StopAcceptor ==
  /\ OnlyServer /\ UNCHANGED ses
  /\ \/ /\ srv.todo = {}
        /\ ServerGoes("pick", Unblocking)
        /\ acc' = [acc EXCEPT !.stopped = TRUE]
        /\ lock' = None
        /\ UNCHANGED pipe
     \/ /\ srv.pc = "accOpen"
        /\ OnExit(Server, Acceptor, ServerGoes("accOpen", "accClose"),
                  ServerGoes("accOpen", "joinAcceptor"))
        /\ UNCHANGED <<acc, lock>>
     \/ /\ ServerGoes("accClose", "joinAcceptor")
        /\ Closes(Server, Acceptor)
        /\ UNCHANGED <<acc, lock>>

LeavesNamedMutex(from, to) ==
  /\ srv.pc = from
  /\ srv' = [srv EXCEPT !.pc = to, !.again = @ \/ to = "up"]
RemoveNamedMutex(from, to) ==
  /\ srv.pc = from
  /\ srv' = [srv EXCEPT !.pc = to, !.named = @ + 1, !.again = @ \/ to = "up"]

RemoveFifoFiles == pipe' = [p \in Pipe |-> Unlink(pipe[p])]

(* Sessions still in the queue are destroyed with it, the acceptor with    *)
(* the server, and the exit of the process removes the named mutex.        *)
DestroyServer ==
  /\ RemoveNamedMutex("joinPool", "down")
  /\ ses' = [c \in Client |-> [ses[c] EXCEPT !.pc = IF @ = "queued" THEN "gone" ELSE @]]
  /\ RemoveFifoFiles

Join ==
  /\ OnlyServer /\ UNCHANGED <<acc, lock>>
  /\ \/ /\ acc.pc = "ended"
        /\ ServerGoes("joinAcceptor", "joinPool")
        /\ UNCHANGED <<pipe, ses>>
     \/ /\ \A c \in Client : ses[c].pc \in {"none", "queued", "gone"}
        /\ DestroyServer

ServerStep == StopSessions \/ StopAcceptor \/ Join

-----------------------------------------------------------------------------
(* The server crashes: its descriptors are closed, its pipes stay.         *)
CloseAll(q, who) ==
  LET r == [q EXCEPT !.opening = @ \ who, !.reading = @ \ who, !.writers = @ \ who]
  IN IF HasReader(r) \/ r.writers # {} THEN r ELSE Drain(r)

Crash ==
  /\ use.crash /\ ~srv.again
  /\ ServerGoes("up", "crashed")
  /\ pipe' = [p \in Pipe |-> CloseAll(pipe[p], Process \ Client)]
  /\ acc' = [acc EXCEPT !.pc = "ended"]
  /\ ses' = [c \in Client |-> [ses[c] EXCEPT !.pc = IF @ = "none" THEN @ ELSE "gone"]]
  /\ lock' = None
  /\ UNCHANGED <<use, mutex, cl>>

(* By the time the server is started again, those who read a pipe have     *)
(* seen its end, and those who could take the mutex and tried to sign have *)
(* given up: what waits now waits for good, or tries to send.              *)
ClientsRest ==
  /\ \A p \in Pipe : pipe[p].reading \cup pipe[p].writers = {}
  /\ \A c \in Client :
       /\ cl[c].pc \notin {"sign", "signWrite", "signClose", "status"}
       /\ cl[c].pc = "lock" => ~MutexFree(c)

(* The constructor of the server removes the named mutex, the acceptor all *)
(* pipes before it makes its own.                                          *)
Restart ==
  /\ ClientsRest
  /\ RemoveNamedMutex("crashed", "up")
  /\ pipe' = [p \in Pipe |-> IF p = Acceptor THEN Link(NewPipe) ELSE NewPipe]
  /\ acc' = [pc |-> "top", stopped |-> FALSE, for |-> None]
  /\ UNCHANGED <<use, mutex, cl, ses, lock>>

-----------------------------------------------------------------------------
Next ==
  \/ \E c \in Client : ClientStep(c) \/ Interrupt(c) \/ Kill(c) \/ SessionStep(c)
  \/ AcceptorStep
  \/ Stop \/ ServerStep
  \/ Crash \/ Restart

Spec == Init /\ [][Next]_vars

(* Every thread that can go on does; nobody has to interrupt or to stop.   *)
FairSpec ==
  /\ Spec
  /\ \A c \in Client : WF_vars(ClientStep(c)) /\ WF_vars(SessionStep(c))
  /\ WF_vars(AcceptorStep)
  /\ WF_vars(ServerStep)

-----------------------------------------------------------------------------
(* Every variable has the values the program gives it.                     *)
TypeOK ==
  /\ use \in Uses
  /\ pipe \in [Pipe -> PipeType(Process, Message)]
  /\ mutex \in [Number -> Client \cup {None}]
  /\ cl \in [Client -> [pc : ClientPlace, of : Number, name : Client \cup {None},
                        done : 0 .. MaxRequests, closeFlag : BOOLEAN]]
  /\ acc \in [pc : AcceptorPlace, stopped : BOOLEAN, for : Client \cup {None}]
  /\ ses \in [Client -> [pc : SessionPlace, stopped : BOOLEAN, n : 0 .. MaxRequests]]
  /\ lock \in {Acceptor, Server, None}
  /\ srv \in [pc : ServerPlace, todo : SUBSET Client, now : Client \cup {None},
             named : Number, again : BOOLEAN]

(* One pipe in both directions is enough: as long as the server is not     *)
(* being stopped, a reader finds one message in the pipe at most, and that *)
(* message is for it, never one it has just written itself.                *)
ReaderIsAddressee ==
  srv.pc = "up" =>
    \A p \in Pipe : LET q == pipe[p] IN
      q.data # <<>> => Len(q.data) = 1 /\ q.reading \subseteq {To(Head(q.data))}

(* The named mutex keeps starting clients apart: a client talks to its own *)
(* session.                                                                *)
OwnSession == \A c \in Client : cl[c].name \in {None, c}

(* Request and reply go in step: what is in the pipe of a client belongs   *)
(* to the request the client is at, so no reply is taken for another.      *)
InStep ==
  \A c \in Client : \A k \in DOMAIN pipe[c].data :
    cl[c].pc \notin {"ended", "dead"} => pipe[c].data[k].n = cl[c].done + 1

(* No client waits for ever, for the mutex or for either pipe, unless the  *)
(* server is stopped or crashes while it does, or a client that died held  *)
(* the mutex.                                                              *)
ClientsEnd ==
  \A c \in Client : <>(cl[c].pc = "ended" \/ srv.pc # "up" \/ use.killed # {})

(* A client that starts after the server has been started again comes to   *)
(* its end, even if one that died or hangs holds the mutex of old, unless  *)
(* one dies with the new.                                                  *)
Reconnects ==
  \A c \in Client :
    (srv.again /\ cl[c].of = srv.named /\ cl[c].pc # "start") ~>
      (cl[c].pc = "ended" \/ \E d \in Client : cl[d].pc = "dead" /\ cl[d].of = srv.named)

(* What both kinds of connection promise.  A client that has never found   *)
(* its pipe, or has died, is away: the thread of its session waits until   *)
(* the server is stopped.  A client can be trusted when it is neither      *)
(* interrupted nor killed, the server goes on, and no thread is late.      *)
Trusted ==
  {c \in Client : ~Late /\ ~use.stop /\ ~use.crash /\ c \notin use.interrupted \cup use.killed}
PlaceOf(c) ==
  IF cl[c].pc \in {"sendWrite", "sendClose", "recv", "recvRead"} THEN "asking"
  ELSE IF cl[c].pc = "recvClose" THEN "idle"
  ELSE IF cl[c].done = 0 \/ cl[c].pc = "dead" THEN "away"
  ELSE IF cl[c].pc \in {"dtor", "dtorOpen", "dtorClose", "ended"} THEN "over"
  ELSE "idle"
ReplyOf(c) ==
  IF PlaceOf(c) # "asking" THEN "none"
  ELSE IF \E k \in DOMAIN pipe[c].data : pipe[c].data[k].kind = "reply" THEN "given" ELSE "owed"
SessionOf(c) == IF ses[c].pc \in {"none", "gone"} THEN ses[c].pc ELSE "open"

C == INSTANCE Conversation WITH
       trusted <- Trusted,
       place <- [c \in Client |-> PlaceOf(c)],
       reply <- [c \in Client |-> ReplyOf(c)],
       session <- [c \in Client |-> SessionOf(c)]

(* A client that has found its session gets every reply, and the thread of *)
(* the session is free again once the client has ended, which unblocks it  *)
(* or removes the pipe.                                                    *)
ImplementsConversation == C!Spec

(* Nobody is between the mutex and its session.                            *)
NobodyStarts ==
  /\ acc.pc \in {"top", "open", "read", "ended"}
  /\ \A c \in Client :
       cl[c].pc \notin {"sign", "signWrite", "signClose", "status", "statusRead", "statusClose"}

(* stop returns when no client is starting while it runs: the acceptor and *)
(* every session leave their loop wherever stop finds them.                *)
StopReturns == <>(srv.pc = "mark" /\ []NobodyStarts) => <>(srv.pc = "down")

=============================================================================
