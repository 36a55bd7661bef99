---------------------------- MODULE TcpSessions ----------------------------
(***************************************************************************)
(* Tcp clients and the server: TcpClient with its TcpClientHeartbeat,      *)
(* TcpAcceptor, TcpSession, Tcp, Server::createTcpSession and the tcp part *)
(* of Server::start and Server::stop.                                      *)
(*                                                                         *)
(* The acceptor accepts a connection, reads its first message before it    *)
(* accepts another, and creates a session (AUTHENTICATE) or answers        *)
(* (HEARTBEAT).  A session and a heartbeat are event loops of one thread:  *)
(* their place is the operation that is outstanding, and a step is the     *)
(* handler of its completion.  The heartbeat opens a new connection for    *)
(* every beat and waits for the answer inside a handler.                   *)
(*                                                                         *)
(* A connection is two queues of whole messages; a side that closes leaves *)
(* what it has sent.  It is reset when the client closes before it has     *)
(* read all that the server sends.  A session is named after its client.   *)
(***************************************************************************)
EXTENDS Integers, Sequences, FiniteSets

CONSTANTS
  Client,       \* the tcp clients
  MaxRequests,  \* bound: requests a client sends, if it is not endless
  MaxBeats,     \* bound: beats of a client
  Uses,         \* the uses that are made of the system, a set of Use
  None

(* A use: the requests and beats of a client, which clients repeat their   *)
(* batch without end (_runLoop), have heartbeatEnabled, may be interrupted *)
(* by the user, may die at any point, send what a session may fail to      *)
(* decrypt, and have timers that fire before the operation they watch; and *)
(* whether the server is stopped, and may fail to start.                   *)
Use == [requests : 1 .. MaxRequests, beats : 1 .. MaxBeats,
        endless : SUBSET Client, beating : SUBSET Client, interrupted : SUBSET Client,
        killed : SUBSET Client, faulty : SUBSET Client,
        slow : SUBSET Client, stop : BOOLEAN, fails : BOOLEAN]

ASSUME TcpAssumption ==
  /\ IsFiniteSet(Client) /\ None \notin Client
  /\ {MaxRequests, MaxBeats} \subseteq Nat \ {0}
  /\ Uses \subseteq Use

Main(c) == <<c, "main">>
Beat(c) == <<c, "beat">>
Conn == Client \X {"main", "beat"}

Message == [kind : {"authenticate", "status", "request", "reply", "heartbeat"},
            n : 0 .. MaxRequests]
Says(kind, n) == [kind |-> kind, n |-> n]

VARIABLES
  use,      \* the use that is made of the system, never changed
  conn,     \* the connections: which side is open, messages under way
  backlog,  \* connections the system has made and the acceptor not accepted
  cl,       \* the main threads of the clients
  beat,     \* the heartbeats
  acc,      \* the acceptor: its place, the connection it handles, _stopped
  ses,      \* the sessions: outstanding operation, _timeoutTimer, _stopped
  lock,     \* Server::_mutex is held by the acceptor
  srv       \* where Server::stop is

client == <<cl, beat>>
server == <<use, acc, ses, lock, srv>>
vars == <<conn, backlog, client, server>>

ClientPlace ==
  {"connect", "sign", "status", "send", "recv", "stop", "join", "ended", "dead"}
BeatPlace == {"off", "write", "send", "wait", "period", "ended"}
AcceptorPlace == {"none", "accept", "read", "reply", "create", "push", "ended"}
SessionPlace ==
  {"none", "queued", "readRequest", "reading", "task", "sendReply", "writing", "gone"}
ServerPlace == {"start", "up", "sessions", "acceptor", "joinAcceptor", "joinPool", "down"}

ClientState == [pc : ClientPlace, done : 0 .. MaxRequests]
HeartbeatState == [pc : BeatPlace, n : 0 .. MaxBeats, stopped : BOOLEAN,
                   status : {"NONE", "HEARTBEAT_TIMEOUT", "HEARTBEAT_PROBLEM"}]
AcceptorState == [pc : AcceptorPlace, now : Conn \cup {None}, stopped : BOOLEAN]
SessionState == [pc : SessionPlace, timer : {"idle", "armed", "fired"}, stopped : BOOLEAN,
                 n : 0 .. MaxRequests]
Connection == [client : BOOLEAN, server : BOOLEAN, reset : BOOLEAN,
               in : Seq(Message), out : Seq(Message)]

Closed == [client |-> FALSE, server |-> FALSE, reset |-> FALSE, in |-> <<>>, out |-> <<>>]

Init ==
  /\ use \in Uses
  /\ conn = [k \in Conn |-> Closed]
  /\ backlog = <<>>
  /\ cl = [c \in Client |-> [pc |-> "connect", done |-> 0]]
  /\ beat = [c \in Client |-> [pc |-> "off", n |-> 0, status |-> "NONE", stopped |-> FALSE]]
  /\ acc = [pc |-> "none", now |-> None, stopped |-> FALSE]
  /\ ses = [c \in Client |-> [pc |-> "none", timer |-> "idle", stopped |-> FALSE, n |-> 0]]
  /\ lock = FALSE
  /\ srv = "start"

-----------------------------------------------------------------------------
(* Tcp.h and Tcp.cpp: a message to a side that has closed is lost, and     *)
(* sendMessage returns true all the same.                                  *)

Does(k, q) == conn' = [conn EXCEPT ![k] = q]

Listening == acc.pc # "none" /\ srv # "down"
Refused == ~Listening

Connect(k) ==
  /\ Listening
  /\ Does(k, [Closed EXCEPT !.client = TRUE, !.server = TRUE])
  /\ backlog' = Append(backlog, k)

ToServer(k, m) ==
  Does(k, IF conn[k].server THEN [conn[k] EXCEPT !.in = Append(@, m)] ELSE conn[k])
Sent(k, m) == IF conn[k].client THEN [conn[k] EXCEPT !.out = Append(@, m)]
              ELSE [conn[k] EXCEPT !.reset = TRUE]
ToClient(k, m) == Does(k, Sent(k, m))

AnswerIn(k) == conn[k].out # <<>>
ClosedByServer(k) == conn[k].out = <<>> /\ ~conn[k].server
RequestIn(k) == conn[k].in # <<>>
ClosedByClient(k) == conn[k].in = <<>> /\ ~conn[k].client

ReadAnswer(k) == Does(k, [conn[k] EXCEPT !.out = Tail(@)])
ReadRequestFrom(k) == Does(k, [conn[k] EXCEPT !.in = Tail(@)])
ServerCloses(q) == [q EXCEPT !.server = FALSE, !.in = <<>>]
CloseServer(k) == Does(k, ServerCloses(conn[k]))
ClientCloses(q) == [q EXCEPT !.client = FALSE, !.out = <<>>, !.reset = @ \/ q.out # <<>>]

-----------------------------------------------------------------------------
(* TcpClient and Client.                                                   *)

(* displayStatus tells whether a status is a problem.                      *)
DisplayStatus(status) ==
  status \notin {"NONE", "MAX_TOTAL_OBJECTS", "MAX_OBJECTS_OF_TYPE", "STOPPED", "SESSION_STOPPED"}

StartHeartbeat(c) == [beat EXCEPT ![c].pc = IF c \in use.beating THEN "write" ELSE "off"]

Goes(c, from, to) == cl[c].pc = from /\ cl' = [cl EXCEPT ![c].pc = to]

(* receiveStatus, which throws if there is no message, and processStatus.  *)
ReceiveStatus(c) ==
  /\ UNCHANGED backlog
  /\ \/ /\ AnswerIn(Main(c))
        /\ Goes(c, "status", "send")
        /\ ReadAnswer(Main(c))
        /\ beat' = StartHeartbeat(c)
     \/ /\ ClosedByServer(Main(c))
        /\ Goes(c, "status", "stop")
        /\ UNCHANGED <<conn, beat>>

Start(c) ==
  /\ UNCHANGED server
  /\ \/ /\ Goes(c, "connect", "sign")
        /\ Connect(Main(c))
        /\ UNCHANGED beat
     \/ /\ Goes(c, "connect", "stop")
        /\ Refused
        /\ UNCHANGED <<conn, backlog, beat>>
     \/ /\ Goes(c, "sign", "status")
        /\ ToServer(Main(c), Says("authenticate", 0))
        /\ UNCHANGED <<backlog, beat>>
     \/ ReceiveStatus(c)

(* Client::run: the last request of the last iteration has been answered.  *)
OneTooMany(c) == c \notin use.endless /\ cl[c].done = use.requests
Last(c) == c \notin use.endless /\ cl[c].done + 1 = use.requests

(* processTask: the next request is not sent before the reply is here.     *)
NoReply(c) == "send"
AfterSend(c) == "recv"

Send(c) ==
  /\ Goes(c, "send", AfterSend(c))
  /\ ToServer(Main(c), Says("request", cl[c].done + 1))
  /\ UNCHANGED <<backlog, beat, server>>

(* printReply ends the client when the heartbeat has a bad status.  The    *)
(* pool lets go of a heartbeat that has ended, and its status with it.     *)
HeartbeatStatus(c) ==
  {beat[c].status} \cup (IF beat[c].pc = "ended" THEN {"NONE"} ELSE {})

Receive(c) ==
  /\ cl[c].pc = "recv"
  /\ UNCHANGED <<backlog, beat, server>>
  /\ \/ /\ AnswerIn(Main(c))
        /\ ReadAnswer(Main(c))
        /\ \E status \in HeartbeatStatus(c) :
             cl' = [cl EXCEPT ![c].done = IF c \in use.endless THEN @ ELSE @ + 1,
                              ![c].pc = IF Last(c) \/ DisplayStatus(status) THEN "stop"
                                        ELSE "send"]
     \/ /\ ClosedByServer(Main(c))
        /\ Goes(c, "recv", "stop")
        /\ UNCHANGED conn

(* The socket goes first, then ~Client stops the heartbeat and joins it.   *)
StopClient(c) ==
  /\ UNCHANGED <<backlog, server>>
  /\ \/ /\ Goes(c, "stop", "join")
        /\ Does(Main(c), ClientCloses(conn[Main(c)]))
        /\ beat' = [beat EXCEPT ![c].stopped = TRUE]
     \/ /\ beat[c].pc \in {"off", "ended"}
        /\ Goes(c, "join", "ended")
        /\ UNCHANGED <<conn, beat>>

(* A signal ends the client only in a wait for its socket.                 *)
Interrupt(c) ==
  /\ c \in use.interrupted
  /\ Goes(c, "recv", "stop") \/ Goes(c, "send", "stop")
  /\ UNCHANGED <<conn, backlog, beat, server>>

Kill(c) ==
  /\ c \in use.killed
  /\ cl[c].pc \notin {"ended", "dead"}
  /\ cl' = [cl EXCEPT ![c].pc = "dead"]
  /\ beat' = [beat EXCEPT ![c].pc = "ended"]
  /\ conn' = [k \in Conn |-> IF k[1] = c THEN ClientCloses(conn[k]) ELSE conn[k]]
  /\ UNCHANGED <<backlog, server>>

ClientStep(c) == Start(c) \/ Send(c) \/ Receive(c) \/ StopClient(c)

-----------------------------------------------------------------------------
(* TcpClientHeartbeat.                                                     *)

BeatGoes(c, from, to) == beat[c].pc = from /\ beat' = [beat EXCEPT ![c].pc = to]

(* write: a connection that is refused ends the heartbeat without a word.  *)
WriteBeat(c) ==
  /\ UNCHANGED <<cl, server>>
  /\ \/ /\ BeatGoes(c, "write", "send")
        /\ Connect(Beat(c))
     \/ /\ BeatGoes(c, "write", "ended")
        /\ Refused
        /\ UNCHANGED <<conn, backlog>>
     \/ /\ BeatGoes(c, "send", "wait")
        /\ ToServer(Beat(c), Says("heartbeat", 0))
        /\ UNCHANGED backlog

(* timeoutWait: the handler of the timer does nothing, but it may have run *)
(* when the answer is here.                                                *)
TimedOut(c) == {FALSE, (c \in use.slow)}

(* The server sends the header of a beat back with the status it came with *)
(* (isOk).                                                                 *)
IsOk(status) == status \in {"NONE", "MAX_TOTAL_OBJECTS", "MAX_OBJECTS_OF_TYPE"}

(* read: the handler waits for the socket, whatever the timer or stop do.  *)
(* A beat that carries the timeout of the one before it is the last.       *)
ReadBeat(c) ==
  /\ beat[c].pc = "wait"
  /\ UNCHANGED <<backlog, cl, server>>
  /\ \/ /\ AnswerIn(Beat(c))
        /\ ReadAnswer(Beat(c))
        /\ IF beat[c].stopped THEN BeatGoes(c, "wait", "ended")
           ELSE \E late \in TimedOut(c) :
                  beat' = [beat EXCEPT ![c].pc = IF IsOk(beat[c].status) THEN "period" ELSE "ended",
                                       ![c].n = @ + 1,
                                       ![c].status = IF late THEN "HEARTBEAT_TIMEOUT" ELSE @]
     \/ /\ ClosedByServer(Beat(c))
        /\ beat' = [beat EXCEPT ![c].pc = "ended",
                                ![c].status = IF beat[c].stopped THEN @ ELSE "HEARTBEAT_PROBLEM"]
        /\ UNCHANGED conn

(* heartbeatWait, and stop which cancels its timer.                        *)
KeepsTimer(c) == FALSE
Cancels(c) == beat[c].stopped

NextBeat(c) ==
  /\ UNCHANGED <<conn, backlog, cl, server>>
  /\ \/ /\ beat[c].n < use.beats /\ ~beat[c].stopped
        /\ BeatGoes(c, "period", "write")
     \/ /\ Cancels(c)
        /\ BeatGoes(c, "period", "ended")

(* A signal may find the thread of the heartbeat in a wait for its socket: *)
(* it ends without a word, with the timer it has started.                  *)
InterruptBeat(c) ==
  /\ c \in use.interrupted
  /\ BeatGoes(c, "send", "ended") \/ BeatGoes(c, "wait", "ended")
  /\ Does(Beat(c), ClientCloses(conn[Beat(c)]))
  /\ UNCHANGED <<backlog, cl, server>>

BeatStep(c) == WriteBeat(c) \/ ReadBeat(c) \/ NextBeat(c)

-----------------------------------------------------------------------------
(* TcpAcceptor and Server::createTcpSession.                               *)

AcceptorGoes(from, to) ==
  /\ acc.pc = from
  /\ acc' = [acc EXCEPT !.pc = to, !.now = IF to \in {"accept", "ended"} THEN None ELSE @]

(* accept and connectionType: an exception ends the acceptor.              *)
Accept ==
  /\ UNCHANGED <<use, client, ses, lock, srv>>
  /\ \/ /\ acc.pc = "accept" /\ ~acc.stopped /\ backlog # <<>>
        /\ acc' = [acc EXCEPT !.pc = "read", !.now = Head(backlog)]
        /\ backlog' = Tail(backlog)
        /\ UNCHANGED conn
     \/ /\ acc.stopped
        /\ AcceptorGoes("accept", "ended")
        /\ UNCHANGED <<conn, backlog>>
     \/ /\ acc.pc = "read" /\ RequestIn(acc.now)
        /\ ReadRequestFrom(acc.now)
        /\ AcceptorGoes("read", IF Head(conn[acc.now].in).kind = "authenticate"
                                THEN "create" ELSE "reply")
        /\ UNCHANGED backlog
     \/ /\ acc.pc = "read" /\ ClosedByClient(acc.now)
        /\ CloseServer(acc.now)
        /\ AcceptorGoes("read", "ended")
        /\ UNCHANGED backlog

(* replyHeartbeat; the connection goes with its last reference.            *)
ReplyHeartbeat ==
  /\ AcceptorGoes("reply", "accept")
  /\ Does(acc.now, ServerCloses(Sent(acc.now, Says("heartbeat", 0))))
  /\ UNCHANGED <<use, backlog, client, ses, lock, srv>>

SendStatusToClient(k) == ToClient(k, Says("status", 0))

(* The constructor of the session sends the status.                        *)
ConstructSession ==
  /\ AcceptorGoes("create", "push")
  /\ SendStatusToClient(acc.now)

(* remote_endpoint throws in start when the connection has been reset.     *)
CreateSession ==
  LET c == acc.now[1] IN
  /\ UNCHANGED <<use, backlog, client, srv>>
  /\ \/ /\ ConstructSession
        /\ ~lock /\ lock' = TRUE
        /\ UNCHANGED ses
     \/ /\ AcceptorGoes("push", "accept")
        /\ ses' = [ses EXCEPT ![c].pc = "queued"]
        /\ lock' = FALSE
        /\ UNCHANGED conn
     \/ /\ acc.pc = "push" /\ conn[acc.now].reset
        /\ AcceptorGoes("push", "ended")
        /\ CloseServer(acc.now)
        /\ lock' = FALSE
        /\ UNCHANGED ses

AcceptorStep == Accept \/ ReplyHeartbeat \/ CreateSession

-----------------------------------------------------------------------------
(* TcpSession.                                                             *)

SessionGoes(c, from, to) == ses[c].pc = from /\ ses' = [ses EXCEPT ![c].pc = to]
OnlySession == UNCHANGED <<use, backlog, client, acc, lock, srv>>
PoolStopped == srv \in {"joinPool", "down"}

(* The loop is out of work, or stopped: the session and its socket go.     *)
Ends(c) ==
  /\ ses' = [ses EXCEPT ![c].pc = "gone", ![c].timer = "idle"]
  /\ CloseServer(Main(c))

Run(c) ==
  /\ OnlySession /\ UNCHANGED conn
  /\ ~PoolStopped /\ ~ses[c].stopped
  /\ SessionGoes(c, "queued", "readRequest")

(* The timer is cancelled as soon as the read has been started, before its *)
(* handler can run.                                                        *)
StartRead(c) == SessionGoes(c, "readRequest", "reading")

ReadRequest(c) ==
  /\ OnlySession /\ ~ses[c].stopped
  /\ \/ /\ StartRead(c)
        /\ UNCHANGED conn
     \/ /\ ses[c].pc = "reading" /\ RequestIn(Main(c))
        /\ ReadRequestFrom(Main(c))
        /\ ses' = [ses EXCEPT ![c].pc = "task", ![c].n = Head(conn[Main(c)].in).n]

NeverSeesClose(c) == FALSE
SeesClose(c) == ClosedByClient(Main(c))

ReadFails(c) ==
  /\ OnlySession /\ ~ses[c].stopped
  /\ ses[c].pc = "reading" /\ SeesClose(c)
  /\ Ends(c)

(* processTask waits for the batch even if the session is stopped; what it *)
(* throws ends the loop.                                                   *)
ProcessTask(c) ==
  /\ OnlySession
  /\ \/ /\ SessionGoes(c, "task", "sendReply")
        /\ UNCHANGED conn
     \/ /\ c \in use.faulty /\ ses[c].pc = "task"
        /\ Ends(c)

SendReply(c) ==
  /\ OnlySession /\ ~ses[c].stopped /\ UNCHANGED conn
  /\ ses[c].pc = "sendReply"
  /\ ses' = [ses EXCEPT ![c].pc = "writing", ![c].timer = "armed"]

(* asyncWait: the handler of the timer does nothing.                       *)
TimerFires(c) ==
  /\ OnlySession /\ ~ses[c].stopped /\ UNCHANGED conn
  /\ c \in use.slow /\ ses[c].pc = "writing" /\ ses[c].timer = "armed"
  /\ ses' = [ses EXCEPT ![c].timer = "fired"]

(* write: a timer that could not be cancelled ends the session, though the *)
(* reply is out.                                                           *)
NoMoreReads(c) == "gone"
AfterWrite(c) == "readRequest"

WriteReply(c) ==
  /\ OnlySession /\ ~ses[c].stopped
  /\ ses[c].pc = "writing"
  /\ \/ /\ ses[c].timer = "armed"
        /\ ses' = [ses EXCEPT ![c].pc = AfterWrite(c), ![c].timer = "idle"]
        /\ ToClient(Main(c), Says("reply", ses[c].n))
     \/ /\ ses[c].timer = "fired"
        /\ ses' = [ses EXCEPT ![c].pc = "gone"]
        /\ Does(Main(c), ServerCloses(Sent(Main(c), Says("reply", ses[c].n))))
     \/ /\ ~conn[Main(c)].client
        /\ Ends(c)

(* _ioContext.stop: run returns after the handler it is in, or at once.    *)
LoopRunsOn(c) == FALSE
LoopStops(c) == ses[c].stopped

StopSession(c) ==
  /\ OnlySession
  /\ LoopStops(c) /\ ses[c].pc \in {"queued", "readRequest", "reading", "sendReply", "writing"}
  /\ Ends(c)

SessionStep(c) ==
  \/ Run(c) \/ ReadRequest(c) \/ ReadFails(c) \/ ProcessTask(c) \/ SendReply(c)
  \/ WriteReply(c) \/ StopSession(c)

-----------------------------------------------------------------------------
(* Server::start and Server::stop.                                         *)

ServerGoes(from, to) == srv = from /\ srv' = to

(* The tcp acceptor runs before the fifo acceptor is started.              *)
StartServer ==
  /\ UNCHANGED <<use, conn, backlog, client, ses, lock>>
  /\ \/ /\ srv = "start"
        /\ AcceptorGoes("none", "accept")
        /\ UNCHANGED srv
     \/ /\ acc.pc # "none"
        /\ ServerGoes("start", "up")
        /\ UNCHANGED acc

(* The pools of a server that is destroyed have threads: the process ends, *)
(* with the sessions that run already.                                     *)
DestroyPools ==
  /\ acc' = [acc EXCEPT !.pc = "ended", !.now = None]
  /\ ses' = [c \in Client |-> [ses[c] EXCEPT !.pc = IF @ = "none" THEN @ ELSE "gone"]]
  /\ conn' = [k \in Conn |-> ServerCloses(conn[k])]
  /\ backlog' = <<>>
  /\ lock' = FALSE

(* The port is in use, or the pipe cannot be made.                         *)
StartFails ==
  /\ use.fails
  /\ ServerGoes("start", "down")
  /\ DestroyPools
  /\ UNCHANGED <<use, client>>

Stop ==
  /\ use.stop
  /\ ServerGoes("up", "sessions")
  /\ UNCHANGED <<use, conn, backlog, client, acc, ses, lock>>

StopSessions ==
  /\ ServerGoes("sessions", "acceptor")
  /\ ~lock
  /\ ses' = [c \in Client |->
              [ses[c] EXCEPT !.stopped = @ \/ ses[c].pc \notin {"none", "gone"}]]
  /\ UNCHANGED <<use, conn, backlog, client, acc, lock>>

StopAcceptor ==
  /\ ServerGoes("acceptor", "joinAcceptor")
  /\ acc' = [acc EXCEPT !.stopped = TRUE]
  /\ UNCHANGED <<use, conn, backlog, client, ses, lock>>

(* The rest of the sessions goes with the queue, every connection with the *)
(* process.                                                                *)
Join ==
  /\ UNCHANGED <<use, client, acc, lock>>
  /\ \/ /\ ServerGoes("joinAcceptor", "joinPool")
        /\ acc.pc = "ended"
        /\ UNCHANGED <<conn, backlog, ses>>
     \/ /\ ServerGoes("joinPool", "down")
        /\ \A c \in Client : ses[c].pc \in {"none", "queued", "gone"}
        /\ ses' = [c \in Client |->
                    [ses[c] EXCEPT !.pc = IF @ = "queued" THEN "gone" ELSE @]]
        /\ conn' = [k \in Conn |-> ServerCloses(conn[k])]
        /\ backlog' = <<>>

ServerStep == StartServer \/ StopSessions \/ StopAcceptor \/ Join

-----------------------------------------------------------------------------
Next ==
  \/ \E c \in Client :
       \/ ClientStep(c) \/ Interrupt(c) \/ Kill(c) \/ BeatStep(c) \/ InterruptBeat(c)
       \/ SessionStep(c) \/ TimerFires(c)
  \/ AcceptorStep
  \/ StartFails \/ Stop \/ ServerStep

Spec == Init /\ [][Next]_vars

(* Every thread that can go on does; timers, signals and the user need not. *)
FairSpec ==
  /\ Spec
  /\ \A c \in Client :
       WF_vars(ClientStep(c)) /\ WF_vars(BeatStep(c)) /\ WF_vars(SessionStep(c))
  /\ WF_vars(AcceptorStep)
  /\ WF_vars(ServerStep)

-----------------------------------------------------------------------------
(* Every variable has the values the program gives it.                     *)
TypeOK ==
  /\ use \in Uses
  /\ conn \in [Conn -> Connection]
  /\ backlog \in Seq(Conn)
  /\ cl \in [Client -> ClientState]
  /\ beat \in [Client -> HeartbeatState]
  /\ acc \in AcceptorState
  /\ ses \in [Client -> SessionState]
  /\ lock \in BOOLEAN
  /\ srv \in ServerPlace

(* A reader takes what read_until has found for one message: there is      *)
(* never a second one behind it, and a reply is for the request its reader *)
(* is at.                                                                  *)
OneMessage ==
  \A c \in Client : LET k == conn[Main(c)] IN
    /\ Len(k.in) + Len(k.out) <= 1
    /\ \A j \in DOMAIN k.out : k.out[j].kind = "reply" => k.out[j].n = cl[c].done + 1
    /\ Len(conn[Beat(c)].in) + Len(conn[Beat(c)].out) <= 1

(* What both kinds of connection promise.  A client that cannot be trusted *)
(* here is one the run lets down: interrupted, killed, faulty, slow, or of *)
(* a server that is stopped or fails to start.                             *)
Trusted ==
  {c \in Client : ~use.stop /\ ~use.fails /\ c \notin use.interrupted \cup use.killed
                               \cup use.faulty \cup use.slow}
PlaceOf(c) ==
  CASE cl[c].pc \in {"stop", "join", "ended", "dead"} -> "over"
    [] cl[c].pc = "recv" -> "asking"
    [] cl[c].pc = "send" -> "idle"
    [] OTHER -> "away"
ReplyOf(c) ==
  IF PlaceOf(c) # "asking" THEN "none" ELSE IF AnswerIn(Main(c)) THEN "given" ELSE "owed"
SessionOf(c) == IF ses[c].pc \in {"none", "gone"} THEN ses[c].pc ELSE "open"

C == INSTANCE Conversation WITH
       trusted <- Trusted,
       place <- [c \in Client |-> PlaceOf(c)],
       reply <- [c \in Client |-> ReplyOf(c)],
       session <- [c \in Client |-> SessionOf(c)]

(* The conversation that has begun is not disturbed by what happens to     *)
(* other clients, every request is answered, and a session does not        *)
(* outlive its client: the end of the connection finds it where it waits,  *)
(* even if it was still in the queue.                                      *)
ImplementsConversation == C!Spec

(* Every client that has an end comes to it, with its heartbeat joined, as *)
(* long as there is an acceptor.                                           *)
ClientsEnd ==
  \A c \in Client :
    <>(cl[c].pc \in {"ended", "dead"} \/ c \in use.endless \/ acc.pc = "ended")

(* Nobody is between connect and the session.                              *)
NobodyStarts ==
  /\ acc.pc \notin {"create", "push"}
  /\ \A c \in Client : cl[c].pc \notin {"connect", "sign", "status"}

(* stop returns even while clients send without end, if none starts while  *)
(* it runs.                                                                *)
StopReturns == <>(srv = "sessions" /\ []NobodyStarts) => <>(srv = "down")

=============================================================================
