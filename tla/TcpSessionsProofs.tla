------------------------- MODULE TcpSessionsProofs -------------------------
(***************************************************************************)
(* OneMessage of the tcp conversation and, from the second half on, that   *)
(* it implements the safety of Conversation, for any clients and any uses. *)
(*                                                                         *)
(* The first argument is a token.  TokenOf: what a client has said is in   *)
(* one place, in its connection, in the hands of the acceptor or of the    *)
(* session, or answered in the connection; it is nowhere when the client   *)
(* may speak.  NumberOf: the token has the number of the request the       *)
(* client is at, and a session never meets the first message, which is the *)
(* acceptor's.  BoundOf: what counts requests and beats stays below the    *)
(* bounds of the use.                                                      *)
(***************************************************************************)
EXTENDS TcpSessions, SequenceTheorems, TLAPS

HeldByAcceptor(k) == acc.now = k /\ acc.pc \in {"reply", "create"}
HeldBySession(c) == ses[c].pc \in {"task", "sendReply", "writing"}
BeingMade(c) == acc.now = Main(c) /\ acc.pc \in {"create", "push"}

(* What was said last is in one place at most; it is nowhere.              *)
Alone(k, held) ==
  /\ conn[k].in # <<>> =>
       Len(conn[k].in) = 1 /\ conn[k].out = <<>> /\ ~HeldByAcceptor(k) /\ ~held
  /\ conn[k].out # <<>> =>
       Len(conn[k].out) = 1 /\ conn[k].in = <<>> /\ ~HeldByAcceptor(k) /\ ~held
  /\ ~(HeldByAcceptor(k) /\ held)
Free(k, held) ==
  conn[k].in = <<>> /\ conn[k].out = <<>> /\ ~HeldByAcceptor(k) /\ ~held

TokenOf(c) ==
  /\ Alone(Main(c), HeldBySession(c))
  /\ cl[c].pc \in {"connect", "sign", "send"} => Free(Main(c), HeldBySession(c))
  /\ Alone(Beat(c), FALSE)
  /\ beat[c].pc \in {"off", "write", "send", "period"} => Free(Beat(c), FALSE)

FromClient(c, m) ==
  \/ m.kind = "request" /\ m.n = cl[c].done + 1
  \/ m.kind = "authenticate" /\ ses[c].pc = "none" /\ ~BeingMade(c)

NumberOf(c) ==
  /\ \A j \in 1 .. Len(conn[Main(c)].in) : FromClient(c, conn[Main(c)].in[j])
  /\ \A j \in 1 .. Len(conn[Main(c)].out) :
       conn[Main(c)].out[j].kind = "reply" => conn[Main(c)].out[j].n = cl[c].done + 1
  /\ HeldBySession(c) => ses[c].n = cl[c].done + 1
  /\ cl[c].pc \in {"connect", "sign"} => ses[c].pc = "none" /\ ~BeingMade(c)
  /\ \A j \in 1 .. Len(conn[Beat(c)].in) : conn[Beat(c)].in[j].kind = "heartbeat"
  /\ acc.now = Beat(c) => acc.pc \notin {"create", "push"}

BoundOf(c) ==
  /\ cl[c].pc \in {"connect", "sign", "status", "send", "recv"} =>
       IF c \in use.endless THEN cl[c].done = 0 ELSE cl[c].done < use.requests
  /\ beat[c].pc \in {"off", "write", "send", "wait"} => beat[c].n < use.beats
  /\ cl[c].pc \in {"connect", "sign", "status"} => beat[c].pc = "off"

AcceptorInv == acc.pc \in {"read", "reply", "create", "push"} => acc.now \in Conn

ClientInv(c) == TokenOf(c) /\ NumberOf(c) /\ BoundOf(c)

TcpInv == TypeOK /\ AcceptorInv /\ \A c \in Client : ClientInv(c)

-----------------------------------------------------------------------------
(* The connections of a client, and of another.                            *)
LEMMA Names ==
  /\ \A c \in Client : Main(c) \in Conn /\ Beat(c) \in Conn /\ Main(c)[1] = c
  /\ \A c, d \in Client : Main(c) # Beat(d)
  /\ \A c, d \in Client : c # d => Main(c) # Main(d) /\ Beat(c) # Beat(d)
  /\ \A k \in Conn : k[1] \in Client /\ (k = Main(k[1]) \/ k = Beat(k[1]))
<1>2. \A c \in Client : Main(c) \in Conn /\ Beat(c) \in Conn /\ Main(c)[1] = c
  BY DEF Main, Beat, Conn
<1>3. \A c, d \in Client : Main(c) # Beat(d)
  BY DEF Main, Beat
<1>4. \A c, d \in Client : c # d => Main(c) # Main(d) /\ Beat(c) # Beat(d)
  BY DEF Main, Beat
<1>5. ASSUME NEW k \in Conn PROVE k[1] \in Client /\ (k = Main(k[1]) \/ k = Beat(k[1]))
  BY DEF Main, Beat, Conn
<1> QED BY <1>2, <1>3, <1>4, <1>5

(* What is said is a message; the use is one of those declared.            *)
LEMMA UseFacts ==
  ASSUME TypeOK
  PROVE  /\ use.requests \in 1 .. MaxRequests /\ use.beats \in 1 .. MaxBeats
         /\ MaxRequests \in Nat /\ MaxBeats \in Nat
BY TcpAssumption DEF TypeOK, TcpAssumption, Use

LEMMA MessageFacts ==
  /\ \A kind \in {"authenticate", "status", "request", "reply", "heartbeat"} :
       \A n \in 0 .. MaxRequests :
         Says(kind, n) \in Message /\ Says(kind, n).kind = kind /\ Says(kind, n).n = n
  /\ 0 \in 0 .. MaxRequests
BY TcpAssumption DEF TcpAssumption, Says, Message

LEMMA Nothing == <<>> \in Seq(Message)
OBVIOUS

LEMMA AppendFacts ==
  ASSUME NEW s \in Seq(Message), NEW m \in Message
  PROVE  /\ Append(s, m) \in Seq(Message) /\ Len(Append(s, m)) = Len(s) + 1
         /\ Append(s, m)[Len(s) + 1] = m
         /\ \A j \in 1 .. Len(s) : Append(s, m)[j] = s[j]
BY AppendProperties

LEMMA TailFacts ==
  ASSUME NEW s \in Seq(Message), s # <<>>
  PROVE  /\ Tail(s) \in Seq(Message) /\ Len(Tail(s)) = Len(s) - 1
         /\ Head(s) = s[1] /\ Head(s) \in Message /\ Len(s) >= 1
         /\ \A j \in 1 .. Len(Tail(s)) : Tail(s)[j] = s[j + 1]
BY HeadTailProperties, EmptySeq

(* What a step does to the messages of one connection.                     *)
Effect(k, i, o) ==
  /\ conn' \in [Conn -> Connection]
  /\ conn'[k].in = i /\ conn'[k].out = o
  /\ \A l \in Conn \ {k} : conn'[l] = conn[l]

LEMMA ConnectionFacts ==
  ASSUME TypeOK, NEW k \in Conn
  PROVE  /\ conn[k] \in Connection
         /\ conn[k].in \in Seq(Message) /\ Len(conn[k].in) \in Nat
         /\ conn[k].out \in Seq(Message) /\ Len(conn[k].out) \in Nat
         /\ conn[k].in = <<>> <=> Len(conn[k].in) = 0
         /\ conn[k].out = <<>> <=> Len(conn[k].out) = 0
BY EmptySeq, LenProperties DEF TypeOK, Connection

LEMMA DoesFacts ==
  ASSUME TypeOK, NEW k \in Conn, NEW q \in Connection, Does(k, q)
  PROVE  Effect(k, q.in, q.out)
BY DEF TypeOK, Does, Effect

LEMMA ConnectFacts ==
  ASSUME TypeOK, NEW k \in Conn, Connect(k)
  PROVE  Effect(k, <<>>, <<>>) /\ backlog' \in Seq(Conn)
<1> DEFINE q == [Closed EXCEPT !.client = TRUE, !.server = TRUE]
<1>1. q \in Connection /\ q.in = <<>> /\ q.out = <<>>
  BY Nothing DEF Connection, Closed
<1>2. Does(k, q)
  BY DEF Connect, Does
<1> HIDE DEF q
<1>3. Effect(k, <<>>, <<>>)
  BY <1>1, <1>2, DoesFacts
<1>4. backlog' \in Seq(Conn)
  BY AppendProperties DEF Connect, TypeOK
<1> QED BY <1>3, <1>4

LEMMA ToServerFacts ==
  ASSUME TypeOK, NEW k \in Conn, NEW m \in Message, ToServer(k, m)
  PROVE  \/ Effect(k, conn[k].in, conn[k].out)
         \/ Effect(k, Append(conn[k].in, m), conn[k].out)
<1>1. [conn[k] EXCEPT !.in = Append(@, m)] \in Connection
  BY ConnectionFacts, AppendFacts DEF Connection
<1> QED BY <1>1, ConnectionFacts, DoesFacts DEF ToServer, Connection

(* A message for a client that has closed is lost.                         *)
LEMMA SentFacts ==
  ASSUME TypeOK, NEW k \in Conn, NEW m \in Message
  PROVE  /\ Sent(k, m) \in Connection /\ Sent(k, m).in = conn[k].in
         /\ Sent(k, m).out \in {conn[k].out, Append(conn[k].out, m)}
<1>1. [conn[k] EXCEPT !.out = Append(@, m)] \in Connection
  BY ConnectionFacts, AppendFacts DEF Connection
<1>2. [conn[k] EXCEPT !.reset = TRUE] \in Connection
  BY ConnectionFacts DEF Connection
<1> QED BY <1>1, <1>2, ConnectionFacts DEF Sent, Connection

LEMMA ClosesFacts ==
  ASSUME NEW q \in Connection
  PROVE  /\ ServerCloses(q) \in Connection
         /\ ServerCloses(q).in = <<>> /\ ServerCloses(q).out = q.out
         /\ ClientCloses(q) \in Connection
         /\ ClientCloses(q).in = q.in /\ ClientCloses(q).out = <<>>
<1>1. /\ ServerCloses(q) \in Connection
      /\ ServerCloses(q).in = <<>> /\ ServerCloses(q).out = q.out
  BY Nothing DEF ServerCloses, Connection
<1> DEFINE unread == q.reset \/ q.out # <<>>
<1>2. unread \in BOOLEAN
  OBVIOUS
<1>3. ClientCloses(q) = [q EXCEPT !.client = FALSE, !.out = <<>>, !.reset = unread]
  BY DEF ClientCloses
<1> HIDE DEF unread
<1>4. /\ ClientCloses(q) \in Connection
      /\ ClientCloses(q).in = q.in /\ ClientCloses(q).out = <<>>
  BY <1>2, <1>3, Nothing DEF Connection
<1> QED BY <1>1, <1>4

LEMMA ReadFacts ==
  ASSUME TypeOK, NEW k \in Conn
  PROVE  /\ AnswerIn(k) /\ ReadAnswer(k) => Effect(k, conn[k].in, Tail(conn[k].out))
         /\ RequestIn(k) /\ ReadRequestFrom(k) => Effect(k, Tail(conn[k].in), conn[k].out)
         /\ CloseServer(k) => Effect(k, <<>>, conn[k].out)
<1>1. ASSUME AnswerIn(k), ReadAnswer(k) PROVE Effect(k, conn[k].in, Tail(conn[k].out))
  <2>1. [conn[k] EXCEPT !.out = Tail(@)] \in Connection
    BY <1>1, ConnectionFacts, TailFacts DEF Connection, AnswerIn
  <2> QED BY <1>1, <2>1, ConnectionFacts, DoesFacts DEF ReadAnswer, Connection
<1>2. ASSUME RequestIn(k), ReadRequestFrom(k) PROVE Effect(k, Tail(conn[k].in), conn[k].out)
  <2>1. [conn[k] EXCEPT !.in = Tail(@)] \in Connection
    BY <1>2, ConnectionFacts, TailFacts DEF Connection, RequestIn
  <2> QED BY <1>2, <2>1, ConnectionFacts, DoesFacts DEF ReadRequestFrom, Connection
<1>3. CloseServer(k) => Effect(k, <<>>, conn[k].out)
  BY ConnectionFacts, ClosesFacts, DoesFacts DEF CloseServer
<1> QED BY <1>1, <1>2, <1>3

-----------------------------------------------------------------------------
(* A step that leaves the token of d where it is, or takes it away, and    *)
(* lets neither d nor its heartbeat go on, keeps what is known of d.       *)
Quiet(d) ==
  /\ use' = use
  /\ cl'[d].done = cl[d].done
  /\ cl'[d].pc = cl[d].pc \/ cl'[d].pc \in {"stop", "join", "ended", "dead"}
  /\ beat'[d].n = beat[d].n
  /\ \/ beat'[d].pc = beat[d].pc
     \/ beat'[d].pc = "ended" /\ (beat[d].pc = "off" => cl'[d].pc = "dead")
  /\ HeldBySession(d)' => HeldBySession(d) /\ ses'[d].n = ses[d].n
  /\ ses[d].pc = "none" => ses'[d].pc = "none"

QuietConnection(k) ==
  /\ conn'[k].in \in {conn[k].in, <<>>}
  /\ conn'[k].out \in {conn[k].out, <<>>}
  /\ HeldByAcceptor(k)' => HeldByAcceptor(k)

LEMMA QuietStep ==
  ASSUME TypeOK, TypeOK', NEW d \in Client, ClientInv(d),
         Quiet(d), QuietConnection(Main(d)), QuietConnection(Beat(d)),
         BeingMade(d)' => BeingMade(d),
         acc'.now = Beat(d) => acc'.pc \notin {"create", "push"}
  PROVE  ClientInv(d)'
<1>1. /\ conn[Main(d)].in \in Seq(Message) /\ conn[Main(d)].out \in Seq(Message)
      /\ conn[Beat(d)].in \in Seq(Message) /\ conn[Beat(d)].out \in Seq(Message)
      /\ Main(d) \in Conn /\ Beat(d) \in Conn
  BY Names, ConnectionFacts
<1>2. /\ \A s \in Seq(Message) : Len(s) \in Nat
      /\ Len(<<>>) = 0
  BY LenProperties, EmptySeq
<1>3. HeldBySession(d)' => HeldBySession(d)
  BY DEF Quiet
<1>4. /\ Alone(Main(d), HeldBySession(d))'
      /\ Free(Main(d), HeldBySession(d)) => Free(Main(d), HeldBySession(d))'
      /\ Alone(Beat(d), FALSE)'
      /\ Free(Beat(d), FALSE) => Free(Beat(d), FALSE)'
  BY <1>3 DEF ClientInv, TokenOf, Alone, Free, QuietConnection
<1>5. TokenOf(d)'
  BY <1>4 DEF ClientInv, TokenOf, Quiet
<1>6. NumberOf(d)'
  <2> USE <1>1, <1>2 DEF ClientInv, NumberOf, Quiet, QuietConnection
  <2>1. /\ cl'[d].done = cl[d].done
        /\ ses[d].pc = "none" => ses'[d].pc = "none"
        /\ ~BeingMade(d) => ~BeingMade(d)'
    OBVIOUS
  <2>2. \A j \in 1 .. Len(conn'[Main(d)].in) : FromClient(d, conn[Main(d)].in[j])
    OBVIOUS
  <2>3. \A j \in 1 .. Len(conn'[Main(d)].in) : conn'[Main(d)].in[j] = conn[Main(d)].in[j]
    OBVIOUS
  <2>4. \A j \in 1 .. Len(conn'[Main(d)].out) :
          conn'[Main(d)].out[j].kind = "reply" => conn'[Main(d)].out[j].n = cl'[d].done + 1
    OBVIOUS
  <2>5. HeldBySession(d)' => ses'[d].n = cl'[d].done + 1
    OBVIOUS
  <2>6. cl'[d].pc \in {"connect", "sign"} => ses'[d].pc = "none" /\ ~BeingMade(d)'
    OBVIOUS
  <2>7. \A j \in 1 .. Len(conn'[Beat(d)].in) : conn'[Beat(d)].in[j].kind = "heartbeat"
    OBVIOUS
  <2>8. (\A j \in 1 .. Len(conn[Main(d)].in) : FromClient(d, conn[Main(d)].in[j]))'
    BY <2>1, <2>2, <2>3 DEF FromClient
  <2> QED BY <2>4, <2>5, <2>6, <2>7, <2>8
<1>7. BoundOf(d)'
  BY DEF ClientInv, BoundOf, Quiet
<1> QED BY <1>5, <1>6, <1>7 DEF ClientInv

(* The acceptor does not take up anything of d.                            *)
QuietAcceptor(d) ==
  \/ acc'.pc = acc.pc /\ acc'.now = acc.now
  \/ acc'.pc \in {"none", "accept", "read", "ended"}
  \/ acc'.now \notin {Main(d), Beat(d)}

QuietMessages(k) ==
  conn'[k].in \in {conn[k].in, <<>>} /\ conn'[k].out \in {conn[k].out, <<>>}

LEMMA Bystander ==
  ASSUME TcpInv, TypeOK', NEW d \in Client, Quiet(d), QuietAcceptor(d),
         QuietMessages(Main(d)), QuietMessages(Beat(d))
  PROVE  ClientInv(d)'
<1>1. \A k \in {Main(d), Beat(d)} : HeldByAcceptor(k)' => HeldByAcceptor(k)
  BY DEF QuietAcceptor, HeldByAcceptor
<1>2. QuietConnection(Main(d)) /\ QuietConnection(Beat(d))
  BY <1>1 DEF QuietConnection, QuietMessages
<1>3. BeingMade(d)' => BeingMade(d)
  BY DEF QuietAcceptor, BeingMade
<1>4. acc'.now = Beat(d) => acc'.pc \notin {"create", "push"}
  BY DEF QuietAcceptor, TcpInv, ClientInv, NumberOf
<1>5. TypeOK /\ ClientInv(d)
  BY DEF TcpInv
<1> QED BY <1>2, <1>3, <1>4, <1>5, QuietStep

LEMMA AllQuiet ==
  ASSUME TcpInv, TypeOK', AcceptorInv',
         \A d \in Client : Quiet(d) /\ QuietAcceptor(d),
         \A k \in Conn : QuietMessages(k)
  PROVE  TcpInv'
BY Bystander, Names DEF TcpInv

LEMMA EffectOnOthers ==
  ASSUME NEW k \in Conn, NEW i, NEW o, Effect(k, i, o)
  PROVE  /\ conn' \in [Conn -> Connection]
         /\ \A l \in Conn \ {k} : QuietMessages(l)
         /\ i \in {conn[k].in, <<>>} /\ o \in {conn[k].out, <<>>} =>
              \A l \in Conn : QuietMessages(l)
BY DEF Effect, QuietMessages

(* A main thread that goes elsewhere.                                      *)
LEMMA GoesFacts ==
  ASSUME TypeOK, NEW c \in Client, NEW from, NEW to \in ClientPlace, Goes(c, from, to)
  PROVE  /\ cl' \in [Client -> ClientState]
         /\ cl[c].pc = from /\ cl'[c].pc = to /\ cl'[c].done = cl[c].done
         /\ \A d \in Client \ {c} : cl'[d] = cl[d]
BY DEF TypeOK, ClientState, Goes

-----------------------------------------------------------------------------
(* The main thread of a client stops, or is stopped.                       *)
LEMMA ClientLeaves ==
  ASSUME TcpInv, NEW c \in Client, NEW from \in ClientPlace,
         NEW to \in {"stop", "join", "ended", "dead"}, Goes(c, from, to),
         conn' \in [Conn -> Connection], \A k \in Conn : QuietMessages(k),
         beat' \in [Client -> HeartbeatState],
         \A d \in Client : beat'[d].pc = beat[d].pc /\ beat'[d].n = beat[d].n,
         UNCHANGED <<backlog, server>>
  PROVE  TcpInv'
<1>1. to \in ClientPlace /\ TypeOK
  BY DEF ClientPlace, TcpInv
<1>2. /\ cl' \in [Client -> ClientState]
      /\ cl'[c].pc = to /\ cl'[c].done = cl[c].done
      /\ \A d \in Client \ {c} : cl'[d] = cl[d]
  BY <1>1, GoesFacts
<1>3. TypeOK' /\ AcceptorInv'
  BY <1>1, <1>2 DEF TypeOK, TcpInv, AcceptorInv, server
<1>4. \A d \in Client : Quiet(d) /\ QuietAcceptor(d)
  BY <1>2 DEF Quiet, QuietAcceptor, server, HeldBySession
<1> QED BY <1>3, <1>4, AllQuiet

LEMMA StopClientStep ==
  ASSUME TcpInv, NEW c \in Client, StopClient(c)
  PROVE  TcpInv'
<1>1. TypeOK
  BY DEF TcpInv
<1>2. CASE /\ Goes(c, "stop", "join")
           /\ Does(Main(c), ClientCloses(conn[Main(c)]))
           /\ beat' = [beat EXCEPT ![c].stopped = TRUE]
           /\ UNCHANGED <<backlog, server>>
  <2>1. Effect(Main(c), conn[Main(c)].in, <<>>)
    BY <1>1, <1>2, Names, ConnectionFacts, ClosesFacts, DoesFacts
  <2>2. conn' \in [Conn -> Connection] /\ \A k \in Conn : QuietMessages(k)
    BY <2>1, Names, EffectOnOthers
  <2>3. /\ beat' \in [Client -> HeartbeatState]
        /\ \A d \in Client : beat'[d].pc = beat[d].pc /\ beat'[d].n = beat[d].n
    BY <1>1, <1>2 DEF TypeOK, HeartbeatState
  <2> QED BY <1>2, <2>2, <2>3, ClientLeaves DEF ClientPlace
<1>3. CASE /\ Goes(c, "join", "ended")
           /\ UNCHANGED <<conn, beat, backlog, server>>
  BY <1>1, <1>3, ClientLeaves DEF TypeOK, QuietMessages, ClientPlace
<1> QED BY <1>2, <1>3 DEF StopClient

LEMMA InterruptStep ==
  ASSUME TcpInv, NEW c \in Client, Interrupt(c)
  PROVE  TcpInv'
BY ClientLeaves DEF TcpInv, TypeOK, Interrupt, QuietMessages, ClientPlace

LEMMA KillStep ==
  ASSUME TcpInv, NEW c \in Client, Kill(c)
  PROVE  TcpInv'
<1>1. TypeOK
  BY DEF TcpInv
<1>2. /\ cl' \in [Client -> ClientState] /\ beat' \in [Client -> HeartbeatState]
      /\ cl'[c].pc = "dead" /\ cl'[c].done = cl[c].done
      /\ beat'[c].pc = "ended" /\ beat'[c].n = beat[c].n
      /\ \A d \in Client \ {c} : cl'[d] = cl[d] /\ beat'[d] = beat[d]
  BY <1>1 DEF Kill, TypeOK, ClientState, ClientPlace, HeartbeatState, BeatPlace
<1>3. conn' \in [Conn -> Connection] /\ \A k \in Conn : QuietMessages(k)
  BY <1>1, ConnectionFacts, ClosesFacts DEF Kill, QuietMessages
<1>4. TypeOK' /\ AcceptorInv'
  BY <1>1, <1>2, <1>3 DEF Kill, TypeOK, TcpInv, AcceptorInv, server
<1>5. \A d \in Client : Quiet(d) /\ QuietAcceptor(d)
  BY <1>2 DEF Kill, Quiet, QuietAcceptor, server, HeldBySession
<1> QED BY <1>3, <1>4, <1>5, AllQuiet

-----------------------------------------------------------------------------
(* Steps of a client and its heartbeat by which the conversation goes on.  *)
LEMMA OthersKeep ==
  ASSUME TcpInv, TypeOK', NEW c \in Client, UNCHANGED server,
         \A d \in Client \ {c} : cl'[d] = cl[d] /\ beat'[d] = beat[d],
         \A l \in Conn \ {Main(c), Beat(c)} : QuietMessages(l),
         ClientInv(c)'
  PROVE  TcpInv'
<1>1. AcceptorInv'
  BY DEF TcpInv, AcceptorInv, server
<1>2. ASSUME NEW d \in Client \ {c} PROVE ClientInv(d)'
  <2>1. Quiet(d) /\ QuietAcceptor(d)
    BY DEF Quiet, QuietAcceptor, server, HeldBySession
  <2>2. QuietMessages(Main(d)) /\ QuietMessages(Beat(d))
    BY Names
  <2> QED BY <2>1, <2>2, Bystander
<1> QED BY <1>1, <1>2 DEF TcpInv

LEMMA ConnectStep ==
  ASSUME TcpInv, NEW c \in Client, Goes(c, "connect", "sign"), Connect(Main(c)),
         UNCHANGED <<beat, server>>
  PROVE  TcpInv'
<1>1. TypeOK /\ ClientInv(c) /\ Main(c) \in Conn /\ Main(c) # Beat(c)
  BY Names DEF TcpInv
<1>2. Effect(Main(c), <<>>, <<>>) /\ backlog' \in Seq(Conn)
  BY <1>1, ConnectFacts
<1>3. /\ cl' \in [Client -> ClientState]
      /\ cl[c].pc = "connect" /\ cl'[c].pc = "sign" /\ cl'[c].done = cl[c].done
      /\ \A d \in Client \ {c} : cl'[d] = cl[d]
  BY <1>1, GoesFacts DEF ClientPlace
<1>4. TypeOK'
  BY <1>1, <1>2, <1>3 DEF TypeOK, Effect, server
<1>5. conn'[Beat(c)] = conn[Beat(c)] /\ conn'[Main(c)].in = <<>> /\ conn'[Main(c)].out = <<>>
  BY <1>1, <1>2, Names DEF Effect
<1>6. TokenOf(c)'
  BY <1>1, <1>3, <1>5
     DEF ClientInv, TokenOf, Alone, Free, HeldByAcceptor, HeldBySession, server
<1>7. NumberOf(c)'
  BY <1>1, <1>3, <1>5, EmptySeq DEF ClientInv, NumberOf, HeldBySession, BeingMade, server
<1>8. BoundOf(c)'
  BY <1>1, <1>3 DEF ClientInv, BoundOf, server
<1>9. \A l \in Conn \ {Main(c), Beat(c)} : QuietMessages(l)
  BY <1>1, <1>2, EffectOnOthers
<1> QED BY <1>3, <1>4, <1>6, <1>7, <1>8, <1>9, OthersKeep DEF ClientInv

(* A client that may speak says m.                                         *)
LEMMA SpeakStep ==
  ASSUME TcpInv, NEW c \in Client, NEW to \in {"status", "recv"}, NEW m \in Message,
         \/ /\ Goes(c, "sign", to) /\ to = "status"
            /\ m.kind = "authenticate"
         \/ /\ Goes(c, "send", to) /\ to = "recv"
            /\ m.kind = "request" /\ m.n = cl[c].done + 1,
         ToServer(Main(c), m), UNCHANGED <<backlog, beat, server>>
  PROVE  TcpInv'
<1>1. TypeOK /\ ClientInv(c) /\ Main(c) \in Conn /\ Main(c) # Beat(c)
  BY Names DEF TcpInv
<1>2. /\ conn[Main(c)].in = <<>> /\ conn[Main(c)].out = <<>>
      /\ ~HeldByAcceptor(Main(c)) /\ ~HeldBySession(c)
  BY <1>1 DEF ClientInv, TokenOf, Free, Goes
<1>3. /\ conn' \in [Conn -> Connection]
      /\ conn'[Main(c)].out = <<>>
      /\ conn'[Main(c)].in = <<>> \/ conn'[Main(c)].in = <<m>>
      /\ conn'[Beat(c)] = conn[Beat(c)]
      /\ \A l \in Conn \ {Main(c), Beat(c)} : QuietMessages(l)
  <2>1. Effect(Main(c), <<>>, <<>>) \/ Effect(Main(c), Append(<<>>, m), <<>>)
    BY <1>1, <1>2, ToServerFacts
  <2>2. Append(<<>>, m) = <<m>>
    OBVIOUS
  <2> QED BY <1>1, <2>1, <2>2, Names, EffectOnOthers DEF Effect
<1>4. /\ cl' \in [Client -> ClientState]
      /\ cl[c].pc \in {"sign", "send"} /\ cl'[c].pc = to /\ cl'[c].done = cl[c].done
      /\ \A d \in Client \ {c} : cl'[d] = cl[d]
  BY <1>1, GoesFacts DEF ClientPlace
<1>5. TypeOK'
  BY <1>1, <1>3, <1>4 DEF TypeOK, server
<1>6. TokenOf(c)'
  <2>1. Len(<<m>>) = 1
    OBVIOUS
  <2> QED BY <1>1, <1>2, <1>3, <1>4, <2>1
          DEF ClientInv, TokenOf, Alone, Free, HeldByAcceptor, HeldBySession, server
<1>7. NumberOf(c)'
  <2>1. FromClient(c, m)'
    BY <1>1, <1>4 DEF Goes, ClientInv, NumberOf, FromClient, BeingMade, server
  <2>2. Len(<<m>>) = 1 /\ <<m>>[1] = m /\ Len(<<>>) = 0
    OBVIOUS
  <2>3. (\A j \in 1 .. Len(conn[Main(c)].in) : FromClient(c, conn[Main(c)].in[j]))'
    BY <1>3, <2>1, <2>2 DEF FromClient
  <2> QED BY <1>1, <1>2, <1>3, <1>4, <2>2, <2>3
          DEF ClientInv, NumberOf, HeldBySession, BeingMade, server
<1>8. BoundOf(c)'
  BY <1>1, <1>4 DEF ClientInv, BoundOf, server, Goes
<1> QED BY <1>3, <1>4, <1>5, <1>6, <1>7, <1>8, OthersKeep DEF ClientInv

(* Who reads the only message leaves nothing.                              *)
LEMMA LastMessage ==
  ASSUME NEW s \in Seq(Message), Len(s) = 1
  PROVE  s # <<>> /\ Tail(s) = <<>> /\ Head(s) = s[1] /\ Head(s) \in Message
<1>1. s # <<>>
  BY EmptySeq
<1>2. Tail(s) \in Seq(Message) /\ Len(Tail(s)) = 0 /\ Head(s) = s[1] /\ Head(s) \in Message
  BY <1>1, TailFacts
<1> QED BY <1>1, <1>2, EmptySeq

LEMMA HearStep ==
  ASSUME TcpInv, NEW c \in Client, AnswerIn(Main(c)), ReadAnswer(Main(c)),
         UNCHANGED <<backlog, server>>,
         cl' \in [Client -> ClientState], beat' \in [Client -> HeartbeatState],
         \A d \in Client \ {c} : cl'[d] = cl[d] /\ beat'[d] = beat[d],
         cl'[c].pc \notin {"connect", "sign"},
         beat'[c].pc \in {"write", "send", "period"} => Free(Beat(c), FALSE),
         beat'[c].pc = "off" => beat[c].pc = "off",
         BoundOf(c)'
  PROVE  TcpInv'
<1>1. TypeOK /\ ClientInv(c) /\ Main(c) \in Conn /\ Main(c) # Beat(c)
  BY Names DEF TcpInv
<1>2. /\ conn[Main(c)].in = <<>> /\ Len(conn[Main(c)].out) = 1
      /\ ~HeldByAcceptor(Main(c)) /\ ~HeldBySession(c)
  BY <1>1 DEF ClientInv, TokenOf, Alone, AnswerIn
<1>3. /\ conn' \in [Conn -> Connection]
      /\ conn'[Main(c)].in = <<>> /\ conn'[Main(c)].out = <<>>
      /\ conn'[Beat(c)] = conn[Beat(c)]
      /\ \A l \in Conn \ {Main(c), Beat(c)} : QuietMessages(l)
  <2>1. Tail(conn[Main(c)].out) = <<>>
    BY <1>1, <1>2, ConnectionFacts, LastMessage
  <2>2. Effect(Main(c), <<>>, <<>>)
    BY <1>1, <1>2, <2>1, ReadFacts
  <2> QED BY <1>1, <2>2, Names, EffectOnOthers DEF Effect
<1>4. TypeOK'
  BY <1>1, <1>3 DEF TypeOK, server
<1>5. TokenOf(c)'
  BY <1>1, <1>2, <1>3 DEF ClientInv, TokenOf, Alone, Free, HeldByAcceptor, HeldBySession, server
<1>6. NumberOf(c)'
  BY <1>1, <1>2, <1>3, EmptySeq DEF ClientInv, NumberOf, HeldBySession, server
<1> QED BY <1>3, <1>4, <1>5, <1>6, OthersKeep DEF ClientInv

LEMMA ReceiveStatusStep ==
  ASSUME TcpInv, NEW c \in Client, ReceiveStatus(c), UNCHANGED server
  PROVE  TcpInv'
<1>1. TypeOK /\ ClientInv(c)
  BY DEF TcpInv
<1>2. CASE /\ AnswerIn(Main(c)) /\ ReadAnswer(Main(c))
           /\ Goes(c, "status", "send")
           /\ beat' = StartHeartbeat(c)
           /\ UNCHANGED <<backlog, server>>
  <2>1. /\ cl' \in [Client -> ClientState]
        /\ cl[c].pc = "status" /\ cl'[c].pc = "send" /\ cl'[c].done = cl[c].done
        /\ \A d \in Client \ {c} : cl'[d] = cl[d]
    BY <1>1, <1>2, GoesFacts DEF ClientPlace
  <2>2. /\ beat' \in [Client -> HeartbeatState]
        /\ beat'[c].pc \in {"write", "off"} /\ beat'[c].n = beat[c].n
        /\ \A d \in Client \ {c} : beat'[d] = beat[d]
    BY <1>1, <1>2 DEF StartHeartbeat, TypeOK, HeartbeatState, BeatPlace
  <2>3. beat[c].pc = "off" /\ Free(Beat(c), FALSE)
    BY <1>1, <2>1 DEF ClientInv, BoundOf, TokenOf
  <2>4. BoundOf(c)'
    BY <1>1, <1>2, <2>1, <2>2, <2>3 DEF ClientInv, BoundOf, server
  <2> QED BY <1>2, <2>1, <2>2, <2>3, <2>4, HearStep
<1>3. CASE Goes(c, "status", "stop") /\ UNCHANGED <<conn, beat, backlog, server>>
  BY <1>1, <1>3, ClientLeaves DEF TypeOK, QuietMessages, ClientPlace
<1> QED BY <1>2, <1>3 DEF ReceiveStatus

LEMMA StartStep ==
  ASSUME TcpInv, NEW c \in Client, Start(c)
  PROVE  TcpInv'
<1>1. TypeOK
  BY DEF TcpInv
<1>2. CASE Goes(c, "connect", "sign") /\ Connect(Main(c)) /\ UNCHANGED <<beat, server>>
  BY <1>2, ConnectStep
<1>3. CASE Goes(c, "connect", "stop") /\ UNCHANGED <<conn, backlog, beat, server>>
  BY <1>1, <1>3, ClientLeaves DEF TypeOK, QuietMessages, ClientPlace
<1>4. CASE /\ Goes(c, "sign", "status")
           /\ ToServer(Main(c), Says("authenticate", 0))
           /\ UNCHANGED <<backlog, beat, server>>
  BY <1>4, MessageFacts, SpeakStep
<1>5. CASE ReceiveStatus(c) /\ UNCHANGED server
  BY <1>5, ReceiveStatusStep
<1> QED BY <1>2, <1>3, <1>4, <1>5 DEF Start

LEMMA SendStep ==
  ASSUME TcpInv, NEW c \in Client, Send(c)
  PROVE  TcpInv'
<1>1. TypeOK /\ BoundOf(c)
  BY DEF TcpInv, ClientInv
<1>2. cl[c].pc = "send" /\ cl[c].done \in 0 .. MaxRequests
  BY <1>1 DEF Send, Goes, TypeOK, ClientState
<1>3. cl[c].done + 1 \in 0 .. MaxRequests
  BY <1>1, <1>2, UseFacts DEF BoundOf
<1> QED BY <1>3, MessageFacts, SpeakStep DEF Send, AfterSend

LEMMA ReceiveStep ==
  ASSUME TcpInv, NEW c \in Client, Receive(c)
  PROVE  TcpInv'
<1>1. TypeOK /\ ClientInv(c)
  BY DEF TcpInv
<1>2. CASE AnswerIn(Main(c))
  <2>1. /\ ReadAnswer(Main(c)) /\ cl[c].pc = "recv"
        /\ \E status \in HeartbeatStatus(c) :
             cl' = [cl EXCEPT ![c].done = IF c \in use.endless THEN @ ELSE @ + 1,
                              ![c].pc = IF Last(c) \/ DisplayStatus(status)
                                        THEN "stop" ELSE "send"]
    BY <1>2 DEF Receive, AnswerIn, ClosedByServer
  <2>2. IF c \in use.endless THEN cl[c].done = 0 ELSE cl[c].done < use.requests
    BY <1>1, <2>1 DEF ClientInv, BoundOf
  <2>3. /\ cl[c].done \in 0 .. MaxRequests
        /\ cl'[c].done = IF c \in use.endless THEN cl[c].done ELSE cl[c].done + 1
        /\ cl'[c].pc \in {"stop", "send"} /\ (cl'[c].pc = "send" => ~Last(c))
        /\ cl' = [cl EXCEPT ![c].done = cl'[c].done, ![c].pc = cl'[c].pc]
        /\ \A d \in Client \ {c} : cl'[d] = cl[d]
    BY <1>1, <2>1 DEF TypeOK, ClientState
  <2>4. cl' \in [Client -> ClientState]
    BY <1>1, <2>1, <2>2, <2>3, UseFacts DEF TypeOK, ClientState, ClientPlace
  <2>5. UNCHANGED <<backlog, beat, server>>
    BY DEF Receive
  <2>6. BoundOf(c)'
    <3>1. cl'[c].pc = "send" =>
            IF c \in use.endless THEN cl'[c].done = 0 ELSE cl'[c].done < use.requests
      BY <1>1, <2>2, <2>3, UseFacts DEF Last
    <3>2. beat[c].pc \in {"off", "write", "send", "wait"} => beat[c].n < use.beats
      BY <1>1 DEF ClientInv, BoundOf
    <3> QED BY <2>3, <2>5, <3>1, <3>2 DEF BoundOf, server
  <2>7. beat \in [Client -> HeartbeatState]
    BY <1>1 DEF TypeOK
  <2>8. beat[c].pc \in {"write", "send", "period"} => Free(Beat(c), FALSE)
    BY <1>1 DEF ClientInv, TokenOf
  <2> QED BY <1>2, <2>1, <2>3, <2>4, <2>5, <2>6, <2>7, <2>8, HearStep
<1>3. CASE Goes(c, "recv", "stop") /\ UNCHANGED <<conn, backlog, beat, server>>
  BY <1>1, <1>3, ClientLeaves DEF TypeOK, QuietMessages, ClientPlace
<1> QED BY <1>2, <1>3 DEF Receive

-----------------------------------------------------------------------------
(* The heartbeat.                                                          *)
LEMMA BeatGoesFacts ==
  ASSUME TypeOK, NEW c \in Client, NEW from, NEW to \in BeatPlace, BeatGoes(c, from, to)
  PROVE  /\ beat' \in [Client -> HeartbeatState]
         /\ beat[c].pc = from /\ beat'[c].pc = to /\ beat'[c].n = beat[c].n
         /\ \A d \in Client \ {c} : beat'[d] = beat[d]
BY DEF TypeOK, HeartbeatState, BeatGoes

LEMMA BeatEnds ==
  ASSUME TcpInv, NEW c \in Client, beat' \in [Client -> HeartbeatState],
         beat[c].pc # "off", beat'[c].pc = "ended", beat'[c].n = beat[c].n,
         \A d \in Client \ {c} : beat'[d] = beat[d],
         conn' \in [Conn -> Connection], \A k \in Conn : QuietMessages(k),
         UNCHANGED <<backlog, cl, server>>
  PROVE  TcpInv'
<1>1. TypeOK' /\ AcceptorInv'
  BY DEF TypeOK, TcpInv, AcceptorInv, server
<1>2. \A d \in Client : Quiet(d) /\ QuietAcceptor(d)
  BY DEF Quiet, QuietAcceptor, server, HeldBySession
<1> QED BY <1>1, <1>2, AllQuiet

LEMMA InterruptBeatStep ==
  ASSUME TcpInv, NEW c \in Client, InterruptBeat(c)
  PROVE  TcpInv'
<1>1. TypeOK /\ Beat(c) \in Conn
  BY Names DEF TcpInv
<1>2. Effect(Beat(c), conn[Beat(c)].in, <<>>)
  BY <1>1, ConnectionFacts, ClosesFacts, DoesFacts DEF InterruptBeat
<1>3. conn' \in [Conn -> Connection] /\ \A k \in Conn : QuietMessages(k)
  BY <1>1, <1>2, EffectOnOthers
<1>4. /\ beat' \in [Client -> HeartbeatState]
      /\ beat[c].pc # "off" /\ beat'[c].pc = "ended" /\ beat'[c].n = beat[c].n
      /\ \A d \in Client \ {c} : beat'[d] = beat[d]
  BY <1>1, BeatGoesFacts DEF InterruptBeat, BeatPlace
<1> QED BY <1>3, <1>4, BeatEnds DEF InterruptBeat

(* A step of the heartbeat: what it leaves in its connection is a beat,    *)
(* and only if the heartbeat then waits.                                   *)
LEMMA BeatMoves ==
  ASSUME TcpInv, NEW c \in Client,
         conn' \in [Conn -> Connection], backlog' \in Seq(Conn),
         conn'[Beat(c)].out = <<>>,
         \/ conn'[Beat(c)].in = <<>>
         \/ /\ beat'[c].pc = "wait" /\ Len(conn'[Beat(c)].in) = 1
            /\ conn'[Beat(c)].in[1].kind = "heartbeat",
         \A l \in Conn \ {Beat(c)} : conn'[l] = conn[l],
         beat' \in [Client -> HeartbeatState],
         beat[c].pc # "off", beat'[c].pc # "off",
         beat'[c].pc \in {"write", "send", "wait"} => beat'[c].n < use.beats,
         \A d \in Client \ {c} : beat'[d] = beat[d],
         ~HeldByAcceptor(Beat(c)), UNCHANGED <<cl, server>>
  PROVE  TcpInv'
<1>1. TypeOK /\ ClientInv(c) /\ Main(c) \in Conn /\ Main(c) # Beat(c)
  BY Names DEF TcpInv
<1>2. TypeOK'
  BY <1>1 DEF TypeOK, server
<1>3. conn'[Main(c)] = conn[Main(c)]
  BY <1>1
<1>4. TokenOf(c)'
  BY <1>1, <1>3 DEF ClientInv, TokenOf, Alone, Free, HeldByAcceptor, HeldBySession, server
<1>5. NumberOf(c)'
  <2>1. \A j \in 1 .. Len(conn'[Beat(c)].in) : conn'[Beat(c)].in[j].kind = "heartbeat"
    BY EmptySeq
  <2> QED BY <1>1, <1>3, <2>1
          DEF ClientInv, NumberOf, FromClient, HeldBySession, BeingMade, server
<1>6. BoundOf(c)'
  BY <1>1 DEF ClientInv, BoundOf, server
<1>7. \A l \in Conn \ {Main(c), Beat(c)} : QuietMessages(l)
  BY DEF QuietMessages
<1> QED BY <1>2, <1>4, <1>5, <1>6, <1>7, OthersKeep DEF ClientInv

LEMMA WriteBeatStep ==
  ASSUME TcpInv, NEW c \in Client, WriteBeat(c)
  PROVE  TcpInv'
<1>1. TypeOK /\ ClientInv(c) /\ Beat(c) \in Conn
  BY Names DEF TcpInv
<1>2. CASE BeatGoes(c, "write", "send") /\ Connect(Beat(c)) /\ UNCHANGED <<cl, server>>
  <2>1. Effect(Beat(c), <<>>, <<>>) /\ backlog' \in Seq(Conn)
    BY <1>1, <1>2, ConnectFacts
  <2>2. /\ beat' \in [Client -> HeartbeatState]
        /\ beat[c].pc = "write" /\ beat'[c].pc = "send" /\ beat'[c].n = beat[c].n
        /\ \A d \in Client \ {c} : beat'[d] = beat[d]
    BY <1>1, <1>2, BeatGoesFacts DEF BeatPlace
  <2>3. beat[c].n < use.beats /\ ~HeldByAcceptor(Beat(c))
    BY <1>1, <2>2 DEF ClientInv, BoundOf, TokenOf, Free
  <2> QED BY <1>2, <2>1, <2>2, <2>3, BeatMoves DEF Effect
<1>3. CASE BeatGoes(c, "write", "ended") /\ UNCHANGED <<conn, backlog, cl, server>>
  BY <1>1, <1>3, BeatGoesFacts, BeatEnds DEF BeatPlace, TypeOK, QuietMessages
<1>4. CASE /\ BeatGoes(c, "send", "wait")
           /\ ToServer(Beat(c), Says("heartbeat", 0))
           /\ UNCHANGED <<backlog, cl, server>>
  <2> DEFINE m == Says("heartbeat", 0)
  <2>1. /\ beat' \in [Client -> HeartbeatState]
        /\ beat[c].pc = "send" /\ beat'[c].pc = "wait" /\ beat'[c].n = beat[c].n
        /\ \A d \in Client \ {c} : beat'[d] = beat[d]
    BY <1>1, <1>4, BeatGoesFacts DEF BeatPlace
  <2>2. beat[c].n < use.beats /\ Free(Beat(c), FALSE)
    BY <1>1, <2>1 DEF ClientInv, BoundOf, TokenOf
  <2>3. m \in Message /\ m.kind = "heartbeat"
    BY MessageFacts
  <2> HIDE DEF m
  <2>4. Effect(Beat(c), <<>>, <<>>) \/ Effect(Beat(c), Append(<<>>, m), <<>>)
    BY <1>1, <1>4, <2>2, <2>3, ToServerFacts DEF Free, m
  <2>5. Len(Append(<<>>, m)) = 1 /\ Append(<<>>, m)[1] = m
    OBVIOUS
  <2>6. backlog' \in Seq(Conn) /\ ~HeldByAcceptor(Beat(c))
    BY <1>1, <1>4, <2>2 DEF TypeOK, Free
  <2>7. CASE Effect(Beat(c), <<>>, <<>>)
    BY <1>4, <2>1, <2>2, <2>6, <2>7, BeatMoves DEF Effect
  <2>8. CASE Effect(Beat(c), Append(<<>>, m), <<>>)
    BY <1>4, <2>1, <2>2, <2>3, <2>5, <2>6, <2>8, BeatMoves DEF Effect
  <2> QED BY <2>4, <2>7, <2>8
<1> QED BY <1>2, <1>3, <1>4 DEF WriteBeat

LEMMA ReadBeatStep ==
  ASSUME TcpInv, NEW c \in Client, ReadBeat(c)
  PROVE  TcpInv'
<1>1. TypeOK /\ ClientInv(c) /\ Beat(c) \in Conn /\ beat[c].pc = "wait"
  BY Names DEF TcpInv, ReadBeat
<1>2. /\ beat[c].n < use.beats /\ beat[c].n + 1 \in 0 .. MaxBeats
  <2>1. beat[c].n \in 0 .. MaxBeats
    BY <1>1 DEF TypeOK, HeartbeatState
  <2> QED BY <1>1, <2>1, UseFacts DEF ClientInv, BoundOf
<1>3. CASE AnswerIn(Beat(c))
  <2>1. ReadAnswer(Beat(c)) /\ UNCHANGED <<backlog, cl, server>>
    BY <1>3 DEF ReadBeat, AnswerIn, ClosedByServer
  <2>2. /\ conn[Beat(c)].in = <<>> /\ Len(conn[Beat(c)].out) = 1
        /\ ~HeldByAcceptor(Beat(c))
    BY <1>1, <1>3 DEF ClientInv, TokenOf, Alone, AnswerIn
  <2>3. Tail(conn[Beat(c)].out) = <<>>
    BY <1>1, <2>2, ConnectionFacts, LastMessage
  <2>4. Effect(Beat(c), <<>>, <<>>)
    BY <1>1, <1>3, <2>1, <2>2, <2>3, ReadFacts
  <2>5. CASE BeatGoes(c, "wait", "ended")
    <3>1. /\ beat' \in [Client -> HeartbeatState]
          /\ beat'[c].pc = "ended" /\ beat'[c].n = beat[c].n
          /\ \A d \in Client \ {c} : beat'[d] = beat[d]
      BY <1>1, <2>5, BeatGoesFacts DEF BeatPlace
    <3> QED BY <1>1, <2>1, <2>2, <2>4, <3>1, BeatMoves DEF TypeOK, Effect
  <2>6. CASE \E late \in TimedOut(c) :
               beat' = [beat EXCEPT ![c].pc = IF IsOk(beat[c].status) THEN "period" ELSE "ended",
                                    ![c].n = @ + 1,
                                    ![c].status = IF late THEN "HEARTBEAT_TIMEOUT" ELSE @]
    <3>1. PICK late \in TimedOut(c) :
               beat' = [beat EXCEPT ![c].pc = IF IsOk(beat[c].status) THEN "period" ELSE "ended",
                                    ![c].n = @ + 1,
                                    ![c].status = IF late THEN "HEARTBEAT_TIMEOUT" ELSE @]
      BY <2>6
    <3>2. /\ beat' \in [Client -> HeartbeatState]
          /\ beat'[c].pc \in {"period", "ended"}
          /\ \A d \in Client \ {c} : beat'[d] = beat[d]
      BY <1>1, <1>2, <3>1 DEF TypeOK, HeartbeatState, BeatPlace
    <3> QED BY <1>1, <2>1, <2>2, <2>4, <3>2, BeatMoves DEF TypeOK, Effect, BeatPlace
  <2> QED BY <1>3, <2>5, <2>6 DEF ReadBeat, AnswerIn, ClosedByServer
<1>4. CASE ~AnswerIn(Beat(c))
  <2>1. /\ beat' = [beat EXCEPT ![c].pc = "ended",
                                ![c].status = IF beat[c].stopped THEN @ ELSE "HEARTBEAT_PROBLEM"]
        /\ UNCHANGED <<conn, backlog, cl, server>>
    BY <1>4 DEF ReadBeat
  <2>2. /\ beat' \in [Client -> HeartbeatState]
        /\ beat'[c].pc = "ended" /\ beat'[c].n = beat[c].n
        /\ \A d \in Client \ {c} : beat'[d] = beat[d]
    BY <1>1, <2>1, ZenonT(60) DEF TypeOK, HeartbeatState, BeatPlace
  <2>3. conn' \in [Conn -> Connection] /\ \A k \in Conn : QuietMessages(k)
    BY <1>1, <2>1 DEF TypeOK, QuietMessages
  <2> QED BY <1>1, <2>1, <2>2, <2>3, BeatEnds
<1> QED BY <1>3, <1>4

LEMMA NextBeatStep ==
  ASSUME TcpInv, NEW c \in Client, NextBeat(c)
  PROVE  TcpInv'
<1>1. TypeOK /\ ClientInv(c) /\ Beat(c) \in Conn
  BY Names DEF TcpInv
<1>2. CASE /\ beat[c].n < use.beats
           /\ BeatGoes(c, "period", "write")
           /\ UNCHANGED <<conn, backlog, cl, server>>
  <2>1. /\ beat' \in [Client -> HeartbeatState]
        /\ beat[c].pc = "period" /\ beat'[c].pc = "write" /\ beat'[c].n = beat[c].n
        /\ \A d \in Client \ {c} : beat'[d] = beat[d]
    BY <1>1, <1>2, BeatGoesFacts DEF BeatPlace
  <2>2. Free(Beat(c), FALSE)
    BY <1>1, <2>1 DEF ClientInv, TokenOf
  <2> QED BY <1>1, <1>2, <2>1, <2>2, BeatMoves DEF TypeOK, Free
<1>3. CASE BeatGoes(c, "period", "ended") /\ UNCHANGED <<conn, backlog, cl, server>>
  BY <1>1, <1>3, BeatGoesFacts, BeatEnds DEF BeatPlace, TypeOK, QuietMessages
<1> QED BY <1>2, <1>3 DEF NextBeat

-----------------------------------------------------------------------------
(* The acceptor, with the connection k of client c in its hands.           *)
LEMMA AcceptorGoesFacts ==
  ASSUME TypeOK, NEW from, NEW to \in AcceptorPlace, AcceptorGoes(from, to)
  PROVE  /\ acc' \in AcceptorState
         /\ acc.pc = from /\ acc'.pc = to
         /\ to \notin {"accept", "ended"} => acc'.now = acc.now
BY DEF TypeOK, AcceptorState, AcceptorGoes

LEMMA AcceptorOnOthers ==
  ASSUME TcpInv, TypeOK', AcceptorInv', UNCHANGED <<use, cl, beat>>,
         NEW c \in Client, NEW k \in {Main(c), Beat(c)},
         \A l \in Conn \ {k} : QuietMessages(l),
         acc'.pc \in {"accept", "ended"} \/ acc'.now = k,
         \A d \in Client \ {c} : ses'[d] = ses[d],
         ClientInv(c)'
  PROVE  TcpInv'
<1>1. ASSUME NEW d \in Client \ {c} PROVE ClientInv(d)'
  <2>1. QuietAcceptor(d)
    BY Names DEF QuietAcceptor
  <2>2. Quiet(d)
    BY DEF Quiet, HeldBySession
  <2>3. QuietMessages(Main(d)) /\ QuietMessages(Beat(d))
    BY Names
  <2> QED BY <2>1, <2>2, <2>3, Bystander
<1> QED BY <1>1 DEF TcpInv

(* The message it has read was all there was.                              *)
LEMMA TakesMessage ==
  ASSUME TcpInv, NEW c \in Client, NEW k \in {Main(c), Beat(c)},
         acc.pc = "read", acc.now = k, RequestIn(k), ReadRequestFrom(k),
         AcceptorGoes("read", IF Head(conn[k].in).kind = "authenticate"
                              THEN "create" ELSE "reply"),
         UNCHANGED <<use, backlog, client, ses, lock, srv>>
  PROVE  TcpInv'
<1> DEFINE to == IF Head(conn[k].in).kind = "authenticate" THEN "create" ELSE "reply"
<1>1. TypeOK /\ ClientInv(c) /\ k \in Conn /\ Main(c) # Beat(c)
  BY Names DEF TcpInv
<1>2. /\ acc' \in AcceptorState /\ acc'.now = k
      /\ acc'.pc = to /\ acc'.pc \in {"create", "reply"}
  BY <1>1, AcceptorGoesFacts DEF AcceptorPlace
<1>3. Len(conn[k].in) = 1 /\ conn[k].out = <<>> /\ conn[k].in # <<>>
  BY <1>1 DEF RequestIn, ClientInv, TokenOf, Alone
<1>4. Tail(conn[k].in) = <<>> /\ Head(conn[k].in) = conn[k].in[1]
  BY <1>1, <1>3, ConnectionFacts, LastMessage
<1>5. Effect(k, <<>>, <<>>)
  BY <1>1, <1>3, <1>4, ReadFacts
<1>6. /\ conn' \in [Conn -> Connection] /\ conn'[k].in = <<>> /\ conn'[k].out = <<>>
      /\ \A l \in Conn \ {k} : conn'[l] = conn[l] /\ QuietMessages(l)
  BY <1>1, <1>5, EffectOnOthers DEF Effect
<1>7. TypeOK' /\ AcceptorInv'
  BY <1>1, <1>2, <1>6 DEF TypeOK, AcceptorInv, client
<1>8. BoundOf(c)'
  BY <1>1 DEF ClientInv, BoundOf, client
<1>9. CASE k = Main(c)
  <2>1. /\ conn'[Beat(c)] = conn[Beat(c)] /\ acc'.now # Beat(c)
        /\ cl[c].pc \notin {"connect", "sign", "send"} /\ ~HeldBySession(c)
    BY <1>1, <1>2, <1>3, <1>6, <1>9, Names DEF ClientInv, TokenOf, Alone, Free
  <2>2. TokenOf(c)'
    BY <1>1, <1>2, <1>6, <1>9, <2>1
       DEF ClientInv, TokenOf, Alone, Free, HeldByAcceptor, HeldBySession, client
  <2>3. NumberOf(c)'
    BY <1>1, <1>6, <1>9, <2>1, EmptySeq DEF ClientInv, NumberOf, HeldBySession, client
  <2> QED BY <1>1, <1>2, <1>6, <1>7, <1>8, <2>2, <2>3, AcceptorOnOthers DEF client, ClientInv
<1>10. CASE k = Beat(c)
  <2>1. to = "reply"
    BY <1>1, <1>3, <1>4, <1>10 DEF ClientInv, NumberOf
  <2>2. /\ conn'[Main(c)] = conn[Main(c)] /\ acc'.now # Main(c)
        /\ beat[c].pc \notin {"off", "write", "send", "period"}
    BY <1>1, <1>2, <1>3, <1>6, <1>10, Names DEF ClientInv, TokenOf, Free
  <2>3. TokenOf(c)'
    BY <1>1, <1>2, <1>6, <1>10, <2>2
       DEF ClientInv, TokenOf, Alone, Free, HeldByAcceptor, HeldBySession, client
  <2>4. NumberOf(c)'
    BY <1>1, <1>2, <1>6, <1>10, <2>1, <2>2, EmptySeq
       DEF ClientInv, NumberOf, FromClient, HeldBySession, BeingMade, client
  <2> QED BY <1>1, <1>2, <1>6, <1>7, <1>8, <2>3, <2>4, AcceptorOnOthers DEF client, ClientInv
<1> QED BY <1>9, <1>10

LEMMA AcceptStep ==
  ASSUME TcpInv, Accept
  PROVE  TcpInv'
<1>1. TypeOK /\ AcceptorInv /\ UNCHANGED <<use, client, ses, lock, srv>>
  BY DEF TcpInv, Accept
<1>2. \A d \in Client : Quiet(d)
  BY <1>1 DEF Quiet, client, HeldBySession
<1>3. CASE /\ acc' = [acc EXCEPT !.pc = "read", !.now = Head(backlog)]
           /\ backlog # <<>> /\ backlog' = Tail(backlog)
           /\ UNCHANGED conn
  <2>1. Head(backlog) \in Conn /\ backlog' \in Seq(Conn)
    BY <1>1, <1>3, HeadTailProperties DEF TypeOK
  <2>2. acc' \in AcceptorState /\ acc'.pc = "read" /\ acc'.now \in Conn
    BY <1>1, <1>3, <2>1 DEF TypeOK, AcceptorState, AcceptorPlace
  <2>3. TypeOK' /\ AcceptorInv'
    BY <1>1, <1>3, <2>1, <2>2 DEF TypeOK, AcceptorInv, client
  <2> QED BY <1>2, <1>3, <2>2, <2>3, AllQuiet DEF QuietAcceptor, QuietMessages
<1>4. CASE AcceptorGoes("accept", "ended") /\ UNCHANGED <<conn, backlog>>
  <2>1. acc' \in AcceptorState /\ acc'.pc = "ended"
    BY <1>1, <1>4, AcceptorGoesFacts DEF AcceptorPlace
  <2>2. TypeOK' /\ AcceptorInv'
    BY <1>1, <1>4, <2>1 DEF TypeOK, AcceptorInv, client
  <2> QED BY <1>2, <1>4, <2>1, <2>2, AllQuiet DEF QuietAcceptor, QuietMessages
<1>5. CASE /\ acc.pc = "read" /\ RequestIn(acc.now)
           /\ ReadRequestFrom(acc.now)
           /\ AcceptorGoes("read", IF Head(conn[acc.now].in).kind = "authenticate"
                                   THEN "create" ELSE "reply")
           /\ UNCHANGED backlog
  <2>1. acc.now \in Conn
    BY <1>1, <1>5 DEF AcceptorInv
  <2>2. acc.now[1] \in Client /\ acc.now \in {Main(acc.now[1]), Beat(acc.now[1])}
    BY <2>1, Names
  <2> QED BY <1>1, <1>5, <2>2, TakesMessage
<1>6. CASE acc.pc = "read" /\ CloseServer(acc.now) /\ AcceptorGoes("read", "ended")
           /\ UNCHANGED backlog
  <2>1. acc.now \in Conn /\ acc' \in AcceptorState /\ acc'.pc = "ended"
    BY <1>1, <1>6, AcceptorGoesFacts DEF AcceptorInv, AcceptorPlace
  <2>2. Effect(acc.now, <<>>, conn[acc.now].out)
    BY <1>1, <1>6, <2>1, ReadFacts
  <2>3. conn' \in [Conn -> Connection] /\ \A l \in Conn : QuietMessages(l)
    BY <2>1, <2>2, EffectOnOthers
  <2>4. TypeOK' /\ AcceptorInv'
    BY <1>1, <1>6, <2>1, <2>3 DEF TypeOK, AcceptorInv, client
  <2> QED BY <1>2, <2>1, <2>3, <2>4, AllQuiet DEF QuietAcceptor
<1> QED BY <1>3, <1>4, <1>5, <1>6 DEF Accept

(* It answers what it has read.                                            *)
LEMMA Answers ==
  ASSUME TcpInv, NEW c \in Client, NEW k \in {Main(c), Beat(c)}, NEW m \in Message,
         HeldByAcceptor(k), m.kind # "reply",
         conn' \in [Conn -> Connection], conn'[k].in = <<>>,
         conn'[k].out = <<>> \/ conn'[k].out = <<m>>,
         \A l \in Conn \ {k} : conn'[l] = conn[l],
         acc' \in AcceptorState, AcceptorInv',
         \/ acc'.pc = "accept"
         \/ acc'.pc = "push" /\ acc'.now = k /\ acc.pc = "create",
         lock' \in BOOLEAN, UNCHANGED <<use, backlog, client, ses, srv>>
  PROVE  TcpInv'
<1>1. TypeOK /\ ClientInv(c) /\ k \in Conn /\ Main(c) # Beat(c)
  BY Names DEF TcpInv
<1>2. TypeOK'
  BY <1>1 DEF TypeOK, client
<1>3. BoundOf(c)' /\ \A l \in Conn \ {k} : QuietMessages(l)
  BY <1>1 DEF ClientInv, BoundOf, client, QuietMessages
<1>4. conn[k].in = <<>> /\ conn[k].out = <<>>
  BY <1>1 DEF ClientInv, TokenOf, Alone
<1>5. Len(<<m>>) = 1 /\ <<m>>[1] = m /\ <<m>> # <<>> /\ Len(<<>>) = 0
  OBVIOUS
<1>6. \A l : ~HeldByAcceptor(l)'
  BY DEF HeldByAcceptor
<1>7. CASE k = Main(c)
  <2>1. /\ conn'[Beat(c)] = conn[Beat(c)] /\ acc.now # Beat(c)
        /\ cl[c].pc \notin {"connect", "sign", "send"} /\ ~HeldBySession(c)
    BY <1>1, <1>4, <1>7, Names DEF ClientInv, TokenOf, Alone, Free, HeldByAcceptor
  <2>2. TokenOf(c)'
    BY <1>1, <1>5, <1>6, <1>7, <2>1
       DEF ClientInv, TokenOf, Alone, Free, HeldBySession, client
  <2>3. acc'.now = Beat(c) => acc'.pc \notin {"create", "push"}
    BY <1>1, <1>7, <2>1
  <2>4. NumberOf(c)'
    BY <1>1, <1>5, <1>7, <2>1, <2>3 DEF ClientInv, NumberOf, HeldBySession, client
  <2> QED BY <1>1, <1>2, <1>3, <2>2, <2>4, AcceptorOnOthers DEF client, ClientInv
<1>8. CASE k = Beat(c)
  <2>1. /\ conn'[Main(c)] = conn[Main(c)] /\ acc.now # Main(c) /\ acc'.pc = "accept"
        /\ beat[c].pc \notin {"off", "write", "send", "period"}
    BY <1>1, <1>8, Names DEF ClientInv, TokenOf, NumberOf, Free, HeldByAcceptor
  <2>2. TokenOf(c)'
    BY <1>1, <1>5, <1>6, <1>8, <2>1
       DEF ClientInv, TokenOf, Alone, Free, HeldBySession, client
  <2>3. NumberOf(c)'
    BY <1>1, <1>5, <1>8, <2>1
       DEF ClientInv, NumberOf, FromClient, HeldBySession, BeingMade, client
  <2> QED BY <1>1, <1>2, <1>3, <2>1, <2>2, <2>3, AcceptorOnOthers DEF client, ClientInv
<1> QED BY <1>7, <1>8

(* An empty queue of messages to which m is added, or not.                 *)
LEMMA SentAlone ==
  ASSUME TypeOK, NEW k \in Conn, NEW m \in Message, conn[k].out = <<>>
  PROVE  Sent(k, m) \in Connection /\ Sent(k, m).in = conn[k].in
         /\ (Sent(k, m).out = <<>> \/ Sent(k, m).out = <<m>>)
<1>1. Append(<<>>, m) = <<m>>
  OBVIOUS
<1> QED BY <1>1, SentFacts

LEMMA HeldFacts ==
  ASSUME TcpInv, NEW k \in Conn, HeldByAcceptor(k)
  PROVE  /\ k[1] \in Client /\ k \in {Main(k[1]), Beat(k[1])}
         /\ conn[k].in = <<>> /\ conn[k].out = <<>>
<1>1. k[1] \in Client /\ k \in {Main(k[1]), Beat(k[1])}
  BY Names
<1>2. TokenOf(k[1])
  BY <1>1 DEF TcpInv, ClientInv
<1> QED BY <1>1, <1>2 DEF TokenOf, Alone

LEMMA ReplyHeartbeatStep ==
  ASSUME TcpInv, ReplyHeartbeat
  PROVE  TcpInv'
<1> DEFINE k == acc.now
           m == Says("heartbeat", 0)
<1>1. TypeOK /\ acc.pc = "reply" /\ k \in Conn /\ HeldByAcceptor(k)
  BY DEF TcpInv, AcceptorInv, ReplyHeartbeat, AcceptorGoes, HeldByAcceptor
<1>2. m \in Message /\ m.kind # "reply"
  BY MessageFacts
<1>3. acc' \in AcceptorState /\ acc'.pc = "accept"
  BY <1>1, AcceptorGoesFacts DEF ReplyHeartbeat, AcceptorPlace
<1> HIDE DEF m
<1>4. k[1] \in Client /\ k \in {Main(k[1]), Beat(k[1])} /\ conn[k].in = <<>> /\ conn[k].out = <<>>
  BY <1>1, HeldFacts
<1>5. Sent(k, m) \in Connection /\ (Sent(k, m).out = <<>> \/ Sent(k, m).out = <<m>>)
  BY <1>1, <1>2, <1>4, SentAlone
<1>6. /\ ServerCloses(Sent(k, m)) \in Connection
      /\ ServerCloses(Sent(k, m)).in = <<>>
      /\ ServerCloses(Sent(k, m)).out = Sent(k, m).out
  BY <1>5, ClosesFacts
<1>7. Effect(k, <<>>, Sent(k, m).out)
  BY <1>1, <1>6, DoesFacts DEF ReplyHeartbeat, m
<1>8. AcceptorInv'
  BY <1>3 DEF AcceptorInv
<1>9. lock' \in BOOLEAN /\ UNCHANGED <<use, backlog, client, ses, srv>>
  BY <1>1 DEF ReplyHeartbeat, TypeOK
<1> QED BY <1>1, <1>2, <1>3, <1>4, <1>5, <1>7, <1>8, <1>9, Answers DEF Effect

LEMMA ConstructSessionStep ==
  ASSUME TcpInv, ConstructSession, lock' \in BOOLEAN,
         UNCHANGED <<use, backlog, client, srv, ses>>
  PROVE  TcpInv'
<1> DEFINE k == acc.now
           m == Says("status", 0)
<1>1. TypeOK /\ acc.pc = "create" /\ k \in Conn /\ HeldByAcceptor(k)
  BY DEF TcpInv, AcceptorInv, ConstructSession, AcceptorGoes, HeldByAcceptor
<1>2. m \in Message /\ m.kind # "reply"
  BY MessageFacts
<1>3. acc' \in AcceptorState /\ acc'.pc = "push" /\ acc'.now = k
  BY <1>1, AcceptorGoesFacts DEF ConstructSession, AcceptorPlace
<1> HIDE DEF m
<1>4. k[1] \in Client /\ k \in {Main(k[1]), Beat(k[1])} /\ conn[k].in = <<>> /\ conn[k].out = <<>>
  BY <1>1, HeldFacts
<1>5. /\ Sent(k, m) \in Connection /\ Sent(k, m).in = <<>>
      /\ Sent(k, m).out = <<>> \/ Sent(k, m).out = <<m>>
  BY <1>1, <1>2, <1>4, SentAlone
<1>6. Effect(k, <<>>, Sent(k, m).out)
  BY <1>1, <1>5, DoesFacts DEF ConstructSession, SendStatusToClient, ToClient, m
<1>7. AcceptorInv'
  BY <1>1, <1>3 DEF AcceptorInv
<1> QED BY <1>1, <1>2, <1>3, <1>4, <1>5, <1>6, <1>7, Answers DEF Effect

LEMMA CreateSessionStep ==
  ASSUME TcpInv, CreateSession
  PROVE  TcpInv'
<1> DEFINE c == acc.now[1]
<1>1. TypeOK /\ UNCHANGED <<use, backlog, client, srv>>
  BY DEF TcpInv, CreateSession
<1>2. CASE ConstructSession /\ lock' = TRUE /\ UNCHANGED ses
  BY <1>1, <1>2, ConstructSessionStep
<1>3. ASSUME acc.pc = "push"
      PROVE  acc.now \in Conn /\ c \in Client /\ acc.now = Main(c) /\ BeingMade(c)
  <2>1. acc.now \in Conn
    BY <1>3 DEF TcpInv, AcceptorInv
  <2>2. c \in Client /\ acc.now \in {Main(c), Beat(c)}
    BY <2>1, Names
  <2>3. acc.now # Beat(c)
    BY <1>3, <2>2 DEF TcpInv, ClientInv, NumberOf
  <2> QED BY <1>3, <2>1, <2>2, <2>3 DEF BeingMade
<1>4. CASE /\ AcceptorGoes("push", "accept")
           /\ ses' = [ses EXCEPT ![c].pc = "queued"]
           /\ lock' = FALSE
           /\ UNCHANGED conn
  <2>1. acc' \in AcceptorState /\ acc'.pc = "accept" /\ acc.pc = "push"
    BY <1>1, <1>4, AcceptorGoesFacts DEF AcceptorPlace
  <2>2. PICK d \in Client : d = acc.now[1] /\ BeingMade(d) /\ ClientInv(d)
    BY <1>3, <2>1 DEF TcpInv
  <2>3. /\ ses' \in [Client -> SessionState] /\ ses'[d].pc = "queued"
        /\ \A e \in Client \ {d} : ses'[e] = ses[e]
    BY <1>1, <1>4, <2>2, ZenonT(60) DEF TypeOK, SessionState, SessionPlace
  <2>4. TypeOK' /\ AcceptorInv'
    BY <1>1, <1>4, <2>1, <2>3 DEF TypeOK, AcceptorInv, client
  <2>5. TokenOf(d)'
    BY <1>1, <1>4, <2>1, <2>2, <2>3
       DEF ClientInv, TokenOf, Alone, Free, HeldByAcceptor, HeldBySession, client
  <2>6. NumberOf(d)'
    BY <1>1, <1>4, <2>1, <2>2, <2>3
       DEF ClientInv, NumberOf, FromClient, HeldBySession, BeingMade, client
  <2>7. BoundOf(d)'
    BY <1>1, <2>2 DEF ClientInv, BoundOf, client
  <2>8. \A l \in Conn : QuietMessages(l)
    BY <1>4 DEF QuietMessages
  <2> QED BY <1>1, <2>1, <2>3, <2>4, <2>5, <2>6, <2>7, <2>8, AcceptorOnOthers
          DEF client, ClientInv
<1>5. CASE /\ acc.pc = "push" /\ AcceptorGoes("push", "ended")
           /\ CloseServer(acc.now)
           /\ lock' = FALSE
           /\ UNCHANGED ses
  <2>1. acc.now \in Conn /\ acc' \in AcceptorState /\ acc'.pc = "ended"
    BY <1>1, <1>3, <1>5, AcceptorGoesFacts DEF AcceptorPlace
  <2>2. Effect(acc.now, <<>>, conn[acc.now].out)
    BY <1>1, <1>5, <2>1, ReadFacts
  <2>3. conn' \in [Conn -> Connection] /\ \A l \in Conn : QuietMessages(l)
    BY <2>1, <2>2, EffectOnOthers
  <2>4. TypeOK' /\ AcceptorInv'
    BY <1>1, <1>5, <2>1, <2>3 DEF TypeOK, AcceptorInv, client
  <2>5. \A d \in Client : Quiet(d) /\ QuietAcceptor(d)
    BY <1>1, <1>5, <2>1 DEF Quiet, QuietAcceptor, client, HeldBySession
  <2> QED BY <2>3, <2>4, <2>5, AllQuiet
<1> QED BY <1>2, <1>4, <1>5 DEF CreateSession

-----------------------------------------------------------------------------
(* The session of client c.                                                *)
LEMMA SessionQuiet ==
  ASSUME TcpInv, NEW c \in Client, OnlySession,
         ses' \in [Client -> SessionState],
         \A d \in Client \ {c} : ses'[d] = ses[d],
         ses[c].pc # "none",
         HeldBySession(c)' => HeldBySession(c) /\ ses'[c].n = ses[c].n,
         conn' \in [Conn -> Connection], \A k \in Conn : QuietMessages(k)
  PROVE  TcpInv'
<1>1. TypeOK' /\ AcceptorInv'
  BY DEF TcpInv, TypeOK, AcceptorInv, OnlySession, client
<1>2. \A d \in Client : Quiet(d) /\ QuietAcceptor(d)
  BY DEF Quiet, QuietAcceptor, OnlySession, client, HeldBySession
<1> QED BY <1>1, <1>2, AllQuiet

LEMMA SessionGoesFacts ==
  ASSUME TypeOK, NEW c \in Client, NEW from, NEW to \in SessionPlace, SessionGoes(c, from, to)
  PROVE  /\ ses' \in [Client -> SessionState]
         /\ ses[c].pc = from /\ ses'[c].pc = to /\ ses'[c].n = ses[c].n
         /\ \A d \in Client \ {c} : ses'[d] = ses[d]
BY DEF TypeOK, SessionState, SessionGoes

LEMMA EndsStep ==
  ASSUME TcpInv, NEW c \in Client, OnlySession, Ends(c), ses[c].pc # "none"
  PROVE  TcpInv'
<1>1. TypeOK /\ Main(c) \in Conn
  BY Names DEF TcpInv
<1>2. /\ ses' \in [Client -> SessionState] /\ ses'[c].pc = "gone"
      /\ \A d \in Client \ {c} : ses'[d] = ses[d]
  BY <1>1, ZenonT(60) DEF Ends, TypeOK, SessionState, SessionPlace
<1>3. Effect(Main(c), <<>>, conn[Main(c)].out)
  BY <1>1, ReadFacts DEF Ends
<1>4. conn' \in [Conn -> Connection] /\ \A k \in Conn : QuietMessages(k)
  BY <1>1, <1>3, EffectOnOthers
<1> QED BY <1>2, <1>4, SessionQuiet DEF HeldBySession

(* A session that goes to a place, with the connections as they are.       *)
LEMMA MovesStep ==
  ASSUME TcpInv, NEW c \in Client, OnlySession, UNCHANGED conn,
         ses' \in [Client -> SessionState],
         \A d \in Client \ {c} : ses'[d] = ses[d], ses[c].pc # "none",
         HeldBySession(c)' => HeldBySession(c) /\ ses'[c].n = ses[c].n
  PROVE  TcpInv'
BY SessionQuiet DEF TcpInv, TypeOK, QuietMessages

LEMMA SessionOnOthers ==
  ASSUME TcpInv, TypeOK', AcceptorInv', NEW c \in Client, OnlySession,
         \A d \in Client \ {c} : ses'[d] = ses[d],
         \A l \in Conn \ {Main(c)} : QuietMessages(l),
         ClientInv(c)'
  PROVE  TcpInv'
<1>1. ASSUME NEW d \in Client \ {c} PROVE ClientInv(d)'
  <2>1. Quiet(d) /\ QuietAcceptor(d)
    BY DEF Quiet, QuietAcceptor, OnlySession, client, HeldBySession
  <2>2. QuietMessages(Main(d)) /\ QuietMessages(Beat(d))
    BY Names
  <2> QED BY <2>1, <2>2, Bystander
<1> QED BY <1>1 DEF TcpInv

LEMMA TakesRequest ==
  ASSUME TcpInv, NEW c \in Client, OnlySession,
         ses[c].pc = "reading", RequestIn(Main(c)), ReadRequestFrom(Main(c)),
         ses' = [ses EXCEPT ![c].pc = "task", ![c].n = Head(conn[Main(c)].in).n]
  PROVE  TcpInv'
<1> DEFINE m == Head(conn[Main(c)].in)
<1>1. TypeOK /\ ClientInv(c) /\ Main(c) \in Conn /\ Main(c) # Beat(c) /\ AcceptorInv
  BY Names DEF TcpInv
<1>2. /\ conn[Main(c)].in # <<>> /\ Len(conn[Main(c)].in) = 1 /\ conn[Main(c)].out = <<>>
      /\ ~HeldByAcceptor(Main(c))
  BY <1>1 DEF RequestIn, ClientInv, TokenOf, Alone
<1>3. Tail(conn[Main(c)].in) = <<>> /\ m = conn[Main(c)].in[1] /\ m \in Message
  BY <1>1, <1>2, ConnectionFacts, LastMessage
<1>4. m.n = cl[c].done + 1
  BY <1>1, <1>2, <1>3 DEF ClientInv, NumberOf, FromClient
<1>5. /\ ses' \in [Client -> SessionState] /\ ses'[c].pc = "task" /\ ses'[c].n = m.n
      /\ \A d \in Client \ {c} : ses'[d] = ses[d]
  <2>1. m.n \in 0 .. MaxRequests
    BY <1>3 DEF Message
  <2> QED BY <1>1, <2>1 DEF TypeOK, SessionState, SessionPlace
<1> HIDE DEF m
<1>6. Effect(Main(c), <<>>, <<>>)
  BY <1>1, <1>2, <1>3, ReadFacts
<1>7. /\ conn' \in [Conn -> Connection]
      /\ conn'[Main(c)].in = <<>> /\ conn'[Main(c)].out = <<>>
      /\ conn'[Beat(c)] = conn[Beat(c)]
      /\ \A l \in Conn : QuietMessages(l)
  BY <1>1, <1>6, Names, EffectOnOthers DEF Effect
<1>8. TypeOK' /\ AcceptorInv'
  BY <1>1, <1>5, <1>7 DEF TypeOK, AcceptorInv, OnlySession, client
<1>9. cl[c].pc \notin {"connect", "sign", "send"}
  BY <1>1, <1>2 DEF ClientInv, TokenOf, Free
<1>10. TokenOf(c)'
  BY <1>1, <1>2, <1>7, <1>9
     DEF ClientInv, TokenOf, Alone, Free, HeldByAcceptor, HeldBySession, OnlySession, client
<1>11. NumberOf(c)'
  BY <1>1, <1>4, <1>5, <1>7, <1>9, EmptySeq DEF ClientInv, NumberOf, OnlySession, client
<1>12. BoundOf(c)'
  BY <1>1 DEF ClientInv, BoundOf, OnlySession, client
<1> QED BY <1>5, <1>7, <1>8, <1>10, <1>11, <1>12, SessionOnOthers DEF ClientInv

LEMMA WritesReply ==
  ASSUME TcpInv, NEW c \in Client, OnlySession, ses[c].pc = "writing",
         NEW q \in Connection, q.in = <<>>, q.out \in {<<>>, <<Says("reply", ses[c].n)>>},
         Does(Main(c), q), ses' \in [Client -> SessionState],
         ses'[c].pc \in {"readRequest", "gone"},
         \A d \in Client \ {c} : ses'[d] = ses[d]
  PROVE  TcpInv'
<1> DEFINE m == Says("reply", ses[c].n)
<1>1. TypeOK /\ ClientInv(c) /\ Main(c) \in Conn /\ Main(c) # Beat(c) /\ AcceptorInv
  BY Names DEF TcpInv
<1>2. HeldBySession(c) /\ ses[c].n \in 0 .. MaxRequests
  BY <1>1 DEF HeldBySession, TypeOK, SessionState
<1>3. conn[Main(c)].in = <<>> /\ conn[Main(c)].out = <<>> /\ ~HeldByAcceptor(Main(c))
  BY <1>1, <1>2 DEF ClientInv, TokenOf, Alone
<1>4. m.n = cl[c].done + 1
  BY <1>1, <1>2, MessageFacts DEF ClientInv, NumberOf
<1>5. Len(<<m>>) = 1 /\ <<m>>[1] = m /\ <<m>> # <<>> /\ Len(<<>>) = 0
  OBVIOUS
<1>6. q.out \in {<<>>, <<m>>}
  OBVIOUS
<1> HIDE DEF m
<1>7. Effect(Main(c), <<>>, q.out)
  BY <1>1, DoesFacts
<1>8. /\ conn' \in [Conn -> Connection]
      /\ conn'[Main(c)].in = <<>> /\ conn'[Main(c)].out \in {<<>>, <<m>>}
      /\ conn'[Beat(c)] = conn[Beat(c)]
      /\ \A l \in Conn \ {Main(c)} : QuietMessages(l)
  BY <1>1, <1>6, <1>7, Names, EffectOnOthers DEF Effect
<1>9. TypeOK' /\ AcceptorInv'
  BY <1>1, <1>8 DEF TypeOK, AcceptorInv, OnlySession, client
<1>10. cl[c].pc \notin {"connect", "sign", "send"}
  BY <1>1, <1>2 DEF ClientInv, TokenOf, Free
<1>11. TokenOf(c)'
  BY <1>1, <1>3, <1>5, <1>8, <1>10
     DEF ClientInv, TokenOf, Alone, Free, HeldByAcceptor, HeldBySession, OnlySession, client
<1>12. NumberOf(c)'
  BY <1>1, <1>4, <1>5, <1>8, <1>10
     DEF ClientInv, NumberOf, HeldBySession, OnlySession, client
<1>13. BoundOf(c)'
  BY <1>1 DEF ClientInv, BoundOf, OnlySession, client
<1> QED BY <1>8, <1>9, <1>11, <1>12, <1>13, SessionOnOthers DEF ClientInv

LEMMA WriteReplyStep ==
  ASSUME TcpInv, NEW c \in Client, WriteReply(c)
  PROVE  TcpInv'
<1> DEFINE m == Says("reply", ses[c].n)
           k == Main(c)
<1>1. TypeOK /\ TokenOf(c) /\ k \in Conn /\ OnlySession /\ ses[c].pc = "writing"
  BY Names DEF TcpInv, ClientInv, WriteReply
<1>2. m \in Message
  BY <1>1, MessageFacts DEF TypeOK, SessionState
<1>3. conn[k].in = <<>> /\ conn[k].out = <<>>
  BY <1>1 DEF TokenOf, Alone, HeldBySession
<1>4. Sent(k, m) \in Connection /\ Sent(k, m).in = <<>> /\ Sent(k, m).out \in {<<>>, <<m>>}
  BY <1>1, <1>2, <1>3, SentAlone
<1>5. CASE /\ ses' = [ses EXCEPT ![c].pc = AfterWrite(c), ![c].timer = "idle"]
           /\ ToClient(k, m)
  <2>1. /\ ses' \in [Client -> SessionState] /\ ses'[c].pc = "readRequest"
        /\ \A d \in Client \ {c} : ses'[d] = ses[d]
    BY <1>1, <1>5, ZenonT(60) DEF TypeOK, SessionState, SessionPlace, AfterWrite
  <2>2. Does(k, Sent(k, m))
    BY <1>5 DEF ToClient
  <2> QED BY <1>1, <1>4, <2>1, <2>2, WritesReply
<1>6. CASE /\ ses' = [ses EXCEPT ![c].pc = "gone"]
           /\ Does(k, ServerCloses(Sent(k, m)))
  <2>1. /\ ses' \in [Client -> SessionState] /\ ses'[c].pc = "gone"
        /\ \A d \in Client \ {c} : ses'[d] = ses[d]
    BY <1>1, <1>6 DEF TypeOK, SessionState, SessionPlace
  <2>2. /\ ServerCloses(Sent(k, m)) \in Connection
        /\ ServerCloses(Sent(k, m)).in = <<>>
        /\ ServerCloses(Sent(k, m)).out \in {<<>>, <<m>>}
    BY <1>4, ClosesFacts
  <2> QED BY <1>1, <1>6, <2>1, <2>2, WritesReply
<1>7. CASE Ends(c)
  BY <1>1, <1>7, EndsStep
<1> QED BY <1>5, <1>6, <1>7 DEF WriteReply

LEMMA SessionStepKeeps ==
  ASSUME TcpInv, NEW c \in Client, SessionStep(c) \/ TimerFires(c)
  PROVE  TcpInv'
<1>1. TypeOK
  BY DEF TcpInv
<1>2. CASE Run(c)
  BY <1>1, <1>2, SessionGoesFacts, MovesStep DEF Run, SessionPlace, HeldBySession
<1>3. CASE OnlySession /\ StartRead(c) /\ UNCHANGED conn
  BY <1>1, <1>3, SessionGoesFacts, MovesStep DEF StartRead, SessionPlace, HeldBySession
<1>4. CASE /\ OnlySession /\ ses[c].pc = "reading" /\ RequestIn(Main(c))
           /\ ReadRequestFrom(Main(c))
           /\ ses' = [ses EXCEPT ![c].pc = "task", ![c].n = Head(conn[Main(c)].in).n]
  BY <1>4, TakesRequest
<1>5. CASE ReadFails(c)
  BY <1>5, EndsStep DEF ReadFails
<1>6. CASE OnlySession /\ SessionGoes(c, "task", "sendReply") /\ UNCHANGED conn
  BY <1>1, <1>6, SessionGoesFacts, MovesStep DEF SessionPlace, HeldBySession
<1>7. CASE OnlySession /\ ses[c].pc = "task" /\ Ends(c)
  BY <1>7, EndsStep
<1>8. CASE SendReply(c)
  BY <1>1, <1>8, MovesStep
     DEF SendReply, TypeOK, SessionState, SessionPlace, HeldBySession
<1>9. CASE TimerFires(c)
  BY <1>1, <1>9, MovesStep
     DEF TimerFires, TypeOK, SessionState, SessionPlace, HeldBySession
<1>10. CASE WriteReply(c)
  BY <1>10, WriteReplyStep
<1>11. CASE StopSession(c)
  BY <1>11, EndsStep DEF StopSession
<1> QED BY <1>2, <1>3, <1>4, <1>5, <1>6, <1>7, <1>8, <1>9, <1>10, <1>11
        DEF SessionStep, ReadRequest, ProcessTask

-----------------------------------------------------------------------------
(* The server takes what its connections hold, and gives nothing.          *)
LEMMA ServerTakes ==
  ASSUME TcpInv, NEW pc \in ServerPlace, srv' = pc,
         acc' \in AcceptorState,
         acc'.pc \in {"accept", "ended"} \/ (acc'.pc = acc.pc /\ acc'.now = acc.now),
         ses' \in [Client -> SessionState],
         \A c \in Client : ses'[c].n = ses[c].n /\ ses'[c].pc \in {ses[c].pc, "gone"},
         \A c \in Client : ses[c].pc = "none" => ses'[c].pc = "none",
         \/ conn' = conn
         \/ conn' = [k \in Conn |-> ServerCloses(conn[k])],
         backlog' \in {backlog, <<>>}, lock' \in BOOLEAN, UNCHANGED <<use, client>>
  PROVE  TcpInv'
<1>1. TypeOK /\ \A k \in Conn : conn[k] \in Connection
  BY DEF TcpInv, TypeOK
<1>2. conn' \in [Conn -> Connection] /\ \A k \in Conn : QuietMessages(k)
  BY <1>1, ClosesFacts DEF TypeOK, QuietMessages
<1>3. backlog' \in Seq(Conn)
  <2>1. <<>> \in Seq(Conn)
    OBVIOUS
  <2> QED BY <1>1, <2>1 DEF TypeOK
<1>4. TypeOK'
  BY <1>1, <1>2, <1>3 DEF TypeOK, client
<1>5. AcceptorInv'
  BY DEF TcpInv, AcceptorInv
<1>6. \A d \in Client : Quiet(d) /\ QuietAcceptor(d)
  BY DEF Quiet, QuietAcceptor, client, HeldBySession
<1> QED BY <1>2, <1>4, <1>5, <1>6, AllQuiet

LEMMA StartServerStep ==
  ASSUME TcpInv, StartServer \/ StartFails
  PROVE  TcpInv'
<1>1. TypeOK
  BY DEF TcpInv
<1>2. CASE StartServer
  <2>1. CASE AcceptorGoes("none", "accept") /\ UNCHANGED srv
    <3>1. acc' \in AcceptorState /\ acc'.pc = "accept"
      BY <1>1, <2>1, AcceptorGoesFacts DEF AcceptorPlace
    <3> QED BY <1>1, <1>2, <2>1, <3>1, ServerTakes DEF StartServer, TypeOK
  <2>2. CASE ServerGoes("start", "up") /\ UNCHANGED acc
    BY <1>1, <1>2, <2>2, ServerTakes DEF StartServer, ServerGoes, TypeOK, ServerPlace
  <2> QED BY <1>2, <2>1, <2>2 DEF StartServer
<1>3. CASE StartFails
  <2>1. acc' \in AcceptorState /\ acc'.pc = "ended"
    BY <1>1, <1>3 DEF StartFails, DestroyPools, TypeOK, AcceptorState, AcceptorPlace
  <2>2. /\ ses' \in [Client -> SessionState]
        /\ \A c \in Client : ses'[c].n = ses[c].n /\ ses'[c].pc \in {ses[c].pc, "gone"}
        /\ \A c \in Client : ses[c].pc = "none" => ses'[c].pc = "none"
    BY <1>1, <1>3, ZenonT(60) DEF StartFails, DestroyPools, TypeOK, SessionState, SessionPlace
  <2> QED BY <1>3, <2>1, <2>2, ServerTakes DEF StartFails, DestroyPools, ServerGoes, ServerPlace
<1> QED BY <1>2, <1>3

LEMMA StopServerStep ==
  ASSUME TcpInv, Stop \/ StopSessions \/ StopAcceptor \/ Join
  PROVE  TcpInv'
<1>1. TypeOK
  BY DEF TcpInv
<1>2. CASE Stop
  BY <1>1, <1>2, ServerTakes DEF Stop, ServerGoes, TypeOK, ServerPlace
<1>3. CASE StopSessions
  <2>1. /\ ses' \in [Client -> SessionState]
        /\ \A c \in Client : ses'[c].n = ses[c].n /\ ses'[c].pc = ses[c].pc
    <3> DEFINE held(c) == ses[c].stopped \/ ses[c].pc \notin {"none", "gone"}
    <3>1. \A c \in Client : held(c) \in BOOLEAN
      BY <1>1 DEF TypeOK, SessionState
    <3>2. ses' = [c \in Client |-> [ses[c] EXCEPT !.stopped = held(c)]]
      BY <1>3 DEF StopSessions
    <3> HIDE DEF held
    <3> QED BY <1>1, <3>1, <3>2 DEF TypeOK, SessionState
  <2> QED BY <1>1, <1>3, <2>1, ServerTakes DEF StopSessions, ServerGoes, TypeOK, ServerPlace
<1>4. CASE StopAcceptor
  <2>1. acc' \in AcceptorState /\ acc'.pc = acc.pc /\ acc'.now = acc.now
    BY <1>1, <1>4 DEF StopAcceptor, TypeOK, AcceptorState
  <2> QED BY <1>1, <1>4, <2>1, ServerTakes DEF StopAcceptor, ServerGoes, TypeOK, ServerPlace
<1>5. CASE Join
  <2>1. CASE ServerGoes("joinAcceptor", "joinPool") /\ UNCHANGED <<conn, backlog, ses>>
    BY <1>1, <1>5, <2>1, ServerTakes DEF Join, ServerGoes, TypeOK, ServerPlace
  <2>2. CASE /\ ServerGoes("joinPool", "down")
             /\ ses' = [c \in Client |->
                         [ses[c] EXCEPT !.pc = IF @ = "queued" THEN "gone" ELSE @]]
             /\ conn' = [k \in Conn |-> ServerCloses(conn[k])]
             /\ backlog' = <<>>
    <3>1. /\ ses' \in [Client -> SessionState]
          /\ \A c \in Client : ses'[c].n = ses[c].n /\ ses'[c].pc \in {ses[c].pc, "gone"}
          /\ \A c \in Client : ses[c].pc = "none" => ses'[c].pc = "none"
      BY <1>1, <2>2 DEF TypeOK, SessionState, SessionPlace
    <3> QED BY <1>1, <1>5, <2>2, <3>1, ServerTakes DEF Join, ServerGoes, TypeOK, ServerPlace
  <2> QED BY <1>5, <2>1, <2>2 DEF Join
<1> QED BY <1>2, <1>3, <1>4, <1>5

-----------------------------------------------------------------------------
(* Nothing has been said at the start.                                     *)
LEMMA TcpInit == Init => TcpInv
<1> SUFFICES ASSUME Init PROVE TcpInv
  OBVIOUS
<1>1. Closed \in Connection /\ Closed.in = <<>> /\ Closed.out = <<>>
  BY Nothing DEF Connection, Closed
<1>2. use \in Uses /\ use \in Use
  BY TcpAssumption DEF Init, TcpAssumption
<1>3. /\ use.requests \in Nat \ {0} /\ use.beats \in Nat \ {0}
      /\ MaxRequests \in Nat /\ MaxBeats \in Nat
  BY <1>2, TcpAssumption DEF Use, TcpAssumption
<1>4. TypeOK
  <2>1. conn \in [Conn -> Connection]
    BY <1>1 DEF Init
  <2>2. cl \in [Client -> ClientState] /\ beat \in [Client -> HeartbeatState]
    BY <1>3 DEF Init, ClientState, ClientPlace, HeartbeatState, BeatPlace
  <2>3. acc \in AcceptorState /\ ses \in [Client -> SessionState]
    BY <1>3 DEF Init, AcceptorState, AcceptorPlace, SessionState, SessionPlace
  <2>4. backlog \in Seq(Conn)
    BY DEF Init
  <2> QED BY <1>2, <2>1, <2>2, <2>3, <2>4 DEF Init, TypeOK, ServerPlace
<1>5. AcceptorInv
  BY DEF Init, AcceptorInv
<1>6. ASSUME NEW c \in Client PROVE ClientInv(c)
  <2>1. Main(c) \in Conn /\ Beat(c) \in Conn
    BY Names
  <2>2. TokenOf(c)
    BY <1>1, <2>1 DEF Init, TokenOf, Alone, Free, HeldByAcceptor, HeldBySession
  <2>3. NumberOf(c)
    BY <1>1, <2>1, EmptySeq DEF Init, NumberOf, HeldBySession, BeingMade
  <2>4. BoundOf(c)
    BY <1>3 DEF Init, BoundOf
  <2> QED BY <2>2, <2>3, <2>4 DEF ClientInv
<1> QED BY <1>4, <1>5, <1>6 DEF TcpInv

LEMMA TcpNext == TcpInv /\ [Next]_vars => TcpInv'
<1> SUFFICES ASSUME TcpInv, [Next]_vars PROVE TcpInv'
  OBVIOUS
<1>1. ASSUME NEW c \in Client, ClientStep(c) PROVE TcpInv'
  BY <1>1, StartStep, SendStep, ReceiveStep, StopClientStep DEF ClientStep
<1>2. ASSUME NEW c \in Client, Interrupt(c) \/ Kill(c) PROVE TcpInv'
  BY <1>2, InterruptStep, KillStep
<1>3. ASSUME NEW c \in Client, BeatStep(c) \/ InterruptBeat(c) PROVE TcpInv'
  BY <1>3, WriteBeatStep, ReadBeatStep, NextBeatStep, InterruptBeatStep DEF BeatStep
<1>4. ASSUME NEW c \in Client, SessionStep(c) \/ TimerFires(c) PROVE TcpInv'
  BY <1>4, SessionStepKeeps
<1>5. CASE AcceptorStep
  BY <1>5, AcceptStep, ReplyHeartbeatStep, CreateSessionStep DEF AcceptorStep
<1>6. CASE StartFails \/ Stop \/ ServerStep
  BY <1>6, StartServerStep, StopServerStep DEF ServerStep
<1>7. CASE UNCHANGED vars
  <2>1. TypeOK' /\ AcceptorInv'
    BY <1>7 DEF TcpInv, TypeOK, AcceptorInv, vars, client, server
  <2>2. \A d \in Client : Quiet(d) /\ QuietAcceptor(d)
    BY <1>7 DEF Quiet, QuietAcceptor, HeldBySession, vars, client, server
  <2>3. \A k \in Conn : QuietMessages(k)
    BY <1>7 DEF QuietMessages, vars
  <2> QED BY <2>1, <2>2, <2>3, AllQuiet
<1> QED BY <1>1, <1>2, <1>3, <1>4, <1>5, <1>6, <1>7 DEF Next

(* TcpClient, TcpClientHeartbeat, TcpAcceptor and TcpSession hand one      *)
(* message at a time to one another, whatever the interleaving, the        *)
(* deaths, the timers and the stop of Server::stop.                        *)
THEOREM TcpInvariant == Spec => []TcpInv
BY TcpInit, TcpNext, PTL DEF Spec

(* The counters of Client::run and of the heartbeat and the places of the  *)
(* event loops keep to their ranges.                                       *)
THEOREM TcpTypes == Spec => []TypeOK
<1>1. TcpInv => TypeOK
  BY DEF TcpInv
<1> QED BY <1>1, TcpInvariant, PTL

(* Tcp::readMessage takes all that read_until has found for one message:   *)
(* at no time is there a second one in either direction of a connection,   *)
(* and a reply is for the request its client waits with.                   *)
THEOREM OneMessageAtATime == Spec => []OneMessage
<1>1. TcpInv => OneMessage
  <2> SUFFICES ASSUME TcpInv, NEW c \in Client
               PROVE  /\ Len(conn[Main(c)].in) + Len(conn[Main(c)].out) <= 1
                      /\ \A j \in DOMAIN conn[Main(c)].out :
                           conn[Main(c)].out[j].kind = "reply" =>
                             conn[Main(c)].out[j].n = cl[c].done + 1
                      /\ Len(conn[Beat(c)].in) + Len(conn[Beat(c)].out) <= 1
    BY DEF OneMessage
  <2>1. TypeOK /\ TokenOf(c) /\ NumberOf(c) /\ Main(c) \in Conn /\ Beat(c) \in Conn
    BY Names DEF TcpInv, ClientInv
  <2>2. /\ Len(conn[Main(c)].in) + Len(conn[Main(c)].out) <= 1
        /\ Len(conn[Beat(c)].in) + Len(conn[Beat(c)].out) <= 1
    <3>1. ASSUME NEW s \in Seq(Message), NEW t \in Seq(Message),
                 s # <<>> => Len(s) = 1 /\ t = <<>>, t # <<>> => Len(t) = 1
          PROVE  Len(s) + Len(t) <= 1
      <4>1. Len(s) \in {0, 1} /\ Len(t) \in {0, 1} /\ ~(Len(s) = 1 /\ Len(t) = 1)
        BY <3>1, EmptySeq
      <4>2. \A i, j \in {0, 1} : ~(i = 1 /\ j = 1) => i + j <= 1
        OBVIOUS
      <4> QED BY <4>1, <4>2
    <3>2. /\ conn[Main(c)].in # <<>> => Len(conn[Main(c)].in) = 1 /\ conn[Main(c)].out = <<>>
          /\ conn[Main(c)].out # <<>> => Len(conn[Main(c)].out) = 1
      BY <2>1 DEF TokenOf, Alone
    <3>3. /\ conn[Beat(c)].in # <<>> => Len(conn[Beat(c)].in) = 1 /\ conn[Beat(c)].out = <<>>
          /\ conn[Beat(c)].out # <<>> => Len(conn[Beat(c)].out) = 1
      BY <2>1 DEF TokenOf, Alone
    <3> QED BY <2>1, <3>1, <3>2, <3>3, ConnectionFacts
  <2>3. DOMAIN conn[Main(c)].out = 1 .. Len(conn[Main(c)].out)
    BY <2>1, ConnectionFacts, LenProperties
  <2> QED BY <2>1, <2>2, <2>3 DEF NumberOf
<1> QED BY <1>1, TcpInvariant, PTL

-----------------------------------------------------------------------------
(* The conversation.  What has to be shown is that nothing breaks off the  *)
(* conversation of a client that can be trusted.  AcceptedInv: a           *)
(* connection comes to the acceptor once, before the client has been told  *)
(* its status, so that the acceptor never reads, answers or closes in the  *)
(* place of the session.  ServedInv: from its connection on such a client  *)
(* has both sides open, and once it has its status a session.  FlagInv:    *)
(* what ends a session early is what the use says.                         *)

Speaking == {"sign", "status", "send", "recv"}
Over == {"stop", "join", "ended", "dead"}

Waits(c) == \E i \in 1 .. Len(backlog) : backlog[i] = Main(c)
Once(c) ==
  \A i, j \in 1 .. Len(backlog) : backlog[i] = Main(c) /\ backlog[j] = Main(c) => i = j
Handled(c) == acc.now = Main(c) /\ acc.pc \in {"read", "reply", "create", "push"}
Told(c) ==
  cl[c].pc \in {"send", "recv"} \/ (cl[c].pc = "status" /\ conn[Main(c)].out # <<>>)
Served(c) == SessionOf(c) = "open" \/ (Handled(c) /\ acc.pc = "push")

AcceptedInv(c) ==
  /\ Once(c)
  /\ Waits(c) => ~Handled(c) /\ ~Told(c)
  /\ Waits(c) \/ Handled(c) => ses[c].pc = "none" /\ cl[c].pc # "connect"
  /\ Handled(c) => acc.pc = "push" \/ ~Told(c)
  /\ Handled(c) /\ acc.pc = "reply" => cl[c].pc # "status"
  /\ cl[c].pc = "status" =>
       /\ ~HeldBySession(c)
       /\ \A j \in 1 .. Len(conn[Main(c)].in) : conn[Main(c)].in[j].kind = "authenticate"

ServedInv(c) ==
  /\ cl[c].pc \in Speaking => conn[Main(c)].client /\ ~conn[Main(c)].reset
  /\ c \in Trusted /\ cl[c].pc \in Speaking => conn[Main(c)].server
  /\ c \in Trusted /\ Told(c) => Served(c)

FlagInv(c) ==
  /\ ses[c].timer = "fired" => c \in use.slow
  /\ ses[c].stopped => use.stop

PartInv(c) == AcceptedInv(c) /\ ServedInv(c) /\ FlagInv(c)
StopInv == srv \notin {"start", "up", "down"} => use.stop

ConvInv == StopInv /\ \A c \in Client : PartInv(c)

-----------------------------------------------------------------------------
(* A step that is no news for client d.                                    *)
Apart(d) ==
  /\ Once(d)'
  /\ Waits(d)' => Waits(d)
  /\ Handled(d)' <=> Handled(d)
  /\ Handled(d) => acc'.pc = acc.pc

Keeps(d) ==
  /\ Once(d)'
  /\ Waits(d)' => Waits(d)
  /\ Handled(d)' => Handled(d) /\ acc'.pc = acc.pc
  /\ Waits(d)' \/ Handled(d)' => ses'[d].pc = ses[d].pc
  /\ cl'[d].pc = cl[d].pc \/ cl'[d].pc \in Over
  /\ Told(d)' => Told(d)
  /\ cl'[d].pc = "status" =>
       /\ HeldBySession(d)' => HeldBySession(d)
       /\ conn'[Main(d)].in \in {conn[Main(d)].in, <<>>}
  /\ cl'[d].pc \in Speaking =>
       /\ conn'[Main(d)].client = conn[Main(d)].client
       /\ conn'[Main(d)].reset = conn[Main(d)].reset
  /\ d \in Trusted /\ cl'[d].pc \in Speaking => conn'[Main(d)].server = conn[Main(d)].server
  /\ d \in Trusted /\ Told(d)' /\ Served(d) => Served(d)'
  /\ FlagInv(d)'

LEMMA KeepsPart ==
  ASSUME NEW d \in Client, PartInv(d), use' = use, Keeps(d)
  PROVE  PartInv(d)'
<1>1. Trusted' = Trusted
  BY DEF Trusted
<1>2. AcceptedInv(d)'
  <2>1. Once(d)'
    BY DEF Keeps
  <2>2. (Waits(d) => ~Handled(d) /\ ~Told(d))'
    BY DEF Keeps, PartInv, AcceptedInv
  <2>3. (Waits(d) \/ Handled(d) => ses[d].pc = "none" /\ cl[d].pc # "connect")'
    BY DEF Keeps, PartInv, AcceptedInv, Over
  <2>4. (Handled(d) => acc.pc = "push" \/ ~Told(d))'
    BY DEF Keeps, PartInv, AcceptedInv
  <2>5. (Handled(d) /\ acc.pc = "reply" => cl[d].pc # "status")'
    BY DEF Keeps, PartInv, AcceptedInv, Over
  <2>6. (cl[d].pc = "status" => ~HeldBySession(d))'
    BY DEF Keeps, PartInv, AcceptedInv, Over
  <2>7. ASSUME cl'[d].pc = "status", NEW j \in 1 .. Len(conn'[Main(d)].in)
        PROVE  conn'[Main(d)].in[j].kind = "authenticate"
    <3>1. cl[d].pc = "status" /\ conn'[Main(d)].in \in {conn[Main(d)].in, <<>>}
      BY <2>7 DEF Keeps, Over
    <3> QED BY <2>7, <3>1, EmptySeq DEF PartInv, AcceptedInv
  <2> QED BY <2>1, <2>2, <2>3, <2>4, <2>5, <2>6, <2>7 DEF AcceptedInv
<1>3. ServedInv(d)'
  <2>1. (cl[d].pc \in Speaking => conn[Main(d)].client /\ ~conn[Main(d)].reset)'
    BY DEF Keeps, PartInv, ServedInv, Over, Speaking
  <2>2. (d \in Trusted /\ cl[d].pc \in Speaking => conn[Main(d)].server)'
    BY <1>1 DEF Keeps, PartInv, ServedInv, Over, Speaking
  <2>3. (d \in Trusted /\ Told(d) => Served(d))'
    BY <1>1 DEF Keeps, PartInv, ServedInv
  <2> QED BY <2>1, <2>2, <2>3 DEF ServedInv
<1> QED BY <1>2, <1>3 DEF Keeps, PartInv

(* What the step is for Conversation.                                      *)
Still(d) ==
  PlaceOf(d)' = PlaceOf(d) /\ ReplyOf(d)' = ReplyOf(d) /\ SessionOf(d)' = SessionOf(d)

Untouched(d) ==
  cl'[d].pc = cl[d].pc /\ conn'[Main(d)] = conn[Main(d)] /\ ses'[d] = ses[d]

LEMMA UntouchedKeeps ==
  ASSUME NEW d \in Client, PartInv(d), use' = use, Apart(d), Untouched(d)
  PROVE  Keeps(d) /\ Still(d)
<1>1. Still(d)
  BY DEF Untouched, Still, PlaceOf, ReplyOf, SessionOf, AnswerIn
<1>2. /\ Told(d)' <=> Told(d)
      /\ HeldBySession(d)' <=> HeldBySession(d)
      /\ FlagInv(d)'
  BY DEF Untouched, Told, HeldBySession, FlagInv, PartInv
<1>3. Served(d) => Served(d)'
  BY <1>1 DEF Served, Apart, Still
<1> QED BY <1>1, <1>2, <1>3 DEF Keeps, Apart, Untouched

Step(c) ==
  \/ Still(c)
  \/ /\ SessionOf(c) = "none" /\ SessionOf(c)' = "open"
     /\ PlaceOf(c)' = PlaceOf(c) /\ ReplyOf(c)' = ReplyOf(c)
  \/ /\ PlaceOf(c) = "away" /\ PlaceOf(c)' = "idle"
     /\ ReplyOf(c)' = ReplyOf(c) /\ SessionOf(c)' = SessionOf(c)
  \/ /\ PlaceOf(c) \in {"away", "idle"} /\ PlaceOf(c)' = "asking" /\ ReplyOf(c)' = "owed"
     /\ SessionOf(c)' = SessionOf(c)
  \/ /\ SessionOf(c) = "open" /\ ReplyOf(c) = "owed" /\ ReplyOf(c)' = "given"
     /\ SessionOf(c)' = SessionOf(c) \/ (c \notin Trusted /\ SessionOf(c)' = "gone")
     /\ PlaceOf(c)' = PlaceOf(c)
  \/ /\ PlaceOf(c) = "asking" /\ ReplyOf(c) = "given"
     /\ PlaceOf(c)' \in {"idle", "over"} /\ ReplyOf(c)' = "none"
     /\ SessionOf(c)' = SessionOf(c)
  \/ /\ PlaceOf(c) \in {"away", "idle"} /\ PlaceOf(c)' = "over"
     /\ ReplyOf(c)' = ReplyOf(c) /\ SessionOf(c)' = SessionOf(c)
  \/ /\ SessionOf(c) = "open" /\ SessionOf(c)' = "gone"
     /\ PlaceOf(c) \in {"away", "over"} \/ c \notin Trusted
     /\ PlaceOf(c)' = PlaceOf(c) /\ ReplyOf(c)' = ReplyOf(c)
  \/ /\ c \notin Trusted /\ PlaceOf(c) # "away"
     /\ PlaceOf(c)' \in {"idle", "over"} /\ ReplyOf(c)' = "none"
     /\ SessionOf(c)' = SessionOf(c)

Good == ConvInv' /\ [C!Next]_(C!vars)

LEMMA StepMaps ==
  ASSUME use' = use, NEW c \in Client, Step(c), \A d \in Client \ {c} : Still(d)
  PROVE  [C!Next]_(C!vars)
<1> DEFINE place == [d \in Client |-> PlaceOf(d)]
           reply == [d \in Client |-> ReplyOf(d)]
           session == [d \in Client |-> SessionOf(d)]
<1>1. Trusted' = Trusted
  BY DEF Trusted
<1>2. /\ place' = [place EXCEPT ![c] = PlaceOf(c)']
      /\ reply' = [reply EXCEPT ![c] = ReplyOf(c)']
      /\ session' = [session EXCEPT ![c] = SessionOf(c)']
  BY DEF Still
<1>3. /\ place[c] = PlaceOf(c) /\ reply[c] = ReplyOf(c) /\ session[c] = SessionOf(c)
      /\ PlaceOf(c)' = PlaceOf(c) => place' = place
      /\ ReplyOf(c)' = ReplyOf(c) => reply' = reply
      /\ SessionOf(c)' = SessionOf(c) => session' = session
  BY <1>2
<1> QED BY <1>1, <1>2, <1>3
        DEF Step, Still, C!vars, C!Next, C!Open, C!Arrive, C!Ask, C!Reply, C!Receive, C!Leave,
            C!Close, C!BreaksOff

LEMMA Combine ==
  ASSUME ConvInv, use' = use, srv' = srv, NEW c \in Client, PartInv(c)' \/ Keeps(c), Step(c),
         \A d \in Client \ {c} : Keeps(d) /\ Still(d)
  PROVE  Good
<1>1. \A d \in Client : PartInv(d)'
  BY KeepsPart DEF ConvInv
<1>2. StopInv'
  BY DEF ConvInv, StopInv
<1> QED BY <1>1, <1>2, StepMaps DEF Good, ConvInv

LEMMA CombineStill ==
  ASSUME ConvInv, use' = use, StopInv',
         \A d \in Client : (PartInv(d)' \/ Keeps(d)) /\ Still(d)
  PROVE  Good
<1>1. \A d \in Client : PartInv(d)'
  BY KeepsPart DEF ConvInv
<1>2. UNCHANGED C!vars
  BY DEF Still, C!vars, Trusted
<1> QED BY <1>1, <1>2 DEF Good, ConvInv

-----------------------------------------------------------------------------
(* Connections that wait to be accepted.                                   *)
LEMMA BacklogKept ==
  ASSUME NEW d \in Client, PartInv(d), UNCHANGED <<backlog, acc>>
  PROVE  Apart(d)
BY DEF Apart, PartInv, AcceptedInv, Once, Waits, Handled

LEMMA BacklogGrows ==
  ASSUME TypeOK, NEW d \in Client, PartInv(d), NEW k \in Conn,
         backlog' = Append(backlog, k), acc' = acc
  PROVE  /\ k # Main(d) => Apart(d)
         /\ ~Waits(d) => Once(d)'
<1>1. /\ Len(backlog) \in Nat /\ Len(backlog') = Len(backlog) + 1
      /\ backlog'[Len(backlog) + 1] = k
      /\ \A i \in 1 .. Len(backlog) : backlog'[i] = backlog[i]
  BY AppendProperties, LenProperties DEF TypeOK
<1>2. \A i \in 1 .. Len(backlog') : i \in 1 .. Len(backlog) \/ i = Len(backlog) + 1
  BY <1>1
<1>3. ASSUME k # Main(d) PROVE Apart(d)
  <2>1. \A i \in 1 .. Len(backlog') : backlog'[i] = Main(d) =>
          i \in 1 .. Len(backlog) /\ backlog[i] = Main(d)
    BY <1>1, <1>2, <1>3
  <2>2. Once(d)' /\ (Waits(d)' => Waits(d))
    BY <2>1 DEF Once, Waits, PartInv, AcceptedInv
  <2> QED BY <2>2 DEF Apart, Handled
<1>4. ASSUME ~Waits(d) PROVE Once(d)'
  <2>1. \A i \in 1 .. Len(backlog') : backlog'[i] = Main(d) => i = Len(backlog) + 1
    BY <1>1, <1>2, <1>4 DEF Waits
  <2> QED BY <2>1 DEF Once
<1> QED BY <1>3, <1>4

LEMMA BacklogShrinks ==
  ASSUME TypeOK, NEW d \in Client, PartInv(d), backlog # <<>>, backlog' = Tail(backlog)
  PROVE  /\ Once(d)'
         /\ Waits(d)' => Waits(d) /\ Head(backlog) # Main(d)
         /\ Head(backlog) = Main(d) => Waits(d)
<1>1. /\ Len(backlog) \in Nat /\ Len(backlog) >= 1 /\ Head(backlog) = backlog[1]
      /\ Len(backlog') = Len(backlog) - 1
      /\ \A i \in 1 .. Len(backlog') : backlog'[i] = backlog[i + 1]
  BY HeadTailProperties, LenProperties, EmptySeq DEF TypeOK
<1>2. \A i \in 1 .. Len(backlog') : i \in Int /\ i + 1 \in 1 .. Len(backlog) /\ i + 1 # 1
  BY <1>1
<1>3. \A i, j \in 1 .. Len(backlog) : backlog[i] = Main(d) /\ backlog[j] = Main(d) => i = j
  BY DEF PartInv, AcceptedInv, Once
<1>4. Once(d)'
  <2> SUFFICES ASSUME NEW i \in 1 .. Len(backlog'), NEW j \in 1 .. Len(backlog'),
                      backlog'[i] = Main(d), backlog'[j] = Main(d)
               PROVE  i = j
    BY DEF Once
  <2>1. i + 1 = j + 1
    BY <1>1, <1>2, <1>3
  <2> QED BY <2>1, <1>2
<1>5. ASSUME Waits(d)' PROVE Waits(d) /\ Head(backlog) # Main(d)
  <2>1. PICK i \in 1 .. Len(backlog') : backlog'[i] = Main(d)
    BY <1>5 DEF Waits
  <2>2. backlog[i + 1] = Main(d) /\ i + 1 \in 1 .. Len(backlog) /\ i + 1 # 1
    BY <1>1, <1>2, <2>1
  <2>3. 1 \in 1 .. Len(backlog)
    BY <1>1
  <2> QED BY <1>1, <1>3, <2>2, <2>3 DEF Waits
<1>6. Head(backlog) = Main(d) => Waits(d)
  BY <1>1 DEF Waits
<1> QED BY <1>4, <1>5, <1>6

-----------------------------------------------------------------------------
(* Steps of client c and its heartbeat.                                    *)
LEMMA ClientCombine ==
  ASSUME ConvInv, UNCHANGED server, NEW c \in Client, PartInv(c)' \/ Keeps(c), Step(c),
         \A d \in Client \ {c} :
           cl'[d] = cl[d] /\ conn'[Main(d)] = conn[Main(d)] /\ Apart(d)
  PROVE  Good
<1>1. use' = use /\ srv' = srv /\ ses' = ses
  BY DEF server
<1>2. ASSUME NEW d \in Client \ {c} PROVE Keeps(d) /\ Still(d)
  <2>1. PartInv(d) /\ Untouched(d) /\ Apart(d)
    BY <1>1 DEF ConvInv, Untouched
  <2> QED BY <1>1, <2>1, UntouchedKeeps
<1> QED BY <1>1, <1>2, Combine

LEMMA ClientOver ==
  ASSUME ConvInv, UNCHANGED <<backlog, server>>, NEW c \in Client, cl'[c].pc \in Over,
         \A d \in Client \ {c} : cl'[d] = cl[d] /\ conn'[Main(d)] = conn[Main(d)],
         PlaceOf(c) = "asking" => c \notin Trusted
  PROVE  Good
<1>1. UNCHANGED <<backlog, acc>> /\ ses' = ses /\ use' = use /\ UNCHANGED server
  BY DEF server
<1>2. \A d \in Client : Apart(d) /\ PartInv(d)
  BY <1>1, BacklogKept DEF ConvInv
<1>3. Keeps(c)
  <2>1. ~Told(c)' /\ cl'[c].pc # "status" /\ cl'[c].pc \notin Speaking
    BY DEF Told, Over, Speaking
  <2>2. FlagInv(c)'
    BY <1>1, <1>2 DEF PartInv, FlagInv
  <2> QED BY <1>1, <1>2, <2>1, <2>2 DEF Keeps, Apart
<1>4. Step(c)
  <2>1. PlaceOf(c)' = "over" /\ ReplyOf(c)' = "none" /\ SessionOf(c)' = SessionOf(c)
    BY <1>1 DEF PlaceOf, ReplyOf, SessionOf, Over
  <2>2. PlaceOf(c) \in {"away", "idle", "asking", "over"}
    BY DEF PlaceOf
  <2>3. PlaceOf(c) # "asking" => ReplyOf(c) = "none"
    BY DEF ReplyOf
  <2> QED BY <2>1, <2>2, <2>3 DEF Step, Still
<1> QED BY <1>1, <1>2, <1>3, <1>4, ClientCombine

(* What a step does to the connection of c alone.                          *)
LEMMA OwnConnection ==
  ASSUME TypeOK, NEW c \in Client, NEW q, Does(Main(c), q)
  PROVE  /\ conn'[Main(c)] = q
         /\ \A d \in Client \ {c} : conn'[Main(d)] = conn[Main(d)]
BY Names DEF TypeOK, Does

LEMMA NewConnection ==
  ASSUME TcpInv, ConvInv, NEW c \in Client, Goes(c, "connect", "sign"), Connect(Main(c)),
         UNCHANGED server
  PROVE  Good
<1>1. /\ TypeOK /\ NumberOf(c) /\ PartInv(c) /\ Main(c) \in Conn
      /\ acc' = acc /\ ses' = ses /\ use' = use
  BY Names DEF TcpInv, ClientInv, ConvInv, server
<1>2. /\ cl[c].pc = "connect" /\ cl'[c].pc = "sign"
      /\ \A d \in Client \ {c} : cl'[d] = cl[d]
  BY <1>1, GoesFacts DEF ClientPlace
<1>3. /\ conn'[Main(c)].client /\ conn'[Main(c)].server /\ ~conn'[Main(c)].reset
      /\ \A d \in Client \ {c} : conn'[Main(d)] = conn[Main(d)]
  <2> DEFINE q == [Closed EXCEPT !.client = TRUE, !.server = TRUE]
  <2>1. Does(Main(c), q)
    BY DEF Connect
  <2>2. q.client = TRUE /\ q.server = TRUE /\ q.reset = FALSE
    BY DEF Closed
  <2> HIDE DEF q
  <2>3. conn'[Main(c)] = q /\ \A d \in Client \ {c} : conn'[Main(d)] = conn[Main(d)]
    BY <1>1, <2>1, OwnConnection
  <2> QED BY <2>2, <2>3
<1>4. backlog' = Append(backlog, Main(c)) /\ ~Waits(c) /\ ~Handled(c) /\ ses[c].pc = "none"
  BY <1>1, <1>2 DEF Connect, PartInv, AcceptedInv, NumberOf
<1>5. Once(c)' /\ \A d \in Client \ {c} : Apart(d)
  BY <1>1, <1>4, BacklogGrows, Names DEF ConvInv
<1>6. PartInv(c)'
  <2>1. ~Handled(c)' /\ ~Told(c)' /\ ses'[c].pc = "none" /\ FlagInv(c)'
    BY <1>1, <1>2, <1>4 DEF Handled, Told, PartInv, FlagInv
  <2> QED BY <1>2, <1>3, <1>5, <2>1 DEF PartInv, AcceptedInv, ServedInv, Speaking
<1>7. Step(c)
  BY <1>1, <1>2 DEF Step, Still, PlaceOf, ReplyOf, SessionOf
<1> QED BY <1>2, <1>3, <1>5, <1>6, <1>7, ClientCombine

(* What is said and heard leaves the sides of a connection open.           *)
SameSides(c) ==
  /\ conn'[Main(c)].client = conn[Main(c)].client
  /\ conn'[Main(c)].server = conn[Main(c)].server
  /\ conn'[Main(c)].reset = conn[Main(c)].reset
  /\ \A d \in Client \ {c} : conn'[Main(d)] = conn[Main(d)]

LEMMA SayFacts ==
  ASSUME TypeOK, NEW c \in Client, NEW m \in Message
  PROVE  ToServer(Main(c), m) =>
           /\ SameSides(c)
           /\ conn'[Main(c)].out = conn[Main(c)].out
           /\ conn'[Main(c)].in \in {conn[Main(c)].in, Append(conn[Main(c)].in, m)}
<1>1. Main(c) \in Conn /\ conn[Main(c)] \in Connection
  BY Names, ConnectionFacts
<1>2. ASSUME NEW q, Does(Main(c), q),
             \/ q = conn[Main(c)]
             \/ q = [conn[Main(c)] EXCEPT !.in = Append(@, m)]
      PROVE  /\ SameSides(c)
             /\ conn'[Main(c)].out = conn[Main(c)].out
             /\ conn'[Main(c)].in \in {conn[Main(c)].in, Append(conn[Main(c)].in, m)}
  BY <1>1, <1>2, OwnConnection DEF SameSides, Connection
<1> QED BY <1>2 DEF ToServer

LEMMA HearFacts ==
  ASSUME TypeOK, NEW c \in Client
  PROVE  /\ ReadAnswer(Main(c)) =>
              /\ SameSides(c)
              /\ conn'[Main(c)].in = conn[Main(c)].in
              /\ conn'[Main(c)].out = Tail(conn[Main(c)].out)
         /\ ReadRequestFrom(Main(c)) =>
              /\ SameSides(c)
              /\ conn'[Main(c)].in = Tail(conn[Main(c)].in)
              /\ conn'[Main(c)].out = conn[Main(c)].out
<1>1. Main(c) \in Conn /\ conn[Main(c)] \in Connection
  BY Names, ConnectionFacts
<1>2. ASSUME ReadAnswer(Main(c))
      PROVE  /\ SameSides(c)
             /\ conn'[Main(c)].in = conn[Main(c)].in
             /\ conn'[Main(c)].out = Tail(conn[Main(c)].out)
  <2> DEFINE q == [conn[Main(c)] EXCEPT !.out = Tail(@)]
  <2>1. Does(Main(c), q)
    BY <1>2 DEF ReadAnswer
  <2>2. /\ q.client = conn[Main(c)].client /\ q.server = conn[Main(c)].server
        /\ q.reset = conn[Main(c)].reset /\ q.in = conn[Main(c)].in
        /\ q.out = Tail(conn[Main(c)].out)
    BY <1>1 DEF Connection
  <2> HIDE DEF q
  <2> QED BY <2>1, <2>2, OwnConnection DEF SameSides
<1>3. ASSUME ReadRequestFrom(Main(c))
      PROVE  /\ SameSides(c)
             /\ conn'[Main(c)].in = Tail(conn[Main(c)].in)
             /\ conn'[Main(c)].out = conn[Main(c)].out
  <2> DEFINE q == [conn[Main(c)] EXCEPT !.in = Tail(@)]
  <2>1. Does(Main(c), q)
    BY <1>3 DEF ReadRequestFrom
  <2>2. /\ q.client = conn[Main(c)].client /\ q.server = conn[Main(c)].server
        /\ q.reset = conn[Main(c)].reset /\ q.out = conn[Main(c)].out
        /\ q.in = Tail(conn[Main(c)].in)
    BY <1>1 DEF Connection
  <2> HIDE DEF q
  <2> QED BY <2>1, <2>2, OwnConnection DEF SameSides
<1> QED BY <1>2, <1>3

LEMMA ClientMoves ==
  ASSUME TcpInv, ConvInv, NEW c \in Client, UNCHANGED <<backlog, server>>,
         cl[c].pc \in Speaking, cl'[c].pc \in {"status", "send", "recv", "stop"},
         \A d \in Client \ {c} : cl'[d] = cl[d], SameSides(c),
         cl'[c].pc = "status" =>
           /\ ~HeldByAcceptor(Main(c)) /\ ~HeldBySession(c) /\ conn'[Main(c)].out = <<>>
           /\ \A j \in 1 .. Len(conn'[Main(c)].in) :
                conn'[Main(c)].in[j].kind = "authenticate",
         cl'[c].pc \in {"send", "recv"} => Told(c),
         Step(c)
  PROVE  Good
<1>1. /\ backlog' = backlog /\ acc' = acc /\ ses' = ses /\ use' = use
      /\ UNCHANGED <<backlog, acc>> /\ UNCHANGED server
  BY DEF server
<1>2. \A d \in Client : Apart(d) /\ PartInv(d)
  BY <1>1, BacklogKept DEF ConvInv
<1>3. Told(c)' => Told(c) /\ cl'[c].pc # "status"
  BY DEF Told
<1>4. /\ Waits(c)' <=> Waits(c)
      /\ Handled(c)' <=> Handled(c)
      /\ Served(c)' <=> Served(c)
      /\ HeldBySession(c)' <=> HeldBySession(c)
      /\ FlagInv(c)' /\ Once(c)'
  BY <1>1, <1>2
     DEF Waits, Handled, Served, SessionOf, HeldBySession, FlagInv, PartInv, Once, AcceptedInv
<1>5. AcceptedInv(c)'
  <2>1. (Waits(c) => ~Handled(c) /\ ~Told(c))' /\ (Handled(c) => acc.pc = "push" \/ ~Told(c))'
    BY <1>1, <1>2, <1>3, <1>4 DEF PartInv, AcceptedInv
  <2>2. (Waits(c) \/ Handled(c) => ses[c].pc = "none" /\ cl[c].pc # "connect")'
    BY <1>1, <1>2, <1>4 DEF PartInv, AcceptedInv
  <2>3. (Handled(c) /\ acc.pc = "reply" => cl[c].pc # "status")'
    BY <1>1, <1>4 DEF Handled, HeldByAcceptor
  <2> QED BY <1>4, <2>1, <2>2, <2>3 DEF AcceptedInv
<1>6. ServedInv(c)'
  <2>1. Trusted' = Trusted
    BY <1>1 DEF Trusted
  <2> QED BY <1>2, <1>3, <1>4, <2>1 DEF PartInv, ServedInv, SameSides, Speaking
<1>7. PartInv(c)'
  BY <1>4, <1>5, <1>6 DEF PartInv
<1> QED BY <1>1, <1>2, <1>7, ClientCombine DEF SameSides

LEMMA SaysFirst ==
  ASSUME TcpInv, ConvInv, NEW c \in Client, Goes(c, "sign", "status"),
         ToServer(Main(c), Says("authenticate", 0)), UNCHANGED <<backlog, server>>
  PROVE  Good
<1> DEFINE m == Says("authenticate", 0)
<1>1. TypeOK /\ TokenOf(c)
  BY DEF TcpInv, ClientInv
<1>2. /\ cl[c].pc = "sign" /\ cl'[c].pc = "status"
      /\ \A d \in Client \ {c} : cl'[d] = cl[d]
  BY <1>1, GoesFacts DEF ClientPlace
<1>3. Free(Main(c), HeldBySession(c))
  BY <1>1, <1>2 DEF TokenOf
<1>4. m \in Message /\ m.kind = "authenticate"
  BY MessageFacts
<1> HIDE DEF m
<1>5. /\ SameSides(c) /\ conn'[Main(c)].out = <<>>
      /\ conn'[Main(c)].in \in {<<>>, Append(<<>>, m)}
  BY <1>1, <1>3, <1>4, SayFacts DEF Free, m
<1>6. \A j \in 1 .. Len(conn'[Main(c)].in) : conn'[Main(c)].in[j].kind = "authenticate"
  <2>1. Len(<<>>) = 0 /\ Append(<<>>, m) = <<m>> /\ Len(<<m>>) = 1 /\ <<m>>[1] = m
    OBVIOUS
  <2> QED BY <1>4, <1>5, <2>1
<1>7. Step(c)
  BY <1>2 DEF Step, Still, PlaceOf, ReplyOf, SessionOf, server
<1> QED BY <1>2, <1>3, <1>5, <1>6, <1>7, ClientMoves DEF Free, Speaking

(* The steps of Start, Send and Receive that a message lets the client do. *)
LEMMA StartMaps ==
  ASSUME TcpInv, ConvInv, NEW c \in Client, Start(c)
  PROVE  Good
<1>1. TypeOK /\ UNCHANGED server
  BY DEF TcpInv, Start
<1>2. CASE Goes(c, "connect", "sign") /\ Connect(Main(c))
  BY <1>1, <1>2, NewConnection
<1>3. CASE Goes(c, "connect", "stop") /\ Refused /\ UNCHANGED <<conn, backlog>>
  BY <1>1, <1>3, GoesFacts, ClientOver DEF ClientPlace, Over, PlaceOf
<1>4. CASE /\ Goes(c, "sign", "status")
           /\ ToServer(Main(c), Says("authenticate", 0)) /\ UNCHANGED backlog
  BY <1>1, <1>4, SaysFirst
<1>5. CASE Goes(c, "status", "send") /\ AnswerIn(Main(c)) /\ ReadAnswer(Main(c))
           /\ UNCHANGED backlog
  <2>1. /\ cl[c].pc = "status" /\ cl'[c].pc = "send"
        /\ \A d \in Client \ {c} : cl'[d] = cl[d]
    BY <1>1, <1>5, GoesFacts DEF ClientPlace
  <2>2. Told(c) /\ SameSides(c)
    BY <1>1, <1>5, <2>1, HearFacts DEF Told, AnswerIn
  <2>3. Step(c)
    BY <1>1, <2>1 DEF Step, PlaceOf, ReplyOf, SessionOf, server
  <2> QED BY <1>1, <1>5, <2>1, <2>2, <2>3, ClientMoves DEF Speaking
<1>6. CASE Goes(c, "status", "stop") /\ UNCHANGED <<conn, backlog>>
  BY <1>1, <1>6, GoesFacts, ClientOver DEF ClientPlace, Over, PlaceOf
<1> QED BY <1>1, <1>2, <1>3, <1>4, <1>5, <1>6 DEF Start, ReceiveStatus

LEMMA SendMaps ==
  ASSUME TcpInv, ConvInv, NEW c \in Client, Send(c)
  PROVE  Good
<1>1. TypeOK /\ TokenOf(c) /\ BoundOf(c) /\ UNCHANGED <<backlog, server>>
  BY DEF TcpInv, ClientInv, Send
<1>2. /\ cl[c].pc = "send" /\ cl'[c].pc = "recv"
      /\ \A d \in Client \ {c} : cl'[d] = cl[d]
  BY <1>1, GoesFacts DEF Send, AfterSend, ClientPlace
<1>3. Says("request", cl[c].done + 1) \in Message
  BY <1>1, <1>2, UseFacts, MessageFacts DEF BoundOf, TypeOK, ClientState
<1>4. SameSides(c) /\ conn'[Main(c)].out = <<>>
  BY <1>1, <1>2, <1>3, SayFacts DEF Send, TokenOf, Free
<1>5. Step(c)
  BY <1>1, <1>2, <1>4 DEF Step, PlaceOf, ReplyOf, SessionOf, AnswerIn, server
<1> QED BY <1>1, <1>2, <1>4, <1>5, ClientMoves DEF Speaking, Told

LEMMA ReceiveMaps ==
  ASSUME TcpInv, ConvInv, NEW c \in Client, Receive(c)
  PROVE  Good
<1>1. TypeOK /\ PartInv(c) /\ UNCHANGED <<backlog, server>> /\ cl[c].pc = "recv"
  BY DEF TcpInv, ConvInv, Receive
<1>2. CASE AnswerIn(Main(c)) /\ ReadAnswer(Main(c))
  <2>1. /\ cl'[c].pc \in {"send", "stop"}
        /\ \A d \in Client \ {c} : cl'[d] = cl[d]
    BY <1>1, <1>2 DEF Receive, Goes, TypeOK, ClientState
  <2>2. SameSides(c)
    BY <1>1, <1>2, HearFacts
  <2>3. Step(c)
    BY <1>1, <1>2, <2>1 DEF Step, PlaceOf, ReplyOf, SessionOf, server
  <2> QED BY <1>1, <2>1, <2>2, <2>3, ClientMoves DEF Speaking, Told
<1>3. CASE ClosedByServer(Main(c)) /\ Goes(c, "recv", "stop") /\ UNCHANGED conn
  <2>1. c \notin Trusted
    BY <1>1, <1>3 DEF PartInv, ServedInv, Speaking, ClosedByServer
  <2> QED BY <1>1, <1>3, <2>1, GoesFacts, ClientOver DEF ClientPlace, Over
<1> QED BY <1>2, <1>3 DEF Receive

LEMMA StopClientMaps ==
  ASSUME TcpInv, ConvInv, NEW c \in Client, StopClient(c) \/ Interrupt(c) \/ Kill(c)
  PROVE  Good
<1>1. TypeOK /\ UNCHANGED <<backlog, server>>
  BY DEF TcpInv, StopClient, Interrupt, Kill
<1>2. CASE Goes(c, "stop", "join") /\ Does(Main(c), ClientCloses(conn[Main(c)]))
  <2>1. \A d \in Client \ {c} : conn'[Main(d)] = conn[Main(d)]
    BY <1>1, <1>2, OwnConnection
  <2> QED BY <1>1, <1>2, <2>1, GoesFacts, ClientOver DEF ClientPlace, Over, PlaceOf
<1>3. CASE Goes(c, "join", "ended") /\ UNCHANGED conn
  BY <1>1, <1>3, GoesFacts, ClientOver DEF ClientPlace, Over, PlaceOf
<1>4. CASE Interrupt(c)
  <2>1. c \notin Trusted
    BY <1>4 DEF Interrupt, Trusted
  <2> QED BY <1>1, <1>4, <2>1, GoesFacts, ClientOver DEF Interrupt, ClientPlace, Over
<1>5. CASE Kill(c)
  <2>1. c \notin Trusted
    BY <1>5 DEF Kill, Trusted
  <2>2. cl'[c].pc = "dead" /\ \A d \in Client \ {c} : cl'[d] = cl[d]
    BY <1>1, <1>5 DEF Kill, TypeOK, ClientState
  <2>3. \A d \in Client \ {c} : conn'[Main(d)] = conn[Main(d)]
    BY <1>5, Names DEF Kill
  <2> QED BY <1>1, <2>1, <2>2, <2>3, ClientOver DEF Over
<1> QED BY <1>2, <1>3, <1>4, <1>5 DEF StopClient

LEMMA BeatMaps ==
  ASSUME TcpInv, ConvInv, NEW c \in Client, BeatStep(c) \/ InterruptBeat(c)
  PROVE  Good
<1>1. /\ TypeOK /\ use' = use /\ srv' = srv /\ ses' = ses /\ acc' = acc /\ cl' = cl
      /\ Beat(c) \in Conn
  BY Names DEF TcpInv, BeatStep, WriteBeat, ReadBeat, NextBeat, InterruptBeat, server
<1>2. \A d \in Client : conn'[Main(d)] = conn[Main(d)]
  <2>1. (\E q : Does(Beat(c), q)) \/ conn' = conn
    BY DEF BeatStep, WriteBeat, ReadBeat, NextBeat, InterruptBeat, Connect, ToServer,
           ReadAnswer
  <2> QED BY <1>1, <2>1, Names DEF TypeOK, Does
<1>3. \A d \in Client : Apart(d)
  <2>1. backlog' = backlog \/ backlog' = Append(backlog, Beat(c))
    BY DEF BeatStep, WriteBeat, ReadBeat, NextBeat, InterruptBeat, Connect
  <2> QED BY <1>1, <2>1, BacklogKept, BacklogGrows, Names DEF ConvInv
<1>4. ASSUME NEW d \in Client PROVE Keeps(d) /\ Still(d)
  BY <1>1, <1>2, <1>3, UntouchedKeeps DEF ConvInv, Untouched
<1>5. StopInv'
  BY <1>1 DEF ConvInv, StopInv
<1> QED BY <1>1, <1>4, <1>5, CombineStill

-----------------------------------------------------------------------------
(* The acceptor, and a client whose connection it does not handle; one     *)
(* that has left.                                                          *)
OnlyAcceptor == UNCHANGED <<use, client, srv>>

LEMMA AcceptorElsewhere ==
  ASSUME TcpInv, ConvInv, OnlyAcceptor, backlog' = backlog, NEW d \in Client,
         acc.now # Main(d), ~Handled(d)', (\E q : Does(acc.now, q)) \/ conn' = conn,
         ses'[d] = ses[d]
  PROVE  Keeps(d) /\ Still(d)
<1>1. TypeOK /\ PartInv(d) /\ Main(d) \in Conn /\ use' = use
  BY Names DEF TcpInv, ConvInv, OnlyAcceptor
<1>2. Untouched(d)
  BY <1>1 DEF Untouched, OnlyAcceptor, client, TypeOK, Does
<1>3. Apart(d)
  BY <1>1 DEF Apart, Handled, Waits, Once, PartInv, AcceptedInv
<1> QED BY <1>1, <1>2, <1>3, UntouchedKeeps

LEMMA AcceptorDrops ==
  ASSUME TcpInv, ConvInv, OnlyAcceptor, backlog' = backlog, NEW d \in Client,
         cl[d].pc \in Over, ~Handled(d)', ses'[d] = ses[d]
  PROVE  Keeps(d) /\ Still(d)
<1>1. PartInv(d) /\ cl' = cl /\ use' = use
  BY DEF ConvInv, OnlyAcceptor, client
<1>2. Once(d)' /\ (Waits(d)' => Waits(d)) /\ FlagInv(d)'
  BY <1>1 DEF Waits, Once, PartInv, AcceptedInv, FlagInv
<1>3. cl'[d].pc \notin Speaking /\ cl'[d].pc # "status" /\ ~Told(d)'
  BY <1>1 DEF Over, Speaking, Told
<1>4. Still(d)
  BY <1>1 DEF Still, PlaceOf, ReplyOf, SessionOf, Over
<1> QED BY <1>1, <1>2, <1>3, <1>4 DEF Keeps

LEMMA StopKept == ConvInv /\ OnlyAcceptor => StopInv'
BY DEF ConvInv, StopInv, OnlyAcceptor

LEMMA TakesConnection ==
  ASSUME TcpInv, ConvInv, acc.pc = "accept", backlog # <<>>,
         acc' = [acc EXCEPT !.pc = "read", !.now = Head(backlog)],
         backlog' = Tail(backlog), UNCHANGED <<use, client, ses, lock, srv, conn>>
  PROVE  Good
<1>1. TypeOK /\ OnlyAcceptor /\ use' = use /\ acc'.pc = "read" /\ acc'.now = Head(backlog)
  BY DEF TcpInv, OnlyAcceptor, TypeOK, AcceptorState
<1>2. ASSUME NEW d \in Client PROVE PartInv(d)' /\ Still(d)
  <2>1. /\ PartInv(d) /\ ~Handled(d)
        /\ Handled(d)' <=> Head(backlog) = Main(d)
        /\ Untouched(d)
    BY <1>1 DEF ConvInv, Handled, Untouched, client
  <2>2. /\ Once(d)'
        /\ Waits(d)' => Waits(d) /\ Head(backlog) # Main(d)
        /\ Head(backlog) = Main(d) => Waits(d)
    BY <1>1, <2>1, BacklogShrinks
  <2>3. CASE Head(backlog) # Main(d)
    <3>1. Apart(d)
      BY <2>1, <2>2, <2>3 DEF Apart
    <3> QED BY <1>1, <2>1, <3>1, UntouchedKeeps, KeepsPart
  <2>4. CASE Head(backlog) = Main(d)
    <3>1. /\ ~Told(d) /\ ses[d].pc = "none" /\ cl[d].pc # "connect"
          /\ ~Waits(d)' /\ Handled(d)'
      BY <2>1, <2>2, <2>4 DEF PartInv, AcceptedInv
    <3>2. Still(d)
      BY <2>1 DEF Untouched, Still, PlaceOf, ReplyOf, SessionOf, AnswerIn
    <3>3. /\ ~Told(d)' /\ ses'[d].pc = "none" /\ cl'[d].pc # "connect"
          /\ HeldBySession(d)' <=> HeldBySession(d)
          /\ FlagInv(d)' /\ Trusted' = Trusted
      BY <1>1, <2>1, <3>1 DEF Untouched, Told, HeldBySession, PartInv, FlagInv, Trusted
    <3>4. AcceptedInv(d)'
      BY <1>1, <2>1, <2>2, <3>1, <3>3 DEF PartInv, AcceptedInv, Untouched
    <3>5. ServedInv(d)'
      BY <2>1, <3>3 DEF PartInv, ServedInv, Untouched
    <3> QED BY <3>2, <3>3, <3>4, <3>5 DEF PartInv
  <2> QED BY <2>3, <2>4
<1> QED BY <1>1, <1>2, StopKept, CombineStill

LEMMA TakesMaps ==
  ASSUME TcpInv, ConvInv, acc.pc = "read", RequestIn(acc.now), ReadRequestFrom(acc.now),
         AcceptorGoes("read", IF Head(conn[acc.now].in).kind = "authenticate"
                              THEN "create" ELSE "reply"),
         UNCHANGED <<use, backlog, client, ses, lock, srv>>
  PROVE  Good
<1> DEFINE to == IF Head(conn[acc.now].in).kind = "authenticate" THEN "create" ELSE "reply"
<1>1. TypeOK /\ OnlyAcceptor /\ use' = use /\ to \in {"create", "reply"}
  BY DEF TcpInv, OnlyAcceptor
<1>2. acc'.pc = to /\ acc'.now = acc.now
  BY <1>1, AcceptorGoesFacts DEF AcceptorPlace
<1>3. \E q : Does(acc.now, q)
  BY DEF ReadRequestFrom
<1>4. ASSUME NEW d \in Client, acc.now # Main(d) PROVE Keeps(d) /\ Still(d)
  BY <1>1, <1>2, <1>3, <1>4, AcceptorElsewhere DEF Handled
<1>5. ASSUME NEW d \in Client, acc.now = Main(d) PROVE PartInv(d)' /\ Still(d)
  <2>1. PartInv(d) /\ TokenOf(d) /\ Handled(d) /\ Main(d) \in Conn
    BY <1>5, Names DEF TcpInv, ClientInv, ConvInv, Handled
  <2>2. ~Waits(d) /\ ~Told(d) /\ ses[d].pc = "none" /\ cl[d].pc # "connect"
    BY <2>1 DEF PartInv, AcceptedInv
  <2>3. /\ SameSides(d) /\ conn'[Main(d)].out = conn[Main(d)].out
        /\ conn'[Main(d)].in = Tail(conn[Main(d)].in)
    BY <1>1, <1>5, HearFacts
  <2>4. /\ Len(conn[Main(d)].in) = 1 /\ Tail(conn[Main(d)].in) = <<>>
        /\ Head(conn[Main(d)].in) = conn[Main(d)].in[1]
    BY <1>1, <1>5, <2>1, ConnectionFacts, LastMessage DEF RequestIn, TokenOf, Alone
  <2>5. cl'[d] = cl[d] /\ ses'[d] = ses[d] /\ backlog' = backlog
    BY DEF client
  <2>6. cl[d].pc = "status" => to = "create"
    <3>1. 1 \in 1 .. Len(conn[Main(d)].in)
      BY <2>4
    <3> QED BY <1>5, <2>1, <2>4, <3>1 DEF PartInv, AcceptedInv
  <2>7. Still(d)
    BY <2>3, <2>5 DEF Still, PlaceOf, ReplyOf, SessionOf, AnswerIn
  <2>8. /\ ~Told(d)' /\ ~Waits(d)' /\ Once(d)' /\ FlagInv(d)' /\ ~HeldBySession(d)'
        /\ Trusted' = Trusted
    BY <1>1, <2>1, <2>2, <2>3, <2>5
       DEF Told, Waits, Once, FlagInv, HeldBySession, PartInv, AcceptedInv, Trusted
  <2>9. AcceptedInv(d)'
    BY <1>2, <2>2, <2>3, <2>4, <2>5, <2>6, <2>8, EmptySeq DEF AcceptedInv
  <2>10. ServedInv(d)'
    BY <2>1, <2>3, <2>5, <2>8 DEF PartInv, ServedInv, SameSides
  <2> QED BY <2>7, <2>8, <2>9, <2>10 DEF PartInv
<1> QED BY <1>1, <1>4, <1>5, StopKept, CombineStill

LEMMA DropsMaps ==
  ASSUME TcpInv, ConvInv, OnlyAcceptor, backlog' = backlog, ses' = ses,
         acc'.pc \in {"accept", "ended"}, (\E q : Does(acc.now, q)) \/ conn' = conn,
         \A d \in Client : acc.now = Main(d) => cl[d].pc \in Over
  PROVE  Good
<1>1. ASSUME NEW d \in Client PROVE Keeps(d) /\ Still(d)
  <2>1. ~Handled(d)'
    BY DEF Handled
  <2> QED BY <2>1, AcceptorElsewhere, AcceptorDrops
<1>2. use' = use
  BY DEF OnlyAcceptor
<1> QED BY <1>1, <1>2, StopKept, CombineStill

(* Where a client is that the acceptor handles.                            *)
LEMMA HandledFacts ==
  ASSUME TcpInv, ConvInv, NEW d \in Client, Handled(d)
  PROVE  /\ ~conn[Main(d)].client \/ conn[Main(d)].reset => cl[d].pc \in Over
         /\ acc.pc = "reply" => cl[d].pc \in Over
<1>1. PartInv(d) /\ TokenOf(d) /\ cl[d].pc \in ClientPlace
  BY DEF TcpInv, ConvInv, ClientInv, TypeOK, ClientState
<1>2. cl[d].pc \in Speaking \/ cl[d].pc \in Over
  BY <1>1 DEF PartInv, AcceptedInv, ClientPlace, Speaking, Over
<1>3. ~conn[Main(d)].client \/ conn[Main(d)].reset => cl[d].pc \in Over
  BY <1>1, <1>2 DEF PartInv, ServedInv
<1>4. ASSUME acc.pc = "reply" PROVE cl[d].pc \in Over
  <2>1. ~Told(d) /\ cl[d].pc # "status"
    BY <1>1, <1>4 DEF PartInv, AcceptedInv
  <2>2. HeldByAcceptor(Main(d))
    BY <1>4 DEF Handled, HeldByAcceptor
  <2>3. cl[d].pc # "sign"
    BY <1>1, <2>2 DEF TokenOf, Free
  <2> QED BY <1>2, <2>1, <2>3 DEF Speaking, Told
<1> QED BY <1>3, <1>4

LEMMA AcceptMaps ==
  ASSUME TcpInv, ConvInv, Accept
  PROVE  Good
<1>1. TypeOK /\ UNCHANGED <<use, client, ses, lock, srv>> /\ OnlyAcceptor
  BY DEF TcpInv, Accept, OnlyAcceptor
<1>2. CASE /\ acc.pc = "accept" /\ backlog # <<>>
           /\ acc' = [acc EXCEPT !.pc = "read", !.now = Head(backlog)]
           /\ backlog' = Tail(backlog) /\ UNCHANGED conn
  BY <1>1, <1>2, TakesConnection
<1>3. CASE AcceptorGoes("accept", "ended") /\ UNCHANGED <<conn, backlog>>
  <2>1. acc.pc = "accept" /\ acc'.pc = "ended"
    BY <1>1, <1>3, AcceptorGoesFacts DEF AcceptorPlace
  <2>2. ASSUME NEW d \in Client PROVE Keeps(d) /\ Still(d)
    <3>1. PartInv(d) /\ Untouched(d)
      BY <1>1, <1>3 DEF ConvInv, Untouched, client
    <3>2. Apart(d)
      BY <1>3, <2>1, <3>1 DEF Apart, Handled, Waits, Once, PartInv, AcceptedInv
    <3> QED BY <1>1, <3>1, <3>2, UntouchedKeeps
  <2> QED BY <1>1, <2>2, StopKept, CombineStill
<1>4. CASE /\ acc.pc = "read" /\ RequestIn(acc.now) /\ ReadRequestFrom(acc.now)
           /\ AcceptorGoes("read", IF Head(conn[acc.now].in).kind = "authenticate"
                                   THEN "create" ELSE "reply")
           /\ UNCHANGED backlog
  BY <1>1, <1>4, TakesMaps
<1>5. CASE /\ acc.pc = "read" /\ ClosedByClient(acc.now) /\ CloseServer(acc.now)
           /\ AcceptorGoes("read", "ended") /\ UNCHANGED backlog
  <2>1. acc'.pc = "ended"
    BY <1>1, <1>5, AcceptorGoesFacts DEF AcceptorPlace
  <2>2. \A d \in Client : acc.now = Main(d) => cl[d].pc \in Over
    BY <1>5, HandledFacts DEF Handled, ClosedByClient
  <2>3. \E q : Does(acc.now, q)
    BY <1>5 DEF CloseServer
  <2> QED BY <1>1, <1>5, <2>1, <2>2, <2>3, DropsMaps
<1> QED BY <1>2, <1>3, <1>4, <1>5 DEF Accept

LEMMA ReplyHeartbeatMaps ==
  ASSUME TcpInv, ConvInv, ReplyHeartbeat
  PROVE  Good
<1>1. TypeOK /\ OnlyAcceptor /\ backlog' = backlog /\ ses' = ses
  BY DEF TcpInv, ReplyHeartbeat, OnlyAcceptor
<1>2. acc.pc = "reply" /\ acc'.pc = "accept"
  BY <1>1, AcceptorGoesFacts DEF ReplyHeartbeat, AcceptorPlace
<1>3. \A d \in Client : acc.now = Main(d) => cl[d].pc \in Over
  BY <1>2, HandledFacts DEF Handled
<1>4. \E q : Does(acc.now, q)
  BY DEF ReplyHeartbeat
<1> QED BY <1>1, <1>2, <1>3, <1>4, DropsMaps

(* Sent to a client that is still there.                                   *)
LEMMA SentSides ==
  ASSUME TypeOK, NEW d \in Client, NEW m \in Message
  PROVE  LET q == conn[Main(d)] IN
         /\ Sent(Main(d), m).client = q.client /\ Sent(Main(d), m).server = q.server
         /\ Sent(Main(d), m).in = q.in
         /\ q.client => /\ Sent(Main(d), m).reset = q.reset
                        /\ Sent(Main(d), m).out = Append(q.out, m)
         /\ ~q.client => Sent(Main(d), m).out = q.out
<1> DEFINE q == conn[Main(d)]
<1>1. q \in Connection /\ Main(d) \in Conn
  BY Names, ConnectionFacts
<1>2. Sent(Main(d), m) = IF q.client THEN [q EXCEPT !.out = Append(q.out, m)]
                         ELSE [q EXCEPT !.reset = TRUE]
  BY DEF Sent
<1> HIDE DEF q
<1>3. CASE q.client
  BY <1>1, <1>2, <1>3 DEF Connection, q
<1>4. CASE ~q.client
  BY <1>1, <1>2, <1>4 DEF Connection, q
<1> QED BY <1>3, <1>4

LEMMA ConstructMaps ==
  ASSUME TcpInv, ConvInv, OnlyAcceptor, backlog' = backlog, ses' = ses, ConstructSession
  PROVE  Good
<1>1. TypeOK /\ use' = use /\ srv' = srv /\ cl' = cl
  BY DEF TcpInv, OnlyAcceptor, client
<1>2. acc.pc = "create" /\ acc'.pc = "push" /\ acc'.now = acc.now
  BY <1>1, AcceptorGoesFacts DEF ConstructSession, AcceptorPlace
<1>3. \E q : Does(acc.now, q)
  BY DEF ConstructSession, SendStatusToClient, ToClient
<1>4. ASSUME NEW d \in Client, acc.now # Main(d) PROVE Keeps(d) /\ Still(d)
  BY <1>1, <1>2, <1>3, <1>4, AcceptorElsewhere DEF Handled
<1>5. ASSUME NEW d \in Client, acc.now = Main(d) PROVE PartInv(d)' /\ Still(d)
  <2> DEFINE m == Says("status", 0)
  <2>1. PartInv(d) /\ Handled(d) /\ m \in Message
    BY <1>2, <1>5, MessageFacts DEF ConvInv, Handled
  <2>2. ~Waits(d) /\ ~Told(d) /\ ses[d].pc = "none" /\ cl[d].pc # "connect"
    BY <1>2, <2>1 DEF PartInv, AcceptedInv
  <2>3. Does(Main(d), Sent(Main(d), m))
    BY <1>5 DEF ConstructSession, SendStatusToClient, ToClient
  <2> HIDE DEF m
  <2>4. conn'[Main(d)] = Sent(Main(d), m)
    BY <1>1, <2>3, OwnConnection
  <2>5. /\ conn'[Main(d)].client = conn[Main(d)].client
        /\ conn'[Main(d)].server = conn[Main(d)].server
        /\ conn'[Main(d)].in = conn[Main(d)].in
        /\ conn[Main(d)].client => conn'[Main(d)].reset = conn[Main(d)].reset
    BY <1>1, <2>1, <2>4, SentSides
  <2>6. /\ Handled(d)' /\ ~Waits(d)' /\ Once(d)' /\ FlagInv(d)' /\ ~HeldBySession(d)'
        /\ Trusted' = Trusted
    BY <1>1, <1>2, <1>5, <2>1, <2>2
       DEF Handled, Waits, Once, FlagInv, HeldBySession, PartInv, AcceptedInv, Trusted
  <2>7. Still(d)
    BY <1>1, <2>2 DEF Still, PlaceOf, ReplyOf, SessionOf, Told
  <2>8. AcceptedInv(d)'
    BY <1>1, <1>2, <2>1, <2>2, <2>5, <2>6 DEF PartInv, AcceptedInv
  <2>9. ServedInv(d)'
    BY <1>1, <1>2, <2>1, <2>5, <2>6 DEF PartInv, ServedInv, Served
  <2> QED BY <2>6, <2>7, <2>8, <2>9 DEF PartInv
<1> QED BY <1>1, <1>4, <1>5, StopKept, CombineStill

LEMMA StartsSession ==
  ASSUME TcpInv, ConvInv, OnlyAcceptor, backlog' = backlog, conn' = conn,
         AcceptorGoes("push", "accept"), NEW c \in Client, acc.now = Main(c),
         ses' = [ses EXCEPT ![c].pc = "queued"]
  PROVE  Good
<1>1. /\ TypeOK /\ use' = use /\ srv' = srv /\ cl' = cl
      /\ PartInv(c)
  BY DEF TcpInv, OnlyAcceptor, client, ConvInv
<1>2. acc.pc = "push" /\ acc'.pc = "accept"
  BY <1>1, AcceptorGoesFacts DEF AcceptorPlace
<1>3. /\ ses'[c].pc = "queued" /\ ses'[c].timer = ses[c].timer
      /\ ses'[c].stopped = ses[c].stopped
      /\ \A d \in Client \ {c} : ses'[d] = ses[d]
  BY <1>1 DEF TypeOK, SessionState
<1>4. ~Waits(c) /\ ses[c].pc = "none" /\ cl[c].pc # "connect"
  BY <1>1, <1>2 DEF PartInv, AcceptedInv, Handled
<1>5. \A d \in Client : ~Handled(d)'
  BY <1>2 DEF Handled
<1>6. \A d \in Client \ {c} : Keeps(d) /\ Still(d)
  BY <1>1, <1>3, <1>5, AcceptorElsewhere, Names
<1>7. PartInv(c)'
  <2>1. /\ ~Waits(c)' /\ Once(c)' /\ FlagInv(c)' /\ ~HeldBySession(c)' /\ Served(c)'
        /\ Told(c)' <=> Told(c)
        /\ Trusted' = Trusted
    BY <1>1, <1>3, <1>4
       DEF Waits, Once, FlagInv, HeldBySession, Served, SessionOf, Told, PartInv, AcceptedInv,
           Trusted
  <2>2. AcceptedInv(c)'
    BY <1>1, <1>5, <2>1 DEF PartInv, AcceptedInv
  <2>3. ServedInv(c)'
    BY <1>1, <2>1 DEF PartInv, ServedInv
  <2> QED BY <2>1, <2>2, <2>3 DEF PartInv
<1>8. Step(c)
  BY <1>1, <1>3, <1>4 DEF Step, PlaceOf, ReplyOf, SessionOf, AnswerIn
<1> QED BY <1>1, <1>6, <1>7, <1>8, Combine

LEMMA CreateSessionMaps ==
  ASSUME TcpInv, ConvInv, CreateSession
  PROVE  Good
<1> DEFINE c == acc.now[1]
<1>1. TypeOK /\ OnlyAcceptor /\ backlog' = backlog
  BY DEF TcpInv, CreateSession, OnlyAcceptor
<1>2. CASE ConstructSession /\ UNCHANGED ses
  BY <1>1, <1>2, ConstructMaps
<1>3. CASE /\ AcceptorGoes("push", "accept")
           /\ ses' = [ses EXCEPT ![c].pc = "queued"]
           /\ UNCHANGED conn
  <2>1. acc.pc = "push"
    BY <1>3 DEF AcceptorGoes
  <2>2. c \in Client /\ acc.now \in {Main(c), Beat(c)}
    BY <2>1, Names DEF TcpInv, AcceptorInv
  <2>3. acc.now = Main(c)
    BY <2>1, <2>2 DEF TcpInv, ClientInv, NumberOf
  <2> QED BY <1>1, <1>3, <2>2, <2>3, StartsSession
<1>4. CASE /\ acc.pc = "push" /\ conn[acc.now].reset /\ AcceptorGoes("push", "ended")
           /\ CloseServer(acc.now) /\ UNCHANGED ses
  <2>1. acc'.pc = "ended"
    BY <1>1, <1>4, AcceptorGoesFacts DEF AcceptorPlace
  <2>2. \A d \in Client : acc.now = Main(d) => cl[d].pc \in Over
    BY <1>4, HandledFacts DEF Handled
  <2>3. \E q : Does(acc.now, q)
    BY <1>4 DEF CloseServer
  <2> QED BY <1>1, <1>4, <2>1, <2>2, <2>3, DropsMaps
<1> QED BY <1>2, <1>3, <1>4 DEF CreateSession

-----------------------------------------------------------------------------
(* The session of client c.                                                *)
LEMMA SessionCombine ==
  ASSUME TcpInv, ConvInv, NEW c \in Client, OnlySession, PartInv(c)' \/ Keeps(c), Step(c),
         \A d \in Client \ {c} : ses'[d] = ses[d] /\ conn'[Main(d)] = conn[Main(d)]
  PROVE  Good
<1>1. /\ use' = use /\ srv' = srv /\ cl' = cl /\ UNCHANGED <<backlog, acc>>
  BY DEF OnlySession, client
<1>2. ASSUME NEW d \in Client \ {c} PROVE Keeps(d) /\ Still(d)
  <2>1. PartInv(d) /\ Untouched(d) /\ Apart(d)
    BY <1>1, BacklogKept DEF ConvInv, Untouched
  <2> QED BY <1>1, <2>1, UntouchedKeeps
<1> QED BY <1>1, <1>2, Combine

(* A client that has a session does not come to the acceptor any more.     *)
LEMMA InSession ==
  ASSUME TcpInv, ConvInv, NEW c \in Client, OnlySession, SessionOf(c) = "open"
  PROVE  /\ ~Waits(c) /\ ~Handled(c) /\ ~Waits(c)' /\ ~Handled(c)' /\ Once(c)'
         /\ cl[c].pc \notin {"connect", "sign"} /\ cl'[c] = cl[c] /\ use' = use
         /\ PartInv(c) /\ Trusted' = Trusted
         /\ ~conn[Main(c)].client => cl[c].pc \in Over
<1>1. PartInv(c) /\ NumberOf(c) /\ cl[c].pc \in ClientPlace
  BY DEF TcpInv, ConvInv, ClientInv, TypeOK, ClientState
<1>2. ses[c].pc \notin {"none", "gone"}
  BY DEF SessionOf
<1>3. ~Waits(c) /\ ~Handled(c) /\ cl[c].pc \notin {"connect", "sign"}
  BY <1>1, <1>2 DEF PartInv, AcceptedInv, NumberOf
<1>4. ~Waits(c)' /\ ~Handled(c)' /\ Once(c)' /\ cl'[c] = cl[c] /\ use' = use
  BY <1>1, <1>3 DEF OnlySession, client, Waits, Handled, Once, PartInv, AcceptedInv
<1>5. ~conn[Main(c)].client => cl[c].pc \in Over
  BY <1>1, <1>3 DEF PartInv, ServedInv, ClientPlace, Speaking, Over
<1> QED BY <1>1, <1>3, <1>4, <1>5 DEF Trusted

LEMMA SessionMoves ==
  ASSUME TcpInv, ConvInv, NEW c \in Client, OnlySession, UNCHANGED conn,
         SessionOf(c) = "open", SessionOf(c)' = "open",
         HeldBySession(c)' => HeldBySession(c), FlagInv(c)',
         \A d \in Client \ {c} : ses'[d] = ses[d]
  PROVE  Good
<1>1. Still(c)
  BY InSession DEF Still, PlaceOf, ReplyOf, AnswerIn
<1>2. Told(c)' <=> Told(c)
  BY InSession DEF Told
<1>3. Keeps(c)
  BY <1>2, InSession DEF Keeps, Served
<1> QED BY <1>1, <1>3, SessionCombine DEF Step

LEMMA SessionEnds ==
  ASSUME TcpInv, ConvInv, NEW c \in Client, OnlySession, Ends(c), SessionOf(c) = "open",
         cl[c].pc \in Over \/ c \notin Trusted
  PROVE  Good
<1>1. TypeOK /\ conn[Main(c)] \in Connection /\ Main(c) \in Conn
  BY Names, ConnectionFacts DEF TcpInv
<1>2. /\ conn'[Main(c)].client = conn[Main(c)].client
      /\ conn'[Main(c)].reset = conn[Main(c)].reset
      /\ conn'[Main(c)].in = <<>> /\ conn'[Main(c)].out = conn[Main(c)].out
      /\ \A d \in Client \ {c} : conn'[Main(d)] = conn[Main(d)]
  <2> DEFINE q == ServerCloses(conn[Main(c)])
  <2>1. Does(Main(c), q)
    BY DEF Ends, CloseServer
  <2>2. /\ q.client = conn[Main(c)].client /\ q.reset = conn[Main(c)].reset
        /\ q.in = <<>> /\ q.out = conn[Main(c)].out
    BY <1>1 DEF ServerCloses, Connection
  <2> HIDE DEF q
  <2> QED BY <1>1, <2>1, <2>2, OwnConnection
<1>3. /\ ses'[c].pc = "gone" /\ ses'[c].timer = "idle" /\ ses'[c].stopped = ses[c].stopped
      /\ \A d \in Client \ {c} : ses'[d] = ses[d]
  BY <1>1 DEF Ends, TypeOK, SessionState
<1>4. /\ Told(c)' <=> Told(c)
      /\ ~HeldBySession(c)' /\ FlagInv(c)'
  BY <1>2, <1>3, InSession DEF Told, HeldBySession, FlagInv, PartInv
<1>5. Keeps(c)
  BY <1>2, <1>4, InSession DEF Keeps, Told, Over, Speaking
<1>6. Step(c)
  <2>1. PlaceOf(c)' = PlaceOf(c) /\ ReplyOf(c)' = ReplyOf(c) /\ SessionOf(c)' = "gone"
    BY <1>2, <1>3, InSession DEF PlaceOf, ReplyOf, SessionOf, AnswerIn
  <2>2. PlaceOf(c) = "over" \/ c \notin Trusted
    BY DEF PlaceOf, Over
  <2> QED BY <2>1, <2>2 DEF Step
<1> QED BY <1>2, <1>3, <1>5, <1>6, SessionCombine

LEMMA TakesMapsRequest ==
  ASSUME TcpInv, ConvInv, NEW c \in Client, OnlySession,
         ses[c].pc = "reading", RequestIn(Main(c)), ReadRequestFrom(Main(c)),
         ses' = [ses EXCEPT ![c].pc = "task", ![c].n = Head(conn[Main(c)].in).n]
  PROVE  Good
<1>1. TypeOK /\ SessionOf(c) = "open" /\ TokenOf(c) /\ NumberOf(c)
  BY DEF TcpInv, ClientInv, SessionOf
<1>2. /\ ses'[c].pc = "task" /\ ses'[c].timer = ses[c].timer
      /\ ses'[c].stopped = ses[c].stopped
      /\ \A d \in Client \ {c} : ses'[d] = ses[d]
  BY <1>1 DEF TypeOK, SessionState
<1>3. SameSides(c) /\ conn'[Main(c)].out = conn[Main(c)].out
  BY <1>1, HearFacts
<1>4. cl[c].pc # "status"
  <2>1. 1 \in 1 .. Len(conn[Main(c)].in)
    BY <1>1 DEF RequestIn, TokenOf, Alone
  <2>2. conn[Main(c)].in[1].kind = "request"
    BY <1>1, <2>1 DEF NumberOf, FromClient, SessionOf
  <2> QED BY <2>1, <2>2, <1>1, InSession DEF PartInv, AcceptedInv
<1>5. PartInv(c)'
  <2>1. /\ Told(c)' <=> Told(c)
        /\ Served(c)' /\ FlagInv(c)'
    BY <1>1, <1>2, <1>3, InSession DEF Told, Served, SessionOf, FlagInv, PartInv
  <2>2. AcceptedInv(c)'
    BY <1>1, <1>4, InSession DEF AcceptedInv
  <2>3. ServedInv(c)'
    BY <1>1, <1>3, <2>1, InSession DEF PartInv, ServedInv, SameSides
  <2> QED BY <2>1, <2>2, <2>3 DEF PartInv
<1>6. Still(c)
  BY <1>1, <1>2, <1>3, InSession DEF Still, PlaceOf, ReplyOf, SessionOf, AnswerIn
<1> QED BY <1>2, <1>3, <1>5, <1>6, SessionCombine DEF Step, SameSides

(* The reply is out, and the session waits for another request or goes.    *)
LEMMA Replies ==
  ASSUME TcpInv, ConvInv, NEW c \in Client, OnlySession, ses[c].pc = "writing",
         NEW m \in Message, NEW q, Does(Main(c), q),
         \/ q = Sent(Main(c), m) /\ ses'[c].pc = "readRequest"
         \/ q = ServerCloses(Sent(Main(c), m)) /\ ses'[c].pc = "gone" /\ c \notin Trusted,
         FlagInv(c)', \A d \in Client \ {c} : ses'[d] = ses[d]
  PROVE  Good
<1>1. /\ TypeOK /\ TokenOf(c) /\ SessionOf(c) = "open" /\ HeldBySession(c)
      /\ cl[c].pc \in ClientPlace
  BY DEF TcpInv, ClientInv, SessionOf, HeldBySession, TypeOK, ClientState
<1>2. conn[Main(c)].out = <<>> /\ (cl[c].pc = "recv" \/ cl[c].pc \in Over)
  BY <1>1, InSession DEF TokenOf, Alone, Free, PartInv, AcceptedInv, ClientPlace, Over
<1>3. /\ q.client = conn[Main(c)].client
      /\ c \in Trusted => q.server = conn[Main(c)].server
      /\ q.client => q.reset = conn[Main(c)].reset /\ q.out # <<>>
      /\ ~q.client => q.out = <<>>
  <2> DEFINE r == Sent(Main(c), m)
  <2>1. /\ r.client = conn[Main(c)].client /\ r.server = conn[Main(c)].server
        /\ r.client => r.reset = conn[Main(c)].reset /\ r.out = Append(<<>>, m)
        /\ ~r.client => r.out = <<>>
    BY <1>1, <1>2, SentSides
  <2>2. r \in Connection
    BY <1>1, Names, SentFacts
  <2>3. Append(<<>>, m) # <<>>
    OBVIOUS
  <2> HIDE DEF r
  <2>4. /\ ServerCloses(r).client = r.client /\ ServerCloses(r).reset = r.reset
        /\ ServerCloses(r).out = r.out
    BY <2>2 DEF ServerCloses, Connection
  <2>5. q = r \/ (q = ServerCloses(r) /\ c \notin Trusted)
    BY DEF r
  <2> QED BY <2>1, <2>3, <2>4, <2>5
<1>4. conn'[Main(c)] = q /\ \A d \in Client \ {c} : conn'[Main(d)] = conn[Main(d)]
  BY <1>1, OwnConnection
<1>5. ~HeldBySession(c)' /\ cl'[c].pc = cl[c].pc
  BY InSession, <1>1 DEF HeldBySession
<1>6. c \in Trusted => SessionOf(c)' = "open"
  BY DEF SessionOf
<1>7. cl[c].pc \in Over \/ conn[Main(c)].client
  BY <1>1, InSession
<1>8. Told(c)' <=> Told(c)
  BY <1>2, <1>5 DEF Told, Over
<1>9. Keeps(c)
  BY <1>1, <1>2, <1>3, <1>4, <1>5, <1>6, <1>7, <1>8, InSession
     DEF Keeps, Served, Speaking, Over
<1>10. Step(c)
  <2>1. /\ PlaceOf(c)' = PlaceOf(c)
        /\ SessionOf(c)' = "open" \/ (c \notin Trusted /\ SessionOf(c)' = "gone")
    BY <1>5 DEF PlaceOf, SessionOf
  <2>2. CASE cl[c].pc = "recv"
    <3>1. ReplyOf(c) = "owed" /\ ReplyOf(c)' = "given"
      BY <1>2, <1>3, <1>4, <1>5, <1>7, <2>2 DEF ReplyOf, PlaceOf, AnswerIn, Over
    <3> QED BY <1>1, <2>1, <3>1 DEF Step
  <2>3. CASE cl[c].pc \in Over
    <3>1. ReplyOf(c) = "none" /\ ReplyOf(c)' = "none"
      BY <1>5, <2>3 DEF ReplyOf, PlaceOf, Over
    <3> QED BY <1>1, <2>1, <3>1 DEF Step, Still
  <2> QED BY <1>2, <2>2, <2>3
<1> QED BY <1>4, <1>9, <1>10, SessionCombine

LEMMA WriteReplyMaps ==
  ASSUME TcpInv, ConvInv, NEW c \in Client, WriteReply(c)
  PROVE  Good
<1> DEFINE m == Says("reply", ses[c].n)
<1>1. /\ TypeOK /\ OnlySession /\ ses[c].pc = "writing" /\ SessionOf(c) = "open"
      /\ m \in Message /\ FlagInv(c)
  BY MessageFacts
     DEF TcpInv, WriteReply, TypeOK, SessionState, SessionOf, ConvInv, PartInv
<1>2. CASE /\ ses' = [ses EXCEPT ![c].pc = AfterWrite(c), ![c].timer = "idle"]
           /\ ToClient(Main(c), m)
  <2>1. /\ ses'[c].pc = "readRequest" /\ FlagInv(c)'
        /\ \A d \in Client \ {c} : ses'[d] = ses[d]
    BY <1>1, <1>2 DEF TypeOK, SessionState, AfterWrite, FlagInv, OnlySession
  <2>2. Does(Main(c), Sent(Main(c), m))
    BY <1>2 DEF ToClient
  <2> HIDE DEF m
  <2> QED BY <1>1, <2>1, <2>2, Replies
<1>3. CASE /\ ses[c].timer = "fired" /\ ses' = [ses EXCEPT ![c].pc = "gone"]
           /\ Does(Main(c), ServerCloses(Sent(Main(c), m)))
  <2>1. /\ ses'[c].pc = "gone" /\ FlagInv(c)'
        /\ \A d \in Client \ {c} : ses'[d] = ses[d]
    BY <1>1, <1>3 DEF TypeOK, SessionState, FlagInv, OnlySession
  <2>2. c \notin Trusted
    BY <1>1, <1>3 DEF FlagInv, Trusted
  <2> HIDE DEF m
  <2> QED BY <1>1, <1>3, <2>1, <2>2, Replies
<1>4. CASE ~conn[Main(c)].client /\ Ends(c)
  BY <1>1, <1>4, InSession, SessionEnds
<1> QED BY <1>2, <1>3, <1>4 DEF WriteReply

LEMMA SessionMaps ==
  ASSUME TcpInv, ConvInv, NEW c \in Client, SessionStep(c) \/ TimerFires(c)
  PROVE  Good
<1>1. TypeOK /\ FlagInv(c)
  BY DEF TcpInv, ConvInv, PartInv
<1>2. ASSUME OnlySession, UNCHANGED conn,
             NEW from \in SessionPlace \ {"none", "gone"},
             NEW to \in SessionPlace \ {"none", "gone"},
             SessionGoes(c, from, to),
             to \in {"task", "sendReply", "writing"} => from \in {"task", "sendReply", "writing"}
      PROVE  Good
  <2>1. /\ ses[c].pc = from /\ ses'[c].pc = to /\ ses'[c].timer = ses[c].timer
        /\ ses'[c].stopped = ses[c].stopped
        /\ \A d \in Client \ {c} : ses'[d] = ses[d]
    BY <1>1, <1>2 DEF SessionGoes, TypeOK, SessionState
  <2> QED BY <1>1, <1>2, <2>1, SessionMoves DEF SessionOf, HeldBySession, FlagInv, OnlySession
<1>3. CASE Run(c)
  BY <1>2, <1>3 DEF Run, SessionPlace
<1>4. CASE OnlySession /\ StartRead(c) /\ UNCHANGED conn
  BY <1>2, <1>4 DEF StartRead, SessionPlace
<1>5. CASE /\ OnlySession /\ ses[c].pc = "reading" /\ RequestIn(Main(c))
           /\ ReadRequestFrom(Main(c))
           /\ ses' = [ses EXCEPT ![c].pc = "task", ![c].n = Head(conn[Main(c)].in).n]
  BY <1>5, TakesMapsRequest
<1>6. CASE ReadFails(c)
  <2>1. OnlySession /\ Ends(c) /\ SessionOf(c) = "open" /\ ~conn[Main(c)].client
    BY <1>6 DEF ReadFails, SeesClose, ClosedByClient, SessionOf
  <2> QED BY <2>1, InSession, SessionEnds
<1>7. CASE OnlySession /\ SessionGoes(c, "task", "sendReply") /\ UNCHANGED conn
  BY <1>2, <1>7 DEF SessionPlace
<1>8. CASE OnlySession /\ c \in use.faulty /\ ses[c].pc = "task" /\ Ends(c)
  BY <1>8, SessionEnds DEF SessionOf, Trusted
<1>9. CASE SendReply(c) \/ TimerFires(c)
  <2>1. /\ OnlySession /\ UNCHANGED conn /\ ses[c].pc \in {"sendReply", "writing"}
        /\ ses'[c].pc = "writing" /\ ses'[c].stopped = ses[c].stopped
        /\ ses'[c].timer = "fired" => c \in use.slow
        /\ \A d \in Client \ {c} : ses'[d] = ses[d]
    BY <1>1, <1>9 DEF SendReply, TimerFires, TypeOK, SessionState
  <2>2. FlagInv(c)'
    BY <1>1, <2>1 DEF FlagInv, OnlySession
  <2> QED BY <2>1, <2>2, SessionMoves DEF HeldBySession, SessionOf
<1>10. CASE WriteReply(c)
  BY <1>10, WriteReplyMaps
<1>11. CASE StopSession(c)
  <2>1. OnlySession /\ Ends(c) /\ SessionOf(c) = "open" /\ c \notin Trusted
    BY <1>1, <1>11 DEF StopSession, LoopStops, SessionOf, FlagInv, Trusted
  <2> QED BY <2>1, SessionEnds
<1> QED BY <1>3, <1>4, <1>5, <1>6, <1>7, <1>8, <1>9, <1>10, <1>11
        DEF SessionStep, ReadRequest, ProcessTask

-----------------------------------------------------------------------------
(* The server; when it goes, nobody can be trusted.                        *)
LEMMA ServerDrops ==
  ASSUME TcpInv, ConvInv, Trusted = {}, UNCHANGED <<use, client>>, StopInv', backlog' = <<>>,
         conn' = [k \in Conn |-> ServerCloses(conn[k])],
         acc' = acc \/ acc'.pc = "ended",
         \A d \in Client :
           /\ ses'[d].pc = IF ses[d].pc = "none" THEN "none" ELSE "gone"
           /\ ses'[d].timer = ses[d].timer /\ ses'[d].stopped = ses[d].stopped
  PROVE  Good
<1>1. /\ TypeOK /\ use' = use /\ cl' = cl /\ Trusted' = {}
      /\ \A d \in Client : PartInv(d)
  BY DEF TcpInv, ConvInv, client, Trusted
<1>2. ASSUME NEW d \in Client
      PROVE  /\ conn'[Main(d)].client = conn[Main(d)].client
             /\ conn'[Main(d)].reset = conn[Main(d)].reset
             /\ conn'[Main(d)].in = <<>> /\ conn'[Main(d)].out = conn[Main(d)].out
  <2>1. Main(d) \in Conn /\ conn[Main(d)] \in Connection
    BY <1>1, Names, ConnectionFacts
  <2>2. conn'[Main(d)] = ServerCloses(conn[Main(d)])
    BY <2>1
  <2> QED BY <2>1, <2>2 DEF ServerCloses, Connection
<1>3. ASSUME NEW d \in Client PROVE PartInv(d)'
  <2>1. Once(d)' /\ ~Waits(d)'
    BY EmptySeq DEF Once, Waits
  <2>2. /\ Handled(d)' => Handled(d) /\ acc' = acc
        /\ Told(d)' <=> Told(d)
        /\ ~HeldBySession(d)' /\ FlagInv(d)'
    BY <1>1, <1>2 DEF Handled, Told, HeldBySession, PartInv, FlagInv
  <2>3. Keeps(d)
    BY <1>1, <1>2, <2>1, <2>2 DEF Keeps, PartInv, AcceptedInv
  <2> QED BY <1>1, <2>3, KeepsPart
<1>4. C!Stop
  <2>1. \A d \in Client :
          /\ PlaceOf(d)' = PlaceOf(d) /\ ReplyOf(d)' = ReplyOf(d)
          /\ SessionOf(d)' = IF SessionOf(d) = "open" THEN "gone" ELSE SessionOf(d)
    BY <1>1, <1>2 DEF PlaceOf, ReplyOf, SessionOf, AnswerIn
  <2> DEFINE reply == [d \in Client |-> ReplyOf(d)]
  <2>2. {} \in SUBSET {d \in Client : reply[d] = "given"}
    OBVIOUS
  <2>3. reply' = [d \in Client |-> IF d \in {} THEN "owed" ELSE reply[d]]
    BY <2>1
  <2> QED BY <1>1, <2>1, <2>2, <2>3 DEF C!Stop
<1> QED BY <1>3, <1>4 DEF Good, ConvInv, C!Next

LEMMA StartFailsMaps ==
  ASSUME TcpInv, ConvInv, StartFails
  PROVE  Good
<1>1. TypeOK
  BY DEF TcpInv
<1>2. /\ Trusted = {} /\ UNCHANGED <<use, client>> /\ StopInv' /\ backlog' = <<>>
      /\ conn' = [k \in Conn |-> ServerCloses(conn[k])]
  BY DEF StartFails, Trusted, StopInv, ServerGoes, DestroyPools
<1>3. acc'.pc = "ended"
  BY <1>1 DEF StartFails, DestroyPools, TypeOK, AcceptorState
<1>4. \A d \in Client :
        /\ ses'[d].pc = IF ses[d].pc = "none" THEN "none" ELSE "gone"
        /\ ses'[d].timer = ses[d].timer /\ ses'[d].stopped = ses[d].stopped
  BY <1>1 DEF StartFails, DestroyPools, TypeOK, SessionState
<1> QED BY <1>2, <1>3, <1>4, ServerDrops

LEMMA ServerMaps ==
  ASSUME TcpInv, ConvInv, Stop \/ ServerStep
  PROVE  Good
<1>1. TypeOK /\ StopInv /\ UNCHANGED <<use, client>> /\ use' = use /\ cl' = cl
  BY DEF TcpInv, ConvInv, Stop, ServerStep, StartServer, StopSessions, StopAcceptor, Join, client
<1>2. ASSUME StopInv', UNCHANGED <<backlog, conn>>,
             acc' = acc \/ (acc.pc = "none" /\ acc'.pc = "accept")
                        \/ (acc'.pc = acc.pc /\ acc'.now = acc.now),
             \A d \in Client : /\ ses'[d].pc = ses[d].pc /\ ses'[d].timer = ses[d].timer
                               /\ ses'[d].stopped => ses[d].stopped \/ use.stop
      PROVE  Good
  <2>1. ASSUME NEW d \in Client PROVE Keeps(d) /\ Still(d)
    <3>1. PartInv(d) /\ FlagInv(d)'
      BY <1>1, <1>2 DEF ConvInv, PartInv, FlagInv
    <3>2. Apart(d)
      BY <1>2, <3>1 DEF Apart, Handled, Waits, Once, PartInv, AcceptedInv
    <3>3. Still(d)
      BY <1>1, <1>2 DEF Still, PlaceOf, ReplyOf, SessionOf, AnswerIn
    <3>4. /\ Told(d)' <=> Told(d)
          /\ HeldBySession(d)' <=> HeldBySession(d)
      BY <1>1, <1>2 DEF Told, HeldBySession
    <3> QED BY <1>1, <1>2, <3>1, <3>2, <3>3, <3>4 DEF Keeps, Apart, Still, Served
  <2> QED BY <1>1, <1>2, <2>1, CombineStill
<1>3. CASE StartServer
  <2>1. acc' = acc \/ (acc.pc = "none" /\ acc'.pc = "accept")
    BY <1>1, <1>3, AcceptorGoesFacts DEF StartServer, AcceptorPlace
  <2>2. StopInv'
    BY <1>1, <1>3 DEF StartServer, ServerGoes, StopInv
  <2> QED BY <1>2, <1>3, <2>1, <2>2 DEF StartServer
<1>4. CASE Stop
  BY <1>2, <1>4 DEF Stop, StopInv
<1>5. CASE StopSessions
  <2>1. use.stop /\ StopInv' /\ UNCHANGED <<backlog, conn, acc>>
    BY <1>1, <1>5 DEF StopSessions, ServerGoes, StopInv
  <2>2. \A d \in Client : ses'[d].pc = ses[d].pc /\ ses'[d].timer = ses[d].timer
    BY <1>1, <1>5 DEF StopSessions, TypeOK, SessionState
  <2> QED BY <1>2, <2>1, <2>2
<1>6. CASE StopAcceptor
  <2>1. StopInv' /\ UNCHANGED <<backlog, conn, ses>>
    BY <1>1, <1>6 DEF StopAcceptor, ServerGoes, StopInv
  <2>2. acc'.pc = acc.pc /\ acc'.now = acc.now
    BY <1>1, <1>6 DEF StopAcceptor, TypeOK, AcceptorState
  <2> QED BY <1>2, <2>1, <2>2
<1>7. CASE Join /\ ServerGoes("joinAcceptor", "joinPool") /\ UNCHANGED <<conn, backlog, ses>>
  <2>1. StopInv' /\ UNCHANGED acc
    BY <1>1, <1>7 DEF Join, ServerGoes, StopInv
  <2> QED BY <1>2, <1>7, <2>1
<1>8. CASE /\ Join /\ ServerGoes("joinPool", "down")
           /\ \A c \in Client : ses[c].pc \in {"none", "queued", "gone"}
           /\ ses' = [c \in Client |->
                       [ses[c] EXCEPT !.pc = IF @ = "queued" THEN "gone" ELSE @]]
           /\ conn' = [k \in Conn |-> ServerCloses(conn[k])]
           /\ backlog' = <<>>
  <2>1. Trusted = {} /\ StopInv' /\ acc' = acc
    BY <1>1, <1>8 DEF Join, ServerGoes, StopInv, Trusted
  <2>2. \A d \in Client :
          /\ ses'[d].pc = IF ses[d].pc = "none" THEN "none" ELSE "gone"
          /\ ses'[d].timer = ses[d].timer /\ ses'[d].stopped = ses[d].stopped
    BY <1>1, <1>8 DEF TypeOK, SessionState
  <2> QED BY <1>1, <1>8, <2>1, <2>2, ServerDrops
<1> QED BY <1>3, <1>4, <1>5, <1>6, <1>7, <1>8 DEF ServerStep, Join

-----------------------------------------------------------------------------
LEMMA ConvInit == Init => ConvInv /\ C!Init
<1> SUFFICES ASSUME Init PROVE ConvInv /\ C!Init
  OBVIOUS
<1>1. ASSUME NEW c \in Client PROVE PartInv(c)
  <2>1. AcceptedInv(c)
    BY EmptySeq DEF Init, AcceptedInv, Once, Waits, Handled
  <2>2. ServedInv(c)
    BY DEF Init, ServedInv, Speaking, Told
  <2>3. FlagInv(c)
    BY DEF Init, FlagInv
  <2> QED BY <2>1, <2>2, <2>3 DEF PartInv
<1>2. StopInv
  BY DEF Init, StopInv
<1>3. C!Init
  BY DEF Init, C!Init, Trusted, PlaceOf, ReplyOf, SessionOf
<1> QED BY <1>1, <1>2, <1>3 DEF ConvInv

LEMMA ConvNext == TcpInv /\ ConvInv /\ [Next]_vars => Good
<1> SUFFICES ASSUME TcpInv, ConvInv, [Next]_vars PROVE Good
  OBVIOUS
<1>1. ASSUME NEW c \in Client, ClientStep(c) \/ Interrupt(c) \/ Kill(c) PROVE Good
  BY <1>1, StartMaps, SendMaps, ReceiveMaps, StopClientMaps DEF ClientStep
<1>2. ASSUME NEW c \in Client, BeatStep(c) \/ InterruptBeat(c) PROVE Good
  BY <1>2, BeatMaps
<1>3. ASSUME NEW c \in Client, SessionStep(c) \/ TimerFires(c) PROVE Good
  BY <1>3, SessionMaps
<1>4. CASE AcceptorStep
  BY <1>4, AcceptMaps, ReplyHeartbeatMaps, CreateSessionMaps DEF AcceptorStep
<1>5. CASE StartFails \/ Stop \/ ServerStep
  BY <1>5, StartFailsMaps, ServerMaps
<1>6. CASE UNCHANGED vars
  <2>1. use' = use /\ StopInv'
    BY <1>6 DEF vars, server, ConvInv, StopInv
  <2>2. ASSUME NEW d \in Client PROVE Keeps(d) /\ Still(d)
    <3>1. PartInv(d) /\ Untouched(d) /\ Apart(d)
      BY <1>6, BacklogKept DEF vars, client, server, ConvInv, Untouched
    <3> QED BY <2>1, <3>1, UntouchedKeeps
  <2> QED BY <2>1, <2>2, CombineStill
<1> QED BY <1>1, <1>2, <1>3, <1>4, <1>5, <1>6 DEF Next

(* A connection comes to TcpAcceptor once, its client keeps both sides     *)
(* open while it converses, and has a session from its status on.          *)
THEOREM ConversationInvariant == Spec => []ConvInv
<1>1. Init => ConvInv
  BY ConvInit
<1>2. TcpInv /\ ConvInv /\ [Next]_vars => ConvInv'
  BY ConvNext DEF Good
<1> QED BY <1>1, <1>2, TcpInvariant, PTL DEF Spec

(* The safety of ImplementsConversation: TcpClient, TcpAcceptor and        *)
(* TcpSession never break off the conversation of a client that can be     *)
(* trusted, answer each request once, and do not close before it leaves.   *)
THEOREM ImplementsSafety == Spec => C!SafeSpec
<1>1. Init => C!Init
  BY ConvInit
<1>2. TcpInv /\ ConvInv /\ [Next]_vars => [C!Next]_(C!vars)
  BY ConvNext DEF Good
<1> QED BY <1>1, <1>2, TcpInvariant, ConversationInvariant, PTL DEF Spec, C!SafeSpec

=============================================================================
