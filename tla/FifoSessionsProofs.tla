------------------------- MODULE FifoSessionsProofs -------------------------
(***************************************************************************)
(* Types, OwnSession and InStep of the fifo conversation and, in the       *)
(* second half, ReaderIsAddressee and the safety of Conversation, for any  *)
(* clients and any uses, late threads, crash and restart included.         *)
(*                                                                         *)
(* The clients meet in the pipe of the acceptor, where everybody may read  *)
(* what anybody has written.  EngagedInv: who holds the named mutex of the *)
(* server that runs is alone there, and who holds the one of a server that *)
(* crashed will not come again.  TokenInv: what is in that pipe, and what  *)
(* the acceptor makes of it (AcceptorInv), is about this client, as long   *)
(* as it has not been answered; only a server that is stopped lets it go,  *)
(* and then the acceptor takes nobody else.  In its own pipe a client and  *)
(* its session pass one message to one another (StepInv).                  *)
(***************************************************************************)
EXTENDS FifoSessions, SequenceTheorems, TLAPS

(* Where a client holds the named mutex, where it uses its own pipe, where *)
(* it sends no more, and where the acceptor is busy with a client.         *)
Starting == {"sign", "signWrite", "signClose", "status", "statusRead", "statusClose"}
Talking ==
  {"send", "exitOpen", "exitClose", "remove", "sendOpen", "sendWrite", "sendClose",
   "sendCheck", "recv", "recvRead", "recvClose", "dtor", "dtorOpen", "dtorClose"}
Done == {"dtor", "dtorOpen", "dtorClose", "ended", "dead"}
Serving == {"create", "statusOpen", "statusWrite", "statusClose", "mkfifo", "push"}

A == pipe[Acceptor]
Readers == A.opening \cup A.reading
(* The named mutex of the server that runs: a restart makes another.       *)
Era == IF srv.again THEN 2 ELSE 1

(* It uses the pipe of the acceptor, or is about to read from it.          *)
Engaged(c) ==
  \/ cl[c].pc \in {"signWrite", "signClose", "status"}
  \/ cl[c].pc \in {"statusRead", "statusClose"} /\ c \in Readers

(* It has signed, and holds the mutex.                                     *)
Signed(d) ==
  /\ cl[d].pc \in {"signClose", "status", "statusRead", "dead"}
  /\ cl[d].of = Era /\ mutex[Era] = d

(* The server and its acceptor: the pipe is there until the stop is over,  *)
(* and the named mutex is made anew once, after a crash.                   *)
ServerInv ==
  /\ acc.pc \in Serving => acc.for \in Client
  /\ srv.pc \in {"exitOpen", "exitClose"} => srv.now \in Client
  /\ srv.named = IF srv.again \/ srv.pc = "down" THEN 2 ELSE 1
  /\ srv.again => srv.pc = "up"
  /\ A.linked <=> srv.pc # "down"
  /\ acc.stopped <=>
       srv.pc \in {"accOpen", "accClose", "joinAcceptor", "joinPool", "down"}
  /\ srv.pc \in {"joinPool", "down", "crashed"} => acc.pc = "ended"

(* Who has the pipe of the acceptor open stands where it is used.          *)
EndsInv ==
  /\ Readers \subseteq Client \cup {Acceptor}
  /\ A.writers \subseteq Client \cup {Acceptor, Server}
  /\ \A c \in Client : c \in Readers => cl[c].pc \in {"statusRead", "statusClose"}
  /\ \A c \in Client : c \in A.writers => cl[c].pc \in {"signWrite", "signClose"}
  /\ Acceptor \in Readers => acc.pc \in {"read", "close"}
  /\ Acceptor \in A.writers <=> acc.pc \in {"statusWrite", "statusClose"}
  /\ Server \in A.writers => srv.pc = "accClose"

(* A named mutex is held by a client that starts, or by one that died.     *)
MutexInv ==
  \A k \in Number : mutex[k] # None =>
    mutex[k] \in Client /\ cl[mutex[k]].of = k /\ cl[mutex[k]].pc \in Starting \cup {"dead"}

(* A client knows its pipe from the status on, and has requests left.      *)
NameInv(c) ==
  /\ cl[c].pc \notin Done => cl[c].done < use.requests
  /\ cl[c].name \in {None, c}
  /\ cl[c].pc \in {"start", "lock"} \cup (Starting \ {"statusClose"}) => cl[c].name = None
  /\ cl[c].pc \in Talking => cl[c].name = c

(* A client that starts holds the mutex it has found; one that found the   *)
(* mutex of the server that crashed is not in the pipe of the next.        *)
EngagedInv(c) ==
  /\ cl[c].pc \in Starting => mutex[cl[c].of] = c
  /\ cl[c].pc = "statusClose" => c \in A.reading
  /\ cl[c].of <= srv.named
  /\ Engaged(c) => cl[c].of = Era
  /\ srv.again /\ cl[c].of = 1 =>
       /\ cl[c].pc \notin {"sign", "signWrite", "signClose", "status", "statusClose"}
       /\ c \notin Readers
       /\ cl[c].pc = "lock" => mutex[1] # None

Only(d) == \A c \in Client : Engaged(c) => c = d

(* A message in the pipe of the acceptor, and what the acceptor is at.     *)
Current(m) ==
  /\ m.kind = "signature" /\ A.linked =>
       /\ Signed(m.id) /\ acc.pc # "statusClose"
       /\ ~acc.stopped => m.id \notin A.reading
  /\ m.kind = "status" => Only(m.id) /\ (A.linked => Signed(m.id))

(* While it serves a client the acceptor finds nothing else in its pipe.   *)
AcceptorInv ==
  /\ acc.pc \in {"create", "statusOpen", "statusWrite"} =>
       A.data = <<>> /\ Only(acc.for) /\ cl[acc.for].pc # "statusClose"
  /\ acc.pc = "close" /\ acc.for # None /\ ~acc.stopped =>
       A.data = <<>> /\ Signed(acc.for) /\ acc.for \notin A.reading

TokenInv == AcceptorInv /\ \A j \in 1 .. Len(A.data) : Current(A.data[j])

Held == {"close", "task", "reply", "replyOpen", "replyWrite"}
Holding(c) == ses[c].pc \in Held
Waiting == {"sendClose", "recv", "recvRead"} \cup Done

(* The message is in the pipe or with the session, and has the number of   *)
(* the request the client is at.                                           *)
StepInv(c) ==
  /\ cl[c].pc \notin Waiting => pipe[c].data = <<>> /\ ~Holding(c)
  /\ pipe[c].data # <<>> => ~Holding(c)
  /\ Holding(c) => ses[c].n = cl[c].done + 1
  /\ \A j \in 1 .. Len(pipe[c].data) : pipe[c].data[j].n = cl[c].done + 1

StartInv ==
  ServerInv /\ EndsInv /\ MutexInv /\ TokenInv /\ \A c \in Client : NameInv(c) /\ EngagedInv(c)

FifoInv == TypeOK /\ StartInv /\ \A c \in Client : StepInv(c)

-----------------------------------------------------------------------------
LEMMA Names ==
  /\ Acceptor \notin Client /\ Server \notin Client /\ None \notin Client
  /\ Acceptor # Server /\ Acceptor # None /\ Server # None
  /\ Acceptor \in Pipe /\ Acceptor \in Process /\ Server \in Process
  /\ \A c \in Client : c \in Pipe /\ c \in Process /\ Session(c) \in Process /\ c # Acceptor
BY FifoAssumption DEF FifoAssumption, Pipe, Process

LEMMA UseFacts ==
  ASSUME TypeOK
  PROVE  use.requests \in Nat /\ use.requests <= MaxRequests /\ MaxRequests \in Nat
BY FifoAssumption DEF TypeOK, FifoAssumption, Use

APipe == PipeType(Process, Message)
ClientState == [pc : ClientPlace, of : Number, name : Client \cup {None},
                done : 0 .. MaxRequests, closeFlag : BOOLEAN]
AcceptorState == [pc : AcceptorPlace, stopped : BOOLEAN, for : Client \cup {None}]
SessionState == [pc : SessionPlace, stopped : BOOLEAN, n : 0 .. MaxRequests]
ServerState == [pc : ServerPlace, todo : SUBSET Client, now : Client \cup {None},
                named : Number, again : BOOLEAN]

LEMMA Types ==
  TypeOK <=>
    /\ use \in Uses
    /\ pipe \in [Pipe -> APipe]
    /\ mutex \in [Number -> Client \cup {None}]
    /\ cl \in [Client -> ClientState]
    /\ acc \in AcceptorState
    /\ ses \in [Client -> SessionState]
    /\ lock \in {Acceptor, Server, None}
    /\ srv \in ServerState
BY DEF TypeOK, APipe, ClientState, AcceptorState, SessionState, ServerState

LEMMA TypesNext ==
  ASSUME use' \in Uses, pipe' \in [Pipe -> APipe], mutex' \in [Number -> Client \cup {None}],
         cl' \in [Client -> ClientState], acc' \in AcceptorState,
         ses' \in [Client -> SessionState], lock' \in {Acceptor, Server, None},
         srv' \in ServerState
  PROVE  TypeOK'
BY DEF TypeOK, APipe, ClientState, AcceptorState, SessionState, ServerState

(* What the operations of a pipe do to it.                                 *)
LEMMA PipeParts ==
  ASSUME NEW q \in APipe
  PROVE  /\ q.linked \in BOOLEAN /\ q.opening \subseteq Process /\ q.reading \subseteq Process
         /\ q.writers \subseteq Process /\ q.data \in Seq(Message) /\ Len(q.data) \in Nat
BY LenProperties DEF APipe, PipeType

LEMMA NewPipeFacts ==
  /\ NewPipe \in APipe /\ NewPipe.data = <<>> /\ ~NewPipe.linked
  /\ NewPipe.opening = {} /\ NewPipe.reading = {} /\ NewPipe.writers = {}
<1>1. <<>> \in Seq(Message)
  OBVIOUS
<1> QED BY <1>1 DEF NewPipe, APipe, PipeType

LEMMA LinkFacts ==
  ASSUME NEW q \in APipe
  PROVE  \A r \in {Link(q), Unlink(q)} :
           /\ r \in APipe /\ r.data = q.data /\ r.opening = q.opening
           /\ r.reading = q.reading /\ r.writers = q.writers
           /\ r.linked <=> r = Link(q)
<1>1. /\ Link(q) \in APipe /\ Link(q).linked = TRUE /\ Link(q).data = q.data
      /\ Link(q).opening = q.opening /\ Link(q).reading = q.reading /\ Link(q).writers = q.writers
  BY DEF Link, APipe, PipeType
<1>2. /\ Unlink(q) \in APipe /\ Unlink(q).linked = FALSE /\ Unlink(q).data = q.data
      /\ Unlink(q).opening = q.opening /\ Unlink(q).reading = q.reading
      /\ Unlink(q).writers = q.writers
  BY DEF Unlink, APipe, PipeType
<1> QED BY <1>1, <1>2

LEMMA OpenReadFacts ==
  ASSUME NEW q \in APipe, NEW i \in Process
  PROVE  LET r == OpenRead(q, i) IN
         /\ r \in APipe /\ r.data = q.data /\ r.linked = q.linked /\ r.writers = q.writers
         /\ r.opening \cup r.reading = q.opening \cup q.reading \cup {i}
         /\ r.reading \subseteq q.reading \cup {i} /\ q.reading \subseteq r.reading
         /\ q.writers = {} => r.reading = q.reading
<1> DEFINE r == OpenRead(q, i)
<1>1. CASE q.writers = {}
  <2>1. r = [q EXCEPT !.opening = @ \cup {i}]
    BY <1>1 DEF OpenRead
  <2> QED BY <1>1, <2>1 DEF APipe, PipeType
<1>2. CASE q.writers # {}
  <2>1. r = [q EXCEPT !.reading = @ \cup {i}]
    BY <1>2 DEF OpenRead
  <2> QED BY <1>2, <2>1 DEF APipe, PipeType
<1> QED BY <1>1, <1>2

LEMMA OpenWriteFacts ==
  ASSUME NEW q \in APipe, NEW i \in Process
  PROVE  LET r == OpenWrite(q, i) IN
         /\ r \in APipe /\ r.data = q.data /\ r.linked = q.linked
         /\ r.writers = q.writers \cup {i}
         /\ r.opening = {} /\ r.reading = q.opening \cup q.reading
BY DEF OpenWrite, APipe, PipeType

LEMMA PutFacts ==
  ASSUME NEW q \in APipe, NEW m \in Message
  PROVE  /\ Put(q, m) \in APipe /\ Put(q, m).data = Append(q.data, m)
         /\ Put(q, m).linked = q.linked /\ Put(q, m).writers = q.writers
         /\ Put(q, m).opening = q.opening /\ Put(q, m).reading = q.reading
BY AppendProperties DEF Put, APipe, PipeType

LEMMA DrainFacts ==
  ASSUME NEW q \in APipe
  PROVE  /\ Drain(q) \in APipe /\ Drain(q).data = <<>>
         /\ Drain(q).linked = q.linked /\ Drain(q).writers = q.writers
         /\ Drain(q).opening = q.opening /\ Drain(q).reading = q.reading
<1>1. <<>> \in Seq(Message)
  OBVIOUS
<1> QED BY <1>1 DEF Drain, APipe, PipeType

LEMMA CloseAllFacts ==
  ASSUME NEW q \in APipe, NEW who
  PROVE  LET r == CloseAll(q, who) IN
         /\ r \in APipe /\ r.data \in {q.data, <<>>} /\ r.linked = q.linked
         /\ r.writers = q.writers \ who /\ r.opening = q.opening \ who
         /\ r.reading = q.reading \ who
<1> DEFINE r == [q EXCEPT !.opening = @ \ who, !.reading = @ \ who, !.writers = @ \ who]
<1>1. /\ r \in APipe /\ r.data = q.data /\ r.linked = q.linked
      /\ r.writers = q.writers \ who /\ r.opening = q.opening \ who
      /\ r.reading = q.reading \ who
  BY DEF APipe, PipeType
<1>2. CloseAll(q, who) \in {r, Drain(r)}
  BY DEF CloseAll
<1> HIDE DEF r
<1> QED BY <1>1, <1>2, DrainFacts

LEMMA CloseFacts ==
  ASSUME NEW q \in APipe, NEW i
  PROVE  LET r == Close(q, i) IN
         /\ r \in APipe /\ r.data \in {q.data, <<>>} /\ r.linked = q.linked
         /\ r.writers = q.writers \ {i} /\ r.opening = q.opening \ {i}
         /\ r.reading = q.reading \ {i}
<1>1. Close(q, i) = CloseAll(q, {i})
  BY DEF Close, CloseAll
<1> QED BY <1>1, CloseAllFacts

-----------------------------------------------------------------------------
(* What a step does to the part of the state it names.                     *)
Sets(p, q) ==
  pipe' \in [Pipe -> APipe] /\ pipe'[p] = q /\ \A r \in Pipe \ {p} : pipe'[r] = pipe[r]

LEMMA DoesFacts ==
  ASSUME TypeOK, NEW p \in Pipe, NEW q \in APipe, Does(p, q)
  PROVE  Sets(p, q)
BY Types DEF Does, Sets

(* Client c goes to a place, and keeps all but its place.                  *)
Moves(c, to) ==
  /\ cl' \in [Client -> ClientState]
  /\ cl'[c].pc = to /\ cl'[c].of = cl[c].of /\ cl'[c].name = cl[c].name
  /\ cl'[c].done = cl[c].done
  /\ \A d \in Client \ {c} : cl'[d] = cl[d]

LEMMA GoesFacts ==
  ASSUME TypeOK, NEW c \in Client, NEW from, NEW to \in ClientPlace, Goes(c, from, to)
  PROVE  cl[c].pc = from /\ Moves(c, to)
<1> DEFINE r == [cl[c] EXCEPT !.pc = to]
<1>1. cl[c] \in ClientState
  BY Types
<1>2. /\ r \in ClientState /\ r.pc = to /\ r.of = cl[c].of /\ r.name = cl[c].name
      /\ r.done = cl[c].done
  BY <1>1 DEF ClientState
<1>3. cl[c].pc = from /\ cl' = [cl EXCEPT ![c] = r]
  BY DEF Goes
<1> HIDE DEF r
<1> QED BY <1>2, <1>3, Types DEF Moves

LEMMA AcceptorFacts ==
  ASSUME TypeOK, NEW from, NEW to \in AcceptorPlace, AcceptorGoes(from, to)
  PROVE  /\ acc.pc = from /\ acc' \in AcceptorState /\ acc'.pc = to
         /\ acc'.stopped = acc.stopped /\ acc'.for = acc.for
BY Types DEF AcceptorGoes, AcceptorState

LEMMA ServerFacts ==
  ASSUME TypeOK, NEW from, NEW to \in ServerPlace, ServerGoes(from, to)
  PROVE  /\ srv.pc = from /\ srv' \in ServerState /\ srv'.pc = to
         /\ srv'.todo = srv.todo /\ srv'.now = srv.now
         /\ srv'.named = srv.named /\ srv'.again = srv.again
BY Types DEF ServerGoes, ServerState

(* Session c goes to a place, and keeps its number.                        *)
SessionMoves(c, to) ==
  /\ ses' \in [Client -> SessionState]
  /\ ses'[c].pc = to /\ ses'[c].n = ses[c].n
  /\ \A d \in Client \ {c} : ses'[d] = ses[d]

LEMMA SessionFacts ==
  ASSUME TypeOK, NEW c \in Client, NEW from, NEW to \in SessionPlace, SessionGoes(c, from, to)
  PROVE  ses[c].pc = from /\ SessionMoves(c, to)
<1> DEFINE r == [ses[c] EXCEPT !.pc = to]
<1>1. ses[c] \in SessionState
  BY Types
<1>2. r \in SessionState /\ r.pc = to /\ r.n = ses[c].n
  BY <1>1 DEF SessionState
<1>3. ses[c].pc = from /\ ses' = [ses EXCEPT ![c] = r]
  BY DEF SessionGoes
<1> HIDE DEF r
<1> QED BY <1>2, <1>3, Types DEF SessionMoves

-----------------------------------------------------------------------------
(* In its own pipe a client sees what it saw, or nothing.                  *)
LEMMA StepKept ==
  ASSUME NEW d \in Client, StepInv(d), pipe'[d].data \in {pipe[d].data, <<>>},
         cl'[d].done = cl[d].done, cl'[d].pc \in Waiting \/ cl[d].pc \notin Waiting,
         Holding(d)' => Holding(d) /\ ses'[d].n = ses[d].n
  PROVE  StepInv(d)'
BY DEF StepInv, Holding

LEMMA StepClean ==
  ASSUME NEW d \in Client, pipe'[d].data = <<>>, ~Holding(d)'
  PROVE  StepInv(d)'
BY DEF StepInv, Holding

(* Whoever uses the pipe of the acceptor is alone.                         *)
LEMMA Unique ==
  ASSUME FifoInv, NEW c \in Client, Engaged(c)
  PROVE  /\ mutex[Era] = c /\ cl[c].of = Era /\ cl[c].pc \in Starting
         /\ Only(c) /\ \A d \in Client : Signed(d) => d = c
<1>1. \A d \in Client : Engaged(d) =>
        mutex[Era] = d /\ cl[d].of = Era /\ cl[d].pc \in Starting
  BY DEF FifoInv, StartInv, EngagedInv, Engaged, Starting
<1>2. Only(c)
  BY <1>1 DEF Only
<1>3. \A d \in Client : Signed(d) => d = c
  BY <1>1 DEF Signed
<1> QED BY <1>1, <1>2, <1>3

LEMMA Messages ==
  ASSUME FifoInv, NEW p \in Pipe
  PROVE  /\ pipe[p] \in APipe /\ Len(pipe[p].data) \in Nat
         /\ \A j \in 1 .. Len(pipe[p].data) :
              /\ pipe[p].data[j] \in Message /\ pipe[p].data[j].id \in Client
              /\ pipe[p].data[j].n \in 0 .. MaxRequests
<1>1. pipe[p] \in APipe
  BY Types DEF FifoInv
<1>2. pipe[p].data \in Seq(Message)
  BY <1>1, PipeParts
<1>3. \A j \in 1 .. Len(pipe[p].data) : pipe[p].data[j] \in Message
  BY <1>2, ElementOfSeq
<1> QED BY <1>1, <1>2, <1>3, LenProperties DEF Message

(* A client that talks, or is interrupted, disturbs nobody.                *)
LEMMA TalkKeeps ==
  ASSUME FifoInv, NEW c \in Client, NEW q \in APipe, Sets(c, q),
         UNCHANGED <<use, mutex, acc, ses, lock, srv>>,
         cl' \in [Client -> ClientState], \A d \in Client \ {c} : cl'[d] = cl[d],
         cl'[c].of = cl[c].of, cl'[c].name = cl[c].name,
         \/ cl'[c].pc = cl[c].pc /\ cl'[c].done = cl[c].done
         \/ /\ cl[c].pc \in Talking /\ cl'[c].pc \in Talking \cup {"ended"}
            /\ cl'[c].pc \notin Done => cl'[c].done < use.requests,
         StepInv(c)'
  PROVE  FifoInv'
<1>0. TypeOK'
  BY Types, TypesNext DEF FifoInv, Sets
<1>1. A' = A /\ \A d \in Client \ {c} : pipe'[d] = pipe[d]
  BY Names DEF Sets, A
<1>2. \A d \in Client : /\ Engaged(d)' <=> Engaged(d)
                        /\ Signed(d)' <=> Signed(d)
  BY <1>1 DEF Engaged, Signed, Readers, Talking, Era
<1>3. ServerInv'
  BY <1>1 DEF FifoInv, StartInv, ServerInv
<1>4. EndsInv'
  BY <1>1 DEF FifoInv, StartInv, EndsInv, Readers, Talking
<1>5. MutexInv'
  BY DEF FifoInv, StartInv, MutexInv, Talking, Starting
<1>6. TokenInv'
  <2>1. acc.pc \in Serving => acc.for \in Client
    BY DEF FifoInv, StartInv, ServerInv
  <2>2. AcceptorInv'
    <3>1. acc.pc \in {"create", "statusOpen", "statusWrite"} => cl'[acc.for].pc # "statusClose"
      BY <2>1 DEF FifoInv, StartInv, TokenInv, AcceptorInv, Talking, Serving
    <3>2. acc.for # None => acc.for \in Client
      BY Types DEF FifoInv, AcceptorState
    <3> QED BY <1>1, <1>2, <3>1, <3>2 DEF FifoInv, StartInv, TokenInv, AcceptorInv, Only
  <2>3. ASSUME NEW j \in 1 .. Len(A.data)
        PROVE  Current(A.data[j])'
    <3>1. A.data[j].id \in Client
      BY Names, Messages DEF A
    <3>2. Current(A.data[j])
      BY DEF FifoInv, StartInv, TokenInv
    <3> QED BY <1>1, <1>2, <3>1, <3>2 DEF Current, Only
  <2> QED BY <1>1, <2>2, <2>3 DEF TokenInv
<1>7. ASSUME NEW d \in Client
      PROVE  NameInv(d)' /\ EngagedInv(d)' /\ StepInv(d)'
  <2>1. NameInv(d) /\ EngagedInv(d) /\ StepInv(d)
    BY DEF FifoInv, StartInv
  <2>2. NameInv(d)'
    BY <2>1 DEF NameInv, Starting, Talking, Done
  <2>3. EngagedInv(d)'
    BY <1>1, <1>2, <2>1 DEF EngagedInv, Starting, Talking, Readers, Era
  <2>4. StepInv(d)'
    BY <1>1, <2>1 DEF StepInv, Holding
  <2> QED BY <2>2, <2>3, <2>4
<1> QED BY <1>0, <1>3, <1>4, <1>5, <1>6, <1>7 DEF FifoInv, StartInv

LEMMA TalkSteps ==
  ASSUME FifoInv, NEW c \in Client, NEW from \in Talking, NEW to \in Talking \cup {"ended"},
         Goes(c, from, to), NEW q \in APipe, Sets(c, q),
         UNCHANGED mutex, OnlyClient, to \in Done \/ from \notin Done, StepInv(c)'
  PROVE  FifoInv'
<1>1. to \in ClientPlace
  BY DEF Talking, ClientPlace
<1>2. TypeOK
  BY DEF FifoInv
<1>3. cl[c].pc = from /\ Moves(c, to)
  BY <1>1, <1>2, GoesFacts
<1>4. to \notin Done => cl'[c].done < use.requests
  BY <1>3 DEF FifoInv, StartInv, NameInv, Moves
<1> QED BY <1>3, <1>4, TalkKeeps DEF Moves, OnlyClient

LEMMA TalkGoes ==
  ASSUME FifoInv, NEW c \in Client, NEW from \in Talking, NEW to \in Talking \cup {"ended"},
         Goes(c, from, to), NEW q \in APipe, Sets(c, q),
         UNCHANGED mutex, OnlyClient, to \in Done \/ from \notin Done,
         q.data \in {pipe[c].data, <<>>}, to \in Waiting \/ from \notin Waiting
  PROVE  FifoInv'
<1>1. cl[c].pc = from /\ Moves(c, to)
  BY GoesFacts DEF Talking, ClientPlace, FifoInv
<1>2. Holding(c)' <=> Holding(c)
  BY DEF Holding, OnlyClient
<1>3. StepInv(c)'
  BY <1>1, <1>2, StepKept DEF FifoInv, Moves, Sets, OnlyClient
<1> QED BY <1>3, TalkSteps

LEMMA OwnPipe ==
  ASSUME FifoInv, NEW c \in Client
  PROVE  /\ c \in Pipe /\ pipe[c] \in APipe
         /\ cl[c].pc \in Talking => cl[c].name = c
         /\ UNCHANGED pipe => Sets(c, pipe[c])
<1>1. pipe \in [Pipe -> APipe] /\ c \in Pipe
  BY Names, Types DEF FifoInv
<1> QED BY <1>1 DEF FifoInv, StartInv, NameInv, Sets

LEMMA SendKeeps ==
  ASSUME FifoInv, NEW c \in Client, Send(c)
  PROVE  FifoInv'
<1> DEFINE p == cl[c].name
<1> USE DEF Talking, Done, Waiting
<1>0. /\ TypeOK /\ OnlyClient /\ UNCHANGED mutex /\ c \in Process
      /\ cl[c].pc \in Talking /\ p = c /\ c \in Pipe /\ pipe[c] \in APipe
      /\ UNCHANGED pipe => Sets(c, pipe[c])
  <2>1. cl[c].pc \in Talking
    BY DEF Send, OnExit, Goes
  <2> QED BY <2>1, OwnPipe, Names DEF Send, FifoInv
<1>1. CASE \E to \in {"exitOpen", "sendOpen"} : Goes(c, "send", to) /\ UNCHANGED pipe
  BY <1>0, <1>1, TalkGoes
<1>2. CASE \/ Goes(c, "exitOpen", "exitClose") /\ Does(c, OpenWrite(pipe[c], c))
           \/ Goes(c, "exitOpen", "remove") /\ UNCHANGED pipe
  <2>1. CASE Goes(c, "exitOpen", "remove") /\ UNCHANGED pipe
    BY <1>0, <2>1, TalkGoes
  <2>2. CASE Goes(c, "exitOpen", "exitClose") /\ Does(c, OpenWrite(pipe[c], c))
    BY <1>0, <2>2, TalkGoes, OpenWriteFacts, DoesFacts
  <2> QED BY <1>2, <2>1, <2>2
<1>3. CASE Goes(c, "exitClose", "remove") /\ Closes(c, c)
  BY <1>0, <1>3, TalkGoes, CloseFacts, DoesFacts DEF Closes
<1>4. CASE Goes(c, "remove", "sendOpen") /\ Does(c, Unlink(pipe[c]))
  BY <1>0, <1>4, TalkGoes, LinkFacts, DoesFacts
<1>5. CASE Goes(c, "sendOpen", "sendWrite") /\ Does(c, OpenWrite(pipe[c], c))
  BY <1>0, <1>5, TalkGoes, OpenWriteFacts, DoesFacts
<1>6. CASE Goes(c, "sendOpen", "sendCheck") /\ UNCHANGED pipe
  BY <1>0, <1>6, TalkGoes
<1>7. CASE /\ Goes(c, "sendWrite", "sendClose")
           /\ Write(c, c, [kind |-> "request", id |-> c, n |-> cl[c].done + 1])
  <2> DEFINE m == [kind |-> "request", id |-> c, n |-> cl[c].done + 1]
  <2>1. m \in Message /\ m.n = cl[c].done + 1
    <3>1. cl[c].done < use.requests /\ cl[c].done \in 0 .. MaxRequests
      BY <1>0, <1>7, Types DEF FifoInv, StartInv, NameInv, ClientState, Goes
    <3>2. cl[c].done + 1 \in 0 .. MaxRequests
      BY <1>0, <3>1, UseFacts
    <3> QED BY <3>2 DEF Message
  <2> HIDE DEF m
  <2>2. Put(pipe[c], m) \in APipe /\ Put(pipe[c], m).data = Append(pipe[c].data, m)
    BY <1>0, <2>1, PutFacts
  <2>3. Sets(c, Put(pipe[c], m))
    BY <1>0, <1>7, <2>2, DoesFacts DEF Write, m
  <2>4. cl'[c].pc = "sendClose" /\ cl'[c].done = cl[c].done
    BY <1>0, <1>7, GoesFacts DEF Moves, ClientPlace
  <2>5. StepInv(c) /\ cl[c].pc = "sendWrite"
    BY <1>7 DEF FifoInv, Goes
  <2>6. StepInv(c)'
    <3>1. pipe[c].data = <<>> /\ ~Holding(c)
      BY <2>5 DEF StepInv
    <3>2. pipe'[c].data = <<m>>
      BY <2>2, <2>3, <3>1 DEF Sets
    <3>3. ~Holding(c)'
      BY <1>0, <3>1 DEF Holding, OnlyClient
    <3> QED BY <2>1, <2>4, <3>2, <3>3 DEF StepInv
  <2> QED BY <1>0, <1>7, <2>2, <2>3, <2>6, TalkSteps
<1>8. CASE Goes(c, "sendWrite", "dtor") /\ BrokenPipe(c, c)
  BY <1>0, <1>8, TalkGoes, CloseFacts, DoesFacts DEF BrokenPipe, Closes
<1>9. CASE Goes(c, "sendClose", "recv") /\ Closes(c, c)
  BY <1>0, <1>9, TalkGoes, CloseFacts, DoesFacts DEF Closes
<1>10. CASE \E to \in {"send", "dtor"} : Goes(c, "sendCheck", to) /\ UNCHANGED pipe
  BY <1>0, <1>10, TalkGoes
<1> HIDE DEF Talking, Done, Waiting
<1> QED
  BY <1>0, <1>1, <1>2, <1>3, <1>4, <1>5, <1>6, <1>7, <1>8, <1>9, <1>10
  DEF Send, OnExit, AfterSend

LEMMA ReceiveKeeps ==
  ASSUME FifoInv, NEW c \in Client, Receive(c)
  PROVE  FifoInv'
<1> USE DEF Talking, Done, Waiting
<1>0. /\ TypeOK /\ OnlyClient /\ UNCHANGED mutex /\ c \in Process
      /\ cl[c].pc \in Talking /\ cl[c].name = c /\ c \in Pipe /\ pipe[c] \in APipe
      /\ UNCHANGED pipe => Sets(c, pipe[c])
  <2>1. cl[c].pc \in Talking
    BY DEF Receive, Goes
  <2> QED BY <2>1, OwnPipe, Names DEF Receive, FifoInv
<1>1. CASE Goes(c, "recv", "recvRead") /\ Does(c, OpenRead(pipe[c], c))
  BY <1>0, <1>1, TalkGoes, OpenReadFacts, DoesFacts
<1>2. CASE Goes(c, "recv", "dtor") /\ UNCHANGED pipe
  BY <1>0, <1>2, TalkGoes
<1>3. CASE Goes(c, "recvRead", "recvClose") /\ HasRead(c, c)
  <2>1. Drain(pipe[c]) \in APipe /\ Drain(pipe[c]).data = <<>> /\ Sets(c, Drain(pipe[c]))
    BY <1>0, <1>3, DrainFacts, DoesFacts DEF HasRead
  <2>2. ~Holding(c)
    BY <1>3 DEF HasRead, FifoInv, StepInv
  <2>3. StepInv(c)'
    BY <1>0, <2>1, <2>2, StepClean DEF Holding, OnlyClient, Sets
  <2> QED BY <1>0, <1>3, <2>1, <2>3, TalkSteps
<1>4. CASE Goes(c, "recvRead", "dtor") /\ HasEnded(c, c)
  BY <1>0, <1>4, TalkGoes, CloseFacts, DoesFacts DEF HasEnded
<1>5. CASE /\ cl[c].pc = "recvClose"
           /\ cl' = [cl EXCEPT ![c].done = @ + 1, ![c].pc = IF Last(c) THEN "dtor" ELSE "send"]
           /\ Closes(c, c)
  <2> DEFINE to == IF Last(c) THEN "dtor" ELSE "send"
             r == [cl[c] EXCEPT !.done = @ + 1, !.pc = to]
  <2>1. cl[c] \in ClientState /\ cl[c].done < use.requests /\ cl[c].done \in Nat
    BY <1>0, <1>5, Types DEF FifoInv, StartInv, NameInv, ClientState
  <2>2. cl[c].done + 1 \in 0 .. MaxRequests
    BY <1>0, <2>1, UseFacts
  <2>3. to \in {"dtor", "send"} /\ (to = "send" => cl[c].done + 1 # use.requests)
    BY DEF Last
  <2>4. /\ r \in ClientState /\ r.pc = to /\ r.done = cl[c].done + 1
        /\ r.of = cl[c].of /\ r.name = cl[c].name
    <3> HIDE DEF to
    <3> QED BY <2>1, <2>2, <2>3 DEF ClientState, ClientPlace
  <2>5. cl' = [cl EXCEPT ![c] = r]
    BY <1>5
  <2> HIDE DEF to, r
  <2>6. /\ cl' \in [Client -> ClientState] /\ cl'[c] = r
        /\ \A d \in Client \ {c} : cl'[d] = cl[d]
    BY <1>0, <2>4, <2>5, Types
  <2>7. cl'[c].pc \notin Done => cl'[c].done < use.requests
    BY <1>0, <2>1, <2>3, <2>4, <2>6, UseFacts
  <2>8. Close(pipe[c], c) \in APipe /\ Sets(c, Close(pipe[c], c))
        /\ Close(pipe[c], c).data \in {pipe[c].data, <<>>}
    BY <1>0, <1>5, CloseFacts, DoesFacts DEF Closes
  <2>9. StepInv(c)'
    <3>1. pipe[c].data = <<>> /\ ~Holding(c)
      BY <1>5 DEF FifoInv, StepInv
    <3> QED BY <1>0, <2>8, <3>1, StepClean DEF Holding, OnlyClient, Sets
  <2> QED BY <1>0, <1>5, <2>3, <2>4, <2>6, <2>7, <2>8, <2>9, TalkKeeps DEF OnlyClient
<1> HIDE DEF Talking, Done, Waiting
<1> QED BY <1>0, <1>1, <1>2, <1>3, <1>4, <1>5 DEF Receive

LEMMA DestroyKeeps ==
  ASSUME FifoInv, NEW c \in Client, Destroy(c)
  PROVE  FifoInv'
<1> USE DEF Talking, Done, Waiting
<1>0. /\ TypeOK /\ OnlyClient /\ UNCHANGED mutex /\ c \in Process
      /\ cl[c].pc \in Talking /\ cl[c].name = c /\ c \in Pipe /\ pipe[c] \in APipe
      /\ UNCHANGED pipe => Sets(c, pipe[c])
  <2>1. cl[c].pc \in Talking
    BY DEF Destroy, Goes
  <2> QED BY <2>1, OwnPipe, Names DEF Destroy, FifoInv
<1>1. CASE \E to \in {"dtorOpen", "ended"} : Goes(c, "dtor", to) /\ UNCHANGED pipe
  BY <1>0, <1>1, TalkGoes
<1>2. CASE Goes(c, "dtorOpen", "dtorClose") /\ Does(c, OpenWrite(pipe[c], c))
  BY <1>0, <1>2, TalkGoes, OpenWriteFacts, DoesFacts
<1>3. CASE Goes(c, "dtorOpen", "ended") /\ UNCHANGED pipe
  BY <1>0, <1>3, TalkGoes
<1>4. CASE Goes(c, "dtorClose", "ended") /\ Closes(c, c)
  BY <1>0, <1>4, TalkGoes, CloseFacts, DoesFacts DEF Closes
<1> HIDE DEF Talking, Done, Waiting
<1> QED BY <1>0, <1>1, <1>2, <1>3, <1>4 DEF Destroy, OnExit

LEMMA InterruptKeeps ==
  ASSUME FifoInv, NEW c \in Client, Interrupt(c)
  PROVE  FifoInv'
<1> DEFINE r == [cl[c] EXCEPT !.closeFlag = TRUE]
<1>0. cl[c] \in ClientState /\ OnlyClient /\ UNCHANGED <<pipe, mutex>>
  BY Types DEF FifoInv, Interrupt
<1>1. /\ r \in ClientState /\ r.pc = cl[c].pc /\ r.of = cl[c].of /\ r.name = cl[c].name
      /\ r.done = cl[c].done
  BY <1>0 DEF ClientState
<1>2. cl' = [cl EXCEPT ![c] = r]
  BY DEF Interrupt
<1> HIDE DEF r
<1>3. /\ cl' \in [Client -> ClientState] /\ cl'[c] = r
      /\ \A d \in Client \ {c} : cl'[d] = cl[d]
  BY <1>1, <1>2, Types DEF FifoInv
<1>4. StepInv(c)'
  BY <1>0, <1>1, <1>3, StepKept DEF FifoInv, Holding, OnlyClient
<1> QED BY <1>0, <1>1, <1>3, <1>4, OwnPipe, TalkKeeps DEF OnlyClient

-----------------------------------------------------------------------------
(* Steps that leave the clients, the mutex and the pipe of the acceptor as *)
(* they are.                                                               *)
LEMMA StartSame ==
  ASSUME FifoInv, A' = A, UNCHANGED <<use, mutex, cl>>,
         srv'.again = srv.again, srv'.named = srv.named,
         acc'.pc = "statusClose" => acc.pc = "statusClose", acc.stopped => acc'.stopped,
         ServerInv', EndsInv', AcceptorInv'
  PROVE  StartInv'
<1>1. \A d \in Client : (Engaged(d)' <=> Engaged(d)) /\ (Signed(d)' <=> Signed(d))
  BY DEF Engaged, Signed, Readers, Era
<1>2. MutexInv'
  BY DEF FifoInv, StartInv, MutexInv
<1>3. TokenInv'
  <2>1. ASSUME NEW j \in 1 .. Len(A.data)
        PROVE  Current(A.data[j])'
    <3>1. A.data[j].id \in Client
      BY Names, Messages DEF A
    <3>2. Current(A.data[j])
      BY DEF FifoInv, StartInv, TokenInv
    <3>3. acc'.stopped \in BOOLEAN => (~acc'.stopped => ~acc.stopped)
      OBVIOUS
    <3> QED BY <1>1, <3>1, <3>2 DEF Current, Only
  <2> QED BY <2>1 DEF TokenInv
<1>4. ASSUME NEW d \in Client
      PROVE  NameInv(d)' /\ EngagedInv(d)'
  <2>1. NameInv(d) /\ EngagedInv(d)
    BY DEF FifoInv, StartInv
  <2>2. NameInv(d)'
    BY <2>1 DEF NameInv
  <2>3. EngagedInv(d)'
    BY <1>1, <2>1 DEF EngagedInv, Readers, Era
  <2> QED BY <2>2, <2>3
<1> QED BY <1>2, <1>3, <1>4 DEF StartInv

LEMMA StepSame ==
  ASSUME NEW d \in Client, StepInv(d), UNCHANGED cl, pipe'[d].data \in {pipe[d].data, <<>>},
         Holding(d)' => Holding(d) /\ ses'[d].n = ses[d].n
  PROVE  StepInv(d)'
BY StepKept

(* The steps of a session.                                                 *)
LEMMA SessionSteps ==
  ASSUME FifoInv, NEW c \in Client, NEW q \in APipe, Sets(c, q), OnlySession,
         ses' \in [Client -> SessionState], \A d \in Client \ {c} : ses'[d] = ses[d],
         StepInv(c)'
  PROVE  FifoInv'
<1>1. TypeOK'
  BY Types, TypesNext DEF FifoInv, Sets, OnlySession
<1>2. A' = A /\ \A d \in Client \ {c} : pipe'[d] = pipe[d]
  BY Names DEF Sets, A
<1>3. ServerInv' /\ EndsInv' /\ AcceptorInv'
  <2>1. ServerInv' /\ EndsInv'
    BY <1>2 DEF FifoInv, StartInv, ServerInv, EndsInv, Readers, OnlySession
  <2>2. \A d \in Client : (Engaged(d)' <=> Engaged(d)) /\ (Signed(d)' <=> Signed(d))
    BY <1>2 DEF Engaged, Signed, Readers, Era, OnlySession
  <2>3. acc.pc \in Serving => acc.for \in Client
    BY DEF FifoInv, StartInv, ServerInv
  <2>4. acc.for # None => acc.for \in Client
    BY Types DEF FifoInv, AcceptorState
  <2>5. AcceptorInv'
    BY <1>2, <2>2, <2>3, <2>4
    DEF FifoInv, StartInv, TokenInv, AcceptorInv, Only, OnlySession
  <2> QED BY <2>1, <2>5
<1>4. StartInv'
  BY <1>2, <1>3, StartSame DEF OnlySession
<1>5. ASSUME NEW d \in Client \ {c} PROVE StepInv(d)'
  BY <1>2, <1>5, StepSame DEF FifoInv, Holding, OnlySession
<1> QED BY <1>1, <1>4, <1>5 DEF FifoInv

LEMMA SessionGoesOn ==
  ASSUME FifoInv, NEW c \in Client, NEW from \in SessionPlace, NEW to \in SessionPlace,
         SessionGoes(c, from, to), NEW q \in APipe, Sets(c, q), OnlySession,
         q.data \in {pipe[c].data, <<>>},
         to \notin Held \/ from \in Held
  PROVE  FifoInv'
<1>1. ses[c].pc = from /\ SessionMoves(c, to)
  BY SessionFacts DEF FifoInv
<1>2. Holding(c)' => Holding(c) /\ ses'[c].n = ses[c].n
  BY <1>1 DEF Holding, SessionMoves
<1>3. StepInv(c)'
  BY <1>2, StepSame DEF FifoInv, Sets, OnlySession
<1> QED BY <1>1, <1>3, SessionSteps DEF SessionMoves

LEMMA SessionKeeps ==
  ASSUME FifoInv, NEW c \in Client, SessionStep(c)
  PROVE  FifoInv'
<1> USE DEF SessionPlace, Held
<1>0. /\ TypeOK /\ c \in Pipe /\ Session(c) \in Process /\ pipe[c] \in APipe
      /\ OnlySession
      /\ UNCHANGED pipe => Sets(c, pipe[c])
  BY OwnPipe, Names
  DEF SessionStep, Run, ReceiveRequest, SendResponse, DestroySession, FifoInv
<1>1. CASE /\ UNCHANGED pipe
           /\ \/ SessionGoes(c, "queued", "run")
              \/ \E to \in {"dtor", "loop"} : SessionGoes(c, "run", to)
              \/ \E to \in {"dtor", "open"} : SessionGoes(c, "loop", to)
              \/ SessionGoes(c, "open", "dtor")
              \/ SessionGoes(c, "task", "reply")
              \/ \E to \in {"dtor", "replyOpen"} : SessionGoes(c, "reply", to)
              \/ SessionGoes(c, "replyOpen", "dtor")
  BY <1>0, <1>1, SessionGoesOn
<1>2. CASE SessionGoes(c, "open", "read") /\ Does(c, OpenRead(pipe[c], Session(c)))
  BY <1>0, <1>2, SessionGoesOn, OpenReadFacts, DoesFacts
<1>3. CASE /\ ses[c].pc = "read" /\ HasRead(Session(c), c)
           /\ ses' = [ses EXCEPT ![c].pc = "close", ![c].n = Head(pipe[c].data).n]
  <2>1. Drain(pipe[c]) \in APipe /\ Drain(pipe[c]).data = <<>> /\ Sets(c, Drain(pipe[c]))
    BY <1>0, <1>3, DrainFacts, DoesFacts DEF HasRead
  <2>2. /\ Head(pipe[c].data).n = cl[c].done + 1 /\ Head(pipe[c].data).n \in 0 .. MaxRequests
        /\ cl[c].pc \in Waiting
    <3>1. pipe[c].data # <<>> /\ pipe[c].data \in Seq(Message)
      BY <1>0, <1>3, PipeParts DEF HasRead
    <3>2. Head(pipe[c].data) = pipe[c].data[1] /\ 1 \in 1 .. Len(pipe[c].data)
      BY <3>1
    <3> QED BY <1>0, <3>1, <3>2, Messages DEF FifoInv, StepInv
  <2> DEFINE k == Head(pipe[c].data).n
             r == [ses[c] EXCEPT !.pc = "close", !.n = k]
  <2>3. r \in SessionState /\ r.pc = "close" /\ r.n = k
    <3> HIDE DEF k
    <3>1. k \in 0 .. MaxRequests
      BY <2>2 DEF k
    <3> QED BY <1>0, <3>1, Types DEF SessionState
  <2>4. ses' = [ses EXCEPT ![c] = r]
    BY <1>3
  <2> HIDE DEF r
  <2>5. /\ ses' \in [Client -> SessionState] /\ ses'[c] = r
        /\ \A d \in Client \ {c} : ses'[d] = ses[d]
    BY <1>0, <2>3, <2>4, Types
  <2>6. StepInv(c)'
    BY <1>0, <2>1, <2>2, <2>3, <2>5 DEF StepInv, Holding, Sets, OnlySession
  <2> QED BY <1>0, <2>1, <2>5, <2>6, SessionSteps
<1>4. CASE SessionGoes(c, "read", "dtor") /\ HasEnded(Session(c), c)
  BY <1>0, <1>4, SessionGoesOn, CloseFacts, DoesFacts DEF HasEnded
<1>5. CASE SessionGoes(c, "close", "task") /\ Closes(Session(c), c)
  BY <1>0, <1>5, SessionGoesOn, CloseFacts, DoesFacts DEF Closes
<1>6. CASE SessionGoes(c, "replyOpen", "replyWrite") /\ Does(c, OpenWrite(pipe[c], Session(c)))
  BY <1>0, <1>6, SessionGoesOn, OpenWriteFacts, DoesFacts
<1>7. CASE /\ SessionGoes(c, "replyWrite", "replyClose")
           /\ Write(Session(c), c, [kind |-> "reply", id |-> c, n |-> ses[c].n])
  <2> DEFINE m == [kind |-> "reply", id |-> c, n |-> ses[c].n]
  <2>1. m \in Message /\ m.n = ses[c].n
    BY <1>0, Types DEF Message, SessionState
  <2>2. ses[c].pc = "replyWrite" /\ SessionMoves(c, "replyClose")
    BY <1>0, <1>7, SessionFacts
  <2> HIDE DEF m
  <2>3. Put(pipe[c], m) \in APipe /\ Put(pipe[c], m).data = Append(pipe[c].data, m)
    BY <1>0, <2>1, PutFacts
  <2>4. Sets(c, Put(pipe[c], m))
    BY <1>0, <1>7, <2>3, DoesFacts DEF Write, m
  <2>5. pipe[c].data = <<>> /\ ses[c].n = cl[c].done + 1 /\ cl[c].pc \in Waiting
    BY <2>2 DEF FifoInv, StepInv, Holding
  <2>6. pipe'[c].data = <<m>>
    BY <2>3, <2>4, <2>5 DEF Sets
  <2>7. StepInv(c)'
    <3>1. ~Holding(c)'
      BY <2>2 DEF Holding, SessionMoves
    <3> QED BY <1>0, <2>1, <2>5, <2>6, <3>1 DEF StepInv, OnlySession
  <2> QED BY <1>0, <2>2, <2>3, <2>4, <2>7, SessionSteps DEF SessionMoves
<1>8. CASE SessionGoes(c, "replyWrite", "dtor") /\ BrokenPipe(Session(c), c)
  BY <1>0, <1>8, SessionGoesOn, CloseFacts, DoesFacts DEF BrokenPipe, Closes
<1>9. CASE SessionGoes(c, "replyClose", "loop") /\ Closes(Session(c), c)
  BY <1>0, <1>9, SessionGoesOn, CloseFacts, DoesFacts DEF Closes
<1>10. CASE SessionGoes(c, "dtor", "gone") /\ Does(c, Unlink(pipe[c]))
  BY <1>0, <1>10, SessionGoesOn, LinkFacts, DoesFacts
<1> HIDE DEF SessionPlace, Held
<1> QED
  BY <1>1, <1>2, <1>3, <1>4, <1>5, <1>6, <1>7, <1>8, <1>9, <1>10
  DEF SessionStep, Run, ReceiveRequest, SendResponse, DestroySession

-----------------------------------------------------------------------------
(* Steps in the pipe of the acceptor.  What was in it, and what the        *)
(* acceptor is at, keeps its meaning.                                      *)
LEMMA CurrentKept ==
  ASSUME FifoInv, A'.data = A.data, A'.linked = A.linked,
         \A d \in Client : Signed(d) /\ A.linked => Signed(d)',
         \A d \in Client : Only(d) /\ (A.linked => Signed(d)) => Only(d)',
         acc.stopped => acc'.stopped, acc'.pc = "statusClose" => acc.pc = "statusClose",
         \A d \in Client : (/\ A.data # <<>> /\ acc.pc # "statusClose" /\ ~acc'.stopped
                            /\ Signed(d) /\ d \in A'.reading) => d \in A.reading
  PROVE  \A j \in 1 .. Len(A'.data) : Current(A.data[j])'
<1> SUFFICES ASSUME NEW j \in 1 .. Len(A.data)
             PROVE  Current(A.data[j])'
  OBVIOUS
<1>1. PICK m : m = A.data[j]
  OBVIOUS
<1>2. m.id \in Client /\ A.data # <<>> /\ Current(m)
  BY <1>1, Names, Messages DEF A, FifoInv, StartInv, TokenInv
<1>3. A'.data[j] = m
  BY <1>1
<1>4. m.kind = "signature" /\ A.linked =>
        /\ Signed(m.id)' /\ acc'.pc # "statusClose"
        /\ ~acc'.stopped => m.id \notin A'.reading
  BY <1>2 DEF Current
<1>5. m.kind = "status" => Only(m.id)' /\ (A.linked => Signed(m.id)')
  BY <1>2 DEF Current
<1> QED BY <1>3, <1>4, <1>5 DEF Current

LEMMA AcceptorKept ==
  ASSUME FifoInv, acc' = acc, A'.data \in {A.data, <<>>},
         acc.pc \in {"create", "statusOpen", "statusWrite"} /\ Only(acc.for) => Only(acc.for)',
         \A d \in Client : cl'[d].pc = "statusClose" => cl[d].pc = "statusClose" \/ A.data # <<>>,
         acc.pc = "close" /\ ~acc.stopped =>
           \A d \in Client : Signed(d) /\ d \notin A.reading =>
             Signed(d)' /\ d \notin A'.reading
  PROVE  AcceptorInv'
<1>1. acc.pc \in {"create", "statusOpen", "statusWrite"} => acc.for \in Client
  BY DEF FifoInv, StartInv, ServerInv, Serving
<1>2. acc.for # None => acc.for \in Client
  BY Types DEF FifoInv, AcceptorState
<1>3. AcceptorInv
  BY DEF FifoInv, StartInv, TokenInv
<1>4. acc.pc \in {"create", "statusOpen", "statusWrite"} =>
        A'.data = <<>> /\ Only(acc.for)' /\ cl'[acc.for].pc # "statusClose"
  BY <1>1, <1>3 DEF AcceptorInv
<1>5. acc.pc = "close" /\ acc.for # None /\ ~acc.stopped =>
        A'.data = <<>> /\ Signed(acc.for)' /\ acc.for \notin A'.reading
  BY <1>2, <1>3 DEF AcceptorInv
<1> QED BY <1>4, <1>5 DEF AcceptorInv

(* The steps of a client from the lock to the status.                      *)
LEMMA StartSteps ==
  ASSUME FifoInv, NEW c \in Client, NEW q \in APipe, Sets(Acceptor, q), q.linked = A.linked,
         OnlyClient, mutex' \in [Number -> Client \cup {None}],
         cl' \in [Client -> ClientState], \A d \in Client \ {c} : cl'[d] = cl[d],
         cl'[c].of = cl[c].of, cl'[c].done = cl[c].done,
         cl[c].pc \in {"lock"} \cup Starting,
         mutex'[cl[c].of] = IF cl'[c].pc \in Starting THEN c ELSE None,
         mutex[cl[c].of] \in {None, c},
         \A k \in Number \ {cl[c].of} : mutex'[k] = mutex[k],
         srv.again /\ mutex'[1] = None => mutex[1] = None,
         q.opening \cup q.reading \subseteq Readers \cup {c}, A.reading \subseteq q.reading \cup {c},
         NameInv(c)', EngagedInv(c)', EndsInv', TokenInv'
  PROVE  FifoInv'
<1>1. TypeOK'
  BY Types, TypesNext DEF FifoInv, Sets, OnlyClient
<1>2. A' = q /\ \A d \in Client : pipe'[d] = pipe[d]
  BY Names DEF Sets, A
<1>3. ServerInv'
  BY <1>2 DEF FifoInv, StartInv, ServerInv, OnlyClient
<1>4. cl[c].of \in Number /\ srv.named \in Number /\ None \notin Client
  BY Types, Names DEF FifoInv, ClientState, ServerState
<1>5. MutexInv'
  <2> SUFFICES ASSUME NEW k \in Number, mutex'[k] # None
               PROVE  /\ mutex'[k] \in Client /\ cl'[mutex'[k]].of = k
                      /\ cl'[mutex'[k]].pc \in Starting \cup {"dead"}
    BY DEF MutexInv
  <2>1. CASE k = cl[c].of
    BY <1>4, <2>1
  <2>2. CASE k # cl[c].of
    <3>1. mutex'[k] = mutex[k]
      BY <2>2
    <3>2. /\ mutex[k] \in Client /\ cl[mutex[k]].of = k
          /\ cl[mutex[k]].pc \in Starting \cup {"dead"}
      BY <3>1 DEF FifoInv, StartInv, MutexInv
    <3>3. mutex[k] # c
      BY <2>2, <3>2
    <3> QED BY <3>1, <3>2, <3>3
  <2> QED BY <2>1, <2>2
<1>6. ASSUME NEW d \in Client \ {c}
      PROVE  NameInv(d)' /\ EngagedInv(d)'
  <2>1. NameInv(d) /\ EngagedInv(d) /\ cl'[d] = cl[d]
    BY DEF FifoInv, StartInv
  <2>2. NameInv(d)'
    BY <2>1 DEF NameInv, OnlyClient
  <2>3. cl[d].of \in Number
    BY Types DEF FifoInv, ClientState
  <2>4. cl'[d].pc \in Starting => mutex'[cl'[d].of] = d
    BY <1>4, <2>1, <2>3 DEF EngagedInv
  <2>5. /\ d \in Readers' => d \in Readers
        /\ d \in A.reading => d \in A'.reading
    BY <1>2 DEF Readers
  <2>6. (Engaged(d))' => cl[d].of = Era'
    BY <2>1, <2>5 DEF EngagedInv, Engaged, Era, OnlyClient
  <2>7. srv'.again /\ cl'[d].of = 1 =>
           /\ cl'[d].pc \notin {"sign", "signWrite", "signClose", "status", "statusClose"}
           /\ d \notin Readers'
           /\ cl'[d].pc = "lock" => mutex'[1] # None
    BY <2>1, <2>5 DEF EngagedInv, OnlyClient
  <2> QED BY <2>1, <2>2, <2>4, <2>5, <2>6, <2>7 DEF EngagedInv, OnlyClient
<1>7. ASSUME NEW d \in Client PROVE StepInv(d)'
  <2>1. StepInv(d) /\ (cl'[d].pc \in Waiting \/ cl[d].pc \notin Waiting)
    BY DEF FifoInv, Starting, Waiting, Done
  <2>2. cl'[d].done = cl[d].done /\ (Holding(d)' => Holding(d) /\ ses'[d].n = ses[d].n)
    BY DEF Holding, OnlyClient
  <2> QED BY <1>2, <2>1, <2>2, StepKept
<1> QED BY <1>1, <1>3, <1>5, <1>6, <1>7 DEF FifoInv, StartInv

LEMMA TokenKept ==
  ASSUME FifoInv, acc' = acc, A'.linked = A.linked, A'.data \in {A.data, <<>>},
         \A d \in Client : Only(d) => Only(d)',
         \A d \in Client : Signed(d) /\ A.linked /\ (d \in A.reading => A'.data # <<>>) => Signed(d)',
         \A d \in Client : cl'[d].pc = "statusClose" => cl[d].pc = "statusClose" \/ A.data # <<>>,
         \A d \in Client :
           (/\ Signed(d) /\ d \in A'.reading /\ ~acc.stopped
            /\ acc.pc \notin {"statusWrite", "statusClose"}) => d \in A.reading
  PROVE  TokenInv'
<1>1. AcceptorInv'
  <2>1. acc.pc = "close" => A.linked
    BY DEF FifoInv, StartInv, ServerInv
  <2>2. acc.pc = "close" /\ ~acc.stopped =>
          \A d \in Client : Signed(d) /\ d \notin A.reading => Signed(d)' /\ d \notin A'.reading
    BY <2>1
  <2>3. acc.pc \in {"create", "statusOpen", "statusWrite"} /\ Only(acc.for) => Only(acc.for)'
    BY DEF FifoInv, StartInv, ServerInv, Serving
  <2> QED BY <2>2, <2>3, AcceptorKept
<1>2. CASE A'.data # <<>>
  <2>1. A.data # <<>> => acc.pc # "statusWrite"
    BY DEF FifoInv, StartInv, TokenInv, AcceptorInv
  <2>2. \A d \in Client : Signed(d) /\ A.linked => Signed(d)'
    BY <1>2
  <2>3. \A d \in Client : (/\ A.data # <<>> /\ acc.pc # "statusClose" /\ ~acc'.stopped
                           /\ Signed(d) /\ d \in A'.reading) => d \in A.reading
    BY <2>1
  <2>4. \A d \in Client : Only(d) /\ (A.linked => Signed(d)) => Only(d)'
    OBVIOUS
  <2>5. A'.data = A.data /\ (acc'.pc = "statusClose" => acc.pc = "statusClose")
    BY <1>2
  <2>6. \A j \in 1 .. Len(A'.data) : Current(A.data[j])'
    BY <2>2, <2>3, <2>4, <2>5, CurrentKept
  <2> QED BY <1>1, <2>6 DEF TokenInv
<1>3. CASE A'.data = <<>>
  BY <1>1, <1>3 DEF TokenInv
<1> QED BY <1>2, <1>3

(* A client that may sign finds nobody between a signature and a status.   *)
LEMMA SignAlone ==
  ASSUME FifoInv, NEW c \in Client, cl[c].pc = "sign", A.linked
  PROVE  /\ cl[c].of = Era /\ mutex[Era] = c
         /\ \A d \in Client : ~Engaged(d) /\ ~Signed(d) /\ d \notin Readers
<1>1. cl[c].of \in Number
  BY Types DEF FifoInv, ClientState
<1>2. cl[c].of = Era /\ mutex[Era] = c
  <2>1. /\ cl[c].of <= srv.named /\ mutex[cl[c].of] = c
        /\ srv.again => cl[c].of # 1
    BY DEF FifoInv, StartInv, EngagedInv, Starting
  <2>2. srv.named = IF srv.again THEN 2 ELSE 1
    BY DEF FifoInv, StartInv, ServerInv
  <2> QED BY <1>1, <2>1, <2>2 DEF Era, Number
<1>3. \A d \in Client : ~Engaged(d)
  BY <1>2, Unique DEF Engaged
<1>4. \A d \in Client : ~Signed(d)
  BY <1>2 DEF Signed
<1>5. \A d \in Client : d \notin Readers
  BY <1>3 DEF FifoInv, StartInv, EndsInv, Engaged
<1> QED BY <1>2, <1>3, <1>4, <1>5

LEMMA StartFacts ==
  ASSUME FifoInv, NEW c \in Client
  PROVE  /\ Acceptor \in Pipe /\ A \in APipe /\ c \in Process /\ c # Acceptor /\ c # Server
         /\ cl[c].of \in Number /\ None \notin Client
         /\ cl[c].pc \in Starting => mutex[cl[c].of] = c
         /\ mutex \in [Number -> Client \cup {None}]
         /\ UNCHANGED pipe => Sets(Acceptor, A)
<1>1. cl[c] \in ClientState /\ pipe \in [Pipe -> APipe] /\ Acceptor \in Pipe
  BY Types, Names DEF FifoInv
<1> QED BY <1>1, Types, Names DEF FifoInv, StartInv, EngagedInv, ClientState, Sets, A

LEMMA ReleaseFacts ==
  ASSUME FifoInv, NEW c \in Client, ReleasesMutex(c)
  PROVE  /\ mutex' \in [Number -> Client \cup {None}] /\ mutex'[cl[c].of] = None
         /\ \A k \in Number \ {cl[c].of} : mutex'[k] = mutex[k]
BY StartFacts DEF ReleasesMutex

LEMMA LockKeeps ==
  ASSUME FifoInv, NEW c \in Client, LockMutex(c)
  PROVE  FifoInv'
<1>0. /\ TypeOK /\ OnlyClient /\ UNCHANGED pipe /\ Sets(Acceptor, A)
      /\ A' = A /\ cl[c] \in ClientState
  BY StartFacts, Types DEF LockMutex, FifoInv, A
<1>1. CASE /\ cl[c].pc = "start" /\ (c \in use.after <=> srv.again)
           /\ cl' = [cl EXCEPT ![c].pc = "lock", ![c].of = srv.named] /\ UNCHANGED mutex
  <2> DEFINE r == [cl[c] EXCEPT !.pc = "lock", !.of = srv.named]
  <2>1. srv.named \in Number
    BY <1>0, Types DEF ServerState
  <2>2. /\ r \in ClientState /\ r.pc = "lock" /\ r.of = srv.named /\ r.name = cl[c].name
        /\ r.done = cl[c].done
    BY <1>0, <2>1 DEF ClientState, ClientPlace
  <2>3. cl' = [cl EXCEPT ![c] = r]
    BY <1>1
  <2> HIDE DEF r
  <2>4. /\ cl' \in [Client -> ClientState] /\ cl'[c] = r
        /\ \A d \in Client \ {c} : cl'[d] = cl[d]
    BY <1>0, <2>2, <2>3, Types
  <2>5. TypeOK'
    BY <1>0, <1>1, <2>4, Types, TypesNext DEF OnlyClient
  <2>6. \A d \in Client : (Engaged(d)' <=> Engaged(d)) /\ (Signed(d)' <=> Signed(d))
    BY <1>0, <1>1, <2>2, <2>4 DEF Engaged, Signed, Readers, Era, OnlyClient
  <2>7. ServerInv' /\ EndsInv' /\ MutexInv'
    <3>1. ServerInv'
      BY <1>0 DEF FifoInv, StartInv, ServerInv, OnlyClient
    <3>2. EndsInv'
      BY <1>0, <1>1, <2>4 DEF FifoInv, StartInv, EndsInv, Readers, OnlyClient
    <3>3. MutexInv'
      BY <1>1, <2>4 DEF FifoInv, StartInv, MutexInv, Starting
    <3> QED BY <3>1, <3>2, <3>3
  <2>8. TokenInv'
    <3>1. \A d \in Client : cl'[d].pc = "statusClose" => cl[d].pc = "statusClose"
      BY <2>2, <2>4
    <3>2. \A d \in Client : (Only(d) => Only(d)') /\ (Signed(d) => Signed(d)')
      BY <2>6 DEF Only
    <3> QED BY <1>0, <3>1, <3>2, TokenKept DEF OnlyClient
  <2>9. ASSUME NEW d \in Client
        PROVE  NameInv(d)' /\ EngagedInv(d)' /\ StepInv(d)'
    <3>1. NameInv(d) /\ EngagedInv(d) /\ StepInv(d)
      BY DEF FifoInv, StartInv
    <3>2. NameInv(d)' /\ StepInv(d)'
      BY <1>0, <1>1, <2>2, <2>4, <3>1
      DEF NameInv, StepInv, Holding, Starting, Talking, Waiting, Done, OnlyClient
    <3>3. EngagedInv(d)'
      <4>1. CASE d # c
        BY <1>0, <1>1, <2>4, <2>6, <3>1, <4>1 DEF EngagedInv, Readers, Era, OnlyClient
      <4>2. CASE d = c
        <5>1. srv.again => srv.named = 2
          BY DEF FifoInv, StartInv, ServerInv
        <5>2. ~Engaged(c)' /\ srv'.named = srv.named
          BY <1>0, <1>1, <2>6 DEF Engaged, OnlyClient
        <5> QED BY <1>0, <2>1, <2>2, <2>4, <4>2, <5>1, <5>2
                DEF EngagedInv, Starting, OnlyClient, Number
      <4> QED BY <4>1, <4>2
    <3> QED BY <3>2, <3>3
  <2> QED BY <2>5, <2>7, <2>8, <2>9 DEF FifoInv, StartInv
<1>2. CASE /\ Goes(c, "lock", "sign") /\ MutexFree(c)
           /\ mutex' = [mutex EXCEPT ![cl[c].of] = c]
  <2>1. cl[c].pc = "lock" /\ Moves(c, "sign")
    BY <1>0, <1>2, GoesFacts DEF ClientPlace
  <2>2. /\ cl[c].of \in Number /\ mutex[cl[c].of] = None /\ mutex'[cl[c].of] = c
        /\ mutex' \in [Number -> Client \cup {None}]
        /\ \A k \in Number \ {cl[c].of} : mutex'[k] = mutex[k]
    BY <1>0, <1>2, StartFacts DEF MutexFree
  <2>3. \A d \in Client : Engaged(d)' <=> Engaged(d)
    BY <1>0, <2>1 DEF Engaged, Moves, Readers
  <2>4. \A d \in Client : Signed(d) => Signed(d)'
    <3> SUFFICES ASSUME NEW d \in Client, Signed(d) PROVE Signed(d)'
      OBVIOUS
    <3>1. d # c /\ mutex[Era] = d /\ Era \in Number /\ None \notin Client
      BY <2>1, StartFacts DEF Signed, Era, Number
    <3>2. Era # cl[c].of
      BY <2>2, <3>1
    <3>3. mutex'[Era] = d /\ Era' = Era
      BY <1>0, <2>2, <3>1, <3>2 DEF Era, OnlyClient
    <3> QED BY <2>1, <3>1, <3>3 DEF Signed, Moves
  <2>5. TokenInv'
    BY <1>0, <2>1, <2>3, <2>4, TokenKept DEF Only, Moves, OnlyClient
  <2>6. EndsInv'
    BY <1>0, <2>1 DEF FifoInv, StartInv, EndsInv, Readers, Moves, OnlyClient
  <2>7. NameInv(c)' /\ EngagedInv(c)'
    <3>1. NameInv(c) /\ EngagedInv(c)
      BY DEF FifoInv, StartInv
    <3>2. NameInv(c)'
      BY <1>0, <2>1, <3>1 DEF NameInv, Starting, Talking, Done, Moves, OnlyClient
    <3>3. ~Engaged(c)'
      BY <2>1 DEF Engaged, Moves
    <3>4. srv.again => cl[c].of # 1
      BY <2>1, <2>2, <3>1 DEF EngagedInv
    <3>5. EngagedInv(c)'
      BY <1>0, <2>1, <2>2, <3>1, <3>3, <3>4 DEF EngagedInv, Moves, OnlyClient
    <3> QED BY <3>2, <3>5
  <2>8. srv.again /\ mutex'[1] = None => mutex[1] = None
    BY <2>2, StartFacts DEF Number
  <2>9. cl'[c].pc \in Starting
    BY <2>1 DEF Moves, Starting
  <2> QED BY <1>0, <2>1, <2>2, <2>5, <2>6, <2>7, <2>8, <2>9, StartFacts, StartSteps
          DEF Moves, Readers
<1> QED BY <1>0, <1>1, <1>2 DEF LockMutex

LEMMA StartMoves ==
  ASSUME FifoInv, NEW c \in Client, NEW from \in Starting,
         NEW to \in (Starting \ {"statusClose"}) \cup {"ended", "send"}, Goes(c, from, to),
         NEW q \in APipe, Sets(Acceptor, q), q.linked = A.linked, OnlyClient,
         \/ to \in Starting /\ from # "statusClose" /\ UNCHANGED mutex /\ cl[c].of = Era
         \/ to \notin Starting /\ ReleasesMutex(c),
         srv.again => cl[c].of # 1, to = "send" => cl[c].name = c,
         q.opening \cup q.reading \subseteq Readers \cup {c}, A.reading \subseteq q.reading \cup {c},
         EndsInv', TokenInv'
  PROVE  FifoInv'
<1>1. to \in ClientPlace
  BY DEF Starting, ClientPlace
<1>2. cl[c].pc = from /\ Moves(c, to)
  BY <1>1, GoesFacts DEF FifoInv
<1>3. /\ mutex' \in [Number -> Client \cup {None}]
      /\ mutex'[cl[c].of] = IF to \in Starting THEN c ELSE None
      /\ \A k \in Number \ {cl[c].of} : mutex'[k] = mutex[k]
      /\ mutex[cl[c].of] = c
  BY <1>2, StartFacts, ReleaseFacts
<1>4. NameInv(c) /\ EngagedInv(c)
  BY DEF FifoInv, StartInv
<1>5. NameInv(c)'
  BY <1>2, <1>4 DEF NameInv, Moves, OnlyClient, Starting, Talking, Done
<1>6. EngagedInv(c)'
  <2>1. Era' = Era /\ srv'.named = srv.named /\ srv'.again = srv.again
    BY DEF Era, OnlyClient
  <2>2. Engaged(c)' => to \in Starting
    BY <1>2 DEF Engaged, Moves, Starting
  <2> QED BY <1>2, <1>3, <1>4, <2>1, <2>2 DEF EngagedInv, Moves, Starting
<1>7. srv.again /\ mutex'[1] = None => mutex[1] = None
  BY <1>3 DEF Number
<1> QED BY <1>2, <1>3, <1>5, <1>6, <1>7, StartSteps DEF Moves

(* A client that has done with the pipe of the acceptor, or goes on alone. *)
LEMMA CloseKeeps ==
  ASSUME FifoInv, NEW c \in Client, NEW from \in {"signWrite", "signClose", "statusRead", "statusClose"},
         NEW to \in {"status", "ended", "send"}, Goes(c, from, to), Engaged(c),
         Does(Acceptor, Close(A, c)), OnlyClient,
         \/ to = "status" /\ from = "signClose" /\ UNCHANGED mutex
         \/ to # "status" /\ from # "signClose" /\ ReleasesMutex(c),
         from = "statusRead" => A.data = <<>> /\ c \in A.reading,
         to = "send" => cl[c].name = c
  PROVE  FifoInv'
<1> DEFINE q == Close(A, c)
<1>0. TypeOK /\ A \in APipe /\ Acceptor \in Pipe /\ c \in Process /\ c # Acceptor /\ c # Server
  BY StartFacts DEF FifoInv
<1>1. /\ q \in APipe /\ q.data \in {A.data, <<>>} /\ q.linked = A.linked
      /\ q.writers = A.writers \ {c} /\ q.opening = A.opening \ {c}
      /\ q.reading = A.reading \ {c}
  BY <1>0, CloseFacts
<1> HIDE DEF q
<1>2. Sets(Acceptor, q) /\ A' = q
  BY <1>0, <1>1, DoesFacts DEF Sets, A, q
<1>3. cl[c].pc = from /\ Moves(c, to)
  BY <1>0, GoesFacts DEF ClientPlace
<1>4. cl[c].of = Era /\ mutex[Era] = c /\ Only(c) /\ \A d \in Client : Signed(d) => d = c
  BY Unique
<1>5. EndsInv'
  BY <1>0, <1>1, <1>2, <1>3 DEF FifoInv, StartInv, EndsInv, Readers, Moves, OnlyClient
<1>6. TokenInv'
  <2>1. \A d \in Client : Engaged(d)' => Engaged(d)
    BY <1>1, <1>2, <1>3, <1>4 DEF Only, Engaged, Moves, Readers
  <2>2. \A d \in Client : Only(d) => Only(d)'
    BY <2>1 DEF Only
  <2>3. ASSUME NEW d \in Client, Signed(d), d \in A.reading => A'.data # <<>>
        PROVE  Signed(d)'
    <3>1. d = c
      BY <1>4, <2>3
    <3>2. from = "signClose"
      BY <1>1, <1>2, <1>3, <2>3, <3>1 DEF Signed
    <3> QED BY <1>3, <2>3, <3>1, <3>2 DEF Signed, Moves, Era, OnlyClient
  <2>4. \A d \in Client : cl'[d].pc = "statusClose" => cl[d].pc = "statusClose"
    BY <1>3 DEF Moves
  <2>5. acc' = acc
    BY DEF OnlyClient
  <2> QED BY <1>1, <1>2, <2>2, <2>3, <2>4, <2>5, TokenKept
<1>7. srv.again => cl[c].of # 1
  BY <1>4 DEF Era
<1> QED BY <1>1, <1>2, <1>4, <1>5, <1>6, <1>7, StartMoves DEF Starting, Readers

LEMMA SignKeeps ==
  ASSUME FifoInv, NEW c \in Client, SendSignature(c)
  PROVE  FifoInv'
<1>0. /\ TypeOK /\ OnlyClient /\ A \in APipe /\ Acceptor \in Pipe /\ c \in Process
      /\ c # Acceptor /\ c # Server
      /\ Acceptor \in Readers => acc.pc \in {"read", "close"}
  BY StartFacts DEF SendSignature, FifoInv, StartInv, EndsInv
<1>1. CASE /\ CanOpen(Acceptor) /\ Goes(c, "sign", "signWrite")
           /\ Does(Acceptor, OpenWrite(A, c)) /\ UNCHANGED mutex
  <2> DEFINE q == OpenWrite(A, c)
  <2>1. /\ q \in APipe /\ q.data = A.data /\ q.linked = A.linked
        /\ q.writers = A.writers \cup {c} /\ q.opening = {} /\ q.reading = Readers
    BY <1>0, OpenWriteFacts DEF Readers
  <2> HIDE DEF q
  <2>2. Sets(Acceptor, q) /\ A' = q
    BY <1>0, <1>1, <2>1, DoesFacts DEF Sets, A, q
  <2>3. cl[c].pc = "sign" /\ Moves(c, "signWrite") /\ A.linked /\ Readers # {}
    BY <1>0, <1>1, GoesFacts DEF ClientPlace, CanOpen, HasReader, A, Readers
  <2>4. /\ cl[c].of = Era /\ mutex[Era] = c
        /\ \A d \in Client : ~Engaged(d) /\ ~Signed(d) /\ d \notin Readers
    BY <2>3, SignAlone
  <2>5. acc.pc \in {"read", "close"}
    BY <1>0, <2>3, <2>4 DEF FifoInv, StartInv, EndsInv
  <2>6. EndsInv'
    BY <1>0, <2>1, <2>2, <2>3, <2>4 DEF FifoInv, StartInv, EndsInv, Readers, Moves, OnlyClient
  <2>7. TokenInv'
    <3>1. \A j \in 1 .. Len(A'.data) : Current(A.data[j])'
      <4>1. /\ A'.data = A.data /\ A'.linked = A.linked /\ acc' = acc
        BY <1>0, <2>1, <2>2 DEF OnlyClient
      <4> QED BY <2>3, <2>4, <4>1, CurrentKept
    <3>2. AcceptorInv'
      <4>1. \A d \in Client : cl'[d].pc = "statusClose" => cl[d].pc = "statusClose"
        BY <2>3 DEF Moves
      <4>2. A'.data = A.data /\ acc' = acc
        BY <1>0, <2>1, <2>2 DEF OnlyClient
      <4> QED BY <2>4, <2>5, <4>1, <4>2, AcceptorKept
    <3> QED BY <3>1, <3>2 DEF TokenInv
  <2>8. srv.again => cl[c].of # 1
    BY <2>4 DEF Era
  <2> QED BY <1>0, <1>1, <2>1, <2>2, <2>4, <2>6, <2>7, <2>8, StartMoves DEF Starting, Readers
<1>2. CASE CannotOpen(c, Acceptor) /\ Throws(c, "sign") /\ UNCHANGED pipe
  <2>1. cl[c].pc = "sign" /\ Moves(c, "ended") /\ ReleasesMutex(c) /\ Goes(c, "sign", "ended")
    BY <1>0, <1>2, GoesFacts DEF ClientPlace, Throws
  <2>2. A' = A /\ Sets(Acceptor, A) /\ acc' = acc
    BY <1>2, StartFacts DEF A, OnlyClient, SendSignature
  <2>3. \A d \in Client : Engaged(d)' <=> Engaged(d)
    BY <2>1, <2>2 DEF Engaged, Moves, Readers
  <2>4. ASSUME NEW d \in Client, Signed(d) PROVE Signed(d)'
    <3>1. cl[c].of # Era /\ d # c /\ Era \in Number
      BY <2>1, <2>4, StartFacts DEF Signed, Starting, Era, Number
    <3>2. mutex'[Era] = mutex[Era] /\ Era' = Era
      BY <1>0, <2>1, <3>1, ReleaseFacts DEF Era, OnlyClient
    <3> QED BY <2>1, <2>4, <3>1, <3>2 DEF Signed, Moves
  <2>5. TokenInv'
    BY <2>1, <2>2, <2>3, <2>4, TokenKept DEF Only, Moves
  <2>6. EndsInv'
    BY <1>0, <2>1, <2>2 DEF FifoInv, StartInv, EndsInv, Readers, Moves, OnlyClient
  <2>7. srv.again => cl[c].of # 1
    BY <2>1 DEF FifoInv, StartInv, EngagedInv
  <2> QED BY <1>0, <2>1, <2>2, <2>5, <2>6, <2>7, StartMoves DEF Starting, Readers
<1>3. CASE /\ Goes(c, "signWrite", "signClose") /\ UNCHANGED mutex
           /\ Write(c, Acceptor, [kind |-> "signature", id |-> c, n |-> 0])
  <2> DEFINE m == [kind |-> "signature", id |-> c, n |-> 0]
             q == Put(A, m)
  <2>1. m \in Message /\ m.kind = "signature" /\ m.id = c
    BY UseFacts, <1>0 DEF Message
  <2>2. HasReader(A) /\ Does(Acceptor, q)
    BY <1>3 DEF Write, A
  <2> HIDE DEF m
  <2>3. /\ q \in APipe /\ q.data = Append(A.data, m) /\ q.linked = A.linked
        /\ q.writers = A.writers /\ q.opening = A.opening /\ q.reading = A.reading
    BY <1>0, <2>1, PutFacts
  <2> HIDE DEF q
  <2>4. Sets(Acceptor, q) /\ A' = q
    BY <1>0, <2>2, <2>3, DoesFacts DEF Sets, A
  <2>5. cl[c].pc = "signWrite" /\ Moves(c, "signClose") /\ Engaged(c)
    BY <1>0, <1>3, GoesFacts DEF ClientPlace, Engaged
  <2>6. cl[c].of = Era /\ mutex[Era] = c /\ Only(c) /\ \A d \in Client : ~Signed(d)
    BY <2>5, Unique DEF Signed
  <2>7. Acceptor \in Readers /\ c \notin Readers
    <3>1. \A d \in Client : d \notin Readers
      BY <2>5, <2>6 DEF FifoInv, StartInv, EndsInv, Engaged, Only
    <3> QED BY <2>2, <3>1 DEF FifoInv, StartInv, EndsInv, HasReader, Readers
  <2>8. /\ acc.pc \in {"read", "close"} /\ A.linked
        /\ acc.pc = "close" => acc.for = None \/ acc.stopped
    <3>1. acc.pc \in {"read", "close"}
      BY <2>7 DEF FifoInv, StartInv, EndsInv
    <3>2. A.linked
      BY <3>1 DEF FifoInv, StartInv, ServerInv
    <3>3. acc.for # None => acc.for \in Client
      BY <1>0, Types DEF AcceptorState
    <3> QED BY <2>6, <3>1, <3>2, <3>3 DEF FifoInv, StartInv, TokenInv, AcceptorInv
  <2>9. EndsInv'
    BY <1>0, <2>3, <2>4, <2>5 DEF FifoInv, StartInv, EndsInv, Readers, Moves, OnlyClient
  <2>10. TokenInv'
    <3>1. AcceptorInv'
      BY <1>0, <2>8 DEF AcceptorInv, OnlyClient
    <3>2. ASSUME NEW j \in 1 .. Len(A'.data)
          PROVE  Current(A.data[j])'
      <4>1. A.data \in Seq(Message) /\ Len(A.data) \in Nat
        BY <1>0, PipeParts
      <4>2. CASE j = Len(A.data) + 1
        <5>1. A'.data[j] = m
          BY <2>1, <2>3, <2>4, <4>1, <4>2, AppendProperties
        <5>2. Signed(c)'
          BY <1>0, <1>3, <2>5, <2>6 DEF Signed, Moves, Era, OnlyClient
        <5>3. c \notin A'.reading /\ acc'.pc # "statusClose"
          BY <1>0, <2>3, <2>4, <2>7, <2>8 DEF Readers, OnlyClient
        <5> QED BY <2>1, <5>1, <5>2, <5>3 DEF Current
      <4>3. CASE j # Len(A.data) + 1
        <5>1. j \in 1 .. Len(A.data) /\ A'.data[j] = A.data[j]
          BY <2>3, <2>4, <4>1, <4>3, <2>1
        <5>2. Current(A.data[j]) /\ A.data[j].id \in Client
          BY <5>1, Names, Messages DEF A, FifoInv, StartInv, TokenInv
        <5>3. A.data[j].kind \notin {"signature", "status"}
          BY <2>6, <2>8, <5>2 DEF Current
        <5> QED BY <5>1, <5>3 DEF Current
      <4> QED BY <4>2, <4>3
    <3> QED BY <3>1, <3>2 DEF TokenInv
  <2>11. srv.again => cl[c].of # 1
    BY <2>6 DEF Era
  <2> QED BY <1>0, <1>3, <2>3, <2>4, <2>6, <2>9, <2>10, <2>11, StartMoves DEF Starting, Readers
<1>4. CASE BrokenPipe(c, Acceptor) /\ Throws(c, "signWrite")
  <2>1. Engaged(c) /\ Does(Acceptor, Close(A, c)) /\ ReleasesMutex(c)
        /\ Goes(c, "signWrite", "ended")
    BY <1>4 DEF Engaged, BrokenPipe, Closes, Throws, Goes, A
  <2> QED BY <1>0, <2>1, CloseKeeps
<1>5. CASE Goes(c, "signClose", "status") /\ Closes(c, Acceptor) /\ UNCHANGED mutex
  <2>1. Engaged(c) /\ Does(Acceptor, Close(A, c))
    BY <1>5 DEF Engaged, Closes, Goes, A
  <2> QED BY <1>0, <1>5, <2>1, CloseKeeps
<1> QED BY <1>1, <1>2, <1>3, <1>4, <1>5 DEF SendSignature, A

LEMMA StatusKeeps ==
  ASSUME FifoInv, NEW c \in Client, ReceiveStatus(c)
  PROVE  FifoInv'
<1>0. /\ TypeOK /\ OnlyClient /\ acc' = acc /\ A \in APipe /\ Acceptor \in Pipe
      /\ c \in Process /\ c # Acceptor /\ c # Server
  BY StartFacts DEF ReceiveStatus, OnlyClient, FifoInv
<1>1. CASE /\ A.linked /\ Goes(c, "status", "statusRead") /\ UNCHANGED mutex
           /\ Does(Acceptor, OpenRead(A, c))
  <2> DEFINE q == OpenRead(A, c)
  <2>1. /\ q \in APipe /\ q.data = A.data /\ q.linked = A.linked /\ q.writers = A.writers
        /\ q.opening \cup q.reading = Readers \cup {c}
        /\ A.reading \subseteq q.reading /\ q.reading \subseteq A.reading \cup {c}
        /\ A.writers = {} => q.reading = A.reading
    BY <1>0, OpenReadFacts DEF Readers
  <2> HIDE DEF q
  <2>2. Sets(Acceptor, q) /\ A' = q
    BY <1>0, <1>1, <2>1, DoesFacts DEF Sets, A, q
  <2>3. cl[c].pc = "status" /\ Moves(c, "statusRead") /\ Engaged(c)
    BY <1>0, <1>1, GoesFacts DEF ClientPlace, Engaged
  <2>4. cl[c].of = Era /\ mutex[Era] = c /\ Only(c)
    BY <2>3, Unique
  <2>5. EndsInv'
    BY <1>0, <2>1, <2>2, <2>3 DEF FifoInv, StartInv, EndsInv, Readers, Moves, OnlyClient
  <2>6. TokenInv'
    <3>1. \A d \in Client : Engaged(d)' => Engaged(d)
      BY <2>1, <2>2, <2>3 DEF Engaged, Moves, Readers
    <3>2. \A d \in Client : Signed(d) => Signed(d)'
      BY <1>0, <1>1, <2>3 DEF Signed, Moves, Era, OnlyClient
    <3>3. ~acc.stopped /\ acc.pc \notin {"statusWrite", "statusClose"} => q.reading = A.reading
      <4>1. \A d \in Client : d \notin A.writers
        BY <2>3, <2>4 DEF FifoInv, StartInv, EndsInv, Engaged, Only
      <4>2. ~acc.stopped => Server \notin A.writers
        BY DEF FifoInv, StartInv, EndsInv, ServerInv
      <4> QED BY <2>1, <4>1, <4>2 DEF FifoInv, StartInv, EndsInv
    <3>4. \A d \in Client : cl'[d].pc = "statusClose" => cl[d].pc = "statusClose"
      BY <2>3 DEF Moves
    <3>5. \A d \in Client : Only(d) => Only(d)'
      BY <3>1 DEF Only
    <3> QED BY <1>0, <2>1, <2>2, <3>2, <3>3, <3>4, <3>5, TokenKept
  <2>7. srv.again => cl[c].of # 1
    BY <2>4 DEF Era
  <2>8. q.opening \cup q.reading \subseteq Readers \cup {c} /\ A.reading \subseteq q.reading \cup {c}
    BY <2>1
  <2>9. /\ "status" \in Starting /\ "statusRead" \in Starting \ {"statusClose"}
        /\ Goes(c, "status", "statusRead") /\ UNCHANGED mutex
    BY <1>1 DEF Starting
  <2>10. q \in APipe /\ q.linked = A.linked
    BY <2>1
  <2> QED BY <1>0, <2>2, <2>4, <2>5, <2>6, <2>7, <2>8, <2>9, <2>10, StartMoves
<1>2. CASE ~A.linked /\ Throws(c, "status") /\ UNCHANGED pipe
  <2>1. /\ cl[c].pc = "status" /\ Moves(c, "ended") /\ ReleasesMutex(c)
        /\ Goes(c, "status", "ended") /\ Engaged(c)
    BY <1>0, <1>2, GoesFacts DEF ClientPlace, Throws, Engaged
  <2>2. A' = A /\ Sets(Acceptor, A)
    BY <1>2, StartFacts DEF A
  <2>3. cl[c].of = Era
    BY <2>1, Unique
  <2>4. EndsInv'
    BY <1>0, <2>1, <2>2 DEF FifoInv, StartInv, EndsInv, Readers, Moves, OnlyClient
  <2>5. TokenInv'
    <3>1. \A d \in Client : Engaged(d)' => Engaged(d)
      BY <2>1, <2>2 DEF Engaged, Moves, Readers
    <3>2. \A d \in Client : cl'[d].pc = "statusClose" => cl[d].pc = "statusClose"
      BY <2>1 DEF Moves
    <3>3. \A d \in Client : Only(d) => Only(d)'
      BY <3>1 DEF Only
    <3> QED BY <1>0, <1>2, <2>2, <3>2, <3>3, TokenKept
  <2>6. srv.again => cl[c].of # 1
    BY <2>3 DEF Era
  <2> QED BY <1>0, <2>1, <2>2, <2>4, <2>5, <2>6, StartMoves DEF Starting, Readers
<1>3. CASE /\ cl[c].pc = "statusRead" /\ HasRead(c, Acceptor) /\ UNCHANGED mutex
           /\ cl' = [cl EXCEPT ![c].pc = "statusClose",
                               ![c].name = IF Head(A.data).kind = "status"
                                           THEN Head(A.data).id ELSE None]
  <2> DEFINE q == Drain(A)
             name == IF Head(A.data).kind = "status" THEN Head(A.data).id ELSE None
             r == [cl[c] EXCEPT !.pc = "statusClose", !.name = name]
  <2>1. /\ q \in APipe /\ q.data = <<>> /\ q.linked = A.linked /\ q.writers = A.writers
        /\ q.opening = A.opening /\ q.reading = A.reading
    BY <1>0, DrainFacts
  <2>2. c \in A.reading /\ A.data # <<>> /\ Does(Acceptor, q)
    BY <1>3 DEF HasRead, A
  <2> HIDE DEF q
  <2>3. Sets(Acceptor, q) /\ A' = q
    BY <1>0, <2>1, <2>2, DoesFacts DEF Sets, A
  <2>4. Engaged(c)
    BY <1>3, <2>2 DEF Engaged, Readers
  <2>5. cl[c].of = Era /\ mutex[Era] = c /\ Only(c)
    BY <2>4, Unique
  <2>6. name \in {None, c}
    <3>1. A.data \in Seq(Message)
      BY <1>0, PipeParts
    <3>2. Head(A.data) = A.data[1] /\ 1 \in 1 .. Len(A.data)
      BY <2>2, <3>1
    <3>3. Current(A.data[1]) /\ A.data[1].id \in Client
      BY <3>2, Names, Messages DEF A, FifoInv, StartInv, TokenInv
    <3> QED BY <2>4, <3>2, <3>3 DEF Current, Only
  <2> HIDE DEF name
  <2>7. cl[c] \in ClientState
    BY <1>0, Types
  <2>8. /\ r \in ClientState /\ r.pc = "statusClose" /\ r.name = name
        /\ r.of = cl[c].of /\ r.done = cl[c].done
    BY <2>6, <2>7 DEF ClientState, ClientPlace
  <2>9. cl' = [cl EXCEPT ![c] = r]
    BY <1>3 DEF name
  <2> HIDE DEF r
  <2>10. /\ cl' \in [Client -> ClientState] /\ cl'[c] = r
         /\ \A d \in Client \ {c} : cl'[d] = cl[d]
    BY <1>0, <2>8, <2>9, Types
  <2>11. EndsInv'
    BY <1>0, <1>3, <2>1, <2>3, <2>8, <2>10 DEF FifoInv, StartInv, EndsInv, Readers, OnlyClient
  <2>12. TokenInv'
    <3>1. AcceptorInv'
      BY <1>0, <2>2 DEF FifoInv, StartInv, TokenInv, AcceptorInv
    <3> QED BY <2>1, <2>3, <3>1 DEF TokenInv
  <2>13. NameInv(c)' /\ EngagedInv(c)'
    <3>1. NameInv(c) /\ EngagedInv(c)
      BY DEF FifoInv, StartInv
    <3>2. NameInv(c)'
      BY <1>0, <1>3, <2>6, <2>8, <2>10, <3>1
      DEF NameInv, Starting, Talking, Done, OnlyClient
    <3>3. Era' = Era /\ srv'.named = srv.named /\ srv'.again = srv.again
      BY <1>0 DEF Era, OnlyClient
    <3>4. srv.again => cl[c].of # 1
      BY <2>5 DEF Era
    <3>5. EngagedInv(c)'
      BY <1>3, <2>1, <2>2, <2>3, <2>5, <2>8, <2>10, <3>1, <3>3, <3>4 DEF EngagedInv
    <3> QED BY <3>2, <3>5
  <2>14. /\ mutex' \in [Number -> Client \cup {None}]
         /\ mutex'[cl[c].of] = IF cl'[c].pc \in Starting THEN c ELSE None
         /\ mutex[cl[c].of] = c /\ cl[c].pc \in Starting
         /\ srv.again /\ mutex'[1] = None => mutex[1] = None
    BY <1>3, <2>5, <2>8, <2>10, StartFacts DEF Starting
  <2>15. q.opening \cup q.reading \subseteq Readers \cup {c} /\ A.reading \subseteq q.reading \cup {c}
    BY <2>1 DEF Readers
  <2> QED BY <1>0, <1>3, <2>1, <2>3, <2>8, <2>10, <2>11, <2>12, <2>13, <2>14, <2>15, StartSteps
<1>4. CASE HasEnded(c, Acceptor) /\ Throws(c, "statusRead")
  <2>1. /\ Goes(c, "statusRead", "ended") /\ ReleasesMutex(c) /\ Engaged(c)
        /\ A.data = <<>> /\ c \in A.reading /\ Does(Acceptor, Close(A, c))
    BY <1>4 DEF Throws, HasEnded, EndOfFile, Engaged, Goes, Readers, A
  <2> QED BY <1>0, <2>1, CloseKeeps
<1>5. CASE /\ Goes(c, "statusClose", IF cl[c].name = None THEN "ended" ELSE "send")
           /\ Closes(c, Acceptor) /\ ReleasesMutex(c)
  <2> DEFINE to == IF cl[c].name = None THEN "ended" ELSE "send"
  <2>1. cl[c].pc = "statusClose" /\ Does(Acceptor, Close(A, c)) /\ Engaged(c)
    BY <1>5 DEF Goes, Closes, A, Engaged, FifoInv, StartInv, EngagedInv, Readers
  <2>2. to \in {"ended", "send"} /\ (to = "send" => cl[c].name = c)
    BY DEF FifoInv, StartInv, NameInv
  <2>3. Goes(c, "statusClose", to)
    BY <1>5
  <2> HIDE DEF to
  <2> QED BY <1>0, <1>5, <2>1, <2>2, <2>3, CloseKeeps
<1> QED BY <1>1, <1>2, <1>3, <1>4, <1>5 DEF ReceiveStatus, A

LEMMA KillKeeps ==
  ASSUME FifoInv, NEW c \in Client, Kill(c)
  PROVE  FifoInv'
<1> DEFINE r == [cl[c] EXCEPT !.pc = "dead"]
<1>0. /\ TypeOK /\ OnlyClient /\ acc' = acc /\ UNCHANGED mutex /\ A \in APipe
      /\ Acceptor \in Pipe /\ c # Acceptor /\ c # Server /\ cl[c] \in ClientState
      /\ pipe' = [p \in Pipe |-> Close(pipe[p], c)]
  BY StartFacts, Types DEF Kill, OnlyClient, FifoInv
<1>1. \A p \in Pipe : /\ pipe'[p] \in APipe /\ pipe'[p].data \in {pipe[p].data, <<>>}
                      /\ pipe'[p].linked = pipe[p].linked
                      /\ pipe'[p].writers = pipe[p].writers \ {c}
                      /\ pipe'[p].opening = pipe[p].opening \ {c}
                      /\ pipe'[p].reading = pipe[p].reading \ {c}
  BY <1>0, CloseFacts, Types
<1>2. /\ A'.data \in {A.data, <<>>} /\ A'.linked = A.linked /\ A'.writers = A.writers \ {c}
      /\ A'.opening = A.opening \ {c} /\ A'.reading = A.reading \ {c}
      /\ \A d \in Client : pipe'[d].data \in {pipe[d].data, <<>>}
  BY <1>0, <1>1, Names DEF A
<1>3. /\ r \in ClientState /\ r.pc = "dead" /\ r.of = cl[c].of /\ r.name = cl[c].name
      /\ r.done = cl[c].done
  BY <1>0 DEF ClientState, ClientPlace
<1>4. cl' = [cl EXCEPT ![c] = r]
  BY DEF Kill
<1> HIDE DEF r
<1>5. /\ cl' \in [Client -> ClientState] /\ cl'[c] = r
      /\ \A d \in Client \ {c} : cl'[d] = cl[d]
  BY <1>0, <1>3, <1>4, Types
<1>6. TypeOK'
  <2>1. pipe' \in [Pipe -> APipe]
    BY <1>0, <1>1
  <2> QED BY <1>0, <1>5, <2>1, Types, TypesNext DEF OnlyClient
<1>7. \A d \in Client : (Engaged(d)' => Engaged(d)) /\ (Signed(d) => Signed(d)')
  BY <1>0, <1>2, <1>3, <1>5 DEF Engaged, Signed, Readers, Era, OnlyClient
<1>8. ServerInv'
  BY <1>0, <1>2 DEF FifoInv, StartInv, ServerInv, OnlyClient
<1>9. EndsInv'
  BY <1>0, <1>2, <1>5 DEF FifoInv, StartInv, EndsInv, Readers, OnlyClient
<1>10. MutexInv'
  BY <1>0, <1>3, <1>5 DEF FifoInv, StartInv, MutexInv
<1>11. TokenInv'
  <2>1. \A d \in Client : cl'[d].pc = "statusClose" => cl[d].pc = "statusClose"
    BY <1>3, <1>5
  <2>2. \A d \in Client : Only(d) => Only(d)'
    BY <1>7 DEF Only
  <2> QED BY <1>0, <1>2, <1>7, <2>1, <2>2, TokenKept
<1>12. ASSUME NEW d \in Client
       PROVE  NameInv(d)' /\ EngagedInv(d)' /\ StepInv(d)'
  <2>1. NameInv(d) /\ EngagedInv(d) /\ StepInv(d)
    BY DEF FifoInv, StartInv
  <2>2. NameInv(d)'
    BY <1>0, <1>3, <1>5, <2>1 DEF NameInv, Starting, Talking, Done, OnlyClient
  <2>3. EngagedInv(d)'
    BY <1>0, <1>2, <1>3, <1>5, <1>7, <2>1 DEF EngagedInv, Starting, Readers, Era, OnlyClient
  <2>4. StepInv(d)'
    <3>1. cl'[d].done = cl[d].done /\ (cl'[d].pc \in Waiting \/ cl'[d].pc = cl[d].pc)
      BY <1>3, <1>5 DEF Waiting, Done
    <3>2. Holding(d)' => Holding(d) /\ ses'[d].n = ses[d].n
      BY <1>0 DEF Holding, OnlyClient
    <3> QED BY <1>2, <2>1, <3>1, <3>2, StepKept
  <2> QED BY <2>2, <2>3, <2>4
<1> QED BY <1>6, <1>8, <1>9, <1>10, <1>11, <1>12 DEF FifoInv, StartInv

-----------------------------------------------------------------------------
(* Steps of the acceptor and of the server.                                *)
LEMMA Calm ==
  ASSUME UNCHANGED <<mutex, cl>>, srv'.again = srv.again,
         \A d \in Client : d \in Readers' => d \in Readers
  PROVE  \A d \in Client : /\ Signed(d)' <=> Signed(d)
                           /\ Engaged(d)' => Engaged(d)
                           /\ Only(d) => Only(d)'
BY DEF Signed, Engaged, Only, Era

LEMMA CurrentCalm ==
  ASSUME FifoInv, UNCHANGED <<mutex, cl>>, srv'.again = srv.again,
         \A d \in Client : d \in Readers' => d \in Readers,
         A'.data \in {A.data, <<>>}, A'.linked = A.linked,
         acc.stopped => acc'.stopped, acc'.pc = "statusClose" => acc.pc = "statusClose",
         A.data # <<>> /\ ~acc'.stopped =>
           \A d \in Client : Signed(d) /\ d \in A'.reading => d \in A.reading
  PROVE  \A j \in 1 .. Len(A'.data) : Current(A.data[j])'
<1>1. CASE A'.data = A.data
  BY <1>1, Calm, CurrentKept
<1>2. CASE A'.data = <<>>
  BY <1>2
<1> QED BY <1>1, <1>2

LEMMA CalmSteps ==
  ASSUME FifoInv, UNCHANGED <<use, mutex, cl>>, srv'.again = srv.again,
         pipe' \in [Pipe -> APipe], acc' \in AcceptorState, ses' \in [Client -> SessionState],
         lock' \in {Acceptor, Server, None}, srv' \in ServerState, srv.named <= srv'.named,
         \A d \in Client : /\ pipe'[d].data \in {pipe[d].data, <<>>}
                           /\ Holding(d)' => Holding(d) /\ ses'[d].n = ses[d].n
                           /\ d \in Readers' => d \in Readers
                           /\ d \in A.reading => d \in A'.reading,
         ServerInv', EndsInv', TokenInv'
  PROVE  FifoInv'
<1>1. TypeOK'
  BY Types, TypesNext DEF FifoInv
<1>2. MutexInv'
  BY DEF FifoInv, StartInv, MutexInv
<1>3. ASSUME NEW d \in Client
      PROVE  NameInv(d)' /\ EngagedInv(d)' /\ StepInv(d)'
  <2>1. NameInv(d) /\ EngagedInv(d) /\ StepInv(d)
    BY DEF FifoInv, StartInv
  <2>2. NameInv(d)'
    BY <2>1 DEF NameInv
  <2>3. EngagedInv(d)'
    <3>1. cl[d].of \in Nat /\ srv.named \in Nat /\ srv'.named \in Nat
      BY Types DEF FifoInv, ClientState, ServerState, Number
    <3>2. Engaged(d)' => Engaged(d)
      BY Calm
    <3> QED BY <2>1, <3>1, <3>2 DEF EngagedInv, Era
  <2>4. StepInv(d)'
    BY <2>1, StepSame
  <2> QED BY <2>2, <2>3, <2>4
<1> QED BY <1>1, <1>2, <1>3 DEF FifoInv, StartInv

LEMMA AcceptorSteps ==
  ASSUME FifoInv, OnlyAcceptor, UNCHANGED ses, NEW q \in APipe, Sets(Acceptor, q),
         q.linked = A.linked, acc' \in AcceptorState, acc'.stopped = acc.stopped,
         lock' \in {Acceptor, Server, None}, acc.pc # "ended",
         acc'.pc \in Serving => acc'.for \in Client,
         q.opening \cup q.reading \subseteq Readers \cup {Acceptor},
         A.reading \ {Acceptor} \subseteq q.reading,
         q.writers \subseteq A.writers \cup {Acceptor},
         Acceptor \in q.opening \cup q.reading => acc'.pc \in {"read", "close"},
         Acceptor \in q.writers <=> acc'.pc \in {"statusWrite", "statusClose"},
         TokenInv'
  PROVE  FifoInv'
<1>1. A' = q /\ pipe' \in [Pipe -> APipe] /\ \A d \in Client : pipe'[d] = pipe[d]
  BY Names DEF Sets, A
<1>2. ServerInv'
  BY <1>1 DEF FifoInv, StartInv, ServerInv, OnlyAcceptor
<1>3. EndsInv'
  BY <1>1, Names DEF FifoInv, StartInv, EndsInv, Readers, OnlyAcceptor
<1>4. \A d \in Client : /\ d \in Readers' => d \in Readers
                        /\ d \in A.reading => d \in A'.reading
  BY <1>1, Names DEF Readers
<1>5. \A d \in Client : Holding(d)' => Holding(d) /\ ses'[d].n = ses[d].n
  BY DEF Holding
<1>6. /\ UNCHANGED <<use, mutex, cl>> /\ srv' \in ServerState /\ ses' \in [Client -> SessionState]
      /\ srv'.again = srv.again /\ srv.named <= srv'.named
  BY Types DEF OnlyAcceptor, FifoInv, ServerState, Number
<1> QED BY <1>1, <1>2, <1>3, <1>4, <1>5, <1>6, CalmSteps

LEMMA AcceptorFrame ==
  ASSUME FifoInv, OnlyAcceptor
  PROVE  /\ TypeOK /\ acc \in AcceptorState /\ A \in APipe /\ Acceptor \in Pipe
         /\ Acceptor \in Process /\ lock \in {Acceptor, Server, None}
         /\ acc.for # None => acc.for \in Client
         /\ acc.pc \in Serving => acc.for \in Client
         /\ acc.pc # "ended" => A.linked
         /\ UNCHANGED <<mutex, cl>> /\ srv'.again = srv.again
         /\ Acceptor \in Readers => acc.pc \in {"read", "close"}
         /\ Acceptor \in A.writers <=> acc.pc \in {"statusWrite", "statusClose"}
         /\ UNCHANGED pipe => Sets(Acceptor, A)
BY StartFacts, Names, Types
DEF FifoInv, StartInv, ServerInv, EndsInv, AcceptorState, OnlyAcceptor, Sets, A

LEMMA ReadsKeep ==
  ASSUME FifoInv, AcceptorReads
  PROVE  FifoInv'
<1>0. OnlyAcceptor /\ UNCHANGED <<ses, lock>>
  BY DEF AcceptorReads
<1>00. AcceptorInv
  BY DEF FifoInv, StartInv, TokenInv
<1>1. CASE AcceptorGoes("top", IF acc.stopped THEN "ended" ELSE "open") /\ UNCHANGED pipe
  <2> DEFINE to == IF acc.stopped THEN "ended" ELSE "open"
  <2>1. to \in {"ended", "open"}
    OBVIOUS
  <2>2. AcceptorGoes("top", to)
    BY <1>1
  <2> HIDE DEF to
  <2>3. /\ acc.pc = "top" /\ acc' \in AcceptorState /\ acc'.pc = to
        /\ acc'.stopped = acc.stopped /\ acc'.for = acc.for
    BY <1>0, <2>1, <2>2, AcceptorFrame, AcceptorFacts DEF AcceptorPlace
  <2>4. A' = A
    BY <1>1 DEF A
  <2>5. TokenInv'
    <3>1. AcceptorInv'
      BY <2>1, <2>3 DEF AcceptorInv
    <3>2. \A j \in 1 .. Len(A'.data) : Current(A.data[j])'
      BY <1>0, <2>1, <2>3, <2>4, AcceptorFrame, CurrentCalm DEF Readers
    <3> QED BY <3>1, <3>2 DEF TokenInv
  <2> QED BY <1>0, <1>1, <2>1, <2>3, <2>5, AcceptorFrame, AcceptorSteps DEF Serving, Readers
<1>2. CASE AcceptorGoes("open", "read") /\ Does(Acceptor, OpenRead(A, Acceptor))
  <2> DEFINE q == OpenRead(A, Acceptor)
  <2>1. /\ q \in APipe /\ q.data = A.data /\ q.linked = A.linked /\ q.writers = A.writers
        /\ q.opening \cup q.reading = Readers \cup {Acceptor}
        /\ A.reading \subseteq q.reading /\ q.reading \subseteq A.reading \cup {Acceptor}
    BY <1>0, AcceptorFrame, OpenReadFacts DEF Readers
  <2> HIDE DEF q
  <2>2. Sets(Acceptor, q) /\ A' = q
    BY <1>0, <1>2, <2>1, AcceptorFrame, DoesFacts DEF Sets, A, q
  <2>3. /\ acc.pc = "open" /\ acc' \in AcceptorState /\ acc'.pc = "read"
        /\ acc'.stopped = acc.stopped /\ acc'.for = acc.for
    BY <1>0, <1>2, AcceptorFrame, AcceptorFacts DEF AcceptorPlace
  <2>4. TokenInv'
    <3>1. AcceptorInv'
      BY <2>3 DEF AcceptorInv
    <3>2. \A d \in Client : /\ d \in Readers' => d \in Readers
                            /\ d \in A'.reading => d \in A.reading
      BY <2>1, <2>2, Names DEF Readers
    <3>3. \A j \in 1 .. Len(A'.data) : Current(A.data[j])'
      BY <1>0, <2>1, <2>2, <2>3, <3>2, AcceptorFrame, CurrentCalm
    <3> QED BY <3>1, <3>3 DEF TokenInv
  <2>5. q.opening \cup q.reading \subseteq Readers \cup {Acceptor} /\ A.reading \ {Acceptor} \subseteq q.reading
    BY <2>1
  <2>6. Acceptor \notin q.writers
    BY <1>0, <2>1, <2>3, AcceptorFrame
  <2> QED BY <1>0, <2>1, <2>2, <2>3, <2>4, <2>5, <2>6, AcceptorFrame, AcceptorSteps DEF Serving
<1>3. CASE /\ acc.pc = "read" /\ HasRead(Acceptor, Acceptor)
           /\ acc' = [acc EXCEPT !.pc = "close",
                                 !.for = IF Head(A.data).kind = "signature"
                                         THEN Head(A.data).id ELSE None]
  <2> DEFINE q == Drain(A)
             for == IF Head(A.data).kind = "signature" THEN Head(A.data).id ELSE None
  <2>1. /\ q \in APipe /\ q.data = <<>> /\ q.linked = A.linked /\ q.writers = A.writers
        /\ q.opening = A.opening /\ q.reading = A.reading
    BY <1>0, AcceptorFrame, DrainFacts
  <2>2. A.data # <<>> /\ Does(Acceptor, q)
    BY <1>3 DEF HasRead, A
  <2> HIDE DEF q
  <2>3. Sets(Acceptor, q) /\ A' = q
    BY <1>0, <2>1, <2>2, AcceptorFrame, DoesFacts DEF Sets, A
  <2>4. /\ for \in Client \cup {None}
        /\ for # None => Signed(for) /\ (~acc.stopped => for \notin A.reading)
    <3>1. A.data \in Seq(Message)
      BY <1>0, AcceptorFrame, PipeParts
    <3>2. Head(A.data) = A.data[1] /\ 1 \in 1 .. Len(A.data)
      BY <2>2, <3>1
    <3>3. Current(A.data[1]) /\ A.data[1].id \in Client
      BY <3>2, Names, Messages DEF A, FifoInv, StartInv, TokenInv
    <3>4. A.linked
      BY <1>0, <1>3, AcceptorFrame
    <3> QED BY <3>2, <3>3, <3>4 DEF Current
  <2>5. acc' = [acc EXCEPT !.pc = "close", !.for = for]
    BY <1>3
  <2> HIDE DEF for
  <2>6. acc' \in AcceptorState /\ acc'.pc = "close" /\ acc'.for = for /\ acc'.stopped = acc.stopped
    BY <1>0, <2>4, <2>5, AcceptorFrame DEF AcceptorState, AcceptorPlace
  <2>7. TokenInv'
    <3>1. \A d \in Client : Signed(d)' <=> Signed(d)
      BY <1>0, <2>1, <2>3, AcceptorFrame, Calm DEF Readers
    <3>2. PICK f \in Client \cup {None} : f = for
      BY <2>4
    <3>3. f # None /\ ~acc.stopped => Signed(f)' /\ f \notin A'.reading
      BY <2>1, <2>3, <2>4, <3>1, <3>2
    <3>4. AcceptorInv'
      BY <2>1, <2>3, <2>6, <3>2, <3>3 DEF AcceptorInv, Signed
    <3> QED BY <2>1, <2>3, <3>4 DEF TokenInv
  <2>8. Acceptor \notin q.writers
    BY <1>0, <1>3, <2>1, AcceptorFrame
  <2> QED BY <1>0, <1>3, <2>1, <2>3, <2>6, <2>7, <2>8, AcceptorFrame, AcceptorSteps
          DEF Serving, Readers
<1>4. CASE AcceptorGoes("read", "top") /\ HasEnded(Acceptor, Acceptor)
  <2> DEFINE q == Close(A, Acceptor)
  <2>1. /\ q \in APipe /\ q.data \in {A.data, <<>>} /\ q.linked = A.linked
        /\ q.writers = A.writers \ {Acceptor} /\ q.opening = A.opening \ {Acceptor}
        /\ q.reading = A.reading \ {Acceptor}
    BY <1>0, AcceptorFrame, CloseFacts
  <2>2. A.data = <<>> /\ Does(Acceptor, q)
    BY <1>4 DEF HasEnded, EndOfFile, A
  <2> HIDE DEF q
  <2>3. Sets(Acceptor, q) /\ A' = q
    BY <1>0, <2>1, <2>2, AcceptorFrame, DoesFacts DEF Sets, A
  <2>4. /\ acc.pc = "read" /\ acc' \in AcceptorState /\ acc'.pc = "top"
        /\ acc'.stopped = acc.stopped /\ acc'.for = acc.for
    BY <1>0, <1>4, AcceptorFrame, AcceptorFacts DEF AcceptorPlace
  <2>5. TokenInv'
    BY <2>1, <2>2, <2>3, <2>4 DEF TokenInv, AcceptorInv
  <2> QED BY <1>0, <2>1, <2>3, <2>4, <2>5, AcceptorFrame, AcceptorSteps DEF Serving, Readers
<1>5. CASE /\ AcceptorGoes("close", IF acc.stopped THEN "ended"
                                    ELSE IF acc.for = None THEN "top" ELSE "create")
           /\ Does(Acceptor, Close(A, Acceptor))
  <2> DEFINE q == Close(A, Acceptor)
             to == IF acc.stopped THEN "ended" ELSE IF acc.for = None THEN "top" ELSE "create"
  <2>1. /\ q \in APipe /\ q.data \in {A.data, <<>>} /\ q.linked = A.linked
        /\ q.writers = A.writers \ {Acceptor} /\ q.opening = A.opening \ {Acceptor}
        /\ q.reading = A.reading \ {Acceptor}
    BY <1>0, AcceptorFrame, CloseFacts
  <2>2. AcceptorGoes("close", to) /\ Does(Acceptor, q)
    BY <1>5
  <2>3. /\ to \in {"ended", "top", "create"}
        /\ to = "create" => ~acc.stopped /\ acc.for # None
    OBVIOUS
  <2> HIDE DEF q, to
  <2>4. Sets(Acceptor, q) /\ A' = q
    BY <1>0, <2>1, <2>2, AcceptorFrame, DoesFacts DEF Sets, A
  <2>5. /\ acc.pc = "close" /\ acc' \in AcceptorState /\ acc'.pc = to
        /\ acc'.stopped = acc.stopped /\ acc'.for = acc.for
    BY <1>0, <2>2, <2>3, AcceptorFrame, AcceptorFacts DEF AcceptorPlace
  <2>6. \A d \in Client : /\ d \in Readers' => d \in Readers
                          /\ d \in A'.reading <=> d \in A.reading
    BY <2>1, <2>4, Names DEF Readers
  <2>7. TokenInv'
    <3>1. AcceptorInv'
      <4>1. CASE to # "create"
        BY <2>3, <2>5, <4>1 DEF AcceptorInv
      <4>2. CASE to = "create"
        <5>1. acc.for \in Client /\ A.data = <<>> /\ Signed(acc.for)
          BY <1>00, <1>0, <2>3, <2>5, <4>2, AcceptorFrame DEF AcceptorInv
        <5>2. Only(acc.for)
          BY <5>1, Unique DEF Only
        <5>3. Only(acc.for)'
          BY <1>0, <2>5, <2>6, <5>1, <5>2, AcceptorFrame, Calm DEF Only
        <5>4. cl'[acc.for].pc # "statusClose"
          BY <1>0, <5>1, AcceptorFrame DEF Signed
        <5> QED BY <2>1, <2>4, <2>5, <4>2, <5>1, <5>3, <5>4 DEF AcceptorInv
      <4> QED BY <4>1, <4>2
    <3>2. \A j \in 1 .. Len(A'.data) : Current(A.data[j])'
      BY <1>0, <2>1, <2>3, <2>4, <2>5, <2>6, AcceptorFrame, CurrentCalm
    <3> QED BY <3>1, <3>2 DEF TokenInv
  <2>8. acc'.pc \in Serving => acc'.for \in Client
    BY <1>0, <2>3, <2>5, AcceptorFrame DEF Serving
  <2> QED BY <1>0, <2>1, <2>3, <2>4, <2>5, <2>7, <2>8, AcceptorFrame, AcceptorSteps DEF Readers
<1> QED BY <1>0, <1>1, <1>2, <1>3, <1>4, <1>5 DEF AcceptorReads, Closes, A

(* The acceptor takes or leaves the place of a session, or closes.         *)
LEMMA ServesKeep ==
  ASSUME FifoInv, OnlyAcceptor, UNCHANGED ses, lock' \in {Acceptor, Server, None},
         NEW from \in Serving, NEW to \in {"statusOpen", "mkfifo", "ended"},
         AcceptorGoes(from, to),
         \/ /\ from \in {"create", "statusOpen"} /\ UNCHANGED pipe
         \/ /\ from \in {"statusWrite", "statusClose"} /\ to # "statusOpen"
            /\ Does(Acceptor, Close(A, Acceptor)),
         to = "statusOpen" => from = "create"
  PROVE  FifoInv'
<1> DEFINE q == IF from \in {"create", "statusOpen"} THEN A ELSE Close(A, Acceptor)
<1>0. /\ acc.pc = from /\ acc' \in AcceptorState /\ acc'.pc = to
      /\ acc'.stopped = acc.stopped /\ acc'.for = acc.for
  BY AcceptorFrame, AcceptorFacts DEF AcceptorPlace
<1>1. /\ q \in APipe /\ q.data \in {A.data, <<>>} /\ q.linked = A.linked
      /\ q.writers = A.writers \ {Acceptor} /\ q.opening = A.opening \ {Acceptor}
      /\ q.reading = A.reading \ {Acceptor} /\ Sets(Acceptor, q)
  <2>1. CASE from \in {"create", "statusOpen"}
    <3>1. Acceptor \notin A.writers /\ Acceptor \notin Readers
      BY <1>0, <2>1, AcceptorFrame
    <3>2. q = A /\ UNCHANGED pipe
      BY <2>1
    <3> HIDE DEF q
    <3> QED BY <3>1, <3>2, AcceptorFrame DEF Readers
  <2>2. CASE from \in {"statusWrite", "statusClose"}
    <3>1. q = Close(A, Acceptor) /\ Does(Acceptor, q)
      BY <2>2
    <3> HIDE DEF q
    <3>2. /\ q \in APipe /\ q.data \in {A.data, <<>>} /\ q.linked = A.linked
          /\ q.writers = A.writers \ {Acceptor} /\ q.opening = A.opening \ {Acceptor}
          /\ q.reading = A.reading \ {Acceptor}
      BY <3>1, AcceptorFrame, CloseFacts
    <3>3. Sets(Acceptor, q)
      BY <3>1, <3>2, AcceptorFrame, DoesFacts
    <3> QED BY <3>2, <3>3
  <2> QED BY <2>1, <2>2
<1> HIDE DEF q
<1>2. A' = q
  BY <1>1 DEF Sets, A
<1>3. \A d \in Client : /\ d \in Readers' => d \in Readers
                        /\ d \in A'.reading <=> d \in A.reading
  BY <1>1, <1>2, Names DEF Readers
<1>4. TokenInv'
  <2>1. AcceptorInv'
    <3>1. CASE to # "statusOpen"
      BY <1>0, <3>1 DEF AcceptorInv
    <3>2. CASE to = "statusOpen"
      <4>1. A.data = <<>> /\ Only(acc.for) /\ cl[acc.for].pc # "statusClose" /\ acc.for \in Client
        BY <1>0, <3>2, AcceptorFrame DEF FifoInv, StartInv, TokenInv, AcceptorInv, Serving
      <4>2. Only(acc.for)'
        BY <1>0, <1>3, <4>1, AcceptorFrame, Calm DEF Only
      <4> QED BY <1>0, <1>1, <1>2, <3>2, <4>1, <4>2, AcceptorFrame DEF AcceptorInv
    <3> QED BY <3>1, <3>2
  <2>2. \A j \in 1 .. Len(A'.data) : Current(A.data[j])'
    BY <1>0, <1>1, <1>2, <1>3, AcceptorFrame, CurrentCalm
  <2> QED BY <2>1, <2>2 DEF TokenInv
<1>5. acc'.pc \in Serving => acc'.for \in Client
  BY <1>0, AcceptorFrame
<1> QED BY <1>0, <1>1, <1>4, <1>5, AcceptorFrame, AcceptorSteps DEF Readers, Serving

(* The pipe of the acceptor stays as it is.                                *)
LEMMA PushKeeps ==
  ASSUME FifoInv, OnlyAcceptor, AcceptorGoes("push", "top"), UNCHANGED pipe,
         ses' = [ses EXCEPT ![acc.for].pc = "queued"], lock' = None
  PROVE  FifoInv'
<1>1. /\ acc.pc = "push" /\ acc' \in AcceptorState /\ acc'.pc = "top"
      /\ acc'.stopped = acc.stopped /\ acc'.for = acc.for
  BY AcceptorFrame, AcceptorFacts DEF AcceptorPlace
<1>2. PICK c \in Client : c = acc.for
  BY <1>1, AcceptorFrame DEF Serving
<1> DEFINE r == [ses[c] EXCEPT !.pc = "queued"]
<1>3. r \in SessionState /\ r.pc = "queued"
  BY AcceptorFrame, Types DEF SessionState, SessionPlace
<1>4. ses' = [ses EXCEPT ![c] = r]
  BY <1>2
<1> HIDE DEF r
<1>5. /\ ses' \in [Client -> SessionState] /\ ses'[c].pc = "queued"
      /\ \A d \in Client \ {c} : ses'[d] = ses[d]
  BY <1>3, <1>4, AcceptorFrame, Types
<1>6. A' = A
  BY DEF A
<1>7. ServerInv' /\ EndsInv'
  <2>1. ServerInv'
    BY <1>1, <1>6 DEF FifoInv, StartInv, ServerInv, OnlyAcceptor, Serving
  <2>2. EndsInv'
    BY <1>1, <1>6 DEF FifoInv, StartInv, EndsInv, Readers, OnlyAcceptor
  <2> QED BY <2>1, <2>2
<1>8. TokenInv'
  <2>1. AcceptorInv'
    BY <1>1 DEF AcceptorInv
  <2>2. \A j \in 1 .. Len(A'.data) : Current(A.data[j])'
    BY <1>1, <1>6, AcceptorFrame, CurrentCalm DEF Readers
  <2> QED BY <2>1, <2>2 DEF TokenInv
<1>9. /\ UNCHANGED <<use, mutex, cl>> /\ srv'.again = srv.again /\ srv' \in ServerState
      /\ srv.named <= srv'.named /\ pipe' \in [Pipe -> APipe]
  BY Types DEF OnlyAcceptor, FifoInv, ServerState, Number
<1>10. \A d \in Client : /\ pipe'[d].data \in {pipe[d].data, <<>>}
                         /\ Holding(d)' => Holding(d) /\ ses'[d].n = ses[d].n
                         /\ d \in Readers' => d \in Readers
                         /\ d \in A.reading => d \in A'.reading
  BY <1>5, <1>6 DEF Holding, Held, Readers
<1> QED BY <1>1, <1>5, <1>7, <1>8, <1>9, <1>10, CalmSteps

LEMMA CreatePipeKeeps ==
  ASSUME FifoInv, CreatePipe
  PROVE  FifoInv'
<1>1. /\ OnlyAcceptor /\ UNCHANGED <<ses, lock>> /\ AcceptorGoes("mkfifo", "push")
      /\ Does(acc.for, Link(pipe[acc.for]))
  BY DEF CreatePipe
<1>2. /\ acc.pc = "mkfifo" /\ acc' \in AcceptorState /\ acc'.pc = "push"
      /\ acc'.stopped = acc.stopped /\ acc'.for = acc.for
  BY <1>1, AcceptorFrame, AcceptorFacts DEF AcceptorPlace
<1>3. PICK c \in Client : c = acc.for
  BY <1>1, <1>2, AcceptorFrame DEF Serving
<1> DEFINE q == Link(pipe[c])
<1>4. /\ q \in APipe /\ q.data = pipe[c].data /\ c \in Pipe /\ c # Acceptor
  BY LinkFacts, Messages, Names
<1>5. Sets(c, q)
  BY <1>1, <1>3, <1>4, AcceptorFrame, DoesFacts
<1> HIDE DEF q
<1>6. A' = A /\ pipe' \in [Pipe -> APipe] /\ \A d \in Client : pipe'[d].data = pipe[d].data
  BY <1>4, <1>5, Names DEF Sets, A
<1>7. ServerInv' /\ EndsInv'
  <2>1. acc.for \in Client
    BY <1>3
  <2>2. ServerInv'
    BY <1>1, <1>2, <1>6, <2>1 DEF FifoInv, StartInv, ServerInv, OnlyAcceptor
  <2>3. EndsInv'
    BY <1>1, <1>2, <1>6 DEF FifoInv, StartInv, EndsInv, Readers, OnlyAcceptor
  <2> QED BY <2>2, <2>3
<1>8. TokenInv'
  <2>1. AcceptorInv'
    BY <1>2 DEF AcceptorInv
  <2>2. \A j \in 1 .. Len(A'.data) : Current(A.data[j])'
    BY <1>1, <1>2, <1>6, AcceptorFrame, CurrentCalm DEF Readers
  <2> QED BY <2>1, <2>2 DEF TokenInv
<1>9. /\ UNCHANGED <<use, mutex, cl>> /\ srv'.again = srv.again /\ srv' \in ServerState
      /\ srv.named <= srv'.named /\ ses' \in [Client -> SessionState]
      /\ lock' \in {Acceptor, Server, None}
  BY <1>1, Types DEF OnlyAcceptor, FifoInv, ServerState, Number
<1>10. \A d \in Client : /\ pipe'[d].data \in {pipe[d].data, <<>>}
                         /\ Holding(d)' => Holding(d) /\ ses'[d].n = ses[d].n
                         /\ d \in Readers' => d \in Readers
                         /\ d \in A.reading => d \in A'.reading
  BY <1>1, <1>6 DEF Holding, Readers
<1> QED BY <1>2, <1>6, <1>7, <1>8, <1>9, <1>10, CalmSteps

LEMMA SendStatusKeeps ==
  ASSUME FifoInv, SendStatus
  PROVE  FifoInv'
<1>0. /\ OnlyAcceptor /\ UNCHANGED ses /\ AcceptorInv
      /\ lock' \in {lock, None}
  BY DEF SendStatus, FifoInv, StartInv, TokenInv
<1>1. CASE /\ CanOpen(Acceptor) /\ AcceptorGoes("statusOpen", "statusWrite")
           /\ Does(Acceptor, OpenWrite(A, Acceptor)) /\ UNCHANGED lock
  <2> DEFINE q == OpenWrite(A, Acceptor)
  <2>1. /\ q \in APipe /\ q.data = A.data /\ q.linked = A.linked
        /\ q.writers = A.writers \cup {Acceptor} /\ q.opening = {} /\ q.reading = Readers
    BY <1>0, AcceptorFrame, OpenWriteFacts DEF Readers
  <2> HIDE DEF q
  <2>2. Sets(Acceptor, q) /\ A' = q
    BY <1>0, <1>1, <2>1, AcceptorFrame, DoesFacts DEF Sets, A, q
  <2>3. /\ acc.pc = "statusOpen" /\ acc' \in AcceptorState /\ acc'.pc = "statusWrite"
        /\ acc'.stopped = acc.stopped /\ acc'.for = acc.for
    BY <1>0, <1>1, AcceptorFrame, AcceptorFacts DEF AcceptorPlace
  <2>4. A.data = <<>> /\ Only(acc.for) /\ cl[acc.for].pc # "statusClose" /\ acc.for \in Client
    BY <1>0, <2>3, AcceptorFrame DEF AcceptorInv, Serving
  <2>5. TokenInv'
    <3>1. \A d \in Client : d \in Readers' => d \in Readers
      BY <2>1, <2>2 DEF Readers
    <3>2. Only(acc.for)'
      BY <1>0, <2>3, <2>4, <3>1, AcceptorFrame, Calm DEF Only
    <3> QED BY <1>0, <2>1, <2>2, <2>3, <2>4, <3>2, AcceptorFrame DEF TokenInv, AcceptorInv
  <2>6. Acceptor \notin Readers
    BY <1>0, <2>3, AcceptorFrame
  <2> QED BY <1>0, <1>1, <2>1, <2>2, <2>3, <2>4, <2>5, <2>6, AcceptorFrame, AcceptorSteps
               DEF Readers
<1>2. CASE CannotOpen(Acceptor, Acceptor) /\ AcceptorGoes("statusOpen", "mkfifo") /\ UNCHANGED <<pipe, lock>>
  BY <1>0, <1>2, AcceptorFrame, ServesKeep DEF Serving
<1>3. CASE /\ AcceptorGoes("statusWrite", "statusClose") /\ UNCHANGED lock
           /\ Write(Acceptor, Acceptor, [kind |-> "status", id |-> acc.for, n |-> 0])
  <2>1. /\ acc.pc = "statusWrite" /\ acc' \in AcceptorState /\ acc'.pc = "statusClose"
        /\ acc'.stopped = acc.stopped /\ acc'.for = acc.for
    BY <1>0, <1>3, AcceptorFrame, AcceptorFacts DEF AcceptorPlace
  <2>2. PICK c \in Client : c = acc.for
    BY <1>0, <2>1, AcceptorFrame DEF Serving
  <2>3. A.data = <<>> /\ Only(c) /\ cl[c].pc # "statusClose"
    BY <1>0, <2>1, <2>2 DEF AcceptorInv
  <2> DEFINE m == [kind |-> "status", id |-> c, n |-> 0]
             q == Put(A, m)
  <2>4. m \in Message /\ m.kind = "status" /\ m.id = c
    BY <1>0, AcceptorFrame, UseFacts DEF Message
  <2>5. HasReader(A) /\ Does(Acceptor, q)
    BY <1>3, <2>2 DEF Write, A
  <2> HIDE DEF m
  <2>6. /\ q \in APipe /\ q.data = Append(A.data, m) /\ q.linked = A.linked
        /\ q.writers = A.writers /\ q.opening = A.opening /\ q.reading = A.reading
    BY <1>0, <2>4, AcceptorFrame, PutFacts
  <2> HIDE DEF q
  <2>7. Sets(Acceptor, q) /\ A' = q /\ A'.data = <<m>>
    BY <1>0, <2>3, <2>5, <2>6, AcceptorFrame, DoesFacts DEF Sets, A
  <2>8. Signed(c)
    <3>1. PICK d : d \in Readers
      BY <2>5 DEF HasReader, Readers
    <3>2. d \in Client
      BY <1>0, <2>1, <3>1, AcceptorFrame DEF FifoInv, StartInv, EndsInv
    <3>3. Engaged(d) /\ cl[d].pc \in {"statusRead", "statusClose"}
      BY <3>1, <3>2 DEF FifoInv, StartInv, EndsInv, Engaged
    <3>4. d = c
      BY <2>3, <3>2, <3>3 DEF Only
    <3> QED BY <2>3, <3>3, <3>4, Unique DEF Signed
  <2>9. TokenInv'
    <3>1. \A d \in Client : /\ d \in Readers' => d \in Readers
      BY <2>6, <2>7 DEF Readers
    <3>2. Only(c)' /\ Signed(c)'
      BY <1>0, <2>3, <2>8, <3>1, AcceptorFrame, Calm
    <3>3. Current(A.data[1])'
      BY <2>4, <2>7, <3>2 DEF Current
    <3>4. AcceptorInv'
      BY <2>1 DEF AcceptorInv
    <3> QED BY <2>7, <3>3, <3>4 DEF TokenInv
  <2>10. Acceptor \notin Readers /\ Acceptor \in A.writers
    BY <1>0, <2>1, AcceptorFrame
  <2> QED BY <1>0, <1>3, <2>1, <2>2, <2>6, <2>7, <2>9, <2>10, AcceptorFrame, AcceptorSteps
               DEF Readers
<1>4. CASE AcceptorGoes("statusWrite", "ended") /\ BrokenPipe(Acceptor, Acceptor) /\ lock' = None
  BY <1>0, <1>4, AcceptorFrame, ServesKeep DEF Serving, BrokenPipe, Closes, A
<1>5. CASE AcceptorGoes("statusClose", "mkfifo") /\ Closes(Acceptor, Acceptor) /\ UNCHANGED lock
  BY <1>0, <1>5, AcceptorFrame, ServesKeep DEF Serving, Closes, A
<1> QED BY <1>1, <1>2, <1>3, <1>4, <1>5 DEF SendStatus, A

LEMMA AcceptorStepKeeps ==
  ASSUME FifoInv, AcceptorStep
  PROVE  FifoInv'
<1>1. CASE CreateSession
  <2>1. CASE ConstructSession /\ lock' = Acceptor /\ UNCHANGED <<ses, pipe>> /\ OnlyAcceptor
    BY <2>1, ServesKeep DEF ConstructSession, Serving
  <2> QED BY <1>1, <2>1, PushKeeps DEF CreateSession
<1> QED BY <1>1, ReadsKeep, SendStatusKeeps, CreatePipeKeeps DEF AcceptorStep

-----------------------------------------------------------------------------
(* Server::stop.  In the pipe of the acceptor it only opens and closes.    *)
LEMMA ServerSteps ==
  ASSUME FifoInv, OnlyServer, srv'.again = srv.again, srv'.named = srv.named,
         pipe' \in [Pipe -> APipe], srv' \in ServerState, ses' \in [Client -> SessionState],
         lock' \in {Acceptor, Server, None}, acc' \in AcceptorState,
         acc'.pc = acc.pc, acc'.for = acc.for, acc.stopped => acc'.stopped,
         A'.data \in {A.data, <<>>}, A'.linked = A.linked, Readers' = Readers,
         A.reading \subseteq A'.reading, ~acc'.stopped => A'.reading = A.reading,
         A'.writers \ {Server} = A.writers \ {Server}, Server \in A'.writers => srv'.pc = "accClose",
         \A d \in Client : /\ pipe'[d].data \in {pipe[d].data, <<>>}
                           /\ Holding(d)' => Holding(d) /\ ses'[d].n = ses[d].n,
         ServerInv'
  PROVE  FifoInv'
<1>1. /\ UNCHANGED <<use, mutex, cl>>
  BY DEF OnlyServer
<1>2. EndsInv'
  BY <1>1, Names DEF FifoInv, StartInv, EndsInv
<1>3. TokenInv'
  <2>1. \A d \in Client : (Only(d) => Only(d)') /\ (Signed(d)' <=> Signed(d))
    BY <1>1, Calm
  <2>2. AcceptorInv'
    <3>1. AcceptorInv /\ (acc.pc \in Serving => acc.for \in Client)
      BY DEF FifoInv, StartInv, TokenInv, ServerInv
    <3>2. acc.for # None => acc.for \in Client
      BY Types DEF FifoInv, AcceptorState
    <3>3. acc'.pc \in {"create", "statusOpen", "statusWrite"} =>
            A'.data = <<>> /\ Only(acc.for)' /\ cl'[acc'.for].pc # "statusClose"
      BY <1>1, <2>1, <3>1 DEF AcceptorInv, Serving, Only
    <3>4. acc'.pc = "close" /\ acc'.for # None /\ ~acc'.stopped =>
            A'.data = <<>> /\ Signed(acc.for)' /\ acc'.for \notin A'.reading
      BY <1>1, <2>1, <3>1, <3>2 DEF AcceptorInv, Signed, Era
    <3> QED BY <3>3, <3>4 DEF AcceptorInv
  <2>3. \A j \in 1 .. Len(A'.data) : Current(A.data[j])'
    BY <1>1, CurrentCalm
  <2> QED BY <2>2, <2>3 DEF TokenInv
<1>4. srv.named <= srv'.named
  BY Types DEF FifoInv, ServerState, Number
<1> QED BY <1>1, <1>2, <1>3, <1>4, CalmSteps

(* A step of the server that leaves the pipe of the acceptor as it is.     *)
LEMMA ServerQuiet ==
  ASSUME FifoInv, OnlyServer, srv'.again = srv.again, srv'.named = srv.named,
         srv' \in ServerState, pipe' \in [Pipe -> APipe], A' = A,
         ses' \in [Client -> SessionState], lock' \in {Acceptor, Server, None},
         acc' \in AcceptorState, acc'.pc = acc.pc, acc'.for = acc.for,
         acc'.stopped <=>
           srv'.pc \in {"accOpen", "accClose", "joinAcceptor", "joinPool", "down"},
         acc.stopped => acc'.stopped,
         srv.pc # "accClose", srv.pc # "down" /\ srv'.pc # "down", srv'.again => srv'.pc = "up",
         srv'.pc \in {"exitOpen", "exitClose"} => srv'.now \in Client,
         srv'.pc \in {"joinPool", "down", "crashed"} => acc.pc = "ended",
         \A d \in Client : /\ pipe'[d].data \in {pipe[d].data, <<>>}
                           /\ Holding(d)' => Holding(d) /\ ses'[d].n = ses[d].n
  PROVE  FifoInv'
<1>1. ServerInv'
  BY DEF FifoInv, StartInv, ServerInv
<1>2. Server \notin A.writers
  BY DEF FifoInv, StartInv, EndsInv
<1>3. Readers' = Readers
  BY DEF Readers
<1> QED BY <1>1, <1>2, <1>3, ServerSteps

LEMMA ServerFrame ==
  ASSUME FifoInv
  PROVE  /\ TypeOK /\ srv \in ServerState /\ acc \in AcceptorState /\ A \in APipe
         /\ Acceptor \in Pipe /\ Server \in Process /\ pipe \in [Pipe -> APipe]
         /\ ses \in [Client -> SessionState] /\ lock \in {Acceptor, Server, None}
         /\ srv.again => srv.pc = "up"
         /\ srv.named = IF srv.again \/ srv.pc = "down" THEN 2 ELSE 1
         /\ A.linked <=> srv.pc # "down"
         /\ srv.pc \in {"exitOpen", "exitClose"} => srv.now \in Client
         /\ acc.stopped <=>
              srv.pc \in {"accOpen", "accClose", "joinAcceptor", "joinPool", "down"}
         /\ srv.pc \in {"joinPool", "down", "crashed"} => acc.pc = "ended"
         /\ UNCHANGED pipe => A' = A /\ pipe' \in [Pipe -> APipe] /\
                              \A d \in Client : pipe'[d].data \in {pipe[d].data, <<>>}
         /\ UNCHANGED ses => \A d \in Client : Holding(d)' => Holding(d) /\ ses'[d].n = ses[d].n
BY StartFacts, Names, Types DEF FifoInv, StartInv, ServerInv, A, Holding

LEMMA StopKeeps ==
  ASSUME FifoInv, Stop
  PROVE  FifoInv'
<1>1. /\ OnlyServer /\ UNCHANGED <<pipe, acc, ses, lock>> /\ ~srv.again
      /\ ServerGoes("up", "mark")
  BY DEF Stop
<1>2. /\ srv.pc = "up" /\ srv' \in ServerState /\ srv'.pc = "mark"
      /\ srv'.named = srv.named /\ srv'.again = srv.again
  BY <1>1, ServerFrame, ServerFacts DEF ServerPlace
<1> QED BY <1>1, <1>2, ServerFrame, ServerQuiet

LEMMA StopSessionsKeep ==
  ASSUME FifoInv, StopSessions
  PROVE  FifoInv'
<1>0. OnlyServer /\ UNCHANGED acc
  BY DEF StopSessions
<1>1. ASSUME NEW alive \in SUBSET Client, srv.pc = "mark",
             ses' = [c \in Client |-> [ses[c] EXCEPT !.stopped = @ \/ c \in alive]],
             srv' = [srv EXCEPT !.pc = "pick", !.todo = alive],
             lock' = Server, UNCHANGED pipe
      PROVE  FifoInv'
  <2>1. /\ srv' \in ServerState /\ srv'.pc = "pick"
        /\ srv'.named = srv.named /\ srv'.again = srv.again
    BY <1>1, ServerFrame DEF ServerState, ServerPlace
  <2>2. ASSUME NEW c \in Client
        PROVE  ses'[c] \in SessionState /\ ses'[c].pc = ses[c].pc /\ ses'[c].n = ses[c].n
    <3>1. ses[c] \in SessionState
      BY ServerFrame
    <3> DEFINE stopped == ses[c].stopped \/ c \in alive
               r == [ses[c] EXCEPT !.stopped = stopped]
    <3>2. stopped \in BOOLEAN
      OBVIOUS
    <3>3. ses'[c] = r
      BY <1>1
    <3> HIDE DEF stopped
    <3>4. r \in SessionState /\ r.pc = ses[c].pc /\ r.n = ses[c].n
      BY <3>1, <3>2 DEF SessionState
    <3> QED BY <3>3, <3>4
  <2>3. ses' \in [Client -> SessionState]
    BY <1>1, <2>2
  <2>4. \A d \in Client : Holding(d)' => Holding(d) /\ ses'[d].n = ses[d].n
    BY <2>2 DEF Holding
  <2> QED BY <1>0, <1>1, <2>1, <2>3, <2>4, ServerFrame, ServerQuiet
<1>2. ASSUME NEW c \in srv.todo, srv.pc = "pick",
             srv' = [srv EXCEPT !.pc = "exitOpen", !.todo = @ \ {c}, !.now = c],
             UNCHANGED <<pipe, ses, lock>>
      PROVE  FifoInv'
  <2>1. /\ srv' \in ServerState /\ srv'.pc = "exitOpen" /\ srv'.now \in Client
        /\ srv'.named = srv.named /\ srv'.again = srv.again
    BY <1>2, ServerFrame DEF ServerState, ServerPlace
  <2> QED BY <1>0, <1>2, <2>1, ServerFrame, ServerQuiet
<1>3. CASE StopSession(srv.now)
  <2>1. srv.pc \in {"exitOpen", "exitClose"} /\ UNCHANGED <<ses, lock>>
    BY <1>3 DEF StopSession, ServerGoes
  <2>2. PICK c \in Client : c = srv.now
    BY <2>1, ServerFrame
  <2>3. PICK to \in {"exitClose", "pick"} : ServerGoes(srv.pc, to)
    BY <1>3 DEF StopSession, ServerGoes, OnExit
  <2>4. /\ srv' \in ServerState /\ srv'.pc = to /\ srv'.now = srv.now
        /\ srv'.named = srv.named /\ srv'.again = srv.again
    BY <2>3, ServerFrame, ServerFacts DEF ServerPlace
  <2>5. c \in Pipe /\ pipe[c] \in APipe
    BY ServerFrame, Names
  <2>6. A' = A /\ pipe' \in [Pipe -> APipe] /\ \A d \in Client : pipe'[d].data \in {pipe[d].data, <<>>}
    <3>1. CASE UNCHANGED pipe
      BY <3>1, ServerFrame
    <3>2. ASSUME NEW q \in APipe, q.data \in {pipe[c].data, <<>>}, Does(c, q)
          PROVE  A' = A /\ pipe' \in [Pipe -> APipe] /\
                 \A d \in Client : pipe'[d].data \in {pipe[d].data, <<>>}
      <4>1. Sets(c, q)
        BY <2>5, <3>2, ServerFrame, DoesFacts
      <4> QED BY <3>2, <4>1, Names DEF Sets, A
    <3>3. \/ UNCHANGED pipe
          \/ Does(c, OpenWrite(pipe[c], Server))
          \/ Does(c, Close(pipe[c], Server))
      BY <1>3, <2>2 DEF StopSession, OnExit, Closes
    <3>4. CASE Does(c, OpenWrite(pipe[c], Server))
      BY <2>5, <3>2, <3>4, ServerFrame, OpenWriteFacts
    <3>5. CASE Does(c, Close(pipe[c], Server))
      BY <2>5, <3>2, <3>5, ServerFrame, CloseFacts
    <3> QED BY <3>1, <3>3, <3>4, <3>5
  <2> QED BY <1>0, <2>1, <2>2, <2>4, <2>6, ServerFrame, ServerQuiet
<1>4. {c \in Client : ses[c].pc \notin {"none", "gone"}} \in SUBSET Client
  OBVIOUS
<1> QED BY <1>1, <1>2, <1>3, <1>4 DEF StopSessions

LEMMA StopAcceptorKeeps ==
  ASSUME FifoInv, StopAcceptor
  PROVE  FifoInv'
<1>0. OnlyServer /\ UNCHANGED ses
  BY DEF StopAcceptor
<1>1. CASE /\ ServerGoes("pick", "accOpen") /\ acc' = [acc EXCEPT !.stopped = TRUE]
           /\ lock' = None /\ UNCHANGED pipe
  <2>1. /\ srv.pc = "pick" /\ srv' \in ServerState /\ srv'.pc = "accOpen"
        /\ srv'.named = srv.named /\ srv'.again = srv.again
    BY <1>1, ServerFrame, ServerFacts DEF ServerPlace
  <2>2. acc' \in AcceptorState /\ acc'.pc = acc.pc /\ acc'.for = acc.for /\ acc'.stopped = TRUE
    BY <1>1, ServerFrame DEF AcceptorState
  <2> QED BY <1>0, <1>1, <2>1, <2>2, ServerFrame, ServerQuiet
<1>2. CASE /\ ServerGoes("accOpen", "accClose") /\ Does(Acceptor, OpenWrite(A, Server))
           /\ UNCHANGED <<acc, lock>>
  <2> DEFINE q == OpenWrite(A, Server)
  <2>1. /\ q \in APipe /\ q.data = A.data /\ q.linked = A.linked
        /\ q.writers = A.writers \cup {Server} /\ q.opening = {} /\ q.reading = Readers
    BY ServerFrame, OpenWriteFacts DEF Readers
  <2> HIDE DEF q
  <2>2. Sets(Acceptor, q) /\ A' = q
    BY <1>2, <2>1, ServerFrame, DoesFacts DEF Sets, A, q
  <2>3. /\ srv.pc = "accOpen" /\ srv' \in ServerState /\ srv'.pc = "accClose"
        /\ srv'.named = srv.named /\ srv'.again = srv.again
    BY <1>2, ServerFrame, ServerFacts DEF ServerPlace
  <2>4. ServerInv'
    BY <1>2, <2>1, <2>2, <2>3 DEF FifoInv, StartInv, ServerInv
  <2>5. \A d \in Client : pipe'[d] = pipe[d]
    BY <2>2, Names DEF Sets
  <2>6. Readers' = Readers /\ A.reading \subseteq A'.reading /\ pipe' \in [Pipe -> APipe]
    BY <2>1, <2>2 DEF Readers, Sets
  <2>7. acc.stopped
    BY <2>3, ServerFrame
  <2> QED BY <1>0, <1>2, <2>1, <2>2, <2>3, <2>4, <2>5, <2>6, <2>7, ServerFrame, ServerSteps
<1>3. CASE ServerGoes("accOpen", "joinAcceptor") /\ UNCHANGED <<pipe, acc, lock>>
  <2>1. /\ srv.pc = "accOpen" /\ srv' \in ServerState /\ srv'.pc = "joinAcceptor"
        /\ srv'.named = srv.named /\ srv'.again = srv.again
    BY <1>3, ServerFrame, ServerFacts DEF ServerPlace
  <2> QED BY <1>0, <1>3, <2>1, ServerFrame, ServerQuiet
<1>4. CASE /\ ServerGoes("accClose", "joinAcceptor") /\ Does(Acceptor, Close(A, Server))
           /\ UNCHANGED <<acc, lock>>
  <2> DEFINE q == Close(A, Server)
  <2>1. /\ q \in APipe /\ q.data \in {A.data, <<>>} /\ q.linked = A.linked
        /\ q.writers = A.writers \ {Server} /\ q.opening = A.opening \ {Server}
        /\ q.reading = A.reading \ {Server}
    BY ServerFrame, CloseFacts
  <2> HIDE DEF q
  <2>2. Sets(Acceptor, q) /\ A' = q
    BY <1>4, <2>1, ServerFrame, DoesFacts DEF Sets, A, q
  <2>3. /\ srv.pc = "accClose" /\ srv' \in ServerState /\ srv'.pc = "joinAcceptor"
        /\ srv'.named = srv.named /\ srv'.again = srv.again
    BY <1>4, ServerFrame, ServerFacts DEF ServerPlace
  <2>4. ServerInv'
    BY <1>4, <2>1, <2>2, <2>3 DEF FifoInv, StartInv, ServerInv
  <2>5. \A d \in Client : pipe'[d] = pipe[d]
    BY <2>2, Names DEF Sets
  <2>6. Server \notin A.opening /\ Server \notin A.reading
    BY Names DEF FifoInv, StartInv, EndsInv, Readers
  <2>7. Readers' = Readers /\ A'.reading = A.reading /\ pipe' \in [Pipe -> APipe]
    BY <2>1, <2>2, <2>6 DEF Readers, Sets
  <2> QED BY <1>0, <1>4, <2>1, <2>2, <2>3, <2>4, <2>5, <2>7, ServerFrame, ServerSteps
<1> QED BY <1>1, <1>2, <1>3, <1>4 DEF StopAcceptor, OnExit, Unblocking, Closes, A

(* The end of the acceptor.                                                *)
LEMMA EndKeeps ==
  ASSUME FifoInv, UNCHANGED <<use, mutex, cl>>, srv'.again = srv.again,
         acc' \in AcceptorState, acc'.pc = "ended",
         ses' \in [Client -> SessionState], lock' \in {Acceptor, Server, None},
         srv' \in ServerState, srv.named <= srv'.named,
         NEW who, who \cap Client = {}, Acceptor \in who \/ acc.pc = "ended",
         acc.stopped => acc'.stopped,
         \A p \in Pipe : /\ pipe'[p] \in APipe /\ pipe'[p].data \in {pipe[p].data, <<>>}
                         /\ pipe'[p].writers = pipe[p].writers \ who
                         /\ pipe'[p].opening = pipe[p].opening \ who
                         /\ pipe'[p].reading = pipe[p].reading \ who,
         pipe' \in [Pipe -> APipe],
         A'.linked = A.linked \/ ~A'.linked, srv.pc # "accClose",
         \A d \in Client : Holding(d)' => Holding(d) /\ ses'[d].n = ses[d].n,
         ServerInv'
  PROVE  FifoInv'
<1>1. /\ A'.data \in {A.data, <<>>} /\ A'.writers = A.writers \ who
      /\ A'.opening = A.opening \ who /\ A'.reading = A.reading \ who
      /\ \A d \in Client : pipe'[d].data \in {pipe[d].data, <<>>}
  BY Names DEF A
<1>2. \A d \in Client : /\ d \in Readers' <=> d \in Readers
                        /\ d \in A'.reading <=> d \in A.reading
  BY <1>1 DEF Readers
<1>3. EndsInv'
  <2>1. Server \notin A.writers /\ (acc.pc = "ended" => Acceptor \notin Readers /\ Acceptor \notin A.writers)
    BY DEF FifoInv, StartInv, EndsInv
  <2>2. Acceptor \notin Readers' /\ Acceptor \notin A'.writers
    BY <1>1, <2>1 DEF Readers
  <2> QED BY <1>1, <1>2, <2>1, <2>2, Names DEF FifoInv, StartInv, EndsInv, Readers
<1>4. TokenInv'
  <2>1. AcceptorInv'
    BY DEF AcceptorInv
  <2>2. CASE A'.linked = A.linked
    BY <1>1, <1>2, <2>1, <2>2, CurrentCalm DEF TokenInv
  <2>3. CASE ~A'.linked
    <3>1. ASSUME NEW j \in 1 .. Len(A'.data)
          PROVE  Current(A.data[j])'
      <4>1. A'.data = A.data
        BY <1>1, <3>1
      <4>2. PICK m : m = A.data[j]
        OBVIOUS
      <4>3. m.id \in Client /\ Current(m)
        BY <4>1, <4>2, Names, Messages DEF A, FifoInv, StartInv, TokenInv
      <4>4. m.kind = "status" => Only(m.id)'
        BY <1>2, <4>3, Calm DEF Current
      <4> QED BY <2>3, <4>1, <4>2, <4>4 DEF Current
    <3> QED BY <2>1, <3>1 DEF TokenInv
  <2> QED BY <2>2, <2>3
<1> QED BY <1>1, <1>2, <1>3, <1>4, CalmSteps

LEMMA RemoveFacts ==
  ASSUME FifoInv, NEW from, NEW to \in ServerPlace, RemoveNamedMutex(from, to), srv.named = 1
  PROVE  /\ srv.pc = from /\ srv' \in ServerState /\ srv'.pc = to /\ srv'.named = 2
         /\ srv'.again = (srv.again \/ to = "up") /\ srv'.now = srv.now
<1>1. srv \in ServerState /\ 2 \in Number
  BY ServerFrame DEF Number
<1>2. PICK again \in BOOLEAN : again = (srv.again \/ to = "up")
  BY <1>1
<1> DEFINE r == [srv EXCEPT !.pc = to, !.named = 2, !.again = again]
<1>3. srv.pc = from /\ srv' = r
  BY <1>2 DEF RemoveNamedMutex
<1>4. r \in ServerState
  BY <1>1 DEF ServerState
<1>5. r.pc = to /\ r.named = 2 /\ r.again = again /\ r.now = srv.now
  BY <1>1 DEF ServerState
<1> HIDE DEF r
<1> QED BY <1>2, <1>3, <1>4, <1>5

LEMMA JoinKeeps ==
  ASSUME FifoInv, Join
  PROVE  FifoInv'
<1>0. OnlyServer /\ UNCHANGED <<acc, lock>> /\ UNCHANGED <<use, mutex, cl>>
  BY DEF Join, OnlyServer
<1>1. CASE acc.pc = "ended" /\ ServerGoes("joinAcceptor", "joinPool") /\ UNCHANGED <<pipe, ses>>
  <2>1. /\ srv.pc = "joinAcceptor" /\ srv' \in ServerState /\ srv'.pc = "joinPool"
        /\ srv'.named = srv.named /\ srv'.again = srv.again
    BY <1>1, ServerFrame, ServerFacts DEF ServerPlace
  <2> QED BY <1>0, <1>1, <2>1, ServerFrame, ServerQuiet
<1>2. CASE DestroyServer
  <2>1. srv.pc = "joinPool" /\ RemoveNamedMutex("joinPool", "down")
    BY <1>2 DEF DestroyServer, RemoveNamedMutex
  <2>2. ~srv.again /\ srv.named = 1 /\ acc.pc = "ended" /\ acc.stopped
    BY <2>1, ServerFrame
  <2>3. /\ srv' \in ServerState /\ srv'.pc = "down" /\ srv'.named = 2
        /\ srv'.again = srv.again /\ srv'.now = srv.now
    BY <2>1, <2>2, ServerFrame, RemoveFacts DEF ServerPlace, ServerState
  <2>4. /\ pipe' \in [Pipe -> APipe]
        /\ \A p \in Pipe : /\ pipe'[p] \in APipe /\ pipe'[p].data = pipe[p].data
                           /\ pipe'[p].writers = pipe[p].writers
                           /\ pipe'[p].opening = pipe[p].opening
                           /\ pipe'[p].reading = pipe[p].reading
                           /\ ~pipe'[p].linked
    <3>1. pipe' = [p \in Pipe |-> Unlink(pipe[p])]
      BY <1>2 DEF DestroyServer, RemoveFifoFiles
    <3>2. ASSUME NEW p \in Pipe
          PROVE  /\ pipe'[p] \in APipe /\ pipe'[p].data = pipe[p].data
                 /\ pipe'[p].writers = pipe[p].writers
                 /\ pipe'[p].opening = pipe[p].opening
                 /\ pipe'[p].reading = pipe[p].reading
                 /\ ~pipe'[p].linked
      <4>1. pipe[p] \in APipe
        BY ServerFrame
      <4>2. Unlink(pipe[p]).linked = FALSE
        BY <4>1 DEF Unlink, APipe, PipeType
      <4> QED BY <3>1, <4>1, <4>2, LinkFacts
    <3> QED BY <3>1, <3>2
  <2>5. ASSUME NEW d \in Client
        PROVE  ses'[d] \in SessionState /\ (Holding(d)' => Holding(d) /\ ses'[d].n = ses[d].n)
    <3>1. ses[d] \in SessionState
      BY ServerFrame
    <3> DEFINE to == IF ses[d].pc = "queued" THEN "gone" ELSE ses[d].pc
               r == [ses[d] EXCEPT !.pc = to]
    <3>2. to \in SessionPlace /\ (to \in Held => ses[d].pc = to)
      BY <3>1 DEF SessionState, SessionPlace, Held
    <3>3. ses'[d] = r
      BY <1>2 DEF DestroyServer
    <3> HIDE DEF to
    <3>4. r \in SessionState /\ r.pc = to /\ r.n = ses[d].n
      BY <3>1, <3>2 DEF SessionState
    <3> HIDE DEF r
    <3> QED BY <3>2, <3>3, <3>4 DEF Holding
  <2>6. ses' \in [Client -> SessionState]
    BY <1>2, <2>5 DEF DestroyServer
  <2>7. ~A'.linked
    BY <2>4, Names DEF A
  <2>8. ServerInv'
    BY <1>0, <2>2, <2>3, <2>7 DEF ServerInv, Serving
  <2>9. srv.named <= srv'.named
    BY <2>2, <2>3
  <2>10. \A p \in Pipe : /\ pipe'[p] \in APipe /\ pipe'[p].data \in {pipe[p].data, <<>>}
                         /\ pipe'[p].writers = pipe[p].writers \ {}
                         /\ pipe'[p].opening = pipe[p].opening \ {}
                         /\ pipe'[p].reading = pipe[p].reading \ {}
    BY <2>4
  <2>11. {} \cap Client = {}
    OBVIOUS
  <2> QED BY <1>0, <2>1, <2>2, <2>3, <2>4, <2>5, <2>6, <2>7, <2>8, <2>9, <2>10, <2>11,
             ServerFrame, EndKeeps
<1> QED BY <1>1, <1>2 DEF Join

LEMMA CrashKeeps ==
  ASSUME FifoInv, Crash
  PROVE  FifoInv'
<1> DEFINE who == Process \ Client
<1>0. UNCHANGED <<use, mutex, cl>> /\ ~srv.again /\ lock' = None /\ ServerGoes("up", "crashed")
  BY DEF Crash
<1>1. /\ srv.pc = "up" /\ srv' \in ServerState /\ srv'.pc = "crashed"
      /\ srv'.named = srv.named /\ srv'.again = srv.again
  BY <1>0, ServerFrame, ServerFacts DEF ServerPlace
<1>2. acc' \in AcceptorState /\ acc'.pc = "ended" /\ acc'.stopped = acc.stopped
  BY ServerFrame DEF Crash, AcceptorState, AcceptorPlace
<1>3. /\ pipe' \in [Pipe -> APipe]
      /\ \A p \in Pipe : /\ pipe'[p] \in APipe /\ pipe'[p].data \in {pipe[p].data, <<>>}
                         /\ pipe'[p].writers = pipe[p].writers \ who
                         /\ pipe'[p].opening = pipe[p].opening \ who
                         /\ pipe'[p].reading = pipe[p].reading \ who
                         /\ pipe'[p].linked = pipe[p].linked
  <2>1. pipe' = [p \in Pipe |-> CloseAll(pipe[p], who)]
    BY DEF Crash
  <2> HIDE DEF who
  <2>2. ASSUME NEW p \in Pipe
        PROVE  /\ pipe'[p] \in APipe /\ pipe'[p].data \in {pipe[p].data, <<>>}
               /\ pipe'[p].writers = pipe[p].writers \ who
               /\ pipe'[p].opening = pipe[p].opening \ who
               /\ pipe'[p].reading = pipe[p].reading \ who
               /\ pipe'[p].linked = pipe[p].linked
    <3>1. pipe[p] \in APipe
      BY ServerFrame
    <3> QED BY <2>1, <3>1, CloseAllFacts
  <2> QED BY <2>1, <2>2
<1>4. who \cap Client = {} /\ Acceptor \in who
  BY Names
<1> HIDE DEF who
<1>5. ASSUME NEW d \in Client
      PROVE  ses'[d] \in SessionState /\ ~Holding(d)'
  <2>1. ses[d] \in SessionState
    BY ServerFrame
  <2> DEFINE to == IF ses[d].pc = "none" THEN "none" ELSE "gone"
             r == [ses[d] EXCEPT !.pc = to]
  <2>2. to \in SessionPlace /\ to \notin Held
    BY DEF SessionPlace, Held
  <2>3. ses'[d] = r
    BY <2>1 DEF Crash
  <2> HIDE DEF to
  <2>4. r \in SessionState /\ r.pc = to
    BY <2>1, <2>2 DEF SessionState
  <2> HIDE DEF r
  <2> QED BY <2>2, <2>3, <2>4 DEF Holding
<1>6. ses' \in [Client -> SessionState]
  BY <1>5 DEF Crash
<1>7. A'.linked = A.linked
  BY <1>3, Names DEF A
<1>8. ServerInv'
  BY <1>0, <1>1, <1>2, <1>7 DEF FifoInv, StartInv, ServerInv, Serving
<1>9. srv.named <= srv'.named
  BY <1>1, ServerFrame
<1> QED BY <1>0, <1>1, <1>2, <1>3, <1>4, <1>5, <1>6, <1>7, <1>8, <1>9, EndKeeps

(* Nobody that the crash has left behind comes back to a pipe of the new   *)
(* server.                                                                 *)
LEMMA RestartKeeps ==
  ASSUME FifoInv, Restart
  PROVE  FifoInv'
<1>0. /\ UNCHANGED <<use, mutex, cl, ses, lock>> /\ RemoveNamedMutex("crashed", "up")
      /\ acc' = [pc |-> "top", stopped |-> FALSE, for |-> None]
  BY DEF Restart
<1>1. srv.pc = "crashed" /\ ~srv.again /\ srv.named = 1
  BY <1>0, ServerFrame DEF RemoveNamedMutex
<1>2. /\ srv' \in ServerState /\ srv'.pc = "up" /\ srv'.named = 2 /\ srv'.again
  BY <1>0, <1>1, RemoveFacts DEF ServerPlace
<1>3. /\ pipe' \in [Pipe -> APipe] /\ \A p \in Pipe : pipe'[p].data = <<>>
      /\ A' = Link(NewPipe)
  <2>1. pipe' = [p \in Pipe |-> IF p = Acceptor THEN Link(NewPipe) ELSE NewPipe]
    BY DEF Restart
  <2> QED BY <2>1, NewPipeFacts, LinkFacts, Names DEF A
<1>4. A'.linked /\ A'.data = <<>> /\ Readers' = {} /\ A'.writers = {}
  <2>1. Link(NewPipe).linked = TRUE
    BY DEF Link, NewPipe
  <2> QED BY <1>3, <2>1, NewPipeFacts, LinkFacts DEF Readers
<1>5. TypeOK'
  <2>1. acc' \in AcceptorState
    BY <1>0 DEF AcceptorState, AcceptorPlace
  <2> QED BY <1>0, <1>2, <1>3, <2>1, ServerFrame, Types, TypesNext
<1>6. ServerInv' /\ EndsInv' /\ MutexInv' /\ TokenInv'
  <2>1. ServerInv'
    BY <1>0, <1>2, <1>4 DEF ServerInv, Serving
  <2>2. EndsInv'
    BY <1>0, <1>4 DEF EndsInv
  <2>3. MutexInv'
    BY <1>0 DEF FifoInv, StartInv, MutexInv
  <2>4. TokenInv'
    BY <1>0, <1>4 DEF TokenInv, AcceptorInv
  <2> QED BY <2>1, <2>2, <2>3, <2>4
<1>7. ASSUME NEW d \in Client
      PROVE  NameInv(d)' /\ EngagedInv(d)' /\ StepInv(d)'
  <2>1. NameInv(d) /\ EngagedInv(d) /\ StepInv(d) /\ cl[d].of \in Number
    BY Types DEF FifoInv, StartInv, ClientState
  <2>2. NameInv(d)'
    BY <1>0, <2>1 DEF NameInv
  <2>3. /\ cl[d].pc \notin {"sign", "signWrite", "signClose", "status", "statusClose"}
        /\ cl[d].pc = "lock" => mutex[cl[d].of] # None
    BY <2>1, Names DEF Restart, ClientsRest, MutexFree, EngagedInv, A
  <2>4. cl[d].of = 1
    BY <1>1, <2>1 DEF EngagedInv, Number
  <2>5. ~Engaged(d)'
    BY <1>0, <1>4, <2>3 DEF Engaged
  <2>6. EngagedInv(d)'
    BY <1>0, <1>2, <1>4, <2>1, <2>3, <2>4, <2>5 DEF EngagedInv
  <2>7. StepInv(d)'
    <3>1. pipe'[d].data = <<>>
      BY <1>3, Names
    <3> QED BY <1>0, <2>1, <3>1, StepSame DEF Holding
  <2> QED BY <2>2, <2>6, <2>7
<1> QED BY <1>5, <1>6, <1>7 DEF FifoInv, StartInv

-----------------------------------------------------------------------------
LEMMA FifoInit ==
  ASSUME Init
  PROVE  FifoInv
<1>1. /\ pipe \in [Pipe -> APipe] /\ \A p \in Pipe : pipe[p].data = <<>>
      /\ A = Link(NewPipe)
  <2>1. pipe = [p \in Pipe |-> IF p = Acceptor THEN Link(NewPipe) ELSE NewPipe]
    BY DEF Init
  <2> QED BY <2>1, NewPipeFacts, LinkFacts, Names DEF A
<1>2. A.linked /\ A.data = <<>> /\ Readers = {} /\ A.writers = {}
  <2>1. Link(NewPipe).linked = TRUE
    BY DEF Link, NewPipe
  <2> QED BY <1>1, <2>1, NewPipeFacts, LinkFacts DEF Readers
<1>3. /\ use \in Uses /\ use.requests \in Nat \ {0} /\ MaxRequests \in Nat
  BY FifoAssumption DEF Init, FifoAssumption, Use
<1>4. cl \in [Client -> ClientState] /\ \A c \in Client :
        /\ cl[c].pc \in {"start", "ended"} /\ cl[c].of = 1 /\ cl[c].name = None /\ cl[c].done = 0
  BY <1>3 DEF Init, ClientState, ClientPlace, Number
<1>5. ses \in [Client -> SessionState] /\ \A c \in Client : ~Holding(c)
  BY <1>3 DEF Init, SessionState, SessionPlace, Holding, Held
<1>6. srv \in ServerState /\ srv.pc = "up" /\ srv.named = 1 /\ ~srv.again
  BY DEF Init, ServerState, ServerPlace, Number
<1>7. acc \in AcceptorState /\ acc.pc = "top" /\ ~acc.stopped
  BY DEF Init, AcceptorState, AcceptorPlace
<1>8. mutex \in [Number -> Client \cup {None}] /\ lock \in {Acceptor, Server, None}
      /\ \A k \in Number : mutex[k] = None
  BY DEF Init
<1>9. TypeOK
  BY <1>1, <1>3, <1>4, <1>5, <1>6, <1>7, <1>8, Types
<1>10. ServerInv /\ EndsInv /\ MutexInv /\ TokenInv
  <2>1. ServerInv
    BY <1>2, <1>6, <1>7 DEF ServerInv, Serving
  <2>2. EndsInv
    BY <1>2, <1>7 DEF EndsInv
  <2>3. MutexInv
    BY <1>8 DEF MutexInv
  <2>4. TokenInv
    BY <1>2, <1>7 DEF TokenInv, AcceptorInv
  <2> QED BY <2>1, <2>2, <2>3, <2>4
<1>11. ASSUME NEW c \in Client
       PROVE  NameInv(c) /\ EngagedInv(c) /\ StepInv(c)
  <2>1. NameInv(c)
    BY <1>3, <1>4 DEF NameInv, Starting, Talking, Done
  <2>2. EngagedInv(c)
    BY <1>2, <1>4, <1>6 DEF EngagedInv, Engaged, Starting
  <2>3. StepInv(c)
    BY <1>1, <1>5, Names DEF StepInv
  <2> QED BY <2>1, <2>2, <2>3
<1> QED BY <1>9, <1>10, <1>11 DEF FifoInv, StartInv

(* Stuttering changes nothing.                                             *)
LEMMA FifoStutters ==
  ASSUME FifoInv, UNCHANGED vars
  PROVE  FifoInv'
<1>1. /\ UNCHANGED <<use, mutex, cl>> /\ ServerInv' /\ EndsInv' /\ AcceptorInv' /\ A' = A
  <2>1. ServerInv' /\ EndsInv'
    BY DEF vars, FifoInv, StartInv, ServerInv, EndsInv, A, Readers
  <2>2. AcceptorInv'
    BY DEF vars, FifoInv, StartInv, TokenInv, AcceptorInv, A, Only, Signed, Engaged, Readers, Era
  <2> QED BY <2>1, <2>2 DEF vars, A
<1>2. StartInv'
  BY <1>1, StartSame DEF vars
<1>3. TypeOK'
  BY Types, TypesNext DEF vars, FifoInv
<1>4. \A c \in Client : StepInv(c)'
  BY DEF vars, FifoInv, StepInv, Holding
<1> QED BY <1>2, <1>3, <1>4 DEF FifoInv

LEMMA FifoStep ==
  ASSUME FifoInv, [Next]_vars
  PROVE  FifoInv'
<1>1. ASSUME NEW c \in Client, ClientStep(c)
      PROVE  FifoInv'
  BY <1>1, LockKeeps, SignKeeps, StatusKeeps, SendKeeps, ReceiveKeeps, DestroyKeeps DEF ClientStep
<1>2. CASE ServerStep
  BY <1>2, StopSessionsKeep, StopAcceptorKeeps, JoinKeeps DEF ServerStep
<1> QED
  BY <1>1, <1>2, InterruptKeeps, KillKeeps, SessionKeeps, AcceptorStepKeeps, StopKeeps,
     CrashKeeps, RestartKeeps, FifoStutters
  DEF Next

(* The invariant holds in every state: a client that has taken the named   *)
(* mutex in the constructor of FifoClient is alone in the pipe of the      *)
(* acceptor until it has its status, whoever else starts, is killed, is    *)
(* interrupted, or stops, crashes and starts the server.                   *)
THEOREM FifoInvariant == Spec => []FifoInv
<1>1. Init => FifoInv
  BY FifoInit
<1>2. FifoInv /\ [Next]_vars => FifoInv'
  BY FifoStep
<1> QED BY <1>1, <1>2, PTL DEF Spec

(* Every variable of the fifo conversation has the values the program      *)
(* gives it; in particular createFifoSession never starts a session for    *)
(* nobody, and the server removes the named mutex at most once in a life.  *)
THEOREM FifoTypes == Spec => []TypeOK
<1>1. FifoInv => TypeOK
  BY DEF FifoInv
<1> QED BY <1>1, FifoInvariant, PTL

(* FifoClient::receiveStatus gives a client the pipe of its own session,   *)
(* never that of another, as long as one named mutex is locked around      *)
(* signature and status.                                                   *)
THEOREM OwnSessionAlways == Spec => []OwnSession
<1>1. FifoInv => OwnSession
  BY DEF FifoInv, StartInv, NameInv, OwnSession
<1> QED BY <1>1, FifoInvariant, PTL

(* FifoClient::receive takes no reply for that of another request, and     *)
(* FifoSession::receiveRequest no request twice: what is in their pipe is  *)
(* about the request the client is at.                                     *)
THEOREM InStepAlways == Spec => []InStep
<1>1. FifoInv => InStep
  <2> SUFFICES ASSUME FifoInv, NEW c \in Client, NEW k \in DOMAIN pipe[c].data
               PROVE  pipe[c].data[k].n = cl[c].done + 1
    BY DEF InStep
  <2>1. c \in Pipe
    BY Names
  <2>2. pipe[c].data \in Seq(Message)
    BY <2>1, Messages, PipeParts
  <2>3. k \in 1 .. Len(pipe[c].data)
    BY <2>2, LenProperties
  <2> QED BY <2>3 DEF FifoInv, StepInv
<1> QED BY <1>1, FifoInvariant, PTL

-----------------------------------------------------------------------------
(***************************************************************************)
(* ReaderIsAddressee, and the safety of Conversation, for the fifo side:   *)
(* any clients and any uses, late threads, crash and restart included.     *)
(*                                                                         *)
(* FifoInv says what a message in a pipe is about.  LinkInv says who may   *)
(* take it.  OpenInv: a client and its session stand where they have their *)
(* pipe open, and the session never writes while the client does; so a     *)
(* message is for the one who reads (ForInv, StatusInv).  TrustInv: while  *)
(* a client that can be trusted waits, its session has the request, or is  *)
(* reading it, or has answered.  SignsOnce: a client gets one session.     *)
(* UseInv: what lets a client down is what the use says.                   *)
(***************************************************************************)

(* The pipe of c, and who has it open.                                     *)
Ends(q) == q.opening \cup q.reading \cup q.writers

(* Nobody else opens the pipe, but the server that is being stopped; what  *)
(* is in it is lost when nobody has it open any more.                      *)
KeptInv(c) ==
  /\ Ends(pipe[c]) \subseteq {c, Session(c), Server}
  /\ pipe[c].data # <<>> => Ends(pipe[c]) # {}

(* The client and its session are at the lines where they have their pipe  *)
(* open; the session never writes while the client does or is about to     *)
(* read.                                                                   *)
OpenInv(c) ==
  LET q == pipe[c] IN
  srv.pc = "up" =>
    /\ Server \notin Ends(q)
    /\ c \in q.opening \cup q.reading => cl[c].pc \in {"recvRead", "recvClose"}
    /\ c \in q.writers => cl[c].pc \in {"sendWrite", "sendClose", "exitClose", "dtorClose"}
    /\ Session(c) \in q.opening \cup q.reading => ses[c].pc \in {"read", "close"}
    /\ Session(c) \in q.writers =>
         /\ ses[c].pc \in {"replyWrite", "replyClose"}
         /\ cl[c].pc \notin {"sendWrite", "sendClose", "recv", "exitClose", "dtorClose"}

(* A request is for the session, a reply for the client, who is reading.   *)
ForInv(c) ==
  LET q == pipe[c] IN
  srv.pc = "up" /\ q.data # <<>> =>
    /\ Len(q.data) = 1 /\ q.data[1].id = c /\ q.data[1].kind \in {"request", "reply"}
    /\ q.data[1].kind = "request" => c \notin q.reading
    /\ q.data[1].kind = "reply" =>
         Session(c) \notin q.reading /\ cl[c].pc \in {"recvRead", "dead"}

(* A status is read before anybody reads again.                            *)
StatusInv ==
  srv.pc = "up" =>
    /\ Len(A.data) <= 1
    /\ \A j \in 1 .. Len(A.data) :
         /\ A.data[j].kind \in {"signature", "status"}
         /\ A.data[j].kind = "status" =>
              Acceptor \notin A.reading /\ cl[A.data[j].id].pc \in {"statusRead", "dead"}

(* A client signs once, and gets one session.                              *)
Accepts(c) == acc.for = c /\ acc.pc \in Serving \cup {"close"}
SignsOnce(c) ==
  /\ cl[c].pc \in {"start", "lock", "sign", "signWrite"} =>
       /\ ses[c].pc = "none" /\ ~Accepts(c)
       /\ \A j \in 1 .. Len(A.data) : A.data[j].kind = "signature" => A.data[j].id # c
  /\ \A j \in 1 .. Len(A.data) :
       A.data[j].kind = "signature" /\ A.data[j].id = c => ses[c].pc = "none" /\ ~Accepts(c)
  /\ Accepts(c) => ses[c].pc = "none"

Early == {"start", "lock"} \cup Starting
EarlyInv(c) == cl[c].pc \in Early => cl[c].done = 0

(* What the server does is what the use says.                              *)
UseInv ==
  /\ srv.pc \notin {"up", "crashed"} => use.stop
  /\ srv.pc = "crashed" \/ srv.again => use.crash
  /\ srv.pc = "crashed" => \A c \in Client : ses[c].pc \in {"none", "gone"}
  /\ \A c \in Client : ses[c].stopped => use.stop

Outside == Early \cup {"send", "sendOpen", "sendCheck"}
Answering == {"close", "task", "reply", "replyOpen"}
TrustInv(c) ==
  LET q == pipe[c]
      Asked == ses[c].pc = "read" /\ Session(c) \in q.reading /\ q.data # <<>>
  IN
  c \in Trusted =>
    /\ cl[c].pc \notin {"exitOpen", "exitClose", "remove", "dead"} /\ ~cl[c].closeFlag
    /\ cl[c].pc \notin Done =>
         /\ ses[c].pc \notin {"dtor", "gone"}
         /\ ses[c].pc # "none" \/ (acc.pc = "push" /\ acc.for = c) => q.linked
    /\ cl[c].pc \in Outside \cup {"recvClose"} =>
         ses[c].pc \in {"none", "queued", "run", "loop", "open", "read", "replyClose"} /\ Session(c) \notin q.reading
    /\ cl[c].pc = "sendWrite" => ses[c].pc = "read" /\ Session(c) \in q.reading
    /\ cl[c].pc \in {"sendWrite", "sendClose"} => c \in q.writers
    /\ cl[c].pc \in {"sendClose", "recv"} => Asked \/ ses[c].pc \in Answering
    /\ cl[c].pc = "recvRead" =>
         \/ (Asked \/ ses[c].pc \in Answering) /\ c \in q.opening /\ c \notin q.reading
         \/ ses[c].pc = "replyWrite" /\ c \in q.reading /\ Session(c) \in q.writers
         \/ /\ q.data # <<>> /\ c \in q.reading /\ Session(c) \notin q.reading
            /\ ses[c].pc \in {"replyClose", "loop", "open", "read"}

OwnInv(c) == KeptInv(c) /\ OpenInv(c) /\ ForInv(c) /\ TrustInv(c)
Part(c) == OwnInv(c) /\ SignsOnce(c) /\ EarlyInv(c)
LinkInv == StatusInv /\ UseInv /\ \A c \in Client : Part(c)

-----------------------------------------------------------------------------
(* What the step is for Conversation.                                      *)
Still(d) ==
  PlaceOf(d)' = PlaceOf(d) /\ ReplyOf(d)' = ReplyOf(d) /\ SessionOf(d)' = SessionOf(d)

Same(d) == pipe'[d] = pipe[d] /\ cl'[d] = cl[d] /\ ses'[d] = ses[d]

Pushes(d) == acc.pc = "push" /\ acc.for = d

Step(c) ==
  \/ Still(c)
  \/ /\ SessionOf(c) = "none" /\ SessionOf(c)' = "open"
     /\ PlaceOf(c)' = PlaceOf(c) /\ ReplyOf(c)' = ReplyOf(c)
  \/ /\ PlaceOf(c) \in {"away", "idle"} /\ PlaceOf(c)' = "asking" /\ ReplyOf(c)' = "owed"
     /\ SessionOf(c)' = SessionOf(c)
  \/ /\ SessionOf(c) = "open" /\ ReplyOf(c) = "owed" /\ ReplyOf(c)' = "given"
     /\ PlaceOf(c)' = PlaceOf(c) /\ SessionOf(c)' = SessionOf(c)
  \/ /\ PlaceOf(c) = "asking" /\ ReplyOf(c) = "given"
     /\ PlaceOf(c)' \in {"idle", "over"} /\ ReplyOf(c)' = "none"
     /\ SessionOf(c)' = SessionOf(c)
  \/ /\ PlaceOf(c) \in {"away", "idle"} /\ PlaceOf(c)' = "over"
     /\ ReplyOf(c)' = ReplyOf(c) /\ SessionOf(c)' = SessionOf(c)
  \/ /\ SessionOf(c) = "open" /\ SessionOf(c)' = "gone"
     /\ PlaceOf(c) \in {"away", "over"} \/ c \notin Trusted
     /\ PlaceOf(c)' = PlaceOf(c) /\ ReplyOf(c)' = ReplyOf(c)
  \/ /\ c \notin Trusted /\ PlaceOf(c) # "away"
     /\ PlaceOf(c)' \in {"away", "idle", "over"} /\ ReplyOf(c)' = "none"
     /\ SessionOf(c)' = SessionOf(c)
  \/ /\ c \notin Trusted /\ ReplyOf(c) = "given" /\ ReplyOf(c)' = "owed"
     /\ PlaceOf(c)' = PlaceOf(c) /\ SessionOf(c)' = SessionOf(c)

Good == LinkInv' /\ [C!Next]_(C!vars)

LEMMA StepMaps ==
  ASSUME use' = use, NEW c \in Client, Step(c), \A d \in Client \ {c} : Still(d)
  PROVE  [C!Next]_(C!vars)
<1> DEFINE place == [d \in Client |-> PlaceOf(d)]
           reply == [d \in Client |-> ReplyOf(d)]
           session == [d \in Client |-> SessionOf(d)]
<1>1. Trusted' = Trusted
  BY DEF Trusted
<1>2. /\ place' = [place EXCEPT ![c] = PlaceOf(c)']
      /\ reply' = [reply EXCEPT ![c] = ReplyOf(c)']
      /\ session' = [session EXCEPT ![c] = SessionOf(c)']
  BY DEF Still
<1>3. /\ place[c] = PlaceOf(c) /\ reply[c] = ReplyOf(c) /\ session[c] = SessionOf(c)
      /\ PlaceOf(c)' = PlaceOf(c) => place' = place
      /\ ReplyOf(c)' = ReplyOf(c) => reply' = reply
      /\ SessionOf(c)' = SessionOf(c) => session' = session
  BY <1>2
<1> QED BY <1>1, <1>2, <1>3
        DEF Step, Still, C!vars, C!Next, C!Open, C!Ask, C!Reply, C!Receive, C!Leave,
            C!Close, C!BreaksOff, C!Loses

LEMMA Combine ==
  ASSUME use' = use, StatusInv', UseInv', NEW c \in Client, Part(c)', Step(c),
         \A d \in Client \ {c} : Part(d)' /\ Still(d)
  PROVE  Good
BY StepMaps DEF Good, LinkInv

LEMMA CombineStill ==
  ASSUME use' = use, StatusInv', UseInv', \A d \in Client : Part(d)' /\ Still(d)
  PROVE  Good
<1>1. UNCHANGED C!vars
  BY DEF Still, C!vars, Trusted
<1> QED BY <1>1 DEF Good, LinkInv

-----------------------------------------------------------------------------
LEMMA Threads ==
  ASSUME NEW c \in Client
  PROVE  /\ c \in Pipe /\ c # Acceptor /\ c # Server /\ Session(c) \in Process
         /\ c \in Process /\ Session(c) # c /\ Session(c) # Server /\ Session(c) # Acceptor
         /\ Session(c) \notin Client
BY Names, FifoAssumption DEF FifoAssumption

(* Those who can be trusted are let down by nobody.                        *)
LEMMA TrustedFacts ==
  ASSUME LinkInv, TypeOK, NEW c \in Trusted
  PROVE  /\ srv.pc = "up" /\ ~use.stop /\ ~use.crash /\ ~Late
         /\ c \notin use.interrupted /\ c \notin use.killed
         /\ \A d \in Client : ~ses[d].stopped
BY DEF LinkInv, UseInv, Trusted

(* A step that leaves client d, its session and their pipe alone.          *)
LEMMA SameKeeps ==
  ASSUME use' = use, srv'.pc = "up" => srv.pc = "up", NEW d \in Client, Same(d),
         Pushes(d)' => Pushes(d), OwnInv(d), EarlyInv(d)
  PROVE  OwnInv(d)' /\ EarlyInv(d)' /\ Still(d)
<1>1. KeptInv(d)' /\ OpenInv(d)' /\ ForInv(d)' /\ EarlyInv(d)'
  BY DEF Same, OwnInv, KeptInv, OpenInv, ForInv, EarlyInv
<1>2. Trusted' = Trusted
  BY DEF Trusted
<1>3. TrustInv(d)'
  BY <1>2 DEF Same, OwnInv, TrustInv, Pushes
<1>4. Still(d)
  BY DEF Same, Still, PlaceOf, ReplyOf, SessionOf
<1> QED BY <1>1, <1>3, <1>4 DEF OwnInv

Unsigned == {"start", "lock", "sign", "signWrite"}

LEMMA SignsKept ==
  ASSUME NEW d \in Client, SignsOnce(d), A'.data \in {A.data, <<>>},
         cl'[d].pc \in Unsigned => cl[d].pc \in Unsigned,
         ses'[d].pc = "none" <=> ses[d].pc = "none", Accepts(d)' => Accepts(d)
  PROVE  SignsOnce(d)'
BY DEF SignsOnce, Unsigned

LEMMA UseKept ==
  ASSUME UseInv, use' = use, srv'.pc = srv.pc, srv'.again = srv.again,
         \A d \in Client : /\ ses'[d].stopped = ses[d].stopped
                           /\ ses[d].pc \in {"none", "gone"} => ses'[d].pc \in {"none", "gone"}
  PROVE  UseInv'
BY DEF UseInv

LEMMA StatusKept ==
  ASSUME StatusInv, srv'.pc = "up" => srv.pc = "up", A'.data \in {A.data, <<>>},
         (srv'.pc = "up" /\ A.data # <<>> /\ Acceptor \in A'.reading) => Acceptor \in A.reading,
         \A d \in Client : (A'.data # <<>> /\ cl[d].pc \in {"statusRead", "dead"}) =>
                             cl'[d].pc \in {"statusRead", "dead"},
         \A j \in 1 .. Len(A.data) : A.data[j].id \in Client
  PROVE  StatusInv'
<1>1. CASE A'.data = <<>>
  BY <1>1 DEF StatusInv
<1>2. CASE A'.data = A.data /\ A.data # <<>>
  BY <1>2 DEF StatusInv
<1> QED BY <1>1, <1>2

LEMMA CloseKept ==
  ASSUME NEW q \in APipe, NEW i, NEW r, r = Close(q, i)
  PROVE  /\ Ends(r) = Ends(q) \ {i}
         /\ r.data # <<>> => Ends(r) # {}
         /\ Ends(r) # {} => r.data = q.data
         /\ i \notin Ends(q) /\ (q.data # <<>> => Ends(q) # {}) => r = q
<1> DEFINE s == [q EXCEPT !.opening = @ \ {i}, !.reading = @ \ {i}, !.writers = @ \ {i}]
<1>1. /\ s \in APipe /\ s.data = q.data /\ s.linked = q.linked
      /\ s.writers = q.writers \ {i} /\ s.opening = q.opening \ {i}
      /\ s.reading = q.reading \ {i}
  BY DEF APipe, PipeType
<1>2. r = IF Ends(s) # {} THEN s ELSE Drain(s)
  BY DEF Close, HasReader, Ends
<1>3. i \notin Ends(q) => s = q
  BY DEF APipe, PipeType, Ends
<1> HIDE DEF s
<1>4. Ends(s) = Ends(q) \ {i} /\ Ends(Drain(s)) = Ends(s) /\ Drain(s).data = <<>>
  BY <1>1, DrainFacts DEF Ends
<1>5. q.data = <<>> => Drain(q) = q
  BY DEF APipe, PipeType, Drain
<1> QED BY <1>1, <1>2, <1>3, <1>4, <1>5

-----------------------------------------------------------------------------
(* Steps of a client in its own pipe.                                      *)
LEMMA TalkGood ==
  ASSUME FifoInv, LinkInv, NEW c \in Client, NEW q \in APipe, Sets(c, q),
         UNCHANGED mutex, OnlyClient, \A d \in Client \ {c} : cl'[d] = cl[d],
         cl[c].pc \in Talking, cl'[c].pc \in Talking \cup {"ended"},
         OwnInv(c)', Step(c)
  PROVE  Good
<1>1. A' = A /\ \A d \in Client \ {c} : pipe'[d] = pipe[d]
  BY Names DEF Sets, A
<1>2. UNCHANGED <<use, acc, ses, srv>>
  BY DEF OnlyClient
<1>3. ASSUME NEW d \in Client \ {c} PROVE Part(d)' /\ Still(d)
  <2>1. OwnInv(d)' /\ EarlyInv(d)' /\ Still(d)
    BY <1>1, <1>2, SameKeeps DEF LinkInv, Part, Same, Pushes
  <2>2. SignsOnce(d)'
    BY <1>1, <1>2, SignsKept DEF LinkInv, Part, Accepts
  <2> QED BY <2>1, <2>2 DEF Part
<1>4. Part(c)'
  <2>1. SignsOnce(c)'
    BY <1>1, <1>2, SignsKept DEF LinkInv, Part, Accepts, Talking, Unsigned
  <2>2. EarlyInv(c)'
    BY DEF EarlyInv, Early, Starting, Talking
  <2> QED BY <2>1, <2>2 DEF Part
<1>5. StatusInv'
  <2>1. \A d \in Client : cl[d].pc \in {"statusRead", "dead"} => cl'[d].pc \in {"statusRead", "dead"}
    BY DEF Talking
  <2>2. \A j \in 1 .. Len(A.data) : A.data[j].id \in Client
    BY Names, Messages DEF A
  <2> QED BY <1>1, <1>2, <2>1, <2>2, StatusKept DEF LinkInv
<1>6. UseInv'
  BY <1>2, UseKept DEF LinkInv
<1> QED BY <1>2, <1>3, <1>4, <1>5, <1>6, Combine

(* What a client, its session and the step of the client are like.         *)
LEMMA MoveFacts ==
  ASSUME FifoInv, NEW c \in Client, NEW from, NEW to \in ClientPlace, Goes(c, from, to)
  PROVE  /\ cl[c].pc = from /\ cl'[c].pc = to /\ cl'[c].done = cl[c].done
         /\ cl'[c].closeFlag = cl[c].closeFlag
         /\ \A d \in Client \ {c} : cl'[d] = cl[d]
<1>1. cl[c].pc = from /\ Moves(c, to)
  BY GoesFacts DEF FifoInv
<1>2. cl'[c].closeFlag = cl[c].closeFlag
  <2>1. cl \in [Client -> ClientState] /\ cl' = [cl EXCEPT ![c] = [cl[c] EXCEPT !.pc = to]]
    BY Types DEF Goes, FifoInv
  <2>2. cl'[c] = [cl[c] EXCEPT !.pc = to] /\ cl[c] \in ClientState
    BY <2>1
  <2> QED BY <2>2 DEF ClientState
<1> QED BY <1>1, <1>2 DEF Moves

LEMMA TalkFacts ==
  ASSUME FifoInv, NEW c \in Client, NEW from, NEW to \in Talking \cup {"ended"}, Goes(c, from, to)
  PROVE  /\ cl[c].pc = from /\ cl'[c].pc = to /\ cl'[c].done = cl[c].done
         /\ cl'[c].closeFlag = cl[c].closeFlag
         /\ \A d \in Client \ {c} : cl'[d] = cl[d]
<1>1. to \in ClientPlace
  BY DEF Talking, ClientPlace
<1> QED BY <1>1, MoveFacts

LEMMA OwnFacts ==
  ASSUME FifoInv, LinkInv, NEW c \in Client
  PROVE  /\ c \in Pipe /\ pipe[c] \in APipe /\ StepInv(c) /\ KeptInv(c) /\ OpenInv(c)
         /\ ForInv(c) /\ TrustInv(c) /\ EarlyInv(c)
         /\ cl[c].done \in Nat /\ ses[c].pc \in SessionPlace /\ cl[c].pc \in ClientPlace
         /\ pipe[c].data \in Seq(Message)
         /\ cl[c].pc \in Talking => cl[c].name = c
         /\ UNCHANGED pipe => Sets(c, pipe[c])
         /\ c \in Trusted => srv.pc = "up"
<1>1. cl[c] \in ClientState /\ ses[c] \in SessionState
  BY Types DEF FifoInv
<1>2. StepInv(c) /\ Part(c) /\ TypeOK
  BY DEF FifoInv, LinkInv
<1> QED BY <1>1, <1>2, OwnPipe, PipeParts, TrustedFacts
        DEF Part, OwnInv, ClientState, SessionState

(* The conversation goes on as it is, ends after a reply, or is broken off *)
(* by a client that cannot be trusted.                                     *)
LEMMA TalkStep ==
  ASSUME NEW c \in Client, cl'[c].done = cl[c].done, cl[c].done \in Nat, use' = use,
         ses'[c] = ses[c],
         \/ pipe'[c].data = pipe[c].data
         \/ PlaceOf(c)' # "asking"
         \/ c \notin Trusted /\ pipe'[c].data = <<>>,
         \/ PlaceOf(c)' = PlaceOf(c)
         \/ PlaceOf(c) \in {"away", "idle"} /\ PlaceOf(c)' = "over"
         \/ c \notin Trusted /\ PlaceOf(c)' # "asking" /\ PlaceOf(c) # "away"
  PROVE  Step(c)
<1>1. /\ PlaceOf(c) \in {"asking", "over", "idle", "away"}
      /\ PlaceOf(c)' \in {"asking", "over", "idle", "away"}
  BY DEF PlaceOf
<1>2. SessionOf(c)' = SessionOf(c)
  BY DEF SessionOf
<1>3. /\ PlaceOf(c) # "asking" => ReplyOf(c) = "none"
      /\ PlaceOf(c)' # "asking" => ReplyOf(c)' = "none"
      /\ ReplyOf(c) \in {"none", "given", "owed"}
      /\ PlaceOf(c) = "asking" => ReplyOf(c) \in {"given", "owed"}
  BY DEF ReplyOf
<1>4. CASE PlaceOf(c)' # "asking"
  BY <1>1, <1>2, <1>3, <1>4 DEF Step, Still
<1>5. CASE PlaceOf(c)' = "asking"
  <2>1. PlaceOf(c) = "asking"
    BY <1>5
  <2>2. CASE pipe'[c].data = pipe[c].data
    <3>1. ReplyOf(c)' = ReplyOf(c)
      BY <1>5, <2>1, <2>2 DEF ReplyOf
    <3> QED BY <1>2, <2>1, <1>5, <3>1 DEF Step, Still
  <2>3. CASE c \notin Trusted /\ pipe'[c].data = <<>>
    <3>1. ReplyOf(c)' = "owed"
      BY <1>5, <2>3 DEF ReplyOf
    <3> QED BY <1>2, <1>3, <1>5, <2>1, <2>3, <3>1 DEF Step, Still
  <2> QED BY <1>5, <2>2, <2>3
<1> QED BY <1>4, <1>5

(* CloseFileDescriptor by thread i, of pipe p.                             *)
LEMMA ClosesFacts ==
  ASSUME TypeOK, NEW p \in Pipe, NEW i, Closes(i, p)
  PROVE  /\ Sets(p, pipe'[p]) /\ pipe'[p] \in APipe
         /\ pipe'[p].data \in {pipe[p].data, <<>>} /\ pipe'[p].linked = pipe[p].linked
         /\ pipe'[p].writers = pipe[p].writers \ {i} /\ pipe'[p].opening = pipe[p].opening \ {i}
         /\ pipe'[p].reading = pipe[p].reading \ {i}
         /\ Ends(pipe'[p]) = Ends(pipe[p]) \ {i}
         /\ pipe'[p].data # <<>> => Ends(pipe'[p]) # {}
         /\ Ends(pipe'[p]) # {} => pipe'[p].data = pipe[p].data
<1>1. pipe[p] \in APipe
  BY Types
<1>2. Close(pipe[p], i) \in APipe
  BY <1>1, CloseFacts
<1>3. Sets(p, Close(pipe[p], i)) /\ pipe'[p] = Close(pipe[p], i)
  BY <1>2, DoesFacts DEF Closes, Sets
<1>4. PICK r : r = Close(pipe[p], i)
  OBVIOUS
<1>5. /\ r.data \in {pipe[p].data, <<>>} /\ r.linked = pipe[p].linked
      /\ r.writers = pipe[p].writers \ {i} /\ r.opening = pipe[p].opening \ {i}
      /\ r.reading = pipe[p].reading \ {i}
  BY <1>1, <1>4, CloseFacts
<1>6. /\ Ends(r) = Ends(pipe[p]) \ {i}
      /\ r.data # <<>> => Ends(r) # {}
      /\ Ends(r) # {} => r.data = pipe[p].data
  BY <1>1, <1>4, CloseKept
<1>7. Sets(p, r) /\ pipe'[p] = r /\ r \in APipe
  BY <1>2, <1>3, <1>4
<1> QED BY <1>5, <1>6, <1>7 DEF Sets, Ends

LEMMA SendGood ==
  ASSUME FifoInv, LinkInv, NEW c \in Client, Send(c)
  PROVE  Good
<1> USE DEF Talking
<1>0. /\ OnlyClient /\ UNCHANGED mutex /\ use' = use /\ ses' = ses /\ srv' = srv /\ acc' = acc
      /\ Trusted' = Trusted /\ cl[c].pc \in Talking /\ cl[c].name = c /\ TypeOK
  <2>1. cl[c].pc \in Talking
    BY DEF Send, OnExit, Goes
  <2> QED BY <2>1, OwnFacts DEF Send, OnlyClient, Trusted, FifoInv
<1>1. /\ c \in Pipe /\ pipe[c] \in APipe /\ StepInv(c) /\ KeptInv(c) /\ OpenInv(c)
      /\ ForInv(c) /\ TrustInv(c) /\ cl[c].done \in Nat
      /\ UNCHANGED pipe => Sets(c, pipe[c])
      /\ c \in Trusted => srv.pc = "up"
  BY OwnFacts
<1>2. c # Server /\ c \in Process /\ Session(c) # c /\ Session(c) # Server
  BY Threads
<1>3. CASE \E to \in {"exitOpen", "sendOpen"} : Goes(c, "send", to) /\ UNCHANGED pipe
          /\ to = IF cl[c].closeFlag THEN "exitOpen" ELSE "sendOpen"
  <2>1. PICK to \in {"exitOpen", "sendOpen"} : Goes(c, "send", to) /\ UNCHANGED pipe
          /\ to = IF cl[c].closeFlag THEN "exitOpen" ELSE "sendOpen"
    BY <1>3
  <2>4. /\ cl[c].pc = "send" /\ cl'[c].pc = to /\ cl'[c].done = cl[c].done
        /\ cl'[c].closeFlag = cl[c].closeFlag /\ \A d \in Client \ {c} : cl'[d] = cl[d]
    BY <2>1, TalkFacts
  <2>6. OwnInv(c)'
    BY <1>0, <1>1, <1>2, <2>1, <2>4 DEF OwnInv, KeptInv, OpenInv, ForInv, TrustInv, Outside,
         Done, Early, Starting
  <2>7. Step(c)
    BY <1>0, <1>1, <1>2, <2>1, <2>4, TalkStep DEF PlaceOf
  <2> QED BY <1>0, <1>1, <1>2, <2>1, <2>4, <2>6, <2>7, TalkGood
<1>4. CASE Goes(c, "exitOpen", "exitClose") /\ CanOpen(c) /\ Does(c, OpenWrite(pipe[c], c))
  <2> DEFINE q == OpenWrite(pipe[c], c)
  <2>2. /\ q \in APipe /\ q.data = pipe[c].data /\ q.linked = pipe[c].linked
        /\ q.writers = pipe[c].writers \cup {c} /\ q.opening = {}
        /\ q.reading = pipe[c].opening \cup pipe[c].reading
    BY <1>1, <1>2, OpenWriteFacts
  <2> HIDE DEF q
  <2>3. Sets(c, q) /\ pipe'[c] = q
    BY <1>0, <1>1, <1>4, <2>2, DoesFacts DEF Sets, q
  <2>4. /\ cl[c].pc = "exitOpen" /\ cl'[c].pc = "exitClose" /\ cl'[c].done = cl[c].done
        /\ cl'[c].closeFlag = cl[c].closeFlag /\ \A d \in Client \ {c} : cl'[d] = cl[d]
    BY <1>4, TalkFacts
  <2>5. pipe[c].opening \cup pipe[c].reading # {} /\ pipe[c].data = <<>>
    BY <1>0, <1>1, <1>2, <1>4, <2>2, <2>3, <2>4 DEF CanOpen, HasReader, StepInv, Waiting, Done
  <2>6. OwnInv(c)'
    BY <1>0, <1>1, <1>2, <1>4, <2>2, <2>3, <2>4, <2>5 DEF OwnInv, KeptInv, OpenInv, ForInv,
         TrustInv, Ends, Done, Outside, Early, Starting
  <2>7. Step(c)
    BY <1>0, <1>1, <1>2, <1>4, <2>2, <2>3, <2>4, <2>5, TalkStep DEF PlaceOf
  <2> QED BY <1>0, <1>1, <1>2, <1>4, <2>2, <2>3, <2>4, <2>5, <2>6, <2>7, TalkGood
<1>5. CASE Goes(c, "exitOpen", "remove") /\ UNCHANGED pipe
  <2>4. /\ cl[c].pc = "exitOpen" /\ cl'[c].pc = "remove" /\ cl'[c].done = cl[c].done
        /\ cl'[c].closeFlag = cl[c].closeFlag /\ \A d \in Client \ {c} : cl'[d] = cl[d]
    BY <1>5, TalkFacts
  <2>6. OwnInv(c)'
    BY <1>0, <1>1, <1>2, <1>5, <2>4 DEF OwnInv, KeptInv, OpenInv, ForInv, TrustInv, Ends, Done,
         Outside, Early, Starting
  <2>7. Step(c)
    BY <1>0, <1>1, <1>2, <1>5, <2>4, TalkStep DEF PlaceOf
  <2> QED BY <1>0, <1>1, <1>2, <1>5, <2>4, <2>6, <2>7, TalkGood
<1>6. CASE Goes(c, "exitClose", "remove") /\ Closes(c, c)
  <2> DEFINE q == pipe'[c]
  <2>2. /\ Sets(c, q) /\ q \in APipe /\ q.data \in {pipe[c].data, <<>>} /\ q.linked = pipe[c].linked
        /\ q.writers = pipe[c].writers \ {c} /\ q.opening = pipe[c].opening \ {c}
        /\ q.reading = pipe[c].reading \ {c}
        /\ Ends(q) = Ends(pipe[c]) \ {c} /\ (q.data # <<>> => Ends(q) # {})
        /\ Ends(q) # {} => q.data = pipe[c].data
    BY <1>0, <1>1, <1>6, ClosesFacts
  <2> HIDE DEF q
  <2>3. pipe'[c] = q
    BY DEF q
  <2>4. /\ cl[c].pc = "exitClose" /\ cl'[c].pc = "remove" /\ cl'[c].done = cl[c].done
        /\ cl'[c].closeFlag = cl[c].closeFlag /\ \A d \in Client \ {c} : cl'[d] = cl[d]
    BY <1>6, TalkFacts
  <2>5. pipe[c].data = <<>>
    BY <1>0, <1>1, <1>2, <1>6, <2>2, <2>3, <2>4 DEF StepInv, Waiting, Done
  <2>6. OwnInv(c)'
    BY <1>0, <1>1, <1>2, <1>6, <2>2, <2>3, <2>4, <2>5 DEF OwnInv, KeptInv, OpenInv, ForInv,
         TrustInv, Ends, Done, Outside, Early, Starting
  <2>7. Step(c)
    BY <1>0, <1>1, <1>2, <1>6, <2>2, <2>3, <2>4, <2>5, TalkStep DEF PlaceOf
  <2> QED BY <1>0, <1>1, <1>2, <1>6, <2>2, <2>3, <2>4, <2>5, <2>6, <2>7, TalkGood
<1>7. CASE Goes(c, "remove", "sendOpen") /\ Does(c, Unlink(pipe[c]))
  <2> DEFINE q == Unlink(pipe[c])
  <2>2. /\ q \in APipe /\ q.data = pipe[c].data
        /\ q.writers = pipe[c].writers /\ q.opening = pipe[c].opening
        /\ q.reading = pipe[c].reading
    BY <1>1, <1>2, LinkFacts
  <2> HIDE DEF q
  <2>3. Sets(c, q) /\ pipe'[c] = q
    BY <1>0, <1>1, <1>7, <2>2, DoesFacts DEF Sets, q
  <2>4. /\ cl[c].pc = "remove" /\ cl'[c].pc = "sendOpen" /\ cl'[c].done = cl[c].done
        /\ cl'[c].closeFlag = cl[c].closeFlag /\ \A d \in Client \ {c} : cl'[d] = cl[d]
    BY <1>7, TalkFacts
  <2>6. OwnInv(c)'
    BY <1>0, <1>1, <1>2, <1>7, <2>2, <2>3, <2>4 DEF OwnInv, KeptInv, OpenInv, ForInv, TrustInv,
         Ends, Done, Outside, Early, Starting
  <2>7. Step(c)
    BY <1>0, <1>1, <1>2, <1>7, <2>2, <2>3, <2>4, TalkStep DEF PlaceOf
  <2> QED BY <1>0, <1>1, <1>2, <1>7, <2>2, <2>3, <2>4, <2>6, <2>7, TalkGood
<1>8. CASE Goes(c, "sendOpen", "sendWrite") /\ CanOpen(c) /\ Does(c, OpenWrite(pipe[c], c))
  <2> DEFINE q == OpenWrite(pipe[c], c)
  <2>2. /\ q \in APipe /\ q.data = pipe[c].data /\ q.linked = pipe[c].linked
        /\ q.writers = pipe[c].writers \cup {c} /\ q.opening = {}
        /\ q.reading = pipe[c].opening \cup pipe[c].reading
    BY <1>1, <1>2, OpenWriteFacts
  <2> HIDE DEF q
  <2>3. Sets(c, q) /\ pipe'[c] = q
    BY <1>0, <1>1, <1>8, <2>2, DoesFacts DEF Sets, q
  <2>4. /\ cl[c].pc = "sendOpen" /\ cl'[c].pc = "sendWrite" /\ cl'[c].done = cl[c].done
        /\ cl'[c].closeFlag = cl[c].closeFlag /\ \A d \in Client \ {c} : cl'[d] = cl[d]
    BY <1>8, TalkFacts
  <2>5. pipe[c].opening \cup pipe[c].reading # {} /\ pipe[c].data = <<>>
    BY <1>0, <1>1, <1>2, <1>8, <2>2, <2>3, <2>4 DEF CanOpen, HasReader, StepInv, Waiting, Done
  <2>6. OwnInv(c)'
    <3>1. KeptInv(c)'
      BY <1>0, <1>1, <1>2, <1>8, <2>2, <2>3, <2>4, <2>5 DEF KeptInv, Ends
    <3>2. OpenInv(c)'
      BY <1>0, <1>1, <1>2, <1>8, <2>2, <2>3, <2>4, <2>5 DEF OpenInv, KeptInv, Ends
    <3>3. ForInv(c)'
      BY <1>0, <1>1, <1>2, <1>8, <2>2, <2>3, <2>4, <2>5 DEF ForInv, OpenInv, KeptInv, Ends
    <3>4. TrustInv(c)'
      BY <1>0, <1>1, <1>2, <1>8, <2>2, <2>3, <2>4, <2>5 DEF TrustInv, OpenInv, KeptInv, Ends,
           Done, Outside, Early, Starting
    <3> QED BY <3>1, <3>2, <3>3, <3>4 DEF OwnInv
  <2>7. Step(c)
    <3>1. PlaceOf(c) \in {"away", "idle"} /\ PlaceOf(c)' = "asking"
      <4>1. PlaceOf(c)' = "asking"
        BY <2>4 DEF PlaceOf
      <4>2. PlaceOf(c) \in {"away", "idle"}
        BY <1>1, <2>4 DEF PlaceOf
      <4> QED BY <4>1, <4>2
    <3>3. pipe'[c].data = <<>>
      BY <2>2, <2>3, <2>5
    <3>4. ReplyOf(c)' = "owed"
      BY <3>1, <3>3 DEF ReplyOf
    <3>2. SessionOf(c)' = SessionOf(c)
      BY <1>0 DEF SessionOf
    <3> QED BY <3>1, <3>2, <3>4 DEF Step
  <2> QED BY <1>0, <1>1, <1>2, <1>8, <2>2, <2>3, <2>4, <2>5, <2>6, <2>7, TalkGood
<1>9. CASE Goes(c, "sendOpen", "sendCheck") /\ UNCHANGED pipe
  <2>4. /\ cl[c].pc = "sendOpen" /\ cl'[c].pc = "sendCheck" /\ cl'[c].done = cl[c].done
        /\ cl'[c].closeFlag = cl[c].closeFlag /\ \A d \in Client \ {c} : cl'[d] = cl[d]
    BY <1>9, TalkFacts
  <2>6. OwnInv(c)'
    BY <1>0, <1>1, <1>2, <1>9, <2>4 DEF OwnInv, KeptInv, OpenInv, ForInv, TrustInv, Ends, Done,
         Outside, Early, Starting
  <2>7. Step(c)
    BY <1>0, <1>1, <1>2, <1>9, <2>4, TalkStep DEF PlaceOf
  <2> QED BY <1>0, <1>1, <1>2, <1>9, <2>4, <2>6, <2>7, TalkGood
<1>10. CASE /\ Goes(c, "sendWrite", "sendClose")
            /\ Write(c, c, [kind |-> "request", id |-> c, n |-> cl[c].done + 1])
  <2> DEFINE m == [kind |-> "request", id |-> c, n |-> cl[c].done + 1]
             q == Put(pipe[c], m)
  <2>1. m \in Message /\ m.kind = "request" /\ m.id = c
    <3>1. cl[c].done < use.requests /\ cl[c].done \in 0 .. MaxRequests
      BY <1>0, <1>10, Types DEF FifoInv, StartInv, NameInv, ClientState, Goes, Done
    <3>2. cl[c].done + 1 \in 0 .. MaxRequests
      BY <1>0, <3>1, UseFacts
    <3> QED BY <3>2 DEF Message
  <2> HIDE DEF m
  <2>2. /\ q \in APipe /\ q.data = Append(pipe[c].data, m) /\ q.linked = pipe[c].linked
        /\ q.writers = pipe[c].writers /\ q.opening = pipe[c].opening
        /\ q.reading = pipe[c].reading
    BY <1>1, <2>1, PutFacts
  <2> HIDE DEF q
  <2>3. Sets(c, q) /\ pipe'[c] = q /\ pipe[c].opening \cup pipe[c].reading # {}
    BY <1>0, <1>1, <1>10, <2>2, DoesFacts DEF Sets, q, m, Write, HasReader
  <2>4. /\ cl[c].pc = "sendWrite" /\ cl'[c].pc = "sendClose" /\ cl'[c].done = cl[c].done
        /\ cl'[c].closeFlag = cl[c].closeFlag /\ \A d \in Client \ {c} : cl'[d] = cl[d]
    BY <1>10, TalkFacts
  <2>5. pipe[c].data = <<>> /\ q.data = <<m>> /\ Len(q.data) = 1 /\ q.data[1] = m /\ q.data # <<>>
    <3>1. pipe[c].data = <<>>
      BY <1>1, <2>4 DEF StepInv, Waiting, Done
    <3> QED BY <2>1, <2>2, <3>1
  <2>6. OwnInv(c)'
    <3>1. KeptInv(c)'
      BY <1>0, <1>1, <1>2, <2>1, <2>2, <2>3, <2>4, <2>5 DEF KeptInv, Ends
    <3>2. OpenInv(c)'
      BY <1>0, <1>1, <1>2, <2>1, <2>2, <2>3, <2>4, <2>5 DEF OpenInv, KeptInv, Ends
    <3>3. ForInv(c)'
      BY <1>0, <1>1, <1>2, <2>1, <2>2, <2>3, <2>4, <2>5 DEF ForInv, OpenInv, KeptInv, Ends
    <3>4. TrustInv(c)'
      BY <1>0, <1>1, <1>2, <2>1, <2>2, <2>3, <2>4, <2>5 DEF TrustInv, OpenInv, KeptInv, Ends,
           Done, Outside, Early, Starting
    <3> QED BY <3>1, <3>2, <3>3, <3>4 DEF OwnInv
  <2>7. Step(c)
    BY <1>0, <2>1, <2>3, <2>4, <2>5 DEF Step, Still, PlaceOf, ReplyOf, SessionOf
  <2> QED BY <1>0, <1>1, <2>2, <2>3, <2>4, <2>6, <2>7, TalkGood
<1>11. CASE Goes(c, "sendWrite", "dtor") /\ BrokenPipe(c, c)
  <2> DEFINE q == pipe'[c]
  <2>2. /\ Sets(c, q) /\ q \in APipe /\ q.data \in {pipe[c].data, <<>>} /\ q.linked = pipe[c].linked
        /\ q.writers = pipe[c].writers \ {c} /\ q.opening = pipe[c].opening \ {c}
        /\ q.reading = pipe[c].reading \ {c}
        /\ Ends(q) = Ends(pipe[c]) \ {c} /\ (q.data # <<>> => Ends(q) # {})
        /\ Ends(q) # {} => q.data = pipe[c].data
    BY <1>0, <1>1, <1>11, ClosesFacts DEF BrokenPipe
  <2> HIDE DEF q
  <2>3. pipe'[c] = q
    BY DEF q
  <2>4. /\ cl[c].pc = "sendWrite" /\ cl'[c].pc = "dtor" /\ cl'[c].done = cl[c].done
        /\ cl'[c].closeFlag = cl[c].closeFlag /\ \A d \in Client \ {c} : cl'[d] = cl[d]
    BY <1>11, TalkFacts
  <2>5. pipe[c].data = <<>> /\ c \notin Trusted
    BY <1>0, <1>1, <1>2, <1>11, <2>2, <2>3, <2>4 DEF StepInv, Waiting, Done, BrokenPipe,
         HasReader, TrustInv
  <2>6. OwnInv(c)'
    BY <1>0, <1>1, <1>2, <1>11, <2>2, <2>3, <2>4, <2>5 DEF OwnInv, KeptInv, OpenInv, ForInv,
         TrustInv, Ends, Done, Outside, Early, Starting
  <2>7. Step(c)
    BY <1>0, <1>1, <1>2, <1>11, <2>2, <2>3, <2>4, <2>5, TalkStep DEF PlaceOf
  <2> QED BY <1>0, <1>1, <1>2, <1>11, <2>2, <2>3, <2>4, <2>5, <2>6, <2>7, TalkGood
<1>12. CASE Goes(c, "sendClose", "recv") /\ Closes(c, c)
  <2> DEFINE q == pipe'[c]
  <2>2. /\ Sets(c, q) /\ q \in APipe /\ q.data \in {pipe[c].data, <<>>} /\ q.linked = pipe[c].linked
        /\ q.writers = pipe[c].writers \ {c} /\ q.opening = pipe[c].opening \ {c}
        /\ q.reading = pipe[c].reading \ {c}
        /\ Ends(q) = Ends(pipe[c]) \ {c} /\ (q.data # <<>> => Ends(q) # {})
        /\ Ends(q) # {} => q.data = pipe[c].data
    BY <1>0, <1>1, <1>12, ClosesFacts
  <2> HIDE DEF q
  <2>3. pipe'[c] = q
    BY DEF q
  <2>4. /\ cl[c].pc = "sendClose" /\ cl'[c].pc = "recv" /\ cl'[c].done = cl[c].done
        /\ cl'[c].closeFlag = cl[c].closeFlag /\ \A d \in Client \ {c} : cl'[d] = cl[d]
    BY <1>12, TalkFacts
  <2>5. c \in Trusted => q.data = pipe[c].data
    BY <1>0, <1>1, <1>2, <1>12, <2>2, <2>3, <2>4
    DEF TrustInv, StepInv, Holding, Held, Answering, Ends
  <2>6. OwnInv(c)'
    <3>1. KeptInv(c)'
      BY <1>0, <1>1, <1>2, <1>12, <2>2, <2>3, <2>4, <2>5 DEF KeptInv, Ends
    <3>2. OpenInv(c)'
      BY <1>0, <1>1, <1>2, <1>12, <2>2, <2>3, <2>4, <2>5 DEF OpenInv, KeptInv, Ends
    <3>3. ForInv(c)'
      BY <1>0, <1>1, <1>2, <1>12, <2>2, <2>3, <2>4, <2>5 DEF ForInv, OpenInv, KeptInv, Ends
    <3>4. TrustInv(c)'
      BY <1>0, <1>1, <1>2, <1>12, <2>2, <2>3, <2>4, <2>5 DEF TrustInv, OpenInv, KeptInv, Ends,
           Done, Outside, Early, Starting
    <3> QED BY <3>1, <3>2, <3>3, <3>4 DEF OwnInv
  <2>7. Step(c)
    BY <1>0, <1>1, <1>2, <1>12, <2>2, <2>3, <2>4, <2>5, TalkStep DEF PlaceOf
  <2> QED BY <1>0, <1>1, <1>2, <1>12, <2>2, <2>3, <2>4, <2>5, <2>6, <2>7, TalkGood
<1>13. CASE \E to \in {"send", "dtor"} : Goes(c, "sendCheck", to) /\ UNCHANGED pipe
          /\ to = IF pipe[c].linked THEN "send" ELSE "dtor"
  <2>1. PICK to \in {"send", "dtor"} : Goes(c, "sendCheck", to) /\ UNCHANGED pipe
          /\ to = IF pipe[c].linked THEN "send" ELSE "dtor"
    BY <1>13
  <2>4. /\ cl[c].pc = "sendCheck" /\ cl'[c].pc = to /\ cl'[c].done = cl[c].done
        /\ cl'[c].closeFlag = cl[c].closeFlag /\ \A d \in Client \ {c} : cl'[d] = cl[d]
    BY <2>1, TalkFacts
  <2>6. OwnInv(c)'
    BY <1>0, <1>1, <1>2, <2>1, <2>4 DEF OwnInv, KeptInv, OpenInv, ForInv, TrustInv, Outside, Done
  <2>7. Step(c)
    BY <1>0, <1>1, <1>2, <2>1, <2>4, TalkStep DEF PlaceOf
  <2> QED BY <1>0, <1>1, <1>2, <2>1, <2>4, <2>6, <2>7, TalkGood
<1> HIDE DEF Talking
<1> QED
  BY <1>0, <1>3, <1>4, <1>5, <1>6, <1>7, <1>8, <1>9, <1>10, <1>11, <1>12, <1>13
  DEF Send, OnExit, AfterSend

LEMMA ReceiveGood ==
  ASSUME FifoInv, LinkInv, NEW c \in Client, Receive(c)
  PROVE  Good
<1> USE DEF Talking
<1>0. /\ OnlyClient /\ UNCHANGED mutex /\ use' = use /\ ses' = ses /\ srv' = srv /\ acc' = acc
      /\ Trusted' = Trusted /\ cl[c].pc \in Talking /\ cl[c].name = c /\ TypeOK
  <2>1. cl[c].pc \in Talking
    BY DEF Receive, OnExit, Goes
  <2> QED BY <2>1, OwnFacts DEF Receive, OnlyClient, Trusted, FifoInv
<1>1. /\ c \in Pipe /\ pipe[c] \in APipe /\ StepInv(c) /\ KeptInv(c) /\ OpenInv(c)
      /\ ForInv(c) /\ TrustInv(c) /\ cl[c].done \in Nat
      /\ UNCHANGED pipe => Sets(c, pipe[c])
      /\ c \in Trusted => srv.pc = "up"
  BY OwnFacts
<1>2. c # Server /\ c \in Process /\ Session(c) # c /\ Session(c) # Server
  BY Threads
<1>3. CASE pipe[c].linked /\ Goes(c, "recv", "recvRead") /\ Does(c, OpenRead(pipe[c], c))
  <2> DEFINE q == OpenRead(pipe[c], c)
  <2>2. /\ q \in APipe /\ q.data = pipe[c].data /\ q.linked = pipe[c].linked
        /\ q.writers = pipe[c].writers
        /\ q.opening \cup q.reading = pipe[c].opening \cup pipe[c].reading \cup {c}
        /\ q.reading \subseteq pipe[c].reading \cup {c} /\ pipe[c].reading \subseteq q.reading
        /\ pipe[c].writers = {} => q.reading = pipe[c].reading
    BY <1>1, <1>2, OpenReadFacts
  <2> HIDE DEF q
  <2>3. Sets(c, q) /\ pipe'[c] = q
    BY <1>0, <1>1, <1>3, <2>2, DoesFacts DEF Sets, q
  <2>4. /\ cl[c].pc = "recv" /\ cl'[c].pc = "recvRead" /\ cl'[c].done = cl[c].done
        /\ cl'[c].closeFlag = cl[c].closeFlag /\ \A d \in Client \ {c} : cl'[d] = cl[d]
    BY <1>3, TalkFacts
  <2>5. srv.pc = "up" => pipe[c].writers = {} /\ c \notin pipe[c].reading
    BY <1>0, <1>1, <1>2, <1>3, <2>2, <2>3, <2>4
    DEF OpenInv, KeptInv, Ends
  <2>6. OwnInv(c)'
    BY <1>0, <1>1, <1>2, <1>3, <2>2, <2>3, <2>4, <2>5 DEF OwnInv, KeptInv, OpenInv, ForInv,
         TrustInv, Ends, Done, Outside, Early, Starting
  <2>7. Step(c)
    BY <1>0, <1>1, <1>2, <1>3, <2>2, <2>3, <2>4, <2>5, TalkStep DEF PlaceOf
  <2> QED BY <1>0, <1>1, <1>2, <1>3, <2>2, <2>3, <2>4, <2>5, <2>6, <2>7, TalkGood
<1>4. CASE ~pipe[c].linked /\ Goes(c, "recv", "dtor") /\ UNCHANGED pipe
  <2>4. /\ cl[c].pc = "recv" /\ cl'[c].pc = "dtor" /\ cl'[c].done = cl[c].done
        /\ cl'[c].closeFlag = cl[c].closeFlag /\ \A d \in Client \ {c} : cl'[d] = cl[d]
    BY <1>4, TalkFacts
  <2>5. c \notin Trusted
    BY <1>0, <1>1, <1>2, <1>4, <2>4 DEF TrustInv, Answering, Done
  <2>6. OwnInv(c)'
    BY <1>0, <1>1, <1>2, <1>4, <2>4, <2>5 DEF OwnInv, KeptInv, OpenInv, ForInv, TrustInv, Ends,
         Done, Outside, Early, Starting
  <2>7. Step(c)
    BY <1>0, <1>1, <1>2, <1>4, <2>4, <2>5, TalkStep DEF PlaceOf
  <2> QED BY <1>0, <1>1, <1>2, <1>4, <2>4, <2>5, <2>6, <2>7, TalkGood
<1>5. CASE Goes(c, "recvRead", "recvClose") /\ HasRead(c, c)
  <2> DEFINE q == Drain(pipe[c])
  <2>2. /\ q \in APipe /\ q.data = <<>> /\ q.linked = pipe[c].linked
        /\ q.writers = pipe[c].writers /\ q.opening = pipe[c].opening
        /\ q.reading = pipe[c].reading
    BY <1>1, <1>2, DrainFacts
  <2> HIDE DEF q
  <2>3. Sets(c, q) /\ pipe'[c] = q
    BY <1>0, <1>1, <1>5, <2>2, DoesFacts DEF Sets, q, HasRead
  <2>4. /\ cl[c].pc = "recvRead" /\ cl'[c].pc = "recvClose" /\ cl'[c].done = cl[c].done
        /\ cl'[c].closeFlag = cl[c].closeFlag /\ \A d \in Client \ {c} : cl'[d] = cl[d]
    BY <1>5, TalkFacts
  <2>5. /\ c \in pipe[c].reading /\ pipe[c].data # <<>> /\ ~Holding(c)
        /\ c \in Trusted => pipe[c].data[1].kind = "reply" /\ 1 \in DOMAIN pipe[c].data
    BY <1>0, <1>1, <1>2, <1>5, <2>2, <2>3, <2>4
    DEF HasRead, StepInv, ForInv
  <2>6. OwnInv(c)'
    <3>1. KeptInv(c)'
      BY <1>0, <1>1, <1>2, <1>5, <2>2, <2>3, <2>4, <2>5 DEF KeptInv, Ends
    <3>2. OpenInv(c)'
      BY <1>0, <1>1, <1>2, <1>5, <2>2, <2>3, <2>4, <2>5 DEF OpenInv, KeptInv, Ends, Holding, Held
    <3>3. ForInv(c)'
      BY <1>0, <1>1, <1>2, <1>5, <2>2, <2>3, <2>4, <2>5 DEF ForInv, OpenInv, KeptInv, Ends
    <3>4. TrustInv(c)'
      BY <1>0, <1>1, <1>2, <1>5, <2>2, <2>3, <2>4, <2>5 DEF TrustInv, OpenInv, KeptInv, Ends,
           Done, Outside, Early, Starting, Holding, Held
    <3> QED BY <3>1, <3>2, <3>3, <3>4 DEF OwnInv
  <2>7. Step(c)
    <3>1. c \in Trusted => ReplyOf(c) = "given"
      BY <2>4, <2>5 DEF ReplyOf, PlaceOf
    <3>2. PlaceOf(c) = "asking" /\ PlaceOf(c)' = "idle" /\ ReplyOf(c)' = "none"
      BY <2>4 DEF ReplyOf, PlaceOf
    <3> QED BY <1>0, <3>1, <3>2 DEF Step, SessionOf
  <2> QED BY <1>0, <1>1, <1>2, <1>5, <2>2, <2>3, <2>4, <2>5, <2>6, <2>7, TalkGood
<1>6. CASE Goes(c, "recvRead", "dtor") /\ HasEnded(c, c)
  <2> DEFINE q == pipe'[c]
  <2>2. /\ Sets(c, q) /\ q \in APipe /\ q.data \in {pipe[c].data, <<>>} /\ q.linked = pipe[c].linked
        /\ q.writers = pipe[c].writers \ {c} /\ q.opening = pipe[c].opening \ {c}
        /\ q.reading = pipe[c].reading \ {c}
        /\ Ends(q) = Ends(pipe[c]) \ {c} /\ (q.data # <<>> => Ends(q) # {})
        /\ Ends(q) # {} => q.data = pipe[c].data
    BY <1>0, <1>1, <1>6, ClosesFacts DEF HasEnded, Closes
  <2> HIDE DEF q
  <2>3. pipe'[c] = q
    BY DEF q
  <2>4. /\ cl[c].pc = "recvRead" /\ cl'[c].pc = "dtor" /\ cl'[c].done = cl[c].done
        /\ cl'[c].closeFlag = cl[c].closeFlag /\ \A d \in Client \ {c} : cl'[d] = cl[d]
    BY <1>6, TalkFacts
  <2>5. c \notin Trusted /\ pipe[c].data = <<>>
    BY <1>0, <1>1, <1>2, <1>6, <2>2, <2>3, <2>4 DEF HasEnded, EndOfFile, TrustInv
  <2>6. OwnInv(c)'
    <3>1. KeptInv(c)'
      BY <1>0, <1>1, <1>2, <1>6, <2>2, <2>3, <2>4, <2>5 DEF KeptInv, Ends
    <3>2. OpenInv(c)'
      BY <1>0, <1>1, <1>2, <1>6, <2>2, <2>3, <2>4, <2>5 DEF OpenInv, KeptInv, Ends
    <3>3. ForInv(c)'
      BY <1>0, <1>1, <1>2, <1>6, <2>2, <2>3, <2>4, <2>5 DEF ForInv, OpenInv, KeptInv, Ends
    <3>4. TrustInv(c)'
      BY <1>0, <1>1, <1>2, <1>6, <2>2, <2>3, <2>4, <2>5 DEF TrustInv, OpenInv, KeptInv, Ends,
           Done, Outside, Early, Starting
    <3> QED BY <3>1, <3>2, <3>3, <3>4 DEF OwnInv
  <2>7. Step(c)
    BY <1>0, <1>1, <1>2, <1>6, <2>2, <2>3, <2>4, <2>5, TalkStep DEF PlaceOf
  <2> QED BY <1>0, <1>1, <1>2, <1>6, <2>2, <2>3, <2>4, <2>5, <2>6, <2>7, TalkGood
<1>7. CASE /\ cl[c].pc = "recvClose"
           /\ cl' = [cl EXCEPT ![c].done = @ + 1, ![c].pc = IF Last(c) THEN "dtor" ELSE "send"]
           /\ Closes(c, c)
  <2> DEFINE q == pipe'[c]
             to == IF Last(c) THEN "dtor" ELSE "send"
  <2>2. /\ Sets(c, q) /\ q \in APipe /\ q.data \in {pipe[c].data, <<>>} /\ q.linked = pipe[c].linked
        /\ q.writers = pipe[c].writers \ {c} /\ q.opening = pipe[c].opening \ {c}
        /\ q.reading = pipe[c].reading \ {c}
        /\ Ends(q) = Ends(pipe[c]) \ {c} /\ (q.data # <<>> => Ends(q) # {})
        /\ Ends(q) # {} => q.data = pipe[c].data
    BY <1>0, <1>1, <1>7, ClosesFacts
  <2> HIDE DEF q
  <2>3. pipe'[c] = q /\ pipe[c].data = <<>> /\ to \in {"dtor", "send"}
    BY <1>1, <1>7 DEF q, StepInv, Waiting, Done
  <2>4. /\ cl'[c].pc = to /\ cl'[c].done = cl[c].done + 1
        /\ cl'[c].closeFlag = cl[c].closeFlag /\ \A d \in Client \ {c} : cl'[d] = cl[d]
    <3> DEFINE r == [cl[c] EXCEPT !.done = @ + 1, !.pc = to]
    <3>1. cl \in [Client -> ClientState] /\ cl' = [cl EXCEPT ![c] = r]
      BY <1>0, <1>7, Types
    <3> HIDE DEF to
    <3>2. r.pc = to /\ r.done = cl[c].done + 1 /\ r.closeFlag = cl[c].closeFlag
      BY <3>1 DEF ClientState
    <3> HIDE DEF r
    <3> QED BY <3>1, <3>2
  <2> HIDE DEF to
  <2>6. OwnInv(c)'
    BY <1>0, <1>1, <1>2, <1>7, <2>2, <2>3, <2>4 DEF OwnInv, KeptInv, OpenInv, ForInv, TrustInv,
         Ends, Done, Outside, Early, Starting
  <2>7. Step(c)
    <3>1. PlaceOf(c) = "idle" /\ ReplyOf(c) = "none"
      BY <1>7 DEF PlaceOf, ReplyOf
    <3>2. PlaceOf(c)' \in {"idle", "over"} /\ ReplyOf(c)' = "none"
      BY <1>1, <2>3, <2>4 DEF PlaceOf, ReplyOf
    <3> QED BY <1>0, <3>1, <3>2 DEF Step, Still, SessionOf
  <2> QED BY <1>0, <1>7, <2>2, <2>3, <2>4, <2>6, <2>7, TalkGood
<1> HIDE DEF Talking
<1> QED BY <1>0, <1>3, <1>4, <1>5, <1>6, <1>7 DEF Receive

LEMMA DestroyGood ==
  ASSUME FifoInv, LinkInv, NEW c \in Client, Destroy(c)
  PROVE  Good
<1> USE DEF Talking
<1>0. /\ OnlyClient /\ UNCHANGED mutex /\ use' = use /\ ses' = ses /\ srv' = srv /\ acc' = acc
      /\ Trusted' = Trusted /\ cl[c].pc \in Talking /\ cl[c].name = c /\ TypeOK
  <2>1. cl[c].pc \in Talking
    BY DEF Destroy, OnExit, Goes
  <2> QED BY <2>1, OwnFacts DEF Destroy, OnlyClient, Trusted, FifoInv
<1>1. /\ c \in Pipe /\ pipe[c] \in APipe /\ StepInv(c) /\ KeptInv(c) /\ OpenInv(c)
      /\ ForInv(c) /\ TrustInv(c) /\ cl[c].done \in Nat
      /\ UNCHANGED pipe => Sets(c, pipe[c])
      /\ c \in Trusted => srv.pc = "up"
  BY OwnFacts
<1>2. c # Server /\ c \in Process /\ Session(c) # c /\ Session(c) # Server
  BY Threads
<1>3. CASE \E to \in {"dtorOpen", "ended"} : Goes(c, "dtor", to) /\ UNCHANGED pipe
  <2>1. PICK to \in {"dtorOpen", "ended"} : Goes(c, "dtor", to) /\ UNCHANGED pipe
    BY <1>3
  <2>4. /\ cl[c].pc = "dtor" /\ cl'[c].pc = to /\ cl'[c].done = cl[c].done
        /\ cl'[c].closeFlag = cl[c].closeFlag /\ \A d \in Client \ {c} : cl'[d] = cl[d]
    BY <2>1, TalkFacts
  <2>6. OwnInv(c)'
    BY <1>0, <1>1, <1>2, <2>1, <2>4 DEF OwnInv, KeptInv, OpenInv, ForInv, TrustInv, Ends, Done,
         Outside, Early, Starting
  <2>7. Step(c)
    BY <1>0, <1>1, <1>2, <2>1, <2>4, TalkStep DEF PlaceOf
  <2> QED BY <1>0, <1>1, <1>2, <2>1, <2>4, <2>6, <2>7, TalkGood
<1>4. CASE Goes(c, "dtorOpen", "dtorClose") /\ CanOpen(c) /\ Does(c, OpenWrite(pipe[c], c))
  <2> DEFINE q == OpenWrite(pipe[c], c)
  <2>2. /\ q \in APipe /\ q.data = pipe[c].data /\ q.linked = pipe[c].linked
        /\ q.writers = pipe[c].writers \cup {c} /\ q.opening = {}
        /\ q.reading = pipe[c].opening \cup pipe[c].reading
    BY <1>1, <1>2, OpenWriteFacts
  <2> HIDE DEF q
  <2>3. Sets(c, q) /\ pipe'[c] = q
    BY <1>0, <1>1, <1>4, <2>2, DoesFacts DEF Sets, q
  <2>4. /\ cl[c].pc = "dtorOpen" /\ cl'[c].pc = "dtorClose" /\ cl'[c].done = cl[c].done
        /\ cl'[c].closeFlag = cl[c].closeFlag /\ \A d \in Client \ {c} : cl'[d] = cl[d]
    BY <1>4, TalkFacts
  <2>5. pipe[c].opening \cup pipe[c].reading # {}
    BY <1>0, <1>1, <1>2, <1>4, <2>2, <2>3, <2>4 DEF CanOpen, HasReader
  <2>6. OwnInv(c)'
    BY <1>0, <1>1, <1>2, <1>4, <2>2, <2>3, <2>4, <2>5 DEF OwnInv, KeptInv, OpenInv, ForInv,
         TrustInv, Ends, Done, Outside, Early, Starting
  <2>7. Step(c)
    BY <1>0, <1>1, <1>2, <1>4, <2>2, <2>3, <2>4, <2>5, TalkStep DEF PlaceOf
  <2> QED BY <1>0, <1>1, <1>2, <1>4, <2>2, <2>3, <2>4, <2>5, <2>6, <2>7, TalkGood
<1>5. CASE Goes(c, "dtorOpen", "ended") /\ UNCHANGED pipe
  <2>4. /\ cl[c].pc = "dtorOpen" /\ cl'[c].pc = "ended" /\ cl'[c].done = cl[c].done
        /\ cl'[c].closeFlag = cl[c].closeFlag /\ \A d \in Client \ {c} : cl'[d] = cl[d]
    BY <1>5, TalkFacts
  <2>6. OwnInv(c)'
    BY <1>0, <1>1, <1>2, <1>5, <2>4 DEF OwnInv, KeptInv, OpenInv, ForInv, TrustInv, Ends, Done,
         Outside, Early, Starting
  <2>7. Step(c)
    BY <1>0, <1>1, <1>2, <1>5, <2>4, TalkStep DEF PlaceOf
  <2> QED BY <1>0, <1>1, <1>2, <1>5, <2>4, <2>6, <2>7, TalkGood
<1>6. CASE Goes(c, "dtorClose", "ended") /\ Closes(c, c)
  <2> DEFINE q == pipe'[c]
  <2>2. /\ Sets(c, q) /\ q \in APipe /\ q.data \in {pipe[c].data, <<>>} /\ q.linked = pipe[c].linked
        /\ q.writers = pipe[c].writers \ {c} /\ q.opening = pipe[c].opening \ {c}
        /\ q.reading = pipe[c].reading \ {c}
        /\ Ends(q) = Ends(pipe[c]) \ {c} /\ (q.data # <<>> => Ends(q) # {})
        /\ Ends(q) # {} => q.data = pipe[c].data
    BY <1>0, <1>1, <1>6, ClosesFacts
  <2> HIDE DEF q
  <2>3. pipe'[c] = q
    BY DEF q
  <2>4. /\ cl[c].pc = "dtorClose" /\ cl'[c].pc = "ended" /\ cl'[c].done = cl[c].done
        /\ cl'[c].closeFlag = cl[c].closeFlag /\ \A d \in Client \ {c} : cl'[d] = cl[d]
    BY <1>6, TalkFacts
  <2>6. OwnInv(c)'
    BY <1>0, <1>1, <1>2, <1>6, <2>2, <2>3, <2>4 DEF OwnInv, KeptInv, OpenInv, ForInv, TrustInv,
         Ends, Done, Outside, Early, Starting
  <2>7. Step(c)
    BY <1>0, <1>1, <1>2, <1>6, <2>2, <2>3, <2>4, TalkStep DEF PlaceOf
  <2> QED BY <1>0, <1>1, <1>2, <1>6, <2>2, <2>3, <2>4, <2>6, <2>7, TalkGood
<1> HIDE DEF Talking
<1> QED BY <1>0, <1>3, <1>4, <1>5, <1>6 DEF Destroy, OnExit

(* Any step of a client but those above: nobody else's pipe is touched,    *)
(* and what was in the pipe of the acceptor is there, or gone.             *)
LEMMA OthersGood ==
  ASSUME FifoInv, LinkInv, OnlyClient, NEW c \in Client,
         \A d \in Client \ {c} : cl'[d] = cl[d] /\ pipe'[d] = pipe[d],
         A'.data \in {A.data, <<>>}, cl'[c].pc \in Unsigned => cl[c].pc \in Unsigned,
         StatusInv', OwnInv(c)', EarlyInv(c)', Step(c)
  PROVE  Good
<1>1. use' = use /\ acc' = acc /\ ses' = ses /\ srv' = srv
  BY DEF OnlyClient
<1>2. ASSUME NEW d \in Client \ {c} PROVE Part(d)' /\ Still(d)
  <2>1. OwnInv(d)' /\ EarlyInv(d)' /\ Still(d)
    BY <1>1, SameKeeps DEF LinkInv, Part, Same, Pushes
  <2>2. SignsOnce(d)'
    BY <1>1, SignsKept DEF LinkInv, Part, Accepts
  <2> QED BY <2>1, <2>2 DEF Part
<1>3. Part(c)'
  <2>1. SignsOnce(c)'
    BY <1>1, SignsKept DEF LinkInv, Part, Accepts
  <2> QED BY <2>1 DEF Part
<1>4. UseInv'
  BY <1>1, UseKept DEF LinkInv
<1> QED BY <1>1, <1>2, <1>3, <1>4, Combine

LEMMA SenderKnown ==
  ASSUME FifoInv
  PROVE  \A j \in 1 .. Len(A.data) : A.data[j].id \in Client
BY Names, Messages DEF A

LEMMA InterruptGood ==
  ASSUME FifoInv, LinkInv, NEW c \in Client, Interrupt(c)
  PROVE  Good
<1>1. /\ OnlyClient /\ UNCHANGED <<pipe, mutex>> /\ c \notin Trusted /\ Trusted' = Trusted
      /\ use' = use /\ acc' = acc /\ ses' = ses /\ srv' = srv
  BY DEF Interrupt, Trusted, OnlyClient
<1>2. /\ cl'[c].pc = cl[c].pc /\ cl'[c].done = cl[c].done
      /\ \A d \in Client \ {c} : cl'[d] = cl[d]
  <2> DEFINE r == [cl[c] EXCEPT !.closeFlag = TRUE]
  <2>1. cl \in [Client -> ClientState] /\ cl' = [cl EXCEPT ![c] = r]
    BY Types DEF Interrupt, FifoInv
  <2>2. r.pc = cl[c].pc /\ r.done = cl[c].done
    BY <2>1 DEF ClientState
  <2> HIDE DEF r
  <2> QED BY <2>1, <2>2
<1>3. KeptInv(c) /\ OpenInv(c) /\ ForInv(c) /\ EarlyInv(c)
  BY OwnFacts
<1>4. OwnInv(c)' /\ EarlyInv(c)'
  BY <1>1, <1>2, <1>3 DEF OwnInv, KeptInv, OpenInv, ForInv, TrustInv, EarlyInv
<1>5. Step(c)
  BY <1>1, <1>2 DEF Step, Still, PlaceOf, ReplyOf, SessionOf
<1>6. A' = A
  BY <1>1 DEF A
<1>7. \A d \in Client : cl'[d].pc = cl[d].pc
  BY <1>2
<1>8. StatusInv'
  BY <1>1, <1>6, <1>7, SenderKnown, StatusKept DEF LinkInv
<1> QED BY <1>1, <1>2, <1>4, <1>5, <1>6, <1>8, OthersGood

LEMMA KillGood ==
  ASSUME FifoInv, LinkInv, NEW c \in Client, Kill(c)
  PROVE  Good
<1>1. /\ OnlyClient /\ c \notin Trusted /\ Trusted' = Trusted
      /\ use' = use /\ acc' = acc /\ ses' = ses /\ srv' = srv
  BY DEF Kill, Trusted, OnlyClient
<1>2. /\ cl'[c].pc = "dead" /\ \A d \in Client \ {c} : cl'[d] = cl[d]
  <2> DEFINE r == [cl[c] EXCEPT !.pc = "dead"]
  <2>1. cl \in [Client -> ClientState] /\ cl' = [cl EXCEPT ![c] = r]
    BY Types DEF Kill, FifoInv
  <2>2. r.pc = "dead"
    BY <2>1 DEF ClientState
  <2> HIDE DEF r
  <2> QED BY <2>1, <2>2
<1>3. \A p \in Pipe : pipe[p] \in APipe /\ pipe'[p] = Close(pipe[p], c)
  BY Types DEF Kill, FifoInv
<1>4. \A d \in Client \ {c} : pipe'[d] = pipe[d]
  <2> SUFFICES ASSUME NEW d \in Client \ {c} PROVE pipe'[d] = pipe[d]
    OBVIOUS
  <2>1. d \in Pipe /\ c # Session(d) /\ c # Server /\ KeptInv(d)
    BY Threads, OwnFacts
  <2>2. c \notin Ends(pipe[d])
    BY <2>1 DEF KeptInv
  <2> QED BY <1>3, <2>1, <2>2, CloseKept DEF KeptInv
<1>5. A'.data \in {A.data, <<>>} /\ A'.reading \subseteq A.reading
  BY <1>3, Names, CloseFacts DEF A
<1>6. StatusInv'
  <2>1. \A d \in Client : cl[d].pc \in {"statusRead", "dead"} => cl'[d].pc \in {"statusRead", "dead"}
    BY <1>2
  <2> QED BY <1>1, <1>5, <2>1, SenderKnown, StatusKept DEF LinkInv
<1>7. KeptInv(c) /\ OpenInv(c) /\ ForInv(c) /\ c \in Pipe
  BY OwnFacts
<1>8. OwnInv(c)'
  <2>1. PICK q : q = pipe'[c] /\ q = Close(pipe[c], c) /\ pipe[c] \in APipe
    BY <1>3, <1>7
  <2>2. /\ q.data \in {pipe[c].data, <<>>} /\ q.writers = pipe[c].writers \ {c}
        /\ q.opening = pipe[c].opening \ {c} /\ q.reading = pipe[c].reading \ {c}
    BY <2>1, CloseFacts
  <2>3. q.data # <<>> => Ends(q) # {}
    BY <2>1, CloseKept
  <2>4. KeptInv(c)' /\ OpenInv(c)'
    BY <1>1, <1>2, <1>7, <2>1, <2>2, <2>3 DEF KeptInv, OpenInv, Ends
  <2>5. ForInv(c)' /\ TrustInv(c)'
    BY <1>1, <1>2, <1>7, <2>1, <2>2 DEF ForInv, TrustInv
  <2> QED BY <2>4, <2>5 DEF OwnInv
<1>9. Step(c)
  <2>1. PlaceOf(c)' = "away" /\ ReplyOf(c)' = "none" /\ SessionOf(c)' = SessionOf(c)
    BY <1>1, <1>2 DEF PlaceOf, ReplyOf, SessionOf
  <2>2. PlaceOf(c) = "away" => ReplyOf(c) = "none"
    BY DEF ReplyOf
  <2> QED BY <1>1, <2>1, <2>2 DEF Step, Still
<1> QED BY <1>1, <1>2, <1>4, <1>5, <1>6, <1>8, <1>9, OthersGood DEF Unsigned, EarlyInv, Early,
             Starting

-----------------------------------------------------------------------------
(* Steps of a client that starts.                                          *)
LEMMA StartGood ==
  ASSUME FifoInv, LinkInv, OnlyClient, NEW c \in Client,
         \A d \in Client : pipe'[d] = pipe[d], \A d \in Client \ {c} : cl'[d] = cl[d],
         cl[c].pc \in Early, cl'[c].pc \in Early \cup {"send", "ended"},
         cl'[c].done = cl[c].done, cl'[c].closeFlag = cl[c].closeFlag
  PROVE  /\ \A d \in Client : OwnInv(d)' /\ EarlyInv(d)' /\ Still(d)
         /\ UseInv'
         /\ (/\ cl'[c].pc \in Unsigned => cl[c].pc \in Unsigned
             /\ A'.data \in {A.data, <<>>}
             /\ (srv.pc = "up" /\ A.data # <<>> /\ Acceptor \in A'.reading) =>
                  Acceptor \in A.reading
             /\ cl[c].pc = "statusRead" => A'.data = <<>>) => Good
<1>1. use' = use /\ acc' = acc /\ ses' = ses /\ srv' = srv /\ Trusted' = Trusted
  BY DEF OnlyClient, Trusted
<1>2. KeptInv(c) /\ OpenInv(c) /\ ForInv(c) /\ EarlyInv(c) /\ TrustInv(c)
  BY OwnFacts
<1>3. OwnInv(c)'
  <2>1. KeptInv(c)' /\ OpenInv(c)' /\ ForInv(c)'
    BY <1>1, <1>2 DEF KeptInv, OpenInv, ForInv, Early, Starting
  <2>2. TrustInv(c)'
    BY <1>1, <1>2 DEF TrustInv, Outside, Done, Early, Starting
  <2> QED BY <2>1, <2>2 DEF OwnInv
<1>4. EarlyInv(c)' /\ Still(c)
  BY <1>1, <1>2 DEF EarlyInv, Still, PlaceOf, ReplyOf, SessionOf, Early, Starting
<1>5. UseInv'
  BY <1>1, UseKept DEF LinkInv
<1>6. \A d \in Client \ {c} : OwnInv(d)' /\ EarlyInv(d)' /\ Still(d)
  BY <1>1, SameKeeps DEF LinkInv, Part, Same, Pushes
<1>7. ASSUME cl'[c].pc \in Unsigned => cl[c].pc \in Unsigned, A'.data \in {A.data, <<>>},
             (srv.pc = "up" /\ A.data # <<>> /\ Acceptor \in A'.reading) =>
               Acceptor \in A.reading,
             cl[c].pc = "statusRead" => A'.data = <<>>
      PROVE  Good
  <2>1. \A d \in Client : (A'.data # <<>> /\ cl[d].pc \in {"statusRead", "dead"}) =>
                          cl'[d].pc \in {"statusRead", "dead"}
    BY <1>7 DEF Early, Starting
  <2>2. StatusInv'
    BY <1>1, <1>7, <2>1, SenderKnown, StatusKept DEF LinkInv
  <2> QED BY <1>3, <1>4, <1>7, <2>2, OthersGood DEF Step
<1> QED BY <1>3, <1>4, <1>5, <1>6, <1>7

LEMMA LockGood ==
  ASSUME FifoInv, LinkInv, NEW c \in Client, LockMutex(c)
  PROVE  Good
<1>1. OnlyClient /\ UNCHANGED pipe /\ A' = A
  BY DEF LockMutex, A
<1>2. /\ cl[c].pc \in {"start", "lock"} /\ cl'[c].pc \in {"lock", "sign"}
      /\ cl'[c].done = cl[c].done /\ cl'[c].closeFlag = cl[c].closeFlag
      /\ \A d \in Client \ {c} : cl'[d] = cl[d]
  <2>1. CASE /\ cl[c].pc = "start"
             /\ cl' = [cl EXCEPT ![c].pc = "lock", ![c].of = srv.named]
    <3> DEFINE r == [cl[c] EXCEPT !.pc = "lock", !.of = srv.named]
    <3>1. cl \in [Client -> ClientState] /\ cl' = [cl EXCEPT ![c] = r]
      BY <2>1, Types DEF FifoInv
    <3>2. r.pc = "lock" /\ r.done = cl[c].done /\ r.closeFlag = cl[c].closeFlag
      BY <3>1 DEF ClientState
    <3> HIDE DEF r
    <3> QED BY <2>1, <3>1, <3>2
  <2>2. CASE Goes(c, "lock", "sign")
    BY <2>2, MoveFacts DEF ClientPlace
  <2> QED BY <2>1, <2>2 DEF LockMutex
<1> QED BY <1>1, <1>2, StartGood DEF Early, Starting, Unsigned

(* When a client signs nothing is in the pipe of the acceptor.             *)
LEMMA NothingSigned ==
  ASSUME FifoInv, LinkInv, srv.pc = "up", \A d \in Client : ~Signed(d)
  PROVE  A.data = <<>>
<1>1. A.linked /\ A \in APipe /\ Len(A.data) \in Nat /\ A.data \in Seq(Message)
  BY Names, Messages, PipeParts DEF A, FifoInv, StartInv, ServerInv
<1>2. ASSUME NEW j \in 1 .. Len(A.data) PROVE FALSE
  <2>1. Current(A.data[j]) /\ A.data[j].id \in Client
    BY SenderKnown DEF FifoInv, StartInv, TokenInv
  <2>2. A.data[j].kind \in {"signature", "status"}
    BY DEF LinkInv, StatusInv
  <2> QED BY <1>1, <2>1, <2>2 DEF Current
<1>3. Len(A.data) = 0
  BY <1>1, <1>2
<1> QED BY <1>1, <1>3, EmptySeq

LEMMA SignGood ==
  ASSUME FifoInv, LinkInv, NEW c \in Client, SendSignature(c)
  PROVE  Good
<1> USE DEF Early, Starting, Unsigned
<1>0. /\ TypeOK /\ OnlyClient /\ A \in APipe /\ Acceptor \in Pipe /\ c \in Process
      /\ c # Acceptor /\ c # Server /\ UNCHANGED <<acc, ses, srv>>
  BY StartFacts DEF SendSignature, FifoInv, OnlyClient
<1>1. CASE /\ CanOpen(Acceptor) /\ Goes(c, "sign", "signWrite")
           /\ Does(Acceptor, OpenWrite(A, c))
  <2> DEFINE q == OpenWrite(A, c)
  <2>1. q \in APipe /\ q.data = A.data
    BY <1>0, OpenWriteFacts
  <2> HIDE DEF q
  <2>2. Sets(Acceptor, q) /\ A' = q
    BY <1>0, <1>1, <2>1, DoesFacts DEF Sets, A, q
  <2>3. /\ cl[c].pc = "sign" /\ cl'[c].pc = "signWrite" /\ cl'[c].done = cl[c].done
        /\ cl'[c].closeFlag = cl[c].closeFlag /\ \A d \in Client \ {c} : cl'[d] = cl[d]
    BY <1>1, MoveFacts DEF ClientPlace
  <2>4. \A d \in Client : ~Signed(d)
    BY <1>1, <2>3, SignAlone DEF CanOpen, A
  <2>5. srv.pc = "up" => A.data = <<>>
    BY <2>4, NothingSigned
  <2>6. \A d \in Client : pipe'[d] = pipe[d]
    BY <2>2, Threads DEF Sets
  <2> QED BY <1>0, <2>1, <2>2, <2>3, <2>5, <2>6, StartGood
<1>2. CASE Throws(c, "sign") /\ UNCHANGED pipe
  <2>1. /\ cl[c].pc = "sign" /\ cl'[c].pc = "ended" /\ cl'[c].done = cl[c].done
        /\ cl'[c].closeFlag = cl[c].closeFlag /\ \A d \in Client \ {c} : cl'[d] = cl[d]
    BY <1>2, MoveFacts DEF ClientPlace, Throws
  <2>2. A' = A
    BY <1>2 DEF A
  <2> QED BY <1>0, <1>2, <2>1, <2>2, StartGood
<1>3. CASE /\ Goes(c, "signWrite", "signClose")
           /\ Write(c, Acceptor, [kind |-> "signature", id |-> c, n |-> 0])
  <2> DEFINE m == [kind |-> "signature", id |-> c, n |-> 0]
             q == Put(A, m)
  <2>1. m \in Message /\ m.kind = "signature" /\ m.id = c
    BY UseFacts, <1>0 DEF Message
  <2>2. Does(Acceptor, q)
    BY <1>3 DEF Write, A
  <2> HIDE DEF m
  <2>3. q \in APipe /\ q.data = Append(A.data, m)
    BY <1>0, <2>1, PutFacts
  <2> HIDE DEF q
  <2>4. A' = q /\ \A d \in Client : pipe'[d] = pipe[d]
    BY <1>0, <2>2, <2>3, DoesFacts, Threads DEF Sets, A
  <2>5. /\ cl[c].pc = "signWrite" /\ cl'[c].pc = "signClose" /\ cl'[c].done = cl[c].done
        /\ cl'[c].closeFlag = cl[c].closeFlag /\ \A d \in Client \ {c} : cl'[d] = cl[d]
    BY <1>3, MoveFacts DEF ClientPlace
  <2>6. /\ \A d \in Client : OwnInv(d)' /\ EarlyInv(d)' /\ Still(d)
        /\ UseInv'
    BY <1>0, <2>4, <2>5, StartGood
  <2>7. Engaged(c) /\ \A d \in Client : ~Signed(d)
    BY <2>5, Unique DEF Engaged, Signed
  <2>8. A.data \in Seq(Message) /\ Len(A.data) \in Nat
    BY <1>0, PipeParts
  <2>9. StatusInv'
    <3>1. SUFFICES ASSUME srv'.pc = "up" PROVE
            Len(A'.data) <= 1 /\ \A j \in 1 .. Len(A'.data) : A'.data[j].kind = "signature"
      BY DEF StatusInv
    <3>2. A.data = <<>>
      BY <1>0, <2>7, <3>1, NothingSigned
    <3>3. A'.data = <<m>>
      BY <2>3, <2>4, <3>2
    <3>4. Len(A'.data) = 1 /\ A'.data[1] = m
      BY <3>3
    <3>5. \A j \in 1 .. 1 : A'.data[j].kind = "signature"
      BY <2>1, <3>4
    <3> QED BY <3>4, <3>5
  <2>10. ASSUME NEW d \in Client PROVE SignsOnce(d)'
    <3>1. SignsOnce(d)
      BY DEF LinkInv, Part
    <3>2. \A j \in 1 .. Len(A'.data) : A'.data[j] = m \/ (j \in 1 .. Len(A.data) /\ A'.data[j] = A.data[j])
      BY <2>1, <2>3, <2>4, <2>8, AppendProperties
    <3>3. Accepts(d)' <=> Accepts(d)
      BY <1>0 DEF Accepts
    <3>4. d = c => ses[c].pc = "none" /\ ~Accepts(c)
      BY <2>5, <3>1 DEF SignsOnce
    <3> QED BY <1>0, <2>1, <2>5, <3>1, <3>2, <3>3, <3>4 DEF SignsOnce
  <2> QED BY <1>0, <2>6, <2>9, <2>10, CombineStill DEF Part, OnlyClient
<1>4. CASE BrokenPipe(c, Acceptor) /\ Throws(c, "signWrite")
  <2>1. /\ cl[c].pc = "signWrite" /\ cl'[c].pc = "ended" /\ cl'[c].done = cl[c].done
        /\ cl'[c].closeFlag = cl[c].closeFlag /\ \A d \in Client \ {c} : cl'[d] = cl[d]
    BY <1>4, MoveFacts DEF ClientPlace, Throws
  <2>2. /\ A'.data \in {A.data, <<>>} /\ A'.reading \subseteq A.reading
        /\ \A d \in Client : pipe'[d] = pipe[d]
    BY <1>0, <1>4, ClosesFacts, Threads DEF BrokenPipe, A, Sets
  <2> QED BY <1>0, <2>1, <2>2, StartGood
<1>5. CASE Goes(c, "signClose", "status") /\ Closes(c, Acceptor)
  <2>1. /\ cl[c].pc = "signClose" /\ cl'[c].pc = "status" /\ cl'[c].done = cl[c].done
        /\ cl'[c].closeFlag = cl[c].closeFlag /\ \A d \in Client \ {c} : cl'[d] = cl[d]
    BY <1>5, MoveFacts DEF ClientPlace
  <2>2. /\ A'.data \in {A.data, <<>>} /\ A'.reading \subseteq A.reading
        /\ \A d \in Client : pipe'[d] = pipe[d]
    BY <1>0, <1>5, ClosesFacts, Threads DEF A, Sets
  <2> QED BY <1>0, <2>1, <2>2, StartGood
<1> HIDE DEF Early, Starting, Unsigned
<1> QED BY <1>1, <1>2, <1>3, <1>4, <1>5 DEF SendSignature, A

LEMMA ReceiveStatusGood ==
  ASSUME FifoInv, LinkInv, NEW c \in Client, ReceiveStatus(c)
  PROVE  Good
<1> USE DEF Early, Starting, Unsigned
<1>0. /\ TypeOK /\ OnlyClient /\ A \in APipe /\ Acceptor \in Pipe /\ c \in Process
      /\ c # Acceptor /\ UNCHANGED <<acc, ses, srv>>
  BY StartFacts DEF ReceiveStatus, FifoInv, OnlyClient
<1>1. CASE Goes(c, "status", "statusRead") /\ Does(Acceptor, OpenRead(A, c))
  <2> DEFINE q == OpenRead(A, c)
  <2>1. q \in APipe /\ q.data = A.data /\ q.reading \subseteq A.reading \cup {c}
    BY <1>0, OpenReadFacts
  <2> HIDE DEF q
  <2>2. Sets(Acceptor, q) /\ A' = q
    BY <1>0, <1>1, <2>1, DoesFacts DEF Sets, A, q
  <2>3. /\ cl[c].pc = "status" /\ cl'[c].pc = "statusRead" /\ cl'[c].done = cl[c].done
        /\ cl'[c].closeFlag = cl[c].closeFlag /\ \A d \in Client \ {c} : cl'[d] = cl[d]
    BY <1>1, MoveFacts DEF ClientPlace
  <2>4. \A d \in Client : pipe'[d] = pipe[d]
    BY <2>2, Threads DEF Sets
  <2> QED BY <1>0, <2>1, <2>2, <2>3, <2>4, StartGood
<1>2. CASE Throws(c, "status") /\ UNCHANGED pipe
  <2>1. /\ cl[c].pc = "status" /\ cl'[c].pc = "ended" /\ cl'[c].done = cl[c].done
        /\ cl'[c].closeFlag = cl[c].closeFlag /\ \A d \in Client \ {c} : cl'[d] = cl[d]
    BY <1>2, MoveFacts DEF ClientPlace, Throws
  <2>2. A' = A
    BY <1>2 DEF A
  <2> QED BY <1>0, <1>2, <2>1, <2>2, StartGood
<1>3. CASE /\ cl[c].pc = "statusRead" /\ HasRead(c, Acceptor)
           /\ cl' = [cl EXCEPT ![c].pc = "statusClose",
                               ![c].name = IF Head(A.data).kind = "status"
                                           THEN Head(A.data).id ELSE None]
  <2> DEFINE name == IF Head(A.data).kind = "status" THEN Head(A.data).id ELSE None
             r == [cl[c] EXCEPT !.pc = "statusClose", !.name = name]
  <2>1. Drain(A) \in APipe /\ Drain(A).data = <<>> /\ Drain(A).reading = A.reading
    BY <1>0, DrainFacts
  <2>2. A'.data = <<>> /\ A'.reading = A.reading /\ \A d \in Client : pipe'[d] = pipe[d]
    BY <1>0, <1>3, <2>1, DoesFacts, Threads DEF HasRead, A, Sets
  <2> HIDE DEF name
  <2>3. cl \in [Client -> ClientState] /\ cl' = [cl EXCEPT ![c] = r]
    BY <1>0, <1>3, Types DEF name
  <2>4. r.pc = "statusClose" /\ r.done = cl[c].done /\ r.closeFlag = cl[c].closeFlag
    BY <2>3 DEF ClientState
  <2> HIDE DEF r
  <2>5. /\ cl'[c].pc = "statusClose" /\ cl'[c].done = cl[c].done
        /\ cl'[c].closeFlag = cl[c].closeFlag /\ \A d \in Client \ {c} : cl'[d] = cl[d]
    BY <2>3, <2>4
  <2> QED BY <1>0, <1>3, <2>2, <2>5, StartGood
<1>4. CASE HasEnded(c, Acceptor) /\ Throws(c, "statusRead")
  <2>1. /\ cl[c].pc = "statusRead" /\ cl'[c].pc = "ended" /\ cl'[c].done = cl[c].done
        /\ cl'[c].closeFlag = cl[c].closeFlag /\ \A d \in Client \ {c} : cl'[d] = cl[d]
    BY <1>4, MoveFacts DEF ClientPlace, Throws
  <2>2. /\ A'.data \in {A.data, <<>>} /\ A'.reading \subseteq A.reading /\ A.data = <<>>
        /\ \A d \in Client : pipe'[d] = pipe[d]
    BY <1>0, <1>4, ClosesFacts, Threads DEF HasEnded, Closes, EndOfFile, A, Sets
  <2> QED BY <1>0, <2>1, <2>2, StartGood
<1>5. CASE \E to \in {"ended", "send"} : Goes(c, "statusClose", to) /\ Closes(c, Acceptor)
  <2>1. PICK to \in {"ended", "send"} : Goes(c, "statusClose", to) /\ Closes(c, Acceptor)
    BY <1>5
  <2>2. /\ cl[c].pc = "statusClose" /\ cl'[c].pc = to /\ cl'[c].done = cl[c].done
        /\ cl'[c].closeFlag = cl[c].closeFlag /\ \A d \in Client \ {c} : cl'[d] = cl[d]
    BY <2>1, MoveFacts DEF ClientPlace
  <2>3. /\ A'.data \in {A.data, <<>>} /\ A'.reading \subseteq A.reading
        /\ \A d \in Client : pipe'[d] = pipe[d]
    BY <1>0, <2>1, ClosesFacts, Threads DEF A, Sets
  <2> QED BY <1>0, <2>2, <2>3, StartGood
<1> HIDE DEF Early, Starting, Unsigned
<1> QED BY <1>1, <1>2, <1>3, <1>4, <1>5 DEF ReceiveStatus, A

-----------------------------------------------------------------------------
(* Steps of a session.                                                     *)
LEMMA TurnFacts ==
  ASSUME FifoInv, NEW c \in Client, NEW from, NEW to \in SessionPlace, SessionGoes(c, from, to)
  PROVE  /\ ses[c].pc = from /\ ses'[c].pc = to /\ ses'[c].stopped = ses[c].stopped
         /\ \A d \in Client \ {c} : ses'[d] = ses[d]
<1> DEFINE r == [ses[c] EXCEPT !.pc = to]
<1>1. ses \in [Client -> SessionState] /\ ses[c].pc = from /\ ses' = [ses EXCEPT ![c] = r]
  BY Types DEF SessionGoes, FifoInv
<1>2. r.pc = to /\ r.stopped = ses[c].stopped
  BY <1>1 DEF SessionState
<1> HIDE DEF r
<1> QED BY <1>1, <1>2

LEMMA TurnGood ==
  ASSUME FifoInv, LinkInv, NEW c \in Client, NEW q \in APipe, Sets(c, q), OnlySession,
         \A d \in Client \ {c} : ses'[d] = ses[d],
         ses[c].pc \notin {"none", "gone"}, ses'[c].pc # "none", ses'[c].stopped = ses[c].stopped,
         OwnInv(c)', Step(c)
  PROVE  Good
<1>1. A' = A /\ \A d \in Client \ {c} : pipe'[d] = pipe[d]
  BY Names DEF Sets, A
<1>2. UNCHANGED <<use, cl, acc, srv>>
  BY DEF OnlySession
<1>3. ASSUME NEW d \in Client \ {c} PROVE Part(d)' /\ Still(d)
  <2>1. OwnInv(d)' /\ EarlyInv(d)' /\ Still(d)
    BY <1>1, <1>2, SameKeeps DEF LinkInv, Part, Same, Pushes
  <2>2. SignsOnce(d)'
    BY <1>1, <1>2, SignsKept DEF LinkInv, Part, Accepts
  <2> QED BY <2>1, <2>2 DEF Part
<1>4. Part(c)'
  <2>1. SignsOnce(c)'
    BY <1>1, <1>2, SignsKept DEF LinkInv, Part, Accepts
  <2>2. EarlyInv(c)'
    BY <1>2 DEF LinkInv, Part, EarlyInv
  <2> QED BY <2>1, <2>2 DEF Part
<1>5. StatusInv'
  BY <1>1, <1>2, SenderKnown, StatusKept DEF LinkInv
<1>6. UseInv'
  BY <1>2, UseKept DEF LinkInv
<1> QED BY <1>2, <1>3, <1>4, <1>5, <1>6, Combine

(* What is in the pipe stays, or is lost on nobody who trusts.             *)
LEMMA TurnStep ==
  ASSUME NEW c \in Client, cl' = cl,
         ses[c].pc \notin {"none", "gone"}, ses'[c].pc \notin {"none", "gone"},
         \/ pipe'[c].data = pipe[c].data
         \/ PlaceOf(c) # "asking"
         \/ pipe'[c].data = <<>> /\ (c \notin Trusted \/ ReplyOf(c) # "given")
  PROVE  Step(c)
<1>1. PlaceOf(c)' = PlaceOf(c) /\ SessionOf(c)' = SessionOf(c)
  BY DEF PlaceOf, SessionOf
<1>2. CASE pipe'[c].data = pipe[c].data \/ PlaceOf(c) # "asking"
  <2>1. ReplyOf(c)' = ReplyOf(c)
    BY <1>1, <1>2 DEF ReplyOf
  <2> QED BY <1>1, <2>1 DEF Step, Still
<1>3. CASE PlaceOf(c) = "asking" /\ pipe'[c].data = <<>> /\ (c \notin Trusted \/ ReplyOf(c) # "given")
  <2>1. ReplyOf(c)' = "owed" /\ ReplyOf(c) \in {"given", "owed"}
    BY <1>1, <1>3 DEF ReplyOf
  <2> QED BY <1>1, <1>3, <2>1 DEF Step, Still
<1> QED BY <1>2, <1>3

LEMMA RunGood ==
  ASSUME FifoInv, LinkInv, NEW c \in Client, Run(c)
  PROVE  Good
<1>0. OnlySession /\ use' = use /\ cl' = cl /\ srv' = srv /\ acc' = acc /\ Trusted' = Trusted /\ TypeOK
  BY DEF Run, OnlySession, Trusted, FifoInv
<1>1. /\ c \in Pipe /\ pipe[c] \in APipe /\ StepInv(c) /\ KeptInv(c) /\ OpenInv(c)
      /\ ForInv(c) /\ TrustInv(c)
      /\ UNCHANGED pipe => Sets(c, pipe[c])
      /\ c \in Trusted => srv.pc = "up" /\ ~Late /\ ~ses[c].stopped
  BY OwnFacts, TrustedFacts, <1>0
<1>2. c # Server /\ Session(c) \in Process /\ Session(c) # c /\ Session(c) # Server
  BY Threads
<1>3. CASE SessionGoes(c, "queued", "run") /\ UNCHANGED pipe
  <2>4. /\ ses[c].pc = "queued" /\ ses'[c].pc = "run" /\ ses'[c].stopped = ses[c].stopped
        /\ \A d \in Client \ {c} : ses'[d] = ses[d]
    BY <1>3, TurnFacts DEF SessionPlace
  <2>6. OwnInv(c)'
    BY <1>0, <1>1, <1>2, <1>3, <2>4 DEF OwnInv, KeptInv, OpenInv, ForInv, TrustInv, Ends, Done,
         Outside, Answering, Early, Starting
  <2>7. Step(c)
    BY <1>0, <1>1, <1>2, <1>3, <2>4, TurnStep DEF PlaceOf
  <2> QED BY <1>0, <1>1, <1>2, <1>3, <2>4, <2>6, <2>7, TurnGood
<1>4. CASE \E to \in {"dtor", "loop"} : SessionGoes(c, "run", to) /\ UNCHANGED pipe
          /\ (to = "dtor" => ~pipe[c].linked \/ ses[c].stopped)
  <2>1. PICK to \in {"dtor", "loop"} : SessionGoes(c, "run", to) /\ UNCHANGED pipe
          /\ (to = "dtor" => ~pipe[c].linked \/ ses[c].stopped)
    BY <1>4
  <2>4. /\ ses[c].pc = "run" /\ ses'[c].pc = to /\ ses'[c].stopped = ses[c].stopped
        /\ \A d \in Client \ {c} : ses'[d] = ses[d]
    BY <2>1, TurnFacts DEF SessionPlace
  <2>6. OwnInv(c)'
    BY <1>0, <1>1, <1>2, <2>1, <2>4 DEF OwnInv, KeptInv, OpenInv, ForInv, TrustInv, Ends, Done,
         Outside, Answering, Early, Starting
  <2>7. Step(c)
    BY <1>0, <1>1, <1>2, <2>1, <2>4, TurnStep DEF PlaceOf
  <2> QED BY <1>0, <1>1, <1>2, <2>1, <2>4, <2>6, <2>7, TurnGood
<1> QED BY <1>0, <1>3, <1>4 DEF Run

LEMMA ReceiveRequestGood ==
  ASSUME FifoInv, LinkInv, NEW c \in Client, ReceiveRequest(c)
  PROVE  Good
<1>0. OnlySession /\ use' = use /\ cl' = cl /\ srv' = srv /\ acc' = acc /\ Trusted' = Trusted /\ TypeOK
  BY DEF ReceiveRequest, OnlySession, Trusted, FifoInv
<1>1. /\ c \in Pipe /\ pipe[c] \in APipe /\ StepInv(c) /\ KeptInv(c) /\ OpenInv(c)
      /\ ForInv(c) /\ TrustInv(c)
      /\ UNCHANGED pipe => Sets(c, pipe[c])
      /\ c \in Trusted => srv.pc = "up" /\ ~Late /\ ~ses[c].stopped
  BY OwnFacts, TrustedFacts, <1>0
<1>2. c # Server /\ Session(c) \in Process /\ Session(c) # c /\ Session(c) # Server
  BY Threads
<1>3. CASE \E to \in {"dtor", "open"} : SessionGoes(c, "loop", to) /\ UNCHANGED pipe
          /\ (to = "dtor" => ~pipe[c].linked \/ ses[c].stopped)
  <2>1. PICK to \in {"dtor", "open"} : SessionGoes(c, "loop", to) /\ UNCHANGED pipe
          /\ (to = "dtor" => ~pipe[c].linked \/ ses[c].stopped)
    BY <1>3
  <2>4. /\ ses[c].pc = "loop" /\ ses'[c].pc = to /\ ses'[c].stopped = ses[c].stopped
        /\ \A d \in Client \ {c} : ses'[d] = ses[d]
    BY <2>1, TurnFacts DEF SessionPlace
  <2>6. OwnInv(c)'
    BY <1>0, <1>1, <1>2, <2>1, <2>4 DEF OwnInv, KeptInv, OpenInv, ForInv, TrustInv, Ends, Done,
         Outside, Answering, Early, Starting
  <2>7. Step(c)
    BY <1>0, <1>1, <1>2, <2>1, <2>4, TurnStep DEF PlaceOf
  <2> QED BY <1>0, <1>1, <1>2, <2>1, <2>4, <2>6, <2>7, TurnGood
<1>4. CASE ~pipe[c].linked /\ SessionGoes(c, "open", "dtor") /\ UNCHANGED pipe
  <2>4. /\ ses[c].pc = "open" /\ ses'[c].pc = "dtor" /\ ses'[c].stopped = ses[c].stopped
        /\ \A d \in Client \ {c} : ses'[d] = ses[d]
    BY <1>4, TurnFacts DEF SessionPlace
  <2>6. OwnInv(c)'
    BY <1>0, <1>1, <1>2, <1>4, <2>4 DEF OwnInv, KeptInv, OpenInv, ForInv, TrustInv, Ends, Done,
         Outside, Answering, Early, Starting
  <2>7. Step(c)
    BY <1>0, <1>1, <1>2, <1>4, <2>4, TurnStep DEF PlaceOf
  <2> QED BY <1>0, <1>1, <1>2, <1>4, <2>4, <2>6, <2>7, TurnGood
<1>5. CASE SessionGoes(c, "open", "read") /\ Does(c, OpenRead(pipe[c], Session(c)))
  <2> DEFINE q == OpenRead(pipe[c], Session(c))
  <2>2. /\ q \in APipe /\ q.data = pipe[c].data /\ q.linked = pipe[c].linked
        /\ q.writers = pipe[c].writers
        /\ q.opening \cup q.reading = pipe[c].opening \cup pipe[c].reading \cup {Session(c)}
        /\ q.reading \subseteq pipe[c].reading \cup {Session(c)} /\ pipe[c].reading \subseteq q.reading
        /\ pipe[c].writers = {} => q.reading = pipe[c].reading
    BY <1>1, <1>2, OpenReadFacts
  <2> HIDE DEF q
  <2>3. Sets(c, q) /\ pipe'[c] = q
    BY <1>0, <1>1, <1>5, <2>2, DoesFacts DEF Sets, q
  <2>4. /\ ses[c].pc = "open" /\ ses'[c].pc = "read" /\ ses'[c].stopped = ses[c].stopped
        /\ \A d \in Client \ {c} : ses'[d] = ses[d]
    BY <1>5, TurnFacts DEF SessionPlace
  <2>5. srv.pc = "up" /\ cl[c].pc \notin {"sendWrite", "sendClose", "exitClose", "dtorClose"} => pipe[c].writers = {}
    BY <1>0, <1>1, <1>2, <1>5, <2>2, <2>3, <2>4 DEF OpenInv, KeptInv, Ends
  <2>6. OwnInv(c)'
    <3>1. KeptInv(c)'
      BY <1>0, <1>1, <1>2, <1>5, <2>2, <2>3, <2>4, <2>5 DEF KeptInv, Ends
    <3>2. OpenInv(c)'
      BY <1>0, <1>1, <1>2, <1>5, <2>2, <2>3, <2>4, <2>5 DEF OpenInv, KeptInv, Ends
    <3>3. ForInv(c)'
      BY <1>0, <1>1, <1>2, <1>5, <2>2, <2>3, <2>4, <2>5 DEF ForInv, OpenInv, KeptInv, Ends
    <3>4. TrustInv(c)'
      BY <1>0, <1>1, <1>2, <1>5, <2>2, <2>3, <2>4, <2>5 DEF TrustInv, OpenInv, KeptInv, Ends,
           Done, Outside, Answering, Early, Starting
    <3> QED BY <3>1, <3>2, <3>3, <3>4 DEF OwnInv
  <2>7. Step(c)
    BY <1>0, <1>1, <1>2, <1>5, <2>2, <2>3, <2>4, <2>5, TurnStep DEF PlaceOf
  <2> QED BY <1>0, <1>1, <1>2, <1>5, <2>2, <2>3, <2>4, <2>5, <2>6, <2>7, TurnGood
<1>6. CASE /\ ses[c].pc = "read" /\ HasRead(Session(c), c)
           /\ ses' = [ses EXCEPT ![c].pc = "close", ![c].n = Head(pipe[c].data).n]
  <2> DEFINE q == Drain(pipe[c])
  <2>2. /\ q \in APipe /\ q.data = <<>> /\ q.linked = pipe[c].linked
        /\ q.writers = pipe[c].writers /\ q.opening = pipe[c].opening
        /\ q.reading = pipe[c].reading
    BY <1>1, <1>2, DrainFacts
  <2> HIDE DEF q
  <2>3. Sets(c, q) /\ pipe'[c] = q
    BY <1>0, <1>1, <1>6, <2>2, DoesFacts DEF Sets, q, HasRead
  <2>4. /\ ses[c].pc = "read" /\ ses'[c].pc = "close" /\ ses'[c].stopped = ses[c].stopped
        /\ \A d \in Client \ {c} : ses'[d] = ses[d]
    <3> DEFINE k == Head(pipe[c].data).n
               r == [ses[c] EXCEPT !.pc = "close", !.n = k]
    <3>1. ses \in [Client -> SessionState] /\ ses' = [ses EXCEPT ![c] = r]
      BY <1>0, <1>6, Types
    <3> HIDE DEF k
    <3>2. r.pc = "close" /\ r.stopped = ses[c].stopped
      BY <3>1 DEF SessionState
    <3> HIDE DEF r
    <3> QED BY <1>6, <3>1, <3>2
  <2>5. /\ Session(c) \in pipe[c].reading /\ pipe[c].data # <<>> /\ cl[c].pc \in Waiting
        /\ srv.pc = "up" => Len(pipe[c].data) = 1 /\ pipe[c].data[1].kind # "reply"
    BY <1>0, <1>1, <1>2, <1>6, <2>2, <2>3, <2>4 DEF HasRead, StepInv, ForInv
  <2>6. OwnInv(c)'
    <3>1. KeptInv(c)'
      BY <1>0, <1>1, <1>2, <1>6, <2>2, <2>3, <2>4, <2>5 DEF KeptInv, Ends, Waiting
    <3>2. OpenInv(c)'
      BY <1>0, <1>1, <1>2, <1>6, <2>2, <2>3, <2>4, <2>5 DEF OpenInv, KeptInv, Ends, Waiting
    <3>3. ForInv(c)'
      BY <1>0, <1>1, <1>2, <1>6, <2>2, <2>3, <2>4, <2>5 DEF ForInv, OpenInv, KeptInv, Ends, Waiting
    <3>4. TrustInv(c)'
      BY <1>0, <1>1, <1>2, <1>6, <2>2, <2>3, <2>4, <2>5 DEF TrustInv, OpenInv, KeptInv, Ends,
           Done, Outside, Answering, Early, Starting, Waiting
    <3> QED BY <3>1, <3>2, <3>3, <3>4 DEF OwnInv
  <2>7. Step(c)
    <3>1. c \in Trusted => \A k \in DOMAIN pipe[c].data : k = 1
      BY <1>1, <2>5, PipeParts
    <3>2. c \in Trusted => ReplyOf(c) # "given"
      BY <1>1, <2>5, <3>1 DEF ReplyOf
    <3> QED BY <1>0, <2>2, <2>3, <2>4, <3>2, TurnStep
  <2> QED BY <1>0, <1>1, <1>2, <1>6, <2>2, <2>3, <2>4, <2>5, <2>6, <2>7, TurnGood
<1>7. CASE SessionGoes(c, "read", "dtor") /\ HasEnded(Session(c), c)
  <2> DEFINE q == pipe'[c]
  <2>2. /\ Sets(c, q) /\ q \in APipe /\ q.data \in {pipe[c].data, <<>>} /\ q.linked = pipe[c].linked
        /\ q.writers = pipe[c].writers \ {Session(c)} /\ q.opening = pipe[c].opening \ {Session(c)}
        /\ q.reading = pipe[c].reading \ {Session(c)}
        /\ Ends(q) = Ends(pipe[c]) \ {Session(c)} /\ (q.data # <<>> => Ends(q) # {})
        /\ Ends(q) # {} => q.data = pipe[c].data
    BY <1>0, <1>1, <1>7, ClosesFacts DEF HasEnded, Closes
  <2> HIDE DEF q
  <2>3. pipe'[c] = q
    BY DEF q
  <2>4. /\ ses[c].pc = "read" /\ ses'[c].pc = "dtor" /\ ses'[c].stopped = ses[c].stopped
        /\ \A d \in Client \ {c} : ses'[d] = ses[d]
    BY <1>7, TurnFacts DEF SessionPlace
  <2>5. (c \in Trusted => cl[c].pc \in Done) /\ pipe[c].data = <<>>
    BY <1>0, <1>1, <1>2, <1>7, <2>2, <2>3, <2>4 DEF HasEnded, EndOfFile, TrustInv, Outside,
         Answering, Done, Early, Starting, ClientPlace, TypeOK
  <2>6. OwnInv(c)'
    <3>1. KeptInv(c)'
      BY <1>0, <1>1, <1>2, <1>7, <2>2, <2>3, <2>4, <2>5 DEF KeptInv, Ends
    <3>2. OpenInv(c)'
      BY <1>0, <1>1, <1>2, <1>7, <2>2, <2>3, <2>4, <2>5 DEF OpenInv, KeptInv, Ends
    <3>3. ForInv(c)'
      BY <1>0, <1>1, <1>2, <1>7, <2>2, <2>3, <2>4, <2>5 DEF ForInv, OpenInv, KeptInv, Ends
    <3>4. TrustInv(c)'
      BY <1>0, <1>1, <1>2, <1>7, <2>2, <2>3, <2>4, <2>5 DEF TrustInv, OpenInv, KeptInv, Ends,
           Done, Outside, Answering, Early, Starting
    <3> QED BY <3>1, <3>2, <3>3, <3>4 DEF OwnInv
  <2>7. Step(c)
    BY <1>0, <1>1, <1>2, <1>7, <2>2, <2>3, <2>4, <2>5, TurnStep DEF PlaceOf
  <2> QED BY <1>0, <1>1, <1>2, <1>7, <2>2, <2>3, <2>4, <2>5, <2>6, <2>7, TurnGood
<1>8. CASE SessionGoes(c, "close", "task") /\ Closes(Session(c), c)
  <2> DEFINE q == pipe'[c]
  <2>2. /\ Sets(c, q) /\ q \in APipe /\ q.data \in {pipe[c].data, <<>>} /\ q.linked = pipe[c].linked
        /\ q.writers = pipe[c].writers \ {Session(c)} /\ q.opening = pipe[c].opening \ {Session(c)}
        /\ q.reading = pipe[c].reading \ {Session(c)}
        /\ Ends(q) = Ends(pipe[c]) \ {Session(c)} /\ (q.data # <<>> => Ends(q) # {})
        /\ Ends(q) # {} => q.data = pipe[c].data
    BY <1>0, <1>1, <1>8, ClosesFacts
  <2> HIDE DEF q
  <2>3. pipe'[c] = q
    BY DEF q
  <2>4. /\ ses[c].pc = "close" /\ ses'[c].pc = "task" /\ ses'[c].stopped = ses[c].stopped
        /\ \A d \in Client \ {c} : ses'[d] = ses[d]
    BY <1>8, TurnFacts DEF SessionPlace
  <2>5. pipe[c].data = <<>>
    BY <1>0, <1>1, <1>2, <1>8, <2>2, <2>3, <2>4 DEF StepInv, Holding, Held
  <2>6. OwnInv(c)'
    <3>1. KeptInv(c)'
      BY <1>0, <1>1, <1>2, <1>8, <2>2, <2>3, <2>4, <2>5 DEF KeptInv, Ends
    <3>2. OpenInv(c)'
      BY <1>0, <1>1, <1>2, <1>8, <2>2, <2>3, <2>4, <2>5 DEF OpenInv, KeptInv, Ends
    <3>3. ForInv(c)'
      BY <1>0, <1>1, <1>2, <1>8, <2>2, <2>3, <2>4, <2>5 DEF ForInv, OpenInv, KeptInv, Ends
    <3>4. TrustInv(c)'
      BY <1>0, <1>1, <1>2, <1>8, <2>2, <2>3, <2>4, <2>5 DEF TrustInv, OpenInv, KeptInv, Ends,
           Done, Outside, Answering, Early, Starting
    <3> QED BY <3>1, <3>2, <3>3, <3>4 DEF OwnInv
  <2>7. Step(c)
    BY <1>0, <1>1, <1>2, <1>8, <2>2, <2>3, <2>4, <2>5, TurnStep DEF PlaceOf
  <2> QED BY <1>0, <1>1, <1>2, <1>8, <2>2, <2>3, <2>4, <2>5, <2>6, <2>7, TurnGood
<1>9. CASE SessionGoes(c, "task", "reply") /\ UNCHANGED pipe
  <2>4. /\ ses[c].pc = "task" /\ ses'[c].pc = "reply" /\ ses'[c].stopped = ses[c].stopped
        /\ \A d \in Client \ {c} : ses'[d] = ses[d]
    BY <1>9, TurnFacts DEF SessionPlace
  <2>6. OwnInv(c)'
    BY <1>0, <1>1, <1>2, <1>9, <2>4 DEF OwnInv, KeptInv, OpenInv, ForInv, TrustInv, Ends, Done,
         Outside, Answering, Early, Starting
  <2>7. Step(c)
    BY <1>0, <1>1, <1>2, <1>9, <2>4, TurnStep DEF PlaceOf
  <2> QED BY <1>0, <1>1, <1>2, <1>9, <2>4, <2>6, <2>7, TurnGood
<1> QED BY <1>0, <1>3, <1>4, <1>5, <1>6, <1>7, <1>8, <1>9 DEF ReceiveRequest

LEMMA SendResponseGood ==
  ASSUME FifoInv, LinkInv, NEW c \in Client, SendResponse(c)
  PROVE  Good
<1>0. OnlySession /\ use' = use /\ cl' = cl /\ srv' = srv /\ acc' = acc /\ Trusted' = Trusted /\ TypeOK
  BY DEF SendResponse, OnlySession, Trusted, FifoInv
<1>1. /\ c \in Pipe /\ pipe[c] \in APipe /\ StepInv(c) /\ KeptInv(c) /\ OpenInv(c)
      /\ ForInv(c) /\ TrustInv(c)
      /\ UNCHANGED pipe => Sets(c, pipe[c])
      /\ c \in Trusted => srv.pc = "up" /\ ~Late /\ ~ses[c].stopped
  BY OwnFacts, TrustedFacts, <1>0
<1>2. c # Server /\ Session(c) \in Process /\ Session(c) # c /\ Session(c) # Server
  BY Threads
<1>3. CASE \E to \in {"dtor", "replyOpen"} : SessionGoes(c, "reply", to) /\ UNCHANGED pipe
          /\ (to = "dtor" => ~pipe[c].linked)
  <2>1. PICK to \in {"dtor", "replyOpen"} : SessionGoes(c, "reply", to) /\ UNCHANGED pipe
          /\ (to = "dtor" => ~pipe[c].linked)
    BY <1>3
  <2>4. /\ ses[c].pc = "reply" /\ ses'[c].pc = to /\ ses'[c].stopped = ses[c].stopped
        /\ \A d \in Client \ {c} : ses'[d] = ses[d]
    BY <2>1, TurnFacts DEF SessionPlace
  <2>6. OwnInv(c)'
    BY <1>0, <1>1, <1>2, <2>1, <2>4 DEF OwnInv, KeptInv, OpenInv, ForInv, TrustInv, Ends, Done,
         Outside, Answering, Early, Starting
  <2>7. Step(c)
    BY <1>0, <1>1, <1>2, <2>1, <2>4, TurnStep DEF PlaceOf
  <2> QED BY <1>0, <1>1, <1>2, <2>1, <2>4, <2>6, <2>7, TurnGood
<1>4. CASE CanOpen(c) /\ SessionGoes(c, "replyOpen", "replyWrite") /\ Does(c, OpenWrite(pipe[c], Session(c)))
  <2> DEFINE q == OpenWrite(pipe[c], Session(c))
  <2>2. /\ q \in APipe /\ q.data = pipe[c].data /\ q.linked = pipe[c].linked
        /\ q.writers = pipe[c].writers \cup {Session(c)} /\ q.opening = {}
        /\ q.reading = pipe[c].opening \cup pipe[c].reading
    BY <1>1, <1>2, OpenWriteFacts
  <2> HIDE DEF q
  <2>3. Sets(c, q) /\ pipe'[c] = q
    BY <1>0, <1>1, <1>4, <2>2, DoesFacts DEF Sets, q
  <2>4. /\ ses[c].pc = "replyOpen" /\ ses'[c].pc = "replyWrite" /\ ses'[c].stopped = ses[c].stopped
        /\ \A d \in Client \ {c} : ses'[d] = ses[d]
    BY <1>4, TurnFacts DEF SessionPlace
  <2>5. /\ pipe[c].data = <<>> /\ cl[c].pc \in Waiting
        /\ srv.pc = "up" => c \in pipe[c].opening \cup pipe[c].reading /\ cl[c].pc = "recvRead"
    BY <1>0, <1>1, <1>2, <1>4, <2>2, <2>3, <2>4 DEF StepInv, Holding, Held, Waiting, Done,
         CanOpen, HasReader, OpenInv, KeptInv, Ends
  <2>6. OwnInv(c)'
    <3>1. KeptInv(c)'
      BY <1>0, <1>1, <1>2, <1>4, <2>2, <2>3, <2>4, <2>5 DEF KeptInv, Ends
    <3>2. OpenInv(c)'
      BY <1>0, <1>1, <1>2, <1>4, <2>2, <2>3, <2>4, <2>5 DEF OpenInv, KeptInv, Ends
    <3>3. ForInv(c)'
      BY <1>0, <1>1, <1>2, <1>4, <2>2, <2>3, <2>4, <2>5 DEF ForInv, OpenInv, KeptInv, Ends
    <3>4. TrustInv(c)'
      BY <1>0, <1>1, <1>2, <1>4, <2>2, <2>3, <2>4, <2>5 DEF TrustInv, OpenInv, KeptInv, Ends,
           Done, Outside, Answering, Early, Starting
    <3> QED BY <3>1, <3>2, <3>3, <3>4 DEF OwnInv
  <2>7. Step(c)
    BY <1>0, <1>1, <1>2, <1>4, <2>2, <2>3, <2>4, <2>5, TurnStep DEF PlaceOf
  <2> QED BY <1>0, <1>1, <1>2, <1>4, <2>2, <2>3, <2>4, <2>5, <2>6, <2>7, TurnGood
<1>5. CASE CannotOpen(Session(c), c) /\ SessionGoes(c, "replyOpen", "dtor") /\ UNCHANGED pipe
  <2>4. /\ ses[c].pc = "replyOpen" /\ ses'[c].pc = "dtor" /\ ses'[c].stopped = ses[c].stopped
        /\ \A d \in Client \ {c} : ses'[d] = ses[d]
    BY <1>5, TurnFacts DEF SessionPlace
  <2>5. c \in Trusted => cl[c].pc \in Done
    <3> SUFFICES ASSUME c \in Trusted, cl[c].pc \notin Done PROVE FALSE
      OBVIOUS
    <3>1. pipe[c].linked /\ cl[c].pc \in {"sendClose", "recv", "recvRead"}
      BY <1>1, <2>4, OwnFacts DEF TrustInv, Outside, Early, Starting, Done, ClientPlace
    <3>2. ~HasReader(pipe[c]) /\ Coming(c) \ {Session(c)} = {}
      BY <1>1, <1>5, <3>1 DEF CannotOpen, OutOfAttempts
    <3>3. cl[c].pc = "recvRead" => c \in pipe[c].opening
      BY <1>1, <2>4, <3>2 DEF TrustInv, HasReader
    <3>4. cl[c].pc \in {"sendClose", "recv"} => c \in Coming(c)
      BY OwnFacts DEF Talking, Coming
    <3> QED BY <1>2, <3>1, <3>2, <3>3, <3>4 DEF HasReader
  <2>6. OwnInv(c)'
    <3>1. KeptInv(c)'
      BY <1>0, <1>1, <1>2, <1>5, <2>4, <2>5 DEF KeptInv, Ends
    <3>2. OpenInv(c)'
      BY <1>0, <1>1, <1>2, <1>5, <2>4, <2>5 DEF OpenInv, KeptInv, Ends
    <3>3. ForInv(c)'
      BY <1>0, <1>1, <1>2, <1>5, <2>4, <2>5 DEF ForInv, OpenInv, KeptInv, Ends
    <3>4. TrustInv(c)'
      BY <1>0, <1>1, <1>2, <1>5, <2>4, <2>5 DEF TrustInv, OpenInv, KeptInv, Ends, Done, Outside,
           Answering, Early, Starting
    <3> QED BY <3>1, <3>2, <3>3, <3>4 DEF OwnInv
  <2>7. Step(c)
    BY <1>0, <1>1, <1>2, <1>5, <2>4, <2>5, TurnStep DEF PlaceOf
  <2> QED BY <1>0, <1>1, <1>2, <1>5, <2>4, <2>5, <2>6, <2>7, TurnGood
<1>6. CASE /\ SessionGoes(c, "replyWrite", "replyClose")
           /\ Write(Session(c), c, [kind |-> "reply", id |-> c, n |-> ses[c].n])
  <2> DEFINE m == [kind |-> "reply", id |-> c, n |-> ses[c].n]
             q == Put(pipe[c], m)
  <2>1. m \in Message /\ m.kind = "reply" /\ m.id = c
    BY <1>0, Types DEF Message, SessionState
  <2> HIDE DEF m
  <2>2. /\ q \in APipe /\ q.data = Append(pipe[c].data, m) /\ q.linked = pipe[c].linked
        /\ q.writers = pipe[c].writers /\ q.opening = pipe[c].opening
        /\ q.reading = pipe[c].reading
    BY <1>1, <2>1, PutFacts
  <2> HIDE DEF q
  <2>3. Sets(c, q) /\ pipe'[c] = q /\ pipe[c].opening \cup pipe[c].reading # {}
    BY <1>0, <1>1, <1>6, <2>2, DoesFacts DEF Sets, q, m, Write, HasReader
  <2>4. /\ ses[c].pc = "replyWrite" /\ ses'[c].pc = "replyClose" /\ ses'[c].stopped = ses[c].stopped
        /\ \A d \in Client \ {c} : ses'[d] = ses[d]
    BY <1>6, TurnFacts DEF SessionPlace
  <2>5. /\ pipe[c].data = <<>> /\ cl[c].pc \in Waiting
        /\ srv.pc = "up" => c \in pipe[c].opening \cup pipe[c].reading /\ cl[c].pc = "recvRead"
    BY <1>0, <1>1, <1>2, <2>3, <2>4 DEF StepInv, Holding, Held, Waiting, Done, OpenInv, KeptInv,
         Ends
  <2>8. q.data = <<m>> /\ Len(q.data) = 1 /\ q.data[1] = m /\ q.data # <<>>
    BY <2>1, <2>2, <2>5
  <2>6. OwnInv(c)'
    <3>1. KeptInv(c)'
      BY <1>0, <1>1, <1>2, <2>1, <2>2, <2>3, <2>4, <2>5, <2>8 DEF KeptInv, Ends
    <3>2. OpenInv(c)'
      BY <1>0, <1>1, <1>2, <2>1, <2>2, <2>3, <2>4, <2>5, <2>8 DEF OpenInv, KeptInv, Ends
    <3>3. ForInv(c)'
      BY <1>0, <1>1, <1>2, <2>1, <2>2, <2>3, <2>4, <2>5, <2>8 DEF ForInv, OpenInv, KeptInv, Ends
    <3>4. TrustInv(c)'
      BY <1>0, <1>1, <1>2, <2>1, <2>2, <2>3, <2>4, <2>5, <2>8 DEF TrustInv, OpenInv, KeptInv,
           Ends, Done, Outside, Answering, Early, Starting
    <3> QED BY <3>1, <3>2, <3>3, <3>4 DEF OwnInv
  <2>7. Step(c)
    <3>1. PlaceOf(c)' = PlaceOf(c) /\ SessionOf(c) = "open" /\ SessionOf(c)' = "open"
      BY <1>0, <2>4 DEF PlaceOf, SessionOf
    <3>2. PlaceOf(c) # "asking" => ReplyOf(c)' = ReplyOf(c)
      BY <3>1 DEF ReplyOf
    <3>3. PlaceOf(c) = "asking" => ReplyOf(c) = "owed" /\ ReplyOf(c)' = "given"
      BY <2>1, <2>3, <2>5, <2>8, <3>1 DEF ReplyOf
    <3> QED BY <3>1, <3>2, <3>3 DEF Step, Still
  <2> QED BY <1>0, <1>1, <2>2, <2>3, <2>4, <2>6, <2>7, TurnGood
<1>7. CASE SessionGoes(c, "replyWrite", "dtor") /\ BrokenPipe(Session(c), c)
  <2> DEFINE q == pipe'[c]
  <2>2. /\ Sets(c, q) /\ q \in APipe /\ q.data \in {pipe[c].data, <<>>} /\ q.linked = pipe[c].linked
        /\ q.writers = pipe[c].writers \ {Session(c)} /\ q.opening = pipe[c].opening \ {Session(c)}
        /\ q.reading = pipe[c].reading \ {Session(c)}
        /\ Ends(q) = Ends(pipe[c]) \ {Session(c)} /\ (q.data # <<>> => Ends(q) # {})
        /\ Ends(q) # {} => q.data = pipe[c].data
    BY <1>0, <1>1, <1>7, ClosesFacts DEF BrokenPipe
  <2> HIDE DEF q
  <2>3. pipe'[c] = q
    BY DEF q
  <2>4. /\ ses[c].pc = "replyWrite" /\ ses'[c].pc = "dtor" /\ ses'[c].stopped = ses[c].stopped
        /\ \A d \in Client \ {c} : ses'[d] = ses[d]
    BY <1>7, TurnFacts DEF SessionPlace
  <2>5. (c \in Trusted => cl[c].pc \in Done) /\ pipe[c].data = <<>>
    BY <1>0, <1>1, <1>2, <1>7, <2>2, <2>3, <2>4 DEF StepInv, Holding, Held, BrokenPipe,
         HasReader, TrustInv, Outside, Answering, Done, Early, Starting, ClientPlace, TypeOK
  <2>6. OwnInv(c)'
    <3>1. KeptInv(c)'
      BY <1>0, <1>1, <1>2, <1>7, <2>2, <2>3, <2>4, <2>5 DEF KeptInv, Ends
    <3>2. OpenInv(c)'
      BY <1>0, <1>1, <1>2, <1>7, <2>2, <2>3, <2>4, <2>5 DEF OpenInv, KeptInv, Ends
    <3>3. ForInv(c)'
      BY <1>0, <1>1, <1>2, <1>7, <2>2, <2>3, <2>4, <2>5 DEF ForInv, OpenInv, KeptInv, Ends
    <3>4. TrustInv(c)'
      BY <1>0, <1>1, <1>2, <1>7, <2>2, <2>3, <2>4, <2>5 DEF TrustInv, OpenInv, KeptInv, Ends,
           Done, Outside, Answering, Early, Starting
    <3> QED BY <3>1, <3>2, <3>3, <3>4 DEF OwnInv
  <2>7. Step(c)
    BY <1>0, <1>1, <1>2, <1>7, <2>2, <2>3, <2>4, <2>5, TurnStep DEF PlaceOf
  <2> QED BY <1>0, <1>1, <1>2, <1>7, <2>2, <2>3, <2>4, <2>5, <2>6, <2>7, TurnGood
<1>8. CASE SessionGoes(c, "replyClose", "loop") /\ Closes(Session(c), c)
  <2> DEFINE q == pipe'[c]
  <2>2. /\ Sets(c, q) /\ q \in APipe /\ q.data \in {pipe[c].data, <<>>} /\ q.linked = pipe[c].linked
        /\ q.writers = pipe[c].writers \ {Session(c)} /\ q.opening = pipe[c].opening \ {Session(c)}
        /\ q.reading = pipe[c].reading \ {Session(c)}
        /\ Ends(q) = Ends(pipe[c]) \ {Session(c)} /\ (q.data # <<>> => Ends(q) # {})
        /\ Ends(q) # {} => q.data = pipe[c].data
    BY <1>0, <1>1, <1>8, ClosesFacts
  <2> HIDE DEF q
  <2>3. pipe'[c] = q
    BY DEF q
  <2>4. /\ ses[c].pc = "replyClose" /\ ses'[c].pc = "loop" /\ ses'[c].stopped = ses[c].stopped
        /\ \A d \in Client \ {c} : ses'[d] = ses[d]
    BY <1>8, TurnFacts DEF SessionPlace
  <2>5. c \in Trusted /\ cl[c].pc = "recvRead" => q.data = pipe[c].data
    BY <1>0, <1>1, <1>2, <1>8, <2>2, <2>3, <2>4 DEF TrustInv, Answering, Ends
  <2>6. OwnInv(c)'
    <3>1. KeptInv(c)'
      BY <1>0, <1>1, <1>2, <1>8, <2>2, <2>3, <2>4, <2>5 DEF KeptInv, Ends
    <3>2. OpenInv(c)'
      BY <1>0, <1>1, <1>2, <1>8, <2>2, <2>3, <2>4, <2>5 DEF OpenInv, KeptInv, Ends
    <3>3. ForInv(c)'
      BY <1>0, <1>1, <1>2, <1>8, <2>2, <2>3, <2>4, <2>5 DEF ForInv, OpenInv, KeptInv, Ends
    <3>4. TrustInv(c)'
      BY <1>0, <1>1, <1>2, <1>8, <2>2, <2>3, <2>4, <2>5 DEF TrustInv, OpenInv, KeptInv, Ends,
           Done, Outside, Answering, Early, Starting
    <3> QED BY <3>1, <3>2, <3>3, <3>4 DEF OwnInv
  <2>7. Step(c)
    <3>1. c \in Trusted /\ PlaceOf(c) = "asking" => cl[c].pc = "recvRead"
      BY <1>1, <2>4 DEF PlaceOf, TrustInv, Answering
    <3> QED BY <1>0, <2>2, <2>3, <2>4, <2>5, <3>1, TurnStep
  <2> QED BY <1>0, <1>1, <1>2, <1>8, <2>2, <2>3, <2>4, <2>5, <2>6, <2>7, TurnGood
<1> QED BY <1>0, <1>3, <1>4, <1>5, <1>6, <1>7, <1>8 DEF SendResponse

LEMMA DestroySessionGood ==
  ASSUME FifoInv, LinkInv, NEW c \in Client, DestroySession(c)
  PROVE  Good
<1>0. OnlySession /\ use' = use /\ cl' = cl /\ srv' = srv /\ acc' = acc /\ Trusted' = Trusted /\ TypeOK
  BY DEF DestroySession, OnlySession, Trusted, FifoInv
<1>1. /\ c \in Pipe /\ pipe[c] \in APipe /\ StepInv(c) /\ KeptInv(c) /\ OpenInv(c)
      /\ ForInv(c) /\ TrustInv(c)
      /\ UNCHANGED pipe => Sets(c, pipe[c])
      /\ c \in Trusted => srv.pc = "up" /\ ~Late /\ ~ses[c].stopped
  BY OwnFacts, TrustedFacts, <1>0
<1>2. c # Server /\ Session(c) \in Process /\ Session(c) # c /\ Session(c) # Server
  BY Threads
<1>3. CASE SessionGoes(c, "dtor", "gone") /\ Does(c, Unlink(pipe[c]))
  <2> DEFINE q == Unlink(pipe[c])
  <2>2. /\ q \in APipe /\ q.data = pipe[c].data
        /\ q.writers = pipe[c].writers /\ q.opening = pipe[c].opening
        /\ q.reading = pipe[c].reading
    BY <1>1, <1>2, LinkFacts
  <2> HIDE DEF q
  <2>3. Sets(c, q) /\ pipe'[c] = q
    BY <1>0, <1>1, <1>3, <2>2, DoesFacts DEF Sets, q
  <2>4. /\ ses[c].pc = "dtor" /\ ses'[c].pc = "gone" /\ ses'[c].stopped = ses[c].stopped
        /\ \A d \in Client \ {c} : ses'[d] = ses[d]
    BY <1>3, TurnFacts DEF SessionPlace
  <2>5. c \in Trusted => cl[c].pc \in Done
    BY <1>0, <1>1, <1>2, <1>3, <2>2, <2>3, <2>4 DEF TrustInv
  <2>6. OwnInv(c)'
    BY <1>0, <1>1, <1>2, <1>3, <2>2, <2>3, <2>4, <2>5 DEF OwnInv, KeptInv, OpenInv, ForInv,
         TrustInv, Ends, Done, Outside, Answering, Early, Starting
  <2>7. Step(c)
    <3>1. PlaceOf(c)' = PlaceOf(c) /\ ReplyOf(c)' = ReplyOf(c)
      BY <1>0, <2>2, <2>3 DEF PlaceOf, ReplyOf
    <3>2. SessionOf(c) = "open" /\ SessionOf(c)' = "gone"
      BY <2>4 DEF SessionOf
    <3>3. c \in Trusted => PlaceOf(c) \in {"away", "over"}
      BY <2>5 DEF PlaceOf, Done
    <3> QED BY <3>1, <3>2, <3>3 DEF Step
  <2> QED BY <1>0, <1>1, <1>2, <1>3, <2>2, <2>3, <2>4, <2>5, <2>6, <2>7, TurnGood
<1> QED BY <1>3 DEF DestroySession

-----------------------------------------------------------------------------
(* Steps of the acceptor in its own pipe.                                  *)
LEMMA AcceptorGood ==
  ASSUME FifoInv, LinkInv, OnlyAcceptor, ses' = ses,
         \A d \in Client : pipe'[d] = pipe[d] /\ (Pushes(d)' => Pushes(d)) /\ SignsOnce(d)',
         StatusInv'
  PROVE  Good
<1>1. use' = use /\ cl' = cl /\ srv' = srv
  BY DEF OnlyAcceptor
<1>2. ASSUME NEW d \in Client PROVE Part(d)' /\ Still(d)
  <2>1. OwnInv(d)' /\ EarlyInv(d)' /\ Still(d)
    BY <1>1, SameKeeps DEF LinkInv, Part, Same
  <2> QED BY <2>1 DEF Part
<1>3. UseInv'
  BY <1>1, UseKept DEF LinkInv
<1> QED BY <1>1, <1>2, <1>3, CombineStill

(* The acceptor takes on nothing new, and nothing is written.              *)
LEMMA AcceptorQuiet ==
  ASSUME FifoInv, LinkInv, OnlyAcceptor, ses' = ses, \A d \in Client : pipe'[d] = pipe[d],
         acc'.for = acc.for, acc'.pc # "push",
         acc'.pc \in Serving \cup {"close"} => acc.pc \in Serving \cup {"close"},
         A'.data \in {A.data, <<>>},
         (srv.pc = "up" /\ A.data # <<>> /\ Acceptor \in A'.reading) => Acceptor \in A.reading
  PROVE  Good
<1>1. cl' = cl /\ srv' = srv
  BY DEF OnlyAcceptor
<1>2. \A d \in Client : SignsOnce(d)'
  BY <1>1, SignsKept DEF LinkInv, Part, Accepts
<1>3. StatusInv'
  BY <1>1, SenderKnown, StatusKept DEF LinkInv
<1> QED BY <1>2, <1>3, AcceptorGood DEF Pushes

(* Nobody has opened the pipe for writing while a status is in it, unless  *)
(* the acceptor has just written it.                                       *)
LEMMA StatusAlone ==
  ASSUME FifoInv, LinkInv, srv.pc = "up", NEW j \in 1 .. Len(A.data), A.data[j].kind = "status"
  PROVE  A.writers \subseteq {Acceptor}
<1>1. /\ cl[A.data[j].id].pc \in {"statusRead", "dead"} /\ A.data[j].id \in Client
      /\ Only(A.data[j].id)
  BY SenderKnown DEF LinkInv, StatusInv, FifoInv, StartInv, TokenInv, Current
<1>2. ASSUME NEW d \in Client PROVE d \notin A.writers
  <2>1. d \in A.writers => Engaged(d) /\ cl[d].pc \in {"signWrite", "signClose"}
    BY DEF FifoInv, StartInv, EndsInv, Engaged
  <2> QED BY <1>1, <2>1 DEF Only
<1> QED BY <1>2 DEF FifoInv, StartInv, EndsInv

LEMMA AcceptorReadsGood ==
  ASSUME FifoInv, LinkInv, AcceptorReads
  PROVE  Good
<1>0. /\ OnlyAcceptor /\ ses' = ses /\ A \in APipe /\ Acceptor \in Pipe /\ Acceptor \in Process
      /\ cl' = cl /\ srv' = srv /\ TypeOK
  BY AcceptorFrame DEF AcceptorReads, OnlyAcceptor
<1>1. CASE \E to \in {"ended", "open"} : AcceptorGoes("top", to) /\ UNCHANGED pipe
  <2>1. PICK to \in {"ended", "open"} : AcceptorGoes("top", to) /\ UNCHANGED pipe
    BY <1>1
  <2>2. acc'.pc = to /\ acc'.for = acc.for
    BY <1>0, <2>1, AcceptorFacts DEF AcceptorPlace
  <2>3. A' = A /\ \A d \in Client : pipe'[d] = pipe[d]
    BY <2>1 DEF A
  <2> QED BY <1>0, <2>1, <2>2, <2>3, AcceptorQuiet DEF Serving
<1>2. CASE AcceptorGoes("open", "read") /\ Does(Acceptor, OpenRead(A, Acceptor))
  <2> DEFINE q == OpenRead(A, Acceptor)
  <2>1. /\ q \in APipe /\ q.data = A.data /\ q.reading \subseteq A.reading \cup {Acceptor}
        /\ A.writers = {} => q.reading = A.reading
    BY <1>0, OpenReadFacts
  <2> HIDE DEF q
  <2>2. A' = q /\ \A d \in Client : pipe'[d] = pipe[d]
    BY <1>0, <1>2, <2>1, DoesFacts, Threads DEF Sets, A, q
  <2>3. acc.pc = "open" /\ acc'.pc = "read" /\ acc'.for = acc.for
    BY <1>0, <1>2, AcceptorFacts DEF AcceptorPlace
  <2>4. StatusInv'
    <3> SUFFICES ASSUME srv'.pc = "up"
                 PROVE  /\ Len(A'.data) <= 1
                        /\ \A j \in 1 .. Len(A'.data) :
                             /\ A'.data[j].kind \in {"signature", "status"}
                             /\ A'.data[j].kind = "status" =>
                                  /\ Acceptor \notin A'.reading
                                  /\ cl'[A'.data[j].id].pc \in {"statusRead", "dead"}
      BY DEF StatusInv
    <3>1. srv.pc = "up" /\ StatusInv /\ Acceptor \notin A.writers
      BY <1>0, <2>3, AcceptorFrame DEF LinkInv
    <3>2. ASSUME NEW j \in 1 .. Len(A.data), A.data[j].kind = "status"
          PROVE  Acceptor \notin A'.reading
      BY <2>1, <2>2, <3>1, <3>2, StatusAlone DEF StatusInv
    <3> QED BY <1>0, <2>1, <2>2, <3>1, <3>2 DEF StatusInv
  <2>5. \A d \in Client : SignsOnce(d)'
    BY <1>0, <2>1, <2>2, <2>3, SignsKept DEF LinkInv, Part, Accepts, Serving
  <2> QED BY <1>0, <2>2, <2>3, <2>4, <2>5, AcceptorGood DEF Pushes
<1>3. CASE /\ acc.pc = "read" /\ HasRead(Acceptor, Acceptor)
           /\ acc' = [acc EXCEPT !.pc = "close",
                                 !.for = IF Head(A.data).kind = "signature"
                                         THEN Head(A.data).id ELSE None]
  <2> DEFINE q == Drain(A)
             for == IF Head(A.data).kind = "signature" THEN Head(A.data).id ELSE None
  <2>1. q \in APipe /\ q.data = <<>>
    BY <1>0, DrainFacts
  <2>2. A.data # <<>> /\ Does(Acceptor, q)
    BY <1>3 DEF HasRead, A
  <2> HIDE DEF q
  <2>3. A' = q /\ \A d \in Client : pipe'[d] = pipe[d]
    BY <1>0, <2>1, <2>2, DoesFacts, Threads DEF Sets, A
  <2>4. /\ 1 \in 1 .. Len(A.data)
        /\ for # None => A.data[1].kind = "signature" /\ A.data[1].id = for
    <3>1. A.data \in Seq(Message)
      BY <1>0, PipeParts
    <3> QED BY <2>2, <3>1
  <2>5. acc' = [acc EXCEPT !.pc = "close", !.for = for]
    BY <1>3
  <2> HIDE DEF for
  <2>6. acc'.pc = "close" /\ acc'.for = for
    BY <1>0, <2>5, AcceptorFrame DEF AcceptorState
  <2>7. ASSUME NEW d \in Client PROVE SignsOnce(d)'
    <3>1. SignsOnce(d) /\ d # None
      BY Names DEF LinkInv, Part
    <3>2. PICK f : f = for
      OBVIOUS
    <3>3. f = d => A.data[1].kind = "signature" /\ A.data[1].id = d
      BY <2>4, <3>1, <3>2
    <3>4. f = d => ses[d].pc = "none" /\ cl[d].pc \notin {"start", "lock", "sign", "signWrite"}
      BY <2>4, <3>1, <3>3 DEF SignsOnce
    <3>5. Accepts(d)' => f = d
      BY <2>6, <3>2 DEF Accepts
    <3> QED BY <1>0, <2>1, <2>3, <3>1, <3>4, <3>5 DEF SignsOnce
  <2>8. StatusInv'
    BY <2>1, <2>3 DEF StatusInv
  <2> QED BY <1>0, <2>3, <2>6, <2>7, <2>8, AcceptorGood DEF Pushes
<1>4. CASE AcceptorGoes("read", "top") /\ HasEnded(Acceptor, Acceptor)
  <2>1. /\ A'.data \in {A.data, <<>>} /\ A'.reading \subseteq A.reading
        /\ \A d \in Client : pipe'[d] = pipe[d]
    BY <1>0, <1>4, ClosesFacts, Threads DEF HasEnded, Closes, A, Sets
  <2>2. acc.pc = "read" /\ acc'.pc = "top" /\ acc'.for = acc.for
    BY <1>0, <1>4, AcceptorFacts DEF AcceptorPlace
  <2> QED BY <1>0, <2>1, <2>2, AcceptorQuiet DEF Serving
<1>5. CASE \E to \in {"ended", "top", "create"} : AcceptorGoes("close", to) /\ Closes(Acceptor, Acceptor)
  <2>1. PICK to \in {"ended", "top", "create"} : AcceptorGoes("close", to) /\ Closes(Acceptor, Acceptor)
    BY <1>5
  <2>2. /\ A'.data \in {A.data, <<>>} /\ A'.reading \subseteq A.reading
        /\ \A d \in Client : pipe'[d] = pipe[d]
    BY <1>0, <2>1, ClosesFacts, Threads DEF A, Sets
  <2>3. acc.pc = "close" /\ acc'.pc = to /\ acc'.for = acc.for
    BY <1>0, <2>1, AcceptorFacts DEF AcceptorPlace
  <2> QED BY <1>0, <2>2, <2>3, AcceptorQuiet DEF Serving
<1> QED BY <1>1, <1>2, <1>3, <1>4, <1>5 DEF AcceptorReads, A

LEMMA SendStatusGood ==
  ASSUME FifoInv, LinkInv, SendStatus
  PROVE  Good
<1> USE DEF Serving
<1>0. /\ OnlyAcceptor /\ ses' = ses /\ A \in APipe /\ Acceptor \in Pipe /\ Acceptor \in Process
      /\ cl' = cl /\ srv' = srv /\ TypeOK /\ AcceptorInv
  BY AcceptorFrame DEF SendStatus, OnlyAcceptor, FifoInv, StartInv, TokenInv
<1>1. CASE /\ AcceptorGoes("statusOpen", "statusWrite") /\ Does(Acceptor, OpenWrite(A, Acceptor))
  <2> DEFINE q == OpenWrite(A, Acceptor)
  <2>1. q \in APipe /\ q.data = A.data
    BY <1>0, OpenWriteFacts
  <2> HIDE DEF q
  <2>2. A' = q /\ \A d \in Client : pipe'[d] = pipe[d]
    BY <1>0, <1>1, <2>1, DoesFacts, Threads DEF Sets, A, q
  <2>3. acc.pc = "statusOpen" /\ acc'.pc = "statusWrite" /\ acc'.for = acc.for
    BY <1>0, <1>1, AcceptorFacts DEF AcceptorPlace
  <2>4. A.data = <<>>
    BY <1>0, <2>3 DEF AcceptorInv
  <2> QED BY <1>0, <2>1, <2>2, <2>3, <2>4, AcceptorQuiet
<1>2. CASE AcceptorGoes("statusOpen", "mkfifo") /\ UNCHANGED pipe
  <2>1. acc.pc = "statusOpen" /\ acc'.pc = "mkfifo" /\ acc'.for = acc.for
    BY <1>0, <1>2, AcceptorFacts DEF AcceptorPlace
  <2>2. A' = A /\ \A d \in Client : pipe'[d] = pipe[d]
    BY <1>2 DEF A
  <2> QED BY <1>0, <2>1, <2>2, AcceptorQuiet
<1>3. CASE /\ AcceptorGoes("statusWrite", "statusClose")
           /\ Write(Acceptor, Acceptor, [kind |-> "status", id |-> acc.for, n |-> 0])
  <2>1. acc.pc = "statusWrite" /\ acc'.pc = "statusClose" /\ acc'.for = acc.for
    BY <1>0, <1>3, AcceptorFacts DEF AcceptorPlace
  <2>2. PICK c \in Client : c = acc.for
    BY <1>0, <2>1, AcceptorFrame
  <2>3. A.data = <<>> /\ Only(c) /\ cl[c].pc # "statusClose"
    BY <1>0, <2>1, <2>2 DEF AcceptorInv
  <2> DEFINE m == [kind |-> "status", id |-> c, n |-> 0]
             q == Put(A, m)
  <2>4. m \in Message /\ m.kind = "status" /\ m.id = c
    BY <1>0, UseFacts DEF Message
  <2>5. HasReader(A) /\ Does(Acceptor, q)
    BY <1>3, <2>2 DEF Write, A
  <2> HIDE DEF m
  <2>6. q \in APipe /\ q.data = Append(A.data, m) /\ q.reading = A.reading
    BY <1>0, <2>4, PutFacts
  <2> HIDE DEF q
  <2>7. A' = q /\ \A d \in Client : pipe'[d] = pipe[d]
    BY <1>0, <2>5, <2>6, DoesFacts, Threads DEF Sets, A
  <2>8. A'.data = <<m>> /\ Len(A'.data) = 1 /\ A'.data[1] = m
    <3>1. A'.data = <<m>>
      BY <2>3, <2>6, <2>7
    <3> QED BY <3>1
  <2>9. Acceptor \notin A'.reading /\ cl[c].pc = "statusRead"
    <3>1. Acceptor \notin Readers
      BY <1>0, <2>1, AcceptorFrame
    <3>2. PICK d : d \in Readers
      BY <2>5 DEF HasReader, Readers
    <3>3. d \in Client
      BY <3>1, <3>2 DEF FifoInv, StartInv, EndsInv
    <3>4. Engaged(d) /\ cl[d].pc \in {"statusRead", "statusClose"}
      BY <3>2, <3>3 DEF FifoInv, StartInv, EndsInv, Engaged
    <3>5. d = c
      BY <2>3, <3>3, <3>4 DEF Only
    <3> QED BY <2>3, <2>6, <2>7, <3>1, <3>4, <3>5 DEF Readers
  <2>10. StatusInv'
    <3>1. \A j \in 1 .. 1 : A'.data[j] = m
      BY <2>8
    <3> QED BY <1>0, <2>4, <2>8, <2>9, <3>1 DEF StatusInv
  <2>11. ASSUME NEW d \in Client PROVE SignsOnce(d)'
    <3>1. \A j \in 1 .. Len(A'.data) : A'.data[j].kind # "signature"
      BY <2>4, <2>8
    <3>2. SignsOnce(d) /\ (Accepts(d)' => Accepts(d))
      BY <2>1 DEF LinkInv, Part, Accepts
    <3> QED BY <1>0, <3>1, <3>2 DEF SignsOnce
  <2> QED BY <1>0, <2>1, <2>7, <2>10, <2>11, AcceptorGood DEF Pushes
<1>4. CASE \E from \in {"statusWrite", "statusClose"}, to \in {"mkfifo", "ended"} :
             AcceptorGoes(from, to) /\ Closes(Acceptor, Acceptor)
  <2>1. PICK from \in {"statusWrite", "statusClose"}, to \in {"mkfifo", "ended"} :
          AcceptorGoes(from, to) /\ Closes(Acceptor, Acceptor)
    BY <1>4
  <2>2. /\ A'.data \in {A.data, <<>>} /\ A'.reading \subseteq A.reading
        /\ \A d \in Client : pipe'[d] = pipe[d]
    BY <1>0, <2>1, ClosesFacts, Threads DEF A, Sets
  <2>3. acc.pc = from /\ acc'.pc = to /\ acc'.for = acc.for
    BY <1>0, <2>1, AcceptorFacts DEF AcceptorPlace
  <2> QED BY <1>0, <2>1, <2>2, <2>3, AcceptorQuiet
<1> HIDE DEF Serving
<1> QED BY <1>1, <1>2, <1>3, <1>4 DEF SendStatus, BrokenPipe, A

(* The acceptor starts the session of the client it has answered.          *)
LEMMA ServedFacts ==
  ASSUME FifoInv, LinkInv, OnlyAcceptor, acc.pc \in Serving
  PROVE  /\ acc.for \in Client /\ ses[acc.for].pc = "none" /\ cl[acc.for].pc \notin Unsigned
         /\ \A j \in 1 .. Len(A.data) : A.data[j].kind = "signature" => A.data[j].id # acc.for
         /\ srv.pc # "crashed" /\ TypeOK /\ Trusted' = Trusted
         /\ UNCHANGED <<use, cl, srv>>
<1>1. acc.for \in Client /\ TypeOK /\ srv.pc # "crashed"
  BY DEF FifoInv, StartInv, ServerInv, Serving
<1>2. Accepts(acc.for) /\ SignsOnce(acc.for)
  BY <1>1 DEF LinkInv, Part, Accepts
<1> QED BY <1>1, <1>2 DEF SignsOnce, Unsigned, OnlyAcceptor, Trusted

LEMMA CreatePipeGood ==
  ASSUME FifoInv, LinkInv, CreatePipe
  PROVE  Good
<1>0. /\ OnlyAcceptor /\ ses' = ses /\ AcceptorGoes("mkfifo", "push")
      /\ Does(acc.for, Link(pipe[acc.for])) /\ TypeOK
  BY DEF CreatePipe, FifoInv
<1>1. acc.pc = "mkfifo" /\ acc'.pc = "push" /\ acc'.for = acc.for
  BY <1>0, AcceptorFacts DEF AcceptorPlace
<1>2. PICK c \in Client : c = acc.for
  BY <1>0, <1>1, ServedFacts DEF Serving
<1>3. use' = use /\ cl' = cl /\ srv' = srv /\ Trusted' = Trusted
  BY <1>0, <1>1, ServedFacts DEF Serving
<1>4. /\ KeptInv(c) /\ OpenInv(c) /\ ForInv(c) /\ TrustInv(c) /\ EarlyInv(c)
      /\ c \in Pipe /\ pipe[c] \in APipe
  BY OwnFacts
<1> DEFINE q == Link(pipe[c])
<1>5. /\ q \in APipe /\ q.data = pipe[c].data /\ q.opening = pipe[c].opening
      /\ q.reading = pipe[c].reading /\ q.writers = pipe[c].writers /\ q.linked
  BY <1>4, LinkFacts
<1> HIDE DEF q
<1>6. pipe'[c] = q /\ A' = A /\ \A d \in Client \ {c} : pipe'[d] = pipe[d]
  BY <1>0, <1>2, <1>4, <1>5, DoesFacts, Names DEF Sets, A, q
<1>7. OwnInv(c)' /\ EarlyInv(c)'
  <2>1. KeptInv(c)' /\ OpenInv(c)' /\ ForInv(c)' /\ EarlyInv(c)'
    BY <1>0, <1>3, <1>4, <1>5, <1>6 DEF KeptInv, OpenInv, ForInv, EarlyInv, Ends
  <2>2. TrustInv(c)'
    BY <1>0, <1>3, <1>4, <1>5, <1>6 DEF TrustInv
  <2> QED BY <2>1, <2>2 DEF OwnInv
<1>8. Still(c)
  BY <1>0, <1>3, <1>5, <1>6 DEF Still, PlaceOf, ReplyOf, SessionOf
<1>9. \A d \in Client \ {c} : OwnInv(d)' /\ EarlyInv(d)' /\ Still(d)
  BY <1>0, <1>1, <1>2, <1>3, <1>6, SameKeeps DEF LinkInv, Part, Same, Pushes
<1>10. \A d \in Client : SignsOnce(d)'
  BY <1>0, <1>1, <1>3, <1>6, SignsKept DEF LinkInv, Part, Accepts, Serving
<1>11. StatusInv'
  BY <1>3, <1>6, SenderKnown, StatusKept DEF LinkInv
<1>12. UseInv'
  BY <1>0, <1>3, UseKept DEF LinkInv
<1> QED BY <1>3, <1>7, <1>8, <1>9, <1>10, <1>11, <1>12, CombineStill DEF Part

LEMMA CreateSessionGood ==
  ASSUME FifoInv, LinkInv, CreateSession
  PROVE  Good
<1>0. OnlyAcceptor /\ UNCHANGED pipe /\ A' = A /\ TypeOK /\ UNCHANGED <<use, cl, srv>>
  BY DEF CreateSession, OnlyAcceptor, A, FifoInv
<1>1. CASE AcceptorGoes("create", "statusOpen") /\ ses' = ses
  <2>1. acc.pc = "create" /\ acc'.pc = "statusOpen" /\ acc'.for = acc.for
    BY <1>0, <1>1, AcceptorFacts DEF AcceptorPlace
  <2> QED BY <1>0, <1>1, <2>1, AcceptorQuiet DEF Serving
<1>2. CASE AcceptorGoes("push", "top") /\ ses' = [ses EXCEPT ![acc.for].pc = "queued"]
  <2>1. acc.pc = "push" /\ acc'.pc = "top" /\ acc'.for = acc.for
    BY <1>0, <1>2, AcceptorFacts DEF AcceptorPlace
  <2>2. PICK c \in Client : c = acc.for
    BY <1>0, <2>1, ServedFacts DEF Serving
  <2>3. /\ ses[c].pc = "none" /\ cl[c].pc \notin Unsigned /\ srv.pc # "crashed"
        /\ \A j \in 1 .. Len(A.data) : A.data[j].kind = "signature" => A.data[j].id # c
        /\ Trusted' = Trusted
    BY <1>0, <2>1, <2>2, ServedFacts DEF Serving
  <2>4. /\ ses'[c].pc = "queued" /\ ses'[c].stopped = ses[c].stopped
        /\ \A d \in Client \ {c} : ses'[d] = ses[d]
    <3> DEFINE r == [ses[c] EXCEPT !.pc = "queued"]
    <3>1. ses \in [Client -> SessionState] /\ ses' = [ses EXCEPT ![c] = r]
      BY <1>0, <1>2, <2>2, Types
    <3>2. r.pc = "queued" /\ r.stopped = ses[c].stopped
      BY <3>1 DEF SessionState
    <3> HIDE DEF r
    <3> QED BY <3>1, <3>2
  <2>5. /\ KeptInv(c) /\ OpenInv(c) /\ ForInv(c) /\ TrustInv(c) /\ EarlyInv(c) /\ Pushes(c)
        /\ c # Session(c) /\ pipe'[c] = pipe[c]
        /\ cl[c].pc \in ClientPlace
    BY <1>0, <2>1, <2>2, OwnFacts, Threads DEF Pushes
  <2>6. OwnInv(c)' /\ EarlyInv(c)'
    <3>1. KeptInv(c)' /\ ForInv(c)' /\ EarlyInv(c)'
      BY <1>0, <2>5 DEF KeptInv, ForInv, EarlyInv
    <3>2. OpenInv(c)'
      BY <1>0, <2>3, <2>4, <2>5 DEF OpenInv
    <3>3. TrustInv(c)'
      BY <1>0, <2>3, <2>4, <2>5 DEF TrustInv, Pushes, Answering
    <3> QED BY <3>1, <3>2, <3>3 DEF OwnInv
  <2>7. Step(c)
    BY <1>0, <2>3, <2>4, <2>5 DEF Step, PlaceOf, ReplyOf, SessionOf
  <2>8. \A d \in Client \ {c} : OwnInv(d)' /\ EarlyInv(d)' /\ Still(d)
    BY <1>0, <2>1, <2>2, <2>4, SameKeeps DEF LinkInv, Part, Same, Pushes
  <2>9. \A d \in Client \ {c} : SignsOnce(d)'
    BY <1>0, <2>1, <2>4, SignsKept DEF LinkInv, Part, Accepts, Serving
  <2>10. SignsOnce(c)'
    BY <1>0, <2>1, <2>3 DEF SignsOnce, Unsigned, Accepts, Serving
  <2>11. StatusInv'
    BY <1>0, SenderKnown, StatusKept DEF LinkInv
  <2>12. UseInv'
    BY <1>0, <2>3, <2>4 DEF LinkInv, UseInv
  <2> QED BY <1>0, <2>6, <2>7, <2>8, <2>9, <2>10, <2>11, <2>12, Combine DEF Part
<1> QED BY <1>1, <1>2 DEF CreateSession, ConstructSession

LEMMA AcceptorStepGood ==
  ASSUME FifoInv, LinkInv, AcceptorStep
  PROVE  Good
BY AcceptorReadsGood, SendStatusGood, CreatePipeGood, CreateSessionGood DEF AcceptorStep

-----------------------------------------------------------------------------
(* Server::stop.  Nobody is trusted any more, so nothing is promised but   *)
(* that a client gets no second session.                                   *)
LEMMA StopStepGood ==
  ASSUME FifoInv, LinkInv, OnlyServer, use.stop, srv'.pc \notin {"up", "crashed"},
         srv'.again = srv.again, acc'.pc = acc.pc, acc'.for = acc.for, A'.data \in {A.data, <<>>},
         NEW c,
         \A d \in Client : /\ ses'[d].pc = ses[d].pc
                           /\ KeptInv(d)' /\ pipe'[d].data \in {pipe[d].data, <<>>}
                           /\ d # c => pipe'[d].data = pipe[d].data
  PROVE  Good
<1>1. use' = use /\ cl' = cl /\ Trusted' = {} /\ Trusted = {}
  BY DEF OnlyServer, Trusted
<1>2. StatusInv'
  BY DEF StatusInv
<1>3. UseInv'
  BY <1>1 DEF LinkInv, UseInv
<1>4. ASSUME NEW d \in Client PROVE Part(d)'
  <2>1. OwnInv(d)'
    BY <1>1 DEF OwnInv, OpenInv, ForInv, TrustInv
  <2>2. SignsOnce(d)' /\ EarlyInv(d)'
    BY <1>1, SignsKept DEF LinkInv, Part, Accepts, EarlyInv
  <2> QED BY <2>1, <2>2 DEF Part
<1>5. \A d \in Client : d # c => Still(d)
  BY <1>1 DEF Still, PlaceOf, ReplyOf, SessionOf
<1>6. CASE c \in Client
  <2>1. PlaceOf(c)' = PlaceOf(c) /\ SessionOf(c)' = SessionOf(c)
    BY <1>1, <1>6 DEF PlaceOf, SessionOf
  <2>2. ReplyOf(c)' = ReplyOf(c) \/ (ReplyOf(c) = "given" /\ ReplyOf(c)' = "owed")
    <3>1. CASE pipe'[c].data = pipe[c].data \/ PlaceOf(c) # "asking"
      BY <2>1, <3>1 DEF ReplyOf
    <3>2. CASE PlaceOf(c) = "asking" /\ pipe'[c].data = <<>>
      <4>1. ReplyOf(c)' = "owed" /\ ReplyOf(c) \in {"given", "owed"}
        BY <2>1, <3>2 DEF ReplyOf
      <4> QED BY <4>1
    <3> QED BY <1>6, <3>1, <3>2
  <2>4. Step(c)
    BY <1>1, <2>1, <2>2 DEF Step, Still
  <2> QED BY <1>1, <1>2, <1>3, <1>4, <1>5, <1>6, <2>4, Combine
<1>7. CASE c \notin Client
  BY <1>1, <1>2, <1>3, <1>4, <1>5, <1>7, CombineStill
<1> QED BY <1>6, <1>7

LEMMA KeptOpen ==
  ASSUME FifoInv, LinkInv, NEW d \in Client, pipe'[d] = pipe[d]
  PROVE  KeptInv(d)'
BY OwnFacts DEF KeptInv

LEMMA StopGood ==
  ASSUME FifoInv, LinkInv, Stop
  PROVE  Good
<1>1. /\ OnlyServer /\ UNCHANGED <<pipe, acc, ses>> /\ use.stop /\ TypeOK
      /\ ServerGoes("up", "mark") /\ A' = A
  BY DEF Stop, FifoInv, A
<1>2. srv'.pc = "mark" /\ srv'.again = srv.again
  BY <1>1, ServerFacts DEF ServerPlace
<1> QED BY <1>1, <1>2, KeptOpen, StopStepGood

LEMMA StopSessionsGood ==
  ASSUME FifoInv, LinkInv, StopSessions
  PROVE  Good
<1>0. OnlyServer /\ UNCHANGED acc /\ TypeOK
  BY DEF StopSessions, FifoInv
<1>1. CASE /\ srv.pc = "mark" /\ UNCHANGED pipe
           /\ \E alive \in SUBSET Client :
                /\ ses' = [c \in Client |-> [ses[c] EXCEPT !.stopped = @ \/ c \in alive]]
                /\ srv' = [srv EXCEPT !.pc = "pick", !.todo = alive]
  <2>1. PICK alive \in SUBSET Client :
          /\ ses' = [c \in Client |-> [ses[c] EXCEPT !.stopped = @ \/ c \in alive]]
          /\ srv' = [srv EXCEPT !.pc = "pick", !.todo = alive]
    BY <1>1
  <2>2. srv'.pc = "pick" /\ srv'.again = srv.again /\ use.stop
    BY <1>0, <1>1, <2>1, Types DEF ServerState, LinkInv, UseInv
  <2>3. \A d \in Client : ses'[d].pc = ses[d].pc
    BY <1>0, <2>1, Types DEF SessionState
  <2>4. A' = A
    BY <1>1 DEF A
  <2> QED BY <1>0, <1>1, <2>2, <2>3, <2>4, KeptOpen, StopStepGood
<1>2. CASE /\ srv.pc = "pick" /\ UNCHANGED <<pipe, ses>>
           /\ \E c \in srv.todo :
                srv' = [srv EXCEPT !.pc = "exitOpen", !.todo = @ \ {c}, !.now = c]
  <2>1. srv'.pc = "exitOpen" /\ srv'.again = srv.again /\ use.stop
    BY <1>0, <1>2, Types DEF ServerState, LinkInv, UseInv
  <2>2. A' = A
    BY <1>2 DEF A
  <2> QED BY <1>0, <1>2, <2>1, <2>2, KeptOpen, StopStepGood
<1>3. CASE StopSession(srv.now)
  <2>1. UNCHANGED ses /\ srv.pc \in {"exitOpen", "exitClose"} /\ srv.now \in Client /\ use.stop
    BY <1>3 DEF StopSession, ServerGoes, LinkInv, UseInv, FifoInv, StartInv, ServerInv
  <2>2. PICK c \in Client : c = srv.now
    BY <2>1
  <2>3. srv'.pc \in {"exitClose", "pick"} /\ srv'.again = srv.again
    <3>1. \/ ServerGoes("exitOpen", "exitClose") \/ ServerGoes("exitOpen", "pick")
          \/ ServerGoes("exitClose", "pick")
      BY <1>3 DEF StopSession, OnExit
    <3> QED BY <1>0, <3>1, ServerFacts DEF ServerPlace
  <2>4. c \in Pipe /\ pipe[c] \in APipe /\ KeptInv(c)
    BY OwnFacts
  <2>5. PICK q \in APipe : /\ Sets(c, q) /\ q.data \in {pipe[c].data, <<>>}
                           /\ Ends(q) \subseteq Ends(pipe[c]) \cup {Server}
                           /\ q.data # <<>> => Ends(q) # {}
    <3>1. CASE UNCHANGED pipe
      <4>1. Sets(c, pipe[c])
        BY <2>4, <3>1, OwnFacts
      <4> QED BY <2>4, <4>1 DEF KeptInv
    <3>2. CASE Does(c, OpenWrite(pipe[c], Server))
      <4> DEFINE q == OpenWrite(pipe[c], Server)
      <4>0. /\ q \in APipe /\ q.data = pipe[c].data /\ q.writers = pipe[c].writers \cup {Server}
            /\ q.opening = {} /\ q.reading = pipe[c].opening \cup pipe[c].reading
        BY <2>4, Names, OpenWriteFacts
      <4> HIDE DEF q
      <4>1. Ends(q) = Ends(pipe[c]) \cup {Server}
        BY <4>0 DEF Ends
      <4>2. Sets(c, q)
        BY <1>0, <2>4, <3>2, <4>0, DoesFacts DEF q
      <4> QED BY <4>0, <4>1, <4>2
    <3>3. CASE Closes(Server, c)
      BY <1>0, <2>4, <3>3, ClosesFacts
    <3> QED BY <1>3, <2>2, <3>1, <3>2, <3>3 DEF StopSession, OnExit
  <2>6. A' = A /\ pipe'[c] = q /\ \A d \in Client \ {c} : pipe'[d] = pipe[d]
    BY <2>4, <2>5, Names DEF Sets, A
  <2>7. KeptInv(c)'
    BY <2>4, <2>5, <2>6 DEF KeptInv
  <2>8. \A d \in Client : KeptInv(d)'
    BY <2>6, <2>7, KeptOpen
  <2> QED BY <1>0, <2>1, <2>3, <2>5, <2>6, <2>8, StopStepGood
<1>4. \A S : {c \in Client : S[c]} \in SUBSET Client
  OBVIOUS
<1> QED BY <1>1, <1>2, <1>3, <1>4 DEF StopSessions

LEMMA StopAcceptorGood ==
  ASSUME FifoInv, LinkInv, StopAcceptor
  PROVE  Good
<1>0. OnlyServer /\ UNCHANGED ses /\ TypeOK /\ Acceptor \in Pipe
  BY Names DEF StopAcceptor, FifoInv
<1>1. /\ srv'.pc \in {"accOpen", "accClose", "joinAcceptor"} /\ srv'.again = srv.again /\ use.stop
      /\ acc'.pc = acc.pc /\ acc'.for = acc.for
  <2>1. \/ ServerGoes("pick", "accOpen") \/ ServerGoes("accOpen", "accClose")
        \/ ServerGoes("accOpen", "joinAcceptor") \/ ServerGoes("accClose", "joinAcceptor")
    BY DEF StopAcceptor, OnExit, Unblocking
  <2>2. acc' \in {acc, [acc EXCEPT !.stopped = TRUE]}
    BY DEF StopAcceptor
  <2>3. srv.pc \in {"pick", "accOpen", "accClose"}
    BY <2>1 DEF ServerGoes
  <2> QED BY <1>0, <2>1, <2>2, <2>3, ServerFacts, Types
          DEF ServerPlace, AcceptorState, LinkInv, UseInv
<1>2. A'.data \in {A.data, <<>>} /\ \A d \in Client : pipe'[d] = pipe[d]
  <2>1. CASE UNCHANGED pipe
    BY <2>1 DEF A
  <2>2. CASE Does(Acceptor, OpenWrite(A, Server))
    <3> DEFINE q == OpenWrite(A, Server)
    <3>1. q \in APipe /\ q.data = A.data
      BY <1>0, Types, Names, OpenWriteFacts DEF A
    <3> HIDE DEF q
    <3>2. Sets(Acceptor, q)
      BY <1>0, <2>2, <3>1, DoesFacts DEF q
    <3> QED BY <3>1, <3>2, Threads DEF Sets, A
  <2>3. CASE Closes(Server, Acceptor)
    BY <1>0, <2>3, ClosesFacts, Threads DEF Sets, A
  <2> QED BY <2>1, <2>2, <2>3 DEF StopAcceptor, OnExit, A
<1> QED BY <1>0, <1>1, <1>2, KeptOpen, StopStepGood

(* The sessions that are there go, and with them replies.                  *)
LEMMA DropGood ==
  ASSUME use' = use, cl' = cl, Trusted = {}, LinkInv',
         \A d \in Client :
           /\ SessionOf(d)' = IF SessionOf(d) = "open" THEN "gone" ELSE SessionOf(d)
           /\ pipe'[d].data \in {pipe[d].data, <<>>}
  PROVE  Good
<1> DEFINE place == [d \in Client |-> PlaceOf(d)]
           reply == [d \in Client |-> ReplyOf(d)]
           session == [d \in Client |-> SessionOf(d)]
           lost == {d \in Client : ReplyOf(d) = "given" /\ ReplyOf(d)' = "owed"}
<1>1. Trusted' = Trusted
  BY DEF Trusted
<1>2. \A d \in Client : PlaceOf(d)' = PlaceOf(d)
  BY DEF PlaceOf
<1>3. ASSUME NEW d \in Client
      PROVE  ReplyOf(d)' = IF ReplyOf(d) = "given" /\ ReplyOf(d)' = "owed" THEN "owed" ELSE ReplyOf(d)
  <2>1. CASE pipe'[d].data = pipe[d].data \/ PlaceOf(d) # "asking"
    <3>1. ReplyOf(d)' = ReplyOf(d)
      BY <1>2, <2>1 DEF ReplyOf
    <3> QED BY <3>1
  <2>2. CASE PlaceOf(d) = "asking" /\ pipe'[d].data = <<>>
    <3>1. ReplyOf(d)' = "owed" /\ ReplyOf(d) \in {"given", "owed"}
      BY <1>2, <2>2 DEF ReplyOf
    <3> QED BY <3>1
  <2> QED BY <2>1, <2>2
<1>4. place' = place
  BY <1>2
<1>5. reply' = [d \in Client |-> IF d \in lost THEN "owed" ELSE reply[d]]
  BY <1>3
<1>6. session' = [d \in Client |-> IF session[d] = "open" THEN "gone" ELSE session[d]]
  OBVIOUS
<1>7. lost \in SUBSET {d \in Client : reply[d] = "given"}
  OBVIOUS
<1> HIDE DEF lost
<1> QED BY <1>1, <1>4, <1>5, <1>6, <1>7 DEF Good, C!Next, C!Stop

LEMMA JoinGood ==
  ASSUME FifoInv, LinkInv, Join
  PROVE  Good
<1>0. OnlyServer /\ UNCHANGED acc /\ TypeOK /\ use' = use /\ cl' = cl
  BY DEF Join, OnlyServer, FifoInv
<1>1. CASE ServerGoes("joinAcceptor", "joinPool") /\ UNCHANGED <<pipe, ses>>
  <2>1. srv'.pc = "joinPool" /\ srv'.again = srv.again /\ use.stop
    BY <1>0, <1>1, ServerFacts DEF ServerPlace, LinkInv, UseInv
  <2>2. A' = A
    BY <1>1 DEF A
  <2> QED BY <1>0, <1>1, <2>1, <2>2, KeptOpen, StopStepGood
<1>2. CASE DestroyServer /\ \A c \in Client : ses[c].pc \in {"none", "queued", "gone"}
  <2>1. srv.pc = "joinPool" /\ ~srv.again /\ srv.named = 1
    BY <1>2 DEF DestroyServer, RemoveNamedMutex, FifoInv, StartInv, ServerInv
  <2>2. srv'.pc = "down" /\ srv'.again = srv.again /\ use.stop
    <3>1. RemoveNamedMutex("joinPool", "down") /\ srv.again \in BOOLEAN
      BY <1>0, <1>2, Types DEF DestroyServer, ServerState
    <3>2. srv'.pc = "down" /\ srv'.again = (srv.again \/ "down" = "up")
      BY <2>1, <3>1, RemoveFacts DEF ServerPlace
    <3> QED BY <2>1, <3>1, <3>2 DEF LinkInv, UseInv
  <2>3. \A p \in Pipe : /\ pipe'[p].data = pipe[p].data /\ Ends(pipe'[p]) = Ends(pipe[p])
    <3> SUFFICES ASSUME NEW p \in Pipe
                 PROVE  pipe'[p].data = pipe[p].data /\ Ends(pipe'[p]) = Ends(pipe[p])
      OBVIOUS
    <3>1. pipe[p] \in APipe /\ pipe'[p] = Unlink(pipe[p])
      BY <1>0, <1>2, Types DEF DestroyServer, RemoveFifoFiles
    <3> QED BY <3>1, LinkFacts DEF Ends
  <2>4. ASSUME NEW d \in Client
        PROVE  ses'[d].pc = (IF ses[d].pc = "queued" THEN "gone" ELSE ses[d].pc)
    <3>1. ses[d] \in SessionState
      BY <1>0, Types
    <3>2. ses'[d] = [ses[d] EXCEPT !.pc = IF ses[d].pc = "queued" THEN "gone" ELSE ses[d].pc]
      BY <1>2 DEF DestroyServer
    <3> QED BY <3>1, <3>2 DEF SessionState
  <2>5. Trusted = {} /\ Trusted' = {}
    BY <1>0, <2>2 DEF Trusted
  <2>6. ASSUME NEW d \in Client PROVE Part(d)'
    <3>1. KeptInv(d)'
      BY <2>3, OwnFacts DEF KeptInv
    <3>2. OwnInv(d)'
      BY <2>2, <2>5, <3>1 DEF OwnInv, OpenInv, ForInv, TrustInv
    <3>3. SignsOnce(d)' /\ EarlyInv(d)'
      BY <1>0, <2>3, <2>4, SignsKept, Names DEF LinkInv, Part, Accepts, EarlyInv, A
    <3> QED BY <3>2, <3>3 DEF Part
  <2>7. StatusInv' /\ UseInv'
    BY <1>0, <2>2 DEF StatusInv, LinkInv, UseInv
  <2>8. ASSUME NEW d \in Client
        PROVE  SessionOf(d)' = IF SessionOf(d) = "open" THEN "gone" ELSE SessionOf(d)
    BY <1>2, <2>4 DEF SessionOf
  <2>9. \A d \in Client : pipe'[d].data \in {pipe[d].data, <<>>}
    BY <2>3, Names
  <2> QED BY <1>0, <2>5, <2>6, <2>7, <2>8, <2>9, DropGood DEF LinkInv
<1> QED BY <1>1, <1>2 DEF Join

LEMMA CrashGood ==
  ASSUME FifoInv, LinkInv, Crash
  PROVE  Good
<1> DEFINE who == Process \ Client
<1>1. /\ use' = use /\ cl' = cl /\ use.crash /\ TypeOK /\ Trusted = {} /\ Trusted' = {}
      /\ ServerGoes("up", "crashed")
  BY DEF Crash, FifoInv, Trusted
<1>2. srv'.pc = "crashed" /\ acc'.pc = "ended"
  BY <1>1, ServerFacts, Types DEF ServerPlace, Crash, AcceptorState
<1>3. ASSUME NEW p \in Pipe
      PROVE  /\ pipe'[p].data \in {pipe[p].data, <<>>}
             /\ Ends(pipe'[p]) \subseteq Ends(pipe[p])
             /\ pipe'[p].data # <<>> => Ends(pipe'[p]) # {}
  <2>1. pipe[p] \in APipe /\ pipe'[p] = CloseAll(pipe[p], who)
    BY <1>1, Types DEF Crash
  <2> HIDE DEF who
  <2>2. PICK r : r = CloseAll(pipe[p], who)
    OBVIOUS
  <2>3. /\ r.data \in {pipe[p].data, <<>>} /\ r.writers = pipe[p].writers \ who
        /\ r.opening = pipe[p].opening \ who /\ r.reading = pipe[p].reading \ who
    BY <2>1, <2>2, CloseAllFacts
  <2> DEFINE s == [pipe[p] EXCEPT !.opening = @ \ who, !.reading = @ \ who, !.writers = @ \ who]
  <2>4. s \in APipe /\ r = IF Ends(s) # {} THEN s ELSE Drain(s)
    BY <2>1, <2>2 DEF CloseAll, HasReader, Ends, APipe, PipeType
  <2> HIDE DEF s
  <2>5. r.data # <<>> => Ends(r) # {}
    BY <2>4, DrainFacts
  <2> QED BY <2>1, <2>2, <2>3, <2>5 DEF Ends
<1> HIDE DEF who
<1>4. ASSUME NEW d \in Client
      PROVE  /\ ses'[d].pc = (IF ses[d].pc = "none" THEN "none" ELSE "gone")
             /\ ses'[d].stopped = ses[d].stopped
  <2>1. ses[d] \in SessionState
    BY <1>1, Types
  <2>2. ses'[d] = [ses[d] EXCEPT !.pc = IF ses[d].pc = "none" THEN "none" ELSE "gone"]
    BY <2>1 DEF Crash
  <2> QED BY <2>1, <2>2 DEF SessionState
<1>5. ASSUME NEW d \in Client PROVE Part(d)'
  <2>1. KeptInv(d)'
    BY <1>3, OwnFacts DEF KeptInv
  <2>2. OwnInv(d)'
    BY <1>1, <1>2, <2>1 DEF OwnInv, OpenInv, ForInv, TrustInv
  <2>3. SignsOnce(d)' /\ EarlyInv(d)'
    BY <1>1, <1>2, <1>3, <1>4, SignsKept, Names DEF LinkInv, Part, Accepts, EarlyInv, A, Serving
  <2> QED BY <2>2, <2>3 DEF Part
<1>6. StatusInv' /\ UseInv'
  BY <1>1, <1>2, <1>4 DEF StatusInv, LinkInv, UseInv
<1>7. ASSUME NEW d \in Client
      PROVE  SessionOf(d)' = IF SessionOf(d) = "open" THEN "gone" ELSE SessionOf(d)
  BY <1>4 DEF SessionOf
<1>8. \A d \in Client : pipe'[d].data \in {pipe[d].data, <<>>}
  BY <1>3, Names
<1> QED BY <1>1, <1>5, <1>6, <1>7, <1>8, DropGood DEF LinkInv

LEMMA RestartGood ==
  ASSUME FifoInv, LinkInv, Restart
  PROVE  Good
<1>1. /\ use' = use /\ cl' = cl /\ ses' = ses /\ TypeOK /\ acc'.pc = "top"
      /\ RemoveNamedMutex("crashed", "up") /\ srv.pc = "crashed"
  BY DEF Restart, FifoInv, RemoveNamedMutex
<1>2. ~srv.again /\ srv.named = 1
  BY <1>1 DEF FifoInv, StartInv, ServerInv
<1>3. srv'.pc = "up" /\ use.crash
  BY <1>1, <1>2, RemoveFacts DEF ServerPlace, LinkInv, UseInv
<1>4. Trusted = {} /\ Trusted' = {}
  BY <1>1, <1>3 DEF Trusted
<1>5. A'.data = <<>> /\ \A d \in Client : pipe'[d].data = <<>> /\ Ends(pipe'[d]) = {}
  <2>1. pipe' = [p \in Pipe |-> IF p = Acceptor THEN Link(NewPipe) ELSE NewPipe]
    BY DEF Restart
  <2>2. Link(NewPipe).data = <<>>
    BY NewPipeFacts, LinkFacts
  <2> QED BY <2>1, <2>2, NewPipeFacts, Names DEF A, Ends
<1>6. ASSUME NEW d \in Client PROVE Part(d)'
  <2>1. KeptInv(d)' /\ OpenInv(d)' /\ ForInv(d)' /\ TrustInv(d)'
    BY <1>4, <1>5, Names DEF KeptInv, OpenInv, ForInv, TrustInv, Ends
  <2>2. ~Accepts(d)'
    BY <1>1 DEF Accepts, Serving
  <2>3. SignsOnce(d) /\ EarlyInv(d)
    BY DEF LinkInv, Part
  <2>4. SignsOnce(d)' /\ EarlyInv(d)'
    BY <1>1, <1>5, <2>2, <2>3 DEF SignsOnce, EarlyInv
  <2> QED BY <2>1, <2>4 DEF Part, OwnInv
<1>7. StatusInv' /\ UseInv'
  BY <1>1, <1>3, <1>5 DEF StatusInv, LinkInv, UseInv
<1>8. ASSUME NEW d \in Client
      PROVE  SessionOf(d)' = IF SessionOf(d) = "open" THEN "gone" ELSE SessionOf(d)
  BY <1>1 DEF SessionOf, LinkInv, UseInv
<1>9. \A d \in Client : pipe'[d].data \in {pipe[d].data, <<>>}
  BY <1>5
<1> QED BY <1>1, <1>4, <1>6, <1>7, <1>8, <1>9, DropGood DEF LinkInv

-----------------------------------------------------------------------------
LEMMA LinkInit ==
  ASSUME Init
  PROVE  LinkInv /\ C!Init
<1>1. A.data = <<>> /\ \A d \in Client : pipe[d].data = <<>> /\ Ends(pipe[d]) = {}
  <2>1. pipe = [p \in Pipe |-> IF p = Acceptor THEN Link(NewPipe) ELSE NewPipe]
    BY DEF Init
  <2>2. Link(NewPipe).data = <<>>
    BY NewPipeFacts, LinkFacts
  <2> QED BY <2>1, <2>2, NewPipeFacts, Names DEF A, Ends
<1>2. /\ \A c \in Client : /\ cl[c].pc \in {"start", "ended"} /\ cl[c].done = 0 /\ ~cl[c].closeFlag
                           /\ ses[c].pc = "none" /\ ~ses[c].stopped
      /\ acc.pc = "top" /\ srv.pc = "up" /\ ~srv.again
  BY DEF Init
<1>3. ASSUME NEW c \in Client PROVE Part(c)
  <2>1. KeptInv(c) /\ OpenInv(c) /\ ForInv(c) /\ EarlyInv(c) /\ SignsOnce(c)
    BY <1>1, <1>2 DEF KeptInv, OpenInv, ForInv, EarlyInv, SignsOnce, Ends, Accepts, Serving
  <2>2. TrustInv(c)
    BY <1>1, <1>2 DEF TrustInv, Outside, Done, Early, Starting, Ends
  <2> QED BY <2>1, <2>2 DEF Part, OwnInv
<1>4. LinkInv
  BY <1>1, <1>2, <1>3 DEF LinkInv, StatusInv, UseInv
<1>5. \A c \in Client : PlaceOf(c) = "away" /\ ReplyOf(c) = "none" /\ SessionOf(c) = "none"
  BY <1>2 DEF PlaceOf, ReplyOf, SessionOf
<1>6. Trusted \in SUBSET Client
  BY DEF Trusted
<1> QED BY <1>4, <1>5, <1>6 DEF C!Init

LEMMA LinkStutters ==
  ASSUME FifoInv, LinkInv, UNCHANGED vars
  PROVE  Good
<1>1. /\ use' = use /\ cl' = cl /\ ses' = ses /\ srv' = srv /\ acc' = acc /\ A' = A
      /\ \A d \in Client : Same(d)
  BY DEF vars, A, Same
<1>2. \A d \in Client : OwnInv(d)' /\ EarlyInv(d)' /\ Still(d)
  BY <1>1, SameKeeps DEF LinkInv, Part, Pushes
<1>3. \A d \in Client : SignsOnce(d)'
  BY <1>1, SignsKept DEF LinkInv, Part, Accepts
<1>4. StatusInv'
  BY <1>1, SenderKnown, StatusKept DEF LinkInv
<1>5. UseInv'
  BY <1>1, UseKept DEF LinkInv
<1> QED BY <1>1, <1>2, <1>3, <1>4, <1>5, CombineStill DEF Part

LEMMA LinkStep ==
  ASSUME FifoInv, LinkInv, [Next]_vars
  PROVE  Good
<1>1. ASSUME NEW c \in Client, ClientStep(c)
      PROVE  Good
  BY <1>1, LockGood, SignGood, ReceiveStatusGood, SendGood, ReceiveGood, DestroyGood DEF ClientStep
<1>2. ASSUME NEW c \in Client, SessionStep(c)
      PROVE  Good
  BY <1>2, RunGood, ReceiveRequestGood, SendResponseGood, DestroySessionGood DEF SessionStep
<1>3. CASE ServerStep
  BY <1>3, StopSessionsGood, StopAcceptorGood, JoinGood DEF ServerStep
<1> QED
  BY <1>1, <1>2, <1>3, InterruptGood, KillGood, AcceptorStepGood, StopGood,
     CrashGood, RestartGood, LinkStutters
  DEF Next

(* The invariant holds in every state: while the server is up nobody but   *)
(* the client and its session opens their pipe, the session answers only   *)
(* where the client reads, and createFifoSession makes one session for a   *)
(* client, whoever is late, dies, stops or crashes.                        *)
THEOREM LinkInvariant == Spec => []LinkInv
<1>1. Init => LinkInv
  BY LinkInit
<1>2. FifoInv /\ LinkInv /\ [Next]_vars => LinkInv'
  BY LinkStep DEF Good
<1> QED BY <1>1, <1>2, FifoInvariant, PTL DEF Spec

LEMMA AtMostOne == \A n \in Nat : n # 0 /\ n <= 1 => n = 1
  OBVIOUS

(* Fifo::readStringBlock, in client, session and acceptor alike, finds one *)
(* message at most, and that message is for the one who reads, until       *)
(* Server::stop opens the pipes to unblock their readers.                  *)
THEOREM ReaderIsAddresseeAlways == Spec => []ReaderIsAddressee
<1>1. FifoInv /\ LinkInv => ReaderIsAddressee
  <2> SUFFICES ASSUME FifoInv, LinkInv, srv.pc = "up", NEW p \in Pipe, pipe[p].data # <<>>
               PROVE  /\ Len(pipe[p].data) = 1
                      /\ pipe[p].reading \subseteq {To(Head(pipe[p].data))}
    BY DEF ReaderIsAddressee
  <2>1. /\ pipe[p].data \in Seq(Message)
        /\ Head(pipe[p].data) = pipe[p].data[1] /\ Len(pipe[p].data) \in Nat \ {0}
    BY Messages, PipeParts
  <2>2. CASE p \in Client
    <3>1. KeptInv(p) /\ OpenInv(p) /\ ForInv(p) /\ Session(p) # p
      BY <2>2, OwnFacts, Threads
    <3>2. Server \notin pipe[p].reading /\ pipe[p].reading \subseteq {p, Session(p)}
      BY <3>1 DEF KeptInv, OpenInv, Ends
    <3> QED BY <2>1, <3>1, <3>2 DEF ForInv, To
  <2>3. CASE p = Acceptor
    <3>1. /\ Len(A.data) = 1 /\ A.data[1].kind \in {"signature", "status"}
          /\ A.data[1].kind = "status" => Acceptor \notin A.reading
          /\ Current(A.data[1]) /\ A.data[1].id \in Client /\ A.linked /\ ~acc.stopped
          /\ A.reading \subseteq Client \cup {Acceptor}
      <4>1. StatusInv /\ ServerInv /\ TokenInv /\ EndsInv
        BY DEF LinkInv, FifoInv, StartInv
      <4>2. Len(A.data) = 1 /\ 1 \in 1 .. Len(A.data)
        <5> DEFINE n == Len(A.data)
        <5>1. n <= 1
          BY <4>1 DEF StatusInv
        <5>2. n \in Nat /\ n # 0
          BY <2>1, <2>3 DEF A
        <5> HIDE DEF n
        <5>3. n = 1
          BY <5>1, <5>2, AtMostOne
        <5>4. 1 \in 1 .. n
          BY <5>3
        <5> QED BY <5>3, <5>4 DEF n
      <4>3. A.data[1].id \in Client /\ Current(A.data[1])
        BY <4>1, <4>2, SenderKnown DEF TokenInv
      <4>4. A.linked /\ ~acc.stopped /\ A.reading \subseteq Client \cup {Acceptor}
        BY <4>1 DEF ServerInv, EndsInv, Readers
      <4> QED BY <4>1, <4>2, <4>3, <4>4 DEF StatusInv
    <3>2. \A d \in Client : d \in A.reading => Engaged(d)
      BY DEF FifoInv, StartInv, EndsInv, Readers, Engaged
    <3>3. CASE A.data[1].kind = "signature"
      <4>1. Signed(A.data[1].id) /\ A.data[1].id \notin A.reading
        BY <3>1, <3>3 DEF Current
      <4>2. \A d \in Client : d \notin A.reading
        BY <3>1, <3>2, <4>1, Unique
      <4> QED BY <2>1, <2>3, <3>1, <3>3, <4>2 DEF A, To
    <3>4. CASE A.data[1].kind = "status"
      <4>1. \A d \in Client : d \in A.reading => d = A.data[1].id
        BY <3>1, <3>2, <3>4 DEF Current, Only
      <4> QED BY <2>1, <2>3, <3>1, <3>4, <4>1 DEF A, To
    <3> QED BY <3>1, <3>3, <3>4
  <2> QED BY <2>2, <2>3 DEF Pipe
<1> QED BY <1>1, FifoInvariant, LinkInvariant, PTL

(* The fifo side keeps the safety of Conversation: every step of           *)
(* FifoClient, FifoAcceptor, FifoSession and Server is one of its steps or *)
(* none.  A client that is neither killed nor interrupted, whose server    *)
(* goes on and whose threads are in time, leaves only between two          *)
(* requests, and only then does its session go.                            *)
THEOREM ImplementsSafety == Spec => C!SafeSpec
<1>1. Init => C!Init
  BY LinkInit
<1>2. FifoInv /\ LinkInv /\ [Next]_vars => [C!Next]_(C!vars)
  BY LinkStep DEF Good
<1> QED BY <1>1, <1>2, FifoInvariant, LinkInvariant, PTL DEF Spec, C!SafeSpec

=============================================================================
