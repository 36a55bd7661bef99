# ClientServer in TLA+

A verification project for the C++ client/server system in `src/`: TLA+ modules
translated from the source, TLC configurations that check them on small
instances, and theorems about them whose proofs TLAPS checks.

## 1. The system

A server accepts TCP and FIFO (named pipe) clients. A client sends batches of
requests (text lines, compressed and encrypted by one or two crypto libraries);
the server computes one response per line and sends the batch of responses
back. `docs/README.md` of the repository gives the overview; the inventory
below is from the code.

| Component | State | Operations | Interacts with |
|---|---|---|---|
| Batch engine: `TaskController`, `Task` | phase, current Task, queue of Tasks, stop flag; per Task the counter, rows, keys, sort order, responses, promise | workers claim and process rows in two rounds separated by a `std::barrier`; its completion function sorts, fulfils the promise, waits for the next Task | sessions push a Task and block on its promise |
| Thread pools: `ThreadPoolBase`, `ThreadPoolSessions`, `Runnable` | threads, queue of runnables, `_totalNumberObjects`, running counters per type and in total | `calculateStatus`, `push`, `get`, thread loop, `stop` | acceptors push sessions; pool threads run them |
| Server: `Server` | session map, the pools, the acceptors | start, createTcp/FifoSession, startSession, stop | everything on the server side |
| TCP side: `TcpAcceptor`, `TcpSession`, `Connection`, `Tcp` | acceptor loop, socket, timers | accept, handshake, heartbeat reply, read / process / write loop | `Server`, `TcpClient`, heartbeat |
| FIFO side: `FifoAcceptor`, `FifoSession`, `Fifo` | pipes in the file system | create, open (blocking or with retries), read, write, unblock, remove | `Server`, `FifoClient` |
| Client: `Client`, `TcpClient`, `FifoClient` | status, keys, loop counter | key exchange, status, send / receive / print loop, signals | acceptor, session |
| Batch builder: `TaskBuilder`, `Subtask` | two buffers of subtasks, status, resume flag | run (producer), `getTask`, `resume`, `stop` (consumer) | the client's main thread |
| Heartbeat: `TcpClientHeartbeat` | socket, two timers, close flag | write, read, period and timeout waits | `TcpAcceptor::replyHeartbeat` |
| Framing: `Header`, `IOUtility`, `Utility` | none (pure) | serialise and parse headers and their fields, find the end of a message, split a text into lines | every message |
| Sources: `Lines`, `FileLines`, `StringLines` and their second versions | buffer, processed and used sizes; a deque of rows | `getLine`, refill | `TaskBuilder`, `Ad`, tests |
| Business logic: `Transaction`, `Ad`, `AdBid`, policies | ad table per size, thread-local cache | parse, match, choose the winning bid | `Task::processNext` |
| Cryptography: `Crypto*` | keys of the agreement and for signatures, the agreed key and its handler | sign, verify, key exchange, encrypt, decrypt | sessions and client |
| Compression: `Compression*` | none | compress, uncompress | `CryptoOperations` |
| Options: `Options`, `ServerOptions`, `ClientOptions`, `BoostJsonParser` | static members | parse a JSON file once, at the start | everything |
| Logging, metrics, `monocypher` | - | - | - |

### What is hard

* **Two rounds by many threads over one reused Task**: claims by `fetch_add`, a
  second read of the counter, a completion function that hands the Task back to
  its session *before* it drops it.
* **Check-then-act in the pools**: a running counter is read under the queue
  mutex, incremented after it is released; the counter that decides whether to
  create a thread is decremented by threads that ran nothing.
* **Order of the handshake**: the status is sent from the constructor of the
  session, before the pool computes it and, for FIFO, before the pipe exists.
* **Start-up and shut-down**: acceptors still run when the sessions are stopped; a
  worker leaves without arriving at the barrier.
* **Producer/consumer without a timeout** in the client: an error that notifies
  nobody, an input that ends in the middle.
* **Pipes**: opens that block until the other side opens, retries that end, messages
  that are longer than the pipe; a named mutex that outlives the client that held it.
* **Late answers**: a heartbeat that has timed out carries that status in its next
  message and gets it back.
* **Boundaries**: lines that end exactly where a buffer ends, a last line without a
  newline, header fields parsed from the wrong offset.

### What makes each part correct

| Part | Properties |
|---|---|
| Batch engine | every batch is answered once, whole, by its own data, in the order of the pushes; workers touch only a Task whose session waits; stop joins the workers |
| Session pool | a session runs once; no more run than `MaxTotalSessions`; a waiting session runs in the end; stop joins the threads |
| A connection of either kind | a request is answered once, by the session of its client; a session ends with its client; other clients are not disturbed |
| FIFO side | a message reaches its addressee and nobody else; requests and replies stay in step; nobody waits for ever, also after the server was started again; stop returns |
| TCP side | one message at a time in a connection; clients and heartbeats end; stop returns |
| Task builder | the client sends the batches of the sources whole and in order; no wake-up is lost; stop joins the builder |
| Sources, framing and splitting | each line of the source becomes one request of the server, in order, through a pipe of any size; what is echoed is the source |
| Business logic | a reply is the one the file of ads gives, whatever the worker has served before |
| Encryption | signatures and keys arrive as they were sent; a cipher works with the agreed key; the key is hidden when nobody uses it; what one side compresses and encrypts the other reads; every message is answered |

## 2. Plan

Done, in this order:

1. `BatchQueue`, `TaskController`, `TaskControllerProofs`: the batch engine, its
   abstract specification, and both proved.
2. `SessionPool`, `SessionPoolProofs`: the pool of sessions with its stop.
3. `TaskBuilder`, `TaskBuilderProofs`: producer and consumer of the client.
4. `Lines`, `Header`, `Requests`, `RequestsProofs`: from the bytes of a source, through
   framed messages, to the rows of a Task and back to the output, with the proof of the
   whole way.
5. `Pipes`, `FifoSessions`, first half of `FifoSessionsProofs`: pipes, and the FIFO
   conversation over them, with the proof of its invariants.
6. `TcpSessions`, `TcpSessionsProofs`: the TCP conversation with heartbeats and timers.
7. `Conversation`, the second halves of `FifoSessionsProofs` and `TcpSessionsProofs`: the
   abstract conversation, and the proof that both sides implement its safety.
8. `KeyHandler`, `Authentication`, `Compression`, `Options`, `Encryption`,
   `EncryptionProofs`: the key handler and the ciphers composed with it, from the option
   files to the last reply, and the proofs of both.
9. `Matching`, `MatchingProofs`: ads, requests, the winning bid, the cache of a worker, and the
   proof that replies are those the file gives.

Left: the file of ads read through `Lines` instead of entry by entry; one instance of the
whole server, which is far beyond TLC.

## 3. The modules

A helper such as `WakeUp` comes after a variant such as `WakeUpDeaf`: the fault a
property must be able to see. No action uses the variants.

**TaskController** (`TaskController.cpp`, `Task.cpp`, the loop of `Session.cpp`).
`wpc` is the place of a worker in `Worker::run`: the test of `_stopped`, the
`fetch_add`, the work on the row, the second test of the counter, the barrier. The
completion function is two steps, `Finish` (the promise) and `SetNextTask`, because
the session wakes up between them. Data is reduced to its age: `batch` is the number of
the batch whose text a Task holds, a key or a response carries the batch it was
computed from; a stale row is a row with another number. `Init` allows both
phases, since `_phase` is static and survives a controller.
`BatchQueue` is what it promises: submit, answer in order, deliver. `Promised` is the
refinement mapping: pending batches are the one in service and the queue.

**SessionPool** (`ThreadPoolSessions.cpp`, `ThreadPoolBase.cpp`, `Runnable.h`,
`Server::startSession`). Every access to a counter is a step; `get` scans the queue
element by element under its mutex (`scanner`, `pos`). A thread that found nothing
still decrements `_totalNumberObjects` in `Finally`, whose test and decrement are two
steps; the counter wraps at `Wrap`. A thread that finds nothing to wait for sleeps on the condition
variable (`Sleep`); `push` wakes one thread, `stop` all, and a thread that has only tested the
predicate cannot miss them, since it tests and sleeps under the mutex. Spurious wake-ups are left
out: they could only hide a notification that is lost. A use of the pool says who connects and
in which order, the total limit, and whether the server is stopped: `stopSessions`, the end of
the acceptors, `stop` of the pool with its notification, and the join.

**TaskBuilder** (`TaskBuilder.cpp`, `Client::run`, `processTask`, `stop`, and the pool
of one thread the builder runs in). Each wait on a condition variable is test and sleep, so
that a lost notification shows. A subtask is the pair of its source and its number. `Faults`
selects what may go wrong: the source cannot be opened, the builder throws, a blank line, a
send fails.

**Lines, Header, Requests** (`Lines.cpp`, `FileLines.cpp`, `Lines2.cpp`,
`TaskBuilder::createSubtask`, `Header.cpp`, `IOUtility.cpp`, `Utility.h`, `Task::update`,
`Session::buildReply`, `EchoPolicy`). The buffer byte by byte; a byte is its position in the
source or a newline, and a fresh buffer holds anything. The second reader, which splits
the whole text into a deque, is the reference `ReadsLines` compares the first with.
`Requests` EXTENDS both: lines get their ids, are cut into messages, get a header, are
written into a pipe as much at a time as it has room for (`Capacity`, or what `setPipeSize`
made of it) and read in pieces of any size up to `ChunkSize`, until the end of message is
found; they are split into the reused rows, and what `EchoPolicy` replies is printed. A
serialized header has one element per member, numbers have `FieldDigits` digits of `Radix`;
`deserialize` reads the fourth size from the third field, as the code does.

**Conversation** is what both connections promise: a client arrives and asks, its session
replies, the client receives and asks again or leaves, the session goes. Only a client that
cannot be trusted - one that is interrupted, killed, faulty, slow, or of a server that is stopped,
fails or crashes - is broken off. `Lively`: a request of a trusted client is answered, and the
session of a client that has left goes. `PlaceOf`, `ReplyOf` and `SessionOf` are the
refinement mappings of the two modules.

**Pipes, FifoSessions** (`Fifo.cpp`, `FifoAcceptor.cpp`, `FifoSession.cpp`,
`FifoClient.cpp`, the FIFO part of `Server.cpp`). `Pipes` is the operating system:
who has a pipe open for reading and writing, what is in it, whether its name exists.
Every open, read, write and close is a step. `acc`, `ses`, `cl` and `srv` are the places of
the acceptor, the sessions, the clients and `Server::stop`. The server may crash and be started
again, which removes the named mutex and the pipes: `mutex` maps every mutex object
there has been to its holder, and a client keeps the one it has opened.

**TcpSessions** (`TcpAcceptor.cpp`, `TcpSession.cpp`, `Tcp.cpp`, `TcpClient.cpp`,
`TcpClientHeartbeat.cpp`, the TCP part of `Server.cpp`). A connection is two queues of
messages and its open sides. An event loop of asio is the operation outstanding; a step
is the handler of its completion. A timer may fire at any time for a client that is `slow`: a
session's ends it after the reply, a heartbeat's gives the next beat the status
`HEARTBEAT_TIMEOUT`, which the server echoes and which ends the heartbeat; the client sees its status
while the pool holds it (`HeartbeatStatus`). A signal may end a client, or its heartbeat, where
each waits for its socket. `StartServer` and
`StartFails` are `Server::start`, which fails after the acceptor has begun to accept.

**KeyHandler, Authentication, Compression, Options, Encryption** (`CryptoSodium`,
`CryptoPlPl`, `CryptoTuple`, `CryptoVariant`, `CryptoOperations`, `Compression*`, `Options`,
`BoostJsonParser`, `Client.cpp`, `Session.cpp`). The bytes of a key are the set of the random
blocks xored into it, xor is the symmetric difference. `setAESKey` is a step per statement
under its mutex. `Authentication` has the signatures and keys byte by byte as far as their lengths
matter: they are concatenated on one side and cut apart by length on the other.
`Compression` has what each library's wrapper adds to a block and needs to undo it. `Options` is
what becomes of the strings of a file, of a string nobody knows, and of a file that
cannot be parsed. `Encryption` EXTENDS them all with the handshake, the two threads of the
client and that of the session, one or two layers, the tuple and the variants, and the options and
builds of both sides (`Configurations`).

**Matching** (`Ad.cpp`, `Transaction.cpp`, the policies, `Server::setPolicy`). One worker, since
what it keeps is `thread_local`. A keyword is a number, a request what its parser finds
in it: two forms of the size, two forms of the keywords, and the numbers that come after a form
without its own; or it is empty. `adVector` is the reference a worker
keeps, as the key it was looked up with. Money is in cents (of an amount `findWinningBid` can hold
in an `int`), and a reply gives it rounded to a tenth, as it is printed; with diagnostics the reply also names the matches. The server stops and starts with
another file, which clears and fills the static map again.

How they fit: `FifoSessions` and `TcpSessions` assume of the pool that a queued session
gets a thread (`SessionPool`: `WaitingRuns`) and of the engine that a request is answered
(`TaskController`: `BatchesAnswered`); what they give is one specification, `Conversation`.
`TaskController` assumes that a message becomes the rows of its Task (`Requests`), and gives
`Matching` keys of the present batch; `Requests` and `TaskBuilder` share `createSubtask`, one its
data, the other its control; `Requests` and `Encryption` share `Header`; `Encryption`
assumes a connection that delivers (`OneMessage`, `InStep`).

## 4. The runs

Distinct states, in brackets, are those of a complete exploration.

| Run | Instance | Checks | Shows |
|---|---|---|---|
| `task` | 2 workers, 2 sessions, 2 batches of at most 2 rows, SORTINPUT (355 000) | `TypeOK` `OwnedWhileTouched` `ClaimsDisjoint` `RepliesComplete` `FinishOnce` `ImplementsBatchQueue` `BatchesAnswered` `StopReturnsWhenWarm` | the engine answers each batch once, whole, in order; stop returns after the first batch |
| `task_warmup_stop` | same | `StopReturns`, violated | stop may hang in the start-up rounds (section 6) |
| `pool` | 3 sessions of 2 types, limits 1 and 2, total 2 or 3; or one of each type and a stop (108 000) | `TypeOK` `RunsOnce` `WithinTotal` `WaitingRuns` `StopJoins` | sessions run once, within the total, and, when clients leave, each in the end: no notification is lost; stop joins the threads |
| `pool_type_limit` | 2 TCP sessions, limit 1 | `WithinType`, violated | section 6 |
| `builder` | 3 tasks of at most 3 subtasks, every fault (64 000) | `TypeOK` `SendsBatch` `TaskArrives` `StopJoins` | batches whole and in order, no wake-up lost, stop joins the builder |
| `builder_error` | 2 tasks of at most 2 subtasks | `ErrorReported`, violated | section 6 |
| `requests` | all texts of at most 9 bytes that end with a newline, buffer of 5, a pipe of 9 or 16, reads of 7 (149 000) | `ReadsLines` `EveryRequestOnce` `EchoesSource` | each line becomes one row, in order, and comes back |
| `fifo_safety` | 2 clients of 2 requests that may die and be interrupted anywhere, opens that give up anywhere (809 000) | `TypeOK` `ReaderIsAddressee` `OwnSession` `InStep` | no message goes astray |
| `fifo_live` | 2 clients of 1 request; 1 client of 2 and a stop at any point; 1 client of 2 that may be interrupted; a client that may die, a crash and a restart, and another client; no delays of 200 ms (59 000) | `ClientsEnd` `Reconnects` `ImplementsConversation` `StopReturns` | nobody waits for ever; a mutex left locked keeps no later client away |
| `tcp` | 2 clients, one beats; five uses: interrupted or killed, faulty, stopped under load, late timers, a server that fails to start (229 000) | `TypeOK` `OneMessage` `ImplementsConversation` `ClientsEnd` `StopReturns` | one client's troubles are its own; everybody ends |
| `matching` | 2 files of up to 5 ads, 3 sizes, 3 keywords, both parsers, with and without diagnostics (12 000) | `RepliesMatch` | cache, merge and winning bid give what the file says |
| `encryption` | 3 threads, 4 encryptors, 3 messages; 101 settings of builds and option files (30 000) | `EncryptionTypeOK` `RightKey` `HiddenAtRest` `HandshakeIntact` `Readable` `AllReplied` | handshake, ciphers, compression and key handler work together |

**Bounds.** Two workers suffice for every race over the counter of a Task: a third only
adds a claim between two others, and the theorems hold for any number. Two sessions make
a queue of one behind the Task in service; two batches are needed for a stale row and for a
promise that is renewed; two rows for a sort that permutes. The pool has one more place
for a thread than the total so that `TypeOK` can see one created too many; limits of 1 and 2 with
totals of 2 and 3 let either limit be the one that binds, and leave threads that spin over a session of a
full type; of two sessions of a type one always comes first, since nothing else tells them apart. In
`requests` 9 bytes are nearly two full buffers, so a line may end before, at and behind the end
of a buffer that was shifted; a batch of 14 bytes with its header takes more than one line and
fewer than all; a message is longer than a pipe of 9 and a read of 7, so that its writer waits
and its end may be cut. One pipe is shared by two parties, the acceptor's by two clients: two
clients are what can collide. Two requests of a client make the reply to one and the next
request meet. Two clients have one request each in `fifo_live`, since a session returns to the
same open after each. Stop, death and restart together, with opens that give up, are too many
states for two clients of two requests: `Uses` lists the uses a run explores, each from its own
initial state. One beat that times out and one that brings the status back are the two of
`tcp`. The files of `matching` have several ads of one size, ties between them, bids of 0, an ad
without bids and a malformed entry; requests repeat keywords and name them out of order, in either
form, with sizes that have ads in both files, in one and in none. Three messages let the builder be
two ahead of the printing thread. The option files of `encryption` combine every switch with
every choice of libraries and with compressors that differ on the two sides. The symmetry of
`fifo_safety` is sound because both clients may do all, and only invariants are checked there.

**Deadlock** is not checked as such: in every instance the clients end, the sources
end or the server is down, and the system stops. That nobody waits who should not is
what the liveness properties say.

**Fairness.** A thread that can take a step takes one (`WF` of each thread's step): the
operating system schedules it, and a handler of asio runs when its operation has
completed. `SF` is assumed where threads compete for a mutex again and again: the
queue of `SessionPool`, the mutexes of the encryptors. Nothing is assumed of users,
signals, faults, timers and clients that leave, except in `ClientsLeave`, where clients end:
docs/README.md:184-185 makes that the condition for a waiting client to start. `WaitingRuns` promises no
more: that clients start at once while the limits allow it does not hold (section 6).
`Late = FALSE` in the FIFO liveness runs is a timing assumption: a thread that is on its way to
an open gets there within the 200 attempts of `Fifo::openWriteNonBlock`, one millisecond apart
each. Without it peers can miss each other (section 6). `fifo_safety` does not assume it.

**Conditions in the properties.** `StopReturns` of either side says nothing of a client
between connect and its session while the server stops: `stopSessions` runs before the
acceptors stop, and a session made in between is not stopped (Server.cpp:83-92).
`ImplementsConversation` promises answers to trusted clients only, and on the FIFO side the end of
sessions that found their client. `Reconnects` speaks of clients that opened the mutex of the
present server. `TaskArrives` lets the client wait when the builder has failed or met a
blank line. `ClientsEnd` of the TCP side ends when the acceptor has ended. `ReadsLines`
and what follows from it are about texts whose lines fit in the buffer and end with a newline.

## 5. The proofs

`TaskControllerProofs` (any workers, sessions, sizes and numbers of batches;
assumption: `ConstantsAssumption`). `TypeCorrect` first, then the inductive invariant `IInv`.
The safety properties are not inductive: `RepliesComplete` speaks of the end of a round
and needs to know how a round gets there. `IInv` adds

* `RoundProgress`: every row below the counter is done or in the hands of a worker;
* `WorkersOK`: claims are distinct rows, and a worker in the barrier saw the counter
  beyond the size - so when all have arrived no row is in anybody's hands and all are done;
* `ServiceOK`, `QueueOK`, `SessionsOK`: the Task in service and those in the queue belong to
  sessions that wait on an unfulfilled promise, each once. This is what keeps the session
  from rewriting its Task, and `Finish` from meeting a fulfilled promise.

From it follow `NoForeignTask`, `RowsApart`, `EveryReplyComplete`, `PromiseKeptOnce` and
`SortAfterPreprocess`. `Refinement` shows step by step that the engine implements the
safety part of `BatchQueue`: `Push` submits, `Finish` serves, `Collect` delivers, the
rest stutters; the one step that is not obvious is `SetNextTask`, which moves the
head of the queue to the service and leaves the sequence of pending batches as it was.

`SessionPoolProofs` (any sessions, types and limits; `PoolAssumption`). The counters are changed
outside the mutex of the queue, so no single step shows that they are right. The invariant has
three parts: `ThreadInv` - the threads there are are the first `_threads.size()`, at most
`MaxTotalSessions`, and a thread has a session exactly between `get` and the end of the run;
`CountInv` - a running counter is the number of threads between the two statements that change
it, so it never exceeds the number of threads; `PlaceInv` - a session is with its creator, in the
queue, or with one thread. `SessionRunsOnce`, `TotalIsRespected` and `PoolTypes` follow.

`TaskBuilderProofs` (sources of any size, any number of tasks, any faults; `BuilderAssumption`).
`SendsBatch` compares what the client sent with what the source had; between them are
two buffers and a swap. `SourcesInv` counts the sources opened against the tasks taken;
`IndexInv` and `BatchInv` say that the subtasks up to the index are those made so far, and the whole
source when the status says so; `TakenInv`, that what the client swapped is the batch of the
next source, because the builder cannot leave its wait before `resume`. `ThreadInv` is about
the pool's thread and who has stopped what.

`RequestsProofs` (any buffer, batch, chunk and pipe; `LinesAssumption`, `HeaderAssumption`,
`RequestsAssumption`) has one hypothesis about the inputs, `ReaderInputs`: the last line ends with a
newline and every line fits into the buffer with it. Other inputs the code truncates, throws
at or reads past (section 6), so that nothing of the kind holds for them. Where it throws at an
input that fits, at a full buffer that ends with a line, the theorems are about what was returned
until then, and `_last` is not set. `RequestsAssumption` says besides what sizes make sense: that the size of an aggregate, at most one line above
`_bufferSize`, has digits enough in a header (otherwise `toCharsBoost` cuts it), and that the bytes of
`ENDOFMESSAGE` are none of those of a text, an id or a number.

The ends of the lines, sorted, are the `Marks` of an input, and the lines of `Lines2` are the rows
between neighbouring marks (`MarksFacts`, `Rows`; these rest on `SortedFacts`, that `Sorted`
lists a finite set of numbers upwards). `ReaderInv` is what `getLine` keeps: the buffer holds the bytes of
the input that precede `_inputPosition`, it is full or the input is at its end, and the place of
`_processed` in the input is the mark of the lines returned. `ShiftCopies` and `RefillCopies` show
that `removeProcessedLines` and `refillBuffer` keep that place; `ScanFacts`, that after them a newline
is found or nothing is left - here the two hypotheses are used, a refill of a buffer without
a newline always makes room for one; `NextMark`, that the newline found is at the next mark.
`ReadsLinesAlways` follows.

`RequestsInv` adds the way of the requests. What the session has processed are the first `Len(known)`
requests of the source; those from there to `Len(out)` are in the batch, or on the way, or
answered (`Aggregates`). While a message is on its way, what has been read of it, what is in the pipe and
what is not yet written make the message together, whatever pieces it goes in. When the
reader stops, all of it has been read (`CompleteAtEnd`), both headers come off (`SentFacts`), and
`splitReuseVector` finds a delimiter at the end of each request and nowhere else (`DelimitersFacts`,
`Splits`), so that the rows it counts are the requests of the message although longer
messages have left rows behind them (`ReuseFacts`). `EveryRequestOnceAlways` follows.

`Answered` is the same for the way back. The lines between two marks are a `Passage` of the
input; `Echo` makes of a request the passage it was gathered from (`EchoIs`: the id comes off, the
newline is put back), passages that meet join (`PassagesJoin`), and so the responses to the
requests of one message are one passage (`ResponsesAre`). What is shown ends where the passage on its
way begins. The responses are put together by `FlattenSeq`, which the library defines as a function that
meets a recursive equation; `FlattenIs` shows that at most one does, since of the places
where two differ the least one would have to follow from the one before. No induction over
data is needed for that. A reply is shorter than the message that brought its requests, whose ids
it lacks, so that its size has digits enough in a header as well. `EchoesSourceAlways` follows.

`TcpSessionsProofs` (any clients, requests, beats and uses; `TcpAssumption`). `OneMessage` needs a
token: what a client has said last is in one place at most - in its connection, with the
acceptor, with the session, or answered in the connection - and nowhere when the client may speak
(`TokenOf`). `NumberOf` adds which request the token is for and that the first message goes to the
acceptor alone, `BoundOf` keeps the counters below the bounds of the use, `AcceptorInv` says that
an acceptor that is busy has a connection. Most steps leave the token of all other clients alone
or take it away; lemma `Bystander` says so once for all of them.

Its second half (the same constants) shows that `Spec` of `TcpSessions` implies
`C!SafeSpec`: every step of the program is one of `Conversation`, or a stutter. Most of it holds
whatever came before; what does not is that nothing breaks off the conversation of a client that
can be trusted. For that the invariant `ConvInv` says that a connection comes to the acceptor once
and before its client is told its status, so that the acceptor never reads, answers or
closes in the place of the session (`AcceptedInv`); that a client that converses keeps both sides
of its connection open and has a session from its status on (`ServedInv`); and that what
ends a session early, a timer or a stop, is what the use says (`FlagInv`, `StopInv`).

`FifoSessionsProofs` (any clients, requests and uses, threads delayed at will, crash and restart of
the server; `FifoAssumption`). Everybody may read what anybody has written to the pipe of the
acceptor, so `OwnSession` rests on who uses that pipe at the same time. `MutexInv` and
`EngagedInv`: a client between the lock and its status holds the named mutex it has found; since a
restart makes another mutex, the one that counts is that of the server that runs (`Era`), and a
client that found the mutex of the server that crashed does not come to the next one's pipe. Hence
a client that uses the pipe is alone there (`Unique`). `TokenInv`: a signature or a status in
the pipe, and what the acceptor has read or is about to write (`AcceptorInv`), is about the client
that holds the mutex, and a signature is about a client that has not been answered. Once the server
is being stopped the unblocking opens may take a message away, and the invariant then says only
that the acceptor takes no other. `StepInv` is about the client's own pipe: the message is there, or
with the session, or nowhere, and has the number of the request the client is at; from it follows
`InStep`. `EndsInv` and `ServerInv` say who has the acceptor's pipe open at which line, also
across `Crash`, which closes all ends of the server at once. Lemmas such as `TalkKeeps`,
`CalmSteps` and `EndKeeps` treat the many steps that touch one pipe only in one go.

Its second half (the same constants, late threads included): `FifoInv` says what a message in a
pipe is about, `LinkInv` who may take it. `KeptInv`: nobody but a client, its session and the
server that stops has the pipe of the client open. `OpenInv`: which ends either has open at which
line, and that a session never has it open for writing while its client writes or is about to
read. Hence a request is for the session and a reply for the client (`ForInv`). `StatusInv`: a
status is read before anybody else reads the acceptor's pipe. From these follows `ReaderIsAddresseeAlways`.
`SignsOnce`: a client gets one session. `TrustInv`: while a client that can be trusted waits, its
session has the request, or is reading it, or has answered; it goes after its client only. `UseInv`:
what lets a client down is what the use says. With them `ImplementsSafety` shows that every step of
`FifoSessions` is one of `Conversation` or a stutter.

`EncryptionProofs` has two parts. The first is about `KeySpec`, where any thread may use any
encryptor at any time (any threads and encryptors; `KeyAssumption`, among it that there is at least
one random block, and that the key before the agreement is made of such blocks). `KeyInv` says which
line its owner is at for a mutex that is taken (`MutexInv`), that an encryptor whose mutex is free is
hidden (`RestInv`), and what the encryptor looks like at each line of its owner (`LineInv`).
`AlwaysRightKey` and `AlwaysHiddenAtRest` follow. `EncryptionSpec` implies `KeySpec`, since no
encryptor is agreed twice, which follows from the place of the handshake (`AgreedInv`); so the
two hold of the composition (`ConversationRightKey`, `ConversationHiddenAtRest`).

The second is about the composition (any lengths of signatures and keys, any radix and digits that
can hold them, any end of message, any number of messages, builds and option files;
`HeaderAssumption`, `AuthenticationAssumption`, `CompressionAssumption`, `EncryptionAssumption`).
`FieldsRead` says that `processMessage` cuts a message where `sendMessage` has put it together, whatever
the fields are. It needs that the fourth field is not longer than the third, whose size it is
given (Header.cpp:142): `DhBytes <= RsaBytes + 2`, which the 65 bytes of a point of secp256r1 and the 256 of RSA satisfy, is an
assumption for that reason. `Base64Inverse` is the same for base64, `UncompressInverse` for
the compressors. Then `HandshakeIntact` is inductive with what is on the way (`HandshakeInv`), and
`SettingsInv` has what the options of two programs that run have in common. `TrafficInv` says of each
place - the builder, its subtask, the connection, the session, the main thread - which
text is there, and which of the layers it has: `Encrypts` relates those that are on to the
encryptors that are left, `Decrypts` those that are left to the reverse order of the other side. That a layer
comes off again rests on both earlier invariants: the copy of the key is the agreed key although the
other thread hides and recovers it (`KeyInv`), and the secret is that of the peer (`HandshakeInv`).
`PlaceInv` gives the number of the request under way. `ReadableAlways` and `EncryptionTypeOKAlways` follow.

`MatchingProofs` (any sizes, files and requests; `MatchingAssumption`, whose part about files is that
an ad has its own id and names a keyword once). `RepliesMatch` compares a reply with a reference
definition, `Candidates`, that knows no map, no cache, no sort and no merge. State first: `MapInv` says
that the map has for each size the well formed entries that have been read, in their order and once
each (`Listed`), so also after an earlier server had read another file, which `DownInv` needs;
`CacheInv`, that what a worker refers to are the ads of its previous key, or nothing when it has not
had a request with a size. Hence a request finds the ads of its own size (`LooksUp`).

Then data, and this needs loops. No induction is at hand, but a least counterexample is:
`LeastNumber` takes one from any set of numbers, and `Least` draws the conclusion once for all. With it
`OrderExists` shows that keys can be sorted (a selection sort, a place at a time), so that the `CHOOSE` of
`Sort` denotes an order; `LoopExists` and `FlattenExists`, that the recursive functions
of `SetIntersection` and `FlattenSeq` satisfy their equations. `LoopInv` is the invariant of
`std::set_intersection`: what has been put out are the bids passed whose keyword is asked for, once each,
and no keyword passed is one of a bid to come; `Progress` says that the number of turns is enough.
`IntersectionFacts` follows, although a keyword of the request may be repeated. `Fits` relates the
matches of some entries to these entries; it holds of one (`OneAdFits`), of two results put together
(`JoinFits`), and so of all (`MatchesFit`). `LockFacts`: the weak pointer of a bid leads to its own ad.
`WinningFacts`: `findWinningBid` has the first of the highest. `RepliesMatchAlways` follows.

Checked by TLC only: all liveness (`BatchesAnswered`, `WaitingRuns`, `TaskArrives`, `ClientsEnd`,
`StopReturns`, `AllReplied`, ...) and with it the liveness part of `BatchQueue` and of
`Conversation`, since liveness under fairness is out of the prover's reach. Every invariant and
every action property of the passing runs is stated by a theorem as well.

## 6. Where code and documents part

Three are shown by a run:

* **stop in the start-up rounds** (`task_warmup_stop`, TaskController.cpp:116). A worker that sees
  `_stopped` leaves without arriving at the barrier, and the others wait in it for ever.
  After the first batch all workers are together in `setNextTask` and leave together, which
  `StopReturnsWhenWarm` shows.
* **an error of the builder** (`builder_error`, TaskBuilder.cpp:29). It stores
  `ERROR` and notifies nobody; a client asleep in `getTask` is not woken.
* **the limit of a type** (`pool_type_limit`, ThreadPoolSessions.cpp:49). The counter of a type is
  tested in `get` and incremented in `run`, after the mutex is released, so more sessions of
  a type than its limit may run (compare ThreadPoolSessions.cpp:6-9). The total holds, because
  the number of threads bounds it.

The others came up while the modules were written; the properties of section 4 leave
them out by the conditions named there.

* Pool: the scan reads the counter again for each element, so a later session may pass the head of the queue (compare docs/README.md:184-185). A session that waited for its type gets
  no thread of its own later (ThreadPoolSessions.cpp:24; compare line 9). A thread that has run nothing
  subtracts an object it has not counted, down to 0 (ThreadPoolBase.cpp:60-61), and
  `calculateStatus` creates a thread only if the objects are more than the threads
  (ThreadPoolSessions.cpp:21), so a client within both limits may wait until another leaves (compare
  docs/README.md:182-191). With a total of 3, a limit of 1 for TCP and 2 for FIFO: TCP clients t1
  and t2 get threads 1 and 2 (t2 is looked at before t1 is counted), and thread 2 scans the queue
  over and over, since the type of t2 is full by then, each time with a subtraction; FIFO client f1
  makes the objects at most 2, so there is no third thread; nor is there for f2; thread 2 takes f1,
  and f2 waits although 2 of 3 threads are all there are and the limit of its type is 2. Once
  clients leave it runs, which is what `WaitingRuns` says. At both limits the
  status is `MAX_OBJECTS_OF_TYPE` (line 28; compare docs/README.md:187). The status is sent before it is
  computed (TcpSession.cpp:35), so every client is told `NONE`.
* Lines: a blank line ends the source (Lines.cpp:26). A last line without a newline may take
  the byte behind the bytes in use for one (Lines.cpp:24). A full buffer that ends with a line
  throws "too small" (Lines.cpp:37), as it does for a line longer than the buffer - unless that
  line is found after a refill, when it is cut in two. A batch may exceed `BufferSize` by its last line
  (TaskBuilder.cpp:70; compare docs/README.md:348). The last request of a source without a final
  newline is not counted by `splitReuseVector` (Utility.h:77).
* FIFO: the name of the pipe is sent before the pipe exists (FifoSession.cpp:30; compare
  docs/README.md:170-173); a faster client ends, and its session keeps a thread until the server stops.
  When the acceptor gives up sending the status (Fifo.cpp:93), it and the client both wait to
  read, the client with the named mutex. `onExit` (FifoAcceptor.cpp:93) may open the pipe through a
  client that is reading, and the acceptor opens it later. A client that is interrupted
  removes its pipe (FifoClient.cpp:51): a session that starts to open it afterwards cannot be
  reached by name, and stop waits for it - the uses of `fifo_live` keep interrupts and stop
  apart. The session of a client that is away keeps its thread until the server stops.
  A client that waits for a named mutex when the server is started again waits for the object that
  was removed and stays blocked. If clients still sign at that time, two mutexes are in force and two
  clients may use the acceptor's pipe at once; the model lets the server start again only when none does
  (`ClientsRest`).
* TCP: an exception in the accept handler, such as a failed first read, ends the acceptor for
  all later clients (TcpAcceptor.cpp:76; compare docs/README.md:145). A silent server is not
  reported by the heartbeat, whose timeout is read with the answer (TcpClientHeartbeat.cpp:64); a
  refused connection ends it with status `NONE` (line 146). A client of another build, whose
  authentication message is another time, ends the acceptor in the same way. When
  `Server::start` fails after the TCP acceptor runs, the pools are destroyed with running threads and the
  process ends.
* Server: `stop` stops the sessions before the acceptors (Server.cpp:84), so one that an acceptor
  makes in between is not told; `stop` then waits until its client leaves.
* Options: a JSON file that does not parse is reported and nothing else (BoostJsonParser.cpp:16):
  the program goes on to read values of a null object and ends. A string that names no
  enumerator is no error. With `SingleEncryptor` set to `NONE`, `singleEncrypt` loses the text.
* Matching: an ad without bids is reported as skipped and kept (Ad.cpp:67). A request without a
  size is answered "0, 0.0" without its id; `INVALID_REQUEST` is the reply to an empty request alone:
  `printDiagnostics` looks at `_noMatch` first (Transaction.cpp:244). A size without its numbers takes
  any two that come later in the request, be they those of `ad_width=` or of keywords; without two it
  throws out of the noexcept loop of a worker and ends the server (Transaction.cpp:144, 150). With
  `UseRegex` so does a request, even an empty one, in which neither form has its numbers.
* Framing: Header.cpp:142 parses the size of the fourth field from the third. `HandshakeIntact`
  holds all the same, because `substr` stops at the end of the message and the fourth field is the
  last and shorter than the third. `getRequestId` reads an array of `TASK_MAX_SIZE` ids
  without a bound (IOUtility.cpp:78).

## 7. What is not modelled

* The layout of replies; two bids of one ad on the same keyword, whose order `std::sort` does
  not define (data/ads.txt has none).
* Bytes on the wire in the two conversations: a FIFO message is one write and a TCP message one
  element there, since the code writes and reads whole messages in loops. `Requests` has
  the loops, for one message and one pipe.
* A TCP client closes its socket and stops its heartbeat in one step (`StopClient`): nothing the
  heartbeat does depends on the socket of the client, nor the other way round.
* In `stopSessions` the lock of a `weak_ptr` does not delay the destructor of a session.
* `remote_endpoint()` of a new TCP connection throws only if the connection was reset.
* The array of ids behind `getRequestId`: a read past its end has no defined outcome.
* The start and stop of the business pool in `Server`; signals other than the one that
  stops it; run times and what else a client displays.
* `Lines2::_lines` is `thread_local` and is not cleared: a reader that is not read to its end leaves
  its rows to the next of the same thread. Only the tests use it, and read to the end.
* The primary encryptor is a compile-time choice (`CRYPTOSODIUM`); that build is modelled. Ciphers,
  signatures, key agreement and the blocks of the compressors are those of their libraries
  and are taken to work.
* Options that are sizes and times are constants of the modules.
* Logging and metrics, on which nothing depends; `monocypher`, third-party code the core does not
  call; tests and scripts, which were read as documentation.
