------------------------------ MODULE Requests ------------------------------
(***************************************************************************)
(* The way of the requests from the source of a client to the rows of a    *)
(* Task on the server, and of the responses back to the output:            *)
(* TaskBuilder::createSubtask reads lines (Lines), puts the id before each *)
(* and aggregates them; a message (Header) brings the aggregate to the     *)
(* session; Task::update splits it with splitReuseVector, into rows that   *)
(* keep what earlier messages left in them; EchoPolicy makes the           *)
(* responses; Session::buildReply strings them together, and               *)
(* Client::printReply writes them out.                                     *)
(*                                                                         *)
(* A message is written into a pipe that may hold less than all of it, and *)
(* read in pieces of whatever size, while it is written.  Nothing is       *)
(* compressed or encrypted here, so that a second header stands before the *)
(* text.  The builder waits while a message is on its way.                 *)
(***************************************************************************)
EXTENDS Lines, Header

CONSTANTS
  BufferSize,  \* _bufferSize
  ChunkSize,   \* BUFFER_SIZE of the reads
  Capacity,    \* what a new pipe holds
  SetPipeSize, \* _setPipeSize
  PipeSize     \* _pipeSize

(* What getRequestId makes of a number.                                    *)
Id(i) == <<"id", i>>
Ids == {"id"} \X Nat

(* The size of an aggregate, at most one line above _bufferSize, can be    *)
(* written into a header; the end of a message is told from what precedes  *)
(* it by its bytes.                                                        *)
ASSUME RequestsAssumption ==
  /\ BufferSize \in Nat /\ HeaderSize < BufferSize
  /\ ChunkSize \in Nat \ {0}
  /\ {Capacity, PipeSize} \subseteq Nat \ {0} /\ SetPipeSize \in BOOLEAN
  /\ KeepDelimiter
  /\ \A n \in 0 .. BufferSize + Size : n < Limit
  /\ EndOfMessage # <<>> /\ Newline \notin Ids
  /\ {EndOfMessage[i] : i \in DOMAIN EndOfMessage} \cap (Nat \cup {Newline, Junk} \cup Ids) = {}

VARIABLES
  batch,    \* _batch
  capacity, \* what the pipe holds
  unsent,   \* the bytes of a message that are not written
  wire,     \* those that are written and not read
  to,       \* who reads them
  payload,  \* _payload of the reader
  field,    \* _request of the session and _response of the client
  rows,     \* _requests of the Task
  known,    \* the rows the Task has processed, over all messages
  shown     \* what the client has written out

transport == <<capacity, unsent, wire, to, payload, field>>
allVars == <<vars, transport, batch, rows, known, shown>>

IsId(x) == x \in {Id(i) : i \in 0 .. index}

RequestsInit ==
  /\ Init
  /\ batch = <<>>
  /\ capacity = Capacity /\ unsent = <<>>
  /\ wire = <<>> /\ to = "nobody" /\ payload = <<>>
  /\ field = [r \in {"session", "client"} |-> <<>>]
  /\ rows = <<>>
  /\ known = <<>> /\ shown = <<>>

-----------------------------------------------------------------------------
(* The delimiters that split finds, and the rows between them.             *)
Delimiters(s) == Sorted({i \in DOMAIN s : s[i] = Newline})

Pieces(s) ==
  LET marks == <<0>> \o Delimiters(s)
      rest == SubSeq(s, marks[Len(marks)] + 1, Len(s))
  IN  [k \in 1 .. Len(marks) - 1 |-> SubSeq(s, marks[k] + 1, marks[k + 1] - 1)]
        \o (IF rest = <<>> THEN <<>> ELSE <<rest>>)

(* The rows are overwritten from the first on; what follows them stays.    *)
Reuse(old, new) == new \o SubSeq(old, Len(new) + 1, Len(old))

(* splitReuseVector returns the number of delimiters, not of rows.         *)
RowCountOfVector(s) == Len(rows')
RowCount(s) == Len(Delimiters(s))

(* EchoPolicy: the id goes, the newline comes back.                        *)
EchoWithId(row) == Append(row, Newline)
Echo(row) == Append(IF row # <<>> /\ IsId(row[1]) THEN Tail(row) ELSE row, Newline)

(* buildReply: the responses of the rows that were processed.              *)
Responses(requests) == FlattenSeq([k \in DOMAIN requests |-> Echo(requests[k])])

-----------------------------------------------------------------------------
(* Messages: the data have a header of their own, and readMessage starts   *)
(* with an empty payload.                                                  *)
Sent(size, data, status) ==
  LET inner == Serialize(SessionHeader(size, "NONE", "NONE", status)) \o data IN
  Message(SessionHeader(Len(inner), "NONE", "NONE", status), inner, <<>>, <<>>, <<>>)

KeptPayload == payload
FreshPayload == <<>>

(* setPipeSize of a pipe that is opened: only to make it larger, which the *)
(* system may refuse.                                                      *)
Capacities ==
  {Capacity} \cup (IF SetPipeSize /\ PipeSize > Capacity THEN {PipeSize} ELSE {})

Send(reader, size, data, status) ==
  /\ capacity' \in Capacities
  /\ unsent' = Sent(size, data, status)
  /\ wire' = <<>>
  /\ to' = reader
  /\ payload' = FreshPayload

(* pollFd: the writer waits for room.                                      *)
Room == capacity - Len(wire)

(* writeString: as much as there is room for, or less.                     *)
WriteChunk ==
  /\ \E n \in 1 .. Min({Room, Len(unsent)}) :
       /\ wire' = wire \o SubSeq(unsent, 1, n)
       /\ unsent' = SubSeq(unsent, n + 1, Len(unsent))
  /\ UNCHANGED <<vars, batch, capacity, to, payload, field, rows, known, shown>>

ReadChunk ==
  /\ to # "nobody" /\ ~IsComplete(payload)
  /\ \E n \in 1 .. Min({ChunkSize, Len(wire)}) :
       /\ payload' = payload \o SubSeq(wire, 1, n)
       /\ wire' = SubSeq(wire, n + 1, Len(wire))
  /\ UNCHANGED <<vars, batch, capacity, unsent, to, field, rows, known, shown>>

(* processMessage, and the inner header off the text.                      *)
Received(reader) ==
  /\ to = reader /\ IsComplete(payload)
  /\ field' = [field EXCEPT ![reader] =
                 Body(Fields(WithoutEnd(payload), <<@>>)[1])]

-----------------------------------------------------------------------------
Full(s) == Len(s) >= BufferSize - HeaderSize

Aggregated == batch \o <<Id(index')>> \o out'[Len(out')]

AddLine ==
  /\ ~last /\ to = "nobody"
  /\ NextLine
  /\ ~(Full(Aggregated) \/ last')
  /\ batch' = Aggregated
  /\ UNCHANGED <<transport, rows, known, shown>>

SendSubtask ==
  /\ ~last /\ to = "nobody"
  /\ NextLine
  /\ Full(Aggregated) \/ last'
  /\ Send("session", 0, Aggregated, "NONE")
  /\ batch' = <<>>
  /\ UNCHANGED <<field, rows, known, shown>>

(* getLine returns false or throws: the batch begun is not sent.           *)
Abandon ==
  /\ ~last /\ to = "nobody"
  /\ NoLine \/ Throw
  /\ UNCHANGED <<transport, batch, rows, known, shown>>

(* Session::processTask, Task::update, and the reply.                      *)
ProcessRequest ==
  /\ Received("session")
  /\ LET text == field'["session"]
         requests == SubSeq(Reuse(rows, Pieces(text)), 1, RowCount(text)) IN
     /\ rows' = Reuse(rows, Pieces(text))
     /\ known' = known \o requests
     /\ Send("client", Len(Responses(requests)), Responses(requests), "NONE")
  /\ UNCHANGED <<vars, batch, shown>>

PrintReply ==
  /\ Received("client")
  /\ shown' = shown \o field'["client"]
  /\ to' = "nobody"
  /\ UNCHANGED <<vars, batch, capacity, unsent, wire, payload, rows, known>>

RequestsNext ==
  \/ AddLine \/ SendSubtask \/ Abandon
  \/ WriteChunk \/ ReadChunk
  \/ ProcessRequest \/ PrintReply

RequestsSpec == RequestsInit /\ [][RequestsNext]_allVars

-----------------------------------------------------------------------------
(* The requests of the source, each with its id and without a newline.     *)
RequestsOf(s) ==
  [k \in DOMAIN LinesOf(s) |-> <<Id(k - 1)>> \o Front(LinesOf(s)[k])]

(* The rows the server works on are the requests of the source, each once  *)
(* and in order, none of an earlier message; when the source is read and   *)
(* the last message answered they are all of them.                         *)
EveryRequestOnce ==
  /\ IsPrefix(known, RequestsOf(input))
  /\ last /\ to = "nobody" => known = RequestsOf(input)

(* Whatever pieces the messages are read in, the output is the source, "to *)
(* run 'diff' with the source file", and no byte of a header, of an id or  *)
(* of an earlier message gets into it.                                     *)
EchoesSource ==
  /\ IsPrefix(shown, input)
  /\ last /\ to = "nobody" => shown = input

=============================================================================
