------------------------------- MODULE Pipes -------------------------------
(***************************************************************************)
(* A named pipe of the operating system, as src/common/Fifo.cpp uses it:   *)
(* one pipe serves both directions, every message is preceded by an open   *)
(* and followed by a close, the reader opens with O_RDONLY (which waits    *)
(* for a writer) and the writer with O_WRONLY | O_NONBLOCK (which does not *)
(* wait for a reader, but fails).                                          *)
(*                                                                         *)
(* A message is one element of data: that it is written in several pieces  *)
(* and may fill the pipe shows in no property, since the reader goes on    *)
(* until it has seen the end of the message.                               *)
(***************************************************************************)
EXTENDS Sequences

NewPipe ==
  [linked  |-> FALSE,  \* the name is in the file system
   opening |-> {},     \* waits in open(O_RDONLY); counts as a reader
   reading |-> {},     \* has the read end open
   writers |-> {},     \* has the write end open
   data    |-> <<>>]   \* messages written and not yet read

PipeType(Process, Message) ==
  [linked : BOOLEAN, opening : SUBSET Process, reading : SUBSET Process,
   writers : SUBSET Process, data : Seq(Message)]

HasReader(q) == q.opening \cup q.reading # {}

(* open(O_RDONLY) returns when a writer is there, or comes: even one that  *)
(* closes again before the reader runs.                                    *)
OpenRead(q, i) ==
  IF q.writers = {} THEN [q EXCEPT !.opening = @ \cup {i}]
                    ELSE [q EXCEPT !.reading = @ \cup {i}]

OpenWrite(q, i) ==
  [q EXCEPT !.writers = @ \cup {i}, !.reading = @ \cup q.opening, !.opening = {}]

Put(q, m) == [q EXCEPT !.data = Append(@, m)]

Drain(q) == [q EXCEPT !.data = <<>>]

EndOfFile(q) == q.data = <<>> /\ q.writers = {}

(* What nobody has read is lost with the last descriptor.                  *)
Close(q, i) ==
  LET r == [q EXCEPT !.opening = @ \ {i}, !.reading = @ \ {i}, !.writers = @ \ {i}]
  IN IF HasReader(r) \/ r.writers # {} THEN r ELSE Drain(r)

Link(q) == [q EXCEPT !.linked = TRUE]
Unlink(q) == [q EXCEPT !.linked = FALSE]
=============================================================================
