------------------------------- MODULE Lines -------------------------------
(***************************************************************************)
(* The line reader: Lines::getLine over a FileLines or a StringLines, with *)
(* its fixed buffer.  A caller calls getLine until it returns false or     *)
(* throws.  A byte of the input is its position in the input or Newline,   *)
(* so that no two bytes are mistaken for each other; the buffer starts     *)
(* with whatever its memory holds.  Positions count from 1.                *)
(*                                                                         *)
(* A helper that follows a faulty variant of itself is the code; no action *)
(* uses the variants.                                                      *)
(***************************************************************************)
EXTENDS Integers, Sequences, FiniteSetsExt, SequencesExt

CONSTANTS
  Inputs,         \* the inputs
  Size,           \* ARRAY_SIZE
  KeepDelimiter,  \* _keepDelimiter
  Newline,
  Junk            \* another byte that was in the memory of the buffer

ASSUME LinesAssumption ==
  /\ Size \in Nat \ {0}
  /\ KeepDelimiter \in BOOLEAN
  /\ {Newline, Junk} \intersect (Nat \ {0}) = {}
  /\ Inputs \subseteq Seq(Nat \cup {Newline})
  /\ \A s \in Inputs : \A i \in DOMAIN s : s[i] \in {i, Newline}

VARIABLES
  input,  \* the source
  b,      \* the buffer: its bytes, _sizeInUse, _processed, _inputPosition
  index,  \* _index
  last,   \* _last
  out,    \* the lines returned so far
  ended   \* how the last call of getLine ended

vars == <<input, b, index, last, out, ended>>

-----------------------------------------------------------------------------
(* The end of the line: its delimiter, or the end of the bytes in use.     *)
LineEnd(c) ==
  LET found == {i \in c.processed + 1 .. c.used : c.bytes[i] = Newline}
  IN  IF found = {} THEN c.used + 1 ELSE Min(found)

(* What memmove leaves behind the bytes it moved stays in the buffer.      *)
ShiftNot(c) == [c EXCEPT !.used = @ - c.processed, !.processed = 0]
Shift(c) ==
  [c EXCEPT !.bytes = [i \in 1 .. Size |->
                         IF i <= c.used - c.processed THEN @[i + c.processed] ELSE @[i]],
            !.used = @ - c.processed,
            !.processed = 0]

BytesToRead(s, c) == Min({Len(s) - c.position, Size - c.used})

Refill(s, c) ==
  LET n == BytesToRead(s, c)
  IN  [c EXCEPT !.bytes = [i \in 1 .. Size |->
                             IF i \in c.used + 1 .. c.used + n
                             THEN s[c.position + i - c.used] ELSE @[i]],
                !.used = @ + n,
                !.position = @ + n]

MustRefill(c) == LineEnd(c) = Size + 1 /\ c.position < Len(input)

(* removeProcessedLines throws: nothing is processed, or everything is.    *)
TooSmall(c) == c.processed = 0 \/ c.processed >= c.used

Scanned == IF MustRefill(b) THEN Refill(input, Shift(b)) ELSE b

(* The byte after the bytes in use is read like the others.                *)
EndsWithDelimiter(c) == LineEnd(c) # Size + 1 /\ c.bytes[LineEnd(c)] = Newline

Line(c) ==
  SubSeq(c.bytes, c.processed + 1,
         LineEnd(c) - (IF EndsWithDelimiter(c) /\ KeepDelimiter THEN 0 ELSE 1))

Advance(c) ==
  [c EXCEPT !.processed = LineEnd(c) - (IF EndsWithDelimiter(c) THEN 0 ELSE 1)]

AtEnd(c) == c.processed = c.used /\ c.position = Len(input)

-----------------------------------------------------------------------------
Init ==
  /\ input \in Inputs
  /\ \E memory \in [1 .. Size -> {Newline, Junk}] :
       b = Refill(input, [bytes |-> memory, used |-> 0, processed |-> 0, position |-> 0])
  /\ index = -1
  /\ last = FALSE
  /\ out = <<>>
  /\ ended = "no"

(* Past the bytes in use, the call searches from behind its own end.       *)
CanCall == ended = "no" /\ b.processed <= b.used

NextLine ==
  /\ CanCall
  /\ ~(MustRefill(b) /\ TooSmall(b))
  /\ LineEnd(Scanned) # Scanned.processed + 1
  /\ index' = index + 1
  /\ out' = Append(out, Line(Scanned))
  /\ b' = Advance(Scanned)
  /\ last' = AtEnd(b')
  /\ UNCHANGED <<input, ended>>

NoLine ==
  /\ CanCall
  /\ ~(MustRefill(b) /\ TooSmall(b))
  /\ LineEnd(Scanned) = Scanned.processed + 1
  /\ b' = Scanned
  /\ ended' = "false"
  /\ UNCHANGED <<input, index, last, out>>

Throw ==
  /\ CanCall
  /\ MustRefill(b) /\ TooSmall(b)
  /\ ended' = "thrown"
  /\ UNCHANGED <<input, b, index, last, out>>

-----------------------------------------------------------------------------
Sorted(S) == [k \in 1 .. Cardinality(S) |-> CHOOSE e \in S : Cardinality({x \in S : x <= e}) = k]

(* utility::split with a delimiter: the rows of a text.                    *)
Split(s) ==
  LET ends == {i \in DOMAIN s : s[i] = Newline \/ i = Len(s)}
      marks == <<0>> \o Sorted(ends)
      hasNewline(k) == s[marks[k + 1]] = Newline
  IN  [k \in 1 .. Cardinality(ends) |->
         SubSeq(s, marks[k] + 1,
                marks[k + 1] - (IF hasNewline(k) /\ ~KeepDelimiter THEN 1 ELSE 0))]

(* The other reader, Lines2: a deque of all rows, of which getLine takes   *)
(* the last.  It is what the lines of the input are compared with.         *)
SplitReversedOrder(s) == Reverse(Split(s))
LinesLeft(s, calls) == SubSeq(SplitReversedOrder(s), 1, Len(SplitReversedOrder(s)) - calls)
GetLine(lines) == lines[Len(lines)]
LinesOf(s) == [k \in DOMAIN Split(s) |-> GetLine(LinesLeft(s, k - 1))]

Blank(s) == \E k \in DOMAIN LinesOf(s) : LinesOf(s)[k] \in {<<>>, <<Newline>>}

(* The texts the reader is made for: a newline ends the last line, and the *)
(* buffer takes the longest with its newline.                              *)
Terminated(s) == s # <<>> => s[Len(s)] = Newline

LineTooLong(s) ==
  \E i \in DOMAIN s : \A j \in i .. i + Size - 1 : j \in DOMAIN s /\ s[j] # Newline

(* Whatever is shifted and refilled, the lines returned are the first that *)
(* Lines2 returns and, when getLine returns false, all of them, unless a   *)
(* blank line has stopped it; _last, on which TaskBuilder closes a batch,  *)
(* is set with the last line and with no other.                            *)
ReadsLines ==
  /\ IsPrefix(out, LinesOf(input))
  /\ ended = "false" /\ ~Blank(input) => out = LinesOf(input)
  /\ last <=> (out # <<>> /\ out = LinesOf(input))

=============================================================================
