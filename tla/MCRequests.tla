----------------------------- MODULE MCRequests -----------------------------
(* Requests over all texts of up to MaxLength bytes that end with a        *)
(* newline and have no line that is longer than the buffer of the reader.  *)
EXTENDS Requests

CONSTANTS MaxLength, EndA, EndB

TwoBytes == <<EndA, EndB>>

Text(n) == {[i \in 1 .. n |-> IF i \in d THEN Newline ELSE i] : d \in SUBSET (1 .. n)}

TerminatedTexts ==
  {s \in UNION {Text(n) : n \in 0 .. MaxLength} :
     Terminated(s) /\ ~LineTooLong(s)}

=============================================================================
