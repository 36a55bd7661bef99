------------------------------- MODULE Header -------------------------------
(***************************************************************************)
(* The header of a message and the fields behind it: serialize and         *)
(* deserialize (Header), the numbers of fixed width in it and              *)
(* processMessage (IOUtility), and the message around it as Fifo and Tcp   *)
(* write it and recognize its end.                                         *)
(*                                                                         *)
(* A serialized header has one element per member: the code of an          *)
(* enumerator or the number its digits make.  The bytes of the fields are  *)
(* whatever their sender puts there.                                       *)
(*                                                                         *)
(* A helper that follows a faulty variant of itself is the code; nothing   *)
(* uses the variants.                                                      *)
(***************************************************************************)
EXTENDS Integers, Sequences

CONSTANTS
  Radix,         \* the radix of the numbers in a header
  FieldDigits,   \* FIELD1_SIZE to FIELD4_SIZE: the digits of a number
  EndOfMessage   \* ENDOFMESSAGE

ASSUME HeaderAssumption ==
  /\ Radix \in Nat /\ Radix > 1
  /\ FieldDigits \in Nat \ {0}
  /\ \E Byte \in {{EndOfMessage[i] : i \in DOMAIN EndOfMessage}} : EndOfMessage \in Seq(Byte)

-----------------------------------------------------------------------------
(* A byte of a field is its kind, what it is part of and its place.        *)
Bytes(kind, of, n) == [k \in 1 .. n |-> <<kind, of, k>>]

(* The enumerations, in the order of their codes behind INVALIDLOW.        *)
InvalidLow == 64
HeaderTypes == <<"NONE", "AUTHENTICATE", "DH_HANDSHAKE", "HEARTBEAT", "SESSION", "ERROR">>
Compressors == <<"NONE", "LZ4", "SNAPPY", "ZSTD">>
DiagnosticsKinds == <<"NONE", "ENABLED">>
Statuses ==
  <<"NONE", "SUBTASK_DONE", "TASK_DONE", "BAD_HEADER", "COMPRESSION_PROBLEM",
    "ENCRYPTION_PROBLEM", "DECRYPTION_PROBLEM", "DECOMPRESSION_PROBLEM", "FIFO_PROBLEM",
    "TCP_PROBLEM", "TCP_TIMEOUT", "HEARTBEAT_PROBLEM", "HEARTBEAT_TIMEOUT",
    "MAX_TOTAL_OBJECTS", "MAX_OBJECTS_OF_TYPE", "SESSION_STOPPED", "STOPPED", "ERROR">>

Names(enum) == {enum[k] : k \in DOMAIN enum}
Underlying(enum, name) == InvalidLow + (CHOOSE k \in DOMAIN enum : enum[k] = name)
IsEnumerator(enum, code) == InvalidLow < code /\ code < InvalidLow + Len(enum) + 1
Enumerator(enum, code) == enum[code - InvalidLow]

(* HEADER.                                                                 *)
HeaderRecord ==
  [type : Names(HeaderTypes), size1 : Nat, size2 : Nat, compressor : Names(Compressors),
   diagnostics : Names(DiagnosticsKinds), status : Names(Statuses), size3 : Nat, size4 : Nat]

HeaderSize == 8

(* The headers the program makes.                                          *)
Authenticate(n1, n2, n3, n4) ==
  [type |-> "AUTHENTICATE", size1 |-> n1, size2 |-> n2, compressor |-> "NONE",
   diagnostics |-> "NONE", status |-> "NONE", size3 |-> n3, size4 |-> n4]
Handshake(n1, n2, status, n3) ==
  [type |-> "DH_HANDSHAKE", size1 |-> n1, size2 |-> n2, compressor |-> "NONE",
   diagnostics |-> "NONE", status |-> status, size3 |-> n3, size4 |-> 0]
SessionHeader(n, compressor, diagnostics, status) ==
  [type |-> "SESSION", size1 |-> n, size2 |-> 0, compressor |-> compressor,
   diagnostics |-> diagnostics, status |-> status, size3 |-> 0, size4 |-> 0]

-----------------------------------------------------------------------------
(* toCharsBoost with a fixed size keeps the first digits of a number.      *)
Limit == Radix ^ FieldDigits
ToChars(n) ==
  IF n < Limit THEN n
  ELSE CHOOSE m \in Limit \div Radix .. Limit - 1 : \E k \in 1 .. n : m = n \div (Radix ^ k)

Serialize(h) ==
  <<Underlying(HeaderTypes, h.type), ToChars(h.size1), ToChars(h.size2),
    Underlying(Compressors, h.compressor), Underlying(DiagnosticsKinds, h.diagnostics),
    Underlying(Statuses, h.status), ToChars(h.size3), ToChars(h.size4)>>

(* deserialize returns false when one of the codes is no enumerator.       *)
Deserializable(s) ==
  /\ Len(s) >= HeaderSize
  /\ IsEnumerator(HeaderTypes, s[1])
  /\ IsEnumerator(Compressors, s[4])
  /\ IsEnumerator(DiagnosticsKinds, s[5])
  /\ IsEnumerator(Statuses, s[6])

(* The size of the fourth field is parsed from the text of the third.      *)
Deserialize(s) ==
  [type |-> Enumerator(HeaderTypes, s[1]), size1 |-> s[2], size2 |-> s[3],
   compressor |-> Enumerator(Compressors, s[4]),
   diagnostics |-> Enumerator(DiagnosticsKinds, s[5]),
   status |-> Enumerator(Statuses, s[6]), size3 |-> s[7], size4 |-> s[7]]

IsCompressed(h) == h.compressor \in {"LZ4", "SNAPPY", "ZSTD"}

-----------------------------------------------------------------------------
(* processMessage.  A field of size 0 keeps the text it had; a size that   *)
(* goes past the end of the message takes what there is.                   *)
Sizes(h) == <<h.size1, h.size2, h.size3, h.size4>>

Offsets(h) ==
  <<0, h.size1, h.size1 + h.size2, h.size1 + h.size2 + h.size3>>

Body(s) == SubSeq(s, HeaderSize + 1, Len(s))

ShiftedByOne(h, i) == Offsets(h)[i] + 1
FirstByte(h, i) == Offsets(h)[i]

FieldOf(s, i) ==
  LET h == Deserialize(s)
      end == FirstByte(h, i) + Sizes(h)[i]
  IN  SubSeq(Body(s), FirstByte(h, i) + 1, IF end <= Len(Body(s)) THEN end ELSE Len(Body(s)))

Fields(s, array) ==
  [i \in DOMAIN array |-> IF Sizes(Deserialize(s))[i] > 0 THEN FieldOf(s, i) ELSE array[i]]

(* substr throws when a field begins past the end.                         *)
FieldsInRange(s, array) ==
  \A i \in DOMAIN array :
    Sizes(Deserialize(s))[i] > 0 => FirstByte(Deserialize(s), i) <= Len(Body(s))

-----------------------------------------------------------------------------
(* sendMessage writes the header, the payloads and the end one after the   *)
(* other; a reader is done when what it has read ends with the end.        *)
Message(h, p1, p2, p3, p4) == Serialize(h) \o p1 \o p2 \o p3 \o p4 \o EndOfMessage

EndsWith(s, end) ==
  /\ Len(s) >= Len(end)
  /\ SubSeq(s, Len(s) - Len(end) + 1, Len(s)) = end

IsComplete(s) == EndsWith(s, EndOfMessage)
WithoutEnd(s) == SubSeq(s, 1, Len(s) - Len(EndOfMessage))

=============================================================================
