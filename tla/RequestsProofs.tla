--------------------------- MODULE RequestsProofs ---------------------------
(***************************************************************************)
(* ReadsLines, EveryRequestOnce and EchoesSource for buffers, batches and  *)
(* pipes of any size and any inputs whose lines end with a newline and fit *)
(* into the buffer.                                                        *)
(*                                                                         *)
(* The ends of the lines of an input, sorted, are its marks.  ReaderInv:   *)
(* the buffer holds the bytes of the input that precede its position, and  *)
(* what is processed ends at the mark of the lines that are out.  Shifting *)
(* and refilling keep the place of what is processed, and after them a     *)
(* newline is found unless nothing is left: then the line found is the one *)
(* from this mark to the next.                                             *)
(*                                                                         *)
(* RequestsInv: an aggregate has the requests between two marks, in the    *)
(* batch, or in the pieces of one message that are read, in the pipe and   *)
(* to be written; what the session has processed ends where it begins.     *)
(* Only the last bytes of its requests are newlines (DelimitersFacts), and *)
(* only the end of a message has its bytes (CompleteAtEnd), so that the    *)
(* text comes to the session as it was gathered (SentFacts) and is split   *)
(* into the requests it was gathered from (Splits).  The reply to them is  *)
(* the passage of the input between the two marks (ResponsesAre), and what *)
(* is shown is the passage before it.                                      *)
(***************************************************************************)
EXTENDS Requests, FiniteSetTheorems, SequenceTheorems, TLAPS

Rank(S, x) == Cardinality({y \in S : y <= x})

Byte == Nat \cup {Newline, Junk}

(* Where the lines of a text end, and the row between two of these places. *)
Ends(s) == {i \in DOMAIN s : s[i] = Newline \/ i = Len(s)}
LineCount(s) == Cardinality(Ends(s))
Marks(s) == <<0>> \o Sorted(Ends(s))
Row(s, i, j) == SubSeq(s, i + 1, j - (IF s[j] = Newline /\ ~KeepDelimiter THEN 1 ELSE 0))

Buffer ==
  [bytes : [1 .. Size -> Byte], used : 0 .. Size, processed : Nat, position : Nat]

(* The buffer holds what precedes its position in the text; unless it is   *)
(* full, that is all of the rest.                                          *)
Copies(s, c) ==
  /\ c \in Buffer
  /\ c.processed <= c.used /\ c.used <= c.position /\ c.position <= Len(s)
  /\ \A i \in 1 .. c.used : c.bytes[i] = s[(c.position - c.used) + i]
Filled(s, c) == c.used < Size => c.position = Len(s)

(* The place in the text up to which it is processed.                      *)
Place(c) == (c.position - c.used) + c.processed

NoNewline(c, i, j) == \A k \in i .. j : c.bytes[k] # Newline

ReaderInv ==
  /\ input \in Inputs
  /\ Copies(input, b) /\ Filled(input, b)
  /\ out \in Seq(Seq(Byte)) /\ Len(out) <= LineCount(input)
  /\ \A k \in 1 .. Len(out) : out[k] = LinesOf(input)[k]
  /\ Place(b) = Marks(input)[Len(out) + 1]
  /\ last <=> (out # <<>> /\ Len(out) = LineCount(input))
  /\ ended = "false" => Blank(input) \/ Len(out) = LineCount(input)

-----------------------------------------------------------------------------
(* Sets of numbers: each has its own rank, every rank is taken (the ranks  *)
(* inject the set into an interval of its size), so that Sorted lists the  *)
(* set upwards and Min is in it.                                           *)

LEMMA Ranks ==
  ASSUME NEW S \in SUBSET Nat, IsFiniteSet(S)
  PROVE  /\ Cardinality(S) \in Nat
         /\ \A x \in S : Rank(S, x) \in 1 .. Cardinality(S)
         /\ \A x, y \in S : x < y => Rank(S, x) < Rank(S, y)
         /\ \A k \in 1 .. Cardinality(S) : \E x \in S : Rank(S, x) = k
<1> DEFINE n == Cardinality(S)
           r == [x \in S |-> Rank(S, x)]
<1>1. n \in Nat
  BY FS_CardinalityType
<1>2. ASSUME NEW x \in S
      PROVE  IsFiniteSet({y \in S : y <= x}) /\ Rank(S, x) \in 1 .. n
  <2> DEFINE U == {y \in S : y <= x}
  <2>1. IsFiniteSet(U) /\ Cardinality(U) <= n
    BY FS_Subset
  <2>2. Cardinality(U) \in Nat
    BY <2>1, FS_CardinalityType
  <2>3. x \in U
    OBVIOUS
  <2>4. Cardinality(U) # 0
    BY <2>1, <2>3, FS_EmptySet
  <2> HIDE DEF U
  <2>5. Cardinality(U) \in 1 .. n
    BY <1>1, <2>1, <2>2, <2>4
  <2> QED BY <2>1, <2>5 DEF U, Rank
<1>3. ASSUME NEW x \in S, NEW y \in S, x < y
      PROVE  Rank(S, x) < Rank(S, y)
  <2> DEFINE U == {z \in S : z <= x}
             V == {z \in S : z <= y}
  <2>1. U \in SUBSET V /\ U # V
    <3>1. y \in V /\ y \notin U
      BY <1>3
    <3>2. \A z \in U : z \in V
      BY <1>3
    <3> QED BY <3>1, <3>2
  <2>2. IsFiniteSet(V)
    BY <1>2
  <2>3. Cardinality(U) <= Cardinality(V) /\ Cardinality(V) # Cardinality(U)
    BY <2>1, <2>2, FS_Subset
  <2>4. Cardinality(U) \in 1 .. n /\ Cardinality(V) \in 1 .. n
    BY <1>2 DEF Rank
  <2> HIDE DEF U, V
  <2>5. Cardinality(U) < Cardinality(V)
    BY <1>1, <2>3, <2>4
  <2> QED BY <2>5 DEF U, V, Rank
<1>4. r \in Injection(S, 1 .. n)
  <2>1. r \in [S -> 1 .. n]
    BY <1>2
  <2>2. ASSUME NEW x \in S, NEW y \in S, r[x] = r[y]
        PROVE  x = y
    <3>1. Rank(S, x) = Rank(S, y)
      BY <2>2
    <3>2. ~(x < y) /\ ~(y < x)
      <4>1. Rank(S, x) \in 1 .. n
        BY <1>2
      <4> HIDE DEF n
      <4>2. ~(Rank(S, x) < Rank(S, y)) /\ ~(Rank(S, y) < Rank(S, x))
        BY <1>1, <3>1, <4>1
      <4> QED BY <1>3, <4>2
    <3>3. x \in Nat /\ y \in Nat
      OBVIOUS
    <3> QED BY <3>2, <3>3
  <2> HIDE DEF r
  <2>3. DOMAIN r = S
    BY <2>1
  <2> QED BY <2>1, <2>2, <2>3 DEF Injection, IsInjective
<1>5. r \in Surjection(S, 1 .. n)
  <2>1. IsFiniteSet(1 .. n) /\ Cardinality(1 .. n) = n
    BY <1>1, FS_Interval
  <2> QED BY <1>4, <2>1, FS_Injection
<1>6. \A k \in 1 .. n : \E x \in S : Rank(S, x) = k
  BY <1>5 DEF Surjection
<1> QED BY <1>1, <1>2, <1>3, <1>6

LEMMA SortedFacts ==
  ASSUME NEW S \in SUBSET Nat, IsFiniteSet(S)
  PROVE  /\ Cardinality(S) \in Nat
         /\ Sorted(S) \in Seq(S)
         /\ Len(Sorted(S)) = Cardinality(S)
         /\ \A i, j \in 1 .. Cardinality(S) : i < j => Sorted(S)[i] < Sorted(S)[j]
         /\ \A x \in S : \E k \in 1 .. Cardinality(S) : Sorted(S)[k] = x
<1> DEFINE n == Cardinality(S)
           q == Sorted(S)
<1>1. n \in Nat
  BY Ranks
<1>2. ASSUME NEW k \in 1 .. n
      PROVE  q[k] \in S /\ Rank(S, q[k]) = k
  <2>1. q[k] = CHOOSE e \in S : Rank(S, e) = k
    BY DEF Sorted, Rank
  <2>2. \E e \in S : Rank(S, e) = k
    BY Ranks
  <2> QED BY <2>1, <2>2
<1>3. q \in [1 .. n -> S]
  BY <1>2 DEF Sorted
<1>4. q \in Seq(S) /\ Len(q) = n
  <2>1. q \in Seq(S)
    BY <1>1, <1>3, SeqDef
  <2>2. DOMAIN q = 1 .. n /\ DOMAIN q = 1 .. Len(q) /\ Len(q) \in Nat
    BY <1>3, <2>1, LenProperties
  <2> HIDE DEF q
  <2> QED BY <1>1, <2>1, <2>2
<1>5. ASSUME NEW i \in 1 .. n, NEW j \in 1 .. n, i < j
      PROVE  q[i] < q[j]
  <2>1. q[i] \in S /\ q[j] \in S /\ Rank(S, q[i]) = i /\ Rank(S, q[j]) = j
    BY <1>2
  <2> HIDE DEF q, n
  <2>2. q[j] < q[i] => j < i
    BY <2>1, Ranks
  <2>3. q[j] # q[i]
    <3>1. i # j
      BY <1>1, <1>5
    <3> QED BY <2>1, <3>1
  <2>4. q[i] \in Nat /\ q[j] \in Nat
    BY <2>1
  <2>5. ~(j < i)
    BY <1>1, <1>5
  <2> QED BY <2>2, <2>3, <2>4, <2>5
<1>6. ASSUME NEW x \in S
      PROVE  \E k \in 1 .. n : q[k] = x
  <2> DEFINE k == Rank(S, x)
  <2>1. k \in 1 .. n
    BY Ranks
  <2>2. q[k] \in S /\ Rank(S, q[k]) = k
    BY <1>2, <2>1
  <2> HIDE DEF q
  <2>3. ~(q[k] < x) /\ ~(x < q[k])
    <3>1. k \in Nat
      BY <1>1, <2>1
    <3> HIDE DEF n
    <3>2. (q[k] < x => Rank(S, q[k]) < Rank(S, x)) /\ (x < q[k] => Rank(S, x) < Rank(S, q[k]))
      BY <2>2, Ranks
    <3> QED BY <2>2, <3>1, <3>2
  <2>4. q[k] \in Nat /\ x \in Nat
    BY <2>2
  <2>5. q[k] = x
    BY <2>3, <2>4
  <2> QED BY <2>1, <2>5
<1> QED BY <1>1, <1>4, <1>5, <1>6

LEMMA MinFacts ==
  ASSUME NEW S \in SUBSET Nat, IsFiniteSet(S), S # {}
  PROVE  Min(S) \in S /\ \A x \in S : Min(S) <= x
<1> DEFINE n == Cardinality(S)
           q == Sorted(S)
<1>1. n \in Nat /\ n # 0
  BY SortedFacts, FS_EmptySet
<1>2. q[1] \in S
  BY <1>1, SortedFacts, ElementOfSeq
<1>3. ASSUME NEW x \in S
      PROVE  q[1] <= x
  <2>1. PICK k \in 1 .. n : q[k] = x
    BY SortedFacts
  <2>2. CASE k = 1
    BY <1>2, <2>1, <2>2
  <2>3. CASE k # 1
    <3>1. 1 \in 1 .. n /\ 1 < k
      BY <1>1, <2>1, <2>3
    <3>2. q[1] < q[k]
      BY <2>1, <3>1, SortedFacts
    <3>3. q[1] < x
      BY <2>1, <3>2
    <3>4. q[1] \in Nat /\ x \in Nat
      BY <1>2
    <3> HIDE DEF q
    <3> QED BY <3>3, <3>4
  <2> QED BY <2>2, <2>3
<1> HIDE DEF q
<1> QED BY <1>2, <1>3 DEF Min

-----------------------------------------------------------------------------
(* The marks of a text rise from 0 to its end, over all ends of lines; the *)
(* lines that Lines2 returns are the rows between them.                    *)

LEMMA MarksFacts ==
  ASSUME NEW s \in Seq(Byte)
  PROVE  /\ LineCount(s) \in Nat
         /\ Marks(s)[1] = 0
         /\ \A k \in 1 .. LineCount(s) + 1 : Marks(s)[k] \in 0 .. Len(s)
         /\ \A k \in 1 .. LineCount(s) : Marks(s)[k + 1] \in Ends(s)
         /\ \A i, j \in 1 .. LineCount(s) + 1 : i < j => Marks(s)[i] < Marks(s)[j]
         /\ \A e \in Ends(s) : \E k \in 1 .. LineCount(s) : Marks(s)[k + 1] = e
         /\ Marks(s)[LineCount(s) + 1] = Len(s)
<1> DEFINE S == Ends(s)
           n == LineCount(s)
           q == Sorted(S)
           m == Marks(s)
<1>1. Len(s) \in Nat /\ DOMAIN s = 1 .. Len(s)
  BY LenProperties
<1>2. S \in SUBSET (1 .. Len(s)) /\ S \in SUBSET Nat
  BY <1>1 DEF Ends
<1>3. IsFiniteSet(S)
  <2>1. IsFiniteSet(1 .. Len(s))
    BY <1>1, FS_Interval
  <2> HIDE DEF S
  <2> QED BY <1>2, <2>1, FS_Subset
<1>4. /\ n \in Nat
      /\ q \in Seq(S) /\ Len(q) = n
      /\ \A i, j \in 1 .. n : i < j => q[i] < q[j]
      /\ \A x \in S : \E k \in 1 .. n : q[k] = x
  <2> HIDE DEF S
  <2> QED BY <1>2, <1>3, SortedFacts DEF LineCount, S
<1>5. m[1] = 0 /\ \A k \in 1 .. n : m[k + 1] = q[k]
  <2> HIDE DEF q, n, S
  <2>1. m = <<0>> \o q
    BY DEF Marks, q, S
  <2>2. q \in Seq(Nat)
    BY <1>2, <1>4, SeqMonotonic
  <2>3. <<0>> \in Seq(Nat) /\ Len(<<0>>) = 1 /\ <<0>>[1] = 0
    OBVIOUS
  <2>4. /\ Len(<<0>>) + Len(q) = n + 1
        /\ \A i \in 1 .. n + 1 : m[i] = IF i <= 1 THEN <<0>>[i] ELSE q[i - 1]
    <3> HIDE DEF m
    <3>1. \A i \in 1 .. 1 + n : (<<0>> \o q)[i] = IF i <= 1 THEN <<0>>[i] ELSE q[i - 1]
      BY <1>4, <2>2, <2>3, ConcatProperties
    <3>2. 1 + n = n + 1
      BY <1>4
    <3> QED BY <1>4, <2>1, <2>3, <3>1, <3>2
  <2> HIDE DEF m
  <2> QED BY <1>4, <2>3, <2>4
<1>6. \A k \in 1 .. n : m[k + 1] \in S
  BY <1>4, <1>5, ElementOfSeq
<1> HIDE DEF q, n, S, m
<1>7. ASSUME NEW k \in 1 .. n + 1
      PROVE  k = 1 \/ (k - 1 \in 1 .. n /\ m[k] = q[k - 1] /\ m[k] \in S)
  <2>1. k # 1 => k - 1 \in 1 .. n /\ (k - 1) + 1 = k
    BY <1>4
  <2> QED BY <1>5, <1>6, <2>1
<1>8. \A k \in 1 .. n + 1 : m[k] \in 0 .. Len(s)
  <2>1. \A x \in S : x \in 0 .. Len(s) /\ 0 < x
    <3>1. \A x \in 1 .. Len(s) : x \in 0 .. Len(s) /\ 0 < x
      BY <1>1
    <3> QED BY <1>2, <3>1
  <2>2. 0 \in 0 .. Len(s)
    BY <1>1
  <2> QED BY <1>5, <1>7, <2>1, <2>2
<1>9. ASSUME NEW i \in 1 .. n + 1, NEW j \in 1 .. n + 1, i < j
      PROVE  m[i] < m[j]
  <2>1. j # 1
    BY <1>9, <1>4
  <2>2. j - 1 \in 1 .. n /\ m[j] = q[j - 1] /\ m[j] \in S
    BY <1>7, <2>1
  <2>3. CASE i = 1
    <3>1. m[j] \in 1 .. Len(s)
      BY <1>2, <2>2
    <3>2. 0 < m[j]
      BY <1>1, <3>1
    <3> QED BY <1>5, <2>3, <3>2
  <2>4. CASE i # 1
    <3>1. i - 1 \in 1 .. n /\ m[i] = q[i - 1]
      BY <1>7, <2>4
    <3>2. i - 1 < j - 1
      BY <1>9, <1>4
    <3> QED BY <1>4, <2>2, <3>1, <3>2
  <2> QED BY <2>3, <2>4
<1>10. \A e \in S : \E k \in 1 .. n : m[k + 1] = e
  BY <1>4, <1>5
<1>11. m[n + 1] = Len(s)
  <2>1. CASE Len(s) = 0
    <3>1. n + 1 \in 1 .. n + 1
      BY <1>4
    <3>2. m[n + 1] \in 0 .. 0
      BY <1>8, <2>1, <3>1
    <3> QED BY <2>1, <3>2
  <2>2. CASE Len(s) # 0
    <3>1. Len(s) \in S
      BY <1>1, <2>2 DEF S, Ends
    <3>2. PICK k \in 1 .. n : m[k + 1] = Len(s)
      BY <1>10, <3>1
    <3>3. CASE k = n
      BY <3>2, <3>3
    <3>4. CASE k # n
      <4>1. k + 1 \in 1 .. n + 1 /\ n + 1 \in 1 .. n + 1 /\ k + 1 < n + 1
        BY <1>4, <3>2, <3>4
      <4>2. Len(s) < m[n + 1] /\ m[n + 1] \in 0 .. Len(s)
        BY <1>8, <1>9, <3>2, <4>1
      <4> QED BY <1>1, <4>2
    <3> QED BY <3>3, <3>4
  <2> QED BY <2>1, <2>2
<1> QED BY <1>4, <1>5, <1>6, <1>8, <1>9, <1>10, <1>11 DEF n, S, m

LEMMA NextMark ==
  ASSUME NEW s \in Seq(Byte), Terminated(s),
         NEW k \in 1 .. LineCount(s) + 1,
         NEW e \in Marks(s)[k] + 1 .. Len(s), s[e] = Newline,
         \A i \in Marks(s)[k] + 1 .. e - 1 : s[i] # Newline
  PROVE  k <= LineCount(s) /\ Marks(s)[k + 1] = e
<1> DEFINE n == LineCount(s)
           m == Marks(s)
<1>1. Len(s) \in Nat /\ DOMAIN s = 1 .. Len(s) /\ n \in Nat /\ m[k] \in 0 .. Len(s)
  BY LenProperties, MarksFacts
<1>2. e \in Ends(s)
  <2>1. e \in DOMAIN s
    <3> HIDE DEF m, n
    <3>1. e \in m[k] + 1 .. Len(s)
      BY DEF m
    <3> QED BY <1>1, <3>1
  <2> QED BY <2>1 DEF Ends
<1>3. PICK j \in 1 .. n : m[j + 1] = e
  BY <1>2, MarksFacts
<1>4. j + 1 \in 1 .. n + 1
  BY <1>1, <1>3
<1>5. k <= j
  <2>1. SUFFICES ASSUME ~(k <= j)
                 PROVE  FALSE
    OBVIOUS
  <2>2. j + 1 = k \/ j + 1 < k
    BY <1>1, <1>3, <2>1
  <2>3. e <= m[k]
    BY <1>1, <1>3, <1>4, <2>2, MarksFacts
  <2> QED BY <1>1, <2>3
<1>6. k \in 1 .. n /\ k + 1 \in 1 .. n + 1
  BY <1>1, <1>3, <1>5
<1>7. k = j
  <2>1. SUFFICES ASSUME k # j
                 PROVE  FALSE
    OBVIOUS
  <2>2. k < k + 1 /\ k + 1 < j + 1
    BY <1>1, <1>3, <1>5, <2>1
  <2>3. m[k] < m[k + 1] /\ m[k + 1] < e
    BY <1>3, <1>4, <1>6, <2>2, MarksFacts
  <2>4. m[k + 1] \in Ends(s)
    BY <1>6, MarksFacts
  <2>5. s[m[k + 1]] = Newline
    <3>1. s # <<>>
      BY <1>1, EmptySeq
    <3> QED BY <2>4, <3>1 DEF Ends, Terminated
  <2>6. m[k + 1] \in m[k] + 1 .. e - 1
    <3>1. m[k + 1] \in 1 .. Len(s)
      BY <1>1, <2>4 DEF Ends
    <3> QED BY <1>1, <2>3, <3>1
  <2> QED BY <2>5, <2>6
<1> QED BY <1>3, <1>6, <1>7

LEMMA Rows ==
  ASSUME NEW s \in Seq(Byte)
  PROVE  /\ LinesOf(s) \in Seq(Seq(Byte))
         /\ Len(LinesOf(s)) = LineCount(s)
         /\ \A k \in 1 .. LineCount(s) :
              LinesOf(s)[k] = Row(s, Marks(s)[k], Marks(s)[k + 1])
<1> DEFINE n == LineCount(s)
           m == Marks(s)
           p == Split(s)
<1>1. n \in Nat
  BY MarksFacts
<1>2. p = [k \in 1 .. n |-> Row(s, m[k], m[k + 1])]
  BY DEF Split, Row, Marks, LineCount, Ends
<1>3. ASSUME NEW k \in 1 .. n
      PROVE  Row(s, m[k], m[k + 1]) \in Seq(Byte)
  <2>1. m[k] \in 0 .. Len(s) /\ m[k + 1] \in 0 .. Len(s) /\ Len(s) \in Nat
    <3>1. k \in 1 .. n + 1 /\ k + 1 \in 1 .. n + 1
      BY <1>1
    <3> QED BY <3>1, MarksFacts, LenProperties
  <2> DEFINE x == m[k] + 1
             y == m[k + 1] - (IF s[m[k + 1]] = Newline /\ ~KeepDelimiter THEN 1 ELSE 0)
  <2>2. x \in Int /\ y \in Int /\ \A i \in x .. y : i \in 1 .. Len(s)
    BY <2>1
  <2>3. \A i \in x .. y : s[i] \in Byte
    BY <2>2, ElementOfSeq
  <2> HIDE DEF x, y
  <2>4. SubSeq(s, x, y) \in Seq(Byte)
    BY <2>2, <2>3, SubSeqProperties
  <2> QED BY <2>4 DEF x, y, Row
<1>4. p \in Seq(Seq(Byte)) /\ Len(p) = n /\ DOMAIN p = 1 .. n
  <2>1. p \in [1 .. n -> Seq(Byte)]
    BY <1>2, <1>3
  <2> HIDE DEF p, n
  <2>2. p \in Seq(Seq(Byte))
    BY <1>1, <2>1, SeqDef
  <2>3. DOMAIN p = 1 .. n /\ DOMAIN p = 1 .. Len(p) /\ Len(p) \in Nat
    BY <2>1, <2>2, LenProperties
  <2> QED BY <1>1, <2>2, <2>3
<1>5. ASSUME NEW k \in 1 .. n
      PROVE  GetLine(LinesLeft(s, k - 1)) = p[k]
  <2> DEFINE r == Reverse(p)
             w == SubSeq(r, 1, n - (k - 1))
  <2>1. r = [i \in 1 .. n |-> p[(n - i) + 1]]
    BY <1>4 DEF Reverse
  <2>2. r \in Seq(Seq(Byte)) /\ Len(r) = n
    <3>1. ASSUME NEW i \in 1 .. n
          PROVE  p[(n - i) + 1] \in Seq(Byte)
      <4>1. (n - i) + 1 \in 1 .. Len(p)
        BY <1>1, <1>4
      <4> QED BY <1>4, <4>1, ElementOfSeq
    <3>2. r \in [1 .. n -> Seq(Byte)]
      BY <2>1, <3>1
    <3> HIDE DEF r, n
    <3>3. r \in Seq(Seq(Byte))
      BY <1>1, <3>2, SeqDef
    <3>4. DOMAIN r = 1 .. n /\ DOMAIN r = 1 .. Len(r) /\ Len(r) \in Nat
      BY <3>2, <3>3, LenProperties
    <3> QED BY <1>1, <3>3, <3>4
  <2>3. LinesLeft(s, k - 1) = w
    BY <2>2 DEF LinesLeft, SplitReversedOrder
  <2> HIDE DEF r, p, n
  <2>4. Len(w) = n - (k - 1) /\ w[n - (k - 1)] = r[n - (k - 1)]
    <3>1. 1 \in Int /\ n - (k - 1) \in Int /\ 1 <= n - (k - 1)
      BY <1>1
    <3>2. \A i \in 1 .. n - (k - 1) : i \in 1 .. Len(r)
      BY <1>1, <2>2
    <3>3. \A i \in 1 .. n - (k - 1) : r[i] \in Seq(Byte)
      BY <2>2, <3>2, ElementOfSeq
    <3>4. /\ Len(w) = IF 1 <= n - (k - 1) THEN n - (k - 1) - 1 + 1 ELSE 0
          /\ \A i \in 1 .. n - (k - 1) - 1 + 1 : w[i] = r[1 + i - 1]
      BY <3>1, <3>3, SubSeqProperties
    <3>5. n - (k - 1) \in 1 .. n - (k - 1) - 1 + 1 /\ 1 + (n - (k - 1)) - 1 = n - (k - 1)
      BY <1>1, <3>1
    <3>6. n - (k - 1) - 1 + 1 = n - (k - 1)
      BY <1>1
    <3> HIDE DEF w
    <3>7. w[n - (k - 1)] = r[1 + (n - (k - 1)) - 1]
      BY <3>4, <3>5
    <3> QED BY <3>1, <3>4, <3>5, <3>6, <3>7
  <2>5. r[n - (k - 1)] = p[k]
    <3>1. n - (k - 1) \in 1 .. n /\ (n - (n - (k - 1))) + 1 = k
      BY <1>1
    <3> QED BY <2>1, <3>1
  <2> QED BY <2>3, <2>4, <2>5 DEF GetLine
<1>6. LinesOf(s) = p
  <2>1. LinesOf(s) = [k \in 1 .. n |-> GetLine(LinesLeft(s, k - 1))]
    BY <1>4 DEF LinesOf
  <2>2. p = [k \in 1 .. n |-> p[k]]
    BY <1>2
  <2> HIDE DEF p, n
  <2> QED BY <1>5, <2>1, <2>2
<1> QED BY <1>2, <1>4, <1>6

-----------------------------------------------------------------------------
(* The buffer.                                                             *)

LEMMA InputsFacts ==
  ASSUME NEW s \in Inputs
  PROVE  s \in Seq(Byte) /\ Len(s) \in Nat /\ DOMAIN s = 1 .. Len(s)
<1>1. s \in Seq(Nat \cup {Newline})
  BY LinesAssumption DEF LinesAssumption
<1>2. s \in Seq(Byte)
  <2>1. Nat \cup {Newline} \subseteq Byte
    BY DEF Byte
  <2> QED BY <1>1, <2>1, SeqMonotonic
<1> QED BY <1>2, LenProperties

LEMMA MinOfTwo ==
  ASSUME NEW i \in Nat, NEW j \in Nat
  PROVE  Min({i, j}) = IF i <= j THEN i ELSE j
<1>1. \A x \in {i, j} : (\A y \in {i, j} : x <= y) <=> x = (IF i <= j THEN i ELSE j)
  OBVIOUS
<1>2. (IF i <= j THEN i ELSE j) \in {i, j}
  OBVIOUS
<1>3. Min({i, j}) = CHOOSE x \in {i, j} : \A y \in {i, j} : x <= y
  BY DEF Min
<1>4. Min({i, j}) \in {i, j} /\ \A y \in {i, j} : Min({i, j}) <= y
  BY <1>1, <1>2, <1>3
<1> QED BY <1>1, <1>4

(* Shifting keeps the place of what is processed.                          *)
LEMMA ShiftCopies ==
  ASSUME NEW s \in Seq(Byte), NEW c, Copies(s, c)
  PROVE  /\ Copies(s, Shift(c))
         /\ Shift(c).processed = 0
         /\ Shift(c).used = c.used - c.processed
         /\ Shift(c).position = c.position
         /\ Place(Shift(c)) = Place(c)
<1> DEFINE d == Shift(c)
           B == [i \in 1 .. Size |-> IF i <= c.used - c.processed
                                     THEN c.bytes[i + c.processed] ELSE c.bytes[i]]
<1>1. /\ c = [bytes |-> c.bytes, used |-> c.used, processed |-> c.processed,
              position |-> c.position]
      /\ c.bytes \in [1 .. Size -> Byte] /\ c.used \in 0 .. Size
      /\ c.processed \in Nat /\ c.position \in Nat
      /\ c.processed <= c.used /\ c.used <= c.position
  BY DEF Copies, Buffer
<1>2. Size \in Nat /\ Len(s) \in Nat
  BY LinesAssumption, LenProperties DEF LinesAssumption
<1>3. d = [bytes |-> B, used |-> c.used - c.processed, processed |-> 0,
           position |-> c.position]
  <2>1. d = [c EXCEPT !.bytes = B, !.used = c.used - c.processed, !.processed = 0]
    BY DEF Shift
  <2> HIDE DEF d, B
  <2> QED BY <1>1, <2>1
<1>4. B \in [1 .. Size -> Byte]
  <2>1. ASSUME NEW i \in 1 .. Size
        PROVE  B[i] \in Byte
    <3>1. i <= c.used - c.processed => i + c.processed \in 1 .. Size
      BY <1>1, <1>2
    <3> QED BY <1>1, <3>1
  <2> QED BY <2>1
<1>5. ASSUME NEW i \in 1 .. c.used - c.processed
      PROVE  B[i] = s[(c.position - (c.used - c.processed)) + i]
  <2>1. i \in 1 .. Size /\ i <= c.used - c.processed /\ i + c.processed \in 1 .. c.used
    BY <1>1, <1>2
  <2>2. B[i] = c.bytes[i + c.processed]
    BY <2>1
  <2>3. c.bytes[i + c.processed] = s[(c.position - c.used) + (i + c.processed)]
    BY <2>1 DEF Copies
  <2>4. (c.position - c.used) + (i + c.processed) = (c.position - (c.used - c.processed)) + i
    BY <1>1, <1>2
  <2> QED BY <2>2, <2>3, <2>4
<1>6. c.used - c.processed \in 0 .. Size /\ 0 <= c.used - c.processed
      /\ c.used - c.processed <= c.position /\ c.position <= Len(s)
  BY <1>1, <1>2 DEF Copies
<1> HIDE DEF B
<1>7. /\ d.bytes = B /\ d.used = c.used - c.processed /\ d.processed = 0
      /\ d.position = c.position
  BY <1>3
<1>8. d \in Buffer
  BY <1>1, <1>3, <1>4, <1>6 DEF Buffer
<1> HIDE DEF d
<1>9. Copies(s, d)
  BY <1>5, <1>6, <1>7, <1>8 DEF Copies
<1>10. Place(d) = Place(c)
  BY <1>1, <1>2, <1>7 DEF Place
<1> QED BY <1>7, <1>9, <1>10 DEF d

(* Refilling too, and it fills the buffer.                                 *)
LEMMA RefillCopies ==
  ASSUME NEW s \in Seq(Byte), NEW c, Copies(s, c)
  PROVE  /\ Copies(s, Refill(s, c)) /\ Filled(s, Refill(s, c))
         /\ Refill(s, c).processed = c.processed
         /\ Place(Refill(s, c)) = Place(c)
         /\ c.used < Size /\ c.position < Len(s) => Refill(s, c).used > c.used
<1> DEFINE d == Refill(s, c)
           n == BytesToRead(s, c)
           B == [i \in 1 .. Size |-> IF i \in c.used + 1 .. c.used + n
                                     THEN s[c.position + i - c.used] ELSE c.bytes[i]]
<1>1. /\ c = [bytes |-> c.bytes, used |-> c.used, processed |-> c.processed,
              position |-> c.position]
      /\ c.bytes \in [1 .. Size -> Byte] /\ c.used \in 0 .. Size
      /\ c.processed \in Nat /\ c.position \in Nat
      /\ c.processed <= c.used /\ c.used <= c.position /\ c.position <= Len(s)
  BY DEF Copies, Buffer
<1>2. Size \in Nat /\ Len(s) \in Nat
  BY LinesAssumption, LenProperties DEF LinesAssumption
<1>3. n = IF Len(s) - c.position <= Size - c.used THEN Len(s) - c.position ELSE Size - c.used
  <2>1. Len(s) - c.position \in Nat /\ Size - c.used \in Nat
    BY <1>1, <1>2
  <2> QED BY <2>1, MinOfTwo DEF BytesToRead
<1>4. d = [bytes |-> B, used |-> c.used + n, processed |-> c.processed,
           position |-> c.position + n]
  <2>1. d = [c EXCEPT !.bytes = B, !.used = c.used + n, !.position = c.position + n]
    BY DEF Refill
  <2> HIDE DEF d, B, n
  <2> QED BY <1>1, <2>1
<1> HIDE DEF n
<1>5. /\ n \in Nat
      /\ c.used + n \in 0 .. Size
      /\ c.position + n <= Len(s)
      /\ c.used + n < Size => c.position + n = Len(s)
      /\ c.used < Size /\ c.position < Len(s) => n > 0
  BY <1>1, <1>2, <1>3
<1>6. B \in [1 .. Size -> Byte]
  <2>1. ASSUME NEW i \in 1 .. Size
        PROVE  B[i] \in Byte
    <3>1. CASE i \in c.used + 1 .. c.used + n
      <4>1. c.position + i - c.used \in 1 .. Len(s)
        BY <1>1, <1>2, <1>5, <3>1
      <4> QED BY <3>1, <4>1, ElementOfSeq
    <3>2. CASE i \notin c.used + 1 .. c.used + n
      BY <1>1, <3>2
    <3> QED BY <3>1, <3>2
  <2> QED BY <2>1
<1>7. ASSUME NEW i \in 1 .. c.used + n
      PROVE  B[i] = s[((c.position + n) - (c.used + n)) + i]
  <2>1. i \in 1 .. Size /\ ((c.position + n) - (c.used + n)) + i = c.position + i - c.used
    BY <1>1, <1>2, <1>5
  <2>2. CASE i \in c.used + 1 .. c.used + n
    BY <2>1, <2>2
  <2>3. CASE i \notin c.used + 1 .. c.used + n
    <3>1. i \in 1 .. c.used /\ c.position + i - c.used = (c.position - c.used) + i
      BY <1>1, <1>2, <1>5, <2>3
    <3>2. c.bytes[i] = s[(c.position - c.used) + i]
      BY <3>1 DEF Copies
    <3>3. B[i] = c.bytes[i]
      BY <2>1, <2>3
    <3> QED BY <2>1, <3>1, <3>2, <3>3
  <2> QED BY <2>2, <2>3
<1> HIDE DEF B
<1>8. /\ d.bytes = B /\ d.used = c.used + n /\ d.processed = c.processed
      /\ d.position = c.position + n
  BY <1>4
<1>9. d \in Buffer
  <2>1. c.position + n \in Nat
    BY <1>1, <1>5
  <2> QED BY <1>1, <1>4, <1>5, <1>6, <2>1 DEF Buffer
<1> HIDE DEF d
<1>10. d.processed <= d.used /\ d.used <= d.position /\ d.position <= Len(s)
  BY <1>1, <1>2, <1>5, <1>8
<1>11. Copies(s, d)
  BY <1>7, <1>8, <1>9, <1>10 DEF Copies
<1>12. /\ Filled(s, d) /\ Place(d) = Place(c)
       /\ c.used < Size /\ c.position < Len(s) => d.used > c.used
  BY <1>1, <1>2, <1>5, <1>8 DEF Filled, Place
<1> QED BY <1>8, <1>11, <1>12 DEF d

(* find: the first newline that is not processed, or the end.              *)
LEMMA LineEndFacts ==
  ASSUME NEW c \in Buffer, c.processed <= c.used
  PROVE  \/ /\ LineEnd(c) \in c.processed + 1 .. c.used
            /\ c.bytes[LineEnd(c)] = Newline
            /\ NoNewline(c, c.processed + 1, LineEnd(c) - 1)
         \/ LineEnd(c) = c.used + 1 /\ NoNewline(c, c.processed + 1, c.used)
<1> DEFINE found == {i \in c.processed + 1 .. c.used : c.bytes[i] = Newline}
<1>1. c.used \in Nat /\ c.processed \in Nat
  BY LinesAssumption DEF LinesAssumption, Buffer
<1>2. CASE found = {}
  BY <1>2 DEF LineEnd, NoNewline
<1>3. CASE found # {}
  <2>1. found \in SUBSET (c.processed + 1 .. c.used)
    OBVIOUS
  <2>2. IsFiniteSet(c.processed + 1 .. c.used)
    BY <1>1, FS_Interval
  <2>3. found \in SUBSET Nat
    BY <1>1
  <2>4. LineEnd(c) = Min(found)
    BY <1>3 DEF LineEnd
  <2> HIDE DEF found
  <2>5. IsFiniteSet(found)
    BY <2>1, <2>2, FS_Subset
  <2>6. Min(found) \in found /\ \A x \in found : Min(found) <= x
    BY <1>3, <2>3, <2>5, MinFacts
  <2>7. LineEnd(c) \in c.processed + 1 .. c.used /\ c.bytes[LineEnd(c)] = Newline
    BY <2>4, <2>6 DEF found
  <2>8. ASSUME NEW k \in c.processed + 1 .. LineEnd(c) - 1
        PROVE  c.bytes[k] # Newline
    <3>1. k \in c.processed + 1 .. c.used /\ ~(LineEnd(c) <= k)
      BY <1>1, <2>7
    <3> QED BY <2>4, <2>6, <3>1 DEF found
  <2> QED BY <2>7, <2>8 DEF NoNewline
<1> QED BY <1>2, <1>3

-----------------------------------------------------------------------------
(* What is searched, after shifting and refilling or without: a newline is *)
(* in it unless the whole text is processed.                               *)
LEMMA ScanFacts ==
  ASSUME NEW s \in Inputs, input = s, Terminated(s), ~LineTooLong(s),
         Copies(s, b), Filled(s, b), ~(MustRefill(b) /\ TooSmall(b))
  PROVE  /\ Copies(s, Scanned) /\ Filled(s, Scanned)
         /\ Place(Scanned) = Place(b)
         /\ \/ /\ LineEnd(Scanned) \in Scanned.processed + 1 .. Scanned.used
               /\ Scanned.bytes[LineEnd(Scanned)] = Newline
               /\ NoNewline(Scanned, Scanned.processed + 1, LineEnd(Scanned) - 1)
            \/ /\ LineEnd(Scanned) = Scanned.processed + 1
               /\ Scanned.processed = Scanned.used /\ Scanned.position = Len(s)
<1>1. s \in Seq(Byte) /\ Len(s) \in Nat /\ DOMAIN s = 1 .. Len(s) /\ Size \in Nat
  BY InputsFacts, LinesAssumption DEF LinesAssumption
<1>2. b \in Buffer /\ b.used \in 0 .. Size /\ b.processed \in Nat /\ b.position \in Nat
      /\ b.processed <= b.used /\ b.used <= b.position /\ b.position <= Len(s)
  BY DEF Copies, Buffer
<1>3. CASE MustRefill(b)
  <2> DEFINE c == Refill(s, Shift(b))
  <2>1. Scanned = c
    BY <1>3 DEF Scanned
  <2>2. b.processed # 0 /\ b.processed < b.used
    BY <1>2, <1>3 DEF TooSmall
  <2>3. /\ Copies(s, Shift(b)) /\ Place(Shift(b)) = Place(b) /\ Shift(b).processed = 0
        /\ Shift(b).used = b.used - b.processed /\ Shift(b).position = b.position
    BY <1>1, ShiftCopies
  <2>4. b.used - b.processed \in 1 .. Size - 1 /\ b.position < Len(s)
    BY <1>1, <1>2, <1>3, <2>2 DEF MustRefill
  <2>5. /\ Copies(s, c) /\ Filled(s, c) /\ Place(c) = Place(b) /\ c.processed = 0
    BY <1>1, <2>3, RefillCopies
  <2>6. c.used > 0
    <3>1. c.used > Shift(b).used
      <4>1. Shift(b).used < Size /\ Shift(b).position < Len(s)
        BY <1>1, <2>3, <2>4
      <4> QED BY <1>1, <2>3, <4>1, RefillCopies
    <3>2. c.used \in 0 .. Size
      BY <2>5 DEF Copies, Buffer
    <3> HIDE DEF c
    <3> QED BY <1>1, <2>3, <2>4, <3>1, <3>2
  <2> HIDE DEF c
  <2>7. /\ c \in Buffer /\ c.used \in 0 .. Size /\ c.position \in Nat
        /\ c.used <= c.position /\ c.position <= Len(s) /\ c.processed <= c.used
    BY <2>5 DEF Copies, Buffer
  <2>8. ~NoNewline(c, 1, c.used)
    <3>1. CASE c.used < Size
      <4>1. c.position = Len(s)
        BY <2>5, <3>1 DEF Filled
      <4>2. c.used \in 1 .. c.used /\ (c.position - c.used) + c.used = Len(s) /\ s # <<>>
        BY <1>1, <2>6, <2>7, <4>1, EmptySeq
      <4>3. c.bytes[c.used] = s[Len(s)]
        BY <2>5, <4>2 DEF Copies
      <4> QED BY <4>2, <4>3 DEF NoNewline, Terminated
    <3>2. CASE c.used = Size
      <4> SUFFICES ASSUME NoNewline(c, 1, c.used)
                   PROVE  FALSE
        OBVIOUS
      <4> DEFINE i == (c.position - c.used) + 1
      <4>1. i \in DOMAIN s
        BY <1>1, <2>6, <2>7
      <4>2. ASSUME NEW j \in i .. i + Size - 1
            PROVE  j \in DOMAIN s /\ s[j] # Newline
        <5>1. j \in DOMAIN s
          BY <1>1, <2>6, <2>7, <3>2
        <5>2. j - (c.position - c.used) \in 1 .. c.used
              /\ (c.position - c.used) + (j - (c.position - c.used)) = j
          <6> DEFINE o == c.position - c.used
          <6>1. o \in Nat
            BY <1>1, <2>7
          <6> HIDE DEF o
          <6>2. j \in Int /\ o + 1 <= j /\ j <= o + 1 + Size - 1
            BY <1>1, <6>1 DEF o
          <6>3. j - o \in 1 .. Size /\ o + (j - o) = j
            BY <1>1, <6>1, <6>2
          <6> QED BY <3>2, <6>3 DEF o
        <5>3. c.bytes[j - (c.position - c.used)] = s[j]
          BY <2>5, <5>2 DEF Copies
        <5> QED BY <5>1, <5>2, <5>3 DEF NoNewline
      <4> HIDE DEF i
      <4> QED BY <4>1, <4>2 DEF LineTooLong
    <3> QED BY <1>1, <2>7, <3>1, <3>2
  <2>9. /\ LineEnd(c) \in c.processed + 1 .. c.used
        /\ c.bytes[LineEnd(c)] = Newline
        /\ NoNewline(c, c.processed + 1, LineEnd(c) - 1)
    <3>1. c.processed + 1 = 1
      BY <2>5
    <3> QED BY <2>7, <2>8, <3>1, LineEndFacts
  <2> QED BY <2>1, <2>5, <2>9
<1>4. CASE ~MustRefill(b)
  <2>1. Scanned = b
    BY <1>4 DEF Scanned
  <2>2. CASE LineEnd(b) = b.used + 1 /\ NoNewline(b, b.processed + 1, b.used)
    <3>1. b.position = Len(s)
      BY <1>1, <1>2, <1>4, <2>2 DEF Filled, MustRefill
    <3>2. b.processed = b.used
      <4> SUFFICES ASSUME b.processed # b.used
                   PROVE  FALSE
        OBVIOUS
      <4>1. b.used \in b.processed + 1 .. b.used /\ b.used \in 1 .. b.used
            /\ (b.position - b.used) + b.used = Len(s) /\ s # <<>>
        BY <1>1, <1>2, <3>1, EmptySeq
      <4>2. b.bytes[b.used] = s[Len(s)]
        BY <4>1 DEF Copies
      <4> QED BY <2>2, <4>1, <4>2 DEF NoNewline, Terminated
    <3> QED BY <2>1, <2>2, <3>1, <3>2
  <2>3. CASE /\ LineEnd(b) \in b.processed + 1 .. b.used
             /\ b.bytes[LineEnd(b)] = Newline
             /\ NoNewline(b, b.processed + 1, LineEnd(b) - 1)
    BY <2>1, <2>3
  <2> QED BY <1>2, <2>2, <2>3, LineEndFacts
<1> QED BY <1>3, <1>4

LEMMA SubSeqOfCopy ==
  ASSUME NEW S, NEW s, NEW t, NEW o \in Nat, NEW i \in Nat, NEW j \in Int,
         \A k \in i .. j : t[k] \in S /\ t[k] = s[o + k]
  PROVE  SubSeq(t, i, j) = SubSeq(s, o + i, o + j)
<1> DEFINE u == SubSeq(t, i, j)
           v == SubSeq(s, o + i, o + j)
<1>1. /\ u \in Seq(S) /\ Len(u) = (IF i <= j THEN j - i + 1 ELSE 0)
      /\ \A k \in 1 .. j - i + 1 : u[k] = t[i + k - 1]
  BY SubSeqProperties
<1>2. /\ v \in Seq(S)
      /\ Len(v) = (IF o + i <= o + j THEN (o + j) - (o + i) + 1 ELSE 0)
      /\ \A k \in 1 .. (o + j) - (o + i) + 1 : v[k] = s[(o + i) + k - 1]
  <2>1. ASSUME NEW k \in o + i .. o + j
        PROVE  s[k] \in S
    <3>1. k - o \in i .. j /\ o + (k - o) = k
      OBVIOUS
    <3> QED BY <3>1
  <2>2. o + i \in Int /\ o + j \in Int
    OBVIOUS
  <2> QED BY <2>1, <2>2, SubSeqProperties
<1> HIDE DEF u, v
<1>3. Len(u) = Len(v)
  BY <1>1, <1>2
<1>4. ASSUME NEW k \in 1 .. Len(u)
      PROVE  u[k] = v[k]
  <2>1. /\ k \in 1 .. j - i + 1 /\ k \in 1 .. (o + j) - (o + i) + 1
        /\ i + k - 1 \in i .. j /\ o + (i + k - 1) = (o + i) + k - 1
    BY <1>1
  <2>2. t[i + k - 1] = s[o + (i + k - 1)]
    BY <2>1
  <2> QED BY <1>1, <1>2, <2>1, <2>2
<1> QED BY <1>1, <1>2, <1>3, <1>4, SeqEqual DEF u, v

LEMMA SubSeqOfOne ==
  ASSUME NEW S, NEW s, NEW i \in Int, s[i] \in S
  PROVE  SubSeq(s, i, i) = <<s[i]>>
<1> DEFINE t == SubSeq(s, i, i)
           u == <<s[i]>>
<1>1. /\ t \in Seq(S) /\ Len(t) = (IF i <= i THEN i - i + 1 ELSE 0)
      /\ \A k \in 1 .. i - i + 1 : t[k] = s[i + k - 1]
  <2>1. \A k \in i .. i : s[k] \in S
    OBVIOUS
  <2> QED BY <2>1, SubSeqProperties
<1>2. i - i + 1 = 1 /\ i + 1 - 1 = i
  OBVIOUS
<1>3. u \in Seq(S) /\ Len(u) = 1 /\ u[1] = s[i]
  OBVIOUS
<1> HIDE DEF t, u
<1>4. Len(t) = 1 /\ t[1] = s[i]
  BY <1>1, <1>2
<1>5. \A k \in 1 .. Len(t) : t[k] = u[k]
  BY <1>3, <1>4
<1> QED BY <1>1, <1>3, <1>4, <1>5, SeqEqual DEF t, u

LEMMA RowOfLine ==
  ASSUME NEW s, NEW i, NEW j, s[j] = Newline
  PROVE  Row(s, i, j) = SubSeq(s, i + 1, j - (IF KeepDelimiter THEN 0 ELSE 1))
<1>1. CASE KeepDelimiter
  BY <1>1 DEF Row
<1>2. CASE ~KeepDelimiter
  BY <1>2 DEF Row
<1> QED BY <1>1, <1>2

(* The line found is the row of the text up to the next newline.           *)
LEMMA LineIsRow ==
  ASSUME NEW s \in Seq(Byte), NEW c, Copies(s, c), Filled(s, c),
         LineEnd(c) \in c.processed + 1 .. c.used, c.bytes[LineEnd(c)] = Newline,
         NoNewline(c, c.processed + 1, LineEnd(c) - 1)
  PROVE  /\ Copies(s, Advance(c)) /\ Filled(s, Advance(c))
         /\ Place(Advance(c)) \in Place(c) + 1 .. Len(s)
         /\ s[Place(Advance(c))] = Newline
         /\ \A i \in Place(c) + 1 .. Place(Advance(c)) - 1 : s[i] # Newline
         /\ Line(c) = Row(s, Place(c), Place(Advance(c)))
         /\ LineEnd(c) = c.processed + 1 => Place(Advance(c)) = Place(c) + 1
<1> DEFINE e == LineEnd(c)
           o == c.position - c.used
           p == c.processed
           u == c.used
           B == c.bytes
           d == Advance(c)
           k == Place(c)
           l == Place(d)
<1>1. /\ c = [bytes |-> B, used |-> u, processed |-> p, position |-> c.position]
      /\ c.position \in Nat /\ u <= c.position /\ c.position <= Len(s)
  BY DEF Copies, Buffer
<1>2. B \in [1 .. Size -> Byte]
  BY DEF Copies, Buffer
<1>3. u \in 0 .. Size /\ p \in Nat /\ Size \in Nat /\ Len(s) \in Nat /\ u \in Nat
  BY LinesAssumption, LenProperties DEF Copies, Buffer, LinesAssumption
<1>4. \A i \in 1 .. u : B[i] = s[o + i]
  BY DEF Copies
<1>5. e \in p + 1 .. u /\ B[e] = Newline /\ NoNewline(c, p + 1, e - 1)
  OBVIOUS
<1>6. k = o + p
  BY DEF Place
<1> HIDE DEF e, o, p, u, B
<1>7. e \in Nat /\ o \in Nat /\ e <= u /\ p < e /\ u <= Size /\ o + u <= Len(s)
  <2>1. e \in Nat /\ e <= u /\ p < e /\ u <= Size
    BY <1>3, <1>5
  <2>2. o \in Nat /\ o + u <= Len(s)
    BY <1>1, <1>3 DEF o, u
  <2> QED BY <2>1, <2>2
<1>8. EndsWithDelimiter(c)
  <2>1. e # Size + 1
    BY <1>3, <1>7
  <2> QED BY <1>5, <2>1 DEF EndsWithDelimiter, e, B
<1>9. d = [bytes |-> B, used |-> u, processed |-> e, position |-> c.position]
  <2>1. d = [c EXCEPT !.processed = e - 0]
    BY <1>8 DEF Advance, e
  <2>2. e - 0 = e
    BY <1>7
  <2> HIDE DEF d
  <2> QED BY <1>1, <2>1, <2>2
<1>10. d.bytes = B /\ d.used = u /\ d.processed = e /\ d.position = c.position
  BY <1>9
<1>11. Copies(s, d) /\ Filled(s, d)
  <2>1. d \in Buffer
    BY <1>1, <1>2, <1>3, <1>7, <1>9 DEF Buffer
  <2>2. d.processed <= d.used
    BY <1>7, <1>10
  <2> HIDE DEF d
  <2>3. d.bytes = c.bytes /\ d.used = c.used /\ d.position = c.position
    BY <1>10 DEF B, u
  <2> QED BY <2>1, <2>2, <2>3 DEF Copies, Filled
<1>12. l = o + e
  BY <1>10 DEF Place, o, u
<1> HIDE DEF d, k, l
<1>13. l \in k + 1 .. Len(s)
  BY <1>3, <1>6, <1>7, <1>12
<1>14. s[l] = Newline
  <2>1. e \in 1 .. u
    BY <1>3, <1>7
  <2> QED BY <1>4, <1>5, <1>12, <2>1
<1>15. ASSUME NEW i \in k + 1 .. l - 1
       PROVE  s[i] # Newline
  <2>1. i \in Int /\ o + p + 1 <= i /\ i <= o + e - 1
    BY <1>3, <1>6, <1>7, <1>12
  <2>2. i - o \in p + 1 .. e - 1 /\ i - o \in 1 .. u /\ o + (i - o) = i
    BY <1>3, <1>7, <2>1
  <2> QED BY <1>4, <1>5, <2>2 DEF NoNewline, B
<1>16. Line(c) = Row(s, k, l)
  <2> DEFINE x == IF KeepDelimiter THEN 0 ELSE 1
             i == p + 1
             j == e - x
  <2>1. Line(c) = SubSeq(B, i, j)
    BY <1>8 DEF Line, e, p, B
  <2>2. Row(s, k, l) = SubSeq(s, k + 1, l - x)
    BY <1>14, RowOfLine
  <2>3. x \in {0, 1}
    OBVIOUS
  <2> HIDE DEF x
  <2>4. i \in Nat /\ j \in Int /\ k + 1 = o + i /\ l - x = o + j
    BY <1>3, <1>6, <1>7, <1>12, <2>3
  <2>5. ASSUME NEW n \in i .. j
        PROVE  B[n] \in Byte /\ B[n] = s[o + n]
    <3>1. n \in 1 .. u /\ n \in 1 .. Size
      BY <1>3, <1>7, <2>3
    <3> QED BY <1>2, <1>4, <3>1
  <2> HIDE DEF i, j
  <2>6. SubSeq(B, i, j) = SubSeq(s, o + i, o + j)
    BY <1>7, <2>4, <2>5, SubSeqOfCopy
  <2> QED BY <2>1, <2>2, <2>4, <2>6
<1>17. e = p + 1 => l = k + 1
  BY <1>3, <1>6, <1>7, <1>12
<1> QED BY <1>11, <1>13, <1>14, <1>15, <1>16, <1>17 DEF d, k, l, e, p

-----------------------------------------------------------------------------
(* The reader.                                                             *)

ReaderInputs == \A s \in Inputs : Terminated(s) /\ ~LineTooLong(s)

LEMMA ReaderInit ==
  ASSUME Init
  PROVE  ReaderInv
<1> DEFINE n == LineCount(input)
<1>1. input \in Inputs /\ out = <<>> /\ last = FALSE /\ ended = "no"
  BY DEF Init
<1>2. input \in Seq(Byte) /\ Len(input) \in Nat /\ n \in Nat /\ Marks(input)[1] = 0
  BY <1>1, InputsFacts, MarksFacts
<1>3. PICK memory \in [1 .. Size -> {Newline, Junk}] :
        b = Refill(input, [bytes |-> memory, used |-> 0, processed |-> 0, position |-> 0])
  BY DEF Init
<1> DEFINE c == [bytes |-> memory, used |-> 0, processed |-> 0, position |-> 0]
<1>4. Copies(input, c) /\ Place(c) = 0
  <2>1. Size \in Nat
    BY LinesAssumption DEF LinesAssumption
  <2>2. memory \in [1 .. Size -> Byte]
    BY DEF Byte
  <2>3. c \in Buffer
    BY <2>1, <2>2 DEF Buffer
  <2>4. c.processed <= c.used /\ c.used <= c.position /\ c.position <= Len(input)
    BY <1>2
  <2>5. \A i \in 1 .. c.used : FALSE
    OBVIOUS
  <2>6. Place(c) = 0
    BY DEF Place
  <2> HIDE DEF c
  <2> QED BY <2>3, <2>4, <2>5, <2>6 DEF Copies
<1> HIDE DEF c
<1>5. Copies(input, b) /\ Filled(input, b) /\ Place(b) = 0
  BY <1>2, <1>3, <1>4, RefillCopies DEF c
<1>6. out \in Seq(Seq(Byte)) /\ Len(out) = 0 /\ Len(out) + 1 = 1
  BY <1>1, EmptySeq
<1> HIDE DEF n
<1>7. Len(out) <= n
  BY <1>2, <1>6
<1>8. \A k \in 1 .. Len(out) : FALSE
  BY <1>6
<1> QED BY <1>1, <1>2, <1>5, <1>6, <1>7, <1>8 DEF ReaderInv, n

LEMMA ReaderFacts ==
  ASSUME ReaderInv
  PROVE  /\ input \in Inputs /\ input \in Seq(Byte) /\ Len(input) \in Nat
         /\ LineCount(input) \in Nat /\ Len(out) \in 0 .. LineCount(input)
         /\ Len(out) + 1 \in 1 .. LineCount(input) + 1
<1>1. input \in Inputs /\ out \in Seq(Seq(Byte)) /\ Len(out) <= LineCount(input)
  BY DEF ReaderInv
<1>2. input \in Seq(Byte) /\ Len(input) \in Nat /\ LineCount(input) \in Nat
  BY <1>1, InputsFacts, MarksFacts
<1>3. Len(out) \in Nat
  BY <1>1, LenProperties
<1> QED BY <1>1, <1>2, <1>3

LEMMA ReaderScans ==
  ASSUME ReaderInputs, ReaderInv, ~(MustRefill(b) /\ TooSmall(b))
  PROVE  /\ Copies(input, Scanned) /\ Filled(input, Scanned)
         /\ Place(Scanned) = Marks(input)[Len(out) + 1]
         /\ \/ /\ LineEnd(Scanned) \in Scanned.processed + 1 .. Scanned.used
               /\ Scanned.bytes[LineEnd(Scanned)] = Newline
               /\ NoNewline(Scanned, Scanned.processed + 1, LineEnd(Scanned) - 1)
            \/ /\ LineEnd(Scanned) = Scanned.processed + 1
               /\ Scanned.processed = Scanned.used /\ Scanned.position = Len(input)
<1>1. input \in Inputs /\ Copies(input, b) /\ Filled(input, b)
      /\ Place(b) = Marks(input)[Len(out) + 1]
  BY DEF ReaderInv
<1>2. Terminated(input) /\ ~LineTooLong(input)
  BY <1>1 DEF ReaderInputs
<1> QED BY <1>1, <1>2, ScanFacts

(* The line found is the next of the lines.                                *)
LEMMA FoundIsNext ==
  ASSUME ReaderInputs, ReaderInv,
         NEW c, Copies(input, c), Filled(input, c), Place(c) = Marks(input)[Len(out) + 1],
         LineEnd(c) \in c.processed + 1 .. c.used, c.bytes[LineEnd(c)] = Newline,
         NoNewline(c, c.processed + 1, LineEnd(c) - 1)
  PROVE  /\ Len(out) < LineCount(input)
         /\ Copies(input, Advance(c)) /\ Filled(input, Advance(c))
         /\ Place(Advance(c)) = Marks(input)[Len(out) + 2]
         /\ Line(c) = LinesOf(input)[Len(out) + 1]
         /\ input[Place(Advance(c))] = Newline
         /\ LineEnd(c) = c.processed + 1 => Place(Advance(c)) = Place(c) + 1
<1> DEFINE k == Len(out) + 1
           n == LineCount(input)
           m == Marks(input)
           e == Place(Advance(c))
<1>1. input \in Inputs /\ input \in Seq(Byte) /\ n \in Nat /\ Len(out) \in Nat /\ k \in 1 .. n + 1
  BY ReaderFacts
<1>2. /\ Copies(input, Advance(c)) /\ Filled(input, Advance(c))
      /\ e \in Place(c) + 1 .. Len(input)
      /\ input[e] = Newline
      /\ \A i \in Place(c) + 1 .. e - 1 : input[i] # Newline
      /\ Line(c) = Row(input, Place(c), e)
      /\ LineEnd(c) = c.processed + 1 => e = Place(c) + 1
  BY <1>1, LineIsRow
<1> HIDE DEF e
<1>3. k <= n /\ m[k + 1] = e
  <2>1. Terminated(input)
    BY <1>1 DEF ReaderInputs
  <2>2. Place(c) = m[k]
    OBVIOUS
  <2> HIDE DEF k
  <2> QED BY <1>1, <1>2, <2>1, <2>2, NextMark
<1>4. Line(c) = LinesOf(input)[k]
  <2>1. k \in 1 .. n
    BY <1>1, <1>3
  <2>2. LinesOf(input)[k] = Row(input, m[k], m[k + 1])
    <3> HIDE DEF k
    <3> QED BY <1>1, <2>1, Rows
  <2> QED BY <1>2, <1>3, <2>2
<1>5. k + 1 = Len(out) + 2 /\ Len(out) < n
  BY <1>1, <1>3
<1> QED BY <1>2, <1>3, <1>4, <1>5 DEF e

LEMMA NextLineReads ==
  ASSUME ReaderInputs, ReaderInv, NextLine
  PROVE  ReaderInv'
<1> DEFINE c == Scanned
           n == LineCount(input)
           m == Marks(input)
           lines == LinesOf(input)
<1>1. /\ ended = "no" /\ ~(MustRefill(b) /\ TooSmall(b))
      /\ LineEnd(c) # c.processed + 1
      /\ out' = Append(out, Line(c)) /\ b' = Advance(c) /\ last' = AtEnd(b')
      /\ input' = input /\ ended' = ended
  BY DEF NextLine, CanCall
<1>2. /\ input \in Inputs /\ input \in Seq(Byte) /\ Len(input) \in Nat /\ n \in Nat
      /\ Len(out) \in Nat
  BY ReaderFacts
<1>3. /\ Copies(input, c) /\ Filled(input, c) /\ Place(c) = m[Len(out) + 1]
      /\ LineEnd(c) \in c.processed + 1 .. c.used /\ c.bytes[LineEnd(c)] = Newline
      /\ NoNewline(c, c.processed + 1, LineEnd(c) - 1)
  BY <1>1, ReaderScans
<1>4. /\ Len(out) < n
      /\ Copies(input, b') /\ Filled(input, b')
      /\ Place(b') = m[Len(out) + 2]
      /\ Line(c) = lines[Len(out) + 1]
  <2> HIDE DEF c
  <2> QED BY <1>1, <1>3, FoundIsNext
<1>5. /\ out \in Seq(Seq(Byte)) /\ \A k \in 1 .. Len(out) : out[k] = lines[k]
  BY DEF ReaderInv
<1>6. lines \in Seq(Seq(Byte)) /\ Len(lines) = n
  BY <1>2, Rows
<1>7. Line(c) \in Seq(Byte)
  <2>1. Len(out) + 1 \in 1 .. Len(lines)
    BY <1>2, <1>4, <1>6
  <2> HIDE DEF c, lines
  <2> QED BY <1>4, <1>6, <2>1, ElementOfSeq
<1> HIDE DEF c, n, m, lines
<1>8. /\ out' \in Seq(Seq(Byte)) /\ Len(out') = Len(out) + 1 /\ out' # <<>>
      /\ \A k \in 1 .. Len(out) : out'[k] = out[k]
      /\ out'[Len(out) + 1] = Line(c)
  BY <1>1, <1>2, <1>5, <1>7
<1>9. \A k \in 1 .. Len(out') : out'[k] = lines[k]
  <2>1. ASSUME NEW k \in 1 .. Len(out')
        PROVE  out'[k] = lines[k]
    <3>1. k \in 1 .. Len(out) \/ k = Len(out) + 1
      BY <1>2, <1>8
    <3> QED BY <1>4, <1>5, <1>8, <3>1
  <2> QED BY <2>1
<1>10. Len(out') <= n /\ Len(out') + 1 = Len(out) + 2 /\ Place(b') = m[Len(out') + 1]
  BY <1>2, <1>4, <1>8
<1>11. last' <=> Len(out') = n
  <2>1. last' <=> b'.processed = b'.used /\ b'.position = Len(input)
    BY <1>1 DEF AtEnd
  <2>2. /\ b'.used \in Nat /\ b'.processed \in Nat /\ b'.position \in Nat
        /\ b'.processed <= b'.used /\ b'.position <= Len(input)
    <3>1. Size \in Nat
      BY LinesAssumption DEF LinesAssumption
    <3> QED BY <1>4, <3>1 DEF Copies, Buffer
  <2>3. Place(b') = Len(input) <=> b'.processed = b'.used /\ b'.position = Len(input)
    BY <1>2, <2>2 DEF Place
  <2>4. m[Len(out') + 1] = Len(input) <=> Len(out') = n
    <3>1. Len(out') \in Nat
      BY <1>2, <1>8
    <3>2. CASE Len(out') = n
      BY <1>2, <3>2, MarksFacts DEF m, n
    <3>3. CASE Len(out') # n
      <4>1. Len(out') + 1 \in 1 .. n + 1 /\ n + 1 \in 1 .. n + 1 /\ Len(out') + 1 < n + 1
        BY <1>2, <1>10, <3>1, <3>3
      <4>2. m[Len(out') + 1] < m[n + 1] /\ m[n + 1] = Len(input)
        BY <1>2, <4>1, MarksFacts DEF m, n
      <4>3. m[Len(out') + 1] \in 0 .. Len(input)
        BY <1>2, <4>1, MarksFacts DEF m, n
      <4>4. m[Len(out') + 1] # Len(input)
        BY <1>2, <4>2, <4>3
      <4> QED BY <3>3, <4>4
    <3> QED BY <3>2, <3>3
  <2> QED BY <1>10, <2>1, <2>3, <2>4
<1>12. ended' # "false"
  BY <1>1
<1>13. input' \in Inputs /\ Copies(input', b') /\ Filled(input', b')
  BY <1>1, <1>2, <1>4
<1>14. Len(out') <= LineCount(input') /\ Place(b') = Marks(input')[Len(out') + 1]
  BY <1>1, <1>10 DEF n, m
<1>15. \A k \in 1 .. Len(out') : out'[k] = LinesOf(input')[k]
  BY <1>1, <1>9 DEF lines
<1>16. last' <=> (out' # <<>> /\ Len(out') = LineCount(input'))
  BY <1>1, <1>8, <1>11 DEF n
<1> QED BY <1>8, <1>12, <1>13, <1>14, <1>15, <1>16 DEF ReaderInv

LEMMA NoLineReads ==
  ASSUME ReaderInputs, ReaderInv, NoLine
  PROVE  ReaderInv'
<1> DEFINE c == Scanned
           n == LineCount(input)
           m == Marks(input)
           k == Len(out) + 1
           x == IF KeepDelimiter THEN 0 ELSE 1
<1>1. /\ ~(MustRefill(b) /\ TooSmall(b)) /\ LineEnd(c) = c.processed + 1
      /\ b' = c /\ input' = input /\ out' = out /\ last' = last
  BY DEF NoLine
<1>2. /\ input \in Inputs /\ input \in Seq(Byte) /\ Len(input) \in Nat /\ n \in Nat
      /\ k \in 1 .. n + 1 /\ Len(out) \in Nat
  BY ReaderFacts
<1>3. Copies(input, c) /\ Filled(input, c) /\ Place(c) = m[k]
  BY <1>1, ReaderScans
<1>4. ASSUME c.processed = c.used, c.position = Len(input)
      PROVE  Len(out) = n
  <2>1. Place(c) = Len(input)
    <3>1. c.used \in Nat
      BY <1>3, LinesAssumption DEF Copies, Buffer, LinesAssumption
    <3> HIDE DEF c
    <3> QED BY <1>2, <1>4, <3>1 DEF Place
  <2> SUFFICES ASSUME Len(out) # n
               PROVE  FALSE
    OBVIOUS
  <2>2. n + 1 \in 1 .. n + 1 /\ k < n + 1
    BY <1>2
  <2> HIDE DEF k
  <2>3. m[k] < m[n + 1] /\ m[n + 1] = Len(input)
    BY <1>2, <2>2, MarksFacts
  <2> QED BY <1>2, <1>3, <2>1, <2>3
<1>5. ASSUME LineEnd(c) \in c.processed + 1 .. c.used, c.bytes[LineEnd(c)] = Newline,
             NoNewline(c, c.processed + 1, LineEnd(c) - 1)
      PROVE  Blank(input)
  <2> DEFINE e == Place(Advance(c))
  <2>1. /\ Len(out) < n /\ e = m[Len(out) + 2] /\ e = m[k] + 1 /\ input[e] = Newline
    <3> HIDE DEF c
    <3> QED BY <1>1, <1>3, <1>5, FoundIsNext
  <2> HIDE DEF e
  <2>2. k \in 1 .. n /\ Len(out) + 2 = k + 1
    BY <1>2, <2>1
  <2>3. m[k] \in Nat
    <3> HIDE DEF k
    <3> QED BY <1>2, MarksFacts
  <2>4. LinesOf(input)[k] = SubSeq(input, m[k] + 1, e - x)
    <3>1. LinesOf(input)[k] = Row(input, m[k], e)
      <4> HIDE DEF k
      <4> QED BY <1>2, <2>1, <2>2, Rows
    <3>2. Row(input, m[k], e) = SubSeq(input, m[k] + 1, e - x)
      <4> HIDE DEF k, m
      <4> QED BY <2>1, RowOfLine
    <3> HIDE DEF k, m, x
    <3> QED BY <3>1, <3>2
  <2>5. LinesOf(input)[k] \in {<<>>, <<Newline>>}
    <3>1. m[k] + 1 = e /\ e - 0 = e /\ e - 1 < e /\ e \in Int /\ e - 1 \in Int
      <4> HIDE DEF k, m
      <4> QED BY <2>1, <2>3
    <3>2. CASE KeepDelimiter
      <4>1. x = 0
        BY <3>2
      <4>2. input[e] \in Byte
        BY <2>1 DEF Byte
      <4>3. SubSeq(input, e, e) = <<Newline>>
        BY <2>1, <3>1, <4>2, SubSeqOfOne
      <4> HIDE DEF k, m, x
      <4>4. LinesOf(input)[k] = SubSeq(input, e, e)
        BY <2>4, <3>1, <4>1
      <4> QED BY <4>3, <4>4
    <3>3. CASE ~KeepDelimiter
      <4>1. x = 1
        BY <3>3
      <4> HIDE DEF k, m, x
      <4>2. LinesOf(input)[k] = SubSeq(input, e, e - 1)
        BY <2>4, <3>1, <4>1
      <4>3. SubSeq(input, e, e - 1) = <<>>
        BY <3>1, SubSeqEmpty
      <4> QED BY <4>2, <4>3
    <3> QED BY <3>2, <3>3
  <2>6. k \in DOMAIN LinesOf(input)
    BY <1>2, <2>2, Rows, LenProperties
  <2> HIDE DEF k
  <2> QED BY <2>5, <2>6 DEF Blank
<1>6. \/ /\ LineEnd(c) \in c.processed + 1 .. c.used /\ c.bytes[LineEnd(c)] = Newline
         /\ NoNewline(c, c.processed + 1, LineEnd(c) - 1)
      \/ c.processed = c.used /\ c.position = Len(input)
  BY <1>1, ReaderScans
<1>7. Blank(input) \/ Len(out) = n
  <2> HIDE DEF c
  <2> QED BY <1>4, <1>5, <1>6
<1> HIDE DEF c
<1>8. Copies(input', b') /\ Filled(input', b') /\ Place(b') = Marks(input')[Len(out') + 1]
  BY <1>1, <1>3
<1>9. Blank(input') \/ Len(out') = LineCount(input')
  BY <1>1, <1>7
<1>10. /\ input' \in Inputs
       /\ out' \in Seq(Seq(Byte)) /\ Len(out') <= LineCount(input')
       /\ \A i \in 1 .. Len(out') : out'[i] = LinesOf(input')[i]
       /\ last' <=> (out' # <<>> /\ Len(out') = LineCount(input'))
  BY <1>1 DEF ReaderInv
<1> QED BY <1>8, <1>9, <1>10 DEF ReaderInv

LEMMA ReaderStep ==
  ASSUME ReaderInputs, ReaderInv, [NextLine \/ NoLine \/ Throw]_vars
  PROVE  ReaderInv'
<1>1. CASE NextLine
  BY <1>1, NextLineReads
<1>2. CASE NoLine
  BY <1>2, NoLineReads
<1>3. CASE Throw
  BY <1>3 DEF Throw, ReaderInv
<1>4. CASE UNCHANGED vars
  BY <1>4 DEF vars, ReaderInv
<1> QED BY <1>1, <1>2, <1>3, <1>4

LEMMA PrefixIs ==
  ASSUME NEW S, NEW s \in Seq(S), NEW t \in Seq(S), Len(s) <= Len(t),
         \A k \in 1 .. Len(s) : s[k] = t[k]
  PROVE  IsPrefix(s, t) /\ (Len(s) = Len(t) => s = t)
<1> DEFINE u == SubSeq(t, 1, Len(s))
<1>1. Len(s) \in Nat /\ Len(t) \in Nat
  BY LenProperties
<1>2. SubSeq(s, 1, Len(s)) = s
  BY SubSeqFull
<1>3. \A i \in 1 .. Len(s) : t[i] \in S
  BY ElementOfSeq
<1>4. /\ u \in Seq(S)
      /\ Len(u) = (IF 1 <= Len(s) THEN Len(s) - 1 + 1 ELSE 0)
      /\ \A i \in 1 .. Len(s) - 1 + 1 : u[i] = t[1 + i - 1]
  BY <1>1, <1>3, SubSeqProperties
<1> HIDE DEF u
<1>5. Len(u) = Len(s) /\ \A i \in 1 .. Len(s) : u[i] = t[i]
  <2>1. Len(s) - 1 + 1 = Len(s) /\ \A i \in 1 .. Len(s) : 1 + i - 1 = i
    BY <1>1
  <2> QED BY <1>1, <1>4, <2>1
<1>6. u = s
  BY <1>4, <1>5, SeqEqual
<1>7. Len(s) = Len(t) => s = t
  BY SeqEqual
<1> QED BY <1>2, <1>6, <1>7 DEF IsPrefix, u

LEMMA ReaderImplies ==
  ASSUME ReaderInv
  PROVE  ReadsLines
<1> DEFINE n == LineCount(input)
           lines == LinesOf(input)
<1>1. input \in Seq(Byte) /\ n \in Nat /\ Len(out) \in 0 .. n
  BY ReaderFacts
<1>2. /\ out \in Seq(Seq(Byte)) /\ \A k \in 1 .. Len(out) : out[k] = lines[k]
      /\ last <=> (out # <<>> /\ Len(out) = n)
      /\ ended = "false" => Blank(input) \/ Len(out) = n
  BY DEF ReaderInv
<1>3. lines \in Seq(Seq(Byte)) /\ Len(lines) = n
  BY <1>1, Rows
<1> HIDE DEF n, lines
<1>4. IsPrefix(out, lines) /\ (Len(out) = n <=> out = lines)
  <2>1. Len(out) <= Len(lines)
    BY <1>1, <1>3
  <2> QED BY <1>2, <1>3, <2>1, PrefixIs
<1>5. ended = "false" /\ ~Blank(input) => out = lines
  BY <1>2, <1>4
<1>6. last <=> (out # <<>> /\ out = lines)
  BY <1>2, <1>4
<1> QED BY <1>4, <1>5, <1>6 DEF ReadsLines, lines

(* Every step of the requests is a step of the reader, or leaves it alone. *)
LEMMA RequestsReads ==
  ASSUME [RequestsNext]_allVars
  PROVE  [NextLine \/ NoLine \/ Throw]_vars
<1>1. CASE RequestsNext
  BY <1>1 DEF RequestsNext, AddLine, SendSubtask, Abandon, WriteChunk, ReadChunk,
     ProcessRequest, PrintReply
<1>2. CASE UNCHANGED allVars
  BY <1>2 DEF allVars
<1> QED BY <1>1, <1>2

-----------------------------------------------------------------------------
(* The place in the buffer always corresponds to the lines returned: the   *)
(* inductive invariant of getLine, shifting and refilling included.        *)
THEOREM ReaderInvariant ==
  ASSUME ReaderInputs
  PROVE  RequestsSpec => []ReaderInv
<1>1. RequestsInit => ReaderInv
  BY ReaderInit DEF RequestsInit
<1>2. ReaderInv /\ [RequestsNext]_allVars => ReaderInv'
  BY ReaderStep, RequestsReads
<1> QED BY <1>1, <1>2, PTL DEF RequestsSpec

(* Whatever the size of the buffer, getLine returns the lines of a source  *)
(* whose lines end with a newline and fit into the buffer, each once and   *)
(* in order, and sets _last with the last.                                 *)
THEOREM ReadsLinesAlways ==
  ASSUME ReaderInputs
  PROVE  RequestsSpec => []ReadsLines
<1>1. ReaderInv => ReadsLines
  BY ReaderImplies
<1> QED BY <1>1, ReaderInvariant, PTL

-----------------------------------------------------------------------------
(* Messages.                                                               *)

Data == Byte \cup Ids
EndBytes == {EndOfMessage[i] : i \in DOMAIN EndOfMessage}
AnyByte == Data \cup EndBytes

LEMMA MinOfInts ==
  ASSUME NEW i \in Int, NEW j \in Int
  PROVE  Min({i, j}) \in Int /\ Min({i, j}) <= i /\ Min({i, j}) <= j
<1>1. (IF i <= j THEN i ELSE j) \in {i, j}
      /\ \A y \in {i, j} : (IF i <= j THEN i ELSE j) <= y
  OBVIOUS
<1>2. Min({i, j}) = CHOOSE x \in {i, j} : \A y \in {i, j} : x <= y
  BY DEF Min
<1>3. Min({i, j}) \in {i, j} /\ \A y \in {i, j} : Min({i, j}) <= y
  BY <1>1, <1>2
<1> QED BY <1>3

LEMMA EndFacts ==
  /\ EndOfMessage \in Seq(EndBytes) /\ EndOfMessage \in Seq(AnyByte)
  /\ Len(EndOfMessage) \in Nat \ {0}
  /\ EndOfMessage[1] \in EndBytes
  /\ EndBytes \cap Data = {}
<1>1. EndOfMessage \in Seq(EndBytes)
  BY HeaderAssumption DEF HeaderAssumption, EndBytes
<1>2. EndBytes \subseteq AnyByte
  BY DEF AnyByte
<1>3. EndOfMessage \in Seq(AnyByte)
  BY <1>1, <1>2, SeqMonotonic
<1>4. EndOfMessage # <<>> /\ EndBytes \cap (Nat \cup {Newline, Junk} \cup Ids) = {}
  BY RequestsAssumption DEF RequestsAssumption, EndBytes
<1>5. Len(EndOfMessage) \in Nat \ {0}
  BY <1>1, <1>4, EmptySeq
<1>6. EndOfMessage[1] \in EndBytes
  <2>1. 1 \in 1 .. Len(EndOfMessage)
    BY <1>5
  <2> QED BY <1>1, <2>1, ElementOfSeq
<1>7. EndBytes \cap Data = {}
  BY <1>4 DEF Data, Byte
<1> QED BY <1>1, <1>3, <1>5, <1>6, <1>7

(* A reader is done with a message when it has read all of it.             *)
LEMMA CompleteAtEnd ==
  ASSUME NEW D \in Seq(Data), NEW P \in Seq(AnyByte), NEW Q \in Seq(AnyByte),
         P \o Q = D \o EndOfMessage, IsComplete(P)
  PROVE  WithoutEnd(P) = D
<1> DEFINE M == D \o EndOfMessage
           n == Len(EndOfMessage)
           i == Len(P) - n + 1
<1>1. D \in Seq(AnyByte) /\ Len(D) \in Nat /\ n \in Nat \ {0} /\ Len(P) \in Nat /\ Len(Q) \in Nat
  <2>1. Data \subseteq AnyByte
    BY DEF AnyByte
  <2>2. D \in Seq(AnyByte)
    BY <2>1, SeqMonotonic
  <2> QED BY <2>2, EndFacts, LenProperties
<1>2. /\ Len(M) = Len(D) + n
      /\ \A k \in 1 .. Len(D) + n : M[k] = IF k <= Len(D) THEN D[k] ELSE EndOfMessage[k - Len(D)]
  BY <1>1, EndFacts, ConcatProperties
<1>3. /\ Len(M) = Len(P) + Len(Q)
      /\ \A k \in 1 .. Len(P) + Len(Q) : M[k] = IF k <= Len(P) THEN P[k] ELSE Q[k - Len(P)]
  BY ConcatProperties
<1>4. n <= Len(P) /\ SubSeq(P, i, Len(P)) = EndOfMessage
  BY DEF IsComplete, EndsWith
<1> HIDE DEF M, n
<1>5. i \in 1 .. Len(P) /\ i <= Len(D) + n /\ i \in Int
  <2>1. Len(D) + n = Len(P) + Len(Q)
    BY <1>2, <1>3
  <2>2. n <= Len(P)
    BY <1>4
  <2> QED BY <1>1, <2>1, <2>2
<1>6. P[i] = EndOfMessage[1]
  <2>1. \A k \in i .. Len(P) : k \in 1 .. Len(P)
    BY <1>1, <1>5
  <2>2. \A k \in i .. Len(P) : P[k] \in AnyByte
    BY <2>1, ElementOfSeq
  <2>3. 1 \in 1 .. Len(P) - i + 1 /\ i + 1 - 1 = i
    BY <1>1, <1>5
  <2> HIDE DEF i
  <2>4. \A k \in 1 .. Len(P) - i + 1 : SubSeq(P, i, Len(P))[k] = P[i + k - 1]
    BY <1>1, <1>5, <2>2, SubSeqProperties
  <2> QED BY <1>4, <2>3, <2>4
<1>7. M[i] = P[i]
  <2>1. i \in 1 .. Len(P) + Len(Q) /\ i <= Len(P)
    BY <1>1, <1>5
  <2> QED BY <1>3, <2>1
<1>8. ~(i <= Len(D))
  <2> SUFFICES ASSUME i <= Len(D)
               PROVE  FALSE
    OBVIOUS
  <2>1. i \in 1 .. Len(D)
    BY <1>1, <1>5
  <2>2. i \in 1 .. Len(D) + n
    BY <1>1, <1>5
  <2> HIDE DEF i
  <2>3. M[i] = D[i] /\ D[i] \in Data
    BY <1>2, <2>1, <2>2, ElementOfSeq
  <2> QED BY <1>6, <1>7, <2>3, EndFacts
<1>9. Len(P) = Len(D) + n
  <2>1. Len(D) + n = Len(P) + Len(Q)
    BY <1>2, <1>3
  <2> QED BY <1>1, <1>8, <2>1
<1>10. ASSUME NEW k \in 1 .. Len(D)
       PROVE  P[k] = D[k]
  <2>1. k \in 1 .. Len(D) + n /\ k \in 1 .. Len(P) + Len(Q) /\ k <= Len(D) /\ k <= Len(P)
    BY <1>1, <1>9
  <2> QED BY <1>2, <1>3, <2>1
<1>11. Len(P) - Len(EndOfMessage) = Len(D)
  BY <1>1, <1>9 DEF n
<1>12. SubSeq(P, 1, Len(D)) = D
  <2> DEFINE u == SubSeq(P, 1, Len(D))
  <2>1. \A k \in 1 .. Len(D) : P[k] \in AnyByte
    BY <1>10, <1>1, ElementOfSeq
  <2>2. /\ u \in Seq(AnyByte) /\ Len(u) = (IF 1 <= Len(D) THEN Len(D) - 1 + 1 ELSE 0)
        /\ \A k \in 1 .. Len(D) - 1 + 1 : u[k] = P[1 + k - 1]
    BY <1>1, <2>1, SubSeqProperties
  <2> HIDE DEF u
  <2>3. Len(u) = Len(D)
    BY <1>1, <2>2
  <2>4. ASSUME NEW k \in 1 .. Len(u)
        PROVE  u[k] = D[k]
    <3>1. k \in 1 .. Len(D) - 1 + 1 /\ k \in 1 .. Len(D) /\ 1 + k - 1 = k
      BY <1>1, <2>3
    <3> QED BY <1>10, <2>2, <3>1
  <2>5. u = D
    BY <1>1, <2>2, <2>3, <2>4, SeqEqual
  <2> QED BY <2>5 DEF u
<1> QED BY <1>11, <1>12 DEF WithoutEnd

LEMMA CodesAreNumbers ==
  /\ Underlying(HeaderTypes, "SESSION") \in Nat
  /\ Underlying(Compressors, "NONE") \in Nat
  /\ Underlying(DiagnosticsKinds, "NONE") \in Nat
  /\ Underlying(Statuses, "NONE") \in Nat
<1>1. ASSUME NEW enum, NEW name, NEW n \in Nat, DOMAIN enum = 1 .. n,
             \E k \in 1 .. n : enum[k] = name
      PROVE  Underlying(enum, name) \in Nat
  <2>1. (CHOOSE k \in DOMAIN enum : enum[k] = name) \in 1 .. n
    BY <1>1
  <2> QED BY <2>1 DEF Underlying, InvalidLow
<1>2. DOMAIN HeaderTypes = 1 .. 6 /\ HeaderTypes[5] = "SESSION"
  BY DEF HeaderTypes
<1>3. DOMAIN Compressors = 1 .. 4 /\ Compressors[1] = "NONE"
  BY DEF Compressors
<1>4. DOMAIN DiagnosticsKinds = 1 .. 2 /\ DiagnosticsKinds[1] = "NONE"
  BY DEF DiagnosticsKinds
<1>5. DOMAIN Statuses = 1 .. 18 /\ Statuses[1] = "NONE"
  BY DEF Statuses
<1>6. 5 \in 1 .. 6 /\ 1 \in 1 .. 4 /\ 1 \in 1 .. 2 /\ 1 \in 1 .. 18
  OBVIOUS
<1>7. Underlying(HeaderTypes, "SESSION") \in Nat
  BY <1>1, <1>2, <1>6
<1>8. Underlying(Compressors, "NONE") \in Nat
  BY <1>1, <1>3, <1>6
<1>9. Underlying(DiagnosticsKinds, "NONE") \in Nat
  BY <1>1, <1>4, <1>6
<1>10. Underlying(Statuses, "NONE") \in Nat
  BY <1>1, <1>5, <1>6
<1> QED BY <1>7, <1>8, <1>9, <1>10

PlainHeader(n) == Serialize(SessionHeader(n, "NONE", "NONE", "NONE"))

LEMMA PlainHeaderFacts ==
  ASSUME NEW n \in 0 .. BufferSize + Size
  PROVE  PlainHeader(n) \in Seq(Data) /\ Len(PlainHeader(n)) = 8 /\ PlainHeader(n)[2] = n
<1>1. BufferSize \in Nat /\ Size \in Nat /\ 0 < Limit /\ n < Limit
  BY RequestsAssumption, LinesAssumption DEF RequestsAssumption, LinesAssumption
<1>2. ToChars(n) = n /\ ToChars(0) = 0
  BY <1>1 DEF ToChars
<1>3. PlainHeader(n) = <<Underlying(HeaderTypes, "SESSION"), n, 0, Underlying(Compressors, "NONE"),
                         Underlying(DiagnosticsKinds, "NONE"), Underlying(Statuses, "NONE"), 0, 0>>
  BY <1>2 DEF PlainHeader, Serialize, SessionHeader
<1>4. n \in Data /\ 0 \in Data /\ Nat \subseteq Data
  BY <1>1 DEF Data, Byte
<1> QED BY <1>3, <1>4, CodesAreNumbers

(* A piece of a sequence put together from two.                            *)
LEMMA TailOfConcat ==
  ASSUME NEW S, NEW s \in Seq(S), NEW t \in Seq(S)
  PROVE  SubSeq(s \o t, Len(s) + 1, Len(s \o t)) = t
<1> DEFINE u == s \o t
           v == SubSeq(u, Len(s) + 1, Len(u))
<1>1. /\ Len(s) \in Nat /\ Len(t) \in Nat /\ u \in Seq(S) /\ Len(u) = Len(s) + Len(t)
      /\ \A i \in 1 .. Len(s) + Len(t) : u[i] = IF i <= Len(s) THEN s[i] ELSE t[i - Len(s)]
  BY ConcatProperties, LenProperties
<1> HIDE DEF u
<1>2. \A i \in Len(s) + 1 .. Len(u) : u[i] \in S
  <2>1. \A i \in Len(s) + 1 .. Len(u) : i \in 1 .. Len(u)
    BY <1>1
  <2> QED BY <1>1, <2>1, ElementOfSeq
<1>3. /\ v \in Seq(S)
      /\ Len(v) = (IF Len(s) + 1 <= Len(u) THEN Len(u) - (Len(s) + 1) + 1 ELSE 0)
      /\ \A i \in 1 .. Len(u) - (Len(s) + 1) + 1 : v[i] = u[Len(s) + 1 + i - 1]
  BY <1>1, <1>2, SubSeqProperties
<1> HIDE DEF v
<1>4. Len(v) = Len(t)
  BY <1>1, <1>3
<1>5. ASSUME NEW i \in 1 .. Len(v)
      PROVE  v[i] = t[i]
  <2>1. /\ i \in 1 .. Len(u) - (Len(s) + 1) + 1 /\ Len(s) + 1 + i - 1 \in 1 .. Len(s) + Len(t)
        /\ ~(Len(s) + 1 + i - 1 <= Len(s)) /\ (Len(s) + 1 + i - 1) - Len(s) = i
    BY <1>1, <1>4
  <2> QED BY <1>1, <1>3, <2>1
<1> QED BY <1>3, <1>4, <1>5, SeqEqual DEF u, v

LEMMA HeadOfConcat ==
  ASSUME NEW S, NEW s \in Seq(S), NEW t \in Seq(S)
  PROVE  SubSeq(s \o t, 1, Len(s)) = s
<1> DEFINE u == s \o t
           v == SubSeq(u, 1, Len(s))
<1>1. /\ Len(s) \in Nat /\ Len(t) \in Nat /\ u \in Seq(S) /\ Len(u) = Len(s) + Len(t)
      /\ \A i \in 1 .. Len(s) + Len(t) : u[i] = IF i <= Len(s) THEN s[i] ELSE t[i - Len(s)]
  BY ConcatProperties, LenProperties
<1> HIDE DEF u
<1>2. \A i \in 1 .. Len(s) : u[i] \in S
  <2>1. \A i \in 1 .. Len(s) : i \in 1 .. Len(u)
    BY <1>1
  <2> QED BY <1>1, <2>1, ElementOfSeq
<1>3. /\ v \in Seq(S) /\ Len(v) = (IF 1 <= Len(s) THEN Len(s) - 1 + 1 ELSE 0)
      /\ \A i \in 1 .. Len(s) - 1 + 1 : v[i] = u[1 + i - 1]
  BY <1>1, <1>2, SubSeqProperties
<1> HIDE DEF v
<1>4. Len(v) = Len(s)
  BY <1>1, <1>3
<1>5. ASSUME NEW i \in 1 .. Len(v)
      PROVE  v[i] = s[i]
  <2>1. /\ i \in 1 .. Len(s) - 1 + 1 /\ 1 + i - 1 = i /\ i \in 1 .. Len(s) + Len(t) /\ i <= Len(s)
    BY <1>1, <1>4
  <2> QED BY <1>1, <1>3, <2>1
<1> QED BY <1>3, <1>4, <1>5, SeqEqual DEF u, v

(* What is sent is what is received: the text, without the headers.        *)
LEMMA SentFacts ==
  ASSUME NEW size \in 0 .. BufferSize + Size,
         NEW text \in Seq(Data), Len(text) + HeaderSize <= BufferSize + Size
  PROVE  \E D \in Seq(Data) :
           /\ Sent(size, text, "NONE") = D \o EndOfMessage
           /\ \A f : Body(Fields(D, <<f>>)[1]) = text
<1> DEFINE header == PlainHeader(size)
           inner == header \o text
           n == Len(inner)
           D == PlainHeader(n) \o inner
<1>1. /\ BufferSize \in Nat /\ Size \in Nat /\ Len(text) \in Nat
      /\ Len(text) + 8 <= BufferSize + Size
  BY RequestsAssumption, LinesAssumption, LenProperties
  DEF RequestsAssumption, LinesAssumption, HeaderSize
<1>2. header \in Seq(Data) /\ Len(header) = 8
  BY <1>1, PlainHeaderFacts
<1> HIDE DEF header
<1>3. inner \in Seq(Data) /\ n = 8 + Len(text) /\ n \in 0 .. BufferSize + Size /\ n \in Nat /\ n > 0
  <2>1. inner \in Seq(Data) /\ n = Len(header) + Len(text)
    BY <1>2, ConcatProperties
  <2> HIDE DEF inner, n
  <2>2. n = 8 + Len(text)
    BY <1>2, <2>1
  <2> QED BY <1>1, <2>1, <2>2
<1>4. SubSeq(inner, 9, n) = text
  <2>1. SubSeq(inner, Len(header) + 1, n) = text
    BY <1>2, TailOfConcat
  <2>2. Len(header) + 1 = 9
    BY <1>2
  <2> HIDE DEF inner, n
  <2> QED BY <2>1, <2>2
<1> HIDE DEF inner
<1>5. PlainHeader(n) \in Seq(Data) /\ Len(PlainHeader(n)) = 8 /\ PlainHeader(n)[2] = n
  <2> HIDE DEF n
  <2> QED BY <1>3, PlainHeaderFacts
<1>6. D \in Seq(Data) /\ Len(D) = 8 + n /\ D[2] = n
  <2> HIDE DEF n
  <2>1. 2 \in 1 .. Len(PlainHeader(n)) + Len(inner) /\ 2 <= Len(PlainHeader(n))
    BY <1>3, <1>5 DEF n
  <2>2. D[2] = PlainHeader(n)[2]
    BY <1>3, <1>5, <2>1, ConcatProperties
  <2>3. D \in Seq(Data) /\ Len(D) = Len(PlainHeader(n)) + Len(inner)
    BY <1>3, <1>5, ConcatProperties
  <2> HIDE DEF D
  <2> QED BY <1>5, <2>2, <2>3 DEF n
<1>7. Body(D) = inner
  <2>1. SubSeq(D, Len(PlainHeader(n)) + 1, Len(D)) = inner
    <3> HIDE DEF n
    <3> QED BY <1>3, <1>5, TailOfConcat
  <2>2. Len(PlainHeader(n)) + 1 = HeaderSize + 1
    BY <1>5 DEF HeaderSize
  <2> HIDE DEF D, n
  <2> QED BY <2>1, <2>2 DEF Body
<1>8. Sent(size, text, "NONE") = D \o EndOfMessage
  <2>1. Sent(size, text, "NONE") = D \o <<>> \o <<>> \o <<>> \o EndOfMessage
    BY DEF Sent, Message, PlainHeader, inner, header
  <2>2. D \o <<>> = D
    <3> HIDE DEF D
    <3> QED BY <1>6, ConcatEmptySeq
  <2> HIDE DEF D
  <2> QED BY <2>1, <2>2
<1> HIDE DEF D
<1>9. ASSUME NEW f
      PROVE  Body(Fields(D, <<f>>)[1]) = text
  <2> DEFINE h == Deserialize(D)
  <2>1. Sizes(h)[1] = n
    <3>1. h.size1 = n
      BY <1>6 DEF Deserialize
    <3> QED BY <3>1 DEF Sizes
  <2>2. FirstByte(h, 1) = 0
    BY DEF FirstByte, Offsets
  <2>3. Fields(D, <<f>>)[1] = FieldOf(D, 1)
    <3>1. Fields(D, <<f>>)[1] = IF Sizes(h)[1] > 0 THEN FieldOf(D, 1) ELSE f
      BY DEF Fields
    <3>2. Sizes(h)[1] > 0
      BY <1>3, <2>1
    <3> HIDE DEF h
    <3> QED BY <3>1, <3>2
  <2> HIDE DEF h, n
  <2>4. FieldOf(D, 1) = SubSeq(inner, 0 + 1, IF 0 + n <= Len(inner) THEN 0 + n ELSE Len(inner))
    BY <1>7, <2>1, <2>2 DEF FieldOf, h
  <2>5. SubSeq(inner, 1, Len(inner)) = inner
    BY <1>3, SubSeqFull
  <2>6. 0 + 1 = 1 /\ (IF 0 + n <= Len(inner) THEN 0 + n ELSE Len(inner)) = Len(inner)
    BY <1>3 DEF n
  <2>7. FieldOf(D, 1) = inner
    BY <2>4, <2>5, <2>6
  <2>8. Body(inner) = text
    <3>1. HeaderSize + 1 = 9
      BY DEF HeaderSize
    <3> QED BY <1>4, <3>1 DEF Body, n
  <2> QED BY <2>3, <2>7, <2>8
<1> QED BY <1>6, <1>8, <1>9

-----------------------------------------------------------------------------
(* Aggregates.  The requests p + 1 to q, one after the other: each is its  *)
(* id and the bytes of its line; Start is where request k ends.            *)

Start(s, p, k) == (Marks(s)[k + 1] - Marks(s)[p + 1]) + (k - p)

Aggregates(s, text, p, q) ==
  /\ text \in Seq(Data) /\ Len(text) = Start(s, p, q)
  /\ \A k \in p + 1 .. q : \A i \in 1 .. Start(s, p, k) - Start(s, p, k - 1) :
       text[Start(s, p, k - 1) + i] =
         IF i = 1 THEN Id(k - 1) ELSE s[Marks(s)[k] + (i - 1)]

LEMMA MarkStep ==
  ASSUME NEW s \in Seq(Byte), Terminated(s), ~LineTooLong(s), NEW k \in 1 .. LineCount(s)
  PROVE  /\ Marks(s)[k] \in Nat /\ Marks(s)[k + 1] \in 1 .. Len(s)
         /\ Marks(s)[k] < Marks(s)[k + 1]
         /\ Marks(s)[k + 1] - Marks(s)[k] <= Size
         /\ s[Marks(s)[k + 1]] = Newline
         /\ \A i \in Marks(s)[k] + 1 .. Marks(s)[k + 1] - 1 : s[i] # Newline
<1> DEFINE n == LineCount(s)
           m == Marks(s)
<1>1. Len(s) \in Nat /\ DOMAIN s = 1 .. Len(s) /\ n \in Nat /\ Size \in Nat \ {0}
  BY LenProperties, MarksFacts, LinesAssumption DEF LinesAssumption
<1>2. k \in 1 .. n + 1 /\ k + 1 \in 1 .. n + 1 /\ k < k + 1
  BY <1>1
<1>3. m[k] \in 0 .. Len(s) /\ m[k] < m[k + 1] /\ m[k + 1] \in Ends(s)
  BY <1>2, MarksFacts
<1>4. m[k + 1] \in 1 .. Len(s)
  BY <1>1, <1>3 DEF Ends
<1>5. s[m[k + 1]] = Newline
  <2>1. s # <<>>
    BY <1>1, <1>4, EmptySeq
  <2> QED BY <1>3, <2>1 DEF Ends, Terminated
<1>6. ASSUME NEW i \in m[k] + 1 .. m[k + 1] - 1
      PROVE  s[i] # Newline
  <2> SUFFICES ASSUME s[i] = Newline
               PROVE  FALSE
    OBVIOUS
  <2>1. i \in DOMAIN s /\ m[k] < i /\ i < m[k + 1]
    <3> HIDE DEF m, n
    <3> QED BY <1>1, <1>3, <1>4
  <2>2. PICK j \in 1 .. n : m[j + 1] = i
    <3>1. i \in Ends(s)
      BY <2>1 DEF Ends
    <3> QED BY <3>1, MarksFacts
  <2>3. j + 1 \in 1 .. n + 1
    BY <1>1, <2>2
  <2>4. CASE j + 1 < k
    <3>1. m[j + 1] < m[k]
      BY <1>2, <2>3, <2>4, MarksFacts
    <3> HIDE DEF m, n
    <3> QED BY <1>3, <2>1, <2>2, <3>1
  <2>5. CASE j + 1 = k
    <3> HIDE DEF m, n
    <3> QED BY <1>3, <2>1, <2>2, <2>5
  <2>6. CASE j = k
    <3> HIDE DEF m, n
    <3> QED BY <1>4, <2>1, <2>2, <2>6
  <2>7. CASE k < j
    <3>1. k + 1 < j + 1
      BY <1>1, <2>2, <2>7
    <3>2. m[k + 1] < m[j + 1]
      BY <1>2, <2>3, <3>1, MarksFacts
    <3> HIDE DEF m, n
    <3> QED BY <1>4, <2>1, <2>2, <3>2
  <2>8. j + 1 < k \/ j + 1 = k \/ j = k \/ k < j
    BY <1>1, <2>2
  <2> QED BY <2>4, <2>5, <2>6, <2>7, <2>8
<1>7. m[k + 1] - m[k] <= Size
  <2> SUFFICES ASSUME ~(m[k + 1] - m[k] <= Size)
               PROVE  FALSE
    OBVIOUS
  <2> DEFINE i == m[k] + 1
  <2> HIDE DEF m, n
  <2>1. i \in DOMAIN s
    BY <1>1, <1>3, <1>4
  <2>2. ASSUME NEW j \in i .. i + Size - 1
        PROVE  j \in DOMAIN s /\ s[j] # Newline
    <3>1. j \in m[k] + 1 .. m[k + 1] - 1 /\ j \in 1 .. Len(s)
      BY <1>1, <1>3, <1>4
    <3> QED BY <1>1, <1>6, <3>1
  <2> HIDE DEF i
  <2> QED BY <2>1, <2>2 DEF LineTooLong
<1> HIDE DEF m, n
<1>8. m[k] \in Nat
  BY <1>1, <1>3
<1> QED BY <1>3, <1>4, <1>5, <1>6, <1>7, <1>8 DEF m

(* A line keeps its newline, a request loses it for its id.                *)
LEMMA LineFacts ==
  ASSUME NEW s \in Seq(Byte), Terminated(s), ~LineTooLong(s), NEW k \in 1 .. LineCount(s)
  PROVE  /\ LinesOf(s)[k] \in Seq(Byte)
         /\ Len(LinesOf(s)[k]) = Marks(s)[k + 1] - Marks(s)[k]
         /\ \A i \in 1 .. Marks(s)[k + 1] - Marks(s)[k] :
              LinesOf(s)[k][i] = s[Marks(s)[k] + i]
<1> DEFINE x == Marks(s)[k]
           y == Marks(s)[k + 1]
           line == LinesOf(s)[k]
<1>1. x \in Nat /\ y \in 1 .. Len(s) /\ x < y /\ s[y] = Newline /\ Len(s) \in Nat
  BY MarkStep, LenProperties
<1>2. KeepDelimiter
  BY RequestsAssumption DEF RequestsAssumption
<1>3. line = SubSeq(s, x + 1, y)
  <2>1. line = Row(s, x, y)
    BY Rows
  <2> HIDE DEF x, y, line
  <2>2. Row(s, x, y) = SubSeq(s, x + 1, y - 0)
    BY <1>1, <1>2 DEF Row
  <2>3. y - 0 = y
    BY <1>1
  <2> QED BY <2>1, <2>2, <2>3
<1> HIDE DEF x, y, line
<1>4. \A i \in x + 1 .. y : s[i] \in Byte
  <2>1. \A i \in x + 1 .. y : i \in 1 .. Len(s)
    BY <1>1
  <2> QED BY <2>1, ElementOfSeq
<1>5. /\ line \in Seq(Byte)
      /\ Len(line) = (IF x + 1 <= y THEN y - (x + 1) + 1 ELSE 0)
      /\ \A i \in 1 .. y - (x + 1) + 1 : line[i] = s[x + 1 + i - 1]
  BY <1>1, <1>3, <1>4, SubSeqProperties
<1>6. Len(line) = y - x
  BY <1>1, <1>5
<1>7. ASSUME NEW i \in 1 .. y - x
      PROVE  line[i] = s[x + i]
  <2>1. i \in 1 .. y - (x + 1) + 1 /\ x + 1 + i - 1 = x + i
    BY <1>1
  <2> QED BY <1>5, <2>1
<1> QED BY <1>5, <1>6, <1>7 DEF x, y, line

LEMMA RequestFacts ==
  ASSUME NEW s \in Seq(Byte), Terminated(s), ~LineTooLong(s), NEW k \in 1 .. LineCount(s)
  PROVE  /\ RequestsOf(s)[k] \in Seq(Data)
         /\ Len(RequestsOf(s)[k]) = Marks(s)[k + 1] - Marks(s)[k]
         /\ \A i \in 1 .. Marks(s)[k + 1] - Marks(s)[k] :
              RequestsOf(s)[k][i] = IF i = 1 THEN Id(k - 1) ELSE s[Marks(s)[k] + (i - 1)]
<1> DEFINE x == Marks(s)[k]
           y == Marks(s)[k + 1]
           line == LinesOf(s)[k]
           bare == SubSeq(line, 1, Len(line) - 1)
           id == <<Id(k - 1)>>
           request == RequestsOf(s)[k]
<1>1. x \in Nat /\ y \in Nat /\ x < y
  BY MarkStep
<1>2. line \in Seq(Byte) /\ Len(line) = y - x /\ \A i \in 1 .. y - x : line[i] = s[x + i]
  BY LineFacts
<1>3. request = id \o bare
  <2>1. k \in DOMAIN LinesOf(s)
    BY Rows, LenProperties
  <2> QED BY <2>1 DEF RequestsOf, Front
<1> HIDE DEF x, y, line, request
<1>4. id \in Seq(Data) /\ Len(id) = 1 /\ id[1] = Id(k - 1)
  <2>1. k - 1 \in Nat
    <3>1. LineCount(s) \in Nat
      BY MarksFacts
    <3> QED BY <3>1
  <2>2. Id(k - 1) \in Data
    BY <2>1 DEF Id, Data, Ids
  <2> QED BY <2>2
<1>5. /\ bare \in Seq(Data)
      /\ Len(bare) = (y - x) - 1
      /\ \A i \in 1 .. (y - x) - 1 : bare[i] = s[x + i]
  <2>1. \A i \in 1 .. Len(line) - 1 : line[i] \in Data
    <3>1. \A i \in 1 .. Len(line) - 1 : i \in 1 .. Len(line)
      BY <1>1, <1>2
    <3>2. \A i \in 1 .. Len(line) : line[i] \in Byte
      BY <1>2, ElementOfSeq
    <3> QED BY <3>1, <3>2 DEF Data
  <2>2. 1 \in Int /\ Len(line) - 1 \in Int
    BY <1>1, <1>2
  <2>3. /\ bare \in Seq(Data)
        /\ Len(bare) = (IF 1 <= Len(line) - 1 THEN Len(line) - 1 - 1 + 1 ELSE 0)
        /\ \A i \in 1 .. Len(line) - 1 - 1 + 1 : bare[i] = line[1 + i - 1]
    BY <2>1, <2>2, SubSeqProperties
  <2> HIDE DEF bare
  <2>4. Len(bare) = (y - x) - 1
    BY <1>1, <1>2, <2>3
  <2>5. ASSUME NEW i \in 1 .. (y - x) - 1
        PROVE  bare[i] = s[x + i]
    <3>1. i \in 1 .. Len(line) - 1 - 1 + 1 /\ 1 + i - 1 = i /\ i \in 1 .. y - x
      BY <1>1, <1>2
    <3> QED BY <1>2, <2>3, <3>1
  <2> QED BY <2>3, <2>4, <2>5
<1> HIDE DEF bare, id
<1>6. /\ request \in Seq(Data) /\ Len(request) = Len(id) + Len(bare)
      /\ \A i \in 1 .. Len(id) + Len(bare) :
           request[i] = IF i <= Len(id) THEN id[i] ELSE bare[i - Len(id)]
  BY <1>3, <1>4, <1>5, ConcatProperties
<1>7. Len(request) = y - x
  BY <1>1, <1>4, <1>5, <1>6
<1>8. ASSUME NEW i \in 1 .. y - x
      PROVE  request[i] = IF i = 1 THEN Id(k - 1) ELSE s[x + (i - 1)]
  <2>1. i \in 1 .. Len(id) + Len(bare)
    BY <1>1, <1>4, <1>5
  <2>2. CASE i = 1
    <3>1. i <= Len(id)
      BY <1>4, <2>2
    <3> QED BY <1>4, <1>6, <2>1, <2>2, <3>1
  <2>3. CASE i # 1
    <3>1. ~(i <= Len(id)) /\ i - Len(id) = i - 1 /\ i - 1 \in 1 .. (y - x) - 1
      BY <1>1, <1>4, <2>3
    <3> QED BY <1>5, <1>6, <2>1, <2>3, <3>1
  <2> QED BY <2>2, <2>3
<1> QED BY <1>6, <1>7, <1>8 DEF x, y, request

LEMMA StartFacts ==
  ASSUME NEW s \in Seq(Byte), NEW q \in 0 .. LineCount(s), NEW p \in 0 .. q
  PROVE  /\ \A k \in p .. q : Start(s, p, k) \in Nat
         /\ \A k, j \in p .. q : k < j => Start(s, p, k) < Start(s, p, j)
         /\ Start(s, p, p) = 0
<1> DEFINE m == Marks(s)
           n == LineCount(s)
<1>1. n \in Nat /\ Len(s) \in Nat
  BY MarksFacts, LenProperties
<1>2. \A k \in p .. q : k + 1 \in 1 .. n + 1
  BY <1>1
<1>3. \A k \in p .. q : m[k + 1] \in Nat
  BY <1>1, <1>2, MarksFacts
<1>4. p \in p .. q /\ q \in p .. q
  BY <1>1
<1>5. ASSUME NEW k \in p .. q, NEW j \in p .. q, k < j
      PROVE  m[k + 1] < m[j + 1]
  <2>1. k + 1 < j + 1
    BY <1>1, <1>5
  <2> QED BY <1>2, <2>1, MarksFacts
<1> HIDE DEF m, n
<1>6. ASSUME NEW k \in p .. q, NEW j \in p .. q, k < j
      PROVE  Start(s, p, k) < Start(s, p, j)
  <2>1. m[k + 1] < m[j + 1]
    BY <1>5, <1>6
  <2> QED BY <1>1, <1>3, <1>4, <1>6, <2>1 DEF Start, m
<1>7. Start(s, p, p) = 0
  BY <1>1, <1>3, <1>4 DEF Start, m
<1>8. ASSUME NEW k \in p .. q
      PROVE  Start(s, p, k) \in Nat
  <2>1. CASE k = p
    BY <1>7, <2>1
  <2>2. CASE k # p
    <3>1. p < k
      BY <1>1, <2>2
    <3>2. Start(s, p, p) < Start(s, p, k)
      BY <1>4, <1>6, <3>1
    <3>3. Start(s, p, k) \in Int
      BY <1>1, <1>3, <1>4 DEF Start, m
    <3> QED BY <1>7, <3>2, <3>3
  <2> QED BY <2>1, <2>2
<1> QED BY <1>6, <1>7, <1>8

(* Request k has its place in the aggregate.                               *)
LEMMA BlockLength ==
  ASSUME NEW s \in Seq(Byte), Terminated(s), ~LineTooLong(s),
         NEW q \in 0 .. LineCount(s), NEW p \in 0 .. q, NEW k \in p + 1 .. q
  PROVE  /\ k \in 1 .. LineCount(s) /\ k - 1 \in p .. q /\ k \in p .. q /\ (k - 1) + 1 = k
         /\ Start(s, p, k - 1) \in Nat /\ Start(s, p, k) \in Nat
         /\ Start(s, p, k) - Start(s, p, k - 1) = (Marks(s)[k + 1] - Marks(s)[k]) + 1
         /\ Start(s, p, k) <= Start(s, p, q)
<1> DEFINE x == Start(s, p, k - 1)
           y == Start(s, p, k)
           z == Start(s, p, q)
           m == Marks(s)
<1>1. LineCount(s) \in Nat
  BY MarksFacts
<1>2. k \in 1 .. LineCount(s) /\ k - 1 \in p .. q /\ k \in p .. q /\ (k - 1) + 1 = k /\ q \in p .. q
  BY <1>1
<1>3. x \in Nat /\ y \in Nat /\ z \in Nat
  BY <1>2, StartFacts
<1>4. y <= z
  <2>1. k = q \/ k < q
    BY <1>1
  <2>2. k < q => y < z
    BY <1>2, StartFacts
  <2>3. k = q => y = z
    OBVIOUS
  <2> HIDE DEF y, z
  <2> QED BY <1>3, <2>1, <2>2, <2>3
<1>5. y - x = (m[k + 1] - m[k]) + 1
  <2> DEFINE u == m[p + 1]
             v == m[k]
             w == m[k + 1]
  <2>1. v \in Nat /\ w \in Nat /\ u \in Nat
    <3>1. p + 1 \in 1 .. LineCount(s)
      BY <1>1
    <3> QED BY <1>2, <3>1, MarkStep
  <2>2. y = (w - u) + (k - p)
    BY DEF Start
  <2>3. x = (v - u) + ((k - 1) - p)
    BY <1>2 DEF Start
  <2>4. k \in Int /\ p \in Int
    BY <1>1
  <2> HIDE DEF u, v, w, x, y
  <2>5. y - x = (w - v) + 1
    BY <2>1, <2>2, <2>3, <2>4
  <2> QED BY <2>5 DEF v, w
<1> QED BY <1>2, <1>3, <1>4, <1>5

LEMMA EmptyAggregates ==
  ASSUME NEW s \in Seq(Byte), NEW p \in 0 .. LineCount(s)
  PROVE  Aggregates(s, <<>>, p, p)
<1>1. LineCount(s) \in Nat
  BY MarksFacts
<1>2. Start(s, p, p) = 0
  <2>1. p \in 0 .. p
    BY <1>1
  <2> QED BY <2>1, StartFacts
<1>3. \A k \in p + 1 .. p : FALSE
  BY <1>1
<1> QED BY <1>2, <1>3 DEF Aggregates

(* copyRequestWithId.                                                      *)
LEMMA OneMoreRequest ==
  ASSUME NEW s \in Seq(Byte), Terminated(s), ~LineTooLong(s),
         NEW q \in Nat, q < LineCount(s), NEW p \in 0 .. q,
         NEW text, Aggregates(s, text, p, q)
  PROVE  /\ Aggregates(s, text \o <<Id(q)>> \o LinesOf(s)[q + 1], p, q + 1)
         /\ Len(text \o <<Id(q)>> \o LinesOf(s)[q + 1]) <= Len(text) + 1 + Size
<1> DEFINE line == LinesOf(s)[q + 1]
           id == <<Id(q)>>
           longer == text \o id
           t == longer \o line
           a == Start(s, p, q)
           m == Marks(s)
           d == m[q + 2] - m[q + 1]
<1>1. LineCount(s) \in Nat /\ q + 1 \in 1 .. LineCount(s) /\ q + 1 \in 0 .. LineCount(s)
      /\ p \in 0 .. q + 1 /\ q + 1 \in p + 1 .. q + 1 /\ (q + 1) - 1 = q /\ (q + 1) + 1 = q + 2
      /\ q \in 0 .. LineCount(s)
  BY MarksFacts
<1>2. line \in Seq(Byte) /\ Len(line) = d /\ \A i \in 1 .. d : line[i] = s[m[q + 1] + i]
  <2>1. /\ line \in Seq(Byte) /\ Len(line) = m[(q + 1) + 1] - m[q + 1]
        /\ \A i \in 1 .. m[(q + 1) + 1] - m[q + 1] : line[i] = s[m[q + 1] + i]
    BY <1>1, LineFacts
  <2> HIDE DEF line, m
  <2> QED BY <1>1, <2>1
<1>3. d \in Nat \ {0} /\ d <= Size /\ m[q + 1] \in Nat /\ Size \in Nat
  <2>1. /\ m[q + 1] \in Nat /\ m[(q + 1) + 1] \in 1 .. Len(s)
        /\ m[q + 1] < m[(q + 1) + 1] /\ m[(q + 1) + 1] - m[q + 1] <= Size
    BY <1>1, MarkStep
  <2>2. Len(s) \in Nat /\ Size \in Nat
    BY LenProperties, LinesAssumption DEF LinesAssumption
  <2> HIDE DEF m
  <2> QED BY <1>1, <2>1, <2>2
<1>4. a \in Nat
  <2>1. q \in p .. q
    BY <1>1
  <2> QED BY <1>1, <2>1, StartFacts
<1>5. Start(s, p, q + 1) = a + d + 1
  <2>1. Start(s, p, q + 1) - Start(s, p, (q + 1) - 1) = (m[(q + 1) + 1] - m[q + 1]) + 1
        /\ Start(s, p, q + 1) \in Nat
    BY <1>1, BlockLength
  <2> HIDE DEF m
  <2>2. Start(s, p, q + 1) - Start(s, p, q) = d + 1
    BY <1>1, <2>1
  <2> HIDE DEF d
  <2> QED BY <1>3, <1>4, <2>1, <2>2
<1>6. text \in Seq(Data) /\ Len(text) = a
  BY DEF Aggregates
<1>7. id \in Seq(Data) /\ Len(id) = 1 /\ id[1] = Id(q)
  <2>1. Id(q) \in Data
    BY DEF Id, Data, Ids
  <2> QED BY <2>1
<1>8. line \in Seq(Data)
  <2>1. Byte \subseteq Data
    BY DEF Data
  <2> HIDE DEF line
  <2> QED BY <1>2, <2>1, SeqMonotonic
<1> HIDE DEF line, id, a, m, d
<1>9. /\ longer \in Seq(Data) /\ Len(longer) = a + 1
      /\ \A i \in 1 .. a : longer[i] = text[i]
      /\ longer[a + 1] = Id(q)
  <2>1. /\ longer \in Seq(Data) /\ Len(longer) = Len(text) + Len(id)
        /\ \A i \in 1 .. Len(text) + Len(id) :
             longer[i] = IF i <= Len(text) THEN text[i] ELSE id[i - Len(text)]
    BY <1>6, <1>7, ConcatProperties
  <2> HIDE DEF longer
  <2>2. \A i \in 1 .. a : i \in 1 .. Len(text) + Len(id) /\ i <= Len(text)
    BY <1>4, <1>6, <1>7
  <2>3. a + 1 \in 1 .. Len(text) + Len(id) /\ ~(a + 1 <= Len(text)) /\ (a + 1) - Len(text) = 1
    BY <1>4, <1>6, <1>7
  <2> QED BY <1>6, <1>7, <2>1, <2>2, <2>3
<1> HIDE DEF longer
<1>10. /\ t \in Seq(Data) /\ Len(t) = a + 1 + d
       /\ \A i \in 1 .. a : t[i] = text[i]
       /\ t[a + 1] = Id(q)
       /\ \A i \in 1 .. d : t[a + 1 + i] = s[m[q + 1] + i]
  <2>1. /\ t \in Seq(Data) /\ Len(t) = Len(longer) + Len(line)
        /\ \A i \in 1 .. Len(longer) + Len(line) :
             t[i] = IF i <= Len(longer) THEN longer[i] ELSE line[i - Len(longer)]
    BY <1>8, <1>9, ConcatProperties
  <2> HIDE DEF t
  <2>2. \A i \in 1 .. a + 1 : i \in 1 .. Len(longer) + Len(line) /\ i <= Len(longer)
    BY <1>2, <1>3, <1>4, <1>9
  <2>3. \A i \in 1 .. a + 1 : t[i] = longer[i]
    BY <2>1, <2>2
  <2>4. ASSUME NEW i \in 1 .. d
        PROVE  t[a + 1 + i] = line[i]
    <3>1. /\ a + 1 + i \in 1 .. Len(longer) + Len(line) /\ ~(a + 1 + i <= Len(longer))
          /\ (a + 1 + i) - Len(longer) = i
      BY <1>2, <1>3, <1>4, <1>9
    <3> QED BY <2>1, <3>1
  <2>5. a + 1 \in 1 .. a + 1 /\ \A i \in 1 .. a : i \in 1 .. a + 1
    BY <1>4
  <2>6. Len(t) = a + 1 + d
    BY <1>2, <1>9, <2>1
  <2> QED BY <1>2, <1>9, <2>1, <2>3, <2>4, <2>5, <2>6
<1> HIDE DEF t
<1>11. Len(t) = Start(s, p, q + 1)
  BY <1>3, <1>4, <1>5, <1>10
<1>12. ASSUME NEW k \in p + 1 .. q + 1, NEW i \in 1 .. Start(s, p, k) - Start(s, p, k - 1)
       PROVE  t[Start(s, p, k - 1) + i] = IF i = 1 THEN Id(k - 1) ELSE s[Marks(s)[k] + (i - 1)]
  <2>1. CASE k # q + 1
    <3>1. k \in p + 1 .. q
      BY <1>1, <2>1
    <3>2. /\ Start(s, p, k - 1) \in Nat /\ Start(s, p, k) \in Nat /\ Start(s, p, k) <= a
      BY <1>1, <3>1, BlockLength DEF a
    <3>3. Start(s, p, k - 1) + i \in 1 .. a
      BY <1>4, <3>2
    <3>4. text[Start(s, p, k - 1) + i] = IF i = 1 THEN Id(k - 1) ELSE s[Marks(s)[k] + (i - 1)]
      BY <3>1 DEF Aggregates
    <3> QED BY <1>10, <3>3, <3>4
  <2>2. CASE k = q + 1
    <3>1. Start(s, p, k - 1) = a /\ k - 1 = q /\ Marks(s)[k] = m[q + 1]
      BY <1>1, <2>2 DEF a, m
    <3>2. i \in 1 .. d + 1
      <4>1. Start(s, p, k) - a = d + 1
        BY <1>3, <1>4, <1>5, <2>2
      <4> QED BY <3>1, <4>1
    <3>3. CASE i = 1
      BY <1>10, <3>1, <3>3
    <3>4. CASE i # 1
      <4>1. i - 1 \in 1 .. d /\ a + 1 + (i - 1) = a + i
        BY <1>3, <1>4, <3>2, <3>4
      <4>2. t[a + i] = s[m[q + 1] + (i - 1)]
        BY <1>10, <4>1
      <4> QED BY <3>1, <3>4, <4>2
    <3> QED BY <3>3, <3>4
  <2> QED BY <2>1, <2>2
<1>13. Aggregates(s, t, p, q + 1)
  BY <1>10, <1>11, <1>12 DEF Aggregates
<1>14. Len(t) <= Len(text) + 1 + Size
  BY <1>3, <1>4, <1>6, <1>10
<1> QED BY <1>13, <1>14 DEF t, longer, id, line

(* A set that a rising sequence lists is sorted by it.                     *)
LEMMA SortedIs ==
  ASSUME NEW S \in SUBSET Nat, NEW n \in Nat, NEW f \in [1 .. n -> S],
         \A i, j \in 1 .. n : i < j => f[i] < f[j],
         \A x \in S : \E i \in 1 .. n : f[i] = x
  PROVE  /\ IsFiniteSet(S) /\ Cardinality(S) = n
         /\ Len(Sorted(S)) = n /\ \A i \in 1 .. n : Sorted(S)[i] = f[i]
<1>1. ASSUME NEW i \in 1 .. n, NEW j \in 1 .. n
      PROVE  f[i] <= f[j] <=> i <= j
  <2>1. f[i] \in Nat /\ f[j] \in Nat
    OBVIOUS
  <2>2. i < j => f[i] < f[j]
    OBVIOUS
  <2>3. j < i => f[j] < f[i]
    OBVIOUS
  <2>4. i = j => f[i] = f[j]
    OBVIOUS
  <2>5. i < j \/ j < i \/ i = j
    OBVIOUS
  <2>6. (i < j => i <= j) /\ (j < i => ~(i <= j)) /\ (i = j => i <= j)
    OBVIOUS
  <2> QED BY <2>1, <2>2, <2>3, <2>4, <2>5, <2>6
<1>2. ASSUME NEW k \in 0 .. n, NEW U, U = {x \in S : \E i \in 1 .. k : f[i] = x}
      PROVE  IsFiniteSet(U) /\ Cardinality(U) = k
  <2> DEFINE g == [i \in 1 .. k |-> f[i]]
  <2>1. \A i \in 1 .. k : i \in 1 .. n
    OBVIOUS
  <2>2. g \in [1 .. k -> U]
    BY <1>2, <2>1
  <2>3. g \in Surjection(1 .. k, U)
    BY <1>2, <2>2 DEF Surjection
  <2>4. ASSUME NEW i \in 1 .. k, NEW j \in 1 .. k, g[i] = g[j]
        PROVE  i = j
    <3>1. f[i] = f[j] /\ f[i] \in Nat /\ i \in 1 .. n /\ j \in 1 .. n
      BY <2>1, <2>4
    <3>2. f[i] <= f[j] /\ f[j] <= f[i]
      BY <3>1
    <3>3. i <= j /\ j <= i
      BY <1>1, <3>1, <3>2
    <3> QED BY <3>3
  <2>5. g \in Injection(1 .. k, U)
    <3>1. DOMAIN g = 1 .. k
      OBVIOUS
    <3> HIDE DEF g
    <3> QED BY <2>2, <2>4, <3>1 DEF Injection, IsInjective
  <2>6. IsFiniteSet(1 .. k) /\ Cardinality(1 .. k) = k
    BY FS_Interval
  <2> HIDE DEF g
  <2> QED BY <2>3, <2>5, <2>6, FS_Surjection
<1>3. IsFiniteSet(S) /\ Cardinality(S) = n
  <2>1. S = {x \in S : \E i \in 1 .. n : f[i] = x}
    OBVIOUS
  <2>2. n \in 0 .. n
    OBVIOUS
  <2> QED BY <1>2, <2>1, <2>2
<1>4. ASSUME NEW i \in 1 .. n
      PROVE  Rank(S, f[i]) = i
  <2> DEFINE U == {y \in S : y <= f[i]}
  <2>1. U = {x \in S : \E j \in 1 .. i : f[j] = x}
    <3>1. ASSUME NEW x \in S
          PROVE  x <= f[i] <=> \E j \in 1 .. i : f[j] = x
      <4>1. PICK j \in 1 .. n : f[j] = x
        OBVIOUS
      <4>2. x <= f[i] <=> j <= i
        BY <1>1, <4>1
      <4>3. j <= i => j \in 1 .. i
        BY <4>1
      <4>4. ASSUME NEW l \in 1 .. i, f[l] = x
            PROVE  x <= f[i]
        <5>1. l \in 1 .. n /\ l <= i
          OBVIOUS
        <5> QED BY <1>1, <4>4, <5>1
      <4> QED BY <4>1, <4>2, <4>3, <4>4
    <3> QED BY <3>1
  <2>2. i \in 0 .. n
    OBVIOUS
  <2> HIDE DEF U
  <2>3. Cardinality(U) = i
    BY <1>2, <2>1, <2>2
  <2> QED BY <2>3 DEF Rank, U
<1>5. ASSUME NEW i \in 1 .. n
      PROVE  Sorted(S)[i] = f[i]
  <2>1. Sorted(S)[i] = CHOOSE e \in S : Rank(S, e) = i
    BY <1>3 DEF Sorted, Rank
  <2>2. f[i] \in S /\ Rank(S, f[i]) = i
    BY <1>4
  <2>3. ASSUME NEW e \in S, Rank(S, e) = i
        PROVE  e = f[i]
    <3>1. PICK j \in 1 .. n : f[j] = e
      OBVIOUS
    <3>2. Rank(S, e) = j
      BY <1>4, <3>1
    <3> QED BY <2>3, <3>1, <3>2
  <2> QED BY <2>1, <2>2, <2>3
<1> QED BY <1>3, <1>5, SortedFacts

(* Every byte of an aggregate belongs to one of its requests; the newlines *)
(* are their last bytes.                                                   *)
LEMMA BlockOf ==
  ASSUME NEW s \in Seq(Byte), Terminated(s), ~LineTooLong(s),
         NEW q \in 0 .. LineCount(s), NEW p \in 0 .. q, NEW i \in 1 .. Start(s, p, q)
  PROVE  \E k \in p + 1 .. q : \E j \in 1 .. Start(s, p, k) - Start(s, p, k - 1) :
           i = Start(s, p, k - 1) + j
<1> DEFINE K == {k \in p + 1 .. q : i <= Start(s, p, k)}
           k == Min(K)
<1>1. LineCount(s) \in Nat /\ Start(s, p, p) = 0 /\ Start(s, p, q) \in Nat
  <2>1. LineCount(s) \in Nat
    BY MarksFacts
  <2>2. q \in p .. q
    BY <2>1
  <2> QED BY <2>1, <2>2, StartFacts
<1>2. p # q
  <2> SUFFICES ASSUME p = q
               PROVE  FALSE
    OBVIOUS
  <2>1. Start(s, p, q) = 0
    BY <1>1
  <2> QED BY <2>1
<1>3. q \in K
  BY <1>1, <1>2
<1>4. K \in SUBSET Nat /\ IsFiniteSet(K)
  <2>1. K \in SUBSET (p + 1 .. q) /\ p + 1 .. q \in SUBSET Nat
    BY <1>1
  <2>2. IsFiniteSet(p + 1 .. q)
    BY <1>1, FS_Interval
  <2> HIDE DEF K
  <2> QED BY <2>1, <2>2, FS_Subset
<1>5. k \in K /\ \A l \in K : k <= l
  <2> HIDE DEF K
  <2> QED BY <1>3, <1>4, MinFacts
<1>6. k \in p + 1 .. q /\ i <= Start(s, p, k)
  BY <1>5
<1>7. Start(s, p, k - 1) < i
  <2>1. CASE k - 1 = p
    <3>1. Start(s, p, k - 1) = 0
      BY <1>1, <2>1
    <3> QED BY <3>1
  <2>2. CASE k - 1 # p
    <3> HIDE DEF k
    <3>1. k - 1 \in p + 1 .. q /\ k \in Int /\ ~(k <= k - 1)
      BY <1>1, <1>6, <2>2
    <3>2. k - 1 \notin K
      <4> HIDE DEF K
      <4> QED BY <1>5, <3>1 DEF k
    <3>3. ~(i <= Start(s, p, k - 1))
      BY <3>1, <3>2
    <3>4. Start(s, p, k - 1) \in Nat
      BY <1>6, BlockLength
    <3> QED BY <3>3, <3>4
  <2> QED BY <2>1, <2>2
<1> HIDE DEF k
<1>8. Start(s, p, k - 1) \in Nat /\ Start(s, p, k) \in Nat
  BY <1>6, BlockLength
<1> DEFINE j == i - Start(s, p, k - 1)
<1>9. j \in 1 .. Start(s, p, k) - Start(s, p, k - 1) /\ i = Start(s, p, k - 1) + j
  BY <1>1, <1>6, <1>7, <1>8
<1> QED BY <1>6, <1>9

LEMMA NewlinesOfBlock ==
  ASSUME NEW s \in Seq(Byte), Terminated(s), ~LineTooLong(s),
         NEW q \in 0 .. LineCount(s), NEW p \in 0 .. q, NEW text, Aggregates(s, text, p, q),
         NEW k \in p + 1 .. q, NEW j \in 1 .. Start(s, p, k) - Start(s, p, k - 1)
  PROVE  text[Start(s, p, k - 1) + j] = Newline <=> j = Start(s, p, k) - Start(s, p, k - 1)
<1> DEFINE x == Marks(s)[k]
           y == Marks(s)[k + 1]
           d == Start(s, p, k) - Start(s, p, k - 1)
           c == text[Start(s, p, k - 1) + j]
<1>1. k \in 1 .. LineCount(s) /\ d = (y - x) + 1
  BY BlockLength
<1>2. /\ x \in Nat /\ y \in 1 .. Len(s) /\ x < y /\ s[y] = Newline
      /\ \A i \in x + 1 .. y - 1 : s[i] # Newline
  BY <1>1, MarkStep
<1>3. c = IF j = 1 THEN Id(k - 1) ELSE s[x + (j - 1)]
  BY DEF Aggregates
<1>4. j \in 1 .. d /\ Len(s) \in Nat
  BY LenProperties
<1>5. Id(k - 1) # Newline
  <2>1. k - 1 \in Nat
    <3>1. LineCount(s) \in Nat
      BY MarksFacts
    <3> QED BY <1>1, <3>1
  <2>2. Newline \notin Ids
    BY RequestsAssumption DEF RequestsAssumption
  <2>3. Id(k - 1) \in Ids
    BY <2>1 DEF Id, Ids
  <2> QED BY <2>2, <2>3
<1> HIDE DEF x, y, d, c
<1>6. CASE j = 1
  <2>1. j # d
    BY <1>1, <1>2, <1>4, <1>6
  <2> QED BY <1>3, <1>5, <1>6, <2>1 DEF c, d
<1>7. CASE j = d
  <2>1. j # 1 /\ x + (j - 1) = y
    BY <1>1, <1>2, <1>4, <1>7
  <2> QED BY <1>2, <1>3, <1>7, <2>1 DEF c, d
<1>8. CASE j # 1 /\ j # d
  <2>1. x + (j - 1) \in x + 1 .. y - 1
    BY <1>1, <1>2, <1>4, <1>8
  <2> QED BY <1>2, <1>3, <1>8, <2>1 DEF c, d
<1> QED BY <1>6, <1>7, <1>8

LEMMA DelimitersFacts ==
  ASSUME NEW s \in Seq(Byte), Terminated(s), ~LineTooLong(s),
         NEW q \in 0 .. LineCount(s), NEW p \in 0 .. q, NEW text, Aggregates(s, text, p, q)
  PROVE  /\ Delimiters(text) \in Seq(Nat) /\ Len(Delimiters(text)) = q - p
         /\ \A j \in 1 .. q - p : Delimiters(text)[j] = Start(s, p, p + j)
<1> DEFINE S == {i \in DOMAIN text : text[i] = Newline}
           n == q - p
           f == [j \in 1 .. n |-> Start(s, p, p + j)]
<1>1. /\ LineCount(s) \in Nat /\ n \in Nat
      /\ \A j \in 1 .. n : p + j \in p + 1 .. q /\ p + j \in p .. q
  <2>1. LineCount(s) \in Nat
    BY MarksFacts
  <2> QED BY <2>1
<1>2. text \in Seq(Data) /\ Len(text) = Start(s, p, q) /\ DOMAIN text = 1 .. Len(text)
      /\ Start(s, p, q) \in Nat
  <2>1. text \in Seq(Data) /\ Len(text) = Start(s, p, q)
    BY DEF Aggregates
  <2> QED BY <2>1, LenProperties
<1>3. ASSUME NEW k \in p + 1 .. q
      PROVE  Start(s, p, k) \in S
  <2> DEFINE j == Start(s, p, k) - Start(s, p, k - 1)
  <2>1. /\ k \in 1 .. LineCount(s)
        /\ Start(s, p, k - 1) \in Nat /\ Start(s, p, k) \in Nat
        /\ j = (Marks(s)[k + 1] - Marks(s)[k]) + 1
        /\ Start(s, p, k) <= Start(s, p, q)
    BY BlockLength
  <2>2. Marks(s)[k] \in Nat /\ Marks(s)[k + 1] \in 1 .. Len(s) /\ Marks(s)[k] < Marks(s)[k + 1]
    BY <2>1, MarkStep
  <2>3. j \in 1 .. j /\ Start(s, p, k - 1) + j = Start(s, p, k) /\ Start(s, p, k) > 0
    <3> DEFINE u == Start(s, p, k - 1)
               v == Start(s, p, k)
               x == Marks(s)[k]
               y == Marks(s)[k + 1]
    <3>1. x \in Nat /\ y \in Nat /\ x < y
      BY <2>1, MarkStep
    <3>2. u \in Nat /\ v \in Nat /\ v - u = (y - x) + 1
      BY <2>1
    <3> HIDE DEF u, v, x, y
    <3>3. v - u \in 1 .. v - u /\ u + (v - u) = v /\ v > 0
      BY <3>1, <3>2
    <3> QED BY <3>3 DEF u, v
  <2>4. text[Start(s, p, k - 1) + j] = Newline
    BY <2>3, NewlinesOfBlock
  <2>5. Start(s, p, k) \in 1 .. Start(s, p, q)
    BY <1>2, <2>1, <2>3
  <2> QED BY <1>2, <2>3, <2>4, <2>5
<1>4. ASSUME NEW i \in S
      PROVE  \E j \in 1 .. n : f[j] = i
  <2>1. i \in 1 .. Start(s, p, q) /\ text[i] = Newline
    BY <1>2
  <2>10. PICK k \in p + 1 .. q : \E j \in 1 .. Start(s, p, k) - Start(s, p, k - 1) :
                                  i = Start(s, p, k - 1) + j
    BY <2>1, BlockOf
  <2>2. PICK j \in 1 .. Start(s, p, k) - Start(s, p, k - 1) : i = Start(s, p, k - 1) + j
    BY <2>10
  <2>3. j = Start(s, p, k) - Start(s, p, k - 1)
    BY <2>1, <2>2, NewlinesOfBlock
  <2>4. Start(s, p, k - 1) \in Nat /\ Start(s, p, k) \in Nat
    BY BlockLength
  <2>5. i = Start(s, p, k)
    BY <2>2, <2>3, <2>4
  <2>6. k - p \in 1 .. n /\ p + (k - p) = k
    BY <1>1
  <2>7. f[k - p] = Start(s, p, p + (k - p))
    BY <2>6
  <2> QED BY <2>5, <2>6, <2>7
<1>5. f \in [1 .. n -> S]
  <2> HIDE DEF S
  <2> QED BY <1>1, <1>3
<1>6. ASSUME NEW i \in 1 .. n, NEW j \in 1 .. n, i < j
      PROVE  f[i] < f[j]
  <2>1. p + i \in p .. q /\ p + j \in p .. q /\ p + i < p + j
    BY <1>1, <1>6
  <2>2. Start(s, p, p + i) < Start(s, p, p + j)
    BY <2>1, StartFacts
  <2> QED BY <2>2
<1>7. S \in SUBSET Nat
  BY <1>2
<1> HIDE DEF S, f
<1>8. IsFiniteSet(S) /\ Len(Sorted(S)) = n /\ \A j \in 1 .. n : Sorted(S)[j] = f[j]
  <2> HIDE DEF n
  <2> QED BY <1>1, <1>4, <1>5, <1>6, <1>7, SortedIs
<1>9. Sorted(S) \in Seq(Nat)
  <2>1. Sorted(S) \in Seq(S)
    BY <1>7, <1>8, SortedFacts
  <2> QED BY <1>7, <2>1, SeqMonotonic
<1>10. Delimiters(text) = Sorted(S)
  BY DEF Delimiters, S
<1>11. \A j \in 1 .. n : f[j] = Start(s, p, p + j)
  BY DEF f
<1> QED BY <1>8, <1>9, <1>10, <1>11

(* The rows of an aggregate are its requests, and split counts them.       *)
LEMMA Splits ==
  ASSUME NEW s \in Seq(Byte), Terminated(s), ~LineTooLong(s),
         NEW q \in 0 .. LineCount(s), NEW p \in 0 .. q, NEW text, Aggregates(s, text, p, q)
  PROVE  /\ RowCount(text) = q - p
         /\ Pieces(text) \in Seq(Seq(Data)) /\ Len(Pieces(text)) = q - p
         /\ \A j \in 1 .. q - p : Pieces(text)[j] = RequestsOf(s)[p + j]
<1> DEFINE n == q - p
           marks == <<0>> \o Delimiters(text)
           rest == SubSeq(text, marks[Len(marks)] + 1, Len(text))
           rows_ == [k \in 1 .. Len(marks) - 1 |-> SubSeq(text, marks[k] + 1, marks[k + 1] - 1)]
<1>1. LineCount(s) \in Nat /\ n \in Nat /\ p \in Nat /\ q \in Nat
  <2>1. LineCount(s) \in Nat
    BY MarksFacts
  <2> QED BY <2>1
<1>2. /\ Delimiters(text) \in Seq(Nat) /\ Len(Delimiters(text)) = n
      /\ \A j \in 1 .. n : Delimiters(text)[j] = Start(s, p, p + j)
  BY DelimitersFacts
<1>3. text \in Seq(Data) /\ Len(text) = Start(s, p, q) /\ Len(text) \in Nat
  <2>1. text \in Seq(Data) /\ Len(text) = Start(s, p, q)
    BY DEF Aggregates
  <2> QED BY <2>1, LenProperties
<1> HIDE DEF n
<1>4. Len(marks) = n + 1 /\ \A j \in 1 .. n + 1 : marks[j] = Start(s, p, p + (j - 1))
  <2> DEFINE D == Delimiters(text)
  <2>1. <<0>> \in Seq(Nat) /\ Len(<<0>>) = 1 /\ <<0>>[1] = 0
    OBVIOUS
  <2> DEFINE zero == <<0>>
  <2>2. /\ Len(zero \o D) = Len(zero) + Len(D)
        /\ \A j \in 1 .. Len(zero) + Len(D) :
             (zero \o D)[j] = IF j <= Len(zero) THEN zero[j] ELSE D[j - Len(zero)]
    <3> HIDE DEF zero, D
    <3> QED BY <1>2, <2>1, ConcatProperties DEF zero, D
  <2> HIDE DEF zero
  <2>3. Len(marks) = n + 1
    BY <1>1, <1>2, <2>1, <2>2 DEF zero
  <2>4. ASSUME NEW j \in 1 .. n + 1
        PROVE  marks[j] = Start(s, p, p + (j - 1))
    <3>1. j \in 1 .. Len(zero) + Len(D)
      BY <1>1, <1>2, <2>1 DEF zero
    <3>2. CASE j = 1
      <4>1. marks[j] = 0
        BY <2>1, <2>2, <3>1, <3>2 DEF zero
      <4>2. p + (j - 1) = p
        BY <1>1, <3>2
      <4>3. Start(s, p, p) = 0
        BY StartFacts
      <4> QED BY <4>1, <4>2, <4>3
    <3>3. CASE j # 1
      <4>1. j - 1 \in 1 .. n /\ ~(j <= 1)
        BY <1>1, <3>3
      <4>2. marks[j] = D[j - 1]
        <5>1. Len(zero) = 1
          BY <2>1 DEF zero
        <5>2. (zero \o D)[j] = D[j - 1]
          <6> HIDE DEF D
          <6> QED BY <2>2, <3>1, <4>1, <5>1
        <5> QED BY <5>2 DEF zero
      <4> QED BY <1>2, <4>1, <4>2
    <3> QED BY <3>2, <3>3
  <2> QED BY <2>3, <2>4
<1> HIDE DEF marks
<1>5. rest = <<>>
  <2>1. n + 1 \in 1 .. n + 1 /\ p + ((n + 1) - 1) = q
    BY <1>1 DEF n
  <2>2. marks[Len(marks)] = Len(text)
    BY <1>3, <1>4, <2>1
  <2>3. Len(text) + 1 \in Int /\ Len(text) \in Int /\ Len(text) + 1 > Len(text)
    BY <1>3
  <2>4. SubSeq(text, Len(text) + 1, Len(text)) = <<>>
    BY <1>3, <2>3, SubSeqEmpty
  <2> QED BY <2>2, <2>4
<1>6. Len(marks) - 1 = n
  BY <1>1, <1>4
<1>7. ASSUME NEW j \in 1 .. n
      PROVE  SubSeq(text, marks[j] + 1, marks[j + 1] - 1) = RequestsOf(s)[p + j]
             /\ RequestsOf(s)[p + j] \in Seq(Data)
  <2> DEFINE k == p + j
             x == Start(s, p, k - 1)
             y == Start(s, p, k)
             d == Marks(s)[k + 1] - Marks(s)[k]
             piece == SubSeq(text, x + 1, y - 1)
             request == RequestsOf(s)[k]
  <2>1. k \in p + 1 .. q /\ p + (j - 1) = k - 1 /\ p + ((j + 1) - 1) = k
        /\ j \in 1 .. n + 1 /\ j + 1 \in 1 .. n + 1
    BY <1>1 DEF n
  <2>2. marks[j] = x /\ marks[j + 1] = y
    BY <1>4, <2>1
  <2>3. /\ k \in 1 .. LineCount(s) /\ x \in Nat /\ y \in Nat
        /\ y - x = d + 1 /\ y <= Start(s, p, q)
    BY <2>1, BlockLength
  <2>4. d \in Nat \ {0}
    <3> DEFINE u == Marks(s)[k]
               v == Marks(s)[k + 1]
    <3>1. u \in Nat /\ v \in 1 .. Len(s) /\ u < v /\ Len(s) \in Nat
      BY <2>3, MarkStep, LenProperties
    <3> HIDE DEF u, v
    <3>2. v - u \in Nat \ {0}
      BY <3>1
    <3> QED BY <3>2 DEF u, v
  <2>5. /\ request \in Seq(Data) /\ Len(request) = d
        /\ \A i \in 1 .. d : request[i] = IF i = 1 THEN Id(k - 1) ELSE s[Marks(s)[k] + (i - 1)]
    BY <2>3, RequestFacts
  <2>6. \A i \in 1 .. y - x :
          text[x + i] = IF i = 1 THEN Id(k - 1) ELSE s[Marks(s)[k] + (i - 1)]
    BY <2>1 DEF Aggregates
  <2> HIDE DEF k, x, y, d, request
  <2>7. \A i \in x + 1 .. y - 1 : text[i] \in Data
    <3>1. \A i \in x + 1 .. y - 1 : i \in 1 .. Len(text)
      BY <1>3, <2>3 DEF x, y
    <3> QED BY <1>3, <3>1, ElementOfSeq
  <2>8. /\ piece \in Seq(Data)
        /\ Len(piece) = (IF x + 1 <= y - 1 THEN y - 1 - (x + 1) + 1 ELSE 0)
        /\ \A i \in 1 .. y - 1 - (x + 1) + 1 : piece[i] = text[x + 1 + i - 1]
    <3>1. x + 1 \in Int /\ y - 1 \in Int
      BY <2>3
    <3> QED BY <1>3, <2>7, <3>1, SubSeqProperties
  <2> HIDE DEF piece
  <2>9. Len(piece) = d
    BY <2>3, <2>4, <2>8
  <2>10. ASSUME NEW i \in 1 .. d
         PROVE  piece[i] = request[i]
    <3>1. i \in 1 .. y - 1 - (x + 1) + 1 /\ x + 1 + i - 1 = x + i /\ i \in 1 .. y - x
      BY <2>3, <2>4
    <3> QED BY <2>5, <2>6, <2>8, <3>1
  <2>11. piece = request
    BY <2>5, <2>8, <2>9, <2>10, SeqEqual
  <2> QED BY <2>2, <2>5, <2>11 DEF piece, k, request
<1>8. /\ rows_ \in Seq(Seq(Data)) /\ Len(rows_) = n
      /\ \A j \in 1 .. n : rows_[j] = RequestsOf(s)[p + j]
  <2>1. \A j \in 1 .. Len(marks) - 1 : SubSeq(text, marks[j] + 1, marks[j + 1] - 1) \in Seq(Data)
    BY <1>6, <1>7
  <2>2. rows_ \in [1 .. n -> Seq(Data)]
    BY <1>6, <2>1
  <2>3. \A j \in 1 .. n : rows_[j] = SubSeq(text, marks[j] + 1, marks[j + 1] - 1)
    BY <1>6
  <2> HIDE DEF rows_
  <2>4. rows_ \in Seq(Seq(Data)) /\ Len(rows_) = n
    BY <1>1, <2>2
  <2> QED BY <1>7, <2>3, <2>4
<1>9. Pieces(text) = rows_
  <2>1. Pieces(text) = rows_ \o (IF rest = <<>> THEN <<>> ELSE <<rest>>)
    BY DEF Pieces, marks
  <2>2. rows_ \o <<>> = rows_
    <3> HIDE DEF rows_
    <3> QED BY <1>8, ConcatEmptySeq
  <2> HIDE DEF rows_, rest
  <2> QED BY <1>5, <2>1, <2>2
<1>10. RowCount(text) = n
  BY <1>2 DEF RowCount
<1> HIDE DEF rows_
<1> QED BY <1>8, <1>9, <1>10 DEF n

-----------------------------------------------------------------------------
(* The requests.  What the session has processed and what is on its way or *)
(* gathered in the batch are, one after the other, the lines read so far.  *)

Known ==
  /\ known \in Seq(Seq(Data)) /\ Len(known) <= Len(out)
  /\ \A k \in 1 .. Len(known) : known[k] = RequestsOf(input)[k]

Gathered ==
  /\ Aggregates(input, batch, Len(known), Len(out))
  /\ Len(batch) < BufferSize - HeaderSize
  /\ last => Len(known) = Len(out)

(* A message with this text: read, in the pipe, and not yet written.       *)
Carried(size, text) ==
  /\ text \in Seq(Data) /\ Len(text) + HeaderSize <= BufferSize + Size
  /\ size \in 0 .. BufferSize + Size
  /\ payload \in Seq(AnyByte) /\ wire \in Seq(AnyByte) /\ unsent \in Seq(AnyByte)
  /\ payload \o (wire \o unsent) = Sent(size, text, "NONE")

Asked == \E text : Aggregates(input, text, Len(known), Len(out)) /\ Carried(0, text)

(* The lines p + 1 to q of the input, which are what is echoed.            *)
Passage(s, p, q) == SubSeq(s, Marks(s)[p + 1] + 1, Marks(s)[q + 1])

Echoed(p) == shown = Passage(input, 0, p)
Answered ==
  \E p \in 0 .. Len(known) : \E text :
    /\ Echoed(p) /\ text = Passage(input, p, Len(known))
    /\ Carried(Len(text), text)

RequestsInv ==
  /\ ReaderInv
  /\ index = Len(out) - 1 /\ capacity \in Nat
  /\ to \in {"nobody", "session", "client"} /\ DOMAIN field = {"session", "client"}
  /\ rows \in Seq(Seq(Data))
  /\ Known
  /\ to = "nobody" => Gathered /\ Echoed(Len(known))
  /\ to = "session" => batch = <<>> /\ Asked /\ Echoed(Len(known))
  /\ to = "client" => batch = <<>> /\ Len(known) = Len(out) /\ Answered

LEMMA CutInTwo ==
  ASSUME NEW S, NEW s \in Seq(S), NEW n \in 1 .. Len(s)
  PROVE  /\ SubSeq(s, 1, n) \in Seq(S) /\ SubSeq(s, n + 1, Len(s)) \in Seq(S)
         /\ SubSeq(s, 1, n) \o SubSeq(s, n + 1, Len(s)) = s
<1>1. Len(s) \in Nat /\ \A i \in 1 .. Len(s) : s[i] \in S
  BY LenProperties, ElementOfSeq
<1>2. SubSeq(s, 1, n) \in Seq(S)
  <2>1. \A i \in 1 .. n : i \in 1 .. Len(s)
    BY <1>1
  <2> QED BY <1>1, <2>1, SubSeqProperties
<1>3. SubSeq(s, n + 1, Len(s)) \in Seq(S)
  <2>1. \A i \in n + 1 .. Len(s) : i \in 1 .. Len(s)
    BY <1>1
  <2>2. n + 1 \in Int /\ Len(s) \in Int
    BY <1>1
  <2> QED BY <1>1, <2>1, <2>2, SubSeqProperties
<1>4. SubSeq(s, 1, n) \o SubSeq(s, n + 1, Len(s)) = SubSeq(s, 1, Len(s))
  <2>1. 1 \in 1 .. Len(s) + 1 /\ n \in 1 - 1 .. Len(s) /\ Len(s) \in n .. Len(s)
    BY <1>1
  <2> QED BY <2>1, ConcatAdjacentSubSeq
<1> QED BY <1>2, <1>3, <1>4, SubSeqFull

(* Concatenation as an operator of its own, of which the provers see no    *)
(* more than they are told.                                                *)
Cat(s, t) == s \o t

LEMMA CatFacts ==
  ASSUME NEW S
  PROVE  /\ \A s, t \in Seq(S) : Cat(s, t) \in Seq(S)
         /\ \A s, t, u \in Seq(S) : Cat(Cat(s, t), u) = Cat(s, Cat(t, u))
<1>1. \A s, t \in Seq(S) : Cat(s, t) \in Seq(S)
  BY ConcatProperties DEF Cat
<1>2. \A s, t, u \in Seq(S) : Cat(Cat(s, t), u) = Cat(s, Cat(t, u))
  BY ConcatAssociative DEF Cat
<1> QED BY <1>1, <1>2

LEMMA PieceMoved ==
  ASSUME NEW S, NEW s \in Seq(S), NEW t \in Seq(S), NEW u \in Seq(S), NEW v \in Seq(S)
  PROVE  Cat(Cat(s, t), Cat(u, v)) = Cat(s, Cat(Cat(t, u), v))
<1>1. Cat(u, v) \in Seq(S)
  BY CatFacts
<1>2. Cat(Cat(s, t), Cat(u, v)) = Cat(s, Cat(t, Cat(u, v)))
  BY <1>1, CatFacts
<1>3. Cat(Cat(t, u), v) = Cat(t, Cat(u, v))
  BY CatFacts
<1> QED BY <1>2, <1>3

LEMMA LineAdded ==
  ASSUME ReaderInputs, RequestsInv, NextLine
  PROVE  /\ ReaderInv' /\ input' = input
         /\ Len(out') = Len(out) + 1 /\ index' = Len(out) /\ index' = Len(out') - 1
         /\ Len(out) \in Nat /\ Len(out) < LineCount(input)
         /\ out'[Len(out')] = LinesOf(input)[Len(out) + 1]
<1>1. ReaderInv /\ index = Len(out) - 1
  BY DEF RequestsInv
<1>2. ReaderInv'
  BY <1>1, NextLineReads
<1>3. input' = input /\ index' = index + 1 /\ out' = Append(out, Line(Scanned))
  BY DEF NextLine
<1>4. out \in Seq(Seq(Byte)) /\ Len(out) \in Nat
  BY <1>1, LenProperties DEF ReaderInv
<1>5. Len(out') = Len(out) + 1
  <2> DEFINE line == Line(Scanned)
             S == Seq(Byte) \cup {line}
  <2>1. out \in Seq(S) /\ line \in S
    <3>1. Seq(Byte) \subseteq S
      OBVIOUS
    <3> QED BY <1>4, <3>1, SeqMonotonic
  <2> HIDE DEF line, S
  <2>2. Len(Append(out, line)) = Len(out) + 1
    BY <2>1, AppendProperties
  <2> QED BY <1>3, <2>2 DEF line
<1>6. /\ Len(out') <= LineCount(input')
      /\ \A k \in 1 .. Len(out') : out'[k] = LinesOf(input')[k]
  BY <1>2 DEF ReaderInv
<1>7. LineCount(input) \in Nat
  BY <1>1, ReaderFacts
<1>8. Len(out) < LineCount(input)
  BY <1>3, <1>4, <1>5, <1>6, <1>7
<1>9. out'[Len(out')] = LinesOf(input)[Len(out) + 1]
  <2>1. Len(out) + 1 \in 1 .. Len(out) + 1
    BY <1>4
  <2> QED BY <1>3, <1>5, <1>6, <2>1
<1>10. index' = Len(out) /\ index' = Len(out') - 1
  BY <1>1, <1>3, <1>4, <1>5
<1> QED BY <1>2, <1>3, <1>4, <1>5, <1>8, <1>9, <1>10

(* The numbers of the requests that are known and of those that are read.  *)
LEMMA RequestsFacts ==
  ASSUME ReaderInputs, RequestsInv
  PROVE  /\ input \in Seq(Byte) /\ Terminated(input) /\ ~LineTooLong(input)
         /\ LineCount(input) \in Nat
         /\ Len(out) \in 0 .. LineCount(input) /\ Len(known) \in 0 .. Len(out)
         /\ BufferSize \in Nat /\ Size \in Nat
<1>1. ReaderInv /\ Known
  BY DEF RequestsInv
<1>2. input \in Inputs /\ input \in Seq(Byte) /\ LineCount(input) \in Nat
      /\ Len(out) \in 0 .. LineCount(input)
  BY <1>1, ReaderFacts
<1>3. Terminated(input) /\ ~LineTooLong(input)
  BY <1>2 DEF ReaderInputs
<1>4. Len(known) \in Nat /\ Len(known) <= Len(out)
  BY <1>1, LenProperties DEF Known
<1>5. Len(known) \in 0 .. Len(out)
  BY <1>2, <1>4
<1>6. BufferSize \in Nat /\ Size \in Nat
  BY RequestsAssumption, LinesAssumption DEF RequestsAssumption, LinesAssumption
<1> QED BY <1>2, <1>3, <1>5, <1>6

LEMMA AggregatedFacts ==
  ASSUME ReaderInputs, RequestsInv, to = "nobody", NextLine
  PROVE  /\ Aggregates(input, Aggregated, Len(known), Len(out'))
         /\ Len(Aggregated) \in Nat /\ Len(Aggregated) + HeaderSize <= BufferSize + Size
<1> DEFINE p == Len(known)
           q == Len(out)
           t == batch \o <<Id(q)>> \o LinesOf(input)[q + 1]
<1>1. /\ input \in Seq(Byte) /\ Terminated(input) /\ ~LineTooLong(input)
      /\ p \in 0 .. q /\ q \in Nat /\ BufferSize \in Nat /\ Size \in Nat
  BY RequestsFacts
<1>2. Aggregates(input, batch, p, q) /\ Len(batch) < BufferSize - HeaderSize
  BY DEF RequestsInv, Gathered
<1>3. q < LineCount(input) /\ Len(out') = q + 1 /\ Aggregated = t
  <2>1. /\ Len(out') = Len(out) + 1 /\ index' = Len(out) /\ Len(out) < LineCount(input)
        /\ out'[Len(out')] = LinesOf(input)[Len(out) + 1]
    BY LineAdded
  <2> QED BY <2>1 DEF Aggregated
<1> HIDE DEF p, q
<1>4. Aggregates(input, t, p, q + 1) /\ Len(t) <= Len(batch) + 1 + Size
  BY <1>1, <1>2, <1>3, OneMoreRequest
<1> HIDE DEF t
<1>5. Len(batch) \in Nat /\ Len(t) \in Nat
  BY <1>2, <1>4, LenProperties DEF Aggregates
<1>6. Len(t) + HeaderSize <= BufferSize + Size
  BY <1>1, <1>2, <1>4, <1>5 DEF HeaderSize
<1> QED BY <1>3, <1>4, <1>5, <1>6 DEF p

LEMMA CapacitiesFacts ==
  Capacities \subseteq Nat
BY RequestsAssumption DEF RequestsAssumption, Capacities

-----------------------------------------------------------------------------
(* A message and its pieces.                                               *)

LEMMA SendCarries ==
  ASSUME NEW reader, NEW size \in 0 .. BufferSize + Size, NEW text \in Seq(Data),
         Len(text) + HeaderSize <= BufferSize + Size,
         Send(reader, size, text, "NONE")
  PROVE  Carried(size, text)' /\ to' = reader /\ capacity' \in Nat
<1>1. /\ capacity' \in Nat /\ to' = reader
      /\ payload' = <<>> /\ wire' = <<>> /\ unsent' = Sent(size, text, "NONE")
  BY CapacitiesFacts DEF Send, FreshPayload
<1>2. unsent' \in Seq(AnyByte)
  <2>1. PICK D \in Seq(Data) : Sent(size, text, "NONE") = D \o EndOfMessage
    BY SentFacts
  <2>2. D \in Seq(AnyByte)
    <3>1. Data \subseteq AnyByte
      BY DEF AnyByte
    <3> QED BY <3>1, SeqMonotonic
  <2>3. D \o EndOfMessage \in Seq(AnyByte)
    BY <2>2, EndFacts, ConcatProperties
  <2> QED BY <1>1, <2>1, <2>3
<1>3. payload' \o (wire' \o unsent') = Sent(size, text, "NONE")
  BY <1>1, <1>2, ConcatEmptySeq
<1>4. <<>> \in Seq(AnyByte)
  BY EmptySeq
<1> QED BY <1>1, <1>2, <1>3, <1>4 DEF Carried

(* A piece goes from the writer to the pipe, or from the pipe to the       *)
(* reader.                                                                 *)
LEMMA WriteChunkCarries ==
  ASSUME NEW size, NEW text, Carried(size, text), capacity \in Nat, WriteChunk
  PROVE  Carried(size, text)'
<1>1. /\ payload' = payload
      /\ \E n \in 1 .. Min({Room, Len(unsent)}) :
           /\ wire' = wire \o SubSeq(unsent, 1, n)
           /\ unsent' = SubSeq(unsent, n + 1, Len(unsent))
  BY DEF WriteChunk
<1>2. /\ payload \in Seq(AnyByte) /\ wire \in Seq(AnyByte) /\ unsent \in Seq(AnyByte)
      /\ payload \o (wire \o unsent) = Sent(size, text, "NONE")
  BY DEF Carried
<1>3. PICK n \in 1 .. Min({Room, Len(unsent)}) :
        /\ wire' = wire \o SubSeq(unsent, 1, n)
        /\ unsent' = SubSeq(unsent, n + 1, Len(unsent))
  BY <1>1
<1>4. n \in 1 .. Len(unsent)
  <2>1. Len(wire) \in Nat /\ Len(unsent) \in Nat
    BY <1>2, LenProperties
  <2> DEFINE room == Room
             length == Len(unsent)
  <2>2. room \in Int /\ length \in Int
    BY <2>1 DEF Room
  <2> HIDE DEF room, length
  <2>3. Min({room, length}) \in Int /\ Min({room, length}) <= length
    BY <2>2, MinOfInts
  <2>4. n \in 1 .. Min({room, length})
    BY DEF room, length
  <2>5. n \in 1 .. length
    BY <2>2, <2>3, <2>4
  <2> QED BY <2>5 DEF length
<1> DEFINE head == SubSeq(unsent, 1, n)
           tail == SubSeq(unsent, n + 1, Len(unsent))
<1>5. head \in Seq(AnyByte) /\ tail \in Seq(AnyByte) /\ head \o tail = unsent
  BY <1>2, <1>4, CutInTwo
<1> HIDE DEF head, tail
<1>6. wire' \in Seq(AnyByte) /\ unsent' \in Seq(AnyByte)
  BY <1>2, <1>3, <1>5, ConcatProperties DEF head, tail
<1>7. wire' \o unsent' = wire \o unsent
  <2>1. wire \in Seq(AnyByte) /\ head \in Seq(AnyByte) /\ tail \in Seq(AnyByte)
    BY <1>2, <1>5
  <2>2. Cat(Cat(wire, head), tail) = Cat(wire, Cat(head, tail))
    BY <2>1, CatFacts
  <2> QED BY <1>3, <1>5, <2>2 DEF head, tail, Cat
<1> QED BY <1>1, <1>6, <1>7 DEF Carried

LEMMA ReadChunkCarries ==
  ASSUME NEW size, NEW text, Carried(size, text), ReadChunk
  PROVE  Carried(size, text)'
<1>1. /\ unsent' = unsent
      /\ \E n \in 1 .. Min({ChunkSize, Len(wire)}) :
           /\ payload' = payload \o SubSeq(wire, 1, n)
           /\ wire' = SubSeq(wire, n + 1, Len(wire))
  BY DEF ReadChunk
<1>2. /\ payload \in Seq(AnyByte) /\ wire \in Seq(AnyByte) /\ unsent \in Seq(AnyByte)
      /\ payload \o (wire \o unsent) = Sent(size, text, "NONE")
  BY DEF Carried
<1>3. PICK n \in 1 .. Min({ChunkSize, Len(wire)}) :
        /\ payload' = payload \o SubSeq(wire, 1, n)
        /\ wire' = SubSeq(wire, n + 1, Len(wire))
  BY <1>1
<1>4. n \in 1 .. Len(wire)
  <2> DEFINE length == Len(wire)
  <2>1. ChunkSize \in Int /\ length \in Int
    BY <1>2, LenProperties, RequestsAssumption DEF RequestsAssumption
  <2> HIDE DEF length
  <2>2. Min({ChunkSize, length}) \in Int /\ Min({ChunkSize, length}) <= length
    BY <2>1, MinOfInts
  <2>3. n \in 1 .. Min({ChunkSize, length})
    BY DEF length
  <2>4. n \in 1 .. length
    BY <2>1, <2>2, <2>3
  <2> QED BY <2>4 DEF length
<1> DEFINE head == SubSeq(wire, 1, n)
           tail == SubSeq(wire, n + 1, Len(wire))
<1>5. head \in Seq(AnyByte) /\ tail \in Seq(AnyByte) /\ head \o tail = wire
  BY <1>2, <1>4, CutInTwo
<1> HIDE DEF head, tail
<1>6. payload' \in Seq(AnyByte) /\ wire' \in Seq(AnyByte)
  BY <1>2, <1>3, <1>5, ConcatProperties DEF head, tail
<1>7. payload' \o (wire' \o unsent) = payload \o (wire \o unsent)
  <2>1. /\ payload \in Seq(AnyByte) /\ unsent \in Seq(AnyByte)
        /\ head \in Seq(AnyByte) /\ tail \in Seq(AnyByte)
    BY <1>2, <1>5
  <2>2. Cat(Cat(payload, head), Cat(tail, unsent)) = Cat(payload, Cat(Cat(head, tail), unsent))
    BY <2>1, PieceMoved
  <2> QED BY <1>3, <1>5, <2>2 DEF head, tail, Cat
<1> QED BY <1>1, <1>6, <1>7 DEF Carried

LEMMA ReceivedIs ==
  ASSUME NEW reader \in DOMAIN field, NEW size, NEW text,
         Carried(size, text), Received(reader)
  PROVE  field'[reader] = text /\ DOMAIN field' = DOMAIN field
<1>1. /\ IsComplete(payload)
      /\ field' = [field EXCEPT ![reader] =
                     Body(Fields(WithoutEnd(payload), <<field[reader]>>)[1])]
  BY DEF Received
<1>2. PICK D \in Seq(Data) : /\ Sent(size, text, "NONE") = D \o EndOfMessage
                             /\ \A f : Body(Fields(D, <<f>>)[1]) = text
  BY SentFacts DEF Carried
<1>3. WithoutEnd(payload) = D
  <2>1. /\ payload \in Seq(AnyByte) /\ wire \o unsent \in Seq(AnyByte)
        /\ payload \o (wire \o unsent) = D \o EndOfMessage
    BY <1>2, ConcatProperties DEF Carried
  <2> QED BY <1>1, <2>1, CompleteAtEnd
<1>4. field'[reader] = Body(Fields(WithoutEnd(payload), <<field[reader]>>)[1])
  BY <1>1
<1> QED BY <1>1, <1>2, <1>3, <1>4

-----------------------------------------------------------------------------
(* What is echoed.                                                         *)

LEMMA PassageFacts ==
  ASSUME NEW s \in Seq(Byte), NEW q \in 0 .. LineCount(s), NEW p \in 0 .. q
  PROVE  /\ Passage(s, p, q) \in Seq(Data)
         /\ Len(Passage(s, p, q)) = Marks(s)[q + 1] - Marks(s)[p + 1]
         /\ Marks(s)[p + 1] \in 0 .. Len(s) /\ Marks(s)[q + 1] \in 0 .. Len(s)
         /\ Marks(s)[p + 1] <= Marks(s)[q + 1]
<1> DEFINE x == Marks(s)[p + 1]
           y == Marks(s)[q + 1]
<1>1. LineCount(s) \in Nat /\ Len(s) \in Nat
  BY MarksFacts, LenProperties
<1>2. p + 1 \in 1 .. LineCount(s) + 1 /\ q + 1 \in 1 .. LineCount(s) + 1
  BY <1>1
<1>3. x \in 0 .. Len(s) /\ y \in 0 .. Len(s)
  BY <1>2, MarksFacts
<1>4. x <= y
  <2>1. p + 1 < q + 1 => x < y
    BY <1>2, MarksFacts
  <2>2. p = q => x = y
    OBVIOUS
  <2>3. p = q \/ p + 1 < q + 1
    BY <1>1
  <2> HIDE DEF x, y
  <2> QED BY <1>1, <1>3, <2>1, <2>2, <2>3
<1> HIDE DEF x, y
<1>5. \A i \in x + 1 .. y : s[i] \in Data
  <2>1. \A i \in x + 1 .. y : i \in 1 .. Len(s)
    BY <1>1, <1>3
  <2>2. \A i \in 1 .. Len(s) : s[i] \in Byte
    BY ElementOfSeq
  <2> QED BY <2>1, <2>2 DEF Data
<1>6. /\ SubSeq(s, x + 1, y) \in Seq(Data)
      /\ Len(SubSeq(s, x + 1, y)) = (IF x + 1 <= y THEN y - (x + 1) + 1 ELSE 0)
  <2>1. x + 1 \in Int /\ y \in Int
    BY <1>1, <1>3
  <2> QED BY <1>5, <2>1, SubSeqProperties
<1>7. Len(SubSeq(s, x + 1, y)) = y - x
  BY <1>1, <1>3, <1>4, <1>6
<1>8. Passage(s, p, q) = SubSeq(s, x + 1, y)
  BY DEF Passage, x, y
<1> QED BY <1>3, <1>4, <1>6, <1>7, <1>8 DEF x, y

LEMMA PassagesJoin ==
  ASSUME NEW s \in Seq(Byte), NEW r \in 0 .. LineCount(s), NEW q \in 0 .. r, NEW p \in 0 .. q
  PROVE  Passage(s, p, q) \o Passage(s, q, r) = Passage(s, p, r)
<1> DEFINE x == Marks(s)[p + 1]
           y == Marks(s)[q + 1]
           z == Marks(s)[r + 1]
<1>1. LineCount(s) \in Nat /\ Len(s) \in Nat
  BY MarksFacts, LenProperties
<1>2. q \in 0 .. LineCount(s)
  BY <1>1
<1>3. x \in 0 .. Len(s) /\ y \in 0 .. Len(s) /\ z \in 0 .. Len(s) /\ x <= y /\ y <= z
  BY <1>2, PassageFacts
<1> HIDE DEF x, y, z
<1>4. x + 1 \in 1 .. Len(s) + 1 /\ y \in (x + 1) - 1 .. Len(s) /\ z \in y .. Len(s)
  BY <1>1, <1>3
<1>5. SubSeq(s, x + 1, y) \o SubSeq(s, y + 1, z) = SubSeq(s, x + 1, z)
  BY <1>4, ConcatAdjacentSubSeq
<1> QED BY <1>5 DEF Passage, x, y, z

(* EchoPolicy gives a request back as the line it was made from.           *)
LEMMA EchoIs ==
  ASSUME NEW s \in Seq(Byte), Terminated(s), ~LineTooLong(s), NEW k \in 1 .. LineCount(s),
         index \in Int, k - 1 <= index
  PROVE  Echo(RequestsOf(s)[k]) = Passage(s, k - 1, k)
<1> DEFINE x == Marks(s)[k]
           y == Marks(s)[k + 1]
           d == y - x
           r == RequestsOf(s)[k]
           passage == Passage(s, k - 1, k)
<1>1. LineCount(s) \in Nat /\ Len(s) \in Nat /\ (k - 1) + 1 = k
      /\ k \in 0 .. LineCount(s) /\ k - 1 \in 0 .. k
  <2>1. LineCount(s) \in Nat /\ Len(s) \in Nat
    BY MarksFacts, LenProperties
  <2> QED BY <2>1
<1>2. x \in Nat /\ y \in 1 .. Len(s) /\ x < y /\ s[y] = Newline
  BY MarkStep
<1>3. /\ r \in Seq(Data) /\ Len(r) = d
      /\ \A i \in 1 .. d : r[i] = IF i = 1 THEN Id(k - 1) ELSE s[x + (i - 1)]
  BY RequestFacts
<1>4. passage \in Seq(Data) /\ Len(passage) = d /\ passage = SubSeq(s, x + 1, y)
  <2>1. passage \in Seq(Data) /\ Len(passage) = Marks(s)[k + 1] - Marks(s)[(k - 1) + 1]
    BY <1>1, PassageFacts
  <2>2. passage = SubSeq(s, Marks(s)[(k - 1) + 1] + 1, Marks(s)[k + 1])
    BY DEF Passage
  <2> HIDE DEF passage
  <2> QED BY <1>1, <2>1, <2>2
<1> HIDE DEF x, y, r, passage
<1>5. d \in Nat \ {0} /\ 1 \in 1 .. d
  BY <1>1, <1>2
<1> HIDE DEF d
<1>6. ASSUME NEW i \in 1 .. d
      PROVE  passage[i] = s[x + i]
  <2>1. \A j \in x + 1 .. y : s[j] \in Byte
    <3>1. \A j \in x + 1 .. y : j \in 1 .. Len(s)
      BY <1>1, <1>2
    <3> QED BY <3>1, ElementOfSeq
  <2>2. x + 1 \in Int /\ y \in Int
    BY <1>1, <1>2
  <2>3. \A j \in 1 .. y - (x + 1) + 1 : SubSeq(s, x + 1, y)[j] = s[x + 1 + j - 1]
    BY <2>1, <2>2, SubSeqProperties
  <2>4. i \in 1 .. y - (x + 1) + 1 /\ x + 1 + i - 1 = x + i
    BY <1>1, <1>2 DEF d
  <2> QED BY <1>4, <2>3, <2>4
<1>7. r # <<>> /\ r[1] = Id(k - 1)
  <2>1. r # <<>>
    BY <1>3, <1>5, EmptySeq
  <2> QED BY <1>3, <1>5, <2>1
<1>8. IsId(r[1])
  <2>1. k - 1 \in 0 .. index
    BY <1>1
  <2> QED BY <1>7, <2>1 DEF IsId
<1> DEFINE bare == Tail(r)
           line == Append(bare, Newline)
<1>9. Echo(r) = line
  BY <1>7, <1>8 DEF Echo
<1>10. /\ bare \in Seq(Data) /\ Len(bare) = d - 1
       /\ \A i \in 1 .. d - 1 : bare[i] = r[i + 1]
  BY <1>3, <1>7, HeadTailProperties
<1> HIDE DEF bare
<1>11. /\ line \in Seq(Data) /\ Len(line) = (d - 1) + 1
       /\ \A i \in 1 .. d - 1 : line[i] = bare[i]
       /\ line[(d - 1) + 1] = Newline
  <2>1. Newline \in Data
    BY DEF Data, Byte
  <2> QED BY <1>10, <2>1, AppendProperties
<1> HIDE DEF line
<1>12. ASSUME NEW i \in 1 .. d
       PROVE  line[i] = passage[i]
  <2>1. CASE i = d
    <3>1. (d - 1) + 1 = d /\ x + d = y
      BY <1>1, <1>2, <1>5 DEF d
    <3> QED BY <1>2, <1>6, <1>11, <2>1, <3>1
  <2>2. CASE i # d
    <3>1. i \in 1 .. d - 1 /\ i + 1 \in 1 .. d /\ i + 1 # 1 /\ (i + 1) - 1 = i
      BY <1>5, <2>2
    <3>2. r[i + 1] = s[x + ((i + 1) - 1)]
      BY <1>3, <3>1
    <3>3. line[i] = bare[i] /\ bare[i] = r[i + 1]
      BY <1>10, <1>11, <3>1
    <3> QED BY <1>6, <3>1, <3>2, <3>3
  <2> QED BY <2>1, <2>2
<1>13. Len(line) = Len(passage)
  BY <1>4, <1>5, <1>11
<1>14. line = passage
  <2>1. \A i \in 1 .. Len(line) : line[i] = passage[i]
    BY <1>4, <1>12, <1>13
  <2> QED BY <1>4, <1>11, <1>13, <2>1, SeqEqual
<1> QED BY <1>9, <1>14 DEF r, passage

(* FlattenSeq is the one function that meets its equation.                 *)
LEMMA FlattenIs ==
  ASSUME NEW seqs, Len(seqs) \in Nat \ {0}, NEW g, DOMAIN g = 1 .. Len(seqs),
         g = [i \in 1 .. Len(seqs) |-> g[i]],
         g[1] = seqs[1], \A i \in 2 .. Len(seqs) : g[i] = g[i - 1] \o seqs[i]
  PROVE  FlattenSeq(seqs) = g[Len(seqs)]
<1> DEFINE n == Len(seqs)
           step(h) == [i \in 1 .. Len(seqs) |-> IF i = 1 THEN seqs[i] ELSE h[i - 1] \o seqs[i]]
<1>1. n \in Nat \ {0}
  OBVIOUS
<1>2. g = step(g)
  <2>1. \A i \in 1 .. n : g[i] = IF i = 1 THEN seqs[i] ELSE g[i - 1] \o seqs[i]
    <3>1. \A i \in 1 .. n : i # 1 => i \in 2 .. n
      OBVIOUS
    <3> QED BY <3>1
  <2> QED BY <2>1
<1>3. ASSUME NEW h, h = step(h)
      PROVE  h = g
  <2>1. h = [i \in 1 .. n |-> h[i]] /\ DOMAIN h = 1 .. n
    BY <1>3
  <2>2. \A i \in 1 .. n : h[i] = IF i = 1 THEN seqs[i] ELSE h[i - 1] \o seqs[i]
    BY <1>3
  <2> DEFINE K == {i \in 1 .. n : h[i] # g[i]}
             k == Min(K)
  <2>3. K = {}
    <3> SUFFICES ASSUME K # {}
                 PROVE  FALSE
      OBVIOUS
    <3>1. K \in SUBSET Nat /\ IsFiniteSet(K)
      <4>1. K \in SUBSET (1 .. n) /\ 1 .. n \in SUBSET Nat
        OBVIOUS
      <4>2. IsFiniteSet(1 .. n)
        BY <1>1, FS_Interval
      <4> HIDE DEF K
      <4> QED BY <4>1, <4>2, FS_Subset
    <3>2. k \in K /\ \A i \in K : k <= i
      <4> HIDE DEF K
      <4> QED BY <3>1, MinFacts
    <3>3. k \in 1 .. n /\ h[k] # g[k]
      BY <3>2
    <3> HIDE DEF k
    <3>4. k # 1
      BY <2>2, <3>3
    <3>5. k - 1 \in 1 .. n /\ k \in 2 .. n /\ ~(k <= k - 1)
      BY <1>1, <3>3, <3>4
    <3>6. k - 1 \notin K
      <4> HIDE DEF K
      <4> QED BY <3>2, <3>5
    <3>7. h[k - 1] = g[k - 1]
      BY <3>5, <3>6
    <3>8. h[k] = h[k - 1] \o seqs[k]
      BY <2>2, <3>3, <3>4
    <3>9. g[k] = g[k - 1] \o seqs[k]
      BY <3>5
    <3> QED BY <3>3, <3>7, <3>8, <3>9
  <2>4. \A i \in 1 .. n : h[i] = g[i]
    BY <2>3
  <2> QED BY <2>1, <2>4
<1>4. (CHOOSE h : h = step(h)) = g
  BY <1>2, <1>3
<1>5. FlattenSeq(seqs) = (CHOOSE h : h = step(h))[n]
  BY <1>1 DEF FlattenSeq
<1> QED BY <1>4, <1>5

LEMMA ResponsesAre ==
  ASSUME NEW s \in Seq(Byte), Terminated(s), ~LineTooLong(s),
         NEW q \in 0 .. LineCount(s), NEW p \in 0 .. q, index \in Int, q - 1 <= index,
         NEW requests \in Seq(Seq(Data)), Len(requests) = q - p,
         \A j \in 1 .. q - p : requests[j] = RequestsOf(s)[p + j]
  PROVE  Responses(requests) = Passage(s, p, q)
<1> DEFINE n == q - p
           seqs == [k \in DOMAIN requests |-> Echo(requests[k])]
           g == [i \in 1 .. n |-> Passage(s, p, p + i)]
<1>1. LineCount(s) \in Nat /\ p \in Nat /\ q \in Nat /\ n \in Nat /\ p + n = q
  <2>1. LineCount(s) \in Nat
    BY MarksFacts
  <2> QED BY <2>1
<1>2. DOMAIN requests = 1 .. n
  BY LenProperties
<1>3. ASSUME NEW j \in 1 .. n
      PROVE  /\ seqs[j] = Passage(s, (p + j) - 1, p + j)
             /\ seqs[j] \in Seq(Data)
             /\ p + j \in 1 .. LineCount(s) /\ p + j \in 0 .. LineCount(s)
             /\ (p + j) - 1 \in 0 .. p + j /\ p \in 0 .. p + j
  <2>1. /\ p + j \in 1 .. LineCount(s) /\ p + j \in 0 .. LineCount(s)
        /\ (p + j) - 1 \in 0 .. p + j /\ p \in 0 .. p + j /\ (p + j) - 1 <= index
    <3>1. j \in Nat /\ 1 <= j /\ p + j <= q /\ q <= LineCount(s)
      BY <1>1
    <3> HIDE DEF n
    <3> QED BY <1>1, <3>1
  <2>2. seqs[j] = Echo(RequestsOf(s)[p + j])
    BY <1>2
  <2>3. Echo(RequestsOf(s)[p + j]) = Passage(s, (p + j) - 1, p + j)
    BY <2>1, EchoIs
  <2>4. Passage(s, (p + j) - 1, p + j) \in Seq(Data)
    BY <2>1, PassageFacts
  <2> QED BY <2>1, <2>2, <2>3, <2>4
<1>4. seqs \in Seq(Seq(Data)) /\ Len(seqs) = n
  <2>1. seqs = [k \in 1 .. n |-> seqs[k]]
    BY <1>2
  <2> HIDE DEF seqs, n
  <2>2. seqs \in [1 .. n -> Seq(Data)]
    BY <1>3, <2>1
  <2> DEFINE T == Seq(Data)
  <2>3. seqs \in [1 .. n -> T]
    BY <2>2
  <2> HIDE DEF T
  <2>4. seqs \in Seq(T)
    <3>1. \E m \in Nat : seqs \in [1 .. m -> T]
      BY <1>1, <2>3, Zenon
    <3>2. Seq(T) = UNION {[1 .. m -> T] : m \in Nat}
      BY SeqDef
    <3> QED BY <3>1, <3>2
  <2>5. Len(seqs) = n
    <3>1. Len(seqs) \in Nat /\ 1 .. Len(seqs) = 1 .. n
      BY <2>3, <2>4, LenProperties
    <3> HIDE DEF seqs
    <3> QED BY <1>1, <3>1
  <2> QED BY <2>4, <2>5 DEF T
<1>5. Responses(requests) = FlattenSeq(seqs)
  BY DEF Responses
<1> HIDE DEF seqs
<1>6. CASE n = 0
  <2>1. seqs = <<>>
    BY <1>4, <1>6, EmptySeq
  <2>2. FlattenSeq(seqs) = seqs
    BY <1>4, <1>6 DEF FlattenSeq
  <2>3. Passage(s, p, q) = <<>>
    <3> DEFINE x == Marks(s)[p + 1]
    <3>1. p = q
      BY <1>1, <1>6
    <3>2. x \in 0 .. Len(s) /\ Len(s) \in Nat
      BY PassageFacts, LenProperties
    <3>3. Passage(s, p, q) = SubSeq(s, x + 1, x)
      BY <3>1 DEF Passage
    <3> HIDE DEF x
    <3>4. x + 1 \in Int /\ x \in Int /\ x < x + 1
      BY <3>2
    <3> QED BY <3>3, <3>4, SubSeqEmpty
  <2> QED BY <1>5, <2>1, <2>2, <2>3
<1>7. CASE n # 0
  <2>1. 1 \in 1 .. n /\ n \in 1 .. n /\ n \in Nat \ {0}
    BY <1>1, <1>7
  <2>2. DOMAIN g = 1 .. n /\ g = [i \in 1 .. n |-> g[i]]
    OBVIOUS
  <2>3. g[1] = seqs[1]
    <3>1. (p + 1) - 1 = p
      BY <1>1
    <3>2. g[1] = Passage(s, p, p + 1)
      BY <2>1
    <3>3. seqs[1] = Passage(s, (p + 1) - 1, p + 1)
      <4>1. \A j \in 1 .. n : seqs[j] = Passage(s, (p + j) - 1, p + j)
        BY <1>3
      <4> HIDE DEF n
      <4> QED BY <2>1, <4>1, Zenon
    <3> HIDE DEF g
    <3> QED BY <3>1, <3>2, <3>3
  <2>4. ASSUME NEW i \in 2 .. n
        PROVE  g[i] = g[i - 1] \o seqs[i]
    <3>1. i \in 1 .. n /\ i - 1 \in 1 .. n /\ p + (i - 1) = (p + i) - 1
      <4> HIDE DEF n
      <4> QED BY <1>1
    <3>2. g[i] = Passage(s, p, p + i) /\ g[i - 1] = Passage(s, p, (p + i) - 1)
      BY <3>1
    <3>3. p + i \in 0 .. LineCount(s) /\ (p + i) - 1 \in 0 .. p + i /\ p \in 0 .. (p + i) - 1
      BY <1>1, <3>1
    <3>4. Passage(s, p, (p + i) - 1) \o Passage(s, (p + i) - 1, p + i) = Passage(s, p, p + i)
      BY <3>3, PassagesJoin
    <3> HIDE DEF g
    <3> QED BY <1>3, <3>1, <3>2, <3>4
  <2>5. g[n] = Passage(s, p, q)
    BY <1>1, <2>1
  <2> HIDE DEF g, n
  <2>6. FlattenSeq(seqs) = g[n]
    BY <1>4, <2>1, <2>2, <2>3, <2>4, FlattenIs
  <2> QED BY <1>5, <2>5, <2>6
<1> QED BY <1>6, <1>7

-----------------------------------------------------------------------------
(* The steps.                                                              *)

LEMMA AddLineKeeps ==
  ASSUME ReaderInputs, RequestsInv, AddLine
  PROVE  RequestsInv'
<1>1. /\ to = "nobody" /\ NextLine /\ batch' = Aggregated /\ ~(Full(Aggregated) \/ last')
      /\ capacity' = capacity /\ to' = to /\ field' = field
      /\ rows' = rows /\ known' = known /\ shown' = shown
  BY DEF AddLine, transport
<1>2. /\ ReaderInv' /\ input' = input /\ Len(out') = Len(out) + 1 /\ index' = Len(out') - 1
      /\ Len(out) \in Nat
  BY <1>1, LineAdded
<1>3. /\ Aggregates(input, Aggregated, Len(known), Len(out')) /\ Len(Aggregated) \in Nat
      /\ BufferSize \in Nat
  BY <1>1, AggregatedFacts, RequestsFacts
<1>4. Gathered' /\ Echoed(Len(known))'
  <2>1. Aggregates(input', batch', Len(known'), Len(out'))
    BY <1>1, <1>2, <1>3
  <2>2. Len(batch') < BufferSize - HeaderSize
    BY <1>1, <1>3 DEF Full, HeaderSize
  <2>3. Echoed(Len(known))'
    BY <1>1, <1>2 DEF RequestsInv, Echoed
  <2> QED BY <1>1, <2>1, <2>2, <2>3 DEF Gathered
<1>5. Known'
  <2>1. Known /\ Len(known) \in Nat
    BY LenProperties DEF RequestsInv, Known
  <2>2. Len(known) <= Len(out')
    BY <1>2, <2>1 DEF Known
  <2> QED BY <1>1, <1>2, <2>1, <2>2 DEF Known
<1> QED BY <1>1, <1>2, <1>4, <1>5 DEF RequestsInv

LEMMA SendSubtaskKeeps ==
  ASSUME ReaderInputs, RequestsInv, SendSubtask
  PROVE  RequestsInv'
<1>1. /\ to = "nobody" /\ NextLine /\ batch' = <<>>
      /\ Send("session", 0, Aggregated, "NONE")
      /\ field' = field /\ rows' = rows /\ known' = known /\ shown' = shown
  BY DEF SendSubtask
<1>2. /\ ReaderInv' /\ input' = input /\ Len(out') = Len(out) + 1 /\ index' = Len(out') - 1
      /\ Len(out) \in Nat
  BY <1>1, LineAdded
<1>3. PICK text : text = Aggregated
  OBVIOUS
<1>4. /\ Aggregates(input, text, Len(known), Len(out'))
      /\ Len(text) + HeaderSize <= BufferSize + Size
  BY <1>1, <1>3, AggregatedFacts
<1>5. Carried(0, text)' /\ to' = "session" /\ capacity' \in Nat
  <2>1. 0 \in 0 .. BufferSize + Size
    BY RequestsFacts
  <2>2. text \in Seq(Data)
    BY <1>4 DEF Aggregates
  <2> QED BY <1>1, <1>3, <1>4, <2>1, <2>2, SendCarries
<1>6. Asked' /\ Echoed(Len(known))'
  <2>1. Aggregates(input', text, Len(known'), Len(out'))
    BY <1>1, <1>2, <1>4
  <2>2. Echoed(Len(known))'
    BY <1>1, <1>2 DEF RequestsInv, Echoed
  <2> QED BY <1>5, <2>1, <2>2 DEF Asked
<1>7. Known'
  <2>1. Known /\ Len(known) \in Nat
    BY LenProperties DEF RequestsInv, Known
  <2>2. Len(known) <= Len(out')
    BY <1>2, <2>1 DEF Known
  <2> QED BY <1>1, <1>2, <2>1, <2>2 DEF Known
<1> QED BY <1>1, <1>2, <1>5, <1>6, <1>7 DEF RequestsInv

(* The other actions leave the reader alone, or the lines it has read.     *)
LEMMA ReaderKept ==
  ASSUME ReaderInputs, RequestsInv, [RequestsNext]_allVars
  PROVE  ReaderInv'
<1>1. ReaderInv
  BY DEF RequestsInv
<1> QED BY <1>1, ReaderStep, RequestsReads

LEMMA AbandonKeeps ==
  ASSUME ReaderInputs, RequestsInv, Abandon
  PROVE  RequestsInv'
<1>1. /\ input' = input /\ index' = index /\ last' = last /\ out' = out
      /\ UNCHANGED <<transport, batch, rows, known, shown>> /\ to = "nobody"
  BY DEF Abandon, NoLine, Throw
<1>2. /\ UNCHANGED <<capacity, to, field>>
  BY <1>1 DEF transport
<1>3. ReaderInv'
  BY ReaderKept DEF RequestsNext
<1>4. Known' /\ Gathered' /\ Echoed(Len(known))'
  BY <1>1 DEF RequestsInv, Known, Gathered, Echoed
<1> QED BY <1>1, <1>2, <1>3, <1>4 DEF RequestsInv

(* A step that keeps what is carried.                                      *)
LEMMA CarrierKeeps ==
  ASSUME ReaderInputs, RequestsInv, [RequestsNext]_allVars,
         UNCHANGED <<input, index, last, out, batch, capacity, to, field, rows, known, shown>>,
         \A size, text : Carried(size, text) => Carried(size, text)'
  PROVE  RequestsInv'
<1>1. ReaderInv'
  BY ReaderKept
<1>2. /\ Known' /\ (Gathered => Gathered')
      /\ \A p : Echoed(p) => Echoed(p)'
      /\ Echoed(Len(known)) => Echoed(Len(known))'
  BY DEF RequestsInv, Known, Gathered, Echoed
<1>3. Asked => Asked'
  BY DEF Asked
<1>4. Answered => Answered'
  BY <1>2 DEF Answered
<1> QED BY <1>1, <1>2, <1>3, <1>4 DEF RequestsInv

LEMMA WriteChunkKeeps ==
  ASSUME ReaderInputs, RequestsInv, WriteChunk
  PROVE  RequestsInv'
<1>1. UNCHANGED <<input, index, last, out, batch, capacity, to, field, rows, known, shown>>
  BY DEF WriteChunk, vars
<1>2. capacity \in Nat
  BY DEF RequestsInv
<1>3. \A size, text : Carried(size, text) => Carried(size, text)'
  BY <1>2, WriteChunkCarries
<1> QED BY <1>1, <1>3, CarrierKeeps DEF RequestsNext

LEMMA ReadChunkKeeps ==
  ASSUME ReaderInputs, RequestsInv, ReadChunk
  PROVE  RequestsInv'
<1>1. UNCHANGED <<input, index, last, out, batch, capacity, to, field, rows, known, shown>>
  BY DEF ReadChunk, vars
<1>2. \A size, text : Carried(size, text) => Carried(size, text)'
  BY ReadChunkCarries
<1> QED BY <1>1, <1>2, CarrierKeeps DEF RequestsNext

(* The rows of an earlier message that follow those of this one are not    *)
(* processed with them.                                                    *)
LEMMA ReuseFacts ==
  ASSUME NEW S, NEW old \in Seq(S), NEW new \in Seq(S)
  PROVE  Reuse(old, new) \in Seq(S) /\ SubSeq(Reuse(old, new), 1, Len(new)) = new
<1> DEFINE rest == SubSeq(old, Len(new) + 1, Len(old))
<1>1. rest \in Seq(S)
  <2>1. Len(new) \in Nat /\ Len(old) \in Nat
    BY LenProperties
  <2>2. \A i \in Len(new) + 1 .. Len(old) : old[i] \in S
    <3>1. \A i \in Len(new) + 1 .. Len(old) : i \in 1 .. Len(old)
      BY <2>1
    <3> QED BY <3>1, ElementOfSeq
  <2> QED BY <2>1, <2>2, SubSeqProperties
<1>2. Reuse(old, new) = new \o rest
  BY DEF Reuse
<1> HIDE DEF rest
<1> QED BY <1>1, <1>2, ConcatProperties, HeadOfConcat

LEMMA ProcessRequestKeeps ==
  ASSUME ReaderInputs, RequestsInv, ProcessRequest
  PROVE  RequestsInv'
<1> DEFINE p == Len(known)
           q == Len(out)
<1>1. to = "session" /\ Received("session") /\ UNCHANGED <<vars, batch, shown>>
  BY DEF ProcessRequest, Received
<1>2. UNCHANGED <<input, index, last, out>>
  BY <1>1 DEF vars
<1>3. ReaderInv'
  BY ReaderKept DEF RequestsNext
<1>4. /\ Known /\ rows \in Seq(Seq(Data)) /\ DOMAIN field = {"session", "client"}
      /\ index = Len(out) - 1 /\ batch = <<>> /\ Asked /\ Echoed(p)
  BY <1>1 DEF RequestsInv
<1>5. /\ input \in Seq(Byte) /\ Terminated(input) /\ ~LineTooLong(input)
      /\ LineCount(input) \in Nat /\ q \in 0 .. LineCount(input) /\ p \in 0 .. q
      /\ BufferSize \in Nat /\ Size \in Nat
  BY RequestsFacts
<1>6. PICK text : Aggregates(input, text, p, q) /\ Carried(0, text)
  BY <1>4 DEF Asked
<1>7. field'["session"] = text /\ DOMAIN field' = {"session", "client"}
  <2>1. "session" \in DOMAIN field
    BY <1>4
  <2> QED BY <1>1, <1>4, <1>6, <2>1, ReceivedIs
<1> DEFINE pieces == Pieces(text)
<1>8. /\ RowCount(text) = q - p /\ pieces \in Seq(Seq(Data)) /\ Len(pieces) = q - p
      /\ \A j \in 1 .. q - p : pieces[j] = RequestsOf(input)[p + j]
  <2> HIDE DEF p, q
  <2> QED BY <1>5, <1>6, Splits
<1> HIDE DEF pieces
<1> DEFINE requests == SubSeq(Reuse(rows, pieces), 1, Len(pieces))
<1>9. /\ rows' = Reuse(rows, pieces) /\ known' = known \o requests
      /\ Send("client", Len(Responses(requests)), Responses(requests), "NONE")
  <2> DEFINE made(t) == SubSeq(Reuse(rows, Pieces(t)), 1, RowCount(t))
  <2>1. /\ rows' = Reuse(rows, Pieces(field'["session"]))
        /\ known' = known \o made(field'["session"])
        /\ Send("client", Len(Responses(made(field'["session"]))),
                Responses(made(field'["session"])), "NONE")
    BY DEF ProcessRequest
  <2>2. made(text) = requests
    BY <1>8 DEF pieces
  <2> HIDE DEF made, requests
  <2> QED BY <1>7, <2>1, <2>2 DEF pieces
<1>10. requests = pieces /\ rows' \in Seq(Seq(Data))
  BY <1>4, <1>8, <1>9, ReuseFacts
<1> HIDE DEF requests
<1>11. /\ known' \in Seq(Seq(Data)) /\ Len(known') = p + (q - p)
       /\ \A k \in 1 .. p + (q - p) :
            known'[k] = IF k <= p THEN known[k] ELSE pieces[k - p]
  <2>1. known \in Seq(Seq(Data))
    BY <1>4 DEF Known
  <2> QED BY <1>8, <1>9, <1>10, <2>1, ConcatProperties
<1>12. Len(known') = q
  BY <1>5, <1>11
<1>13. ASSUME NEW k \in 1 .. q
       PROVE  known'[k] = RequestsOf(input)[k]
  <2>1. k \in 1 .. p + (q - p)
    BY <1>5
  <2>2. CASE k <= p
    <3>1. k \in 1 .. p
      BY <1>5, <2>2
    <3>2. known'[k] = known[k]
      BY <1>11, <2>1, <2>2
    <3> QED BY <1>4, <3>1, <3>2 DEF Known
  <2>3. CASE ~(k <= p)
    <3>1. k - p \in 1 .. q - p /\ p + (k - p) = k
      BY <1>5, <2>3
    <3>2. known'[k] = pieces[k - p]
      BY <1>11, <2>1, <2>3
    <3>3. pieces[k - p] = RequestsOf(input)[p + (k - p)]
      BY <1>8, <3>1
    <3> QED BY <3>1, <3>2, <3>3
  <2> QED BY <2>2, <2>3
<1>14. Known'
  <2>1. Len(known') <= Len(out)
    BY <1>5, <1>12
  <2> QED BY <1>2, <1>11, <1>12, <1>13, <2>1 DEF Known
<1> DEFINE passage == Passage(input, p, q)
<1>15. Responses(requests) = passage
  <2>1. index \in Int /\ q - 1 <= index
    BY <1>4, <1>5
  <2> HIDE DEF p, q
  <2> QED BY <1>5, <1>8, <1>10, <2>1, ResponsesAre DEF passage
<1>16. /\ passage \in Seq(Data) /\ Len(passage) \in 0 .. BufferSize + Size
       /\ Len(passage) + HeaderSize <= BufferSize + Size
  <2> DEFINE x == Marks(input)[p + 1]
             y == Marks(input)[q + 1]
  <2>1. /\ passage \in Seq(Data) /\ Len(passage) = y - x
        /\ x \in 0 .. Len(input) /\ y \in 0 .. Len(input) /\ x <= y
    <3> HIDE DEF p, q
    <3> QED BY <1>5, PassageFacts DEF passage
  <2>2. Len(text) = (y - x) + (q - p)
    BY <1>6 DEF Aggregates, Start
  <2>3. Len(text) + HeaderSize <= BufferSize + Size
    BY <1>6 DEF Carried
  <2>4. Len(input) \in Nat
    BY <1>5, LenProperties
  <2>5. p \in Nat /\ q \in Nat /\ p <= q
    BY <1>5
  <2> HIDE DEF x, y, passage, p, q
  <2> QED BY <1>5, <2>1, <2>2, <2>3, <2>4, <2>5 DEF HeaderSize
<1> HIDE DEF passage
<1>17. PICK reply : reply = passage
  OBVIOUS
<1>18. Carried(Len(reply), reply)' /\ to' = "client" /\ capacity' \in Nat
  <2>1. PICK size : size = Len(passage)
    OBVIOUS
  <2>2. Send("client", size, reply, "NONE")
    BY <1>9, <1>15, <1>17, <2>1
  <2>3. Carried(size, reply)' /\ to' = "client" /\ capacity' \in Nat
    BY <1>16, <1>17, <2>1, <2>2, SendCarries
  <2> QED BY <1>17, <2>1, <2>3
<1>19. Answered'
  <2>1. PICK m : m = p
    OBVIOUS
  <2>2. m \in 0 .. Len(known')
    BY <1>5, <1>12, <2>1
  <2>3. reply = Passage(input', m, Len(known'))
    BY <1>2, <1>12, <1>17, <2>1 DEF passage
  <2>4. Echoed(m)'
    <3>1. shown = Passage(input, 0, m)
      BY <1>4, <2>1 DEF Echoed
    <3> QED BY <1>1, <1>2, <3>1 DEF Echoed
  <2>5. Carried(Len(reply), reply)'
    BY <1>18
  <2> HIDE DEF p, q
  <2> QED BY <2>2, <2>3, <2>4, <2>5 DEF Answered
<1> QED BY <1>1, <1>2, <1>3, <1>4, <1>7, <1>10, <1>12, <1>14, <1>18, <1>19 DEF RequestsInv

LEMMA PrintReplyKeeps ==
  ASSUME ReaderInputs, RequestsInv, PrintReply
  PROVE  RequestsInv'
<1> DEFINE q == Len(known)
<1>1. /\ to = "client" /\ to' = "nobody" /\ UNCHANGED <<vars, batch, capacity, rows, known>>
      /\ Received("client") /\ shown' = shown \o field'["client"]
  BY DEF PrintReply, Received
<1>2. UNCHANGED <<input, index, last, out>>
  BY <1>1 DEF vars
<1>3. ReaderInv'
  BY ReaderKept DEF RequestsNext
<1>4. /\ Known' /\ batch = <<>> /\ Len(known) = Len(out) /\ Answered
      /\ DOMAIN field = {"session", "client"}
  BY <1>1, <1>2 DEF RequestsInv, Known
<1>5. Len(out) \in 0 .. LineCount(input) /\ input \in Seq(Byte) /\ LineCount(input) \in Nat
  BY RequestsFacts
<1>6. PICK p, text :
        p \in 0 .. q /\ Echoed(p) /\ text = Passage(input, p, q) /\ Carried(Len(text), text)
  BY <1>4 DEF Answered
<1>7. field'["client"] = text /\ DOMAIN field' = DOMAIN field
  <2>1. "client" \in DOMAIN field
    BY <1>4
  <2> QED BY <1>1, <1>6, <2>1, ReceivedIs
<1>8. Echoed(q)'
  <2>1. q \in 0 .. LineCount(input) /\ p \in 0 .. q /\ 0 \in 0 .. p
    BY <1>4, <1>5, <1>6
  <2>2. Passage(input, 0, p) \o Passage(input, p, q) = Passage(input, 0, q)
    <3> HIDE DEF q
    <3> QED BY <1>5, <2>1, PassagesJoin
  <2> QED BY <1>1, <1>2, <1>6, <1>7, <2>2 DEF Echoed
<1>9. Gathered'
  <2>1. Aggregates(input, <<>>, Len(out), Len(out))
    BY <1>5, EmptyAggregates
  <2>2. Len(<<>>) < BufferSize - HeaderSize
    BY RequestsAssumption DEF RequestsAssumption, HeaderSize
  <2> QED BY <1>1, <1>2, <1>4, <2>1, <2>2 DEF Gathered
<1> QED BY <1>1, <1>2, <1>3, <1>4, <1>7, <1>8, <1>9 DEF RequestsInv

LEMMA RequestsStart ==
  ASSUME RequestsInit
  PROVE  RequestsInv
<1>1. Init /\ index = -1 /\ last = FALSE /\ out = <<>>
  BY DEF RequestsInit, Init
<1>2. ReaderInv
  BY <1>1, ReaderInit
<1>3. /\ batch = <<>> /\ capacity = Capacity /\ to = "nobody" /\ rows = <<>> /\ known = <<>>
      /\ shown = <<>> /\ DOMAIN field = {"session", "client"}
  BY DEF RequestsInit
<1>4. Len(out) = 0 /\ Len(known) = 0 /\ 0 - 1 = -1
  BY <1>1, <1>3
<1>5. capacity \in Nat
  BY <1>3, RequestsAssumption DEF RequestsAssumption
<1>6. rows \in Seq(Seq(Data)) /\ known \in Seq(Seq(Data))
  BY <1>3, EmptySeq
<1>7. Known
  BY <1>4, <1>6 DEF Known
<1>8. 0 \in 0 .. LineCount(input) /\ 0 \in 0 .. 0 /\ input \in Seq(Byte)
  BY <1>2, ReaderFacts
<1>9. Gathered
  <2>1. Aggregates(input, <<>>, 0, 0)
    BY <1>8, EmptyAggregates
  <2>2. Len(<<>>) < BufferSize - HeaderSize
    BY RequestsAssumption DEF RequestsAssumption, HeaderSize
  <2> QED BY <1>1, <1>3, <1>4, <2>1, <2>2 DEF Gathered
<1>10. Echoed(Len(known))
  <2>1. Marks(input)[1] = 0 /\ 0 + 1 = 1
    BY <1>8, MarksFacts
  <2>2. SubSeq(input, 0 + 1, 0) = <<>>
    BY SubSeqEmpty
  <2> QED BY <1>3, <1>4, <2>1, <2>2 DEF Echoed, Passage
<1> QED BY <1>1, <1>2, <1>3, <1>4, <1>5, <1>6, <1>7, <1>9, <1>10 DEF RequestsInv

LEMMA RequestsStep ==
  ASSUME ReaderInputs, RequestsInv, [RequestsNext]_allVars
  PROVE  RequestsInv'
<1>1. CASE AddLine
  BY <1>1, AddLineKeeps
<1>2. CASE SendSubtask
  BY <1>2, SendSubtaskKeeps
<1>3. CASE Abandon
  BY <1>3, AbandonKeeps
<1>4. CASE WriteChunk
  BY <1>4, WriteChunkKeeps
<1>5. CASE ReadChunk
  BY <1>5, ReadChunkKeeps
<1>6. CASE ProcessRequest
  BY <1>6, ProcessRequestKeeps
<1>7. CASE PrintReply
  BY <1>7, PrintReplyKeeps
<1>8. CASE UNCHANGED allVars
  <2>1. UNCHANGED <<input, index, last, out, batch, capacity, to, field, rows, known, shown>>
    BY <1>8 DEF allVars, vars, transport
  <2>2. \A size, text : Carried(size, text) => Carried(size, text)'
    BY <1>8 DEF allVars, transport, Carried
  <2> QED BY <2>1, <2>2, CarrierKeeps
<1> QED BY <1>1, <1>2, <1>3, <1>4, <1>5, <1>6, <1>7, <1>8 DEF RequestsNext

LEMMA RequestsImply ==
  ASSUME ReaderInputs, RequestsInv
  PROVE  EveryRequestOnce
<1> DEFINE n == LineCount(input)
           requests == RequestsOf(input)
<1>1. /\ input \in Seq(Byte) /\ Terminated(input) /\ ~LineTooLong(input)
      /\ n \in Nat /\ Len(out) \in 0 .. n /\ Len(known) \in 0 .. Len(out)
  BY RequestsFacts
<1>2. requests \in Seq(Seq(Data)) /\ Len(requests) = n
  <2>1. DOMAIN LinesOf(input) = 1 .. n
    BY <1>1, Rows, LenProperties
  <2>2. DOMAIN requests = 1 .. n /\ \A k \in 1 .. n : requests[k] \in Seq(Data)
    BY <1>1, <2>1, RequestFacts DEF RequestsOf
  <2>3. requests = [k \in 1 .. n |-> requests[k]]
    BY <2>1 DEF RequestsOf
  <2> HIDE DEF requests, n
  <2>4. requests \in [1 .. n -> Seq(Data)]
    BY <2>2, <2>3
  <2> QED BY <1>1, <2>4
<1>3. /\ known \in Seq(Seq(Data)) /\ \A k \in 1 .. Len(known) : known[k] = requests[k]
      /\ last /\ to = "nobody" => Len(known) = Len(out) /\ Len(out) = n
  BY DEF RequestsInv, ReaderInv, Known, Gathered
<1> HIDE DEF n, requests
<1>4. Len(known) <= Len(requests)
  BY <1>1, <1>2
<1>5. IsPrefix(known, requests) /\ (Len(known) = Len(requests) => known = requests)
  BY <1>2, <1>3, <1>4, PrefixIs
<1>6. last /\ to = "nobody" => known = requests
  BY <1>2, <1>3, <1>5
<1> QED BY <1>5, <1>6 DEF EveryRequestOnce, requests

LEMMA RequestsEcho ==
  ASSUME ReaderInputs, RequestsInv
  PROVE  EchoesSource
<1> DEFINE n == LineCount(input)
<1>1. /\ input \in Seq(Byte) /\ n \in Nat /\ Len(input) \in Nat
      /\ Len(out) \in 0 .. n /\ Len(known) \in 0 .. Len(out)
  BY RequestsFacts, LenProperties
<1>2. /\ \E p \in 0 .. Len(known) : Echoed(p)
      /\ last /\ to = "nobody" => Echoed(Len(known)) /\ Len(known) = n
  <2>1. Len(known) \in 0 .. Len(known)
    BY <1>1
  <2>2. to \in {"nobody", "session", "client"}
    BY DEF RequestsInv
  <2>3. to \in {"nobody", "session"} => Echoed(Len(known))
    BY DEF RequestsInv
  <2>4. to = "client" => \E p \in 0 .. Len(known) : Echoed(p)
    BY DEF RequestsInv, Answered
  <2>5. last /\ to = "nobody" => Len(known) = n
    BY DEF RequestsInv, ReaderInv, Gathered
  <2> HIDE DEF n
  <2> QED BY <2>1, <2>2, <2>3, <2>4, <2>5
<1>3. Marks(input)[0 + 1] = 0 /\ Marks(input)[n + 1] = Len(input)
  BY <1>1, MarksFacts
<1>4. IsPrefix(shown, input)
  <2>1. PICK p \in 0 .. Len(known) : Echoed(p)
    BY <1>2
  <2> DEFINE x == Marks(input)[p + 1]
  <2>2. p \in 0 .. n /\ 0 \in 0 .. p
    BY <1>1, <2>1
  <2>3. shown \in Seq(Data) /\ Len(shown) = x - 0 /\ x \in 0 .. Len(input)
    BY <1>1, <1>3, <2>1, <2>2, PassageFacts DEF Echoed
  <2>4. shown = SubSeq(input, 1, x)
    BY <1>3, <2>1 DEF Echoed, Passage
  <2> HIDE DEF x
  <2>5. Len(shown) = x /\ x <= Len(input)
    BY <1>1, <2>3
  <2>6. SubSeq(shown, 1, Len(shown)) = shown
    BY <2>3, SubSeqFull
  <2> QED BY <2>4, <2>5, <2>6 DEF IsPrefix
<1>5. last /\ to = "nobody" => shown = input
  <2>1. Passage(input, 0, n) = input
    BY <1>1, <1>3, SubSeqFull DEF Passage
  <2> QED BY <1>2, <2>1 DEF Echoed
<1> QED BY <1>4, <1>5 DEF EchoesSource

-----------------------------------------------------------------------------
(* Whatever pieces a message is written and read in, the session gets the  *)
(* text the client has gathered and the client the lines it was made from; *)
(* the rows that are processed continue those before: the inductive        *)
(* invariant of the way of a request.                                      *)
THEOREM RequestsInvariant ==
  ASSUME ReaderInputs
  PROVE  RequestsSpec => []RequestsInv
<1>1. RequestsInit => RequestsInv
  BY RequestsStart
<1>2. RequestsInv /\ [RequestsNext]_allVars => RequestsInv'
  BY RequestsStep
<1> QED BY <1>1, <1>2, PTL DEF RequestsSpec

(* splitReuseVector and Task::update give the session every request of the *)
(* source once and in order, and none of the rows that an earlier, longer  *)
(* message has left in _requests.                                          *)
THEOREM EveryRequestOnceAlways ==
  ASSUME ReaderInputs
  PROVE  RequestsSpec => []EveryRequestOnce
<1>1. RequestsInv => EveryRequestOnce
  BY RequestsImply
<1> QED BY <1>1, RequestsInvariant, PTL

(* What printReply has written is a beginning of the source, and all of it *)
(* when the last reply has come: under EchoPolicy ids come off, newlines   *)
(* come back, and no byte of a header or of an earlier message gets in.    *)
THEOREM EchoesSourceAlways ==
  ASSUME ReaderInputs
  PROVE  RequestsSpec => []EchoesSource
<1>1. RequestsInv => EchoesSource
  BY RequestsEcho
<1> QED BY <1>1, RequestsInvariant, PTL

=============================================================================
