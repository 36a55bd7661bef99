--------------------------- MODULE MatchingProofs ---------------------------
(***************************************************************************)
(* RepliesMatch for any files, requests and sizes.                         *)
(*                                                                         *)
(* Loops and recursive functions are reasoned about without induction: of  *)
(* the steps at which a claim fails the least one cannot be the first, and *)
(* follows from the one before.  MatchInv: the map has, for each size, the *)
(* well formed entries that have been read, in their order; and a worker   *)
(* that has looked up ads refers to those of its previous key.             *)
(***************************************************************************)
EXTENDS Matching, FiniteSetTheorems, WellFoundedInduction, SequenceTheorems, TLAPS

Bid == [ad : Nat, keyword : Keyword, money : Nat]
AdSet == [id : Nat, size : Size, defaultBid : Nat, bids : Seq(Bid)]

(* The bid at a place of an entry.                                         *)
BidOf(e, j) ==
  [ad |-> e.id, keyword |-> e.bids[j].keyword, money |-> MoneyOf(e, e.bids[j].money)]

Distinct(s) == \A i, j \in DOMAIN s : s[i] = s[j] => i = j

-----------------------------------------------------------------------------
LEMMA LeastNumber ==
  ASSUME NEW S \in SUBSET Nat, S # {}
  PROVE  \E m \in S : \A n \in S : m <= n
<1> DEFINE R == OpToRel(<, Nat)
<1>1. IsWellFoundedOn(R, Nat)
  BY NatLessThanWellFounded
<1>2. \A m, n \in Nat : <<m, n>> \in R <=> m < n
  BY DEF OpToRel
<1> HIDE DEF R
<1>3. PICK m \in S : \A n \in S : <<n, m>> \notin R
  BY <1>1, WFMin
<1>4. ASSUME NEW n \in S
      PROVE  m <= n
  <2>1. m \in Nat /\ n \in Nat /\ ~(n < m)
    BY <1>2, <1>3
  <2> QED BY <2>1
<1> QED BY <1>4

(* What is true of 0 and of n + 1 where it is true of n.                   *)
LEMMA Least ==
  ASSUME NEW N \in Nat, NEW S, 0 \in S, \A n \in 0 .. N : n \in S /\ n < N => n + 1 \in S
  PROVE  N \in S
<1> DEFINE K == {n \in 0 .. N : n \notin S}
<1>1. SUFFICES ASSUME N \notin S
               PROVE  FALSE
  OBVIOUS
<1>2. N \in K /\ K \in SUBSET Nat
  BY <1>1
<1>3. PICK k \in K : \A n \in K : k <= n
  <2> HIDE DEF K
  <2> QED BY <1>2, LeastNumber
<1>4. k # 0 /\ k - 1 \in 0 .. N /\ k - 1 < N /\ ~(k <= k - 1) /\ (k - 1) + 1 = k
  OBVIOUS
<1>5. k - 1 \in S
  BY <1>3, <1>4
<1> QED BY <1>4, <1>5

(* Selection sort: whatever the keys are, some order of the places sorts   *)
(* them.                                                                   *)
Permutes(p, n) ==
  /\ p \in [1 .. n -> 1 .. n]
  /\ \A i, j \in 1 .. n : p[i] = p[j] => i = j
  /\ \A k \in 1 .. n : \E i \in 1 .. n : p[i] = k
SortsTo(p, key, m, n) == \A i, j \in 1 .. n : i <= m /\ i < j => key[p[i]] <= key[p[j]]

LEMMA SelectNext ==
  ASSUME NEW n \in Nat, NEW key, \A i \in 1 .. n : key[i] \in Nat,
         NEW m \in Nat, m < n, NEW p, Permutes(p, n), SortsTo(p, key, m, n)
  PROVE  \E q : Permutes(q, n) /\ SortsTo(q, key, m + 1, n)
<1> DEFINE rest == {key[p[i]] : i \in m + 1 .. n}
<1>1. /\ p \in [1 .. n -> 1 .. n]
      /\ \A i, j \in 1 .. n : p[i] = p[j] => i = j
      /\ \A k \in 1 .. n : \E i \in 1 .. n : p[i] = k
  BY DEF Permutes
<1>2. m + 1 \in 1 .. n /\ m + 1 \in m + 1 .. n /\ \A i \in m + 1 .. n : i \in 1 .. n
  OBVIOUS
<1>3. rest \in SUBSET Nat /\ key[p[m + 1]] \in rest
  <2>1. \A i \in m + 1 .. n : p[i] \in 1 .. n /\ key[p[i]] \in Nat
    BY <1>1, <1>2
  <2> QED BY <1>2, <2>1
<1>4. PICK least \in rest : \A x \in rest : least <= x
  <2> HIDE DEF rest
  <2> QED BY <1>3, LeastNumber
<1>5. PICK s \in m + 1 .. n : key[p[s]] = least
  BY <1>4
<1>6. \A i \in m + 1 .. n : key[p[s]] <= key[p[i]]
  BY <1>4, <1>5
<1> HIDE DEF rest
<1> DEFINE swap == [i \in 1 .. n |-> IF i = m + 1 THEN s ELSE IF i = s THEN m + 1 ELSE i]
           q == [i \in 1 .. n |-> p[swap[i]]]
<1>7. /\ swap \in [1 .. n -> 1 .. n] /\ \A i \in 1 .. n : swap[swap[i]] = i
      /\ swap[m + 1] = s
      /\ \A i \in 1 .. n : i <= m => swap[i] = i
      /\ \A i \in 1 .. n : i > m => swap[i] \in m + 1 .. n
  BY <1>2, <1>5
<1> HIDE DEF swap
<1>8. Permutes(q, n)
  <2>1. q \in [1 .. n -> 1 .. n] /\ \A i \in 1 .. n : q[i] = p[swap[i]]
    BY <1>1, <1>7
  <2> HIDE DEF q
  <2>2. ASSUME NEW i \in 1 .. n, NEW j \in 1 .. n, q[i] = q[j]
        PROVE  i = j
    <3>1. swap[i] \in 1 .. n /\ swap[j] \in 1 .. n
      BY <1>7
    <3>2. p[swap[i]] = p[swap[j]]
      BY <2>1, <2>2
    <3>3. swap[i] = swap[j]
      BY <1>1, <3>1, <3>2
    <3> QED BY <1>7, <3>3
  <2>3. ASSUME NEW k \in 1 .. n
        PROVE  \E i \in 1 .. n : q[i] = k
    <3>1. PICK i \in 1 .. n : p[i] = k
      BY <1>1
    <3>2. swap[i] \in 1 .. n /\ q[swap[i]] = k
      BY <1>7, <2>1, <3>1
    <3> QED BY <3>2
  <2> QED BY <2>1, <2>2, <2>3 DEF Permutes
<1>9. SortsTo(q, key, m + 1, n)
  <2>1. ASSUME NEW i \in 1 .. n, NEW j \in 1 .. n, i <= m + 1, i < j
        PROVE  key[q[i]] <= key[q[j]]
    <3>1. q[i] = p[swap[i]] /\ q[j] = p[swap[j]] /\ swap[i] \in 1 .. n /\ swap[j] \in 1 .. n
      BY <1>7
    <3> HIDE DEF q
    <3>2. CASE i <= m
      <4>1. swap[i] = i /\ i < swap[j]
        <5>1. CASE j <= m
          BY <1>7, <2>1, <3>2, <5>1
        <5>2. CASE j > m
          BY <1>7, <3>2, <5>2
        <5> QED BY <5>1, <5>2
      <4> QED BY <3>1, <3>2, <4>1 DEF SortsTo
    <3>3. CASE ~(i <= m)
      <4>1. i = m + 1 /\ j > m
        BY <2>1, <3>3
      <4>2. swap[i] = s /\ swap[j] \in m + 1 .. n
        BY <1>7, <4>1
      <4> QED BY <1>6, <3>1, <4>2
    <3> QED BY <3>2, <3>3
  <2> QED BY <2>1 DEF SortsTo
<1> QED BY <1>8, <1>9

LEMMA OrderExists ==
  ASSUME NEW n \in Nat, NEW key, \A i \in 1 .. n : key[i] \in Nat
  PROVE  \E p : Permutes(p, n) /\ SortsTo(p, key, n, n)
<1> DEFINE S == {m \in 0 .. n : \E p : Permutes(p, n) /\ SortsTo(p, key, m, n)}
<1>1. 0 \in S
  <2> DEFINE p == [i \in 1 .. n |-> i]
  <2>1. Permutes(p, n)
    BY DEF Permutes
  <2>2. SortsTo(p, key, 0, n)
    BY DEF SortsTo
  <2> HIDE DEF p
  <2> QED BY <2>1, <2>2
<1>2. ASSUME NEW m \in 0 .. n, m \in S, m < n
      PROVE  m + 1 \in S
  <2>1. PICK p : Permutes(p, n) /\ SortsTo(p, key, m, n)
    BY <1>2
  <2>2. \E q : Permutes(q, n) /\ SortsTo(q, key, m + 1, n)
    BY <1>2, <2>1, SelectNext
  <2>3. m + 1 \in 0 .. n
    BY <1>2
  <2> QED BY <2>2, <2>3
<1> HIDE DEF S
<1>3. n \in S
  BY <1>1, <1>2, Least
<1> QED BY <1>3 DEF S

(* What std::sort gives.                                                   *)
LEMMA SortFacts ==
  ASSUME NEW T, NEW s \in Seq(T), NEW key, \A i \in DOMAIN s : key[i] \in Nat
  PROVE  \E p : /\ Permutes(p, Len(s)) /\ SortsTo(p, key, Len(s), Len(s))
                /\ Sort(s, key) = [i \in DOMAIN s |-> s[p[i]]]
<1> DEFINE n == Len(s)
           orders == {p \in Bijection(DOMAIN s, DOMAIN s) :
                        \A i, j \in DOMAIN s : i < j => key[p[i]] <= key[p[j]]}
           order == CHOOSE p \in Bijection(DOMAIN s, DOMAIN s) :
                      \A i, j \in DOMAIN s : i < j => key[p[i]] <= key[p[j]]
<1>1. n \in Nat /\ DOMAIN s = 1 .. n
  BY LenProperties
<1>2. ASSUME NEW p
      PROVE  Permutes(p, n) <=> p \in Bijection(DOMAIN s, DOMAIN s)
  BY <1>1 DEF Permutes, Bijection, Injection, Surjection, IsInjective
<1>3. ASSUME NEW p
      PROVE  SortsTo(p, key, n, n)
               <=> \A i, j \in DOMAIN s : i < j => key[p[i]] <= key[p[j]]
  BY <1>1 DEF SortsTo
<1>4. \E p \in Bijection(DOMAIN s, DOMAIN s) :
        \A i, j \in DOMAIN s : i < j => key[p[i]] <= key[p[j]]
  <2>1. PICK p : Permutes(p, n) /\ SortsTo(p, key, n, n)
    BY <1>1, OrderExists
  <2> QED BY <1>2, <1>3, <2>1
<1>5. Permutes(order, n) /\ SortsTo(order, key, n, n)
  <2>1. /\ order \in Bijection(DOMAIN s, DOMAIN s)
        /\ \A i, j \in DOMAIN s : i < j => key[order[i]] <= key[order[j]]
    BY <1>4
  <2> HIDE DEF order
  <2> QED BY <1>2, <1>3, <2>1
<1>6. Sort(s, key) = [i \in DOMAIN s |-> s[order[i]]]
  BY DEF Sort
<1> HIDE DEF order
<1> QED BY <1>5, <1>6

(* The bids of an ad: those of its entry, by keyword.                      *)
Ascending(bids) == \A i, j \in DOMAIN bids : i < j => bids[i].keyword < bids[j].keyword

LEMMA BidsFacts ==
  ASSUME NEW e \in Entry,
         \A m, n \in DOMAIN e.bids : e.bids[m].keyword = e.bids[n].keyword => m = n
  PROVE  /\ Bids(e) \in Seq(Bid) /\ Ascending(Bids(e))
         /\ ToSet(Bids(e)) = {BidOf(e, j) : j \in DOMAIN e.bids}
         /\ \A j \in DOMAIN e.bids : BidOf(e, j) \in Bid
<1> DEFINE n == Len(e.bids)
           s == [i \in DOMAIN e.bids |-> [ad |-> e.id, keyword |-> e.bids[i].keyword,
                                         money |-> MoneyOf(e, e.bids[i].money)]]
           key == [i \in DOMAIN e.bids |-> e.bids[i].keyword]
<1>1. /\ e.id \in Nat /\ e.defaultBid \in Nat
      /\ e.bids \in Seq([keyword : Keyword, money : Nat])
  BY DEF Entry
<1>2. n \in Nat /\ DOMAIN e.bids = 1 .. n
  BY <1>1, LenProperties
<1>3. \A j \in 1 .. n : e.bids[j].keyword \in Nat /\ e.bids[j].money \in Nat
  <2>1. \A j \in 1 .. n : e.bids[j] \in [keyword : Keyword, money : Nat]
    BY <1>1, <1>2, ElementOfSeq
  <2> QED BY <2>1 DEF Keyword
<1>4. \A j \in 1 .. n : BidOf(e, j) \in Bid
  BY <1>1, <1>3 DEF BidOf, Bid, MoneyOf, Keyword
<1>5. /\ DOMAIN s = 1 .. n /\ \A j \in 1 .. n : s[j] = BidOf(e, j)
      /\ s = [j \in 1 .. n |-> s[j]]
  BY <1>2 DEF BidOf
<1>6. \A j \in 1 .. n : key[j] = e.bids[j].keyword /\ key[j] \in Nat
  BY <1>2, <1>3
<1>7. Bids(e) = Sort(s, key)
  BY DEF Bids
<1> HIDE DEF s, key
<1>8. s \in Seq(Bid) /\ Len(s) = n
  <2>1. s \in [1 .. n -> Bid]
    BY <1>4, <1>5
  <2> QED BY <1>2, <2>1, LenProperties
<1>9. PICK p : /\ Permutes(p, n) /\ SortsTo(p, key, n, n)
               /\ Sort(s, key) = [i \in 1 .. n |-> s[p[i]]]
  <2>1. \A i \in DOMAIN s : key[i] \in Nat
    BY <1>5, <1>6
  <2>2. PICK p : /\ Permutes(p, Len(s)) /\ SortsTo(p, key, Len(s), Len(s))
                 /\ Sort(s, key) = [i \in DOMAIN s |-> s[p[i]]]
    BY <1>8, <2>1, SortFacts
  <2> HIDE DEF n
  <2> QED BY <1>5, <1>8, <2>2
<1> HIDE DEF n
<1>10. /\ p \in [1 .. n -> 1 .. n]
       /\ \A i, j \in 1 .. n : p[i] = p[j] => i = j
       /\ \A k \in 1 .. n : \E i \in 1 .. n : p[i] = k
  BY <1>9 DEF Permutes
<1> DEFINE bids == Bids(e)
<1>11. bids = [i \in 1 .. n |-> BidOf(e, p[i])]
  <2>1. \A i \in 1 .. n : s[p[i]] = BidOf(e, p[i])
    BY <1>5, <1>10
  <2> QED BY <1>7, <1>9, <2>1
<1>12. bids \in Seq(Bid) /\ DOMAIN bids = 1 .. n
  <2>1. bids \in [1 .. n -> Bid]
    BY <1>4, <1>10, <1>11
  <2> HIDE DEF bids
  <2> QED BY <1>2, <2>1
<1>13. \A i \in 1 .. n : bids[i] = BidOf(e, p[i])
  BY <1>11
<1> HIDE DEF bids
<1>14. Ascending(bids)
  <2>1. ASSUME NEW i \in 1 .. n, NEW j \in 1 .. n, i < j
        PROVE  bids[i].keyword < bids[j].keyword
    <3>1. p[i] \in 1 .. n /\ p[j] \in 1 .. n /\ p[i] # p[j]
      <4>1. i # j
        BY <2>1
      <4> QED BY <1>10, <4>1
    <3>2. key[p[i]] <= key[p[j]]
      BY <1>9, <2>1 DEF SortsTo
    <3>3. e.bids[p[i]].keyword # e.bids[p[j]].keyword
      BY <1>2, <3>1
    <3>4. bids[i].keyword = e.bids[p[i]].keyword /\ bids[j].keyword = e.bids[p[j]].keyword
      <4>1. bids[i] = BidOf(e, p[i]) /\ bids[j] = BidOf(e, p[j])
        BY <1>13
      <4>2. \A k : BidOf(e, k).keyword = e.bids[k].keyword
        BY DEF BidOf
      <4> QED BY <4>1, <4>2
    <3> QED BY <1>6, <3>1, <3>2, <3>3, <3>4
  <2> QED BY <1>12, <2>1 DEF Ascending
<1>15. ToSet(bids) = {BidOf(e, j) : j \in 1 .. n}
  <2>1. \A i \in 1 .. n : bids[i] \in {BidOf(e, j) : j \in 1 .. n}
    BY <1>10, <1>13
  <2>2. ASSUME NEW j \in 1 .. n
        PROVE  BidOf(e, j) \in ToSet(bids)
    <3>1. PICK i \in 1 .. n : p[i] = j
      BY <1>10
    <3> QED BY <1>12, <1>13, <3>1 DEF ToSet
  <2> QED BY <1>12, <2>1, <2>2 DEF ToSet
<1> QED BY <1>2, <1>4, <1>12, <1>14, <1>15 DEF bids

(* The keywords of a request, of which one may be there twice.             *)
LEMMA WordsFacts ==
  ASSUME NEW s \in Seq(Keyword)
  PROVE  /\ Sort(s, s) \in Seq(Nat) /\ ToSet(Sort(s, s)) = ToSet(s)
         /\ \A i, j \in DOMAIN Sort(s, s) : i < j => Sort(s, s)[i] <= Sort(s, s)[j]
<1> DEFINE n == Len(s)
           words == Sort(s, s)
<1>1. n \in Nat /\ DOMAIN s = 1 .. n /\ \A i \in 1 .. n : s[i] \in Nat
  BY LenProperties, ElementOfSeq DEF Keyword
<1>2. PICK p : /\ Permutes(p, n) /\ SortsTo(p, s, n, n)
               /\ words = [i \in 1 .. n |-> s[p[i]]]
  <2>1. \A i \in DOMAIN s : s[i] \in Nat
    BY <1>1
  <2>2. PICK p : /\ Permutes(p, Len(s)) /\ SortsTo(p, s, Len(s), Len(s))
                 /\ Sort(s, s) = [i \in DOMAIN s |-> s[p[i]]]
    <3>1. s \in Seq(Keyword)
      OBVIOUS
    <3> HIDE DEF n, words
    <3>2. \A key : (\A i \in DOMAIN s : key[i] \in Nat) =>
            \E p : /\ Permutes(p, Len(s)) /\ SortsTo(p, key, Len(s), Len(s))
                  /\ Sort(s, key) = [i \in DOMAIN s |-> s[p[i]]]
      BY <3>1, SortFacts
    <3> QED BY <2>1, <3>2
  <2> QED BY <1>1, <2>2
<1>3. /\ p \in [1 .. n -> 1 .. n]
      /\ \A k \in 1 .. n : \E i \in 1 .. n : p[i] = k
  BY <1>2 DEF Permutes
<1> HIDE DEF words
<1>4. /\ words \in Seq(Nat) /\ DOMAIN words = 1 .. n
      /\ \A i \in 1 .. n : words[i] = s[p[i]]
  <2>1. words \in [1 .. n -> Nat]
    BY <1>1, <1>2, <1>3
  <2> QED BY <1>1, <1>2, <2>1
<1>5. ToSet(words) = ToSet(s)
  <2>1. \A i \in 1 .. n : words[i] \in ToSet(s)
    BY <1>1, <1>3, <1>4 DEF ToSet
  <2>2. ASSUME NEW k \in 1 .. n
        PROVE  s[k] \in ToSet(words)
    <3>1. PICK i \in 1 .. n : p[i] = k
      BY <1>3
    <3> QED BY <1>4, <3>1 DEF ToSet
  <2> QED BY <1>1, <1>4, <2>1, <2>2 DEF ToSet
<1>6. \A i, j \in 1 .. n : i < j => words[i] <= words[j]
  BY <1>2, <1>4 DEF SortsTo
<1> QED BY <1>4, <1>5, <1>6 DEF words

-----------------------------------------------------------------------------
(* set_intersection puts out the bids that it has passed and whose keyword *)
(* is asked for; no keyword that it has passed is one of a bid to come.    *)
Common(bids, words, m) ==
  {bids[k] : k \in {k \in DOMAIN bids : k < m /\ bids[k].keyword \in ToSet(words)}}

LoopInv(bids, words, s) ==
  /\ s \in [bid : 1 .. Len(bids) + 1, word : 1 .. Len(words) + 1, out : Seq(Bid)]
  /\ Distinct(s.out) /\ ToSet(s.out) = Common(bids, words, s.bid)
  /\ \A k \in s.bid .. Len(bids), l \in 1 .. s.word - 1 : words[l] # bids[k].keyword

Progress(bids, words, s, n) ==
  s.bid > Len(bids) \/ s.word > Len(words) \/ s.bid + s.word >= n + 2

Sorted(words) == \A i, j \in DOMAIN words : i < j => words[i] <= words[j]

LEMMA AppendDistinct ==
  ASSUME NEW S, NEW s \in Seq(S), Distinct(s), NEW x \in S, x \notin ToSet(s)
  PROVE  /\ Append(s, x) \in Seq(S) /\ Distinct(Append(s, x))
         /\ ToSet(Append(s, x)) = ToSet(s) \cup {x}
<1> DEFINE n == Len(s)
           q == Append(s, x)
<1>1. n \in Nat /\ DOMAIN s = 1 .. n
  BY LenProperties
<1>2. /\ q \in Seq(S) /\ Len(q) = n + 1 /\ DOMAIN q = 1 .. n + 1
      /\ \A i \in 1 .. n : q[i] = s[i]
      /\ q[n + 1] = x
  BY <1>1, AppendProperties, LenProperties
<1> HIDE DEF q, n
<1>3. \A i \in 1 .. n + 1 : i = n + 1 \/ i \in 1 .. n
  BY <1>1
<1>4. \A i \in 1 .. n : i \in 1 .. n + 1 /\ s[i] # x
  BY <1>1 DEF ToSet
<1>5. Distinct(q)
  BY <1>1, <1>2, <1>3, <1>4 DEF Distinct
<1>6. ToSet(q) = ToSet(s) \cup {x}
  <2>1. \A i \in 1 .. n + 1 : q[i] \in ToSet(s) \cup {x}
    BY <1>1, <1>2, <1>3 DEF ToSet
  <2>2. x \in ToSet(q)
    <3>1. n + 1 \in 1 .. n + 1
      BY <1>1
    <3> QED BY <1>2, <3>1 DEF ToSet
  <2>3. \A i \in 1 .. n : s[i] \in ToSet(q)
    BY <1>2, <1>4 DEF ToSet
  <2> QED BY <1>1, <1>2, <2>1, <2>2, <2>3 DEF ToSet
<1> QED BY <1>2, <1>5, <1>6 DEF q

LEMMA AdvanceKeeps ==
  ASSUME NEW bids \in Seq(Bid), Ascending(bids), NEW words \in Seq(Nat), Sorted(words),
         NEW s, LoopInv(bids, words, s), NEW n \in Nat, Progress(bids, words, s, n)
  PROVE  LET t == Advance(bids, words, s) IN
         LoopInv(bids, words, t) /\ Progress(bids, words, t, n + 1)
<1> DEFINE B == Len(bids)
           W == Len(words)
           i == s.bid
           j == s.word
           t == Advance(bids, words, s)
<1>1. /\ B \in Nat /\ W \in Nat /\ DOMAIN bids = 1 .. B /\ DOMAIN words = 1 .. W
      /\ \A k \in 1 .. B : bids[k] \in Bid /\ bids[k].keyword \in Nat
      /\ \A l \in 1 .. W : words[l] \in Nat
  <2>1. \A k \in 1 .. B : bids[k] \in Bid
    BY ElementOfSeq
  <2> QED BY <2>1, LenProperties, ElementOfSeq DEF Bid, Keyword
<1>2. /\ s \in [bid : 1 .. B + 1, word : 1 .. W + 1, out : Seq(Bid)]
      /\ Distinct(s.out) /\ ToSet(s.out) = Common(bids, words, i)
      /\ \A k \in i .. B, l \in 1 .. j - 1 : words[l] # bids[k].keyword
  BY DEF LoopInv
<1>3. i > B \/ j > W \/ i + j >= n + 2
  BY DEF Progress
<1>4. /\ i \in 1 .. B + 1 /\ j \in 1 .. W + 1 /\ s.out \in Seq(Bid)
      /\ s = [bid |-> i, word |-> j, out |-> s.out]
  BY <1>2
<1>5. \A k, m \in 1 .. B : k < m => bids[k].keyword < bids[m].keyword
  BY <1>1 DEF Ascending
<1>6. \A k, m \in 1 .. W : k < m => words[k] <= words[m]
  BY <1>1 DEF Sorted
<1>7. CASE i > B \/ j > W
  <2>1. t = s
    BY <1>7 DEF Advance
  <2> QED BY <1>7, <2>1 DEF Progress
<1>8. CASE ~(i > B \/ j > W)
  <2> DEFINE b == bids[i].keyword
             w == words[j]
  <2>1. i \in 1 .. B /\ j \in 1 .. W /\ i + 1 \in 1 .. B + 1 /\ j + 1 \in 1 .. W + 1
        /\ i + j >= n + 2
    <3>1. i \in Int /\ j \in Int /\ B \in Nat /\ W \in Nat /\ i <= B /\ j <= W /\ i >= 1 /\ j >= 1
      <4> HIDE DEF i, j, B, W
      <4> QED BY <1>1, <1>4, <1>8
    <3>2. i + j >= n + 2
      BY <1>3, <1>8
    <3> HIDE DEF i, j, B, W
    <3> QED BY <3>1, <3>2
  <2>2. bids[i] \in Bid /\ b \in Nat /\ w \in Nat
    BY <1>1, <2>1
  <2>3. t = CASE b < w -> [s EXCEPT !.bid = @ + 1]
              [] w < b -> [s EXCEPT !.word = @ + 1]
              [] OTHER -> [bid |-> i + 1, word |-> j + 1, out |-> Append(s.out, bids[i])]
    BY <1>8 DEF Advance
  <2> HIDE DEF b, w, t, i, j
  <2>4. CASE b < w
    <3>1. t = [bid |-> i + 1, word |-> j, out |-> s.out]
      <4>1. t = [s EXCEPT !.bid = @ + 1]
        BY <2>2, <2>3, <2>4
      <4> QED BY <1>2, <4>1 DEF i, j
    <3>2. \A l \in 1 .. W : words[l] # b
      <4>1. \A l \in 1 .. W : l < j => words[l] # b
        BY <1>2, <2>1 DEF b
      <4>2. \A l \in 1 .. W : ~(l < j) => w <= words[l]
        BY <1>1, <1>6, <2>1 DEF w
      <4> QED BY <1>1, <2>2, <2>4, <4>1, <4>2
    <3>3. Common(bids, words, i + 1) = Common(bids, words, i)
      <4>1. bids[i].keyword \notin ToSet(words)
        BY <1>1, <3>2 DEF ToSet, b
      <4>2. \A k \in 1 .. B : k < i + 1 <=> (k < i \/ k = i)
        BY <2>1
      <4> QED BY <1>1, <4>1, <4>2 DEF Common
    <3>4. \A k \in i + 1 .. B, l \in 1 .. j - 1 : words[l] # bids[k].keyword
      BY <1>2, <2>1
    <3>5. LoopInv(bids, words, t)
      BY <1>2, <1>4, <2>1, <3>1, <3>3, <3>4 DEF LoopInv
    <3>6. Progress(bids, words, t, n + 1)
      BY <2>1, <3>1 DEF Progress
    <3> QED BY <3>5, <3>6 DEF t
  <2>5. CASE w < b
    <3>1. t = [bid |-> i, word |-> j + 1, out |-> s.out]
      BY <1>4, <2>2, <2>3, <2>5 DEF i, j
    <3>2. \A k \in i .. B, l \in 1 .. (j + 1) - 1 : words[l] # bids[k].keyword
      <4>1. ASSUME NEW k \in i .. B
            PROVE  w # bids[k].keyword
        <5>1. k \in 1 .. B /\ (k = i \/ i < k)
          BY <2>1
        <5>2. b <= bids[k].keyword
          BY <1>1, <1>5, <2>1, <2>2, <5>1 DEF b
        <5> QED BY <1>1, <2>2, <2>5, <5>1, <5>2
      <4>2. \A l \in 1 .. (j + 1) - 1 : l = j \/ l \in 1 .. j - 1
        BY <2>1
      <4> QED BY <1>2, <4>1, <4>2 DEF w
    <3>3. LoopInv(bids, words, t)
      BY <1>2, <1>4, <2>1, <3>1, <3>2 DEF LoopInv
    <3>4. Progress(bids, words, t, n + 1)
      BY <2>1, <3>1 DEF Progress
    <3> QED BY <3>3, <3>4 DEF t
  <2>6. CASE ~(b < w) /\ ~(w < b)
    <3>1. t = [bid |-> i + 1, word |-> j + 1, out |-> Append(s.out, bids[i])] /\ b = w
      BY <2>2, <2>3, <2>6
    <3>2. bids[i] \notin ToSet(s.out)
      <4>1. ASSUME NEW k \in 1 .. B, k < i
            PROVE  bids[k] # bids[i]
        <5>1. bids[k].keyword < bids[i].keyword
          BY <1>5, <2>1, <4>1
        <5>2. bids[k].keyword # bids[i].keyword
          BY <1>1, <2>1, <5>1
        <5> QED BY <5>2
      <4> QED BY <1>1, <1>2, <4>1 DEF Common
    <3>3. /\ Append(s.out, bids[i]) \in Seq(Bid) /\ Distinct(Append(s.out, bids[i]))
          /\ ToSet(Append(s.out, bids[i])) = ToSet(s.out) \cup {bids[i]}
      BY <1>2, <1>4, <2>2, <3>2, AppendDistinct
    <3>4. Common(bids, words, i + 1) = Common(bids, words, i) \cup {bids[i]}
      <4>1. bids[i].keyword \in ToSet(words)
        BY <1>1, <2>1, <3>1 DEF ToSet, b, w
      <4>2. \A k \in 1 .. B : k < i + 1 <=> (k < i \/ k = i)
        BY <2>1
      <4> QED BY <1>1, <2>1, <4>1, <4>2 DEF Common
    <3>5. \A k \in i + 1 .. B, l \in 1 .. (j + 1) - 1 : words[l] # bids[k].keyword
      <4>1. ASSUME NEW k \in i + 1 .. B
            PROVE  w # bids[k].keyword
        <5>1. k \in 1 .. B /\ i < k
          BY <2>1
        <5>2. b < bids[k].keyword
          BY <1>5, <2>1, <5>1 DEF b
        <5> QED BY <1>1, <2>2, <3>1, <5>1, <5>2
      <4>2. /\ \A l \in 1 .. (j + 1) - 1 : l = j \/ l \in 1 .. j - 1
            /\ \A k \in i + 1 .. B : k \in i .. B
        BY <2>1
      <4> QED BY <1>2, <4>1, <4>2 DEF w
    <3>6. LoopInv(bids, words, t)
      BY <1>2, <2>1, <3>1, <3>3, <3>4, <3>5 DEF LoopInv
    <3>7. Progress(bids, words, t, n + 1)
      BY <2>1, <3>1 DEF Progress
    <3> QED BY <3>6, <3>7 DEF t
  <2> QED BY <2>4, <2>5, <2>6
<1> QED BY <1>7, <1>8

(* The loop, from whose function SetIntersection takes the last state.     *)
LEMMA LoopExists ==
  ASSUME NEW bids, NEW words, Len(bids) \in Nat, Len(words) \in Nat
  PROVE  LET N == Len(bids) + Len(words) IN
         \E loop : /\ loop[0] = [bid |-> 1, word |-> 1, out |-> <<>>]
                   /\ \A n \in 1 .. N : loop[n] = Advance(bids, words, loop[n - 1])
                   /\ SetIntersection(bids, words) = loop[N].out
<1> DEFINE N == Len(bids) + Len(words)
           start == [bid |-> 1, word |-> 1, out |-> <<>>]
           To(f, m) == f[0] = start /\ \A n \in 1 .. m : f[n] = Advance(bids, words, f[n - 1])
           S == {m \in 0 .. N : \E f : To(f, m)}
<1>1. N \in Nat
  OBVIOUS
<1> HIDE DEF start, N
<1>2. 0 \in S
  <2> DEFINE f == [n \in {0} |-> start]
  <2>1. To(f, 0)
    OBVIOUS
  <2>2. \E g : To(g, 0)
    <3> HIDE DEF To, f
    <3> QED BY <2>1
  <2> QED BY <1>1, <2>2
<1>3. ASSUME NEW m \in 0 .. N, m \in S, m < N
      PROVE  m + 1 \in S
  <2>1. PICK f : To(f, m)
    BY <1>3
  <2> DEFINE next == Advance(bids, words, f[m])
             g == [n \in 0 .. N |-> IF n <= m THEN f[n] ELSE next]
  <2>2. m \in Nat /\ m + 1 \in 0 .. N /\ m \in 0 .. N /\ ~(m + 1 <= m)
    BY <1>1, <1>3
  <2>3. /\ \A n \in 0 .. m : n \in 0 .. N /\ n <= m
        /\ \A n \in 1 .. m + 1 : n = m + 1 \/ n \in 1 .. m
        /\ \A n \in 1 .. m : n \in 0 .. m /\ n - 1 \in 0 .. m
        /\ (m + 1) - 1 = m /\ m \in 0 .. m /\ 0 \in 0 .. m
    BY <1>1, <2>2
  <2> HIDE DEF next
  <2>4. (\A n \in 0 .. m : g[n] = f[n]) /\ g[m + 1] = next
    BY <2>2, <2>3
  <2> HIDE DEF g
  <2>5. g[m + 1] = Advance(bids, words, g[(m + 1) - 1])
    BY <2>3, <2>4 DEF next
  <2>6. \A n \in 1 .. m : g[n] = Advance(bids, words, g[n - 1])
    BY <2>1, <2>3, <2>4
  <2>7. To(g, m + 1)
    BY <2>1, <2>3, <2>4, <2>5, <2>6
  <2> QED BY <2>2, <2>7
<1>4. \E f : To(f, N)
  <2>1. N \in S
    <3> HIDE DEF S
    <3> QED BY <1>1, <1>2, <1>3, Least
  <2> QED BY <2>1
<1> DEFINE step(f) ==
      [n \in 0 .. Len(bids) + Len(words) |->
         IF n = 0 THEN [bid |-> 1, word |-> 1, out |-> <<>>]
         ELSE Advance(bids, words, f[n - 1])]
<1>5. \E f : f = step(f)
  <2>1. PICK f : To(f, N)
    BY <1>4
  <2> DEFINE g == [n \in 0 .. N |-> f[n]]
  <2>2. \A n \in 0 .. N : g[n] = f[n]
    OBVIOUS
  <2>3. \A n \in 0 .. N : n # 0 => n \in 1 .. N /\ n - 1 \in 0 .. N
    BY <1>1
  <2>4. \A n \in 0 .. N : g[n] = IF n = 0 THEN start ELSE Advance(bids, words, g[n - 1])
    <3> HIDE DEF g
    <3> QED BY <2>1, <2>2, <2>3
  <2>5. g = [n \in 0 .. N |-> g[n]]
    OBVIOUS
  <2> HIDE DEF g
  <2>6. g = [n \in 0 .. N |-> IF n = 0 THEN start ELSE Advance(bids, words, g[n - 1])]
    BY <2>4, <2>5
  <2>7. g = step(g)
    BY <2>6 DEF N, start
  <2> QED BY <2>7
<1> DEFINE loop == CHOOSE f : f = step(f)
<1>6. loop = step(loop)
  BY <1>5
<1>7. SetIntersection(bids, words) = loop[N].out
  BY DEF SetIntersection, N
<1> HIDE DEF loop
<1>8. \A n \in 0 .. N : loop[n] = IF n = 0 THEN start ELSE Advance(bids, words, loop[n - 1])
  BY <1>6 DEF N, start
<1>9. 0 \in 0 .. N /\ \A n \in 1 .. N : n \in 0 .. N /\ n # 0
  BY <1>1
<1>10. /\ loop[0] = start
       /\ \A n \in 1 .. N : loop[n] = Advance(bids, words, loop[n - 1])
  BY <1>8, <1>9
<1> QED BY <1>7, <1>10 DEF N, start

(* set_intersection gives the bids on a keyword that is asked for, once,   *)
(* if both are sorted.                                                     *)
LEMMA IntersectionFacts ==
  ASSUME NEW bids \in Seq(Bid), Ascending(bids), NEW words \in Seq(Nat), Sorted(words)
  PROVE  LET common == SetIntersection(bids, words) IN
         /\ common \in Seq(Bid) /\ Distinct(common)
         /\ ToSet(common) = {b \in ToSet(bids) : b.keyword \in ToSet(words)}
<1> DEFINE B == Len(bids)
           W == Len(words)
           N == B + W
<1>1. /\ B \in Nat /\ W \in Nat /\ N \in Nat /\ DOMAIN bids = 1 .. B /\ DOMAIN words = 1 .. W
      /\ \A k \in 1 .. B : bids[k] \in Bid
  BY LenProperties, ElementOfSeq
<1>2. PICK loop : /\ loop[0] = [bid |-> 1, word |-> 1, out |-> <<>>]
                  /\ \A n \in 1 .. N : loop[n] = Advance(bids, words, loop[n - 1])
                  /\ SetIntersection(bids, words) = loop[N].out
  BY <1>1, LoopExists
<1> HIDE DEF N
<1> DEFINE S == {n \in 0 .. N : LoopInv(bids, words, loop[n]) /\ Progress(bids, words, loop[n], n)}
<1>3. 0 \in S
  <2>1. loop[0] = [bid |-> 1, word |-> 1, out |-> <<>>]
    BY <1>2
  <2>2. <<>> \in Seq(Bid) /\ Distinct(<<>>) /\ ToSet(<<>>) = {}
    BY EmptySeq DEF Distinct, ToSet
  <2>3. Common(bids, words, 1) = {}
    BY <1>1 DEF Common
  <2>4. LoopInv(bids, words, loop[0]) /\ Progress(bids, words, loop[0], 0)
    <3>1. PICK none : none = <<>>
      OBVIOUS
    <3>2. PICK s : s = [bid |-> 1, word |-> 1, out |-> none]
      OBVIOUS
    <3>3. s.bid = 1 /\ s.word = 1 /\ s.out = none
      BY <3>2
    <3>4. s \in [bid : 1 .. B + 1, word : 1 .. W + 1, out : Seq(Bid)]
      BY <1>1, <2>2, <3>1, <3>2
    <3>5. \A l \in 1 .. s.word - 1 : FALSE
      BY <3>3
    <3>6. LoopInv(bids, words, s)
      BY <2>2, <2>3, <3>1, <3>3, <3>4, <3>5 DEF LoopInv
    <3>7. Progress(bids, words, s, 0)
      BY <3>3 DEF Progress
    <3> QED BY <2>1, <3>1, <3>2, <3>6, <3>7
  <2> QED BY <1>1, <2>4
<1>4. ASSUME NEW n \in 0 .. N, n \in S, n < N
      PROVE  n + 1 \in S
  <2>1. n + 1 \in 1 .. N /\ n + 1 \in 0 .. N /\ (n + 1) - 1 = n /\ n \in Nat
    BY <1>1, <1>4
  <2>2. loop[n + 1] = Advance(bids, words, loop[n])
    BY <1>2, <2>1
  <2>3. LoopInv(bids, words, loop[n + 1]) /\ Progress(bids, words, loop[n + 1], n + 1)
    <3>1. PICK s : s = loop[n]
      OBVIOUS
    <3>2. LoopInv(bids, words, s) /\ Progress(bids, words, s, n)
      BY <1>4, <3>1
    <3>3. LET t == Advance(bids, words, s) IN
          LoopInv(bids, words, t) /\ Progress(bids, words, t, n + 1)
      <4> HIDE DEF S
      <4> QED BY <2>1, <3>2, AdvanceKeeps
    <3> QED BY <2>2, <3>1, <3>3
  <2> QED BY <2>1, <2>3
<1>5. N \in S
  <2> HIDE DEF S
  <2> QED BY <1>1, <1>3, <1>4, Least
<1> DEFINE s == loop[N]
<1>6. /\ s \in [bid : 1 .. B + 1, word : 1 .. W + 1, out : Seq(Bid)]
      /\ Distinct(s.out) /\ ToSet(s.out) = Common(bids, words, s.bid)
      /\ \A k \in s.bid .. B, l \in 1 .. s.word - 1 : words[l] # bids[k].keyword
      /\ s.bid > B \/ s.word > W \/ s.bid + s.word >= N + 2
  BY <1>5 DEF LoopInv, Progress
<1> HIDE DEF s
<1>7. s.bid = B + 1 \/ s.word = W + 1
  <2>1. s.bid \in 1 .. B + 1 /\ s.word \in 1 .. W + 1
    BY <1>6
  <2> QED BY <1>1, <1>6, <2>1 DEF N
<1>8. \A k \in 1 .. B : bids[k].keyword \in ToSet(words) => k < s.bid
  <2>1. ASSUME NEW k \in 1 .. B, ~(k < s.bid)
        PROVE  bids[k].keyword \notin ToSet(words)
    <3>1. s.bid \in 1 .. B + 1 /\ k \in s.bid .. B /\ s.bid # B + 1
      BY <1>1, <1>6, <2>1
    <3>2. s.word - 1 = W
      BY <1>1, <1>7, <3>1
    <3> QED BY <1>1, <1>6, <3>1, <3>2 DEF ToSet
  <2> QED BY <2>1
<1>9. Common(bids, words, s.bid) = {b \in ToSet(bids) : b.keyword \in ToSet(words)}
  BY <1>1, <1>8 DEF Common, ToSet
<1>10. SetIntersection(bids, words) = s.out /\ s.out \in Seq(Bid)
  BY <1>2, <1>6 DEF s
<1> QED BY <1>6, <1>9, <1>10

-----------------------------------------------------------------------------
(* FlattenSeq takes the last of the sequences that grow by one of seqs     *)
(* each.                                                                   *)
LEMMA FlattenExists ==
  ASSUME NEW seqs, Len(seqs) \in Nat \ {0}
  PROVE  \E g : /\ g[1] = seqs[1]
                /\ \A n \in 2 .. Len(seqs) : g[n] = g[n - 1] \o seqs[n]
                /\ FlattenSeq(seqs) = g[Len(seqs)]
<1> DEFINE N == Len(seqs)
           To(f, m) == f[1] = seqs[1] /\ \A n \in 2 .. m : f[n] = f[n - 1] \o seqs[n]
           S == {m \in 0 .. N : \E f : To(f, m)}
<1>1. N \in Nat /\ N # 0
  OBVIOUS
<1> HIDE DEF N
<1>2. 0 \in S
  <2> DEFINE f == [n \in {1} |-> seqs[1]]
  <2>1. To(f, 0)
    OBVIOUS
  <2>2. \E g : To(g, 0)
    <3> HIDE DEF To, f
    <3> QED BY <2>1
  <2>3. 0 \in 0 .. N
    BY <1>1
  <2> HIDE DEF To
  <2> QED BY <2>2, <2>3
<1>3. ASSUME NEW m \in 0 .. N, m \in S, m < N
      PROVE  m + 1 \in S
  <2>1. PICK f : To(f, m)
    BY <1>3
  <2> DEFINE next == f[m] \o seqs[m + 1]
             g == [n \in 1 .. N |-> IF n = 1 THEN seqs[1] ELSE IF n <= m THEN f[n] ELSE next]
  <2>2. m \in Nat /\ m + 1 \in 0 .. N /\ m + 1 \in 1 .. N /\ ~(m + 1 <= m) /\ 1 \in 1 .. N
    BY <1>1, <1>3
  <2>3. /\ \A n \in 1 .. m : n \in 1 .. N /\ n <= m
        /\ \A n \in 2 .. m + 1 : n = m + 1 \/ n \in 2 .. m
        /\ \A n \in 2 .. m : n \in 1 .. m /\ n - 1 \in 1 .. m
        /\ m + 1 \in 2 .. m + 1 => m \in 1 .. m /\ m + 1 # 1
        /\ (m + 1) - 1 = m
    BY <1>1, <2>2
  <2> HIDE DEF next
  <2>4. g[1] = seqs[1] /\ \A n \in 1 .. m : g[n] = f[n]
    BY <2>1, <2>2, <2>3
  <2>5. m + 1 \in 2 .. m + 1 => g[m + 1] = next
    BY <2>2, <2>3
  <2> HIDE DEF g
  <2>6. m + 1 \in 2 .. m + 1 => g[m + 1] = g[(m + 1) - 1] \o seqs[m + 1]
    BY <2>3, <2>4, <2>5 DEF next
  <2>7. \A n \in 2 .. m : g[n] = g[n - 1] \o seqs[n]
    BY <2>1, <2>3, <2>4
  <2>8. To(g, m + 1)
    BY <2>3, <2>4, <2>6, <2>7
  <2> QED BY <2>2, <2>8
<1>4. \E f : To(f, N)
  <2>1. N \in S
    <3> HIDE DEF S
    <3> QED BY <1>1, <1>2, <1>3, Least
  <2> QED BY <2>1
<1> DEFINE step(f) ==
      [n \in 1 .. Len(seqs) |-> IF n = 1 THEN seqs[n] ELSE f[n - 1] \o seqs[n]]
<1>5. \E f : f = step(f)
  <2>1. PICK f : To(f, N)
    BY <1>4
  <2> DEFINE g == [n \in 1 .. N |-> f[n]]
  <2>2. \A n \in 1 .. N : g[n] = f[n]
    OBVIOUS
  <2>3. \A n \in 1 .. N : n # 1 => n \in 2 .. N /\ n - 1 \in 1 .. N
    BY <1>1
  <2>4. \A n \in 1 .. N : g[n] = IF n = 1 THEN seqs[n] ELSE g[n - 1] \o seqs[n]
    <3> HIDE DEF g
    <3> QED BY <2>1, <2>2, <2>3
  <2>5. g = [n \in 1 .. N |-> g[n]]
    OBVIOUS
  <2> HIDE DEF g
  <2>6. g = [n \in 1 .. N |-> IF n = 1 THEN seqs[n] ELSE g[n - 1] \o seqs[n]]
    BY <2>4, <2>5
  <2>7. g = step(g)
    BY <2>6 DEF N
  <2> QED BY <2>7
<1> DEFINE g == CHOOSE f : f = step(f)
<1>6. g = step(g)
  BY <1>5
<1>7. FlattenSeq(seqs) = g[N]
  BY <1>1 DEF FlattenSeq, N
<1> HIDE DEF g
<1>8. \A n \in 1 .. N : g[n] = IF n = 1 THEN seqs[n] ELSE g[n - 1] \o seqs[n]
  BY <1>6 DEF N
<1>9. 1 \in 1 .. N /\ \A n \in 2 .. N : n \in 1 .. N /\ n # 1
  BY <1>1
<1>10. g[1] = seqs[1] /\ \A n \in 2 .. N : g[n] = g[n - 1] \o seqs[n]
  BY <1>8, <1>9
<1> QED BY <1>7, <1>10 DEF N

(* The bids of an entry that are on one of the words; the ads of these     *)
(* places of a file, in its order; and what matchAds makes of them.        *)
Asked(e, words) ==
  {BidOf(e, j) : j \in {j \in DOMAIN e.bids : e.bids[j].keyword \in ToSet(words)}}

Listed(f, ads, S) ==
  \E at \in [DOMAIN ads -> S] :
    /\ \A i \in S : \E n \in DOMAIN ads : at[n] = i
    /\ \A m, n \in DOMAIN ads : m < n => at[m] < at[n]
    /\ \A n \in DOMAIN ads : ads[n] = Ad(f[at[n]])

InOrder(f, bids) ==
  \A m, n \in DOMAIN bids : m < n =>
    \A i, k \in DOMAIN f : bids[m].ad = f[i].id /\ bids[n].ad = f[k].id => i <= k

Fits(f, bids, S, words) ==
  /\ bids \in Seq(Bid) /\ Distinct(bids) /\ InOrder(f, bids)
  /\ ToSet(bids) = UNION {Asked(f[i], words) : i \in S}

LEMMA FilesFacts ==
  ASSUME NEW f \in Files
  PROVE  /\ f \in Seq(Entry) /\ DOMAIN f = 1 .. Len(f) /\ Len(f) \in Nat
         /\ \A i \in DOMAIN f : f[i] \in Entry
         /\ \A i, k \in DOMAIN f : f[i].id = f[k].id => i = k
         /\ \A i \in DOMAIN f : \A m, n \in DOMAIN f[i].bids :
              f[i].bids[m].keyword = f[i].bids[n].keyword => m = n
<1>1. f \in Seq(Entry)
  BY MatchingAssumption DEF MatchingAssumption
<1>2. DOMAIN f = 1 .. Len(f) /\ Len(f) \in Nat /\ \A i \in DOMAIN f : f[i] \in Entry
  BY <1>1, LenProperties, ElementOfSeq
<1>3. \A i, k \in DOMAIN f : f[i].id = f[k].id => i = k
  BY MatchingAssumption DEF MatchingAssumption
<1>4. \A i \in DOMAIN f : \A m, n \in DOMAIN f[i].bids :
        f[i].bids[m].keyword = f[i].bids[n].keyword => m = n
  BY MatchingAssumption DEF MatchingAssumption
<1> QED BY <1>1, <1>2, <1>3, <1>4

(* The matches of one ad.                                                  *)
LEMMA OneAdFits ==
  ASSUME NEW f \in Files, NEW i \in DOMAIN f, NEW words \in Seq(Nat), Sorted(words)
  PROVE  LET q == SetIntersection(Ad(f[i]).bids, words) IN
         /\ Fits(f, q, {i}, words)
         /\ \A b \in ToSet(q) : b.ad = f[i].id
<1> DEFINE e == f[i]
           q == SetIntersection(Ad(e).bids, words)
<1>1. e \in Entry /\ \A m, n \in DOMAIN e.bids : e.bids[m].keyword = e.bids[n].keyword => m = n
  BY FilesFacts
<1>2. Ad(e).bids = Bids(e)
  BY DEF Ad
<1>3. /\ Bids(e) \in Seq(Bid) /\ Ascending(Bids(e))
      /\ ToSet(Bids(e)) = {BidOf(e, j) : j \in DOMAIN e.bids}
  <2> HIDE DEF e
  <2> QED BY <1>1, BidsFacts
<1>4. /\ q \in Seq(Bid) /\ Distinct(q)
      /\ ToSet(q) = {b \in ToSet(Bids(e)) : b.keyword \in ToSet(words)}
  <2> HIDE DEF e
  <2> QED BY <1>2, <1>3, IntersectionFacts
<1> HIDE DEF q
<1>5. ToSet(q) = Asked(e, words)
  <2>1. \A j \in DOMAIN e.bids : BidOf(e, j).keyword = e.bids[j].keyword
    BY DEF BidOf
  <2> HIDE DEF e
  <2> QED BY <1>3, <1>4, <2>1 DEF Asked
<1>6. \A b \in ToSet(q) : b.ad = e.id
  BY <1>5 DEF Asked, BidOf
<1>7. InOrder(f, q)
  <2>1. ASSUME NEW m \in DOMAIN q, NEW n \in DOMAIN q,
               NEW k \in DOMAIN f, NEW l \in DOMAIN f, q[m].ad = f[k].id, q[n].ad = f[l].id
        PROVE  k <= l
    <3>1. q[m].ad = e.id /\ q[n].ad = e.id
      BY <1>6 DEF ToSet
    <3>2. k = i /\ l = i
      BY <2>1, <3>1, FilesFacts
    <3>3. i \in Nat
      BY FilesFacts
    <3> QED BY <3>2, <3>3
  <2> QED BY <2>1 DEF InOrder
<1>8. ToSet(q) = UNION {Asked(f[k], words) : k \in {i}}
  BY <1>5
<1> QED BY <1>4, <1>6, <1>7, <1>8 DEF Fits, q

(* Of two results, the second for an entry that comes later.               *)
LEMMA JoinFits ==
  ASSUME NEW f \in Files, NEW T \in SUBSET DOMAIN f, NEW i \in DOMAIN f, \A k \in T : k < i,
         NEW words, NEW r, Fits(f, r, T, words), NEW q, Fits(f, q, {i}, words)
  PROVE  Fits(f, r \o q, T \cup {i}, words)
<1> DEFINE R == Len(r)
           Q == Len(q)
           c == r \o q
<1>1. /\ r \in Seq(Bid) /\ Distinct(r) /\ InOrder(f, r)
      /\ ToSet(r) = UNION {Asked(f[k], words) : k \in T}
      /\ q \in Seq(Bid) /\ Distinct(q) /\ InOrder(f, q)
      /\ ToSet(q) = UNION {Asked(f[k], words) : k \in {i}}
  BY DEF Fits
<1>2. R \in Nat /\ Q \in Nat /\ DOMAIN r = 1 .. R /\ DOMAIN q = 1 .. Q
  BY <1>1, LenProperties
<1>3. /\ c \in Seq(Bid) /\ Len(c) = R + Q /\ DOMAIN c = 1 .. R + Q
      /\ \A m \in 1 .. R : c[m] = r[m]
      /\ \A m \in R + 1 .. R + Q : m - R \in 1 .. Q /\ c[m] = q[m - R]
  <2>1. c \in Seq(Bid) /\ Len(c) = R + Q
    BY <1>1, ConcatProperties
  <2>2. \A m \in 1 .. R + Q : c[m] = IF m <= R THEN r[m] ELSE q[m - R]
    BY <1>1, <1>2, ConcatProperties
  <2>3. \A m \in 1 .. R : m \in 1 .. R + Q /\ m <= R
    BY <1>2
  <2>4. \A m \in R + 1 .. R + Q : m \in 1 .. R + Q /\ ~(m <= R) /\ m - R \in 1 .. Q
    BY <1>2
  <2>5. DOMAIN c = 1 .. R + Q
    <3> HIDE DEF c
    <3> QED BY <2>1, LenProperties
  <2> HIDE DEF c
  <2> QED BY <2>1, <2>2, <2>3, <2>4, <2>5
<1> HIDE DEF c, R, Q
<1>4. /\ \A m \in 1 .. R : \E k \in T : r[m].ad = f[k].id
      /\ \A m \in 1 .. Q : q[m].ad = f[i].id
  <2>1. \A e, b : b \in Asked(e, words) => b.ad = e.id
    BY DEF Asked, BidOf
  <2>2. /\ \A m \in 1 .. R : r[m] \in ToSet(r)
        /\ \A m \in 1 .. Q : q[m] \in ToSet(q)
    BY <1>2 DEF ToSet
  <2> QED BY <1>1, <2>1, <2>2
<1>5. \A m \in 1 .. R, n \in 1 .. Q : r[m].ad # q[n].ad
  <2>1. ASSUME NEW m \in 1 .. R, NEW n \in 1 .. Q
        PROVE  r[m].ad # q[n].ad
    <3>1. PICK k \in T : r[m].ad = f[k].id
      BY <1>4
    <3>2. k \in DOMAIN f /\ k # i
      BY FilesFacts
    <3> QED BY <1>4, <3>1, <3>2, FilesFacts
  <2> QED BY <2>1
<1>6. \A m \in 1 .. R + Q : m \in 1 .. R \/ m \in R + 1 .. R + Q
  BY <1>2
<1>7. Distinct(c)
  <2>1. ASSUME NEW m \in 1 .. R + Q, NEW n \in 1 .. R + Q, c[m] = c[n]
        PROVE  m = n
    <3>1. CASE m \in 1 .. R /\ n \in 1 .. R
      BY <1>1, <1>2, <1>3, <2>1, <3>1 DEF Distinct
    <3>2. CASE m \in R + 1 .. R + Q /\ n \in R + 1 .. R + Q
      <4>1. m - R \in DOMAIN q /\ n - R \in DOMAIN q /\ q[m - R] = q[n - R]
        BY <1>2, <1>3, <2>1, <3>2
      <4>2. m - R = n - R
        BY <1>1, <4>1 DEF Distinct
      <4> QED BY <1>2, <3>2, <4>2
    <3>3. CASE m \in 1 .. R /\ n \in R + 1 .. R + Q
      BY <1>3, <1>5, <2>1, <3>3
    <3>4. CASE m \in R + 1 .. R + Q /\ n \in 1 .. R
      BY <1>3, <1>5, <2>1, <3>4
    <3> QED BY <1>6, <3>1, <3>2, <3>3, <3>4
  <2> QED BY <1>3, <2>1 DEF Distinct
<1>8. InOrder(f, c)
  <2>1. ASSUME NEW m \in 1 .. R + Q, NEW n \in 1 .. R + Q, m < n,
               NEW k \in DOMAIN f, NEW l \in DOMAIN f, c[m].ad = f[k].id, c[n].ad = f[l].id
        PROVE  k <= l
    <3>1. CASE m \in 1 .. R /\ n \in 1 .. R
      <4>1. m \in DOMAIN r /\ n \in DOMAIN r /\ r[m].ad = f[k].id /\ r[n].ad = f[l].id
        BY <1>2, <1>3, <2>1, <3>1
      <4> QED BY <1>1, <2>1, <4>1 DEF InOrder
    <3>2. CASE m \in R + 1 .. R + Q /\ n \in R + 1 .. R + Q
      <4>1. m \in Int /\ n \in Int /\ R \in Int /\ m < n
        BY <1>2, <2>1
      <4>2. m - R \in DOMAIN q /\ n - R \in DOMAIN q
        BY <1>2, <1>3, <3>2
      <4>3. q[m - R].ad = f[k].id /\ q[n - R].ad = f[l].id
        BY <1>3, <2>1, <3>2
      <4>4. m - R < n - R
        BY <4>1
      <4> QED BY <1>1, <4>2, <4>3, <4>4 DEF InOrder
    <3>3. CASE m \in 1 .. R /\ n \in R + 1 .. R + Q
      <4>1. PICK o \in T : c[m].ad = f[o].id
        BY <1>3, <1>4, <3>3
      <4>2. c[n].ad = f[i].id
        BY <1>3, <1>4, <3>3
      <4>3. o \in DOMAIN f /\ o < i /\ o \in Nat /\ i \in Nat
        BY FilesFacts
      <4>4. k = o /\ l = i
        BY <2>1, <4>1, <4>2, <4>3, FilesFacts
      <4> QED BY <4>3, <4>4
    <3>4. CASE m \in R + 1 .. R + Q /\ n \in 1 .. R
      BY <1>2, <2>1, <3>4
    <3> QED BY <1>6, <3>1, <3>2, <3>3, <3>4
  <2> QED BY <1>3, <2>1 DEF InOrder
<1>9. ToSet(c) = ToSet(r) \cup ToSet(q)
  <2>1. \A m \in 1 .. R : m \in 1 .. R + Q
    BY <1>2
  <2>2. \A m \in 1 .. Q : m + R \in R + 1 .. R + Q /\ m + R \in 1 .. R + Q /\ (m + R) - R = m
    BY <1>2
  <2>3. ASSUME NEW m \in 1 .. Q
        PROVE  q[m] \in ToSet(c)
    BY <1>3, <2>2 DEF ToSet
  <2>4. ASSUME NEW m \in 1 .. R
        PROVE  r[m] \in ToSet(c)
    BY <1>3, <2>1 DEF ToSet
  <2>5. ASSUME NEW m \in 1 .. R + Q
        PROVE  c[m] \in ToSet(r) \cup ToSet(q)
    BY <1>2, <1>3, <1>6 DEF ToSet
  <2>6. /\ ToSet(c) = {c[m] : m \in 1 .. R + Q}
        /\ ToSet(r) = {r[m] : m \in 1 .. R} /\ ToSet(q) = {q[m] : m \in 1 .. Q}
    BY <1>2, <1>3 DEF ToSet
  <2>7. ToSet(c) \subseteq ToSet(r) \cup ToSet(q)
    BY <2>5, <2>6
  <2>8. ToSet(r) \subseteq ToSet(c) /\ ToSet(q) \subseteq ToSet(c)
    BY <2>3, <2>4, <2>6
  <2> QED BY <2>7, <2>8
<1>10. ToSet(c) = UNION {Asked(f[k], words) : k \in T \cup {i}}
  BY <1>1, <1>9
<1> QED BY <1>3, <1>7, <1>8, <1>10 DEF Fits, c

(* The matches of a list of ads, from any entries of a file.               *)
LEMMA MatchesFit ==
  ASSUME NEW f \in Files, NEW S \in SUBSET DOMAIN f, NEW ads \in Seq(AdSet), Listed(f, ads, S),
         NEW words \in Seq(Nat), Sorted(words)
  PROVE  Fits(f, Matches(ads, words), S, words)
<1> DEFINE N == Len(ads)
           seqs == [n \in DOMAIN ads |-> SetIntersection(ads[n].bids, words)]
<1>1. N \in Nat /\ DOMAIN ads = 1 .. N
  BY LenProperties
<1>2. PICK at \in [1 .. N -> S] :
        /\ \A i \in S : \E n \in 1 .. N : at[n] = i
        /\ \A m, n \in 1 .. N : m < n => at[m] < at[n]
        /\ \A n \in 1 .. N : ads[n] = Ad(f[at[n]])
  BY <1>1 DEF Listed
<1>3. \A n \in 1 .. N : at[n] \in DOMAIN f
  OBVIOUS
<1>4. /\ seqs = [n \in 1 .. N |-> seqs[n]]
      /\ \A n \in 1 .. N : seqs[n] = SetIntersection(ads[n].bids, words)
  BY <1>1
<1>5. Matches(ads, words) = FlattenSeq(seqs)
  BY DEF Matches
<1> HIDE DEF seqs, N
<1>6. \A n \in 1 .. N : /\ Fits(f, seqs[n], {at[n]}, words) /\ seqs[n] \in Seq(Bid)
  <2>1. ASSUME NEW n \in 1 .. N
        PROVE  Fits(f, seqs[n], {at[n]}, words)
    <3>1. PICK i \in DOMAIN f : i = at[n]
      BY <1>3
    <3>2. seqs[n] = SetIntersection(Ad(f[i]).bids, words)
      BY <1>2, <1>4, <3>1
    <3> QED BY <3>1, <3>2, OneAdFits
  <2> QED BY <2>1 DEF Fits
<1>7. seqs \in Seq(Seq(Bid)) /\ Len(seqs) = N
  <2>1. seqs \in [1 .. N -> Seq(Bid)]
    BY <1>4, <1>6
  <2> QED BY <1>1, <2>1, LenProperties
<1>8. CASE N = 0
  <2>1. FlattenSeq(seqs) = seqs
    BY <1>7, <1>8 DEF FlattenSeq
  <2>2. seqs = <<>>
    BY <1>7, <1>8, EmptySeq
  <2>3. S = {}
    BY <1>2, <1>8
  <2>4. PICK none : none = <<>>
    OBVIOUS
  <2>5. none \in Seq(Bid) /\ DOMAIN none = {}
    BY <2>4, EmptySeq
  <2>6. Fits(f, none, {}, words)
    BY <2>5 DEF Fits, Distinct, InOrder, ToSet
  <2> QED BY <1>5, <2>1, <2>2, <2>3, <2>4, <2>6
<1>9. CASE N # 0
  <2>1. PICK g : /\ g[1] = seqs[1]
                 /\ \A n \in 2 .. N : g[n] = g[n - 1] \o seqs[n]
                 /\ FlattenSeq(seqs) = g[N]
    BY <1>1, <1>7, <1>9, FlattenExists
  <2> DEFINE Upto(m) == {at[n] : n \in 1 .. m}
             P == {m \in 0 .. N : m # 0 => Fits(f, g[m], Upto(m), words)}
  <2>2. 0 \in P
    BY <1>1
  <2>3. ASSUME NEW m \in 0 .. N, m \in P, m < N
        PROVE  m + 1 \in P
    <3>1. m \in Nat /\ m + 1 \in 1 .. N /\ m + 1 \in 0 .. N /\ (m + 1) - 1 = m
      BY <1>1, <2>3
    <3>2. CASE m = 0
      <4>1. Upto(1) = {at[1]}
        OBVIOUS
      <4>2. m + 1 = 1 /\ 1 \in 1 .. N
        BY <1>1, <1>9, <3>2
      <4>3. Fits(f, g[1], {at[1]}, words)
        BY <1>6, <2>1, <4>2
      <4>4. Fits(f, g[m + 1], Upto(m + 1), words)
        BY <4>1, <4>2, <4>3
      <4> QED BY <3>1, <4>4
    <3>3. CASE m # 0
      <4>1. PICK T : T = Upto(m)
        OBVIOUS
      <4>2. \A n \in 1 .. m : n \in 1 .. N /\ n < m + 1
        BY <1>1, <3>1
      <4>3. \A n \in 1 .. m + 1 : n = m + 1 \/ n \in 1 .. m
        BY <3>1
      <4>4. Upto(m + 1) = T \cup {at[m + 1]}
        <5>1. \A n \in 1 .. m : n \in 1 .. m + 1
          BY <3>1
        <5>2. m + 1 \in 1 .. m + 1
          BY <3>1
        <5> QED BY <4>1, <4>3, <5>1, <5>2
      <4>5. T \in SUBSET DOMAIN f /\ at[m + 1] \in DOMAIN f
        BY <1>3, <3>1, <4>1, <4>2
      <4>6. \A k \in T : k < at[m + 1]
        BY <1>2, <3>1, <4>1, <4>2
      <4>7. Fits(f, g[m], T, words) /\ Fits(f, seqs[m + 1], {at[m + 1]}, words)
        BY <1>6, <2>3, <3>1, <3>3, <4>1
      <4>8. Fits(f, g[m] \o seqs[m + 1], T \cup {at[m + 1]}, words)
        <5>1. PICK k \in DOMAIN f : k = at[m + 1]
          BY <4>5
        <5>2. PICK r : r = g[m]
          OBVIOUS
        <5>3. PICK q : q = seqs[m + 1]
          OBVIOUS
        <5>4. Fits(f, r \o q, T \cup {k}, words)
          <6> HIDE DEF P, Upto
          <6> QED BY <4>5, <4>6, <4>7, <5>1, <5>2, <5>3, JoinFits
        <5> QED BY <5>1, <5>2, <5>3, <5>4
      <4>9. g[m + 1] = g[m] \o seqs[m + 1]
        <5>1. m + 1 \in 2 .. N
          BY <3>1, <3>3
        <5> QED BY <2>1, <3>1, <5>1
      <4> QED BY <3>1, <4>4, <4>8, <4>9
    <3> QED BY <3>2, <3>3
  <2>4. N \in P
    <3> HIDE DEF P
    <3> QED BY <1>1, <2>2, <2>3, Least
  <2>5. Upto(N) = S
    BY <1>2
  <2> QED BY <1>5, <1>9, <2>1, <2>4, <2>5
<1> QED BY <1>8, <1>9

-----------------------------------------------------------------------------
(* The map that readAds has made of the entries read so far, and the       *)
(* worker's reference to the ads of a size.                                *)
Entries(k, m) == {i \in 1 .. m : file[i].ok /\ file[i].size = k}

MapInv ==
  server \in {"reading", "up"} =>
    /\ file \in Files /\ pos \in 0 .. Len(file) /\ DOMAIN mapBySize \subseteq Size
    /\ \A k \in Size : /\ GetAdsBySize(k) \in Seq(AdSet)
                       /\ Listed(file, GetAdsBySize(k), Entries(k, pos))

CacheInv ==
  server = "up" =>
    /\ pos = Len(file)
    /\ adVector = prevKey \/ (adVector = None /\ prevKey = ZERO_SIZE)

DownInv == server = "down" => mapBySize = <<>>

MatchInv == MapInv /\ CacheInv /\ DownInv /\ RepliesMatch

-----------------------------------------------------------------------------
LEMMA AdFacts ==
  ASSUME NEW f \in Files, NEW i \in DOMAIN f
  PROVE  /\ Ad(f[i]) \in AdSet /\ Ad(f[i]).id = f[i].id /\ Ad(f[i]).size = f[i].size
         /\ ToSet(Ad(f[i]).bids) = {BidOf(f[i], j) : j \in DOMAIN f[i].bids}
         /\ \A j \in DOMAIN f[i].bids : BidOf(f[i], j) \in Bid
<1>1. PICK e : e = f[i]
  OBVIOUS
<1>2. e \in Entry /\ \A m, n \in DOMAIN e.bids : e.bids[m].keyword = e.bids[n].keyword => m = n
  BY <1>1, FilesFacts
<1>3. /\ Bids(e) \in Seq(Bid) /\ ToSet(Bids(e)) = {BidOf(e, j) : j \in DOMAIN e.bids}
      /\ \A j \in DOMAIN e.bids : BidOf(e, j) \in Bid
  BY <1>2, BidsFacts
<1>4. e.id \in Nat /\ e.size \in Size /\ e.defaultBid \in Nat
  BY <1>2 DEF Entry
<1>5. Ad(e) \in AdSet /\ Ad(e).id = e.id /\ Ad(e).size = e.size /\ Ad(e).bids = Bids(e)
  BY <1>3, <1>4 DEF Ad, AdSet
<1> QED BY <1>1, <1>3, <1>5

(* readAds takes one more entry.                                           *)
LEMMA ListedAppend ==
  ASSUME NEW f \in Files, NEW m \in Nat, NEW S \in SUBSET (1 .. m), NEW ads \in Seq(AdSet),
         Listed(f, ads, S), m + 1 \in DOMAIN f
  PROVE  LET more == Append(ads, Ad(f[m + 1])) IN
         more \in Seq(AdSet) /\ Listed(f, more, S \cup {m + 1})
<1> DEFINE N == Len(ads)
           ad == Ad(f[m + 1])
           more == Append(ads, ad)
<1>1. N \in Nat /\ DOMAIN ads = 1 .. N
  BY LenProperties
<1>2. ad \in AdSet
  BY AdFacts
<1> HIDE DEF ad
<1>3. /\ more \in Seq(AdSet) /\ DOMAIN more = 1 .. N + 1
      /\ \A n \in 1 .. N : more[n] = ads[n]
      /\ more[N + 1] = ad
  BY <1>1, <1>2, AppendProperties, LenProperties
<1> HIDE DEF more, N
<1>4. PICK at \in [1 .. N -> S] :
        /\ \A i \in S : \E n \in 1 .. N : at[n] = i
        /\ \A k, n \in 1 .. N : k < n => at[k] < at[n]
        /\ \A n \in 1 .. N : ads[n] = Ad(f[at[n]])
  BY <1>1 DEF Listed
<1> DEFINE on == [n \in 1 .. N + 1 |-> IF n = N + 1 THEN m + 1 ELSE at[n]]
           T == S \cup {m + 1}
<1>5. \A n \in 1 .. N + 1 : n = N + 1 \/ (n \in 1 .. N /\ n # N + 1)
  BY <1>1
<1>6. N + 1 \in 1 .. N + 1 /\ \A n \in 1 .. N : n \in 1 .. N + 1 /\ n # N + 1 /\ n < N + 1
  BY <1>1
<1>7. /\ on \in [1 .. N + 1 -> T]
      /\ on[N + 1] = m + 1
      /\ \A n \in 1 .. N : on[n] = at[n] /\ at[n] \in 1 .. m /\ at[n] \in S
  BY <1>4, <1>5, <1>6
<1> HIDE DEF on
<1>8. \A i \in T : \E n \in 1 .. N + 1 : on[n] = i
  BY <1>4, <1>6, <1>7
<1>9. ASSUME NEW k \in 1 .. N + 1, NEW n \in 1 .. N + 1, k < n
      PROVE  on[k] < on[n]
  <2>1. k \in 1 .. N
    BY <1>1, <1>9
  <2>2. CASE n \in 1 .. N
    BY <1>4, <1>7, <1>9, <2>1, <2>2
  <2>3. CASE n = N + 1
    <3>1. on[k] \in 1 .. m /\ on[n] = m + 1
      BY <1>7, <2>1, <2>3
    <3> QED BY <3>1
  <2> QED BY <1>5, <2>2, <2>3
<1>10. \A n \in 1 .. N + 1 : more[n] = Ad(f[on[n]])
  BY <1>3, <1>4, <1>5, <1>7 DEF ad
<1>11. Listed(f, more, T)
  <2>1. on \in [DOMAIN more -> T] /\ \A i \in T : \E n \in DOMAIN more : on[n] = i
    BY <1>3, <1>7, <1>8
  <2>2. /\ \A k, n \in DOMAIN more : k < n => on[k] < on[n]
        /\ \A n \in DOMAIN more : more[n] = Ad(f[on[n]])
    BY <1>3, <1>9, <1>10
  <2> HIDE DEF T
  <2> QED BY <2>1, <2>2 DEF Listed
<1> QED BY <1>3, <1>11 DEF more, ad

LEMMA ListedNone ==
  ASSUME NEW f
  PROVE  <<>> \in Seq(AdSet) /\ Listed(f, <<>>, {})
<1>1. PICK none : none = <<>>
  OBVIOUS
<1>2. none \in Seq(AdSet) /\ DOMAIN none = {} /\ none \in [{} -> {}]
  BY <1>1, EmptySeq
<1>3. Listed(f, none, {})
  BY <1>2 DEF Listed
<1> QED BY <1>1, <1>2, <1>3

(* findWinningBid, whose loop keeps the first of the highest bids it has   *)
(* seen.                                                                   *)
LEMMA WinningFacts ==
  ASSUME NEW bids \in Seq(Bid), bids # <<>>
  PROVE  \E i \in DOMAIN bids :
           /\ WinningBid(bids) = bids[i]
           /\ \A j \in DOMAIN bids : bids[j].money <= bids[i].money
           /\ \A j \in DOMAIN bids : j < i => bids[j].money < bids[i].money
<1> DEFINE N == Len(bids)
           m(j) == bids[j].money
           First(i, n) == (\A j \in 1 .. n : m(j) <= m(i)) /\ (\A j \in 1 .. i - 1 : m(j) < m(i))
           P == {n \in 0 .. N : n # 0 => \E i \in 1 .. n : First(i, n)}
<1>1. N \in Nat /\ N # 0 /\ DOMAIN bids = 1 .. N
  BY LenProperties, EmptySeq
<1>2. \A j \in 1 .. N : bids[j].money \in Nat
  <2>1. \A j \in 1 .. N : bids[j] \in Bid
    BY <1>1, ElementOfSeq
  <2> QED BY <2>1 DEF Bid
<1> HIDE DEF N
<1>3. 0 \in P
  BY <1>1
<1>4. ASSUME NEW n \in 0 .. N, n \in P, n < N
      PROVE  n + 1 \in P
  <2>1. n \in Nat /\ n + 1 \in 0 .. N /\ n + 1 \in 1 .. N
    BY <1>1, <1>4
  <2>2. \A j \in 1 .. n + 1 : j = n + 1 \/ j \in 1 .. n
    BY <2>1
  <2>3. \A j \in 1 .. n : j \in 1 .. N /\ j \in 1 .. n + 1
    BY <1>1, <2>1
  <2>4. CASE n = 0 \/ \A j \in 1 .. n : m(j) < m(n + 1)
    <3>1. \A j \in 1 .. n : m(j) < m(n + 1)
      BY <2>4
    <3>2. First(n + 1, n + 1)
      <4>1. (n + 1) - 1 = n
        BY <2>1
      <4> QED BY <1>2, <2>1, <2>2, <2>3, <3>1, <4>1
    <3>3. n + 1 \in 1 .. n + 1
      BY <2>1
    <3> QED BY <2>1, <3>2, <3>3
  <2>5. CASE ~(n = 0 \/ \A j \in 1 .. n : m(j) < m(n + 1))
    <3>1. PICK i \in 1 .. n : First(i, n)
      BY <1>4, <2>5
    <3>2. PICK j \in 1 .. n : ~(m(j) < m(n + 1))
      BY <2>5
    <3>3. m(n + 1) <= m(i)
      <4>1. m(j) \in Nat /\ m(n + 1) \in Nat /\ m(i) \in Nat /\ m(j) <= m(i)
        BY <1>2, <2>1, <2>3, <3>1
      <4> QED BY <3>2, <4>1
    <3>4. First(i, n + 1)
      BY <2>2, <3>1, <3>3
    <3> QED BY <2>1, <2>3, <3>4
  <2> QED BY <2>4, <2>5
<1>5. N \in P
  <2> HIDE DEF P
  <2> QED BY <1>1, <1>3, <1>4, Least
<1>6. PICK i \in 1 .. N : First(i, N)
  BY <1>1, <1>5
<1>7. bids[i] \in ToSet(bids)
  BY <1>1 DEF ToSet
<1>8. \E k \in DOMAIN bids :
        /\ WinningBid(bids) = bids[k]
        /\ \A j \in DOMAIN bids : bids[j].money <= WinningBid(bids).money
        /\ \A j \in 1 .. k - 1 : bids[j].money < WinningBid(bids).money
  BY <1>1, <1>6, <1>7 DEF WinningBid
<1>9. PICK k \in 1 .. N :
        /\ WinningBid(bids) = bids[k]
        /\ \A j \in 1 .. N : bids[j].money <= bids[k].money
        /\ \A j \in 1 .. k - 1 : bids[j].money < bids[k].money
  BY <1>1, <1>8
<1>10. \A j \in 1 .. N : j < k => j \in 1 .. k - 1
  BY <1>1
<1> QED BY <1>1, <1>9, <1>10

-----------------------------------------------------------------------------
(* A bid leads to its own ad, for the map has the ads of this file only.   *)
LEMMA LockFacts ==
  ASSUME MapInv, server = "up", pos = Len(file),
         NEW i \in DOMAIN file, file[i].ok, NEW bid, bid.ad = file[i].id
  PROVE  Lock(bid) = Ad(file[i])
<1> DEFINE all == UNION {ToSet(mapBySize[k]) : k \in DOMAIN mapBySize}
<1>1. /\ file \in Files /\ DOMAIN mapBySize \subseteq Size
      /\ \A k \in Size : Listed(file, GetAdsBySize(k), Entries(k, pos))
  BY DEF MapInv
<1>2. file[i] \in Entry /\ i \in 1 .. Len(file) /\ file[i].size \in Size
  <2>1. file[i] \in Entry /\ i \in 1 .. Len(file)
    BY <1>1, FilesFacts
  <2> QED BY <2>1 DEF Entry
<1>3. Ad(file[i]) \in all
  <2>1. PICK k \in Size : k = file[i].size
    BY <1>2
  <2>2. i \in Entries(k, pos)
    BY <1>2, <2>1 DEF Entries
  <2>3. PICK ads : ads = GetAdsBySize(k)
    OBVIOUS
  <2>4. PICK n \in DOMAIN ads : ads[n] = Ad(file[i])
    BY <1>1, <2>2, <2>3 DEF Listed
  <2>5. k \in DOMAIN mapBySize
    <3>1. ads = <<>> => FALSE
      BY <2>4, EmptySeq
    <3> QED BY <2>3, <3>1 DEF GetAdsBySize
  <2>6. ads = mapBySize[k]
    BY <2>3, <2>5 DEF GetAdsBySize
  <2> QED BY <2>4, <2>5, <2>6 DEF ToSet
<1>4. ASSUME NEW ad \in all, ad.id = bid.ad
      PROVE  ad = Ad(file[i])
  <2>1. PICK k \in DOMAIN mapBySize : ad \in ToSet(mapBySize[k])
    BY <1>4
  <2>2. PICK ads : ads = GetAdsBySize(k)
    OBVIOUS
  <2>3. ads = mapBySize[k]
    BY <2>2 DEF GetAdsBySize
  <2>4. PICK n \in DOMAIN ads : ad = ads[n]
    BY <2>1, <2>3 DEF ToSet
  <2>5. PICK m \in Entries(k, pos) : ad = Ad(file[m])
    <3>1. Listed(file, ads, Entries(k, pos))
      BY <1>1, <2>2
    <3> QED BY <2>4, <3>1 DEF Listed
  <2>6. m \in DOMAIN file
    BY <1>1, FilesFacts DEF Entries
  <2>7. ad.id = file[m].id
    BY <1>1, <2>5, <2>6, AdFacts
  <2>8. m = i
    BY <1>1, <1>4, <2>6, <2>7, FilesFacts
  <2> QED BY <2>5, <2>8
<1>5. Ad(file[i]).id = bid.ad
  BY <1>1, AdFacts
<1> HIDE DEF all
<1>6. (CHOOSE ad \in all : ad.id = bid.ad) = Ad(file[i])
  BY <1>3, <1>4, <1>5
<1> QED BY <1>6 DEF Lock, all

LEMMA KeyFacts ==
  ASSUME NEW r \in Inputs, CreateSizeKey(r) # Malformed
  PROVE  CreateSizeKey(r) \in Size \cup {ZERO_SIZE}
<1>1. r \in Input
  BY MatchingAssumption DEF MatchingAssumption
<1> QED BY <1>1 DEF Input, CreateSizeKey, CreateSizeKeyRegExpr

(* The keywords of a transaction are sorted, and those of its request.     *)
LEMMA TransactionFacts ==
  ASSUME NEW r \in Inputs, NEW key
  PROVE  LET t == Transaction(r, key)
             words == IF r.kw # None THEN r.kw ELSE r.keywords
         IN
         /\ t.keywords \in Seq(Nat) /\ Sorted(t.keywords) /\ t.sizeKey = key
         /\ key # ZERO_SIZE =>
              /\ t.id = r
              /\ \A k : k \in ToSet(t.keywords) <=> words # None /\ k \in ToSet(words)
<1> DEFINE t == Transaction(r, key)
           words == IF r.kw # None THEN r.kw ELSE r.keywords
<1>1. r.kw \in Seq(Keyword) \cup {None} /\ r.keywords \in Seq(Keyword) \cup {None}
  BY MatchingAssumption DEF MatchingAssumption, Input
<1>2. PICK none : none = <<>>
  OBVIOUS
<1>3. none \in Seq(Nat) /\ none \in Seq(Keyword) /\ DOMAIN none = {}
  BY <1>2, EmptySeq
<1>4. Sorted(none) /\ ToSet(none) = {}
  BY <1>3 DEF Sorted, ToSet
<1>5. PICK w : w = Words(r)
  OBVIOUS
<1>6. w \in Seq(Keyword) /\ \A k : k \in ToSet(w) <=> words # None /\ k \in ToSet(words)
  <2>1. CASE r.kw # None
    <3>1. w = r.kw
      BY <1>5, <2>1 DEF Words
    <3> QED BY <1>1, <2>1, <3>1
  <2>2. CASE r.kw = None /\ r.keywords # None
    <3>1. w = r.keywords
      BY <1>5, <2>2 DEF Words
    <3> QED BY <1>1, <2>2, <3>1
  <2>3. CASE r.kw = None /\ r.keywords = None
    <3>1. w = none
      BY <1>2, <1>5, <2>3 DEF Words
    <3> QED BY <1>3, <1>4, <2>3, <3>1
  <2> QED BY <2>1, <2>2, <2>3
<1> HIDE DEF words
<1>7. PICK s : s = Sort(w, w)
  OBVIOUS
<1>8. s \in Seq(Nat) /\ Sorted(s) /\ ToSet(s) = ToSet(w)
  BY <1>6, <1>7, WordsFacts DEF Sorted
<1>9. t.sizeKey = key /\ t.keywords = IF key = ZERO_SIZE THEN none ELSE s
  BY <1>2, <1>5, <1>7 DEF Transaction
<1>10. key # ZERO_SIZE => t.id = r
  BY DEF Transaction
<1> HIDE DEF t
<1>11. t.keywords \in Seq(Nat) /\ Sorted(t.keywords)
  BY <1>3, <1>4, <1>8, <1>9
<1>12. key # ZERO_SIZE =>
         \A k : k \in ToSet(t.keywords) <=> words # None /\ k \in ToSet(words)
  BY <1>6, <1>8, <1>9
<1> QED BY <1>9, <1>10, <1>11, <1>12 DEF t, words

(* The map has the ads of every size a request can have.                   *)
LEMMA MapHas ==
  ASSUME MapInv, server = "up", NEW key \in Size \cup {ZERO_SIZE}
  PROVE  /\ GetAdsBySize(key) \in Seq(AdSet)
         /\ Listed(file, GetAdsBySize(key), Entries(key, pos))
<1>1. /\ file \in Files /\ pos \in 0 .. Len(file) /\ DOMAIN mapBySize \subseteq Size
      /\ \A k \in Size : /\ GetAdsBySize(k) \in Seq(AdSet)
                         /\ Listed(file, GetAdsBySize(k), Entries(k, pos))
  BY DEF MapInv
<1>2. CASE key \in Size
  BY <1>1, <1>2
<1>3. CASE key = ZERO_SIZE
  <2>1. ZERO_SIZE \notin Size
    BY MatchingAssumption DEF MatchingAssumption
  <2>2. GetAdsBySize(key) = <<>>
    BY <1>1, <1>3, <2>1 DEF GetAdsBySize
  <2>3. \A i \in 1 .. pos : file[i].size \in Size
    <3>1. \A i \in DOMAIN file : file[i].size \in Size
      BY <1>1, FilesFacts DEF Entry
    <3>2. DOMAIN file = 1 .. Len(file) /\ Len(file) \in Nat
      BY <1>1, FilesFacts
    <3> QED BY <1>1, <3>1, <3>2
  <2>4. Entries(key, pos) = {}
    BY <1>3, <2>1, <2>3 DEF Entries
  <2> QED BY <2>2, <2>4, ListedNone
<1> QED BY <1>2, <1>3

LEMMA CandidatesFacts ==
  ASSUME file \in Files, NEW r
  PROVE  LET words == IF r.kw # None THEN r.kw ELSE r.keywords IN
         /\ \A c \in Candidates(r) :
              /\ c = <<c[1], c[2]>> /\ c[1] \in DOMAIN file /\ c[2] \in DOMAIN file[c[1]].bids
              /\ file[c[1]].ok /\ file[c[1]].size = CreateSizeKey(r)
              /\ words # None /\ file[c[1]].bids[c[2]].keyword \in ToSet(words)
         /\ \A i \in DOMAIN file : \A j \in DOMAIN file[i].bids :
              file[i].ok /\ file[i].size = CreateSizeKey(r)
                /\ words # None /\ file[i].bids[j].keyword \in ToSet(words)
                => <<i, j>> \in Candidates(r)
         /\ \A i, j : BidAt(<<i, j>>) = BidOf(file[i], j)
         /\ \A c, d \in Candidates(r) : BidAt(c) = BidAt(d) => c = d
<1> DEFINE words == IF r.kw # None THEN r.kw ELSE r.keywords
<1>1. ASSUME NEW c \in Candidates(r)
      PROVE  /\ c = <<c[1], c[2]>> /\ c[1] \in DOMAIN file /\ c[2] \in DOMAIN file[c[1]].bids
             /\ file[c[1]].ok /\ file[c[1]].size = CreateSizeKey(r)
             /\ words # None /\ file[c[1]].bids[c[2]].keyword \in ToSet(words)
  <2>1. c \in UNION {{i} \X DOMAIN file[i].bids : i \in DOMAIN file}
    BY DEF Candidates
  <2>2. PICK i \in DOMAIN file : \E j \in DOMAIN file[i].bids : c = <<i, j>>
    BY <2>1
  <2>3. c = <<c[1], c[2]>> /\ c[1] \in DOMAIN file /\ c[2] \in DOMAIN file[c[1]].bids
    BY <2>2
  <2> QED BY <2>3 DEF Candidates
<1>2. ASSUME NEW i \in DOMAIN file, NEW j \in DOMAIN file[i].bids,
             file[i].ok, file[i].size = CreateSizeKey(r),
             words # None, file[i].bids[j].keyword \in ToSet(words)
      PROVE  <<i, j>> \in Candidates(r)
  <2>1. PICK c : c = <<i, j>>
    OBVIOUS
  <2>2. c[1] = i /\ c[2] = j
    BY <2>1
  <2>3. c \in UNION {{k} \X DOMAIN file[k].bids : k \in DOMAIN file}
    BY <2>1
  <2>4. c \in Candidates(r)
    BY <1>2, <2>2, <2>3 DEF Candidates
  <2> QED BY <2>1, <2>4
<1> HIDE DEF words
<1>3. \A i, j : BidAt(<<i, j>>) = BidOf(file[i], j)
  BY DEF BidAt, BidOf, MoneyOf
<1>4. ASSUME NEW c \in Candidates(r), NEW d \in Candidates(r), BidAt(c) = BidAt(d)
      PROVE  c = d
  <2>1. PICK i, j : i \in DOMAIN file /\ j \in DOMAIN file[i].bids /\ c = <<i, j>>
    BY <1>1
  <2>2. PICK k, l : k \in DOMAIN file /\ l \in DOMAIN file[k].bids /\ d = <<k, l>>
    BY <1>1
  <2>3. BidOf(file[i], j) = BidOf(file[k], l)
    BY <1>3, <1>4, <2>1, <2>2
  <2>4. file[i].id = file[k].id /\ file[i].bids[j].keyword = file[k].bids[l].keyword
    <3>1. \A e, n : BidOf(e, n).ad = e.id /\ BidOf(e, n).keyword = e.bids[n].keyword
      BY DEF BidOf
    <3> QED BY <2>3, <3>1
  <2>5. i = k
    BY <2>1, <2>2, <2>4, FilesFacts
  <2>6. j = l
    BY <2>1, <2>2, <2>4, <2>5, FilesFacts
  <2> QED BY <2>1, <2>2, <2>5, <2>6
<1> QED BY <1>1, <1>2, <1>3, <1>4 DEF words

(* A sequence without repetitions is as long as the set of its elements.   *)
LEMMA DistinctCardinality ==
  ASSUME NEW T, NEW s \in Seq(T), Distinct(s), NEW S, NEW F, ToSet(s) = {F[x] : x \in S},
         \A x, y \in S : F[x] = F[y] => x = y
  PROVE  Cardinality(S) = Len(s)
<1> DEFINE n == Len(s)
           b == [i \in 1 .. n |-> CHOOSE x \in S : F[x] = s[i]]
<1>1. n \in Nat /\ DOMAIN s = 1 .. n
  BY LenProperties
<1>2. \A i \in 1 .. n : \E x \in S : F[x] = s[i]
  <2>1. \A i \in 1 .. n : s[i] \in ToSet(s)
    BY <1>1 DEF ToSet
  <2> QED BY <2>1
<1> HIDE DEF n
<1>3. ASSUME NEW i \in 1 .. n
      PROVE  b[i] \in S /\ F[b[i]] = s[i]
  <2>1. PICK x : x = CHOOSE y \in S : F[y] = s[i]
    OBVIOUS
  <2>2. x \in S /\ F[x] = s[i]
    BY <1>2, <2>1
  <2>3. b[i] = x
    BY <2>1
  <2> QED BY <2>2, <2>3
<1>4. b \in [1 .. n -> S]
  BY <1>3
<1> HIDE DEF b
<1>5. \A i, j \in 1 .. n : b[i] = b[j] => i = j
  BY <1>1, <1>3 DEF Distinct
<1>6. \A x \in S : \E i \in 1 .. n : b[i] = x
  <2>1. ASSUME NEW x \in S
        PROVE  \E i \in 1 .. n : b[i] = x
    <3>1. F[x] \in ToSet(s)
      OBVIOUS
    <3>2. PICK i \in 1 .. n : s[i] = F[x]
      BY <1>1, <3>1 DEF ToSet
    <3> QED BY <1>3, <3>2
  <2> QED BY <2>1
<1>7. ExistsBijection(1 .. n, S)
  BY <1>4, <1>5, <1>6 DEF ExistsBijection, Bijection, Injection, Surjection, IsInjective
<1>8. IsFiniteSet(1 .. n) /\ Cardinality(1 .. n) = n
  <2>1. 1 \in Int /\ n \in Int /\ (IF 1 > n THEN 0 ELSE n - 1 + 1) = n
    BY <1>1
  <2> QED BY <2>1, FS_Interval
<1> QED BY <1>7, <1>8, FS_Bijection DEF n

(* What matchAds finds are the candidates.                                 *)
LEMMA MatchesAreCandidates ==
  ASSUME MapInv, server = "up", pos = Len(file),
         NEW r \in Inputs, CreateSizeKey(r) # Malformed
  PROVE  LET key == CreateSizeKey(r)
             bids == Matches(GetAdsBySize(key), Transaction(r, key).keywords)
         IN
         /\ bids \in Seq(Bid) /\ InOrder(file, bids)
         /\ ToSet(bids) = {BidAt(c) : c \in Candidates(r)}
         /\ Candidates(r) # {} => key # ZERO_SIZE
         /\ Cardinality(Candidates(r)) = Len(bids)
<1> DEFINE key == CreateSizeKey(r)
           words == Transaction(r, key).keywords
           asked == IF r.kw # None THEN r.kw ELSE r.keywords
           bids == Matches(GetAdsBySize(key), words)
           S == Entries(key, pos)
<1>1. file \in Files /\ DOMAIN file = 1 .. pos /\ key \in Size \cup {ZERO_SIZE}
  BY FilesFacts, KeyFacts DEF MapInv
<1>2. words \in Seq(Nat) /\ Sorted(words)
  BY TransactionFacts
<1>3. key # ZERO_SIZE => \A k : k \in ToSet(words) <=> asked # None /\ k \in ToSet(asked)
  BY TransactionFacts
<1>4. GetAdsBySize(key) \in Seq(AdSet) /\ Listed(file, GetAdsBySize(key), S)
  BY <1>1, MapHas
<1>5. /\ S \in SUBSET DOMAIN file
      /\ \A i : i \in S <=> i \in DOMAIN file /\ file[i].ok /\ file[i].size = key
  BY <1>1 DEF Entries
<1> HIDE DEF S, words
<1>6. Fits(file, bids, S, words)
  <2>1. PICK ads : ads = GetAdsBySize(key)
    OBVIOUS
  <2>2. Fits(file, Matches(ads, words), S, words)
    <3> HIDE DEF key
    <3> QED BY <1>1, <1>2, <1>4, <1>5, <2>1, MatchesFit
  <2> QED BY <2>1, <2>2
<1> HIDE DEF bids
<1>7. /\ bids \in Seq(Bid) /\ Distinct(bids) /\ InOrder(file, bids)
      /\ ToSet(bids) = UNION {Asked(file[i], words) : i \in S}
  BY <1>6 DEF Fits
<1>8. /\ \A c \in Candidates(r) :
           /\ c = <<c[1], c[2]>> /\ c[1] \in DOMAIN file /\ c[2] \in DOMAIN file[c[1]].bids
           /\ file[c[1]].ok /\ file[c[1]].size = key
           /\ asked # None /\ file[c[1]].bids[c[2]].keyword \in ToSet(asked)
      /\ \A i \in DOMAIN file : \A j \in DOMAIN file[i].bids :
           file[i].ok /\ file[i].size = key
             /\ asked # None /\ file[i].bids[j].keyword \in ToSet(asked)
             => <<i, j>> \in Candidates(r)
      /\ \A i, j : BidAt(<<i, j>>) = BidOf(file[i], j)
      /\ \A c, d \in Candidates(r) : BidAt(c) = BidAt(d) => c = d
  BY <1>1, CandidatesFacts
<1>9. \A i \in S : file[i].size = key /\ key # ZERO_SIZE
  <2>1. \A i \in DOMAIN file : file[i].size \in Size
    BY <1>1, FilesFacts DEF Entry
  <2>2. ZERO_SIZE \notin Size
    BY MatchingAssumption DEF MatchingAssumption
  <2> QED BY <1>5, <2>1, <2>2
<1> HIDE DEF key, asked
<1>10. \A c \in Candidates(r) : c[1] \in S
  BY <1>5, <1>8
<1>11. ASSUME NEW c \in Candidates(r)
       PROVE  BidAt(c) \in ToSet(bids)
  <2>1. PICK i, j : c = <<i, j>> /\ i \in S /\ j \in DOMAIN file[i].bids
                    /\ asked # None /\ file[i].bids[j].keyword \in ToSet(asked)
    BY <1>8, <1>10
  <2>2. file[i].bids[j].keyword \in ToSet(words)
    BY <1>3, <1>9, <2>1
  <2>3. BidOf(file[i], j) \in Asked(file[i], words)
    BY <2>1, <2>2 DEF Asked
  <2> QED BY <1>7, <1>8, <2>1, <2>3
<1>12. ASSUME NEW b \in ToSet(bids)
       PROVE  \E c \in Candidates(r) : b = BidAt(c)
  <2>1. PICK i \in S : b \in Asked(file[i], words)
    BY <1>7
  <2>2. PICK j : /\ j \in DOMAIN file[i].bids /\ file[i].bids[j].keyword \in ToSet(words)
                 /\ b = BidOf(file[i], j)
    BY <2>1 DEF Asked
  <2>3. <<i, j>> \in Candidates(r)
    BY <1>3, <1>5, <1>8, <1>9, <2>2
  <2> QED BY <1>8, <2>2, <2>3
<1>13. ToSet(bids) = {BidAt(c) : c \in Candidates(r)}
  BY <1>11, <1>12
<1>14. Candidates(r) # {} => key # ZERO_SIZE
  BY <1>9, <1>10
<1>15. Cardinality(Candidates(r)) = Len(bids)
  <2>1. PICK F : F = [c \in Candidates(r) |-> BidAt(c)]
    OBVIOUS
  <2>2. \A c \in Candidates(r) : F[c] = BidAt(c)
    BY <2>1
  <2>3. ToSet(bids) = {F[c] : c \in Candidates(r)}
    BY <1>13, <2>2
  <2>4. \A c, d \in Candidates(r) : F[c] = F[d] => c = d
    BY <1>8, <2>2
  <2> QED BY <1>7, <2>3, <2>4, DistinctCardinality
<1> QED BY <1>7, <1>13, <1>14, <1>15 DEF bids, words, key

(* printSummary: the winner, to the nearest tenth.                         *)
LEMMA TenthsFacts ==
  ASSUME NEW m \in Nat, NEW t \in Tenths(m)
  PROVE  t \in Nat /\ 10 * t - m \in -5 .. 5
<1>1. m \div 10 \in Nat
  OBVIOUS
<1>2. t \in {m \div 10, m \div 10 + 1} /\ 10 * t - 5 <= m /\ m <= 10 * t + 5
  BY DEF Tenths
<1>3. t \in Nat
  BY <1>1, <1>2
<1> QED BY <1>2, <1>3

LEMMA SummaryFacts ==
  ASSUME MapInv, server = "up", pos = Len(file),
         NEW r \in Inputs, CreateSizeKey(r) # Malformed,
         NEW bids, bids = Matches(GetAdsBySize(CreateSizeKey(r)),
                                  Transaction(r, CreateSizeKey(r)).keywords),
         NEW reply \in Summary(Transaction(r, CreateSizeKey(r)), bids)
  PROVE  /\ (Candidates(r) = {}) <=> (reply.winner = None)
         /\ Candidates(r) # {} =>
              /\ bids # <<>> /\ reply.id = r
              /\ \E c \in Candidates(r) :
                   /\ reply.winner.ad = BidAt(c).ad
                   /\ 10 * reply.winner.tenths - BidAt(c).money \in -5 .. 5
                   /\ WinningBid(bids) = BidAt(c)
                   /\ \A d \in Candidates(r) :
                        /\ BidAt(d).money <= BidAt(c).money
                        /\ BidAt(d).money = BidAt(c).money => c[1] <= d[1]
<1> DEFINE key == CreateSizeKey(r)
           t == Transaction(r, key)
           fits == Candidates(r)
<1>1. /\ bids \in Seq(Bid) /\ InOrder(file, bids)
      /\ ToSet(bids) = {BidAt(c) : c \in fits}
      /\ fits # {} => key # ZERO_SIZE
  BY MatchesAreCandidates
<1>2. file \in Files
  BY DEF MapInv
<1>3. /\ \A c \in fits : /\ c = <<c[1], c[2]>> /\ c[1] \in DOMAIN file
                         /\ c[2] \in DOMAIN file[c[1]].bids /\ file[c[1]].ok
      /\ \A i, j : BidAt(<<i, j>>) = BidOf(file[i], j)
  BY <1>2, CandidatesFacts
<1>4. key # ZERO_SIZE => t.id = r
  BY TransactionFacts
<1>5. fits = {} <=> bids = <<>>
  <2>1. bids = <<>> <=> DOMAIN bids = {}
    BY <1>1, EmptySeq, LenProperties
  <2>2. DOMAIN bids = {} <=> ToSet(bids) = {}
    BY DEF ToSet
  <2>3. ToSet(bids) = {} <=> fits = {}
    BY <1>1
  <2> QED BY <2>1, <2>2, <2>3
<1> HIDE DEF fits, t, key
<1>6. CASE fits = {}
  <2>1. reply = [id |-> t.id, winner |-> None]
    BY <1>5, <1>6 DEF Summary, t, key
  <2> QED BY <1>6, <2>1 DEF fits
<1>7. CASE fits # {}
  <2>1. PICK i \in DOMAIN bids :
          /\ WinningBid(bids) = bids[i]
          /\ \A j \in DOMAIN bids : bids[j].money <= bids[i].money
          /\ \A j \in DOMAIN bids : j < i => bids[j].money < bids[i].money
    BY <1>1, <1>5, <1>7, WinningFacts
  <2>2. PICK c \in fits : bids[i] = BidAt(c)
    <3>1. bids[i] \in ToSet(bids)
      BY DEF ToSet
    <3> QED BY <1>1, <3>1
  <2>3. \A d \in fits : BidAt(d).ad = file[d[1]].id /\ BidAt(d) \in Bid
    <3>1. ASSUME NEW d \in fits
          PROVE  BidAt(d).ad = file[d[1]].id /\ BidAt(d) \in Bid
      <4>1. PICK k, l : d = <<k, l>> /\ k \in DOMAIN file /\ l \in DOMAIN file[k].bids
        BY <1>3
      <4>2. BidAt(d) = BidOf(file[k], l) /\ d[1] = k
        BY <1>3, <4>1
      <4>3. BidOf(file[k], l) \in Bid
        BY <1>2, <4>1, AdFacts
      <4> QED BY <4>2, <4>3 DEF BidOf
    <3> QED BY <3>1
  <2>4. Lock(WinningBid(bids)).id = BidAt(c).ad
    <3>1. PICK b : b = WinningBid(bids)
      OBVIOUS
    <3>2. PICK k \in DOMAIN file : k = c[1] /\ file[k].ok /\ b.ad = file[k].id
      BY <1>3, <2>1, <2>2, <2>3, <3>1
    <3>3. Lock(b) = Ad(file[k])
      BY <3>2, LockFacts
    <3>4. Ad(file[k]).id = file[k].id
      BY <1>2, AdFacts
    <3> QED BY <2>1, <2>2, <3>1, <3>2, <3>3, <3>4
  <2>5. PICK m \in Tenths(BidAt(c).money) :
          reply = [id |-> t.id, winner |-> [ad |-> BidAt(c).ad, tenths |-> m]]
    <3>1. reply \in {[id |-> t.id, winner |-> [ad |-> Lock(WinningBid(bids)).id, tenths |-> m]] :
                       m \in Tenths(WinningBid(bids).money)}
      BY <1>5, <1>7 DEF Summary, t, key
    <3> QED BY <2>1, <2>2, <2>4, <3>1
  <2>6. BidAt(c).ad \in Nat /\ BidAt(c).money \in Nat
    BY <2>3 DEF Bid
  <2>7. m \in Nat /\ 10 * m - BidAt(c).money \in -5 .. 5
    BY <2>6, TenthsFacts
  <2>8. reply.id = r /\ reply.winner = [ad |-> BidAt(c).ad, tenths |-> m]
    BY <1>1, <1>4, <1>7, <2>5
  <2>9. reply.winner # None
    <3>1. [ad |-> BidAt(c).ad, tenths |-> m] \in [ad : Nat, tenths : Nat]
      BY <2>6, <2>7
    <3> QED BY <2>8, <3>1, MatchingAssumption DEF MatchingAssumption
  <2>10. ASSUME NEW d \in fits
         PROVE  /\ BidAt(d).money <= BidAt(c).money
                /\ BidAt(d).money = BidAt(c).money => c[1] <= d[1]
    <3>1. PICK j \in DOMAIN bids : bids[j] = BidAt(d)
      <4>1. BidAt(d) \in ToSet(bids)
        BY <1>1
      <4> QED BY <4>1 DEF ToSet
    <3>2. BidAt(d).money <= BidAt(c).money
      BY <2>1, <2>2, <3>1
    <3>3. ASSUME BidAt(d).money = BidAt(c).money
          PROVE  c[1] <= d[1]
      <4>1. i \in Nat /\ j \in Nat /\ c[1] \in DOMAIN file /\ d[1] \in DOMAIN file
        BY <1>1, <1>3, LenProperties
      <4>2. ~(j < i)
        <5>1. BidAt(c).money \in Nat /\ ~(BidAt(d).money < BidAt(c).money)
          BY <2>6, <3>3
        <5> QED BY <2>1, <2>2, <3>1, <5>1
      <4>3. bids[i].ad = file[c[1]].id /\ bids[j].ad = file[d[1]].id
        BY <2>2, <2>3, <3>1
      <4>4. CASE i < j
        BY <1>1, <4>1, <4>3, <4>4 DEF InOrder
      <4>5. CASE i = j
        <5>1. c[1] = d[1]
          BY <1>2, <4>1, <4>3, <4>5, FilesFacts
        <5>2. c[1] \in Nat
          BY <1>2, <4>1, FilesFacts
        <5> QED BY <5>1, <5>2
      <4> QED BY <4>1, <4>2, <4>4, <4>5
    <3> QED BY <3>2, <3>3
  <2>11. reply.winner.ad = BidAt(c).ad /\ reply.winner.tenths = m
    BY <2>8
  <2> QED BY <1>5, <1>7, <2>1, <2>2, <2>7, <2>8, <2>9, <2>10, <2>11 DEF fits
<1> QED BY <1>6, <1>7

(* Ad::print.                                                              *)
LEMMA PrintFacts ==
  ASSUME NEW f \in Files, NEW i \in DOMAIN f
  PROVE  LET print == PrintAd(Ad(f[i])) IN
         /\ print.id = f[i].id /\ print.size = f[i].size
         /\ ToSet(print.bids) = {<<BidOf(f[i], j).keyword, BidOf(f[i], j).money>> :
                                   j \in DOMAIN f[i].bids}
<1>1. PICK ad : ad = Ad(f[i])
  OBVIOUS
<1>2. /\ ad \in AdSet /\ ad.id = f[i].id /\ ad.size = f[i].size
      /\ ToSet(ad.bids) = {BidOf(f[i], j) : j \in DOMAIN f[i].bids}
  BY <1>1, AdFacts
<1>3. PICK list : list = [n \in DOMAIN ad.bids |-> <<ad.bids[n].keyword, ad.bids[n].money>>]
  OBVIOUS
<1>4. ad = [id |-> ad.id, size |-> ad.size, defaultBid |-> ad.defaultBid, bids |-> ad.bids]
  BY <1>2 DEF AdSet
<1>5. PrintAd(ad).id = ad.id /\ PrintAd(ad).size = ad.size /\ PrintAd(ad).bids = list
  BY <1>3, <1>4 DEF PrintAd
<1>6. ToSet(list) = {<<b.keyword, b.money>> : b \in ToSet(ad.bids)}
  BY <1>3 DEF ToSet
<1>7. ToSet(list) = {<<BidOf(f[i], j).keyword, BidOf(f[i], j).money>> : j \in DOMAIN f[i].bids}
  BY <1>2, <1>6
<1> QED BY <1>1, <1>2, <1>5, <1>7

(* printMatchingAds: every bid that fits, with its own ad.                 *)
LEMMA AdsPrinted ==
  ASSUME MapInv, server = "up", pos = Len(file),
         NEW r \in Inputs, CreateSizeKey(r) # Malformed,
         NEW bids, bids = Matches(GetAdsBySize(CreateSizeKey(r)),
                                  Transaction(r, CreateSizeKey(r)).keywords)
  PROVE  LET ads == PrintMatchingAds(bids) IN
         /\ Len(ads) = Cardinality(Candidates(r)) /\ Len(bids) = Cardinality(Candidates(r))
         /\ {<<p.ad.id, p.bid>> : p \in ToSet(ads)}
              = {<<file[c[1]].id, BidAt(c)>> : c \in Candidates(r)}
         /\ \A p \in ToSet(ads), c \in Candidates(r) :
              file[c[1]].id = p.ad.id =>
                /\ p.ad.size = CreateSizeKey(r)
                /\ ToSet(p.ad.bids) = {<<BidAt(<<c[1], j>>).keyword, BidAt(<<c[1], j>>).money>> :
                                         j \in DOMAIN file[c[1]].bids}
<1> DEFINE L == Len(bids)
           ads == PrintMatchingAds(bids)
           fits == Candidates(r)
<1>1. /\ bids \in Seq(Bid) /\ ToSet(bids) = {BidAt(c) : c \in fits}
      /\ Cardinality(fits) = L
  BY MatchesAreCandidates
<1>2. file \in Files
  BY DEF MapInv
<1>3. /\ \A c \in fits : /\ c = <<c[1], c[2]>> /\ c[1] \in DOMAIN file
                         /\ c[2] \in DOMAIN file[c[1]].bids
                         /\ file[c[1]].ok /\ file[c[1]].size = CreateSizeKey(r)
      /\ \A i, j : BidAt(<<i, j>>) = BidOf(file[i], j)
  BY <1>2, CandidatesFacts
<1>4. L \in Nat /\ DOMAIN bids = 1 .. L
  BY <1>1, LenProperties
<1> HIDE DEF fits, L
<1>5. /\ DOMAIN ads = 1 .. L
      /\ \A i \in 1 .. L : ads[i] = [ad |-> PrintAd(Lock(bids[i])), bid |-> bids[i]]
      /\ ads = [i \in 1 .. L |-> ads[i]]
  BY <1>4 DEF PrintMatchingAds
<1> HIDE DEF ads
<1>6. Len(ads) = L
  <2> DEFINE T == {ads[i] : i \in 1 .. L}
  <2>1. ads \in [1 .. L -> T]
    BY <1>5
  <2>2. ads \in Seq(T)
    <3> HIDE DEF T
    <3> QED BY <1>4, <2>1
  <2> QED BY <1>4, <1>5, <2>2, LenProperties
<1>7. ASSUME NEW p, NEW c \in fits, p = [ad |-> PrintAd(Lock(BidAt(c))), bid |-> BidAt(c)]
      PROVE  /\ p.ad = PrintAd(Ad(file[c[1]])) /\ p.ad.id = file[c[1]].id /\ p.bid = BidAt(c)
             /\ p.ad.size = CreateSizeKey(r)
  <2>1. PICK i, j : c = <<i, j>> /\ c[1] = i /\ i \in DOMAIN file /\ file[i].ok
    BY <1>3
  <2>2. PICK b : b = BidAt(c)
    OBVIOUS
  <2>3. b.ad = file[i].id
    <3>1. b = BidOf(file[i], j)
      BY <1>3, <2>1, <2>2
    <3> QED BY <3>1 DEF BidOf
  <2>4. Lock(b) = Ad(file[i])
    BY <2>1, <2>3, LockFacts
  <2>5. p.ad = PrintAd(Ad(file[i])) /\ p.bid = BidAt(c)
    BY <1>7, <2>2, <2>4
  <2>6. PrintAd(Ad(file[i])).id = file[i].id /\ PrintAd(Ad(file[i])).size = file[i].size
    BY <1>2, <2>1, PrintFacts
  <2> QED BY <1>3, <2>1, <2>5, <2>6
<1>8. ASSUME NEW p \in ToSet(ads)
      PROVE  \E c \in fits : p = [ad |-> PrintAd(Lock(BidAt(c))), bid |-> BidAt(c)]
  <2>1. PICK i \in 1 .. L : p = ads[i]
    BY <1>5 DEF ToSet
  <2>2. PICK c \in fits : bids[i] = BidAt(c)
    <3>1. bids[i] \in ToSet(bids)
      BY <1>4 DEF ToSet
    <3> QED BY <1>1, <3>1
  <2> QED BY <1>5, <2>1, <2>2
<1>9. ASSUME NEW c \in fits
      PROVE  \E p \in ToSet(ads) : p = [ad |-> PrintAd(Lock(BidAt(c))), bid |-> BidAt(c)]
  <2>1. BidAt(c) \in ToSet(bids)
    BY <1>1
  <2>2. PICK i \in 1 .. L : bids[i] = BidAt(c)
    BY <1>4, <2>1 DEF ToSet
  <2>3. ads[i] \in ToSet(ads)
    BY <1>5 DEF ToSet
  <2> QED BY <1>5, <2>2, <2>3
<1>10. {<<p.ad.id, p.bid>> : p \in ToSet(ads)} = {<<file[c[1]].id, BidAt(c)>> : c \in fits}
  <2>1. \A p \in ToSet(ads) : \E c \in fits : p.ad.id = file[c[1]].id /\ p.bid = BidAt(c)
    BY <1>7, <1>8
  <2>2. \A c \in fits : \E p \in ToSet(ads) : p.ad.id = file[c[1]].id /\ p.bid = BidAt(c)
    BY <1>7, <1>9
  <2> QED BY <2>1, <2>2
<1>11. ASSUME NEW p \in ToSet(ads), NEW c \in fits, file[c[1]].id = p.ad.id
       PROVE  /\ p.ad.size = CreateSizeKey(r)
              /\ ToSet(p.ad.bids) = {<<BidAt(<<c[1], j>>).keyword, BidAt(<<c[1], j>>).money>> :
                                       j \in DOMAIN file[c[1]].bids}
  <2>1. PICK d \in fits : p = [ad |-> PrintAd(Lock(BidAt(d))), bid |-> BidAt(d)]
    BY <1>8
  <2>2. p.ad = PrintAd(Ad(file[d[1]])) /\ p.ad.id = file[d[1]].id /\ p.ad.size = CreateSizeKey(r)
    BY <1>7, <2>1
  <2>3. PICK i \in DOMAIN file : i = c[1] /\ d[1] = i
    <3>1. PICK i \in DOMAIN file : i = c[1]
      BY <1>3
    <3>2. PICK k \in DOMAIN file : k = d[1]
      BY <1>3
    <3>3. file[i].id = file[k].id
      BY <1>11, <2>2, <3>1, <3>2
    <3>4. i = k
      BY <1>2, <3>3, FilesFacts
    <3> QED BY <3>1, <3>2, <3>4
  <2>4. ToSet(PrintAd(Ad(file[i])).bids) = {<<BidOf(file[i], j).keyword, BidOf(file[i], j).money>> :
                                              j \in DOMAIN file[i].bids}
    BY <1>2, PrintFacts
  <2>5. {<<BidOf(file[i], j).keyword, BidOf(file[i], j).money>> : j \in DOMAIN file[i].bids}
          = {<<BidAt(<<i, j>>).keyword, BidAt(<<i, j>>).money>> : j \in DOMAIN file[i].bids}
    <3>1. ASSUME NEW j \in DOMAIN file[i].bids
          PROVE  <<BidOf(file[i], j).keyword, BidOf(file[i], j).money>>
                   = <<BidAt(<<i, j>>).keyword, BidAt(<<i, j>>).money>>
      <4>1. BidAt(<<i, j>>) = BidOf(file[i], j)
        BY <1>3
      <4> QED BY <4>1
    <3> QED BY <3>1
  <2>6. p.ad = PrintAd(Ad(file[i]))
    BY <2>2, <2>3
  <2>7. ToSet(p.ad.bids) = {<<BidAt(<<c[1], j>>).keyword, BidAt(<<c[1], j>>).money>> :
                              j \in DOMAIN file[c[1]].bids}
    BY <2>3, <2>4, <2>5, <2>6
  <2> QED BY <2>2, <2>7
<1> QED BY <1>1, <1>6, <1>10, <1>11 DEF fits, ads, L

(* Either form of a reply.                                                 *)
LEMMA RepliesRight ==
  ASSUME MapInv, server = "up", pos = Len(file),
         NEW r \in Inputs, CreateSizeKey(r) # Malformed, NEW diagnostics \in BOOLEAN,
         NEW reply \in Reply(Transaction(r, CreateSizeKey(r)), GetAdsBySize(CreateSizeKey(r)),
                             diagnostics)
  PROVE  FromFile(r, diagnostics, reply)
<1> DEFINE key == CreateSizeKey(r)
           t == Transaction(r, key)
<1>1. PICK bids : bids = Matches(GetAdsBySize(key), t.keywords)
  OBVIOUS
<1>2. PICK summary \in Summary(t, bids) :
        /\ ~diagnostics => reply = summary
        /\ diagnostics =>
             reply = [id |-> summary.id, request |-> PrintRequestData(t, bids),
                      ads |-> PrintMatchingAds(bids), keyword |-> PrintWinningAd(bids),
                      winner |-> summary.winner]
  <2>1. reply \in IF diagnostics THEN Diagnostics(t, bids) ELSE Summary(t, bids)
    BY <1>1 DEF Reply
  <2>2. CASE diagnostics
    BY <2>1, <2>2 DEF Diagnostics
  <2>3. CASE ~diagnostics
    BY <2>1, <2>3
  <2> QED BY <2>2, <2>3
<1>3. /\ (Candidates(r) = {}) <=> (summary.winner = None)
      /\ Candidates(r) # {} =>
           /\ bids # <<>> /\ summary.id = r
           /\ \E c \in Candidates(r) :
                /\ summary.winner.ad = BidAt(c).ad
                /\ 10 * summary.winner.tenths - BidAt(c).money \in -5 .. 5
                /\ WinningBid(bids) = BidAt(c)
                /\ \A d \in Candidates(r) :
                     /\ BidAt(d).money <= BidAt(c).money
                     /\ BidAt(d).money = BidAt(c).money => c[1] <= d[1]
  BY <1>1, SummaryFacts
<1>4. /\ Len(PrintMatchingAds(bids)) = Cardinality(Candidates(r))
      /\ Len(bids) = Cardinality(Candidates(r))
      /\ {<<p.ad.id, p.bid>> : p \in ToSet(PrintMatchingAds(bids))}
           = {<<file[c[1]].id, BidAt(c)>> : c \in Candidates(r)}
      /\ \A p \in ToSet(PrintMatchingAds(bids)), c \in Candidates(r) :
           file[c[1]].id = p.ad.id =>
             /\ p.ad.size = key
             /\ ToSet(p.ad.bids) = {<<BidAt(<<c[1], j>>).keyword, BidAt(<<c[1], j>>).money>> :
                                      j \in DOMAIN file[c[1]].bids}
  BY <1>1, AdsPrinted
<1>5. t.sizeKey = key
  BY TransactionFacts
<1> HIDE DEF t, key
<1>6. reply.id = summary.id /\ reply.winner = summary.winner
  BY <1>2
<1>7. diagnostics =>
        /\ reply.request.matches = Len(bids) /\ reply.request.size = key
        /\ reply.ads = PrintMatchingAds(bids)
        /\ bids # <<>> => reply.keyword = WinningBid(bids).keyword
  BY <1>2, <1>5 DEF PrintRequestData, PrintWinningAd
<1>8. (Candidates(r) = {}) <=> (reply.winner = None)
  BY <1>3, <1>6
<1>9. reply.winner # None =>
        /\ reply.id = r
        /\ \E c \in Candidates(r) :
             /\ reply.winner.ad = BidAt(c).ad
             /\ 10 * reply.winner.tenths - BidAt(c).money \in -5 .. 5
             /\ diagnostics => reply.keyword = BidAt(c).keyword
             /\ \A d \in Candidates(r) :
                  /\ BidAt(d).money <= BidAt(c).money
                  /\ BidAt(d).money = BidAt(c).money => c[1] <= d[1]
  <2>1. SUFFICES ASSUME reply.winner # None
                 PROVE  /\ reply.id = r
                        /\ \E c \in Candidates(r) :
                             /\ reply.winner.ad = BidAt(c).ad
                             /\ 10 * reply.winner.tenths - BidAt(c).money \in -5 .. 5
                             /\ diagnostics => reply.keyword = BidAt(c).keyword
                             /\ \A d \in Candidates(r) :
                                  /\ BidAt(d).money <= BidAt(c).money
                                  /\ BidAt(d).money = BidAt(c).money => c[1] <= d[1]
    OBVIOUS
  <2>2. bids # <<>> /\ reply.id = r
    BY <1>3, <1>6, <1>8, <2>1
  <2>3. PICK c \in Candidates(r) :
          /\ reply.winner.ad = BidAt(c).ad
          /\ 10 * reply.winner.tenths - BidAt(c).money \in -5 .. 5
          /\ WinningBid(bids) = BidAt(c)
          /\ \A d \in Candidates(r) :
               /\ BidAt(d).money <= BidAt(c).money
               /\ BidAt(d).money = BidAt(c).money => c[1] <= d[1]
    BY <1>3, <1>6, <1>8, <2>1
  <2>4. diagnostics => reply.keyword = BidAt(c).keyword
    BY <1>7, <2>2, <2>3
  <2> QED BY <2>2, <2>3, <2>4
<1>10. diagnostics =>
         /\ reply.request.matches = Cardinality(Candidates(r))
         /\ Len(reply.ads) = Cardinality(Candidates(r))
         /\ {<<p.ad.id, p.bid>> : p \in ToSet(reply.ads)}
              = {<<file[c[1]].id, BidAt(c)>> : c \in Candidates(r)}
         /\ \A p \in ToSet(reply.ads), c \in Candidates(r) :
              file[c[1]].id = p.ad.id =>
                /\ p.ad.size = reply.request.size
                /\ ToSet(p.ad.bids) =
                     {<<BidAt(<<c[1], j>>).keyword, BidAt(<<c[1], j>>).money>> :
                        j \in DOMAIN file[c[1]].bids}
  BY <1>4, <1>7
<1> QED BY <1>8, <1>9, <1>10 DEF FromFile

-----------------------------------------------------------------------------
(* setPolicy begins with an empty map, and readAds takes an entry at a     *)
(* time.                                                                   *)
LEMMA StartKeepsMap ==
  ASSUME DownInv, StartServer
  PROVE  MapInv'
<1>1. file' \in Files /\ pos' = 0 /\ mapBySize' = <<>>
  BY DEF StartServer, DownInv
<1>2. 0 \in 0 .. Len(file')
  <2>1. PICK f \in Files : f = file'
    BY <1>1
  <2>2. Len(f) \in Nat
    BY FilesFacts
  <2> QED BY <2>1, <2>2
<1>3. DOMAIN mapBySize' = {}
  <2>1. PICK none : none = <<>>
    OBVIOUS
  <2>2. DOMAIN none = {}
    BY <2>1, EmptySeq
  <2> QED BY <1>1, <2>1, <2>2
<1>4. \A k \in Size : GetAdsBySize(k)' = <<>> /\ Entries(k, pos)' = {}
  BY <1>1, <1>3 DEF GetAdsBySize, Entries
<1>5. ASSUME NEW k \in Size
      PROVE  GetAdsBySize(k)' \in Seq(AdSet) /\ Listed(file, GetAdsBySize(k), Entries(k, pos))'
  <2>1. PICK f : f = file'
    OBVIOUS
  <2>2. <<>> \in Seq(AdSet) /\ Listed(f, <<>>, {})
    BY ListedNone
  <2>3. Listed(file, GetAdsBySize(k), Entries(k, pos))' = Listed(f, <<>>, {})
    BY <1>4, <2>1 DEF Listed
  <2> QED BY <1>4, <2>2, <2>3
<1> QED BY <1>1, <1>2, <1>3, <1>5 DEF MapInv

LEMMA ReadKeepsMap ==
  ASSUME MapInv, ReadAd
  PROVE  MapInv'
<1> DEFINE e == file[pos + 1]
<1>1. /\ server = "reading" /\ pos < Len(file) /\ pos' = pos + 1 /\ file' = file
      /\ mapBySize' = IF ~e.ok THEN mapBySize
                      ELSE [k \in DOMAIN mapBySize \cup {e.size} |->
                             IF k = e.size THEN Append(GetAdsBySize(k), Ad(e)) ELSE mapBySize[k]]
  BY DEF ReadAd
<1>2. /\ file \in Files /\ pos \in 0 .. Len(file) /\ DOMAIN mapBySize \subseteq Size
      /\ \A k \in Size : /\ GetAdsBySize(k) \in Seq(AdSet)
                         /\ Listed(file, GetAdsBySize(k), Entries(k, pos))
  BY <1>1 DEF MapInv
<1>3. Len(file) \in Nat /\ DOMAIN file = 1 .. Len(file) /\ \A i \in DOMAIN file : file[i] \in Entry
  BY <1>2, FilesFacts
<1>4. pos \in Nat /\ pos + 1 \in 0 .. Len(file) /\ pos + 1 \in DOMAIN file
  BY <1>1, <1>2, <1>3
<1>5. e \in Entry /\ e.size \in Size
  <2>1. e \in Entry
    BY <1>3, <1>4
  <2> QED BY <2>1 DEF Entry
<1>6. \A i \in 1 .. pos + 1 : i = pos + 1 \/ i \in 1 .. pos
  BY <1>4
<1>7. (\A i \in 1 .. pos : i \in 1 .. pos + 1) /\ pos + 1 \in 1 .. pos + 1
  BY <1>4
<1>8. DOMAIN mapBySize' \subseteq Size
  BY <1>1, <1>2, <1>5
<1>9. ASSUME NEW k \in Size
      PROVE  GetAdsBySize(k)' \in Seq(AdSet) /\ Listed(file, GetAdsBySize(k), Entries(k, pos))'
  <2>1. CASE e.ok /\ k = e.size
    <3>1. GetAdsBySize(k)' = Append(GetAdsBySize(k), Ad(e))
      BY <1>1, <2>1 DEF GetAdsBySize
    <3>2. Entries(k, pos)' = Entries(k, pos) \cup {pos + 1}
      BY <1>1, <1>6, <1>7, <2>1 DEF Entries
    <3>3. PICK m \in Nat : m = pos
      BY <1>4
    <3>4. PICK S \in SUBSET (1 .. m) : S = Entries(k, pos)
      BY <3>3 DEF Entries
    <3>5. PICK ads \in Seq(AdSet) : ads = GetAdsBySize(k)
      BY <1>2
    <3>6. PICK f \in Files : f = file
      BY <1>2
    <3>7. PICK more : more = Append(ads, Ad(f[m + 1]))
      OBVIOUS
    <3>8. more \in Seq(AdSet) /\ Listed(f, more, S \cup {m + 1})
      <4>1. Listed(f, ads, S) /\ m + 1 \in DOMAIN f
        BY <1>2, <1>4, <3>3, <3>4, <3>5, <3>6
      <4> QED BY <3>7, <4>1, ListedAppend
    <3>9. GetAdsBySize(k)' = more /\ file' = f /\ Entries(k, pos)' = S \cup {m + 1}
      BY <1>1, <3>1, <3>2, <3>3, <3>4, <3>5, <3>6, <3>7
    <3>10. Listed(file, GetAdsBySize(k), Entries(k, pos))' = Listed(f, more, S \cup {m + 1})
      BY <3>9 DEF Listed
    <3> QED BY <3>8, <3>9, <3>10
  <2>2. CASE ~(e.ok /\ k = e.size)
    <3>1. GetAdsBySize(k)' = GetAdsBySize(k)
      <4>1. CASE ~e.ok
        BY <1>1, <4>1 DEF GetAdsBySize
      <4>2. CASE e.ok
        BY <1>1, <2>2, <4>2 DEF GetAdsBySize
      <4> QED BY <4>1, <4>2
    <3>2. Entries(k, pos)' = Entries(k, pos)
      BY <1>1, <1>6, <1>7, <2>2 DEF Entries
    <3>3. Listed(file, GetAdsBySize(k), Entries(k, pos))'
            = Listed(file, GetAdsBySize(k), Entries(k, pos))
      BY <1>1, <3>1, <3>2 DEF Listed
    <3> QED BY <1>2, <3>1, <3>3
  <2> QED BY <2>1, <2>2
<1> QED BY <1>1, <1>2, <1>4, <1>8, <1>9 DEF MapInv

(* A worker looks up the ads of its request, whatever it has looked up     *)
(* before.                                                                 *)
LEMMA LooksUp ==
  ASSUME MapInv, CacheInv, NEW r \in Inputs, ~r.empty, NEW diagnostics \in BOOLEAN,
         ProcessRequest(r, diagnostics)
  PROVE  /\ CacheInv' /\ CreateSizeKey(r) # Malformed
         /\ \E reply \in Reply(Transaction(r, CreateSizeKey(r)), GetAdsBySize(CreateSizeKey(r)),
                               diagnostics) :
              last' = [input |-> r, diagnostics |-> diagnostics, reply |-> reply]
<1> DEFINE key == CreateSizeKey(r)
           ref == IF Cached(key) THEN adVector ELSE key
           ads == IF ref = None THEN <<>> ELSE GetAdsBySize(ref)
<1>1. /\ server = "up" /\ key # Malformed
      /\ prevKey' = (IF Cached(key) THEN prevKey ELSE key) /\ adVector' = ref
      /\ \E reply \in Reply(Transaction(r, key), ads, diagnostics) :
           last' = [input |-> r, diagnostics |-> diagnostics, reply |-> reply]
      /\ UNCHANGED <<useRegex, server, file, pos, mapBySize>>
  BY DEF ProcessRequest
<1>2. DOMAIN mapBySize \subseteq Size /\ ZERO_SIZE \notin Size /\ None \notin Size
  BY <1>1, MatchingAssumption DEF MapInv, MatchingAssumption
<1>3. key \in Size \cup {ZERO_SIZE}
  BY <1>1, KeyFacts
<1> HIDE DEF key
<1>4. ref = key \/ (ref = None /\ key = ZERO_SIZE /\ Cached(key))
  BY <1>1 DEF CacheInv, Cached
<1>5. ads = GetAdsBySize(key)
  <2>1. ref = None => key \notin DOMAIN mapBySize
    BY <1>2, <1>3, <1>4
  <2> QED BY <1>4, <2>1 DEF GetAdsBySize
<1>6. CacheInv'
  <2>1. pos' = Len(file')
    BY <1>1 DEF CacheInv
  <2>2. adVector' = prevKey' \/ (adVector' = None /\ prevKey' = ZERO_SIZE)
    BY <1>1 DEF CacheInv, Cached
  <2> QED BY <2>1, <2>2 DEF CacheInv
<1> QED BY <1>1, <1>5, <1>6 DEF key

(* The map has what the file has, in its order, and the cached reference   *)
(* is to the ads of the previous key: what RepliesMatch rests on.          *)
THEOREM MatchInvariant == Spec => []MatchInv
<1>1. Init => MatchInv
  BY DEF Init, MatchInv, MapInv, CacheInv, DownInv, RepliesMatch
<1>2. MatchInv /\ [Next]_vars => MatchInv'
  <2>1. SUFFICES ASSUME MatchInv, [Next]_vars
                 PROVE  MatchInv'
    OBVIOUS
  <2>2. MapInv /\ CacheInv /\ DownInv /\ RepliesMatch
    BY <2>1 DEF MatchInv
  <2>3. CASE StartServer
    <3>1. MapInv'
      BY <2>2, <2>3, StartKeepsMap
    <3>2. server' = "reading"
      BY <2>3 DEF StartServer
    <3> QED BY <3>1, <3>2 DEF MatchInv, CacheInv, DownInv, RepliesMatch
  <2>4. CASE ReadAd
    <3>1. MapInv'
      BY <2>2, <2>4, ReadKeepsMap
    <3>2. server' = "reading"
      BY <2>4 DEF ReadAd
    <3> QED BY <3>1, <3>2 DEF MatchInv, CacheInv, DownInv, RepliesMatch
  <2>5. CASE StartWorkers
    <3>1. /\ server = "reading" /\ pos = Len(file) /\ server' = "up" /\ last' = None
          /\ prevKey' = ZERO_SIZE /\ adVector' = None /\ UNCHANGED <<file, pos, mapBySize>>
      BY <2>5 DEF StartWorkers
    <3>2. MapInv'
      BY <2>2, <3>1 DEF MapInv, GetAdsBySize, Entries, Listed
    <3>3. CacheInv' /\ DownInv' /\ RepliesMatch'
      BY <3>1 DEF CacheInv, DownInv, RepliesMatch
    <3> QED BY <3>2, <3>3 DEF MatchInv
  <2>6. CASE StopServer
    <3>1. server' = "down" /\ mapBySize' = <<>>
      BY <2>6 DEF StopServer
    <3> QED BY <3>1 DEF MatchInv, MapInv, CacheInv, DownInv, RepliesMatch
  <2>7. CASE \E r \in Inputs : Terminate(r)
    <3>1. server' = "terminated"
      BY <2>7 DEF Terminate
    <3> QED BY <3>1 DEF MatchInv, MapInv, CacheInv, DownInv, RepliesMatch
  <2>8. ASSUME NEW r \in Inputs, NEW diagnostics \in BOOLEAN, ProcessRequest(r, diagnostics)
        PROVE  MatchInv'
    <3>1. server = "up" /\ UNCHANGED <<useRegex, server, file, pos, mapBySize>>
      BY <2>8 DEF ProcessRequest
    <3>2. MapInv'
      BY <2>2, <3>1 DEF MapInv, GetAdsBySize, Entries, Listed
    <3>3. /\ CacheInv'
          /\ \E reply : /\ last' = [input |-> r, diagnostics |-> diagnostics, reply |-> reply]
                        /\ Right(r, diagnostics, reply)
      <4>1. CASE r.empty
        BY <2>2, <2>8, <4>1 DEF ProcessRequest, CacheInv, Right
      <4>2. CASE ~r.empty
        <5>1. /\ CacheInv' /\ CreateSizeKey(r) # Malformed
              /\ \E reply \in Reply(Transaction(r, CreateSizeKey(r)),
                                   GetAdsBySize(CreateSizeKey(r)), diagnostics) :
                   last' = [input |-> r, diagnostics |-> diagnostics, reply |-> reply]
          BY <2>2, <2>8, <4>2, LooksUp
        <5>2. pos = Len(file)
          BY <2>2, <3>1 DEF CacheInv
        <5> QED BY <2>2, <3>1, <4>2, <5>1, <5>2, RepliesRight DEF Right
      <4> QED BY <4>1, <4>2
    <3>4. PICK reply : /\ last' = [input |-> r, diagnostics |-> diagnostics, reply |-> reply]
                       /\ Right(r, diagnostics, reply)
      BY <3>3
    <3>5. Right(r, diagnostics, reply)' = Right(r, diagnostics, reply)
      BY <3>1 DEF Right, FromFile, Candidates, BidAt, CreateSizeKey, CreateSizeKeyRegExpr
    <3>6. RepliesMatch'
      <4>1. last'.input = r /\ last'.diagnostics = diagnostics /\ last'.reply = reply
        BY <3>4
      <4>2. Right(last.input, last.diagnostics, last.reply)'
        <5>1. PICK i, d, y : i = last'.input /\ d = last'.diagnostics /\ y = last'.reply
          OBVIOUS
        <5>2. Right(i, d, y)'
          BY <3>4, <3>5, <4>1, <5>1
        <5> HIDE DEF Right
        <5> QED BY <5>1, <5>2
      <4> QED BY <4>2 DEF RepliesMatch
    <3>7. DownInv'
      BY <3>1 DEF DownInv
    <3> QED BY <3>2, <3>3, <3>6, <3>7 DEF MatchInv
  <2>9. CASE UNCHANGED vars
    <3>1. UNCHANGED <<useRegex, server, file, pos, mapBySize, prevKey, adVector, last>>
      BY <2>9 DEF vars
    <3>2. MapInv' /\ CacheInv' /\ DownInv'
      BY <2>2, <3>1 DEF MapInv, CacheInv, DownInv, GetAdsBySize, Entries, Listed
    <3>3. RepliesMatch' = RepliesMatch
      BY <3>1 DEF RepliesMatch, Right, FromFile, Candidates, BidAt, CreateSizeKey,
                  CreateSizeKeyRegExpr
    <3> QED BY <2>2, <3>2, <3>3 DEF MatchInv
  <2> QED BY <2>1, <2>3, <2>4, <2>5, <2>6, <2>7, <2>8, <2>9 DEF Next
<1> QED BY <1>1, <1>2, PTL DEF Spec

(* A worker answers every request as the file of its server would have it  *)
(* answered, whatever sizes it has served before and whatever was read by  *)
(* the servers before: for any file of well formed ads and any requests.   *)
THEOREM RepliesMatchAlways == Spec => []RepliesMatch
<1>1. MatchInv => RepliesMatch
  BY DEF MatchInv
<1> QED BY <1>1, MatchInvariant, PTL

=============================================================================
