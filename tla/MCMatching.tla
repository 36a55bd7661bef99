----------------------------- MODULE MCMatching -----------------------------
(* Two files that give one size different ads: several ads of a size, ties *)
(* between ads and within one, bids of 0, an ad without bids, an entry     *)
(* that is not well formed.                                                *)
EXTENDS Matching

CONSTANTS s1, s2, s3

Sizes == {s1, s2, s3}

(* Bids in steps of 9 cents, one of which is 45.                           *)
B(k, m) == [keyword |-> k, money |-> 9 * m]
E(ok, id, size, bids) ==
  [ok |-> ok, id |-> id, size |-> size, defaultBid |-> 18, bids |-> bids]

TwoFiles ==
  { << E(TRUE, 1, s1, <<B(2, 0), B(1, 1)>>),
       E(FALSE, 2, s1, <<B(1, 5)>>),
       E(TRUE, 3, s2, <<B(1, 1)>>),
       E(TRUE, 4, s1, <<B(3, 3), B(1, 3), B(2, 1)>>),
       E(TRUE, 5, s1, <<B(1, 3)>>) >>,
    << E(TRUE, 6, s1, <<>>),
       E(TRUE, 7, s2, <<B(3, 5), B(2, 0), B(1, 1)>>) >> }

WordLists == SeqOf(1 .. 3, 2) \cup {<<2, 1, 2>>}

(* Sizes that are whole; one without its numbers, after which others come  *)
(* or not; and the empty request.                                          *)
Requests ==
  [reg : Sizes \cup {None}, alt : {None, s1}, next : {None}, kw : WordLists \cup {None},
   keywords : {<<3>>}, empty : {FALSE}]
    \cup
  [reg : {s1}, alt : {None, s2}, next : {None}, kw : {None, <<1>>}, keywords : {None, <<2, 3>>},
   empty : {FALSE}]
    \cup
  [reg : {Malformed}, alt : {None, s2}, next : {None, s2}, kw : {None, <<1>>},
   keywords : {None, <<2, 3>>}, empty : {FALSE}]
    \cup
  {[reg |-> None, alt |-> None, next |-> None, kw |-> None, keywords |-> None, empty |-> TRUE]}

=============================================================================
