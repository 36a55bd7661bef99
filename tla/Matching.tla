------------------------------ MODULE Matching ------------------------------
(***************************************************************************)
(* The answer to a request: Ad::readAds, the policies that match requests  *)
(* with ads, and Transaction, as one worker thread calls them.             *)
(*                                                                         *)
(* The ads are a map from the size of an ad to the ads of that size in the *)
(* order of the file.  A worker keeps, in thread_local variables, the size *)
(* of its previous request and a reference to the ads of that size; they   *)
(* begin anew with the worker, that is with every start of the server,     *)
(* which reads its file again into the static map.                         *)
(*                                                                         *)
(* A keyword is a number, in the order of its string; a bid is in cents.   *)
(* A request is what its parser looks for: the size in each of the two     *)
(* forms, the two numbers that follow a form without its own, and the      *)
(* keywords after "kw=" and after "keywords="; or it is empty.  Its key    *)
(* has been computed by preprocessNext (TaskController); both policies     *)
(* come to the same answer, they differ in the order of the calls.         *)
(***************************************************************************)
EXTENDS Integers, SequencesExt

CONSTANTS
  Size,       \* the sizes of ads and requests
  ZERO_SIZE,  \* the key of a request without a size
  Malformed,  \* a size without its two numbers
  None,
  Files,      \* the files of ads a server may be started with
  Inputs      \* the requests a worker may be given

Keyword == Nat

Entry == [ok : BOOLEAN, id : Nat, size : Size, defaultBid : Nat,
          bids : Seq([keyword : Keyword, money : Nat])]
Input == [reg : Size \cup {None, Malformed}, alt : Size \cup {None, Malformed},
          next : Size \cup {None},
          kw : Seq(Keyword) \cup {None}, keywords : Seq(Keyword) \cup {None},
          empty : BOOLEAN]

(* An ad names a keyword once, and has its own id; None is no winner.      *)
ASSUME MatchingAssumption ==
  /\ {ZERO_SIZE, Malformed, None} \cap Size = {}
  /\ None \notin [ad : Nat, tenths : Nat]
  /\ Inputs \subseteq Input
  /\ \A r \in Inputs : r.empty => r.reg = None /\ r.alt = None
  /\ Files \subseteq Seq(Entry)
  /\ \A f \in Files : \A i, j \in DOMAIN f :
       /\ f[i].id = f[j].id => i = j
       /\ \A m, n \in DOMAIN f[i].bids :
            f[i].bids[m].keyword = f[i].bids[n].keyword => m = n

VARIABLES
  useRegex,   \* ServerOptions::_useRegex, never changed
  server,     \* "down", "reading" its file, "up" or "terminated"
  file,       \* the file of ads
  pos,        \* the number of its entries that have been read
  mapBySize,  \* Ad::_mapBySize
  prevKey,    \* thread_local of the worker: the key of the previous request
  adVector,   \* thread_local of the worker: the key whose ads it refers to
  last        \* the last request of the worker, its reply, _diagnostics

vars == <<useRegex, server, file, pos, mapBySize, prevKey, adVector, last>>
worker == <<prevKey, adVector, last>>

-----------------------------------------------------------------------------
(* Ad.                                                                     *)

(* std::sort of a sequence by the numbers that key gives its elements.     *)
Sort(s, key) ==
  LET order == CHOOSE p \in Bijection(DOMAIN s, DOMAIN s) :
                 \A i, j \in DOMAIN s : i < j => key[p[i]] <= key[p[j]]
  IN  [i \in DOMAIN s |-> s[order[i]]]

MoneyOf(e, m) == IF m = 0 THEN e.defaultBid ELSE m

(* parseArray: a bid of 0 is the default bid; a bid points to its ad.      *)
Bids(e) ==
  Sort([i \in DOMAIN e.bids |-> [ad |-> e.id, keyword |-> e.bids[i].keyword,
                                 money |-> MoneyOf(e, e.bids[i].money)]],
       [i \in DOMAIN e.bids |-> e.bids[i].keyword])

Ad(e) == [id |-> e.id, size |-> e.size, defaultBid |-> e.defaultBid, bids |-> Bids(e)]

GetAdsBySize(key) == IF key \in DOMAIN mapBySize THEN mapBySize[key] ELSE <<>>

(* The weak pointer of a bid, locked: its ad, which the map owns.          *)
Lock(bid) ==
  CHOOSE ad \in UNION {ToSet(mapBySize[k]) : k \in DOMAIN mapBySize} : ad.id = bid.ad

(* setPolicy; the map is empty, Ad::clear has seen to it.                  *)
StartServer ==
  /\ server = "down" /\ server' = "reading"
  /\ file' \in Files
  /\ pos' = 0
  /\ UNCHANGED <<useRegex, mapBySize, worker>>

(* An entry that is not well formed is skipped.                            *)
ReadAd ==
  LET e == file[pos + 1] IN
  /\ server = "reading" /\ pos < Len(file)
  /\ pos' = pos + 1
  /\ mapBySize' =
       IF ~e.ok THEN mapBySize
       ELSE [k \in DOMAIN mapBySize \cup {e.size} |->
              IF k = e.size THEN Append(GetAdsBySize(k), Ad(e)) ELSE mapBySize[k]]
  /\ UNCHANGED <<useRegex, server, file, worker>>

(* TaskController::create: new workers, with their own thread_locals.      *)
StartWorkers ==
  /\ server = "reading" /\ pos = Len(file)
  /\ server' = "up"
  /\ prevKey' = ZERO_SIZE /\ adVector' = None /\ last' = None
  /\ UNCHANGED <<useRegex, file, pos, mapBySize>>

(* Server::stop joins the workers, and ~Server clears the ads.             *)
StopServer ==
  /\ server = "up" /\ server' = "down"
  /\ mapBySize' = <<>>
  /\ UNCHANGED <<useRegex, file, pos, worker>>

-----------------------------------------------------------------------------
(* Transaction.                                                            *)

(* A form must have its numbers; where neither has them the empty match    *)
(* throws.                                                                 *)
CreateSizeKeyRegExpr(r) ==
  CASE r.reg \in Size -> r.reg
    [] r.reg \notin Size /\ r.alt \in Size -> r.alt
    [] OTHER -> Malformed

(* Without a regular expression the two numbers may be any that come after *)
(* the form; where there are not two it throws.                            *)
CreateSizeKey(r) ==
  LET form == IF r.reg # None THEN r.reg ELSE r.alt IN
  CASE useRegex -> CreateSizeKeyRegExpr(r)
    [] ~useRegex /\ form = None -> ZERO_SIZE
    [] ~useRegex /\ form = Malformed -> IF r.next # None THEN r.next ELSE Malformed
    [] OTHER -> form

(* parseKeywords: "kw=", and "keywords=" if there is none.                 *)
Words(r) ==
  CASE r.kw # None -> r.kw
    [] r.kw = None /\ r.keywords # None -> r.keywords
    [] OTHER -> <<>>

(* The constructors, with init: a request without a size has no id and no  *)
(* keywords.                                                               *)
Transaction(r, key) ==
  [id       |-> IF key = ZERO_SIZE THEN None ELSE r,
   sizeKey  |-> key,
   keywords |-> IF key = ZERO_SIZE THEN <<>> ELSE Sort(Words(r), Words(r))]

(* The loop of std::set_intersection, with the Comparator: the places it   *)
(* has come to in the bids and in the keywords, and what it has put out.   *)
Advance(bids, words, s) ==
  IF s.bid > Len(bids) \/ s.word > Len(words) THEN s
  ELSE CASE bids[s.bid].keyword < words[s.word] -> [s EXCEPT !.bid = @ + 1]
         [] words[s.word] < bids[s.bid].keyword -> [s EXCEPT !.word = @ + 1]
         [] OTHER -> [bid |-> s.bid + 1, word |-> s.word + 1, out |-> Append(s.out, bids[s.bid])]

SetIntersection(bids, words) ==
  LET loop[n \in 0 .. Len(bids) + Len(words)] ==
        IF n = 0 THEN [bid |-> 1, word |-> 1, out |-> <<>>]
        ELSE Advance(bids, words, loop[n - 1])
  IN  loop[Len(bids) + Len(words)].out

(* matchAds.                                                               *)
Matches(ads, words) ==
  FlattenSeq([n \in DOMAIN ads |-> SetIntersection(ads[n].bids, words)])

(* findWinningBid: the first of the highest bids.                          *)
WinningBid(bids) ==
  CHOOSE b \in ToSet(bids) : \E i \in DOMAIN bids :
    /\ b = bids[i]
    /\ \A j \in DOMAIN bids : bids[j].money <= b.money
    /\ \A j \in 1 .. i - 1 : bids[j].money < b.money

(* toChars with a precision of 1: the tenths nearest to an amount in cents *)
(* (for 5 cents either one, as the double falls).                          *)
Tenths(m) == {t \in {m \div 10, m \div 10 + 1} : 10 * t - 5 <= m /\ m <= 10 * t + 5}

(* printSummary and EMPTY_REPLY.                                           *)
Summary(t, bids) ==
  IF bids = <<>> THEN {[id |-> t.id, winner |-> None]}
  ELSE {[id |-> t.id, winner |-> [ad |-> Lock(WinningBid(bids)).id, tenths |-> m]] :
          m \in Tenths(WinningBid(bids).money)}

(* Ad::print and printBids.                                                *)
PrintAd(ad) ==
  [ad EXCEPT !.bids = [i \in DOMAIN ad.bids |-> <<ad.bids[i].keyword, ad.bids[i].money>>]]

PrintRequestData(t, bids) ==
  [size |-> t.sizeKey, matches |-> Len(bids), keywords |-> t.keywords]

(* Every bid follows its ad.                                               *)
PrintMatchingAds(bids) ==
  [i \in DOMAIN bids |-> [ad |-> PrintAd(Lock(bids[i])), bid |-> bids[i]]]

PrintWinningAd(bids) == IF bids = <<>> THEN None ELSE WinningBid(bids).keyword

(* printDiagnostics.  It never says that a request is invalid: one without *)
(* a size has no match, which is looked at first.                          *)
Diagnostics(t, bids) ==
  {[id |-> reply.id, request |-> PrintRequestData(t, bids), ads |-> PrintMatchingAds(bids),
    keyword |-> PrintWinningAd(bids), winner |-> reply.winner] :
     reply \in Summary(t, bids)}

Reply(t, ads, diagnostics) ==
  LET bids == Matches(ads, t.keywords) IN
  IF diagnostics THEN Diagnostics(t, bids) ELSE Summary(t, bids)

(* processRequestSort, processRequestNoSort: an empty request is invalid;  *)
(* the ads are looked up when the key differs from the previous one.       *)
Unknown == "[unknown] Invalid request"

LookedUpOnce(key) == adVector # None
Cached(key) == key = prevKey

ProcessRequest(r, diagnostics) ==
  LET key == CreateSizeKey(r)
      ref == IF Cached(key) THEN adVector ELSE key
      ads == IF ref = None THEN <<>> ELSE GetAdsBySize(ref)
  IN
  /\ server = "up" /\ key # Malformed
  /\ \E reply \in IF r.empty THEN {Unknown} ELSE Reply(Transaction(r, key), ads, diagnostics) :
       last' = [input |-> r, diagnostics |-> diagnostics, reply |-> reply]
  /\ IF r.empty THEN UNCHANGED <<prevKey, adVector>>
     ELSE /\ prevKey' = IF Cached(key) THEN prevKey ELSE key
          /\ adVector' = ref
  /\ UNCHANGED <<useRegex, server, file, pos, mapBySize>>

(* What createSizeKey throws leaves a noexcept function.                   *)
Terminate(r) ==
  /\ server = "up" /\ server' = "terminated"
  /\ CreateSizeKey(r) = Malformed
  /\ UNCHANGED <<useRegex, file, pos, mapBySize, worker>>

-----------------------------------------------------------------------------
Init ==
  /\ useRegex \in BOOLEAN
  /\ server = "down"
  /\ file = <<>> /\ pos = 0
  /\ mapBySize = <<>>
  /\ prevKey = ZERO_SIZE /\ adVector = None /\ last = None

Next ==
  \/ StartServer \/ ReadAd \/ StartWorkers \/ StopServer
  \/ \E r \in Inputs :
       Terminate(r) \/ \E diagnostics \in BOOLEAN : ProcessRequest(r, diagnostics)

Spec == Init /\ [][Next]_vars

-----------------------------------------------------------------------------
(* What a reader of the file would answer: the bids of the well formed     *)
(* entries of the request's size on one of its keywords.                   *)
Candidates(r) ==
  LET key == CreateSizeKey(r)
      words == IF r.kw # None THEN r.kw ELSE r.keywords
  IN  {c \in UNION {{i} \X DOMAIN file[i].bids : i \in DOMAIN file} :
         LET e == file[c[1]] IN
         /\ e.ok /\ e.size = key
         /\ words # None /\ e.bids[c[2]].keyword \in ToSet(words)}

BidAt(c) ==
  LET e == file[c[1]] b == e.bids[c[2]] IN
  [ad |-> e.id, keyword |-> b.keyword, money |-> IF b.money = 0 THEN e.defaultBid ELSE b.money]

(* The reply is the one the file gives: no winner where no bid fits;       *)
(* otherwise a highest bid, to five cents, of the first ad of the file     *)
(* that has it; and, in the diagnostics, the keyword of this bid and every *)
(* bid that fits, once, though a keyword of the request is repeated, each  *)
(* with its own ad and all the bids of that ad.                            *)
FromFile(input, diagnostics, reply) ==
  LET fits == Candidates(input) IN
  /\ (fits = {}) <=> (reply.winner = None)
  /\ reply.winner # None =>
       /\ reply.id = input
       /\ \E c \in fits :
            /\ reply.winner.ad = BidAt(c).ad
            /\ 10 * reply.winner.tenths - BidAt(c).money \in -5 .. 5
            /\ diagnostics => reply.keyword = BidAt(c).keyword
            /\ \A d \in fits :
                 /\ BidAt(d).money <= BidAt(c).money
                 /\ BidAt(d).money = BidAt(c).money => c[1] <= d[1]
  /\ diagnostics =>
       /\ reply.request.matches = Cardinality(fits) /\ Len(reply.ads) = Cardinality(fits)
       /\ {<<p.ad.id, p.bid>> : p \in ToSet(reply.ads)}
            = {<<file[c[1]].id, BidAt(c)>> : c \in fits}
       /\ \A p \in ToSet(reply.ads), c \in fits :
            file[c[1]].id = p.ad.id =>
              /\ p.ad.size = reply.request.size
              /\ ToSet(p.ad.bids) = {<<BidAt(<<c[1], j>>).keyword, BidAt(<<c[1], j>>).money>> :
                                       j \in DOMAIN file[c[1]].bids}

Right(input, diagnostics, reply) ==
  IF input.empty THEN reply = Unknown ELSE FromFile(input, diagnostics, reply)

(* Whatever sizes the worker has served before, and whatever file an       *)
(* earlier server in the process has read, its reply is right: the cached  *)
(* reference is to the ads of the request's size, in this server's map.    *)
RepliesMatch ==
  server = "up" /\ last # None => Right(last.input, last.diagnostics, last.reply)

=============================================================================
