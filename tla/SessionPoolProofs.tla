------------------------- MODULE SessionPoolProofs -------------------------
(***************************************************************************)
(* The safety of the pool of sessions for any sessions, types and limits.  *)
(*                                                                         *)
(* The argument has three parts.  ThreadInv: the threads there are are the *)
(* first ones, as many as _threads has, never more than MaxTotalSessions,  *)
(* and a thread has a session between get and the end of the run.          *)
(* CountInv: a counter of Runnable.h is the number of threads between the  *)
(* two statements that change it, so that it stays within the number of    *)
(* threads whatever the order of these statements.  PlaceInv: a session is *)
(* at one place, in the hands of its creator, in the queue or with a       *)
(* thread, and nowhere before its constructor has told its client.         *)
(***************************************************************************)
EXTENDS SessionPool, FiniteSetTheorems, SequenceTheorems, TLAPS

WithSession == {"countType", "countTotal", "run", "uncountType", "uncountTotal"}

ThreadInv ==
  /\ \A t \in Thread :
       /\ tpc[t] = "scan" <=> scanner = t
       /\ tpc[t] # "absent" <=> t <= size
       /\ ses[t] # None <=> tpc[t] \in WithSession
  /\ creating # None <=> cpc # "idle"
  /\ size <= MaxTotal

(* The threads inside CountRunning, as either counter sees them.           *)
CountedType(y) ==
  {t \in Thread : tpc[t] \in {"countTotal", "run", "uncountType"} /\ TypeOf[ses[t]] = y}
CountedTotal == {t \in Thread : tpc[t] \in {"run", "uncountType", "uncountTotal"}}

CountInv ==
  /\ \A y \in Type : running[y] = Cardinality(CountedType(y))
  /\ runTotal = Cardinality(CountedTotal)

PlaceInv ==
  /\ \A t, u \in Thread : ses[t] # None /\ ses[t] = ses[u] => t = u
  /\ \A i, j \in 1 .. Len(queue) : queue[i] = queue[j] => i = j
  /\ \A t \in Thread, i \in 1 .. Len(queue) : ses[t] # queue[i]
  /\ \A i \in 1 .. Len(queue) : queue[i] # creating /\ told[queue[i]] # None
  /\ \A t \in Thread :
       ses[t] # None => ses[t] # creating /\ told[ses[t]] # None
  /\ creating # None => told[creating] # None

PoolInv == TypeOK /\ ThreadInv /\ CountInv /\ PlaceInv

-----------------------------------------------------------------------------
(* Sets of threads are finite, so the counters are.                        *)
LEMMA ThreadsFinite ==
  \A S \in SUBSET Thread : IsFiniteSet(S) /\ Cardinality(S) \in Nat
<1>1. IsFiniteSet(Thread)
  BY PoolAssumption, FS_Interval DEF PoolAssumption, Thread
<1>2. ASSUME NEW S \in SUBSET Thread PROVE IsFiniteSet(S)
  BY <1>1, FS_Subset
<1> QED BY <1>2, FS_CardinalityType

LEMMA OneMore ==
  ASSUME NEW S \in SUBSET Thread, NEW t \in Thread, t \notin S
  PROVE  Cardinality(S \union {t}) = Cardinality(S) + 1
BY ThreadsFinite, FS_AddElement

LEMMA OneFewer ==
  ASSUME NEW S \in SUBSET Thread, NEW t \in S
  PROVE  Cardinality(S \ {t}) = Cardinality(S) - 1
BY ThreadsFinite, FS_RemoveElement

(* The limit of a use is one the model has threads for.                    *)
LEMMA MaxFacts ==
  ASSUME use \in Uses
  PROVE  MaxTotal \in 1 .. Slots /\ Slots \in Nat
BY PoolAssumption DEF PoolAssumption, Use, MaxTotal

(* A notification moves threads that sleep, and no others.                 *)
LEMMA Notification ==
  ASSUME TypeOK, NotifyOne \/ tpc' = Awake(Asleep)
  PROVE  /\ tpc' \in [Thread -> ThreadPlace]
         /\ \A t \in Thread :
              tpc'[t] = tpc[t] \/ (tpc[t] = "asleep" /\ tpc'[t] = "get")
<1>1. tpc \in [Thread -> ThreadPlace] /\ "get" \in ThreadPlace
  BY DEF TypeOK, ThreadPlace
<1>2. ASSUME NEW S \in SUBSET Asleep, tpc' = Awake(S)
      PROVE  /\ tpc' \in [Thread -> ThreadPlace]
             /\ \A t \in Thread :
                  tpc'[t] = tpc[t] \/ (tpc[t] = "asleep" /\ tpc'[t] = "get")
  BY <1>1, <1>2 DEF Awake, Asleep
<1>3. CASE tpc' = tpc
  BY <1>1, <1>3
<1>4. CASE NotifyOne
  BY <1>2, <1>3, <1>4 DEF NotifyOne
<1> QED BY <1>2, <1>4

(* The counter of objects wraps within its width.                          *)
LEMMA Wrapped == \A n \in Int : n % Wrap \in 0 .. Wrap - 1
BY PoolAssumption DEF PoolAssumption

(* The queue without its element at pos.                                   *)
LEMMA RemainingFacts ==
  ASSUME queue \in Seq(Session), pos \in 1 .. Len(queue)
  PROVE  /\ Remaining \in Seq(Session)
         /\ Len(Remaining) = Len(queue) - 1
         /\ \A i \in 1 .. Len(Remaining) :
              Remaining[i] = queue[IF i < pos THEN i ELSE i + 1]
<1> DEFINE front == SubSeq(queue, 1, pos - 1)
           back == SubSeq(queue, pos + 1, Len(queue))
<1>1. /\ front \in Seq(Session) /\ Len(front) = pos - 1
      /\ \A i \in 1 .. pos - 1 : front[i] = queue[i]
  OBVIOUS
<1>2. /\ back \in Seq(Session) /\ Len(back) = Len(queue) - pos
      /\ \A i \in 1 .. Len(queue) - pos : back[i] = queue[pos + i]
  OBVIOUS
<1> HIDE DEF front, back
<1>3. /\ front \o back \in Seq(Session)
      /\ Len(front \o back) = Len(queue) - 1
      /\ \A i \in 1 .. Len(front) + Len(back) :
           (front \o back)[i] = IF i <= Len(front) THEN front[i] ELSE back[i - Len(front)]
  <2>1. Len(front) + Len(back) = Len(queue) - 1
    BY <1>1, <1>2, LenProperties
  <2> QED BY <1>1, <1>2, <2>1, ConcatProperties
<1>4. Remaining = front \o back
  BY DEF Remaining, front, back
<1>5. ASSUME NEW i \in 1 .. Len(queue) - 1
      PROVE  (front \o back)[i] = queue[IF i < pos THEN i ELSE i + 1]
  <2>1. Len(queue) \in Nat
    BY LenProperties
  <2>2. CASE i < pos
    BY <1>1, <1>2, <1>3, <2>1, <2>2
  <2>3. CASE ~(i < pos)
    <3> DEFINE k == i - Len(front)
    <3>1. k \in 1 .. Len(queue) - pos /\ pos + k = i + 1 /\ ~(i <= Len(front))
      BY <1>1, <2>1, <2>3
    <3>2. i \in 1 .. Len(front) + Len(back)
      BY <1>1, <1>2, <2>1
    <3>3. (front \o back)[i] = back[k]
      BY <1>3, <3>1, <3>2
    <3> HIDE DEF k
    <3>4. back[k] = queue[i + 1]
      BY <1>2, <3>1
    <3> QED BY <2>3, <3>3, <3>4
  <2> QED BY <2>2, <2>3
<1> QED BY <1>3, <1>4, <1>5

LEMMA PoolInit == Init => PoolInv
<1> SUFFICES ASSUME Init PROVE PoolInv
  OBVIOUS
<1>1. TypeOK
  <2>1. running \in [Type -> Nat] /\ status \in [Session -> Status]
        /\ tpc \in [Thread -> ThreadPlace]
    BY DEF Init, Status, ThreadPlace
  <2>2. told \in [Session -> Status \union {None}] /\ ses \in [Thread -> Session \union {None}]
    BY DEF Init
  <2>3. total \in 0 .. Wrap - 1 /\ size \in 0 .. Slots
    BY PoolAssumption DEF PoolAssumption, Init
  <2>4. queue \in Seq(Session) /\ halted \in SUBSET Session
    BY DEF Init
  <2>5. /\ scanner \in Thread \union {0} /\ pos \in Nat \ {0} /\ runTotal \in Nat
        /\ creating \in Session \union {None}
    BY DEF Init
  <2> QED BY <2>1, <2>2, <2>3, <2>4, <2>5 DEF Init, TypeOK
<1>2. ThreadInv
  BY MaxFacts DEF Init, ThreadInv, Thread, WithSession
<1>3. CountedTotal = {} /\ \A y \in Type : CountedType(y) = {}
  BY DEF Init, CountedTotal, CountedType
<1>4. CountInv
  BY <1>3, FS_EmptySet DEF Init, CountInv
<1>5. PlaceInv
  BY DEF Init, PlaceInv
<1> QED BY <1>1, <1>2, <1>4, <1>5 DEF PoolInv

-----------------------------------------------------------------------------
(* The steps of the creator.                                               *)
LEMMA CreatorTypes ==
  ASSUME PoolInv, CreatorStep \/ \E s \in Session : Construct(s)
  PROVE  TypeOK' /\ ThreadInv'
<1> USE PoolAssumption DEF PoolAssumption, PoolInv, TypeOK, ThreadInv, Status, ThreadPlace,
      counters, creator, threads, stop, Thread, MaxTotal
<1>1. ASSUME NEW s \in Session, Construct(s) PROVE TypeOK' /\ ThreadInv'
  BY <1>1 DEF Construct
<1>2. CASE AddObject
  <2>1. total' \in 0 .. Wrap - 1
    <3>1. total + 1 \in Int
      OBVIOUS
    <3> QED BY <1>2, <3>1, Wrapped DEF AddObject
  <2> QED BY <1>2, <2>1 DEF AddObject
<1>3. CASE Condition1
  BY <1>3 DEF Condition1, MoreObjects
<1>4. CASE CreateThread
  <2>1. size < MaxTotal /\ size + 1 \in 1 .. Slots /\ size + 1 # scanner
    BY <1>4, MaxFacts DEF CreateThread, BelowMaximum, WithSession
  <2>2. tpc[size + 1] = "absent"
    BY <2>1
  <2>3. ses[size + 1] = None
    BY <2>1, <2>2 DEF WithSession
  <2>4. size + 1 <= MaxTotal
    BY <2>1, MaxFacts
  <2>5. /\ size' = size + 1 /\ size + 1 \in Thread
        /\ tpc' = [tpc EXCEPT ![size + 1] = "get"]
        /\ ses' = ses /\ scanner' = scanner /\ use' = use
        /\ creating' = creating /\ cpc # "idle" /\ cpc' # "idle"
    BY <1>4, <2>1 DEF CreateThread
  <2>6. \A t \in Thread : tpc'[t] = IF t = size + 1 THEN "get" ELSE tpc[t]
    BY <2>5
  <2>7. \A t \in Thread : tpc'[t] # "absent" <=> t <= size'
    BY <2>1, <2>5, <2>6
  <2>8. \A t \in Thread : tpc'[t] = "scan" <=> scanner' = t
    BY <2>1, <2>2, <2>5, <2>6
  <2>9. \A t \in Thread : ses'[t] # None <=> tpc'[t] \in WithSession
    BY <2>3, <2>5, <2>6 DEF WithSession
  <2>10. ThreadInv'
    BY <2>4, <2>5, <2>7, <2>8, <2>9
  <2>11. tpc' \in [Thread -> ThreadPlace] /\ size' \in 0 .. Slots
    BY <2>1, <2>5
  <2>12. TypeOK'
    <3> HIDE DEF ThreadPlace, Thread, ThreadInv
    <3> QED BY <1>4, <2>11 DEF CreateThread
  <2> QED BY <2>10, <2>12
<1>5. CASE SetStatus
  BY <1>5 DEF SetStatus
<1>6. CASE Push
  <2>1. tpc' \in [Thread -> ThreadPlace]
        /\ \A t \in Thread : tpc'[t] = tpc[t] \/ (tpc[t] = "asleep" /\ tpc'[t] = "get")
    BY <1>6, Notification DEF Push
  <2>2. queue' \in Seq(Session)
    BY <1>6, AppendProperties DEF Push
  <2> HIDE DEF ThreadPlace, Thread
  <2> QED BY <1>6, <2>1, <2>2 DEF Push, WithSession
<1> QED BY <1>1, <1>2, <1>3, <1>4, <1>5, <1>6 DEF CreatorStep

LEMMA CreatorCounts ==
  ASSUME PoolInv, CreatorStep \/ \E s \in Session : Construct(s)
  PROVE  CountInv'
<1>1. counters' = counters /\ ses' = ses
  BY DEF CreatorStep, Construct, AddObject, Condition1, CreateThread, SetStatus, Push,
         counters, threads
<1>2. ASSUME NEW t \in Thread
      PROVE  tpc'[t] = tpc[t] \/ (tpc[t] \in {"absent", "asleep"} /\ tpc'[t] = "get")
  <2>1. CASE CreateThread
    <3>1. size + 1 \in Thread => tpc[size + 1] = "absent"
      BY DEF PoolInv, TypeOK, ThreadInv
    <3> QED BY <2>1, <3>1 DEF CreateThread, PoolInv, TypeOK
  <2>2. CASE Push
    BY <2>2, Notification DEF Push, PoolInv
  <2>3. CASE ~(CreateThread \/ Push)
    BY <2>3 DEF CreatorStep, Construct, AddObject, Condition1, SetStatus, threads
  <2> QED BY <2>1, <2>2, <2>3
<1>3. CountedTotal' = CountedTotal /\ \A y \in Type : CountedType(y)' = CountedType(y)
  BY <1>1, <1>2 DEF CountedTotal, CountedType
<1> QED BY <1>1, <1>3 DEF PoolInv, CountInv, counters

LEMMA CreatorPlaces ==
  ASSUME PoolInv, CreatorStep \/ \E s \in Session : Construct(s)
  PROVE  PlaceInv'
<1> USE DEF PoolInv, PlaceInv, threads
<1>1. ASSUME NEW s \in Session, Construct(s) PROVE PlaceInv'
  <2>1. creating = None /\ told[s] = None /\ None \notin Session \union Status
    BY <1>1, PoolAssumption DEF PoolAssumption, Construct, ThreadInv
  <2>2. creating' = s /\ queue' = queue /\ ses' = ses /\ told'[s] # None
    BY <1>1, <2>1 DEF Construct, TypeOK
  <2>3. \A r \in Session : told[r] # None => r # s /\ told'[r] = told[r]
    BY <1>1, <2>1 DEF Construct, TypeOK
  <2>4. /\ \A t \in Thread : ses[t] \in Session \union {None}
        /\ \A i \in 1 .. Len(queue) : queue[i] \in Session
    BY DEF TypeOK
  <2> QED BY <2>1, <2>2, <2>3, <2>4
<1>2. CASE AddObject
  BY <1>2 DEF AddObject
<1>3. CASE Condition1
  BY <1>3 DEF Condition1
<1>4. CASE CreateThread
  BY <1>4 DEF CreateThread
<1>5. CASE SetStatus
  BY <1>5 DEF SetStatus
<1>6. CASE Push
  <2>1. /\ Len(queue') = Len(queue) + 1
        /\ queue'[Len(queue) + 1] = creating
        /\ \A i \in 1 .. Len(queue) : queue'[i] = queue[i]
    BY <1>6 DEF Push, TypeOK
  <2>2. creating # None /\ creating' = None /\ told' = told /\ ses' = ses
    BY <1>6 DEF Push, ThreadInv
  <2>3. \A i \in 1 .. Len(queue) : queue[i] \in Session
    BY DEF TypeOK
  <2>4. Len(queue) \in Nat
    BY LenProperties DEF TypeOK
  <2>5. \A i \in 1 .. Len(queue') : i \in 1 .. Len(queue) \/ i = Len(queue) + 1
    BY <2>1, <2>4
  <2>6. \A t \in Thread : ses[t] # creating
    BY <2>2
  <2>7. \A i, j \in 1 .. Len(queue') : queue'[i] = queue'[j] => i = j
    BY <2>1, <2>5
  <2>8. \A t \in Thread, i \in 1 .. Len(queue') : ses'[t] # queue'[i]
    BY <2>1, <2>2, <2>5, <2>6
  <2>9. \A i \in 1 .. Len(queue') : queue'[i] # creating' /\ told'[queue'[i]] # None
    <3>1. creating \in Session /\ creating # None /\ told[creating] # None
      BY <2>2 DEF TypeOK
    <3>2. ASSUME NEW i \in 1 .. Len(queue) PROVE queue[i] # None /\ told[queue[i]] # None
      BY <2>3, PoolAssumption DEF PoolAssumption
    <3>3. ASSUME NEW i \in 1 .. Len(queue')
          PROVE  queue'[i] # creating' /\ told'[queue'[i]] # None
      BY <2>1, <2>2, <2>5, <3>1, <3>2
    <3> QED BY <3>3
  <2> QED BY <2>2, <2>7, <2>8, <2>9
<1> QED BY <1>1, <1>2, <1>3, <1>4, <1>5, <1>6 DEF CreatorStep

-----------------------------------------------------------------------------
(* The steps of a thread.                                                  *)
ThreadStep(t) == GetStep(t) \/ RunStep(t) \/ Leave(t)

LEMMA CountersNatural ==
  ASSUME CountInv'
  PROVE  runTotal' \in Nat /\ \A y \in Type : running'[y] \in Nat
<1>1. CountedTotal' \in SUBSET Thread /\ \A y \in Type : CountedType(y)' \in SUBSET Thread
  BY DEF CountedTotal, CountedType
<1> QED BY <1>1, ThreadsFinite DEF CountInv

LEMMA ThreadTypes ==
  ASSUME PoolInv, NEW t \in Thread, ThreadStep(t), CountInv'
  PROVE  TypeOK' /\ ThreadInv'
<1> USE DEF PoolInv, counters, creator, threads, stop, MaxTotal
<1>0. /\ tpc \in [Thread -> ThreadPlace] /\ ses \in [Thread -> Session \union {None}]
      /\ 0 \notin Thread
  BY DEF TypeOK, Thread
<1>1. CASE StartScan(t)
  <2>1. \A u \in Thread : tpc[u] # "scan"
    BY <1>0, <1>1 DEF StartScan, ThreadInv
  <2>2. ThreadInv'
    BY <1>0, <1>1, <2>1 DEF StartScan, ThreadInv, WithSession
  <2> QED BY <1>1, <2>2 DEF StartScan, TypeOK, ThreadPlace
<1>2. CASE GetNothing(t)
  BY <1>0, <1>2 DEF GetNothing, TypeOK, ThreadInv, ThreadPlace, WithSession
<1>3. CASE Take(t)
  <2>1. queue' \in Seq(Session) /\ queue[pos] \in Session
    BY <1>3, RemainingFacts DEF Take, TypeOK
  <2>2. tpc[t] = "scan" /\ \A u \in Thread \ {t} : tpc[u] # "scan"
    BY <1>0, <1>3 DEF Take, ThreadInv
  <2>3. queue[pos] # None
    BY <2>1, PoolAssumption DEF PoolAssumption
  <2>4. ThreadInv'
    BY <1>0, <1>3, <2>2, <2>3 DEF Take, ThreadInv, WithSession
  <2>5. TypeOK'
    BY <1>3, <2>1 DEF Take, TypeOK, ThreadPlace
  <2> QED BY <2>4, <2>5
<1>4. CASE Skip(t)
  BY <1>4 DEF Skip, TypeOK, ThreadInv
<1>5. CASE GiveUp(t)
  <2>1. tpc[t] = "scan" /\ \A u \in Thread \ {t} : tpc[u] # "scan"
    BY <1>0, <1>5 DEF GiveUp, ThreadInv
  <2>2. ThreadInv'
    BY <1>0, <1>5, <2>1 DEF GiveUp, ThreadInv, WithSession
  <2> QED BY <1>5, <2>2 DEF GiveUp, TypeOK, ThreadPlace
<1>6. CASE CountType(t)
  <2>1. running' \in [Type -> Nat]
    BY <1>6, CountersNatural DEF CountType, TypeOK
  <2> QED BY <1>0, <1>6, <2>1 DEF CountType, TypeOK, ThreadInv, ThreadPlace, WithSession
<1>7. CASE CountTotal(t)
  <2>1. status' \in [Session -> Status]
    BY <1>7 DEF CountTotal, TypeOK, Status
  <2> QED BY <1>0, <1>7, <2>1 DEF CountTotal, TypeOK, ThreadInv, ThreadPlace, WithSession
<1>8. CASE Leave(t)
  BY <1>0, <1>8 DEF Leave, TypeOK, ThreadInv, ThreadPlace, WithSession
<1>9. CASE UncountType(t)
  <2>1. running' \in [Type -> Nat]
    BY <1>9, CountersNatural DEF UncountType, OneLess, TypeOK
  <2> QED BY <1>0, <1>9, <2>1 DEF UncountType, TypeOK, ThreadInv, ThreadPlace, WithSession
<1>10. CASE UncountTotal(t)
  BY <1>0, <1>10, CountersNatural DEF UncountTotal, TypeOK, ThreadInv, ThreadPlace, WithSession
<1>11. CASE Finally(t)
  BY <1>0, <1>11 DEF Finally, Again, TypeOK, ThreadInv, ThreadPlace, WithSession
<1>12. CASE Decrement(t)
  <2>1. total - 1 \in Int
    BY DEF TypeOK
  <2>2. total' \in 0 .. Wrap - 1
    BY <1>12, <2>1, Wrapped DEF Decrement
  <2> QED BY <1>0, <1>12, <2>2
          DEF Decrement, Again, TypeOK, ThreadInv, ThreadPlace, WithSession
<1>13. CASE Sleep(t)
  BY <1>0, <1>13 DEF Sleep, TypeOK, ThreadInv, ThreadPlace, WithSession
<1> QED BY <1>1, <1>2, <1>3, <1>4, <1>5, <1>6, <1>7, <1>8, <1>9, <1>10, <1>11, <1>12, <1>13
        DEF ThreadStep, GetStep, RunStep

LEMMA ThreadCounts ==
  ASSUME PoolInv, NEW t \in Thread, ThreadStep(t)
  PROVE  CountInv'
<1> USE DEF PoolInv, counters, creator
<1>1. \A S \in {CountedTotal} \union {CountedType(y) : y \in Type} : S \in SUBSET Thread
  BY DEF CountedTotal, CountedType
<1>2. CASE CountType(t)
  <2>1. PICK y \in Type : y = TypeOf[ses[t]]
    BY <1>2, PoolAssumption DEF PoolAssumption, CountType, TypeOK, ThreadInv, WithSession
  <2>2. CountedTotal' = CountedTotal
    BY <1>2 DEF CountType, CountedTotal, TypeOK
  <2>3. CountedType(y)' = CountedType(y) \union {t} /\ t \notin CountedType(y)
    BY <1>2, <2>1 DEF CountType, CountedType, TypeOK
  <2>4. \A z \in Type : z # y => CountedType(z)' = CountedType(z)
    BY <1>2, <2>1 DEF CountType, CountedType, TypeOK
  <2>5. Cardinality(CountedType(y)') = Cardinality(CountedType(y)) + 1
    BY <1>1, <2>1, <2>3, OneMore
  <2>6. running' = [running EXCEPT ![y] = @ + 1] /\ runTotal' = runTotal
    BY <1>2, <2>1 DEF CountType
  <2> QED BY <2>1, <2>2, <2>4, <2>5, <2>6 DEF CountInv, TypeOK
<1>3. CASE UncountType(t)
  <2>1. PICK y \in Type : y = TypeOf[ses[t]]
    BY <1>3, PoolAssumption DEF PoolAssumption, UncountType, TypeOK, ThreadInv, WithSession
  <2>2. CountedTotal' = CountedTotal
    BY <1>3 DEF UncountType, CountedTotal, TypeOK
  <2>3. CountedType(y)' = CountedType(y) \ {t} /\ t \in CountedType(y)
    BY <1>3, <2>1 DEF UncountType, CountedType, TypeOK
  <2>4. \A z \in Type : z # y => CountedType(z)' = CountedType(z)
    BY <1>3, <2>1 DEF UncountType, CountedType, TypeOK
  <2>5. Cardinality(CountedType(y)') = Cardinality(CountedType(y)) - 1
    BY <1>1, <2>1, <2>3, OneFewer
  <2>6. running' = [running EXCEPT ![y] = @ - 1] /\ runTotal' = runTotal
    BY <1>3, <2>1 DEF UncountType, OneLess
  <2> QED BY <2>1, <2>2, <2>4, <2>5, <2>6 DEF CountInv, TypeOK
<1>4. CASE CountTotal(t)
  <2>1. \A y \in Type : CountedType(y)' = CountedType(y)
    BY <1>4 DEF CountTotal, CountedType, TypeOK
  <2>2. CountedTotal' = CountedTotal \union {t} /\ t \notin CountedTotal
    BY <1>4 DEF CountTotal, CountedTotal, TypeOK
  <2>3. Cardinality(CountedTotal') = Cardinality(CountedTotal) + 1
    BY <1>1, <2>2, OneMore
  <2> QED BY <1>4, <2>1, <2>3 DEF CountTotal, CountInv
<1>5. CASE UncountTotal(t)
  <2>1. \A y \in Type : CountedType(y)' = CountedType(y)
    BY <1>5 DEF UncountTotal, CountedType, TypeOK
  <2>2. CountedTotal' = CountedTotal \ {t} /\ t \in CountedTotal
    BY <1>5 DEF UncountTotal, CountedTotal, TypeOK
  <2>3. Cardinality(CountedTotal') = Cardinality(CountedTotal) - 1
    BY <1>1, <2>2, OneFewer
  <2> QED BY <1>5, <2>1, <2>3 DEF UncountTotal, CountInv
<1>6. CASE ~(CountType(t) \/ UncountType(t) \/ CountTotal(t) \/ UncountTotal(t))
  <2>1. counters' = counters
    BY <1>6 DEF ThreadStep, GetStep, RunStep, Sleep, StartScan, GetNothing, Take, Skip, GiveUp,
                Leave, Finally, Decrement
  <2>2. CountedTotal' = CountedTotal /\ \A y \in Type : CountedType(y)' = CountedType(y)
    BY <1>6 DEF ThreadStep, GetStep, RunStep, Sleep, StartScan, GetNothing, Take, Skip, GiveUp,
                Leave, Finally, Decrement, Again, threads, CountedTotal, CountedType, TypeOK
  <2> QED BY <2>1, <2>2 DEF CountInv
<1> QED BY <1>2, <1>3, <1>4, <1>5, <1>6

LEMMA ThreadPlaces ==
  ASSUME PoolInv, NEW t \in Thread, ThreadStep(t)
  PROVE  PlaceInv'
<1> USE DEF PoolInv
<1>1. CASE Take(t)
  <2>1. /\ pos \in 1 .. Len(queue) /\ queue' = Remaining
        /\ ses' = [ses EXCEPT ![t] = queue[pos]]
        /\ told' = told /\ creating' = creating /\ ses[t] = None
    <3>1. tpc[t] = "scan" /\ pos \in Nat \ {0} /\ Len(queue) \in Nat
      BY <1>1, LenProperties DEF Take, TypeOK
    <3>2. ses[t] = None
      BY <3>1 DEF ThreadInv, WithSession
    <3>3. pos \in 1 .. Len(queue)
      BY <1>1, <3>1 DEF Take
    <3> QED BY <1>1, <3>2, <3>3 DEF Take, creator
  <2> DEFINE was(i) == IF i < pos THEN i ELSE i + 1
  <2>2. Len(queue) \in Nat /\ Len(queue') = Len(queue) - 1
    BY <2>1, RemainingFacts, LenProperties DEF TypeOK
  <2>3. \A i \in 1 .. Len(queue') : queue'[i] = queue[was(i)]
    BY <2>1, RemainingFacts DEF TypeOK
  <2>4. \A i \in 1 .. Len(queue') : was(i) \in 1 .. Len(queue) /\ was(i) # pos
    BY <2>1, <2>2
  <2>5. \A i, j \in 1 .. Len(queue') : was(i) = was(j) => i = j
    BY <2>1, <2>2
  <2> HIDE DEF was
  <2>6. \A u \in Thread : ses'[u] = IF u = t THEN queue[pos] ELSE ses[u]
    BY <2>1 DEF TypeOK
  <2>7. \A i, j \in 1 .. Len(queue') : queue'[i] = queue'[j] => i = j
    BY <2>3, <2>4, <2>5 DEF PlaceInv
  <2>8. \A u \in Thread, i \in 1 .. Len(queue') : ses'[u] # queue'[i]
    BY <2>1, <2>3, <2>4, <2>6 DEF PlaceInv
  <2>9. \A i \in 1 .. Len(queue') : queue'[i] # creating' /\ told'[queue'[i]] # None
    BY <2>1, <2>3, <2>4 DEF PlaceInv
  <2>10. \A u, v \in Thread : ses'[u] # None /\ ses'[u] = ses'[v] => u = v
    BY <2>1, <2>6 DEF PlaceInv
  <2>11. \A u \in Thread : ses'[u] # None => ses'[u] # creating' /\ told'[ses'[u]] # None
    BY <2>1, <2>6 DEF PlaceInv
  <2> QED BY <2>1, <2>7, <2>8, <2>9, <2>10, <2>11 DEF PlaceInv
<1>2. CASE UncountTotal(t)
  <2>1. \A u \in Thread : ses'[u] = IF u = t THEN None ELSE ses[u]
    BY <1>2 DEF UncountTotal, TypeOK
  <2>2. queue' = queue /\ told' = told /\ creating' = creating
    BY <1>2 DEF UncountTotal, creator
  <2>3. \A i \in 1 .. Len(queue) : queue[i] # None
    BY PoolAssumption DEF PoolAssumption, TypeOK
  <2> QED BY <2>1, <2>2, <2>3 DEF PlaceInv
<1>3. CASE ~(Take(t) \/ UncountTotal(t))
  <2>1. queue' = queue /\ ses' = ses /\ told' = told /\ creating' = creating
    BY <1>3 DEF ThreadStep, GetStep, RunStep, Sleep, StartScan, GetNothing, Skip, GiveUp, Leave,
                CountType, CountTotal, UncountType, Finally, Decrement, creator, threads
  <2> QED BY <2>1 DEF PlaceInv
<1> QED BY <1>1, <1>2, <1>3

-----------------------------------------------------------------------------
(* The steps of Server::stop, and what all steps have in common.           *)
LEMMA StopKeeps ==
  ASSUME PoolInv, StopStep
  PROVE  PoolInv'
<1>1. /\ ses' = ses /\ counters' = counters /\ creator' = creator
      /\ scanner' = scanner /\ size' = size /\ total' = total /\ pos' = pos /\ use' = use
  BY DEF StopStep, StopSessions, StopPool, Join, StopGoes
<1>2. queue' = queue \/ queue' = <<>>
  BY DEF StopStep, StopSessions, StopPool, Join, StopGoes
<1>3. halted' \in SUBSET Session /\ srv' \in {"up", "acceptors", "joining", "down"}
  BY DEF StopStep, StopSessions, StopPool, Join, StopGoes, PoolInv, TypeOK
<1>4. queue' \in Seq(Session)
  BY <1>2, EmptySeq DEF PoolInv, TypeOK
<1>5. /\ tpc' \in [Thread -> ThreadPlace]
      /\ \A t \in Thread : tpc'[t] = tpc[t] \/ (tpc[t] = "asleep" /\ tpc'[t] = "get")
  <2>1. tpc' = tpc \/ tpc' = Awake(Asleep)
    BY DEF StopStep, StopSessions, StopPool, Join
  <2> QED BY <2>1, Notification DEF PoolInv, TypeOK
<1>6. TypeOK'
  <2>1. /\ total \in 0 .. Wrap - 1 /\ size \in 0 .. Slots /\ pos \in Nat \ {0}
        /\ scanner \in Thread \union {0} /\ use \in Uses
        /\ ses \in [Thread -> Session \union {None}]
    BY DEF PoolInv, TypeOK
  <2>2. running \in [Type -> Nat] /\ runTotal \in Nat
    BY DEF PoolInv, TypeOK
  <2>3. /\ status \in [Session -> Status] /\ told \in [Session -> Status \union {None}]
        /\ creating \in Session \union {None} /\ need \in BOOLEAN
        /\ cpc \in {"idle", "add", "condition1", "condition2", "push"}
    BY DEF PoolInv, TypeOK
  <2>4. running' = running /\ runTotal' = runTotal
    BY <1>1 DEF counters
  <2>5. /\ status' = status /\ told' = told /\ creating' = creating /\ need' = need
        /\ cpc' = cpc
    BY <1>1 DEF creator
  <2> QED BY <1>1, <1>3, <1>4, <1>5, <2>1, <2>2, <2>3, <2>4, <2>5 DEF TypeOK
<1>7. ThreadInv'
  BY <1>1, <1>5 DEF PoolInv, ThreadInv, creator, MaxTotal, WithSession
<1>8. CountedTotal' = CountedTotal /\ \A y \in Type : CountedType(y)' = CountedType(y)
  BY <1>1, <1>5 DEF CountedTotal, CountedType
<1>9. CountInv'
  BY <1>1, <1>8 DEF PoolInv, CountInv, counters
<1>10. PlaceInv'
  BY <1>1, <1>2 DEF PoolInv, PlaceInv, creator
<1> QED BY <1>6, <1>7, <1>9, <1>10 DEF PoolInv

LEMMA PoolStep == PoolInv /\ [Next]_vars => PoolInv'
<1> SUFFICES ASSUME PoolInv, [Next]_vars PROVE PoolInv'
  OBVIOUS
<1>1. CASE CreatorStep \/ \E s \in Session : Construct(s)
  BY <1>1, CreatorTypes, CreatorCounts, CreatorPlaces DEF PoolInv
<1>2. ASSUME NEW t \in Thread, ThreadStep(t) PROVE PoolInv'
  BY <1>2, ThreadTypes, ThreadCounts, ThreadPlaces DEF PoolInv
<1>3. CASE StopStep
  BY <1>3, StopKeeps
<1>4. CASE UNCHANGED vars
  <2>1. TypeOK' /\ ThreadInv' /\ PlaceInv'
    BY <1>4 DEF vars, counters, creator, threads, stop, PoolInv, TypeOK, ThreadInv, PlaceInv,
              MaxTotal
  <2>2. CountedTotal' = CountedTotal /\ \A y \in Type : CountedType(y)' = CountedType(y)
    BY <1>4 DEF vars, threads, CountedTotal, CountedType
  <2>3. CountInv'
    BY <1>4, <2>2 DEF vars, counters, PoolInv, CountInv
  <2> QED BY <2>1, <2>3 DEF PoolInv
<1> QED BY <1>1, <1>2, <1>3, <1>4 DEF Next, ThreadStep

-----------------------------------------------------------------------------
(* A session is in one place, so the places where it is are one.           *)
LEMMA PlacesAreOne == PoolInv => RunsOnce
<1> SUFFICES ASSUME PoolInv, NEW s \in Session
             PROVE  Cardinality(Taken(s)) + Cardinality(InQueue(s))
                      + (IF creating = s THEN 1 ELSE 0) <= 1
  BY DEF RunsOnce
<1>1. s # None
  BY PoolAssumption DEF PoolAssumption
<1>2. CASE \E t \in Thread : ses[t] = s
  <2>1. PICK t \in Thread : ses[t] = s
    BY <1>2
  <2>2. Taken(s) = {t} /\ InQueue(s) = {} /\ creating # s
    BY <1>1, <2>1 DEF PoolInv, PlaceInv, Taken, InQueue
  <2> QED BY <2>2, FS_EmptySet, FS_Singleton
<1>3. CASE \A t \in Thread : ses[t] # s
  <2>1. Cardinality(Taken(s)) = 0
    BY <1>3, FS_EmptySet DEF Taken
  <2>2. CASE \E i \in 1 .. Len(queue) : queue[i] = s
    <3>1. PICK i \in 1 .. Len(queue) : queue[i] = s
      BY <2>2
    <3>2. InQueue(s) = {i} /\ creating # s
      BY <3>1 DEF PoolInv, PlaceInv, InQueue
    <3>3. Cardinality(InQueue(s)) = 1
      BY <3>2, FS_Singleton
    <3> QED BY <2>1, <3>2, <3>3
  <2>3. CASE \A i \in 1 .. Len(queue) : queue[i] # s
    <3>1. Cardinality(InQueue(s)) = 0
      BY <2>3, FS_EmptySet DEF InQueue
    <3>2. (IF creating = s THEN 1 ELSE 0) \in {0, 1}
      OBVIOUS
    <3> QED BY <2>1, <3>1, <3>2
  <2> QED BY <2>2, <2>3
<1> QED BY <1>2, <1>3

(* The counter counts threads, and there are not more than MaxTotal.       *)
LEMMA ThreadsAreFew == PoolInv => WithinTotal
<1> SUFFICES ASSUME PoolInv PROVE WithinTotal
  OBVIOUS
<1> DEFINE Threads == 1 .. size
           Running == {t \in Thread : tpc[t] = "run"}
<1>1. size \in Nat /\ size <= MaxTotal /\ MaxTotal \in Nat
  BY MaxFacts DEF PoolInv, TypeOK, ThreadInv
<1>2. IsFiniteSet(Threads) /\ Cardinality(Threads) = size
  BY <1>1, FS_Interval
<1>3. \A t \in Thread : tpc[t] # "absent" => t \in Threads
  BY <1>1 DEF PoolInv, ThreadInv, Thread
<1>4. CountedTotal \in SUBSET Threads /\ Running \in SUBSET Threads
  BY <1>3 DEF CountedTotal
<1> HIDE DEF Threads, Running
<1>5. Cardinality(CountedTotal) <= size /\ Cardinality(Running) <= size
  BY <1>2, <1>4, FS_Subset
<1>6. Cardinality(Running) \in Nat /\ runTotal \in Nat /\ runTotal = Cardinality(CountedTotal)
  BY ThreadsFinite DEF Running, PoolInv, CountInv, TypeOK
<1> QED BY <1>1, <1>5, <1>6 DEF WithinTotal, Running

(* The state of the pool is as PoolInv says, whatever the sessions.        *)
THEOREM PoolInvariant == Spec => []PoolInv
BY PoolInit, PoolStep, PTL DEF Spec

(* No counter of Runnable.h falls below zero, no thread is created beyond  *)
(* those _maxSize allows, and every variable has its type.                 *)
THEOREM PoolTypes == Spec => []TypeOK
<1>1. PoolInv => TypeOK
  BY DEF PoolInv
<1> QED BY <1>1, PoolInvariant, PTL

(* No session is run twice: what ThreadPoolSessions::get takes out of the  *)
(* queue it takes once.                                                    *)
THEOREM SessionRunsOnce == Spec => []RunsOnce
BY PlacesAreOne, PoolInvariant, PTL

(* The sessions in run never exceed MaxTotalSessions, nor does the counter *)
(* that calculateStatus compares with it.                                  *)
THEOREM TotalIsRespected == Spec => []WithinTotal
BY ThreadsAreFew, PoolInvariant, PTL

=============================================================================
