---------------------------- MODULE DeliveryProofs ----------------------------
(***************************************************************************)
(* What comes in and what goes out, for any number of updates, crashes,    *)
(* runs and decisions.  The loop keeps its place: what the offset of this  *)
(* life has passed was processed or is queued, and only what this life has *)
(* not handled can still be handled in it.  The reply marker belongs to    *)
(* the run it answers.  On the Feishu side what was handled, the batch and *)
(* the queue are one line, and who stands in it has its files on disk.     *)
(***************************************************************************)
EXTENDS Polling, FiniteSetTheorems, SequenceTheorems, TLAPS

\* A numbered run of updates is a sequence.
LEMMA Interval ==
  ASSUME NEW S, NEW k \in Nat, NEW n \in Nat, \A i \in 1 .. n : k + i \in S
  PROVE  [i \in 1 .. n |-> k + i] \in Seq(S) /\ Len([i \in 1 .. n |-> k + i]) = n
<1> DEFINE s == [i \in 1 .. n |-> k + i]
<1>1. s \in [1 .. n -> S] /\ DOMAIN s = 1 .. n
  OBVIOUS
<1> HIDE DEF s
<1>2. s \in Seq(S)
  BY <1>1, SeqDef
<1>3. 1 .. Len(s) = 1 .. n /\ Len(s) \in Nat
  BY <1>1, <1>2, LenProperties
<1>4. ~(Len(s) < n)
  <2> SUFFICES ASSUME Len(s) < n PROVE FALSE
    OBVIOUS
  <2>1. n \in 1 .. n /\ n \notin 1 .. Len(s)
    BY <1>3
  <2> QED
    BY <1>3, <2>1
<1>5. ~(n < Len(s))
  <2> SUFFICES ASSUME n < Len(s) PROVE FALSE
    OBVIOUS
  <2>1. Len(s) \in 1 .. Len(s) /\ Len(s) \notin 1 .. n
    BY <1>3
  <2> QED
    BY <1>3, <2>1
<1> QED
  BY <1>2, <1>3, <1>4, <1>5 DEF s

\* Queued: normalised in this life, not handled yet.
Pending(u) == \E i \in 1 .. Len(events) : events[i] = u

\* Where the loop keeps what, and that nothing counts past what has arrived.
LoopOK ==
  /\ pc \in {"poll", "down"} => response = <<>> /\ events = <<>>
  /\ pc = "handle" => response = <<>>
  /\ pc = "down" => offset = 0 /\ latest = 0
  /\ confirmed <= arrived /\ offset <= arrived + 1 /\ cursor <= arrived + 1

\* The rest of a batch has no gaps, and nothing before it is left out.
BatchOK ==
  /\ \A i \in 1 .. Len(response) :
       response[i] = response[1] + i - 1 /\ offset <= response[i] /\ response[i] <= arrived
  /\ response # <<>> => \A u \in Update : u < response[1] => Processed(u) \/ Pending(u)

\* The queue is in order, ahead of the last update handled and behind the offset.
QueueOK ==
  /\ \A i \in 1 .. Len(events) : latest < events[i] /\ events[i] < offset
  /\ \A i, j \in 1 .. Len(events) : i < j => events[i] < events[j]
  /\ latest = 0 \/ latest < offset

\* What was passed was processed, or will be unless the process dies.
PassedOK == \A u \in Update : u < offset => Processed(u) \/ Pending(u)

\* What may still be handled in this life has not been handled in it.
FreshOK == \A u \in Update : u >= offset \/ Pending(u) => handled[u] <= crashes

IInv == /\ TypeOK /\ NothingLeftBehind /\ RepeatNeedsCrash
        /\ LoopOK /\ BatchOK /\ QueueOK /\ PassedOK /\ FreshOK

LEMMA InitIInv == ASSUME PollingAssumption, Init PROVE IInv
<1> USE DEF PollingAssumption, Init
<1>1. Len(response) = 0 /\ Len(events) = 0 /\ 1 .. 0 = {}
  BY EmptySeq
<1>2. TypeOK
  BY EmptySeq DEF TypeOK
<1>3. NothingLeftBehind /\ RepeatNeedsCrash /\ PassedOK
  BY DEF NothingLeftBehind, RepeatNeedsCrash, PassedOK, Update
<1>4. LoopOK /\ BatchOK /\ QueueOK /\ FreshOK
  BY <1>1 DEF LoopOK, BatchOK, QueueOK, FreshOK, Pending
<1> QED
  BY <1>2, <1>3, <1>4 DEF IInv

\* Where the loop goes on, its place kept: nothing queued, nothing in the batch.
LEMMA IdleQueues ==
  ASSUME IInv, TypeOK', response' = <<>>, events' = <<>>,
         pc' \in {"poll", "down"}, pc' = "down" => offset' = 0 /\ latest' = 0,
         UNCHANGED arrived, confirmed' <= arrived, offset' <= arrived + 1, cursor' <= arrived + 1,
         \A u \in Update : u < offset' \/ u < cursor' \/ u <= confirmed' => Processed(u)',
         \A u \in Update : u >= offset' => handled'[u] <= crashes',
         \A u \in Update : handled'[u] <= 1 + crashes',
         latest' = 0 \/ latest' < offset'
  PROVE  IInv'
<1>1. Len(response') = 0 /\ Len(events') = 0 /\ 1 .. 0 = {}
  BY EmptySeq
<1>2. LoopOK' /\ BatchOK' /\ QueueOK' /\ PassedOK' /\ FreshOK'
  BY <1>1 DEF LoopOK, BatchOK, QueueOK, PassedOK, FreshOK, Pending
<1> QED
  BY <1>2 DEF IInv, NothingLeftBehind, RepeatNeedsCrash

LEMMA ArriveStep == ASSUME PollingAssumption, IInv, Arrive PROVE IInv'
<1> USE DEF PollingAssumption, IInv, Arrive, memory, history
<1>1. TypeOK'
  BY DEF TypeOK, Update
<1>2. arrived' >= arrived /\ arrived \in Nat /\ arrived' \in Nat
  BY DEF TypeOK
<1>3. LoopOK'
  BY <1>2 DEF LoopOK, TypeOK
<1>4. BatchOK'
  <2>1. \A i \in 1 .. Len(response) : response[i] \in Nat
    BY ElementOfSeq DEF TypeOK, Update
  <2> QED
    BY <1>2, <2>1 DEF BatchOK, Processed, Pending
<1>5. NothingLeftBehind' /\ RepeatNeedsCrash' /\ QueueOK' /\ PassedOK' /\ FreshOK'
  BY DEF NothingLeftBehind, RepeatNeedsCrash, QueueOK, PassedOK, FreshOK, Processed, Pending
<1> QED
  BY <1>1, <1>3, <1>4, <1>5

\* An offset confirms what was passed, which without a queue was processed.
LEMMA ConfirmFacts ==
  ASSUME PollingAssumption, IInv, pc = "poll", Confirm
  PROVE  /\ confirmed' \in 0 .. arrived /\ confirmed <= confirmed' /\ offset <= confirmed' + 1
         /\ \A u \in Update : u <= confirmed' => Processed(u)
<1>1. /\ confirmed \in Nat /\ offset \in Nat /\ arrived \in Nat
      /\ confirmed <= arrived /\ offset <= arrived + 1
  BY DEF IInv, TypeOK, LoopOK
<1>2. Len(events) = 0
  BY EmptySeq DEF IInv, LoopOK
<1>3. \A u \in Update : u \in Nat /\ (u < offset => Processed(u)) /\ (u <= confirmed => Processed(u))
  BY <1>2 DEF IInv, PassedOK, NothingLeftBehind, Pending, Update
<1> QED
  BY <1>1, <1>3 DEF Confirm

LEMMA PollStep == ASSUME PollingAssumption, IInv, GetUpdates PROVE IInv'
<1> USE DEF PollingAssumption
<1>0. /\ pc = "poll" /\ pc' = "normalise" /\ response' = Unconfirmed /\ events' = <<>>
      /\ UNCHANGED <<arrived, offset, cursor, handled, ignored, dropped, latest, crashes>>
  BY DEF GetUpdates, history
<1>1. /\ confirmed' \in 0 .. arrived /\ confirmed <= confirmed' /\ offset <= confirmed' + 1
      /\ \A u \in Update : u <= confirmed' => Processed(u)
  BY <1>0, ConfirmFacts DEF GetUpdates
<1>2. arrived \in 0 .. MaxUpdates /\ offset \in Nat
  BY DEF IInv, TypeOK
<1>3. PICK k \in 0 .. arrived : k = confirmed'
  BY <1>1
<1>a. k \in Nat /\ arrived \in Nat /\ k <= arrived /\ arrived <= MaxUpdates
  BY <1>2
<1>c. offset <= k + 1
  BY <1>1, <1>3
<1>d. PICK n \in Nat : n = arrived - k
  BY <1>a
<1>b. /\ response' \in Seq(Update) /\ Len(response') = n
      /\ \A i \in 1 .. n : response'[i] = k + i
  <2>1. \A i \in 1 .. n : k + i \in Update
    BY <1>a, <1>d DEF Update
  <2>2. response' = [i \in 1 .. n |-> k + i]
    BY <1>0, <1>3, <1>d DEF Unconfirmed
  <2> QED
    BY <1>a, <2>1, <2>2, Interval
<1>4. Len(events') = 0 /\ Len(events) = 0 /\ events' \in Seq(Update)
  BY <1>0, EmptySeq DEF IInv, LoopOK
<1>5. TypeOK'
  BY <1>0, <1>1, <1>2, <1>b, <1>4 DEF IInv, TypeOK
<1>6. \A u \in Update : Processed(u)' <=> Processed(u)
  BY <1>0 DEF Processed
<1>7. LoopOK'
  BY <1>0, <1>1 DEF IInv, LoopOK
<1>8. BatchOK'
  <2>1. ASSUME NEW i \in 1 .. n
        PROVE  response'[i] = response'[1] + i - 1 /\ offset <= response'[i] /\ response'[i] <= arrived
    <3>1. i \in Nat /\ i <= n /\ 1 \in 1 .. n /\ offset <= k + 1 /\ n = arrived - k
      BY <1>a, <1>c, <1>d
    <3>2. response'[1] = k + 1 /\ response'[i] = k + i
      BY <1>b, <3>1
    <3> QED
      BY <1>2, <1>a, <3>1, <3>2
  <2>2. ASSUME response' # <<>> PROVE \A u \in Update : u < response'[1] => Processed(u)'
    <3>1. n # 0
      BY <1>b, <2>2, EmptySeq
    <3>2. 1 \in 1 .. n
      BY <3>1
    <3>3. response'[1] = k + 1
      BY <1>b, <3>2
    <3>4. \A u \in Update : u < k + 1 => u <= k
      BY <1>a DEF Update
    <3> QED
      BY <1>1, <1>3, <1>6, <3>3, <3>4
  <2>3. Len(response') = n
    BY <1>b
  <2> QED
    BY <1>0, <2>1, <2>2, <2>3 DEF BatchOK
<1>9. QueueOK'
  BY <1>0, <1>4 DEF IInv, QueueOK
<1>10. PassedOK' /\ NothingLeftBehind'
  BY <1>0, <1>1, <1>4, <1>6 DEF IInv, PassedOK, NothingLeftBehind, Pending
<1>11. FreshOK' /\ RepeatNeedsCrash'
  BY <1>0, <1>4 DEF IInv, FreshOK, RepeatNeedsCrash, Pending
<1> QED
  BY <1>5, <1>7, <1>8, <1>9, <1>10, <1>11 DEF IInv

\* The first update of the batch, and what is left of it.
LEMMA BatchFacts ==
  ASSUME IInv, response # <<>>, NEW h, h = Head(response)
  PROVE  /\ h \in Update /\ h = response[1] /\ offset <= h /\ h <= arrived
         /\ \A u \in Update : u < h => Processed(u) \/ Pending(u)
         /\ Tail(response) \in Seq(Update)
         /\ \A i \in 1 .. Len(Tail(response)) : Tail(response)[i] = h + i /\ Tail(response)[i] <= arrived
<1>1. response \in Seq(Update) /\ Len(response) \in Nat \ {0}
  BY EmptySeq DEF IInv, TypeOK
<1>2. /\ h \in Update /\ Tail(response) \in Seq(Update) /\ Len(Tail(response)) = Len(response) - 1
      /\ \A i \in 1 .. Len(Tail(response)) : Tail(response)[i] = response[i + 1]
  BY <1>1, HeadTailProperties
<1>3. h = response[1]
  BY <1>1
<1>4. /\ \A i \in 1 .. Len(response) :
           response[i] = response[1] + i - 1 /\ offset <= response[i] /\ response[i] <= arrived
      /\ \A u \in Update : u < response[1] => Processed(u) \/ Pending(u)
  BY DEF IInv, BatchOK
<1>5. \A i \in 1 .. Len(Tail(response)) : i + 1 \in 1 .. Len(response)
  BY <1>1, <1>2
<1>6. h \in Nat
  BY <1>2 DEF Update
<1>7. \A i \in 1 .. Len(Tail(response)) : Tail(response)[i] = h + i /\ Tail(response)[i] <= arrived
  BY <1>2, <1>3, <1>4, <1>5, <1>6
<1>8. 1 \in 1 .. Len(response)
  BY <1>1
<1> QED
  BY <1>2, <1>3, <1>4, <1>7, <1>8

\* The batch goes on behind h, which is queued or settled.
LEMMA BatchGoesOn ==
  ASSUME IInv, TypeOK', pc = "normalise",
         NEW h \in Update, offset <= h, h <= arrived,
         \A u \in Update : u < h => Processed(u) \/ Pending(u),
         NEW rest \in Seq(Update), \A i \in 1 .. Len(rest) : rest[i] = h + i /\ rest[i] <= arrived,
         offset' = h + 1, response' = rest,
         UNCHANGED <<arrived, confirmed, pc, cursor, latest, crashes, handled>>,
         \A u \in Update : Processed(u) => Processed(u)',
         \A u \in Update : Pending(u) => Pending(u)',
         \A u \in Update : Pending(u)' => Pending(u) \/ u = h,
         Processed(h)' \/ Pending(h)',
         QueueOK'
  PROVE  IInv'
<1>2. h \in Nat /\ offset \in Nat /\ arrived \in Nat /\ Len(rest) \in Nat
  BY LenProperties DEF IInv, TypeOK, Update
<1>3. \A u \in Update : u \in Nat /\ (u < h + 1 => Processed(u)' \/ Pending(u)')
  BY <1>2 DEF Update
<1>4. LoopOK'
  BY <1>2 DEF IInv, LoopOK
<1>5. BatchOK'
  <2>1. ASSUME NEW i \in 1 .. Len(rest)
        PROVE  rest[i] = rest[1] + i - 1 /\ h + 1 <= rest[i] /\ rest[i] <= arrived
    <3>1. i \in Nat /\ 1 <= i /\ 1 \in 1 .. Len(rest)
      BY <1>2
    <3>2. rest[i] = h + i /\ rest[1] = h + 1 /\ rest[i] <= arrived
      BY <3>1
    <3> QED
      BY <1>2, <3>1, <3>2
  <2>2. ASSUME rest # <<>> PROVE rest[1] = h + 1
    <3>1. Len(rest) \in Nat \ {0}
      BY <2>2, EmptySeq
    <3>2. 1 \in 1 .. Len(rest)
      BY <3>1
    <3> QED
      BY <3>2
  <2> QED
    BY <1>3, <2>1, <2>2 DEF BatchOK
<1>6. PassedOK'
  BY <1>3 DEF PassedOK
<1>7. FreshOK'
  <2>1. \A u \in Update : u >= h + 1 \/ u = h => u >= offset
    BY <1>2 DEF Update
  <2> QED
    BY <2>1 DEF IInv, FreshOK
<1> QED
  BY <1>4, <1>5, <1>6, <1>7 DEF IInv, NothingLeftBehind, RepeatNeedsCrash

LEMMA NormaliseStep == ASSUME PollingAssumption, IInv, Normalise PROVE IInv'
<1>h. PICK h : h = Head(response)
  OBVIOUS
<1>r. PICK rest : rest = Tail(response)
  OBVIOUS
<1>0. /\ pc = "normalise" /\ response # <<>> /\ offset' = h + 1 /\ response' = rest
      /\ UNCHANGED <<arrived, confirmed, pc, cursor, handled, dropped, latest, crashes>>
  BY <1>h, <1>r DEF Normalise, external
<1>1. /\ h \in Update /\ offset <= h /\ h <= arrived /\ rest \in Seq(Update)
      /\ \A u \in Update : u < h => Processed(u) \/ Pending(u)
      /\ \A i \in 1 .. Len(rest) : rest[i] = h + i /\ rest[i] <= arrived
  BY <1>0, <1>h, <1>r, BatchFacts
<1>2. /\ h \in Nat /\ h >= 1 /\ h + 1 \in 0 .. MaxUpdates + 1 /\ offset \in Nat /\ latest \in Nat
      /\ events \in Seq(Update) /\ Len(events) \in Nat
  BY <1>1, LenProperties DEF IInv, TypeOK, Update, PollingAssumption
<1>q. \A i \in 1 .. Len(events) : events[i] \in Nat /\ latest < events[i] /\ events[i] < h
  <2>1. \A i \in 1 .. Len(events) : events[i] \in Update
    BY <1>2, ElementOfSeq
  <2>2. \A i \in 1 .. Len(events) : latest < events[i] /\ events[i] < offset
    BY DEF IInv, QueueOK
  <2> QED
    BY <1>1, <1>2, <2>1, <2>2 DEF Update
<1>3. latest < h
  BY <1>1, <1>2 DEF IInv, QueueOK
<1>4. CASE events' = Append(events, h) /\ UNCHANGED ignored
  <2>1. /\ events' \in Seq(Update) /\ Len(events') = Len(events) + 1
        /\ \A i \in 1 .. Len(events) : events'[i] = events[i]
        /\ events'[Len(events) + 1] = h
    BY <1>1, <1>2, <1>4, AppendProperties
  <2>2. TypeOK'
    BY <1>0, <1>1, <1>2, <1>4, <2>1 DEF IInv, TypeOK
  <2>3. \A i \in 1 .. Len(events') : i \in 1 .. Len(events) \/ i = Len(events) + 1
    BY <1>2, <2>1
  <2>4. \A i \in 1 .. Len(events) : i \in 1 .. Len(events') /\ Len(events) + 1 \in 1 .. Len(events')
    BY <1>2, <2>1
  <2>5. Len(events) + 1 \in 1 .. Len(events')
    BY <1>2, <2>1
  <2>6. /\ \A u \in Update : Pending(u) => Pending(u)'
        /\ \A u \in Update : Pending(u)' => Pending(u) \/ u = h
        /\ Pending(h)'
    <3>1. \A u \in Update : Pending(u) => Pending(u)'
      BY <2>1, <2>4 DEF Pending
    <3>2. \A u \in Update : Pending(u)' => Pending(u) \/ u = h
      BY <2>1, <2>3 DEF Pending
    <3>3. Pending(h)'
      BY <2>1, <2>5 DEF Pending
    <3> QED
      BY <3>1, <3>2, <3>3
  <2>7. QueueOK'
    <3>2. \A i \in 1 .. Len(events') : latest < events'[i] /\ events'[i] < h + 1
      BY <1>2, <1>3, <1>q, <2>1, <2>3
    <3>3. ASSUME NEW i \in 1 .. Len(events'), NEW j \in 1 .. Len(events'), i < j
          PROVE  events'[i] < events'[j]
      <4>1. i \in 1 .. Len(events)
        BY <1>2, <2>1, <3>3
      <4>2. CASE j \in 1 .. Len(events)
        BY <2>1, <3>3, <4>1, <4>2 DEF IInv, QueueOK
      <4>3. CASE j = Len(events) + 1
        BY <1>q, <2>1, <4>1, <4>3
      <4> QED
        BY <2>3, <4>2, <4>3
    <3> QED
      BY <1>0, <1>2, <1>3, <3>2, <3>3 DEF QueueOK
  <2>8. \A u \in Update : Processed(u) => Processed(u)'
    BY <1>0, <1>4 DEF Processed
  <2> QED
    BY <1>0, <1>1, <2>2, <2>6, <2>7, <2>8, BatchGoesOn
<1>5. CASE ignored' = ignored \cup {h} /\ UNCHANGED events
  <2>1. TypeOK'
    BY <1>0, <1>1, <1>2, <1>5 DEF IInv, TypeOK
  <2>2. \A u \in Update : Pending(u)' <=> Pending(u)
    BY <1>5 DEF Pending
  <2>3. Processed(h)' /\ \A u \in Update : Processed(u) => Processed(u)'
    BY <1>0, <1>1, <1>5 DEF Processed
  <2>4. QueueOK'
    <3>1. \A i \in 1 .. Len(events) : events[i] < h + 1
      BY <1>2, <1>q
    <3> QED
      BY <1>0, <1>2, <1>3, <1>5, <3>1 DEF IInv, QueueOK
  <2> QED
    BY <1>0, <1>1, <2>1, <2>2, <2>3, <2>4, BatchGoesOn
<1> QED
  BY <1>h, <1>4, <1>5 DEF Normalise

\* A batch that fails is given up, and with it what it had queued.
LEMMA RaiseStep == ASSUME PollingAssumption, IInv, NormaliseRaises PROVE IInv'
<1>1. PICK h : h = Head(response)
  OBVIOUS
<1>2. /\ response # <<>> /\ offset' = h + 1 /\ response' = <<>> /\ events' = <<>> /\ pc' = "poll"
      /\ dropped' = dropped \cup ToSet(events) \cup {h}
      /\ UNCHANGED <<arrived, confirmed, cursor, handled, ignored, latest, crashes>>
  BY <1>1 DEF NormaliseRaises, external
<1>3. /\ h \in Update /\ offset <= h /\ h <= arrived
      /\ \A u \in Update : u < h => Processed(u) \/ Pending(u)
  BY <1>1, <1>2, BatchFacts
<1>4. /\ h \in Nat /\ h + 1 \in 0 .. MaxUpdates + 1 /\ offset \in Nat /\ latest \in Nat /\ arrived \in Nat
      /\ events \in Seq(Update) /\ DOMAIN events = 1 .. Len(events)
  BY <1>3, LenProperties DEF IInv, TypeOK, Update, PollingAssumption
<1>5. \A u \in Update : Pending(u) <=> u \in ToSet(events)
  BY <1>4 DEF Pending, ToSet
<1>6. ToSet(events) \subseteq Update
  <2>1. \A i \in 1 .. Len(events) : events[i] \in Update
    BY <1>4, ElementOfSeq
  <2> QED
    BY <1>4, <2>1 DEF ToSet
<1>7. TypeOK'
  <2>1. dropped' \subseteq Update
    BY <1>2, <1>3, <1>6 DEF IInv, TypeOK
  <2> QED
    BY <1>2, <1>4, <2>1, EmptySeq DEF IInv, TypeOK
<1>8. \A u \in Update : Processed(u) \/ Pending(u) \/ u = h => Processed(u)'
  BY <1>2, <1>5 DEF Processed
<1>9. \A u \in Update : u \in Nat /\ (u < h + 1 => u < h \/ u = h) /\ (u >= h + 1 => u >= offset)
  BY <1>3, <1>4 DEF Update
<1>10. \A u \in Update : u < offset' \/ u < cursor' \/ u <= confirmed' => Processed(u)'
  BY <1>2, <1>3, <1>8, <1>9 DEF IInv, NothingLeftBehind
<1>11. /\ \A u \in Update : u >= offset' => handled'[u] <= crashes'
       /\ \A u \in Update : handled'[u] <= 1 + crashes'
  BY <1>2, <1>9 DEF IInv, FreshOK, RepeatNeedsCrash
<1>12. latest' = 0 \/ latest' < offset'
  BY <1>2, <1>3, <1>4 DEF IInv, QueueOK
<1>13. confirmed' <= arrived /\ offset' <= arrived + 1 /\ cursor' <= arrived + 1
  BY <1>2, <1>3, <1>4 DEF IInv, LoopOK
<1> QED
  BY <1>2, <1>7, <1>10, <1>11, <1>12, <1>13, IdleQueues

\* The poll that failed, the end of a batch, a death and a restart.
LEMMA IdleStep ==
  ASSUME PollingAssumption, IInv, GetUpdatesFails \/ SaveCursor \/ Crash \/ Restart
  PROVE  IInv'
<1>0. /\ offset \in 0 .. MaxUpdates + 1 /\ cursor \in 0 .. MaxUpdates + 1 /\ latest \in 0 .. MaxUpdates
      /\ confirmed \in 0 .. MaxUpdates /\ arrived \in 0 .. MaxUpdates /\ crashes \in Nat
      /\ handled \in [Update -> Nat] /\ MaxUpdates \in Nat
  BY DEF IInv, TypeOK, PollingAssumption
<1>1. \A u \in Update : u \in Nat /\ u >= 1
  BY DEF Update
<1>2. ASSUME events = <<>> PROVE \A u \in Update : ~Pending(u)
  BY <1>2, EmptySeq DEF Pending
<1>3. CASE GetUpdatesFails
  <2>1. /\ pc = "poll" /\ response = <<>> /\ events = <<>>
        /\ UNCHANGED <<arrived, pc, offset, response, events, cursor,
                       handled, ignored, dropped, latest, crashes>>
    BY <1>3 DEF GetUpdatesFails, memory, history, IInv, LoopOK
  <2>2. /\ confirmed' \in 0 .. arrived /\ \A u \in Update : u <= confirmed' => Processed(u)
    BY <1>3, <2>1, ConfirmFacts DEF GetUpdatesFails
  <2>3. confirmed' <= arrived /\ confirmed' \in 0 .. MaxUpdates
    BY <1>0, <2>2
  <2>4. TypeOK'
    BY <2>1, <2>3 DEF IInv, TypeOK
  <2>5. \A u \in Update : Processed(u)' <=> Processed(u)
    BY <2>1 DEF Processed
  <2>6. \A u \in Update : u < offset' \/ u < cursor' \/ u <= confirmed' => Processed(u)'
    BY <1>2, <2>1, <2>2, <2>5 DEF IInv, PassedOK, NothingLeftBehind
  <2>7. /\ \A u \in Update : u >= offset' => handled'[u] <= crashes'
        /\ \A u \in Update : handled'[u] <= 1 + crashes'
    BY <2>1 DEF IInv, FreshOK, RepeatNeedsCrash
  <2>8. (latest' = 0 \/ latest' < offset') /\ offset' <= arrived + 1 /\ cursor' <= arrived + 1
    BY <2>1 DEF IInv, QueueOK, LoopOK
  <2> QED
    BY <2>1, <2>3, <2>4, <2>6, <2>7, <2>8, IdleQueues
<1>4. CASE SaveCursor
  <2>1. /\ pc = "handle" /\ pc' = "poll" /\ response = <<>> /\ events = <<>>
        /\ cursor' \in {offset, cursor}
        /\ UNCHANGED <<arrived, confirmed, offset, response, events,
                       handled, ignored, dropped, latest, crashes>>
    BY <1>4 DEF SaveCursor, memory, history, external, IInv, LoopOK
  <2>2. TypeOK'
    BY <1>0, <2>1 DEF IInv, TypeOK
  <2>3. \A u \in Update : Processed(u)' <=> Processed(u)
    BY <2>1 DEF Processed
  <2>4. \A u \in Update : u < offset' \/ u < cursor' \/ u <= confirmed' => Processed(u)'
    BY <1>2, <2>1, <2>3 DEF IInv, PassedOK, NothingLeftBehind
  <2>5. /\ \A u \in Update : u >= offset' => handled'[u] <= crashes'
        /\ \A u \in Update : handled'[u] <= 1 + crashes'
    BY <2>1 DEF IInv, FreshOK, RepeatNeedsCrash
  <2>6. /\ latest' = 0 \/ latest' < offset'
        /\ confirmed' <= arrived /\ offset' <= arrived + 1 /\ cursor' <= arrived + 1
    BY <2>1 DEF IInv, QueueOK, LoopOK
  <2> QED
    BY <2>1, <2>2, <2>4, <2>5, <2>6, IdleQueues
<1>5. CASE Crash
  <2>1. /\ pc' = "down" /\ offset' = 0 /\ latest' = 0 /\ response' = <<>> /\ events' = <<>>
        /\ crashes' = crashes + 1
        /\ UNCHANGED <<arrived, confirmed, cursor, handled, ignored, dropped>>
    BY <1>5 DEF Crash, external
  <2>2. TypeOK'
    BY <1>0, <2>1, EmptySeq DEF IInv, TypeOK
  <2>3. \A u \in Update : Processed(u)' <=> Processed(u)
    BY <2>1 DEF Processed
  <2>4. \A u \in Update : u < offset' \/ u < cursor' \/ u <= confirmed' => Processed(u)'
    BY <1>1, <2>1, <2>3 DEF IInv, NothingLeftBehind
  <2>5. \A u \in Update : handled'[u] <= crashes' /\ handled'[u] <= 1 + crashes'
    BY <1>0, <2>1 DEF IInv, RepeatNeedsCrash
  <2>6. confirmed' <= arrived /\ offset' <= arrived + 1 /\ cursor' <= arrived + 1
    BY <1>0, <2>1 DEF IInv, LoopOK
  <2> QED
    BY <2>1, <2>2, <2>4, <2>5, <2>6, IdleQueues
<1>6. CASE Restart
  <2>1. /\ pc = "down" /\ pc' = "poll" /\ offset = 0 /\ offset' = cursor /\ latest = 0
        /\ response = <<>> /\ events = <<>>
        /\ UNCHANGED <<arrived, confirmed, response, events, cursor,
                       handled, ignored, dropped, latest, crashes>>
    BY <1>6 DEF Restart, external, history, IInv, LoopOK
  <2>2. TypeOK'
    BY <1>0, <2>1 DEF IInv, TypeOK
  <2>3. \A u \in Update : Processed(u)' <=> Processed(u)
    BY <2>1 DEF Processed
  <2>4. \A u \in Update : u < offset' \/ u < cursor' \/ u <= confirmed' => Processed(u)'
    BY <2>1, <2>3 DEF IInv, NothingLeftBehind
  <2>5. \A u \in Update : handled'[u] <= crashes' /\ handled'[u] <= 1 + crashes'
    BY <1>1, <2>1 DEF IInv, FreshOK, RepeatNeedsCrash
  <2>6. confirmed' <= arrived /\ offset' <= arrived + 1 /\ cursor' <= arrived + 1
    BY <2>1 DEF IInv, LoopOK
  <2> QED
    BY <2>1, <2>2, <2>4, <2>5, <2>6, IdleQueues
<1> QED
  BY <1>3, <1>4, <1>5, <1>6

LEMMA ReadyStep == ASSUME IInv, BatchReady PROVE IInv'
<1>1. /\ pc' = "handle" /\ response = <<>>
      /\ UNCHANGED <<arrived, confirmed, offset, response, events, cursor,
                     handled, ignored, dropped, latest, crashes>>
  BY DEF BatchReady, external, memory, history
<1>2. TypeOK' /\ LoopOK'
  BY <1>1 DEF IInv, TypeOK, LoopOK
<1>3. NothingLeftBehind' /\ RepeatNeedsCrash' /\ BatchOK' /\ QueueOK' /\ PassedOK' /\ FreshOK'
  BY <1>1 DEF IInv, NothingLeftBehind, RepeatNeedsCrash, BatchOK, QueueOK, PassedOK, FreshOK,
              Processed, Pending
<1> QED
  BY <1>2, <1>3 DEF IInv

\* The update h that is handled, and what is left of the queue.
Splits(h, rest) ==
  /\ h \in Update /\ latest < h /\ h < offset /\ handled[h] <= crashes /\ Pending(h)
  /\ rest \in Seq(Update)
  /\ \A i \in 1 .. Len(rest) : h < rest[i] /\ rest[i] < offset
  /\ \A i, j \in 1 .. Len(rest) : i < j => rest[i] < rest[j]
  /\ \A u \in Update : Pending(u) <=> u = h \/ \E i \in 1 .. Len(rest) : rest[i] = u

LEMMA QueueFacts ==
  ASSUME IInv, events # <<>>, NEW h, h = Head(events), NEW rest, rest = Tail(events)
  PROVE  Splits(h, rest)
<1>1. events \in Seq(Update) /\ Len(events) \in Nat \ {0}
  BY EmptySeq DEF IInv, TypeOK
<1>2. /\ h \in Update /\ h = events[1] /\ rest \in Seq(Update) /\ Len(rest) = Len(events) - 1
      /\ \A i \in 1 .. Len(rest) : rest[i] = events[i + 1]
  BY <1>1, HeadTailProperties
<1>3. /\ 1 \in 1 .. Len(events)
      /\ \A i \in 1 .. Len(rest) : i + 1 \in 1 .. Len(events) /\ 1 < i + 1
  BY <1>1, <1>2
<1>4. Pending(h) /\ latest < h /\ h < offset
  BY <1>2, <1>3 DEF IInv, QueueOK, Pending
<1>5. handled[h] <= crashes
  BY <1>2, <1>4 DEF IInv, FreshOK
<1>6. \A i \in 1 .. Len(rest) : h < rest[i] /\ rest[i] < offset
  BY <1>2, <1>3 DEF IInv, QueueOK
<1>7. ASSUME NEW i \in 1 .. Len(rest), NEW j \in 1 .. Len(rest), i < j PROVE rest[i] < rest[j]
  <2>1. i + 1 < j + 1
    BY <1>7
  <2> QED
    BY <1>2, <1>3, <2>1 DEF IInv, QueueOK
<1>8. ASSUME NEW u \in Update, Pending(u), u # h PROVE \E i \in 1 .. Len(rest) : rest[i] = u
  <2>1. PICK k \in 1 .. Len(events) : events[k] = u
    BY <1>8 DEF Pending
  <2>2. PICK i \in 1 .. Len(rest) : k = i + 1
    <3>1. k # 1
      BY <1>2, <1>8, <2>1
    <3>2. k - 1 \in 1 .. Len(rest) /\ k = (k - 1) + 1
      BY <1>1, <1>2, <3>1
    <3> QED
      BY <3>2
  <2> QED
    BY <1>2, <2>1, <2>2
<1>9. ASSUME NEW i \in 1 .. Len(rest) PROVE Pending(rest[i])
  BY <1>2, <1>3 DEF Pending
<1> QED
  BY <1>2, <1>4, <1>5, <1>6, <1>7, <1>8, <1>9 DEF Splits

LEMMA HandleStep ==
  ASSUME PollingAssumption, IInv, Handle
  PROVE  IInv' /\ latest' > latest
<1>h. PICK h : h = Head(events)
  OBVIOUS
<1>r. PICK rest : rest = Tail(events)
  OBVIOUS
<1>1. /\ pc = "handle" /\ events # <<>> /\ events' = rest /\ latest' = h /\ response = <<>>
      /\ handled' = [handled EXCEPT ![h] = @ + 1]
      /\ UNCHANGED <<arrived, confirmed, pc, offset, response, cursor, ignored, dropped, crashes>>
  BY <1>h, <1>r DEF Handle, external, IInv, LoopOK
<1>2. /\ h \in Update /\ latest < h /\ h < offset /\ handled[h] <= crashes /\ Pending(h)
      /\ rest \in Seq(Update)
      /\ \A i \in 1 .. Len(rest) : h < rest[i] /\ rest[i] < offset
      /\ \A i, j \in 1 .. Len(rest) : i < j => rest[i] < rest[j]
      /\ \A u \in Update : Pending(u) <=> u = h \/ \E i \in 1 .. Len(rest) : rest[i] = u
  <2>1. events # <<>>
    BY <1>1
  <2>2. Splits(h, rest)
    BY <1>h, <1>r, <2>1, QueueFacts
  <2> QED
    BY <2>2 DEF Splits
<1>3. /\ handled \in [Update -> Nat] /\ crashes \in Nat /\ h \in Nat /\ latest \in Nat /\ offset \in Nat
      /\ h \in 0 .. MaxUpdates
  BY <1>2 DEF IInv, TypeOK, Update, PollingAssumption
<1>4. handled'[h] = handled[h] + 1 /\ \A u \in Update : u # h => handled'[u] = handled[u]
  BY <1>1, <1>2, <1>3
<1>5. TypeOK'
  <2>1. handled[h] + 1 \in Nat /\ h \in Update
    BY <1>2, <1>3
  <2>2. handled' \in [Update -> Nat]
    BY <1>1, <1>3, <2>1
  <2> QED
    BY <1>1, <1>2, <1>3, <2>2 DEF IInv, TypeOK
<1>6. \A u \in Update : Pending(u)' <=> \E i \in 1 .. Len(rest) : rest[i] = u
  BY <1>1 DEF Pending
<1>7. \A u \in Update : Processed(u) \/ u = h => Processed(u)'
  BY <1>1, <1>3, <1>4 DEF Processed
<1>8. \A u \in Update : Pending(u)' => Pending(u) /\ u # h
  BY <1>2, <1>3, <1>6
<1>9. LoopOK' /\ BatchOK'
  BY <1>1, EmptySeq DEF IInv, LoopOK, BatchOK
<1>10. QueueOK'
  BY <1>1, <1>2 DEF QueueOK
<1>11. PassedOK' /\ NothingLeftBehind'
  BY <1>1, <1>2, <1>6, <1>7 DEF IInv, PassedOK, NothingLeftBehind
<1>12. FreshOK'
  <2>1. \A u \in Update : u >= offset => u # h
    BY <1>2, <1>3
  <2> QED
    BY <1>1, <1>4, <1>8, <2>1 DEF IInv, FreshOK
<1>13. RepeatNeedsCrash'
  BY <1>1, <1>2, <1>3, <1>4 DEF IInv, RepeatNeedsCrash
<1> QED
  BY <1>1, <1>2, <1>3, <1>5, <1>9, <1>10, <1>11, <1>12, <1>13 DEF IInv

LEMMA Inductive == ASSUME PollingAssumption, IInv, [Next]_vars PROVE IInv'
<1>1. CASE UNCHANGED vars
  BY <1>1 DEF vars, external, memory, history, IInv, TypeOK, NothingLeftBehind, RepeatNeedsCrash,
              LoopOK, BatchOK, QueueOK, PassedOK, FreshOK, Processed, Pending
<1> QED
  BY <1>1, ArriveStep, PollStep, NormaliseStep, RaiseStep, IdleStep, ReadyStep, HandleStep
     DEF Next, Loop

\* Nothing the durable cursor or the Bot API has left behind is unprocessed, an
\* update is handled again only after a crash, and within a life in order, for
\* any number of updates and crashes (runner.py, telegram.py).
THEOREM PollingHolds == ASSUME PollingAssumption PROVE Spec => PollingKeepsItsPlace
<1> DEFINE Ordered == latest' # 0 => latest' >= latest /\ (handled' # handled => latest' > latest)
<1>1. Init => IInv
  BY InitIInv
<1>2. IInv /\ [Next]_vars => IInv'
  BY Inductive
<1>3. IInv => TypeOK /\ NothingLeftBehind /\ RepeatNeedsCrash
  BY DEF IInv
<1>4. IInv /\ [Next]_vars => [Ordered]_vars
  <2> SUFFICES ASSUME IInv, Next, latest' # 0 PROVE latest' >= latest /\ (handled' # handled => latest' > latest)
    OBVIOUS
  <2>1. latest \in Nat /\ latest' \in Nat
    BY Inductive DEF IInv, TypeOK
  <2>2. CASE Handle
    BY <2>1, <2>2, HandleStep
  <2>3. CASE ~Handle
    BY <2>1, <2>3 DEF Next, Loop, Arrive, GetUpdates, GetUpdatesFails, Normalise, NormaliseRaises,
                      BatchReady, SaveCursor, Crash, Restart, history
  <2> QED
    BY <2>2, <2>3
<1> HIDE DEF Ordered
<1>5. Spec => [](TypeOK /\ NothingLeftBehind /\ RepeatNeedsCrash) /\ [][Ordered]_vars
  BY <1>1, <1>2, <1>3, <1>4, PTL DEF Spec
<1> QED
  BY <1>5 DEF PollingKeepsItsPlace, InOrder, Ordered
-----------------------------------------------------------------------------
(* The reply marker (ReplyMarker): one file for all chats, compared with a *)
(* run by its time.                                                        *)

CONSTANTS Run, Together, Pausing, MaxTime, Torn
VARIABLES at, started, briefs, tmp, marker, reply, now

Reply == INSTANCE ReplyMarker WITH pc <- at

Writing == {"open", "fill", "publish"}
IsLast(b, r) == b \in briefs /\ b.run = r /\ \A c \in briefs : c.run = r => c.at <= b.at

\* The marker is of an earlier step.
MarkerTypes ==
  /\ at \in [Run -> {"new", "running", "paused", "ended"} \cup Writing]
  /\ started \in [Run -> Nat] /\ now \in 0 .. MaxTime /\ \A r \in Run : started[r] <= now
  /\ briefs \subseteq Reply!Brief /\ \A b \in briefs : b.at <= now
  /\ marker \in {Reply!NoBrief} \cup briefs /\ (marker \in briefs => marker.at < now)
  /\ reply \in [Run -> Reply!Brief \cup {Reply!NoBrief}]

\* One run executes.
AloneOK == \A r, s \in Run : r \in Reply!Executing /\ s \in Reply!Executing => r = s

\* A run that has recorded has a last decision, and publishes that one.
RecordedOK ==
  \A r \in Run :
    /\ at[r] \in Writing => \E b \in briefs : b.run = r
    /\ (\E b \in briefs : b.run = r) => \E b \in briefs : IsLast(b, r)
    /\ at[r] = "publish" => IsLast(tmp, r)

\* A marker that is not older than the run at work is its own.
OwnOK == \A r \in Reply!Executing : marker \in briefs /\ marker.at >= started[r] => marker.run = r

ReplyInv == MarkerTypes /\ AloneOK /\ RecordedOK /\ OwnOK /\ Reply!OwnReplyOnly

\* Without pauses: decisions are younger than the start of their run, numbered by their time, and
\* a run between two calls finds its last one in the marker.
YoungOK ==
  /\ \A r \in Run : at[r] # "paused"
  /\ \A b \in briefs : at[b.run] # "new" /\ b.at >= started[b.run]
  /\ \A b, c \in briefs : b.at = c.at => b = c
  /\ \A r \in Run : at[r] = "running" /\ (\E b \in briefs : b.run = r) => IsLast(marker, r)

MarkerTheory == IsFiniteSet(Run) /\ Together = 1 /\ MaxTime \in Nat
NoPauses == MarkerTheory /\ ~Pausing /\ Torn \notin Reply!Brief

LEMMA BriefIs ==
  /\ \A b \in Reply!Brief : b.run \in Run /\ b.at \in 1 .. MaxTime /\ b # Reply!NoBrief
  /\ \A r \in Run : r \in Reply!Executing <=> at[r] \in {"running"} \cup Writing
<1>1. ASSUME NEW b \in Reply!Brief PROVE b.run \in Run /\ b.at \in 1 .. MaxTime /\ b # Reply!NoBrief
  <2>1. b.run \in Run /\ b.at \in 1 .. MaxTime
    BY DEF Reply!Brief
  <2>2. Reply!NoBrief.at = 0
    BY DEF Reply!NoBrief
  <2>3. b.at # 0
    BY <2>1
  <2>4. QED
    BY <2>1, <2>2, <2>3
<1>2. QED
  BY <1>1 DEF Reply!Executing, Writing

\* The last decision is the one CHOOSE finds.
LEMMA LastIs ==
  ASSUME NEW r, NEW b \in briefs, IsLast(b, r) PROVE IsLast(Reply!Last(r), r)
<1>1. PICK h : h = CHOOSE x \in briefs : x.run = r /\ \A c \in briefs : c.run = r => c.at <= x.at
  OBVIOUS
<1>2. b \in briefs /\ b.run = r /\ \A c \in briefs : c.run = r => c.at <= b.at
  BY DEF IsLast
<1>3. h \in briefs /\ h.run = r /\ \A c \in briefs : c.run = r => c.at <= h.at
  BY <1>1, <1>2, Zenon
<1>4. QED
  BY <1>1, <1>3 DEF IsLast, Reply!Last

\* A start waits until nobody executes.
LEMMA StartsAlone ==
  ASSUME MarkerTheory, NEW r \in Run, Reply!Start(r) PROVE \A s \in Run : s \notin Reply!Executing
<1>1. PICK X : X = Reply!Executing
  OBVIOUS
<1>2. X \subseteq Run
  BY <1>1 DEF Reply!Executing
<1>3. IsFiniteSet(X)
  BY <1>2, FS_Subset DEF MarkerTheory
<1>4. Reply!Cardinality(X) = Cardinality(X)
  BY DEF Reply!Cardinality, Cardinality
<1>5. Cardinality(X) < 1
  BY <1>1, <1>4 DEF Reply!Start, MarkerTheory
<1>6. Cardinality(X) \in Nat /\ (Cardinality(X) = 0 <=> X = {})
  BY <1>3, FS_CardinalityType, FS_EmptySet
<1>7. Cardinality(X) = 0
  BY <1>5, <1>6
<1>8. X = {}
  BY <1>6, <1>7
<1>9. QED
  BY <1>1, <1>8

\* Steps of a run that leave the decisions and the marker alone.
LEMMA Turns ==
  ASSUME MarkerTheory, ReplyInv, NEW r \in Run, NEW to \in {"running", "paused", "ended"} \cup Writing,
         at' = [at EXCEPT ![r] = to], now' = now + 1, now < MaxTime,
         UNCHANGED <<started, briefs, marker>>, r \in Reply!Executing,
         reply' \in [Run -> Reply!Brief \cup {Reply!NoBrief}]
  PROVE  /\ MarkerTypes' /\ AloneOK' /\ OwnOK' /\ at'[r] = to
         /\ \A s \in Run \ {r} : at'[s] = at[s] /\ at[s] \notin {"running"} \cup Writing
         /\ \A b : \A s : IsLast(b, s)' <=> IsLast(b, s)
<1> USE DEF ReplyInv
<1>1. at'[r] = to /\ \A s \in Run \ {r} : at'[s] = at[s]
  BY DEF MarkerTypes
<1>2. \A s \in Run \ {r} : at[s] \notin {"running"} \cup Writing
  BY BriefIs DEF AloneOK
<1>3. MarkerTypes'
  <2>1. now \in Nat /\ now' \in 0 .. MaxTime /\ now <= now'
    BY DEF MarkerTypes, MarkerTheory
  <2>2. at' \in [Run -> {"new", "running", "paused", "ended"} \cup Writing]
    BY DEF MarkerTypes
  <2>3. \A b \in briefs : b.at \in Nat
    BY BriefIs DEF MarkerTypes
  <2>4. /\ \A b \in briefs : b.at <= now'
        /\ marker \in briefs => marker.at < now'
        /\ \A s \in Run : started[s] <= now'
    BY <2>1, <2>3 DEF MarkerTypes
  <2>5. QED
    BY <2>1, <2>2, <2>4 DEF MarkerTypes
<1>4. \A s \in Run : s \in Reply!Executing' => s = r
  BY <1>1, <1>2 DEF Reply!Executing, Writing
<1>5. AloneOK'
  BY <1>4 DEF AloneOK
<1>6. OwnOK'
  <2>1. SUFFICES ASSUME marker \in briefs, marker.at >= started[r] PROVE marker.run = r
    BY <1>4 DEF OwnOK, Reply!Executing
  <2>2. QED
    BY <2>1 DEF OwnOK
<1>7. \A b : \A s : IsLast(b, s)' <=> IsLast(b, s)
  BY DEF IsLast
<1>8. QED
  BY <1>1, <1>2, <1>3, <1>5, <1>6, <1>7

LEMMA TurnsOK ==
  ASSUME MarkerTheory, ReplyInv, NEW r \in Run,
         Reply!Pause(r) \/ Reply!OpenTmp(r) \/ Reply!FillTmp(r) \/ Reply!Complete(r) \/ Reply!Fail(r)
  PROVE  ReplyInv'
<1> USE DEF ReplyInv
<1>1. /\ r \in Reply!Executing /\ now' = now + 1 /\ now < MaxTime /\ UNCHANGED <<started, briefs, marker>>
  BY DEF Reply!Pause, Reply!OpenTmp, Reply!FillTmp, Reply!Complete, Reply!Fail, Reply!Goes, Reply!Executing
<1>2. PICK to \in {"paused", "ended", "fill", "publish"} :
        /\ at' = [at EXCEPT ![r] = to] /\ (to \in Writing => at[r] \in Writing)
        /\ (to = "publish" => tmp' = Reply!Last(r))
  BY DEF Reply!Pause, Reply!OpenTmp, Reply!FillTmp, Reply!Complete, Reply!Fail, Reply!Goes, Writing
<1>3. reply' \in [Run -> Reply!Brief \cup {Reply!NoBrief}] /\ Reply!OwnReplyOnly'
  <2>1. CASE UNCHANGED reply
    BY <2>1 DEF MarkerTypes, Reply!OwnReplyOnly
  <2>2. CASE Reply!Fail(r)
    <3>1. PICK said : /\ said = (IF Reply!Readable(r) THEN marker ELSE Reply!NoBrief)
                      /\ reply' = [reply EXCEPT ![r] = said]
      BY <2>2 DEF Reply!Fail
    <3>2. said \in Reply!Brief \cup {Reply!NoBrief}
      BY <3>1 DEF MarkerTypes
    <3>3. said # Reply!NoBrief => said.run = r
      <4>1. SUFFICES ASSUME said # Reply!NoBrief PROVE said.run = r
        OBVIOUS
      <4>2. said = marker /\ marker \in briefs /\ marker.at >= started[r]
        BY <3>1, <4>1 DEF Reply!Readable, MarkerTypes
      <4>3. QED
        BY <1>1, <4>2 DEF OwnOK
    <3>4. QED
      BY <3>1, <3>2, <3>3 DEF MarkerTypes, Reply!OwnReplyOnly
  <2>3. QED
    BY <2>1, <2>2 DEF Reply!Pause, Reply!OpenTmp, Reply!FillTmp, Reply!Complete
<1>4. /\ MarkerTypes' /\ AloneOK' /\ OwnOK' /\ at'[r] = to
      /\ \A s \in Run \ {r} : at'[s] = at[s] /\ at[s] \notin {"running"} \cup Writing
      /\ \A b : \A s : IsLast(b, s)' <=> IsLast(b, s)
  <2>1. to \in {"running", "paused", "ended"} \cup Writing
    BY DEF Writing
  <2>2. QED
    BY <1>1, <1>2, <1>3, <2>1, Turns
<1>5. RecordedOK'
  <2>1. ASSUME NEW s \in Run
        PROVE  /\ at'[s] \in Writing => \E b \in briefs : b.run = s
               /\ (\E b \in briefs : b.run = s) => \E b \in briefs : IsLast(b, s)
    BY <1>2, <1>4 DEF RecordedOK
  <2>2. to = "publish" => IsLast(tmp', r)
    <3>1. SUFFICES ASSUME to = "publish" PROVE IsLast(tmp', r)
      OBVIOUS
    <3>2. PICK b \in briefs : IsLast(b, r)
      BY <1>2, <3>1 DEF RecordedOK, Writing
    <3>3. IsLast(Reply!Last(r), r)
      BY <3>2, LastIs
    <3>4. QED
      BY <1>2, <3>1, <3>3
  <2>3. \A s \in Run : at'[s] = "publish" => IsLast(tmp', s)
    BY <1>4, <2>2 DEF Writing
  <2>4. QED
    BY <1>1, <2>1, <2>3 DEF RecordedOK, IsLast
<1>6. QED
  BY <1>3, <1>4, <1>5

LEMMA StartOK ==
  ASSUME MarkerTheory, ReplyInv, NEW r \in Run, Reply!Start(r)
  PROVE  ReplyInv'
<1> USE DEF ReplyInv
<1>1. \A s \in Run : at[s] \notin {"running"} \cup Writing
  BY StartsAlone, BriefIs
<1>2. /\ at' = [at EXCEPT ![r] = "running"] /\ started' = [started EXCEPT ![r] = now]
      /\ now' = now + 1 /\ now < MaxTime /\ UNCHANGED <<briefs, tmp, marker, reply>>
  BY DEF Reply!Start, Reply!Starts, Reply!Goes
<1>3. /\ at' \in [Run -> {"new", "running", "paused", "ended"} \cup Writing]
      /\ at'[r] = "running" /\ \A s \in Run \ {r} : at'[s] = at[s]
      /\ started' \in [Run -> Nat] /\ started'[r] = now /\ \A s \in Run \ {r} : started'[s] = started[s]
      /\ now \in Nat /\ now' \in 0 .. MaxTime
  BY <1>2 DEF MarkerTypes, MarkerTheory
<1>4. \A b \in briefs : b.at \in Nat
  BY BriefIs DEF MarkerTypes
<1>5. MarkerTypes'
  <2>1. /\ \A b \in briefs : b.at <= now'
        /\ marker \in briefs => marker.at < now'
        /\ \A s \in Run : started'[s] <= now'
    BY <1>2, <1>3, <1>4 DEF MarkerTypes
  <2>2. QED
    BY <1>2, <1>3, <2>1 DEF MarkerTypes
<1>6. \A s \in Run : s \in Reply!Executing' => s = r
  BY <1>1, <1>3 DEF Reply!Executing, Writing
<1>7. AloneOK'
  BY <1>6 DEF AloneOK
<1>8. OwnOK'
  <2>1. ~(marker \in briefs /\ marker.at >= started'[r])
    BY <1>3, <1>4 DEF MarkerTypes
  <2>2. QED
    BY <1>2, <1>6, <2>1 DEF OwnOK, Reply!Executing
<1>9. RecordedOK'
  BY <1>1, <1>2, <1>3 DEF RecordedOK, IsLast, Writing
<1>10. Reply!OwnReplyOnly'
  BY <1>2 DEF Reply!OwnReplyOnly
<1>11. QED
  BY <1>5, <1>7, <1>8, <1>9, <1>10

\* The new decision is the last of its run.
LEMMA RecordOK ==
  ASSUME MarkerTheory, ReplyInv, NEW r \in Run, Reply!Record(r)
  PROVE  /\ ReplyInv' /\ now' = now + 1 /\ at' = [at EXCEPT ![r] = "open"] /\ UNCHANGED <<started, marker>>
         /\ \E b : briefs' = briefs \cup {b} /\ b.run = r /\ b.at = now + 1
<1> USE DEF ReplyInv
<1>1. /\ at[r] = "running" /\ at' = [at EXCEPT ![r] = "open"] /\ now' = now + 1 /\ now < MaxTime
      /\ UNCHANGED <<started, tmp, marker, reply>> /\ briefs' = briefs \cup {[run |-> r, at |-> now + 1]}
  BY DEF Reply!Record, Reply!Goes
<1>2. PICK new : new = [run |-> r, at |-> now + 1]
  OBVIOUS
<1>3. now \in Nat /\ now + 1 \in 1 .. MaxTime /\ now' \in 0 .. MaxTime
  BY <1>1 DEF MarkerTypes, MarkerTheory
<1>4. new \in Reply!Brief /\ new.run = r /\ new.at = now + 1 /\ briefs' = briefs \cup {new}
  BY <1>1, <1>2, <1>3 DEF Reply!Brief
<1>5. /\ at' \in [Run -> {"new", "running", "paused", "ended"} \cup Writing]
      /\ at'[r] = "open" /\ \A s \in Run \ {r} : at'[s] = at[s] /\ at[s] \notin {"running"} \cup Writing
  BY <1>1, BriefIs DEF MarkerTypes, AloneOK, Writing
<1>6. \A b \in briefs : b.at \in Nat /\ b.at <= now
  BY BriefIs DEF MarkerTypes
<1>7. marker \in briefs' => marker \in briefs
  BY <1>4, BriefIs DEF MarkerTypes
<1>8. MarkerTypes'
  <2>1. /\ \A b \in briefs' : b.at <= now'
        /\ marker \in briefs' => marker.at < now'
        /\ \A s \in Run : started[s] <= now'
    <3>1. \A b \in briefs' : b.at <= now'
      BY <1>1, <1>3, <1>4, <1>6
    <3>2. marker \in briefs' => marker.at < now'
      BY <1>1, <1>3, <1>6, <1>7
    <3>3. \A s \in Run : started[s] <= now'
      BY <1>1, <1>3 DEF MarkerTypes
    <3>4. QED
      BY <3>1, <3>2, <3>3
  <2>2. marker \in {Reply!NoBrief} \cup briefs'
    BY <1>4 DEF MarkerTypes
  <2>3. QED
    BY <1>1, <1>3, <1>4, <1>5, <2>1, <2>2 DEF MarkerTypes
<1>9. \A s \in Run : s \in Reply!Executing' => s = r
  BY <1>5 DEF Reply!Executing, Writing
<1>10. AloneOK'
  BY <1>9 DEF AloneOK
<1>11. OwnOK'
  <2>1. r \in Reply!Executing
    BY <1>1 DEF Reply!Executing
  <2>2. QED
    BY <1>1, <1>7, <1>9, <2>1 DEF OwnOK, Reply!Executing
<1>12. RecordedOK'
  <2>1. new.at >= new.at /\ \A c \in briefs' : c.run = r => c.at <= new.at
    BY <1>3, <1>4, <1>6
  <2>2. IsLast(new, r)'
    BY <1>4, <2>1 DEF IsLast
  <2>3. ASSUME NEW s \in Run \ {r}
        PROVE  (\E b \in briefs' : b.run = s) => \E b \in briefs' : IsLast(b, s)'
    <3>1. \A c \in briefs' : c.run = s => c \in briefs
      BY <1>4, <2>3
    <3>2. (\E b \in briefs : b.run = s) => \E b \in briefs : IsLast(b, s)
      BY DEF RecordedOK
    <3>3. \A b \in briefs : IsLast(b, s) => IsLast(b, s)'
      BY <1>4, <3>1 DEF IsLast
    <3>4. QED
      BY <1>4, <3>1, <3>2, <3>3
  <2>4. \A s \in Run : at'[s] \in Writing => s = r
    BY <1>5
  <2>5. \A s \in Run : at'[s] # "publish"
    BY <1>5 DEF Writing
  <2>6. \A s \in Run : /\ at'[s] \in Writing => \E b \in briefs' : b.run = s
                       /\ (\E b \in briefs' : b.run = s) => \E b \in briefs' : IsLast(b, s)'
    BY <1>4, <2>2, <2>3, <2>4
  <2>7. QED
    BY <2>5, <2>6 DEF RecordedOK
<1>13. Reply!OwnReplyOnly'
  BY <1>1 DEF Reply!OwnReplyOnly
<1>14. QED
  BY <1>1, <1>4, <1>8, <1>10, <1>11, <1>12, <1>13

\* The rename publishes what the run has just written.
LEMMA RenameOK ==
  ASSUME MarkerTheory, ReplyInv, NEW r \in Run, Reply!Rename(r)
  PROVE  /\ ReplyInv' /\ at' = [at EXCEPT ![r] = "running"] /\ UNCHANGED <<started, briefs>>
         /\ IsLast(marker', r)
<1> USE DEF ReplyInv
<1>1. at[r] = "publish" /\ IsLast(tmp, r)
  BY DEF Reply!Rename, RecordedOK
<1>2. tmp \in briefs /\ tmp.run = r /\ tmp # Reply!NoBrief
  BY <1>1, BriefIs DEF IsLast, MarkerTypes
<1>3. /\ marker' = tmp /\ at' = [at EXCEPT ![r] = "running"] /\ now' = now + 1 /\ now < MaxTime
      /\ UNCHANGED <<started, briefs, reply>>
  BY <1>2 DEF Reply!Rename, Reply!Publish, Reply!Goes
<1>4. /\ at' \in [Run -> {"new", "running", "paused", "ended"} \cup Writing]
      /\ at'[r] = "running" /\ \A s \in Run \ {r} : at'[s] = at[s] /\ at[s] \notin {"running"} \cup Writing
  BY <1>1, <1>3, BriefIs DEF MarkerTypes, AloneOK, Writing
<1>5. MarkerTypes'
  <2>1. now \in Nat /\ now' \in 0 .. MaxTime
    BY <1>3 DEF MarkerTypes, MarkerTheory
  <2>2. \A b \in briefs : b.at \in Nat /\ b.at <= now
    BY BriefIs DEF MarkerTypes
  <2>3. /\ \A b \in briefs : b.at <= now' /\ b.at < now'
        /\ \A s \in Run : started[s] <= now'
    BY <1>3, <2>1, <2>2 DEF MarkerTypes
  <2>4. QED
    BY <1>2, <1>3, <1>4, <2>1, <2>3 DEF MarkerTypes
<1>6. \A s \in Run : s \in Reply!Executing' => s = r
  BY <1>4 DEF Reply!Executing, Writing
<1>7. AloneOK' /\ OwnOK'
  BY <1>2, <1>3, <1>6 DEF AloneOK, OwnOK, Reply!Executing
<1>8. RecordedOK'
  BY <1>3, <1>4 DEF RecordedOK, IsLast, Writing
<1>9. Reply!OwnReplyOnly'
  BY <1>3 DEF Reply!OwnReplyOnly
<1>10. QED
  BY <1>1, <1>3, <1>5, <1>7, <1>8, <1>9

LEMMA ReplyStart == ASSUME MarkerTheory, Reply!Init PROVE ReplyInv
<1>1. MarkerTypes
  BY DEF Reply!Init, MarkerTypes, MarkerTheory
<1>2. AloneOK /\ OwnOK
  BY DEF Reply!Init, AloneOK, OwnOK, Reply!Executing
<1>3. RecordedOK
  BY DEF Reply!Init, RecordedOK, Writing
<1>4. Reply!OwnReplyOnly
  BY DEF Reply!Init, Reply!OwnReplyOnly
<1>5. QED
  BY <1>1, <1>2, <1>3, <1>4 DEF ReplyInv

LEMMA ReplyKeeps == ASSUME MarkerTheory, ReplyInv, [Reply!Next]_(Reply!vars) PROVE ReplyInv'
<1>1. CASE UNCHANGED Reply!vars
  BY <1>1 DEF Reply!vars, ReplyInv, MarkerTypes, AloneOK, RecordedOK, IsLast, OwnOK, Reply!OwnReplyOnly, Reply!Executing
<1>2. CASE Reply!Next
  <2>1. PICK r \in Run : \/ Reply!Start(r) \/ Reply!Record(r) \/ Reply!Rename(r)
                        \/ Reply!Pause(r) \/ Reply!OpenTmp(r) \/ Reply!FillTmp(r) \/ Reply!Complete(r) \/ Reply!Fail(r)
    BY <1>2 DEF Reply!Next
  <2>2. QED
    BY <2>1, StartOK, RecordOK, RenameOK, TurnsOK
<1>3. QED
  BY <1>1, <1>2

\* For any number of runs, decisions and pauses, one run at a time: a chat is
\* never answered with the decision of another run (OwnReplyOnly).
THEOREM RepliesAreOwn == ASSUME MarkerTheory PROVE Reply!Spec => []Reply!OwnReplyOnly
<1>1. Reply!Init => ReplyInv
  BY ReplyStart
<1>2. ReplyInv /\ [Reply!Next]_(Reply!vars) => ReplyInv'
  BY ReplyKeeps
<1>3. ReplyInv => Reply!OwnReplyOnly
  BY DEF ReplyInv
<1>4. QED
  BY <1>1, <1>2, <1>3, PTL DEF Reply!Spec

LEMMA YoungStarts ==
  ASSUME NoPauses, ReplyInv, YoungOK, NEW r \in Run, Reply!Start(r)
  PROVE  YoungOK'
<1>1. \A s \in Run : at[s] \notin {"running"} \cup Writing
  BY StartsAlone, BriefIs DEF NoPauses
<1>2. /\ at[r] = "new" /\ at' = [at EXCEPT ![r] = "running"] /\ started' = [started EXCEPT ![r] = now]
      /\ UNCHANGED <<briefs, marker>>
  BY DEF Reply!Start, Reply!Starts, Reply!Goes, YoungOK
<1>3. /\ at'[r] = "running" /\ \A s \in Run \ {r} : at'[s] = at[s] /\ started'[s] = started[s]
  BY <1>2 DEF ReplyInv, MarkerTypes
<1>4. \A b \in briefs : b.run \in Run \ {r}
  BY <1>2, BriefIs DEF ReplyInv, MarkerTypes, YoungOK
<1>5. \A s \in Run : at'[s] # "paused"
  BY <1>3 DEF YoungOK
<1>6. \A b \in briefs : at'[b.run] # "new" /\ b.at >= started'[b.run]
  BY <1>3, <1>4 DEF YoungOK
<1>7. \A s \in Run : at'[s] = "running" => \A b \in briefs : b.run # s
  BY <1>1, <1>3, <1>4
<1>8. QED
  BY <1>2, <1>5, <1>6, <1>7 DEF YoungOK

LEMMA YoungRecords ==
  ASSUME NoPauses, ReplyInv, YoungOK, NEW r \in Run, Reply!Record(r)
  PROVE  YoungOK'
<1>1. PICK new : briefs' = briefs \cup {new} /\ new.run = r /\ new.at = now + 1
  BY RecordOK DEF NoPauses
<1>2. at' = [at EXCEPT ![r] = "open"] /\ UNCHANGED <<started, marker>>
  BY RecordOK DEF NoPauses
<1>3. /\ at'[r] = "open" /\ \A s \in Run \ {r} : at'[s] = at[s] /\ at[s] \notin {"running"} \cup Writing
  <2>1. r \in Reply!Executing
    BY DEF Reply!Record, Reply!Executing
  <2>2. QED
    BY <1>2, <2>1, BriefIs DEF ReplyInv, MarkerTypes, AloneOK
<1>4. now \in Nat /\ started[r] \in Nat /\ started[r] <= now
  BY DEF ReplyInv, MarkerTypes
<1>5. \A b \in briefs : b.run \in Run /\ b.at \in Nat /\ b.at <= now
  BY BriefIs DEF ReplyInv, MarkerTypes
<1>6. \A s \in Run : at'[s] # "paused" /\ at'[s] # "running"
  BY <1>3 DEF YoungOK
<1>7. \A b \in briefs' : at'[b.run] # "new" /\ b.at >= started[b.run]
  <2>1. new.at >= started[r]
    BY <1>1, <1>4
  <2>2. \A b \in briefs : at'[b.run] # "new" /\ b.at >= started[b.run]
    BY <1>3, <1>5 DEF YoungOK
  <2>3. QED
    BY <1>1, <1>3, <2>1, <2>2
<1>8. \A b, c \in briefs' : b.at = c.at => b = c
  BY <1>1, <1>4, <1>5 DEF YoungOK
<1>9. QED
  BY <1>2, <1>6, <1>7, <1>8 DEF YoungOK

LEMMA YoungRenames ==
  ASSUME NoPauses, ReplyInv, YoungOK, NEW r \in Run, Reply!Rename(r)
  PROVE  YoungOK'
<1>1. at' = [at EXCEPT ![r] = "running"] /\ UNCHANGED <<started, briefs>> /\ IsLast(marker', r)
  BY RenameOK DEF NoPauses
<1>2. r \in Reply!Executing /\ at[r] = "publish"
  BY DEF Reply!Rename, Reply!Executing
<1>3. /\ at'[r] = "running" /\ \A s \in Run \ {r} : at'[s] = at[s] /\ at[s] \notin {"running"} \cup Writing
  BY <1>1, <1>2, BriefIs DEF ReplyInv, MarkerTypes, AloneOK
<1>4. \A b \in briefs : b.run \in Run
  BY BriefIs DEF ReplyInv, MarkerTypes
<1>5. \A s \in Run : at'[s] # "paused" /\ (at'[s] = "running" => s = r)
  BY <1>3 DEF YoungOK
<1>6. \A b \in briefs : at'[b.run] # "new" /\ b.at >= started[b.run]
  BY <1>3, <1>4 DEF YoungOK
<1>7. IsLast(marker, r)'
  BY <1>1 DEF IsLast
<1>8. QED
  BY <1>1, <1>5, <1>6, <1>7 DEF YoungOK

LEMMA YoungTurns ==
  ASSUME NoPauses, ReplyInv, YoungOK, NEW r \in Run,
         Reply!Pause(r) \/ Reply!OpenTmp(r) \/ Reply!FillTmp(r) \/ Reply!Complete(r) \/ Reply!Fail(r)
  PROVE  YoungOK'
<1>1. PICK to \in {"ended", "fill", "publish"} : at' = [at EXCEPT ![r] = to]
  BY DEF NoPauses, Reply!Pause, Reply!OpenTmp, Reply!FillTmp, Reply!Complete, Reply!Fail, Reply!Goes
<1>2. r \in Reply!Executing /\ UNCHANGED <<started, briefs, marker>>
  BY DEF Reply!Pause, Reply!OpenTmp, Reply!FillTmp, Reply!Complete, Reply!Fail, Reply!Executing
<1>3. /\ at'[r] = to /\ \A s \in Run \ {r} : at'[s] = at[s] /\ at[s] \notin {"running"} \cup Writing
  BY <1>1, <1>2, BriefIs DEF ReplyInv, MarkerTypes, AloneOK
<1>4. \A b \in briefs : b.run \in Run
  BY BriefIs DEF ReplyInv, MarkerTypes
<1>5. \A s \in Run : at'[s] # "paused" /\ at'[s] # "running"
  BY <1>3 DEF YoungOK
<1>6. \A b \in briefs : at'[b.run] # "new" /\ b.at >= started[b.run]
  BY <1>3, <1>4 DEF YoungOK
<1>7. QED
  BY <1>2, <1>5, <1>6 DEF YoungOK

LEMMA YoungKeeps == ASSUME NoPauses, ReplyInv, YoungOK, [Reply!Next]_(Reply!vars) PROVE YoungOK'
<1>1. CASE UNCHANGED Reply!vars
  BY <1>1 DEF Reply!vars, YoungOK, IsLast
<1>2. CASE Reply!Next
  <2>1. PICK r \in Run : \/ Reply!Start(r) \/ Reply!Record(r) \/ Reply!Rename(r)
                        \/ Reply!Pause(r) \/ Reply!OpenTmp(r) \/ Reply!FillTmp(r) \/ Reply!Complete(r) \/ Reply!Fail(r)
    BY <1>2 DEF Reply!Next
  <2>2. QED
    BY <2>1, YoungStarts, YoungRecords, YoungRenames, YoungTurns
<1>3. QED
  BY <1>1, <1>2

\* The run that fails between two calls finds its last decision.
LEMMA FailAnswers ==
  ASSUME NoPauses, ReplyInv, YoungOK, NEW r \in Run, Reply!Fail(r), at[r] = "running",
         \E b \in briefs : b.run = r
  PROVE  reply'[r] = Reply!Last(r)
<1>1. IsLast(marker, r) /\ marker \in briefs /\ marker.run = r
  BY DEF YoungOK, IsLast
<1>2. PICK last : last = Reply!Last(r)
  OBVIOUS
<1>3. IsLast(last, r) /\ last \in briefs
  BY <1>1, <1>2, LastIs DEF IsLast
<1>4. marker.at \in Nat /\ last.at \in Nat
  BY <1>1, <1>3, BriefIs DEF ReplyInv, MarkerTypes
<1>5. marker.at = last.at
  BY <1>1, <1>3, <1>4 DEF IsLast
<1>6. marker = last
  BY <1>1, <1>3, <1>5 DEF YoungOK
<1>7. Reply!Readable(r)
  <2>1. marker \in Reply!Brief /\ marker.at >= started[r]
    BY <1>1 DEF ReplyInv, MarkerTypes, YoungOK
  <2>2. marker # Torn /\ marker # Reply!NoBrief
    BY <2>1, BriefIs DEF NoPauses
  <2>3. QED
    BY <2>1, <2>2 DEF Reply!Readable
<1>8. reply' = [reply EXCEPT ![r] = marker]
  BY <1>7 DEF Reply!Fail
<1>9. reply'[r] = marker
  BY <1>8 DEF ReplyInv, MarkerTypes
<1>10. QED
  BY <1>2, <1>6, <1>9

\* For any number of runs and decisions, without pauses: a run that recorded
\* a decision, published it and then failed is answered with it, and with
\* the last one if there were several (NothingBuried).
THEOREM LastDecisionAnswers == ASSUME NoPauses PROVE Reply!Spec => Reply!NothingBuried
<1>1. Reply!Init => ReplyInv /\ YoungOK
  <2>1. Reply!Init => ReplyInv
    BY ReplyStart DEF NoPauses
  <2>2. Reply!Init => YoungOK
    BY DEF Reply!Init, YoungOK
  <2>3. QED
    BY <2>1, <2>2
<1>2. ReplyInv /\ YoungOK /\ [Reply!Next]_(Reply!vars) => (ReplyInv /\ YoungOK)'
  <2>1. ReplyInv /\ [Reply!Next]_(Reply!vars) => ReplyInv'
    BY ReplyKeeps DEF NoPauses
  <2>2. ReplyInv /\ YoungOK /\ [Reply!Next]_(Reply!vars) => YoungOK'
    BY YoungKeeps
  <2>3. QED
    BY <2>1, <2>2
<1>3. ReplyInv /\ YoungOK =>
        [\A r \in Run : (Reply!Fail(r) /\ at[r] = "running" /\ \E b \in briefs : b.run = r)
                        => reply'[r] = Reply!Last(r)]_(Reply!vars)
  BY FailAnswers
<1>4. QED
  BY <1>1, <1>2, <1>3, PTL DEF Reply!Spec, Reply!NothingBuried
-----------------------------------------------------------------------------
(* The queue between the handlers and the loop (Feishu).                   *)

CONSTANTS MaxEvents, BatchMax, MaxFiles, MaxFaults, Redelivery
VARIABLES feed, where, saved, fetched, queue, batch, transport, process, given, told, faults

Chat == INSTANCE Feishu WITH events <- feed, handled <- given

Taken == {"queue", "batch", "handled"}
Among(i, s) == \E k \in 1 .. Len(s) : s[k] = i

FeedTypes ==
  /\ feed \in Seq(Chat!Event)
  /\ where \in [Chat!Id -> Chat!Place] /\ saved \in [Chat!Id -> Nat] /\ fetched \in [Chat!Id -> Nat]
  /\ queue \in Seq(Chat!Id) /\ batch \in Seq(Chat!Id) /\ given \in Seq(Chat!Id)
  /\ told \subseteq Chat!Id /\ faults \in Nat

PlaceOK ==
  /\ \A i \in Chat!Id : where[i] # "coming" => i \in 1 .. Len(feed)
  /\ \A i \in Chat!Id : where[i] = "queue" <=> Among(i, queue)
  /\ \A i \in Chat!Id : where[i] = "batch" <=> Among(i, batch)
  /\ \A k \in 1 .. Len(given) : where[given[k]] = "handled"
  /\ \A i \in told : where[i] = "ended"

\* A file that has been fetched is on disk; who is past the handler has all of them.
FilesOK ==
  \A i \in Chat!Id :
    /\ fetched[i] <= saved[i]
    /\ saved[i] # 0 => i \in 1 .. Len(feed) /\ saved[i] <= feed[i].files
    /\ where[i] = "handler" => feed[i].files # 0
    /\ where[i] \in Taken => saved[i] = feed[i].files

\* Two events, one before the other.
Fits(a, b) == a # b /\ (faults = 0 /\ feed[a].files = 0 /\ feed[b].files = 0 => a < b)
InLine(s) == \A m, n \in 1 .. Len(s) : m < n => Fits(s[m], s[n])
Then(s, t) == \A m \in 1 .. Len(s) : \A n \in 1 .. Len(t) : Fits(s[m], t[n])

\* What was handled, the batch and the queue are one line.
LineOK ==
  /\ InLine(given) /\ InLine(batch) /\ InLine(queue)
  /\ Then(given, batch) /\ Then(given, queue) /\ Then(batch, queue)

\* Without a fault the events not taken are the last ones, and the transport is up.
CleanOK ==
  faults = 0 =>
    /\ process = "running" => transport = "up"
    /\ \A i, j \in Chat!Id : where[i] = "coming" /\ i < j => where[j] = "coming"

FeedInv == FeedTypes /\ PlaceOK /\ FilesOK /\ LineOK /\ CleanOK

LEMMA FeedFacts ==
  ASSUME Chat!FeishuAssumption
  PROVE  /\ MaxEvents \in Nat /\ MaxFaults \in Nat /\ BatchMax \in Nat \ {0} /\ Redelivery \in BOOLEAN
         /\ Chat!Id \subseteq Nat
         /\ \A e \in Chat!Event : e.files \in Nat /\ e.allowed \in BOOLEAN /\ e.addressed \in BOOLEAN
<1>1. MaxEvents \in Nat /\ MaxFaults \in Nat /\ MaxFiles \in Nat /\ BatchMax \in Nat \ {0} /\ Redelivery \in BOOLEAN
  BY DEF Chat!FeishuAssumption
<1>2. QED
  BY <1>1 DEF Chat!Id, Chat!Event

\* Files of an event are counted.
LEMMA FilesCounted ==
  ASSUME Chat!FeishuAssumption, FeedTypes, NEW i \in 1 .. Len(feed)
  PROVE  feed[i] \in Chat!Event /\ feed[i].files \in Nat
<1>1. feed[i] \in Chat!Event
  BY LenProperties DEF FeedTypes
<1>2. QED
  BY <1>1, FeedFacts

\* A fault ends the order; otherwise it is of the events alone.
LEMMA FitsKept ==
  ASSUME FeedTypes, UNCHANGED feed, faults' = faults \/ faults' = faults + 1, NEW a, NEW b, Fits(a, b)
  PROVE  Fits(a, b)'
BY DEF FeedTypes, Fits

LEMMA LineKept ==
  ASSUME FeedTypes, LineOK, UNCHANGED <<feed, queue, batch, given>>, faults' = faults \/ faults' = faults + 1
  PROVE  LineOK'
BY FitsKept DEF LineOK, InLine, Then

\* Who is where.
LEMMA Places ==
  ASSUME FeedTypes, PlaceOK
  PROVE  /\ \A k \in 1 .. Len(given) : given[k] \in Chat!Id /\ where[given[k]] = "handled"
         /\ \A k \in 1 .. Len(batch) : batch[k] \in Chat!Id /\ where[batch[k]] = "batch"
         /\ \A k \in 1 .. Len(queue) : queue[k] \in Chat!Id /\ where[queue[k]] = "queue"
<1>1. /\ \A k \in 1 .. Len(given) : given[k] \in Chat!Id
      /\ \A k \in 1 .. Len(batch) : batch[k] \in Chat!Id
      /\ \A k \in 1 .. Len(queue) : queue[k] \in Chat!Id
  BY LenProperties DEF FeedTypes
<1>2. \A k \in 1 .. Len(given) : where[given[k]] = "handled"
  BY DEF PlaceOK
<1>3. ASSUME NEW k \in 1 .. Len(batch) PROVE where[batch[k]] = "batch"
  <2>1. Among(batch[k], batch)
    BY DEF Among
  <2>2. QED
    BY <1>1, <2>1 DEF PlaceOK
<1>4. ASSUME NEW k \in 1 .. Len(queue) PROVE where[queue[k]] = "queue"
  <2>1. Among(queue[k], queue)
    BY DEF Among
  <2>2. QED
    BY <1>1, <2>1 DEF PlaceOK
<1>5. QED
  BY <1>1, <1>2, <1>3, <1>4

\* An event goes from the platform or a handler to a handler or its end.
LEMMA Moved ==
  ASSUME Chat!FeishuAssumption, FeedInv, NEW i \in Chat!Id, i \in 1 .. Len(feed),
         where[i] \in {"coming", "handler"}, NEW to \in {"handler", "ended"},
         where[i] = "coming" => \A j \in 1 .. i - 1 : where[j] # "coming",
         to = "handler" => feed[i].files # 0,
         where' = [where EXCEPT ![i] = to], told' = told \/ (told' = told \cup {i} /\ to = "ended"),
         UNCHANGED <<feed, saved, fetched, queue, batch, transport, process, given, faults>>
  PROVE  FeedInv'
<1> USE DEF FeedInv
<1>1. /\ where' \in [Chat!Id -> Chat!Place] /\ where'[i] = to /\ \A j \in Chat!Id \ {i} : where'[j] = where[j]
  BY DEF FeedTypes, Chat!Place
<1>2. FeedTypes'
  BY <1>1 DEF FeedTypes
<1>3. PlaceOK'
  <2>1. \A j \in Chat!Id : where'[j] # "coming" => j \in 1 .. Len(feed)
    BY <1>1 DEF PlaceOK
  <2>2. \A j \in Chat!Id : where'[j] = "queue" <=> Among(j, queue)
    BY <1>1 DEF PlaceOK
  <2>3. \A j \in Chat!Id : where'[j] = "batch" <=> Among(j, batch)
    BY <1>1 DEF PlaceOK
  <2>4. \A k \in 1 .. Len(given) : where'[given[k]] = "handled"
    <3>1. \A k \in 1 .. Len(given) : given[k] \in Chat!Id /\ where[given[k]] = "handled"
      BY LenProperties DEF PlaceOK, FeedTypes
    <3>2. QED
      BY <1>1, <3>1
  <2>5. \A j \in told' : where'[j] = "ended"
    <3>1. \A j \in told : j \in Chat!Id /\ where[j] = "ended"
      BY DEF PlaceOK, FeedTypes
    <3>2. \A j \in told : where'[j] = "ended"
      BY <1>1, <3>1
    <3>3. told' = told \/ (told' = told \cup {i} /\ where'[i] = "ended")
      BY <1>1
    <3>4. QED
      BY <3>2, <3>3
  <2>6. QED
    BY <2>1, <2>2, <2>3, <2>4, <2>5 DEF PlaceOK, Among
<1>4. FilesOK'
  BY <1>1 DEF FilesOK, Taken
<1>5. LineOK'
  BY LineKept
<1>6. CleanOK'
  <2>1. SUFFICES ASSUME faults = 0, NEW a \in Chat!Id, NEW b \in Chat!Id, where'[a] = "coming", a < b
                 PROVE  where'[b] = "coming"
    BY DEF CleanOK
  <2>2. where[a] = "coming" /\ where[b] = "coming" /\ a # i
    BY <1>1, <2>1 DEF CleanOK
  <2>3. b # i
    <3>1. a \in Nat /\ b \in Nat /\ a > 0
      BY FeedFacts DEF Chat!Id
    <3>2. ASSUME b = i PROVE FALSE
      <4>1. a \in 1 .. i - 1
        BY <2>1, <3>1, <3>2 DEF Chat!Id
      <4>2. QED
        BY <2>2, <3>2, <4>1
    <3>3. QED
      BY <3>2
  <2>4. QED
    BY <1>1, <2>2, <2>3
<1>7. QED
  BY <1>2, <1>3, <1>4, <1>5, <1>6

\* An event joins the queue behind all that was taken before it.
LEMMA Queued ==
  ASSUME Chat!FeishuAssumption, FeedInv, NEW i \in Chat!Id, i \in 1 .. Len(feed),
         where[i] \in {"coming", "handler"},
         where[i] = "coming" => \A j \in 1 .. i - 1 : where[j] # "coming",
         where[i] = "coming" => feed[i].files = 0,
         saved[i] = feed[i].files,
         where' = [where EXCEPT ![i] = "queue"], queue' = Append(queue, i),
         UNCHANGED <<feed, saved, fetched, batch, transport, process, given, told, faults>>
  PROVE  FeedInv'
<1> USE DEF FeedInv
<1>1. /\ where' \in [Chat!Id -> Chat!Place] /\ where'[i] = "queue" /\ \A j \in Chat!Id \ {i} : where'[j] = where[j]
  BY DEF FeedTypes, Chat!Place
<1>2. /\ queue' \in Seq(Chat!Id) /\ Len(queue) \in Nat /\ Len(queue') = Len(queue) + 1
      /\ queue'[Len(queue) + 1] = i /\ \A k \in 1 .. Len(queue) : queue'[k] = queue[k] /\ queue[k] \in Chat!Id
  BY AppendProperties, LenProperties DEF FeedTypes
<1>3. /\ \A k \in 1 .. Len(given) : given[k] \in Chat!Id /\ where[given[k]] = "handled"
      /\ \A k \in 1 .. Len(batch) : batch[k] \in Chat!Id /\ where[batch[k]] = "batch"
      /\ \A k \in 1 .. Len(queue) : where[queue[k]] = "queue"
  BY <1>2, Places
<1>4. FeedTypes'
  BY <1>1, <1>2 DEF FeedTypes
<1>5. PlaceOK'
  <2>1. \A j \in Chat!Id : where'[j] # "coming" => j \in 1 .. Len(feed)
    BY <1>1 DEF PlaceOK
  <2>2. \A j \in Chat!Id : where'[j] = "queue" <=> Among(j, queue')
    <3>1. Among(i, queue')
      BY <1>2 DEF Among
    <3>2. \A j \in Chat!Id \ {i} : Among(j, queue') <=> Among(j, queue)
      BY <1>2 DEF Among
    <3>3. QED
      BY <1>1, <3>1, <3>2 DEF PlaceOK
  <2>3. \A j \in Chat!Id : where'[j] = "batch" <=> Among(j, batch)
    BY <1>1 DEF PlaceOK
  <2>4. \A k \in 1 .. Len(given) : where'[given[k]] = "handled"
    BY <1>1, <1>3
  <2>5. \A j \in told : where'[j] = "ended"
    BY <1>1 DEF PlaceOK, FeedTypes
  <2>6. QED
    BY <2>1, <2>2, <2>3, <2>4, <2>5 DEF PlaceOK, Among
<1>6. FilesOK'
  BY <1>1 DEF FilesOK, Taken
<1>7. ASSUME NEW a \in Chat!Id, where[a] \in Taken PROVE Fits(a, i)
  <2>1. a # i
    BY <1>7 DEF Taken
  <2>2. SUFFICES ASSUME faults = 0, feed[a].files = 0, feed[i].files = 0 PROVE a < i
    BY <2>1 DEF Fits
  <2>3. where[i] = "coming"
    BY <2>2 DEF FilesOK
  <2>4. ~(i < a)
    BY <1>7, <2>2, <2>3 DEF CleanOK, Taken
  <2>5. QED
    BY <2>1, <2>4, FeedFacts DEF Chat!Id
<1>8. LineOK'
  <2>1. \A a, b : Fits(a, b) => Fits(a, b)'
    BY DEF Fits
  <2>2. InLine(given)' /\ InLine(batch)' /\ Then(given, batch)'
    BY <2>1 DEF LineOK, InLine, Then
  <2>3. InLine(queue)'
    <3>1. SUFFICES ASSUME NEW m \in 1 .. Len(queue'), NEW n \in 1 .. Len(queue'), m < n PROVE Fits(queue'[m], queue'[n])
      BY <2>1 DEF InLine
    <3>2. m \in 1 .. Len(queue) /\ queue'[m] = queue[m]
      BY <1>2, <3>1
    <3>3. CASE n = Len(queue) + 1
      BY <1>2, <1>3, <1>7, <3>2, <3>3 DEF Taken
    <3>4. CASE n # Len(queue) + 1
      <4>1. n \in 1 .. Len(queue) /\ queue'[n] = queue[n]
        BY <1>2, <3>4
      <4>2. QED
        BY <3>1, <3>2, <4>1 DEF LineOK, InLine
    <3>5. QED
      BY <3>3, <3>4
  <2>4. ASSUME NEW a \in Chat!Id, where[a] \in Taken, \A n \in 1 .. Len(queue) : Fits(a, queue[n]),
               NEW n \in 1 .. Len(queue')
        PROVE  Fits(a, queue'[n])
    <3>1. n \in 1 .. Len(queue) \/ n = Len(queue) + 1
      BY <1>2
    <3>2. QED
      BY <1>2, <1>7, <2>4, <3>1
  <2>5. Then(given, queue)' /\ Then(batch, queue)'
    <3>1. ASSUME NEW m \in 1 .. Len(given), NEW n \in 1 .. Len(queue') PROVE Fits(given[m], queue'[n])
      BY <1>3, <2>4 DEF LineOK, Then, Taken
    <3>2. ASSUME NEW m \in 1 .. Len(batch), NEW n \in 1 .. Len(queue') PROVE Fits(batch[m], queue'[n])
      BY <1>3, <2>4 DEF LineOK, Then, Taken
    <3>3. QED
      BY <2>1, <3>1, <3>2 DEF Then
  <2>6. QED
    BY <2>2, <2>3, <2>5 DEF LineOK
<1>9. CleanOK'
  <2>1. SUFFICES ASSUME faults = 0, NEW a \in Chat!Id, NEW b \in Chat!Id, where'[a] = "coming", a < b
                 PROVE  where'[b] = "coming"
    BY DEF CleanOK
  <2>2. where[a] = "coming" /\ where[b] = "coming" /\ a # i
    BY <1>1, <2>1 DEF CleanOK
  <2>3. ASSUME b = i PROVE FALSE
    <3>1. a \in 1 .. i - 1
      BY <2>1, <2>3, FeedFacts DEF Chat!Id
    <3>2. QED
      BY <2>2, <2>3, <3>1
  <2>4. QED
    BY <1>1, <2>2, <2>3
<1>10. QED
  BY <1>4, <1>5, <1>6, <1>8, <1>9

LEMMA HandlersOK == ASSUME Chat!FeishuAssumption, FeedInv, Chat!Handlers PROVE FeedInv'
<1> USE DEF FeedInv
<1>1. PICK i \in Chat!Id : Chat!Receive(i) \/ Chat!Fetch(i) \/ Chat!FetchFails(i) \/ Chat!Put(i)
  BY DEF Chat!Handlers
<1>2. CASE Chat!Receive(i)
  <2>1. /\ i \in 1 .. Len(feed) /\ where[i] = "coming" /\ \A j \in 1 .. i - 1 : where[j] # "coming"
        /\ UNCHANGED <<feed, saved, fetched, batch, transport, process, given, told, faults>>
    BY <1>2 DEF Chat!Receive, Chat!Id
  <2>2. feed[i] \in Chat!Event /\ feed[i].files \in Nat /\ Chat!Admitted(feed[i]) \in BOOLEAN
    BY <2>1, FilesCounted, FeedFacts DEF Chat!Admitted
  <2>3. CASE ~Chat!Admitted(feed[i])
    <3>1. Chat!Goes(i, "ended") /\ UNCHANGED queue
      BY <1>2, <2>3 DEF Chat!Receive
    <3>2. where' = [where EXCEPT ![i] = "ended"]
      BY <3>1 DEF Chat!Goes
    <3>3. QED
      BY <2>1, <3>1, <3>2, Moved
  <2>4. CASE Chat!Admitted(feed[i]) /\ feed[i].files = 0
    <3>1. Chat!Goes(i, "queue") /\ Chat!Enqueue(i)
      BY <1>2, <2>4 DEF Chat!Receive
    <3>2. where' = [where EXCEPT ![i] = "queue"] /\ queue' = Append(queue, i)
      BY <3>1 DEF Chat!Goes, Chat!Enqueue
    <3>3. saved[i] = feed[i].files
      BY <2>4, FeedFacts DEF FilesOK, FeedTypes
    <3>4. QED
      BY <2>1, <2>4, <3>2, <3>3, Queued
  <2>5. CASE Chat!Admitted(feed[i]) /\ feed[i].files # 0
    <3>1. Chat!Goes(i, "handler") /\ UNCHANGED queue
      BY <1>2, <2>5 DEF Chat!Receive
    <3>2. where' = [where EXCEPT ![i] = "handler"]
      BY <3>1 DEF Chat!Goes
    <3>3. QED
      BY <2>1, <2>5, <3>1, <3>2, Moved
  <2>6. QED
    BY <2>2, <2>3, <2>4, <2>5
<1>3. CASE Chat!FetchFails(i)
  <2>1. where[i] = "handler" /\ i \in 1 .. Len(feed)
    BY <1>3 DEF Chat!FetchFails, PlaceOK
  <2>2. /\ where' = [where EXCEPT ![i] = "ended"] /\ (told' = told \/ told' = told \cup {i})
        /\ UNCHANGED <<feed, saved, fetched, queue, batch, transport, process, given, faults>>
    BY <1>3 DEF Chat!FetchFails, Chat!Refused, Chat!Goes
  <2>3. QED
    BY <2>1, <2>2, Moved
<1>4. CASE Chat!Put(i)
  <2>1. where[i] = "handler" /\ i \in 1 .. Len(feed) /\ fetched[i] = feed[i].files
    BY <1>4 DEF Chat!Put, PlaceOK
  <2>2. feed[i].files \in Nat /\ saved[i] \in Nat
    BY <2>1, FilesCounted DEF FeedTypes
  <2>3. saved[i] = feed[i].files
    BY <2>1, <2>2 DEF FilesOK
  <2>4. /\ where' = [where EXCEPT ![i] = "queue"] /\ queue' = Append(queue, i)
        /\ UNCHANGED <<feed, saved, fetched, batch, transport, process, given, told, faults>>
    BY <1>4 DEF Chat!Put, Chat!Enqueue, Chat!Goes
  <2>5. QED
    BY <2>1, <2>3, <2>4, Queued
<1>5. CASE Chat!Fetch(i)
  <2>1. /\ where[i] = "handler" /\ i \in 1 .. Len(feed) /\ fetched[i] < feed[i].files /\ saved[i] <= fetched[i]
        /\ UNCHANGED <<feed, where, queue, batch, transport, process, given, told, faults>>
        /\ fetched' = [fetched EXCEPT ![i] = @ + 1]
        /\ saved' = [saved EXCEPT ![i] = IF @ > fetched[i] THEN @ ELSE @ + 1]
    BY <1>5 DEF Chat!Fetch, Chat!Fetched, PlaceOK
  <2>2. feed[i].files \in Nat /\ saved[i] \in Nat /\ fetched[i] \in Nat /\ saved[i] = fetched[i]
    BY <2>1, FilesCounted DEF FeedTypes, FilesOK
  <2>3. /\ fetched' \in [Chat!Id -> Nat] /\ saved' \in [Chat!Id -> Nat]
        /\ fetched'[i] = fetched[i] + 1 /\ saved'[i] = saved[i] + 1
        /\ \A j \in Chat!Id \ {i} : fetched'[j] = fetched[j] /\ saved'[j] = saved[j]
    BY <2>1, <2>2 DEF FeedTypes
  <2>4. FeedTypes'
    BY <2>1, <2>3 DEF FeedTypes
  <2>5. PlaceOK'
    BY <2>1 DEF PlaceOK, Among
  <2>6. FilesOK'
    BY <2>1, <2>2, <2>3 DEF FilesOK, Taken
  <2>7. LineOK'
    BY <2>1, LineKept
  <2>8. CleanOK'
    BY <2>1 DEF CleanOK
  <2>9. QED
    BY <2>4, <2>5, <2>6, <2>7, <2>8
<1>6. QED
  BY <1>1, <1>2, <1>3, <1>4, <1>5

LEMMA SendOK == ASSUME Chat!FeishuAssumption, FeedInv, Chat!Send PROVE FeedInv'
<1> USE DEF FeedInv
<1>1. PICK e \in Chat!Event : feed' = Append(feed, e)
  BY DEF Chat!Send
<1>2. UNCHANGED <<where, saved, fetched, queue, batch, transport, process, given, told, faults>>
  BY DEF Chat!Send
<1>3. /\ feed' \in Seq(Chat!Event) /\ Len(feed) \in Nat /\ Len(feed') = Len(feed) + 1
      /\ \A k \in 1 .. Len(feed) : k \in 1 .. Len(feed') /\ feed'[k] = feed[k]
  BY <1>1, AppendProperties, LenProperties DEF FeedTypes
<1>4. FeedTypes'
  BY <1>2, <1>3 DEF FeedTypes
<1>5. PlaceOK'
  BY <1>2, <1>3 DEF PlaceOK, Among
<1>6. FilesOK'
  BY <1>2, <1>3 DEF FilesOK, PlaceOK, Taken
<1>7. \A a, b \in 1 .. Len(feed) : Fits(a, b) => Fits(a, b)'
  BY <1>2, <1>3 DEF Fits
<1>8. /\ \A k \in 1 .. Len(given) : given[k] \in 1 .. Len(feed)
      /\ \A k \in 1 .. Len(batch) : batch[k] \in 1 .. Len(feed)
      /\ \A k \in 1 .. Len(queue) : queue[k] \in 1 .. Len(feed)
  BY Places DEF PlaceOK
<1>9. LineOK'
  BY <1>2, <1>7, <1>8 DEF LineOK, InLine, Then
<1>10. CleanOK'
  BY <1>2 DEF CleanOK
<1>11. QED
  BY <1>4, <1>5, <1>6, <1>9, <1>10

\* The process or the transport starts or fails; the events stay where they are.
LEMMA TurnOK ==
  ASSUME Chat!FeishuAssumption, FeedInv, Chat!Probe \/ Chat!Restart \/ Chat!TransportDies PROVE FeedInv'
<1> USE DEF FeedInv
<1>1. /\ UNCHANGED <<feed, where, saved, fetched, queue, batch, given, told>>
      /\ faults' = faults \/ faults' = faults + 1
  BY DEF Chat!Probe, Chat!Restart, Chat!TransportDies
<1>2. FeedTypes'
  BY <1>1 DEF FeedTypes
<1>3. PlaceOK' /\ FilesOK'
  BY <1>1 DEF PlaceOK, FilesOK, Among, Taken
<1>4. LineOK'
  BY <1>1, LineKept
<1>5. CleanOK'
  BY DEF CleanOK, FeedTypes, Chat!Probe, Chat!Restart, Chat!TransportDies
<1>6. QED
  BY <1>2, <1>3, <1>4, <1>5

\* A process that ends takes the queue with it, and a fault stands behind it.
LEMMA EndsOK ==
  ASSUME Chat!FeishuAssumption, FeedInv, Chat!Ends,
         faults' = faults \/ faults' = faults + 1, faults' # 0, UNCHANGED <<feed, saved, given, told>>
  PROVE  FeedInv'
<1> USE DEF FeedInv
<1>1. /\ queue' = <<>> /\ batch' = <<>> /\ Len(queue') = 0 /\ Len(batch') = 0
      /\ fetched' \in [Chat!Id -> Nat] /\ \A i \in Chat!Id : fetched'[i] = 0
  BY DEF Chat!Ends
<1>2. /\ where' \in [Chat!Id -> Chat!Place]
      /\ \A i \in Chat!Id : IF where[i] \in {"handler", "queue", "batch"}
                            THEN where'[i] \in {"coming", "gone"} ELSE where'[i] = where[i]
  <2>1. \A i \in Chat!Id : where[i] \in Chat!Place
    BY DEF FeedTypes
  <2>2. PICK back \in {"coming", "gone"} :
          where' = [i \in Chat!Id |-> IF where[i] \in {"handler", "queue", "batch"} THEN back ELSE where[i]]
    <3>1. CASE Redelivery
      BY <3>1 DEF Chat!Ends
    <3>2. CASE ~Redelivery
      BY <3>2 DEF Chat!Ends
    <3>3. QED
      BY <3>1, <3>2
  <2>3. \A i \in Chat!Id : where'[i] = IF where[i] \in {"handler", "queue", "batch"} THEN back ELSE where[i]
    BY <2>2
  <2>4. \A i \in Chat!Id : where'[i] \in Chat!Place
    BY <2>1, <2>3 DEF Chat!Place
  <2>5. where' \in [Chat!Id -> Chat!Place]
    <3>1. where' = [i \in Chat!Id |-> where'[i]]
      BY <2>2
    <3>2. QED
      BY <2>4, <3>1
  <2>6. QED
    BY <2>3, <2>5
<1>3. FeedTypes'
  BY <1>1, <1>2 DEF FeedTypes
<1>4. PlaceOK'
  <2>1. \A i \in Chat!Id : where'[i] # "coming" => i \in 1 .. Len(feed)
    BY <1>2 DEF PlaceOK
  <2>2. \A i \in Chat!Id : where'[i] # "queue" /\ where'[i] # "batch"
    BY <1>2
  <2>3. \A i : ~Among(i, queue') /\ ~Among(i, batch')
    BY <1>1 DEF Among
  <2>4. \A k \in 1 .. Len(given) : where'[given[k]] = "handled"
    BY <1>2, Places
  <2>5. \A i \in told : where'[i] = "ended"
    BY <1>2 DEF PlaceOK, FeedTypes
  <2>6. QED
    BY <2>1, <2>2, <2>3, <2>4, <2>5 DEF PlaceOK, Among
<1>5. FilesOK'
  <2>1. SUFFICES ASSUME NEW i \in Chat!Id
                 PROVE  /\ fetched'[i] <= saved[i]
                        /\ saved[i] # 0 => i \in 1 .. Len(feed) /\ saved[i] <= feed[i].files
                        /\ where'[i] # "handler"
                        /\ where'[i] \in Taken => saved[i] = feed[i].files
    BY DEF FilesOK
  <2>2. fetched'[i] = 0 /\ saved[i] \in Nat
    BY <1>1 DEF FeedTypes
  <2>3. where'[i] # "handler" /\ (where'[i] \in Taken => where[i] \in Taken)
    BY <1>2 DEF Taken
  <2>4. QED
    BY <2>2, <2>3 DEF FilesOK
<1>6. LineOK'
  <2>1. InLine(given)'
    BY FitsKept DEF LineOK, InLine
  <2>2. QED
    BY <1>1, <2>1 DEF LineOK, InLine, Then
<1>7. CleanOK'
  BY DEF CleanOK
<1>8. QED
  BY <1>3, <1>4, <1>5, <1>6, <1>7

\* The head of the batch is handed to the service.
LEMMA HandleOK == ASSUME Chat!FeishuAssumption, FeedInv, Chat!Handle PROVE FeedInv'
<1> USE DEF FeedInv
<1>1. PICK i : i = Head(batch)
  OBVIOUS
<1>2. /\ batch # <<>> /\ given' = Append(given, i) /\ where' = [where EXCEPT ![i] = "handled"] /\ batch' = Tail(batch)
      /\ UNCHANGED <<feed, saved, fetched, queue, transport, process, told, faults>>
  BY <1>1 DEF Chat!Handle, Chat!Goes
<1>3. /\ i \in Chat!Id /\ i = batch[1] /\ Len(batch) \in Nat /\ 1 \in 1 .. Len(batch)
      /\ batch' \in Seq(Chat!Id) /\ Len(batch') = Len(batch) - 1
      /\ \A k \in 1 .. Len(batch') : k + 1 \in 1 .. Len(batch) /\ batch'[k] = batch[k + 1]
  BY <1>1, <1>2, HeadTailProperties, LenProperties, EmptySeq DEF FeedTypes
<1>4. /\ given' \in Seq(Chat!Id) /\ Len(given) \in Nat /\ Len(given') = Len(given) + 1
      /\ given'[Len(given) + 1] = i /\ \A k \in 1 .. Len(given) : given'[k] = given[k]
  BY <1>2, <1>3, AppendProperties, LenProperties DEF FeedTypes
<1>5. /\ where' \in [Chat!Id -> Chat!Place] /\ where[i] = "batch"
      /\ where'[i] = "handled" /\ \A j \in Chat!Id \ {i} : where'[j] = where[j]
  BY <1>2, <1>3, Places DEF FeedTypes, Chat!Place
<1>6. FeedTypes'
  BY <1>2, <1>3, <1>4, <1>5 DEF FeedTypes
<1>7. \A k \in 1 .. Len(batch') : batch'[k] # i
  <2>1. SUFFICES ASSUME NEW k \in 1 .. Len(batch') PROVE batch[1] # batch[k + 1]
    BY <1>3
  <2>2. k + 1 \in 1 .. Len(batch) /\ 1 < k + 1
    BY <1>3
  <2>3. Fits(batch[1], batch[k + 1])
    BY <1>3, <2>2 DEF LineOK, InLine
  <2>4. QED
    BY <2>3 DEF Fits
<1>8. PlaceOK'
  <2>1. \A j \in Chat!Id : where'[j] # "coming" => j \in 1 .. Len(feed)
    BY <1>5 DEF PlaceOK
  <2>2. \A j \in Chat!Id : where'[j] = "queue" <=> Among(j, queue)
    BY <1>5 DEF PlaceOK
  <2>3. \A j \in Chat!Id : where'[j] = "batch" <=> Among(j, batch')
    <3>1. ~Among(i, batch')
      BY <1>7 DEF Among
    <3>2. ASSUME NEW j \in Chat!Id \ {i} PROVE Among(j, batch') <=> Among(j, batch)
      <4>1. ASSUME Among(j, batch') PROVE Among(j, batch)
        BY <1>3, <4>1 DEF Among
      <4>2. ASSUME Among(j, batch) PROVE Among(j, batch')
        <5>1. PICK k \in 1 .. Len(batch) : batch[k] = j
          BY <4>2 DEF Among
        <5>2. k # 1 /\ k - 1 \in 1 .. Len(batch')
          BY <1>3, <3>2, <5>1
        <5>3. batch'[k - 1] = j
          BY <1>3, <5>1, <5>2
        <5>4. QED
          BY <5>2, <5>3 DEF Among
      <4>3. QED
        BY <4>1, <4>2
    <3>3. QED
      BY <1>5, <3>1, <3>2 DEF PlaceOK
  <2>4. \A k \in 1 .. Len(given') : where'[given'[k]] = "handled"
    <3>1. SUFFICES ASSUME NEW k \in 1 .. Len(given') PROVE where'[given'[k]] = "handled"
      OBVIOUS
    <3>2. CASE k = Len(given) + 1
      BY <1>4, <1>5, <3>2
    <3>3. CASE k # Len(given) + 1
      <4>1. k \in 1 .. Len(given) /\ given'[k] = given[k]
        BY <1>4, <3>3
      <4>2. QED
        BY <1>5, <4>1, Places
    <3>4. QED
      BY <3>2, <3>3
  <2>5. \A j \in told : where'[j] = "ended"
    BY <1>5 DEF PlaceOK, FeedTypes
  <2>6. QED
    BY <1>2, <2>1, <2>2, <2>3, <2>4, <2>5 DEF PlaceOK, Among
<1>9. FilesOK'
  BY <1>2, <1>5 DEF FilesOK, Taken
<1>10. LineOK'
  <2>1. \A a, b : Fits(a, b) => Fits(a, b)'
    BY <1>2 DEF Fits
  <2>2. \A k \in 1 .. Len(given') :
          (k \in 1 .. Len(given) /\ given'[k] = given[k]) \/ (k = Len(given) + 1 /\ given'[k] = batch[1])
    <3>1. \A k \in 1 .. Len(given') : k \in 1 .. Len(given) \/ k = Len(given) + 1
      BY <1>4
    <3>2. given'[Len(given) + 1] = batch[1] /\ \A k \in 1 .. Len(given) : given'[k] = given[k]
      BY <1>3, <1>4
    <3>3. QED
      BY <3>1, <3>2
  <2>3. InLine(given)'
    <3>1. SUFFICES ASSUME NEW m \in 1 .. Len(given'), NEW n \in 1 .. Len(given'), m < n PROVE Fits(given'[m], given'[n])
      BY <2>1 DEF InLine
    <3>2. m \in 1 .. Len(given) /\ given'[m] = given[m]
      BY <1>4, <3>1
    <3>3. QED
      BY <1>3, <2>2, <3>1, <3>2 DEF LineOK, InLine, Then
  <2>4. InLine(batch)'
    <3>1. SUFFICES ASSUME NEW m \in 1 .. Len(batch'), NEW n \in 1 .. Len(batch'), m < n PROVE Fits(batch'[m], batch'[n])
      BY <2>1 DEF InLine
    <3>2. m + 1 < n + 1 /\ m + 1 \in 1 .. Len(batch) /\ n + 1 \in 1 .. Len(batch)
      BY <1>3, <3>1
    <3>3. Fits(batch[m + 1], batch[n + 1])
      BY <3>2 DEF LineOK, InLine
    <3>4. QED
      BY <1>3, <3>3
  <2>5. Then(given, batch)'
    <3>1. SUFFICES ASSUME NEW m \in 1 .. Len(given'), NEW n \in 1 .. Len(batch') PROVE Fits(given'[m], batch'[n])
      BY <2>1 DEF Then
    <3>2. n + 1 \in 1 .. Len(batch) /\ batch'[n] = batch[n + 1] /\ 1 < n + 1
      BY <1>3
    <3>3. Fits(batch[1], batch[n + 1])
      BY <1>3, <3>2 DEF LineOK, InLine
    <3>4. QED
      BY <2>2, <3>2, <3>3 DEF LineOK, Then
  <2>6. Then(given, queue)'
    <3>1. SUFFICES ASSUME NEW m \in 1 .. Len(given'), NEW n \in 1 .. Len(queue) PROVE Fits(given'[m], queue[n])
      BY <1>2, <2>1 DEF Then
    <3>2. QED
      BY <1>3, <2>2 DEF LineOK, Then
  <2>7. Then(batch, queue)'
    <3>1. SUFFICES ASSUME NEW m \in 1 .. Len(batch'), NEW n \in 1 .. Len(queue) PROVE Fits(batch'[m], queue[n])
      BY <1>2, <2>1 DEF Then
    <3>2. QED
      BY <1>3 DEF LineOK, Then
  <2>8. InLine(queue)'
    BY <1>2, <2>1 DEF LineOK, InLine
  <2>9. QED
    BY <2>3, <2>4, <2>5, <2>6, <2>7, <2>8 DEF LineOK
<1>11. CleanOK'
  BY <1>2, <1>5 DEF CleanOK
<1>12. QED
  BY <1>6, <1>8, <1>9, <1>10, <1>11

\* The loop takes the head of the queue as its batch.
LEMMA PollOK == ASSUME Chat!FeishuAssumption, FeedInv, Chat!Poll, transport = "up" PROVE FeedInv'
<1> USE DEF FeedInv
<1>1. PICK n : n = Chat!BatchSize
  OBVIOUS
<1>2. /\ batch = <<>> /\ batch' = SubSeq(queue, 1, n) /\ queue' = SubSeq(queue, n + 1, Len(queue))
      /\ where' = [i \in Chat!Id |-> IF i \in Chat!ToSet(batch') THEN "batch" ELSE where[i]]
      /\ UNCHANGED <<feed, saved, fetched, transport, process, given, told, faults>>
  BY <1>1 DEF Chat!Poll, Chat!Alive, Chat!Rest
<1>3. Len(queue) \in Nat /\ n \in 0 .. Len(queue) /\ \A k \in 1 .. Len(queue) : queue[k] \in Chat!Id
  BY <1>1, FeedFacts, LenProperties DEF FeedTypes, Chat!BatchSize
<1>4. /\ batch' \in Seq(Chat!Id) /\ Len(batch') = n
      /\ \A k \in 1 .. n : k \in 1 .. Len(queue) /\ batch'[k] = queue[k]
  <2>1. n \in Int /\ 1 \in Int /\ \A k \in 1 .. n : queue[k] \in Chat!Id
    BY <1>3
  <2>2. /\ SubSeq(queue, 1, n) \in Seq(Chat!Id) /\ Len(SubSeq(queue, 1, n)) = IF 1 <= n THEN n - 1 + 1 ELSE 0
        /\ \A k \in 1 .. n - 1 + 1 : SubSeq(queue, 1, n)[k] = queue[1 + k - 1]
    BY <2>1, SubSeqProperties
  <2>3. QED
    BY <1>2, <1>3, <2>2
<1>5. /\ queue' \in Seq(Chat!Id) /\ Len(queue') = Len(queue) - n
      /\ \A k \in 1 .. Len(queue') : n + k \in 1 .. Len(queue) /\ queue'[k] = queue[n + k]
  <2>1. n + 1 \in Int /\ Len(queue) \in Int /\ \A k \in n + 1 .. Len(queue) : queue[k] \in Chat!Id
    BY <1>3
  <2>2. PICK rest : rest = SubSeq(queue, n + 1, Len(queue))
    OBVIOUS
  <2>3. /\ rest \in Seq(Chat!Id) /\ Len(rest) = IF n + 1 <= Len(queue) THEN Len(queue) - (n + 1) + 1 ELSE 0
        /\ \A k \in 1 .. Len(queue) - (n + 1) + 1 : rest[k] = queue[n + 1 + k - 1]
    BY <2>1, <2>2, SubSeqProperties
  <2>4. Len(rest) = Len(queue) - n
    BY <1>3, <2>3
  <2>5. ASSUME NEW k \in 1 .. Len(rest) PROVE n + k \in 1 .. Len(queue) /\ rest[k] = queue[n + k]
    <3>1. n + 1 + k - 1 = n + k /\ k \in 1 .. Len(queue) - (n + 1) + 1
      BY <1>3, <2>4
    <3>2. rest[k] = queue[n + 1 + k - 1]
      BY <2>3, <3>1
    <3>3. QED
      BY <1>3, <2>4, <3>1, <3>2
  <2>6. QED
    BY <1>2, <2>2, <2>3, <2>4, <2>5
<1>6. \A i : i \in Chat!ToSet(batch') <=> Among(i, batch')
  <2>1. DOMAIN batch' = 1 .. Len(batch')
    BY <1>4, LenProperties
  <2>2. QED
    BY <2>1 DEF Chat!ToSet, Among
<1>7. \A i \in Chat!Id : Among(i, batch') => where[i] = "queue"
  BY <1>4, Places DEF Among
<1>8. /\ where' \in [Chat!Id -> Chat!Place]
      /\ \A i \in Chat!Id : where'[i] = IF Among(i, batch') THEN "batch" ELSE where[i]
  BY <1>2, <1>6 DEF FeedTypes, Chat!Place
<1>9. FeedTypes'
  BY <1>2, <1>4, <1>5, <1>8 DEF FeedTypes
<1>10. \A k \in 1 .. Len(batch') : \A m \in 1 .. Len(queue') : Fits(batch'[k], queue'[m])
  <2>1. SUFFICES ASSUME NEW k \in 1 .. Len(batch'), NEW m \in 1 .. Len(queue') PROVE Fits(batch'[k], queue'[m])
    OBVIOUS
  <2>2. /\ k \in 1 .. Len(queue) /\ n + m \in 1 .. Len(queue) /\ k < n + m
        /\ batch'[k] = queue[k] /\ queue'[m] = queue[n + m]
    BY <1>3, <1>4, <1>5
  <2>3. QED
    BY <2>2 DEF LineOK, InLine
<1>11. PlaceOK'
  <2>1. \A i \in Chat!Id : where'[i] # "coming" => i \in 1 .. Len(feed)
    BY <1>7, <1>8 DEF PlaceOK
  <2>2. ASSUME NEW i \in Chat!Id PROVE where'[i] = "queue" <=> Among(i, queue')
    <3>1. ASSUME Among(i, queue') PROVE where'[i] = "queue"
      <4>1. PICK m \in 1 .. Len(queue') : queue'[m] = i
        BY <3>1 DEF Among
      <4>2. where[i] = "queue"
        BY <1>5, <4>1, Places
      <4>3. ~Among(i, batch')
        BY <1>10, <4>1 DEF Among, Fits
      <4>4. QED
        BY <1>8, <4>2, <4>3
    <3>2. ASSUME where'[i] = "queue" PROVE Among(i, queue')
      <4>1. ~Among(i, batch') /\ where[i] = "queue"
        BY <1>8, <3>2
      <4>2. PICK k \in 1 .. Len(queue) : queue[k] = i
        BY <4>1 DEF PlaceOK, Among
      <4>3. k \notin 1 .. n
        BY <1>4, <4>1, <4>2 DEF Among
      <4>4. k - n \in 1 .. Len(queue') /\ n + (k - n) = k
        BY <1>3, <1>5, <4>2, <4>3
      <4>5. queue'[k - n] = i
        BY <1>5, <4>2, <4>4
      <4>6. QED
        BY <4>4, <4>5 DEF Among
    <3>3. QED
      BY <3>1, <3>2
  <2>3. \A i \in Chat!Id : where'[i] = "batch" <=> Among(i, batch')
    <3>1. \A i \in Chat!Id : where[i] # "batch"
      <4>1. Len(batch) = 0
        BY <1>2
      <4>2. QED
        BY <4>1 DEF PlaceOK, Among
    <3>2. QED
      BY <1>8, <3>1
  <2>4. \A k \in 1 .. Len(given) : where'[given[k]] = "handled"
    BY <1>7, <1>8, Places
  <2>5. \A i \in told : where'[i] = "ended"
    BY <1>7, <1>8 DEF PlaceOK, FeedTypes
  <2>6. \A i : /\ Among(i, queue)' <=> Among(i, queue')
              /\ Among(i, batch)' <=> Among(i, batch')
    BY DEF Among
  <2>7. QED
    BY <1>2, <2>1, <2>2, <2>3, <2>4, <2>5, <2>6 DEF PlaceOK
<1>12. FilesOK'
  BY <1>2, <1>7, <1>8 DEF FilesOK, Taken
<1>13. LineOK'
  <2>1. \A a, b : Fits(a, b) => Fits(a, b)'
    BY <1>2 DEF Fits
  <2>2. InLine(given)'
    BY <1>2, <2>1 DEF LineOK, InLine
  <2>3. InLine(batch)'
    <3>1. SUFFICES ASSUME NEW k \in 1 .. Len(batch'), NEW m \in 1 .. Len(batch'), k < m PROVE Fits(batch'[k], batch'[m])
      BY <2>1 DEF InLine
    <3>2. QED
      BY <1>4, <3>1 DEF LineOK, InLine
  <2>4. InLine(queue)'
    <3>1. SUFFICES ASSUME NEW k \in 1 .. Len(queue'), NEW m \in 1 .. Len(queue'), k < m PROVE Fits(queue'[k], queue'[m])
      BY <2>1 DEF InLine
    <3>2. n + k \in 1 .. Len(queue) /\ n + m \in 1 .. Len(queue) /\ n + k < n + m
      BY <1>3, <1>5, <3>1
    <3>3. Fits(queue[n + k], queue[n + m])
      BY <3>2 DEF LineOK, InLine
    <3>4. QED
      BY <1>5, <3>3
  <2>5. Then(given, batch)'
    <3>1. SUFFICES ASSUME NEW k \in 1 .. Len(given), NEW m \in 1 .. Len(batch') PROVE Fits(given[k], batch'[m])
      BY <1>2, <2>1 DEF Then
    <3>2. QED
      BY <1>4 DEF LineOK, Then
  <2>6. Then(given, queue)'
    <3>1. SUFFICES ASSUME NEW k \in 1 .. Len(given), NEW m \in 1 .. Len(queue') PROVE Fits(given[k], queue'[m])
      BY <1>2, <2>1 DEF Then
    <3>2. QED
      BY <1>5 DEF LineOK, Then
  <2>7. Then(batch, queue)'
    BY <1>10, <2>1 DEF Then
  <2>8. QED
    BY <2>2, <2>3, <2>4, <2>5, <2>6, <2>7 DEF LineOK
<1>14. CleanOK'
  BY <1>2, <1>7, <1>8 DEF CleanOK
<1>15. QED
  BY <1>9, <1>11, <1>12, <1>13, <1>14

LEMMA FeedStarts == ASSUME Chat!FeishuAssumption, Chat!Init PROVE FeedInv
<1>1. /\ Len(queue) = 0 /\ Len(batch) = 0 /\ Len(given) = 0
      /\ told = {} /\ \A i \in Chat!Id : where[i] = "coming" /\ saved[i] = 0 /\ fetched[i] = 0
  BY DEF Chat!Init
<1>2. FeedTypes
  BY DEF Chat!Init, FeedTypes, Chat!Place
<1>3. PlaceOK /\ FilesOK /\ LineOK
  BY <1>1 DEF PlaceOK, FilesOK, LineOK, InLine, Then, Among, Taken
<1>4. CleanOK
  BY <1>1 DEF CleanOK, Chat!Init
<1>5. QED
  BY <1>2, <1>3, <1>4 DEF FeedInv

LEMMA FeedKeeps == ASSUME Chat!FeishuAssumption, FeedInv, [Chat!Next]_(Chat!vars) PROVE FeedInv'
<1>1. CASE UNCHANGED Chat!vars
  <2>1. FeedTypes'
    BY <1>1 DEF Chat!vars, FeedInv, FeedTypes
  <2>2. PlaceOK' /\ FilesOK'
    BY <1>1 DEF Chat!vars, FeedInv, PlaceOK, FilesOK, Among, Taken
  <2>3. LineOK'
    BY <1>1, LineKept DEF Chat!vars, FeedInv
  <2>4. CleanOK'
    BY <1>1 DEF Chat!vars, FeedInv, CleanOK
  <2>5. QED
    BY <2>1, <2>2, <2>3, <2>4 DEF FeedInv
<1>2. CASE Chat!Poll
  <2>1. CASE transport = "up"
    BY <1>2, <2>1, PollOK
  <2>2. CASE transport # "up"
    <3>1. Chat!Ends /\ process = "running" /\ UNCHANGED <<feed, saved, given, told, faults>>
      BY <1>2, <2>2 DEF Chat!Poll, Chat!Alive
    <3>2. faults # 0
      BY <2>2, <3>1 DEF FeedInv, CleanOK
    <3>3. QED
      BY <3>1, <3>2, EndsOK
  <2>3. QED
    BY <2>1, <2>2
<1>3. CASE Chat!ProcessDies
  <2>1. Chat!Ends /\ faults' = faults + 1 /\ UNCHANGED <<feed, saved, given, told>>
    BY <1>3 DEF Chat!ProcessDies
  <2>2. faults' # 0
    BY <2>1 DEF FeedInv, FeedTypes
  <2>3. QED
    BY <2>1, <2>2, EndsOK
<1>4. QED
  BY <1>1, <1>2, <1>3, SendOK, TurnOK, HandlersOK, HandleOK DEF Chat!Next

\* For any number of events, files and faults, whatever is delivered again: a
\* message refused for its files is never handed to the service, and one that
\* is handed over has every file on disk (RefusedNeverStarts).
THEOREM RefusedIsNotStarted == ASSUME Chat!FeishuAssumption PROVE Chat!Spec => []Chat!RefusedNeverStarts
<1>1. ASSUME FeedInv PROVE Chat!RefusedNeverStarts
  <2> USE <1>1 DEF FeedInv
  <2>1. DOMAIN given = 1 .. Len(given)
    BY LenProperties DEF FeedTypes
  <2>2. \A i \in Chat!ToSet(given) : i \in Chat!Id /\ where[i] = "handled"
    BY <2>1, Places DEF Chat!ToSet
  <2>3. told \cap Chat!ToSet(given) = {}
    BY <2>2 DEF PlaceOK
  <2>4. \A i \in Chat!ToSet(given) : saved[i] = feed[i].files
    BY <2>2 DEF FilesOK, Taken
  <2>5. QED
    BY <2>3, <2>4 DEF Chat!RefusedNeverStarts
<1>2. Chat!Init => FeedInv
  BY FeedStarts
<1>3. FeedInv /\ [Chat!Next]_(Chat!vars) => FeedInv'
  BY FeedKeeps
<1>4. QED
  BY <1>1, <1>2, <1>3, PTL DEF Chat!Spec

\* Without a fault, events without files are handled in the order in which
\* handlers took them (OrderKept).
THEOREM FilelessInOrder == ASSUME Chat!FeishuAssumption PROVE Chat!Spec => []Chat!OrderKept
<1>1. ASSUME FeedInv PROVE Chat!OrderKept
  <2>1. DOMAIN given = 1 .. Len(given)
    BY <1>1, LenProperties DEF FeedInv, FeedTypes
  <2>2. QED
    BY <1>1, <2>1 DEF FeedInv, LineOK, InLine, Fits, Chat!OrderKept
<1>2. Chat!Init => FeedInv
  BY FeedStarts
<1>3. FeedInv /\ [Chat!Next]_(Chat!vars) => FeedInv'
  BY FeedKeeps
<1>4. QED
  BY <1>1, <1>2, <1>3, PTL DEF Chat!Spec
=============================================================================
