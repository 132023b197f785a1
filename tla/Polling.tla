------------------------------- MODULE Polling -------------------------------
(***************************************************************************)
(* The Telegram side of the gateway loop (gateway/runner.py, telegram.py): *)
(* getUpdates with an in-memory offset, normalisation of the batch one     *)
(* update at a time, serial handling, and the durable cursor saved once    *)
(* the batch is over.  The Bot API is the environment: it forgets an       *)
(* update only when a later poll carries a higher offset.                  *)
(***************************************************************************)
EXTENDS Naturals, Sequences, SequencesExt

CONSTANTS
  MaxUpdates,   \* bound on updates users send
  MaxCrashes    \* bound on deaths of the gateway process

PollingAssumption == MaxUpdates \in Nat /\ MaxCrashes \in Nat

VARIABLES
  arrived,    \* updates 1 .. arrived have reached the Bot API
  confirmed,  \* updates 1 .. confirmed are forgotten by it
  pc,         \* where the loop is
  offset,     \* adapter._offset (0: None)
  response,   \* updates of the poll not yet normalised
  events,     \* normalised events not yet handled
  cursor,     \* the durable surface cursor (0: no row)
  handled,    \* how many times handle() got each update
  ignored,    \* updates that normalise to nothing
  dropped,    \* updates that were in a batch when it failed
  latest,     \* the last update handled since the process started
  crashes

external == <<arrived, confirmed>>
memory == <<offset, response, events>>
history == <<handled, ignored, dropped, latest, crashes>>
vars == <<external, pc, memory, cursor, history>>

Update == 1 .. MaxUpdates

TypeOK ==
  /\ arrived \in 0 .. MaxUpdates /\ confirmed \in 0 .. MaxUpdates
  /\ pc \in {"poll", "normalise", "handle", "down"}
  /\ offset \in 0 .. MaxUpdates + 1 /\ cursor \in 0 .. MaxUpdates + 1
  /\ response \in Seq(Update) /\ events \in Seq(Update)
  /\ handled \in [Update -> Nat]
  /\ ignored \subseteq Update /\ dropped \subseteq Update
  /\ latest \in 0 .. MaxUpdates
  /\ crashes \in Nat

Init ==
  /\ arrived = 0 /\ confirmed = 0
  /\ pc = "poll"
  /\ offset = 0 /\ response = <<>> /\ events = <<>>
  /\ cursor = 0
  /\ handled = [u \in Update |-> 0]
  /\ ignored = {} /\ dropped = {}
  /\ latest = 0 /\ crashes = 0

Arrive ==
  /\ arrived < MaxUpdates
  /\ arrived' = arrived + 1
  /\ UNCHANGED <<confirmed, pc, memory, cursor, history>>

-----------------------------------------------------------------------------
\* The Bot API on getUpdates: an offset confirms everything below it.
Confirm == confirmed' = IF offset > confirmed + 1 THEN offset - 1 ELSE confirmed
Unconfirmed == [i \in 1 .. arrived - confirmed' |-> confirmed' + i]

\* poll_once sends the request.
GetUpdates ==
  /\ pc = "poll"
  /\ Confirm
  /\ response' = Unconfirmed
  /\ events' = <<>>
  /\ pc' = "normalise"
  /\ UNCHANGED <<arrived, offset, cursor, history>>

\* The request or its answer is lost: the loop sleeps and polls again.
GetUpdatesFails ==
  /\ pc = "poll"
  /\ Confirm
  /\ UNCHANGED <<arrived, pc, memory, cursor, history>>

\* One update of the batch: an event, or nothing (not allowlisted, a group
\* chat, an unknown callback).  The offset has already moved past it.
Normalise ==
  /\ pc = "normalise" /\ response # <<>>
  /\ offset' = Head(response) + 1
  /\ response' = Tail(response)
  /\ \/ events' = Append(events, Head(response)) /\ UNCHANGED ignored
     \/ ignored' = ignored \cup {Head(response)} /\ UNCHANGED events
  /\ UNCHANGED <<external, pc, cursor, handled, dropped, latest, crashes>>

\* A download, a refusal or a callback answer sent while normalising raises
\* out of poll_once: the events gathered so far are lost with it.
NormaliseRaises ==
  /\ pc = "normalise" /\ response # <<>>
  /\ offset' = Head(response) + 1
  /\ response' = <<>> /\ events' = <<>>
  /\ dropped' = dropped \cup ToSet(events) \cup {Head(response)}
  /\ pc' = "poll"
  /\ UNCHANGED <<external, cursor, handled, ignored, latest, crashes>>

\* (mutant) the cursor is saved before the batch is handled.
BatchSavedFirst ==
  /\ pc = "normalise" /\ response = <<>>
  /\ pc' = "handle"
  /\ cursor' = IF offset # 0 THEN offset ELSE cursor
  /\ UNCHANGED <<external, memory, history>>

BatchReady ==
  /\ pc = "normalise" /\ response = <<>>
  /\ pc' = "handle"
  /\ UNCHANGED <<external, memory, cursor, history>>

\* service.handle: a transport error inside it is logged and the event is over.
\* Any other exception ends the process, which Crash covers.
Handle ==
  /\ pc = "handle" /\ events # <<>>
  /\ handled' = [handled EXCEPT ![Head(events)] = @ + 1]
  /\ latest' = Head(events)
  /\ events' = Tail(events)
  /\ UNCHANGED <<external, pc, offset, response, cursor, ignored, dropped, crashes>>

SaveCursor ==
  /\ pc = "handle" /\ events = <<>>
  /\ cursor' = IF offset # 0 THEN offset ELSE cursor
  /\ pc' = "poll"
  /\ UNCHANGED <<external, memory, history>>

Crash ==
  /\ pc # "down"
  /\ crashes < MaxCrashes
  /\ crashes' = crashes + 1
  /\ pc' = "down"
  /\ offset' = 0 /\ response' = <<>> /\ events' = <<>>
  /\ latest' = 0
  /\ UNCHANGED <<external, cursor, handled, ignored, dropped>>

\* run_gateway seeds the adapter with the stored cursor.
Restart ==
  /\ pc = "down"
  /\ offset' = cursor
  /\ pc' = "poll"
  /\ UNCHANGED <<external, response, events, cursor, history>>

Loop ==
  \/ GetUpdates \/ GetUpdatesFails
  \/ Normalise \/ NormaliseRaises \/ BatchReady \/ Handle \/ SaveCursor
  \/ Restart

Next == Arrive \/ Loop \/ Crash

Spec == Init /\ [][Next]_vars

\* The Bot API answers in the end; the loop runs on and a supervisor restarts
\* a dead process.
FairSpec ==
  Spec /\ WF_vars(GetUpdates)
       /\ WF_vars(Normalise \/ NormaliseRaises \/ BatchReady \/ Handle \/ SaveCursor \/ Restart)
-----------------------------------------------------------------------------
Processed(u) == handled[u] > 0 \/ u \in ignored \cup dropped

\* What the durable cursor or the Bot API has left behind was handled, ignored,
\* or lost to a batch that failed: a crash alone loses nothing (runner.py:296-316).
NothingLeftBehind ==
  \A u \in Update : u < cursor \/ u <= confirmed => Processed(u)

\* An update is handled again only after a crash: at most once per crash.
RepeatNeedsCrash == \A u \in Update : handled[u] <= 1 + crashes

\* Within the life of a process, updates are handled in the order they came.
InOrder == [][latest' # 0 => latest' >= latest /\
                (handled' # handled => latest' > latest)]_vars

\* Nothing the durable cursor or the Bot API has left behind is unprocessed, an
\* update is handled again only after a crash, and in order (runner.py).
PollingKeepsItsPlace == [](TypeOK /\ NothingLeftBehind /\ RepeatNeedsCrash) /\ InOrder

\* Every update that reaches the Bot API is dealt with in the end, whatever
\* polls fail and whenever the process dies.
EveryUpdateProcessed ==
  \A u \in Update : u <= arrived ~> Processed(u)
-----------------------------------------------------------------------------
(* What the repository says of itself.                                     *)

\* runner.py:299-302 on a failing poll: "the cursor has not advanced, so the
\* next poll simply re-receives the batch".
FailedBatchReReceived ==
  pc = "poll" => \A u \in dropped : handled[u] > 0 \/ offset <= u
=============================================================================
