-------------------------------- MODULE Feishu --------------------------------
(***************************************************************************)
(* The Feishu side of the gateway (gateway/feishu.py and the loop of       *)
(* gateway/runner.py): handlers on the SDK's thread normalise an event,    *)
(* fetch its files and put it into an in-memory queue, which the gateway   *)
(* loop drains in small batches.  There is no cursor.  The SDK is the      *)
(* environment: it delivers an event once, and again only if Redelivery.   *)
(***************************************************************************)
EXTENDS Naturals, Sequences, SequencesExt, FiniteSets

CONSTANTS
  MaxEvents,   \* bound on events of the platform
  BatchMax,    \* _POLL_BATCH_MAX
  MaxFiles,    \* bound on files of a message
  MaxFaults,   \* bound on deaths of the process or the transport
  Redelivery   \* the platform delivers again what a dead process had taken

FeishuAssumption ==
  {MaxEvents, BatchMax, MaxFiles, MaxFaults} \subseteq Nat /\ BatchMax > 0 /\ Redelivery \in BOOLEAN

VARIABLES
  events,     \* the events so far
  where,      \* of each: where it is
  saved,      \* of each message: how many of its files are on disk
  fetched,    \* of each: how many the running handler has got
  queue, batch,
  transport, process,
  handled,    \* what the service was given, in order
  told,       \* messages answered with "not started"
  faults

vars == <<events, where, saved, fetched, queue, batch, transport, process, handled, told, faults>>

Id == 1 .. MaxEvents
\* allowed: the sender is listed and no bot; addressed: a direct chat or a
\* listed group with the mention, and something to read; a card: its frame is known.
Event == [kind : {"message", "card"}, allowed : BOOLEAN, addressed : BOOLEAN, files : 0 .. MaxFiles]
Place == {"coming", "handler", "queue", "batch", "handled", "ended", "gone"}

TypeOK ==
  /\ events \in Seq(Event) /\ Len(events) <= MaxEvents
  /\ where \in [Id -> Place]
  /\ saved \in [Id -> 0 .. MaxFiles] /\ fetched \in [Id -> 0 .. MaxFiles]
  /\ queue \in Seq(Id) /\ batch \in Seq(Id) /\ Len(batch) <= BatchMax
  /\ \A i \in Id : (where[i] = "queue") <=> i \in ToSet(queue)
  /\ \A i \in Id : (where[i] = "batch") <=> i \in ToSet(batch)
  /\ transport \in {"off", "up", "dead"} /\ process \in {"starting", "running", "stopped"}
  /\ handled \in Seq(Id) /\ told \subseteq Id /\ faults \in 0 .. MaxFaults

Init ==
  /\ events = <<>> /\ where = [i \in Id |-> "coming"]
  /\ saved = [i \in Id |-> 0] /\ fetched = [i \in Id |-> 0]
  /\ queue = <<>> /\ batch = <<>>
  /\ transport = "off" /\ process = "starting"
  /\ handled = <<>> /\ told = {} /\ faults = 0

Goes(i, to) == where' = [where EXCEPT ![i] = to]
-----------------------------------------------------------------------------
Send ==
  /\ Len(events) < MaxEvents
  /\ \E e \in Event : /\ e.kind = "card" => e.files = 0
                      /\ events' = Append(events, e)
  /\ UNCHANGED <<where, saved, fetched, queue, batch, transport, process, handled, told, faults>>

\* probe: the process runs once the connection is ready, or does not start.
Probe ==
  /\ process = "starting"
  /\ transport' = "up" /\ process' = "running"
  /\ UNCHANGED <<events, where, saved, fetched, queue, batch, handled, told, faults>>

\* (mutant) the newest message comes first.
EnqueueFirst(i) == queue' = <<i>> \o queue

Enqueue(i) == queue' = Append(queue, i)

Admitted(e) == e.allowed /\ e.addressed

\* Handlers start in the order of the events.
\* _on_message, _on_card_action: what is not admitted is dropped; a card, or a
\* message without files, is queued at once.
Receive(i) ==
  /\ transport = "up" /\ i <= Len(events) /\ where[i] = "coming"
  /\ \A j \in 1 .. i - 1 : where[j] # "coming"
  /\ CASE ~Admitted(events[i]) -> Goes(i, "ended") /\ UNCHANGED queue
       [] Admitted(events[i]) /\ events[i].files = 0 -> Goes(i, "queue") /\ Enqueue(i)
       [] OTHER -> Goes(i, "handler") /\ UNCHANGED queue
  /\ UNCHANGED <<events, saved, fetched, batch, transport, process, handled, told, faults>>

\* A file is created, never overwritten: one left by an earlier delivery of
\* the message refuses the new one.
Fetched(i) == fetched[i] < events[i].files /\ saved[i] <= fetched[i]

\* One file: downloaded, within the limit, written; the handler awaits, other
\* handlers run.
Fetch(i) ==
  /\ transport = "up" /\ where[i] = "handler" /\ Fetched(i)
  /\ fetched' = [fetched EXCEPT ![i] = @ + 1]
  /\ saved' = [saved EXCEPT ![i] = IF @ > fetched[i] THEN @ ELSE @ + 1]
  /\ UNCHANGED <<events, where, queue, batch, transport, process, handled, told, faults>>

Refused(i) == Goes(i, "ended") /\ UNCHANGED queue

\* A download or a write fails: the user is told (or the notice fails too),
\* the message is not started.
FetchFails(i) ==
  /\ transport = "up" /\ where[i] = "handler" /\ fetched[i] < events[i].files
  /\ Refused(i)
  /\ told' \in {told, told \cup {i}}
  /\ UNCHANGED <<events, saved, fetched, batch, transport, process, handled, faults>>

Put(i) ==
  /\ transport = "up" /\ where[i] = "handler" /\ fetched[i] = events[i].files
  /\ Enqueue(i) /\ Goes(i, "queue")
  /\ UNCHANGED <<events, saved, fetched, batch, transport, process, handled, told, faults>>
-----------------------------------------------------------------------------
\* _assert_transport_alive: the exception is not one the loop retries.
Alive == transport = "up"

\* What a process that ends had not handled.
Ends ==
  /\ process' = "stopped" /\ transport' = "off"
  /\ queue' = <<>> /\ batch' = <<>>
  /\ fetched' = [i \in Id |-> 0]
  /\ where' = [i \in Id |->
       IF where[i] \in {"handler", "queue", "batch"}
       THEN IF Redelivery THEN "coming" ELSE "gone" ELSE where[i]]

BatchSize == IF Len(queue) < BatchMax THEN Len(queue) ELSE BatchMax

Rest(n) == SubSeq(queue, n + 1, Len(queue))

\* poll_once blocks for the first event and drains up to BatchMax.
Poll ==
  /\ process = "running" /\ batch = <<>> /\ (queue # <<>> \/ ~Alive)
  /\ IF Alive
     THEN /\ batch' = SubSeq(queue, 1, BatchSize)
          /\ queue' = Rest(BatchSize)
          /\ where' = [i \in Id |-> IF i \in ToSet(batch') THEN "batch" ELSE where[i]]
          /\ UNCHANGED <<fetched, transport, process>>
     ELSE Ends
  /\ UNCHANGED <<events, saved, handled, told, faults>>

Handle ==
  /\ process = "running" /\ batch # <<>>
  /\ handled' = Append(handled, Head(batch))
  /\ Goes(Head(batch), "handled")
  /\ batch' = Tail(batch)
  /\ UNCHANGED <<events, saved, fetched, queue, transport, process, told, faults>>

\* _run_channel: the thread dies, its handlers with it; the queue stays.
TransportDies ==
  /\ transport = "up" /\ faults < MaxFaults
  /\ transport' = "dead" /\ faults' = faults + 1
  /\ UNCHANGED <<events, where, saved, fetched, queue, batch, process, handled, told>>

ProcessDies ==
  /\ process = "running" /\ faults < MaxFaults
  /\ Ends /\ faults' = faults + 1
  /\ UNCHANGED <<events, saved, handled, told>>

Restart ==
  /\ process = "stopped"
  /\ process' = "starting"
  /\ UNCHANGED <<events, where, saved, fetched, queue, batch, transport, handled, told, faults>>

Handlers == \E i \in Id : Receive(i) \/ Fetch(i) \/ FetchFails(i) \/ Put(i)
Next == Send \/ Probe \/ Handlers \/ Poll \/ Handle \/ TransportDies \/ ProcessDies \/ Restart

Spec == Init /\ [][Next]_vars

\* Handlers, the loop and whoever restarts the process go on.
FairSpec ==
  /\ Spec
  /\ WF_vars(Probe) /\ WF_vars(Poll) /\ WF_vars(Handle) /\ WF_vars(Restart)
  /\ \A i \in Id : WF_vars(Receive(i) \/ Fetch(i) \/ FetchFails(i) \/ Put(i))
-----------------------------------------------------------------------------
\* "Not started" is true: a message refused for its files is never handed to
\* the service, and one that is handed over has every file on disk.
RefusedNeverStarts ==
  /\ told \cap ToSet(handled) = {}
  /\ \A i \in ToSet(handled) : saved[i] = events[i].files

\* Events without files are handled in the order in which handlers took them;
\* only a download lets a later event overtake.
OrderKept ==
  \A m, n \in DOMAIN handled :
    (m < n /\ events[handled[m]].files = 0 /\ events[handled[n]].files = 0 /\ faults = 0)
      => handled[m] < handled[n]

\* A dead transport thread stops the gateway instead of leaving it deaf.
DeadTransportNoticed == transport = "dead" ~> transport # "dead"

\* Every admitted event is handled or ends with its notice: none stays in a
\* handler, the queue or a batch that was left.
EveryEventEnds ==
  \A i \in Id : where[i] \in {"handler", "queue", "batch"} ~> where[i] \in {"handled", "ended"}
=============================================================================
