----------------------------- MODULE AlertBridge -----------------------------
(***************************************************************************)
(* The alert bridge (zuaef_quant/bridge.py): a timer starts one process    *)
(* after another; each reads alerts.jsonl from its cursor, sends what is   *)
(* material to Telegram line by line, and saves cursor and identities      *)
(* after every line.  A line is its kind and its identity; lengths count   *)
(* in lines.                                                               *)
(***************************************************************************)
EXTENDS Naturals, Sequences, FiniteSets, SequencesExt

CONSTANTS
  Cap,          \* DELIVERED_IDS_MAX
  MaxLines,     \* bound on lines ever appended
  MaxFiles,     \* bound on files that ever carry the name alerts.jsonl
  MaxDays,      \* bound on trading days
  MaxFaults,    \* bound on deaths and failed sends
  AgentResult,  \* what an agent run may do: text, failed, delivered, delivered_failed
  SharedIds,    \* two events may carry the same type, symbol and ts
  SameInode     \* alerts.jsonl may be rewritten under the same inode

BridgeAssumption ==
  /\ {Cap, MaxLines, MaxFiles, MaxDays, MaxFaults} \subseteq Nat \ {0}
  /\ AgentResult \subseteq {"text", "failed", "delivered", "delivered_failed"}
  /\ {SharedIds, SameInode} \subseteq BOOLEAN

VARIABLES
  file,       \* the lines of each inode
  current,    \* the inode named alerts.jsonl
  disk,       \* state.json
  st,         \* the state the tick works on
  opened,     \* the inode the tick reads
  pc,
  sent,       \* how often each event has reached the chat
  recovered,  \* how often SYSTEM_RECOVERED has
  daily,      \* how often the summary of each day has
  day, faults

vars == <<file, current, disk, st, opened, pc, sent, recovered, daily, day, faults>>

Event == 1 .. MaxLines
Kind == {"agent", "fixed", "lost", "noise", "malformed"}
Line == [event : Event, id : Event, kind : Kind]
Material(line) == line.kind \in {"agent", "fixed", "lost"}
Fresh == [offset |-> 0, inode |-> 0, ids |-> <<>>, pending |-> FALSE, daily |-> 0]
Appended == UNION {{l : l \in ToSet(file[i])} : i \in 1 .. MaxFiles}
Ever == Cardinality({l.event : l \in Appended})

TypeOK ==
  /\ file \in [1 .. MaxFiles -> Seq(Line)] /\ current \in 1 .. MaxFiles
  /\ \A s \in {disk, st} :
       /\ s.offset \in 0 .. MaxLines /\ s.inode \in 0 .. MaxFiles
       /\ s.ids \in Seq(Event) /\ Len(s.ids) <= Cap
       /\ s.pending \in BOOLEAN /\ s.daily \in 0 .. MaxDays
  /\ opened \in 0 .. MaxFiles
  /\ pc \in {"idle", "recovery", "recovered", "daily", "summed", "stat", "open",
            "read", "checkpoint"}
  /\ sent \in [Event -> Nat] /\ recovered \in Nat /\ daily \in [1 .. MaxDays -> Nat]
  /\ day \in 1 .. MaxDays /\ faults \in 0 .. MaxFaults

Init ==
  /\ file = [i \in 1 .. MaxFiles |-> <<>>] /\ current = 1
  /\ disk = Fresh /\ st = Fresh /\ opened = 0 /\ pc = "idle"
  /\ sent = [e \in Event |-> 0] /\ recovered = 0
  /\ daily = [d \in 1 .. MaxDays |-> 0] /\ day = 1 /\ faults = 0
-----------------------------------------------------------------------------
(* The monitor and whoever looks after its files.                          *)

\* event_identity: type, symbol and ts; the events numbered here differ in
\* them unless SharedIds.
Identity(kind) ==
  {Ever + 1} \cup
  (IF SharedIds THEN {l.id : l \in {x \in Appended : x.kind = kind}} ELSE {})

Append1 ==
  /\ Ever < MaxLines
  /\ \E kind \in Kind : \E id \in Identity(kind) :
       file' = [file EXCEPT ![current] = Append(@, [event |-> Ever + 1, id |-> id, kind |-> kind])]
  /\ UNCHANGED <<current, disk, st, opened, pc, sent, recovered, daily, day, faults>>

\* Lines the bridge has passed may be dropped: the rest is kept in a new file,
\* or (SameInode) in a file that has the old one's inode.
Rotate ==
  /\ \E k \in 0 .. (IF disk.inode = current /\ disk.offset <= Len(file[current]) THEN disk.offset ELSE 0) :
       LET kept == SubSeq(file[current], k + 1, Len(file[current]))
       IN  \/ /\ current < MaxFiles
              /\ current' = current + 1
              /\ file' = [file EXCEPT ![current + 1] = kept]
           \/ /\ SameInode /\ pc = "idle"
              /\ file' = [file EXCEPT ![current] = kept]
              /\ UNCHANGED current
  /\ UNCHANGED <<disk, st, opened, pc, sent, recovered, daily, day, faults>>

DayPasses ==
  /\ pc = "idle" /\ day < MaxDays
  /\ day' = day + 1
  /\ UNCHANGED <<file, current, disk, st, opened, pc, sent, recovered, daily, faults>>
-----------------------------------------------------------------------------
(* One tick.                                                               *)

Start ==
  /\ pc = "idle"
  /\ st' = disk /\ pc' = "recovery"
  /\ UNCHANGED <<file, current, disk, opened, sent, recovered, daily, day, faults>>

\* The process ends; what it did not save is gone.
Gone == st' = Fresh /\ opened' = 0 /\ pc' = "idle"

Die ==
  /\ pc # "idle" /\ faults < MaxFaults
  /\ faults' = faults + 1 /\ Gone
  /\ UNCHANGED <<file, current, disk, sent, recovered, daily, day>>

Recovered == [st EXCEPT !.pending = FALSE]

\* With a loss pending and the evidence of the ledger, one message, then the
\* save.  A refused send is not caught here: it ends the process (Die).
Recover ==
  /\ pc = "recovery"
  /\ \/ /\ st.pending
        /\ recovered' = recovered + 1
        /\ st' = Recovered /\ pc' = "recovered"
     \/ /\ pc' = "daily" /\ UNCHANGED <<recovered, st>>
  /\ UNCHANGED <<file, current, disk, opened, sent, daily, day, faults>>

\* After close, with evidence of the day.
Daily ==
  /\ pc = "daily"
  /\ \/ /\ st.daily # day
        /\ daily' = [daily EXCEPT ![day] = @ + 1]
        /\ st' = [st EXCEPT !.daily = day] /\ pc' = "summed"
     \/ /\ pc' = "stat" /\ UNCHANGED <<daily, st>>
  /\ UNCHANGED <<file, current, disk, opened, sent, recovered, day, faults>>

SaveState ==
  /\ \/ pc = "recovered" /\ pc' = "daily"
     \/ pc = "summed" /\ pc' = "stat"
  /\ disk' = st
  /\ UNCHANGED <<file, current, st, opened, sent, recovered, daily, day, faults>>

\* Another inode, or less than was read: re-scan from zero.
Reset(s) ==
  IF s.inode # 0 /\ (current # s.inode \/ Len(file[current]) < s.offset)
  THEN [s EXCEPT !.offset = 0] ELSE s

Stat ==
  /\ pc = "stat"
  /\ st' = [Reset(st) EXCEPT !.inode = current]
  /\ pc' = "open"
  /\ UNCHANGED <<file, current, disk, opened, sent, recovered, daily, day, faults>>

\* The file may have been replaced since the stat.
Open ==
  /\ pc = "open"
  /\ opened' = current /\ pc' = "read"
  /\ UNCHANGED <<file, current, disk, st, sent, recovered, daily, day, faults>>

AtEnd == st.offset >= Len(file[opened])
Next1 == file[opened][st.offset + 1]

Remember(ids, id) ==
  LET all == Append(ids, id) IN SubSeq(all, IF Len(all) > Cap THEN Len(all) - Cap + 1 ELSE 1, Len(all))

\* A blank, malformed, immaterial or already delivered line: passed, saved.
Pass ==
  /\ pc = "read" /\ ~AtEnd
  /\ Material(Next1) => Next1.id \in ToSet(st.ids)
  /\ st' = [st EXCEPT !.offset = @ + 1] /\ disk' = st'
  /\ UNCHANGED <<file, current, opened, pc, sent, recovered, daily, day, faults>>

\* How often the chat gets an event of this kind when every send succeeds:
\* a text is forwarded, an agent's own delivery is not, a failed or paused
\* run is replaced by the fixed copy.
Copies(kind) ==
  IF kind # "agent" THEN {1}
  ELSE {CASE r \in {"text", "failed", "delivered"} -> 1 [] OTHER -> 2 : r \in AgentResult}

Dispatch ==
  /\ pc = "read" /\ ~AtEnd
  /\ Material(Next1) /\ Next1.id \notin ToSet(st.ids)
  /\ \E n \in Copies(Next1.kind) : sent' = [sent EXCEPT ![Next1.event] = @ + n]
  /\ st' = [st EXCEPT !.pending = @ \/ Next1.kind = "lost"]
  /\ pc' = "checkpoint"
  /\ UNCHANGED <<file, current, disk, opened, recovered, daily, day, faults>>

\* (mutant) a refused line is passed with the others.
UnpassedLost(s) == [s EXCEPT !.offset = @ + 1]

\* The state saved after a refused send: still before the line.
Unpassed(s) == s

\* TelegramError: a part of the message, all of it (a lost answer) or nothing
\* may have arrived.
SendFails ==
  /\ pc = "read" /\ ~AtEnd
  /\ Material(Next1) /\ Next1.id \notin ToSet(st.ids)
  /\ faults < MaxFaults /\ faults' = faults + 1
  /\ \E n \in {0, 1} : sent' = [sent EXCEPT ![Next1.event] = @ + n]
  /\ disk' = Unpassed(st) /\ Gone
  /\ UNCHANGED <<file, current, recovered, daily, day>>

Checkpoint ==
  /\ pc = "checkpoint"
  /\ st' = [st EXCEPT !.offset = @ + 1, !.ids = Remember(@, Next1.id)]
  /\ disk' = st' /\ pc' = "read"
  /\ UNCHANGED <<file, current, opened, sent, recovered, daily, day, faults>>

EndTick ==
  /\ pc = "read" /\ AtEnd
  /\ disk' = st /\ Gone
  /\ UNCHANGED <<file, current, sent, recovered, daily, day, faults>>

Tick == Start \/ Recover \/ Daily \/ SaveState \/ Stat \/ Open \/ Pass \/ Dispatch
        \/ Checkpoint \/ EndTick

Next == Append1 \/ Rotate \/ DayPasses \/ Die \/ Tick \/ SendFails

Spec == Init /\ [][Next]_vars

\* The timer goes on starting ticks, and a tick that is not killed runs on.
FairSpec == Spec /\ WF_vars(Tick)
-----------------------------------------------------------------------------
\* consume_alerts: the saved cursor never stands behind a material line that
\* has not reached the chat, whatever rotation, failed send or death came.
SentBeforePassed ==
  disk.inode = current =>
    \A i \in DOMAIN file[current] :
      i <= disk.offset /\ Material(file[current][i]) => sent[file[current][i].event] > 0

\* The identities outlive the cursor: without a death or a refused send no
\* event, summary or recovery reaches the chat twice, re-scans included.
RepeatNeedsFault ==
  (\/ \E e \in Event : sent[e] > 1
   \/ \E d \in 1 .. MaxDays : daily[d] > 1) => faults > 0

\* SYSTEM_RECOVERED answers a loss the chat was told of, once each, unless
\* the process dies between the message and its save.
RecoveryFollowsLoss ==
  LET losses == {l.event : l \in {x \in Appended : x.kind = "lost" /\ sent[x.event] > 0}}
  IN  recovered <= Cardinality(losses) + faults

\* Every material line reaches the chat in the end.
EveryEventSent ==
  \A e \in Event :
    (\E l \in Appended : l.event = e /\ Material(l)) ~> sent[e] > 0
=============================================================================
