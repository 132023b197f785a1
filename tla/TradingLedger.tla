---------------------------- MODULE TradingLedger ----------------------------
(***************************************************************************)
(* The trading ledger of the quant monitor (zuaef_quant/monitor.py): three *)
(* JSON files and an append-only alert stream, written by the session loop *)
(* and by one process per acknowledged trade, each inside a transaction    *)
(* under .ledger.lock that reloads the files first.  A file is truncated   *)
(* and then filled, so a process that dies, or a reader that takes no      *)
(* lock, meets it torn.  Prices, bars and clauses are reduced to what they *)
(* decide: trigger, near, exit.                                            *)
(***************************************************************************)
EXTENDS Naturals, Sequences, FiniteSets, SequencesExt

CONSTANTS
  Symbol,      \* the candidate pool
  Client,      \* processes that run ack-buy, ack-sell and skip
  Share,       \* share counts
  MaxAcks,     \* bound on human facts
  MaxCycles,   \* bound on cycles of the session
  MaxFaults,   \* bound on processes that die and cycles that raise
  AfterHours,  \* the session runs for ever, outside trading hours
  MaxDays,     \* bound on trading days
  Torn         \* the content of a file between its truncation and its fill

VARIABLES
  disk,      \* the ledger files
  summary,   \* open positions as state.json shows them, by id
  alerts,    \* alerts.jsonl
  lock,      \* the process in a transaction
  pc, mem,   \* of each process: where it is, its Store
  written,   \* half writes of the save it is in: 0 .. 6
  fact,      \* the human fact a client records
  acks, cycles, faults, day,
  done,      \* facts whose command returned 0, with the position it named
  wrecked    \* files a death has ever left torn

vars == <<disk, summary, alerts, lock, pc, mem, written, fact, acks, cycles,
          faults, day, done, wrecked>>

Session == "session"
Process == Client \cup {Session}
Free == "free"
Venue == {"paper", "real"}
FileOrder == <<"opportunities", "positions", "forward">>
OppState == {"none", "WATCH", "NEAR", "READY", "INVALIDATED", "EXECUTED"}

\* entry_time is the human's own time of the fact: it tells facts apart.
Fact == [kind : {"buy", "sell", "skip"}, symbol : Symbol, shares : Share,
         venue : Venue, time : 1 .. MaxAcks]
\* A fact tried again takes one more id.
MaxId == MaxAcks + MaxFaults
Position == [id : 1 .. MaxId, symbol : Symbol, shares : Share, venue : Venue,
             time : 1 .. MaxAcks, state : {"HOLD", "EXIT_ALERT", "CLOSED"}]
PositionsFile == [open : Seq(Position), closed : Seq(Position), next : 1 .. MaxId + 1]
Observation == [kind : {"READY", "EXECUTED", "CLOSED", "SKIP"}, symbol : Symbol,
                ref : 0 .. MaxId]
Event == {"NEW_NEAR", "NEW_READY", "READY_INVALIDATED", "POSITION_EXIT_ALERT",
          "POSITION_EXIT_CLEARED", "POSITION_OPENED", "POSITION_CLOSED",
          "HUMAN_SKIP", "DATA_UNTRUSTED", "LIVE_CONNECTION_LOST"}

Default == [opportunities |-> [s \in Symbol |-> "none"],
            positions |-> [open |-> <<>>, closed |-> <<>>, next |-> 1],
            forward |-> {}]
NoFact == [kind |-> "none"]

LedgerAssumption ==
  /\ {MaxAcks, MaxCycles, MaxFaults, MaxDays} \cup Share \subseteq Nat /\ MaxDays > 0 /\ AfterHours \in BOOLEAN
  /\ Session \notin Client /\ Free \notin Process /\ IsFiniteSet(Symbol)
  /\ Torn \notin [Symbol -> OppState] /\ Torn \notin PositionsFile

IsLedger(d, tear) ==
  /\ d.opportunities \in [Symbol -> OppState] \cup tear
  /\ d.positions \in PositionsFile \cup tear
  /\ d.forward \in (SUBSET Observation) \cup tear

TypeOK ==
  /\ IsLedger(disk, {Torn})
  /\ summary \in Seq(1 .. MaxId)
  /\ \A i \in DOMAIN alerts : alerts[i].type \in Event /\ alerts[i].day \in 1 .. MaxDays
  /\ lock \in Process \cup {Free}
  /\ pc \in [Process -> {"idle", "waiting", "locked", "saving", "summary", "settling", "dead"}]
  /\ \A p \in Process : IsLedger(mem[p], {})
  /\ written \in [Process -> 0 .. 6]
  /\ fact \in [Client -> Fact \cup {NoFact}]
  /\ acks \in 0 .. MaxAcks /\ cycles \in 0 .. MaxCycles
  /\ faults \in 0 .. MaxFaults /\ day \in 1 .. MaxDays
  /\ wrecked \subseteq {FileOrder[i] : i \in DOMAIN FileOrder}

Init ==
  /\ disk = Default /\ summary = <<>> /\ alerts = <<>>
  /\ lock = Free
  /\ pc = [p \in Process |-> "idle"]
  /\ mem = [p \in Process |-> Default]
  /\ written = [p \in Process |-> 0]
  /\ fact = [c \in Client |-> NoFact]
  /\ acks = 0 /\ cycles = 0 /\ faults = 0 /\ day = 1
  /\ done = {} /\ wrecked = {}
-----------------------------------------------------------------------------
(* The store.                                                              *)

\* _read_json: an absent or unreadable file reads as its default.
Stored == [f \in DOMAIN disk |-> IF disk[f] = Torn THEN Default[f] ELSE disk[f]]

\* Store.append_alert, once per event of a sequence of events.
Alerted(events) == alerts \o events
Alert(type, s, ref) == [type |-> type, symbol |-> s, ref |-> ref, day |-> day]

\* (mutant) the lock is taken, the copy read at process start is kept.
EnterStale(p) ==
  /\ lock = Free
  /\ lock' = p
  /\ UNCHANGED mem

\* Store.transaction: the lock, then the reload.
Enter(p) ==
  /\ lock = Free
  /\ lock' = p
  /\ mem' = [mem EXCEPT ![p] = Stored]

\* The lock is per transaction, not per process.
Leave(p) ==
  /\ lock' = Free
  /\ pc' = [pc EXCEPT ![p] = "idle"]
  /\ fact' = IF p = Session THEN fact ELSE [fact EXCEPT ![p] = NoFact]
  /\ mem' = [mem EXCEPT ![p] = Default]
  /\ written' = [written EXCEPT ![p] = 0]

\* Store.save: each file is truncated, then filled.
SaveStep(p) ==
  /\ pc[p] \in {"saving", "settling"} /\ written[p] < 6
  /\ LET f == FileOrder[written[p] \div 2 + 1]
     IN  disk' = [disk EXCEPT ![f] = IF written[p] % 2 = 0 THEN Torn ELSE mem[p][f]]
  /\ written' = [written EXCEPT ![p] = @ + 1]
  /\ UNCHANGED <<summary, alerts, lock, pc, mem, fact, acks, cycles, faults, day, done, wrecked>>

Saved(p) == written[p] = 6
-----------------------------------------------------------------------------
(* ack-buy, ack-sell, skip.                                                *)

\* The open positions of a symbol, of which a sell takes the first.
HeldAt(m, s) == {i \in DOMAIN m.positions.open : m.positions.open[i].symbol = s}
FirstHeld(m, s) == Min(HeldAt(m, s))

\* What ack-sell checks before it takes the lock.
MaySell(m, f) ==
  /\ HeldAt(m, f.symbol) # {}
  /\ LET p == m.positions.open[FirstHeld(m, f.symbol)]
     IN  p.shares = f.shares /\ p.venue = f.venue

\* The process starts: Store() reads the files without the lock, and a sell
\* that its first check refuses ends here.
StartAck(c) ==
  /\ pc[c] = "idle" /\ acks < MaxAcks
  /\ \E kind \in {"buy", "sell", "skip"}, s \in Symbol, n \in Share, v \in Venue :
       LET f == [kind |-> kind, symbol |-> s, shares |-> n, venue |-> v, time |-> acks + 1]
       IN  /\ kind = "sell" => MaySell(Stored, f)
           /\ kind = "skip" => v = "paper"
           /\ fact' = [fact EXCEPT ![c] = f]
  /\ acks' = acks + 1
  /\ mem' = [mem EXCEPT ![c] = Stored]
  /\ pc' = [pc EXCEPT ![c] = "waiting"]
  /\ UNCHANGED <<disk, summary, alerts, lock, written, cycles, faults, day, done, wrecked>>

\* The caller saw the command fail (a death, the 120 s timeout) and tries the
\* fact again, or drops it.
RetryAck(c) ==
  /\ pc[c] = "dead"
  /\ \/ /\ fact[c].kind = "sell" => MaySell(Stored, fact[c])
        /\ mem' = [mem EXCEPT ![c] = Stored]
        /\ pc' = [pc EXCEPT ![c] = "waiting"]
        /\ UNCHANGED fact
     \/ /\ pc' = [pc EXCEPT ![c] = "idle"]
        /\ fact' = [fact EXCEPT ![c] = NoFact]
        /\ UNCHANGED mem
  /\ UNCHANGED <<disk, summary, alerts, lock, written, acks, cycles, faults, day, done, wrecked>>

EnterAck(c) ==
  /\ pc[c] = "waiting"
  /\ Enter(c)
  /\ pc' = [pc EXCEPT ![c] = "locked"]
  /\ UNCHANGED <<disk, summary, alerts, written, fact, acks, cycles, faults, day, done, wrecked>>

\* The mutated store m and the alert, then the save.
Commit(c, m, alert) ==
  /\ mem' = [mem EXCEPT ![c] = m]
  /\ alerts' = Alerted(<<alert>>)
  /\ pc' = [pc EXCEPT ![c] = "saving"]
  /\ UNCHANGED <<disk, summary, lock, written, fact, acks, cycles, faults, day, done, wrecked>>

\* Store.open_position.
OpenPosition(m, f) ==
  [m EXCEPT !.positions.next = @ + 1,
            !.positions.open = Append(@,
     [id |-> m.positions.next, symbol |-> f.symbol, shares |-> f.shares, venue |-> f.venue,
      time |-> f.time, state |-> "HOLD"])]

AckBuy(c) ==
  /\ pc[c] = "locked" /\ fact[c].kind = "buy"
  /\ LET f == fact[c]
         id == mem[c].positions.next
         m == OpenPosition(mem[c], f)
     IN  Commit(c, [m EXCEPT
            !.opportunities[f.symbol] =
               IF @ \in {"NEAR", "READY", "WATCH"} THEN "EXECUTED" ELSE @,
            !.forward = @ \cup {[kind |-> "EXECUTED", symbol |-> f.symbol, ref |-> id]}],
            Alert("POSITION_OPENED", f.symbol, id))

\* Store.close_position.
ClosePosition(m, i) ==
  [m EXCEPT !.positions.open = RemoveAt(@, i),
            !.positions.closed = Append(@, [m.positions.open[i] EXCEPT !.state = "CLOSED"])]

\* The position is gone: the opportunity of its symbol resumes.
Reopened(m, s) ==
  [m EXCEPT !.opportunities[s] = IF @ = "EXECUTED" THEN "WATCH" ELSE @]

\* Inside the lock the position is resolved again: the first open one of the
\* symbol, checked for its shares.
AckSell(c) ==
  /\ pc[c] = "locked" /\ fact[c].kind = "sell"
  /\ LET f == fact[c]
         first == FirstHeld(mem[c], f.symbol)
         p == mem[c].positions.open[first]
     IN  IF HeldAt(mem[c], f.symbol) = {} \/ p.shares # f.shares
         THEN /\ Leave(c)
              /\ UNCHANGED <<disk, summary, alerts, acks, cycles, faults, day, done, wrecked>>
         ELSE Commit(c, [Reopened(ClosePosition(mem[c], first), f.symbol) EXCEPT
                !.forward = @ \cup {[kind |-> "CLOSED", symbol |-> f.symbol, ref |-> p.id]}],
                Alert("POSITION_CLOSED", f.symbol, p.id))

Skip(c) ==
  /\ pc[c] = "locked" /\ fact[c].kind = "skip"
  /\ Commit(c, [mem[c] EXCEPT !.forward =
                  @ \cup {[kind |-> "SKIP", symbol |-> fact[c].symbol, ref |-> 0]}],
            Alert("HUMAN_SKIP", fact[c].symbol, 0))

\* The command printed its result and returned 0.
FinishAck(c) ==
  /\ pc[c] = "saving" /\ Saved(c)
  /\ Leave(c)
  /\ done' = done \cup {fact[c]}
  /\ UNCHANGED <<disk, summary, alerts, acks, cycles, faults, day, wrecked>>
-----------------------------------------------------------------------------
(* The session loop.                                                       *)

EnterCycle ==
  /\ pc[Session] = "idle" /\ (AfterHours \/ cycles < MaxCycles)
  /\ Enter(Session)
  /\ cycles' = IF AfterHours THEN cycles ELSE cycles + 1
  /\ pc' = [pc EXCEPT ![Session] = "locked"]
  /\ UNCHANGED <<disk, summary, alerts, written, fact, acks, faults, day, done, wrecked>>

AlertsToday(type) == {i \in DOMAIN alerts : alerts[i].type = type /\ alerts[i].day = day}

AlertOncePerDay(type) ==
  IF AlertsToday(type) = {} THEN <<Alert(type, "market", 0)>> ELSE <<>>

\* classify_opportunity: the state a symbol moves to ...
Classify(prev, near, ready) ==
  CASE ready -> "READY"
    [] ~ready /\ near -> "NEAR"
    [] ~ready /\ ~near /\ prev \in {"NEAR", "READY"} -> "INVALIDATED"
    [] OTHER -> IF prev = "none" THEN "WATCH" ELSE prev

\* ... and the event of the move.
Transition(prev, state, s) ==
  IF prev = state THEN <<>>
  ELSE CASE state = "READY" -> <<Alert("NEW_READY", s, 0)>>
         [] state = "NEAR" -> <<Alert("NEW_NEAR", s, 0)>>
         [] state = "INVALIDATED" -> <<Alert("READY_INVALIDATED", s, 0)>>
         [] OTHER -> <<>>

Holds(m, s) == HeldAt(m, s) # {}

\* The opportunity layer: seen[s] is what the quote and the bars of s say, and
\* suppressed the verdict of the semantic gate.
NextOpportunity(m, seen, suppressed) ==
  [s \in Symbol |->
     IF seen[s] = "skip" THEN m.opportunities[s]
     ELSE IF Holds(m, s) THEN "EXECUTED"
     ELSE Classify(m.opportunities[s], seen[s] = "near", seen[s] = "trigger" /\ ~suppressed)]

\* The position layer: the exit rules against the live price.
NextOpen(m, exit) ==
  [i \in DOMAIN m.positions.open |->
     LET p == m.positions.open[i]
     IN  CASE exit[p.symbol] = "skip" -> p
           [] exit[p.symbol] = "exit" -> [p EXCEPT !.state = "EXIT_ALERT"]
           [] OTHER -> [p EXCEPT !.state = "HOLD"]]

SymbolSeq == SetToSeq(Symbol)

\* The events of a cycle in the order it emits them.
Events(m, opp, open, suppressed) ==
  (IF suppressed THEN AlertOncePerDay("DATA_UNTRUSTED") ELSE <<>>)
  \o FlattenSeq([i \in DOMAIN SymbolSeq |->
       Transition(m.opportunities[SymbolSeq[i]], opp[SymbolSeq[i]], SymbolSeq[i])])
  \o FlattenSeq([i \in DOMAIN open |->
       IF open[i].state = m.positions.open[i].state THEN <<>>
       ELSE <<Alert(IF open[i].state = "HOLD" THEN "POSITION_EXIT_CLEARED"
                    ELSE "POSITION_EXIT_ALERT", open[i].symbol, open[i].id)>>])

\* run_cycle in session.  An exception after some events leaves those events
\* in the stream and drops the rest: cmd_session goes on with the next cycle.
RunCycle ==
  /\ pc[Session] = "locked" /\ ~AfterHours
  /\ \E seen \in [Symbol -> {"skip", "far", "near", "trigger"}],
        exit \in [Symbol -> {"skip", "hold", "exit"}], suppressed \in BOOLEAN :
       /\ \A s \in Symbol : exit[s] = "skip" => seen[s] = "skip"
       /\ LET m == mem[Session]
              opp == NextOpportunity(m, seen, suppressed)
              open == NextOpen(m, exit)
              events == Events(m, opp, open, suppressed)
              ready == {s \in Symbol : opp[s] = "READY" /\ m.opportunities[s] # "READY"}
          IN  \/ /\ mem' = [mem EXCEPT ![Session] = [m EXCEPT
                      !.opportunities = opp, !.positions.open = open,
                      !.forward = @ \cup {[kind |-> "READY", symbol |-> s, ref |-> 0] : s \in ready}]]
                 /\ alerts' = Alerted(events)
                 /\ pc' = [pc EXCEPT ![Session] = "saving"]
                 /\ UNCHANGED <<lock, written, fact, faults>>
              \/ /\ faults < MaxFaults /\ faults' = faults + 1
                 /\ \E n \in 0 .. Len(events) : alerts' = Alerted(SubSeq(events, 1, n))
                 /\ Leave(Session)
  /\ UNCHANGED <<disk, summary, acks, cycles, day, done, wrecked>>

\* Outside the trading session there is only a summary; a lost connection is
\* told once a day.
QuietCycle ==
  /\ pc[Session] = "locked"
  /\ alerts' = Alerted(AlertOncePerDay("LIVE_CONNECTION_LOST")) \/ UNCHANGED alerts
  /\ pc' = [pc EXCEPT ![Session] = "summary"]
  /\ UNCHANGED <<disk, summary, lock, mem, written, fact, acks, cycles, faults, day, done, wrecked>>

\* _write_summary, then settle_forward, which saves once more.
WriteSummary ==
  /\ \/ pc[Session] = "saving" /\ Saved(Session)
     \/ pc[Session] = "summary"
  /\ summary' = [i \in DOMAIN mem[Session].positions.open |-> mem[Session].positions.open[i].id]
  /\ pc' = [pc EXCEPT ![Session] = "settling"]
  /\ written' = [written EXCEPT ![Session] = 0]
  /\ UNCHANGED <<disk, alerts, lock, mem, fact, acks, cycles, faults, day, done, wrecked>>

FinishCycle ==
  /\ pc[Session] = "settling" /\ Saved(Session)
  /\ Leave(Session)
  /\ UNCHANGED <<disk, summary, alerts, acks, cycles, faults, day, done, wrecked>>
-----------------------------------------------------------------------------
\* A process dies where it stands; the kernel frees its lock.
Die(p) ==
  /\ faults < MaxFaults /\ pc[p] \notin {"idle", "dead"}
  /\ faults' = faults + 1
  /\ pc' = [pc EXCEPT ![p] = IF p = Session THEN "idle" ELSE "dead"]
  /\ lock' = IF lock = p THEN Free ELSE lock
  /\ mem' = [mem EXCEPT ![p] = Default]
  /\ written' = [written EXCEPT ![p] = 0]
  /\ wrecked' = IF written[p] % 2 = 1 THEN wrecked \cup {FileOrder[written[p] \div 2 + 1]} ELSE wrecked
  /\ UNCHANGED <<disk, summary, alerts, fact, acks, cycles, day, done>>

DayPasses ==
  /\ day < MaxDays
  /\ day' = day + 1
  /\ UNCHANGED <<disk, summary, alerts, lock, pc, mem, written, fact, acks, cycles, faults, done, wrecked>>

AckStep(c) == EnterAck(c) \/ AckBuy(c) \/ AckSell(c) \/ Skip(c) \/ SaveStep(c) \/ FinishAck(c)
CycleStep == RunCycle \/ QuietCycle \/ SaveStep(Session) \/ WriteSummary \/ FinishCycle

Next ==
  \/ EnterCycle \/ CycleStep \/ DayPasses
  \/ \E c \in Client : StartAck(c) \/ RetryAck(c) \/ AckStep(c)
  \/ \E p \in Process : Die(p)

Spec == Init /\ [][Next]_vars

\* Transactions are finite.  flock wakes the waiters when the lock is freed,
\* and the session sleeps between its cycles: a waiter that gets the chance
\* again and again takes the lock.
FairSpec ==
  /\ Spec
  /\ WF_vars(CycleStep)
  /\ \A c \in Client : WF_vars(AckStep(c)) /\ SF_vars(EnterAck(c))
-----------------------------------------------------------------------------
Elements(s) == {s[i] : i \in DOMAIN s}
Recorded == Elements(disk.positions.open) \cup Elements(disk.positions.closed)
Whole(f) == disk[f] # Torn
Said(type, s, ref) == \E i \in DOMAIN alerts :
  alerts[i].type = type /\ alerts[i].symbol = s /\ alerts[i].ref = ref

\* monitor.py:26-28: positions are "created only by `ack-buy`" and "closed only
\* by `ack-sell`".  A buy that returned 0 is in the ledger, open or closed.
AckedBuysKept ==
  \A f \in done : f.kind = "buy" /\ Whole("positions") =>
    \E p \in Recorded : p.time = f.time /\ p.symbol = f.symbol /\ p.venue = f.venue

\* Whatever processes overlap, retry or die, a buy that returned 0 stays in the
\* ledger under an id no other position has, unless a death left a file torn
\* (Store.transaction, monitor.py:243-262).
NoBuyLost ==
  wrecked = {} =>
    /\ AckedBuysKept
    /\ Whole("positions") => \A p, q \in Recorded : p.id = q.id => p.time = q.time

\* The stream leads the ledger: no state of a position or an opportunity is on
\* disk before the event that tells it is in alerts.jsonl.
StreamLeadsLedger ==
  /\ Whole("positions") =>
       /\ \A p \in Recorded : Said("POSITION_OPENED", p.symbol, p.id)
       /\ \A p \in Elements(disk.positions.closed) : Said("POSITION_CLOSED", p.symbol, p.id)
       /\ \A p \in Elements(disk.positions.open) :
            p.state = "EXIT_ALERT" => Said("POSITION_EXIT_ALERT", p.symbol, p.id)
  /\ Whole("opportunities") => \A s \in Symbol :
       disk.opportunities[s] = "READY" => Said("NEW_READY", s, 0)

\* Two NEW_READY of a symbol with no other event of it between them need a
\* process that died or a cycle that raised (classify_opportunity fires on
\* the change only).
RepeatNeedsFault ==
  faults = 0 => \A i, j \in DOMAIN alerts :
    /\ i < j
    /\ alerts[i].type = "NEW_READY" /\ alerts[j].type = "NEW_READY"
    /\ alerts[i].symbol = alerts[j].symbol
    => \E k \in i + 1 .. j - 1 : alerts[k].symbol = alerts[i].symbol

\* monitor.py:537: "keep the opportunity pinned to EXECUTED until the
\* position closes".  Between transactions an EXECUTED symbol has a position.
ExecutedHasPosition ==
  lock = Free /\ Whole("positions") /\ Whole("opportunities") =>
    \A s \in Symbol : disk.opportunities[s] = "EXECUTED" => Holds(disk, s)

\* The same, as long as no process died inside its save.
PinnedUnlessFault == faults = 0 => ExecutedHasPosition

\* A human fact makes one position, unless its command was killed and tried
\* again after the ledger had it (toolset.py:430-480).
FactRecordedOnce ==
  faults = 0 /\ Whole("positions") =>
    Len(disk.positions.open) + Len(disk.positions.closed)
      = Cardinality({p.time : p \in Recorded})

\* A lost connection is told once on a day, whatever dies.
OneLossADay ==
  \A i, j \in DOMAIN alerts :
    alerts[i].type = "LIVE_CONNECTION_LOST" /\ alerts[j].type = alerts[i].type
    /\ alerts[i].day = alerts[j].day => i = j

\* monitor.py:251: an ack "waits at most one cycle instead of being locked
\* out for the session".
AckGetsIn == \A c \in Client : pc[c] = "waiting" ~> pc[c] # "waiting"

\* monitor.py:1139: --venue of ack-sell "must match the position's venue".
SellMatchesVenue ==
  [][\A c \in Client : AckSell(c) /\ pc'[c] = "saving" =>
       mem'[c].positions.closed[Len(mem'[c].positions.closed)].venue = fact[c].venue]_vars

\* What get_positions answers: the rows of state.json if it has any, else the
\* ledger's.  toolset.py:628: "the bounded current position state".
Shown == IF summary # <<>> THEN Elements(summary)
         ELSE {p.id : p \in Elements(Stored.positions.open)}
PositionsAreCurrent ==
  faults = 0 /\ lock = Free => Shown = {p.id : p \in Elements(disk.positions.open)}
=============================================================================
