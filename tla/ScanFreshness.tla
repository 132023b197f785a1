---------------------------- MODULE ScanFreshness ----------------------------
(***************************************************************************)
(* What an answer may say of today (zuaef_quant): a cycle of monitor.py    *)
(* saves the opportunities and then state.json under the ledger's lock, a  *)
(* session adds its line to soak.jsonl after it; read_trading_snapshot     *)
(* (trading.py) reads the files without the lock and derive_freshness      *)
(* (freshness.py) turns their dates into a verdict.                        *)
(* A cycle ends on the day it began; the opportunities are written whole.  *)
(***************************************************************************)
EXTENDS Integers, FiniteSets, Sequences, SequencesExt

CONSTANTS
  Candidate,
  Writer, Session,      \* processes that run cycles; a session logs them
  Weekend,              \* days without a session
  Rows,                 \* lines of soak.jsonl a snapshot reads
  MaxDays, MaxCycles, MaxFaults,  \* bounds
  Torn                  \* no state.json, or one opened and not filled

None == "none"
FreshnessAssumption ==
  /\ Session \subseteq Writer /\ None \notin Writer /\ Weekend \subseteq 1 .. MaxDays
  /\ {Rows, MaxDays} \subseteq Nat \ {0} /\ {MaxCycles, MaxFaults} \subseteq Nat

VARIABLES
  day, phase,
  opportunities,  \* state of each candidate, and (history) the day it was observed
  state, soak,    \* the files
  lock, pc, mem,  \* the ledger's lock; each writer and its cycle
  reader, answer, \* the snapshot being read, the last one given
  observed,       \* (history) the days a cycle wrote what it had quoted
  fresh,          \* (history) the last day that was called FRESH
  cycles, faults

vars == <<day, phase, opportunities, state, soak, lock, pc, mem, reader, answer, observed, fresh, cycles, faults>>

Day == 0 .. MaxDays
Opportunity == [state : {"none", "WATCH", "NEAR", "READY"}, on : Day]
Board == [Candidate -> Opportunity]
Kind == {"scan", "lost", "heartbeat", "failed"}
\* One cycle: lost is SYSTEM_UNAVAILABLE, quoted the candidates it had a quote of.
Cycle == [day : Day, kind : Kind, board : Board, quoted : SUBSET Candidate, trust : {"PASS", "FAIL", "UNKNOWN"}]
Verdict == {"FRESH", "STALE", "MARKET_NOT_OPEN", "NOT_SCANNED", "INSUFFICIENT_EVIDENCE"}
Conclusion == {"COMPLETED_WITH_TRIGGERS", "COMPLETED_ZERO_TRIGGER", "NO_VALID_SCAN_EVIDENCE"}
NoAnswer == [day |-> 0]
NoRead == [pc |-> "idle", state |-> Torn, scanned |-> 0, full |-> FALSE]

TypeOK ==
  /\ day \in 1 .. MaxDays /\ phase \in {"pre open", "open", "closed"} /\ (day \in Weekend => phase # "open")
  /\ opportunities \in Board /\ (state # Torn => state \in Cycle)
  /\ soak \in Seq([day : Day, symbols : BOOLEAN, status : Kind])
  /\ lock \in Writer \cup {None} /\ pc \in [Writer -> {"idle", "save", "open", "fill", "settle", "log"}]
  /\ \A w \in Writer : mem[w] \in Cycle /\ (pc[w] \notin {"idle", "log"} => lock = w)
  /\ reader.pc \in {"idle", "state", "rows"} /\ (reader.state # Torn => reader.state \in Cycle) /\ reader.scanned \in Day
  /\ answer # NoAnswer =>
       /\ answer.verdict \in Verdict /\ answer.conclusion \in Conclusion
       /\ answer.days \subseteq 1 .. MaxDays /\ answer.day \in 1 .. MaxDays
  /\ observed \subseteq 1 .. MaxDays /\ fresh \in Day /\ cycles \in 0 .. MaxCycles /\ faults \in 0 .. MaxFaults

Unknown == [c \in Candidate |-> [state |-> "none", on |-> 0]]
NoCycle == [day |-> 0, kind |-> "failed", board |-> Unknown, quoted |-> {}, trust |-> "UNKNOWN"]
Init ==
  /\ day = 1 /\ phase = "pre open" /\ opportunities = Unknown /\ state = Torn /\ soak = << >>
  /\ lock = None /\ pc = [w \in Writer |-> "idle"] /\ mem = [w \in Writer |-> NoCycle]
  /\ reader = NoRead /\ answer = NoAnswer /\ observed = {} /\ fresh = 0 /\ cycles = 0 /\ faults = 0
-----------------------------------------------------------------------------
\* market_phase: no session at a weekend.  Lunch is left out.
Tick ==
  /\ \A w \in Writer : pc[w] = "idle"
  /\ \/ phase = "pre open" /\ phase' = (IF day \in Weekend THEN "closed" ELSE "open") /\ UNCHANGED day
     \/ phase = "open" /\ phase' = "closed" /\ UNCHANGED day
     \/ phase = "closed" /\ day < MaxDays /\ day' = day + 1 /\ phase' = "pre open"
  /\ UNCHANGED <<opportunities, state, soak, lock, pc, mem, reader, answer, observed, fresh, cycles, faults>>

\* A candidate without a quote keeps what it was; READY needs the volume gate.
Evaluated(b, quoted, trust) ==
  {e \in Board : \A c \in Candidate :
     IF c \in quoted
     THEN e[c].on = day /\ e[c].state # "none" /\ (e[c].state = "READY" => trust = "PASS")
     ELSE e[c] = b[c]}

\* run_cycle: a heartbeat out of session; SYSTEM_UNAVAILABLE when no symbol is
\* quoted or most are stale; else a scan, perhaps of positions and watched
\* symbols only.
Begin(w) ==
  /\ pc[w] = "idle" /\ lock = None /\ cycles < MaxCycles
  /\ lock' = w /\ cycles' = cycles + 1
  /\ \/ /\ phase # "open"
        /\ mem' = [mem EXCEPT ![w] = [day |-> day, kind |-> "heartbeat", board |-> opportunities, quoted |-> {}, trust |-> "UNKNOWN"]]
        /\ pc' = [pc EXCEPT ![w] = "open"]
     \/ /\ phase = "open"
        /\ mem' = [mem EXCEPT ![w] = [day |-> day, kind |-> "lost", board |-> opportunities, quoted |-> {}, trust |-> "UNKNOWN"]]
        /\ pc' = [pc EXCEPT ![w] = "open"]
     \/ /\ phase = "open"
        /\ \E quoted \in SUBSET Candidate, trust \in {"PASS", "FAIL"} : \E b \in Evaluated(opportunities, quoted, trust) :
             mem' = [mem EXCEPT ![w] = [day |-> day, kind |-> "scan", board |-> b, quoted |-> quoted, trust |-> trust]]
        /\ pc' = [pc EXCEPT ![w] = "save"]
  /\ UNCHANGED <<day, phase, opportunities, state, soak, reader, answer, observed, fresh, faults>>

Save(w) ==
  /\ pc[w] = "save" /\ pc' = [pc EXCEPT ![w] = "open"]
  /\ opportunities' = mem[w].board
  /\ UNCHANGED <<day, phase, state, soak, lock, mem, reader, answer, observed, fresh, cycles, faults>>

\* _write_summary, in place.
OpenState(w) ==
  /\ pc[w] = "open" /\ pc' = [pc EXCEPT ![w] = "fill"]
  /\ state' = Torn
  /\ UNCHANGED <<day, phase, opportunities, soak, lock, mem, reader, answer, observed, fresh, cycles, faults>>

FillState(w) ==
  /\ pc[w] = "fill" /\ pc' = [pc EXCEPT ![w] = "settle"]
  /\ state' = mem[w]
  /\ observed' = IF mem[w].kind = "scan" THEN observed \cup {mem[w].day} ELSE observed
  /\ UNCHANGED <<day, phase, opportunities, soak, lock, mem, reader, answer, fresh, cycles, faults>>

\* settle_forward, and the end of the transaction.  `monitor once' logs nothing.
Ended(w, kind) == [NoCycle EXCEPT !.kind = IF w \in Session THEN kind ELSE @]
After(w) == IF w \in Session THEN "log" ELSE "idle"
Settle(w) ==
  /\ pc[w] = "settle" /\ pc' = [pc EXCEPT ![w] = After(w)]
  /\ lock' = None /\ mem' = [mem EXCEPT ![w] = Ended(w, mem[w].kind)]
  /\ UNCHANGED <<day, phase, opportunities, state, soak, reader, answer, observed, fresh, cycles, faults>>

\* A cycle raises: a session logs SYSTEM_UNAVAILABLE with no symbols.
Fail(w) ==
  /\ lock = w /\ faults < MaxFaults
  /\ pc' = [pc EXCEPT ![w] = After(w)] /\ lock' = None /\ faults' = faults + 1
  /\ mem' = [mem EXCEPT ![w] = NoCycle]
  /\ UNCHANGED <<day, phase, opportunities, state, soak, reader, answer, observed, fresh, cycles>>

Log(w) ==
  /\ pc[w] = "log" /\ pc' = [pc EXCEPT ![w] = "idle"] /\ mem' = [mem EXCEPT ![w] = NoCycle]
  /\ soak' = Append(soak, [day |-> day, symbols |-> mem[w].kind \in {"scan", "lost"}, status |-> mem[w].kind])
  /\ UNCHANGED <<day, phase, opportunities, state, lock, reader, answer, observed, fresh, cycles, faults>>

\* A process dies; its lock goes with it.
Die(w) ==
  /\ pc[w] # "idle" /\ faults < MaxFaults
  /\ pc' = [pc EXCEPT ![w] = "idle"] /\ mem' = [mem EXCEPT ![w] = NoCycle] /\ lock' = (IF lock = w THEN None ELSE lock) /\ faults' = faults + 1
  /\ UNCHANGED <<day, phase, opportunities, state, soak, reader, answer, observed, fresh, cycles>>

ReadState ==
  /\ reader.pc = "idle" /\ reader' = [NoRead EXCEPT !.pc = "state", !.state = state] /\ answer' = NoAnswer
  /\ UNCHANGED <<day, phase, opportunities, state, soak, lock, pc, mem, observed, fresh, cycles, faults>>

\* _resolve_last_scan_at: the day of the last line with symbols, 0 for none.
LastScan(rows) ==
  LET scans == {k \in DOMAIN rows : rows[k].symbols} IN IF scans = {} THEN 0 ELSE rows[Max(scans)].day

Recent == SubSeq(soak, Len(soak) - Rows + 1, Len(soak))
ReadSoak ==
  /\ reader.pc = "state"
  /\ LET rows == IF Len(soak) > Rows THEN Recent ELSE soak IN
       reader' = [reader EXCEPT !.pc = "rows", !.scanned = LastScan(rows), !.full = Len(rows) = Rows]
  /\ UNCHANGED <<day, phase, opportunities, state, soak, lock, pc, mem, answer, observed, fresh, cycles, faults>>

\* (mutant) the day of the data is not looked at.
DeriveScan(latest, scanned) ==
  CASE latest = 0 -> "INSUFFICIENT_EVIDENCE"
    [] latest > 0 /\ scanned = day -> "FRESH"
    [] latest > 0 /\ scanned = 0 -> "INSUFFICIENT_EVIDENCE"
    [] latest > 0 /\ scanned \in 1 .. day - 1 -> IF latest < day THEN "STALE" ELSE "NOT_SCANNED"
\* derive_freshness, of the day of the data and of the last scan.
Derive(latest, scanned) ==
  CASE latest = 0 -> "INSUFFICIENT_EVIDENCE"
    [] latest > 0 /\ latest < day -> IF day \notin Weekend /\ phase = "pre open" THEN "MARKET_NOT_OPEN" ELSE "STALE"
    [] latest = day /\ scanned = 0 -> "INSUFFICIENT_EVIDENCE"
    [] latest = day /\ scanned = day -> "FRESH"
    [] latest = day /\ scanned \in 1 .. day - 1 -> "NOT_SCANNED"

\* scan_conclusion_of
Conclude(s, scanned) ==
  CASE s = Torn \/ scanned = 0 -> "NO_VALID_SCAN_EVIDENCE"
    [] s # Torn /\ scanned # 0 ->
         IF s.kind # "scan" \/ s.trust # "PASS" THEN "NO_VALID_SCAN_EVIDENCE"
         ELSE IF \E c \in Candidate : s.board[c].state \in {"NEAR", "READY"} THEN "COMPLETED_WITH_TRIGGERS"
         ELSE "COMPLETED_ZERO_TRIGGER"

\* compute_validation_accounting: the days some session scanned, by its lines.
TradingDays == {soak[k].day : k \in {k \in DOMAIN soak : soak[k].status = "scan"}}

\* The clock is read last; the accounting reads all lines again.
Answer ==
  /\ reader.pc = "rows" /\ reader' = NoRead
  /\ LET latest == IF reader.state = Torn THEN 0 ELSE reader.state.day
         verdict == Derive(latest, reader.scanned) IN
       /\ answer' = [day |-> day, verdict |-> verdict, conclusion |-> Conclude(reader.state, reader.scanned), state |-> reader.state,
                     full |-> reader.full, again |-> fresh = day, days |-> TradingDays]
       /\ fresh' = IF verdict = "FRESH" THEN day ELSE fresh
  /\ UNCHANGED <<day, phase, opportunities, state, soak, lock, pc, mem, observed, cycles, faults>>

Next ==
  \/ \E w \in Writer : Begin(w) \/ Save(w) \/ OpenState(w) \/ FillState(w) \/ Settle(w) \/ Fail(w) \/ Log(w) \/ Die(w)
  \/ Tick \/ ReadState \/ ReadSoak \/ Answer
Spec == Init /\ [][Next]_vars
-----------------------------------------------------------------------------
Answered == answer # NoAnswer

\* FRESH together with COMPLETED_*: what is shown as READY or NEAR was seen
\* today, except a candidate the scan had no quote of, and today was observed;
\* whatever overlaps, fails or dies between the files.
CompletedIsToday ==
  Answered /\ answer.verdict = "FRESH" /\ answer.conclusion # "NO_VALID_SCAN_EVIDENCE" =>
    /\ answer.day \in observed
    /\ \A c \in answer.state.quoted : answer.state.board[c].on = answer.day

\* A weekend is never FRESH, and a day that was once FRESH stays so until
\* midnight unless state.json is torn or the scan has left the lines read.
FreshIsLasting ==
  Answered =>
    /\ answer.verdict = "FRESH" => answer.day \notin Weekend
    /\ answer.again => answer.verdict = "FRESH" \/ answer.state = Torn \/ answer.full

\* No day is counted as a trading day that no cycle observed.
DaysWereObserved == Answered => answer.days \subseteq observed \ Weekend
-----------------------------------------------------------------------------
\* Stronger readings; each is refuted.

\* FRESH alone: READY/NEAR are today's scan results (freshness.py:205).
FreshIsToday ==
  Answered /\ answer.verdict = "FRESH" =>
    \A c \in Candidate : answer.state.board[c].state \in {"NEAR", "READY"} => answer.state.board[c].on = answer.day

\* Zero triggers: every candidate was looked at.
ZeroIsObserved == Answered /\ answer.conclusion = "COMPLETED_ZERO_TRIGGER" => answer.state.quoted # {}

\* NOT_SCANNED: nothing has scanned today.
NotScannedIsTrue == Answered /\ answer.verdict = "NOT_SCANNED" => answer.day \notin observed

\* At a weekend the data is of another day.
WeekendIsStale == Answered /\ answer.day \in Weekend => answer.verdict \in {"STALE", "INSUFFICIENT_EVIDENCE"}
=============================================================================
