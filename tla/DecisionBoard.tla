---------------------------- MODULE DecisionBoard ----------------------------
(***************************************************************************)
(* The decision board of zuaef_quant (dashboard/render.py, serve.py,       *)
(* continuity.py): a page that reads what the monitor, the human, the      *)
(* agent, the pool builder and the validator leave in files, one file      *)
(* after another and under no lock, and a form through which the human     *)
(* records a trade.  Prices and texts are left out; a time is a tick.      *)
(***************************************************************************)
EXTENDS Integers, Sequences, FiniteSets, SequencesExt, FiniteSetsExt

CONSTANTS
  Symbol, Request,  \* the symbols; requests for NOW under way at once
  StaleAfter, AlertTail, \* age of a stale heartbeat; alerts NOW looks at
  WritesEnabled,    \* the server is bound to a loopback host
  Pool,             \* sizes of a candidate pool
  MaxTime, MaxCycles, MaxBriefs, MaxForms, MaxPosts, MaxBuilds, MaxProofs, MaxRenders, MaxAsks, MaxFaults,
  Torn, Null

\* A line of alerts.jsonl; by is the POST that recorded it.
Kind == {"NEW_READY", "POSITION_EXIT_ALERT", "LIVE_CONNECTION_LOST", "DATA_UNTRUSTED",
         "POSITION_OPENED", "POSITION_CLOSED", "HUMAN_SKIP"}
Fact == [type : Kind, symbol : Symbol \cup {Null}, ts : Nat, by : Nat]

BoardAssumption ==
  /\ {StaleAfter, AlertTail, MaxTime, MaxCycles, MaxBriefs, MaxForms, MaxPosts, MaxBuilds, MaxProofs, MaxRenders, MaxAsks, MaxFaults} \cup Pool \subseteq Nat
  /\ WritesEnabled \in BOOLEAN
  /\ IsFiniteSet(Symbol) /\ Null \notin Symbol /\ Null \notin Kind \cup {"PASS"} /\ Null \notin Fact

VARIABLES
  clock, trading_hours,
  cycle,                         \* the monitor's cycle: where it is, its time, what it saw
  opportunities, held,           \* READY symbols; open positions, in order
  state, soak, alerts, briefs,   \* the files of the trading directory
  now, shown,                    \* NOW, per request; what the page shows of it
  form, posts, message,          \* the trade form, its POSTs, its message line
  snapshot, universe, scan_of, proof, validating, audit, quality,
  cycles, asks, faults

desk == <<cycle, opportunities, state, soak>>
trade == <<form, posts, message>>
board == <<snapshot, universe, scan_of, proof, validating, audit, quality>>
vars == <<clock, trading_hours, desk, held, alerts, briefs, now, shown, trade, board, cycles, asks, faults>>

Material == [READY |-> "NEW_READY", EXIT |-> "POSITION_EXIT_ALERT", UNAVAILABLE |-> "LIVE_CONNECTION_LOST", UNTRUSTED |-> "DATA_UNTRUSTED"]
Alert(type, symbol, ts) == [type |-> type, symbol |-> symbol, ts |-> ts, by |-> 0]
Nobody == [at |-> Null]
Holding == {held[i].symbol : i \in DOMAIN held}
Exiting == {held[i].symbol : i \in {k \in DOMAIN held : held[k].exit}}

\* _latest_events, of one key: the newest time, the later line of two.
Newest(log, type, symbol) ==
  LET of == {i \in DOMAIN log : log[i].type = type /\ log[i].symbol = symbol}
      last == {i \in of : \A j \in of : log[j].ts < log[i].ts \/ (log[j].ts = log[i].ts /\ j <= i)}
  IN IF of = {} THEN Null ELSE log[CHOOSE i \in last : TRUE]
TailOf(log) == SubSeq(log, IF Len(log) > AlertTail THEN Len(log) - AlertTail + 1 ELSE 1, Len(log))

\* _human_action: a purchase before a sale before a skip, whatever their times.
HumanAction(log, symbol) ==
  IF Newest(log, "POSITION_OPENED", symbol) # Null THEN "POSITION_OPENED"
  ELSE IF Newest(log, "POSITION_CLOSED", symbol) # Null THEN "POSITION_CLOSED"
  ELSE IF Newest(log, "HUMAN_SKIP", symbol) # Null THEN "HUMAN_SKIP" ELSE Null
\* Whenever the brief was recorded.
AgentActionAny(told, symbol, ts) ==
  LET answers == {b \in ToSet(told) : b.symbol = symbol}
  IN IF answers = {} THEN Nobody ELSE CHOOSE b \in answers : \A o \in answers : o.at <= b.at
\* _agent_action: the newest brief about the symbol from the event on.
AgentAction(told, symbol, ts) ==
  LET answers == {b \in ToSet(told) : b.symbol = symbol /\ ts # Null /\ b.at >= ts}
  IN IF answers = {} THEN Nobody ELSE CHOOSE b \in answers : \A o \in answers : o.at <= b.at

Items(st, log, told) ==
  LET wanted == {<<"READY", s>> : s \in st.ready} \cup {<<"EXIT", s>> : s \in st.exits}
                \cup (IF st.status = "SYSTEM_UNAVAILABLE" THEN {<<"UNAVAILABLE", Null>>} ELSE {})
                \cup (IF st.trust = "FAIL" THEN {<<"UNTRUSTED", Null>>} ELSE {})
      item(w) == LET ev == Newest(log, Material[w[1]], w[2])
                     ts == IF ev = Null THEN st.as_of ELSE ev.ts
                 IN [kind |-> w[1], symbol |-> w[2], ts |-> ts,
                     agent |-> IF w[2] = Null THEN Nobody ELSE AgentAction(told, w[2], ts),
                     human |-> IF w[2] = Null THEN Null ELSE HumanAction(log, w[2])]
  IN {item(w) : w \in wanted}
Runtime(st, beat, at, live) ==
  IF st = Null \/ (live /\ beat = Null) THEN "UNKNOWN"
  ELSE IF live /\ at - beat > StaleAfter THEN "STALE" ELSE "HEALTHY"
LastScan(st, rows) ==
  LET scans == SelectSeq(rows, LAMBDA r : r.symbols > 0)
  IN IF st # Null /\ st.scan # Null THEN st.scan ELSE IF scans = <<>> THEN Null ELSE Last(scans).ts
Snapshot(st, rows, log, told, at, live) ==
  LET beat == IF st # Null THEN st.as_of ELSE IF rows = <<>> THEN Null ELSE Last(rows).ts
  IN [at |-> at, live |-> live, as_of |-> IF st = Null THEN Null ELSE st.as_of,
      status |-> IF st = Null THEN Null ELSE st.status, runtime |-> Runtime(st, beat, at, live), scan |-> LastScan(st, rows),
      items |-> IF st = Null THEN {} ELSE Items(st, log, told)]
Empty == [at |-> 0, live |-> FALSE, as_of |-> Null, status |-> Null, runtime |-> "UNKNOWN", scan |-> Null, items |-> {}]

\* renderAttention: the line that says what there is to do.
Headline(n) ==
  CASE n.as_of = Null -> "not running"
    [] n.as_of # Null /\ n.status = "SYSTEM_UNAVAILABLE" -> "unavailable"
    [] n.as_of # Null /\ n.status # "SYSTEM_UNAVAILABLE" /\ \E i \in n.items : i.kind = "UNTRUSTED" -> "untrusted"
    [] n.as_of # Null /\ n.status # "SYSTEM_UNAVAILABLE" /\ ~\E i \in n.items : i.kind = "UNTRUSTED" ->
         IF n.items # {} THEN "act" ELSE IF n.status = "MARKET_CLOSED" THEN "closed" ELSE "scanned, nothing"
-----------------------------------------------------------------------------
\* What a cycle tells: an emergency not told before, and what is new.
Events(c) ==
  LET trouble == IF c.status = "SYSTEM_UNAVAILABLE" THEN {"LIVE_CONNECTION_LOST"} ELSE IF c.trust = "FAIL" THEN {"DATA_UNTRUSTED"} ELSE {}
      untold == {t \in trouble : ~\E i \in DOMAIN alerts : alerts[i].type = t}
  IN {Alert(t, Null, c.at) : t \in untold} \cup {Alert("NEW_READY", s, c.at) : s \in c.ready \ opportunities}
     \cup {Alert("POSITION_EXIT_ALERT", s, c.at) : s \in c.exits \ Exiting}

\* What a cycle makes of what it saw: a symbol without a quote or bars is
\* skipped and stays what it was; only a scan changes anything.
CycleOf(found, gone, skipped, trust, lost) ==
  LET status == IF ~trading_hours THEN "MARKET_CLOSED" ELSE IF lost THEN "SYSTEM_UNAVAILABLE" ELSE "SCANNED"
      fresh == (IF trust = "PASS" THEN found \ (Holding \cup skipped) ELSE {}) \cup (opportunities \cap skipped)
      exits == ((Holding \cap gone) \ skipped) \cup (Exiting \cap skipped)
  IN [pc |-> "emitted", at |-> clock, status |-> status, scan |-> Null,
      trust |-> IF status = "SCANNED" THEN trust ELSE "UNKNOWN",
      ready |-> IF status = "SCANNED" THEN fresh ELSE opportunities,
      exits |-> IF status = "SCANNED" THEN exits ELSE Exiting]
\* The ledger's lock: one cycle or one command at a time (Store.transaction).
LockFree == cycle.pc = "idle" /\ \A p \in DOMAIN posts : posts[p].pc # "alerted"
\* The monitor's cycle (monitor.py), from its time on: it appends what it
\* emits, writes state.json in place and, in a session, a line of soak.jsonl.
\* Two are never of one time: from start to start are at least 30 seconds.
BeginCycle ==
  /\ LockFree /\ cycle.at < clock /\ cycles < MaxCycles
  /\ cycles' = cycles + 1
  /\ \E found, gone, skipped \in SUBSET Symbol, trust \in {"PASS", "FAIL"}, lost \in BOOLEAN :
       /\ lost => trading_hours
       /\ lost \/ ~trading_hours => found = {} /\ gone = {} /\ skipped = {} /\ trust = "PASS"
       /\ cycle' = CycleOf(found, gone, skipped, trust, lost)
  /\ alerts' = alerts \o SetToSeq(Events(cycle'))
  /\ UNCHANGED <<clock, trading_hours, opportunities, held, state, soak, briefs, now, shown, trade, board, asks, faults>>
\* The ledger is saved, and state.json emptied for its new content.
SaveCycle ==
  /\ cycle.pc = "emitted"
  /\ opportunities' = cycle.ready
  /\ held' = [i \in DOMAIN held |-> [held[i] EXCEPT !.exit = held[i].symbol \in cycle.exits]]
  /\ cycle' = [cycle EXCEPT !.pc = "writing",
                            !.scan = IF cycle.status = "SCANNED" THEN cycle.at ELSE IF state \in {Null, Torn} THEN Null ELSE state.scan]
  /\ state' = Torn
  /\ UNCHANGED <<clock, trading_hours, soak, alerts, briefs, now, shown, trade, board, cycles, asks, faults>>
\* The line counts the symbols asked for, also when no quote came back.
Row(ts, status) == [ts |-> ts, status |-> status, symbols |-> IF status = "MARKET_CLOSED" THEN 0 ELSE 1]
EndCycle ==
  /\ cycle.pc = "writing"
  /\ state' = [as_of |-> cycle.at, status |-> cycle.status, trust |-> cycle.trust, scan |-> cycle.scan,
               ready |-> opportunities, exits |-> Exiting]
  /\ soak' = Append(soak, Row(cycle.at, cycle.status))
  /\ cycle' = [pc |-> "idle", at |-> cycle.at]
  /\ UNCHANGED <<clock, trading_hours, opportunities, held, alerts, briefs, now, shown, trade, board, cycles, asks, faults>>
\* A cycle raises, or its process dies: what it emitted stays.
CycleFails ==
  /\ cycle.pc \in {"emitted", "writing"} /\ faults < MaxFaults
  /\ faults' = faults + 1
  /\ soak' \in {soak, Append(soak, [Row(cycle.at, "SYSTEM_UNAVAILABLE") EXCEPT !.symbols = 0])}
  /\ cycle' = [pc |-> "idle", at |-> cycle.at]
  /\ UNCHANGED <<clock, trading_hours, opportunities, held, state, alerts, briefs, now, shown, trade, board, cycles, asks>>

\* The agent records a brief about a symbol (external to the page).
RecordBrief ==
  /\ Len(briefs) < MaxBriefs
  /\ \E s \in Symbol : briefs' = Append(briefs, [symbol |-> s, at |-> clock])
  /\ UNCHANGED <<clock, trading_hours, desk, held, alerts, now, shown, trade, board, cycles, asks, faults>>
Tick ==
  /\ clock < MaxTime /\ clock' = clock + 1
  /\ UNCHANGED <<trading_hours, desk, held, alerts, briefs, now, shown, trade, board, cycles, asks, faults>>
Bell ==
  /\ clock < MaxTime /\ clock' = clock + 1 /\ trading_hours' = ~trading_hours
  /\ UNCHANGED <<desk, held, alerts, briefs, now, shown, trade, board, cycles, asks, faults>>
-----------------------------------------------------------------------------
\* NOW (now_snapshot, do_GET): the time first, then the files in this order.
Idle == [pc |-> "idle"]
AskNow(r) ==
  /\ asks < MaxAsks /\ asks' = asks + 1
  /\ now[r].pc = "idle" /\ \A o \in Request \ {r} : now[o].pc # "idle" \/ o > r
  /\ now' = [now EXCEPT ![r] = [pc |-> "state", at |-> clock, live |-> trading_hours, knew |-> {posts[p].symbol : p \in message.recorded},
                                state |-> Null, soak |-> <<>>, alerts |-> <<>>]]
  /\ UNCHANGED <<clock, trading_hours, desk, held, alerts, briefs, shown, trade, board, cycles, faults>>
ReadState(r) ==
  /\ now[r].pc = "state"
  /\ now' = [now EXCEPT ![r].state = IF state = Torn THEN Null ELSE state, ![r].pc = "soak"]
  /\ UNCHANGED <<clock, trading_hours, desk, held, alerts, briefs, shown, trade, board, cycles, asks, faults>>
ReadSoak(r) ==
  /\ now[r].pc = "soak"
  /\ now' = [now EXCEPT ![r].soak = soak, ![r].pc = "alerts"]
  /\ UNCHANGED <<clock, trading_hours, desk, held, alerts, briefs, shown, trade, board, cycles, asks, faults>>
ReadAlerts(r) ==
  /\ now[r].pc = "alerts"
  /\ now' = [now EXCEPT ![r].alerts = TailOf(alerts), ![r].pc = "briefs"]
  /\ UNCHANGED <<clock, trading_hours, desk, held, alerts, briefs, shown, trade, board, cycles, asks, faults>>
\* The briefs are read last; pollNow shows the answer.
ShowNow(r) ==
  /\ now[r].pc = "briefs"
  /\ shown' = [now |-> Snapshot(now[r].state, now[r].soak, now[r].alerts, briefs, now[r].at, now[r].live), connected |-> TRUE, knew |-> now[r].knew]
  /\ now' = [now EXCEPT ![r] = Idle]
  /\ UNCHANGED <<clock, trading_hours, desk, held, alerts, briefs, trade, board, cycles, asks, faults>>
\* The server does not answer: the page falls back to what it was rendered with.
FallBack(r) ==
  /\ now[r].pc # "idle" /\ faults < MaxFaults
  /\ faults' = faults + 1
  /\ now' = [now EXCEPT ![r] = Idle]
  /\ shown' = [now |-> Empty, connected |-> FALSE, knew |-> {}]
  /\ UNCHANGED <<clock, trading_hours, desk, held, alerts, briefs, trade, board, cycles, asks>>
-----------------------------------------------------------------------------
\* openTrade: one form, emptied, with the fields of the button that opened it.
OpenTrade ==
  /\ form.n < MaxForms
  /\ \E kind \in {"ack-buy", "ack-sell", "skip"}, s \in Symbol, missing \in {Null, "price", "shares"} :
       form' = [n |-> form.n + 1, kind |-> kind, symbol |-> s, missing |-> missing]
  /\ message' = [message EXCEPT !.says = "", !.post = Null]
  /\ UNCHANGED <<clock, trading_hours, desk, held, alerts, briefs, now, shown, posts, board, cycles, asks, faults>>
SubmitTrade ==
  /\ form.n > 0 /\ Len(posts) < MaxPosts
  /\ posts' = Append(posts, [pc |-> "sent", code |-> Null, died |-> FALSE, n |-> form.n, kind |-> form.kind, symbol |-> form.symbol, missing |-> form.missing])
  /\ message' = [message EXCEPT !.says = "recording", !.post = Null]
  /\ UNCHANGED <<clock, trading_hours, desk, held, alerts, briefs, now, shown, form, board, cycles, asks, faults>>

\* ack_command_for: what the server refuses before it runs the command.
Refused(post) == post.missing = "price" \/ (post.kind # "skip" /\ post.missing = "shares")
Answer(p, code) == posts' = [posts EXCEPT ![p].pc = "answered", ![p].code = code]
\* do_POST: refused, or the command of monitor.py is run.
Serve(p) ==
  /\ posts[p].pc = "sent"
  /\ IF ~WritesEnabled THEN Answer(p, 403)
     ELSE IF Refused(posts[p]) THEN Answer(p, 400)
     ELSE posts' = [posts EXCEPT ![p].pc = "running"]
  /\ UNCHANGED <<clock, trading_hours, desk, held, alerts, briefs, now, shown, form, message, board, cycles, asks, faults>>
FactOf(kind) == IF kind = "ack-buy" THEN "POSITION_OPENED" ELSE IF kind = "ack-sell" THEN "POSITION_CLOSED" ELSE "HUMAN_SKIP"
\* The command records the fact first; a sale needs an open position.  ts is
\* the time the human gives: of these facts NOW asks only whether one is there.
Command(p) ==
  /\ posts[p].pc = "running" /\ LockFree
  /\ posts[p].kind = "ack-sell" => posts[p].symbol \in Holding
  /\ alerts' = Append(alerts, [Alert(FactOf(posts[p].kind), posts[p].symbol, clock) EXCEPT !.by = p])
  /\ posts' = [posts EXCEPT ![p].pc = "alerted"]
  /\ UNCHANGED <<clock, trading_hours, desk, held, briefs, now, shown, form, message, board, cycles, asks, faults>>
\* A sale is refused, before the lock is taken or under it: nothing open, only
\* a part of it to be sold, or bought at another venue.
HostRefuses(p) ==
  /\ posts[p].pc = "running" /\ posts[p].kind = "ack-sell" /\ Answer(p, 400)
  /\ UNCHANGED <<clock, trading_hours, desk, held, alerts, briefs, now, shown, form, message, board, cycles, asks, faults>>
\* The ledger that the command saves after its fact.
Ledger(post) ==
  CASE post.kind = "ack-buy" -> [ready |-> opportunities \ {post.symbol}, held |-> Append(held, [symbol |-> post.symbol, exit |-> FALSE])]
    [] post.kind = "ack-sell" -> [ready |-> opportunities, held |-> RemoveAt(held, Min({i \in DOMAIN held : held[i].symbol = post.symbol}))]
    [] post.kind = "skip" -> [ready |-> opportunities, held |-> held]
CommandSaves(p) ==
  /\ posts[p].pc = "alerted" /\ posts' = [posts EXCEPT ![p].pc = "done"]
  /\ opportunities' = Ledger(posts[p]).ready /\ held' = Ledger(posts[p]).held
  /\ UNCHANGED <<clock, trading_hours, cycle, state, soak, alerts, briefs, now, shown, form, message, board, cycles, asks, faults>>
CommandEnds(p) ==
  /\ posts[p].pc = "done" /\ Answer(p, 200)
  /\ UNCHANGED <<clock, trading_hours, desk, held, alerts, briefs, now, shown, form, message, board, cycles, asks, faults>>
\* What a save that is cut short leaves: opportunities.json and then
\* positions.json are emptied and filled, and an empty one reads as its default.
CutShort(new) == {<<opportunities, held>>, <<{}, held>>, <<new.ready, held>>, <<new.ready, <<>>>>, <<new.ready, new.held>>}
\* The command stops before, between or after its writes, which stay.
CommandStops(p, code) ==
  /\ posts[p].pc \in {"running", "alerted", "done"} /\ faults < MaxFaults
  /\ faults' = faults + 1
  /\ posts' = [posts EXCEPT ![p].pc = "answered", ![p].code = code, ![p].died = TRUE]
  /\ \E left \in IF posts[p].pc = "alerted" THEN CutShort(Ledger(posts[p])) ELSE {<<opportunities, held>>} :
       opportunities' = left[1] /\ held' = left[2]
  /\ UNCHANGED <<clock, trading_hours, cycle, state, soak, alerts, briefs, now, shown, form, message, board, cycles, asks>>
\* It raises or dies of a signal: do_POST answers as to a refusal.
CommandDies(p) == CommandStops(p, 400)
\* It takes longer than 120 seconds and is killed.
CommandKilled(p) == CommandStops(p, 504)
\* submitTrade goes on with the answer, in the form that is open by then.
ReadAnswer(p) ==
  /\ posts[p].pc = "answered"
  /\ posts' = [posts EXCEPT ![p].pc = "read"]
  /\ message' = [says |-> IF posts[p].code = 200 THEN "recorded" ELSE "refused", form |-> form.n, post |-> p,
                 recorded |-> message.recorded \cup (IF posts[p].code = 200 THEN {p} ELSE {})]
  /\ UNCHANGED <<clock, trading_hours, desk, held, alerts, briefs, now, shown, form, board, cycles, asks, faults>>
-----------------------------------------------------------------------------
\* The builder publishes a pool: its snapshot, and then the universe of it.
Rebuild ==
  /\ snapshot.as_of < MaxBuilds
  /\ \E n \in Pool, flaw \in {Null, "degraded", "thin", "stale"} :
       snapshot' = [as_of |-> snapshot.as_of + 1, count |-> n, flaw |-> flaw]
  /\ UNCHANGED <<clock, trading_hours, desk, held, alerts, briefs, now, shown, trade, universe, scan_of, proof, validating, audit, quality, cycles, asks, faults>>
HandOff ==
  /\ universe # snapshot /\ snapshot.as_of > 0 /\ universe' = snapshot
  /\ UNCHANGED <<clock, trading_hours, desk, held, alerts, briefs, now, shown, trade, snapshot, scan_of, proof, validating, audit, quality, cycles, asks, faults>>
\* The validator reads the universe, samples quotes for long, and writes.
Validate ==
  /\ validating = Null /\ universe.as_of > 0 /\ proof.n < MaxProofs /\ validating' = universe
  /\ UNCHANGED <<clock, trading_hours, desk, held, alerts, briefs, now, shown, trade, snapshot, universe, scan_of, proof, audit, quality, cycles, asks, faults>>
Proven ==
  /\ validating # Null /\ validating' = Null
  /\ \E n \in 0 .. validating.count, status \in {"PASS", "WARN", "FAIL"} :
       proof' = [n |-> proof.n + 1, of |-> validating.as_of, sample |-> n, status |-> status]
  /\ UNCHANGED <<clock, trading_hours, desk, held, alerts, briefs, now, shown, trade, snapshot, universe, scan_of, audit, quality, cycles, asks, faults>>
\* A live scan, and the audit of the point-in-time data.
LiveScan ==
  /\ proof.n > 0 /\ scan_of # clock /\ scan_of' = clock
  /\ UNCHANGED <<clock, trading_hours, desk, held, alerts, briefs, now, shown, trade, snapshot, universe, proof, validating, audit, quality, cycles, asks, faults>>
Audit ==
  /\ audit = Null /\ proof.n > 0 /\ audit' \in {"PIT_CLEAN", "PIT_PARTIAL", "PIT_CONTAMINATED", "unreadable"}
  /\ UNCHANGED <<clock, trading_hours, desk, held, alerts, briefs, now, shown, trade, snapshot, universe, scan_of, proof, validating, quality, cycles, asks, faults>>

Rank == [FAIL |-> 0, MISSING |-> 0, WARN |-> 1, UNKNOWN |-> 2, PASS |-> 3]
Worst(statuses) == CHOOSE s \in statuses : \A o \in statuses : Rank[s] <= Rank[o]
SemanticDimension(pf, snap) ==
  CASE pf.n = 0 -> "UNKNOWN"
    [] pf.n > 0 /\ pf.status # "PASS" -> pf.status
    [] pf.n > 0 /\ pf.status = "PASS" -> IF pf.of # snap.as_of \/ pf.sample < snap.count THEN "WARN" ELSE "PASS"
FreshnessDimension(snap, quoted, today) ==
  Worst({IF quoted = Null THEN "UNKNOWN" ELSE IF quoted = today THEN "PASS" ELSE "WARN", IF snap.flaw = "stale" THEN "WARN" ELSE "PASS"})
PitDimension(verdict) ==
  CASE verdict = "PIT_CLEAN" -> "PASS" [] verdict = "PIT_PARTIAL" -> "WARN" [] verdict = "PIT_CONTAMINATED" -> "FAIL"
    [] verdict \in {Null, "unreadable"} -> "UNKNOWN"
DataQuality(snap, quoted, pf, verdict, today) ==
  IF snap.as_of = 0 THEN "MISSING"
  ELSE Worst({IF snap.flaw = "thin" THEN "WARN" ELSE "PASS", FreshnessDimension(snap, quoted, today), SemanticDimension(pf, snap),
              IF snap.flaw = "degraded" THEN "WARN" ELSE "PASS", PitDimension(verdict)})

\* load_real_trend and the bridge's continuity_verdict: what the monitor has
\* shown so far, from the same files.
Scanning(rows) == {r \in ToSet(rows) : r.status = "SCANNED" /\ r.symbols > 0}
TrendVerdict(rows, pf, forward) ==
  LET oks == {pf.n > 0 /\ pf.status = "PASS", pf.n > 0 /\ pf.sample > 0, Scanning(rows) # {}}
  IN IF FALSE \notin oks /\ forward > 0 THEN "PASS" ELSE IF TRUE \in oks \/ forward > 0 THEN "PARTIAL" ELSE "NO_REAL_EVIDENCE"
ContinuityVerdict(rows, pf, forward) ==
  CASE pf.n > 0 /\ pf.status = "PASS" /\ pf.sample > 0 /\ Scanning(rows) # {} /\ forward > 0 -> "PASS"
    [] pf.n = 0 /\ Scanning(rows) = {} /\ forward = 0 -> "NO_REAL_EVIDENCE"
    [] OTHER -> IF pf.n > 0 /\ pf.status # "PASS" /\ pf.sample = 0 /\ Scanning(rows) = {} /\ forward = 0 THEN "NO_REAL_EVIDENCE" ELSE "PARTIAL"

\* build_data: the snapshot and the scan first, the proof and audit last.
RenderPool ==
  /\ quality.pc = "idle" /\ quality.n < MaxRenders
  /\ quality' = [pc |-> "read", n |-> quality.n + 1, snap |-> snapshot, quoted |-> scan_of, status |-> Null]
  /\ UNCHANGED <<clock, trading_hours, desk, held, alerts, briefs, now, shown, trade, snapshot, universe, scan_of, proof, validating, audit, cycles, asks, faults>>
RenderQuality ==
  /\ quality.pc = "read"
  /\ quality' = [pc |-> "idle", n |-> quality.n, snap |-> quality.snap, quoted |-> quality.quoted,
                 status |-> DataQuality(quality.snap, quality.quoted, proof, audit, clock),
                 proof |-> proof, day |-> clock, verdict |-> audit]
  /\ UNCHANGED <<clock, trading_hours, desk, held, alerts, briefs, now, shown, trade, snapshot, universe, scan_of, proof, validating, audit, cycles, asks, faults>>
-----------------------------------------------------------------------------
Init ==
  /\ clock = 1 /\ trading_hours = TRUE
  /\ cycle = [pc |-> "idle", at |-> 0] /\ opportunities = {} /\ held = <<>>
  /\ state = Null /\ soak = <<>> /\ alerts = <<>> /\ briefs = <<>>
  /\ now = [r \in Request |-> Idle] /\ shown = [now |-> Empty, connected |-> FALSE, knew |-> {}]
  /\ form = [n |-> 0] /\ posts = <<>> /\ message = [says |-> "", form |-> 0, post |-> Null, recorded |-> {}]
  /\ snapshot = [as_of |-> 0] /\ universe = [as_of |-> 0] /\ scan_of = Null
  /\ proof = [n |-> 0] /\ validating = Null /\ audit = Null
  /\ quality = [pc |-> "idle", n |-> 0, status |-> Null]
  /\ cycles = 0 /\ asks = 0 /\ faults = 0

\* Once the last answer is shown and the last form read nothing more is followed.
Watched ==
  \/ asks < MaxAsks \/ \E r \in Request : now[r] # Idle
  \/ form.n < MaxForms \/ Len(posts) < MaxPosts \/ \E p \in DOMAIN posts : posts[p].pc # "read"
  \/ quality.n < MaxRenders \/ quality.pc # "idle"
Next == Watched /\
  \/ BeginCycle \/ SaveCycle \/ EndCycle \/ CycleFails \/ RecordBrief \/ Tick \/ Bell
  \/ \E r \in Request : AskNow(r) \/ ReadState(r) \/ ReadSoak(r) \/ ReadAlerts(r) \/ ShowNow(r) \/ FallBack(r)
  \/ OpenTrade \/ SubmitTrade
  \/ \E p \in DOMAIN posts : Serve(p) \/ Command(p) \/ HostRefuses(p) \/ CommandSaves(p) \/ CommandEnds(p)
                            \/ CommandDies(p) \/ CommandKilled(p) \/ ReadAnswer(p)
  \/ Rebuild \/ HandOff \/ Validate \/ Proven \/ LiveScan \/ Audit \/ RenderPool \/ RenderQuality

Spec == Init /\ [][Next]_vars
-----------------------------------------------------------------------------
Entries(n, i) == {a \in ToSet(alerts) : a.type = Material[i.kind] /\ a.symbol = i.symbol /\ a.ts <= n.as_of}

\* No judgement of the agent is shown for an event it came before, also when
\* the event was pushed out of the tail, announced twice by a cycle that
\* raised, or came between two of the reads (_agent_action, now_snapshot).
JudgementNotOlder ==
  \A i \in shown.now.items : i.agent # Nobody => \A a \in Entries(shown.now, i) : a.ts <= i.agent.at

\* HEALTHY during trading: a cycle that ended wrote its heartbeat within the
\* limit, whatever file was torn or missing (now_snapshot).
HealthyIsRecent ==
  shown.now.runtime = "HEALTHY" /\ shown.now.live =>
    shown.now.as_of # Null /\ shown.now.at - shown.now.as_of <= StaleAfter

\* A trade the page has confirmed is among the human's actions in every answer
\* asked for since, as long as NOW reads the whole log (submitTrade, _human_action).
ConfirmedIsShown ==
  Len(alerts) <= AlertTail => \A i \in shown.now.items : i.symbol \in shown.knew => i.human # Null

\* What the form calls recorded was recorded once.  What was refused was not,
\* also if the position was sold meanwhile by another form, unless the command
\* died: then it left its fact or nothing, never two (do_POST, submitTrade).
AnswerTells ==
  message.says \in {"recorded", "refused"} =>
    LET facts == {i \in DOMAIN alerts : alerts[i].by = message.post}
    IN /\ message.says = "recorded" => Cardinality(facts) = 1
       /\ Cardinality(facts) <= 1
       /\ ~posts[message.post].died /\ message.says = "refused" => facts = {}

\* A page all green was rendered of a pool that was proven as it is, sampled
\* whole, quoted that day and audited clean, whatever was rebuilt between the
\* reads (data_quality, _semantic_dimension).
GreenIsProven ==
  quality.status = "PASS" =>
    /\ quality.proof.status = "PASS" /\ quality.proof.of = quality.snap.as_of /\ quality.proof.sample >= quality.snap.count
    /\ quality.snap.flaw = Null
    /\ quality.quoted = quality.day /\ quality.verdict = "PIT_CLEAN"

\* The bridge and the page, which judge the evidence each with code of its own,
\* say the same of it (load_real_trend, continuity_verdict).
VerdictsAgree == \A forward \in {0, 1} : TrendVerdict(soak, proof, forward) = ContinuityVerdict(soak, proof, forward)

BoardHolds == JudgementNotOlder /\ HealthyIsRecent /\ ConfirmedIsShown /\ AnswerTells /\ GreenIsProven /\ VerdictsAgree

\* The last successful scan that is shown was one (render.py, now_snapshot).
\* Refuted: soak.jsonl counts the symbols of a cycle that got no quote.
ScanIsReal ==
  \A ts \in {shown.now.scan} \ {Null} : \E r \in ToSet(soak) : r.ts = ts /\ r.status = "SCANNED"

\* Refuted: a 400 is a refusal by the host, which recorded nothing
\* (serve.py:289): do_POST answers a command that died after its fact alike.
RefusedIsNotRecorded == \A i \in DOMAIN alerts : alerts[i].by # 0 => posts[alerts[i].by].code # 400
\* Refuted: what the form says belongs to the form it is shown in.
MessageBelongs == message.says \in {"recorded", "refused"} => message.form = posts[message.post].n
\* Refuted: a form records one fact, however often it is sent.
OneFactPerForm == \A i, j \in DOMAIN alerts : i # j /\ 0 \notin {alerts[i].by, alerts[j].by} => posts[alerts[i].by].n # posts[alerts[j].by].n
\* Refuted: the headline speaks of a scan only of a day that was scanned.
HeadlineIsTrue == Headline(shown.now) = "scanned, nothing" => shown.now.status = "SCANNED" /\ shown.now.runtime = "HEALTHY"
=============================================================================
