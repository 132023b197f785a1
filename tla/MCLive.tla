------------------------------- MODULE MCLive -------------------------------
(***************************************************************************)
(* What must eventually happen, part by part, each under the fairness its  *)
(* own module justifies (FairSpec there).  A behaviour takes the steps of  *)
(* one part, and only that part is treated fairly.                         *)
(***************************************************************************)
EXTENDS RunAnalysis

CONSTANTS s1, c1, a, b, t1, t2, new, elsewhere, absent, Torn

VARIABLES
  part,
  disk, summary, alerts, lock, pc, mem, written, fact, acks, cycles, faults, day, done, wrecked,
  file, current, saved, st, opened, tick, sent, recovered, daily, bridge_day, failures,
  events, where, stored, fetched, queue, batch, transport, process, handled, told, chat_faults,
  arrived, confirmed, poll_pc, offset, response, updates, cursor, processed, ignored, dropped, latest, restarts,
  facts, selected, live, available, stream, last, frame, timer, generation, requests, shown, inspection, failed, clicks, drops,
  flight, results, thread, target, answered, acts, exits,
  turn, run, registered, stopped, dog, informed, lines, late,
  csv, meta, caller, seen, got, intent, mutex, fetches, refreshed, answers, calls, today, kills,
  control, kind, last_started, workers, outbox, at, head, desk, reports, merges, pushes, breaks, launched, published, excused

ledger == <<disk, summary, alerts, lock, pc, mem, written, fact, acks, cycles, faults, day, done, wrecked>>
bridge == <<file, current, saved, st, opened, tick, sent, recovered, daily, bridge_day, failures>>
chat == <<events, where, stored, fetched, queue, batch, transport, process, handled, told, chat_faults>>
poll == <<arrived, confirmed, poll_pc, offset, response, updates, cursor, processed, ignored, dropped, latest, restarts>>
console == <<facts, selected, live, available, stream, last, frame, timer, generation, requests, shown, inspection, failed, clicks, drops>>
actions == <<flight, results, thread, target, answered, acts, exits>>
watchdog == <<turn, run, registered, stopped, dog, informed, lines, late>>
cache == <<csv, meta, caller, seen, got, intent, mutex, fetches, refreshed, answers, calls, today, kills>>
loop == <<control, kind, last_started, workers, outbox, at, head, desk, reports, merges, pushes, breaks, launched, published, excused>>

Ledger == INSTANCE TradingLedger WITH Symbol <- {s1}, Client <- {c1}, Share <- {1},
            MaxAcks <- 1, MaxCycles <- 0, MaxFaults <- 1, AfterHours <- TRUE, MaxDays <- 1
Bridge == INSTANCE AlertBridge WITH disk <- saved, pc <- tick, day <- bridge_day, faults <- failures, Cap <- 1, MaxLines <- 1,
            MaxFiles <- 2, MaxDays <- 1, MaxFaults <- 1, AgentResult <- {"text"}, SharedIds <- FALSE, SameInode <- FALSE
Chat == INSTANCE Feishu WITH saved <- stored, faults <- chat_faults, MaxEvents <- 2, BatchMax <- 1, MaxFiles <- 1, MaxFaults <- 1, Redelivery <- TRUE
Updates == INSTANCE Polling WITH pc <- poll_pc, events <- updates, handled <- processed, crashes <- restarts, MaxUpdates <- 2, MaxCrashes <- 2
Console == INSTANCE LiveConsole WITH faults <- drops, Run <- {a, b}, MaxFacts <- 1, MaxClicks <- 1, MaxFaults <- 0
Actions == INSTANCE ConsoleActions WITH inFlight <- flight, worker <- thread, told <- answered, crashes <- exits,
             Run <- {a, b}, MaxActs <- 2, MaxCrashes <- 1
Dogs == INSTANCE Watchdog WITH pc <- turn, told <- informed, MaxRuns <- 2
Cache == INSTANCE HistoryCache WITH pc <- caller, lock <- mutex, day <- today, crashes <- kills, Caller <- {a, b}, Builder <- {},
           Extent <- {new}, Stale <- {}, Absent <- absent, MaxFetches <- 1, MaxCalls <- 2, MaxDays <- 0, MaxCrashes <- 1
Loop == INSTANCE SupervisorLoop WITH last <- last_started, faults <- breaks, told <- published, Poll <- {t1, t2}, Hand <- {},
          MaxCommits <- 2, MaxPushes <- 1, MaxFaults <- 1, Elsewhere <- elsewhere, Absent <- absent, Paced <- TRUE

LiveInit ==
  /\ Ledger!Init /\ Bridge!Init /\ Chat!Init /\ Updates!Init /\ Console!Init /\ Init
  /\ Actions!Init /\ Dogs!Init /\ Cache!Init /\ Loop!Init
  /\ part \in {"ledger", "bridge", "feishu", "polling", "console", "analysis", "actions", "watchdog", "cache", "loop"}
  /\ part # "console" => selected = a

LiveNext ==
  /\ UNCHANGED part
  /\ \/ part = "ledger" /\ Ledger!Next /\ UNCHANGED <<bridge, chat, poll, console, vars, actions, watchdog, cache, loop>>
     \/ part = "bridge" /\ Bridge!Next /\ UNCHANGED <<ledger, chat, poll, console, vars, actions, watchdog, cache, loop>>
     \/ part = "feishu" /\ Chat!Next /\ UNCHANGED <<ledger, bridge, poll, console, vars, actions, watchdog, cache, loop>>
     \/ part = "polling" /\ Updates!Next /\ UNCHANGED <<ledger, bridge, chat, console, vars, actions, watchdog, cache, loop>>
     \/ part = "console" /\ Console!Next /\ UNCHANGED <<ledger, bridge, chat, poll, vars, actions, watchdog, cache, loop>>
     \/ part = "analysis" /\ Next /\ UNCHANGED <<ledger, bridge, chat, poll, console, actions, watchdog, cache, loop>>
     \/ part = "actions" /\ Actions!Next /\ UNCHANGED <<ledger, bridge, chat, poll, console, vars, watchdog, cache, loop>>
     \/ part = "watchdog" /\ Dogs!Next /\ UNCHANGED <<ledger, bridge, chat, poll, console, vars, actions, cache, loop>>
     \/ part = "cache" /\ Cache!Next /\ UNCHANGED <<ledger, bridge, chat, poll, console, vars, actions, watchdog, loop>>
     \/ part = "loop" /\ Loop!Next /\ UNCHANGED <<ledger, bridge, chat, poll, console, vars, actions, watchdog, cache>>

LiveFairness ==
  /\ WF_ledger(part = "ledger" /\ Ledger!CycleStep)
  /\ WF_ledger(part = "ledger" /\ Ledger!AckStep(c1)) /\ SF_ledger(part = "ledger" /\ Ledger!EnterAck(c1))
  /\ WF_bridge(part = "bridge" /\ Bridge!Tick)
  /\ WF_chat(part = "feishu" /\ Chat!Probe) /\ WF_chat(part = "feishu" /\ Chat!Poll)
  /\ WF_chat(part = "feishu" /\ Chat!Handle) /\ WF_chat(part = "feishu" /\ Chat!Restart)
  /\ \A i \in Chat!Id : WF_chat(part = "feishu" /\ (Chat!Receive(i) \/ Chat!Fetch(i) \/ Chat!FetchFails(i) \/ Chat!Put(i)))
  /\ WF_poll(part = "polling" /\ Updates!GetUpdates)
  /\ WF_poll(part = "polling" /\ (Updates!Normalise \/ Updates!NormaliseRaises \/ Updates!BatchReady \/ Updates!Handle \/ Updates!SaveCursor \/ Updates!Restart))
  /\ WF_console(part = "console" /\ Console!StreamPoll) /\ WF_console(part = "console" /\ Console!FrameArrives)
  /\ WF_console(part = "console" /\ Console!TimerFires) /\ WF_console(part = "console" /\ Console!ServeSome)
  /\ WF_console(part = "console" /\ Console!ReceiveSome)
  /\ WF_vars(part = "analysis" /\ Register)
  /\ \A w \in Run : WF_vars(part = "analysis" /\ Work(w))
  /\ \A r \in {a, b} : WF_actions(part = "actions" /\ Actions!Look(r))
  /\ \A t \in Actions!Act : WF_actions(part = "actions" /\ Actions!ResumeEnds(t)) /\ WF_actions(part = "actions" /\ Actions!FileResult(t))
  /\ WF_watchdog(part = "watchdog" /\ (Dogs!PopStop \/ Dogs!SetStop \/ Dogs!TellOutcome))
  /\ \A r \in Dogs!Run : WF_watchdog(part = "watchdog" /\ Dogs!Dog(r))
  /\ \A p \in {a, b} : WF_cache(part = "cache" /\ Cache!Step(p))
  /\ \A p \in {t1, t2} : WF_loop(part = "loop" /\ Loop!Sync(p)) /\ WF_loop(part = "loop" /\ Loop!Publish(p))

LiveSpec == LiveInit /\ [][LiveNext]_<<part, ledger, bridge, chat, poll, console, vars, actions, watchdog, cache, loop>> /\ LiveFairness
-----------------------------------------------------------------------------
\* What is sent arrives: every alert reaches the chat, also after failed sends
\* and restarts (bridge.py); a message Feishu redelivers after a restart is
\* handled or refused with a reason, and a dead transport is noticed
\* (feishu.py); an update the Bot API holds is processed, ignored or dropped
\* (runner.py); an instruction is answered on the report branch
\* (supervisor_loop.py); the open run of the console catches up with the facts
\* of its run (console-view.ts).
EverythingArrives ==
  /\ Bridge!EveryEventSent
  /\ Chat!EveryEventEnds /\ Chat!DeadTransportNoticed
  /\ Updates!EveryUpdateProcessed
  /\ Loop!InstructionAnswered
  /\ part = "console" => Console!CatchesUp

\* What is taken is given back: a command that waits for the ledger gets its
\* lock although a session takes it in every cycle, a resume started from the
\* console leaves the table of flights, the thread of a progress watchdog ends
\* with its run, an analysis in flight ends and frees its subject, and the lock
\* of the history cache comes back (monitor.py, actions.py, service.py,
\* analysis.py, quant_core.py).
NothingHeldForever ==
  Ledger!AckGetsIn /\ Actions!FlightEnds /\ Dogs!WatchdogEnds /\ InFlightClears /\ Cache!LockFreed
=============================================================================
