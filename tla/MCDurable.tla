------------------------------ MODULE MCDurable ------------------------------
(***************************************************************************)
(* What outlives a process in files that others write or read: the cursor  *)
(* of the gateway's poll loop (the module this one extends, which has the  *)
(* names of its own), the trading ledger that acknowledgements and session *)
(* cycles write, the cursor of the bridge that carries its alerts to the   *)
(* chat, the watchlists of the chats.  A behaviour takes the steps of one  *)
(* of them; "ledger" and "session" are the ledger under two mixes of       *)
(* bounds.                                                                 *)
(***************************************************************************)
EXTENDS Polling

CONSTANTS s1, c1, c2, x, y, z, Torn

VARIABLES
  part,
  disk, summary, alerts, lock, ledger_pc, mem, written, fact, acks, cycles, faults, day, done, wrecked,
  file, current, saved, st, opened, tick, sent, recovered, daily, bridge_day, failures,
  content, path, tmp, call_pc, ask, merged, changed, fd, said, calls

ledger == <<disk, summary, alerts, lock, ledger_pc, mem, written, fact, acks, cycles, faults, day, done, wrecked>>
bridge == <<file, current, saved, st, opened, tick, sent, recovered, daily, bridge_day, failures>>
watchlist == <<content, path, tmp, call_pc, ask, merged, changed, fd, said, calls>>

Ledger == INSTANCE TradingLedger WITH pc <- ledger_pc, Symbol <- {s1}, Client <- {c1, c2}, Share <- {1},
            MaxAcks <- 2, MaxCycles <- 1, MaxFaults <- 1, AfterHours <- FALSE, MaxDays <- 1
Session == INSTANCE TradingLedger WITH pc <- ledger_pc, Symbol <- {s1}, Client <- {c1, c2}, Share <- {1},
             MaxAcks <- 1, MaxCycles <- 2, MaxFaults <- 1, AfterHours <- FALSE, MaxDays <- 1
Bridge == INSTANCE AlertBridge WITH disk <- saved, pc <- tick, day <- bridge_day, faults <- failures, Cap <- 2, MaxLines <- 2,
            MaxFiles <- 2, MaxDays <- 1, MaxFaults <- 2, AgentResult <- {"text", "failed", "delivered"}, SharedIds <- FALSE, SameInode <- FALSE
Watch == INSTANCE Watchlist WITH pc <- call_pc, Scope <- {"g1", "g2"}, Symbol <- {x, y, z}, Call <- {c1}, Alike <- {}, MaxSymbols <- 2, MaxCalls <- 3

ASSUME PollingAssumption
ASSUME Ledger!LedgerAssumption /\ Session!LedgerAssumption /\ Bridge!BridgeAssumption /\ Watch!WatchlistAssumption

DurableInit ==
  /\ Init /\ Ledger!Init /\ Bridge!Init /\ Watch!Init
  /\ part \in {"polling", "ledger", "session", "bridge", "watchlist"}

DurableNext ==
  /\ UNCHANGED part
  /\ \/ part = "polling" /\ Next /\ UNCHANGED <<ledger, bridge, watchlist>>
     \/ part = "ledger" /\ Ledger!Next /\ UNCHANGED <<vars, bridge, watchlist>>
     \/ part = "session" /\ Session!Next /\ UNCHANGED <<vars, bridge, watchlist>>
     \/ part = "bridge" /\ Bridge!Next /\ UNCHANGED <<vars, ledger, watchlist>>
     \/ part = "watchlist" /\ Watch!Next /\ UNCHANGED <<vars, ledger, bridge>>

DurableSpec == DurableInit /\ [][DurableNext]_<<part, vars, ledger, bridge, watchlist>>
-----------------------------------------------------------------------------
\* Ledger: no acknowledged buy is lost to another writer, the alert stream is
\* never behind the ledger, opportunities and positions agree unless a process
\* died between their files, a human fact is recorded once, also when its
\* command is run again; and READY is announced once per change, a lost
\* connection once a day, unless a cycle raised or died (monitor.py,
\* Store.transaction and run_cycle; toolset.py).
LedgerHolds ==
  /\ part = "ledger" =>
       /\ Ledger!TypeOK /\ Ledger!NoBuyLost /\ Ledger!StreamLeadsLedger
       /\ Ledger!PinnedUnlessFault /\ Ledger!FactRecordedOnce
  /\ part = "session" => Session!RepeatNeedsFault /\ Session!OneLossADay

\* Bridge: the cursor never passes an alert that has not reached the chat, an
\* alert is sent again only after a fault, recovery follows a loss (bridge.py).
AlertsReachTheChat == Bridge!SentBeforePassed /\ Bridge!RepeatNeedsFault /\ Bridge!RecoveryFollowsLoss

\* Watchlist: a verified answer stays true until the scope's list is edited,
\* and no reader sees half a file (toolset.py, _watchlist_update).
AnswerHolds == Watch!TypeOK /\ Watch!AnswerHolds /\ Watch!ReadersSeeWhole
=============================================================================
