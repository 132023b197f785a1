------------------------------ MODULE MCMarket ------------------------------
(***************************************************************************)
(* The market data and the decisions of zuaef_quant: the candidate pool    *)
(* (the module this one extends, which has the names of its own),          *)
(* the history cache (among callers, and shared with the pool builder),    *)
(* the replay of a strategy, what an answer may say of today (among        *)
(* writers, and over a weekend), and of the whole market (at home, and     *)
(* abroad).  A behaviour takes the steps of one of them.                   *)
(***************************************************************************)
EXTENDS CandidatePool, Sequences

CONSTANTS a, b, keeper, s1, old, new

VARIABLES
  part,
  csv, meta, pc, seen, got, intent, lock, fetches, refreshed, answers, calls, day, deaths,
  phase, today, market, held, entering, leaving, pending, queue, positions, cash, fills, blocked, splits, decided, bought, crossed, tainted,
  scan_day, hours, opportunities, state, soak, scan_lock, step, scan, reader, answer, observed, fresh, cycles, losses,
  asking, feeds, indices, breadth, turnover, sectors, energy, rate, dollar, asia, news, missing

cache == <<csv, meta, pc, seen, got, intent, lock, fetches, refreshed, answers, calls, day, deaths>>
replay == <<phase, today, market, held, entering, leaving, pending, queue, positions, cash, fills, blocked, splits, decided, bought, crossed, tainted>>
freshness == <<scan_day, hours, opportunities, state, soak, scan_lock, step, scan, reader, answer, observed, fresh, cycles, losses>>
context == <<asking, feeds, indices, breadth, turnover, sectors, energy, rate, dollar, asia, news, missing>>

\* What the feeds may answer: first those of the domestic market vary, then
\* the others.
Index(label, is, exchange, amount) == [label |-> label, is |-> is, exchange |-> exchange, level |-> 1, amount |-> amount]
Share(change, amount) == [change |-> change, amount |-> amount]
Item(item, value, nan) == [item |-> item, value |-> value, nan |-> nan]
Sector(name, change) == [name |-> name, change |-> change]
Oil(kind, score, volume, level) == [kind |-> kind, score |-> score, volume |-> volume, level |-> level]
World(label, level) == [label |-> {label}, level |-> level]
Valued(value) == [value |-> value]
Titled(title) == [title |-> title]
Silent == [f \in {"index", "spot", "activity", "sectors", "sectors ths", "world", "futures", "rates", "boc", "asia", "news", "news cls"} |-> {}]
Domestic == [Silent EXCEPT
  !["index"] = {<<Index({"sse"}, "sse", "SSE", 1), Index({"szse"}, "szse", "SZSE", 2), Index({"star"}, "star", "none", Absent)>>,
                <<Index({"sse"}, "sse", "SSE", 1), Index({"star"}, "sse", "none", 3)>>,
                <<Index({}, "sse", "SZSE", Absent), Index({"szse"}, "szse", "SZSE", 2), Index({"sse"}, "sse", "SSE", Absent)>>},
  !["spot"] = {<<Share(1, 2), Share(Absent, Absent), Share(0, 1)>>, <<Share(Absent, 1)>>, <<Share(2, Absent)>>},
  !["activity"] = {<<Item("up", 1, FALSE), Item("down", 2, FALSE)>>, <<Item("flat", 1, TRUE)>>,
                   <<Item("flat", 1, FALSE), Item("up", Absent, FALSE), Item("up", 3, FALSE)>>},
  !["sectors"] = {<<Sector(1, 1), Sector(2, 2), Sector(3, 0), Sector(4, Absent)>>, <<Sector(1, 1), Sector(2, 1)>>, <<Sector(1, Absent)>>},
  !["sectors ths"] = {<<Sector(3, 1), Sector(2, 0), Sector(1, 3)>>}]
Foreign == [Silent EXCEPT
  !["world"] = {<<World("dollar", 1), World("hsi", 2), World("sg", 2)>>, <<World("sg", 2)>>, <<World("hsi", 1), World("nk", 1)>>,
                <<World("dollar", Absent), World("nk", Absent), World("nk", 2)>>},
  !["futures"] = {<<Oil("brent", 1, 5, 1), Oil("brent", 2, 1, 2), Oil("wti", 3, 1, Absent)>>, <<Oil("crude", 1, 1, 4), Oil("wti", 1, 1, Absent)>>,
                  <<Oil("wti", 3, 1, 1), Oil("wti", 3, 2, 2), Oil("brent", 1, 1, 3)>>},
  !["rates"] = {<<Valued(1), Valued(Absent)>>}, !["boc"] = {<<Valued(3), Valued(2)>>},
  !["asia"] = {<<World("nk", 3)>>, <<World("hsi", 3), World("nk", 4)>>},
  !["news"] = {<<Titled(Absent), Titled(1), Titled(2)>>, <<Titled(1), Titled(2)>>},
  !["news cls"] = {<<Titled(1), Titled(Absent), Titled(3)>>}]

Callers == INSTANCE HistoryCache WITH crashes <- deaths, Caller <- {a, b}, Builder <- {}, Extent <- {new}, Stale <- {},
          MaxFetches <- 2, MaxCalls <- 3, MaxDays <- 0, MaxCrashes <- 1
Shared == INSTANCE HistoryCache WITH crashes <- deaths, Caller <- {a}, Builder <- {keeper}, Extent <- {old, new}, Stale <- {old},
          MaxFetches <- 2, MaxCalls <- 3, MaxDays <- 1, MaxCrashes <- 1
Slots == INSTANCE Replay WITH pc <- phase, day <- today, Symbol <- {1, 2}, Splittable <- {}, Price <- {3}, Cash <- 13, LotSize <- 1,
          Fraction <- 2, MinFee <- 1, FeeRate <- 4, MaxPositions <- 1, MaxDays <- 3
Deferral == INSTANCE Replay WITH pc <- phase, day <- today, Symbol <- {1}, Splittable <- {1}, Price <- {1}, Cash <- 9, LotSize <- 2,
          Fraction <- 2, MinFee <- 0, FeeRate <- 9, MaxPositions <- 2, MaxDays <- 5
Workdays == INSTANCE ScanFreshness WITH day <- scan_day, phase <- hours, lock <- scan_lock, pc <- step, mem <- scan, faults <- losses,
          Candidate <- {s1}, Writer <- {a, b}, Session <- {a}, Weekend <- {}, Rows <- 2, MaxDays <- 2, MaxCycles <- 2, MaxFaults <- 1
Saturday == INSTANCE ScanFreshness WITH day <- scan_day, phase <- hours, lock <- scan_lock, pc <- step, mem <- scan, faults <- losses,
          Candidate <- {s1}, Writer <- {a}, Session <- {a}, Weekend <- {2}, Rows <- 2, MaxDays <- 2, MaxCycles <- 3, MaxFaults <- 0
Home == INSTANCE MarketContext WITH pc <- asking, told <- feeds, Tables <- Domestic, Target <- {"sse", "szse", "star"}, Asia <- {"hsi", "nk", "sg"},
         Required <- {"hsi", "nk"}, Null <- Absent, PerSide <- 2, Limit <- 2
Abroad == INSTANCE MarketContext WITH pc <- asking, told <- feeds, Tables <- Foreign, Target <- {"sse", "szse", "star"}, Asia <- {"hsi", "nk", "sg"},
           Required <- {"hsi", "nk"}, Null <- Absent, PerSide <- 2, Limit <- 2

ASSUME Home!ContextAssumption /\ Abroad!ContextAssumption
ASSUME Workdays!FreshnessAssumption /\ Saturday!FreshnessAssumption
ASSUME Slots!FeesFit
ASSUME PoolAssumption /\ Callers!CacheAssumption /\ Shared!CacheAssumption /\ Slots!ReplayAssumption /\ Deferral!ReplayAssumption

MarketStart == Init /\ Callers!Init /\ Slots!Init /\ Workdays!Init /\ Home!Init

MarketInit ==
  \/ part \in {"pool", "callers", "slots", "workdays", "home", "abroad"} /\ MarketStart
  \/ part = "shared" /\ Init /\ Shared!Init /\ Slots!Init /\ Workdays!Init /\ Home!Init
  \/ part = "deferral" /\ Init /\ Callers!Init /\ Deferral!Init /\ Workdays!Init /\ Home!Init
  \/ part = "saturday" /\ Init /\ Callers!Init /\ Slots!Init /\ Saturday!Init /\ Home!Init

MarketNext ==
  \/ part = "pool" /\ Next /\ UNCHANGED <<cache, replay, freshness, context>>
  \/ part = "callers" /\ Callers!Next /\ UNCHANGED <<vars, replay, freshness, context>>
  \/ part = "shared" /\ Shared!Next /\ UNCHANGED <<vars, replay, freshness, context>>
  \/ part = "slots" /\ Slots!Next /\ UNCHANGED <<vars, cache, freshness, context>>
  \/ part = "deferral" /\ Deferral!Next /\ UNCHANGED <<vars, cache, freshness, context>>
  \/ part = "workdays" /\ Workdays!Next /\ UNCHANGED <<vars, cache, replay, context>>
  \/ part = "saturday" /\ Saturday!Next /\ UNCHANGED <<vars, cache, replay, context>>
  \/ part = "home" /\ Home!Next /\ UNCHANGED <<vars, cache, replay, freshness>>
  \/ part = "abroad" /\ Abroad!Next /\ UNCHANGED <<vars, cache, replay, freshness>>

market_vars == <<vars, cache, replay, freshness, context>>
-----------------------------------------------------------------------------
\* History cache: of callers that miss at once one fetches, and bars and last
\* day of an answer are of one series, also when the pool builder writes
\* without the lock (quant_core.py, ensure_history).
CacheHolds ==
  /\ part = "callers" => Callers!TypeOK /\ Callers!OneHydration
  /\ part = "shared" => Shared!EvidenceAgrees

\* Replay: cash never goes below zero, whatever fills; an intent waits, was
\* filled once or was refused for good; the trust gate names exactly the sells
\* of shares held through a change of the adjustment factor; a share is
\* never sold on the day it was bought (quant_core.py).
ReplayHolds ==
  /\ [](part = "slots" => Slots!TypeOK /\ Slots!CashNeverNegative)
  /\ [](part = "deferral" => Deferral!Accounted /\ Deferral!GateIsExact)
  /\ Deferral!TPlusOne

\* Freshness: what FRESH and COMPLETED_* show was seen today, whatever
\* overlaps or dies between the files; a weekend is never FRESH, a fresh day
\* stays fresh, no day is counted that was not observed (freshness.py,
\* trading.py, validation.py).
FreshnessHolds ==
  /\ part = "workdays" => Workdays!TypeOK /\ Workdays!CompletedIsToday /\ Workdays!FreshIsLasting /\ Workdays!DaysWereObserved
  /\ part = "saturday" => Saturday!CompletedIsToday /\ Saturday!FreshIsLasting /\ Saturday!DaysWereObserved

\* Market context: what is not shown is listed as missing, and only that; the
\* figures of a layer are of one feed, and the leaders and laggards are the
\* extremes of theirs (market_context.py).
ContextHolds ==
  /\ part = "home" => Home!ContextHolds
  /\ part = "abroad" => Abroad!ContextHolds
=============================================================================
