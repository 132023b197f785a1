------------------------------ MODULE MCPlugins ------------------------------
(***************************************************************************)
(* The plugins and the loop around the worker: case files, customer        *)
(* records and policy, strategy rounds, the candidate ranking, the         *)
(* supervisor loop, and the market data and decisions of MCMarket.  A      *)
(* behaviour takes the steps of one of them; "hands" is the loop with      *)
(* reports published by hand.                                              *)
(***************************************************************************)
EXTENDS MCMarket, TLC

CONSTANTS
  r1, r2, k1, k2, Unbound, key, value, Nothing, Installed, plan, twin, steel, unlisted,
  t1, t2, h1, Elsewhere

VARIABLES
  drafts, situation, trajectory, call, case_calls, case_phase, case_pending, card, pauses, case_crashes, tool_told, sent, latest, raced,
  client, history, receipts, client_step, records, client_deaths, returned, overlapped, wrecked,
  customer, topics, decision,
  symbols, round_csv, store, used, round, evidence, round_answers, second, kills, changes, disturbed,
  figures, ranked,
  control, kind, last, workers, outbox, at, head, desk, reports, merges, pushes, faults, launched, told, excused

casefile == <<drafts, situation, trajectory, call, case_calls, case_phase, case_pending, card, pauses, case_crashes, tool_told, sent, latest, raced>>
customers == <<client, history, receipts, client_step, records, client_deaths, returned, overlapped, wrecked>>
policy == <<customer, topics, decision>>
strategy == <<symbols, round_csv, store, used, round, evidence, round_answers, second, kills, changes, disturbed>>
ranking == <<figures, ranked>>
loop == <<control, kind, last, workers, outbox, at, head, desk, reports, merges, pushes, faults, launched, told, excused>>

Case == INSTANCE CaseDesk WITH told <- tool_told, calls <- case_calls, phase <- case_phase, pending <- case_pending, crashes <- case_crashes,
          Case <- {a}, Run <- {r1, r2}, Call <- {k1, k2}, Bound <- (r1 :> a) @@ (r2 :> Unbound),
          Key <- {key}, Value <- {value}, MaxCalls <- 3, MaxPauses <- 1, MaxCrashes <- 1
Records == INSTANCE ClientRecords WITH state <- client, step <- client_step, deaths <- client_deaths, Thread <- {k1, k2}, MaxRecords <- 3, MaxDeaths <- 1
Policy == INSTANCE ClientPolicy WITH MaxTopics <- 3
Round == INSTANCE StrategyRound WITH call <- round, csv <- round_csv, answers <- round_answers, Call <- {k1, k2}, Toolset <- (k1 :> 1) @@ (k2 :> 2), Universe <- <<"s1", "s2">>,
           Newcomer <- "s3", Name <- {plan, twin}, MaxSeconds <- 1, MaxKills <- 1, MaxChanges <- 1

\* Four symbols, three of one industry; what a build can be told of one.
Plain == [pe |-> 2, pb |-> 1, own |-> 6, dividend |-> 0, roe |-> 1, cfo |-> 6, cfo_low |-> FALSE, debt |-> 1, growth |-> 6,
          turnover |-> 6, rows |-> 12, timing |-> 0, stale |-> FALSE, fresh |-> TRUE]
Known == {Plain, [Plain EXCEPT !.debt = 2], [Plain EXCEPT !.pe = 1, !.debt = 2], [Plain EXCEPT !.pb = 2, !.dividend = 1]}
Rank == INSTANCE CandidateRank WITH snapshot <- ranked, Symbol <- 1 .. 4, Industry <- (1 :> steel) @@ (2 :> steel) @@ (3 :> unlisted) @@ (4 :> steel), Financial <- {},
          Unknown <- unlisted, Figures <- Known, DeepMax <- 3, Legacy <- {}, MinPeers <- 2, SectorCap <- 1, Board <- 2, PoolMax <- 3,
          TierA <- 600, TierB <- 500, TierC <- 400

Loop == INSTANCE SupervisorLoop WITH Poll <- {t1, t2}, Hand <- {}, MaxCommits <- 2, MaxPushes <- 1, MaxFaults <- 1,
          Paced <- FALSE
Hands == INSTANCE SupervisorLoop WITH Poll <- {t1}, Hand <- {h1}, MaxCommits <- 1, MaxPushes <- 1, MaxFaults <- 1,
           Paced <- FALSE

ASSUME Case!CaseAssumption /\ Records!RecordsAssumption /\ Policy!PolicyAssumption /\ Round!RoundAssumption
ASSUME Rank!RankAssumption /\ Loop!LoopAssumption /\ Hands!LoopAssumption

\* The customer and the figures vary only where they matter.
PluginStart ==
  /\ Case!Init /\ Records!Init /\ Policy!Init /\ Round!Init
  /\ IF part = "hands" THEN Hands!Init ELSE Loop!Init
  /\ part # "policy" => customer = [authority |-> "known", budget |-> "known", software_need |-> "yes", disclosed |-> 0]
  /\ IF part = "rank" THEN Rank!Init
     ELSE figures = [x \in 1 .. 4 |-> Plain] /\ ranked = Rank!BuildSnapshot(figures)

PluginsInit ==
  \/ part \in {"case", "records", "policy", "round", "rank", "loop", "hands"} /\ PluginStart /\ MarketStart
  \/ MarketInit /\ PluginStart

PluginsNext ==
  /\ UNCHANGED part
  /\ \/ part = "case" /\ Case!Next /\ UNCHANGED <<customers, policy, strategy, ranking, loop, market_vars>>
     \/ part = "records" /\ Records!Next /\ UNCHANGED <<casefile, policy, strategy, ranking, loop, market_vars>>
     \/ part = "policy" /\ Policy!Next /\ UNCHANGED <<casefile, customers, strategy, ranking, loop, market_vars>>
     \/ part = "round" /\ Round!Next /\ UNCHANGED <<casefile, customers, policy, ranking, loop, market_vars>>
     \/ part = "rank" /\ Rank!Next /\ UNCHANGED <<casefile, customers, policy, strategy, loop, market_vars>>
     \/ part = "loop" /\ Loop!Next /\ UNCHANGED <<casefile, customers, policy, strategy, ranking, market_vars>>
     \/ part = "hands" /\ Hands!Next /\ UNCHANGED <<casefile, customers, policy, strategy, ranking, market_vars>>
     \/ MarketNext /\ UNCHANGED <<casefile, customers, policy, strategy, ranking, loop>>

PluginsSpec == PluginsInit /\ [][PluginsNext]_<<part, casefile, customers, policy, strategy, ranking, loop, market_vars>>
-----------------------------------------------------------------------------
\* Case files: what is sent is what the card showed and the tool saved, no
\* belief is lost, no claim is without provenance, the steps are in order
\* (zuaef_case, store.py and toolset.py).
CaseHolds ==
  part = "case" =>
    /\ Case!TypeOK /\ Case!SentAsShown /\ Case!BeliefsKept
    /\ Case!ClaimsHaveProvenance /\ Case!StepsInOrder

\* Customer records: a confirmed exchange has its receipt, and what it replaced
\* is in the history (zuaef_client_service, store.py).
RecordsHold == part = "records" => Records!TypeOK /\ Records!ConfirmedHasReceipt /\ Records!HistoryKept /\ Records!OneSuccessor

\* Policy: no message is answered without approval or with the full method, and
\* asking for more never loosens what binds the answer (policy.py).
AskingMoreNeverLoosens == [](part = "policy" => Policy!BoundaryHolds) /\ Policy!AskingMoreNeverLoosens

\* Strategy rounds: an answer is the evaluation of its own call, and covers the
\* universe it names (zuaef_quant, toolset.py and eval_sidecar.py).
RoundHolds == part = "round" => Round!TypeOK /\ Round!AnswerIsOwn /\ Round!EvidenceIsWhole

\* Ranking: the board keeps the cap of an industry, who is not in the pool has
\* better names before it, and a symbol whose figures got better does not fall
\* (candidates_sidecar.py).
RankingHolds == [](part = "rank" => Rank!PoolHolds) /\ Rank!BetterNeverLower

\* Supervisor loop: no instruction is launched twice or passed over, who is told
\* of a report finds it, and a published report stays (supervisor_loop.py).
LoopHolds ==
  /\ [](part = "loop" => Loop!TypeOK /\ Loop!PublishedIsThere /\ Loop!NothingSkipped)
  /\ [](part = "hands" => Hands!LaunchedOnce) /\ Hands!ReportsStand
=============================================================================
