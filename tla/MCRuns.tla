------------------------------- MODULE MCRuns -------------------------------
(***************************************************************************)
(* What a run leaves behind and the console shows of it: settlement, the   *)
(* projection, the summary, the run list, the open run, its actions, the   *)
(* report of its analysis; and the page of zuaef_quant, as a board, for    *)
(* its form, its confirmations and its quality line.  A behaviour takes    *)
(* the steps of one.                                                       *)
(***************************************************************************)
EXTENDS Settlement

CONSTANTS a, b, Torn, Null

VARIABLES
  part,
  log, history, snapshot, outcome, seen, stage, loads,
  times, tail, list_generation, asks, list, cursor, top,
  flight, results, thread, target, told, acts, deaths,
  facts, selected, live, available, stream, last, frame, timer, generation, requests, shown, inspection, failed, clicks, faults,
  rows, facts_file, view, scope, found, limits, page, excerpts,
  stage_of, progress, bound, exported, read, lines, report,
  clock, trading_hours, cycle, opportunities, held, state, soak, alerts, briefs, now, now_shown, form, posts, message,
  pool, universe, scan_of, proof, validating, audit, quality, cycles, now_asks, now_faults

project == <<log, history, snapshot, outcome, seen, stage, loads>>
listing == <<times, tail, list_generation, asks, list, cursor, top>>
acting == <<flight, results, thread, target, told, acts, deaths>>
watching == <<facts, selected, live, available, stream, last, frame, timer, generation, requests, shown, inspection, failed, clicks, faults>>
summary == <<rows, facts_file, view, scope, found, limits, page, excerpts>>
reporting == <<stage_of, progress, bound, exported, read, lines, report>>
deciding == <<clock, trading_hours, cycle, opportunities, held, state, soak, alerts, briefs, now, now_shown, form, posts, message,
              pool, universe, scan_of, proof, validating, audit, quality, cycles, now_asks, now_faults>>

Project == INSTANCE RunProjection WITH receipt <- outcome, Prior <- 0, MaxRequests <- 3, MaxRetries <- 1, MaxLoads <- 2
Pairs == INSTANCE RunProjection WITH receipt <- outcome, Prior <- 0, MaxRequests <- 4, MaxRetries <- 0, MaxLoads <- 1
List == INSTANCE ConsoleList WITH started <- times, generation <- list_generation, requests <- asks, base <- top,
          MaxRuns <- 7, Known <- 4, Unstamped <- {1, 2}, Asked <- {1, 2, 3, 4, 5, 7}, PageSize <- 2, MaxAsks <- 4
Actions == INSTANCE ConsoleActions WITH inFlight <- flight, worker <- thread, crashes <- deaths, Run <- {a, b}, MaxActs <- 3, MaxCrashes <- 1
Console == INSTANCE LiveConsole WITH Run <- {a, b}, MaxFacts <- 1, MaxClicks <- 1, MaxFaults <- 1
Summary == INSTANCE RunInspection WITH receipt <- facts_file, pc <- view, Tool <- {"x", "y"}, Latency <- {1, 2}, Input <- {0, 1},
             TopN <- 1, ChronologyLimit <- 2, ListCap <- 1, RankingLimit <- 2, Budget <- 8, MaxRequests <- 2, PartCap <- 3,
             ExcerptBudget <- 4, Artifacts <- {0, 2}, MaxRows <- 3, MaxParts <- 4
Lines == {[text |-> t, deep |-> FALSE] : t \in {"one", "three", "two", "fence", "long fence", "text"}} \cup {[text |-> "two", deep |-> TRUE]}
Report == INSTANCE AnalysisReport WITH pc <- stage_of, facts <- progress, Required <- <<"one", "three">>, Host <- "two", Line <- Lines,
            Size <- 3, Limit <- 2, MaxLines <- 5, MaxGrowth <- 1
Desk == INSTANCE DecisionBoard WITH shown <- now_shown, snapshot <- pool, asks <- now_asks, faults <- now_faults, Symbol <- {1}, Request <- {1},
          StaleAfter <- 0, WritesEnabled <- TRUE, AlertTail <- 1, Pool <- {1}, MaxTime <- 2, MaxCycles <- 2, MaxBriefs <- 1, MaxForms <- 0, MaxPosts <- 0, MaxBuilds <- 0, MaxProofs <- 0, MaxRenders <- 0, MaxAsks <- 1, MaxFaults <- 1
Form == INSTANCE DecisionBoard WITH shown <- now_shown, snapshot <- pool, asks <- now_asks, faults <- now_faults, Symbol <- {1}, Request <- {1},
          StaleAfter <- 1, WritesEnabled <- TRUE, AlertTail <- 9, Pool <- {1}, MaxTime <- 1, MaxCycles <- 0, MaxBriefs <- 0, MaxForms <- 2, MaxPosts <- 2, MaxBuilds <- 0, MaxProofs <- 0, MaxRenders <- 0, MaxAsks <- 0, MaxFaults <- 1
Confirmed == INSTANCE DecisionBoard WITH shown <- now_shown, snapshot <- pool, asks <- now_asks, faults <- now_faults, Symbol <- {1}, Request <- {1},
          StaleAfter <- 1, WritesEnabled <- TRUE, AlertTail <- 9, Pool <- {1}, MaxTime <- 2, MaxCycles <- 1, MaxBriefs <- 1, MaxForms <- 1, MaxPosts <- 1, MaxBuilds <- 0, MaxProofs <- 0, MaxRenders <- 0, MaxAsks <- 1, MaxFaults <- 0
Quality == INSTANCE DecisionBoard WITH shown <- now_shown, snapshot <- pool, asks <- now_asks, faults <- now_faults, Symbol <- {1}, Request <- {1},
          StaleAfter <- 1, WritesEnabled <- TRUE, AlertTail <- 1, Pool <- {2}, MaxTime <- 2, MaxCycles <- 0, MaxBriefs <- 0, MaxForms <- 0, MaxPosts <- 0, MaxBuilds <- 2, MaxProofs <- 1, MaxRenders <- 1, MaxAsks <- 0, MaxFaults <- 0

ASSUME Desk!BoardAssumption /\ Form!BoardAssumption /\ Confirmed!BoardAssumption /\ Quality!BoardAssumption
ASSUME Summary!InspectionAssumption /\ Report!ReportAssumption
ASSUME SettlementAssumption /\ Project!ProjectionAssumption /\ Pairs!ProjectionAssumption
ASSUME List!ListAssumption /\ Actions!ActionsAssumption /\ Console!ConsoleAssumption

RunsInit ==
  /\ Init /\ Project!Init /\ List!Init /\ Actions!Init /\ Console!Init /\ Summary!Init /\ Report!Init /\ Desk!Init
  /\ part \in {"settlement", "projection", "pairs", "list", "actions", "console", "summary", "report", "desk", "form", "confirmed", "quality"}
  /\ part # "console" => selected = a
  /\ part # "list" => tail = <<1, 2>>

RunsNext ==
  /\ UNCHANGED part
  /\ \/ part = "settlement" /\ Next /\ UNCHANGED <<deciding, summary, reporting, project, listing, acting, watching>>
     \/ part = "projection" /\ Project!Next /\ UNCHANGED <<deciding, summary, reporting, vars, listing, acting, watching>>
     \/ part = "pairs" /\ Pairs!Next /\ UNCHANGED <<deciding, summary, reporting, vars, listing, acting, watching>>
     \/ part = "list" /\ List!Next /\ UNCHANGED <<deciding, summary, reporting, vars, project, acting, watching>>
     \/ part = "actions" /\ Actions!Next /\ UNCHANGED <<deciding, summary, reporting, vars, project, listing, watching>>
     \/ part = "console" /\ Console!Next /\ UNCHANGED <<deciding, summary, reporting, vars, project, listing, acting>>
     \/ part = "summary" /\ Summary!Next /\ UNCHANGED <<deciding, reporting, vars, project, listing, acting, watching>>
     \/ part = "report" /\ Report!Next /\ UNCHANGED <<deciding, summary, vars, project, listing, acting, watching>>
     \/ part = "desk" /\ Desk!Next /\ UNCHANGED <<summary, reporting, vars, project, listing, acting, watching>>
     \/ part = "form" /\ Form!Next /\ UNCHANGED <<summary, reporting, vars, project, listing, acting, watching>>
     \/ part = "confirmed" /\ Confirmed!Next /\ UNCHANGED <<summary, reporting, vars, project, listing, acting, watching>>
     \/ part = "quality" /\ Quality!Next /\ UNCHANGED <<summary, reporting, vars, project, listing, acting, watching>>

RunsSpec == RunsInit /\ [][RunsNext]_<<part, deciding, summary, reporting, vars, project, listing, acting, watching>>
-----------------------------------------------------------------------------
\* Projection: a call shown open had no end when it was read, usage is never
\* over what was spent, a verdict is never taken back, and every request is
\* shown with its own answer (readers.py, projector.py).
ProjectionIsTrue ==
  /\ [](part = "projection" => Project!TypeOK /\ Project!UnresolvedIsTrue /\ Project!UsageIsLowerBound)
  /\ Project!VerdictStands
  /\ [](part = "pairs" => Pairs!Attributed)

\* Run list and actions: page by page no run is missing but of those without a
\* start, newest first and none twice, as far as no more runs start than a page
\* holds, and a paused run is resumed by one thread at most (api.py,
\* console-view.ts, actions.py).
ConsoleHolds ==
  /\ part = "list" => List!TypeOK /\ List!NothingMissing /\ List!NewestFirst /\ List!LateRunsStayOff
  /\ part = "actions" => Actions!TypeOK /\ Actions!OneResume

\* Summary: the largest known requests are ranked, no call is lost between the
\* events and the receipt, and through both cuts what is shown and what is said
\* to be omitted are all there is (inspection.py, analysis_projector.py).
SummaryIsTrue ==
  part = "summary" =>
    /\ Summary!TypeOK /\ Summary!RankingsAreTop /\ Summary!ActivityAccounts /\ Summary!CountsAddUp
    /\ Summary!UnknownCutLast /\ Summary!RaisedIsEmpty /\ Summary!OpenCallsTold /\ Summary!ExcerptsArePrefix

\* Report: its reader finds every section once and in order, it is refused only
\* for cause, and all of it is of one load (analysis.py, analysis_store.py).
ReportIsWhole ==
  part = "report" => Report!TypeOK /\ Report!SectionsAreSeen /\ Report!RefusedForCause /\ Report!OneLoad

\* Open run: the projection on screen never goes back (console-view.ts).
NeverBackwards == [](part = "console" => Console!TypeOK) /\ Console!NeverBackwards

\* Decision board: no judgement is older than its event, HEALTHY and green are
\* earned, what is confirmed is recorded and shown, and two judges of the
\* evidence agree, whatever is written between two reads (render.py, serve.py,
\* continuity.py).
BoardHolds ==
  /\ part = "desk" => Desk!BoardHolds
  /\ part = "form" => Form!BoardHolds
  /\ part = "confirmed" => Confirmed!BoardHolds
  /\ part = "quality" => Quality!BoardHolds
=============================================================================
