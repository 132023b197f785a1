----------------------------- MODULE RunAnalysis -----------------------------
(***************************************************************************)
(* Run Analysis in the web console (web/analysis.py) for one subject run:  *)
(* requests on the event loop start daemon worker threads, which run an    *)
(* agent and write analysis.md; in-flight and result tables live in memory *)
(* under a lock.  Subjects share nothing but the lock.                     *)
(***************************************************************************)
EXTENDS Naturals, FiniteSets

CONSTANTS
  MaxStarts,    \* bound on analysis runs
  MaxRemovals,  \* bound on removals of the artifact by the operator
  MaxCrashes    \* bound on deaths of the console process

ASSUME AnalysisAssumption ==
  MaxStarts \in Nat /\ MaxRemovals \in Nat /\ MaxCrashes \in Nat

VARIABLES
  request,    \* the event loop, inside start_analysis or not
  started,    \* analysis runs started
  worker,     \* the thread of each of them
  inFlight,   \* _in_flight of the subject
  result,     \* _results of the subject
  artifact,   \* analysis.md: who wrote it, and whether it is all there
  removals, crashes

vars == <<request, started, worker, inFlight, result, artifact, removals, crashes>>

Run == 1 .. MaxStarts
NoRun == 0
Absent == [by |-> NoRun, whole |-> FALSE]
NoResult == [state |-> "none", run |-> NoRun]

TypeOK ==
  /\ request \in {"idle", "absent"}
  /\ started \in 0 .. MaxStarts
  /\ worker \in [Run -> {"none", "working", "formatted", "writing", "opened",
                         "written", "failed", "done"}]
  /\ inFlight \in Run \cup {NoRun}
  /\ result \in [state: {"none", "completed", "failed"}, run: Run \cup {NoRun}]
  /\ artifact \in [by: Run \cup {NoRun}, whole: BOOLEAN]
  /\ removals \in 0 .. MaxRemovals /\ crashes \in 0 .. MaxCrashes

Init ==
  /\ request = "idle" /\ started = 0
  /\ worker = [w \in Run |-> "none"]
  /\ inFlight = NoRun /\ result = NoResult
  /\ artifact = Absent
  /\ removals = 0 /\ crashes = 0

Becomes(w, state) == worker' = [worker EXCEPT ![w] = state]
-----------------------------------------------------------------------------
\* start_analysis looks for the artifact first, outside the lock ...
CheckAbsent ==
  /\ request = "idle" /\ started < MaxStarts
  /\ artifact = Absent
  /\ request' = "absent"
  /\ UNCHANGED <<started, worker, inFlight, result, artifact, removals, crashes>>

\* (mutant) the run is registered whoever is in flight.
RegisterAnyway ==
  /\ request = "absent"
  /\ request' = "idle"
  /\ started' = started + 1
  /\ inFlight' = started + 1
  /\ Becomes(started + 1, "working")
  /\ UNCHANGED <<result, artifact, removals, crashes>>

\* ... and registers under it, or is refused as ANALYSIS_IN_FLIGHT.
Register ==
  /\ request = "absent"
  /\ request' = "idle"
  /\ \/ /\ inFlight = NoRun
        /\ started' = started + 1
        /\ inFlight' = started + 1
        /\ Becomes(started + 1, "working")
     \/ /\ inFlight # NoRun
        /\ UNCHANGED <<started, worker, inFlight>>
  /\ UNCHANGED <<result, artifact, removals, crashes>>

\* The agent run: a Markdown report, or a pause, a failed run, missing sections.
AgentEnds(w) ==
  /\ worker[w] = "working"
  /\ Becomes(w, "formatted") \/ Becomes(w, "failed")
  /\ UNCHANGED <<request, started, inFlight, result, artifact, removals, crashes>>

\* (mutant) the worker trusts the check the request made.
TargetTrusted(w) ==
  /\ worker[w] = "formatted"
  /\ Becomes(w, "writing")
  /\ UNCHANGED <<request, started, inFlight, result, artifact, removals, crashes>>

\* _write_new_analysis refuses an artifact that is there by now.
CheckTarget(w) ==
  /\ worker[w] = "formatted"
  /\ Becomes(w, IF artifact = Absent THEN "writing" ELSE "failed")
  /\ UNCHANGED <<request, started, inFlight, result, artifact, removals, crashes>>

\* write_text opens the file, which empties it ...
OpenFile(w) ==
  /\ worker[w] = "writing"
  /\ artifact' = [by |-> w, whole |-> FALSE]
  /\ Becomes(w, "opened")
  /\ UNCHANGED <<request, started, inFlight, result, removals, crashes>>

\* (mutant) a write that fails goes unnoticed.
WriteUnchecked(w) ==
  /\ worker[w] = "opened"
  /\ Becomes(w, "written")
  /\ \/ artifact' = IF artifact.by = w THEN [by |-> w, whole |-> TRUE] ELSE artifact
     \/ UNCHANGED artifact
  /\ UNCHANGED <<request, started, inFlight, result, removals, crashes>>

\* ... and fills it, unless the write fails.
FinishWrite(w) ==
  /\ worker[w] = "opened"
  /\ \/ /\ Becomes(w, "written")
        /\ artifact' = IF artifact.by = w THEN [by |-> w, whole |-> TRUE] ELSE artifact
     \/ Becomes(w, "failed") /\ UNCHANGED artifact
  /\ UNCHANGED <<request, started, inFlight, result, removals, crashes>>

\* Both tables change under the lock, whatever became of the run.
Record(w) ==
  /\ worker[w] \in {"written", "failed"}
  /\ inFlight' = NoRun
  /\ result' = [state |-> IF worker[w] = "written" THEN "completed" ELSE "failed", run |-> w]
  /\ Becomes(w, "done")
  /\ UNCHANGED <<request, started, artifact, removals, crashes>>

\* The operator removes analysis.md, even under a writer.
Remove ==
  /\ artifact # Absent /\ removals < MaxRemovals
  /\ removals' = removals + 1
  /\ artifact' = Absent
  /\ UNCHANGED <<request, started, worker, inFlight, result, crashes>>

\* The console dies and is started again: memory and daemon threads are gone.
Crash ==
  /\ crashes < MaxCrashes
  /\ crashes' = crashes + 1
  /\ request' = "idle"
  /\ worker' = [w \in Run |-> IF w <= started THEN "done" ELSE "none"]
  /\ inFlight' = NoRun /\ result' = NoResult
  /\ UNCHANGED <<started, artifact, removals>>
-----------------------------------------------------------------------------
Work(w) == AgentEnds(w) \/ CheckTarget(w) \/ OpenFile(w) \/ FinishWrite(w) \/ Record(w)

Next == CheckAbsent \/ Register \/ Remove \/ Crash \/ \E w \in Run : Work(w)

Spec == Init /\ [][Next]_vars

\* Threads are scheduled, and an agent run ends at its usage limits.
FairSpec == Spec /\ WF_vars(Register) /\ \A w \in Run : WF_vars(Work(w))
-----------------------------------------------------------------------------
Live == {w \in Run : worker[w] \notin {"none", "done"}}

\* A worker is alive exactly while its run is the one in flight: no second agent
\* runs on the subject, and no dead run blocks it (analysis.py:551-555, 643-645).
InFlightIsLive == Live = {inFlight} \ {NoRun}

\* A report that is all there is only ever removed, never written over: a request
\* that checked for it too early loses to the worker's own check (analysis.py:523-530;
\* T019-run-analysis-admission.md:43 "is never silently overwritten").
ReportStands == [][artifact.whole => artifact' \in {artifact, Absent}]_vars

\* With nothing in flight, a result that says completed is about the file that is
\* there: that run wrote it, to the end (analysis.py:190-206, 621-634).
CompletedIsWhole ==
  inFlight = NoRun /\ result.state = "completed" /\ artifact # Absent
    => artifact = [by |-> result.run, whole |-> TRUE]

\* A run in flight is over in the end, whatever fails in it.
InFlightClears == \A w \in Run : inFlight = w ~> inFlight # w
=============================================================================
