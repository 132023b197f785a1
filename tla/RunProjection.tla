---------------------------- MODULE RunProjection ----------------------------
(***************************************************************************)
(* What the console and the progress line say of a run: readers.py loads   *)
(* its facts in several reads while the run, in another process, goes on   *)
(* writing them; projector.py derives status, activity, rows and usage.    *)
(* A request is its number; the responses of earlier turns, which the      *)
(* history of a conversation carries, are 0.                               *)
(***************************************************************************)
EXTENDS Integers, Sequences, FiniteSets, SequencesExt

CONSTANTS
  Prior,        \* responses of earlier turns in the history
  MaxRequests,  \* bound on model requests
  MaxRetries,   \* bound on requests that fail and are tried again
  MaxLoads      \* bound on loads of the facts

ProjectionAssumption == {Prior, MaxRequests, MaxRetries, MaxLoads} \subseteq Nat

VARIABLES
  log,       \* the step events
  history,   \* the responses of the message history
  snapshot,  \* those of the latest snapshot
  receipt,   \* the verdict, "none" before
  seen,      \* what the load has read: RunFacts
  stage,     \* the reads still to do
  loads

run == <<log, history, snapshot, receipt>>
reader == <<seen, stage, loads>>
vars == <<run, reader>>

Request == 1 .. MaxRequests
Verdict == {"completed", "paused", "failed", "limit_reached"}
Kind == {"run_started", "request_started", "request_completed", "request_failed",
         "tool_started", "tool_completed", "run_completed", "run_failed"}
\* n is the request of the event, step its step_index.
Event == [kind : Kind, n : 0 .. MaxRequests, step : 0 .. MaxRequests]
Response == 0 .. MaxRequests

TypeOK ==
  /\ log \in Seq(Event) /\ history \in Seq(Response) /\ snapshot \in Seq(Response)
  /\ receipt \in Verdict \cup {"none"}
  /\ seen.receipt \in Verdict \cup {"none"}
  /\ IsPrefix(seen.log, log) /\ seen.snapshot \in Seq(Response)
  /\ stage \subseteq {"receipt", "events", "snapshot"} /\ loads \in 0 .. MaxLoads

Nothing == [receipt |-> "none", log |-> <<>>, snapshot |-> <<>>]

Init ==
  /\ log = <<>> /\ history = [i \in 1 .. Prior |-> 0] /\ snapshot = <<>> /\ receipt = "none"
  /\ seen = Nothing /\ stage = {} /\ loads = 0
-----------------------------------------------------------------------------
(* The run.                                                                *)

Count(events, kinds) == Cardinality({i \in DOMAIN events : events[i].kind \in kinds})
Ended(events) == Count(events, {"run_completed", "run_failed"}) > 0
Now == IF log = <<>> THEN "nothing" ELSE log[Len(log)].kind
Requests == Count(log, {"request_started"})
Steps == Count(log, {"request_completed"})

Emit(kind, n, step) == log' = Append(log, [kind |-> kind, n |-> n, step |-> step])

Begin == Now = "nothing" /\ Emit("run_started", 0, 0) /\ UNCHANGED <<history, snapshot, receipt, reader>>

StartRequest ==
  /\ Now \in {"run_started", "tool_completed", "request_failed"} /\ Requests < MaxRequests
  /\ Emit("request_started", Requests + 1, Steps + 1)
  /\ UNCHANGED <<history, snapshot, receipt, reader>>

Respond ==
  /\ Now = "request_started"
  /\ Emit("request_completed", Requests, Steps + 1)
  /\ history' = Append(history, Requests)
  /\ UNCHANGED <<snapshot, receipt, reader>>

RequestFails ==
  /\ Now = "request_started" /\ Count(log, {"request_failed"}) < MaxRetries
  /\ Emit("request_failed", Requests, Steps + 1)
  /\ UNCHANGED <<history, snapshot, receipt, reader>>

Tool ==
  /\ \/ Now = "request_completed" /\ Emit("tool_started", Requests, Steps)
     \/ Now = "tool_started" /\ Emit("tool_completed", Requests, Steps)
  /\ UNCHANGED <<history, snapshot, receipt, reader>>

\* A tool may be open when the run ends: a limit, a cancellation.
End ==
  /\ \/ Now = "request_completed" /\ Emit("run_completed", 0, 0)
     \/ Now \in {"request_started", "request_failed", "tool_started"} /\ Emit("run_failed", 0, 0)
  /\ UNCHANGED <<history, snapshot, receipt, reader>>

SaveSnapshot ==
  /\ ~Ended(log) /\ snapshot # history
  /\ snapshot' = history
  /\ UNCHANGED <<log, history, receipt, reader>>

\* execute_run after the agent: an ended run may have paused or met a limit.
Settle ==
  /\ Ended(log) /\ receipt = "none"
  /\ receipt' \in IF Now = "run_completed" THEN {"completed", "paused"} ELSE {"failed", "limit_reached"}
  /\ UNCHANGED <<log, history, snapshot, reader>>
-----------------------------------------------------------------------------
(* load_run_facts.                                                         *)

Load ==
  /\ stage = {} /\ loads < MaxLoads
  /\ loads' = loads + 1 /\ stage' = {"receipt", "events", "snapshot"} /\ seen' = Nothing
  /\ UNCHANGED run

\* (mutant) the order of the doc: the events first.
MayReadFirst(part) == part = "receipt" => "events" \notin stage

\* The receipt, then events and snapshot together.
MayRead(part) == part = "receipt" \/ "receipt" \notin stage

Read(part) ==
  /\ part \in stage /\ MayRead(part)
  /\ stage' = stage \ {part}
  /\ seen' = CASE part = "receipt" -> [seen EXCEPT !.receipt = receipt]
              [] part = "events" -> [seen EXCEPT !.log = log]
              [] part = "snapshot" -> [seen EXCEPT !.snapshot = snapshot]
  /\ UNCHANGED <<run, loads>>

Next ==
  \/ Begin \/ StartRequest \/ Respond \/ RequestFails \/ Tool \/ End \/ SaveSnapshot \/ Settle
  \/ Load \/ \E part \in stage : Read(part)

Spec == Init /\ [][Next]_vars
-----------------------------------------------------------------------------
(* The projection of the facts that were read.                             *)

Loaded == stage = {} /\ loads > 0
Has(kind) == Count(seen.log, {kind}) > 0

\* derive_run_status
Status ==
  IF seen.receipt # "none" THEN seen.receipt
  ELSE IF Has("run_failed") THEN "failed"
  ELSE IF Has("run_completed") THEN "completed"
  ELSE IF Has("run_started") THEN "incomplete" ELSE "unknown"

\* build_timeline: the starts in order; the k-th start of a step takes the k-th
\* end of that step.
Of(kinds) == SelectSeq(seen.log, LAMBDA e : e.kind \in kinds)
Rank(events, i) == Cardinality({j \in 1 .. i : events[j].step = events[i].step})
EndOf(i) ==
  LET starts == Of({"request_started"})
      ends == Of({"request_completed", "request_failed"})
  IN {k \in DOMAIN ends : ends[k].step = starts[i].step /\ Rank(ends, k) = Rank(starts, i)}
RowStatus(i) ==
  IF EndOf(i) = {} THEN "incomplete"
  ELSE IF Of({"request_completed", "request_failed"})[CHOOSE k \in EndOf(i) : TRUE].kind = "request_failed"
       THEN "failed" ELSE "completed"
Rows == 1 .. Count(seen.log, {"request_started"})

\* _pair_requests_and_responses: the n-th response, if there are as many as rows.
Attached(i) == IF Len(seen.snapshot) = Cardinality(Rows) THEN {seen.snapshot[i]} ELSE {}

\* A call that is open is unresolved once there is evidence of a settlement.
Open == {e.n : e \in {seen.log[i] : i \in {j \in DOMAIN seen.log : seen.log[j].kind = "tool_started"}}}
        \ {e.n : e \in {seen.log[i] : i \in {j \in DOMAIN seen.log : seen.log[j].kind = "tool_completed"}}}
Unresolved == IF seen.receipt # "none" \/ Ended(seen.log) THEN Open ELSE {}

Activity ==
  CASE seen.receipt # "none" -> Status
    [] seen.receipt = "none" /\ Ended(seen.log) -> "settling"
    [] seen.receipt = "none" /\ ~Ended(seen.log) /\ Open # {} -> "running_tool"
    [] seen.receipt = "none" /\ ~Ended(seen.log) /\ Open = {} /\ \E i \in Rows : RowStatus(i) = "incomplete" -> "running_model"
    [] OTHER -> "unknown"

\* live_usage: one unit for every response of the snapshot.
LiveUsage == Len(seen.snapshot)
-----------------------------------------------------------------------------
\* A call that was shown unresolved never completes afterwards: the reads
\* straddle the end of the run in the one order that allows this.
UnresolvedIsTrue ==
  Loaded => \A n \in Unresolved : \A i \in DOMAIN log : log[i].n = n => log[i].kind # "tool_completed"

\* A verdict shown as the activity of a run is the one its receipt keeps.
VerdictStands == [][Loaded /\ Activity \in Verdict => receipt' = Activity]_vars

\* The response shown with a request answers that request.
Attributed ==
  Loaded => \A i \in Rows : \A r \in Attached(i) : r = i

\* The usage of the progress line is at most what the run has used.
UsageIsLowerBound == Loaded => LiveUsage <= Steps
=============================================================================
