----------------------------- MODULE LiveConsole -----------------------------
(***************************************************************************)
(* The live console: the invalidation stream of the server (web/sse.py,    *)
(* web/readers.py) and the browser that follows one run                    *)
(* (web-ui/src/views/console-view.ts).  A frame says only that something   *)
(* changed; the browser debounces it and fetches the projection again.     *)
(* Requests are answered in any order.  Facts of a run are their number.   *)
(***************************************************************************)
EXTENDS Integers, FiniteSets

CONSTANTS
  Run,
  MaxFacts,   \* bound on the facts of a run
  MaxClicks,  \* bound on what the operator does
  MaxFaults   \* bound on streams that break and requests that fail

ConsoleAssumption == {MaxFacts, MaxClicks, MaxFaults} \subseteq Nat

VARIABLES
  facts,      \* persisted facts of each run
  selected,   \* ui.selectedRunId
  live, available,
  stream,     \* the run of the EventSource
  last,       \* the revision of its last frame
  frame,      \* a frame is on its way
  timer,      \* the debounce timer is set
  generation, \* projectionRequestGeneration
  requests,   \* requests on their way
  shown,      \* the projection on screen
  inspection, \* the inspection on screen, of the selected run
  failed,     \* an error is on screen
  clicks, faults

client == <<live, available, stream, last, frame, timer>>
screen == <<shown, inspection, failed>>
bounds == <<clicks, faults>>
vars == <<facts, selected, client, generation, requests, screen, bounds>>

None == "none"
Nothing == -1
Panel == {"run", "refresh", "inspection"}
Request == [panel : Panel, run : Run, generation : Nat, got : Nothing .. MaxFacts]

TypeOK ==
  /\ facts \in [Run -> 0 .. MaxFacts] /\ selected \in Run
  /\ {live, available, frame, timer, failed} \subseteq BOOLEAN
  /\ stream \in Run \cup {None} /\ last \in 0 .. MaxFacts
  /\ stream # None => live /\ available /\ stream = selected
  /\ timer => stream # None
  /\ generation \in Nat /\ requests \subseteq Request
  /\ shown \in [run : Run \cup {None}, at : Nothing .. MaxFacts]
  /\ inspection \in Nothing .. MaxFacts

\* connectedCallback: the run of the address, or the newest of the list.
Init ==
  /\ facts = [r \in Run |-> 0] /\ selected \in Run
  /\ live = TRUE /\ available = TRUE /\ stream = selected /\ last = 0
  /\ frame = FALSE /\ timer = FALSE /\ generation = 1
  /\ requests = {[panel |-> "run", run |-> selected, generation |-> 1, got |-> Nothing]}
  /\ shown = [run |-> None, at |-> Nothing] /\ inspection = Nothing /\ failed = FALSE
  /\ clicks = 0 /\ faults = 0
-----------------------------------------------------------------------------
(* The server.                                                             *)

\* A run writes an event or its receipt.
Fact(r) ==
  /\ facts[r] < MaxFacts
  /\ facts' = [facts EXCEPT ![r] = @ + 1]
  /\ UNCHANGED <<selected, client, generation, requests, screen, bounds>>

\* run_changed_stream: a frame when the revision is not the last one sent; a
\* run without facts has no revision yet.
StreamPoll ==
  /\ stream # None /\ facts[stream] # last
  /\ last' = facts[stream] /\ frame' = TRUE
  /\ UNCHANGED <<facts, selected, live, available, stream, timer, generation, requests, screen, bounds>>

\* get_run, get_run_inspection: the facts at the time of the read.
Serve(q) ==
  /\ q \in requests /\ q.got = Nothing
  /\ requests' = (requests \ {q}) \cup {[q EXCEPT !.got = facts[q.run]]}
  /\ UNCHANGED <<facts, selected, client, generation, screen, bounds>>
-----------------------------------------------------------------------------
(* The browser.                                                            *)

Ask(panel, r) == [panel |-> panel, run |-> r, generation |-> generation + 1, got |-> Nothing]

\* closeStream and syncStream: a stream follows the selected run or nothing.
Follow(r) ==
  IF stream = r
  THEN UNCHANGED <<stream, last, frame, timer>>
  ELSE stream' = r /\ last' = 0 /\ frame' = FALSE /\ timer' = FALSE

FrameArrives ==
  /\ frame
  /\ frame' = FALSE /\ timer' = TRUE
  /\ UNCHANGED <<facts, selected, live, available, stream, last, generation, requests, screen, bounds>>

\* scheduleInvalidate's timer: the projection and the open inspection.
TimerFires ==
  /\ timer
  /\ timer' = FALSE
  /\ generation' = generation + 1
  /\ requests' = requests \cup {Ask("run", selected), Ask("inspection", selected)}
  /\ UNCHANGED <<facts, selected, live, available, stream, last, frame, screen, bounds>>

StreamBreaks ==
  /\ stream # None /\ faults < MaxFaults
  /\ live' = FALSE /\ available' = FALSE /\ Follow(None)
  /\ faults' = faults + 1
  /\ UNCHANGED <<facts, selected, generation, requests, screen, clicks>>

Click == clicks < MaxClicks /\ clicks' = clicks + 1 /\ UNCHANGED faults

\* selectRun, and refresh when the run is the selected one: an explicit retry.
Select(r, panel) ==
  /\ Click
  /\ panel = "refresh" => r = selected
  /\ selected' = r
  /\ live' = TRUE /\ available' = TRUE /\ Follow(r)
  /\ inspection' = IF r = selected THEN inspection ELSE Nothing
  /\ generation' = generation + 1
  /\ requests' = requests \cup {Ask(panel, r)}
  /\ UNCHANGED <<facts, shown, failed>>

\* Selecting an event pauses; resuming fetches at once.
SetLive ==
  /\ Click
  /\ ~live => available
  /\ live' = ~live /\ Follow(IF live THEN None ELSE selected)
  /\ IF live THEN UNCHANGED <<generation, requests>>
     ELSE generation' = generation + 1 /\ requests' = requests \cup {Ask("run", selected)}
  /\ UNCHANGED <<facts, selected, available, screen>>

\* (mutant) any answer for the selected run is shown.
CurrentRun(q) == q.run = selected

\* isCurrent: the answer to the latest request, for the run still selected.
Current(q) == q.generation = generation /\ q.run = selected

Receive(q) ==
  /\ q \in requests /\ q.got # Nothing
  /\ IF q.panel = "inspection"
     THEN /\ inspection' = IF q.run = selected THEN q.got ELSE inspection
          /\ UNCHANGED <<shown, failed>>
     ELSE /\ IF Current(q)
             THEN shown' = [run |-> q.run, at |-> q.got] /\ failed' = FALSE
             ELSE UNCHANGED <<shown, failed>>
          /\ UNCHANGED inspection
  /\ IF q.panel = "refresh" /\ q.run = selected
     THEN /\ generation' = generation
          /\ requests' = (requests \ {q}) \cup {[Ask("inspection", q.run) EXCEPT !.generation = generation]}
     ELSE requests' = requests \ {q} /\ UNCHANGED generation
  /\ UNCHANGED <<facts, selected, client, bounds>>

Fails(q) ==
  /\ q \in requests /\ q.panel # "inspection" /\ faults < MaxFaults
  /\ faults' = faults + 1
  /\ requests' = requests \ {q}
  /\ failed' = (failed \/ Current(q))
  /\ UNCHANGED <<facts, selected, client, generation, shown, inspection, clicks>>

\* Every request is served, every answer arrives.
ServeSome == \E q \in requests : Serve(q)
ReceiveSome == \E q \in requests : Receive(q)

Next ==
  \/ \E r \in Run : Fact(r) \/ Select(r, "run") \/ Select(r, "refresh")
  \/ StreamPoll \/ FrameArrives \/ TimerFires \/ StreamBreaks \/ SetLive
  \/ ServeSome \/ ReceiveSome \/ \E q \in requests : Fails(q)

Spec == Init /\ [][Next]_vars

FairSpec ==
  /\ Spec
  /\ WF_vars(StreamPoll) /\ WF_vars(FrameArrives) /\ WF_vars(TimerFires)
  /\ WF_vars(ServeSome) /\ WF_vars(ReceiveSome)
-----------------------------------------------------------------------------
\* However answers are reordered, the projection on screen never goes back to
\* fewer facts of its run, and it changes only to the selected run.
NeverBackwards ==
  [][shown' # shown =>
       /\ shown'.run = selected
       /\ shown'.run = shown.run => shown'.at >= shown.at]_shown

\* While the console stays live, every fact of the selected run is on screen
\* in the end, or an error is.
CatchesUp ==
  <>[]live
    => []<>(failed \/ shown = [run |-> selected, at |-> facts[selected]])

\* The same of the inspection panel.
InspectionCatchesUp ==
  <>[](live /\ inspection # Nothing) => []<>(inspection = facts[selected])
=============================================================================
