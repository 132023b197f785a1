------------------------------ MODULE Watchdog ------------------------------
(***************************************************************************)
(* The progress watchdog of a run (gateway/service.py): a daemon thread    *)
(* that the dispatcher starts before the run and stops after it, without   *)
(* ever waiting for it.  Time is abstracted: a checkpoint may fall at any  *)
(* moment before the stop event is set.                                    *)
(***************************************************************************)
EXTENDS Naturals, FiniteSets

CONSTANT MaxRuns   \* bound on runs the dispatcher starts

ASSUME WatchdogAssumption == MaxRuns \in Nat

VARIABLES
  pc,          \* the dispatcher
  run,         \* the run it is on: the last one started
  registered,  \* keys of _progress_stops
  stopped,     \* runs whose stop event is set
  dog,         \* the watchdog thread of each run
  told,        \* runs whose outcome reached the chat
  lines,       \* progress lines of each run that reached the chat (2: several)
  late         \* ... after its outcome

vars == <<pc, run, registered, stopped, dog, told, lines, late>>

Run == 1 .. MaxRuns

TypeOK ==
  /\ pc \in {"idle", "running", "popped", "settle"}
  /\ run \in 0 .. MaxRuns
  /\ registered \subseteq Run /\ stopped \subseteq Run /\ told \subseteq Run
  /\ dog \in [Run -> {"none", "waiting", "woken", "collecting", "sending", "done"}]
  /\ lines \in [Run -> 0 .. 2] /\ late \in [Run -> 0 .. 2]

Init ==
  /\ pc = "idle" /\ run = 0
  /\ registered = {} /\ stopped = {} /\ told = {}
  /\ dog = [r \in Run |-> "none"]
  /\ lines = [r \in Run |-> 0] /\ late = [r \in Run |-> 0]

Count(f, r) == [f EXCEPT ![r] = IF @ = 2 THEN 2 ELSE @ + 1]
-----------------------------------------------------------------------------
(* The dispatcher.                                                         *)

\* _start_progress_watchdog, then the run itself.
StartWatchdog ==
  /\ pc = "idle" /\ run < MaxRuns
  /\ run' = run + 1
  /\ registered' = registered \cup {run + 1}
  /\ dog' = [dog EXCEPT ![run + 1] = "waiting"]
  /\ pc' = "running"
  /\ UNCHANGED <<stopped, told, lines, late>>

\* (mutant) a refused run (CompositionError) returns without the stop.
RefusalKeepsWatchdog ==
  /\ pc = "running"
  /\ \/ registered' = registered \ {run} /\ pc' = "popped"
     \/ UNCHANGED registered /\ pc' = "settle"
  /\ UNCHANGED <<run, stopped, dog, told, lines, late>>

\* _stop_progress_watchdog: the entry is popped under the lock ...
PopStop ==
  /\ pc = "running"
  /\ registered' = registered \ {run}
  /\ pc' = "popped"
  /\ UNCHANGED <<run, stopped, dog, told, lines, late>>

\* ... and the event is set outside it.
SetStop ==
  /\ pc = "popped"
  /\ stopped' = stopped \cup {run}
  /\ pc' = "settle"
  /\ UNCHANGED <<run, registered, dog, told, lines, late>>

\* The outcome, the approval card or the refusal; the send may fail.
TellOutcome ==
  /\ pc = "settle"
  /\ told' = told \cup {run} \/ UNCHANGED told
  /\ pc' = "idle"
  /\ UNCHANGED <<run, registered, stopped, dog, lines, late>>
-----------------------------------------------------------------------------
(* The watchdog of run r.                                                  *)

Becomes(r, state) == dog' = [dog EXCEPT ![r] = state]

\* stop.wait returns: the event is set, or the checkpoint is due.
Wake(r) ==
  /\ dog[r] = "waiting"
  /\ Becomes(r, IF r \in stopped THEN "done" ELSE "woken")
  /\ UNCHANGED <<pc, run, registered, stopped, told, lines, late>>

\* The registration is looked up once, under the lock.
CheckRegistered(r) ==
  /\ dog[r] = "woken"
  /\ Becomes(r, IF r \in registered THEN "collecting" ELSE "done")
  /\ UNCHANGED <<pc, run, registered, stopped, told, lines, late>>

\* _progress_facts reads the run's files: best effort, no lock.
CollectFacts(r) ==
  /\ dog[r] = "collecting"
  /\ Becomes(r, "sending")
  /\ UNCHANGED <<pc, run, registered, stopped, told, lines, late>>

\* A failed send is logged and the thread goes on.
SendLine(r) ==
  /\ dog[r] = "sending"
  /\ \/ /\ lines' = Count(lines, r)
        /\ late' = IF r \in told THEN Count(late, r) ELSE late
     \/ UNCHANGED <<lines, late>>
  /\ Becomes(r, "waiting")
  /\ UNCHANGED <<pc, run, registered, stopped, told>>
-----------------------------------------------------------------------------
Dispatcher == StartWatchdog \/ PopStop \/ SetStop \/ TellOutcome
Dog(r) == Wake(r) \/ CheckRegistered(r) \/ CollectFacts(r) \/ SendLine(r)

Next == Dispatcher \/ \E r \in Run : Dog(r)

Spec == Init /\ [][Next]_vars

\* The run ends (usage limits), sends time out and threads are scheduled.
FairSpec ==
  /\ Spec
  /\ WF_vars(PopStop \/ SetStop \/ TellOutcome)
  /\ \A r \in Run : WF_vars(Dog(r))
-----------------------------------------------------------------------------
\* However the check and the stop interleave, at most one progress line of a
\* run follows its outcome (service.py:842-858).
OneLateLine == \A r \in Run : late[r] <= 1

\* Between runs the registry is empty: a refused run leaves nothing behind.
RegistryQuiet == pc = "idle" => registered = {}

\* The thread of a run that is over ends, even if a line is on its way.
WatchdogEnds == \A r \in Run : r \in told ~> dog[r] = "done"
-----------------------------------------------------------------------------
\* 02_TRANSIENT_STATE_MACHINE.md:99-107 (progress telemetry v0.1): "The watchdog
\* checks stop/registration ... after fact collection ... immediately before send".
LineOnlyWhileRegistered ==
  [][\A r \in Run : lines'[r] > lines[r] => r \in registered]_vars
=============================================================================
