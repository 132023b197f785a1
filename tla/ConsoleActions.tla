---------------------------- MODULE ConsoleActions ----------------------------
(***************************************************************************)
(* Approve and deny in the console (web/actions.py, web/api.py): a request *)
(* on the event loop registers the run and starts a daemon thread, which   *)
(* resumes the run and files the result.  The two tables live in memory;   *)
(* the pause receipt of a resumed run stays as it is.                      *)
(***************************************************************************)
EXTENDS Naturals, FiniteSets

CONSTANTS
  Run,        \* runs with a pause receipt
  MaxActs,    \* bound on accepted requests
  MaxCrashes  \* bound on deaths of the console

ActionsAssumption == {MaxActs, MaxCrashes} \subseteq Nat

VARIABLES
  inFlight, \* _in_flight
  results,  \* _results
  worker,   \* the thread of each accepted request
  target,   \* and the run it resumes
  told,     \* what the operator has been shown of a run
  acts, crashes

vars == <<inFlight, results, worker, target, told, acts, crashes>>

Act == 1 .. MaxActs
Outcome == {"completed", "failed", "limit_reached", "paused", "error"}
NoResult == "none"
NoRun == "no run"

TypeOK ==
  /\ inFlight \subseteq Run /\ results \in [Run -> Outcome \cup {NoResult}]
  /\ worker \in [Act -> Outcome \cup {"none", "resuming", "gone"}]
  /\ target \in [Act -> Run \cup {NoRun}]
  /\ told \in [Run -> SUBSET (Outcome \cup {"in_flight"})]
  /\ \A r \in inFlight : \E a \in Act : target[a] = r /\ worker[a] \in Outcome \cup {"resuming"}
  /\ acts \in 0 .. MaxActs /\ crashes \in 0 .. MaxCrashes

Init ==
  /\ inFlight = {} /\ results = [r \in Run |-> NoResult]
  /\ worker = [a \in Act |-> "none"] /\ target = [a \in Act |-> NoRun]
  /\ told = [r \in Run |-> {}] /\ acts = 0 /\ crashes = 0
-----------------------------------------------------------------------------
\* start_resume, under the lock.
MayStart(r) == r \notin inFlight

\* _act: nothing awaits between the receipt, the table and the thread.
Accept(r) ==
  /\ acts < MaxActs /\ MayStart(r)
  /\ acts' = acts + 1
  /\ inFlight' = inFlight \cup {r}
  /\ worker' = [worker EXCEPT ![acts + 1] = "resuming"]
  /\ target' = [target EXCEPT ![acts + 1] = r]
  /\ UNCHANGED <<results, told, crashes>>

\* resume_paused_run returns or raises.
ResumeEnds(a) ==
  /\ worker[a] = "resuming"
  /\ \E o \in Outcome : worker' = [worker EXCEPT ![a] = o]
  /\ UNCHANGED <<inFlight, results, target, told, acts, crashes>>

Files(a) == worker[a] \in Outcome

\* The result, whatever it is, and the end of the flight.
FileResult(a) ==
  /\ Files(a)
  /\ inFlight' = inFlight \ {target[a]}
  /\ results' = [results EXCEPT ![target[a]] = worker[a]]
  /\ worker' = [worker EXCEPT ![a] = "gone"]
  /\ UNCHANGED <<target, told, acts, crashes>>

\* get_run shows action_in_flight and the receipt of the run.
Shown(r) == IF r \in inFlight THEN "in_flight" ELSE "paused"

Look(r) ==
  /\ told' = [told EXCEPT ![r] = @ \cup {Shown(r)}]
  /\ UNCHANGED <<inFlight, results, worker, target, acts, crashes>>

ConsoleDies ==
  /\ crashes < MaxCrashes
  /\ crashes' = crashes + 1
  /\ inFlight' = {} /\ results' = [r \in Run |-> NoResult]
  /\ worker' = [a \in Act |-> IF worker[a] = "none" THEN "none" ELSE "gone"]
  /\ UNCHANGED <<target, told, acts>>

Next ==
  \/ \E r \in Run : Accept(r) \/ Look(r)
  \/ \E a \in Act : ResumeEnds(a) \/ FileResult(a)
  \/ ConsoleDies

Spec == Init /\ [][Next]_vars
FairSpec ==
  /\ Spec
  /\ \A r \in Run : WF_vars(Look(r))
  /\ \A a \in Act : WF_vars(ResumeEnds(a)) /\ WF_vars(FileResult(a))
-----------------------------------------------------------------------------
\* However requests and threads interleave, a run is resumed by at most one
\* thread, and it is one whose run is known to be in flight.
OneResume ==
  \A a, b \in Act :
    worker[a] \in Outcome \cup {"resuming"}
      => /\ target[a] \in inFlight
         /\ worker[b] \in Outcome \cup {"resuming"} /\ target[a] = target[b] => a = b

\* A run does not stay in flight: whatever the resume does, a later request
\* can be accepted.
FlightEnds == \A r \in Run : r \in inFlight ~> r \notin inFlight

\* An error of the resume reaches the operator.
ErrorShown == \A r \in Run : results[r] = "error" ~> "error" \in told[r]
=============================================================================
