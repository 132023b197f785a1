-------------------------- MODULE ConsoleProofs --------------------------
(***************************************************************************)
(* For any number of analysis runs, removals and crashes: one live worker, *)
(* and therefore a report that stands until the operator removes it.       *)
(* Then for any number of paused runs, restarts and calls of approve and   *)
(* deny: one resume of a run at a time, by what the router checks first.   *)
(* Then the open run of the browser: the screen never goes back.           *)
(* And the list of runs: page by page none is missing.                     *)
(* What is projected of a run whose facts were read in several steps.      *)
(* Last the decision board, which joins files read one after the other.    *)
(***************************************************************************)
EXTENDS RunAnalysis, Integers, Sequences, SequenceTheorems, FiniteSetTheorems, WellFoundedInduction, TLAPS

\* Runs are numbered as they start, and a request counts on one more.
StartedOK ==
  /\ \A w \in Run : worker[w] = "none" <=> w > started
  /\ request = "absent" => started + 1 \in Run

\* Only the run in flight has a live worker, whatever its state.
LiveOK == \A w \in Run : worker[w] \notin {"none", "done"} <=> w = inFlight

\* Between its check and its opening of the file, a worker has the path to itself.
PathOK == \A w \in Run : worker[w] = "writing" => artifact = Absent

\* What is whole is nobody's open file.
OpenOK == \A w \in Run : worker[w] = "opened" => ~artifact.whole

IInv == TypeOK /\ StartedOK /\ LiveOK /\ PathOK /\ OpenOK

LEMMA InitIInv == Init => IInv
  BY AnalysisAssumption
  DEF Init, IInv, TypeOK, StartedOK, LiveOK, PathOK, OpenOK, Run, NoRun, Absent, NoResult

LEMMA RequestStep == ASSUME IInv, CheckAbsent \/ Register PROVE IInv'
<1> USE AnalysisAssumption DEF IInv
<1>1. CASE CheckAbsent
  <2>1. StartedOK'
    BY <1>1 DEF CheckAbsent, StartedOK, TypeOK, Run
  <2> QED
    BY <1>1, <2>1 DEF CheckAbsent, TypeOK, LiveOK, PathOK, OpenOK
<1>2. CASE Register /\ inFlight = NoRun
  <2>1. /\ started + 1 \in Run /\ started' = started + 1 /\ inFlight' = started + 1
        /\ worker' = [worker EXCEPT ![started + 1] = "working"]
        /\ request' = "idle" /\ UNCHANGED <<result, artifact, removals, crashes>>
    BY <1>2 DEF Register, Becomes, StartedOK
  <2>2. TypeOK'
    BY <2>1 DEF TypeOK, Run
  <2>3. StartedOK'
    BY <2>1 DEF StartedOK, TypeOK, Run
  <2>4. LiveOK'
    BY <1>2, <2>1 DEF LiveOK, TypeOK, Run, NoRun
  <2>5. PathOK' /\ OpenOK'
    BY <2>1 DEF PathOK, OpenOK, TypeOK
  <2> QED
    BY <2>2, <2>3, <2>4, <2>5
<1>3. CASE Register /\ inFlight # NoRun
  <2>1. request' = "idle" /\ UNCHANGED <<started, worker, inFlight, result, artifact, removals, crashes>>
    BY <1>3 DEF Register
  <2> QED
    BY <2>1 DEF TypeOK, StartedOK, LiveOK, PathOK, OpenOK
<1> QED
  BY <1>1, <1>2, <1>3

\* A step of a live worker concerns the file only as far as its own run is in flight.
LEMMA WorkStep == ASSUME NEW w \in Run, IInv, Work(w) PROVE IInv'
<1> USE DEF IInv
<1>1. CASE AgentEnds(w)
  BY <1>1 DEF AgentEnds, Becomes, TypeOK, StartedOK, LiveOK, PathOK, OpenOK
<1>2. CASE CheckTarget(w)
  BY <1>2 DEF CheckTarget, Becomes, TypeOK, StartedOK, LiveOK, PathOK, OpenOK
<1>3. CASE OpenFile(w)
  <2>1. \A v \in Run : worker[v] = "writing" => v = w
    BY <1>3 DEF OpenFile, LiveOK
  <2>2. TypeOK' /\ StartedOK' /\ LiveOK'
    BY <1>3 DEF OpenFile, Becomes, TypeOK, StartedOK, LiveOK
  <2>3. PathOK' /\ OpenOK'
    BY <1>3, <2>1 DEF OpenFile, Becomes, TypeOK, PathOK, OpenOK
  <2> QED
    BY <2>2, <2>3
<1>4. CASE FinishWrite(w)
  <2>1. \A v \in Run : worker[v] \in {"writing", "opened"} => v = w
    BY <1>4 DEF FinishWrite, LiveOK
  <2>2. TypeOK'
    <3>1. worker' \in [Run -> {"none", "working", "formatted", "writing", "opened",
                               "written", "failed", "done"}]
      BY <1>4 DEF FinishWrite, Becomes, TypeOK
    <3>2. artifact' = artifact \/ artifact' = [by |-> w, whole |-> TRUE]
      BY <1>4 DEF FinishWrite
    <3>3. [by |-> w, whole |-> TRUE] \in [by: Run \cup {NoRun}, whole: BOOLEAN]
      OBVIOUS
    <3>4. artifact' \in [by: Run \cup {NoRun}, whole: BOOLEAN]
      BY <3>2, <3>3 DEF TypeOK
    <3> QED
      BY <1>4, <3>1, <3>4 DEF FinishWrite, TypeOK
  <2>3. StartedOK' /\ LiveOK'
    BY <1>4 DEF FinishWrite, Becomes, TypeOK, StartedOK, LiveOK
  <2>4. PathOK' /\ OpenOK'
    BY <1>4, <2>1 DEF FinishWrite, Becomes, TypeOK, PathOK, OpenOK
  <2> QED
    BY <2>2, <2>3, <2>4
<1>5. CASE Record(w)
  <2>1. TypeOK' /\ StartedOK'
    BY <1>5 DEF Record, Becomes, TypeOK, StartedOK
  <2>2. LiveOK'
    BY <1>5 DEF Record, Becomes, TypeOK, LiveOK, Run, NoRun
  <2>3. PathOK' /\ OpenOK'
    BY <1>5 DEF Record, Becomes, TypeOK, PathOK, OpenOK
  <2> QED
    BY <2>1, <2>2, <2>3
<1> QED
  BY <1>1, <1>2, <1>3, <1>4, <1>5 DEF Work

LEMMA OutsideStep == ASSUME IInv, Remove \/ Crash PROVE IInv'
<1> USE AnalysisAssumption DEF IInv
<1>1. CASE Remove
  <2>1. TypeOK'
    BY <1>1 DEF Remove, TypeOK, Absent, NoRun
  <2> QED
    BY <1>1, <2>1 DEF Remove, StartedOK, LiveOK, PathOK, OpenOK, Absent
<1>2. CASE Crash
  <2>1. TypeOK'
    BY <1>2 DEF Crash, TypeOK, NoResult
  <2> QED
    BY <1>2, <2>1 DEF Crash, TypeOK, StartedOK, LiveOK, PathOK, OpenOK, Run, NoRun
<1> QED
  BY <1>1, <1>2

LEMMA Invariance == Spec => []IInv
<1>1. IInv /\ [Next]_vars => IInv'
  <2> SUFFICES ASSUME IInv, [Next]_vars PROVE IInv'
    OBVIOUS
  <2>1. CASE UNCHANGED vars
    BY <2>1 DEF vars, IInv, TypeOK, StartedOK, LiveOK, PathOK, OpenOK
  <2> QED
    BY <2>1, RequestStep, WorkStep, OutsideStep DEF Next
<1> QED
  BY InitIInv, <1>1, PTL DEF Spec

\* Whatever requests, failures and restarts: the live workers of the subject are
\* the run in flight, and nothing else.
THEOREM OneWorkerInFlight == Spec => []InFlightIsLive
<1>1. IInv => InFlightIsLive
  BY DEF IInv, LiveOK, InFlightIsLive, Live, TypeOK, Run, NoRun
<1> QED
  BY Invariance, <1>1, PTL

\* A report that is all there is never written over: only a removal takes it away.
THEOREM ReportIsNeverOverwritten == Spec => ReportStands
<1>1. IInv /\ [Next]_vars => [artifact.whole => artifact' \in {artifact, Absent}]_vars
  <2> SUFFICES ASSUME IInv, Next, artifact.whole PROVE artifact' \in {artifact, Absent}
    OBVIOUS
  <2> USE DEF IInv
  <2>1. ASSUME NEW w \in Run, Work(w) PROVE artifact' = artifact
    BY <2>1 DEF Work, AgentEnds, CheckTarget, OpenFile, FinishWrite, Record,
                PathOK, OpenOK, Absent
  <2> QED
    BY <2>1 DEF Next, CheckAbsent, Register, Remove, Crash
<1> QED
  BY Invariance, <1>1, PTL DEF Spec, ReportStands
-----------------------------------------------------------------------------
\* What the worker with the open file finds there when it closes it: its own
\* report, or nothing after a removal under it.
OwnFile ==
  \A w \in Run :
    /\ worker[w] = "opened" => artifact.by \in {w, NoRun} /\ (artifact.by = NoRun => artifact = Absent)
    /\ worker[w] = "written" => artifact \in {Absent, [by |-> w, whole |-> TRUE]}

\* The file of a completed run stands alone: the next worker changes it only
\* while it is in flight itself, and then answers for it.
FileInv == IInv /\ OwnFile /\ CompletedIsWhole

LEMMA InitFileInv == Init => FileInv
  BY InitIInv DEF Init, FileInv, OwnFile, CompletedIsWhole, NoResult

LEMMA FileStep == ASSUME FileInv, [Next]_vars, IInv' PROVE FileInv'
<1> USE DEF FileInv
<1>0. /\ worker \in [Run -> {"none", "working", "formatted", "writing", "opened",
                             "written", "failed", "done"}]
      /\ started \in 0 .. MaxStarts
      /\ \A v, u \in Run : worker[v] \notin {"none", "done"} /\ worker[u] \notin {"none", "done"} => v = u
      /\ \A v \in Run : worker[v] \notin {"none", "done"} => inFlight = v /\ inFlight # NoRun
  BY DEF IInv, TypeOK, LiveOK, Run, NoRun
<1>1. CASE UNCHANGED vars
  BY <1>1 DEF vars, OwnFile, CompletedIsWhole
<1>2. CASE CheckAbsent
  BY <1>2 DEF CheckAbsent, OwnFile, CompletedIsWhole
<1>3. CASE Register
  <2>1. request = "absent" => started + 1 \in Run
    BY DEF IInv, StartedOK
  <2>2. OwnFile'
    BY <1>0, <1>3, <2>1 DEF Register, Becomes, OwnFile
  <2>3. CompletedIsWhole'
    BY <1>3, <2>1 DEF Register, CompletedIsWhole, Run, NoRun
  <2> QED
    BY <2>2, <2>3
<1>4. CASE Remove
  BY <1>4 DEF Remove, OwnFile, CompletedIsWhole, Absent
<1>5. CASE Crash
  BY <1>0, <1>5 DEF Crash, OwnFile, CompletedIsWhole, NoResult
<1>6. ASSUME NEW w \in Run, Work(w) PROVE OwnFile' /\ CompletedIsWhole'
  <2>1. CASE AgentEnds(w) \/ CheckTarget(w)
    <3>1. /\ UNCHANGED <<artifact, inFlight, result>> /\ inFlight # NoRun
          /\ \A v \in Run : worker'[v] \in {"opened", "written"} => worker'[v] = worker[v]
      BY <1>0, <2>1 DEF AgentEnds, CheckTarget, Becomes
    <3> QED
      BY <3>1 DEF OwnFile, CompletedIsWhole
  <2>2. CASE OpenFile(w)
    <3>1. /\ artifact' = [by |-> w, whole |-> FALSE] /\ inFlight' = inFlight /\ inFlight # NoRun
          /\ \A v \in Run : worker'[v] \in {"opened", "written"} => v = w /\ worker'[v] = "opened"
      BY <1>0, <2>2 DEF OpenFile, Becomes
    <3> QED
      BY <3>1 DEF OwnFile, CompletedIsWhole, Run, NoRun
  <2>3. CASE FinishWrite(w)
    <3>1. /\ artifact.by \in {w, NoRun} /\ (artifact.by = NoRun => artifact = Absent) /\ w # NoRun
          /\ inFlight' = inFlight /\ inFlight # NoRun
      BY <1>0, <2>3 DEF FinishWrite, OwnFile, Run, NoRun
    <3>2. \A v \in Run : worker'[v] \in {"opened", "written"} => v = w /\ worker'[v] = "written"
      BY <1>0, <2>3 DEF FinishWrite, Becomes
    <3>3. worker'[w] = "written" => artifact' \in {Absent, [by |-> w, whole |-> TRUE]}
      BY <1>0, <2>3, <3>1 DEF FinishWrite, Becomes
    <3> QED
      BY <3>1, <3>2, <3>3 DEF OwnFile, CompletedIsWhole
  <2>4. CASE Record(w)
    <3>1. /\ UNCHANGED artifact
          /\ \A v \in Run : worker'[v] \notin {"opened", "written"}
      BY <1>0, <2>4 DEF Record, Becomes
    <3>2. result'.state = "completed" => worker[w] = "written" /\ result'.run = w
      BY <2>4 DEF Record
    <3> QED
      BY <3>1, <3>2 DEF OwnFile, CompletedIsWhole
  <2> QED
    BY <1>6, <2>1, <2>2, <2>3, <2>4 DEF Work
<1> QED
  BY <1>1, <1>2, <1>3, <1>4, <1>5, <1>6 DEF Next

\* A result that says completed, with nothing in flight, is about the file that is
\* there: that run wrote it to the end, however often the operator removes it,
\* the console dies or a write fails.
THEOREM CompletedMeansWhole == Spec => []CompletedIsWhole
<1>1. FileInv /\ [Next]_vars /\ IInv' => FileInv'
  BY FileStep
<1>2. FileInv => CompletedIsWhole
  BY DEF FileInv
<1> QED
  BY InitFileInv, Invariance, <1>1, <1>2, PTL DEF Spec
-----------------------------------------------------------------------------
(* Approve and deny in the console (ConsoleActions), beside Run Analysis:  *)
(* threads of their own, and tables of their own.                          *)

CONSTANTS Paused, MaxActs, MaxDeaths
VARIABLES flight, filed, thread, target, shown, acts, deaths

Actions == INSTANCE ConsoleActions WITH Run <- Paused, MaxCrashes <- MaxDeaths, inFlight <- flight, results <- filed,
             worker <- thread, told <- shown, crashes <- deaths

\* A request that has a thread, whatever the thread has come to.
Working(a) == thread[a] \in Actions!Outcome \cup {"resuming"}

\* Threads are numbered as requests are accepted.
AcceptedOK == \A a \in Actions!Act : thread[a] = "none" <=> a > acts

FlightInv == Actions!TypeOK /\ AcceptedOK /\ Actions!OneResume

LEMMA ActionTypes ==
  ASSUME FlightInv
  PROVE  /\ flight \subseteq Paused /\ thread \in [Actions!Act -> Actions!Outcome \cup {"none", "resuming", "gone"}]
         /\ target \in [Actions!Act -> Paused \cup {Actions!NoRun}] /\ acts \in 0 .. MaxActs
         /\ \A r \in flight : \E a \in Actions!Act : target[a] = r /\ Working(a)
         /\ \A a \in Actions!Act : Working(a) => target[a] \in flight
         /\ \A a, b \in Actions!Act : Working(a) /\ Working(b) /\ target[a] = target[b] => a = b
         /\ ~(\E a \in Actions!Act : thread[a] \in {"none", "gone"} /\ Working(a))
  BY DEF FlightInv, Actions!TypeOK, Actions!OneResume, Working, Actions!Outcome

LEMMA AcceptStep == ASSUME Actions!ActionsAssumption, FlightInv, NEW r \in Paused, Actions!Accept(r) PROVE FlightInv'
<1>1. /\ acts < MaxActs /\ r \notin flight /\ acts' = acts + 1 /\ flight' = flight \cup {r}
      /\ thread' = [thread EXCEPT ![acts + 1] = "resuming"] /\ target' = [target EXCEPT ![acts + 1] = r]
      /\ UNCHANGED <<filed, shown, deaths>>
  BY DEF Actions!Accept, Actions!MayStart
<1>2. MaxActs \in Nat /\ acts \in Nat /\ acts + 1 \in 1 .. MaxActs
  BY <1>1, ActionTypes DEF Actions!ActionsAssumption
<1>3. PICK n \in Actions!Act : n = acts + 1
  BY <1>2 DEF Actions!Act
<1>4. ~Working(n)
  BY <1>2, <1>3, ActionTypes DEF FlightInv, AcceptedOK, Actions!Act
<1>5. /\ \A a \in Actions!Act \ {n} : (Working(a)' <=> Working(a)) /\ target'[a] = target[a]
      /\ Working(n)' /\ target'[n] = r
  BY <1>1, <1>3, ActionTypes DEF Working, Actions!Outcome
<1>6. \A a \in Actions!Act : Working(a) => target[a] # r
  BY <1>1, ActionTypes
<1>7. Actions!OneResume'
  <2>1. \A a \in Actions!Act : Working(a)' => target'[a] \in flight'
    BY <1>1, <1>5, ActionTypes
  <2>2. \A a, b \in Actions!Act : Working(a)' /\ Working(b)' /\ target'[a] = target'[b] => a = b
    BY <1>5, <1>6, ActionTypes
  <2>3. QED
    BY <2>1, <2>2 DEF Working, Actions!OneResume
<1>8. AcceptedOK'
  <2>1. \A a \in Actions!Act : a \in Nat
    BY <1>2 DEF Actions!Act
  <2>2. QED
    BY <1>1, <1>2, <1>3, <2>1, ActionTypes DEF FlightInv, AcceptedOK
<1>9. Actions!TypeOK'
  <2>1. \A s \in flight' : \E a \in Actions!Act : target'[a] = s /\ Working(a)'
    BY <1>1, <1>4, <1>5, ActionTypes
  <2>2. /\ flight' \subseteq Paused /\ thread' \in [Actions!Act -> Actions!Outcome \cup {"none", "resuming", "gone"}]
        /\ target' \in [Actions!Act -> Paused \cup {Actions!NoRun}]
    BY <1>1, ActionTypes
  <2>3. acts' \in 0 .. MaxActs
    BY <1>1, <1>2
  <2>4. QED
    BY <1>1, <2>1, <2>2, <2>3 DEF FlightInv, Actions!TypeOK, Working
<1>10. QED
  BY <1>7, <1>8, <1>9 DEF FlightInv

LEMMA ThreadStep ==
  ASSUME FlightInv, NEW a \in Actions!Act, Actions!ResumeEnds(a) \/ Actions!FileResult(a) PROVE FlightInv'
<1>1. CASE Actions!ResumeEnds(a)
  <2>1. PICK o \in Actions!Outcome : thread' = [thread EXCEPT ![a] = o]
    BY <1>1 DEF Actions!ResumeEnds
  <2>2. UNCHANGED <<flight, filed, target, shown, acts, deaths>> /\ thread[a] = "resuming"
    BY <1>1 DEF Actions!ResumeEnds
  <2>3. /\ \A b \in Actions!Act : Working(b)' <=> Working(b)
        /\ \A b \in Actions!Act : thread'[b] = "none" <=> thread[b] = "none"
    BY <2>1, <2>2, ActionTypes DEF Working, Actions!Outcome
  <2>4. thread' \in [Actions!Act -> Actions!Outcome \cup {"none", "resuming", "gone"}]
    BY <2>1, ActionTypes
  <2>5. QED
    BY <2>2, <2>3, <2>4 DEF FlightInv, Actions!TypeOK, Actions!OneResume, AcceptedOK, Working
<1>2. CASE Actions!FileResult(a)
  <2>1. /\ thread' = [thread EXCEPT ![a] = "gone"] /\ flight' = flight \ {target[a]}
        /\ filed' = [filed EXCEPT ![target[a]] = thread[a]]
        /\ UNCHANGED <<target, shown, acts, deaths>> /\ thread[a] \in Actions!Outcome
    BY <1>2 DEF Actions!FileResult, Actions!Files
  <2>2. /\ \A b \in Actions!Act \ {a} : (Working(b)' <=> Working(b)) /\ (thread'[b] = "none" <=> thread[b] = "none")
        /\ ~Working(a)' /\ Working(a) /\ (thread'[a] = "none" <=> thread[a] = "none")
    BY <2>1, ActionTypes DEF Working, Actions!Outcome
  <2>3. \A b \in Actions!Act : Working(b)' => target'[b] \in flight'
    BY <2>1, <2>2, ActionTypes
  <2>4. \A b, c \in Actions!Act : Working(b)' /\ Working(c)' /\ target'[b] = target'[c] => b = c
    BY <2>1, <2>2, ActionTypes
  <2>5. \A s \in flight' : \E b \in Actions!Act : target'[b] = s /\ Working(b)'
    BY <2>1, <2>2, ActionTypes
  <2>6. /\ thread' \in [Actions!Act -> Actions!Outcome \cup {"none", "resuming", "gone"}]
        /\ filed' \in [Paused -> Actions!Outcome \cup {Actions!NoResult}]
    BY <2>1, <2>2, ActionTypes DEF FlightInv, Actions!TypeOK
  <2>7. Actions!OneResume'
    BY <2>3, <2>4 DEF Actions!OneResume, Working
  <2>8. Actions!TypeOK'
    BY <2>1, <2>5, <2>6 DEF FlightInv, Actions!TypeOK, Working
  <2>9. QED
    BY <2>1, <2>2, <2>7, <2>8 DEF FlightInv, AcceptedOK
<1>3. QED
  BY <1>1, <1>2

LEMMA ConsoleDeath ==
  ASSUME Actions!ActionsAssumption, FlightInv, Actions!ConsoleDies PROVE FlightInv'
<1>1. /\ flight' = {} /\ filed' = [r \in Paused |-> Actions!NoResult]
      /\ thread' = [a \in Actions!Act |-> IF thread[a] = "none" THEN "none" ELSE "gone"]
      /\ UNCHANGED <<target, shown, acts>> /\ deaths < MaxDeaths /\ deaths' = deaths + 1
  BY DEF Actions!ConsoleDies
<1>2. \A a \in Actions!Act : ~Working(a)' /\ (thread'[a] = "none" <=> thread[a] = "none")
  BY <1>1 DEF Working, Actions!Outcome
<1>3. deaths' \in 0 .. MaxDeaths
  BY <1>1 DEF FlightInv, Actions!TypeOK, Actions!ActionsAssumption
<1>4. Actions!OneResume' /\ AcceptedOK'
  BY <1>1, <1>2 DEF FlightInv, Actions!OneResume, AcceptedOK, Working
<1>5. Actions!TypeOK'
  BY <1>1, <1>3 DEF FlightInv, Actions!TypeOK
<1>6. QED
  BY <1>4, <1>5 DEF FlightInv

\* A paused run is resumed by one thread at a time, and while one resumes it
\* the run is known to be in flight, however requests, threads and deaths of
\* the console interleave (start_resume, _act).
THEOREM OneResumeAtATime ==
  ASSUME Actions!ActionsAssumption PROVE Actions!Spec => [](Actions!TypeOK /\ Actions!OneResume)
<1>1. Actions!Init => FlightInv
  <2>1. ASSUME Actions!Init PROVE FlightInv
    <3>1. \A a \in Actions!Act : a > 0
      BY DEF Actions!ActionsAssumption, Actions!Act
    <3>2. QED
      BY <2>1, <3>1 DEF Actions!Init, FlightInv, AcceptedOK, Actions!TypeOK, Actions!OneResume, Actions!Outcome,
        Actions!ActionsAssumption
  <2>2. QED
    BY <2>1
<1>2. FlightInv /\ [Actions!Next]_(Actions!vars) => FlightInv'
  <2>1. ASSUME FlightInv, NEW r \in Paused, Actions!Look(r) PROVE FlightInv'
    <3>1. shown' = [shown EXCEPT ![r] = @ \cup {Actions!Shown(r)}] /\ UNCHANGED <<flight, filed, thread, target, acts, deaths>>
      BY <2>1 DEF Actions!Look
    <3>2. Actions!Shown(r) \in Actions!Outcome \cup {"in_flight"}
      BY DEF Actions!Shown, Actions!Outcome
    <3>3. shown' \in [Paused -> SUBSET (Actions!Outcome \cup {"in_flight"})]
      BY <2>1, <3>1, <3>2 DEF FlightInv, Actions!TypeOK
    <3>4. QED
      BY <2>1, <3>1, <3>3 DEF FlightInv, Actions!TypeOK, Actions!OneResume, AcceptedOK
  <2>2. ASSUME FlightInv, UNCHANGED Actions!vars PROVE FlightInv'
    BY <2>2 DEF FlightInv, Actions!vars, Actions!TypeOK, Actions!OneResume, AcceptedOK
  <2>3. QED
    BY <2>1, <2>2, AcceptStep, ThreadStep, ConsoleDeath DEF Actions!Next
<1>3. FlightInv => Actions!TypeOK /\ Actions!OneResume
  BY DEF FlightInv
<1>4. QED
  BY <1>1, <1>2, <1>3, PTL DEF Actions!Spec
-----------------------------------------------------------------------------
(* The open run of the console (LiveConsole): requests that overtake one   *)
(* another, a stream that breaks.                                          *)

CONSTANTS Viewed, MaxFacts, MaxClicks, MaxFaults
VARIABLES facts, selected, live, available, stream, last, frame, timer, generation, requests, screen, inspection, failed,
          clicks, faults

Console == INSTANCE LiveConsole WITH Run <- Viewed, shown <- screen

\* The requests whose answers the projection takes, by their number.
Showing == {q \in requests : q.panel # "inspection"}

ViewTypes ==
  /\ facts \in [Viewed -> 0 .. MaxFacts] /\ selected \in Viewed
  /\ generation \in Nat /\ requests \subseteq Console!Request
  /\ screen \in [run : Viewed \cup {Console!None}, at : Console!Nothing .. MaxFacts]

\* One of them is the latest.
LatestOK ==
  /\ \A q \in requests : q.generation <= generation
  /\ \A p, q \in Showing : p.generation = q.generation => p = q

\* An answer tells what there was, and the latest was served after what is shown.
ServedOK ==
  /\ screen.run \in Viewed => screen.at <= facts[screen.run]
  /\ \A q \in Showing : q.generation = generation /\ q.got # Console!Nothing /\ q.run = screen.run => q.got >= screen.at
  /\ \A q \in requests : q.got <= facts[q.run]

ViewInv == ViewTypes /\ LatestOK /\ ServedOK

LEMMA NothingIs == Console!Nothing = -1 /\ (\A f \in Viewed : Console!None = "none")
  BY DEF Console!Nothing, Console!None

\* A request is made: it has a number of its own, the next one.
LEMMA Asks ==
  ASSUME MaxFacts \in Nat, ViewInv, NEW new, new \subseteq Console!Request,
         requests' = requests \cup new, generation' = generation + 1,
         \A q \in new : q.generation = generation + 1 /\ q.got = Console!Nothing,
         \A p, q \in new : p.panel # "inspection" /\ q.panel # "inspection" => p = q,
         UNCHANGED <<facts, screen>>, selected' \in Viewed
  PROVE  ViewInv'
<1> USE DEF ViewInv
<1>1. ViewTypes'
  BY DEF ViewTypes
<1>2. LatestOK'
  <2>1. \A q \in requests : q.generation \in Nat /\ generation \in Nat
    BY DEF ViewTypes, Console!Request
  <2>2. \A q \in requests' : q.generation <= generation'
    BY <2>1 DEF LatestOK
  <2>3. \A q \in requests : \A p \in new : q.generation # p.generation
    BY <2>1 DEF LatestOK
  <2>4. QED
    BY <2>2, <2>3 DEF LatestOK, Showing
<1>3. ServedOK'
  <2>1. \A q \in requests : q.generation # generation + 1
    <3>1. \A q \in requests : q.generation \in Nat /\ generation \in Nat /\ q.generation <= generation
      BY DEF ViewTypes, Console!Request, LatestOK
    <3>2. QED
      BY <3>1
  <2>2. \A q \in new : q.got <= facts[q.run]
    BY NothingIs DEF ViewTypes, Console!Request
  <2>3. QED
    BY <2>1, <2>2 DEF ServedOK, Showing
<1>4. QED
  BY <1>1, <1>2, <1>3

\* Fewer requests, or the same, and the same on screen.
LEMMA Drops ==
  ASSUME ViewInv, requests' \subseteq requests, UNCHANGED <<facts, generation, screen>>, selected' \in Viewed PROVE ViewInv'
  BY DEF ViewInv, ViewTypes, LatestOK, ServedOK, Showing

LEMMA AskedIs ==
  ASSUME MaxFacts \in Nat, ViewTypes, NEW panel \in Console!Panel, NEW r \in Viewed
  PROVE  /\ Console!Ask(panel, r) \in Console!Request /\ Console!Ask(panel, r).panel = panel
         /\ Console!Ask(panel, r).generation = generation + 1 /\ Console!Ask(panel, r).got = Console!Nothing
<1>1. Console!Nothing \in Console!Nothing .. MaxFacts /\ generation + 1 \in Nat
  BY NothingIs DEF ViewTypes
<1>2. QED
  BY <1>1 DEF Console!Ask, Console!Request

LEMMA FactOK ==
  ASSUME ViewInv, MaxFacts \in Nat, NEW r \in Viewed, Console!Fact(r) PROVE ViewInv'
<1> USE DEF ViewInv
<1>1. facts' = [facts EXCEPT ![r] = @ + 1] /\ facts[r] < MaxFacts /\ UNCHANGED <<selected, generation, requests, screen>>
  BY DEF Console!Fact, Console!screen
<1>2. \A v \in Viewed : facts[v] \in Nat /\ facts'[v] \in 0 .. MaxFacts /\ facts[v] <= facts'[v]
  BY <1>1 DEF ViewTypes
<1>3. ViewTypes'
  BY <1>1, <1>2 DEF ViewTypes
<1>4. ServedOK'
  <2>1. \A q \in requests : q.run \in Viewed /\ q.got \in Int
    BY NothingIs DEF ViewTypes, Console!Request
  <2>2. screen.at \in Int
    BY NothingIs DEF ViewTypes
  <2>3. \A q \in requests : q.got <= facts'[q.run]
    BY <1>2, <2>1 DEF ServedOK
  <2>4. screen.run \in Viewed => screen.at <= facts'[screen.run]
    BY <1>2, <2>2 DEF ServedOK
  <2>5. QED
    BY <1>1, <2>3, <2>4 DEF ServedOK, Showing
<1>5. LatestOK'
  BY <1>1 DEF LatestOK, Showing
<1>6. QED
  BY <1>3, <1>4, <1>5

\* The server answers with what there is now.
LEMMA ServeOK ==
  ASSUME ViewInv, MaxFacts \in Nat, NEW q \in requests, Console!Serve(q) PROVE ViewInv'
<1> USE DEF ViewInv
<1>1. PICK s : s = [q EXCEPT !.got = facts[q.run]]
  OBVIOUS
<1>2. requests' = (requests \ {q}) \cup {s} /\ UNCHANGED <<facts, selected, generation, screen>>
  BY <1>1 DEF Console!Serve, Console!screen
<1>3. q \in Console!Request /\ facts[q.run] \in 0 .. MaxFacts
  BY DEF ViewTypes, Console!Request
<1>4. /\ s \in Console!Request /\ s.panel = q.panel /\ s.generation = q.generation /\ s.run = q.run
      /\ s.got = facts[q.run] /\ s.got \in Nat
  BY <1>1, <1>3, NothingIs DEF Console!Request
<1>5. ViewTypes'
  BY <1>2, <1>4 DEF ViewTypes
<1>6. LatestOK'
  BY <1>2, <1>4 DEF LatestOK, Showing
<1>7. ServedOK'
  <2>1. s.got <= facts[s.run]
    BY <1>4
  <2>2. screen.run = s.run => s.got >= screen.at
    <3>1. screen.at \in Int
      BY NothingIs DEF ViewTypes
    <3>2. q.run \in Viewed
      BY <1>3 DEF Console!Request
    <3>3. QED
      BY <1>4, <3>1, <3>2 DEF ServedOK
  <2>3. QED
    BY <1>2, <2>1, <2>2 DEF ServedOK, Showing
<1>8. QED
  BY <1>5, <1>6, <1>7

\* Only the latest answer, of the run still selected, comes on screen.
LEMMA ReceiveOK ==
  ASSUME ViewInv, MaxFacts \in Nat, NEW q \in requests, Console!Receive(q) PROVE ViewInv'
<1> USE DEF ViewInv
<1>1. q \in Console!Request /\ q.got # Console!Nothing /\ UNCHANGED <<facts, selected>> /\ generation' = generation
  BY DEF Console!Receive, ViewTypes
<1>2. \/ UNCHANGED screen
      \/ q \in Showing /\ q.generation = generation /\ q.run = selected /\ screen' = [run |-> q.run, at |-> q.got]
  BY DEF Console!Receive, Console!Current, Showing
<1>3. PICK n : n = [Console!Ask("inspection", q.run) EXCEPT !.generation = generation]
  OBVIOUS
<1>4. requests' \in {requests \ {q}, (requests \ {q}) \cup {n}}
  BY <1>3 DEF Console!Receive
<1>5. n \in Console!Request /\ n.panel = "inspection" /\ n.generation = generation /\ n.got = Console!Nothing
  <2>1. Console!Nothing \in Console!Nothing .. MaxFacts /\ generation \in Nat /\ q.run \in Viewed
    BY <1>1, NothingIs DEF ViewTypes, Console!Request
  <2>2. QED
    BY <1>3, <2>1 DEF Console!Ask, Console!Request, Console!Panel
<1>6. screen' \in [run : Viewed \cup {Console!None}, at : Console!Nothing .. MaxFacts]
  BY <1>1, <1>2 DEF ViewTypes, Console!Request
<1>7. ViewTypes'
  BY <1>1, <1>4, <1>5, <1>6 DEF ViewTypes
<1>8. Showing' \subseteq Showing \ {q}
  BY <1>4, <1>5 DEF Showing
<1>9. LatestOK'
  <2>1. \A p \in requests' : p.generation <= generation
    BY <1>4, <1>5 DEF LatestOK, ViewTypes
  <2>2. QED
    BY <1>1, <1>8, <2>1 DEF LatestOK
<1>10. ServedOK'
  <2>1. \A p \in requests' : p.got <= facts[p.run]
    <3>1. n.got <= facts[n.run]
      BY <1>5, NothingIs DEF ViewTypes, Console!Request
    <3>2. QED
      BY <1>4, <3>1 DEF ServedOK
  <2>2. CASE UNCHANGED screen
    BY <1>1, <1>8, <2>1, <2>2 DEF ServedOK
  <2>3. CASE q \in Showing /\ q.generation = generation /\ q.run = selected /\ screen' = [run |-> q.run, at |-> q.got]
    <3>1. \A p \in Showing' : p.generation # generation
      BY <1>8, <2>3 DEF LatestOK
    <3>2. q.got <= facts[q.run]
      BY DEF ServedOK
    <3>3. QED
      BY <1>1, <2>1, <2>3, <3>1, <3>2 DEF ServedOK
  <2>4. QED
    BY <1>2, <2>2, <2>3
<1>11. QED
  BY <1>7, <1>9, <1>10

LEMMA ViewInvariance ==
  ASSUME MaxFacts \in Nat PROVE Console!Spec => []ViewInv
<1>1. Console!Init => ViewInv
  <2> SUFFICES ASSUME Console!Init PROVE ViewInv
    OBVIOUS
  <2>1. PICK q : q = [panel |-> "run", run |-> selected, generation |-> 1, got |-> Console!Nothing]
    OBVIOUS
  <2>2. /\ facts = [r \in Viewed |-> 0] /\ selected \in Viewed /\ generation = 1 /\ requests = {q}
        /\ screen = [run |-> Console!None, at |-> Console!Nothing]
    BY <2>1 DEF Console!Init
  <2>3. Console!Nothing \in Console!Nothing .. MaxFacts
    BY NothingIs
  <2>4. q \in Console!Request /\ q.generation = 1 /\ q.got = Console!Nothing
    BY <2>1, <2>2, <2>3 DEF Console!Request, Console!Panel
  <2>5. ViewTypes
    BY <2>2, <2>3, <2>4 DEF ViewTypes
  <2>6. LatestOK
    BY <2>2, <2>4 DEF LatestOK, Showing
  <2>7. ServedOK
    BY <2>2, <2>4, NothingIs DEF ServedOK, Showing, Console!Request
  <2>8. QED
    BY <2>5, <2>6, <2>7 DEF ViewInv
<1>2. ViewInv /\ [Console!Next]_(Console!vars) => ViewInv'
  <2> SUFFICES ASSUME ViewInv, [Console!Next]_(Console!vars) PROVE ViewInv'
    OBVIOUS
  <2>0. ViewTypes /\ selected \in Viewed
    BY DEF ViewInv, ViewTypes
  <2>1. ASSUME NEW r \in Viewed, NEW panel \in {"run", "refresh"}, Console!Select(r, panel) PROVE ViewInv'
    <3>1. PICK q : q = Console!Ask(panel, r)
      OBVIOUS
    <3>2. q \in Console!Request /\ q.generation = generation + 1 /\ q.got = Console!Nothing
      BY <2>0, <2>1, <3>1, AskedIs DEF Console!Panel
    <3>3. requests' = requests \cup {q} /\ generation' = generation + 1 /\ selected' = r /\ UNCHANGED <<facts, screen>>
      BY <2>1, <3>1 DEF Console!Select
    <3>4. PICK new : new = {q}
      OBVIOUS
    <3>5. /\ new \subseteq Console!Request /\ \A x \in new : x.generation = generation + 1 /\ x.got = Console!Nothing
          /\ \A x, y \in new : x.panel # "inspection" /\ y.panel # "inspection" => x = y
      BY <3>2, <3>4
    <3>6. requests' = requests \cup new /\ selected' \in Viewed
      BY <3>3, <3>4
    <3>7. QED
      BY <3>3, <3>5, <3>6, Asks
  <2>2. CASE Console!TimerFires
    <3>1. PICK p, q : p = Console!Ask("run", selected) /\ q = Console!Ask("inspection", selected)
      OBVIOUS
    <3>2. p \in Console!Request /\ p.generation = generation + 1 /\ p.got = Console!Nothing
      BY <2>0, <3>1, AskedIs DEF Console!Panel
    <3>3. q \in Console!Request /\ q.generation = generation + 1 /\ q.got = Console!Nothing /\ q.panel = "inspection"
      BY <2>0, <3>1, AskedIs DEF Console!Panel
    <3>4. requests' = requests \cup {p, q} /\ generation' = generation + 1 /\ UNCHANGED <<facts, selected, screen>>
      BY <2>2, <3>1 DEF Console!TimerFires, Console!screen
    <3>5. PICK new : new = {p, q}
      OBVIOUS
    <3>6. /\ new \subseteq Console!Request /\ \A x \in new : x.generation = generation + 1 /\ x.got = Console!Nothing
          /\ \A x, y \in new : x.panel # "inspection" /\ y.panel # "inspection" => x = y
      BY <3>2, <3>3, <3>5
    <3>7. requests' = requests \cup new /\ selected' \in Viewed
      BY <2>0, <3>4, <3>5
    <3>8. QED
      BY <3>4, <3>6, <3>7, Asks
  <2>3. CASE Console!SetLive
    <3>1. PICK p : p = Console!Ask("run", selected)
      OBVIOUS
    <3>2. p \in Console!Request /\ p.generation = generation + 1 /\ p.got = Console!Nothing
      BY <2>0, <3>1, AskedIs DEF Console!Panel
    <3>3. UNCHANGED <<facts, selected, screen>>
      BY <2>3 DEF Console!SetLive, Console!screen
    <3>4. CASE live
      BY <2>0, <2>3, <3>3, <3>4, Drops DEF Console!SetLive
    <3>5. CASE ~live
      <4>1. requests' = requests \cup {p} /\ generation' = generation + 1
        BY <2>3, <3>1, <3>5 DEF Console!SetLive
      <4>2. PICK new : new = {p}
        OBVIOUS
      <4>3. /\ new \subseteq Console!Request /\ \A x \in new : x.generation = generation + 1 /\ x.got = Console!Nothing
            /\ \A x, y \in new : x.panel # "inspection" /\ y.panel # "inspection" => x = y
        BY <3>2, <4>2
      <4>4. requests' = requests \cup new /\ selected' \in Viewed
        BY <2>0, <3>3, <4>1, <4>2
      <4>5. QED
        BY <3>3, <4>1, <4>3, <4>4, Asks
    <3>6. QED
      BY <3>4, <3>5
  <2>4. CASE Console!StreamPoll \/ Console!FrameArrives \/ Console!StreamBreaks \/ UNCHANGED Console!vars
    <3>1. UNCHANGED <<facts, selected, generation, requests, screen>>
      BY <2>4 DEF Console!StreamPoll, Console!FrameArrives, Console!StreamBreaks, Console!vars, Console!screen
    <3>2. QED
      BY <2>0, <3>1, Drops
  <2>5. ASSUME NEW q \in requests, Console!Fails(q) PROVE ViewInv'
    <3>1. requests' = requests \ {q} /\ UNCHANGED <<facts, selected, generation, screen>>
      BY <2>5 DEF Console!Fails
    <3>2. QED
      BY <2>0, <3>1, Drops
  <2>6. QED
    BY <2>1, <2>2, <2>3, <2>4, <2>5, FactOK, ServeOK, ReceiveOK DEF Console!Next, Console!ServeSome, Console!ReceiveSome
<1>3. QED
  BY <1>1, <1>2, PTL DEF Console!Spec

\* However many requests overtake one another, and for any number of runs, facts,
\* clicks and faults: what is on screen changes to the selected run only, and
\* never to fewer facts of the same run (isCurrent, console-view.ts).
THEOREM ScreenNeverGoesBack == ASSUME MaxFacts \in Nat PROVE Console!Spec => Console!NeverBackwards
<1>1. ViewInv /\ [Console!Next]_(Console!vars) =>
        [screen' # screen => /\ screen'.run = selected
                             /\ screen'.run = screen.run => screen'.at >= screen.at]_screen
  <2> SUFFICES ASSUME ViewInv, [Console!Next]_(Console!vars), screen' # screen
               PROVE  screen'.run = selected /\ (screen'.run = screen.run => screen'.at >= screen.at)
    OBVIOUS
  <2>1. PICK q \in requests : Console!Receive(q)
    BY DEF Console!Next, Console!vars, Console!screen, Console!Fact, Console!Select, Console!StreamPoll, Console!FrameArrives,
      Console!TimerFires, Console!StreamBreaks, Console!SetLive, Console!ServeSome, Console!ReceiveSome, Console!Serve, Console!Fails
  <2>2. /\ q \in Showing /\ q.generation = generation /\ q.run = selected /\ q.got # Console!Nothing
        /\ screen' = [run |-> q.run, at |-> q.got]
    BY <2>1 DEF Console!Receive, Console!Current, Showing
  <2>3. QED
    BY <2>2 DEF ViewInv, ServedOK
<1>2. QED
  BY <1>1, ViewInvariance, PTL DEF Console!Spec, Console!NeverBackwards
-----------------------------------------------------------------------------
(* The run list (ConsoleList), for any number of runs, of any status, any  *)
(* page size and any number of requests.                                   *)

CONSTANTS MaxRuns, Known, Unstamped, Asked, PageSize, MaxAsks
VARIABLES times, tail, turn, asks, list, cursor, top

List == INSTANCE ConsoleList WITH started <- times, generation <- turn, requests <- asks, base <- top

\* The members of S below n.
Below(S, n) == {m \in S : m < n}

LEMMA CountIs == \A S : List!Cardinality(S) = Cardinality(S)
BY DEF List!Cardinality, Cardinality

\* Counting those below numbers a finite set of integers.
LEMMA RanksAre ==
  ASSUME NEW S, S \subseteq Int, IsFiniteSet(S)
  PROVE  /\ Cardinality(S) \in Nat
         /\ \A n \in S : Cardinality(Below(S, n)) \in 0 .. Cardinality(S) - 1
         /\ \A n, p \in S : n < p => Cardinality(Below(S, n)) < Cardinality(Below(S, p))
         /\ \A i \in 0 .. Cardinality(S) - 1 : \E n \in S : Cardinality(Below(S, n)) = i
<1>1. Cardinality(S) \in Nat
  BY FS_CardinalityType
<1>2. ASSUME NEW n \in S PROVE Cardinality(Below(S, n)) \in 0 .. Cardinality(S) - 1
  <2>1. Below(S, n) \in SUBSET S /\ n \notin Below(S, n)
    BY DEF Below
  <2>2. IsFiniteSet(Below(S, n)) /\ Cardinality(Below(S, n)) <= Cardinality(S) /\ Cardinality(Below(S, n)) # Cardinality(S)
    BY <2>1, FS_Subset
  <2>3. Cardinality(Below(S, n)) \in Nat
    BY <2>2, FS_CardinalityType
  <2>4. QED
    BY <1>1, <2>2, <2>3
<1>3. ASSUME NEW n \in S, NEW p \in S, n < p PROVE Cardinality(Below(S, n)) < Cardinality(Below(S, p))
  <2>1. Below(S, p) \in SUBSET S /\ Below(S, n) \in SUBSET Below(S, p) /\ n \in Below(S, p) /\ n \notin Below(S, n)
    <3>1. n \in Int /\ p \in Int /\ \A m \in S : m \in Int
      OBVIOUS
    <3>2. ASSUME NEW m \in S, m < n PROVE m < p
      BY <1>3, <3>1, <3>2
    <3>3. ~ (n < n)
      BY <3>1
    <3>4. QED
      BY <1>3, <3>2, <3>3 DEF Below
  <2>2. IsFiniteSet(Below(S, p))
    BY <2>1, FS_Subset
  <2>3. Cardinality(Below(S, n)) <= Cardinality(Below(S, p)) /\ Cardinality(Below(S, n)) # Cardinality(Below(S, p))
    BY <2>1, <2>2, FS_Subset
  <2>4. Cardinality(Below(S, n)) \in Nat /\ Cardinality(Below(S, p)) \in Nat
    BY <1>2
  <2>5. QED
    BY <2>3, <2>4
<1>4. ASSUME NEW i \in 0 .. Cardinality(S) - 1 PROVE \E n \in S : Cardinality(Below(S, n)) = i
  <2>1. PICK T : T = 0 .. Cardinality(S) - 1
    OBVIOUS
  <2>2. PICK f : f = [n \in S |-> Cardinality(Below(S, n))]
    OBVIOUS
  <2>3. f \in [S -> T] /\ \A n \in S : f[n] = Cardinality(Below(S, n))
    BY <1>2, <2>1, <2>2
  <2>4. ASSUME NEW a \in S, NEW b \in S, f[a] = f[b] PROVE a = b
    <3>1. f[a] \in Nat /\ f[b] \in Nat
      BY <1>2, <2>3
    <3>2. ~ (a < b) /\ ~ (b < a)
      BY <1>3, <2>3, <2>4, <3>1
    <3>3. QED
      BY <3>2
  <2>5. f \in Injection(S, T)
    BY <2>3, <2>4, Zenon DEF Injection, IsInjective
  <2>6. IsFiniteSet(T) /\ Cardinality(T) = Cardinality(S)
    BY <1>1, <2>1, FS_Interval
  <2>7. f \in Surjection(S, T)
    BY <2>5, <2>6, FS_Injection, Zenon
  <2>8. QED
    BY <2>1, <2>3, <2>7 DEF Surjection
<1>5. QED
  BY <1>1, <1>2, <1>3, <1>4

\* s has the c members of S, each after those below it.
Sorts(s, S, c) ==
  /\ c \in Nat /\ s \in [1 .. c -> S] /\ Len(s) = c
  /\ \A i \in 1 .. c : Cardinality(Below(S, s[i])) = i - 1
  /\ \A i, j \in 1 .. c : i < j => s[i] < s[j]
  /\ \A n \in S : Cardinality(Below(S, n)) + 1 \in 1 .. c /\ s[Cardinality(Below(S, n)) + 1] = n

LEMMA AscendingIs ==
  ASSUME NEW S, S \subseteq Int, IsFiniteSet(S)
  PROVE  Sorts(List!Ascending(S), S, Cardinality(S))
<1>0. PICK c : c = Cardinality(S)
  OBVIOUS
<1>1. PICK s : s = List!Ascending(S)
  OBVIOUS
<1>2. c \in Nat
  BY <1>0, RanksAre
<1>3. s = [i \in 1 .. c |-> CHOOSE n \in S : Cardinality(Below(S, n)) = i - 1]
  BY <1>0, <1>1, Zenon DEF List!Ascending, Below, List!Cardinality, Cardinality
<1>4. ASSUME NEW i \in 1 .. c PROVE s[i] \in S /\ Cardinality(Below(S, s[i])) = i - 1
  <2>1. i - 1 \in 0 .. c - 1
    BY <1>2
  <2>2. \E n \in S : Cardinality(Below(S, n)) = i - 1
    BY <1>0, <2>1, RanksAre
  <2>3. s[i] = CHOOSE n \in S : Cardinality(Below(S, n)) = i - 1
    BY <1>3
  <2>4. QED
    BY <2>2, <2>3, Zenon
<1>5. ASSUME NEW i \in 1 .. c, NEW j \in 1 .. c, i < j PROVE s[i] < s[j]
  <2>1. s[i] \in Int /\ s[j] \in Int
    BY <1>4
  <2>2. Cardinality(Below(S, s[i])) < Cardinality(Below(S, s[j]))
    BY <1>4, <1>5
  <2>3. Cardinality(Below(S, s[i])) \in Int /\ Cardinality(Below(S, s[j])) \in Int
    BY <1>4
  <2>4. ~ (s[j] < s[i]) /\ s[i] # s[j]
    <3>1. ASSUME s[j] < s[i] PROVE FALSE
      <4>1. Cardinality(Below(S, s[j])) < Cardinality(Below(S, s[i]))
        BY <1>4, <3>1, RanksAre, Zenon
      <4>2. QED
        BY <2>2, <2>3, <4>1
    <3>2. s[i] # s[j]
      BY <2>2, <2>3
    <3>3. QED
      BY <3>1, <3>2
  <2>5. QED
    BY <2>1, <2>4
<1>6. ASSUME NEW n \in S PROVE Cardinality(Below(S, n)) + 1 \in 1 .. c /\ s[Cardinality(Below(S, n)) + 1] = n
  <2>1. PICK r : r = Cardinality(Below(S, n))
    OBVIOUS
  <2>2. r \in 0 .. c - 1
    BY <1>0, <2>1, RanksAre
  <2>3. r + 1 \in 1 .. c /\ (r + 1) - 1 = r
    BY <1>2, <2>2
  <2>4. PICK m : m = s[r + 1]
    OBVIOUS
  <2>5. m \in S /\ Cardinality(Below(S, m)) = r
    BY <1>4, <2>3, <2>4
  <2>6. ~ (m < n) /\ ~ (n < m)
    <3>1. m < n => Cardinality(Below(S, m)) < Cardinality(Below(S, n))
      BY <2>5, RanksAre, Zenon
    <3>2. n < m => Cardinality(Below(S, n)) < Cardinality(Below(S, m))
      BY <2>5, RanksAre, Zenon
    <3>3. QED
      BY <2>1, <2>2, <2>5, <3>1, <3>2
  <2>7. m = n
    BY <2>5, <2>6
  <2>8. QED
    BY <2>1, <2>3, <2>4, <2>7
<1>7. s \in [1 .. c -> S] /\ Len(s) = c
  BY <1>2, <1>3, <1>4
<1>8. Sorts(s, S, c)
  BY <1>2, <1>4, <1>5, <1>6, <1>7 DEF Sorts
<1>9. QED
  BY <1>0, <1>1, <1>8, Zenon

\* What a run is sorted by, as Keys has it, and where it stands in the order.
KeyOf(r) == IF r \in Unstamped THEN CHOOSE k \in DOMAIN tail : tail[k] = r ELSE -r
Place(r) == Cardinality(Below(List!Keys, KeyOf(r))) + 1

\* What standing above says, whatever the order of the runs without a start.
Above(p, r) == p # r /\ (r \notin Unstamped => p > r /\ p \notin Unstamped)

OrderOK == times \in Known .. MaxRuns /\ tail \in List!SetToSeqs(Unstamped)

LEMMA ListNumbers ==
  ASSUME List!ListAssumption
  PROVE  /\ MaxRuns \in Nat /\ Known \in 0 .. MaxRuns /\ PageSize \in Nat \ {0} /\ MaxAsks \in Nat
         /\ Unstamped \subseteq 1 .. Known /\ Asked \subseteq 1 .. MaxRuns
         /\ List!First = 0 /\ List!Run = 1 .. MaxRuns
BY DEF List!ListAssumption, List!First, List!Run

LEMMA TailIs ==
  ASSUME List!ListAssumption, NEW t \in List!SetToSeqs(Unstamped), NEW c, c = Cardinality(Unstamped)
  PROVE  /\ c \in Nat /\ DOMAIN t = 1 .. c
         /\ \A k \in 1 .. c : t[k] \in Unstamped
         /\ \A j, k \in 1 .. c : t[j] = t[k] => j = k
         /\ \A r \in Unstamped : \E k \in 1 .. c : t[k] = r
<1>1. IsFiniteSet(Unstamped) /\ c \in Nat
  <2>1. Unstamped \in SUBSET (1 .. Known) /\ Known \in Nat
    BY ListNumbers
  <2>2. IsFiniteSet(1 .. Known)
    BY <2>1, FS_Interval
  <2>3. QED
    BY <2>1, <2>2, FS_Subset, FS_CardinalityType
<1>2. List!Cardinality(Unstamped) = c
  BY CountIs, Zenon
<1>3. t \in [1 .. c -> Unstamped] /\ \A j, k \in 1 .. c : j # k => t[j] # t[k]
  BY <1>2 DEF List!SetToSeqs, List!IsInjective
<1>4. \A r \in Unstamped : \E k \in 1 .. c : t[k] = r
  <2>1. PICK D : D = 1 .. c
    OBVIOUS
  <2>2. t \in Injection(D, Unstamped)
    BY <1>3, <2>1 DEF Injection, IsInjective
  <2>3. IsFiniteSet(D) /\ Cardinality(D) = Cardinality(Unstamped)
    BY <1>1, <2>1, FS_Interval
  <2>4. t \in Surjection(D, Unstamped)
    BY <1>1, <2>2, <2>3, FS_Injection, Zenon
  <2>5. QED
    BY <2>1, <2>4 DEF Surjection
<1>5. QED
  BY <1>1, <1>3, <1>4

\* One run without a start has one place.
LEMMA TailOfOne ==
  ASSUME List!ListAssumption, NEW t \in List!SetToSeqs(Unstamped), NEW u \in List!SetToSeqs(Unstamped)
  PROVE  DOMAIN t = DOMAIN u /\ (List!Restless = {} => \A k \in DOMAIN t : t[k] = u[k])
<1>1. PICK c : c = Cardinality(Unstamped)
  OBVIOUS
<1>2. DOMAIN t = 1 .. c /\ DOMAIN u = 1 .. c /\ \A k \in 1 .. c : t[k] \in Unstamped /\ u[k] \in Unstamped
  BY <1>1, TailIs
<1>3. QED
  BY <1>2 DEF List!Restless

LEMMA KeysAre ==
  ASSUME List!ListAssumption, OrderOK
  PROVE  /\ List!Keys \subseteq Int /\ IsFiniteSet(List!Keys) /\ Cardinality(List!Keys) = times
         /\ List!Keys = {KeyOf(r) : r \in 1 .. times}
         /\ \A p, r \in 1 .. times : KeyOf(p) = KeyOf(r) => p = r
         /\ \A r \in 1 .. times : KeyOf(r) \in Int /\ r = IF KeyOf(r) < 0 THEN -KeyOf(r) ELSE tail[KeyOf(r)]
<1>1. times \in Nat /\ Known \in Nat /\ Known <= times /\ Unstamped \subseteq 1 .. times
  <2>1. times \in Nat /\ Known \in Nat /\ Known <= times /\ Unstamped \subseteq 1 .. Known
    BY ListNumbers DEF OrderOK
  <2>2. QED
    BY <2>1
<1>2. PICK c \in Nat :
           /\ DOMAIN tail = 1 .. c /\ \A k \in 1 .. c : tail[k] \in Unstamped
           /\ \A n, k \in 1 .. c : tail[n] = tail[k] => n = k
           /\ \A r \in Unstamped : \E k \in 1 .. c : tail[k] = r
  <2>1. PICK c : c = Cardinality(Unstamped)
    OBVIOUS
  <2>2. QED
    BY <2>1, TailIs DEF OrderOK
<1>3. ASSUME NEW r \in 1 .. times
      PROVE  /\ KeyOf(r) \in Int /\ r = IF KeyOf(r) < 0 THEN -KeyOf(r) ELSE tail[KeyOf(r)]
             /\ r \in Unstamped => KeyOf(r) \in 1 .. c /\ tail[KeyOf(r)] = r
  <2>1. CASE r \in Unstamped
    <3>1. KeyOf(r) \in 1 .. c /\ tail[KeyOf(r)] = r
      BY <1>2, <2>1, Zenon DEF KeyOf
    <3>2. QED
      BY <1>2, <3>1
  <2>2. CASE r \notin Unstamped
    BY <1>1, <2>2 DEF KeyOf
  <2>3. QED
    BY <2>1, <2>2
<1>4. \A p, r \in 1 .. times : KeyOf(p) = KeyOf(r) => p = r
  BY <1>3
<1>5. List!Keys = {-r : r \in (1 .. times) \ Unstamped} \cup DOMAIN tail
  BY DEF List!Keys
<1>6. List!Keys = {KeyOf(r) : r \in 1 .. times}
  <2>1. ASSUME NEW k \in List!Keys PROVE k \in {KeyOf(r) : r \in 1 .. times}
    <3>1. CASE k \in {-r : r \in (1 .. times) \ Unstamped}
      BY <3>1 DEF KeyOf
    <3>2. CASE k \in DOMAIN tail
      <4>1. k \in 1 .. c /\ tail[k] \in Unstamped /\ tail[k] \in 1 .. times
        BY <1>1, <1>2, <3>2
      <4>2. KeyOf(tail[k]) \in 1 .. c /\ tail[KeyOf(tail[k])] = tail[k]
        BY <1>3, <4>1
      <4>3. k = KeyOf(tail[k])
        BY <1>2, <4>1, <4>2
      <4>4. QED
        BY <4>1, <4>3
    <3>3. QED
      BY <1>5, <2>1, <3>1, <3>2
  <2>2. ASSUME NEW r \in 1 .. times PROVE KeyOf(r) \in List!Keys
    <3>1. CASE r \in Unstamped
      BY <1>2, <1>3, <1>5, <3>1
    <3>2. CASE r \notin Unstamped
      BY <1>5, <3>2 DEF KeyOf
    <3>3. QED
      BY <3>1, <3>2
  <2>3. QED
    BY <2>1, <2>2
<1>7. IsFiniteSet(List!Keys) /\ Cardinality(List!Keys) = times
  <2>1. IsFiniteSet(1 .. times) /\ Cardinality(1 .. times) = times
    BY <1>1, FS_Interval
  <2>2. PICK f : f = [r \in 1 .. times |-> KeyOf(r)]
    OBVIOUS
  <2>3. f \in [1 .. times -> List!Keys] /\ \A r \in 1 .. times : f[r] = KeyOf(r)
    BY <1>6, <2>2
  <2>4. f \in Surjection(1 .. times, List!Keys)
    BY <1>6, <2>3 DEF Surjection
  <2>5. f \in Injection(1 .. times, List!Keys)
    BY <1>4, <2>3 DEF Injection, IsInjective
  <2>6. QED
    BY <2>1, <2>4, <2>5, FS_Surjection
<1>8. List!Keys \subseteq Int
  BY <1>3, <1>6
<1>9. QED
  BY <1>3, <1>4, <1>6, <1>7, <1>8

LEMMA KeyOfUnstamped ==
  ASSUME List!ListAssumption, OrderOK, NEW r \in Unstamped
  PROVE  ~ (KeyOf(r) < 0)
<1>1. PICK c : c = Cardinality(Unstamped)
  OBVIOUS
<1>2. c \in Nat /\ DOMAIN tail = 1 .. c /\ \E k \in 1 .. c : tail[k] = r
  BY <1>1, TailIs DEF OrderOK
<1>3. KeyOf(r) \in 1 .. c
  BY <1>2, Zenon DEF KeyOf
<1>4. QED
  BY <1>2, <1>3

LEMMA OrderIs ==
  ASSUME List!ListAssumption, OrderOK, NEW o, o = List!Ordered
  PROVE  /\ o \in [1 .. times -> 1 .. times] /\ Len(o) = times /\ times \in Nat
         /\ \A i \in 1 .. times : Place(o[i]) = i
         /\ \A r \in 1 .. times : Place(r) \in 1 .. times /\ o[Place(r)] = r
         /\ \A i, j \in 1 .. times : i < j => Above(o[i], o[j])
<1>0. times \in Nat
  BY ListNumbers DEF OrderOK
<1>1. PICK s : s = List!Ascending(List!Keys)
  OBVIOUS
<1>2. Sorts(s, List!Keys, times)
  BY <1>1, KeysAre, AscendingIs, Zenon
<1>3. o = [i \in 1 .. times |-> IF s[i] < 0 THEN -s[i] ELSE tail[s[i]]]
  BY <1>1, <1>2 DEF List!Ordered, Sorts
<1>4. ASSUME NEW i \in 1 .. times PROVE o[i] \in 1 .. times /\ KeyOf(o[i]) = s[i]
  <2>0. s[i] \in List!Keys
    BY <1>2 DEF Sorts
  <2>1. PICK r \in 1 .. times : s[i] = KeyOf(r)
    BY <2>0, KeysAre
  <2>2. r = o[i]
    BY <1>3, <2>1, KeysAre
  <2>3. QED
    BY <2>1, <2>2
<1>5. ASSUME NEW i \in 1 .. times PROVE Place(o[i]) = i
  BY <1>2, <1>4 DEF Place, Sorts
<1>6. ASSUME NEW r \in 1 .. times PROVE Place(r) \in 1 .. times /\ o[Place(r)] = r
  <2>1. KeyOf(r) \in List!Keys
    BY KeysAre
  <2>2. Place(r) \in 1 .. times /\ s[Place(r)] = KeyOf(r)
    BY <1>2, <2>1 DEF Place, Sorts
  <2>3. QED
    BY <1>4, <2>2, KeysAre
<1>7. ASSUME NEW i \in 1 .. times, NEW j \in 1 .. times, i < j PROVE Above(o[i], o[j])
  <2>1. s[i] < s[j] /\ KeyOf(o[i]) = s[i] /\ KeyOf(o[j]) = s[j] /\ o[i] \in 1 .. times /\ o[j] \in 1 .. times
    BY <1>2, <1>4, <1>7 DEF Sorts
  <2>2. PICK p \in 1 .. times, r \in 1 .. times : p = o[i] /\ r = o[j]
    BY <2>1
  <2>3. KeyOf(p) < KeyOf(r) /\ KeyOf(p) \in Int /\ KeyOf(r) \in Int
    BY <2>1, <2>2, KeysAre
  <2>4. p # r
    BY <2>3
  <2>5. ASSUME r \notin Unstamped PROVE p > r /\ p \notin Unstamped
    <3>1. KeyOf(r) = -r /\ r > 0
      BY <1>0, <2>5 DEF KeyOf
    <3>2. KeyOf(p) < 0
      BY <2>3, <3>1
    <3>3. p \notin Unstamped
      BY <2>2, <3>2, KeyOfUnstamped
    <3>4. KeyOf(p) = -p
      BY <3>3 DEF KeyOf
    <3>5. QED
      BY <1>0, <2>3, <3>1, <3>3, <3>4
  <2>6. QED
    BY <2>2, <2>4, <2>5 DEF Above
<1>8. o \in [1 .. times -> 1 .. times] /\ Len(o) = times
  BY <1>0, <1>3, <1>4
<1>9. QED
  BY <1>0, <1>5, <1>6, <1>7, <1>8

\* A run that starts stands before all others, and no other moves but the restless.
LEMMA PlaceGrows ==
  ASSUME List!ListAssumption, OrderOK, OrderOK', times' = times \/ times' = times + 1, NEW r \in (1 .. times) \ List!Restless
  PROVE  Place(r) \in Nat /\ Place(r)' \in Nat /\ Place(r) <= Place(r)'
<1>0. times \in Nat
  BY ListNumbers DEF OrderOK
<1>1. DOMAIN tail' = DOMAIN tail /\ KeyOf(r)' = KeyOf(r)
  <2>1. PICK t, u : t = tail /\ u = tail'
    OBVIOUS
  <2>2. t \in List!SetToSeqs(Unstamped) /\ u \in List!SetToSeqs(Unstamped)
    BY <2>1 DEF OrderOK
  <2>3. DOMAIN t = DOMAIN u /\ (List!Restless = {} => \A k \in DOMAIN t : t[k] = u[k])
    BY <2>2, TailOfOne
  <2>4. CASE r \notin Unstamped
    BY <2>1, <2>3, <2>4 DEF KeyOf
  <2>5. CASE r \in Unstamped
    <3>1. List!Restless = {}
      BY <2>5 DEF List!Restless
    <3>2. \A k \in DOMAIN t : (t[k] = r) <=> (u[k] = r)
      BY <2>3, <3>1
    <3>3. PICK k : k = KeyOf(r)
      OBVIOUS
    <3>4. k = CHOOSE x \in DOMAIN t : t[x] = r
      BY <2>1, <2>5, <3>3 DEF KeyOf
    <3>5. KeyOf(r)' = CHOOSE x \in DOMAIN t : u[x] = r
      BY <2>1, <2>3, <2>5 DEF KeyOf
    <3>6. (CHOOSE x \in DOMAIN t : t[x] = r) = (CHOOSE x \in DOMAIN t : u[x] = r)
      BY <3>2
    <3>7. QED
      BY <2>1, <2>3, <3>3, <3>4, <3>5, <3>6
  <2>6. QED
    BY <2>4, <2>5
<1>2. List!Keys \subseteq List!Keys'
  BY <1>0, <1>1 DEF List!Keys
<1>3. IsFiniteSet(List!Keys')
  <2>1. PICK K, n, t : K = List!Keys' /\ n = times' /\ t = tail'
    OBVIOUS
  <2>2. K = {-x : x \in (1 .. n) \ Unstamped} \cup DOMAIN t /\ n \in Nat /\ t \in List!SetToSeqs(Unstamped)
    BY <1>0, <2>1 DEF List!Keys, OrderOK
  <2>3. PICK c : c = Cardinality(Unstamped)
    OBVIOUS
  <2>4. c \in Nat /\ DOMAIN t = 1 .. c
    BY <2>2, <2>3, TailIs
  <2>5. K \in SUBSET ((-n) .. c) /\ -n \in Int /\ c \in Int
    BY <2>2, <2>4
  <2>6. IsFiniteSet((-n) .. c)
    BY <2>5, FS_Interval, Zenon
  <2>7. QED
    BY <2>1, <2>5, <2>6, FS_Subset
<1>4. PICK S, T, k : S = Below(List!Keys, k) /\ T = Below(List!Keys', k) /\ k = KeyOf(r)
  OBVIOUS
<1>5. S \in SUBSET T /\ T \in SUBSET List!Keys'
  BY <1>2, <1>4 DEF Below
<1>6. IsFiniteSet(T)
  BY <1>3, <1>5, FS_Subset
<1>7. IsFiniteSet(S) /\ Cardinality(S) <= Cardinality(T) /\ Cardinality(S) \in Nat /\ Cardinality(T) \in Nat
  BY <1>5, <1>6, FS_Subset, FS_CardinalityType
<1>8. Place(r) = Cardinality(S) + 1
  BY <1>4 DEF Place
<1>9. Place(r)' = Cardinality(T) + 1
  BY <1>1, <1>4 DEF Place, Below
<1>10. QED
  BY <1>7, <1>8, <1>9

\* The runs started after the first b stand in the first places.
LEMMA LatePlace ==
  ASSUME List!ListAssumption, OrderOK, NEW b \in Known .. times, NEW r \in 1 .. times, r > b
  PROVE  Place(r) <= times - b
<1>1. times \in Nat /\ Known \in Nat /\ Unstamped \subseteq 1 .. Known
  BY ListNumbers DEF OrderOK
<1>2. KeyOf(r) = -r
  BY <1>1 DEF KeyOf
<1>3. Below(List!Keys, -r) \subseteq (-times) .. (-r - 1)
  <2>1. PICK c : c = Cardinality(Unstamped)
    OBVIOUS
  <2>2. c \in Nat /\ DOMAIN tail = 1 .. c
    BY <2>1, TailIs DEF OrderOK
  <2>3. QED
    BY <1>1, <2>2 DEF Below, List!Keys
<1>4. PICK lo \in Int, hi \in Int : lo = -times /\ hi = -r - 1
  BY <1>1
<1>5. IsFiniteSet(lo .. hi) /\ Cardinality(lo .. hi) = IF lo > hi THEN 0 ELSE hi - lo + 1
  BY FS_Interval
<1>6. Cardinality(Below(List!Keys, -r)) <= Cardinality(lo .. hi) /\ IsFiniteSet(Below(List!Keys, -r))
  BY <1>3, <1>4, <1>5, FS_Subset
<1>7. Cardinality(Below(List!Keys, -r)) \in Nat
  BY <1>6, FS_CardinalityType
<1>8. QED
  BY <1>1, <1>2, <1>4, <1>5, <1>6, <1>7 DEF Place

\* The runs of the first b that are asked for, whose order is kept, and not among l.
Unlisted(l, b) == (((1 .. b) \cap Asked) \ List!Restless) \ List!ToSet(l)

\* A page that follows l: in order, from behind all that is missing of l, and
\* what it does not have is behind its end.
PageOK(l, b, page) ==
  /\ page.runs \in Seq((1 .. times) \cap Asked) /\ Len(page.runs) <= PageSize
  /\ \A i, j \in 1 .. Len(page.runs) : i < j => Above(page.runs[i], page.runs[j])
  /\ page.next = 0 \/ page.next \in PageSize .. times
  /\ \A r \in Unlisted(l, b) \ List!ToSet(page.runs) :
       page.next # 0 /\ Place(r) > page.next /\ \A p \in List!ToSet(page.runs) : Above(p, r)
  /\ times - b <= PageSize => List!ToSet(page.runs) \subseteq 1 .. b

LEMMA PageIs ==
  ASSUME List!ListAssumption, OrderOK, NEW offset \in 0 .. times, NEW l, NEW b \in 0 .. times,
         (offset = 0 /\ b = times) \/ (offset >= PageSize /\ b >= Known),
         \A r \in Unlisted(l, b) : Place(r) > offset,
         NEW page, page = List!Page(offset)
  PROVE  PageOK(l, b, page) /\ page = [runs |-> page.runs, next |-> page.next, base |-> times]
<1>1. PICK o : o = List!Ordered
  OBVIOUS
<1>2. /\ o \in [1 .. times -> 1 .. times] /\ Len(o) = times /\ times \in Nat
      /\ \A i \in 1 .. times : Place(o[i]) = i
      /\ \A r \in 1 .. times : Place(r) \in 1 .. times /\ o[Place(r)] = r
      /\ \A i, j \in 1 .. times : i < j => Above(o[i], o[j])
  BY <1>1, OrderIs
<1>3. PageSize \in Nat \ {0} /\ Known \in Nat
  BY ListNumbers
<1>4. PICK H : H = {i \in offset + 1 .. times : o[i] \in Asked}
  OBVIOUS
<1>5. H \subseteq 1 .. times /\ \A i \in H : i > offset /\ o[i] \in Asked
  <2>1. offset \in Nat
    BY <1>2
  <2>2. \A i \in offset + 1 .. times : i \in 1 .. times /\ i > offset
    BY <1>2, <2>1
  <2>3. QED
    BY <1>4, <2>2
<1>6. H \subseteq Int /\ IsFiniteSet(H)
  <2>1. IsFiniteSet(1 .. times)
    BY <1>2, FS_Interval
  <2>2. H \in SUBSET (1 .. times) /\ 1 .. times \subseteq Int
    BY <1>5
  <2>3. QED
    BY <2>1, <2>2, FS_Subset
<1>7. PICK c : c = Cardinality(H)
  OBVIOUS
<1>8. PICK h : h = List!Hits(offset)
  OBVIOUS
<1>9. Sorts(h, H, c)
  <2>1. h = List!Ascending(H)
    BY <1>1, <1>2, <1>4, <1>8 DEF List!Hits
  <2>2. QED
    BY <1>6, <1>7, <2>1, AscendingIs, Zenon
<1>10. c \in Nat /\ h \in [1 .. c -> H] /\ Len(h) = c
  BY <1>9 DEF Sorts
<1>11. PICK size : size = IF c < PageSize THEN c ELSE PageSize
  OBVIOUS
<1>12. size \in 0 .. c /\ size <= PageSize /\ (size < c => size = PageSize)
  BY <1>3, <1>10, <1>11
<1>13. PICK scanned : scanned = IF c < PageSize THEN times ELSE h[PageSize]
  OBVIOUS
<1>14. page = [runs |-> [i \in 1 .. size |-> o[h[i]]],
               next |-> IF c >= PageSize /\ scanned < times THEN scanned ELSE 0, base |-> times]
  BY <1>1, <1>2, <1>8, <1>10, <1>11, <1>13, ListNumbers DEF List!Page, List!Scanned
<1>15. PICK runs : runs = [i \in 1 .. size |-> o[h[i]]]
  OBVIOUS
<1>16. page.runs = runs /\ page.base = times /\ page.next = IF c >= PageSize /\ scanned < times THEN scanned ELSE 0
  BY <1>14, <1>15
<1>17. ASSUME NEW i \in 1 .. size
       PROVE  i \in 1 .. c /\ h[i] \in H /\ h[i] \in 1 .. times /\ h[i] > offset /\ runs[i] = o[h[i]]
              /\ runs[i] \in (1 .. times) \cap Asked /\ Place(runs[i]) = h[i]
  <2>1. i \in 1 .. c
    BY <1>10, <1>12
  <2>2. h[i] \in H /\ runs[i] = o[h[i]]
    BY <1>10, <1>15, <2>1
  <2>3. h[i] \in 1 .. times /\ h[i] > offset /\ o[h[i]] \in Asked
    BY <1>5, <2>2
  <2>4. QED
    BY <1>2, <2>1, <2>2, <2>3
<1>18. runs \in Seq((1 .. times) \cap Asked) /\ Len(runs) = size
  BY <1>12, <1>15, <1>17
<1>19. ASSUME NEW i \in 1 .. c, NEW j \in 1 .. c, i < j PROVE h[i] < h[j] /\ Above(o[h[i]], o[h[j]])
  <2>1. h[i] < h[j]
    BY <1>9, <1>19 DEF Sorts
  <2>2. h[i] \in 1 .. times /\ h[j] \in 1 .. times
    BY <1>5, <1>10
  <2>3. QED
    BY <1>2, <2>1, <2>2
<1>20. PageSize <= c => h[PageSize] \in PageSize .. times
  <2> SUFFICES ASSUME PageSize <= c PROVE h[PageSize] \in PageSize .. times
    OBVIOUS
  <2>1. PageSize \in 1 .. c
    BY <1>3, <1>10
  <2>2. PICK x : x = h[PageSize]
    OBVIOUS
  <2>3. x \in H /\ x \in 1 .. times /\ x > offset
    BY <1>5, <1>10, <2>1, <2>2
  <2>4. Cardinality(Below(H, x)) = PageSize - 1
    BY <1>9, <2>1, <2>2 DEF Sorts
  <2>5. Below(H, x) \subseteq 1 .. x - 1
    <3>1. \A m \in 1 .. times : m < x => m \in 1 .. x - 1
      BY <1>2, <2>3
    <3>2. QED
      BY <1>5, <3>1 DEF Below
  <2>6. IsFiniteSet(1 .. x - 1) /\ Cardinality(1 .. x - 1) = x - 1
    <3>1. PICK y \in Nat : y = x - 1
      BY <2>3
    <3>2. 1 \in Int /\ y \in Int
      BY <3>1
    <3>3. IsFiniteSet(1 .. y) /\ Cardinality(1 .. y) = IF 1 > y THEN 0 ELSE y - 1 + 1
      BY <3>2, FS_Interval, Zenon
    <3>4. Cardinality(1 .. y) = y
      BY <3>1, <3>3
    <3>5. QED
      BY <3>1, <3>3, <3>4, Zenon
  <2>7. Cardinality(Below(H, x)) <= x - 1
    BY <2>5, <2>6, FS_Subset
  <2>8. QED
    BY <1>3, <2>2, <2>3, <2>4, <2>7
<1>21. page.next = 0 \/ page.next \in PageSize .. times
  <2>1. CASE c < PageSize
    BY <1>3, <1>10, <1>16, <2>1
  <2>2. CASE ~ (c < PageSize)
    <3>1. scanned = h[PageSize] /\ PageSize <= c
      BY <1>3, <1>10, <1>13, <2>2
    <3>2. QED
      BY <1>16, <1>20, <3>1
  <2>3. QED
    BY <2>1, <2>2
<1>22. ASSUME NEW r \in Unlisted(l, b) \ List!ToSet(runs)
       PROVE  page.next # 0 /\ Place(r) > page.next /\ \A p \in List!ToSet(runs) : Above(p, r)
  <2>1. r \in 1 .. times /\ r \in Asked /\ Place(r) > offset
    BY <1>2 DEF Unlisted
  <2>2. PICK x : x = Place(r)
    OBVIOUS
  <2>3. x \in 1 .. times /\ o[x] = r /\ x > offset
    BY <1>2, <2>1, <2>2
  <2>4. x \in H
    BY <1>2, <1>4, <2>1, <2>3
  <2>5. PICK k : k = Cardinality(Below(H, x)) + 1
    OBVIOUS
  <2>6. k \in 1 .. c /\ h[k] = x
    BY <1>9, <2>4, <2>5 DEF Sorts
  <2>7. ~ (k <= size)
    <3>1. SUFFICES ASSUME k <= size PROVE FALSE
      OBVIOUS
    <3>2. k \in 1 .. size
      BY <1>12, <2>6, <3>1
    <3>3. runs[k] = r
      BY <1>17, <2>3, <2>6, <3>2
    <3>4. DOMAIN runs = 1 .. size
      BY <1>15
    <3>5. QED
      BY <3>2, <3>3, <3>4 DEF List!ToSet
  <2>8. size = PageSize /\ PageSize \in 1 .. c /\ PageSize < k
    BY <1>3, <1>10, <1>12, <2>6, <2>7
  <2>9. h[PageSize] < x
    BY <1>19, <2>6, <2>8
  <2>10. scanned = h[PageSize] /\ scanned \in PageSize .. times /\ c >= PageSize
    BY <1>3, <1>10, <1>13, <1>20, <2>8
  <2>11. page.next = scanned
    <3>1. x <= times /\ x \in Int /\ times \in Int /\ scanned \in Int
      BY <1>2, <1>3, <2>3, <2>10
    <3>2. scanned < times
      BY <2>9, <2>10, <3>1
    <3>3. QED
      BY <1>16, <2>10, <3>2
  <2>12. ASSUME NEW p \in List!ToSet(runs) PROVE Above(p, r)
    <3>1. PICK i \in 1 .. size : p = runs[i]
      BY <1>15, <2>12 DEF List!ToSet
    <3>2. i \in 1 .. c /\ runs[i] = o[h[i]]
      BY <1>17
    <3>3. i < k
      BY <1>12, <2>6, <2>7
    <3>4. QED
      BY <1>19, <2>3, <2>6, <3>1, <3>2, <3>3
  <2>13. QED
    BY <1>3, <2>2, <2>3, <2>9, <2>10, <2>11, <2>12
<1>23. ASSUME times - b <= PageSize PROVE List!ToSet(runs) \subseteq 1 .. b
  <2> SUFFICES ASSUME NEW p \in List!ToSet(runs) PROVE p \in 1 .. b
    OBVIOUS
  <2>1. PICK i \in 1 .. size : p = runs[i]
    BY <1>15 DEF List!ToSet
  <2>2. p \in 1 .. times /\ Place(p) \in 1 .. times /\ Place(p) > offset
    BY <1>17, <2>1
  <2>3. CASE offset = 0 /\ b = times
    BY <2>2, <2>3
  <2>4. CASE offset >= PageSize /\ b >= Known
    <3>1. SUFFICES ASSUME p > b PROVE FALSE
      BY <1>2, <2>2
    <3>2. b \in Known .. times
      BY <1>3, <2>4
    <3>3. Place(p) <= times - b
      BY <2>2, <3>1, <3>2, LatePlace
    <3>4. QED
      BY <1>2, <1>3, <1>23, <2>2, <2>4, <3>3
  <2>5. QED
    BY <2>3, <2>4
<1>24. \A i, j \in 1 .. size : i < j => Above(runs[i], runs[j])
  BY <1>17, <1>19
<1>25. PageOK(l, b, page)
  BY <1>12, <1>16, <1>18, <1>21, <1>22, <1>23, <1>24 DEF PageOK
<1>26. page = [runs |-> page.runs, next |-> page.next, base |-> times]
  BY <1>14
<1>27. QED
  BY <1>25, <1>26

\* Every pair of the longer list is one of the list, one of the page, or across.
Joins(m, page, E) ==
  /\ m \in Seq(E) /\ List!ToSet(m) = List!ToSet(list) \cup List!ToSet(page)
  /\ \A i, j \in 1 .. Len(m) : i < j =>
       \/ i \in 1 .. Len(list) /\ j \in 1 .. Len(list) /\ m[i] = list[i] /\ m[j] = list[j]
       \/ m[i] \in List!ToSet(list) /\ m[j] \in List!ToSet(page) \ List!ToSet(list)
       \/ \E k, n \in 1 .. Len(page) : k < n /\ m[i] = page[k] /\ m[j] = page[n]

\* What a further page adds to the list.
LEMMA MoreIs ==
  ASSUME NEW E, list \in Seq(E), NEW page \in Seq(E), NEW m, m = List!More(page)
  PROVE  Joins(m, page, E)
<1>1. PICK l, n : l = Len(list) /\ n = Len(page)
  OBVIOUS
<1>2. l \in Nat /\ n \in Nat /\ DOMAIN list = 1 .. l /\ DOMAIN page = 1 .. n
  BY <1>1
<1>3. PICK H : H = {i \in 1 .. n : page[i] \notin List!ToSet(list)}
  OBVIOUS
<1>4. H \subseteq Int /\ IsFiniteSet(H) /\ H \subseteq 1 .. n
  <2>1. IsFiniteSet(1 .. n) /\ H \in SUBSET (1 .. n) /\ 1 .. n \subseteq Int
    BY <1>2, <1>3, FS_Interval
  <2>2. QED
    BY <2>1, FS_Subset
<1>5. PICK f : f = List!Ascending(H)
  OBVIOUS
<1>6. PICK c : c = Cardinality(H)
  OBVIOUS
<1>7. Sorts(f, H, c)
  BY <1>4, <1>5, <1>6, AscendingIs, Zenon
<1>8. c \in Nat /\ f \in [1 .. c -> H]
  BY <1>7 DEF Sorts
<1>9. PICK g : g = [i \in 1 .. c |-> page[f[i]]]
  OBVIOUS
<1>10. m = list \o g
  <2>1. DOMAIN f = 1 .. c
    BY <1>8
  <2>2. QED
    BY <1>2, <1>3, <1>5, <1>9, <2>1 DEF List!More
<1>11. ASSUME NEW i \in 1 .. c PROVE f[i] \in 1 .. n /\ g[i] = page[f[i]] /\ g[i] \in E /\ g[i] \in List!ToSet(page) \ List!ToSet(list)
  <2>1. f[i] \in H /\ f[i] \in 1 .. n
    BY <1>4, <1>8
  <2>2. g[i] = page[f[i]] /\ page[f[i]] \in E
    BY <1>1, <1>9, <2>1
  <2>3. QED
    BY <1>2, <1>3, <2>1, <2>2 DEF List!ToSet
<1>12. g \in Seq(E) /\ Len(g) = c
  BY <1>8, <1>9, <1>11
<1>13. m \in Seq(E) /\ Len(m) = l + c
  <2>1. list \in Seq(E) /\ g \in Seq(E) /\ Len(list) = l /\ Len(g) = c
    BY <1>1, <1>12
  <2>2. list \o g \in Seq(E) /\ Len(list \o g) = l + c
    BY <2>1
  <2>3. QED
    BY <1>10, <2>2, Zenon
<1>14. ASSUME NEW i \in 1 .. Len(m) PROVE m[i] = IF i <= l THEN list[i] ELSE g[i - l]
  BY <1>1, <1>10, <1>12, <1>13, <1>14
<1>15. List!ToSet(m) = List!ToSet(list) \cup List!ToSet(page)
  <2>1. DOMAIN m = 1 .. Len(m) /\ List!ToSet(m) = {m[i] : i \in 1 .. Len(m)}
    BY <1>13 DEF List!ToSet
  <2>2. ASSUME NEW i \in 1 .. Len(m) PROVE m[i] \in List!ToSet(list) \cup List!ToSet(page)
    <3>1. CASE i <= l
      <4>1. i \in DOMAIN list /\ m[i] = list[i]
        BY <1>2, <1>13, <1>14, <3>1
      <4>2. QED
        BY <4>1 DEF List!ToSet
    <3>2. CASE ~ (i <= l)
      <4>1. i - l \in 1 .. c /\ m[i] = g[i - l]
        BY <1>2, <1>8, <1>13, <1>14, <3>2
      <4>2. QED
        BY <1>11, <4>1
    <3>3. QED
      BY <3>1, <3>2
  <2>3. ASSUME NEW x \in List!ToSet(list) PROVE x \in List!ToSet(m)
    <3>1. PICK i \in 1 .. l : x = list[i]
      BY <1>2 DEF List!ToSet
    <3>2. i \in 1 .. Len(m) /\ m[i] = x
      BY <1>2, <1>8, <1>13, <1>14, <3>1
    <3>3. QED
      BY <2>1, <3>2
  <2>4. ASSUME NEW x \in List!ToSet(page), x \notin List!ToSet(list) PROVE x \in List!ToSet(m)
    <3>1. PICK k \in 1 .. n : x = page[k]
      BY <1>2 DEF List!ToSet
    <3>2. k \in H
      BY <1>3, <2>4, <3>1
    <3>3. PICK i \in 1 .. c : f[i] = k
      <4>1. Cardinality(Below(H, k)) + 1 \in 1 .. c /\ f[Cardinality(Below(H, k)) + 1] = k
        BY <1>7, <3>2 DEF Sorts
      <4>2. QED
        BY <4>1, Zenon
    <3>4. g[i] = x
      BY <1>9, <3>1, <3>3
    <3>5. l + i \in 1 .. Len(m) /\ ~ (l + i <= l) /\ (l + i) - l = i
      BY <1>2, <1>8, <1>13
    <3>6. m[l + i] = x
      BY <1>14, <3>4, <3>5
    <3>7. QED
      BY <2>1, <3>5, <3>6
  <2>5. QED
    BY <2>1, <2>2, <2>3, <2>4
<1>16. ASSUME NEW i \in 1 .. Len(m), NEW j \in 1 .. Len(m), i < j
       PROVE  \/ i \in 1 .. l /\ j \in 1 .. l /\ m[i] = list[i] /\ m[j] = list[j]
              \/ m[i] \in List!ToSet(list) /\ m[j] \in List!ToSet(page) \ List!ToSet(list)
              \/ \E k, q \in 1 .. n : k < q /\ m[i] = page[k] /\ m[j] = page[q]
  <2>0. i \in Nat /\ j \in Nat /\ 1 <= i /\ i < j /\ j <= l + c
    BY <1>2, <1>8, <1>13, <1>16
  <2>1. CASE j <= l
    BY <1>2, <1>14, <2>0, <2>1
  <2>2. CASE i <= l /\ ~ (j <= l)
    <3>1. j - l \in 1 .. c /\ m[j] = g[j - l]
      BY <1>2, <1>8, <1>14, <2>0, <2>2
    <3>2. i \in DOMAIN list /\ m[i] = list[i]
      BY <1>2, <1>14, <2>0, <2>2
    <3>3. m[i] \in List!ToSet(list)
      BY <3>2 DEF List!ToSet
    <3>4. QED
      BY <1>11, <3>1, <3>3
  <2>3. CASE ~ (i <= l)
    <3>1. i - l \in 1 .. c /\ j - l \in 1 .. c /\ i - l < j - l /\ m[i] = g[i - l] /\ m[j] = g[j - l]
      BY <1>2, <1>8, <1>14, <2>0, <2>3
    <3>2. f[i - l] < f[j - l]
      BY <1>7, <3>1 DEF Sorts
    <3>3. QED
      BY <1>11, <3>1, <3>2
  <2>4. QED
    BY <1>2, <2>0, <2>1, <2>2, <2>3
<1>17. QED
  BY <1>1, <1>13, <1>15, <1>16 DEF Joins

\* What is on screen: of the runs there were at its first page, what is missing
\* is behind the cursor and below what is listed.
ShownOK ==
  /\ OrderOK /\ (top = 0 \/ top \in Known .. times)
  /\ list \in Seq(1 .. times)
  /\ cursor = 0 \/ (cursor \in PageSize .. times /\ top >= Known)
  /\ \A r \in Unlisted(list, top) : cursor # 0 /\ Place(r) > cursor /\ \A p \in List!ToSet(list) : Above(p, r)
  /\ List!NewestFirst /\ List!LateRunsStayOff

\* A request that still counts asks for the next page, and its answer fits.
AskOK(q) ==
  /\ q = [generation |-> q.generation, offset |-> q.offset, served |-> q.served, answer |-> q.answer]
  /\ q.generation \in 1 .. turn /\ q.served \in BOOLEAN /\ (q.offset = 0 \/ q.offset \in PageSize .. times)
  /\ q.answer.next \in 0 .. times /\ Len(q.answer.runs) <= PageSize
  /\ q.generation = turn /\ q.offset # 0 => q.offset = cursor
  /\ q.generation = turn /\ q.served =>
       IF q.offset = 0 THEN q.answer.base \in Known .. times /\ PageOK(<<>>, q.answer.base, q.answer)
       ELSE PageOK(list, top, q.answer)

PagesInv ==
  /\ ShownOK /\ turn \in 0 .. MaxAsks
  /\ \A q \in asks : AskOK(q)
  /\ \A p, q \in asks : p.generation = q.generation => p = q

LEMMA PlaceStays ==
  ASSUME List!ListAssumption, OrderOK, OrderOK', times' = times \/ times' = times + 1
  PROVE  /\ times \in Nat /\ times' \in Nat /\ times <= times'
         /\ \A r \in (1 .. times) \ List!Restless : Place(r) \in Nat /\ Place(r)' \in Nat /\ Place(r) <= Place(r)'
<1>1. times \in Nat
  BY ListNumbers DEF OrderOK
<1>2. QED
  BY <1>1, PlaceGrows

LEMMA PageLater ==
  ASSUME List!ListAssumption, OrderOK, OrderOK', times' = times \/ times' = times + 1,
         NEW l, NEW b \in 0 .. times, NEW page, PageOK(l, b, page)
  PROVE  PageOK(l, b, page)'
<1>1. /\ times \in Nat /\ times' \in Nat /\ times <= times'
      /\ \A r \in (1 .. times) \ List!Restless : Place(r) \in Nat /\ Place(r)' \in Nat /\ Place(r) <= Place(r)'
  BY PlaceStays
<1>2. PageSize \in Nat /\ b \in Nat /\ b <= times
  BY <1>1, ListNumbers
<1>3. page.runs \in Seq((1 .. times') \cap Asked) /\ Len(page.runs) <= PageSize
  <2>1. (1 .. times) \cap Asked \subseteq (1 .. times') \cap Asked
    BY <1>1
  <2>2. page.runs \in Seq((1 .. times) \cap Asked) /\ Len(page.runs) <= PageSize
    BY DEF PageOK
  <2>3. QED
    BY <2>1, <2>2
<1>4. page.next = 0 \/ page.next \in PageSize .. times'
  BY <1>1, <1>2 DEF PageOK
<1>5. ASSUME NEW r \in Unlisted(l, b) \ List!ToSet(page.runs)
      PROVE  page.next # 0 /\ Place(r)' > page.next /\ \A p \in List!ToSet(page.runs) : Above(p, r)
  <2>1. r \in (1 .. times) \ List!Restless
    BY <1>1, <1>2 DEF Unlisted
  <2>2. page.next # 0 /\ Place(r) > page.next /\ \A p \in List!ToSet(page.runs) : Above(p, r)
    BY DEF PageOK
  <2>3. page.next \in Nat
    BY <1>1, <1>2 DEF PageOK
  <2>4. Place(r) \in Nat /\ Place(r)' \in Nat /\ Place(r) <= Place(r)'
    BY <1>1, <2>1
  <2>5. Place(r)' > page.next
    BY <2>2, <2>3, <2>4
  <2>6. QED
    BY <2>2, <2>5
<1>6. times' - b <= PageSize => List!ToSet(page.runs) \subseteq 1 .. b
  <2>1. times' - b <= PageSize => times - b <= PageSize
    <3>1. PICK t \in Nat, u \in Nat, n \in Nat : t = times /\ u = times' /\ n = PageSize
      BY <1>1, <1>2
    <3>2. t <= u /\ b \in Nat
      BY <1>1, <1>2, <3>1
    <3>3. u - b <= n => t - b <= n
      BY <3>2
    <3>4. QED
      BY <3>1, <3>3
  <2>2. QED
    BY <2>1 DEF PageOK
<1>7. \A i, j \in 1 .. Len(page.runs) : i < j => Above(page.runs[i], page.runs[j])
  BY DEF PageOK
<1>8. QED
  BY <1>3, <1>4, <1>5, <1>6, <1>7 DEF PageOK, Above, Unlisted, List!Restless

LEMMA AskLater ==
  ASSUME List!ListAssumption, OrderOK, OrderOK', times' = times \/ times' = times + 1,
         UNCHANGED <<list, top, cursor, turn>>, top \in 0 .. times, NEW q, AskOK(q)
  PROVE  AskOK(q)'
<1>1. times \in Nat /\ times' \in Nat /\ times <= times'
  BY PlaceStays
<1>2. PageSize \in Nat /\ Known \in Nat
  BY ListNumbers
<1>3. /\ q = [generation |-> q.generation, offset |-> q.offset, served |-> q.served, answer |-> q.answer]
      /\ q.generation \in 1 .. turn /\ q.served \in BOOLEAN /\ (q.offset = 0 \/ q.offset \in PageSize .. times')
      /\ q.answer.next \in 0 .. times' /\ Len(q.answer.runs) <= PageSize
      /\ q.generation = turn /\ q.offset # 0 => q.offset = cursor
  BY <1>1, <1>2 DEF AskOK
<1>4. ASSUME q.generation = turn, q.served, q.offset = 0
      PROVE  q.answer.base \in Known .. times' /\ PageOK(<<>>, q.answer.base, q.answer)'
  <2>1. PICK b, a : b = q.answer.base /\ a = q.answer
    OBVIOUS
  <2>2. b \in Known .. times /\ PageOK(<<>>, b, a)
    BY <1>4, <2>1 DEF AskOK
  <2>3. b \in 0 .. times /\ b \in Known .. times'
    BY <1>1, <1>2, <2>2
  <2>4. PageOK(<<>>, b, a)'
    BY <2>2, <2>3, PageLater
  <2>5. QED
    BY <2>1, <2>3, <2>4
<1>5. ASSUME q.generation = turn, q.served, q.offset # 0
      PROVE  PageOK(list, top, q.answer)'
  <2>1. PICK l, b, a : l = list /\ b = top /\ a = q.answer
    OBVIOUS
  <2>2. PageOK(l, b, a)
    BY <1>5, <2>1 DEF AskOK
  <2>3. PageOK(l, b, a)'
    BY <2>1, <2>2, PageLater
  <2>4. l = list' /\ b = top'
    BY <2>1
  <2>5. QED
    BY <2>1, <2>3, <2>4
<1>6. QED
  BY <1>3, <1>4, <1>5 DEF AskOK

LEMMA StaleOK ==
  ASSUME times' = times, turn \in Nat, turn' \in Nat, turn <= turn', NEW q, AskOK(q), q.generation # turn'
  PROVE  AskOK(q)'
BY DEF AskOK


LEMMA StartsPages ==
  ASSUME List!ListAssumption, List!Init
  PROVE  PagesInv
<1>1. OrderOK /\ times \in Nat
  BY ListNumbers DEF List!Init, OrderOK
<1>2. asks = {} /\ list = <<>> /\ cursor = 0 /\ top = 0 /\ turn = 0
  BY ListNumbers DEF List!Init
<1>3. Unlisted(list, top) = {} /\ List!ToSet(list) = {}
  BY <1>2 DEF Unlisted, List!ToSet
<1>4. List!NewestFirst /\ List!LateRunsStayOff
  BY <1>2, <1>3 DEF List!NewestFirst, List!LateRunsStayOff
<1>5. ShownOK
  BY <1>1, <1>2, <1>3, <1>4 DEF ShownOK
<1>6. QED
  BY <1>2, <1>5, ListNumbers DEF PagesInv

\* Nothing but the number of runs has changed on screen.
LEMMA ShownLater ==
  ASSUME List!ListAssumption, ShownOK, OrderOK', times' = times \/ times' = times + 1,
         UNCHANGED <<list, top, cursor>>
  PROVE  ShownOK'
<1>1. /\ times \in Nat /\ times' \in Nat /\ times <= times'
      /\ \A r \in (1 .. times) \ List!Restless : Place(r) \in Nat /\ Place(r)' \in Nat /\ Place(r) <= Place(r)'
  BY PlaceStays DEF ShownOK
<1>2. PageSize \in Nat /\ Known \in Nat
  BY ListNumbers
<1>3. top \in 0 .. times /\ cursor \in 0 .. times
  BY <1>1, <1>2 DEF ShownOK
<1>4. list' \in Seq(1 .. times') /\ (top' = 0 \/ top' \in Known .. times')
  <2>1. 1 .. times \subseteq 1 .. times'
    BY <1>1
  <2>2. list \in Seq(1 .. times) /\ (top = 0 \/ top \in Known .. times)
    BY DEF ShownOK
  <2>3. QED
    BY <1>1, <1>2, <2>1, <2>2
<1>5. cursor' = 0 \/ (cursor' \in PageSize .. times' /\ top' >= Known)
  BY <1>1, <1>2 DEF ShownOK
<1>6. ASSUME NEW r \in Unlisted(list, top)
      PROVE  cursor # 0 /\ Place(r)' > cursor /\ \A p \in List!ToSet(list) : Above(p, r)
  <2>1. r \in (1 .. times) \ List!Restless
    BY <1>1, <1>3 DEF Unlisted
  <2>2. cursor # 0 /\ Place(r) > cursor /\ \A p \in List!ToSet(list) : Above(p, r)
    BY DEF ShownOK
  <2>3. Place(r) \in Nat /\ Place(r)' \in Nat /\ Place(r) <= Place(r)'
    BY <1>1, <2>1
  <2>4. Place(r)' > cursor
    BY <1>3, <2>2, <2>3
  <2>5. QED
    BY <2>2, <2>4
<1>7. List!NewestFirst'
  BY DEF ShownOK, List!NewestFirst
<1>8. List!LateRunsStayOff'
  <2>1. times' - top <= PageSize => times - top <= PageSize
    <3>1. PICK t \in Nat, u \in Nat, n \in Nat, b \in Nat : t = times /\ u = times' /\ n = PageSize /\ b = top
      BY <1>1, <1>2, <1>3
    <3>2. t <= u
      BY <1>1, <3>1
    <3>3. u - b <= n => t - b <= n
      BY <3>2
    <3>4. QED
      BY <3>1, <3>3
  <2>2. QED
    BY <2>1 DEF ShownOK, List!LateRunsStayOff
<1>9. QED
  BY <1>4, <1>5, <1>6, <1>7, <1>8 DEF ShownOK, Unlisted, Above, List!Restless, List!ToSet

LEMMA RunStartsOK ==
  ASSUME List!ListAssumption, PagesInv, List!RunStarts
  PROVE  PagesInv'
<1>1. times' = times + 1 /\ times < MaxRuns /\ tail' \in List!SetToSeqs(Unstamped) /\ UNCHANGED <<turn, asks, list, cursor, top>>
  BY DEF List!RunStarts
<1>2. OrderOK /\ ShownOK
  BY DEF PagesInv, ShownOK
<1>4. OrderOK'
  BY <1>1, <1>2, ListNumbers DEF OrderOK
<1>5. ShownOK'
  BY <1>1, <1>2, <1>4, ShownLater
<1>6. top \in 0 .. times
  BY <1>2, ListNumbers DEF ShownOK, OrderOK
<1>7. ASSUME NEW q \in asks PROVE AskOK(q)'
  BY <1>1, <1>2, <1>4, <1>6, AskLater DEF PagesInv
<1>8. QED
  BY <1>1, <1>5, <1>7 DEF PagesInv

LEMMA RestartOK ==
  ASSUME List!ListAssumption, PagesInv, List!ConsoleRestarts
  PROVE  PagesInv'
<1>1. tail' \in List!SetToSeqs(Unstamped) /\ asks' = {} /\ UNCHANGED <<times, turn, list, cursor, top>>
  BY DEF List!ConsoleRestarts
<1>2. OrderOK /\ ShownOK
  BY DEF PagesInv, ShownOK
<1>4. OrderOK'
  BY <1>1, <1>2 DEF OrderOK
<1>5. ShownOK'
  BY <1>1, <1>2, <1>4, ShownLater
<1>6. QED
  BY <1>1, <1>5 DEF PagesInv

LEMMA AskStep ==
  ASSUME List!ListAssumption, PagesInv, NEW offset, offset = 0 \/ (cursor # 0 /\ offset = cursor), List!Ask(offset)
  PROVE  PagesInv'
<1>1. PICK new : new = [generation |-> turn + 1, offset |-> offset, served |-> FALSE,
                         answer |-> [runs |-> <<>>, next |-> 0, base |-> 0]]
  OBVIOUS
<1>2. turn < MaxAsks /\ turn' = turn + 1 /\ asks' = asks \cup {new} /\ UNCHANGED <<times, tail, list, cursor, top>>
  BY <1>1 DEF List!Ask, List!Pending, List!First
<1>3. OrderOK /\ ShownOK /\ turn \in 0 .. MaxAsks /\ \A q \in asks : AskOK(q)
  BY DEF PagesInv, ShownOK
<1>4. turn \in Nat /\ turn' \in 1 .. MaxAsks /\ turn <= turn' /\ times \in Nat /\ PageSize \in Nat
  BY <1>2, <1>3, ListNumbers DEF OrderOK
<1>5. OrderOK'
  BY <1>2, <1>3 DEF OrderOK
<1>6. ShownOK'
  BY <1>2, <1>3, <1>5, ShownLater
<1>7. ASSUME NEW q \in asks PROVE AskOK(q)' /\ q.generation # turn'
  <2>1. AskOK(q) /\ q.generation \in 1 .. turn
    BY <1>3 DEF AskOK
  <2>2. q.generation # turn'
    BY <1>2, <1>4, <2>1
  <2>3. QED
    BY <1>2, <1>4, <2>1, <2>2, StaleOK
<1>8. AskOK(new)' /\ new.generation = turn'
  <2>1. offset = 0 \/ offset \in PageSize .. times
    BY <1>3 DEF ShownOK
  <2>2. QED
    BY <1>1, <1>2, <1>4, <2>1 DEF AskOK
<1>9. QED
  BY <1>2, <1>4, <1>6, <1>7, <1>8 DEF PagesInv

LEMMA ServeStep ==
  ASSUME List!ListAssumption, PagesInv, NEW q \in asks, List!Serve(q)
  PROVE  PagesInv'
<1>1. PICK a : a = List!Page(q.offset)
  OBVIOUS
<1>2. PICK s : s = [q EXCEPT !.served = TRUE, !.answer = a]
  OBVIOUS
<1>3. ~ q.served /\ asks' = (asks \ {q}) \cup {s} /\ UNCHANGED <<times, tail, turn, list, cursor, top>>
  BY <1>1, <1>2 DEF List!Serve
<1>4. /\ OrderOK /\ ShownOK /\ turn \in 0 .. MaxAsks /\ \A p \in asks : AskOK(p)
      /\ \A p, r \in asks : p.generation = r.generation => p = r
  BY DEF PagesInv, ShownOK
<1>5. times \in Nat /\ PageSize \in Nat /\ Known \in 0 .. times /\ top \in 0 .. times
  BY <1>4, ListNumbers DEF OrderOK, ShownOK
<1>6. OrderOK' /\ ShownOK'
  <2>1. OrderOK'
    BY <1>3, <1>4 DEF OrderOK
  <2>2. QED
    BY <1>3, <1>4, <2>1, ShownLater
<1>7. ASSUME NEW p \in asks PROVE AskOK(p)'
  BY <1>3, <1>4, <1>5, <1>6, AskLater
<1>8. /\ s = [generation |-> q.generation, offset |-> q.offset, served |-> TRUE, answer |-> a]
      /\ q.generation \in 1 .. turn /\ (q.offset = 0 \/ q.offset \in PageSize .. times)
      /\ (q.generation = turn /\ q.offset # 0 => q.offset = cursor)
  <2>1. AskOK(q)
    BY <1>4
  <2>2. QED
    BY <1>2, <2>1 DEF AskOK
<1>9. q.offset \in 0 .. times
  BY <1>5, <1>8
<1>10. ASSUME NEW l, NEW b \in 0 .. times, (q.offset = 0 /\ b = times) \/ (q.offset >= PageSize /\ b >= Known),
              \A r \in Unlisted(l, b) : Place(r) > q.offset
       PROVE  PageOK(l, b, a) /\ PageOK(l, b, a)' /\ a = [runs |-> a.runs, next |-> a.next, base |-> times]
  <2>1. PICK offset \in 0 .. times : offset = q.offset
    BY <1>9
  <2>2. a = List!Page(offset) /\ ((offset = 0 /\ b = times) \/ (offset >= PageSize /\ b >= Known))
        /\ \A r \in Unlisted(l, b) : Place(r) > offset
    BY <1>1, <1>10, <2>1
  <2>3. PageOK(l, b, a) /\ a = [runs |-> a.runs, next |-> a.next, base |-> times]
    BY <1>4, <2>2, PageIs, Zenon
  <2>4. PageOK(l, b, a)'
    BY <1>3, <1>4, <1>6, <2>3, PageLater
  <2>5. QED
    BY <2>3, <2>4
<1>11. a.next \in 0 .. times /\ Len(a.runs) <= PageSize /\ a.base = times
  <2>1. PICK l : l = [i \in 1 .. times |-> i]
    OBVIOUS
  <2>2. Unlisted(l, times) = {}
    BY <2>1 DEF Unlisted, List!ToSet
  <2>3. (q.offset = 0 /\ times = times) \/ (q.offset >= PageSize /\ times >= Known)
    BY <1>5, <1>8
  <2>4. PageOK(l, times, a) /\ a = [runs |-> a.runs, next |-> a.next, base |-> times]
    <3>1. PICK b \in 0 .. times : b = times
      BY <1>5
    <3>2. QED
      BY <1>10, <2>2, <2>3, <3>1
  <2>5. a.base = times
    BY <2>4
  <2>6. QED
    BY <1>5, <2>4, <2>5 DEF PageOK
<1>12. ASSUME q.generation = turn, q.offset = 0 PROVE PageOK(<<>>, times, a)'
  <2>1. \A r \in Unlisted(<<>>, times) : Place(r) > q.offset
    <3>1. PICK o : o = List!Ordered
      OBVIOUS
    <3>2. \A r \in 1 .. times : Place(r) \in 1 .. times
      BY <1>4, <3>1, OrderIs
    <3>3. QED
      BY <1>5, <1>12, <3>2 DEF Unlisted
  <2>2. PICK b \in 0 .. times : b = times
    BY <1>5
  <2>3. PageOK(<<>>, b, a)'
    BY <1>10, <1>12, <2>1, <2>2
  <2>4. b = times'
    BY <1>3, <2>2
  <2>5. QED
    BY <1>3, <2>3, <2>4 DEF PageOK
<1>13. ASSUME q.generation = turn, q.offset # 0 PROVE PageOK(list, top, a)'
  <2>1. PICK l, b : l = list /\ b = top
    OBVIOUS
  <2>2. b \in 0 .. times /\ q.offset = cursor /\ q.offset \in PageSize .. times
    BY <1>5, <1>8, <1>13, <2>1
  <2>3. b >= Known /\ q.offset >= PageSize
    BY <1>4, <1>5, <1>13, <2>1, <2>2 DEF ShownOK
  <2>4. \A r \in Unlisted(l, b) : Place(r) > q.offset
    BY <1>4, <2>1, <2>2 DEF ShownOK
  <2>5. PageOK(l, b, a)'
    BY <1>10, <2>2, <2>3, <2>4
  <2>6. l = list' /\ b = top'
    BY <1>3, <2>1
  <2>7. QED
    BY <2>5, <2>6
<1>14. AskOK(s)'
  <2>1. s.generation = q.generation /\ s.offset = q.offset /\ s.served = TRUE /\ s.answer = a
    BY <1>8
  <2>2. times' = times /\ turn' = turn /\ cursor' = cursor
    BY <1>3
  <2>3. /\ s = [generation |-> s.generation, offset |-> s.offset, served |-> s.served, answer |-> s.answer]
        /\ s.generation \in 1 .. turn' /\ s.served \in BOOLEAN /\ (s.offset = 0 \/ s.offset \in PageSize .. times')
        /\ s.answer.next \in 0 .. times' /\ Len(s.answer.runs) <= PageSize
        /\ (s.generation = turn' /\ s.offset # 0 => s.offset = cursor')
    BY <1>8, <1>11, <2>1, <2>2
  <2>4. ASSUME s.generation = turn', s.offset = 0 PROVE s.answer.base \in Known .. times' /\ PageOK(<<>>, s.answer.base, s.answer)'
    <3>1. s.answer.base = times /\ times \in Known .. times'
      BY <1>5, <1>11, <2>1, <2>2
    <3>2. PageOK(<<>>, times, a)'
      BY <1>12, <2>1, <2>2, <2>4
    <3>3. QED
      BY <1>3, <2>1, <3>1, <3>2 DEF PageOK
  <2>5. ASSUME s.generation = turn', s.offset # 0 PROVE PageOK(list, top, s.answer)'
    BY <1>13, <2>1, <2>2, <2>5
  <2>6. QED
    BY <2>3, <2>4, <2>5 DEF AskOK
<1>15. \A p, r \in asks' : p.generation = r.generation => p = r
  <2>1. s.generation = q.generation
    BY <1>8
  <2>2. \A p \in asks \ {q} : p.generation # s.generation
    BY <1>4, <2>1
  <2>3. QED
    BY <1>3, <1>4, <2>2
<1>16. QED
  BY <1>3, <1>4, <1>6, <1>7, <1>14, <1>15 DEF PagesInv

LEMMA SeqWidens ==
  ASSUME NEW S, NEW T, S \subseteq T, NEW s \in Seq(S)
  PROVE  s \in Seq(T)
OBVIOUS

\* The first page replaces the list.
LEMMA FirstShown ==
  ASSUME List!ListAssumption, OrderOK, NEW b \in Known .. times, NEW page, PageOK(<<>>, b, page),
         UNCHANGED <<times, tail>>, list' = page.runs, top' = b, cursor' = page.next
  PROVE  ShownOK'
<1>1. /\ times \in Nat /\ PageSize \in Nat /\ Known \in Nat /\ b \in Nat /\ b <= times /\ b >= Known
  BY ListNumbers DEF OrderOK
<1>2. PICK runs : runs = page.runs
  OBVIOUS
<1>3. /\ runs \in Seq((1 .. times) \cap Asked)
      /\ \A i, j \in 1 .. Len(runs) : i < j => Above(runs[i], runs[j])
      /\ page.next = 0 \/ page.next \in PageSize .. times
      /\ \A r \in Unlisted(<<>>, b) \ List!ToSet(runs) :
           page.next # 0 /\ Place(r) > page.next /\ \A p \in List!ToSet(runs) : Above(p, r)
      /\ times - b <= PageSize => List!ToSet(runs) \subseteq 1 .. b
  BY <1>2 DEF PageOK
<1>4. \A i \in 1 .. Len(runs) : runs[i] \in 1 .. times /\ runs[i] \in Nat \ {0}
  BY <1>1, <1>3
<1>5. runs \in Seq(1 .. times) /\ DOMAIN runs = 1 .. Len(runs)
  <2>1. (1 .. times) \cap Asked \subseteq 1 .. times /\ runs \in Seq((1 .. times) \cap Asked)
    BY <1>3
  <2>2. runs \in Seq(1 .. times)
    BY <2>1, SeqWidens
  <2>3. QED
    BY <2>2
<1>6. Unlisted(runs, b) = Unlisted(<<>>, b) \ List!ToSet(runs)
  BY DEF Unlisted, List!ToSet
<1>7. List!NewestFirst'
  <2>1. ASSUME NEW i \in 1 .. Len(runs), NEW j \in 1 .. Len(runs), i < j
        PROVE  runs[i] # runs[j] /\ (runs[j] \notin Unstamped => runs[i] > runs[j] /\ runs[i] \notin Unstamped)
    <3>1. Above(runs[i], runs[j])
      BY <1>3, <2>1
    <3>2. QED
      BY <1>4, <3>1 DEF Above
  <2>2. list' = runs
    BY <1>2
  <2>3. QED
    BY <1>5, <2>1, <2>2 DEF List!NewestFirst
<1>8. OrderOK'
  BY DEF OrderOK
<1>9. list' = runs /\ top' = b /\ cursor' = page.next /\ times' = times
  BY <1>2
<1>10. List!LateRunsStayOff'
  BY <1>3, <1>9 DEF List!LateRunsStayOff, List!ToSet
<1>11. ASSUME NEW r \in Unlisted(runs, b)
       PROVE  page.next # 0 /\ Place(r)' > page.next /\ \A p \in List!ToSet(runs) : Above(p, r)
  <2>1. page.next # 0 /\ Place(r) > page.next /\ \A p \in List!ToSet(runs) : Above(p, r)
    BY <1>3, <1>6
  <2>2. Place(r)' = Place(r)
    BY DEF Place, Below, KeyOf, List!Keys
  <2>3. QED
    BY <2>1, <2>2
<1>12. QED
  BY <1>1, <1>3, <1>5, <1>7, <1>8, <1>9, <1>10, <1>11 DEF ShownOK, Unlisted, Above, List!Restless, List!ToSet

\* A further page is added below the list.
LEMMA NextShown ==
  ASSUME List!ListAssumption, ShownOK, NEW page, PageOK(list, top, page), cursor # 0,
         UNCHANGED <<times, tail, top>>, list' = List!More(page.runs), cursor' = page.next
  PROVE  ShownOK'
<1>1. /\ times \in Nat /\ PageSize \in Nat /\ Known \in Nat /\ top \in Known .. times /\ top \in Nat
  BY ListNumbers DEF ShownOK, OrderOK
<1>2. PICK runs, m : runs = page.runs /\ m = List!More(runs)
  OBVIOUS
<1>3. /\ runs \in Seq((1 .. times) \cap Asked)
      /\ \A i, j \in 1 .. Len(runs) : i < j => Above(runs[i], runs[j])
      /\ page.next = 0 \/ page.next \in PageSize .. times
      /\ \A r \in Unlisted(list, top) \ List!ToSet(runs) :
           page.next # 0 /\ Place(r) > page.next /\ \A p \in List!ToSet(runs) : Above(p, r)
      /\ times - top <= PageSize => List!ToSet(runs) \subseteq 1 .. top
  BY <1>2 DEF PageOK
<1>4. /\ list \in Seq(1 .. times) /\ OrderOK /\ List!NewestFirst /\ List!LateRunsStayOff
      /\ \A r \in Unlisted(list, top) : Place(r) > cursor /\ \A p \in List!ToSet(list) : Above(p, r)
  BY DEF ShownOK
<1>5. runs \in Seq(1 .. times)
  <2>1. (1 .. times) \cap Asked \subseteq 1 .. times /\ runs \in Seq((1 .. times) \cap Asked)
    BY <1>3
  <2>2. QED
    BY <2>1, SeqWidens
<1>6. /\ m \in Seq(1 .. times) /\ List!ToSet(m) = List!ToSet(list) \cup List!ToSet(runs)
      /\ \A i, j \in 1 .. Len(m) : i < j =>
           \/ i \in 1 .. Len(list) /\ j \in 1 .. Len(list) /\ m[i] = list[i] /\ m[j] = list[j]
           \/ m[i] \in List!ToSet(list) /\ m[j] \in List!ToSet(runs) \ List!ToSet(list)
           \/ \E k, n \in 1 .. Len(runs) : k < n /\ m[i] = runs[k] /\ m[j] = runs[n]
  <2>1. PICK E : E = 1 .. times
    OBVIOUS
  <2>2. list \in Seq(E) /\ runs \in Seq(E)
    BY <1>4, <1>5, <2>1
  <2>3. m = List!More(runs)
    BY <1>2
  <2>4. Joins(m, runs, E)
    BY <2>2, <2>3, MoreIs, Zenon
  <2>5. QED
    BY <2>1, <2>4, Zenon DEF Joins
<1>7. /\ list' = m /\ top' = top /\ cursor' = page.next /\ times' = times /\ OrderOK'
  BY <1>2, <1>4 DEF OrderOK
<1>8. Unlisted(m, top) = Unlisted(list, top) \ List!ToSet(runs)
  BY <1>6 DEF Unlisted
<1>9. ASSUME NEW i \in 1 .. Len(m), NEW j \in 1 .. Len(m), i < j
      PROVE  m[i] # m[j] /\ (m[j] \in (1 .. top) \ Unstamped => m[i] > m[j] /\ m[i] \notin Unstamped)
  <2>1. m[i] \in 1 .. times /\ m[j] \in 1 .. times /\ m[i] \in Nat \ {0} /\ m[j] \in Nat \ {0}
    BY <1>1, <1>6
  <2>2. CASE i \in 1 .. Len(list) /\ j \in 1 .. Len(list) /\ m[i] = list[i] /\ m[j] = list[j]
    <3>1. i \in DOMAIN list /\ j \in DOMAIN list
      BY <1>4, <2>2
    <3>2. QED
      BY <1>4, <1>9, <2>2, <3>1 DEF List!NewestFirst
  <2>3. CASE m[i] \in List!ToSet(list) /\ m[j] \in List!ToSet(runs) \ List!ToSet(list)
    <3>1. m[j] \in Asked
      BY <1>3, <2>3 DEF List!ToSet
    <3>2. ASSUME m[j] \in (1 .. top) \ Unstamped PROVE m[i] > m[j] /\ m[i] \notin Unstamped
      <4>1. m[j] \in Unlisted(list, top)
        BY <2>3, <3>1, <3>2 DEF Unlisted, List!Restless
      <4>2. Above(m[i], m[j])
        BY <1>4, <2>3, <4>1
      <4>3. QED
        BY <2>1, <3>2, <4>2 DEF Above
    <3>3. QED
      BY <2>3, <3>2
  <2>4. CASE \E k, n \in 1 .. Len(runs) : k < n /\ m[i] = runs[k] /\ m[j] = runs[n]
    <3>1. Above(m[i], m[j])
      BY <1>3, <2>4
    <3>2. QED
      BY <2>1, <3>1 DEF Above
  <2>5. QED
    BY <1>6, <1>9, <2>2, <2>3, <2>4
<1>10. List!NewestFirst'
  <2>1. DOMAIN m = 1 .. Len(m)
    BY <1>6
  <2>2. QED
    BY <1>7, <1>9, <2>1 DEF List!NewestFirst
<1>11. List!LateRunsStayOff'
  <2>1. times - top <= PageSize => List!ToSet(m) \subseteq 1 .. top
    BY <1>3, <1>4, <1>6 DEF List!LateRunsStayOff
  <2>2. List!ToSet(list)' = List!ToSet(m)
    BY <1>7 DEF List!ToSet
  <2>3. QED
    BY <1>7, <2>1, <2>2 DEF List!LateRunsStayOff
<1>12. ASSUME NEW r \in Unlisted(m, top)
       PROVE  page.next # 0 /\ Place(r)' > page.next /\ \A p \in List!ToSet(m) : Above(p, r)
  <2>1. r \in Unlisted(list, top) /\ page.next # 0 /\ Place(r) > page.next /\ \A p \in List!ToSet(runs) : Above(p, r)
    BY <1>3, <1>8
  <2>2. Place(r)' = Place(r)
    BY <1>7 DEF Place, Below, KeyOf, List!Keys
  <2>3. QED
    BY <1>4, <1>6, <2>1, <2>2
<1>13. QED
  BY <1>1, <1>3, <1>6, <1>7, <1>10, <1>11, <1>12 DEF ShownOK, Unlisted, Above, List!Restless, List!ToSet

LEMMA ReceiveStep ==
  ASSUME List!ListAssumption, PagesInv, NEW q \in asks, List!Receive(q)
  PROVE  PagesInv'
<1>1. q.served /\ asks' = asks \ {q} /\ UNCHANGED <<times, tail, turn>>
  BY DEF List!Receive
<1>2. /\ OrderOK /\ ShownOK /\ turn \in 0 .. MaxAsks /\ \A p \in asks : AskOK(p)
      /\ \A p, r \in asks : p.generation = r.generation => p = r
  BY DEF PagesInv, ShownOK
<1>3. turn \in Nat /\ top \in 0 .. times
  BY <1>2, ListNumbers DEF OrderOK, ShownOK
<1>4. CASE q.generation # turn
  <2>1. UNCHANGED <<list, top, cursor>>
    BY <1>4 DEF List!Receive, List!Current
  <2>2. OrderOK'
    BY <1>1, <1>2 DEF OrderOK
  <2>3. ShownOK'
    BY <1>1, <1>2, <2>1, <2>2, ShownLater
  <2>4. ASSUME NEW p \in asks PROVE AskOK(p)'
    BY <1>1, <1>2, <1>3, <2>1, <2>2, AskLater
  <2>5. QED
    BY <1>1, <1>2, <2>3, <2>4 DEF PagesInv
<1>5. CASE q.generation = turn
  <2>1. ASSUME NEW p \in asks \ {q} PROVE AskOK(p)'
    <3>1. AskOK(p) /\ p.generation # turn
      BY <1>2, <1>5
    <3>2. QED
      BY <1>1, <1>3, <3>1, StaleOK
  <2>2. ASSUME q.offset = 0 PROVE ShownOK'
    <3>1. PICK b, page : b = q.answer.base /\ page = q.answer
      OBVIOUS
    <3>2. b \in Known .. times /\ PageOK(<<>>, b, page)
      BY <1>1, <1>2, <1>5, <2>2, <3>1 DEF AskOK
    <3>3. list' = page.runs /\ top' = b /\ cursor' = page.next
      BY <1>5, <2>2, <3>1 DEF List!Receive, List!Current, List!First
    <3>4. UNCHANGED <<times, tail>>
      BY <1>1
    <3>5. QED
      BY <1>2, <3>2, <3>3, <3>4, FirstShown
  <2>3. ASSUME q.offset # 0 PROVE ShownOK'
    <3>1. PICK page : page = q.answer
      OBVIOUS
    <3>2. PageOK(list, top, page) /\ cursor # 0
      BY <1>1, <1>2, <1>5, <2>3, <3>1 DEF AskOK
    <3>3. list' = List!More(page.runs) /\ top' = top /\ cursor' = page.next
      BY <1>5, <2>3, <3>1 DEF List!Receive, List!Current, List!First
    <3>4. UNCHANGED <<times, tail>>
      BY <1>1
    <3>5. QED
      BY <1>2, <3>2, <3>3, <3>4, NextShown
  <2>4. QED
    BY <1>1, <1>2, <2>1, <2>2, <2>3 DEF PagesInv
<1>6. QED
  BY <1>4, <1>5

LEMMA PagesStep ==
  ASSUME List!ListAssumption, PagesInv, [List!Next]_(List!vars)
  PROVE  PagesInv'
<1>1. CASE List!RunStarts
  BY <1>1, RunStartsOK
<1>2. CASE List!ConsoleRestarts
  BY <1>2, RestartOK
<1>3. CASE List!ReloadRuns
  <2>1. List!Ask(0)
    BY <1>3 DEF List!ReloadRuns, List!First
  <2>2. QED
    BY <2>1, AskStep
<1>4. CASE List!LoadMore
  <2>1. cursor # 0 /\ List!Ask(cursor)
    BY <1>4 DEF List!LoadMore, List!First
  <2>2. QED
    BY <2>1, AskStep
<1>5. ASSUME NEW q \in asks, List!Serve(q) PROVE PagesInv'
  BY <1>5, ServeStep
<1>6. ASSUME NEW q \in asks, List!Receive(q) PROVE PagesInv'
  BY <1>6, ReceiveStep
<1>7. CASE UNCHANGED List!vars
  <2>1. UNCHANGED <<times, tail, turn, asks, list, cursor, top>>
    BY <1>7 DEF List!vars
  <2>2. OrderOK /\ ShownOK /\ \A q \in asks : AskOK(q)
    BY DEF PagesInv, ShownOK
  <2>3. OrderOK' /\ top \in 0 .. times
    BY <2>1, <2>2, ListNumbers DEF OrderOK, ShownOK
  <2>4. ShownOK'
    BY <2>1, <2>2, <2>3, ShownLater
  <2>5. ASSUME NEW q \in asks PROVE AskOK(q)'
    BY <2>1, <2>2, <2>3, AskLater
  <2>6. QED
    BY <2>1, <2>4, <2>5 DEF PagesInv
<1>8. QED
  BY <1>1, <1>2, <1>3, <1>4, <1>5, <1>6, <1>7 DEF List!Next

LEMMA PagesSay ==
  ASSUME List!ListAssumption, PagesInv
  PROVE  List!TypeOK /\ List!NothingMissing /\ List!NewestFirst /\ List!LateRunsStayOff
<1>1. /\ ShownOK /\ OrderOK /\ turn \in 0 .. MaxAsks /\ \A q \in asks : AskOK(q)
  BY DEF PagesInv, ShownOK
<1>2. /\ times \in Nat /\ times <= MaxRuns /\ MaxRuns \in Nat /\ PageSize \in Nat /\ Known \in Nat /\ top \in 0 .. times /\ cursor \in 0 .. times
  BY <1>1, ListNumbers DEF OrderOK, ShownOK
<1>3. List!NothingMissing
  <2>1. ASSUME cursor = 0, NEW r \in ((1 .. top) \cap Asked) \ List!Restless PROVE r \in List!ToSet(list)
    BY <1>1, <2>1 DEF ShownOK, Unlisted
  <2>2. QED
    BY <2>1 DEF List!NothingMissing, List!First
<1>4. List!TypeOK
  <2>1. list \in Seq(List!Run)
    <3>1. 1 .. times \subseteq 1 .. MaxRuns /\ list \in Seq(1 .. times)
      BY <1>1, <1>2 DEF ShownOK
    <3>2. list \in Seq(1 .. MaxRuns)
      BY <3>1, SeqWidens
    <3>3. QED
      BY <3>2 DEF List!Run
  <2>2. ASSUME NEW q \in asks
        PROVE  /\ q.generation \in 1 .. turn /\ q.offset \in 0 .. MaxRuns /\ q.served \in BOOLEAN
               /\ q.answer.next \in 0 .. times /\ Len(q.answer.runs) <= PageSize
    BY <1>1, <1>2 DEF AskOK
  <2>3. QED
    BY <1>1, <1>2, <2>1, <2>2 DEF List!TypeOK, OrderOK
<1>5. QED
  BY <1>1, <1>3, <1>4 DEF ShownOK

\* Page by page no run is missing: with no further page, every run there was
\* when the first was read (readers.list_run_facts) and that has the status is
\* in the list; those stand newest first, and none twice (console-view.ts
\* loadMore); and until more runs have started than a page holds no later one is
\* there.  The cursor is an offset, which new runs only move down.
THEOREM RunListIsWhole ==
  ASSUME List!ListAssumption
  PROVE  List!Spec => [](List!TypeOK /\ List!NothingMissing /\ List!NewestFirst /\ List!LateRunsStayOff)
<1>1. List!Init => PagesInv
  BY StartsPages
<1>2. PagesInv /\ [List!Next]_(List!vars) => PagesInv'
  BY PagesStep
<1>3. PagesInv => List!TypeOK /\ List!NothingMissing /\ List!NewestFirst /\ List!LateRunsStayOff
  BY PagesSay
<1>4. QED
  BY <1>1, <1>2, <1>3, PTL DEF List!Spec
-----------------------------------------------------------------------------
(* What is projected of a run (RunProjection), for any number of requests, *)
(* retries and loads.                                                      *)

CONSTANTS Prior, MaxRequests, MaxRetries, MaxLoads
VARIABLES events, past, saved, outcome, taken, unread, loads

Project == INSTANCE RunProjection WITH log <- events, history <- past, snapshot <- saved, receipt <- outcome, seen <- taken, stage <- unread

Final == {"run_completed", "run_failed"}

\* A request is open at the end of the log only, and nothing follows the end of a run.
LogOK ==
  /\ events \in Seq(Project!Event)
  /\ Project!Requests <= MaxRequests
  /\ Project!Steps + (IF Project!Now = "request_started" THEN 1 ELSE 0) <= Project!Requests
  /\ Project!Ended(events) <=> Project!Now \in Final

\* Every answered request is in the history, and a verdict follows the end.
RunOK ==
  /\ LogOK
  /\ past \in Seq(Project!Response) /\ saved \in Seq(Project!Response)
  /\ Len(past) = Prior + Project!Steps /\ Len(saved) <= Len(past)
  /\ outcome \in Project!Verdict \cup {"none"} /\ (outcome # "none" => Project!Ended(events))

\* What was read after the verdict, or holds the end, is all there will be.
LoadOK ==
  /\ taken = [receipt |-> taken.receipt, log |-> taken.log, snapshot |-> taken.snapshot]
  /\ taken.receipt \in {"none", outcome}
  /\ taken.log \in Seq(Project!Event) /\ Len(taken.log) <= Len(events) /\ \A i \in 1 .. Len(taken.log) : taken.log[i] = events[i]
  /\ taken.snapshot \in Seq(Project!Response) /\ Len(taken.snapshot) <= Len(past)
  /\ unread \subseteq {"receipt", "events", "snapshot"} /\ ("receipt" \in unread => "events" \in unread)
  /\ (taken.receipt # "none" /\ "events" \notin unread) \/ Project!Ended(taken.log) => taken.log = events
  /\ loads \in 0 .. MaxLoads

ProjectInv == RunOK /\ LoadOK

LEMMA CardinalityIs == \A S : Project!Cardinality(S) = Cardinality(S)
BY DEF Project!Cardinality, Cardinality

LEMMA CountOne ==
  ASSUME NEW s \in Seq(Project!Event), NEW e \in Project!Event, NEW K
  PROVE  /\ Project!Count(s, K) \in Nat
         /\ Project!Count(Append(s, e), K) = Project!Count(s, K) + (IF e.kind \in K THEN 1 ELSE 0)
<1>1. PICK n \in Nat : n = Len(s)
  OBVIOUS
<1>2. PICK S : S = {i \in 1 .. n : s[i].kind \in K}
  OBVIOUS
<1>3. Project!Count(s, K) = Cardinality(S)
  BY <1>1, <1>2, CardinalityIs DEF Project!Count
<1>4. IsFiniteSet(S) /\ Cardinality(S) \in Nat /\ n + 1 \notin S
  <2>1. IsFiniteSet(1 .. n) /\ S \in SUBSET (1 .. n)
    BY <1>1, <1>2, FS_Interval
  <2>2. QED
    BY <1>1, <1>2, <2>1, FS_Subset, FS_CardinalityType
<1>5. PICK t : t = Append(s, e)
  OBVIOUS
<1>6. DOMAIN t = 1 .. n + 1 /\ t[n + 1] = e /\ \A i \in 1 .. n : t[i] = s[i]
  BY <1>1, <1>5
<1>7. {i \in DOMAIN t : t[i].kind \in K} = IF e.kind \in K THEN S \cup {n + 1} ELSE S
  BY <1>1, <1>2, <1>6
<1>8. Project!Count(t, K) = Cardinality(IF e.kind \in K THEN S \cup {n + 1} ELSE S)
  BY <1>7, CardinalityIs DEF Project!Count
<1>9. Cardinality(S \cup {n + 1}) = Cardinality(S) + 1
  BY <1>4, FS_AddElement
<1>10. QED
  BY <1>3, <1>4, <1>5, <1>8, <1>9

LEMMA CountNone == \A K : Project!Count(<<>>, K) = 0
<1>1. ASSUME NEW K PROVE Project!Count(<<>>, K) = 0
  <2>1. {i \in DOMAIN <<>> : <<>>[i].kind \in K} = {}
    OBVIOUS
  <2>2. Project!Count(<<>>, K) = Cardinality({})
    BY <2>1, CardinalityIs DEF Project!Count
  <2>3. QED
    BY <2>2, FS_EmptySet
<1>2. QED
  BY <1>1

\* An event is added while the run has not ended.
LEMMA Emits ==
  ASSUME LogOK, NEW e \in Project!Event, events' = Append(events, e), Project!Now \notin Final, MaxRequests \in Nat,
         e.kind = "request_started" => Project!Requests < MaxRequests /\ Project!Now # "request_started",
         e.kind = "request_completed" => Project!Now = "request_started"
  PROVE  /\ LogOK' /\ ~ Project!Ended(events)
         /\ Project!Steps \in Nat /\ Project!Steps' = Project!Steps + (IF e.kind = "request_completed" THEN 1 ELSE 0)
<1>1. PICK t : t = Append(events, e)
  OBVIOUS
<1>2. events \in Seq(Project!Event) /\ t \in Seq(Project!Event) /\ events' = t
  BY <1>1 DEF LogOK
<1>3. PICK now : now = e.kind
  OBVIOUS
<1>4. Project!Now' = now
  <2>1. t # <<>> /\ t[Len(t)] = e
    BY <1>1, <1>2
  <2>2. QED
    BY <1>2, <1>3, <2>1 DEF Project!Now
<1>5. PICK r, s, f : r = Project!Requests /\ s = Project!Steps /\ f = Project!Count(events, Final)
  OBVIOUS
<1>6. r \in Nat /\ s \in Nat /\ f \in Nat
  BY <1>2, <1>5, CountOne DEF Project!Requests, Project!Steps
<1>7. /\ Project!Requests' = r + (IF now = "request_started" THEN 1 ELSE 0)
      /\ Project!Steps' = s + (IF now = "request_completed" THEN 1 ELSE 0)
      /\ Project!Count(events, Final)' = f + (IF now \in Final THEN 1 ELSE 0)
  <2>1. \A K : Project!Count(t, K) = Project!Count(events, K) + (IF now \in K THEN 1 ELSE 0)
    BY <1>1, <1>2, <1>3, CountOne
  <2>2. QED
    BY <1>2, <1>5, <2>1 DEF Project!Requests, Project!Steps, Project!Count
<1>8. (Project!Ended(events) <=> f > 0) /\ (Project!Ended(events)' <=> Project!Count(events, Final)' > 0)
  BY <1>5 DEF Project!Ended, Final
<1>9. ~ Project!Ended(events) /\ f = 0
  BY <1>6, <1>8 DEF LogOK
<1>10. PICK u : u = Project!Now
  OBVIOUS
<1>11. r <= MaxRequests /\ s + (IF u = "request_started" THEN 1 ELSE 0) <= r
  BY <1>5, <1>10 DEF LogOK
<1>12. (now = "request_started" => r < MaxRequests /\ u # "request_started") /\ (now = "request_completed" => u = "request_started")
  BY <1>3, <1>5, <1>10
<1>13. Project!Requests' <= MaxRequests /\ Project!Steps' + (IF now = "request_started" THEN 1 ELSE 0) <= Project!Requests'
  BY <1>6, <1>7, <1>11, <1>12
<1>14. Project!Ended(events)' <=> now \in Final
  BY <1>7, <1>8, <1>9
<1>15. LogOK'
  BY <1>2, <1>4, <1>13, <1>14 DEF LogOK
<1>16. QED
  BY <1>3, <1>5, <1>6, <1>7, <1>9, <1>15

\* The reads stand while the run goes on: whoever saw the end reads no more.
LEMMA LoadStays ==
  ASSUME ProjectInv, NEW e \in Project!Event, events' = Append(events, e), ~ Project!Ended(events),
         past' \in Seq(Project!Response), Len(past) <= Len(past'), UNCHANGED <<outcome, taken, unread, loads>>
  PROVE  LoadOK'
<1>1. PICK t, log : t = Append(events, e) /\ log = taken.log
  OBVIOUS
<1>2. events \in Seq(Project!Event) /\ LoadOK /\ outcome = "none"
  BY DEF ProjectInv, RunOK, LogOK
<1>3. Len(t) = Len(events) + 1 /\ Len(events) \in Nat /\ \A i \in 1 .. Len(events) : t[i] = events[i]
  BY <1>1, <1>2
<1>4. log \in Seq(Project!Event) /\ Len(log) <= Len(events) /\ \A i \in 1 .. Len(log) : log[i] = events[i]
  BY <1>1, <1>2 DEF LoadOK
<1>5. Len(log) \in Nat /\ Len(log) <= Len(t) /\ \A i \in 1 .. Len(log) : log[i] = t[i]
  <2>1. PICK k, m, n : k = Len(log) /\ m = Len(events) /\ n = Len(t)
    OBVIOUS
  <2>2. k \in Nat
    BY <1>4, <2>1
  <2>3. m \in Nat /\ n = m + 1 /\ k <= m
    BY <1>3, <1>4, <2>1
  <2>4. k <= n /\ \A i \in 1 .. k : i \in 1 .. m
    BY <2>2, <2>3
  <2>5. \A i \in 1 .. k : log[i] = t[i]
    <3>1. TAKE i \in 1 .. k
    <3>2. i \in 1 .. m
      BY <2>4
    <3>3. log[i] = events[i] /\ t[i] = events[i]
      BY <1>3, <1>4, <2>1, <3>2
    <3>4. QED
      BY <3>3
  <2>6. QED
    BY <2>1, <2>2, <2>4, <2>5
<1>6. taken.receipt = "none" /\ ~ Project!Ended(log)
  <2>1. taken.receipt = "none"
    BY <1>2 DEF LoadOK
  <2>2. Project!Ended(log) => log = events
    BY <1>1, <1>2 DEF LoadOK
  <2>3. QED
    BY <2>1, <2>2
<1>7. events' = t /\ taken' = taken /\ outcome' = "none" /\ unread' = unread /\ loads' = loads
  BY <1>1, <1>2
<1>8. ~ Project!Ended(taken.log)'
  BY <1>1, <1>6, <1>7 DEF Project!Ended, Project!Count
<1>9. taken.snapshot \in Seq(Project!Response) /\ Len(taken.snapshot) <= Len(past')
  <2>1. PICK m, p, q : m = Len(taken.snapshot) /\ p = Len(past) /\ q = Len(past')
    OBVIOUS
  <2>2. taken.snapshot \in Seq(Project!Response) /\ past \in Seq(Project!Response) /\ m <= p /\ p <= q
    BY <1>2, <2>1 DEF LoadOK, ProjectInv, RunOK
  <2>3. m \in Nat /\ p \in Nat
    BY <2>1, <2>2
  <2>4. q \in Nat
    BY <2>1
  <2>5. QED
    BY <2>1, <2>2, <2>3, <2>4
<1>10. QED
  BY <1>1, <1>2, <1>5, <1>6, <1>7, <1>8, <1>9 DEF LoadOK

LEMMA ProjectNumbers ==
  ASSUME Project!ProjectionAssumption
  PROVE  Prior \in Nat /\ MaxRequests \in Nat /\ MaxRetries \in Nat /\ MaxLoads \in Nat
BY DEF Project!ProjectionAssumption

\* An event that answers no request.
LEMMA EmitOnly ==
  ASSUME Project!ProjectionAssumption, ProjectInv, NEW e \in Project!Event, events' = Append(events, e), Project!Now \notin Final,
         e.kind = "request_started" => Project!Requests < MaxRequests /\ Project!Now # "request_started",
         e.kind # "request_completed", UNCHANGED <<past, saved, outcome, taken, unread, loads>>
  PROVE  ProjectInv'
<1>1. LogOK /\ RunOK
  BY DEF ProjectInv, RunOK
<1>2. LogOK' /\ ~ Project!Ended(events) /\ Project!Steps \in Nat /\ Project!Steps' = Project!Steps
  <2>1. /\ LogOK' /\ ~ Project!Ended(events) /\ Project!Steps \in Nat
        /\ Project!Steps' = Project!Steps + (IF e.kind = "request_completed" THEN 1 ELSE 0)
    BY <1>1, ProjectNumbers, Emits
  <2>2. QED
    BY <2>1
<1>3. outcome = "none"
  BY <1>1, <1>2 DEF RunOK
<1>4. RunOK'
  BY <1>1, <1>2, <1>3 DEF RunOK
<1>5. Len(past) <= Len(past')
  <2>1. Len(past) \in Nat
    BY <1>1 DEF RunOK
  <2>2. QED
    BY <2>1
<1>6. LoadOK'
  <2>1. past' \in Seq(Project!Response)
    BY <1>1 DEF RunOK
  <2>2. QED
    BY <1>2, <1>5, <2>1, LoadStays
<1>7. QED
  BY <1>4, <1>6 DEF ProjectInv

LEMMA EventOf ==
  ASSUME NEW kind \in Project!Kind, NEW n \in 0 .. MaxRequests, NEW step \in 0 .. MaxRequests
  PROVE  [kind |-> kind, n |-> n, step |-> step] \in Project!Event
BY DEF Project!Event

LEMMA LogNumbers ==
  ASSUME LogOK, MaxRequests \in Nat
  PROVE  /\ Project!Requests \in 0 .. MaxRequests /\ Project!Steps \in 0 .. MaxRequests
         /\ (Project!Now = "request_started" => Project!Steps + 1 \in 0 .. MaxRequests)
         /\ (Project!Requests < MaxRequests => Project!Requests + 1 \in 0 .. MaxRequests /\ Project!Steps + 1 \in 0 .. MaxRequests)
<1>1. events \in Seq(Project!Event)
  BY DEF LogOK
<1>2. PICK r, s, now : r = Project!Requests /\ s = Project!Steps /\ now = Project!Now
  OBVIOUS
<1>3. r \in Nat /\ s \in Nat
  <2>1. [kind |-> "run_started", n |-> 0, step |-> 0] \in Project!Event
    BY EventOf DEF Project!Kind
  <2>2. QED
    BY <1>1, <1>2, <2>1, CountOne DEF Project!Requests, Project!Steps
<1>4. r <= MaxRequests /\ s + (IF now = "request_started" THEN 1 ELSE 0) <= r
  BY <1>2 DEF LogOK
<1>5. QED
  BY <1>2, <1>3, <1>4

LEMMA RunGoesOn ==
  ASSUME Project!ProjectionAssumption, ProjectInv,
         Project!Begin \/ Project!StartRequest \/ Project!RequestFails \/ Project!Tool \/ Project!End
  PROVE  ProjectInv'
<1> USE ProjectNumbers
<1>1. LogOK
  BY DEF ProjectInv, RunOK
<1>2. CASE Project!Begin
  <2>1. PICK e : e = [kind |-> "run_started", n |-> 0, step |-> 0]
    OBVIOUS
  <2>2. e \in Project!Event
    BY <2>1, EventOf DEF Project!Kind
  <2>3. /\ Project!Now \notin Final /\ events' = Append(events, e) /\ e.kind = "run_started"
        /\ UNCHANGED <<past, saved, outcome, taken, unread, loads>>
    BY <1>2, <2>1 DEF Project!Begin, Project!Emit, Project!reader, Final
  <2>4. QED
    BY <2>2, <2>3, EmitOnly
<1>3. CASE Project!StartRequest
  <2>1. PICK e : e = [kind |-> "request_started", n |-> Project!Requests + 1, step |-> Project!Steps + 1]
    OBVIOUS
  <2>2. Project!Requests < MaxRequests /\ Project!Now \in {"run_started", "tool_completed", "request_failed"}
    BY <1>3 DEF Project!StartRequest
  <2>3. e \in Project!Event
    BY <1>1, <2>1, <2>2, EventOf, LogNumbers DEF Project!Kind
  <2>4. /\ Project!Now \notin Final /\ Project!Now # "request_started" /\ events' = Append(events, e) /\ e.kind = "request_started"
        /\ UNCHANGED <<past, saved, outcome, taken, unread, loads>>
    BY <1>3, <2>1, <2>2 DEF Project!StartRequest, Project!Emit, Project!reader, Final
  <2>5. QED
    BY <2>2, <2>3, <2>4, EmitOnly
<1>4. CASE Project!RequestFails
  <2>1. PICK e : e = [kind |-> "request_failed", n |-> Project!Requests, step |-> Project!Steps + 1]
    OBVIOUS
  <2>2. Project!Now = "request_started"
    BY <1>4 DEF Project!RequestFails
  <2>3. e \in Project!Event
    BY <1>1, <2>1, <2>2, EventOf, LogNumbers DEF Project!Kind
  <2>4. /\ Project!Now \notin Final /\ events' = Append(events, e) /\ e.kind = "request_failed"
        /\ UNCHANGED <<past, saved, outcome, taken, unread, loads>>
    BY <1>4, <2>1, <2>2 DEF Project!RequestFails, Project!Emit, Project!reader, Final
  <2>5. QED
    BY <2>3, <2>4, EmitOnly
<1>5. CASE Project!Tool
  <2>1. PICK kind \in {"tool_started", "tool_completed"} :
          Project!Emit(kind, Project!Requests, Project!Steps) /\ Project!Now \in {"request_completed", "tool_started"}
    BY <1>5 DEF Project!Tool
  <2>2. PICK e : e = [kind |-> kind, n |-> Project!Requests, step |-> Project!Steps]
    OBVIOUS
  <2>3. e \in Project!Event
    BY <1>1, <2>1, <2>2, EventOf, LogNumbers DEF Project!Kind
  <2>4. /\ Project!Now \notin Final /\ events' = Append(events, e) /\ e.kind \in {"tool_started", "tool_completed"}
        /\ UNCHANGED <<past, saved, outcome, taken, unread, loads>>
    BY <1>5, <2>1, <2>2 DEF Project!Tool, Project!Emit, Project!reader, Final
  <2>5. QED
    BY <2>3, <2>4, EmitOnly
<1>6. CASE Project!End
  <2>1. PICK kind \in Final :
          Project!Emit(kind, 0, 0) /\ Project!Now \in {"request_completed", "request_started", "request_failed", "tool_started"}
    BY <1>6 DEF Project!End, Final
  <2>2. PICK e : e = [kind |-> kind, n |-> 0, step |-> 0]
    OBVIOUS
  <2>3. e \in Project!Event
    BY <2>1, <2>2, EventOf DEF Project!Kind, Final
  <2>4. /\ Project!Now \notin Final /\ events' = Append(events, e) /\ e.kind \in Final
        /\ UNCHANGED <<past, saved, outcome, taken, unread, loads>>
    BY <1>6, <2>1, <2>2 DEF Project!End, Project!Emit, Project!reader, Final
  <2>5. QED
    BY <2>3, <2>4, EmitOnly DEF Final
<1>7. QED
  BY <1>2, <1>3, <1>4, <1>5, <1>6

LEMMA Responds ==
  ASSUME Project!ProjectionAssumption, ProjectInv, Project!Respond
  PROVE  ProjectInv'
<1> USE ProjectNumbers
<1>1. LogOK /\ RunOK /\ events \in Seq(Project!Event)
  BY DEF ProjectInv, RunOK, LogOK
<1>2. PICK r : r = Project!Requests
  OBVIOUS
<1>3. PICK e : e = [kind |-> "request_completed", n |-> r, step |-> Project!Steps + 1]
  OBVIOUS
<1>4. /\ Project!Now = "request_started" /\ events' = Append(events, e) /\ past' = Append(past, r)
      /\ UNCHANGED <<saved, outcome, taken, unread, loads>>
  BY <1>2, <1>3 DEF Project!Respond, Project!Emit, Project!reader
<1>5. r \in Project!Response /\ e \in Project!Event /\ e.kind = "request_completed"
  BY <1>1, <1>2, <1>3, <1>4, EventOf, LogNumbers DEF Project!Kind, Project!Response
<1>6. LogOK' /\ ~ Project!Ended(events) /\ Project!Steps \in Nat /\ Project!Steps' = Project!Steps + 1
  <2>1. /\ LogOK' /\ ~ Project!Ended(events) /\ Project!Steps \in Nat
        /\ Project!Steps' = Project!Steps + (IF e.kind = "request_completed" THEN 1 ELSE 0)
    BY <1>1, <1>4, <1>5, Emits DEF Final
  <2>2. QED
    BY <1>5, <2>1
<1>7. past \in Seq(Project!Response) /\ Len(past) = Prior + Project!Steps
  BY <1>1 DEF RunOK
<1>8. past' \in Seq(Project!Response) /\ Len(past') = Len(past) + 1 /\ Len(past) \in Nat
  BY <1>4, <1>5, <1>7
<1>9. RunOK'
  <2>1. Len(past') = Prior + Project!Steps'
    <3>1. PICK s \in Nat : s = Project!Steps
      BY <1>6
    <3>2. Len(past') = Prior + (s + 1)
      BY <1>7, <1>8, <3>1
    <3>3. QED
      BY <1>6, <3>1, <3>2
  <2>2. Len(saved) <= Len(past')
    <3>1. saved \in Seq(Project!Response) /\ Len(saved) <= Len(past)
      BY <1>1 DEF RunOK
    <3>2. Len(saved) \in Nat
      BY <3>1
    <3>3. QED
      BY <1>8, <3>1, <3>2
  <2>3. outcome = "none"
    BY <1>1, <1>6 DEF RunOK
  <2>4. QED
    BY <1>1, <1>4, <1>6, <1>8, <2>1, <2>2, <2>3 DEF RunOK
<1>10. LoadOK'
  <2>1. Len(past) <= Len(past') /\ past' \in Seq(Project!Response)
    BY <1>8
  <2>2. UNCHANGED <<outcome, taken, unread, loads>>
    BY <1>4
  <2>3. QED
    BY <1>4, <1>5, <1>6, <2>1, <2>2, LoadStays
<1>11. QED
  BY <1>9, <1>10 DEF ProjectInv

LEMMA ReadsGoOn ==
  ASSUME Project!ProjectionAssumption, ProjectInv,
         Project!SaveSnapshot \/ Project!Settle \/ Project!Load \/ (\E part \in unread : Project!Read(part)) \/ UNCHANGED Project!vars
  PROVE  ProjectInv'
<1> USE ProjectNumbers
<1>1. LogOK /\ RunOK /\ LoadOK
  BY DEF ProjectInv, RunOK
<1>2. past \in Seq(Project!Response) /\ Len(past) \in Nat
  BY <1>1 DEF RunOK
<1>3. CASE Project!SaveSnapshot
  <2>1. saved' = past /\ UNCHANGED <<events, past, outcome, taken, unread, loads>>
    BY <1>3 DEF Project!SaveSnapshot, Project!reader
  <2>2. LogOK' /\ (Project!Ended(events)' <=> Project!Ended(events)) /\ Project!Steps' = Project!Steps
    BY <1>1, <2>1 DEF LogOK, Project!Requests, Project!Steps, Project!Now, Project!Ended, Project!Count
  <2>3. RunOK'
    BY <1>1, <1>2, <2>1, <2>2 DEF RunOK
  <2>4. LoadOK'
    BY <1>1, <2>1 DEF LoadOK, Project!Ended, Project!Count
  <2>5. QED
    BY <2>3, <2>4 DEF ProjectInv
<1>4. CASE Project!Settle
  <2>1. /\ Project!Ended(events) /\ outcome = "none" /\ outcome' \in Project!Verdict
        /\ UNCHANGED <<events, past, saved, taken, unread, loads>>
    BY <1>4 DEF Project!Settle, Project!reader, Project!Verdict
  <2>2. LogOK' /\ (Project!Ended(events)' <=> Project!Ended(events)) /\ Project!Steps' = Project!Steps
    BY <1>1, <2>1 DEF LogOK, Project!Requests, Project!Steps, Project!Now, Project!Ended, Project!Count
  <2>3. RunOK'
    BY <1>1, <2>1, <2>2 DEF RunOK
  <2>4. LoadOK'
    BY <1>1, <2>1 DEF LoadOK, Project!Ended, Project!Count
  <2>5. QED
    BY <2>3, <2>4 DEF ProjectInv
<1>5. CASE Project!Load
  <2>1. /\ loads < MaxLoads /\ loads' = loads + 1 /\ unread' = {"receipt", "events", "snapshot"}
        /\ taken' = [receipt |-> "none", log |-> <<>>, snapshot |-> <<>>] /\ UNCHANGED <<events, past, saved, outcome>>
    BY <1>5 DEF Project!Load, Project!run, Project!Nothing
  <2>2. LogOK' /\ (Project!Ended(events)' <=> Project!Ended(events)) /\ Project!Steps' = Project!Steps
    BY <1>1, <2>1 DEF LogOK, Project!Requests, Project!Steps, Project!Now, Project!Ended, Project!Count
  <2>3. RunOK'
    BY <1>1, <2>1, <2>2 DEF RunOK
  <2>4. ~ Project!Ended(<<>>)
    BY CountNone DEF Project!Ended
  <2>5. ~ Project!Ended(taken.log)'
    BY <2>1, <2>4 DEF Project!Ended, Project!Count
  <2>6. events \in Seq(Project!Event) /\ Len(events) \in Nat
    BY <1>1 DEF LogOK
  <2>7. loads' \in 0 .. MaxLoads
    BY <1>1, <2>1 DEF LoadOK
  <2>8. LoadOK'
    BY <1>2, <2>1, <2>5, <2>6, <2>7 DEF LoadOK
  <2>9. QED
    BY <2>3, <2>8 DEF ProjectInv
<1>6. ASSUME NEW part \in unread, Project!Read(part) PROVE ProjectInv'
  <2>1. /\ unread' = unread \ {part} /\ (part = "receipt" \/ "receipt" \notin unread)
        /\ UNCHANGED <<events, past, saved, outcome, loads>>
        /\ part = "receipt" => taken' = [taken EXCEPT !.receipt = outcome]
        /\ part = "events" => taken' = [taken EXCEPT !.log = events]
        /\ part = "snapshot" => taken' = [taken EXCEPT !.snapshot = saved]
    BY <1>6 DEF Project!Read, Project!run, Project!MayRead
  <2>2. LogOK' /\ (Project!Ended(events)' <=> Project!Ended(events)) /\ Project!Steps' = Project!Steps
    BY <1>1, <2>1 DEF LogOK, Project!Requests, Project!Steps, Project!Now, Project!Ended, Project!Count
  <2>3. RunOK'
    BY <1>1, <2>1, <2>2 DEF RunOK
  <2>4. events \in Seq(Project!Event) /\ Len(events) \in Nat /\ Len(events) <= Len(events)
    BY <1>1 DEF LogOK
  <2>5. part \in {"receipt", "events", "snapshot"}
    BY <1>1 DEF LoadOK
  <2>6. CASE part = "receipt"
    <3>1. /\ taken' = [receipt |-> outcome, log |-> taken.log, snapshot |-> taken.snapshot]
          /\ "events" \in unread
      BY <1>1, <2>1, <2>6 DEF LoadOK
    <3>2. Project!Ended(taken.log)' <=> Project!Ended(taken.log)
      BY <3>1 DEF Project!Ended, Project!Count
    <3>3. QED
      BY <1>1, <2>1, <2>3, <2>6, <3>1, <3>2 DEF LoadOK, ProjectInv
  <2>7. CASE part = "events"
    <3>1. taken' = [receipt |-> taken.receipt, log |-> events, snapshot |-> taken.snapshot]
      BY <1>1, <2>1, <2>7 DEF LoadOK
    <3>2. QED
      BY <1>1, <2>1, <2>3, <2>4, <2>7, <3>1 DEF LoadOK, ProjectInv
  <2>8. CASE part = "snapshot"
    <3>1. taken' = [receipt |-> taken.receipt, log |-> taken.log, snapshot |-> saved]
      BY <1>1, <2>1, <2>8 DEF LoadOK
    <3>2. Project!Ended(taken.log)' <=> Project!Ended(taken.log)
      BY <3>1 DEF Project!Ended, Project!Count
    <3>3. saved \in Seq(Project!Response) /\ Len(saved) <= Len(past)
      BY <1>1 DEF RunOK
    <3>4. QED
      BY <1>1, <2>1, <2>3, <2>8, <3>1, <3>2, <3>3 DEF LoadOK, ProjectInv
  <2>9. QED
    BY <2>5, <2>6, <2>7, <2>8
<1>7. CASE UNCHANGED Project!vars
  <2>1. UNCHANGED <<events, past, saved, outcome, taken, unread, loads>>
    BY <1>7 DEF Project!vars, Project!run, Project!reader
  <2>2. LogOK' /\ (Project!Ended(events)' <=> Project!Ended(events)) /\ Project!Steps' = Project!Steps
    BY <1>1, <2>1 DEF LogOK, Project!Requests, Project!Steps, Project!Now, Project!Ended, Project!Count
  <2>3. RunOK'
    BY <1>1, <2>1, <2>2 DEF RunOK
  <2>4. LoadOK'
    BY <1>1, <2>1 DEF LoadOK, Project!Ended, Project!Count
  <2>5. QED
    BY <2>3, <2>4 DEF ProjectInv
<1>8. QED
  BY <1>3, <1>4, <1>5, <1>6, <1>7

LEMMA ProjectStarts ==
  ASSUME Project!ProjectionAssumption, Project!Init
  PROVE  ProjectInv
<1> USE ProjectNumbers
<1>1. /\ events = <<>> /\ past = [i \in 1 .. Prior |-> 0] /\ saved = <<>> /\ outcome = "none"
      /\ taken = [receipt |-> "none", log |-> <<>>, snapshot |-> <<>>] /\ unread = {} /\ loads = 0
  BY DEF Project!Init, Project!Nothing
<1>2. Project!Requests = 0 /\ Project!Steps = 0 /\ ~ Project!Ended(events) /\ ~ Project!Ended(taken.log)
  BY <1>1, CountNone DEF Project!Requests, Project!Steps, Project!Ended
<1>3. Project!Now = "nothing"
  BY <1>1 DEF Project!Now
<1>4. LogOK
  BY <1>1, <1>2, <1>3 DEF LogOK, Final
<1>5. past \in Seq(Project!Response) /\ Len(past) = Prior /\ saved \in Seq(Project!Response) /\ Len(saved) = 0
  BY <1>1 DEF Project!Response
<1>6. RunOK
  BY <1>1, <1>2, <1>4, <1>5 DEF RunOK
<1>7. LoadOK
  BY <1>1, <1>2, <1>5 DEF LoadOK
<1>8. QED
  BY <1>6, <1>7 DEF ProjectInv

LEMMA ProjectStep ==
  ASSUME Project!ProjectionAssumption, ProjectInv, [Project!Next]_(Project!vars)
  PROVE  ProjectInv'
BY RunGoesOn, Responds, ReadsGoOn DEF Project!Next

LEMMA ProjectSays ==
  ASSUME Project!ProjectionAssumption, ProjectInv
  PROVE  Project!TypeOK /\ Project!UnresolvedIsTrue /\ (Prior = 0 => Project!UsageIsLowerBound)
<1>1. LogOK /\ RunOK /\ LoadOK /\ events \in Seq(Project!Event)
  BY DEF ProjectInv, RunOK, LogOK
<1>2. Project!TypeOK
  <2>1. PICK log : log = taken.log
    OBVIOUS
  <2>2. log \in Seq(Project!Event) /\ Len(log) <= Len(events) /\ \A i \in 1 .. Len(log) : log[i] = events[i]
    BY <1>1, <2>1 DEF LoadOK
  <2>3. SubSeq(log, 1, Len(log)) = SubSeq(events, 1, Len(log))
    BY <1>1, <2>2
  <2>4. Project!IsPrefix(log, events)
    BY <2>2, <2>3 DEF Project!IsPrefix
  <2>5. QED
    BY <1>1, <2>1, <2>4 DEF RunOK, LoadOK, Project!TypeOK
<1>3. Project!UnresolvedIsTrue
  <2>1. SUFFICES ASSUME Project!Loaded, NEW n \in Project!Unresolved, NEW i \in DOMAIN events, events[i].n = n,
                        events[i].kind = "tool_completed"
                 PROVE  FALSE
    BY DEF Project!UnresolvedIsTrue
  <2>2. taken.receipt # "none" \/ Project!Ended(taken.log)
    BY <2>1 DEF Project!Unresolved
  <2>3. unread = {}
    BY <2>1 DEF Project!Loaded
  <2>4. taken.log = events
    BY <1>1, <2>2, <2>3 DEF LoadOK
  <2>5. n \in Project!Open
    BY <2>1 DEF Project!Unresolved
  <2>6. i \in {j \in DOMAIN taken.log : taken.log[j].kind = "tool_completed"} /\ taken.log[i].n = n
    BY <2>1, <2>4
  <2>7. n \in {e.n : e \in {taken.log[k] : k \in {j \in DOMAIN taken.log : taken.log[j].kind = "tool_completed"}}}
    BY <2>6
  <2>8. QED
    BY <2>5, <2>7 DEF Project!Open
<1>4. ASSUME Prior = 0 PROVE Project!UsageIsLowerBound
  <2>1. Len(taken.snapshot) <= Len(past) /\ Len(past) = 0 + Project!Steps
    BY <1>1, <1>4 DEF LoadOK, RunOK
  <2>2. Project!Steps \in Nat
    BY <1>1, ProjectNumbers, LogNumbers
  <2>3. QED
    BY <2>1, <2>2 DEF Project!UsageIsLowerBound, Project!LiveUsage
<1>5. QED
  BY <1>2, <1>3, <1>4

\* Readers of the facts of a run read them in several steps while it goes on
\* (readers.load_run_facts): a call shown as unresolved never completes
\* afterwards, because the verdict is read before the events; and what the
\* progress line counts is never more than what was used, in a first turn.
THEOREM UnresolvedStays ==
  ASSUME Project!ProjectionAssumption
  PROVE  Project!Spec => [](Project!TypeOK /\ Project!UnresolvedIsTrue /\ (Prior = 0 => Project!UsageIsLowerBound))
<1>1. Project!Init => ProjectInv
  BY ProjectStarts
<1>2. ProjectInv /\ [Project!Next]_(Project!vars) => ProjectInv'
  BY ProjectStep
<1>3. ProjectInv => Project!TypeOK /\ Project!UnresolvedIsTrue /\ (Prior = 0 => Project!UsageIsLowerBound)
  BY ProjectSays
<1>4. QED
  BY <1>1, <1>2, <1>3, PTL DEF Project!Spec

\* A verdict that the console shows as the activity of a run is the one its
\* receipt keeps (projector.derive_activity).
THEOREM VerdictsStand ==
  ASSUME Project!ProjectionAssumption
  PROVE  Project!Spec => Project!VerdictStands
<1>1. Project!Init => ProjectInv
  BY ProjectStarts
<1>2. ProjectInv /\ [Project!Next]_(Project!vars) => ProjectInv'
  BY ProjectStep
<1>3. ASSUME ProjectInv, [Project!Next]_(Project!vars), Project!Loaded, Project!Activity \in Project!Verdict
      PROVE  outcome' = Project!Activity
  <2>1. taken.receipt \in {"none", outcome} /\ outcome \in Project!Verdict \cup {"none"}
    BY <1>3 DEF ProjectInv, RunOK, LoadOK
  <2>2. taken.receipt # "none"
    BY <1>3 DEF Project!Activity, Project!Verdict
  <2>3. Project!Activity = taken.receipt /\ outcome = taken.receipt /\ outcome # "none"
    BY <2>1, <2>2 DEF Project!Activity, Project!Status
  <2>4. outcome' = outcome
    BY <1>3, <2>3 DEF Project!Next, Project!Begin, Project!StartRequest, Project!Respond, Project!RequestFails, Project!Tool,
       Project!End, Project!SaveSnapshot, Project!Settle, Project!Load, Project!Read, Project!vars, Project!run, Project!reader
  <2>5. QED
    BY <2>3, <2>4
<1>4. ProjectInv /\ [Project!Next]_(Project!vars)
        => [Project!Loaded /\ Project!Activity \in Project!Verdict => outcome' = Project!Activity]_(Project!vars)
  BY <1>3
<1>5. QED
  BY <1>1, <1>2, <1>4, PTL DEF Project!Spec, Project!VerdictStands

\* Without a retry the requests and the responses are counted alike.
NthAnswersNth(s) == \A i \in 1 .. Len(s) : s[i] = i
PairsOK ==
  /\ Project!Requests <= Project!Steps + 1 /\ Project!Now # "request_failed"
  /\ Project!Now \notin {"request_started", "run_failed"} => Project!Requests = Project!Steps
  /\ NthAnswersNth(past) /\ NthAnswersNth(saved) /\ NthAnswersNth(taken.snapshot)

\* What an event makes of the counts.
LEMMA EventCounts ==
  ASSUME ProjectInv, NEW e \in Project!Event, events' = Append(events, e)
  PROVE  /\ Project!Requests \in Nat /\ Project!Steps \in Nat /\ Project!Now' = e.kind
         /\ Project!Requests' = Project!Requests + (IF e.kind = "request_started" THEN 1 ELSE 0)
         /\ Project!Steps' = Project!Steps + (IF e.kind = "request_completed" THEN 1 ELSE 0)
<1>1. PICK t : t = Append(events, e)
  OBVIOUS
<1>2. events \in Seq(Project!Event) /\ t \in Seq(Project!Event) /\ events' = t /\ t # <<>> /\ t[Len(t)] = e
  BY <1>1 DEF ProjectInv, RunOK, LogOK
<1>3. Project!Now' = e.kind
  BY <1>2 DEF Project!Now
<1>4. \A K : Project!Count(events, K) \in Nat /\ Project!Count(t, K) = Project!Count(events, K) + (IF e.kind \in K THEN 1 ELSE 0)
  BY <1>1, <1>2, CountOne
<1>5. QED
  BY <1>2, <1>3, <1>4 DEF Project!Requests, Project!Steps, Project!Count

\* An event that is no answer keeps the pairs.
LEMMA EventKeepsPairs ==
  ASSUME ProjectInv, PairsOK, NEW e \in Project!Event, events' = Append(events, e), UNCHANGED <<past, saved, taken>>,
         e.kind \notin {"request_completed", "request_failed"}, Project!Now # "run_failed",
         e.kind = "request_started" => Project!Now # "request_started",
         Project!Now = "request_started" => e.kind = "run_failed"
  PROVE  PairsOK'
<1>1. PICK r, s, now, k : r = Project!Requests /\ s = Project!Steps /\ now = Project!Now /\ k = e.kind
  OBVIOUS
<1>2. r \in Nat /\ s \in Nat /\ Project!Now' = k /\ Project!Requests' = r + (IF k = "request_started" THEN 1 ELSE 0) /\ Project!Steps' = s
  BY <1>1, EventCounts
<1>3. r <= s + 1 /\ (now \notin {"request_started", "run_failed"} => r = s)
  BY <1>1 DEF PairsOK
<1>4. k \notin {"request_completed", "request_failed"} /\ now # "run_failed" /\ (k = "request_started" => now # "request_started") /\ (now = "request_started" => k = "run_failed")
  BY <1>1
<1>5. Project!Requests' <= Project!Steps' + 1 /\ (k \notin {"request_started", "run_failed"} => Project!Requests' = Project!Steps')
  BY <1>2, <1>3, <1>4
<1>6. NthAnswersNth(past)' /\ NthAnswersNth(saved)' /\ NthAnswersNth(taken.snapshot)'
  BY DEF PairsOK, NthAnswersNth
<1>7. QED
  BY <1>2, <1>4, <1>5, <1>6 DEF PairsOK

LEMMA RunKeepsPairs ==
  ASSUME Project!ProjectionAssumption, ProjectInv, PairsOK,
         Project!Begin \/ Project!StartRequest \/ Project!Tool \/ Project!End
  PROVE  PairsOK'
<1> USE ProjectNumbers
<1>1. LogOK
  BY DEF ProjectInv, RunOK
<1>2. CASE Project!Begin
  <2>1. PICK e : e = [kind |-> "run_started", n |-> 0, step |-> 0]
    OBVIOUS
  <2>2. e \in Project!Event /\ e.kind = "run_started"
    BY <2>1, EventOf DEF Project!Kind
  <2>3. Project!Now = "nothing" /\ events' = Append(events, e) /\ UNCHANGED <<past, saved, taken>>
    BY <1>2, <2>1 DEF Project!Begin, Project!Emit, Project!reader
  <2>4. QED
    BY <2>2, <2>3, EventKeepsPairs
<1>3. CASE Project!StartRequest
  <2>1. PICK e : e = [kind |-> "request_started", n |-> Project!Requests + 1, step |-> Project!Steps + 1]
    OBVIOUS
  <2>2. Project!Requests < MaxRequests /\ Project!Now \in {"run_started", "tool_completed", "request_failed"}
    BY <1>3 DEF Project!StartRequest
  <2>3. e \in Project!Event /\ e.kind = "request_started"
    BY <1>1, <2>1, <2>2, EventOf, LogNumbers DEF Project!Kind
  <2>4. events' = Append(events, e) /\ UNCHANGED <<past, saved, taken>>
    BY <1>3, <2>1 DEF Project!StartRequest, Project!Emit, Project!reader
  <2>5. QED
    BY <2>2, <2>3, <2>4, EventKeepsPairs
<1>4. CASE Project!Tool
  <2>1. PICK kind \in {"tool_started", "tool_completed"} :
          Project!Emit(kind, Project!Requests, Project!Steps) /\ Project!Now \in {"request_completed", "tool_started"}
    BY <1>4 DEF Project!Tool
  <2>2. PICK e : e = [kind |-> kind, n |-> Project!Requests, step |-> Project!Steps]
    OBVIOUS
  <2>3. e \in Project!Event /\ e.kind \in {"tool_started", "tool_completed"}
    BY <1>1, <2>1, <2>2, EventOf, LogNumbers DEF Project!Kind
  <2>4. events' = Append(events, e) /\ UNCHANGED <<past, saved, taken>>
    BY <1>4, <2>1, <2>2 DEF Project!Tool, Project!Emit, Project!reader
  <2>5. QED
    BY <2>1, <2>3, <2>4, EventKeepsPairs
<1>5. CASE Project!End
  <2>1. PICK kind \in Final :
          /\ Project!Emit(kind, 0, 0) /\ Project!Now \in {"request_completed", "request_started", "request_failed", "tool_started"}
          /\ Project!Now = "request_started" => kind = "run_failed"
    BY <1>5 DEF Project!End, Final
  <2>2. PICK e : e = [kind |-> kind, n |-> 0, step |-> 0]
    OBVIOUS
  <2>3. e \in Project!Event /\ e.kind = kind
    BY <2>1, <2>2, EventOf DEF Project!Kind, Final
  <2>4. events' = Append(events, e) /\ UNCHANGED <<past, saved, taken>>
    BY <1>5, <2>1, <2>2 DEF Project!End, Project!Emit, Project!reader
  <2>5. QED
    BY <2>1, <2>3, <2>4, EventKeepsPairs DEF Final
<1>6. QED
  BY <1>2, <1>3, <1>4, <1>5

\* The answer is to the request that was open, and the next in the history.
LEMMA AnswerKeepsPairs ==
  ASSUME Project!ProjectionAssumption, Prior = 0, ProjectInv, PairsOK, Project!Respond
  PROVE  PairsOK'
<1> USE ProjectNumbers
<1>1. LogOK /\ RunOK
  BY DEF ProjectInv, RunOK
<1>2. PICK r, s : r = Project!Requests /\ s = Project!Steps
  OBVIOUS
<1>3. PICK e : e = [kind |-> "request_completed", n |-> r, step |-> s + 1]
  OBVIOUS
<1>4. /\ Project!Now = "request_started" /\ events' = Append(events, e) /\ past' = Append(past, r) /\ UNCHANGED <<saved, taken>>
  BY <1>2, <1>3 DEF Project!Respond, Project!Emit, Project!reader
<1>5. r \in 0 .. MaxRequests /\ s \in Nat /\ e \in Project!Event /\ e.kind = "request_completed"
  BY <1>1, <1>2, <1>3, <1>4, EventOf, LogNumbers DEF Project!Kind
<1>6. r = s + 1
  BY <1>1, <1>2, <1>4, <1>5 DEF PairsOK, LogOK
<1>7. Project!Now' = "request_completed" /\ Project!Requests' = r /\ Project!Steps' = s + 1
  BY <1>2, <1>4, <1>5, EventCounts
<1>8. past \in Seq(Project!Response) /\ Len(past) = s
  BY <1>1, <1>2, <1>5 DEF RunOK
<1>9. PICK t : t = Append(past, r)
  OBVIOUS
<1>10. Len(t) = s + 1 /\ t[s + 1] = r /\ \A i \in 1 .. s : t[i] = past[i]
  BY <1>5, <1>8, <1>9
<1>11. NthAnswersNth(t)
  BY <1>5, <1>6, <1>8, <1>10 DEF PairsOK, NthAnswersNth
<1>12. NthAnswersNth(past)' /\ NthAnswersNth(saved)' /\ NthAnswersNth(taken.snapshot)'
  BY <1>4, <1>9, <1>11 DEF PairsOK, NthAnswersNth
<1>13. QED
  BY <1>5, <1>6, <1>7, <1>12 DEF PairsOK

LEMMA ReadsKeepPairs ==
  ASSUME ProjectInv, PairsOK,
         Project!SaveSnapshot \/ Project!Settle \/ Project!Load \/ (\E part \in unread : Project!Read(part)) \/ UNCHANGED Project!vars
  PROVE  PairsOK'
<1>1. taken = [receipt |-> taken.receipt, log |-> taken.log, snapshot |-> taken.snapshot] /\ unread \subseteq {"receipt", "events", "snapshot"}
  BY DEF ProjectInv, LoadOK
<1>2. UNCHANGED <<events, past>> /\ saved' \in {saved, past} /\ taken'.snapshot \in {taken.snapshot, saved, <<>>}
  <2>1. CASE Project!SaveSnapshot
    BY <2>1 DEF Project!SaveSnapshot, Project!reader
  <2>2. CASE Project!Settle
    BY <2>2 DEF Project!Settle, Project!reader
  <2>3. CASE Project!Load
    BY <2>3 DEF Project!Load, Project!run, Project!Nothing
  <2>4. ASSUME NEW part \in unread, Project!Read(part)
        PROVE  UNCHANGED <<events, past, saved>> /\ taken'.snapshot \in {taken.snapshot, saved}
    <3>1. UNCHANGED <<events, past, saved>>
      BY <2>4 DEF Project!Read, Project!run
    <3>2. /\ part = "receipt" => taken' = [taken EXCEPT !.receipt = outcome]
          /\ part = "events" => taken' = [taken EXCEPT !.log = events]
          /\ part = "snapshot" => taken' = [taken EXCEPT !.snapshot = saved]
      BY <2>4 DEF Project!Read
    <3>3. /\ part = "receipt" => taken' = [receipt |-> outcome, log |-> taken.log, snapshot |-> taken.snapshot]
          /\ part = "events" => taken' = [receipt |-> taken.receipt, log |-> events, snapshot |-> taken.snapshot]
          /\ part = "snapshot" => taken' = [receipt |-> taken.receipt, log |-> taken.log, snapshot |-> saved]
      BY <1>1, <3>2
    <3>4. part \in {"receipt", "events", "snapshot"}
      BY <1>1, <2>4
    <3>5. QED
      BY <3>1, <3>3, <3>4
  <2>5. CASE UNCHANGED Project!vars
    BY <2>5 DEF Project!vars, Project!run, Project!reader
  <2>6. QED
    BY <2>1, <2>2, <2>3, <2>4, <2>5
<1>3. Project!Requests' = Project!Requests /\ Project!Steps' = Project!Steps /\ Project!Now' = Project!Now
  BY <1>2 DEF Project!Requests, Project!Steps, Project!Now, Project!Count
<1>4. NthAnswersNth(<<>>) /\ NthAnswersNth(past)' /\ NthAnswersNth(saved)'
  BY <1>2 DEF PairsOK, NthAnswersNth
<1>5. NthAnswersNth(taken.snapshot)'
  BY <1>2, <1>4 DEF PairsOK, NthAnswersNth
<1>6. QED
  BY <1>3, <1>4, <1>5 DEF PairsOK

\* The response shown with a request of a first turn answers it, as long as no
\* request fails and is tried again: the n-th response of what was saved goes
\* to the n-th request of what was logged (_pair_requests_and_responses).
THEOREM ResponsesAreOwn ==
  ASSUME Project!ProjectionAssumption, Prior = 0, MaxRetries = 0
  PROVE  Project!Spec => []Project!Attributed
<1> USE ProjectNumbers
<1>1. Project!Init => ProjectInv /\ PairsOK
  <2>1. ASSUME Project!Init PROVE PairsOK
    <3>1. events = <<>> /\ past = [i \in 1 .. 0 |-> 0] /\ saved = <<>> /\ taken.snapshot = <<>>
      BY <2>1 DEF Project!Init, Project!Nothing
    <3>2. Project!Requests = 0 /\ Project!Steps = 0 /\ Project!Now = "nothing"
      BY <3>1, CountNone DEF Project!Requests, Project!Steps, Project!Now
    <3>3. Len(past) = 0 /\ Len(saved) = 0
      BY <3>1
    <3>4. NthAnswersNth(past) /\ NthAnswersNth(saved) /\ NthAnswersNth(taken.snapshot)
      BY <3>1, <3>3 DEF NthAnswersNth
    <3>5. QED
      BY <3>2, <3>4 DEF PairsOK
  <2>2. QED
    BY <2>1, ProjectStarts
<1>2. ProjectInv /\ PairsOK /\ [Project!Next]_(Project!vars) => ProjectInv' /\ PairsOK'
  <2>1. SUFFICES ASSUME ProjectInv, PairsOK, [Project!Next]_(Project!vars) PROVE PairsOK'
    BY ProjectStep
  <2>2. ~ Project!RequestFails
    <3>1. [kind |-> "run_started", n |-> 0, step |-> 0] \in Project!Event
      BY EventOf DEF Project!Kind
    <3>2. events \in Seq(Project!Event)
      BY <2>1 DEF ProjectInv, RunOK, LogOK
    <3>3. Project!Count(events, {"request_failed"}) \in Nat
      BY <3>1, <3>2, CountOne
    <3>4. QED
      BY <3>3 DEF Project!RequestFails
  <2>3. QED
    BY <2>1, <2>2, RunKeepsPairs, AnswerKeepsPairs, ReadsKeepPairs DEF Project!Next
<1>3. ProjectInv /\ PairsOK => Project!Attributed
  <2>1. SUFFICES ASSUME ProjectInv, PairsOK, NEW i \in Project!Rows, NEW r \in Project!Attached(i) PROVE r = i
    BY DEF Project!Attributed
  <2>2. PICK n : n = Project!Count(taken.log, {"request_started"})
    OBVIOUS
  <2>3. n \in Nat /\ Project!Rows = 1 .. n
    <3>1. [kind |-> "run_started", n |-> 0, step |-> 0] \in Project!Event
      BY EventOf DEF Project!Kind
    <3>2. taken.log \in Seq(Project!Event)
      BY <2>1 DEF ProjectInv, LoadOK
    <3>3. QED
      BY <2>2, <3>1, <3>2, CountOne DEF Project!Rows
  <2>4. Cardinality(1 .. n) = n
    BY <2>3, FS_Interval
  <2>5. Len(taken.snapshot) = n /\ r = taken.snapshot[i]
    BY <2>1, <2>3, <2>4, CardinalityIs DEF Project!Attached
  <2>6. QED
    BY <2>1, <2>3, <2>5 DEF PairsOK, NthAnswersNth
<1>4. QED
  BY <1>1, <1>2, <1>3, PTL DEF Project!Spec
-----------------------------------------------------------------------------
(* The decision board for any number of symbols, requests, cycles, trades, *)
(* pools and faults.                                                       *)

CONSTANTS Symbol, Asking, StaleAfter, AlertTail, WritesEnabled, Pool, MaxTime, MaxCycles, MaxBriefs, MaxForms, MaxPosts,
  MaxBuilds, MaxProofs, MaxRenders, MaxPolls, MaxMishaps, Broken, Null
VARIABLES clock, trading_hours, cycle, opportunities, held, state, soak, alerts, briefs, now, page, form, posts, message,
  snapshot, universe, scan_of, proof, validating, audit, quality, cycles, polls, mishaps

Board == INSTANCE DecisionBoard WITH Request <- Asking, MaxAsks <- MaxPolls, MaxFaults <- MaxMishaps, Torn <- Broken,
           shown <- page, asks <- polls, faults <- mishaps

Announced == {"NEW_READY", "POSITION_EXIT_ALERT", "LIVE_CONNECTION_LOST", "DATA_UNTRUSTED"}
Recorded == {"POSITION_OPENED", "POSITION_CLOSED", "HUMAN_SKIP"}

\* The lines stand in the order of their times, and none is of the future.
TimesOK ==
  /\ clock \in Nat /\ "at" \in DOMAIN cycle /\ cycle.at \in Nat /\ cycle.at <= clock
  /\ alerts \in Seq(Board!Fact)
  /\ \A i, j \in 1 .. Len(alerts) : i < j => alerts[i].ts <= alerts[j].ts
  /\ \A i \in 1 .. Len(alerts) : alerts[i].ts <= clock
  /\ briefs \in Seq([symbol : Symbol, at : Nat])
  /\ \A i \in 1 .. Len(briefs) : briefs[i].at <= clock

\* What a file of the monitor says is of its last cycle or an earlier one.
OfCycle(st) == st.as_of \in Nat /\ st.as_of <= cycle.at
StateOK == state \in {Null, Broken} \/ OfCycle(state)

\* How many lines a POST has left, by where it is.
By(p) == {i \in 1 .. Len(alerts) : alerts[i].by = p}
Stage == {"sent", "running", "alerted", "done", "answered", "read"}
Code == {Null, 200, 400, 403, 504}
Ask == {"ack-buy", "ack-sell", "skip"}
Post == [pc : Stage, code : Code, died : BOOLEAN, n : Nat, kind : Ask, symbol : Symbol, missing : {Null, "price", "shares"}]
One(p) == \E i \in 1 .. Len(alerts) : By(p) = {i}
PostOK(p) ==
  /\ posts[p].pc \in {"sent", "running"} => By(p) = {}
  /\ posts[p].pc \in {"alerted", "done"} => One(p)
  /\ posts[p].pc \in {"answered", "read"} =>
       /\ posts[p].code = 200 => One(p)
       /\ posts[p].code # 200 => By(p) = {} \/ (posts[p].died /\ One(p))
  /\ \A i \in By(p) : alerts[i].symbol = posts[p].symbol /\ alerts[i].type \in Recorded
FormOK ==
  /\ form.n \in Nat
  /\ form.n > 0 => form.kind \in Ask /\ form.symbol \in Symbol /\ form.missing \in {Null, "price", "shares"}
MessageOK ==
  /\ message = [says |-> message.says, form |-> message.form, post |-> message.post, recorded |-> message.recorded]
  /\ \A p \in message.recorded : p \in 1 .. Len(posts) /\ posts[p].pc = "read" /\ posts[p].code = 200
  /\ message.says \in {"recorded", "refused"} =>
       /\ message.post \in 1 .. Len(posts) /\ posts[message.post].pc = "read"
       /\ message.says = "recorded" <=> posts[message.post].code = 200
TradeOK ==
  /\ posts \in Seq(Post) /\ FormOK /\ MessageOK
  /\ \A i \in 1 .. Len(alerts) : alerts[i].by \in 0 .. Len(posts)
  /\ \A p \in 1 .. Len(posts) : PostOK(p)

\* A reader knows what was recorded before it asked, and what it has read of
\* the log holds for every cycle up to that of the state it has read.
IsRecorded(s) == \E i \in 1 .. Len(alerts) : alerts[i].symbol = s /\ alerts[i].type \in Recorded
Covers(log, st) ==
  \A j \in 1 .. Len(alerts) : alerts[j].type \in Announced /\ alerts[j].ts <= st.as_of =>
    \/ \E i \in 1 .. Len(log) : log[i] = alerts[j]
    \/ \A i \in 1 .. Len(log) : alerts[j].ts <= log[i].ts
ReadOK(n) ==
  /\ n = [pc |-> n.pc, at |-> n.at, live |-> n.live, knew |-> n.knew, state |-> n.state, soak |-> n.soak, alerts |-> n.alerts]
  /\ n.at \in Nat /\ n.knew \subseteq Symbol
  /\ n.pc \in {"soak", "alerts", "briefs"} /\ n.state # Null => OfCycle(n.state)
  /\ n.pc \in {"state", "soak", "alerts"} => \A s \in n.knew : IsRecorded(s)
  /\ n.pc = "briefs" =>
       /\ n.alerts \in Seq(Board!Fact)
       /\ \A i, j \in 1 .. Len(n.alerts) : i < j => n.alerts[i].ts <= n.alerts[j].ts
       /\ n.state # Null => Covers(n.alerts, n.state)
       /\ Len(alerts) <= AlertTail =>
            \A s \in n.knew : \E i \in 1 .. Len(n.alerts) : n.alerts[i].symbol = s /\ n.alerts[i].type \in Recorded
NowOK ==
  /\ now = [r \in Asking |-> now[r]]
  /\ \A r \in Asking : now[r].pc \in {"idle", "state", "soak", "alerts", "briefs"} /\ (now[r].pc # "idle" => ReadOK(now[r]))

PanelOK ==
  /\ page.now.items # {} => OfCycle(page.now)
  /\ \A i \in page.now.items : i.kind \in DOMAIN Board!Material
  /\ Board!JudgementNotOlder /\ Board!HealthyIsRecent /\ Board!ConfirmedIsShown

\* What is proven has a size, and what is rendered was there.
SizedPool(u) == u.as_of \in Nat /\ (u.as_of # 0 => u.count \in Nat /\ u.flaw \in {Null, "degraded", "thin", "stale"})
PoolOK ==
  /\ SizedPool(snapshot) /\ SizedPool(universe)
  /\ validating # Null => validating.count \in Nat
  /\ proof.n \in Nat /\ (proof.n # 0 => proof.sample \in Nat /\ proof.status \in {"PASS", "WARN", "FAIL"})
  /\ audit \in {Null, "PIT_CLEAN", "PIT_PARTIAL", "PIT_CONTAMINATED", "unreadable"}
  /\ quality.pc = "read" => SizedPool(quality.snap) /\ quality.status = Null
  /\ Board!GreenIsProven

BoardInv == TimesOK /\ StateOK /\ TradeOK /\ NowOK /\ PanelOK /\ PoolOK

LEMMA Latest ==
  ASSUME NEW N \in Nat, NEW S \in SUBSET (0 .. N), S # {}
  PROVE  \E n \in S : \A m \in S : m <= n
<1>1. PICK R : R = OpToRel(<, Nat)
  OBVIOUS
<1>2. IsWellFoundedOn(R, Nat)
  BY <1>1, NatLessThanWellFounded, Zenon
<1>3. \A x, y \in Nat : x < y => <<x, y>> \in R
  BY <1>1 DEF OpToRel
<1>4. PICK T : T = {N - s : s \in S}
  OBVIOUS
<1>5. T \subseteq Nat /\ T # {}
  <2>1. \A s \in S : N - s \in Nat
    OBVIOUS
  <2>2. QED
    BY <1>4, <2>1
<1>6. PICK x \in T : \A y \in T : <<y, x>> \notin R
  BY <1>2, <1>5, WFMin
<1>7. PICK n \in S : x = N - n
  BY <1>4
<1>8. ASSUME NEW m \in S PROVE m <= n
  <2>1. N - m \in T /\ N - m \in Nat /\ N - n \in Nat
    BY <1>4, <1>5, <1>6, <1>7
  <2>2. ~ (N - m < N - n)
    BY <1>3, <1>6, <1>7, <2>1
  <2>3. QED
    BY <2>1, <2>2
<1>9. QED
  BY <1>7, <1>8

\* The lines of a set in some order: all of them, and nothing else.
LEMMA InSomeOrder ==
  ASSUME NEW S, IsFiniteSet(S)
  PROVE  Board!SetToSeq(S) \in Seq(S)
<1>1. PICK n \in Nat : n = Cardinality(S) /\ ExistsBijection(1 .. n, S)
  BY FS_CardinalityType
<1>2. PICK g : g \in Bijection(1 .. n, S)
  BY <1>1 DEF ExistsBijection
<1>3. g \in [1 .. n -> S] /\ Board!IsInjective(g)
  BY <1>2 DEF Bijection, Injection, IsInjective, Board!IsInjective
<1>4. Board!SetToSeq(S) = CHOOSE f \in [1 .. n -> S] : Board!IsInjective(f)
  <2>1. Board!Cardinality(S) = n
    BY <1>1 DEF Board!Cardinality, Cardinality
  <2>2. QED
    BY <2>1 DEF Board!SetToSeq
<1>5. Board!SetToSeq(S) \in [1 .. n -> S]
  BY <1>3, <1>4
<1>6. QED
  BY <1>5

LEMMA BoardFacts ==
  ASSUME Board!BoardAssumption
  PROVE  /\ StaleAfter \in Nat /\ AlertTail \in Nat /\ Pool \subseteq Nat
         /\ IsFiniteSet(Symbol) /\ Null \notin Symbol \cup Board!Kind \cup {"PASS"} /\ Null \notin Board!Fact
  BY DEF Board!BoardAssumption, Board!IsFiniteSet, IsFiniteSet

\* The log only grows, and what a cycle announces is later than any cycle before.
Longer ==
  /\ alerts' \in Seq(Board!Fact) /\ Len(alerts) \in Nat /\ Len(alerts') \in Nat /\ Len(alerts) <= Len(alerts')
  /\ \A i \in 1 .. Len(alerts) : alerts'[i] = alerts[i]
  /\ \A i \in Len(alerts) + 1 .. Len(alerts') :
       alerts'[i].ts = clock /\ (alerts'[i].type \in Announced => cycle.at < clock)
Onward ==
  /\ clock' \in Nat /\ clock <= clock'
  /\ "at" \in DOMAIN cycle' /\ cycle'.at \in Nat /\ cycle.at <= cycle'.at /\ cycle'.at <= clock

LEMMA SeqIsWider ==
  ASSUME NEW S, NEW T, S \subseteq T, NEW q \in Seq(S)
  PROVE  q \in Seq(T)
  OBVIOUS

LEMMA CycleIs ==
  ASSUME Board!BeginCycle
  PROVE  /\ cycle.at < clock /\ cycle'.at = clock /\ "at" \in DOMAIN cycle'
         /\ cycle'.ready \ opportunities \subseteq Symbol /\ cycle'.exits \ Board!Exiting \subseteq Symbol
         /\ alerts' = alerts \o Board!SetToSeq(Board!Events(cycle'))
<1>1. PICK status, fresh, exits, trust :
        /\ cycle' = [pc |-> "emitted", at |-> clock, status |-> status, scan |-> Null,
                     trust |-> IF status = "SCANNED" THEN trust ELSE "UNKNOWN", ready |-> IF status = "SCANNED" THEN fresh ELSE opportunities,
                     exits |-> IF status = "SCANNED" THEN exits ELSE Board!Exiting]
        /\ fresh \subseteq Symbol /\ exits \subseteq Symbol
  <2>1. PICK found \in SUBSET Symbol, gone \in SUBSET Symbol, skipped \in SUBSET Symbol, trust \in {"PASS", "FAIL"}, lost \in BOOLEAN :
          cycle' = Board!CycleOf(found, gone, skipped, trust, lost)
    BY DEF Board!BeginCycle
  <2>2. PICK status, fresh, exits :
          /\ fresh = (IF trust = "PASS" THEN found \ (Board!Holding \cup skipped) ELSE {}) \cup (opportunities \cap skipped)
          /\ exits = ((Board!Holding \cap gone) \ skipped) \cup (Board!Exiting \cap skipped)
          /\ status = IF ~trading_hours THEN "MARKET_CLOSED" ELSE IF lost THEN "SYSTEM_UNAVAILABLE" ELSE "SCANNED"
    OBVIOUS
  <2>3. fresh \subseteq Symbol /\ exits \subseteq Symbol
    BY <2>2
  <2>4. PICK r : r = [pc |-> "emitted", at |-> clock, status |-> status, scan |-> Null,
                     trust |-> IF status = "SCANNED" THEN trust ELSE "UNKNOWN", ready |-> IF status = "SCANNED" THEN fresh ELSE opportunities,
                     exits |-> IF status = "SCANNED" THEN exits ELSE Board!Exiting]
    OBVIOUS
  <2>5. cycle' = r
    BY <2>1, <2>2, <2>4 DEF Board!CycleOf
  <2>6. QED
    BY <2>3, <2>4, <2>5
<1>2. PICK c : c = cycle'
  OBVIOUS
<1>3. c.at = clock /\ "at" \in DOMAIN c /\ c.ready \in {fresh, opportunities} /\ c.exits \in {exits, Board!Exiting}
  BY <1>1, <1>2
<1>4. QED
  BY <1>1, <1>2, <1>3 DEF Board!BeginCycle

\* A cycle announces finitely many things, at its time.
LEMMA EventsAre ==
  ASSUME Board!BoardAssumption, clock \in Nat, NEW c, c.at = clock, c.ready \ opportunities \subseteq Symbol, c.exits \ Board!Exiting \subseteq Symbol
  PROVE  /\ IsFiniteSet(Board!Events(c)) /\ Board!Events(c) \subseteq Board!Fact
         /\ \A f \in Board!Events(c) : f.ts = clock /\ f.by = 0
<1>1. PICK W : W = Announced \X (Symbol \cup {Null})
  OBVIOUS
<1>2. PICK h : h = [w \in W |-> Board!Alert(w[1], w[2], clock)]
  OBVIOUS
<1>3. PICK S : S = {h[w] : w \in W}
  OBVIOUS
<1>4. \A t \in Announced, s \in Symbol \cup {Null} : Board!Alert(t, s, clock) \in S
  <2>1. TAKE t \in Announced, s \in Symbol \cup {Null}
  <2>2. <<t, s>> \in W /\ h[<<t, s>>] = Board!Alert(t, s, clock)
    BY <1>1, <1>2
  <2>3. QED
    BY <1>3, <2>2
<1>5. Board!Events(c) \subseteq S
  BY <1>4 DEF Board!Events, Announced
<1>6. IsFiniteSet(S)
  <2>1. IsFiniteSet(Announced) /\ IsFiniteSet(Symbol \cup {Null})
    <3>1. IsFiniteSet({"NEW_READY"}) /\ IsFiniteSet({"POSITION_EXIT_ALERT"}) /\ IsFiniteSet({"LIVE_CONNECTION_LOST"}) /\ IsFiniteSet({"DATA_UNTRUSTED"})
      BY FS_Singleton
    <3>2. Announced = (({"NEW_READY"} \cup {"POSITION_EXIT_ALERT"}) \cup {"LIVE_CONNECTION_LOST"}) \cup {"DATA_UNTRUSTED"}
      BY DEF Announced
    <3>3. IsFiniteSet(Announced)
      BY <3>1, <3>2, FS_Union
    <3>4. IsFiniteSet(Symbol)
      BY BoardFacts
    <3>5. QED
      BY <3>3, <3>4, FS_AddElement
  <2>2. IsFiniteSet(W)
    BY <1>1, <2>1, FS_Product
  <2>3. h \in Surjection(W, S)
    BY <1>2, <1>3 DEF Surjection
  <2>4. QED
    BY <2>2, <2>3, FS_Surjection DEF ExistsSurjection
<1>7. \A f \in S : f \in Board!Fact /\ f.ts = clock /\ f.by = 0
  <2>1. SUFFICES ASSUME NEW w \in W PROVE h[w] \in Board!Fact /\ h[w].ts = clock /\ h[w].by = 0
    BY <1>3
  <2>2. w[1] \in Board!Kind /\ w[2] \in Symbol \cup {Null} /\ h[w] = [type |-> w[1], symbol |-> w[2], ts |-> clock, by |-> 0]
    <3>1. PICK t \in Announced, s \in Symbol \cup {Null} : w = <<t, s>>
      BY <1>1
    <3>2. w[1] = t /\ w[2] = s /\ t \in Board!Kind
      <4>1. w[1] = t /\ w[2] = s
        BY <3>1
      <4>2. QED
        BY <4>1, <3>1 DEF Announced, Board!Kind
    <3>3. h[w] = [type |-> t, symbol |-> s, ts |-> clock, by |-> 0]
      BY <1>2, <3>1, <3>2 DEF Board!Alert
    <3>4. QED
      BY <3>1, <3>2, <3>3
  <2>3. QED
    BY <2>2 DEF Board!Fact
<1>8. QED
  BY <1>5, <1>6, <1>7, FS_Subset

LEMMA CycleAnnounces ==
  ASSUME Board!BoardAssumption, TimesOK, Board!BeginCycle
  PROVE  \E q \in Seq(Board!Fact) : alerts' = alerts \o q /\ \A i \in 1 .. Len(q) : q[i].ts = clock /\ q[i].by = 0
<1>1. PICK c : c = cycle'
  OBVIOUS
<1>2. PICK E : E = Board!Events(c)
  OBVIOUS
<1>3. IsFiniteSet(E) /\ E \subseteq Board!Fact /\ \A f \in E : f.ts = clock /\ f.by = 0
  BY <1>1, <1>2, CycleIs, EventsAre DEF TimesOK
<1>4. PICK q : q = Board!SetToSeq(E)
  OBVIOUS
<1>5. q \in Seq(E)
  BY <1>3, <1>4, InSomeOrder
<1>6. \A i \in 1 .. Len(q) : q[i] \in E
  BY <1>5, ElementOfSeq
<1>7. q \in Seq(Board!Fact)
  BY <1>3, <1>5, SeqIsWider
<1>8. alerts' = alerts \o q
  BY <1>1, <1>2, <1>4, CycleIs
<1>9. QED
  BY <1>3, <1>6, <1>7, <1>8

\* What is appended stands behind what was there.
LEMMA AppendedIs ==
  ASSUME alerts \in Seq(Board!Fact), NEW q \in Seq(Board!Fact), alerts' = alerts \o q
  PROVE  /\ alerts' \in Seq(Board!Fact) /\ Len(alerts) \in Nat /\ Len(alerts') \in Nat /\ Len(alerts) <= Len(alerts')
         /\ \A i \in 1 .. Len(alerts) : alerts'[i] = alerts[i]
         /\ \A i \in Len(alerts) + 1 .. Len(alerts') : \E k \in 1 .. Len(q) : alerts'[i] = q[k]
<1>1. PICK t : t = alerts'
  OBVIOUS
<1>2. PICK m, n : m = Len(alerts) /\ n = Len(q)
  OBVIOUS
<1>3. m \in Nat /\ n \in Nat
  BY <1>2, LenProperties
<1>4. t \in Seq(Board!Fact) /\ Len(t) = m + n /\ \A i \in 1 .. m + n : t[i] = IF i <= m THEN alerts[i] ELSE q[i - m]
  BY <1>1, <1>2, ConcatProperties
<1>5. \A i \in 1 .. m : t[i] = alerts[i]
  BY <1>3, <1>4
<1>6. \A i \in m + 1 .. m + n : i - m \in 1 .. n /\ t[i] = q[i - m]
  BY <1>3, <1>4
<1>7. m <= m + n /\ m + n \in Nat
  BY <1>3
<1>8. QED
  BY <1>1, <1>2, <1>3, <1>4, <1>5, <1>6, <1>7

\* The command appends one line, by its POST.
LEMMA CommandIs ==
  ASSUME NEW p, Board!Command(p)
  PROVE  /\ posts[p].pc = "running" /\ posts' = [posts EXCEPT ![p].pc = "alerted"]
         /\ \E t \in Recorded : alerts' = Append(alerts, [type |-> t, symbol |-> posts[p].symbol, ts |-> clock, by |-> p])
         /\ UNCHANGED <<clock, cycle, state, briefs, now, page, form, message>>
         /\ UNCHANGED <<snapshot, universe, proof, validating, audit, quality>>
<1>1. \A t : [Board!Alert(t, posts[p].symbol, clock) EXCEPT !.by = p] = [type |-> t, symbol |-> posts[p].symbol, ts |-> clock, by |-> p]
  BY DEF Board!Alert
<1>2. posts[p].pc = "running" /\ posts' = [posts EXCEPT ![p].pc = "alerted"]
  BY DEF Board!Command
<1>3. UNCHANGED <<clock, cycle, state, briefs, now, page, form, message>> /\ UNCHANGED <<snapshot, universe, proof, validating, audit, quality>>
  BY DEF Board!Command, Board!board, Board!desk
<1>4. PICK t : t = Board!FactOf(posts[p].kind)
  OBVIOUS
<1>5. t \in Recorded
  BY <1>4 DEF Board!FactOf, Recorded
<1>6. alerts' = Append(alerts, [Board!Alert(t, posts[p].symbol, clock) EXCEPT !.by = p])
  BY <1>4 DEF Board!Command
<1>7. QED
  BY <1>1, <1>2, <1>3, <1>5, <1>6

\* The steps of a trade that leave the log alone.
TradeStep(p) ==
  \/ Board!Serve(p) \/ Board!HostRefuses(p) \/ Board!CommandSaves(p) \/ Board!CommandEnds(p)
  \/ Board!CommandDies(p) \/ Board!CommandKilled(p) \/ Board!ReadAnswer(p)

LEMMA TradeStepIs ==
  ASSUME NEW p, TradeStep(p)
  PROVE  /\ UNCHANGED <<clock, cycle, state, alerts, briefs, now, page, form>>
         /\ UNCHANGED <<snapshot, universe, proof, validating, audit, quality>>
<1>1. CASE Board!Serve(p) \/ Board!HostRefuses(p) \/ Board!CommandEnds(p) \/ Board!ReadAnswer(p)
  BY <1>1 DEF Board!Serve, Board!HostRefuses, Board!CommandEnds, Board!ReadAnswer, Board!desk, Board!board
<1>2. CASE Board!CommandSaves(p)
  BY <1>2 DEF Board!CommandSaves, Board!board
<1>3. CASE Board!CommandDies(p) \/ Board!CommandKilled(p)
  BY <1>3 DEF Board!CommandDies, Board!CommandKilled, Board!CommandStops, Board!board
<1>4. QED
  BY <1>1, <1>2, <1>3 DEF TradeStep

LEMMA StepsOnLog ==
  ASSUME "at" \in DOMAIN cycle, [Board!Next]_(Board!vars)
  PROVE  \/ Board!BeginCycle
         \/ \E p \in DOMAIN posts : Board!Command(p)
         \/ UNCHANGED <<alerts, clock>> /\ cycle'.at = cycle.at /\ "at" \in DOMAIN cycle'
         \/ UNCHANGED <<alerts, cycle, state, briefs>> /\ clock' = clock + 1
<1>1. CASE Board!SaveCycle \/ Board!EndCycle \/ Board!CycleFails
  <2>1. CASE Board!SaveCycle
    BY <2>1 DEF Board!SaveCycle
  <2>2. CASE Board!EndCycle \/ Board!CycleFails
    BY <2>2 DEF Board!EndCycle, Board!CycleFails
  <2>3. QED
    BY <1>1, <2>1, <2>2
<1>2. CASE Board!Tick \/ Board!Bell
  BY <1>2 DEF Board!Tick, Board!Bell, Board!desk
<1>3. CASE Board!RecordBrief \/ (\E r \in Asking : Board!AskNow(r) \/ Board!ReadState(r) \/ Board!ReadSoak(r) \/ Board!ReadAlerts(r) \/ Board!ShowNow(r) \/ Board!FallBack(r))
  BY <1>3 DEF Board!RecordBrief, Board!AskNow, Board!ReadState, Board!ReadSoak, Board!ReadAlerts, Board!ShowNow, Board!FallBack, Board!desk
<1>4. CASE Board!OpenTrade \/ Board!SubmitTrade
  BY <1>4 DEF Board!OpenTrade, Board!SubmitTrade, Board!desk
<1>8. CASE \E p \in DOMAIN posts : TradeStep(p)
  BY <1>8, TradeStepIs
<1>5. CASE Board!Rebuild \/ Board!HandOff \/ Board!Validate \/ Board!Proven \/ Board!LiveScan \/ Board!Audit \/ Board!RenderPool \/ Board!RenderQuality
  BY <1>5 DEF Board!Rebuild, Board!HandOff, Board!Validate, Board!Proven, Board!LiveScan, Board!Audit, Board!RenderPool, Board!RenderQuality, Board!desk
<1>6. CASE UNCHANGED Board!vars
  BY <1>6 DEF Board!vars, Board!desk
<1>7. QED
  BY <1>1, <1>2, <1>3, <1>4, <1>5, <1>6, <1>8 DEF Board!Next, TradeStep

LEMMA LogStays ==
  ASSUME alerts \in Seq(Board!Fact), UNCHANGED alerts
  PROVE  Longer
  BY LenProperties DEF Longer

LEMMA LogGrows ==
  ASSUME Board!BoardAssumption, TimesOK, TradeOK, [Board!Next]_(Board!vars)
  PROVE  Longer /\ Onward
<1>1. CASE Board!BeginCycle
  <2>1. PICK q \in Seq(Board!Fact) : alerts' = alerts \o q /\ \A i \in 1 .. Len(q) : q[i].ts = clock /\ q[i].by = 0
    BY <1>1, CycleAnnounces
  <2>2. alerts \in Seq(Board!Fact)
    BY DEF TimesOK
  <2>3. /\ alerts' \in Seq(Board!Fact) /\ Len(alerts) \in Nat /\ Len(alerts') \in Nat /\ Len(alerts) <= Len(alerts')
        /\ \A i \in 1 .. Len(alerts) : alerts'[i] = alerts[i]
        /\ \A i \in Len(alerts) + 1 .. Len(alerts') : \E k \in 1 .. Len(q) : alerts'[i] = q[k]
    BY <2>1, <2>2, AppendedIs
  <2>4. cycle.at < clock /\ cycle'.at = clock /\ clock' = clock /\ "at" \in DOMAIN cycle'
    BY <1>1, CycleIs DEF Board!BeginCycle
  <2>5. Longer
    BY <2>1, <2>3, <2>4 DEF Longer
  <2>6. Onward
    BY <2>4 DEF Onward, TimesOK
  <2>7. QED
    BY <2>5, <2>6
<1>2. ASSUME NEW p \in DOMAIN posts, Board!Command(p)
      PROVE  Longer /\ Onward
  <2>1. UNCHANGED <<clock, cycle>>
    BY <1>2, CommandIs
  <2>2. Onward
    BY <2>1 DEF Onward, TimesOK
  <2>4. ASSUME NEW t \in Recorded, alerts' = Append(alerts, [type |-> t, symbol |-> posts[p].symbol, ts |-> clock, by |-> p])
        PROVE  Longer
    <3>1. PICK f : f = [type |-> t, symbol |-> posts[p].symbol, ts |-> clock, by |-> p]
      OBVIOUS
    <3>2. f \in Board!Fact /\ f.ts = clock /\ f.type \notin Announced
      <4>1. posts[p] \in Post /\ p \in Nat
        <5>1. posts \in Seq(Post) /\ p \in 1 .. Len(posts)
          BY DEF TradeOK
        <5>2. QED
          BY <5>1, ElementOfSeq
      <4>2. QED
        BY <3>1, <4>1 DEF Board!Fact, Board!Kind, TimesOK, Post, Recorded, Announced
    <3>3. PICK s, u : s = alerts /\ u = alerts'
      OBVIOUS
    <3>4. s \in Seq(Board!Fact) /\ u = Append(s, f)
      BY <2>4, <3>1, <3>3 DEF TimesOK
    <3>5. /\ u \in Seq(Board!Fact) /\ Len(s) \in Nat /\ Len(u) = Len(s) + 1
          /\ \A i \in 1 .. Len(s) : u[i] = s[i]
          /\ u[Len(s) + 1] = f
      BY <3>2, <3>4
    <3>6. Len(u) \in Nat /\ Len(s) <= Len(u) /\ \A i \in Len(s) + 1 .. Len(u) : u[i] = f
      BY <3>5
    <3>7. QED
      BY <3>2, <3>3, <3>5, <3>6 DEF Longer
  <2>5. QED
    BY <1>2, <2>2, <2>4, CommandIs
<1>3. CASE UNCHANGED <<alerts, clock>> /\ cycle'.at = cycle.at /\ "at" \in DOMAIN cycle'
  BY <1>3, LenProperties DEF Longer, Onward, TimesOK
<1>4. CASE UNCHANGED <<alerts, cycle, state, briefs>> /\ clock' = clock + 1
  BY <1>4, LenProperties DEF Longer, Onward, TimesOK
<1>5. QED
  BY <1>1, <1>2, <1>3, <1>4, StepsOnLog DEF TimesOK

\* Who writes what: the briefs, the state file, NOW and what is shown of it.
LEMMA OnlyRecordBrief ==
  ASSUME [Board!Next]_(Board!vars)
  PROVE  Board!RecordBrief \/ UNCHANGED briefs
  BY DEF Board!Next, Board!vars, Board!BeginCycle, Board!SaveCycle, Board!EndCycle, Board!CycleFails, Board!Tick, Board!Bell,
     Board!AskNow, Board!ReadState, Board!ReadSoak, Board!ReadAlerts, Board!ShowNow, Board!FallBack, Board!OpenTrade, Board!SubmitTrade,
     Board!Serve, Board!Command, Board!HostRefuses, Board!CommandSaves, Board!CommandEnds, Board!CommandStops, Board!CommandDies, Board!CommandKilled,
     Board!ReadAnswer, Board!Rebuild, Board!HandOff, Board!Validate,
     Board!Proven, Board!LiveScan, Board!Audit, Board!RenderPool, Board!RenderQuality

LEMMA OnlyMonitor ==
  ASSUME [Board!Next]_(Board!vars)
  PROVE  Board!SaveCycle \/ Board!EndCycle \/ UNCHANGED state
  BY DEF Board!Next, Board!vars, Board!desk, Board!BeginCycle, Board!CycleFails, Board!RecordBrief, Board!Tick, Board!Bell,
     Board!AskNow, Board!ReadState, Board!ReadSoak, Board!ReadAlerts, Board!ShowNow, Board!FallBack, Board!OpenTrade, Board!SubmitTrade,
     Board!Serve, Board!Command, Board!HostRefuses, Board!CommandSaves, Board!CommandEnds, Board!CommandStops, Board!CommandDies, Board!CommandKilled,
     Board!ReadAnswer, Board!Rebuild, Board!HandOff, Board!Validate,
     Board!Proven, Board!LiveScan, Board!Audit, Board!RenderPool, Board!RenderQuality

LEMMA OnlyRequests ==
  ASSUME [Board!Next]_(Board!vars)
  PROVE  (\E r \in Asking : Board!AskNow(r) \/ Board!ReadState(r) \/ Board!ReadSoak(r) \/ Board!ReadAlerts(r) \/ Board!ShowNow(r) \/ Board!FallBack(r))
         \/ UNCHANGED <<now, page>>
  BY DEF Board!Next, Board!vars, Board!BeginCycle, Board!SaveCycle, Board!EndCycle, Board!CycleFails, Board!RecordBrief, Board!Tick, Board!Bell,
     Board!OpenTrade, Board!SubmitTrade,
     Board!Serve, Board!Command, Board!HostRefuses, Board!CommandSaves, Board!CommandEnds, Board!CommandStops, Board!CommandDies, Board!CommandKilled,
     Board!ReadAnswer, Board!Rebuild, Board!HandOff, Board!Validate,
     Board!Proven, Board!LiveScan, Board!Audit, Board!RenderPool, Board!RenderQuality

\* The log with what a step appends is still in order.
LEMMA TimesStay ==
  ASSUME Board!BoardAssumption, TimesOK, TradeOK, [Board!Next]_(Board!vars)
  PROVE  TimesOK'
<1>1. Longer /\ Onward
  BY LogGrows
<1>2. PICK t : t = alerts'
  OBVIOUS
<1>3. PICK m, n : m = Len(alerts) /\ n = Len(t)
  OBVIOUS
<1>4. /\ t \in Seq(Board!Fact) /\ m \in Nat /\ n \in Nat /\ m <= n
      /\ \A i \in 1 .. m : t[i] = alerts[i]
      /\ \A i \in m + 1 .. n : t[i].ts = clock
  BY <1>1, <1>2, <1>3 DEF Longer
<1>5. /\ \A i, j \in 1 .. m : i < j => alerts[i].ts <= alerts[j].ts
      /\ \A i \in 1 .. m : alerts[i].ts <= clock
      /\ clock \in Nat
  BY <1>3 DEF TimesOK
<1>6. \A i \in 1 .. n : i \in 1 .. m \/ i \in m + 1 .. n
  BY <1>4
<1>7. \A i \in 1 .. n : t[i].ts <= clock
  BY <1>4, <1>5, <1>6
<1>8. \A i, j \in 1 .. n : i < j => t[i].ts <= t[j].ts
  <2>1. TAKE i, j \in 1 .. n
  <2>2. HAVE i < j
  <2>3. CASE j \in 1 .. m
    BY <1>4, <1>5, <2>2, <2>3
  <2>4. CASE j \in m + 1 .. n
    BY <1>4, <1>7, <2>4
  <2>5. QED
    BY <1>6, <2>3, <2>4
<1>9. \A i \in 1 .. n : t[i].ts <= clock'
  <2>1. \A i \in 1 .. n : t[i].ts \in Nat
    <3>1. \A i \in 1 .. n : t[i] \in Board!Fact
      BY <1>3, <1>4, ElementOfSeq
    <3>2. QED
      BY <3>1 DEF Board!Fact
  <2>2. QED
    BY <1>1, <1>5, <1>7, <2>1 DEF Onward
<1>10. briefs' \in Seq([symbol : Symbol, at : Nat]) /\ \A i \in 1 .. Len(briefs') : briefs'[i].at <= clock'
  <2>1. CASE Board!RecordBrief
    <3>1. PICK s \in Symbol : briefs' = Append(briefs, [symbol |-> s, at |-> clock])
      BY <2>1 DEF Board!RecordBrief
    <3>2. clock' = clock
      BY <2>1 DEF Board!RecordBrief
    <3>3. PICK u, v, b : u = briefs /\ v = briefs' /\ b = [symbol |-> s, at |-> clock]
      OBVIOUS
    <3>4. b \in [symbol : Symbol, at : Nat] /\ b.at = clock /\ u \in Seq([symbol : Symbol, at : Nat]) /\ \A i \in 1 .. Len(u) : u[i].at <= clock
      BY <3>3, <1>5 DEF TimesOK
    <3>5. v = Append(u, b)
      BY <3>1, <3>3
    <3>6. v \in Seq([symbol : Symbol, at : Nat]) /\ Len(v) = Len(u) + 1 /\ Len(u) \in Nat /\ (\A i \in 1 .. Len(u) : v[i] = u[i]) /\ v[Len(u) + 1] = b
      BY <3>4, <3>5
    <3>7. \A i \in 1 .. Len(v) : v[i].at <= clock
      <4>1. PICK k : k = Len(u)
        OBVIOUS
      <4>2. \A i \in 1 .. k + 1 : i \in 1 .. k \/ i = k + 1
        BY <3>6, <4>1
      <4>3. v[k + 1].at <= clock /\ \A i \in 1 .. k : v[i].at <= clock
        BY <1>5, <3>4, <3>6, <4>1
      <4>4. QED
        BY <3>6, <4>1, <4>2, <4>3
    <3>8. QED
      BY <3>2, <3>3, <3>6, <3>7
  <2>2. CASE UNCHANGED briefs
    <3>1. \A i \in 1 .. Len(briefs) : briefs[i].at <= clock /\ briefs[i].at \in Nat
      <4>1. PICK u : u = briefs
        OBVIOUS
      <4>2. u \in Seq([symbol : Symbol, at : Nat]) /\ \A i \in 1 .. Len(u) : u[i].at <= clock
        BY <4>1 DEF TimesOK
      <4>3. \A i \in 1 .. Len(u) : u[i] \in [symbol : Symbol, at : Nat]
        BY <4>2, ElementOfSeq
      <4>4. QED
        BY <4>1, <4>2, <4>3
    <3>2. QED
      BY <1>1, <1>5, <2>2, <3>1 DEF TimesOK, Onward
  <2>3. QED
    BY <2>1, <2>2, OnlyRecordBrief
<1>11. QED
  BY <1>1, <1>2, <1>3, <1>4, <1>5, <1>8, <1>9, <1>10 DEF TimesOK, Onward

\* What the state file says is of a cycle that was.
LEMMA StateStays ==
  ASSUME Board!BoardAssumption, TimesOK, StateOK, TradeOK, [Board!Next]_(Board!vars)
  PROVE  StateOK'
<1>1. Onward
  BY LogGrows
<1>2. CASE Board!SaveCycle
  BY <1>2 DEF Board!SaveCycle, StateOK
<1>3. CASE Board!EndCycle
  <2>1. state'.as_of = cycle.at /\ cycle'.at = cycle.at
    BY <1>3 DEF Board!EndCycle
  <2>2. QED
    BY <2>1 DEF StateOK, OfCycle, TimesOK
<1>4. CASE UNCHANGED state
  BY <1>1, <1>4 DEF StateOK, OfCycle, Onward, TimesOK
<1>5. QED
  BY <1>2, <1>3, <1>4, OnlyMonitor

\* A POST goes one place on; the others stay where they are.
Moved(p, pc, code, died) ==
  /\ posts' \in Seq(Post) /\ Len(posts') = Len(posts) /\ posts[p].pc # "read"
  /\ posts'[p].pc = pc /\ posts'[p].code = code /\ posts'[p].died = died /\ posts'[p].symbol = posts[p].symbol
  /\ \A q \in 1 .. Len(posts) : q # p => posts'[q] = posts[q]

LEMMA BecomesPost ==
  ASSUME posts \in Seq(Post), NEW p \in DOMAIN posts, posts[p].pc # "read", NEW e \in Post, e.symbol = posts[p].symbol,
         posts' = [posts EXCEPT ![p] = e]
  PROVE  Moved(p, e.pc, e.code, e.died)
<1>1. PICK s, n : s = posts /\ n = Len(s)
  OBVIOUS
<1>2. s \in [1 .. n -> Post] /\ n \in Nat /\ p \in 1 .. n
  BY <1>1, LenProperties
<1>3. PICK u : u = [s EXCEPT ![p] = e]
  OBVIOUS
<1>4. u \in [1 .. n -> Post] /\ u[p] = e /\ \A q \in 1 .. n : q # p => u[q] = s[q]
  BY <1>2, <1>3
<1>5. u \in Seq(Post) /\ Len(u) = n
  BY <1>2, <1>4
<1>6. QED
  BY <1>1, <1>3, <1>4, <1>5 DEF Moved

LEMMA PostMoves ==
  ASSUME posts \in Seq(Post), NEW p \in DOMAIN posts, posts[p].pc # "read", NEW pc \in Stage, NEW code \in Code
  PROVE  /\ posts' = [posts EXCEPT ![p].pc = pc] => Moved(p, pc, posts[p].code, posts[p].died)
         /\ posts' = [posts EXCEPT ![p].pc = pc, ![p].code = code] => Moved(p, pc, code, posts[p].died)
         /\ posts' = [posts EXCEPT ![p].pc = pc, ![p].code = code, ![p].died = TRUE] => Moved(p, pc, code, TRUE)
<1>1. PICK o : o = posts[p]
  OBVIOUS
<1>2. o \in Post
  BY <1>1, ElementOfSeq
<1>3. ASSUME posts' = [posts EXCEPT ![p].pc = pc]
      PROVE  Moved(p, pc, o.code, o.died)
  <2>1. PICK e : e = [o EXCEPT !.pc = pc]
    OBVIOUS
  <2>2. e \in Post /\ e.pc = pc /\ e.code = o.code /\ e.died = o.died /\ e.symbol = o.symbol
    BY <1>2, <2>1 DEF Post
  <2>3. posts' = [posts EXCEPT ![p] = e]
    BY <1>1, <1>3, <2>1
  <2>4. Moved(p, e.pc, e.code, e.died)
    BY <1>1, <2>2, <2>3, BecomesPost
  <2>5. QED
    BY <2>2, <2>4
<1>4. ASSUME posts' = [posts EXCEPT ![p].pc = pc, ![p].code = code]
      PROVE  Moved(p, pc, code, o.died)
  <2>1. PICK e : e = [o EXCEPT !.pc = pc, !.code = code]
    OBVIOUS
  <2>2. e \in Post /\ e.pc = pc /\ e.code = code /\ e.died = o.died /\ e.symbol = o.symbol
    BY <1>2, <2>1 DEF Post
  <2>3. posts' = [posts EXCEPT ![p] = e]
    BY <1>1, <1>4, <2>1
  <2>4. Moved(p, e.pc, e.code, e.died)
    BY <1>1, <2>2, <2>3, BecomesPost
  <2>5. QED
    BY <2>2, <2>4
<1>5. ASSUME posts' = [posts EXCEPT ![p].pc = pc, ![p].code = code, ![p].died = TRUE]
      PROVE  Moved(p, pc, code, TRUE)
  <2>1. PICK e : e = [o EXCEPT !.pc = pc, !.code = code, !.died = TRUE]
    OBVIOUS
  <2>2. e \in Post /\ e.pc = pc /\ e.code = code /\ e.died = TRUE /\ e.symbol = o.symbol
    BY <1>2, <2>1 DEF Post
  <2>3. posts' = [posts EXCEPT ![p] = e]
    BY <1>1, <1>5, <2>1
  <2>4. Moved(p, e.pc, e.code, e.died)
    BY <1>1, <2>2, <2>3, BecomesPost
  <2>5. QED
    BY <2>2, <2>4
<1>6. QED
  BY <1>1, <1>3, <1>4, <1>5

\* If its own lines fit its new place, a move keeps the forms in order.
LEMMA MovesKeepTrade ==
  ASSUME TradeOK, NEW p \in 1 .. Len(posts), NEW pc, NEW code, NEW died, Moved(p, pc, code, died),
         UNCHANGED <<alerts, form>>, MessageOK', PostOK(p)'
  PROVE  TradeOK'
<1>1. ASSUME NEW q \in 1 .. Len(posts), q # p
      PROVE  PostOK(q)'
  <2>1. posts'[q] = posts[q] /\ PostOK(q)
    BY <1>1 DEF Moved, TradeOK
  <2>2. QED
    BY <2>1 DEF PostOK, One, By
<1>2. FormOK'
  BY DEF TradeOK, FormOK
<1>3. QED
  BY <1>1, <1>2 DEF TradeOK, Moved

LEMMA MessageStays ==
  ASSUME TradeOK, NEW p \in 1 .. Len(posts), NEW pc, NEW code, NEW died, Moved(p, pc, code, died), UNCHANGED message
  PROVE  MessageOK'
  BY DEF MessageOK, Moved, TradeOK

\* What a place on the way says of the lines, up to the answer.
Fits(p, pc, code, died) ==
  \/ By(p) = {} /\ (pc = "running" \/ (pc = "answered" /\ code # 200))
  \/ One(p) /\ (pc = "done" \/ (pc = "answered" /\ (code = 200 \/ died)))

LEMMA TradeMoves ==
  ASSUME posts \in Seq(Post), NEW p \in DOMAIN posts, PostOK(p), posts[p] \in Post, TradeStep(p), ~Board!ReadAnswer(p)
  PROVE  UNCHANGED message /\ \E pc, code, died : Moved(p, pc, code, died) /\ Fits(p, pc, code, died)
<1>0. posts[p].code \in Code /\ {200, 400, 403, 504} \subseteq Code /\ {"running", "done", "answered", "read"} \subseteq Stage
  BY DEF Post, Code, Stage
<1>1. CASE Board!Serve(p)
  <2>1. posts[p].pc = "sent" /\ UNCHANGED message
    BY <1>1 DEF Board!Serve
  <2>2. \/ posts' = [posts EXCEPT ![p].pc = "running"]
        \/ posts' = [posts EXCEPT ![p].pc = "answered", ![p].code = 400]
        \/ posts' = [posts EXCEPT ![p].pc = "answered", ![p].code = 403]
    BY <1>1 DEF Board!Serve, Board!Answer
  <2>3. By(p) = {}
    BY <2>1 DEF PostOK
  <2>4. CASE posts' = [posts EXCEPT ![p].pc = "running"]
    <3>1. Moved(p, "running", posts[p].code, posts[p].died)
      BY <1>0, <2>1, <2>4, PostMoves
    <3>2. QED
      BY <2>1, <2>3, <3>1 DEF Fits
  <2>5. CASE posts' = [posts EXCEPT ![p].pc = "answered", ![p].code = 400]
    <3>1. Moved(p, "answered", 400, posts[p].died)
      BY <1>0, <2>1, <2>5, PostMoves
    <3>2. Fits(p, "answered", 400, posts[p].died)
      BY <2>3 DEF Fits
    <3>3. QED
      BY <2>1, <3>1, <3>2
  <2>6. CASE posts' = [posts EXCEPT ![p].pc = "answered", ![p].code = 403]
    <3>1. Moved(p, "answered", 403, posts[p].died)
      BY <1>0, <2>1, <2>6, PostMoves
    <3>2. Fits(p, "answered", 403, posts[p].died)
      BY <2>3 DEF Fits
    <3>3. QED
      BY <2>1, <3>1, <3>2
  <2>7. QED
    BY <2>2, <2>4, <2>5, <2>6
<1>2. CASE Board!HostRefuses(p)
  <2>1. posts[p].pc = "running" /\ UNCHANGED message /\ posts' = [posts EXCEPT ![p].pc = "answered", ![p].code = 400]
    BY <1>2 DEF Board!HostRefuses, Board!Answer
  <2>2. Moved(p, "answered", 400, posts[p].died)
    BY <1>0, <2>1, PostMoves
  <2>3. Fits(p, "answered", 400, posts[p].died)
    BY <2>1 DEF PostOK, Fits
  <2>4. QED
    BY <2>1, <2>2, <2>3
<1>3. CASE Board!CommandSaves(p)
  <2>1. posts[p].pc = "alerted" /\ UNCHANGED message /\ posts' = [posts EXCEPT ![p].pc = "done"]
    BY <1>3 DEF Board!CommandSaves
  <2>2. Moved(p, "done", posts[p].code, posts[p].died)
    BY <1>0, <2>1, PostMoves
  <2>3. Fits(p, "done", posts[p].code, posts[p].died)
    BY <2>1 DEF PostOK, Fits
  <2>4. QED
    BY <2>1, <2>2, <2>3
<1>4. CASE Board!CommandEnds(p)
  <2>1. posts[p].pc = "done" /\ UNCHANGED message /\ posts' = [posts EXCEPT ![p].pc = "answered", ![p].code = 200]
    BY <1>4 DEF Board!CommandEnds, Board!Answer
  <2>2. Moved(p, "answered", 200, posts[p].died)
    BY <1>0, <2>1, PostMoves
  <2>3. Fits(p, "answered", 200, posts[p].died)
    BY <2>1 DEF PostOK, Fits
  <2>4. QED
    BY <2>1, <2>2, <2>3
<1>5. ASSUME NEW code \in Code, code # 200, Board!CommandStops(p, code)
      PROVE  UNCHANGED message /\ \E died : Moved(p, "answered", code, died) /\ Fits(p, "answered", code, died)
  <2>1. posts[p].pc \in {"running", "alerted", "done"} /\ UNCHANGED message
    BY <1>5 DEF Board!CommandStops
  <2>2. posts' = [posts EXCEPT ![p].pc = "answered", ![p].code = code, ![p].died = TRUE]
    BY <1>5 DEF Board!CommandStops
  <2>3. posts[p].pc # "read" /\ "answered" \in Stage
    BY <1>0, <2>1
  <2>4. Moved(p, "answered", code, TRUE)
    BY <1>5, <2>2, <2>3, PostMoves
  <2>5. By(p) = {} \/ One(p)
    BY <2>1 DEF PostOK
  <2>6. Fits(p, "answered", code, TRUE)
    BY <1>5, <2>5 DEF Fits
  <2>7. QED
    BY <2>1, <2>4, <2>6
<1>6. CASE Board!CommandDies(p) \/ Board!CommandKilled(p)
  <2>1. \E code \in Code : code # 200 /\ Board!CommandStops(p, code)
    BY <1>0, <1>6 DEF Board!CommandDies, Board!CommandKilled
  <2>2. QED
    BY <1>5, <2>1
<1>7. QED
  BY <1>1, <1>2, <1>3, <1>4, <1>6 DEF TradeStep

\* do_POST and its command up to the answer, and the reading of it.
LEMMA PostsKeepTrade ==
  ASSUME TradeOK, NEW p \in DOMAIN posts, TradeStep(p)
  PROVE  TradeOK'
<1>1. posts \in Seq(Post) /\ UNCHANGED <<alerts, form>>
  BY TradeStepIs DEF TradeOK
<1>2. p \in 1 .. Len(posts) /\ PostOK(p) /\ posts[p] \in Post
  <2>1. p \in 1 .. Len(posts)
    BY <1>1
  <2>2. QED
    BY <1>1, <2>1, ElementOfSeq DEF TradeOK
<1>0. posts[p].code \in Code /\ "read" \in Stage
  BY <1>2 DEF Post, Stage
<1>3. CASE ~Board!ReadAnswer(p)
  <2>1. PICK pc, code, died : UNCHANGED message /\ Moved(p, pc, code, died) /\ Fits(p, pc, code, died)
    BY <1>1, <1>2, <1>3, TradeMoves
  <2>2. PostOK(p)'
    <3>1. posts'[p].pc = pc /\ posts'[p].code = code /\ posts'[p].died = died /\ posts'[p].symbol = posts[p].symbol
      BY <2>1 DEF Moved
    <3>2. \A i \in By(p) : alerts[i].symbol = posts[p].symbol /\ alerts[i].type \in Recorded
      BY <1>2 DEF PostOK
    <3>3. QED
      BY <1>1, <2>1, <3>1, <3>2 DEF PostOK, Fits, One, By
  <2>3. QED
    BY <1>1, <1>2, <2>1, <2>2, MessageStays, MovesKeepTrade
<1>4. CASE Board!ReadAnswer(p)
  <2>1. /\ posts[p].pc = "answered" /\ posts' = [posts EXCEPT ![p].pc = "read"]
        /\ message' = [says |-> IF posts[p].code = 200 THEN "recorded" ELSE "refused", form |-> form.n, post |-> p,
                        recorded |-> message.recorded \cup (IF posts[p].code = 200 THEN {p} ELSE {})]
    BY <1>4 DEF Board!ReadAnswer
  <2>2. Moved(p, "read", posts[p].code, posts[p].died)
    <3>1. posts[p].pc # "read" /\ posts[p].code \in Code /\ "read" \in Stage
      BY <1>0, <2>1
    <3>2. QED
      BY <1>1, <2>1, <3>1, PostMoves
  <2>3. PostOK(p)'
    <3>1. PICK c : c = posts[p].code
      OBVIOUS
    <3>2. posts'[p].pc = "read" /\ posts'[p].code = c /\ posts'[p].died = posts[p].died /\ posts'[p].symbol = posts[p].symbol
      BY <2>2, <3>1 DEF Moved
    <3>3. /\ c = 200 => One(p)
          /\ c # 200 => By(p) = {} \/ (posts[p].died /\ One(p))
          /\ \A i \in By(p) : alerts[i].symbol = posts[p].symbol /\ alerts[i].type \in Recorded
      BY <1>2, <2>1, <3>1 DEF PostOK
    <3>4. QED
      BY <1>1, <3>2, <3>3 DEF PostOK, One, By
  <2>4. MessageOK'
    <3>1. PICK v : v = message'
      OBVIOUS
    <3>2. PICK w : w = posts'
      OBVIOUS
    <3>3. /\ v = [says |-> v.says, form |-> v.form, post |-> v.post, recorded |-> v.recorded]
          /\ v.post = p /\ (v.says = "recorded" <=> posts[p].code = 200)
          /\ \A q \in v.recorded : q \in message.recorded \/ (q = p /\ posts[p].code = 200)
      BY <2>1, <3>1
    <3>4. Len(w) = Len(posts) /\ w[p].pc = "read" /\ w[p].code = posts[p].code /\ \A q \in 1 .. Len(posts) : q # p => w[q] = posts[q]
      BY <2>2, <3>2 DEF Moved
    <3>5. \A q \in message.recorded : q \in 1 .. Len(posts) /\ posts[q].pc = "read" /\ posts[q].code = 200
      BY DEF TradeOK, MessageOK
    <3>6. QED
      BY <1>2, <3>1, <3>2, <3>3, <3>4, <3>5 DEF MessageOK
  <2>5. QED
    BY <1>1, <1>2, <2>2, <2>3, <2>4, MovesKeepTrade
<1>5. QED
  BY <1>3, <1>4

\* What is appended by others leaves a POST where it is.
LEMMA OthersLines ==
  ASSUME Longer, NEW q, PostOK(q), posts'[q] = posts[q], \A i \in Len(alerts) + 1 .. Len(alerts') : alerts'[i].by # q
  PROVE  PostOK(q)'
<1>1. PICK t : t = alerts'
  OBVIOUS
<1>2. PICK m, n : m = Len(alerts) /\ n = Len(t)
  OBVIOUS
<1>3. /\ m \in Nat /\ n \in Nat /\ m <= n /\ (\A i \in 1 .. m : t[i] = alerts[i])
      /\ \A i \in m + 1 .. n : t[i].by # q
  BY <1>1, <1>2 DEF Longer
<1>4. \A i \in 1 .. n : i \in 1 .. m \/ i \in m + 1 .. n
  BY <1>3
<1>5. \A i \in 1 .. m : i \in 1 .. n
  BY <1>3
<1>6. PICK B : B = {i \in 1 .. n : t[i].by = q}
  OBVIOUS
<1>7. B = By(q)
  BY <1>2, <1>3, <1>4, <1>5, <1>6 DEF By
<1>8. By(q)' = B
  BY <1>1, <1>2, <1>6 DEF By
<1>9. \A i \in B : t[i].symbol = posts[q].symbol /\ t[i].type \in Recorded
  BY <1>2, <1>3, <1>7 DEF PostOK, By
<1>10. (\E i \in 1 .. m : B = {i}) => \E i \in 1 .. n : B = {i}
  BY <1>5
<1>11. One(q) => One(q)'
  BY <1>1, <1>2, <1>7, <1>8, <1>10 DEF One
<1>12. QED
  BY <1>1, <1>2, <1>7, <1>8, <1>9, <1>11 DEF PostOK

LEMMA CommandKeepsTrade ==
  ASSUME Board!BoardAssumption, TimesOK, TradeOK, Longer, NEW p \in DOMAIN posts, Board!Command(p)
  PROVE  TradeOK'
<1>1. posts \in Seq(Post) /\ UNCHANGED <<form, message>> /\ posts[p].pc = "running"
  BY CommandIs DEF TradeOK
<1>2. p \in 1 .. Len(posts) /\ PostOK(p)
  <2>1. p \in 1 .. Len(posts)
    BY <1>1
  <2>2. QED
    BY <2>1 DEF TradeOK
<1>0. By(p) = {}
  BY <1>1, <1>2 DEF PostOK
<1>3. ASSUME NEW t \in Recorded, alerts' = Append(alerts, [type |-> t, symbol |-> posts[p].symbol, ts |-> clock, by |-> p]), posts' = [posts EXCEPT ![p].pc = "alerted"]
      PROVE  TradeOK'
  <2>1. Moved(p, "alerted", posts[p].code, posts[p].died)
    <3>1. "alerted" \in Stage /\ Null \in Code
      BY DEF Stage, Code
    <3>2. QED
      BY <1>1, <1>3, <3>1, PostMoves
  <2>2. PICK f : f = [type |-> t, symbol |-> posts[p].symbol, ts |-> clock, by |-> p]
    OBVIOUS
  <2>3. PICK s, u, m : s = alerts /\ u = alerts' /\ m = Len(s)
    OBVIOUS
  <2>4. s \in Seq(Board!Fact) /\ u \in Seq(Board!Fact) /\ u = Append(s, f)
    BY <1>3, <2>2, <2>3 DEF TimesOK, Longer
  <2>5. m \in Nat /\ Len(u) = m + 1 /\ (\A i \in 1 .. m : u[i] = s[i]) /\ u[m + 1] = f
    BY <2>3, <2>4
  <2>6. \A i \in 1 .. m + 1 : i \in 1 .. m \/ i = m + 1
    BY <2>5
  <2>7. f.by = p /\ f.symbol = posts[p].symbol /\ f.type \in Recorded
    BY <2>2
  <2>8. \A i \in m + 1 .. Len(u) : u[i].by = p
    BY <2>5, <2>7
  <2>9. PostOK(p)'
    <3>1. \A i \in 1 .. m : s[i].by # p
      BY <1>0, <2>3 DEF By
    <3>2. By(p)' = {m + 1}
      <4>1. By(p)' = {i \in 1 .. Len(u) : u[i].by = p}
        BY <2>3 DEF By
      <4>2. m + 1 \in 1 .. m + 1 /\ u[m + 1].by = p /\ \A i \in 1 .. m : u[i].by # p
        BY <2>5, <2>7, <3>1
      <4>3. QED
        BY <2>5, <2>6, <4>1, <4>2
    <3>3. m + 1 \in 1 .. Len(u)
      BY <2>5
    <3>4. posts'[p].pc = "alerted" /\ posts'[p].symbol = posts[p].symbol
      BY <2>1 DEF Moved
    <3>5. QED
      BY <2>3, <2>5, <2>7, <3>2, <3>3, <3>4 DEF PostOK, One
  <2>10. ASSUME NEW q \in 1 .. Len(posts), q # p
         PROVE  PostOK(q)'
    <3>1. PostOK(q) /\ posts'[q] = posts[q]
      BY <2>1, <2>10 DEF TradeOK, Moved
    <3>2. \A i \in Len(alerts) + 1 .. Len(alerts') : alerts'[i].by # q
      BY <2>3, <2>8, <2>10
    <3>3. QED
      BY <3>1, <3>2, OthersLines
  <2>11. \A i \in 1 .. Len(alerts') : alerts'[i].by \in 0 .. Len(posts)
    <3>1. \A i \in 1 .. m : s[i].by \in 0 .. Len(posts)
      BY <2>3 DEF TradeOK
    <3>2. p \in 0 .. Len(posts)
      BY <1>1, <1>2
    <3>3. QED
      BY <2>3, <2>5, <2>6, <2>7, <3>1, <3>2
  <2>12. MessageOK' /\ FormOK'
    <3>1. MessageOK'
      BY <1>1, <1>2, <2>1, MessageStays
    <3>2. QED
      BY <1>1, <3>1 DEF TradeOK, FormOK
  <2>13. posts' \in Seq(Post) /\ Len(posts') = Len(posts)
    BY <2>1 DEF Moved
  <2>14. QED
    BY <2>9, <2>10, <2>11, <2>12, <2>13 DEF TradeOK
<1>4. QED
  BY <1>3, CommandIs

LEMMA OnlyTrade ==
  ASSUME [Board!Next]_(Board!vars)
  PROVE  \/ Board!BeginCycle \/ Board!OpenTrade \/ Board!SubmitTrade
         \/ \E p \in DOMAIN posts : Board!Command(p) \/ TradeStep(p)
         \/ UNCHANGED <<alerts, posts, form, message>>
  BY DEF TradeStep, Board!Next, Board!vars, Board!trade, Board!SaveCycle, Board!EndCycle, Board!CycleFails, Board!RecordBrief, Board!Tick, Board!Bell,
     Board!AskNow, Board!ReadState, Board!ReadSoak, Board!ReadAlerts, Board!ShowNow, Board!FallBack,
     Board!Rebuild, Board!HandOff, Board!Validate, Board!Proven, Board!LiveScan, Board!Audit, Board!RenderPool, Board!RenderQuality

LEMMA TradeStays ==
  ASSUME Board!BoardAssumption, TimesOK, TradeOK, [Board!Next]_(Board!vars)
  PROVE  TradeOK'
<1>1. Longer
  BY LogGrows
<1>2. CASE Board!BeginCycle
  <2>1. UNCHANGED <<posts, form, message>>
    BY <1>2 DEF Board!BeginCycle, Board!trade
  <2>2. PICK q \in Seq(Board!Fact) : alerts' = alerts \o q /\ \A i \in 1 .. Len(q) : q[i].ts = clock /\ q[i].by = 0
    BY <1>2, CycleAnnounces
  <2>3. alerts \in Seq(Board!Fact)
    BY DEF TimesOK
  <2>4. \A i \in Len(alerts) + 1 .. Len(alerts') : alerts'[i].by = 0
    BY <2>2, <2>3, AppendedIs
  <2>5. \A p \in 1 .. Len(posts) : PostOK(p)'
    <3>1. TAKE p \in 1 .. Len(posts)
    <3>2. p # 0 /\ PostOK(p)
      BY DEF TradeOK
    <3>3. \A i \in Len(alerts) + 1 .. Len(alerts') : alerts'[i].by # p
      BY <2>4, <3>2
    <3>4. QED
      BY <1>1, <2>1, <3>2, <3>3, OthersLines
  <2>6. \A i \in 1 .. Len(alerts') : alerts'[i].by \in 0 .. Len(posts)
    <3>1. PICK t : t = alerts'
      OBVIOUS
    <3>2. PICK m, n, k : m = Len(alerts) /\ n = Len(t) /\ k = Len(posts)
      OBVIOUS
    <3>3. m \in Nat /\ n \in Nat /\ m <= n /\ k \in Nat /\ \A i \in 1 .. m : t[i] = alerts[i]
      BY <1>1, <3>1, <3>2, LenProperties DEF Longer, TradeOK
    <3>4. \A i \in 1 .. n : i \in 1 .. m \/ i \in m + 1 .. n
      BY <3>3
    <3>5. (\A i \in 1 .. m : t[i].by \in 0 .. k) /\ (\A i \in m + 1 .. n : t[i].by = 0) /\ 0 \in 0 .. k
      BY <2>4, <3>1, <3>2, <3>3 DEF TradeOK
    <3>6. QED
      BY <3>1, <3>2, <3>4, <3>5
  <2>7. FormOK' /\ MessageOK'
    BY <2>1 DEF TradeOK, FormOK, MessageOK
  <2>8. QED
    BY <2>1, <2>5, <2>6, <2>7 DEF TradeOK
<1>3. CASE Board!OpenTrade
  <2>1. UNCHANGED <<alerts, posts>>
    BY <1>3 DEF Board!OpenTrade
  <2>2. ASSUME NEW p \in 1 .. Len(posts) PROVE PostOK(p)'
    <3>1. PostOK(p)
      BY DEF TradeOK
    <3>2. By(p)' = By(p)
      BY <2>1 DEF By
    <3>3. QED
      BY <2>1, <3>1, <3>2 DEF PostOK, One
  <2>3. FormOK'
    <3>1. PICK kind \in Ask, s \in Symbol, missing \in {Null, "price", "shares"} :
            form' = [n |-> form.n + 1, kind |-> kind, symbol |-> s, missing |-> missing]
      BY <1>3 DEF Board!OpenTrade, Ask
    <3>2. form.n + 1 \in Nat
      BY DEF TradeOK, FormOK
    <3>3. QED
      BY <3>1, <3>2 DEF FormOK
  <2>4. MessageOK'
    <3>1. PICK v, w : v = message /\ w = message'
      OBVIOUS
    <3>2. w = [v EXCEPT !.says = "", !.post = Null] /\ v = [says |-> v.says, form |-> v.form, post |-> v.post, recorded |-> v.recorded]
      BY <1>3, <3>1 DEF Board!OpenTrade, TradeOK, MessageOK
    <3>3. w = [says |-> "", form |-> v.form, post |-> Null, recorded |-> v.recorded]
      BY <3>2
    <3>4. w.says = "" /\ w.recorded = v.recorded /\ w = [says |-> w.says, form |-> w.form, post |-> w.post, recorded |-> w.recorded]
      BY <3>3
    <3>5. QED
      BY <2>1, <3>1, <3>4 DEF TradeOK, MessageOK
  <2>5. QED
    BY <2>1, <2>2, <2>3, <2>4 DEF TradeOK
<1>4. CASE Board!SubmitTrade
  <2>1. UNCHANGED <<alerts, form>>
    BY <1>4 DEF Board!SubmitTrade
  <2>2. PICK e : e = [pc |-> "sent", code |-> Null, died |-> FALSE, n |-> form.n, kind |-> form.kind, symbol |-> form.symbol, missing |-> form.missing]
    OBVIOUS
  <2>3. e \in Post /\ e.pc = "sent"
    <3>1. form.n \in Nat /\ form.kind \in Ask /\ form.symbol \in Symbol /\ form.missing \in {Null, "price", "shares"}
      BY <1>4 DEF Board!SubmitTrade, TradeOK, FormOK
    <3>2. "sent" \in Stage /\ Null \in Code
      BY DEF Stage, Code
    <3>3. QED
      BY <2>2, <3>1, <3>2 DEF Post
  <2>4. PICK s, u, m : s = posts /\ u = posts' /\ m = Len(s)
    OBVIOUS
  <2>5. s \in Seq(Post) /\ u = Append(s, e)
    BY <1>4, <2>2, <2>4 DEF TradeOK, Board!SubmitTrade
  <2>6. u \in Seq(Post) /\ m \in Nat /\ Len(u) = m + 1 /\ (\A i \in 1 .. m : u[i] = s[i]) /\ u[m + 1] = e
    BY <2>3, <2>4, <2>5
  <2>7. \A i \in 1 .. m + 1 : i \in 1 .. m \/ i = m + 1
    BY <2>6
  <2>8. \A i \in 1 .. Len(alerts) : alerts[i].by \in 0 .. m
    BY <2>4 DEF TradeOK
  <2>9. By(m + 1) = {}
    <3>1. \A i \in 1 .. Len(alerts) : alerts[i].by # m + 1
      BY <2>6, <2>8
    <3>2. QED
      BY <3>1 DEF By
  <2>10. \A p \in 1 .. m + 1 : PostOK(p)'
    <3>1. ASSUME NEW p \in 1 .. m PROVE PostOK(p)'
      <4>1. PostOK(p) /\ posts'[p] = posts[p]
        BY <2>4, <2>6 DEF TradeOK
      <4>2. QED
        BY <2>1, <4>1 DEF PostOK, One, By
    <3>2. PostOK(m + 1)'
      BY <2>1, <2>3, <2>4, <2>6, <2>9 DEF PostOK, One, By
    <3>3. QED
      BY <2>7, <3>1, <3>2
  <2>11. MessageOK'
    <3>1. PICK v, w : v = message /\ w = message'
      OBVIOUS
    <3>2. w = [v EXCEPT !.says = "recording", !.post = Null] /\ v = [says |-> v.says, form |-> v.form, post |-> v.post, recorded |-> v.recorded]
      BY <1>4, <3>1 DEF Board!SubmitTrade, TradeOK, MessageOK
    <3>3. w = [says |-> "recording", form |-> v.form, post |-> Null, recorded |-> v.recorded]
      BY <3>2
    <3>4. w.says = "recording" /\ w.recorded = v.recorded /\ w = [says |-> w.says, form |-> w.form, post |-> w.post, recorded |-> w.recorded]
      BY <3>3
    <3>5. \A p \in v.recorded : p \in 1 .. m + 1 /\ u[p].pc = "read" /\ u[p].code = 200
      <4>1. \A p \in v.recorded : p \in 1 .. m /\ s[p].pc = "read" /\ s[p].code = 200
        BY <2>4, <3>1 DEF TradeOK, MessageOK
      <4>2. QED
        BY <2>6, <4>1
    <3>6. QED
      BY <2>4, <2>6, <3>1, <3>4, <3>5 DEF MessageOK
  <2>12. \A i \in 1 .. Len(alerts) : alerts[i].by \in 0 .. m + 1
    BY <2>6, <2>8
  <2>13. FormOK'
    BY <2>1 DEF TradeOK, FormOK
  <2>14. QED
    BY <2>1, <2>4, <2>6, <2>10, <2>11, <2>12, <2>13 DEF TradeOK
<1>5. CASE \E p \in DOMAIN posts : Board!Command(p) \/ TradeStep(p)
  BY <1>1, <1>5, CommandKeepsTrade, PostsKeepTrade
<1>6. CASE UNCHANGED <<alerts, posts, form, message>>
  BY <1>6 DEF TradeOK, FormOK, MessageOK, PostOK, One, By
<1>7. QED
  BY <1>2, <1>3, <1>4, <1>5, <1>6, OnlyTrade

\* What a request has read still holds after a step of another.
LEMMA ReadStays ==
  ASSUME Board!BoardAssumption, Longer, Onward, TimesOK, NEW n, n.pc # "idle", ReadOK(n)
  PROVE  ReadOK(n)'
<1>1. PICK t, c : t = alerts' /\ c = cycle'
  OBVIOUS
<1>2. PICK k, m : k = Len(alerts) /\ m = Len(t)
  OBVIOUS
<1>3. /\ k \in Nat /\ m \in Nat /\ k <= m /\ (\A i \in 1 .. k : t[i] = alerts[i])
      /\ \A i \in k + 1 .. m : t[i].ts = clock /\ (t[i].type \in Announced => cycle.at < clock)
      /\ clock \in Nat /\ cycle.at \in Nat /\ c.at \in Nat /\ cycle.at <= c.at
  BY <1>1, <1>2 DEF Longer, Onward, TimesOK
<1>4. \A i \in 1 .. m : i \in 1 .. k \/ i \in k + 1 .. m
  BY <1>3
<1>5. \A i \in 1 .. k : i \in 1 .. m
  BY <1>3
<1>6. \A s : IsRecorded(s) => IsRecorded(s)'
  BY <1>1, <1>2, <1>3, <1>5 DEF IsRecorded
<1>7. OfCycle(n.state) => OfCycle(n.state)'
  BY <1>1, <1>3 DEF OfCycle
<1>8. OfCycle(n.state) /\ Covers(n.alerts, n.state) => Covers(n.alerts, n.state)'
  <2>1. HAVE OfCycle(n.state) /\ Covers(n.alerts, n.state)
  <2>2. ASSUME NEW j \in 1 .. m, t[j].type \in Announced, t[j].ts <= n.state.as_of
        PROVE  j \in 1 .. k
    BY <1>3, <1>4, <2>1, <2>2 DEF OfCycle
  <2>3. \A j \in 1 .. m : t[j].type \in Announced /\ t[j].ts <= n.state.as_of =>
          \/ \E i \in 1 .. Len(n.alerts) : n.alerts[i] = t[j]
          \/ \A i \in 1 .. Len(n.alerts) : t[j].ts <= n.alerts[i].ts
    BY <1>2, <1>3, <2>1, <2>2 DEF Covers
  <2>4. QED
    BY <1>1, <1>2, <2>3 DEF Covers
<1>9. AlertTail \in Nat
  BY BoardFacts
<1>10. m <= AlertTail => k <= AlertTail
  BY <1>3, <1>9
<1>11. QED
  BY <1>1, <1>2, <1>6, <1>7, <1>8, <1>10 DEF ReadOK

\* The tail of the log: its last lines, all of them if it is short.
LEMMA EndOfLog ==
  ASSUME Board!BoardAssumption, alerts \in Seq(Board!Fact)
  PROVE  \E k \in 1 .. Len(alerts) + 1 :
           /\ Board!TailOf(alerts) \in Seq(Board!Fact) /\ Len(Board!TailOf(alerts)) = Len(alerts) + 1 - k
           /\ \A i \in 1 .. Len(alerts) + 1 - k : k + i - 1 \in 1 .. Len(alerts) /\ Board!TailOf(alerts)[i] = alerts[k + i - 1]
           /\ Len(alerts) <= AlertTail => k = 1
<1>1. PICK n : n = Len(alerts)
  OBVIOUS
<1>2. PICK k : k = IF n > AlertTail THEN n - AlertTail + 1 ELSE 1
  OBVIOUS
<1>3. n \in Nat /\ AlertTail \in Nat
  BY <1>1, BoardFacts, LenProperties
<1>4. k \in Int /\ 1 <= k /\ k <= n + 1 /\ (n <= AlertTail => k = 1)
  BY <1>2, <1>3
<1>5. \A i \in k .. n : alerts[i] \in Board!Fact
  <2>1. \A i \in 1 .. n : alerts[i] \in Board!Fact
    BY <1>1, ElementOfSeq
  <2>2. \A i \in k .. n : i \in 1 .. n
    BY <1>3, <1>4
  <2>3. QED
    BY <2>1, <2>2
<1>6. PICK T : T = SubSeq(alerts, k, n)
  OBVIOUS
<1>7. T \in Seq(Board!Fact) /\ Len(T) = (IF k <= n THEN n - k + 1 ELSE 0) /\ \A i \in 1 .. n - k + 1 : T[i] = alerts[k + i - 1]
  BY <1>3, <1>4, <1>5, <1>6, SubSeqProperties
<1>8. Board!TailOf(alerts) = T
  BY <1>1, <1>2, <1>6 DEF Board!TailOf
<1>9. Len(T) = n + 1 - k /\ k \in 1 .. n + 1 /\ \A i \in 1 .. n + 1 - k : k + i - 1 \in 1 .. n /\ T[i] = alerts[k + i - 1]
  BY <1>3, <1>4, <1>7
<1>10. QED
  BY <1>1, <1>4, <1>7, <1>8, <1>9

\* What do_GET has read when it goes on to the briefs.
LEMMA AlertsRead ==
  ASSUME Board!BoardAssumption, TimesOK, NEW n, n.pc = "alerts", ReadOK(n), NEW T, T = Board!TailOf(alerts),
         NEW v, v = [pc |-> "briefs", at |-> n.at, live |-> n.live, knew |-> n.knew, state |-> n.state, soak |-> n.soak, alerts |-> T]
  PROVE  ReadOK(v)
<1>1. PICK m : m = Len(alerts)
  OBVIOUS
<1>2. alerts \in Seq(Board!Fact)
  BY DEF TimesOK
<1>3. PICK k \in 1 .. m + 1 :
        /\ T \in Seq(Board!Fact) /\ Len(T) = m + 1 - k
        /\ \A i \in 1 .. m + 1 - k : k + i - 1 \in 1 .. m /\ T[i] = alerts[k + i - 1]
        /\ m <= AlertTail => k = 1
  BY <1>1, <1>2, EndOfLog
<1>4. m \in Nat
  BY <1>1, <1>2, LenProperties
<1>5. \A i, j \in 1 .. m : i < j => alerts[i].ts <= alerts[j].ts
  BY <1>1 DEF TimesOK
<1>6. \A i \in 1 .. m : alerts[i].ts \in Nat
  <2>1. \A i \in 1 .. m : alerts[i] \in Board!Fact
    BY <1>1, <1>2, ElementOfSeq
  <2>2. QED
    BY <2>1 DEF Board!Fact
<1>7. \A i, j \in 1 .. Len(T) : i < j => T[i].ts <= T[j].ts
  <2>1. TAKE i, j \in 1 .. Len(T)
  <2>2. HAVE i < j
  <2>3. PICK x, y : x = k + i - 1 /\ y = k + j - 1
    OBVIOUS
  <2>4. x \in 1 .. m /\ y \in 1 .. m /\ x < y /\ T[i] = alerts[x] /\ T[j] = alerts[y]
    BY <1>3, <1>4, <2>2, <2>3
  <2>5. QED
    BY <1>5, <2>4
<1>8. ASSUME NEW j \in 1 .. m
      PROVE  \/ \E i \in 1 .. Len(T) : T[i] = alerts[j]
             \/ \A i \in 1 .. Len(T) : alerts[j].ts <= T[i].ts
  <2>1. CASE j >= k
    <3>1. PICK i : i = j - k + 1
      OBVIOUS
    <3>2. i \in 1 .. Len(T) /\ k + i - 1 = j
      BY <1>3, <1>4, <2>1, <3>1
    <3>3. QED
      BY <1>3, <3>2
  <2>2. CASE j < k
    <3>1. \A i \in 1 .. Len(T) : j < k + i - 1 /\ k + i - 1 \in 1 .. m /\ T[i] = alerts[k + i - 1]
      BY <1>3, <1>4, <2>2
    <3>2. QED
      BY <1>5, <3>1
  <2>3. QED
    BY <1>3, <1>4, <2>1, <2>2
<1>9. m <= AlertTail => \A s \in n.knew : \E i \in 1 .. Len(T) : T[i].symbol = s /\ T[i].type \in Recorded
  <2>1. HAVE m <= AlertTail
  <2>2. Len(T) = m /\ \A i \in 1 .. m : T[i] = alerts[i]
    BY <1>3, <1>4, <2>1
  <2>3. \A s \in n.knew : IsRecorded(s)
    BY DEF ReadOK
  <2>4. QED
    BY <1>1, <2>2, <2>3 DEF IsRecorded
<1>10. n.at \in Nat /\ n.knew \subseteq Symbol /\ (n.state # Null => OfCycle(n.state))
  BY DEF ReadOK
<1>11. n.state # Null => Covers(T, n.state)
  BY <1>1, <1>8 DEF Covers
<1>12. /\ v.pc = "briefs" /\ v.at = n.at /\ v.knew = n.knew /\ v.state = n.state /\ v.alerts = T
       /\ v = [pc |-> v.pc, at |-> v.at, live |-> v.live, knew |-> v.knew, state |-> v.state, soak |-> v.soak, alerts |-> v.alerts]
  OBVIOUS
<1>13. QED
  BY <1>1, <1>3, <1>7, <1>9, <1>10, <1>11, <1>12 DEF ReadOK

\* One request goes on, the others stay, and no file is written.
Reads(v) == v.pc \in {"idle", "state", "soak", "alerts", "briefs"} /\ (v.pc # "idle" => ReadOK(v))

LEMMA RequestMoves ==
  ASSUME NowOK, NEW r \in Asking, NEW v, Reads(v), now' = [now EXCEPT ![r] = v], cycle' = cycle, alerts' = alerts
  PROVE  NowOK'
<1>1. PICK w : w = now'
  OBVIOUS
<1>2. w = [q \in Asking |-> w[q]] /\ w[r] = v /\ \A q \in Asking : q # r => w[q] = now[q]
  BY <1>1 DEF NowOK
<1>3. \A q \in Asking : w[q].pc \in {"idle", "state", "soak", "alerts", "briefs"} /\ (w[q].pc # "idle" => ReadOK(w[q]))
  BY <1>2 DEF NowOK, Reads
<1>4. ASSUME NEW n, ReadOK(n) PROVE ReadOK(n)'
  BY <1>4 DEF ReadOK, OfCycle, Covers, IsRecorded
<1>5. ASSUME NEW q \in Asking, now'[q].pc # "idle" PROVE ReadOK(now[q])'
  <2>1. PICK n : n = w[q]
    OBVIOUS
  <2>2. n = now'[q] /\ ReadOK(n)
    BY <1>1, <1>3, <1>5, <2>1
  <2>3. ReadOK(n)'
    BY <1>4, <2>2
  <2>4. QED
    BY <2>2, <2>3 DEF ReadOK, OfCycle, Covers, IsRecorded
<1>6. QED
  BY <1>1, <1>2, <1>3, <1>5 DEF NowOK

\* The files in the order in which do_GET reads them.
LEMMA RequestsStay ==
  ASSUME Board!BoardAssumption, TimesOK, StateOK, TradeOK, NowOK, NEW r \in Asking,
         Board!AskNow(r) \/ Board!ReadState(r) \/ Board!ReadSoak(r) \/ Board!ReadAlerts(r) \/ Board!ShowNow(r) \/ Board!FallBack(r)
  PROVE  NowOK'
<1>1. cycle' = cycle /\ alerts' = alerts
  BY DEF Board!AskNow, Board!ReadState, Board!ReadSoak, Board!ReadAlerts, Board!ShowNow, Board!FallBack, Board!desk
<1>2. PICK n : n = now[r]
  OBVIOUS
<1>3. n.pc # "idle" => ReadOK(n)
  BY <1>2 DEF NowOK
<1>4. n.pc # "idle" =>
        /\ n = [pc |-> n.pc, at |-> n.at, live |-> n.live, knew |-> n.knew, state |-> n.state, soak |-> n.soak, alerts |-> n.alerts]
        /\ n.at \in Nat /\ n.knew \subseteq Symbol
  BY <1>3 DEF ReadOK
<1>5. CASE Board!AskNow(r)
  <2>1. PICK v : v = [pc |-> "state", at |-> clock, live |-> trading_hours, knew |-> {posts[p].symbol : p \in message.recorded},
                      state |-> Null, soak |-> <<>>, alerts |-> <<>>]
    OBVIOUS
  <2>2. now' = [now EXCEPT ![r] = v]
    BY <1>5, <2>1 DEF Board!AskNow
  <2>3. ASSUME NEW p \in message.recorded PROVE posts[p].symbol \in Symbol /\ IsRecorded(posts[p].symbol)
    <3>1. p \in 1 .. Len(posts) /\ posts[p].pc = "read" /\ posts[p].code = 200
      BY DEF TradeOK, MessageOK
    <3>2. posts \in Seq(Post) /\ PostOK(p)
      BY <3>1 DEF TradeOK
    <3>3. posts[p] \in Post
      BY <3>1, <3>2, ElementOfSeq
    <3>4. PICK i \in 1 .. Len(alerts) : By(p) = {i}
      BY <3>1, <3>2 DEF PostOK, One
    <3>5. alerts[i].symbol = posts[p].symbol /\ alerts[i].type \in Recorded
      BY <3>2, <3>4 DEF PostOK
    <3>6. QED
      BY <3>3, <3>4, <3>5 DEF IsRecorded, Post
  <2>4. v.pc = "state" /\ v.at = clock /\ v.knew = {posts[p].symbol : p \in message.recorded}
        /\ v = [pc |-> v.pc, at |-> v.at, live |-> v.live, knew |-> v.knew, state |-> v.state, soak |-> v.soak, alerts |-> v.alerts]
    BY <2>1
  <2>5. ReadOK(v)
    <3>1. v.knew \subseteq Symbol /\ \A s \in v.knew : IsRecorded(s)
      BY <2>3, <2>4
    <3>2. clock \in Nat
      BY DEF TimesOK
    <3>3. QED
      BY <2>4, <3>1, <3>2 DEF ReadOK
  <2>6. QED
    <3>1. Reads(v)
      BY <2>2, <2>4, <2>5 DEF Reads
    <3>2. QED
      BY <1>1, <2>2, <2>4, <2>5, <3>1, RequestMoves, Zenon
<1>6. CASE Board!ReadState(r)
  <2>1. PICK seen : seen = IF state = Broken THEN Null ELSE state
    OBVIOUS
  <2>2. n.pc = "state" /\ now' = [now EXCEPT ![r].state = seen, ![r].pc = "soak"]
    BY <1>2, <1>6, <2>1 DEF Board!ReadState
  <2>3. PICK v : v = [pc |-> "soak", at |-> n.at, live |-> n.live, knew |-> n.knew, state |-> seen, soak |-> n.soak, alerts |-> n.alerts]
    OBVIOUS
  <2>4. now' = [now EXCEPT ![r] = v]
    <3>1. v = [n EXCEPT !.state = seen, !.pc = "soak"]
      <4>1. n = [pc |-> n.pc, at |-> n.at, live |-> n.live, knew |-> n.knew, state |-> n.state, soak |-> n.soak, alerts |-> n.alerts]
        BY <1>4, <2>2
      <4>2. PICK u : u = [n EXCEPT !.state = seen, !.pc = "soak"]
        OBVIOUS
      <4>3. u = [pc |-> "soak", at |-> n.at, live |-> n.live, knew |-> n.knew, state |-> seen, soak |-> n.soak, alerts |-> n.alerts]
        BY <4>1, <4>2
      <4>4. QED
        BY <2>3, <4>2, <4>3
    <3>2. now = [q \in Asking |-> now[q]]
      BY DEF NowOK
    <3>3. QED
      BY <1>2, <2>2, <2>3, <3>1, <3>2
  <2>5. seen # Null => OfCycle(seen)
    BY <2>1 DEF StateOK
  <2>6. v.pc = "soak" /\ v.at = n.at /\ v.knew = n.knew /\ v.state = seen
        /\ v = [pc |-> v.pc, at |-> v.at, live |-> v.live, knew |-> v.knew, state |-> v.state, soak |-> v.soak, alerts |-> v.alerts]
    BY <2>3
  <2>7. ReadOK(v)
    BY <1>3, <1>4, <2>2, <2>5, <2>6 DEF ReadOK
  <2>8. QED
    <3>1. Reads(v)
      BY <2>4, <2>6, <2>7 DEF Reads
    <3>2. QED
      BY <1>1, <2>4, <2>6, <2>7, <3>1, RequestMoves, Zenon
<1>7. CASE Board!ReadSoak(r)
  <2>1. n.pc = "soak" /\ now' = [now EXCEPT ![r].soak = soak, ![r].pc = "alerts"]
    BY <1>2, <1>7 DEF Board!ReadSoak
  <2>2. PICK v : v = [pc |-> "alerts", at |-> n.at, live |-> n.live, knew |-> n.knew, state |-> n.state, soak |-> soak, alerts |-> n.alerts]
    OBVIOUS
  <2>3. now' = [now EXCEPT ![r] = v]
    <3>1. v = [n EXCEPT !.soak = soak, !.pc = "alerts"]
      <4>1. n = [pc |-> n.pc, at |-> n.at, live |-> n.live, knew |-> n.knew, state |-> n.state, soak |-> n.soak, alerts |-> n.alerts]
        BY <1>4, <2>1
      <4>2. PICK u : u = [n EXCEPT !.soak = soak, !.pc = "alerts"]
        OBVIOUS
      <4>3. u = [pc |-> "alerts", at |-> n.at, live |-> n.live, knew |-> n.knew, state |-> n.state, soak |-> soak, alerts |-> n.alerts]
        BY <4>1, <4>2
      <4>4. QED
        BY <2>2, <4>2, <4>3
    <3>2. now = [q \in Asking |-> now[q]]
      BY DEF NowOK
    <3>3. QED
      BY <1>2, <2>1, <2>2, <3>1, <3>2
  <2>4. v.pc = "alerts" /\ v.at = n.at /\ v.knew = n.knew /\ v.state = n.state
        /\ v = [pc |-> v.pc, at |-> v.at, live |-> v.live, knew |-> v.knew, state |-> v.state, soak |-> v.soak, alerts |-> v.alerts]
    BY <2>2
  <2>5. ReadOK(v)
    BY <1>3, <1>4, <2>1, <2>4 DEF ReadOK
  <2>6. QED
    <3>1. Reads(v)
      BY <2>3, <2>4, <2>5 DEF Reads
    <3>2. QED
      BY <1>1, <2>3, <2>4, <2>5, <3>1, RequestMoves, Zenon
<1>8. CASE Board!ReadAlerts(r)
  <2>1. PICK T : T = Board!TailOf(alerts)
    OBVIOUS
  <2>2. n.pc = "alerts" /\ now' = [now EXCEPT ![r].alerts = T, ![r].pc = "briefs"]
    BY <1>2, <1>8, <2>1 DEF Board!ReadAlerts
  <2>3. PICK v : v = [pc |-> "briefs", at |-> n.at, live |-> n.live, knew |-> n.knew, state |-> n.state, soak |-> n.soak, alerts |-> T]
    OBVIOUS
  <2>4. now' = [now EXCEPT ![r] = v]
    <3>1. v = [n EXCEPT !.alerts = T, !.pc = "briefs"]
      <4>1. n = [pc |-> n.pc, at |-> n.at, live |-> n.live, knew |-> n.knew, state |-> n.state, soak |-> n.soak, alerts |-> n.alerts]
        BY <1>4, <2>2
      <4>2. PICK u : u = [n EXCEPT !.alerts = T, !.pc = "briefs"]
        OBVIOUS
      <4>3. u = [pc |-> "briefs", at |-> n.at, live |-> n.live, knew |-> n.knew, state |-> n.state, soak |-> n.soak, alerts |-> T]
        BY <4>1, <4>2
      <4>4. QED
        BY <2>3, <4>2, <4>3
    <3>2. now = [q \in Asking |-> now[q]]
      BY DEF NowOK
    <3>3. QED
      BY <1>2, <2>2, <2>3, <3>1, <3>2
  <2>5. ReadOK(v) /\ v.pc = "briefs"
    BY <1>3, <2>1, <2>2, <2>3, AlertsRead
  <2>6. QED
    <3>1. Reads(v)
      BY <2>4, <2>5 DEF Reads
    <3>2. QED
      BY <1>1, <2>4, <2>5, <3>1, RequestMoves, Zenon
<1>9. CASE Board!ShowNow(r) \/ Board!FallBack(r)
  <2>1. PICK v : v = [pc |-> "idle"]
    OBVIOUS
  <2>2. now' = [now EXCEPT ![r] = v] /\ v.pc = "idle"
    BY <1>9, <2>1 DEF Board!ShowNow, Board!FallBack, Board!Idle
  <2>3. QED
    <3>1. Reads(v)
      BY <2>2 DEF Reads
    <3>2. QED
      BY <1>1, <2>2, <3>1, RequestMoves, Zenon
<1>10. QED
  BY <1>5, <1>6, <1>7, <1>8, <1>9

LEMMA NowStays ==
  ASSUME Board!BoardAssumption, TimesOK, StateOK, TradeOK, NowOK, [Board!Next]_(Board!vars)
  PROVE  NowOK'
<1>1. CASE UNCHANGED now
  <2>1. Longer /\ Onward
    BY LogGrows
  <2>2. ASSUME NEW r \in Asking, now[r].pc # "idle" PROVE ReadOK(now[r])'
    <3>1. PICK n : n = now[r]
      OBVIOUS
    <3>2. ReadOK(n) /\ n.pc # "idle"
      BY <2>2, <3>1 DEF NowOK
    <3>3. ReadOK(n)'
      BY <2>1, <3>2, ReadStays
    <3>4. n = now'[r]
      BY <1>1, <3>1
    <3>5. QED
      BY <3>3, <3>4 DEF ReadOK, OfCycle, Covers, IsRecorded
  <2>3. QED
    BY <1>1, <2>2 DEF NowOK
<1>2. QED
  BY <1>1, RequestsStay, OnlyRequests

\* The newest line of a key in a log in order (_latest_events).
LEMMA NewestIs ==
  ASSUME Board!BoardAssumption, NEW log \in Seq(Board!Fact), NEW type, NEW symbol,
         \A i, j \in 1 .. Len(log) : i < j => log[i].ts <= log[j].ts
  PROVE  /\ \/ Board!Newest(log, type, symbol) = Null
            \/ /\ Board!Newest(log, type, symbol) # Null /\ Board!Newest(log, type, symbol) \in Board!Fact
               /\ \E i \in 1 .. Len(log) : Board!Newest(log, type, symbol) = log[i]
         /\ \A i \in 1 .. Len(log) : log[i].type = type /\ log[i].symbol = symbol =>
              Board!Newest(log, type, symbol) # Null /\ log[i].ts <= Board!Newest(log, type, symbol).ts
<1>1. PICK N : N = Len(log)
  OBVIOUS
<1>2. N \in Nat /\ DOMAIN log = 1 .. N
  BY <1>1, LenProperties
<1>3. PICK of : of = {i \in 1 .. N : log[i].type = type /\ log[i].symbol = symbol}
  OBVIOUS
<1>4. PICK newest : newest = {i \in of : \A j \in of : log[j].ts < log[i].ts \/ (log[j].ts = log[i].ts /\ j <= i)}
  OBVIOUS
<1>5. \A i \in 1 .. N : log[i] \in Board!Fact /\ log[i].ts \in Nat
  <2>1. \A i \in 1 .. N : log[i] \in Board!Fact
    BY <1>1, ElementOfSeq
  <2>2. QED
    BY <2>1 DEF Board!Fact
<1>6. Board!Newest(log, type, symbol) = IF of = {} THEN Null ELSE log[CHOOSE i \in newest : TRUE]
  BY <1>2, <1>3, <1>4 DEF Board!Newest
<1>7. CASE of = {}
  BY <1>1, <1>3, <1>6, <1>7
<1>8. CASE of # {}
  <2>1. of \in SUBSET (0 .. N)
    BY <1>2, <1>3
  <2>2. PICK k \in of : \A m \in of : m <= k
    BY <1>2, <1>8, <2>1, Latest
  <2>3. \A j \in of : j \in 1 .. N /\ k \in 1 .. N /\ (j < k \/ j = k)
    BY <1>2, <1>3, <2>2
  <2>4. \A j \in of : log[j].ts < log[k].ts \/ (log[j].ts = log[k].ts /\ j <= k)
    BY <1>1, <1>5, <2>2, <2>3
  <2>5. k \in newest
    BY <1>4, <2>2, <2>4
  <2>6. PICK c : c = CHOOSE i \in newest : TRUE
    OBVIOUS
  <2>7. c \in newest
    BY <2>5, <2>6
  <2>8. PICK ev : ev = log[c]
    OBVIOUS
  <2>9. Board!Newest(log, type, symbol) = ev
    BY <1>6, <1>8, <2>6, <2>8
  <2>10. ev \in Board!Fact /\ \A j \in of : log[j].ts <= ev.ts
    BY <1>3, <1>4, <1>5, <2>7, <2>8
  <2>11. ev # Null
    BY <2>10, BoardFacts
  <2>12. c \in 1 .. Len(log)
    BY <1>1, <1>3, <1>4, <2>7
  <2>13. QED
    BY <1>1, <1>3, <2>8, <2>9, <2>10, <2>11, <2>12
<1>9. QED
  BY <1>7, <1>8

\* A judgement is given from the event on (_agent_action).
LEMMA AgentIs ==
  ASSUME TimesOK, NEW s, NEW ts, Board!AgentAction(briefs, s, ts) # Board!Nobody
  PROVE  /\ Board!AgentAction(briefs, s, ts).at \in Nat
         /\ ts # Null /\ Board!AgentAction(briefs, s, ts).at >= ts
<1>1. PICK u : u = briefs
  OBVIOUS
<1>2. PICK A : A = {b \in Board!ToSet(u) : b.symbol = s /\ ts # Null /\ b.at >= ts}
  OBVIOUS
<1>3. Board!AgentAction(u, s, ts) = IF A = {} THEN Board!Nobody ELSE CHOOSE b \in A : \A o \in A : o.at <= b.at
  BY <1>2 DEF Board!AgentAction
<1>4. A # {}
  BY <1>1, <1>3
<1>5. u \in Seq([symbol : Symbol, at : Nat]) /\ (\A i \in 1 .. Len(u) : u[i].at <= clock) /\ clock \in Nat
  BY <1>1 DEF TimesOK
<1>6. \A b \in A : b.at \in 0 .. clock
  <2>1. \A i \in 1 .. Len(u) : u[i] \in [symbol : Symbol, at : Nat]
    BY <1>5, ElementOfSeq
  <2>2. \A b \in A : \E i \in 1 .. Len(u) : b = u[i]
    BY <1>2, <1>5 DEF Board!ToSet
  <2>3. QED
    BY <1>5, <2>1, <2>2
<1>7. PICK S : S = {b.at : b \in A}
  OBVIOUS
<1>8. S \in SUBSET (0 .. clock) /\ S # {}
  BY <1>4, <1>6, <1>7
<1>9. PICK m \in S : \A x \in S : x <= m
  BY <1>5, <1>8, Latest
<1>10. PICK b \in A : b.at = m
  BY <1>7, <1>9
<1>11. \A o \in A : o.at <= b.at
  BY <1>7, <1>9, <1>10
<1>12. PICK c : c = CHOOSE x \in A : \A o \in A : o.at <= x.at
  OBVIOUS
<1>13. c \in A
  BY <1>11, <1>12
<1>14. QED
  BY <1>1, <1>2, <1>3, <1>4, <1>6, <1>12, <1>13

\* What an item of NOW is made of.
LEMMA ItemIs ==
  ASSUME NEW st, NEW log, NEW told, NEW i \in Board!Items(st, log, told)
  PROVE  \E kind, symbol, ev :
           /\ kind \in DOMAIN Board!Material
           /\ ev = Board!Newest(log, Board!Material[kind], symbol) /\ i.kind = kind /\ i.symbol = symbol
           /\ i.agent = IF symbol = Null THEN Board!Nobody ELSE Board!AgentAction(told, symbol, IF ev = Null THEN st.as_of ELSE ev.ts)
           /\ i.human = IF symbol = Null THEN Null ELSE Board!HumanAction(log, symbol)
<1>1. PICK W : W = {<<"READY", s>> : s \in st.ready} \cup {<<"EXIT", s>> : s \in st.exits}
                \cup (IF st.status = "SYSTEM_UNAVAILABLE" THEN {<<"UNAVAILABLE", Null>>} ELSE {})
                \cup (IF st.trust = "FAIL" THEN {<<"UNTRUSTED", Null>>} ELSE {})
  OBVIOUS
<1>2. \A w \in W : \E kind, symbol : kind \in DOMAIN Board!Material /\ w = <<kind, symbol>>
  BY <1>1 DEF Board!Material
<1>3. PICK w \in W :
        i = [kind |-> w[1], symbol |-> w[2],
             ts |-> IF Board!Newest(log, Board!Material[w[1]], w[2]) = Null THEN st.as_of ELSE Board!Newest(log, Board!Material[w[1]], w[2]).ts,
             agent |-> IF w[2] = Null THEN Board!Nobody
                       ELSE Board!AgentAction(told, w[2], IF Board!Newest(log, Board!Material[w[1]], w[2]) = Null THEN st.as_of
                                                          ELSE Board!Newest(log, Board!Material[w[1]], w[2]).ts),
             human |-> IF w[2] = Null THEN Null ELSE Board!HumanAction(log, w[2])]
  BY <1>1 DEF Board!Items
<1>4. PICK kind, symbol : kind \in DOMAIN Board!Material /\ w = <<kind, symbol>>
  BY <1>2
<1>5. PICK ev : ev = Board!Newest(log, Board!Material[kind], symbol)
  OBVIOUS
<1>6. w[1] = kind /\ w[2] = symbol
  BY <1>4
<1>7. i = [kind |-> kind, symbol |-> symbol, ts |-> IF ev = Null THEN st.as_of ELSE ev.ts,
           agent |-> IF symbol = Null THEN Board!Nobody ELSE Board!AgentAction(told, symbol, IF ev = Null THEN st.as_of ELSE ev.ts),
           human |-> IF symbol = Null THEN Null ELSE Board!HumanAction(log, symbol)]
  BY <1>3, <1>5, <1>6
<1>8. QED
  BY <1>4, <1>5, <1>7

LEMMA MaterialIs ==
  ASSUME NEW kind \in DOMAIN Board!Material
  PROVE  Board!Material[kind] \in Announced
  BY DEF Board!Material, Announced

\* What was read last cannot hide an event that what was read first tells of.
LEMMA ItemJudged ==
  ASSUME Board!BoardAssumption, TimesOK, NEW n, ReadOK(n), n.pc = "briefs", n.state # Null,
         NEW i \in Board!Items(n.state, n.alerts, briefs), i.agent # Board!Nobody, NEW j \in 1 .. Len(alerts),
         alerts[j].type = Board!Material[i.kind], alerts[j].symbol = i.symbol, alerts[j].ts <= n.state.as_of
  PROVE  alerts[j].ts <= i.agent.at
<1>1. PICK st, log, a : st = n.state /\ log = n.alerts /\ a = alerts[j]
  OBVIOUS
<1>2. PICK kind, symbol, ev :
           /\ kind \in DOMAIN Board!Material
           /\ ev = Board!Newest(log, Board!Material[kind], symbol) /\ i.kind = kind /\ i.symbol = symbol
           /\ i.agent = IF symbol = Null THEN Board!Nobody ELSE Board!AgentAction(briefs, symbol, IF ev = Null THEN st.as_of ELSE ev.ts)
  BY <1>1, ItemIs
<1>3. PICK ts, b : ts = (IF ev = Null THEN st.as_of ELSE ev.ts) /\ b = i.agent
  OBVIOUS
<1>4. b # Board!Nobody /\ b = Board!AgentAction(briefs, symbol, ts)
  BY <1>2, <1>3
<1>5. b.at \in Nat /\ b.at >= ts
  BY <1>4, AgentIs
<1>6. log \in Seq(Board!Fact) /\ (\A x, y \in 1 .. Len(log) : x < y => log[x].ts <= log[y].ts) /\ OfCycle(st) /\ Covers(log, st)
  BY <1>1 DEF ReadOK
<1>7. /\ ev = Null \/ (ev # Null /\ ev \in Board!Fact /\ \E x \in 1 .. Len(log) : ev = log[x])
      /\ \A x \in 1 .. Len(log) : log[x].type = Board!Material[kind] /\ log[x].symbol = symbol => ev # Null /\ log[x].ts <= ev.ts
  BY <1>2, <1>6, NewestIs
<1>8. a \in Board!Fact /\ a.ts \in Nat /\ a.type = Board!Material[kind] /\ a.symbol = symbol /\ a.ts <= st.as_of /\ a.type \in Announced
  <2>1. alerts \in Seq(Board!Fact)
    BY DEF TimesOK
  <2>2. a \in Board!Fact
    BY <1>1, <2>1, ElementOfSeq
  <2>3. a.type = Board!Material[kind] /\ a.symbol = symbol /\ a.ts <= st.as_of
    BY <1>1, <1>2
  <2>4. QED
    BY <1>2, <2>2, <2>3, MaterialIs DEF Board!Fact
<1>9. \/ \E x \in 1 .. Len(log) : log[x] = a
      \/ \A x \in 1 .. Len(log) : a.ts <= log[x].ts
  BY <1>1, <1>6, <1>8 DEF Covers
<1>10. ev # Null => ev.ts \in Nat /\ \E x \in 1 .. Len(log) : ev = log[x]
  BY <1>7 DEF Board!Fact
<1>11. a.ts <= ts
  BY <1>3, <1>7, <1>8, <1>9, <1>10
<1>12. ts \in Nat
  BY <1>3, <1>6, <1>10 DEF OfCycle
<1>13. QED
  BY <1>1, <1>3, <1>5, <1>8, <1>11, <1>12

\* Whatever a human has recorded about a symbol, there is an action to show.
LEMMA HumanIs ==
  ASSUME Board!BoardAssumption, NEW log \in Seq(Board!Fact), \A i, j \in 1 .. Len(log) : i < j => log[i].ts <= log[j].ts,
         NEW s, NEW k \in 1 .. Len(log), log[k].symbol = s, log[k].type \in Recorded
  PROVE  Board!HumanAction(log, s) # Null
<1>1. \A type \in Recorded : log[k].type = type => Board!Newest(log, type, s) # Null
  BY NewestIs
<1>2. Null \notin Board!Kind
  BY BoardFacts
<1>3. Null \notin Recorded
  BY <1>2 DEF Board!Kind, Recorded
<1>4. \/ Board!Newest(log, "POSITION_OPENED", s) # Null \/ Board!Newest(log, "POSITION_CLOSED", s) # Null
      \/ Board!Newest(log, "HUMAN_SKIP", s) # Null
  BY <1>1 DEF Recorded
<1>5. QED
  BY <1>3, <1>4 DEF Board!HumanAction, Recorded

\* The answer that the page shows (now_snapshot, pollNow).
LEMMA ShownIs ==
  ASSUME Board!BoardAssumption, TimesOK, NowOK, NEW r \in Asking, Board!ShowNow(r)
  PROVE  PanelOK'
<1>1. PICK n : n = now[r]
  OBVIOUS
<1>2. n.pc = "briefs" /\ ReadOK(n)
  <2>1. n.pc = "briefs"
    BY <1>1 DEF Board!ShowNow
  <2>2. QED
    BY <1>1, <2>1 DEF NowOK
<1>3. PICK beat : beat = IF n.state # Null THEN n.state.as_of ELSE IF n.soak = <<>> THEN Null ELSE Board!Last(n.soak).ts
  OBVIOUS
<1>4. PICK S : S = [at |-> n.at, live |-> n.live, as_of |-> IF n.state = Null THEN Null ELSE n.state.as_of,
      status |-> IF n.state = Null THEN Null ELSE n.state.status, runtime |-> Board!Runtime(n.state, beat, n.at, n.live), scan |-> Board!LastScan(n.state, n.soak),
      items |-> IF n.state = Null THEN {} ELSE Board!Items(n.state, n.alerts, briefs)]
  OBVIOUS
<1>5. Board!Snapshot(n.state, n.soak, n.alerts, briefs, n.at, n.live) = S
  BY <1>3, <1>4 DEF Board!Snapshot
<1>6. PICK g : g = page'
  OBVIOUS
<1>7. g = [now |-> S, connected |-> TRUE, knew |-> n.knew]
  BY <1>1, <1>5, <1>6 DEF Board!ShowNow
<1>8. g.now = S /\ g.knew = n.knew
  BY <1>7
<1>9. /\ S.at = n.at /\ S.live = n.live /\ S.as_of = (IF n.state = Null THEN Null ELSE n.state.as_of)
      /\ S.runtime = Board!Runtime(n.state, beat, n.at, n.live)
      /\ S.items = IF n.state = Null THEN {} ELSE Board!Items(n.state, n.alerts, briefs)
  BY <1>4
<1>10. cycle' = cycle /\ alerts' = alerts /\ briefs' = briefs
  BY DEF Board!ShowNow, Board!desk
<1>11. S.items # {} => OfCycle(S)
  <2>1. n.state # Null => OfCycle(n.state)
    BY <1>2 DEF ReadOK
  <2>2. QED
    BY <1>9, <2>1 DEF OfCycle
<1>12. ASSUME NEW i \in S.items
       PROVE  /\ n.state # Null /\ i \in Board!Items(n.state, n.alerts, briefs) /\ i.kind \in DOMAIN Board!Material
              /\ i.human = IF i.symbol = Null THEN Null ELSE Board!HumanAction(n.alerts, i.symbol)
  <2>1. n.state # Null /\ i \in Board!Items(n.state, n.alerts, briefs)
    BY <1>9, <1>12
  <2>2. QED
    BY <2>1, ItemIs
<1>13. ASSUME NEW i \in S.items, i.agent # Board!Nobody, NEW a \in Board!ToSet(alerts), a.type = Board!Material[i.kind], a.symbol = i.symbol, a.ts <= S.as_of
       PROVE  a.ts <= i.agent.at
  <2>1. PICK j \in 1 .. Len(alerts) : a = alerts[j]
    <3>1. PICK u : u = alerts
      OBVIOUS
    <3>2. u \in Seq(Board!Fact)
      BY <3>1 DEF TimesOK
    <3>3. DOMAIN u = 1 .. Len(u)
      BY <3>2, LenProperties
    <3>4. QED
      BY <1>13, <3>1, <3>3 DEF Board!ToSet
  <2>2. S.as_of = n.state.as_of
    BY <1>9, <1>12
  <2>3. QED
    BY <1>2, <1>12, <1>13, <2>1, <2>2, ItemJudged
<1>14. Board!JudgementNotOlder'
  BY <1>6, <1>8, <1>10, <1>13 DEF Board!JudgementNotOlder, Board!Entries
<1>15. Board!HealthyIsRecent'
  <2>1. SUFFICES ASSUME S.runtime = "HEALTHY", S.live PROVE S.as_of # Null /\ S.at - S.as_of <= StaleAfter
    BY <1>6, <1>8 DEF Board!HealthyIsRecent
  <2>2. n.state # Null /\ beat # Null /\ ~ (n.at - beat > StaleAfter)
    BY <1>9, <2>1 DEF Board!Runtime
  <2>3. beat = n.state.as_of
    BY <1>3, <2>2
  <2>4. n.at \in Nat /\ n.state.as_of \in Nat /\ StaleAfter \in Nat
    BY <1>2, <2>2, BoardFacts DEF ReadOK, OfCycle
  <2>5. QED
    BY <1>9, <2>2, <2>3, <2>4
<1>16. Board!ConfirmedIsShown'
  <2>1. SUFFICES ASSUME Len(alerts) <= AlertTail, NEW i \in S.items, i.symbol \in n.knew PROVE i.human # Null
    <3>1. PICK u : u = alerts
      OBVIOUS
    <3>2. u \in Seq(Board!Fact) /\ alerts' = u
      BY <1>10, <3>1 DEF TimesOK
    <3>3. QED
      BY <1>6, <1>8, <3>1, <3>2 DEF Board!ConfirmedIsShown
  <2>2. /\ n.alerts \in Seq(Board!Fact)
        /\ \A x, y \in 1 .. Len(n.alerts) : x < y => n.alerts[x].ts <= n.alerts[y].ts
        /\ n.knew \subseteq Symbol
        /\ \E k \in 1 .. Len(n.alerts) : n.alerts[k].symbol = i.symbol /\ n.alerts[k].type \in Recorded
    BY <1>2, <2>1 DEF ReadOK
  <2>3. i.symbol # Null
    BY <2>1, <2>2, BoardFacts
  <2>4. Board!HumanAction(n.alerts, i.symbol) # Null
    BY <2>2, HumanIs
  <2>5. QED
    BY <1>12, <2>1, <2>3, <2>4
<1>17. (page.now.items # {} => OfCycle(page.now))' /\ (\A i \in page.now.items : i.kind \in DOMAIN Board!Material)'
  BY <1>6, <1>8, <1>10, <1>11, <1>12 DEF OfCycle, Board!Material
<1>18. QED
  BY <1>14, <1>15, <1>16, <1>17 DEF PanelOK

LEMMA PageStays ==
  ASSUME Board!BoardAssumption, TimesOK, StateOK, TradeOK, NowOK, PanelOK, [Board!Next]_(Board!vars)
  PROVE  PanelOK'
<1>1. CASE UNCHANGED page
  <2>1. Longer /\ Onward
    BY LogGrows
  <2>2. PICK u, t, k, m : u = alerts /\ t = alerts' /\ k = Len(u) /\ m = Len(t)
    OBVIOUS
  <2>3. /\ t \in Seq(Board!Fact) /\ u \in Seq(Board!Fact) /\ k \in Nat /\ m \in Nat /\ k <= m /\ (\A i \in 1 .. k : t[i] = u[i])
        /\ \A i \in k + 1 .. m : t[i].ts = clock /\ (t[i].type \in Announced => cycle.at < clock)
    BY <2>1, <2>2 DEF Longer, TimesOK
  <2>4. clock \in Nat /\ cycle.at \in Nat /\ cycle'.at \in Nat /\ cycle.at <= cycle'.at
    BY <2>1 DEF Onward, TimesOK
  <2>5. DOMAIN t = 1 .. m /\ DOMAIN u = 1 .. k
    BY <2>2, <2>3, LenProperties
  <2>6. \A i \in 1 .. m : i \in 1 .. k \/ i \in k + 1 .. m
    BY <2>3
  <2>7. page.now.items # {} => OfCycle(page.now)
    BY DEF PanelOK
  <2>8. (page.now.items # {} => OfCycle(page.now))'
    BY <1>1, <2>4, <2>7 DEF OfCycle
  <2>9. ASSUME NEW i \in page.now.items, NEW a \in Board!ToSet(t), a.type = Board!Material[i.kind], a.ts <= page.now.as_of
        PROVE  a \in Board!ToSet(u)
    <3>1. PICK j \in 1 .. m : a = t[j]
      BY <2>5, <2>9 DEF Board!ToSet
    <3>2. a.type \in Announced
      BY <2>9, MaterialIs DEF PanelOK
    <3>3. page.now.as_of \in Nat /\ page.now.as_of <= cycle.at
      BY <2>7, <2>9 DEF OfCycle
    <3>4. j \in 1 .. k
      BY <2>3, <2>4, <2>6, <2>9, <3>1, <3>2, <3>3
    <3>5. QED
      BY <2>3, <2>5, <3>1, <3>4 DEF Board!ToSet
  <2>10. Board!JudgementNotOlder'
    BY <1>1, <2>2, <2>9 DEF PanelOK, Board!JudgementNotOlder, Board!Entries
  <2>11. Board!HealthyIsRecent'
    BY <1>1 DEF PanelOK, Board!HealthyIsRecent
  <2>12. Board!ConfirmedIsShown'
    <3>1. AlertTail \in Nat
      BY BoardFacts
    <3>2. m <= AlertTail => k <= AlertTail
      BY <2>3, <3>1
    <3>3. QED
      BY <1>1, <2>2, <3>2 DEF PanelOK, Board!ConfirmedIsShown
  <2>13. QED
    BY <1>1, <2>8, <2>10, <2>11, <2>12 DEF PanelOK, Board!Material
<1>2. ASSUME NEW r \in Asking, Board!FallBack(r)
      PROVE  PanelOK'
  <2>1. PICK g, e : g = page' /\ e = Board!Empty
    OBVIOUS
  <2>2. g.now = e
    BY <1>2, <2>1 DEF Board!FallBack
  <2>3. e.items = {} /\ e.runtime = "UNKNOWN"
    BY <2>1 DEF Board!Empty
  <2>4. QED
    BY <2>1, <2>2, <2>3 DEF PanelOK, Board!JudgementNotOlder, Board!HealthyIsRecent, Board!ConfirmedIsShown
<1>3. ASSUME NEW r \in Asking, Board!AskNow(r) \/ Board!ReadState(r) \/ Board!ReadSoak(r) \/ Board!ReadAlerts(r)
      PROVE  UNCHANGED page
  BY <1>3 DEF Board!AskNow, Board!ReadState, Board!ReadSoak, Board!ReadAlerts
<1>4. QED
  BY <1>1, <1>2, <1>3, ShownIs, OnlyRequests

\* A worst that passes means that everything passes (_worst).
LEMMA WorstIs ==
  ASSUME NEW S, S # {}, S \subseteq {"FAIL", "MISSING", "WARN", "UNKNOWN", "PASS"}
  PROVE  Board!Worst(S) \in S /\ (Board!Worst(S) = "PASS" => \A o \in S : o = "PASS")
<1>1. PICK R : R = Board!Rank
  OBVIOUS
<1>2. R["FAIL"] = 0 /\ R["MISSING"] = 0 /\ R["WARN"] = 1 /\ R["UNKNOWN"] = 2 /\ R["PASS"] = 3
  BY <1>1 DEF Board!Rank
<1>3. \E s \in S : \A o \in S : R[s] <= R[o]
  <2>1. CASE "FAIL" \in S \/ "MISSING" \in S
    BY <1>2, <2>1
  <2>2. CASE "FAIL" \notin S /\ "MISSING" \notin S /\ "WARN" \in S
    BY <1>2, <2>2
  <2>3. CASE "FAIL" \notin S /\ "MISSING" \notin S /\ "WARN" \notin S /\ "UNKNOWN" \in S
    BY <1>2, <2>3
  <2>4. CASE "FAIL" \notin S /\ "MISSING" \notin S /\ "WARN" \notin S /\ "UNKNOWN" \notin S
    <3>1. \A o \in S : o = "PASS"
      BY <2>4
    <3>2. PICK s \in S : s = "PASS"
      BY <3>1
    <3>3. \A o \in S : R[s] <= R[o]
      BY <1>2, <3>1, <3>2
    <3>4. QED
      BY <3>3
  <2>5. QED
    BY <2>1, <2>2, <2>3, <2>4
<1>4. PICK w : w = CHOOSE s \in S : \A o \in S : R[s] <= R[o]
  OBVIOUS
<1>5. w \in S /\ \A o \in S : R[w] <= R[o]
  BY <1>3, <1>4
<1>6. Board!Worst(S) = w
  BY <1>1, <1>4 DEF Board!Worst
<1>7. ASSUME w = "PASS", NEW o \in S PROVE o = "PASS"
  BY <1>2, <1>5, <1>7
<1>8. QED
  BY <1>5, <1>6, <1>7

\* What a page that is all green was made of (data_quality).
LEMMA QualityIs ==
  ASSUME NEW snap, SizedPool(snap), NEW quoted, NEW day, NEW pf, pf.n \in Nat, NEW verdict,
         pf.n # 0 => pf.sample \in Nat /\ pf.status \in {"PASS", "WARN", "FAIL"},
         verdict \in {Null, "PIT_CLEAN", "PIT_PARTIAL", "PIT_CONTAMINATED", "unreadable"},
         Board!DataQuality(snap, quoted, pf, verdict, day) = "PASS"
  PROVE  /\ pf.status = "PASS" /\ pf.of = snap.as_of /\ pf.sample >= snap.count
         /\ snap.flaw = Null /\ quoted = day /\ verdict = "PIT_CLEAN"
<1>1. PICK a, b, c, d, e : /\ a = (IF snap.flaw = "thin" THEN "WARN" ELSE "PASS") /\ b = Board!FreshnessDimension(snap, quoted, day)
        /\ c = Board!SemanticDimension(pf, snap) /\ d = (IF snap.flaw = "degraded" THEN "WARN" ELSE "PASS") /\ e = Board!PitDimension(verdict)
  OBVIOUS
<1>2. snap.as_of # 0 /\ Board!Worst({a, b, c, d, e}) = "PASS"
  BY <1>1 DEF Board!DataQuality
<1>3. PICK f, g : f = (IF quoted = Null THEN "UNKNOWN" ELSE IF quoted = day THEN "PASS" ELSE "WARN") /\ g = (IF snap.flaw = "stale" THEN "WARN" ELSE "PASS")
  OBVIOUS
<1>4. b = Board!Worst({f, g})
  BY <1>1, <1>3 DEF Board!FreshnessDimension
<1>5. b \in {f, g} /\ (b = "PASS" => f = "PASS" /\ g = "PASS")
  <2>1. {f, g} \subseteq {"FAIL", "MISSING", "WARN", "UNKNOWN", "PASS"}
    BY <1>3
  <2>2. QED
    BY <1>4, <2>1, WorstIs
<1>6. c \in {"WARN", "FAIL", "UNKNOWN", "PASS"} /\ (c = "PASS" => pf.n > 0 /\ pf.status = "PASS" /\ ~ (pf.of # snap.as_of \/ pf.sample < snap.count))
  <2>1. CASE pf.n = 0
    BY <1>1, <2>1 DEF Board!SemanticDimension
  <2>2. CASE pf.n > 0 /\ pf.status # "PASS"
    <3>1. pf.n # 0 /\ c = pf.status
      BY <1>1, <2>2 DEF Board!SemanticDimension
    <3>2. QED
      BY <2>2, <3>1
  <2>3. CASE pf.n > 0 /\ pf.status = "PASS"
    <3>1. pf.n # 0 /\ c = IF pf.of # snap.as_of \/ pf.sample < snap.count THEN "WARN" ELSE "PASS"
      BY <1>1, <2>3 DEF Board!SemanticDimension
    <3>2. QED
      BY <2>3, <3>1
  <2>4. QED
    BY <2>1, <2>2, <2>3
<1>7. e \in {"PASS", "WARN", "FAIL", "UNKNOWN"} /\ (e = "PASS" => verdict = "PIT_CLEAN")
  BY <1>1 DEF Board!PitDimension
<1>8. {a, b, c, d, e} \subseteq {"FAIL", "MISSING", "WARN", "UNKNOWN", "PASS"}
  BY <1>1, <1>3, <1>5, <1>6, <1>7
<1>9. a = "PASS" /\ b = "PASS" /\ c = "PASS" /\ d = "PASS" /\ e = "PASS"
  BY <1>2, <1>8, WorstIs
<1>10. snap.flaw \notin {"thin", "degraded", "stale"} /\ quoted = day
  BY <1>1, <1>3, <1>5, <1>9
<1>11. snap.flaw = Null /\ snap.count \in Nat
  BY <1>2, <1>10 DEF SizedPool
<1>12. pf.sample >= snap.count
  BY <1>6, <1>9, <1>11
<1>13. QED
  BY <1>6, <1>7, <1>9, <1>10, <1>11, <1>12

LEMMA OnlyPool ==
  ASSUME [Board!Next]_(Board!vars)
  PROVE  \/ Board!Rebuild \/ Board!HandOff \/ Board!Validate \/ Board!Proven \/ Board!Audit \/ Board!RenderPool \/ Board!RenderQuality
         \/ UNCHANGED <<snapshot, universe, proof, validating, audit, quality>>
<1>1. CASE Board!BeginCycle \/ Board!SaveCycle \/ Board!EndCycle \/ Board!CycleFails \/ Board!RecordBrief \/ Board!Tick \/ Board!Bell
  BY <1>1 DEF Board!board, Board!BeginCycle, Board!SaveCycle, Board!EndCycle, Board!CycleFails, Board!RecordBrief, Board!Tick, Board!Bell
<1>2. CASE \E r \in Asking : Board!AskNow(r) \/ Board!ReadState(r) \/ Board!ReadSoak(r) \/ Board!ReadAlerts(r) \/ Board!ShowNow(r) \/ Board!FallBack(r)
  BY <1>2 DEF Board!board, Board!AskNow, Board!ReadState, Board!ReadSoak, Board!ReadAlerts, Board!ShowNow, Board!FallBack
<1>3. CASE Board!OpenTrade \/ Board!SubmitTrade \/ (\E p \in DOMAIN posts : Board!Command(p) \/ TradeStep(p))
  <2>1. CASE Board!OpenTrade \/ Board!SubmitTrade
    BY <2>1 DEF Board!board, Board!OpenTrade, Board!SubmitTrade
  <2>2. CASE \E p \in DOMAIN posts : Board!Command(p) \/ TradeStep(p)
    BY <2>2, CommandIs, TradeStepIs
  <2>3. QED
    BY <1>3, <2>1, <2>2
<1>4. CASE Board!LiveScan
  BY <1>4 DEF Board!LiveScan
<1>5. CASE UNCHANGED Board!vars
  BY <1>5 DEF Board!vars, Board!board
<1>6. QED
  BY <1>1, <1>2, <1>3, <1>4, <1>5 DEF Board!Next, TradeStep

LEMMA PoolStays ==
  ASSUME Board!BoardAssumption, PoolOK, [Board!Next]_(Board!vars)
  PROVE  PoolOK'
<1>1. CASE Board!Rebuild
  <2>1. PICK n \in Pool, flaw \in {Null, "degraded", "thin", "stale"} : snapshot' = [as_of |-> snapshot.as_of + 1, count |-> n, flaw |-> flaw]
    BY <1>1 DEF Board!Rebuild
  <2>2. n \in Nat /\ snapshot.as_of + 1 \in Nat
    BY BoardFacts DEF PoolOK, SizedPool
  <2>3. SizedPool(snapshot)'
    BY <2>1, <2>2 DEF SizedPool
  <2>4. UNCHANGED <<universe, proof, validating, audit, quality>>
    BY <1>1 DEF Board!Rebuild
  <2>5. QED
    BY <2>3, <2>4 DEF PoolOK, SizedPool, Board!GreenIsProven
<1>2. CASE Board!HandOff
  BY <1>2 DEF Board!HandOff, PoolOK, SizedPool, Board!GreenIsProven
<1>3. CASE Board!Validate
  <2>1. validating' = universe /\ universe.as_of > 0 /\ UNCHANGED <<snapshot, universe, proof, audit, quality>>
    BY <1>3 DEF Board!Validate
  <2>2. universe.count \in Nat
    BY <2>1 DEF PoolOK, SizedPool
  <2>3. QED
    BY <2>1, <2>2 DEF PoolOK, SizedPool, Board!GreenIsProven
<1>4. CASE Board!Proven
  <2>1. PICK n \in 0 .. validating.count, status \in {"PASS", "WARN", "FAIL"} :
          proof' = [n |-> proof.n + 1, of |-> validating.as_of, sample |-> n, status |-> status]
    BY <1>4 DEF Board!Proven
  <2>2. validating' = Null /\ validating # Null /\ UNCHANGED <<snapshot, universe, audit, quality>>
    BY <1>4 DEF Board!Proven
  <2>3. proof'.n \in Nat /\ proof'.sample \in Nat /\ proof'.status \in {"PASS", "WARN", "FAIL"}
    BY <2>1, <2>2 DEF PoolOK
  <2>4. QED
    BY <2>2, <2>3 DEF PoolOK, SizedPool, Board!GreenIsProven
<1>5. CASE Board!Audit
  BY <1>5 DEF Board!Audit, PoolOK, SizedPool, Board!GreenIsProven
<1>6. CASE Board!RenderPool
  <2>1. PICK q : q = quality'
    OBVIOUS
  <2>2. q = [pc |-> "read", n |-> quality.n + 1, snap |-> snapshot, quoted |-> scan_of, status |-> Null]
    BY <1>6, <2>1 DEF Board!RenderPool
  <2>3. q.snap = snapshot /\ q.status = Null /\ Null # "PASS"
    BY <2>2, BoardFacts
  <2>4. UNCHANGED <<snapshot, universe, proof, validating, audit>>
    BY <1>6 DEF Board!RenderPool
  <2>5. QED
    BY <2>1, <2>3, <2>4 DEF PoolOK, SizedPool, Board!GreenIsProven
<1>7. CASE Board!RenderQuality
  <2>1. PICK q, s : q = quality' /\ s = Board!DataQuality(quality.snap, quality.quoted, proof, audit, clock)
    OBVIOUS
  <2>2. q = [pc |-> "idle", n |-> quality.n, snap |-> quality.snap, quoted |-> quality.quoted, status |-> s,
             proof |-> proof, day |-> clock, verdict |-> audit]
    BY <1>7, <2>1 DEF Board!RenderQuality
  <2>3. q.pc = "idle" /\ q.snap = quality.snap /\ q.quoted = quality.quoted /\ q.status = s /\ q.proof = proof /\ q.day = clock /\ q.verdict = audit
    BY <2>2
  <2>4. UNCHANGED <<snapshot, universe, proof, validating, audit>>
    BY <1>7 DEF Board!RenderQuality
  <2>5. SizedPool(quality.snap) /\ proof.n \in Nat /\ (proof.n # 0 => proof.sample \in Nat /\ proof.status \in {"PASS", "WARN", "FAIL"})
        /\ audit \in {Null, "PIT_CLEAN", "PIT_PARTIAL", "PIT_CONTAMINATED", "unreadable"}
    BY <1>7 DEF PoolOK, Board!RenderQuality
  <2>6. s = "PASS" => /\ proof.status = "PASS" /\ proof.of = quality.snap.as_of /\ proof.sample >= quality.snap.count
                      /\ quality.snap.flaw = Null /\ quality.quoted = clock /\ audit = "PIT_CLEAN"
    <3>1. SUFFICES ASSUME s = "PASS"
                   PROVE  /\ proof.status = "PASS" /\ proof.of = quality.snap.as_of /\ proof.sample >= quality.snap.count
                          /\ quality.snap.flaw = Null /\ quality.quoted = clock /\ audit = "PIT_CLEAN"
      OBVIOUS
    <3>2. Board!DataQuality(quality.snap, quality.quoted, proof, audit, clock) = "PASS"
      BY <2>1, <3>1
    <3>3. PICK snap, quoted, pf, verdict, day : snap = quality.snap /\ quoted = quality.quoted /\ pf = proof /\ verdict = audit /\ day = clock
      OBVIOUS
    <3>4. SizedPool(snap) /\ pf.n \in Nat /\ (pf.n # 0 => pf.sample \in Nat /\ pf.status \in {"PASS", "WARN", "FAIL"})
          /\ verdict \in {Null, "PIT_CLEAN", "PIT_PARTIAL", "PIT_CONTAMINATED", "unreadable"} /\ Board!DataQuality(snap, quoted, pf, verdict, day) = "PASS"
      BY <2>5, <3>2, <3>3
    <3>5. /\ pf.status = "PASS" /\ pf.of = snap.as_of /\ pf.sample >= snap.count
          /\ snap.flaw = Null /\ quoted = day /\ verdict = "PIT_CLEAN"
      BY <3>4, QualityIs
    <3>6. QED
      BY <3>3, <3>5
  <2>7. Board!GreenIsProven'
    BY <2>1, <2>3, <2>6 DEF Board!GreenIsProven
  <2>8. QED
    BY <2>1, <2>3, <2>4, <2>7 DEF PoolOK, SizedPool
<1>8. CASE UNCHANGED <<snapshot, universe, proof, validating, audit, quality>>
  BY <1>8 DEF PoolOK, SizedPool, Board!GreenIsProven
<1>9. QED
  BY <1>1, <1>2, <1>3, <1>4, <1>5, <1>6, <1>7, <1>8, OnlyPool

LEMMA BoardStarts ==
  ASSUME Board!BoardAssumption, Board!Init
  PROVE  BoardInv
<1>1. TimesOK
  <2>1. alerts = <<>> /\ briefs = <<>> /\ clock = 1
    BY DEF Board!Init
  <2>2. alerts \in Seq(Board!Fact) /\ briefs \in Seq([symbol : Symbol, at : Nat]) /\ Len(alerts) = 0 /\ Len(briefs) = 0
    BY <2>1
  <2>3. "at" \in DOMAIN cycle /\ cycle.at = 0
    BY DEF Board!Init
  <2>4. \A i \in 1 .. 0 : FALSE
    OBVIOUS
  <2>5. QED
    BY <2>1, <2>2, <2>3, <2>4 DEF TimesOK
<1>2. StateOK
  BY DEF Board!Init, StateOK
<1>3. TradeOK
  <2>1. form.n = 0 /\ posts = <<>> /\ alerts = <<>>
    BY DEF Board!Init
  <2>2. PICK v : v = message
    OBVIOUS
  <2>3. v = [says |-> "", form |-> 0, post |-> Null, recorded |-> {}]
    BY <2>2 DEF Board!Init
  <2>4. v.says = "" /\ v.recorded = {} /\ v = [says |-> v.says, form |-> v.form, post |-> v.post, recorded |-> v.recorded]
    BY <2>3
  <2>5. MessageOK
    BY <2>2, <2>4 DEF MessageOK
  <2>6. QED
    BY <2>1, <2>5 DEF TradeOK, FormOK
<1>4. NowOK
  <2>1. now = [r \in Asking |-> [pc |-> "idle"]]
    BY DEF Board!Init, Board!Idle
  <2>2. \A r \in Asking : now[r].pc = "idle"
    BY <2>1
  <2>3. QED
    BY <2>1, <2>2 DEF NowOK
<1>5. PanelOK
  <2>1. PICK e : e = Board!Empty
    OBVIOUS
  <2>2. page.now = e
    BY <2>1 DEF Board!Init
  <2>3. e.items = {} /\ e.runtime = "UNKNOWN"
    BY <2>1 DEF Board!Empty
  <2>4. QED
    BY <2>2, <2>3 DEF PanelOK, Board!JudgementNotOlder, Board!HealthyIsRecent, Board!ConfirmedIsShown
<1>6. PoolOK
  <2>1. Null # "PASS"
    BY BoardFacts
  <2>2. QED
    BY <2>1 DEF Board!Init, PoolOK, SizedPool, Board!GreenIsProven
<1>7. QED
  BY <1>1, <1>2, <1>3, <1>4, <1>5, <1>6 DEF BoardInv

LEMMA BoardStep ==
  ASSUME Board!BoardAssumption, BoardInv, [Board!Next]_(Board!vars)
  PROVE  BoardInv'
<1>1. TimesOK /\ StateOK /\ TradeOK /\ NowOK /\ PanelOK /\ PoolOK
  BY DEF BoardInv
<1>2. TimesOK' /\ StateOK' /\ TradeOK'
  BY <1>1, TimesStay, StateStays, TradeStays
<1>3. NowOK' /\ PanelOK' /\ PoolOK'
  BY <1>1, NowStays, PageStays, PoolStays
<1>4. QED
  BY <1>2, <1>3 DEF BoardInv

\* The form says what became of its POST.
LEMMA AnswersTell ==
  ASSUME TimesOK, TradeOK
  PROVE  Board!AnswerTells
<1>1. PICK u, p : u = alerts /\ p = message.post
  OBVIOUS
<1>2. u \in Seq(Board!Fact)
  BY <1>1 DEF TimesOK
<1>3. DOMAIN u = 1 .. Len(u)
  BY <1>2, LenProperties
<1>4. PICK told : told = {i \in DOMAIN u : u[i].by = p}
  OBVIOUS
<1>5. told = By(p)
  BY <1>1, <1>3, <1>4 DEF By
<1>6. (\E i : told = {i}) => Board!Cardinality(told) = 1
  <2>1. \A i : Cardinality({i}) = 1
    BY FS_Singleton
  <2>2. QED
    BY <2>1 DEF Board!Cardinality, Cardinality
<1>7. told = {} => Board!Cardinality(told) = 0
  <2>1. Cardinality({}) = 0
    BY FS_EmptySet
  <2>2. QED
    BY <2>1 DEF Board!Cardinality, Cardinality
<1>8. ASSUME message.says \in {"recorded", "refused"}
      PROVE  /\ message.says = "recorded" => Board!Cardinality(told) = 1
             /\ Board!Cardinality(told) <= 1
             /\ ~posts[p].died /\ message.says = "refused" => told = {}
  <2>1. p \in 1 .. Len(posts) /\ posts[p].pc = "read" /\ (message.says = "recorded" <=> posts[p].code = 200)
    BY <1>1, <1>8 DEF TradeOK, MessageOK
  <2>2. PostOK(p)
    BY <2>1 DEF TradeOK
  <2>3. /\ message.says = "recorded" => \E i : told = {i}
        /\ message.says = "refused" => told = {} \/ (posts[p].died /\ \E i : told = {i})
    BY <1>5, <2>1, <2>2 DEF PostOK, One
  <2>4. PICK k : k = Board!Cardinality(told)
    OBVIOUS
  <2>5. (\E i : told = {i}) => k = 1
    BY <1>6, <2>4
  <2>6. told = {} => k = 0
    BY <1>7, <2>4
  <2>7. (message.says = "recorded" => k = 1) /\ (~posts[p].died /\ message.says = "refused" => told = {})
    BY <2>3, <2>5
  <2>8. k = 0 \/ k = 1
    BY <1>8, <2>3, <2>5, <2>6
  <2>9. k <= 1
    BY <2>8
  <2>10. QED
    BY <2>4, <2>7, <2>9
<1>9. QED
  BY <1>1, <1>4, <1>8 DEF Board!AnswerTells

\* All of the evidence, or some of it.
LEMMA TrendIs ==
  ASSUME NEW rows, NEW pf, NEW forward, NEW p \in BOOLEAN, NEW q \in BOOLEAN, NEW r \in BOOLEAN,
         p <=> pf.n > 0 /\ pf.status = "PASS", q <=> pf.n > 0 /\ pf.sample > 0, r <=> Board!Scanning(rows) # {}
  PROVE  Board!TrendVerdict(rows, pf, forward) = IF p /\ q /\ r /\ forward > 0 THEN "PASS"
                                                ELSE IF p \/ q \/ r \/ forward > 0 THEN "PARTIAL" ELSE "NO_REAL_EVIDENCE"
<1>1. PICK oks : oks = {pf.n > 0 /\ pf.status = "PASS", pf.n > 0 /\ pf.sample > 0, Board!Scanning(rows) # {}}
  OBVIOUS
<1>2. (FALSE \notin oks <=> p /\ q /\ r) /\ (TRUE \in oks <=> p \/ q \/ r)
  BY <1>1
<1>3. QED
  BY <1>1, <1>2 DEF Board!TrendVerdict

\* The two judges of the evidence, compared case by case.
LEMMA VerdictsAre ==
  ASSUME NEW rows, NEW pf, pf.n \in Nat, pf.n # 0 => pf.sample \in Nat /\ pf.status \in {"PASS", "WARN", "FAIL"}, NEW forward \in {0, 1}
  PROVE  Board!TrendVerdict(rows, pf, forward) = Board!ContinuityVerdict(rows, pf, forward)
<1>1. PICK s : s = Board!Scanning(rows)
  OBVIOUS
<1>2. CASE pf.n = 0
  <2>1. Board!TrendVerdict(rows, pf, forward) = IF s # {} \/ forward = 1 THEN "PARTIAL" ELSE "NO_REAL_EVIDENCE"
    <3>1. PICK p \in BOOLEAN, q \in BOOLEAN, r \in BOOLEAN :
            (p <=> pf.n > 0 /\ pf.status = "PASS") /\ (q <=> pf.n > 0 /\ pf.sample > 0) /\ (r <=> s # {})
      OBVIOUS
    <3>2. ~p /\ ~q
      BY <1>2, <3>1
    <3>3. Board!TrendVerdict(rows, pf, forward) = IF p /\ q /\ r /\ forward > 0 THEN "PASS"
                                                  ELSE IF p \/ q \/ r \/ forward > 0 THEN "PARTIAL" ELSE "NO_REAL_EVIDENCE"
      BY <1>1, <3>1, TrendIs
    <3>4. QED
      BY <3>1, <3>2, <3>3
  <2>2. Board!ContinuityVerdict(rows, pf, forward) = IF s # {} \/ forward = 1 THEN "PARTIAL" ELSE "NO_REAL_EVIDENCE"
    BY <1>1, <1>2 DEF Board!ContinuityVerdict
  <2>3. QED
    BY <2>1, <2>2
<1>3. CASE pf.n > 0
  <2>1. Board!TrendVerdict(rows, pf, forward) =
          IF pf.status = "PASS" /\ pf.sample > 0 /\ s # {} /\ forward = 1 THEN "PASS"
          ELSE IF pf.status = "PASS" \/ pf.sample > 0 \/ s # {} \/ forward = 1 THEN "PARTIAL" ELSE "NO_REAL_EVIDENCE"
    <3>1. PICK p \in BOOLEAN, q \in BOOLEAN, r \in BOOLEAN :
            (p <=> pf.n > 0 /\ pf.status = "PASS") /\ (q <=> pf.n > 0 /\ pf.sample > 0) /\ (r <=> s # {})
      OBVIOUS
    <3>2. Board!TrendVerdict(rows, pf, forward) = IF p /\ q /\ r /\ forward > 0 THEN "PASS"
                                                  ELSE IF p \/ q \/ r \/ forward > 0 THEN "PARTIAL" ELSE "NO_REAL_EVIDENCE"
      BY <1>1, <3>1, TrendIs
    <3>3. QED
      BY <1>3, <3>1, <3>2
  <2>2. Board!ContinuityVerdict(rows, pf, forward) =
          IF pf.status = "PASS" /\ pf.sample > 0 /\ s # {} /\ forward = 1 THEN "PASS"
          ELSE IF pf.status = "PASS" \/ pf.sample > 0 \/ s # {} \/ forward = 1 THEN "PARTIAL" ELSE "NO_REAL_EVIDENCE"
    BY <1>1, <1>3 DEF Board!ContinuityVerdict
  <2>3. QED
    BY <2>1, <2>2
<1>4. QED
  BY <1>2, <1>3

LEMMA BoardImplies ==
  ASSUME BoardInv
  PROVE  Board!BoardHolds
<1>1. TimesOK /\ TradeOK /\ PanelOK /\ PoolOK
  BY DEF BoardInv
<1>2. Board!AnswerTells
  BY <1>1, AnswersTell
<1>3. Board!VerdictsAgree
  BY <1>1, VerdictsAre DEF Board!VerdictsAgree, PoolOK
<1>4. QED
  BY <1>1, <1>2, <1>3 DEF Board!BoardHolds, PanelOK, PoolOK

\* BoardHolds for any number of readers, cycles, trades, pools and faults: no
\* judgement is shown for an event it came before, HEALTHY and green are
\* earned, a confirmed trade is shown while NOW reads the whole log, the form
\* tells what became of a POST whose command did not die, no POST leaves two
\* facts, and the two judges agree (now_snapshot,
\* _agent_action, do_POST, data_quality, continuity_verdict).
THEOREM BoardTellsTheTruth ==
  ASSUME Board!BoardAssumption
  PROVE  Board!Spec => []Board!BoardHolds
<1>1. Board!Init => BoardInv
  BY BoardStarts
<1>2. BoardInv /\ [Board!Next]_(Board!vars) => BoardInv'
  BY BoardStep
<1>3. BoardInv => Board!BoardHolds
  BY BoardImplies
<1>4. QED
  BY <1>1, <1>2, <1>3, PTL DEF Board!Spec
=============================================================================
