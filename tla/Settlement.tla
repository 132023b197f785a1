----------------------------- MODULE Settlement -----------------------------
(***************************************************************************)
(* How the runtime settles runs (runtime.py, integrity.py): what changed   *)
(* under artifacts/ since the snapshot taken at acceptance, what a         *)
(* continuation inherits from its pause receipt, and which tool calls the  *)
(* ledger left open.  Several processes run agents over one workspace, so  *)
(* runs overlap.  A digest is the number of the write that produced it:    *)
(* writing the bytes a file already had is no change to this code.         *)
(***************************************************************************)
EXTENDS Naturals, FiniteSets

CONSTANTS
  File,       \* artifact paths
  Call,       \* tool call ids of a run
  MaxRuns,    \* bound on runs
  MaxWrites   \* bound on artifact writes

SettlementAssumption == MaxRuns \in Nat /\ MaxWrites \in Nat

VARIABLES
  file,      \* digest of each artifact, 0 when absent
  writer,    \* which run produced a digest
  writes,    \* digests given out
  runs,      \* runs accepted
  phase,     \* of each run
  prior,     \* the paused run it continues (0: none)
  base,      \* its pre-run snapshot
  call,      \* its tool-effect ledger
  receipt,   \* its receipt
  overlap    \* runs that were running at some moment of it

vars == <<file, writer, writes, runs, phase, prior, base, call, receipt, overlap>>

Run == 1 .. MaxRuns
NoRun == 0
Digest == 1 .. MaxWrites
Absent == 0
Fact == File \X Digest

Receipt == [state: {"none", "paused", "completed", "failed", "limit_reached"},
            facts: SUBSET Fact, unresolved: SUBSET Call]

TypeOK ==
  /\ file \in [File -> Digest \cup {Absent}]
  /\ writer \in [Digest -> Run \cup {NoRun}]
  /\ writes \in 0 .. MaxWrites /\ runs \in 0 .. MaxRuns
  /\ phase \in [Run -> {"none", "running", "over"}]
  /\ prior \in [Run -> Run \cup {NoRun}]
  /\ base \in [Run -> [File -> Digest \cup {Absent}]]
  /\ call \in [Run -> [Call -> {"none", "started", "settled"}]]
  /\ receipt \in [Run -> Receipt]
  /\ overlap \in [Run -> SUBSET Run]

Init ==
  /\ file = [f \in File |-> Absent]
  /\ writer = [d \in Digest |-> NoRun]
  /\ writes = 0 /\ runs = 0
  /\ phase = [r \in Run |-> "none"]
  /\ prior = [r \in Run |-> NoRun]
  /\ base = [r \in Run |-> [f \in File |-> Absent]]
  /\ call = [r \in Run |-> [c \in Call |-> "none"]]
  /\ receipt = [r \in Run |-> [state |-> "none", facts |-> {}, unresolved |-> {}]]
  /\ overlap = [r \in Run |-> {}]

Running == {r \in Run : phase[r] = "running"}
-----------------------------------------------------------------------------
\* (mutant) acceptance without the snapshot.
AcceptBlind(p) ==
  /\ runs < MaxRuns
  /\ p # NoRun => receipt[p].state = "paused"
  /\ runs' = runs + 1
  /\ phase' = [phase EXCEPT ![runs + 1] = "running"]
  /\ prior' = [prior EXCEPT ![runs + 1] = p]
  /\ overlap' = [r \in Run |-> IF r = runs + 1 THEN Running
                               ELSE IF r \in Running THEN overlap[r] \cup {runs + 1}
                               ELSE overlap[r]]
  /\ UNCHANGED <<file, writer, writes, base, call, receipt>>

\* execute_run accepts a fresh run, or the continuation of a paused one.
Accept(p) ==
  /\ runs < MaxRuns
  /\ p # NoRun => receipt[p].state = "paused"
  /\ runs' = runs + 1
  /\ phase' = [phase EXCEPT ![runs + 1] = "running"]
  /\ prior' = [prior EXCEPT ![runs + 1] = p]
  /\ base' = [base EXCEPT ![runs + 1] = file]
  /\ overlap' = [r \in Run |-> IF r = runs + 1 THEN Running
                               ELSE IF r \in Running THEN overlap[r] \cup {runs + 1}
                               ELSE overlap[r]]
  /\ UNCHANGED <<file, writer, writes, call, receipt>>

\* A tool of the run writes or deletes an artifact.
WriteArtifact(r, f) ==
  /\ phase[r] = "running"
  /\ writes < MaxWrites
  /\ writes' = writes + 1
  /\ file' = [file EXCEPT ![f] = writes + 1]
  /\ writer' = [writer EXCEPT ![writes + 1] = r]
  /\ UNCHANGED <<runs, phase, prior, base, call, receipt, overlap>>

DeleteArtifact(r, f) ==
  /\ phase[r] = "running"
  /\ file[f] # Absent
  /\ file' = [file EXCEPT ![f] = Absent]
  /\ UNCHANGED <<writer, writes, runs, phase, prior, base, call, receipt, overlap>>

\* The step store records a tool call before it runs and after it completed or
\* failed: both settle it.
RecordCall(r, c) ==
  /\ phase[r] = "running"
  /\ \/ call[r][c] = "none" /\ call' = [call EXCEPT ![r][c] = "started"]
     \/ call[r][c] = "started" /\ call' = [call EXCEPT ![r][c] = "settled"]
  /\ UNCHANGED <<file, writer, writes, runs, phase, prior, base, receipt, overlap>>
-----------------------------------------------------------------------------
\* snapshot_artifacts against the snapshot of the run.
Changed(r) == {<<f, file[f]>> : f \in {g \in File : file[g] \notin {Absent, base[r][g]}}}

\* The facts of the pause receipt whose bytes are still the same.
Inherited(r) ==
  IF prior[r] = NoRun THEN {}
  ELSE {x \in receipt[prior[r]].facts : file[x[1]] = x[2]}

\* _tool_effect_facts: calls started and never settled.
Unresolved(r) == {c \in Call : call[r][c] = "started"}

WriteReceipt(r, state, facts, unresolved) ==
  /\ receipt' = [receipt EXCEPT ![r] =
                   [state |-> state, facts |-> facts, unresolved |-> unresolved]]
  /\ phase' = [phase EXCEPT ![r] = "over"]
  /\ UNCHANGED <<file, writer, writes, runs, prior, base, call, overlap>>

\* finalize_terminal: a completed run with an open call is a failed one.
Finalize(r, state) ==
  /\ phase[r] = "running"
  /\ WriteReceipt(r, IF state = "completed" /\ Unresolved(r) # {} THEN "failed" ELSE state,
                  Changed(r) \cup Inherited(r), Unresolved(r))

\* _build_paused: what this run changed, and nothing it inherited.
BuildPaused(r) ==
  /\ phase[r] = "running"
  /\ WriteReceipt(r, "paused", Changed(r), {})

\* The process dies or is interrupted under the run, or reading the ledger or
\* writing the receipt raises: no receipt.
RunLost(r) ==
  /\ phase[r] = "running"
  /\ phase' = [phase EXCEPT ![r] = "over"]
  /\ UNCHANGED <<file, writer, writes, runs, prior, base, call, receipt, overlap>>
-----------------------------------------------------------------------------
Next ==
  \/ \E p \in Run \cup {NoRun} : Accept(p)
  \/ \E r \in Run :
       \/ \E f \in File : WriteArtifact(r, f) \/ DeleteArtifact(r, f)
       \/ \E c \in Call : RecordCall(r, c)
       \/ \E state \in {"completed", "failed", "limit_reached"} : Finalize(r, state)
       \/ BuildPaused(r)
       \/ RunLost(r)

Spec == Init /\ [][Next]_vars
-----------------------------------------------------------------------------
\* A receipt claims only what its run wrote, what the run it continues wrote or
\* could have been taken to have written, and what a run beside one of them wrote:
\* never a file from before (runtime.py:160-192).
FactsNotFromBefore ==
  \A r \in Run : \A x \in receipt[r].facts :
    writer[x[2]] \in {r, prior[r]} \cup overlap[r]
                     \cup (IF prior[r] = NoRun THEN {} ELSE overlap[prior[r]])

\* The receipt that ends a run, or a run paused once, lists every artifact that
\* still is what one of the two wrote (runtime.py:252-262).
WorkListed ==
  [][\A r \in Run : \A f \in File :
       /\ phase[r] = "running"
       /\ receipt'[r].state \in {"completed", "failed", "limit_reached"}
       /\ file[f] # Absent
       /\ writer[file[f]] \in {r, prior[r]}
       => <<f, file[f]>> \in receipt'[r].facts]_vars

\* A receipt lists only facts of its own run, and all of its work.
ReceiptIsTheRun == [](TypeOK /\ FactsNotFromBefore) /\ WorkListed

\* runtime.py:177, on an inherited artifact that changed after the pause:
\* "integrity anomaly is recorded by the caller as unresolved".
AnomalyRecorded ==
  [][\A r \in Run :
       /\ phase[r] = "running"
       /\ receipt'[r].state \in {"completed", "failed", "limit_reached"}
       /\ prior[r] # NoRun
       /\ \E x \in receipt[prior[r]].facts : file[x[1]] # x[2]
       => receipt'[r].unresolved # {}]_vars
=============================================================================
