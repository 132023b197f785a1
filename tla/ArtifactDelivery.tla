-------------------------- MODULE ArtifactDelivery --------------------------
(***************************************************************************)
(* What becomes of the work of a settled run: export_receipt_artifacts of  *)
(* runtime.py copies it to the delivery root, for the command line         *)
(* (cli.py) and for the gateway (service.py), which then answers and sends *)
(* the files to the chat.  Runs of several processes share the workspace   *)
(* and the delivery root.                                                  *)
(***************************************************************************)
EXTENDS Naturals, FiniteSets

CONSTANTS
  Run, Path,    \* numbers, in the order of the receipts' facts
  Content, Large,   \* contents of files, and those over max_artifact_bytes
  Absent, Torn, \* no file; a file part of whose bytes are missing
  Together,     \* how many runs may be delivered at a time
  MaxWork, MaxFaults

DeliveryAssumption ==
  /\ Run \subseteq Nat /\ Path \subseteq Nat /\ Large \subseteq Content /\ Absent # Torn /\ {Absent, Torn} \cap Content = {}
  /\ {Together, MaxWork, MaxFaults} \subseteq Nat

VARIABLES
  host, root,                 \* of a run: who started it, whether a delivery root is set
  pc, outcome, base, facts,   \* facts: path -> what the receipt says is there
  todo, failures, data,
  copied, noticed, replied, sent, told,
  code,                       \* what the process exits with
  work, durable, tmp, full,   \* workspace, delivery root, its temporary files, a disk that takes no more
  works, faults,
  contended                   \* (history) paths whose temporary file two runs had open

vars == <<host, root, pc, outcome, base, facts, todo, failures, data, copied, noticed, replied, sent, told, code,
          work, durable, tmp, full, works, faults, contended>>
ofRun == <<host, root, outcome, base, facts>>
effects == <<copied, noticed, replied, sent, told, code>>
disk == <<work, durable, tmp, full, works>>

File == Content \cup {Absent}
Delivering == {"exporting", "found", "opened", "written", "reporting", "sending"}
Over == {"done", "escaped", "killed"}

TypeOK ==
  /\ host \in [Run -> {"cli", "gateway"}] /\ root \in [Run -> BOOLEAN]
  /\ pc \in [Run -> {"idle", "running", "refused"} \cup Delivering \cup Over]
  /\ outcome \in [Run -> {"none", "completed", "failed", "limit_reached", "paused"}]
  /\ {base[r] : r \in Run} \subseteq [Path -> File] /\ {facts[r] : r \in Run} \subseteq [Path -> File]
  /\ {todo, failures, copied, sent, told} \subseteq [Run -> SUBSET Path]
  /\ data \in [Run -> File] /\ {noticed, replied} \subseteq [Run -> BOOLEAN] /\ code \in [Run -> {"none", "0", "1", "2", "3", "64"}]
  /\ work \in [Path -> File] /\ {durable, tmp} \subseteq [Path -> File \cup {Torn}] /\ full \in BOOLEAN
  /\ works \in 0 .. MaxWork /\ faults \in 0 .. MaxFaults /\ contended \subseteq Path

Nowhere == [p \in Path |-> Absent]
Init ==
  /\ host \in [Run -> {"cli", "gateway"}] /\ root \in [Run -> BOOLEAN]
  /\ pc = [r \in Run |-> "idle"] /\ outcome = [r \in Run |-> "none"]
  /\ base = [r \in Run |-> Nowhere] /\ facts = base
  /\ todo = [r \in Run |-> {}] /\ failures = todo /\ copied = todo /\ sent = todo /\ told = todo
  /\ data = [r \in Run |-> Absent] /\ noticed = [r \in Run |-> FALSE] /\ replied = noticed /\ code = [r \in Run |-> "none"]
  /\ work = Nowhere /\ durable = Nowhere /\ tmp = Nowhere /\ full = FALSE
  /\ works = 0 /\ faults = 0 /\ contended = {}

At(r, here) == pc[r] = here
Go(r, there) == pc' = [pc EXCEPT ![r] = there]
Least(paths) == CHOOSE p \in paths : \A q \in paths : p <= q
Listed(r) == {p \in Path : facts[r][p] # Absent}
-----------------------------------------------------------------------------
\* A run is accepted, or its composition refused before there is a receipt.
Accept(r) ==
  /\ At(r, "idle")
  /\ \/ Go(r, "running") /\ base' = [base EXCEPT ![r] = work] /\ UNCHANGED code
     \/ Go(r, "refused") /\ code' = [code EXCEPT ![r] = IF host[r] = "cli" THEN "64" ELSE @] /\ UNCHANGED base
  /\ UNCHANGED <<host, root, outcome, facts, todo, failures, data, copied, noticed, replied, sent, told, disk, faults, contended>>

\* Tools of a run write, and the workspace is cleaned.
Work(p, v) ==
  /\ works < MaxWork /\ works' = works + 1 /\ work[p] # v /\ work' = [work EXCEPT ![p] = v]
  /\ v # Absent => \E r \in Run : At(r, "running")
  /\ UNCHANGED <<ofRun, pc, todo, failures, data, effects, durable, tmp, full, faults, contended>>

\* The receipt lists what differs from the beginning of the run.
Changed(r) == [p \in Path |-> IF work[p] # base[r][p] THEN work[p] ELSE Absent]
Settle(r, how) ==
  /\ At(r, "running") /\ Cardinality({q \in Run : pc[q] \in Delivering}) < Together
  /\ outcome' = [outcome EXCEPT ![r] = how]
  /\ facts' = [facts EXCEPT ![r] = Changed(r)]
  /\ IF how = "paused"
       THEN Go(r, "done") /\ code' = [code EXCEPT ![r] = IF host[r] = "cli" THEN "3" ELSE @] /\ UNCHANGED todo
       ELSE /\ Go(r, "exporting") /\ UNCHANGED code
            /\ todo' = [todo EXCEPT ![r] = IF how = "completed" /\ root[r] THEN {p \in Path : Changed(r)[p] # Absent} ELSE {}]
  /\ UNCHANGED <<host, root, base, failures, data, copied, noticed, replied, sent, told, disk, faults, contended>>
-----------------------------------------------------------------------------
\* export_receipt_artifacts, one file after the other.  A file that is not
\* there is a failure of the delivery ...
Check(r) ==
  /\ At(r, "exporting") /\ todo[r] # {}
  /\ LET p == Least(todo[r]) IN
       IF work[p] = Absent
         THEN todo' = [todo EXCEPT ![r] = @ \ {p}] /\ failures' = [failures EXCEPT ![r] = @ \cup {p}] /\ UNCHANGED pc
         ELSE Go(r, "found") /\ UNCHANGED <<todo, failures>>
  /\ UNCHANGED <<ofRun, data, effects, disk, faults, contended>>

\* ... anything the file system raises is not, and ends the process: a file
\* that is gone as main() expects, anything else as a traceback.
Escape(r, missing) ==
  /\ Go(r, "escaped")
  /\ code' = [code EXCEPT ![r] = IF missing /\ host[r] = "cli" THEN "64" ELSE "1"]
  /\ UNCHANGED <<copied, noticed, replied, sent, told>>

\* (mutant) the durable file itself is opened.
OpenInPlace(r) ==
  /\ At(r, "found") /\ ~full /\ Go(r, "opened")
  /\ data' = [data EXCEPT ![r] = work[Least(todo[r])]] /\ durable' = [durable EXCEPT ![Least(todo[r])] = Torn]
  /\ UNCHANGED <<ofRun, todo, failures, effects, work, tmp, full, works, faults, contended>>

\* read_bytes, and write_bytes up to the empty temporary file.
Open(r) ==
  /\ At(r, "found")
  /\ LET p == Least(todo[r]) IN
       IF work[p] = Absent THEN Escape(r, TRUE) /\ UNCHANGED <<data, tmp, contended>>
       ELSE IF full THEN Escape(r, FALSE) /\ UNCHANGED <<data, tmp, contended>>
       ELSE /\ Go(r, "opened") /\ data' = [data EXCEPT ![r] = work[p]] /\ tmp' = [tmp EXCEPT ![p] = Torn]
            /\ contended' = contended \cup {q \in {p} : \E s \in Run \ {r} : pc[s] \in {"opened", "written"} /\ Least(todo[s]) = q}
            /\ UNCHANGED effects
  /\ UNCHANGED <<ofRun, todo, failures, work, durable, full, works, faults>>

\* The bytes go to the file that was opened, wherever another run has moved
\* it; over the bytes of another they may leave a mixture.
Write(r) ==
  /\ At(r, "opened")
  /\ LET p == Least(todo[r])
         over(file) == IF file = Torn THEN {data[r]} ELSE {data[r], Torn}
     IN IF full THEN Escape(r, FALSE) /\ UNCHANGED <<durable, tmp>>
        ELSE /\ Go(r, "written") /\ UNCHANGED effects
             /\ IF tmp[p] # Absent
                  THEN \E v \in over(tmp[p]) : tmp' = [tmp EXCEPT ![p] = v] /\ UNCHANGED durable
                  ELSE \E v \in over(durable[p]) : durable' = [durable EXCEPT ![p] = v] /\ UNCHANGED tmp
  /\ UNCHANGED <<ofRun, todo, failures, data, work, full, works, faults, contended>>

Replace(r) ==
  /\ At(r, "written")
  /\ LET p == Least(todo[r]) IN
       IF tmp[p] = Absent THEN Escape(r, TRUE) /\ UNCHANGED <<todo, durable, tmp>>
       ELSE /\ durable' = [durable EXCEPT ![p] = tmp[p]] /\ tmp' = [tmp EXCEPT ![p] = Absent]
            /\ todo' = [todo EXCEPT ![r] = @ \ {p}] /\ copied' = [copied EXCEPT ![r] = @ \cup {p}] /\ Go(r, "exporting")
            /\ UNCHANGED <<noticed, replied, sent, told, code>>
  /\ UNCHANGED <<ofRun, failures, data, work, full, works, faults, contended>>

\* The failures are told together, when all files have been tried.
Exported(r) ==
  /\ At(r, "exporting") /\ todo[r] = {} /\ Go(r, "reporting")
  /\ noticed' = [noticed EXCEPT ![r] = failures[r] # {}]
  /\ UNCHANGED <<ofRun, todo, failures, data, copied, replied, sent, told, code, disk, faults, contended>>
-----------------------------------------------------------------------------
\* _run prints the receipt and exits by its state; _settle_terminal answers
\* and, for a completed run, sends the files.
ExitCode(how) == CASE how = "completed" -> "0" [] how = "limit_reached" -> "1" [] how = "failed" -> "2" [] OTHER -> "3"
Report(r) ==
  /\ At(r, "reporting") /\ replied' = [replied EXCEPT ![r] = TRUE]
  /\ IF host[r] = "cli"
       THEN Go(r, "done") /\ code' = [code EXCEPT ![r] = ExitCode(outcome[r])] /\ UNCHANGED todo
       ELSE /\ UNCHANGED code
            /\ IF outcome[r] = "completed" /\ Listed(r) # {}
                 THEN Go(r, "sending") /\ todo' = [todo EXCEPT ![r] = Listed(r)]
                 ELSE Go(r, "done") /\ UNCHANGED todo
  /\ UNCHANGED <<ofRun, failures, data, copied, noticed, sent, told, disk, faults, contended>>

\* _send_receipt_artifacts: a file, or a line in its place.  The transport may
\* fail; then the rest is not sent and a notice says so.
Send(r) ==
  /\ At(r, "sending") /\ todo[r] # {}
  /\ LET p == Least(todo[r]) IN
       \/ /\ todo' = [todo EXCEPT ![r] = @ \ {p}]
          /\ IF work[p] # Absent /\ work[p] \notin Large
               THEN sent' = [sent EXCEPT ![r] = @ \cup {p}] /\ UNCHANGED told
               ELSE told' = [told EXCEPT ![r] = @ \cup {p}] /\ UNCHANGED sent
          /\ UNCHANGED <<pc, noticed, faults>>
       \/ /\ faults < MaxFaults /\ faults' = faults + 1 /\ Go(r, "done")
          /\ noticed' = [noticed EXCEPT ![r] = TRUE] /\ UNCHANGED <<todo, sent, told>>
  /\ UNCHANGED <<ofRun, failures, data, copied, replied, code, disk, contended>>

Sent(r) ==
  /\ At(r, "sending") /\ todo[r] = {} /\ Go(r, "done")
  /\ UNCHANGED <<ofRun, todo, failures, data, effects, disk, faults, contended>>

\* /artifacts sends the files of the last terminal run again.
Again(r) ==
  /\ At(r, "done") /\ host[r] = "gateway" /\ outcome[r] \notin {"none", "paused"} /\ todo[r] # {}
  /\ Go(r, "sending") /\ todo' = [todo EXCEPT ![r] = Listed(r)]
  /\ UNCHANGED <<ofRun, failures, data, effects, disk, faults, contended>>

Fill ==
  /\ faults < MaxFaults /\ faults' = faults + 1 /\ full' = ~full
  /\ UNCHANGED <<ofRun, pc, todo, failures, data, effects, work, durable, tmp, works, contended>>
Kill(r) ==
  /\ faults < MaxFaults /\ faults' = faults + 1 /\ pc[r] \in Delivering /\ Go(r, "killed")
  /\ UNCHANGED <<ofRun, todo, failures, data, effects, disk, contended>>

Next ==
  \/ Fill \/ \E p \in Path, v \in File : Work(p, v)
  \/ \E r \in Run :
       \/ Accept(r) \/ \E how \in {"completed", "failed", "limit_reached", "paused"} : Settle(r, how)
       \/ Check(r) \/ Open(r) \/ Write(r) \/ Replace(r) \/ Exported(r)
       \/ Report(r) \/ Send(r) \/ Sent(r) \/ Again(r) \/ Kill(r)

Spec == Init /\ [][Next]_vars
-----------------------------------------------------------------------------
\* A durable copy is whole, whenever the process dies or the disk fills,
\* unless two runs were delivering the same path at once.
DurableIsWhole == \A p \in Path : durable[p] = Torn => p \in contended

\* A completed run that was answered has every listed file in the delivery
\* root or has told that some are missing, and nothing else was copied.
CopiedOrTold ==
  \A r \in Run :
    /\ copied[r] \subseteq Listed(r)
    /\ replied[r] /\ outcome[r] = "completed" /\ root[r] =>
         Listed(r) = copied[r] \cup failures[r] /\ (failures[r] # {} => noticed[r])

\* The chat has every listed file, or its name, or a notice that the rest is
\* missing.
SentOrTold ==
  \A r \in Run :
    At(r, "done") /\ host[r] = "gateway" /\ outcome[r] = "completed" => noticed[r] \/ Listed(r) = sent[r] \cup told[r]

\* Refuted, see the README: what ends a process after its run completed is not
\* told as that, and what is copied is what is there by then.
ExitTells == \A r \in Run : code[r] \in {"64", "1"} => outcome[r] \in {"none", "limit_reached"}
CompletedIsAnswered == \A r \in Run : At(r, "escaped") => outcome[r] # "completed"
CopiedIsSettled ==
  \A r \in Run : At(r, "done") /\ Cardinality({q \in Run : outcome[q] # "none"}) = 1 => \A p \in copied[r] : durable[p] = facts[r][p]
=============================================================================
