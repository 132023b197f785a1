--------------------------- MODULE SupervisorLoop ---------------------------
(***************************************************************************)
(* tools/supervisor_loop.py, the transport between the supervisor and the  *)
(* worker: instructions arrive as commits of the control branch, a timer   *)
(* polls and launches one worker for each, and the reports are pushed to   *)
(* the report branch out of a worktree kept for it.                        *)
(*                                                                         *)
(* A commit is its number, a branch the sequence of its first parents.     *)
(* Git's own commands are atomic.                                          *)
(***************************************************************************)
EXTENDS Naturals, FiniteSets, SequencesExt

CONSTANTS
  Poll,       \* the invocations of sync-control: the timer, a hand
  Hand,       \* those who publish a report of their own by publish-report
  MaxCommits, MaxPushes, MaxFaults,  \* bounds
  Elsewhere,  \* a report pushed from another clone
  Absent, Torn,  \* no state file; one opened for writing and not filled
  Paced       \* the supervisor waits for an instruction to be taken up

Commit == 0 .. MaxCommits   \* 0 is the head at the bootstrap
Reports == Seq(Commit \cup Hand \cup {Elsewhere})

LoopAssumption ==
  /\ {MaxCommits, MaxPushes, MaxFaults} \subseteq Nat /\ Paced \in BOOLEAN /\ Poll \cap Hand = {}
  /\ Absent # Torn /\ {Absent, Torn} \cap Commit = {}

VARIABLES
  control, kind,  \* the control branch, and what each commit brings
  last,           \* last-started-control
  workers, outbox,  \* the worker worktrees, and the report in the outbox of each
  at,             \* where a process stands
  head,           \* the control commit a poll works on
  desk,           \* [head, files]: the report worktree
  reports,        \* the report branch
  merges, pushes, faults,
  launched, told, excused  \* (history) launches; reports said to be published; commits a fault hit

vars == <<control, kind, last, workers, outbox, at, head, desk, reports, merges, pushes, faults, launched, told, excused>>
remote == <<control, kind, reports, merges, pushes>>
publication == <<desk, told>>
state == <<last, workers, outbox, head, launched>>

Working == {"read", "record", "fill", "claim", "create", "launch", "codex", "check"}
Publishing == {"reset", "write", "commit", "push"}

TypeOK ==
  /\ control \in Seq(Commit) /\ kind \in [Commit -> {"none", "instruction", "other", "broken"}]
  /\ last \in Commit \cup {Absent, Torn}
  /\ workers \subseteq Commit /\ outbox \in [Commit -> {"none", "own", "foreign"}]
  /\ at \in [Poll \cup Hand -> {"idle"} \cup Working \cup Publishing] /\ head \in [Poll -> Commit]
  /\ desk.head \in Reports /\ desk.files \in Commit \cup Hand \cup {Elsewhere}
  /\ reports \in Reports /\ merges \in Commit /\ pushes \in 0 .. MaxPushes /\ faults \in 0 .. MaxFaults
  /\ launched \in [Commit -> 0 .. 2] /\ told \subseteq Commit \cup Hand /\ excused \subseteq Commit
  \* The state file is torn only in the hands of a poll, or after a fault.
  /\ (last = Torn => faults > 0 \/ \E p \in Poll : at[p] = "fill")

Init ==
  /\ control = <<0>> /\ kind = [c \in Commit |-> "none"] /\ last = 0
  /\ workers = {} /\ outbox = [c \in Commit |-> "none"]
  /\ at = [p \in Poll \cup Hand |-> "idle"] /\ head = [p \in Poll |-> 0]
  /\ reports = <<0>> /\ desk = [head |-> reports, files |-> 0]
  /\ merges = 0 /\ pushes = 0 /\ faults = 0
  /\ launched = [c \in Commit |-> 0] /\ told = {} /\ excused = {}
-----------------------------------------------------------------------------
Go(p, from, to) == at[p] = from /\ at' = [at EXCEPT ![p] = to]
Tip == control[Len(control)]
Position(c) == CHOOSE i \in DOMAIN control : control[i] = c

\* The supervisor's pull request is merged; or the branch is put back and
\* goes on from an older commit.
Merge ==
  /\ merges < MaxCommits /\ (Paced => last = Tip /\ \A p \in Poll : at[p] = "idle")
  /\ \E k \in {"instruction", "other", "broken"} :
       /\ (Paced => k = "instruction")
       /\ kind' = [kind EXCEPT ![merges + 1] = k]
  /\ \E n \in IF Paced THEN {Len(control)} ELSE {Len(control), Len(control) - 1} \ {0} :
       control' = Append(SubSeq(control, 1, n), merges + 1)
  /\ merges' = merges + 1
  /\ UNCHANGED <<state, at, publication, reports, pushes, faults, excused>>

\* Another clone publishes a report.
PushElsewhere ==
  /\ pushes < MaxPushes /\ pushes' = pushes + 1
  /\ reports' = Append(reports, Elsewhere)
  /\ UNCHANGED <<state, at, publication, control, kind, merges, faults, excused>>
-----------------------------------------------------------------------------
\* flock, not waited for; a process holds it until it ends, however it ends.
Free == \A p \in Poll : at[p] = "idle"

\* sync_control: with the lock, the head of the control branch.
Start(p) ==
  /\ Free /\ Go(p, "idle", "read")
  /\ head' = [head EXCEPT ![p] = Tip]
  /\ UNCHANGED <<last, workers, outbox, launched, remote, publication, faults, excused>>

\* Exactly one first-parent commit since the last one started.
Due(p) ==
  /\ last \in ToSet(control) /\ head[p] \in ToSet(control)
  /\ Position(head[p]) = Position(last) + 1

\* _require_next_contract, and a base that can be fetched.
Instructs(p) == kind[head[p]] = "instruction"

\* Without a state file the head is the baseline and nothing is launched;
\* unchanged, a gap, no new instruction, a broken one: the poll ends.
Read(p) ==
  \/ /\ last = Absent /\ Go(p, "read", "idle") /\ last' = head[p]
     /\ excused' = excused \cup {head[p]}
     /\ UNCHANGED <<workers, outbox, head, launched, remote, publication, faults>>
  \/ /\ last # Absent
     /\ IF last # Torn /\ Due(p) /\ Instructs(p) THEN Go(p, "read", "record") ELSE Go(p, "read", "idle")
     /\ UNCHANGED <<state, remote, publication, faults, excused>>

\* _write_last_started, before the launch: at most once.
Record(p) ==
  /\ Go(p, "record", "fill") /\ last' = Torn
  /\ UNCHANGED <<workers, outbox, head, launched, remote, publication, faults, excused>>

Fill(p) ==
  /\ Go(p, "fill", "claim") /\ last' = head[p]
  /\ UNCHANGED <<workers, outbox, head, launched, remote, publication, faults, excused>>

\* The worker's path must be free, then its worktree is made.
Claim(p) ==
  /\ IF head[p] \in workers THEN Go(p, "claim", "idle") ELSE Go(p, "claim", "create")
  /\ UNCHANGED <<state, remote, publication, faults, excused>>

Create(p) ==
  /\ Go(p, "create", "launch") /\ workers' = workers \cup {head[p]}
  /\ UNCHANGED <<last, outbox, head, launched, remote, publication, faults, excused>>

\* run_next: the commit is still on the control branch, and no report is in
\* the outbox; then the worker is launched.
Launch(p) ==
  /\ IF head[p] \in ToSet(control) /\ outbox[head[p]] = "none"
     THEN Go(p, "launch", "codex") /\ launched' = [launched EXCEPT ![head[p]] = @ + 1] /\ UNCHANGED excused
     ELSE Go(p, "launch", "idle") /\ excused' = excused \cup {head[p]} /\ UNCHANGED launched
  /\ UNCHANGED <<last, workers, outbox, head, remote, publication, faults>>

\* The worker ends with its report, with one about something else, or with
\* none: then the launcher writes the mechanical one.
WorkerEnds(p) ==
  /\ Go(p, "codex", "check")
  /\ \E r \in {"own", "foreign"} : outbox' = [outbox EXCEPT ![head[p]] = r]
  /\ UNCHANGED <<last, workers, head, launched, remote, publication, faults, excused>>

\* The headers must name this commit and its base.
CheckReport(p) ==
  /\ IF outbox[head[p]] = "own" THEN Go(p, "check", "reset") ELSE Go(p, "check", "idle")
  /\ UNCHANGED <<state, remote, publication, faults, excused>>
-----------------------------------------------------------------------------
Mine(p) == IF p \in Poll THEN head[p] ELSE p

\* publish-report, by hand, for a worktree of one's own.
PublishByHand(h) ==
  /\ h \notin told /\ Go(h, "idle", "reset")
  /\ UNCHANGED <<state, remote, publication, faults, excused>>

\* publish_report: the report worktree is put on the fetched head.
Reset(p) ==
  /\ Go(p, "reset", "write")
  /\ desk' = [head |-> reports, files |-> reports[Len(reports)]]
  /\ UNCHANGED <<state, remote, told, faults, excused>>

WriteReport(p) ==
  /\ Go(p, "write", "commit")
  /\ desk' = [desk EXCEPT !.files = Mine(p)]
  /\ UNCHANGED <<state, remote, told, faults, excused>>

\* Nothing changed: published before, nothing to push.
CommitReport(p) ==
  /\ IF desk.files = desk.head[Len(desk.head)]
     THEN Go(p, "commit", "idle") /\ UNCHANGED desk
     ELSE Go(p, "commit", "push") /\ desk' = [desk EXCEPT !.head = Append(@, desk.files)]
  /\ UNCHANGED <<state, remote, told, faults, excused>>

\* (mutant) the push is forced.
FastForwardForced == TRUE

\* The remote takes what its head is part of.
FastForward == IsPrefix(reports, desk.head)

\* Then the operator is told; a failing notification changes nothing.
Push(p) ==
  /\ Go(p, "push", "idle")
  /\ IF FastForward THEN reports' = desk.head /\ told' = told \cup {Mine(p)} ELSE UNCHANGED <<reports, told>>
  /\ UNCHANGED <<state, control, kind, merges, pushes, desk, faults, excused>>
-----------------------------------------------------------------------------
\* A command fails or the process is killed, at any step.
Die(p) ==
  /\ at[p] # "idle" /\ faults < MaxFaults /\ faults' = faults + 1
  /\ at' = [at EXCEPT ![p] = "idle"]
  /\ excused' = IF p \in Poll THEN excused \cup {head[p]} ELSE excused
  /\ UNCHANGED <<state, remote, publication>>

\* The operator removes a state file that cannot be read.
Forget ==
  /\ last = Torn /\ Free /\ last' = Absent
  /\ UNCHANGED <<workers, outbox, head, launched, remote, at, publication, faults, excused>>

Sync(p) ==
  \/ Start(p) \/ Read(p) \/ Record(p) \/ Fill(p) \/ Claim(p) \/ Create(p) \/ Launch(p)
  \/ WorkerEnds(p) \/ CheckReport(p)
Publish(p) == Reset(p) \/ WriteReport(p) \/ CommitReport(p) \/ Push(p)

Next ==
  \/ Merge \/ PushElsewhere \/ Forget
  \/ \E p \in Poll : Sync(p)
  \/ \E h \in Hand : PublishByHand(h)
  \/ \E p \in Poll \cup Hand : Publish(p) \/ Die(p)

Spec == Init /\ [][Next]_vars
\* The timer polls again and again; a worker ends (nothing bounds its run).
FairSpec == Spec /\ \A p \in Poll : WF_vars(Sync(p)) /\ WF_vars(Publish(p))
-----------------------------------------------------------------------------
\* No instruction is launched twice, by any number of polls, whatever dies.
LaunchedOnce == \A c \in Commit : launched[c] <= 1

\* No instruction is passed over: what the last one started has behind it on
\* the branch was launched, or a poll was broken off over it, or it is older
\* than the baseline.
NothingSkipped ==
  \A c \in ToSet(control) \ {0} :
    (last \in ToSet(control) /\ Position(c) < Position(last) /\ kind[c] = "instruction")
      => launched[c] = 1 \/ \E d \in excused : d \notin ToSet(control) \/ Position(d) >= Position(c)

\* Who is told that a report is published finds it on the branch (does not
\* hold once a hand publishes beside a poll: they share the worktree).
PublishedIsThere == told \subseteq ToSet(reports)

\* A report that was published stays published.
ReportsStand == [][IsPrefix(reports, reports')]_vars

\* With a supervisor who waits, every instruction is answered on the report
\* branch unless a fault hits it, its worker answers another, or another
\* clone pushes between fetch and push.
InstructionAnswered ==
  \A c \in Commit \ {0} : kind[c] = "instruction" ~>
    (c \in ToSet(reports) \/ c \in excused \/ last = Torn \/ outbox[c] = "foreign" \/ pushes > 0)

\* Every instruction is taken up (does not hold: two merged between two polls,
\* or one commit without an instruction, and the loop stops for good).
InstructionTaken == \A c \in Commit \ {0} : kind[c] = "instruction" ~> (launched[c] = 1 \/ c \in excused \/ last = Torn)
=============================================================================
