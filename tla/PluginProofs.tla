---------------------------- MODULE PluginProofs -----------------------------
(***************************************************************************)
(* The supervisor loop for any number of polls, hands, commits and faults: *)
(* no instruction is launched twice, none is passed over, a published      *)
(* report stays, and without a hand beside the polls who is told of a      *)
(* report finds it.  The argument: a lock that is tried once leaves one    *)
(* poll at work, and commits are numbered in the order of the branch.      *)
(* Then the case files for any number of cases, runs and threads: what a   *)
(* card showed is what is sent, claims have provenance, and nothing is     *)
(* lost where calls did not overlap, since what a call read still stands.  *)
(* Then the customer records: receipts, history and the chain they form.   *)
(* Last the decision engine: a customer who asks for more is told no more. *)
(***************************************************************************)
EXTENDS SupervisorLoop, FiniteSetTheorems, SequenceTheorems, WellFoundedInduction, TLAPS

\* What the branch holds, in whatever order.
Branch == ToSet(control)

\* One poll at a time; hands publish only.
LockOK ==
  /\ \A p, q \in Poll : at[p] # "idle" /\ at[q] # "idle" => p = q
  /\ \A h \in Hand : at[h] \in {"idle"} \cup Publishing

\* Commits are numbered as they are merged, and nothing speaks of a later one.
BranchOK ==
  /\ control # <<>>
  /\ \A i, j \in 1 .. Len(control) : i < j => control[i] < control[j]
  /\ \A i \in 1 .. Len(control) : control[i] <= merges
  /\ \A p \in Poll : head[p] <= merges
  /\ \A c \in excused : c <= merges
  /\ last \in Commit => last <= merges

\* A launch needs the worktree that only one poll makes.
LaunchOK ==
  /\ \A c \in Commit : launched[c] <= 1 /\ (c \notin workers => launched[c] = 0)
  /\ \A p \in Poll : at[p] = "create" => head[p] \notin workers
  /\ \A p \in Poll : at[p] = "launch" => launched[head[p]] = 0 /\ head[p] \in workers

\* Settled: it was launched, or something on the branch no older was excused.
Settled == {c \in Commit : launched[c] = 1 \/ \E d \in excused : d \notin Branch \/ c <= d}

\* A poll has recorded the commit and not yet launched it.
Taken == {c \in Commit : \E p \in Poll : at[p] \in {"claim", "create", "launch"} /\ head[p] = c}

\* Every worktree stands for a settled commit, or for the one about to be launched.
WorkersOK == \A c \in workers : c \in Settled \/ \E p \in Poll : at[p] = "launch" /\ head[p] = c

\* Everything up to the last one started is settled, or in the hands of a poll.
LastOK ==
  last \in Commit =>
    /\ last = 0 \/ last \in Settled \/ last \in Taken
    /\ \A c \in Branch \ {0} : c < last => c \in Settled

\* And so it will be once the poll at work has recorded its commit.
PollsOK ==
  \A p \in Poll :
    /\ at[p] = "record" => last \in Commit /\ \A c \in Branch : c < head[p] => c <= last
    /\ at[p] = "fill" => \A c \in Branch \ {0} : c < head[p] => c \in Settled
    /\ at[p] \in {"claim", "create", "launch"} => last = head[p]

PassedOK == WorkersOK /\ LastOK /\ PollsOK

\* Both copies of the report branch have a head.
DeskOK == reports # <<>> /\ desk.head # <<>>

IInv == TypeOK /\ LockOK /\ BranchOK /\ LaunchOK /\ PassedOK /\ DeskOK
-----------------------------------------------------------------------------
(* The branch as a set, and positions as an order.                         *)

LEMMA Numbers == ASSUME LoopAssumption PROVE
  /\ MaxCommits \in Nat /\ MaxPushes \in Nat /\ MaxFaults \in Nat
  /\ Absent \notin Commit /\ Torn \notin Commit /\ Absent # Torn
  /\ Poll \cap Hand = {} /\ 0 \in Commit
  BY DEF LoopAssumption, Commit

LEMMA BranchTyped == ASSUME LoopAssumption, TypeOK PROVE
  /\ control \in Seq(Commit) /\ Len(control) \in Nat /\ DOMAIN control = 1 .. Len(control)
  /\ \A i \in 1 .. Len(control) : control[i] \in Commit /\ control[i] \in Nat
<1>1. control \in Seq(Commit)
  BY DEF TypeOK
<1>2. \A c \in Commit : c \in Nat
  BY Numbers DEF Commit
<1>3. QED
  BY <1>1, <1>2

LEMMA OnBranch ==
  ASSUME LoopAssumption, TypeOK, BranchOK, NEW c
  PROVE  c \in Branch <=> \E i \in 1 .. Len(control) : control[i] = c
  BY DEF TypeOK, Branch, ToSet

LEMMA BranchTypes == ASSUME LoopAssumption, TypeOK, BranchOK PROVE
  /\ Branch \subseteq Commit
  /\ \A c \in Branch : c \in Nat /\ c <= merges
  /\ merges \in Nat /\ merges <= MaxCommits
<1>1. MaxCommits \in Nat
  BY Numbers
<1>2. control \in Seq(Commit) /\ merges \in Commit
  BY DEF TypeOK
<1>3. ASSUME NEW c \in Branch PROVE c \in Commit /\ c <= merges
  <2>1. PICK i \in 1 .. Len(control) : control[i] = c
    BY OnBranch
  <2>2. QED
    BY <1>2, <2>1 DEF BranchOK
<1>4. QED
  BY <1>1, <1>2, <1>3 DEF Commit

\* A commit is once on the branch, at its position.
LEMMA AtPosition ==
  ASSUME LoopAssumption, TypeOK, BranchOK, NEW c \in Branch
  PROVE  Position(c) \in 1 .. Len(control) /\ control[Position(c)] = c
<1>1. PICK i \in 1 .. Len(control) : control[i] = c
  BY OnBranch
<1>2. DOMAIN control = 1 .. Len(control)
  BY DEF TypeOK
<1>3. \E j \in DOMAIN control : control[j] = c
  BY <1>1, <1>2
<1>4. Position(c) \in DOMAIN control /\ control[Position(c)] = c
  BY <1>3, Zenon DEF Position
<1>5. QED
  BY <1>2, <1>4

LEMMA PositionsAreOrdered ==
  ASSUME LoopAssumption, TypeOK, BranchOK, NEW c \in Branch, NEW d \in Branch
  PROVE  Position(c) < Position(d) <=> c < d
<1>1. /\ Position(c) \in 1 .. Len(control) /\ control[Position(c)] = c
      /\ Position(d) \in 1 .. Len(control) /\ control[Position(d)] = d
  BY AtPosition
<1>2. PICK i \in 1 .. Len(control) : i = Position(c)
  BY <1>1
<1>3. PICK j \in 1 .. Len(control) : j = Position(d)
  BY <1>1
<1>4. i < j <=> control[i] < control[j]
  <2>1. control[i] \in Nat /\ control[j] \in Nat /\ Len(control) \in Nat
    BY BranchTyped
  <2>2. i \in Nat /\ j \in Nat
    BY <2>1
  <2>3. CASE i < j
    BY <2>3 DEF BranchOK
  <2>4. CASE i = j
    BY <2>1, <2>2, <2>4
  <2>5. CASE j < i
    BY <2>1, <2>2, <2>5 DEF BranchOK
  <2>6. QED
    BY <2>2, <2>3, <2>4, <2>5
<1>5. QED
  BY <1>1, <1>2, <1>3, <1>4

\* What comes next after the last one started has nothing before it but that.
LEMMA NothingBetween ==
  ASSUME LoopAssumption, TypeOK, BranchOK, NEW p \in Poll, Due(p), NEW c \in Branch, c < head[p]
  PROVE  c <= last
<1>1. last \in Branch /\ head[p] \in Branch /\ Position(head[p]) = Position(last) + 1
  BY DEF Due, Branch
<1>2. /\ Position(c) < Position(head[p])
      /\ Position(last) < Position(c) <=> last < c
  BY <1>1, PositionsAreOrdered
<1>3. Position(c) \in Nat /\ Position(last) \in Nat
  <2>1. Position(c) \in 1 .. Len(control) /\ Position(last) \in 1 .. Len(control)
    BY <1>1, AtPosition
  <2>2. Len(control) \in Nat
    BY DEF TypeOK
  <2>3. QED
    BY <2>1, <2>2
<1>4. ~(Position(last) < Position(c))
  BY <1>1, <1>2, <1>3
<1>5. last \in Nat /\ c \in Nat
  BY <1>1, BranchTypes
<1>6. QED
  BY <1>2, <1>4, <1>5
-----------------------------------------------------------------------------
(* Types.                                                                  *)

LEMMA InitOK == ASSUME LoopAssumption, Init PROVE IInv
<1> USE DEF Init
<1>1. 0 \in Commit /\ MaxPushes \in Nat /\ MaxFaults \in Nat /\ 0 # Torn
  BY Numbers
<1>2. reports \in Reports /\ reports # <<>> /\ desk = [head |-> reports, files |-> 0]
  BY <1>1 DEF Reports
<1>3. TypeOK
  BY <1>1, <1>2 DEF TypeOK, Working, Publishing
<1>4. LockOK
  BY DEF LockOK
<1>5. Len(control) = 1 /\ control[1] = 0 /\ control # <<>>
  OBVIOUS
<1>6. BranchOK
  BY <1>5 DEF BranchOK
<1>7. LaunchOK
  BY DEF LaunchOK
<1>8. \A c \in Branch : c = 0
  BY <1>5 DEF Branch, ToSet
<1>9. PassedOK
  BY <1>8 DEF PassedOK, WorkersOK, LastOK, PollsOK
<1>10. QED
  BY <1>2, <1>3, <1>4, <1>6, <1>7, <1>9 DEF IInv, DeskOK

\* A process goes on to another place.
LEMMA Goes ==
  ASSUME LoopAssumption, TypeOK, NEW p \in Poll \cup Hand, NEW from, NEW to, Go(p, from, to),
         to \in {"idle"} \cup Working \cup Publishing
  PROVE  /\ at' \in [Poll \cup Hand -> {"idle"} \cup Working \cup Publishing]
         /\ at[p] = from /\ at'[p] = to
         /\ \A q \in Poll \cup Hand : q # p => at'[q] = at[q]
  BY DEF TypeOK, Go

LEMMA MergeTypes ==
  ASSUME LoopAssumption, TypeOK, BranchOK, Merge
  PROVE  /\ control' \in Seq(Commit) /\ control' # <<>> /\ merges' = merges + 1 /\ merges' \in Commit
         /\ \E n \in 1 .. Len(control) :
              /\ Len(control') = n + 1 /\ control'[n + 1] = merges + 1
              /\ \A i \in 1 .. n : control'[i] = control[i]
<1>1. merges \in Nat /\ merges + 1 \in Commit /\ merges' = merges + 1
  BY BranchTypes, Numbers DEF Merge, Commit
<1>2. control \in Seq(Commit) /\ Len(control) \in Nat /\ Len(control) > 0
  BY BranchTyped DEF BranchOK
<1>3. PICK n \in IF Paced THEN {Len(control)} ELSE {Len(control), Len(control) - 1} \ {0} :
        control' = Append(SubSeq(control, 1, n), merges + 1)
  BY DEF Merge
<1>4. n \in 1 .. Len(control)
  BY <1>2, <1>3
<1>5. /\ SubSeq(control, 1, n) \in Seq(Commit) /\ Len(SubSeq(control, 1, n)) = n
      /\ \A i \in 1 .. n : SubSeq(control, 1, n)[i] = control[i]
  BY <1>2, <1>4
<1>6. PICK kept \in Seq(Commit) : kept = SubSeq(control, 1, n)
  BY <1>5
<1>7. /\ control' = Append(kept, merges + 1) /\ Len(kept) = n
      /\ \A i \in 1 .. n : kept[i] = control[i]
  BY <1>3, <1>5, <1>6
<1>8. /\ control' \in Seq(Commit) /\ Len(control') = n + 1 /\ control'[n + 1] = merges + 1
      /\ \A i \in 1 .. n : control'[i] = control[i]
  BY <1>1, <1>4, <1>7
<1>9. control' # <<>>
  BY <1>4, <1>8
<1>10. QED
  BY <1>1, <1>4, <1>8, <1>9

LEMMA OutsideTyped ==
  ASSUME LoopAssumption, IInv, Merge \/ PushElsewhere \/ Forget \/ UNCHANGED vars PROVE TypeOK' /\ DeskOK'
<1> USE DEF IInv, TypeOK, DeskOK
<1>1. CASE Merge
  <2>1. control' \in Seq(Commit) /\ merges' \in Commit
    BY <1>1, MergeTypes
  <2>2. kind' \in [Commit -> {"none", "instruction", "other", "broken"}]
    BY <1>1 DEF Merge
  <2>3. UNCHANGED <<last, workers, outbox, head, launched, at, desk, told, reports, pushes, faults, excused>>
    BY <1>1 DEF Merge, state, publication
  <2>4. QED
    BY <2>1, <2>2, <2>3
<1>2. CASE PushElsewhere
  <2>1. pushes' \in 0 .. MaxPushes
    BY <1>2, Numbers DEF PushElsewhere
  <2>2. reports' \in Reports /\ reports' # <<>>
    BY <1>2 DEF PushElsewhere, Reports
  <2>3. UNCHANGED <<last, workers, outbox, head, launched, at, desk, told, control, kind, merges, faults, excused>>
    BY <1>2 DEF PushElsewhere, state, publication
  <2>4. QED
    BY <2>1, <2>2, <2>3
<1>3. CASE Forget
  <2>1. UNCHANGED <<workers, outbox, head, launched, control, kind, reports, merges, pushes, at, desk, told, faults, excused>>
    BY <1>3 DEF Forget, remote, publication
  <2>2. last' = Absent /\ Absent # Torn
    BY <1>3, Numbers DEF Forget
  <2>3. QED
    BY <2>1, <2>2
<1>4. CASE UNCHANGED vars
  BY <1>4 DEF vars
<1>5. QED
  BY <1>1, <1>2, <1>3, <1>4

\* Where a poll may go, and that the others stay.
Step(p) == \E from, to \in {"idle"} \cup Working \cup Publishing : Go(p, from, to)

LEMMA SyncSteps == ASSUME NEW p \in Poll, Sync(p) PROVE Step(p)
  BY DEF Sync, Start, Read, Record, Fill, Claim, Create, Launch, WorkerEnds, CheckReport, Step, Working, Publishing

LEMMA PublishSteps ==
  ASSUME NEW p \in Poll \cup Hand, Publish(p) \/ (p \in Hand /\ PublishByHand(p)) PROVE Step(p)
  BY DEF Publish, PublishByHand, Reset, WriteReport, CommitReport, Push, Step, Working, Publishing

LEMMA StepTyped ==
  ASSUME LoopAssumption, TypeOK, NEW p \in Poll \cup Hand, Step(p)
  PROVE  /\ at' \in [Poll \cup Hand -> {"idle"} \cup Working \cup Publishing]
         /\ \A q \in Poll \cup Hand : q # p => at'[q] = at[q]
  BY Goes DEF Step

\* Nobody is torn but the poll that fills the state file.
LEMMA TornStays ==
  ASSUME LoopAssumption, TypeOK, NEW p \in Poll \cup Hand, Step(p), faults' = faults,
         last' = last \/ last' # Torn, at[p] = "fill" => last' # Torn
  PROVE  last' = Torn => faults' > 0 \/ \E q \in Poll : at'[q] = "fill"
<1> SUFFICES ASSUME last' = Torn, ~(faults > 0) PROVE \E q \in Poll : at'[q] = "fill"
  OBVIOUS
<1>1. PICK q \in Poll : at[q] = "fill"
  BY DEF TypeOK
<1>2. q # p
  BY <1>1
<1>3. QED
  BY <1>1, <1>2, StepTyped

LEMMA SyncTyped ==
  ASSUME LoopAssumption, IInv, NEW p \in Poll, Sync(p) PROVE TypeOK' /\ DeskOK'
<1>1. Step(p)
  BY SyncSteps
<1>2. at' \in [Poll \cup Hand -> {"idle"} \cup Working \cup Publishing]
  BY <1>1, StepTyped DEF IInv
<1>3. UNCHANGED <<control, kind, reports, merges, pushes, desk, told, faults>>
  BY DEF Sync, Start, Read, Record, Fill, Claim, Create, Launch, WorkerEnds, CheckReport, remote, publication
<1>4. head' \in [Poll -> Commit]
  <2>1. Tip \in Commit
    BY BranchTyped DEF IInv, BranchOK, Tip
  <2>2. head \in [Poll -> Commit] /\ (head' = head \/ head' = [head EXCEPT ![p] = Tip])
    BY DEF Sync, Start, Read, Record, Fill, Claim, Create, Launch, WorkerEnds, CheckReport, state, IInv, TypeOK
  <2>3. QED
    BY <2>1, <2>2
<1>5. head[p] \in Commit
  BY DEF IInv, TypeOK
<1>6. last' \in Commit \cup {Absent, Torn} /\ workers' \subseteq Commit /\ excused' \subseteq Commit
  BY <1>5 DEF Sync, Start, Read, Record, Fill, Claim, Create, Launch, WorkerEnds, CheckReport, state, IInv, TypeOK
<1>7. outbox' \in [Commit -> {"none", "own", "foreign"}]
  BY <1>5 DEF Sync, Start, Read, Record, Fill, Claim, Create, Launch, WorkerEnds, CheckReport, state, IInv, TypeOK
<1>8. launched' \in [Commit -> 0 .. 2]
  <2>1. launched \in [Commit -> 0 .. 2]
    BY DEF IInv, TypeOK
  <2>2. CASE launched' = launched
    BY <2>1, <2>2
  <2>3. CASE launched' # launched
    <3>1. Launch(p)
      BY <2>3 DEF Sync, Start, Read, Record, Fill, Claim, Create, WorkerEnds, CheckReport, state
    <3>2. at[p] = "launch" /\ launched' = [launched EXCEPT ![head[p]] = @ + 1]
      BY <2>3, <3>1 DEF Launch, Go
    <3>3. launched[head[p]] = 0
      BY <3>2 DEF IInv, LaunchOK
    <3>4. QED
      BY <1>5, <2>1, <3>2, <3>3
  <2>4. QED
    BY <2>2, <2>3
<1>9. last' = Torn => faults' > 0 \/ \E q \in Poll : at'[q] = "fill"
  <2>1. CASE Record(p)
    BY <2>1, Goes DEF Record, IInv, Working
  <2>2. CASE ~Record(p)
    <3>1. /\ last' = last \/ last' = head[p]
          /\ at[p] = "fill" => last' = head[p]
      BY <2>2 DEF Sync, Start, Read, Fill, Claim, Create, Launch, WorkerEnds, CheckReport, state, Go
    <3>2. head[p] # Torn
      BY <1>5, Numbers
    <3>3. QED
      BY <1>1, <1>3, <3>1, <3>2, TornStays DEF IInv
  <2>3. QED
    BY <2>1, <2>2
<1>10. QED
  BY <1>2, <1>3, <1>4, <1>6, <1>7, <1>8, <1>9 DEF IInv, TypeOK, DeskOK

LEMMA PublishTyped ==
  ASSUME LoopAssumption, IInv, NEW p \in Poll \cup Hand, Publish(p) \/ (p \in Hand /\ PublishByHand(p))
  PROVE  TypeOK' /\ DeskOK'
<1> DEFINE Content == Commit \cup Hand \cup {Elsewhere}
<1>1. Step(p)
  BY PublishSteps
<1>2. at' \in [Poll \cup Hand -> {"idle"} \cup Working \cup Publishing]
  BY <1>1, StepTyped DEF IInv
<1>3. UNCHANGED <<control, kind, last, workers, outbox, head, launched, merges, pushes, faults, excused>>
  BY DEF Publish, PublishByHand, Reset, WriteReport, CommitReport, Push, state, remote
<1>4. Mine(p) \in Commit \cup Hand /\ Mine(p) \in Content
  BY DEF Mine, IInv, TypeOK
<1>5. /\ reports \in Seq(Content) /\ reports # <<>>
      /\ desk.head \in Seq(Content) /\ desk.head # <<>> /\ desk.files \in Content
  BY DEF IInv, TypeOK, DeskOK, Reports
<1>6. desk'.head \in Seq(Content) /\ desk'.head # <<>> /\ desk'.files \in Content
  <2>1. CASE desk' = desk
    BY <1>5, <2>1
  <2>2. CASE desk' = [head |-> reports, files |-> reports[Len(reports)]]
    BY <1>5, <2>2
  <2>3. CASE WriteReport(p)
    BY <1>4, <1>5, <2>3 DEF WriteReport
  <2>4. CASE desk' = [desk EXCEPT !.head = Append(@, desk.files)]
    BY <1>5, <2>4
  <2>5. QED
    BY <2>1, <2>2, <2>3, <2>4 DEF Publish, PublishByHand, Reset, CommitReport, Push, publication
<1>7. (reports' = reports \/ reports' = desk.head) /\ told' \subseteq told \cup {Mine(p)}
  BY DEF Publish, PublishByHand, Reset, WriteReport, CommitReport, Push, remote, publication
<1>8. reports' \in Reports /\ reports' # <<>> /\ desk'.head \in Reports
  BY <1>5, <1>6, <1>7 DEF Reports
<1>9. last' = Torn => faults' > 0 \/ \E q \in Poll : at'[q] = "fill"
  <2>1. at[p] # "fill"
    BY DEF Publish, PublishByHand, Reset, WriteReport, CommitReport, Push, Go
  <2>2. QED
    BY <1>1, <1>3, <2>1, TornStays DEF IInv
<1>10. QED
  BY <1>2, <1>3, <1>4, <1>6, <1>7, <1>8, <1>9 DEF IInv, TypeOK, DeskOK

LEMMA DieTyped == ASSUME LoopAssumption, IInv, NEW p \in Poll \cup Hand, Die(p) PROVE TypeOK' /\ DeskOK'
<1>1. UNCHANGED <<control, kind, last, workers, outbox, head, launched, reports, merges, pushes, desk, told>>
  BY DEF Die, state, remote, publication
<1>2. faults' \in 0 .. MaxFaults /\ faults' > 0
  BY Numbers DEF Die, IInv, TypeOK
<1>3. at' \in [Poll \cup Hand -> {"idle"} \cup Working \cup Publishing]
  BY DEF Die, IInv, TypeOK
<1>4. excused' \subseteq Commit
  BY DEF Die, IInv, TypeOK
<1>5. QED
  BY <1>1, <1>2, <1>3, <1>4 DEF IInv, TypeOK, DeskOK

LEMMA NextTyped == ASSUME LoopAssumption, IInv, [Next]_vars PROVE TypeOK' /\ DeskOK'
  BY OutsideTyped, SyncTyped, PublishTyped, DieTyped DEF Next
-----------------------------------------------------------------------------
(* The lock.                                                               *)

\* A poll starts when no other is at work, and a hand only publishes.
LEMMA LockStep ==
  ASSUME LoopAssumption, IInv, [Next]_vars PROVE LockOK'
<1> USE DEF IInv, LockOK
<1>1. CASE at' = at
  BY <1>1
<1>2. ASSUME NEW p \in Poll, Sync(p) PROVE LockOK'
  <2>1. \A q \in Poll \cup Hand : q # p => at'[q] = at[q]
    BY <1>2, SyncSteps, StepTyped
  <2>2. at[p] # "idle" \/ Free
    BY <1>2 DEF Sync, Start, Read, Record, Fill, Claim, Create, Launch, WorkerEnds, CheckReport, Go
  <2>3. \A q \in Poll : q # p => at'[q] = "idle"
    BY <2>1, <2>2 DEF Free
  <2>4. \A h \in Hand : at'[h] = at[h]
    BY <2>1, Numbers
  <2>5. QED
    BY <2>3, <2>4
<1>3. ASSUME NEW p \in Poll \cup Hand, Publish(p) \/ (p \in Hand /\ PublishByHand(p)) PROVE LockOK'
  <2>1. PICK from, to : Go(p, from, to) /\ to \in {"idle"} \cup Publishing /\ (from = "idle" => p \in Hand)
    BY <1>3 DEF Publish, PublishByHand, Reset, WriteReport, CommitReport, Push, Publishing
  <2>2. at[p] = from /\ at'[p] \in {"idle"} \cup Publishing
    BY <2>1, Goes
  <2>3. \A q \in Poll \cup Hand : q # p => at'[q] = at[q]
    BY <1>3, PublishSteps, StepTyped
  <2>4. \A h \in Hand : at'[h] \in {"idle"} \cup Publishing
    BY <2>2, <2>3
  <2>5. \A q \in Poll : at'[q] # "idle" => at[q] # "idle"
    BY <2>1, <2>2, <2>3, Numbers
  <2>6. QED
    BY <2>4, <2>5
<1>4. ASSUME NEW p \in Poll \cup Hand, Die(p) PROVE LockOK'
  <2>1. at' = [at EXCEPT ![p] = "idle"] /\ at \in [Poll \cup Hand -> {"idle"} \cup Working \cup Publishing]
    BY <1>4 DEF Die, TypeOK
  <2>2. QED
    BY <2>1
<1>5. QED
  BY <1>1, <1>2, <1>3, <1>4 DEF Next, Merge, PushElsewhere, Forget, vars
-----------------------------------------------------------------------------
(* The branch.                                                             *)

\* Every step but the one that reads the head, the merge and what excuses.
LEMMA BranchFrame ==
  ASSUME BranchOK, UNCHANGED <<control, merges, head, excused>>, last' = last \/ last' \notin Commit
  PROVE  BranchOK'
  BY DEF BranchOK

LEMMA TipTyped ==
  ASSUME LoopAssumption, TypeOK, BranchOK
  PROVE  Tip \in Branch /\ Tip <= merges /\ \A c \in Branch : c <= Tip
<1>1. Len(control) \in Nat /\ Len(control) > 0
  BY BranchTyped DEF BranchOK
<1>2. PICK n \in 1 .. Len(control) : n = Len(control)
  BY <1>1
<1>3. control[n] \in Branch /\ control[n] <= merges
  BY <1>2, OnBranch DEF BranchOK
<1>4. ASSUME NEW c \in Branch PROVE c <= control[n]
  <2>1. PICK i \in 1 .. Len(control) : control[i] = c
    BY OnBranch
  <2>2. control[i] \in Nat /\ control[n] \in Nat
    BY BranchTyped
  <2>3. i = n \/ i < n
    BY <1>1, <1>2
  <2>4. i < n => control[i] < control[n]
    BY DEF BranchOK
  <2>5. QED
    BY <2>1, <2>2, <2>3, <2>4
<1>5. QED
  BY <1>2, <1>3, <1>4 DEF Tip

LEMMA BranchStep ==
  ASSUME LoopAssumption, IInv, [Next]_vars PROVE BranchOK'
<1> USE DEF IInv
<1>0. /\ merges \in Nat
      /\ \A p \in Poll : head[p] \in Nat /\ head[p] <= merges
      /\ \A c \in excused : c \in Nat /\ c <= merges
      /\ last \in Commit => last \in Nat /\ last <= merges
  <2>1. \A c \in Commit : c \in Nat
    BY Numbers DEF Commit
  <2>2. QED
    BY <2>1 DEF TypeOK, BranchOK
<1>1. CASE Merge
  <2>1. PICK n \in 1 .. Len(control) :
          /\ Len(control') = n + 1 /\ control'[n + 1] = merges + 1
          /\ \A i \in 1 .. n : control'[i] = control[i]
    BY <1>1, MergeTypes
  <2>2. control' # <<>> /\ merges' = merges + 1
    BY <1>1, MergeTypes
  <2>3. n \in Nat /\ n <= Len(control) /\ Len(control) \in Nat
    BY BranchTyped
  <2>4. \A i \in 1 .. Len(control) : control[i] \in Nat /\ control[i] <= merges
    BY BranchTyped DEF BranchOK
  <2>5. ASSUME NEW i \in 1 .. Len(control'), NEW j \in 1 .. Len(control'), i < j
        PROVE  control'[i] < control'[j]
    <3>1. i \in 1 .. n /\ i \in 1 .. Len(control) /\ i \in Nat /\ j \in Nat
      BY <2>1, <2>3, <2>5
    <3>2. CASE j = n + 1
      BY <1>0, <2>1, <2>4, <3>1, <3>2
    <3>3. CASE j # n + 1
      <4>1. j \in 1 .. n /\ j \in 1 .. Len(control)
        BY <2>1, <2>3, <3>1, <3>3
      <4>2. control[i] < control[j]
        BY <2>5, <3>1, <4>1 DEF BranchOK
      <4>3. QED
        BY <2>1, <3>1, <4>1, <4>2
    <3>4. QED
      BY <3>2, <3>3
  <2>6. ASSUME NEW i \in 1 .. Len(control') PROVE control'[i] <= merges'
    <3>1. CASE i = n + 1
      BY <1>0, <2>1, <2>2, <3>1
    <3>2. CASE i # n + 1
      <4>1. i \in 1 .. n /\ i \in 1 .. Len(control)
        BY <2>1, <2>3, <3>2
      <4>2. control'[i] = control[i]
        BY <2>1, <4>1
      <4>3. control[i] \in Nat /\ control[i] <= merges
        BY <2>4, <4>1
      <4>4. QED
        BY <1>0, <2>2, <4>2, <4>3
    <3>3. QED
      BY <3>1, <3>2
  <2>7. head' = head /\ excused' = excused /\ last' = last
    BY <1>1 DEF Merge, state
  <2>8. /\ \A p \in Poll : head'[p] <= merges'
        /\ \A c \in excused' : c <= merges'
        /\ last' \in Commit => last' <= merges'
    BY <1>0, <2>2, <2>7
  <2>9. QED
    BY <2>2, <2>5, <2>6, <2>8 DEF BranchOK
<1>2. ASSUME NEW p \in Poll, Start(p) PROVE BranchOK'
  <2>1. head' = [head EXCEPT ![p] = Tip] /\ head \in [Poll -> Commit]
    BY <1>2 DEF Start, TypeOK
  <2>2. UNCHANGED <<control, merges, excused, last>> /\ Tip <= merges
    BY <1>2, TipTyped DEF Start, remote
  <2>3. \A q \in Poll : head'[q] <= merges
    BY <1>0, <2>1, <2>2
  <2>4. QED
    BY <2>2, <2>3 DEF BranchOK
<1>3. ASSUME NEW p \in Poll, UNCHANGED <<control, merges, head>>, excused' \subseteq excused \cup {head[p]},
             last' = last \/ last' \notin Commit \/ last' = head[p]
      PROVE  BranchOK'
  <2>1. (\A c \in excused' : c <= merges') /\ (last' \in Commit => last' <= merges')
    BY <1>0, <1>3
  <2>2. QED
    BY <1>3, <2>1 DEF BranchOK
<1>4. ASSUME NEW p \in Poll, Sync(p), ~Start(p) PROVE BranchOK'
  <2>1. UNCHANGED <<control, merges, head>> /\ excused' \subseteq excused \cup {head[p]}
    BY <1>4 DEF Sync, Read, Record, Fill, Claim, Create, Launch, WorkerEnds, CheckReport, state, remote
  <2>2. last' = last \/ last' = Torn \/ last' = head[p]
    BY <1>4 DEF Sync, Read, Record, Fill, Claim, Create, Launch, WorkerEnds, CheckReport, state
  <2>3. QED
    BY <1>3, <2>1, <2>2, Numbers
<1>5. ASSUME NEW p \in Poll \cup Hand, Publish(p) \/ (p \in Hand /\ PublishByHand(p)) PROVE BranchOK'
  <2>1. UNCHANGED <<control, merges, head, excused, last>>
    BY <1>5 DEF Publish, PublishByHand, Reset, WriteReport, CommitReport, Push, state, remote
  <2>2. QED
    BY <2>1, BranchFrame
<1>6. ASSUME NEW p \in Poll \cup Hand, Die(p) PROVE BranchOK'
  <2>1. UNCHANGED <<control, merges, head, last>>
    BY <1>6 DEF Die, state, remote
  <2>2. CASE p \in Poll
    BY <1>3, <1>6, <2>1, <2>2 DEF Die
  <2>3. CASE p \notin Poll
    BY <1>6, <2>1, <2>3, BranchFrame DEF Die
  <2>4. QED
    BY <2>2, <2>3
<1>7. CASE PushElsewhere \/ Forget \/ UNCHANGED vars
  <2>1. UNCHANGED <<control, merges, head, excused>> /\ (last' = last \/ last' \notin Commit)
    BY <1>7, Numbers DEF PushElsewhere, Forget, vars, state, remote
  <2>2. QED
    BY <2>1, BranchFrame
<1>8. QED
  BY <1>1, <1>2, <1>4, <1>5, <1>6, <1>7 DEF Next
-----------------------------------------------------------------------------
(* Launched once.                                                          *)

LEMMA LaunchFrame ==
  ASSUME LaunchOK, UNCHANGED <<workers, head, launched>>,
         \A p \in Poll : at'[p] \in {"create", "launch"} => at'[p] = at[p]
  PROVE  LaunchOK'
  BY DEF LaunchOK

LEMMA LaunchStep ==
  ASSUME LoopAssumption, IInv, [Next]_vars PROVE LaunchOK'
<1> USE DEF IInv
<1>1. ASSUME NEW p \in Poll, Sync(p), UNCHANGED <<workers, launched, head>>, at'[p] \notin {"create", "launch"}
      PROVE  LaunchOK'
  <2>1. \A q \in Poll \cup Hand : q # p => at'[q] = at[q]
    BY <1>1, SyncSteps, StepTyped
  <2>2. QED
    BY <1>1, <2>1, LaunchFrame
<1>2. ASSUME NEW p \in Poll, Sync(p) PROVE LaunchOK'
  <2>0. head \in [Poll -> Commit] /\ head[p] \in Commit /\ launched \in [Commit -> 0 .. 2]
    BY DEF TypeOK
  <2>1. \A q \in Poll \cup Hand : q # p => at'[q] = at[q]
    BY <1>2, SyncSteps, StepTyped
  <2>a. \A q \in Poll : q # p => at'[q] = "idle"
    <3>1. at[p] # "idle" \/ Free
      BY <1>2 DEF Sync, Start, Read, Record, Fill, Claim, Create, Launch, WorkerEnds, CheckReport, Go
    <3>2. QED
      BY <2>1, <3>1 DEF Free, LockOK
  <2>2. CASE Start(p)
    <3>1. at'[p] = "read" /\ UNCHANGED <<workers, launched>>
      BY <2>2, Goes DEF Start, Working
    <3>2. QED
      BY <2>a, <3>1 DEF LaunchOK
  <2>3. CASE Read(p) \/ Record(p) \/ Fill(p) \/ WorkerEnds(p) \/ CheckReport(p)
    <3>1. UNCHANGED <<workers, launched, head>>
      BY <2>3 DEF Read, Record, Fill, WorkerEnds, CheckReport, state
    <3>2. PICK from, to : Go(p, from, to) /\ to \in {"idle", "record", "fill", "claim", "check", "reset"}
      BY <2>3 DEF Read, Record, Fill, WorkerEnds, CheckReport
    <3>3. at'[p] \notin {"create", "launch"}
      BY <3>2, Goes DEF Working, Publishing
    <3>4. QED
      BY <1>1, <1>2, <3>1, <3>3
  <2>4. CASE Claim(p)
    <3>1. UNCHANGED <<workers, launched, head>>
      BY <2>4 DEF Claim, state
    <3>2. at'[p] = "idle" \/ (at'[p] = "create" /\ head[p] \notin workers)
      BY <2>4, Goes DEF Claim, Working
    <3>3. QED
      BY <2>a, <3>1, <3>2 DEF LaunchOK
  <2>5. CASE Create(p)
    <3>1. at[p] = "create" /\ at'[p] = "launch" /\ workers' = workers \cup {head[p]} /\ UNCHANGED <<launched, head>>
      BY <2>5, Goes DEF Create, Working
    <3>2. launched[head[p]] = 0
      BY <2>0, <3>1 DEF LaunchOK
    <3>3. QED
      BY <2>a, <3>1, <3>2 DEF LaunchOK
  <2>6. CASE Launch(p)
    <3>1. at[p] = "launch" /\ at'[p] \in {"idle", "codex"} /\ UNCHANGED <<workers, head>>
      BY <2>6, Goes DEF Launch, Working
    <3>2. launched[head[p]] = 0 /\ head[p] \in workers
      BY <3>1 DEF LaunchOK
    <3>3. launched' = launched \/ launched' = [launched EXCEPT ![head[p]] = @ + 1]
      BY <2>6 DEF Launch
    <3>4. \A c \in Commit : launched'[c] <= 1 /\ (c \notin workers' => launched'[c] = 0)
      BY <2>0, <3>1, <3>2, <3>3 DEF LaunchOK
    <3>5. QED
      BY <2>a, <3>1, <3>4 DEF LaunchOK
  <2>7. QED
    BY <1>2, <2>2, <2>3, <2>4, <2>5, <2>6 DEF Sync
<1>3. ASSUME NEW p \in Poll \cup Hand, Publish(p) \/ (p \in Hand /\ PublishByHand(p)) PROVE LaunchOK'
  <2>1. UNCHANGED <<workers, head, launched>>
    BY <1>3 DEF Publish, PublishByHand, Reset, WriteReport, CommitReport, Push, state
  <2>2. PICK from, to \in {"idle"} \cup Publishing : Go(p, from, to)
    BY <1>3 DEF Publish, PublishByHand, Reset, WriteReport, CommitReport, Push, Publishing
  <2>3. at'[p] \in {"idle"} \cup Publishing /\ \A q \in Poll \cup Hand : q # p => at'[q] = at[q]
    BY <2>2, Goes
  <2>4. \A q \in Poll : at'[q] \in {"create", "launch"} => at'[q] = at[q]
    BY <2>3 DEF Publishing
  <2>5. QED
    BY <2>1, <2>4, LaunchFrame
<1>4. ASSUME NEW p \in Poll \cup Hand, Die(p) PROVE LaunchOK'
  <2>1. UNCHANGED <<workers, head, launched>>
    BY <1>4 DEF Die, state
  <2>2. \A q \in Poll : at'[q] = "idle" \/ at'[q] = at[q]
    BY <1>4 DEF Die, TypeOK
  <2>3. QED
    BY <2>1, <2>2, LaunchFrame
<1>5. CASE Merge \/ PushElsewhere \/ Forget \/ UNCHANGED vars
  <2>1. UNCHANGED <<workers, head, launched, at>>
    BY <1>5 DEF Merge, PushElsewhere, Forget, vars, state
  <2>2. QED
    BY <2>1, LaunchFrame
<1>6. QED
  BY <1>2, <1>3, <1>4, <1>5 DEF Next
-----------------------------------------------------------------------------
(* Nothing is passed over.                                                 *)

\* The branch grows by a commit of a new number, or loses commits.
LEMMA BranchGrows ==
  ASSUME LoopAssumption, IInv, [Next]_vars
  PROVE  Branch' \subseteq Branch \cup {merges + 1} /\ (~Merge => Branch' = Branch)
<1> USE DEF IInv
<1>1. CASE Merge
  <2>1. PICK n \in 1 .. Len(control) :
          /\ Len(control') = n + 1 /\ control'[n + 1] = merges + 1
          /\ \A i \in 1 .. n : control'[i] = control[i]
    BY <1>1, MergeTypes
  <2>2. n \in Nat /\ n <= Len(control) /\ Len(control) \in Nat
    BY BranchTyped
  <2>3. Branch' = {control'[i] : i \in DOMAIN control'} /\ DOMAIN control' = 1 .. Len(control')
    BY <1>1, MergeTypes DEF Branch, ToSet
  <2>4. ASSUME NEW c \in Branch' PROVE c \in Branch \cup {merges + 1}
    <3>1. PICK i \in 1 .. Len(control') : control'[i] = c
      BY <2>3
    <3>2. CASE i = n + 1
      BY <2>1, <3>1, <3>2
    <3>3. CASE i # n + 1
      <4>1. i \in 1 .. n /\ i \in 1 .. Len(control)
        BY <2>1, <2>2, <3>3
      <4>2. QED
        BY <2>1, <3>1, <4>1, OnBranch
    <3>4. QED
      BY <3>2, <3>3
  <2>5. QED
    BY <1>1, <2>4
<1>2. CASE ~Merge
  <2>1. control' = control
    BY <1>2 DEF Next, PushElsewhere, Forget, Sync, Start, Read, Record, Fill, Claim, Create, Launch, WorkerEnds,
      CheckReport, Publish, PublishByHand, Reset, WriteReport, CommitReport, Push, Die, vars, remote
  <2>2. QED
    BY <2>1 DEF Branch
<1>3. QED
  BY <1>1, <1>2

\* What is settled stays settled: nothing is excused for a commit to come.
LEMMA SettledStays ==
  ASSUME LoopAssumption, IInv, [Next]_vars PROVE Settled \subseteq Settled'
<1> USE DEF IInv
<1>1. excused \subseteq excused'
  BY DEF Next, Merge, PushElsewhere, Forget, Sync, Start, Read, Record, Fill, Claim, Create, Launch, WorkerEnds,
    CheckReport, Publish, PublishByHand, Reset, WriteReport, CommitReport, Push, Die, vars
<1>2. ASSUME NEW c \in Commit, launched[c] = 1 PROVE launched'[c] = 1
  <2>1. CASE launched' = launched
    BY <1>2, <2>1
  <2>2. CASE launched' # launched
    <3>1. PICK p \in Poll : Launch(p)
      BY <2>2 DEF Next, Merge, PushElsewhere, Forget, Sync, Start, Read, Record, Fill, Claim, Create, WorkerEnds,
        CheckReport, Publish, PublishByHand, Reset, WriteReport, CommitReport, Push, Die, vars, state
    <3>2. at[p] = "launch" /\ launched' = [launched EXCEPT ![head[p]] = @ + 1]
      BY <2>2, <3>1 DEF Launch, Go
    <3>3. launched[head[p]] = 0 /\ launched \in [Commit -> 0 .. 2]
      BY <3>2 DEF LaunchOK, TypeOK
    <3>4. QED
      BY <1>2, <3>2, <3>3
  <2>3. QED
    BY <2>1, <2>2
<1>3. \A d \in excused : d \notin Branch => d \notin Branch'
  <2>1. merges \in Nat /\ \A d \in excused : d \in Nat /\ d <= merges
    BY Numbers DEF TypeOK, BranchOK, Commit
  <2>2. merges + 1 \notin excused
    BY <2>1
  <2>3. QED
    BY <2>2, BranchGrows
<1>4. ASSUME NEW c \in Commit, launched[c] = 1 \/ \E d \in excused : d \notin Branch \/ c <= d
      PROVE  launched'[c] = 1 \/ \E d \in excused' : d \notin Branch' \/ c <= d
  BY <1>1, <1>2, <1>3, <1>4
<1>5. QED
  BY <1>4 DEF Settled

\* A poll at work is alone.
LEMMA Alone ==
  ASSUME LockOK, NEW p \in Poll, at[p] # "idle", NEW q \in Poll, q # p PROVE at[q] = "idle"
  BY DEF LockOK

Recorded == {"record", "fill", "claim", "create", "launch"}

\* The steps of those who are not at the record, and the merge.
LEMMA PassedFrame ==
  ASSUME LoopAssumption, IInv, [Next]_vars, UNCHANGED <<last, workers>>,
         \A q \in Poll : at[q] \in Recorded \/ at'[q] \in Recorded => at'[q] = at[q] /\ head'[q] = head[q]
  PROVE  PassedOK'
<1> USE DEF IInv
<1>1. Settled \subseteq Settled'
  BY SettledStays
<1>2. /\ merges \in Nat
      /\ last \in Commit => last \in Nat /\ last <= merges
      /\ \A p \in Poll : head[p] \in Nat /\ head[p] <= merges
  BY Numbers DEF TypeOK, BranchOK, Commit
<1>0. ASSUME NEW n \in Nat, n <= merges, NEW c \in Branch', c < n PROVE c \in Branch
  <2>1. c \in Branch \/ c = merges + 1
    BY BranchGrows
  <2>2. c # merges + 1
    BY <1>0, <1>2
  <2>3. QED
    BY <2>1, <2>2
<1>3. WorkersOK'
  BY <1>1 DEF PassedOK, WorkersOK, Recorded
<1>4. Taken \subseteq Taken'
  BY DEF Taken, Recorded
<1>5. LastOK'
  <2>1. last \in Commit => last = 0 \/ last \in Settled' \/ last \in Taken'
    BY <1>1, <1>4 DEF PassedOK, LastOK
  <2>2. ASSUME last \in Commit, NEW c \in Branch' \ {0}, c < last PROVE c \in Settled'
    <3>1. c \in Branch
      BY <1>0, <1>2, <2>2
    <3>2. QED
      BY <1>1, <2>2, <3>1 DEF PassedOK, LastOK
  <2>3. QED
    BY <2>1, <2>2 DEF LastOK
<1>6. PollsOK'
  <2>1. SUFFICES ASSUME NEW p \in Poll, at[p] \in Recorded, at'[p] = at[p], head'[p] = head[p]
        PROVE  /\ at[p] = "record" => last \in Commit /\ \A c \in Branch' : c < head[p] => c <= last
               /\ at[p] = "fill" => \A c \in Branch' \ {0} : c < head[p] => c \in Settled'
               /\ at[p] \in {"claim", "create", "launch"} => last = head[p]
    BY DEF PollsOK, Recorded
  <2>2. \A c \in Branch' : c < head[p] => c \in Branch
    BY <1>0, <1>2
  <2>3. QED
    BY <1>1, <2>2 DEF PassedOK, PollsOK
<1>7. QED
  BY <1>3, <1>5, <1>6 DEF PassedOK

\* The steps of a poll at the record: what they leave behind, told of the poll alone.
LEMMA PassedAlone ==
  ASSUME NEW p \in Poll, \A q \in Poll : q # p => at'[q] = "idle",
         \A c \in workers' : c \in Settled' \/ (at'[p] = "launch" /\ head'[p] = c),
         last' \in Commit =>
           /\ last' = 0 \/ last' \in Settled' \/ (at'[p] \in {"claim", "create", "launch"} /\ head'[p] = last')
           /\ \A c \in Branch' \ {0} : c < last' => c \in Settled',
         at'[p] = "record" => last' \in Commit /\ \A c \in Branch' : c < head'[p] => c <= last',
         at'[p] = "fill" => \A c \in Branch' \ {0} : c < head'[p] => c \in Settled',
         at'[p] \in {"claim", "create", "launch"} => last' = head'[p]
  PROVE  PassedOK'
<1>1. WorkersOK'
  BY DEF WorkersOK
<1>2. LastOK'
  BY DEF LastOK, Taken
<1>3. PollsOK'
  BY DEF PollsOK
<1>4. QED
  BY <1>1, <1>2, <1>3 DEF PassedOK

\* What a poll at work reads off the invariant.
LEMMA PassedNow ==
  ASSUME IInv, NEW p \in Poll, at[p] # "idle"
  PROVE  /\ \A c \in workers : c \in Settled \/ (at[p] = "launch" /\ head[p] = c)
         /\ last \in Commit /\ last # 0 /\ last \notin Settled =>
              at[p] \in {"claim", "create", "launch"} /\ head[p] = last
<1> USE DEF IInv, PassedOK
<1>1. \A q \in Poll : at[q] # "idle" => q = p
  BY Alone
<1>2. \A c \in workers : c \in Settled \/ (at[p] = "launch" /\ head[p] = c)
  BY <1>1 DEF WorkersOK
<1>3. ASSUME last \in Commit, last # 0, last \notin Settled PROVE at[p] \in {"claim", "create", "launch"} /\ head[p] = last
  BY <1>1, <1>3 DEF LastOK, Taken
<1>4. QED
  BY <1>2, <1>3

\* Reading the head: the baseline, an end, or one commit after the last.
LEMMA ReadPassed == ASSUME LoopAssumption, IInv, NEW p \in Poll, Read(p) PROVE PassedOK'
<1> USE DEF IInv
<1>0. at[p] = "read" /\ (at'[p] = "idle" \/ at'[p] = "record") /\ UNCHANGED <<workers, head, control, launched>>
  BY Goes DEF Read, Working, state, remote
<1>1. \A q \in Poll : q # p => at[q] = "idle" /\ at'[q] = "idle"
  BY <1>0, Alone, SyncSteps, StepTyped DEF Sync
<1>2. Settled \subseteq Settled' /\ Branch' = Branch
  BY SettledStays, <1>0 DEF Next, Sync, Branch
<1>3. \A c \in workers' : c \in Settled'
  BY <1>0, <1>2, PassedNow
<1>4. head[p] \in Commit /\ head[p] \in Nat /\ \A c \in Branch : c \in Nat /\ c \in Commit
  BY BranchTypes, Numbers DEF TypeOK, Commit
<1>5. CASE last = Absent
  <2>1. at'[p] = "idle" /\ last' = head[p] /\ excused' = excused \cup {head[p]}
    BY <1>5, Goes DEF Read
  <2>2. \A c \in Commit : c <= head[p] => c \in Settled'
    BY <2>1 DEF Settled
  <2>3. last' \in Settled' /\ \A c \in Branch' \ {0} : c < last' => c \in Settled'
    BY <1>2, <1>4, <2>1, <2>2
  <2>4. QED
    BY <1>1, <1>3, <2>1, <2>3, PassedAlone
<1>6. CASE last # Absent
  <2>1. last' = last
    BY <1>6 DEF Read, state
  <2>2. last' \in Commit =>
           /\ last' = 0 \/ last' \in Settled'
           /\ \A c \in Branch' \ {0} : c < last' => c \in Settled'
    BY <1>0, <1>2, <2>1, PassedNow DEF PassedOK, LastOK
  <2>3. CASE at'[p] = "idle"
    BY <1>1, <1>3, <2>2, <2>3, PassedAlone
  <2>4. CASE at'[p] = "record"
    <3>1. last # Torn /\ Due(p)
      BY <1>6, <2>4, Goes DEF Read
    <3>2. last' \in Commit
      BY <1>6, <2>1, <3>1 DEF TypeOK
    <3>3. \A c \in Branch' : c < head'[p] => c <= last'
      BY <1>0, <1>2, <2>1, <3>1, NothingBetween
    <3>4. QED
      BY <1>1, <1>3, <2>2, <2>4, <3>2, <3>3, PassedAlone
  <2>5. QED
    BY <1>0, <2>3, <2>4
<1>7. QED
  BY <1>5, <1>6

\* Opening the state file, and writing the commit into it.
LEMMA RecordPassed == ASSUME LoopAssumption, IInv, NEW p \in Poll, Record(p) \/ Fill(p) PROVE PassedOK'
<1> USE DEF IInv
<1>0. UNCHANGED <<workers, head, control, launched>>
  BY DEF Record, Fill, remote
<1>1. at[p] # "idle" /\ \A q \in Poll : q # p => at[q] = "idle" /\ at'[q] = "idle"
  BY Alone, SyncSteps, StepTyped DEF Sync, Record, Fill, Go
<1>2. Settled \subseteq Settled' /\ Branch' = Branch
  BY SettledStays, <1>0 DEF Next, Sync, Branch
<1>3. head[p] \in Commit /\ head[p] \in Nat /\ \A c \in Branch : c \in Nat /\ c \in Commit
  BY BranchTypes, Numbers DEF TypeOK, Commit
<1>4. CASE Record(p)
  <2>1. at[p] = "record" /\ at'[p] = "fill" /\ last' = Torn
    BY <1>4, Goes DEF Record, Working
  <2>2. \A c \in workers' : c \in Settled'
    BY <1>0, <1>2, <2>1, PassedNow
  <2>3. last \in Commit /\ last \in Nat /\ \A c \in Branch : c < head[p] => c <= last
    BY <2>1, Numbers DEF PassedOK, PollsOK, Commit
  <2>4. last = 0 \/ last \in Settled
    BY <2>1, <2>3, PassedNow
  <2>5. ASSUME NEW c \in Branch \ {0}, c < head[p] PROVE c \in Settled
    <3>1. c \in Nat /\ (c = last \/ c < last)
      BY <1>3, <2>3, <2>5
    <3>2. QED
      BY <2>3, <2>4, <2>5, <3>1 DEF PassedOK, LastOK
  <2>6. \A c \in Branch' \ {0} : c < head'[p] => c \in Settled'
    BY <1>0, <1>2, <2>5
  <2>7. last' \notin Commit
    BY <2>1, Numbers
  <2>8. QED
    BY <1>1, <2>1, <2>2, <2>6, <2>7, PassedAlone
<1>5. CASE Fill(p)
  <2>1. at[p] = "fill" /\ at'[p] = "claim" /\ last' = head[p]
    BY <1>5, Goes DEF Fill, Working
  <2>2. \A c \in workers' : c \in Settled'
    BY <1>0, <1>2, <2>1, PassedNow
  <2>3. \A c \in Branch \ {0} : c < head[p] => c \in Settled
    BY <2>1 DEF PassedOK, PollsOK
  <2>4. \A c \in Branch' \ {0} : c < last' => c \in Settled'
    BY <1>2, <2>1, <2>3
  <2>5. QED
    BY <1>0, <1>1, <2>1, <2>2, <2>4, PassedAlone
<1>6. QED
  BY <1>4, <1>5

\* The worktree and the launch.
LEMMA LaunchPassed ==
  ASSUME LoopAssumption, IInv, NEW p \in Poll, Claim(p) \/ Create(p) \/ Launch(p) PROVE PassedOK'
<1> USE DEF IInv
<1>0. UNCHANGED <<last, head, control>>
  BY DEF Claim, Create, Launch, state, remote
<1>1. at[p] \in {"claim", "create", "launch"} /\ \A q \in Poll : q # p => at[q] = "idle" /\ at'[q] = "idle"
  BY Alone, SyncSteps, StepTyped DEF Sync, Claim, Create, Launch, Go
<1>2. Settled \subseteq Settled' /\ Branch' = Branch
  BY SettledStays, <1>0 DEF Next, Sync, Branch
<1>3. head[p] \in Commit /\ head[p] \in Nat /\ last = head[p]
  BY <1>1, Numbers DEF TypeOK, Commit, PassedOK, PollsOK
<1>4. \A c \in Branch' \ {0} : c < last' => c \in Settled'
  BY <1>0, <1>2, <1>3 DEF PassedOK, LastOK
<1>5. CASE Claim(p)
  <2>1. at[p] = "claim" /\ workers' = workers
    BY <1>5 DEF Claim, Go, state
  <2>2. \A c \in workers : c \in Settled
    BY <2>1, PassedNow
  <2>3. (at'[p] = "idle" /\ head[p] \in workers) \/ at'[p] = "create"
    BY <1>5, Goes DEF Claim, Working
  <2>4. at'[p] = "idle" => last' \in Settled'
    BY <1>0, <1>2, <1>3, <2>2, <2>3
  <2>5. QED
    BY <1>0, <1>1, <1>2, <1>3, <1>4, <2>1, <2>2, <2>3, <2>4, PassedAlone
<1>6. CASE Create(p)
  <2>1. at[p] = "create" /\ at'[p] = "launch" /\ workers' = workers \cup {head[p]}
    BY <1>6, Goes DEF Create, Working
  <2>2. \A c \in workers : c \in Settled
    BY <2>1, PassedNow
  <2>3. \A c \in workers' : c \in Settled' \/ head'[p] = c
    BY <1>0, <1>2, <2>1, <2>2
  <2>4. QED
    BY <1>0, <1>1, <1>3, <1>4, <2>1, <2>3, PassedAlone
<1>7. CASE Launch(p)
  <2>1. at[p] = "launch" /\ at'[p] \in {"idle", "codex"} /\ workers' = workers
    BY <1>7, Goes DEF Launch, Working
  <2>2. launched' = [launched EXCEPT ![head[p]] = @ + 1] \/ excused' = excused \cup {head[p]}
    BY <1>7 DEF Launch
  <2>3. launched[head[p]] = 0 /\ launched \in [Commit -> 0 .. 2]
    BY <2>1 DEF LaunchOK, TypeOK
  <2>4. head[p] \in Settled'
    BY <1>3, <2>2, <2>3 DEF Settled
  <2>5. \A c \in workers' : c \in Settled'
    BY <1>2, <2>1, <2>4, PassedNow
  <2>6. QED
    BY <1>0, <1>1, <1>3, <1>4, <2>1, <2>4, <2>5, PassedAlone
<1>8. QED
  BY <1>5, <1>6, <1>7

\* A poll that dies excuses the commit it was at; a torn state file is given up.
LEMMA BrokenPassed == ASSUME LoopAssumption, IInv, (\E p \in Poll : Die(p)) \/ Forget PROVE PassedOK'
<1> USE DEF IInv
<1>0. Settled \subseteq Settled'
  BY SettledStays DEF Next
<1>1. ASSUME NEW p \in Poll, Die(p) PROVE PassedOK'
  <2>1. at[p] # "idle" /\ at'[p] = "idle" /\ \A q \in Poll : q # p => at[q] = "idle" /\ at'[q] = "idle"
    BY <1>1, Alone DEF Die, TypeOK
  <2>2. UNCHANGED <<last, workers, head, control>> /\ excused' = excused \cup {head[p]} /\ Branch' = Branch
    BY <1>1 DEF Die, state, remote, Branch
  <2>3. head[p] \in Commit /\ head[p] \in Nat
    BY Numbers DEF TypeOK, Commit
  <2>4. head[p] \in Settled'
    BY <2>2, <2>3 DEF Settled
  <2>5. \A c \in workers' : c \in Settled'
    BY <1>0, <2>1, <2>2, <2>4, PassedNow
  <2>6. last' \in Commit =>
          /\ last' = 0 \/ last' \in Settled'
          /\ \A c \in Branch' \ {0} : c < last' => c \in Settled'
    BY <1>0, <2>1, <2>2, <2>4, PassedNow DEF PassedOK, LastOK
  <2>7. QED
    BY <2>1, <2>5, <2>6, PassedAlone
<1>2. CASE Forget
  <2>1. last' = Absent /\ Absent \notin Commit /\ UNCHANGED <<at, workers, head>> /\ \A p \in Poll : at[p] = "idle"
    BY <1>2, Numbers DEF Forget, Free
  <2>2. WorkersOK'
    BY <1>0, <2>1 DEF PassedOK, WorkersOK
  <2>3. LastOK' /\ PollsOK'
    BY <2>1 DEF LastOK, PollsOK
  <2>4. QED
    BY <2>2, <2>3 DEF PassedOK
<1>3. QED
  BY <1>1, <1>2

LEMMA PassedStep == ASSUME LoopAssumption, IInv, [Next]_vars PROVE PassedOK'
<1> USE DEF IInv
<1>1. ASSUME NEW p \in Poll, Start(p) \/ WorkerEnds(p) \/ CheckReport(p) PROVE PassedOK'
  <2>1. UNCHANGED <<last, workers>>
    BY <1>1 DEF Start, WorkerEnds, CheckReport, state
  <2>2. PICK from, to : Go(p, from, to) /\ from \notin Recorded /\ to \in {"idle", "read", "check", "reset"}
    BY <1>1 DEF Start, WorkerEnds, CheckReport, Recorded
  <2>3. at[p] \notin Recorded /\ at'[p] \notin Recorded /\ \A q \in Poll : q # p => at'[q] = at[q]
    BY <2>2, Goes DEF Recorded, Working, Publishing
  <2>4. \A q \in Poll : q # p => head'[q] = head[q]
    BY <1>1 DEF Start, WorkerEnds, CheckReport, state, TypeOK
  <2>5. QED
    BY <2>1, <2>3, <2>4, PassedFrame
<1>2. ASSUME NEW p \in Poll \cup Hand, Publish(p) \/ (p \in Hand /\ PublishByHand(p)) PROVE PassedOK'
  <2>1. UNCHANGED <<last, workers, head>>
    BY <1>2 DEF Publish, PublishByHand, Reset, WriteReport, CommitReport, Push, state
  <2>2. PICK from, to \in {"idle"} \cup Publishing : Go(p, from, to)
    BY <1>2 DEF Publish, PublishByHand, Reset, WriteReport, CommitReport, Push, Publishing
  <2>3. at[p] \notin Recorded /\ at'[p] \notin Recorded /\ \A q \in Poll : q # p => at'[q] = at[q]
    BY <2>2, Goes DEF Recorded, Publishing
  <2>4. QED
    BY <2>1, <2>3, PassedFrame
<1>3. ASSUME NEW h \in Hand, Die(h) PROVE PassedOK'
  <2>1. UNCHANGED <<last, workers, head>>
    BY <1>3 DEF Die, state
  <2>2. \A q \in Poll : at'[q] = at[q]
    BY <1>3, Numbers DEF Die, TypeOK
  <2>3. QED
    BY <2>1, <2>2, PassedFrame
<1>4. CASE Merge \/ PushElsewhere \/ UNCHANGED vars
  <2>1. UNCHANGED <<last, workers, head, at>>
    BY <1>4 DEF Merge, PushElsewhere, vars, state
  <2>2. QED
    BY <2>1, PassedFrame
<1>5. QED
  BY <1>1, <1>2, <1>3, <1>4, ReadPassed, RecordPassed, LaunchPassed, BrokenPassed DEF Next, Sync
-----------------------------------------------------------------------------
THEOREM Invariance == ASSUME LoopAssumption PROVE Spec => []IInv
<1>1. Init => IInv
  BY InitOK
<1>2. IInv /\ [Next]_vars => IInv'
  BY NextTyped, LockStep, BranchStep, LaunchStep, PassedStep DEF IInv
<1>3. QED
  BY <1>1, <1>2, PTL DEF Spec

\* No instruction is ever launched a second time: not by a timer that fires
\* while a poll is at work, not after one was killed between its steps, not
\* with the state file lost (sync_control, _write_last_started, run_next).
THEOREM LaunchedAtMostOnce == ASSUME LoopAssumption PROVE Spec => [](TypeOK /\ LaunchedOnce)
<1>1. IInv => TypeOK /\ LaunchedOnce
  BY DEF IInv, LaunchOK, LaunchedOnce
<1>2. QED
  BY <1>1, Invariance, PTL

\* No instruction is silently passed over: what stands on the branch before
\* the last one started was launched, or a poll was broken off, refused or
\* given its baseline at that commit or at a later one.
THEOREM NothingPassedOver == ASSUME LoopAssumption PROVE Spec => []NothingSkipped
<1>1. ASSUME IInv PROVE NothingSkipped
  <2>1. SUFFICES ASSUME NEW c \in Branch \ {0}, last \in Branch, Position(c) < Position(last)
        PROVE  launched[c] = 1 \/ \E d \in excused : d \notin Branch \/ Position(d) >= Position(c)
    BY DEF NothingSkipped, Branch
  <2>2. c < last /\ last \in Commit
    BY <1>1, <2>1, PositionsAreOrdered, BranchTypes DEF IInv
  <2>3. launched[c] = 1 \/ \E d \in excused : d \notin Branch \/ c <= d
    BY <1>1, <2>1, <2>2 DEF IInv, PassedOK, LastOK, Settled
  <2>4. ASSUME NEW d \in excused, d \in Branch, c <= d PROVE Position(d) >= Position(c)
    <3>1. Position(d) \in 1 .. Len(control) /\ Position(c) \in 1 .. Len(control) /\ Len(control) \in Nat
      BY <1>1, <2>1, <2>4, AtPosition, BranchTyped DEF IInv
    <3>2. ~(d < c)
      BY <1>1, <2>1, <2>4, BranchTypes DEF IInv
    <3>3. ~(Position(d) < Position(c))
      BY <1>1, <2>1, <2>4, <3>2, PositionsAreOrdered DEF IInv
    <3>4. PICK i \in 1 .. Len(control), j \in 1 .. Len(control) : i = Position(d) /\ j = Position(c)
      BY <3>1
    <3>5. QED
      BY <3>1, <3>3, <3>4
  <2>5. QED
    BY <2>3, <2>4
<1>2. QED
  BY <1>1, Invariance, PTL
-----------------------------------------------------------------------------
(* The report branch.                                                      *)

LEMMA PrefixOf ==
  ASSUME NEW S, NEW s \in Seq(S), NEW t \in Seq(S), IsPrefix(s, t)
  PROVE  Len(s) <= Len(t) /\ \A i \in 1 .. Len(s) : t[i] = s[i]
<1>1. Len(s) \in Nat /\ Len(t) \in Nat /\ Len(s) <= Len(t) /\ SubSeq(s, 1, Len(s)) = SubSeq(t, 1, Len(s))
  BY DEF IsPrefix
<1>2. ASSUME NEW i \in 1 .. Len(s) PROVE t[i] = s[i]
  <2>1. SubSeq(s, 1, Len(s))[i] = s[i] /\ SubSeq(t, 1, Len(s))[i] = t[i]
    BY <1>1
  <2>2. QED
    BY <1>1, <2>1
<1>3. QED
  BY <1>1, <1>2

LEMMA PrefixKeeps ==
  ASSUME NEW S, NEW s \in Seq(S), NEW t \in Seq(S), IsPrefix(s, t) PROVE ToSet(s) \subseteq ToSet(t)
<1>1. DOMAIN s = 1 .. Len(s) /\ DOMAIN t = 1 .. Len(t) /\ Len(s) \in Nat /\ Len(t) \in Nat
  OBVIOUS
<1>2. 1 .. Len(s) \subseteq 1 .. Len(t)
  BY <1>1, PrefixOf
<1>3. QED
  BY <1>1, <1>2, PrefixOf DEF ToSet

LEMMA PrefixAppend ==
  ASSUME NEW S, NEW s \in Seq(S), NEW e \in S PROVE IsPrefix(s, s) /\ IsPrefix(s, Append(s, e))
<1>1. Len(s) \in Nat /\ Len(Append(s, e)) = Len(s) + 1 /\ Append(s, e) \in Seq(S)
  OBVIOUS
<1>2. SubSeq(Append(s, e), 1, Len(s)) = SubSeq(s, 1, Len(s))
  BY <1>1
<1>3. QED
  BY <1>1, <1>2 DEF IsPrefix

LEMMA ReportsStep ==
  ASSUME LoopAssumption, IInv, [Next]_vars PROVE IsPrefix(reports, reports')
<1> DEFINE Content == Commit \cup Hand \cup {Elsewhere}
<1>1. reports \in Seq(Content) /\ Elsewhere \in Content
  BY DEF IInv, TypeOK, Reports
<1>2. CASE reports' = reports
  BY <1>1, <1>2, PrefixAppend
<1>3. CASE PushElsewhere
  BY <1>1, <1>3, PrefixAppend DEF PushElsewhere
<1>4. ASSUME NEW p \in Poll \cup Hand, Push(p) PROVE IsPrefix(reports, reports')
  <2>1. reports' = reports \/ (reports' = desk.head /\ IsPrefix(reports, desk.head))
    BY <1>4 DEF Push, FastForward
  <2>2. QED
    BY <1>2, <2>1
<1>5. reports' = reports \/ PushElsewhere \/ \E p \in Poll \cup Hand : Push(p)
  BY DEF Next, Merge, Forget, Sync, Start, Read, Record, Fill, Claim, Create, Launch, WorkerEnds, CheckReport,
    Publish, PublishByHand, Reset, WriteReport, CommitReport, Die, vars, remote
<1>6. QED
  BY <1>2, <1>3, <1>4, <1>5

\* A report that was published stays published, at its place, whatever
\* another clone pushes between the fetch and the push of this one.
THEOREM PublishedStays == ASSUME LoopAssumption PROVE Spec => ReportsStand
<1>1. IInv /\ [Next]_vars => [IsPrefix(reports, reports')]_vars
  BY ReportsStep
<1>2. QED
  BY <1>1, Invariance, PTL DEF Spec, ReportsStand

\* The report on its way is the one of the commit the poll works on.
PublishOK ==
  /\ PublishedIsThere
  /\ \A p \in Poll :
       /\ at[p] = "commit" => desk.files = head[p]
       /\ at[p] = "push" => head[p] \in ToSet(desk.head)

LEMMA PublishStep ==
  ASSUME LoopAssumption, Hand = {}, IInv, PublishOK, [Next]_vars PROVE PublishOK'
<1> USE DEF IInv
<1> DEFINE Content == Commit \cup Hand \cup {Elsewhere}
<1>0. /\ reports \in Seq(Content) /\ desk.head \in Seq(Content) /\ desk.files \in Content
      /\ reports' \in Seq(Content)
  BY NextTyped DEF TypeOK, Reports
<1>1. ToSet(reports) \subseteq ToSet(reports')
  BY <1>0, ReportsStep, PrefixKeeps
<1>2. told' = told => PublishedIsThere'
  BY <1>1 DEF PublishOK, PublishedIsThere
<1>3. CASE UNCHANGED <<desk, told>> /\ \A q \in Poll : at'[q] \in {"commit", "push"} => at'[q] = at[q] /\ head'[q] = head[q]
  BY <1>2, <1>3 DEF PublishOK
<1>4. ASSUME NEW p \in Poll, Sync(p) PROVE PublishOK'
  <2>1. \A q \in Poll : q # p => at'[q] = at[q]
    BY <1>4, SyncSteps, StepTyped
  <2>2. UNCHANGED <<desk, told>> /\ \A q \in Poll : q # p => head'[q] = head[q]
    BY <1>4 DEF Sync, Start, Read, Record, Fill, Claim, Create, Launch, WorkerEnds, CheckReport, publication, state, TypeOK
  <2>3. PICK from, to \in {"idle", "reset"} \cup Working : Go(p, from, to)
    BY <1>4 DEF Sync, Start, Read, Record, Fill, Claim, Create, Launch, WorkerEnds, CheckReport, Working
  <2>4. at'[p] \notin {"commit", "push"}
    BY <2>3, Goes DEF Working, Publishing
  <2>5. QED
    BY <1>3, <2>1, <2>2, <2>4
<1>5. ASSUME NEW p \in Poll, Publish(p) PROVE PublishOK'
  <2>0. UNCHANGED head /\ at[p] # "idle" /\ head[p] \in Commit
    BY <1>5 DEF Publish, Reset, WriteReport, CommitReport, Push, Go, state, TypeOK
  <2>1. \A q \in Poll : q # p => at'[q] = "idle"
    BY <1>5, <2>0, Alone, PublishSteps, StepTyped
  <2>2. CASE Reset(p)
    <3>1. at'[p] = "write" /\ told' = told
      BY <2>2, Goes DEF Reset, Publishing
    <3>2. QED
      BY <1>2, <2>1, <3>1 DEF PublishOK
  <2>3. CASE WriteReport(p)
    <3>1. at'[p] = "commit" /\ told' = told /\ desk' = [desk EXCEPT !.files = head[p]]
      BY <2>3, Goes DEF WriteReport, Publishing, Mine
    <3>2. desk'.files = head'[p]
      BY <2>0, <2>3, <3>1 DEF TypeOK
    <3>3. QED
      BY <1>2, <2>1, <3>1, <3>2 DEF PublishOK
  <2>4. CASE CommitReport(p)
    <3>1. at[p] = "commit" /\ at'[p] \in {"idle", "push"} /\ told' = told
      BY <2>4, Goes DEF CommitReport, Publishing
    <3>2. ASSUME at'[p] = "push" PROVE head'[p] \in ToSet(desk'.head)
      <4>1. desk' = [desk EXCEPT !.head = Append(@, desk.files)] /\ desk.files = head[p]
        BY <2>4, <3>1, <3>2, Goes DEF CommitReport, PublishOK
      <4>2. desk'.head = Append(desk.head, head[p])
        BY <4>1 DEF TypeOK
      <4>3. Len(desk'.head) \in DOMAIN desk'.head /\ desk'.head[Len(desk'.head)] = head[p]
        BY <1>0, <2>0, <4>2
      <4>4. QED
        BY <2>0, <4>3 DEF ToSet
    <3>3. QED
      BY <1>2, <2>1, <3>1, <3>2 DEF PublishOK
  <2>5. CASE Push(p)
    <3>1. at[p] = "push" /\ at'[p] = "idle"
      BY <2>5, Goes DEF Push
    <3>2. head[p] \in ToSet(desk.head)
      BY <3>1 DEF PublishOK
    <3>3. told' = told \/ (told' = told \cup {head[p]} /\ reports' = desk.head)
      BY <2>5 DEF Push, Mine
    <3>4. PublishedIsThere'
      BY <1>1, <1>2, <3>2, <3>3 DEF PublishOK, PublishedIsThere
    <3>5. QED
      BY <2>1, <3>1, <3>4 DEF PublishOK
  <2>6. QED
    BY <1>5, <2>2, <2>3, <2>4, <2>5 DEF Publish
<1>6. ASSUME NEW p \in Poll, Die(p) PROVE PublishOK'
  <2>1. UNCHANGED <<desk, told, head>> /\ \A q \in Poll : at'[q] = "idle" \/ at'[q] = at[q]
    BY <1>6 DEF Die, state, publication, TypeOK
  <2>2. QED
    BY <1>3, <2>1
<1>7. CASE Merge \/ PushElsewhere \/ Forget \/ UNCHANGED vars
  <2>1. UNCHANGED <<desk, told, head, at>>
    BY <1>7 DEF Merge, PushElsewhere, Forget, vars, state, publication
  <2>2. QED
    BY <1>3, <2>1
<1>8. QED
  BY <1>4, <1>5, <1>6, <1>7 DEF Next

\* While no hand publishes beside the polls (they share the worktree), who is
\* told that a report is published finds it on the branch, now and ever after.
THEOREM ToldIsPublished == ASSUME LoopAssumption, Hand = {} PROVE Spec => []PublishedIsThere
<1>1. Init => PublishOK
  BY DEF Init, PublishOK, PublishedIsThere
<1>2. IInv /\ PublishOK /\ [Next]_vars => PublishOK'
  BY PublishStep
<1>3. PublishOK => PublishedIsThere
  BY DEF PublishOK
<1>4. QED
  BY <1>1, <1>2, <1>3, Invariance, PTL DEF Spec
-----------------------------------------------------------------------------
(* The case files of zuaef_case (CaseDesk), which share nothing with the   *)
(* loop: tools of several runs in parallel threads, without a lock.        *)

CONSTANTS Case, Run, Call, Bound, Unbound, Key, Value, Nothing, MaxCalls, MaxPauses, MaxCrashes
VARIABLES drafts, situation, trajectory, call, calls, phase, pending, card, pauses, crashes, tool_told, sent, latest, raced

Cases == INSTANCE CaseDesk WITH told <- tool_told

\* The calls of each tool, with what they have read.
Belief == Value \cup {Nothing}
DraftCall == [op : {"draft"}, run : Run, case : Case, read : Nat, id : 1 .. MaxCalls]
SituationRead == [was : Cases!Situation, key : Key, value : Belief, evidence : BOOLEAN]
SituationCall == [op : {"situation"}, run : Run, case : Case, read : SituationRead, id : 1 .. MaxCalls]
StepCall == [op : {"step"}, run : Run, case : Case, read : Nat, id : 1 .. MaxCalls]

\* The steps of a trajectory, the references the tool returns, those of a send.
TakenStep == [seq : Nat, run : Run]
Reference == [case : Case, number : Nat, text : 1 .. MaxCalls]

DeskTypes ==
  /\ drafts \in [Case -> Seq(1 .. MaxCalls)] /\ situation \in [Case -> Cases!Situation]
  /\ trajectory \in [Case -> Seq(TakenStep)] /\ latest \in [Case -> [Key -> Belief]]
  /\ call \in [Call -> {Cases!Idle} \cup DraftCall \cup SituationCall \cup StepCall]
  /\ calls \in 0 .. MaxCalls
  /\ phase \in [Run -> {"running", "pausing", "asked", "sending", "ended"}]
  /\ pending \in [Run -> Seq(Case \X Nat)] /\ card \in [Run -> (1 .. MaxCalls) \cup {Nothing}]
  /\ tool_told \subseteq Reference

\* The numbers the tools have given, all of them since: none exceeds the calls there were.
NumbersOK ==
  /\ \A c \in Case : Len(drafts[c]) <= calls /\ \A i \in DOMAIN trajectory[c] : trajectory[c][i].seq \in 1 .. calls
  /\ \A k \in Call : call[k].op \in {"draft", "step"} => call[k].read \in 1 .. calls

\* A number names a file or the next one, and a reference the tool has returned a file.
ExistOK ==
  /\ \A k \in Call : call[k].op = "draft" => call[k].read <= Len(drafts[call[k].case]) + 1
  /\ \A t \in tool_told : t.number \in DOMAIN drafts[t.case]

\* Where no two calls of a tool have overlapped, at most one is at work.
AloneOK ==
  \A k, l \in Call :
    /\ call[k] # Cases!Idle /\ call[l] # Cases!Idle
    /\ call[k].op = call[l].op /\ call[k].case = call[l].case /\ <<call[k].case, call[k].op>> \notin raced
    => k = l

\* What such a call has read still stands.
ReadOK ==
  \A k \in Call : call[k] # Cases!Idle /\ <<call[k].case, call[k].op>> \notin raced =>
    LET c == call[k].case IN
      /\ call[k].op = "draft" => call[k].read = Len(drafts[c]) + 1
      /\ call[k].op = "situation" => call[k].read.was = situation[c]
      /\ call[k].op = "step" => call[k].read = Len(trajectory[c]) + 1

\* A reference the tool has returned stands, and a send is made of such references.
ToldOK == \A t \in tool_told : <<t.case, "draft">> \notin raced => t.number \in DOMAIN drafts[t.case] /\ drafts[t.case][t.number] = t.text
PendingOK ==
  \A r \in Run :
    /\ \A i \in DOMAIN pending[r] : \E t \in tool_told : t.case = pending[r][i][1] /\ t.number = pending[r][i][2]
    /\ phase[r] \in {"pausing", "asked", "sending"} => pending[r] # <<>>

\* A card shows the first draft of its send, or nothing.
CardOK ==
  \A r \in Run :
    /\ phase[r] \in {"running", "pausing"} => card[r] = Nothing
    /\ phase[r] \in {"asked", "sending"} /\ <<pending[r][1][1], "draft">> \notin raced =>
         card[r] \in {Nothing, drafts[pending[r][1][1]][pending[r][1][2]]}

DeskInv ==
  /\ DeskTypes /\ NumbersOK /\ ExistOK /\ AloneOK /\ ReadOK /\ ToldOK /\ PendingOK /\ CardOK
  /\ Cases!SentAsShown /\ Cases!BeliefsKept /\ Cases!ClaimsHaveProvenance /\ Cases!StepsInOrder

\* The numbers of the tools' calls, and that what has raced stays raced.
LEMMA DeskNumbers ==
  ASSUME Cases!CaseAssumption
  PROVE  /\ MaxCalls \in Nat /\ Nothing \notin Value
         /\ \A r \in Run : Cases!Reach(r) \subseteq Case
  BY DEF Cases!CaseAssumption, Cases!Reach

LEMMA RacedGrows ==
  ASSUME [Cases!Next]_(Cases!vars)
  PROVE  raced \subseteq raced'
<1>1. ASSUME NEW k, NEW r, NEW c, NEW op, NEW read, Cases!Begin(k, r, c, op, read) PROVE raced \subseteq raced'
  BY <1>1 DEF Cases!Begin
<1>2. ASSUME NEW k \in Call, Cases!PlaceDraft(k) \/ Cases!WriteSituation(k) \/ Cases!AppendStep(k) PROVE raced' = raced
  BY <1>2 DEF Cases!PlaceDraft, Cases!WriteSituation, Cases!AppendStep
<1>3. ASSUME NEW r \in Run, Cases!RequestSend(r) \/ Cases!ShowCard(r) \/ Cases!Decide(r) \/ Cases!SendToCustomer(r) PROVE raced' = raced
  BY <1>3 DEF Cases!RequestSend, Cases!ShowCard, Cases!Decide, Cases!SendToCustomer
<1>4. CASE Cases!Crash \/ UNCHANGED Cases!vars
  BY <1>4 DEF Cases!Crash, Cases!vars
<1>5. QED
  BY <1>1, <1>2, <1>3, <1>4 DEF Cases!Next, Cases!NumberDraft, Cases!ReadSituation, Cases!NumberStep

\* One more than the last step of a file in order.
LEMMA NextInOrder ==
  ASSUME DeskTypes, Cases!StepsInOrder, NEW c \in Case, NEW r \in Run, <<c, "step">> \notin raced
  PROVE  Cases!NextSeq(c, r) = Len(trajectory[c]) + 1
<1>1. PICK n \in Nat : n = Len(trajectory[c]) /\ DOMAIN trajectory[c] = 1 .. n
  BY DEF DeskTypes
<1>2. \A i \in 1 .. n : trajectory[c][i].seq = i
  BY <1>1 DEF Cases!StepsInOrder, Cases!Calm
<1>3. PICK seqs : seqs = {trajectory[c][i].seq : i \in DOMAIN trajectory[c]}
  OBVIOUS
<1>4. seqs = 1 .. n
  <2>1. seqs = {trajectory[c][i].seq : i \in 1 .. n}
    BY <1>1, <1>3
  <2>2. \A x : x \in seqs <=> \E i \in 1 .. n : x = trajectory[c][i].seq
    BY <2>1
  <2>3. \A x : x \in seqs <=> x \in 1 .. n
    BY <1>2, <2>2
  <2>4. QED
    BY <2>3
<1>5. Cases!NextSeq(c, r) = IF seqs = {} THEN 1 ELSE (CHOOSE x \in seqs : \A m \in seqs : m <= x) + 1
  BY <1>3 DEF Cases!NextSeq
<1>6. CASE n = 0
  BY <1>1, <1>4, <1>5, <1>6
<1>7. CASE n # 0
  <2>1. n \in seqs /\ \A m \in seqs : m <= n
    BY <1>4, <1>7
  <2>2. PICK h : h = CHOOSE x \in seqs : \A m \in seqs : m <= x
    OBVIOUS
  <2>3. h \in seqs /\ \A m \in seqs : m <= h
    BY <2>1, <2>2, Zenon
  <2>4. h = n
    BY <1>4, <2>1, <2>3
  <2>5. seqs # {}
    BY <2>1
  <2>6. QED
    BY <1>1, <1>5, <2>2, <2>4, <2>5
<1>8. QED
  BY <1>6, <1>7

\* A set of numbers up to N has a largest.
LEMMA LargestNumber ==
  ASSUME NEW N \in Nat, NEW S \in SUBSET (1 .. N), S # {}
  PROVE  \E n \in S : \A m \in S : m <= n
<1>1. PICK R : R = OpToRel(<, Nat)
  OBVIOUS
<1>2. IsWellFoundedOn(R, Nat)
  BY <1>1, NatLessThanWellFounded, Zenon
<1>3. \A x, y \in Nat : x < y => <<x, y>> \in R
  BY <1>1 DEF OpToRel
<1>4. PICK T : T = {N - s : s \in S}
  OBVIOUS
<1>5. T \subseteq Nat /\ T # {}
  <2>1. \A s \in S : N - s \in Nat
    OBVIOUS
  <2>2. PICK s \in S : TRUE
    OBVIOUS
  <2>3. N - s \in T
    BY <1>4
  <2>4. T \subseteq Nat
    BY <1>4, <2>1
  <2>5. QED
    BY <2>3, <2>4
<1>6. PICK x \in T : \A y \in T : <<y, x>> \notin R
  BY <1>2, <1>5, WFMin
<1>7. PICK n \in S : x = N - n
  BY <1>4
<1>8. ASSUME NEW m \in S PROVE m <= n
  <2>1. N - m \in T /\ N - m \in Nat /\ N - n \in Nat
    BY <1>4
  <2>2. ~ (N - m < N - n)
    BY <1>3, <1>6, <1>7, <2>1
  <2>3. QED
    BY <2>2
<1>9. QED
  BY <1>8

LEMMA NextIsNumber ==
  ASSUME DeskTypes, NumbersOK, NEW c \in Case, NEW r \in Run PROVE Cases!NextSeq(c, r) \in 1 .. calls + 1
<1>0. calls \in Nat
  BY DEF DeskTypes
<1>1. PICK seqs : seqs = {trajectory[c][i].seq : i \in DOMAIN trajectory[c]}
  OBVIOUS
<1>2. seqs \in SUBSET (1 .. calls)
  BY <1>1 DEF NumbersOK
<1>3. Cases!NextSeq(c, r) = IF seqs = {} THEN 1 ELSE (CHOOSE x \in seqs : \A m \in seqs : m <= x) + 1
  BY <1>1 DEF Cases!NextSeq
<1>4. CASE seqs = {}
  BY <1>0, <1>3, <1>4
<1>5. CASE seqs # {}
  <2>1. \E n \in seqs : \A m \in seqs : m <= n
    BY <1>0, <1>2, <1>5, LargestNumber
  <2>2. PICK h : h = CHOOSE x \in seqs : \A m \in seqs : m <= x
    OBVIOUS
  <2>3. h \in seqs
    BY <2>1, <2>2, Zenon
  <2>4. h \in 1 .. calls
    BY <1>2, <2>3
  <2>5. Cases!NextSeq(c, r) = h + 1
    BY <1>3, <1>5, <2>2
  <2>6. QED
    BY <1>0, <2>4, <2>5
<1>6. QED
  BY <1>4, <1>5

Calls == DraftCall \cup SituationCall \cup StepCall

LEMMA CallTypes ==
  ASSUME DeskTypes, NEW k \in Call, call[k] # Cases!Idle
  PROVE  /\ call[k] \in Calls /\ call[k].case \in Case /\ call[k].id \in 1 .. MaxCalls /\ call[k].run \in Run
         /\ call[k].op = "draft" => call[k] \in DraftCall /\ call[k].read \in Nat
         /\ call[k].op = "situation" => call[k] \in SituationCall /\ call[k].read \in SituationRead
         /\ call[k].op = "step" => call[k] \in StepCall /\ call[k].read \in Nat
<1>1. call[k] \in DraftCall \/ call[k] \in SituationCall \/ call[k] \in StepCall
  BY DEF DeskTypes
<1>2. ASSUME NEW d \in DraftCall PROVE d.op = "draft" /\ d.case \in Case /\ d.id \in 1 .. MaxCalls /\ d.run \in Run /\ d.read \in Nat
  BY DEF DraftCall
<1>3. ASSUME NEW d \in SituationCall
      PROVE  d.op = "situation" /\ d.case \in Case /\ d.id \in 1 .. MaxCalls /\ d.run \in Run /\ d.read \in SituationRead
  BY DEF SituationCall
<1>4. ASSUME NEW d \in StepCall PROVE d.op = "step" /\ d.case \in Case /\ d.id \in 1 .. MaxCalls /\ d.run \in Run /\ d.read \in Nat
  BY DEF StepCall
<1>5. QED
  BY <1>1, <1>2, <1>3, <1>4 DEF Calls

LEMMA IdleIsNone == ASSUME NEW d \in Calls PROVE d # Cases!Idle /\ d.op \in {"draft", "situation", "step"}
<1>1. d.op \in {"draft", "situation", "step"}
  BY DEF Calls, DraftCall, SituationCall, StepCall
<1>2. Cases!Idle.op = "idle"
  BY DEF Cases!Idle
<1>3. QED
  BY <1>1, <1>2

\* Steps that leave the files and the sends alone.
LEMMA DeskFrame ==
  ASSUME DeskInv, [Cases!Next]_(Cases!vars),
         UNCHANGED <<drafts, situation, trajectory, phase, pending, card, tool_told, sent, latest>>
  PROVE  /\ ToldOK' /\ PendingOK' /\ CardOK'
         /\ Cases!SentAsShown' /\ Cases!BeliefsKept' /\ Cases!ClaimsHaveProvenance' /\ Cases!StepsInOrder'
<1>1. raced \subseteq raced'
  BY RacedGrows
<1> USE DEF DeskInv
<1>2. ToldOK'
  BY <1>1 DEF ToldOK
<1>3. PendingOK' /\ CardOK'
  BY <1>1 DEF PendingOK, CardOK
<1>4. Cases!SentAsShown' /\ Cases!BeliefsKept' /\ Cases!ClaimsHaveProvenance' /\ Cases!StepsInOrder'
  BY <1>1 DEF Cases!SentAsShown, Cases!BeliefsKept, Cases!ClaimsHaveProvenance, Cases!StepsInOrder, Cases!Calm
<1>5. QED
  BY <1>2, <1>3, <1>4

\* What a call reads as it begins.
ReadsNow(c, op, read) ==
  /\ op = "draft" => read <= Len(drafts[c]) + 1
  /\ op \in {"draft", "step"} => read \in 1 .. calls + 1
  /\ <<c, op>> \notin raced =>
       /\ op = "draft" => read = Len(drafts[c]) + 1
       /\ op = "situation" => read.was = situation[c]
       /\ op = "step" => read = Len(trajectory[c]) + 1

\* A call begins: it is alone, or two have overlapped.
LEMMA BeginOK ==
  ASSUME Cases!CaseAssumption, DeskInv, [Cases!Next]_(Cases!vars),
         NEW k \in Call, NEW r \in Run, NEW c \in Case, NEW op, NEW read, Cases!Begin(k, r, c, op, read),
         NEW d \in Calls, d = [op |-> op, run |-> r, case |-> c, read |-> read, id |-> calls + 1],
         ReadsNow(c, op, read)
  PROVE  DeskInv'
<1> USE DEF DeskInv
<1>1. /\ call[k] = Cases!Idle /\ call' = [call EXCEPT ![k] = d] /\ calls < MaxCalls /\ calls' = calls + 1
      /\ raced' = IF \E o \in Call : call[o].op = op /\ call[o].case = c THEN raced \cup {<<c, op>>} ELSE raced
      /\ UNCHANGED <<drafts, situation, trajectory, phase, pending, card, tool_told, sent, latest>>
  BY DEF Cases!Begin
<1>2. d.op = op /\ d.case = c /\ d.read = read
  OBVIOUS
<1>2r. /\ op = "draft" => read <= Len(drafts[c]) + 1
       /\ op \in {"draft", "step"} => read \in 1 .. calls + 1
       /\ <<c, op>> \notin raced =>
            /\ op = "draft" => read = Len(drafts[c]) + 1
            /\ op = "situation" => read.was = situation[c]
            /\ op = "step" => read = Len(trajectory[c]) + 1
  BY DEF ReadsNow
<1>3. call'[k] = d /\ \A l \in Call : l # k => call'[l] = call[l]
  BY <1>1 DEF DeskTypes
<1>4. raced \subseteq raced'
  BY RacedGrows
<1>5. DeskTypes'
  <2>1. call' \in [Call -> {Cases!Idle} \cup DraftCall \cup SituationCall \cup StepCall]
    BY <1>1 DEF DeskTypes, Calls
  <2>2. calls' \in 0 .. MaxCalls
    BY <1>1, DeskNumbers DEF DeskTypes
  <2>3. QED
    BY <1>1, <2>1, <2>2 DEF DeskTypes
<1>6. AloneOK'
  <2>1. ASSUME NEW l \in Call, l # k, call[l].op = op, call[l].case = c PROVE <<c, op>> \in raced'
    BY <1>1, <2>1
  <2>2. SUFFICES ASSUME NEW x \in Call, NEW y \in Call, call'[x] # Cases!Idle, call'[y] # Cases!Idle,
                        call'[x].op = call'[y].op, call'[x].case = call'[y].case, <<call'[x].case, call'[x].op>> \notin raced', x # y
                 PROVE  FALSE
    BY DEF AloneOK
  <2>3. CASE x = k
    BY <1>2, <1>3, <2>1, <2>2, <2>3
  <2>4. CASE y = k
    BY <1>2, <1>3, <2>1, <2>2, <2>4
  <2>5. CASE x # k /\ y # k
    BY <1>3, <1>4, <2>2, <2>5 DEF AloneOK
  <2>6. QED
    BY <2>3, <2>4, <2>5
<1>7. ReadOK'
  <2>1. SUFFICES ASSUME NEW l \in Call, call'[l] # Cases!Idle, <<call'[l].case, call'[l].op>> \notin raced'
                 PROVE  /\ call'[l].op = "draft" => call'[l].read = Len(drafts[call'[l].case]) + 1
                        /\ call'[l].op = "situation" => call'[l].read.was = situation[call'[l].case]
                        /\ call'[l].op = "step" => call'[l].read = Len(trajectory[call'[l].case]) + 1
    BY <1>1 DEF ReadOK
  <2>2. <<call'[l].case, call'[l].op>> \notin raced
    BY <1>4, <2>1
  <2>3. CASE l = k
    BY <1>2, <1>2r, <1>3, <2>2, <2>3
  <2>4. CASE l # k
    BY <1>3, <2>1, <2>2, <2>4 DEF ReadOK
  <2>5. QED
    BY <2>3, <2>4
<1>8. NumbersOK'
  <2>1. calls \in Nat /\ calls' = calls + 1
    BY <1>1 DEF DeskTypes
  <2>2. ASSUME NEW x \in Case
        PROVE  /\ Len(drafts[x]) <= calls' /\ \A i \in DOMAIN trajectory[x] : trajectory[x][i].seq \in 1 .. calls'
    <3>1. Len(drafts[x]) \in Nat
      BY DEF DeskTypes
    <3>2. QED
      BY <2>1, <3>1 DEF NumbersOK
  <2>3. ASSUME NEW l \in Call, call'[l].op \in {"draft", "step"} PROVE call'[l].read \in 1 .. calls'
    <3>1. CASE l = k
      BY <1>2, <1>2r, <1>3, <2>1, <2>3, <3>1
    <3>2. CASE l # k
      BY <1>3, <2>1, <2>3, <3>2 DEF NumbersOK
    <3>3. QED
      BY <3>1, <3>2
  <2>4. QED
    BY <1>1, <2>2, <2>3 DEF NumbersOK
<1>9. ExistOK'
  <2>1. ASSUME NEW l \in Call, call'[l].op = "draft" PROVE call'[l].read <= Len(drafts[call'[l].case]) + 1
    <3>1. CASE l = k
      BY <1>2, <1>2r, <1>3, <2>1, <3>1
    <3>2. CASE l # k
      BY <1>3, <2>1, <3>2 DEF ExistOK
    <3>3. QED
      BY <3>1, <3>2
  <2>2. QED
    BY <1>1, <2>1 DEF ExistOK
<1>10. QED
  BY <1>1, <1>5, <1>6, <1>7, <1>8, <1>9, DeskFrame

LEMMA CallsBegin ==
  ASSUME Cases!CaseAssumption, DeskInv, [Cases!Next]_(Cases!vars), NEW k \in Call, NEW r \in Run, NEW c \in Case,
         Cases!NumberDraft(k, r, c) \/ Cases!ReadSituation(k, r, c) \/ Cases!NumberStep(k, r, c)
  PROVE  DeskInv'
<1>0. ASSUME NEW op, NEW read, Cases!Begin(k, r, c, op, read) PROVE calls + 1 \in 1 .. MaxCalls
  BY <1>0, DeskNumbers DEF Cases!Begin, DeskInv, DeskTypes
<1>1. CASE Cases!NumberDraft(k, r, c)
  <2>1. PICK n : n = Len(drafts[c]) + 1
    OBVIOUS
  <2>2. Cases!Begin(k, r, c, "draft", n)
    BY <1>1, <2>1 DEF Cases!NumberDraft, Cases!DraftNumber
  <2>3. n \in Nat /\ n \in 1 .. calls + 1
    <3>1. Len(drafts[c]) \in Nat /\ calls \in Nat /\ Len(drafts[c]) <= calls
      BY DEF DeskInv, DeskTypes, NumbersOK
    <3>2. QED
      BY <2>1, <3>1
  <2>4. PICK d : d = [op |-> "draft", run |-> r, case |-> c, read |-> n, id |-> calls + 1]
    OBVIOUS
  <2>5. d \in Calls
    BY <1>0, <2>2, <2>3, <2>4 DEF Calls, DraftCall
  <2>6. QED
    <3>1. ReadsNow(c, "draft", n)
      BY <2>1, <2>3 DEF ReadsNow
    <3>2. QED
      BY <2>2, <2>4, <2>5, <3>1, BeginOK, Zenon
<1>2. CASE Cases!ReadSituation(k, r, c)
  <2>1. PICK key \in Key, v \in Belief, evidence \in BOOLEAN :
          Cases!Begin(k, r, c, "situation", [was |-> situation[c], key |-> key, value |-> v, evidence |-> evidence])
    BY <1>2 DEF Cases!ReadSituation, Belief
  <2>2. PICK delta : delta = [was |-> situation[c], key |-> key, value |-> v, evidence |-> evidence]
    OBVIOUS
  <2>3. delta \in SituationRead /\ delta.was = situation[c]
    BY <2>2 DEF DeskInv, DeskTypes, SituationRead
  <2>4. PICK d : d = [op |-> "situation", run |-> r, case |-> c, read |-> delta, id |-> calls + 1]
    OBVIOUS
  <2>5. d \in Calls
    BY <1>0, <2>1, <2>2, <2>3, <2>4 DEF Calls, SituationCall
  <2>6. Cases!Begin(k, r, c, "situation", delta)
    BY <2>1, <2>2
  <2>7. QED
    <3>1. ReadsNow(c, "situation", delta)
      BY <2>3 DEF ReadsNow
    <3>2. QED
      BY <2>4, <2>5, <2>6, <3>1, BeginOK, Zenon
<1>3. CASE Cases!NumberStep(k, r, c)
  <2>1. PICK n : n = Cases!NextSeq(c, r)
    OBVIOUS
  <2>2. Cases!Begin(k, r, c, "step", n)
    BY <1>3, <2>1 DEF Cases!NumberStep
  <2>3. n \in Nat /\ n \in 1 .. calls + 1
    <3>1. n \in 1 .. calls + 1 /\ calls \in Nat
      BY <2>1, NextIsNumber DEF DeskInv, DeskTypes
    <3>2. QED
      BY <3>1
  <2>4. <<c, "step">> \notin raced => n = Len(trajectory[c]) + 1
    BY <2>1, NextInOrder DEF DeskInv
  <2>5. PICK d : d = [op |-> "step", run |-> r, case |-> c, read |-> n, id |-> calls + 1]
    OBVIOUS
  <2>6. d \in Calls
    BY <1>0, <2>2, <2>3, <2>5 DEF Calls, StepCall
  <2>7. QED
    <3>1. ReadsNow(c, "step", n)
      BY <2>3, <2>4 DEF ReadsNow
    <3>2. QED
      BY <2>2, <2>5, <2>6, <3>1, BeginOK, Zenon
<1>4. QED
  BY <1>1, <1>2, <1>3

\* The call that ends was alone, or two have overlapped.
LEMMA EndsAlone ==
  ASSUME DeskInv, [Cases!Next]_(Cases!vars), NEW k \in Call, call[k] # Cases!Idle,
         call' = [call EXCEPT ![k] = Cases!Idle], calls' = calls
  PROVE  /\ AloneOK' /\ call' \in [Call -> {Cases!Idle} \cup DraftCall \cup SituationCall \cup StepCall]
         /\ \A l \in Call : call'[l] # Cases!Idle =>
              /\ l # k /\ call'[l] = call[l]
              /\ call[l].op = call[k].op /\ call[l].case = call[k].case => <<call[k].case, call[k].op>> \in raced
<1> USE DEF DeskInv
<1>1. raced \subseteq raced'
  BY RacedGrows
<1>2. \A l \in Call : call'[l] # Cases!Idle => l # k /\ call'[l] = call[l]
  BY DEF DeskTypes
<1>3. call' \in [Call -> {Cases!Idle} \cup DraftCall \cup SituationCall \cup StepCall]
  BY DEF DeskTypes
<1>4. AloneOK'
  BY <1>1, <1>2 DEF AloneOK
<1>5. QED
  BY <1>2, <1>3, <1>4 DEF AloneOK

LEMMA PlaceOK ==
  ASSUME Cases!CaseAssumption, DeskInv, [Cases!Next]_(Cases!vars), NEW k \in Call, Cases!PlaceDraft(k) PROVE DeskInv'
<1> USE DEF DeskInv
<1>0. call[k] # Cases!Idle /\ call[k].op = "draft"
  BY DEF Cases!PlaceDraft, Cases!Idle
<1>1. PICK c, n, text : c = call[k].case /\ n = call[k].read /\ text = call[k].id
  OBVIOUS
<1>2. c \in Case /\ n \in Nat /\ text \in 1 .. MaxCalls
  BY <1>0, <1>1, CallTypes
<1>3. /\ drafts' = [drafts EXCEPT ![c] = IF n > Len(@) THEN Append(@, text) ELSE [@ EXCEPT ![n] = text]]
      /\ tool_told' = tool_told \cup {[case |-> c, number |-> n, text |-> text]}
      /\ call' = [call EXCEPT ![k] = Cases!Idle]
      /\ UNCHANGED <<situation, trajectory, calls, phase, pending, card, sent, latest, raced>>
  BY <1>1 DEF Cases!PlaceDraft, Cases!Return
<1>4. AloneOK' /\ call' \in [Call -> {Cases!Idle} \cup DraftCall \cup SituationCall \cup StepCall]
  BY <1>0, <1>3, EndsAlone
<1>5. \A x \in Case : drafts[x] \in Seq(1 .. MaxCalls)
  BY DEF DeskTypes
<1>6. /\ drafts'[c] \in Seq(1 .. MaxCalls) /\ Len(drafts'[c]) <= calls /\ \A x \in Case \ {c} : drafts'[x] = drafts[x]
      /\ Len(drafts[c]) <= Len(drafts'[c]) /\ n \in 1 .. Len(drafts'[c])
  <2>1. drafts'[c] = IF n > Len(drafts[c]) THEN Append(drafts[c], text) ELSE [drafts[c] EXCEPT ![n] = text]
    BY <1>2, <1>3 DEF DeskTypes
  <2>2. PICK file \in Seq(1 .. MaxCalls) : file = drafts[c]
    BY <1>2, <1>5
  <2>3. Append(file, text) \in Seq(1 .. MaxCalls) /\ Len(Append(file, text)) = Len(file) + 1
    BY <1>2, <2>2
  <2>4. [file EXCEPT ![n] = text] \in Seq(1 .. MaxCalls) /\ Len([file EXCEPT ![n] = text]) = Len(file)
    <3>1. PICK L \in Nat : file \in [1 .. L -> 1 .. MaxCalls] /\ L = Len(file)
      BY <2>2, LenProperties
    <3>2. [file EXCEPT ![n] = text] \in [1 .. L -> 1 .. MaxCalls]
      BY <1>2, <3>1
    <3>3. QED
      BY <3>1, <3>2
  <2>5. \A x \in Case \ {c} : drafts'[x] = drafts[x]
    BY <1>3 DEF DeskTypes
  <2>6. Len(file) \in Nat /\ Len(file) <= calls
    BY <1>2, <2>2 DEF NumbersOK
  <2>7. calls \in Nat /\ n <= calls /\ 1 <= n /\ n <= Len(file) + 1
    <3>1. n \in 1 .. calls
      BY <1>0, <1>1 DEF NumbersOK
    <3>2. n <= Len(drafts[c]) + 1
      BY <1>0, <1>1 DEF ExistOK
    <3>3. QED
      BY <2>2, <3>1, <3>2 DEF DeskTypes
  <2>8. CASE n > Len(file)
    <3>1. drafts'[c] = Append(file, text)
      <4>1. drafts'[c] = IF n > Len(file) THEN Append(file, text) ELSE [file EXCEPT ![n] = text]
        BY <2>1, <2>2
      <4>2. QED
        BY <2>8, <4>1, Zenon
    <3>2. Len(file) + 1 <= calls
      BY <1>2, <2>6, <2>7, <2>8
    <3>3. n = Len(file) + 1
      BY <1>2, <2>6, <2>7, <2>8
    <3>4. QED
      BY <2>2, <2>3, <2>5, <2>6, <2>7, <3>1, <3>2, <3>3
  <2>9. CASE ~ (n > Len(file))
    <3>1. drafts'[c] = [file EXCEPT ![n] = text]
      BY <2>1, <2>2, <2>9
    <3>2. n <= Len(file)
      BY <1>2, <2>6, <2>9
    <3>3. QED
      BY <1>2, <2>2, <2>4, <2>5, <2>6, <2>7, <3>1, <3>2
  <2>10. QED
    BY <2>8, <2>9
<1>7. DeskTypes'
  <2>1. drafts' \in [Case -> Seq(1 .. MaxCalls)]
    BY <1>3, <1>5, <1>6 DEF DeskTypes
  <2>2. tool_told' \subseteq Reference
    BY <1>2, <1>3 DEF DeskTypes, Reference
  <2>3. QED
    BY <1>3, <1>4, <2>1, <2>2 DEF DeskTypes
<1>8. <<c, "draft">> \notin raced =>
        /\ n = Len(drafts[c]) + 1 /\ drafts'[c] = Append(drafts[c], text)
        /\ Len(drafts'[c]) = n /\ drafts'[c][n] = text /\ \A i \in 1 .. Len(drafts[c]) : drafts'[c][i] = drafts[c][i]
  <2>1. SUFFICES ASSUME <<c, "draft">> \notin raced
                 PROVE  /\ n = Len(drafts[c]) + 1 /\ drafts'[c] = Append(drafts[c], text)
                        /\ Len(drafts'[c]) = n /\ drafts'[c][n] = text
                        /\ \A i \in 1 .. Len(drafts[c]) : drafts'[c][i] = drafts[c][i]
    OBVIOUS
  <2>2. n = Len(drafts[c]) + 1
    BY <1>0, <1>1, <2>1 DEF ReadOK
  <2>3. drafts'[c] = Append(drafts[c], text)
    BY <1>2, <1>3, <1>5, <2>2 DEF DeskTypes
  <2>4. QED
    BY <1>2, <1>5, <2>2, <2>3
<1>9. ASSUME NEW t \in tool_told, <<t.case, "draft">> \notin raced
      PROVE  /\ t.number \in DOMAIN drafts[t.case] /\ drafts[t.case][t.number] = t.text
             /\ t.number \in DOMAIN drafts'[t.case] /\ drafts'[t.case][t.number] = t.text
  <2>1. t.number \in DOMAIN drafts[t.case] /\ drafts[t.case][t.number] = t.text /\ t.case \in Case
    BY <1>9 DEF ToldOK, DeskTypes, Reference
  <2>2. CASE t.case # c
    BY <1>6, <2>1, <2>2
  <2>3. CASE t.case = c
    <3>1. drafts[c] \in Seq(1 .. MaxCalls) /\ drafts'[c] \in Seq(1 .. MaxCalls)
      BY <1>2, <1>5, <1>6
    <3>2. DOMAIN drafts[c] = 1 .. Len(drafts[c]) /\ DOMAIN drafts'[c] = 1 .. Len(drafts'[c]) /\ Len(drafts[c]) \in Nat
      BY <3>1
    <3>3. Len(drafts'[c]) = Len(drafts[c]) + 1 /\ \A i \in 1 .. Len(drafts[c]) : drafts'[c][i] = drafts[c][i]
      BY <1>8, <1>9, <2>3
    <3>4. t.number \in 1 .. Len(drafts[c])
      BY <2>1, <2>3, <3>2
    <3>5. t.number \in DOMAIN drafts'[c]
      BY <3>2, <3>3, <3>4
    <3>6. QED
      BY <2>1, <2>3, <3>3, <3>4, <3>5
  <2>4. QED
    BY <2>1, <2>2, <2>3
<1>10. ToldOK'
  <2>1. SUFFICES ASSUME NEW t \in tool_told', <<t.case, "draft">> \notin raced
                 PROVE  t.number \in DOMAIN drafts'[t.case] /\ drafts'[t.case][t.number] = t.text
    BY <1>3 DEF ToldOK
  <2>2. CASE t \in tool_told
    BY <1>9, <2>1, <2>2
  <2>3. CASE t \notin tool_told
    <3>1. t.case = c /\ t.number = n /\ t.text = text
      BY <1>3, <2>1, <2>3
    <3>2. QED
      BY <1>2, <1>6, <1>8, <2>1, <3>1
  <2>4. QED
    BY <2>2, <2>3
<1>11. ReadOK'
  <2>1. SUFFICES ASSUME NEW l \in Call, call'[l] # Cases!Idle, <<call'[l].case, call'[l].op>> \notin raced
                 PROVE  /\ call'[l].op = "draft" => call'[l].read = Len(drafts'[call'[l].case]) + 1
                        /\ call'[l].op = "situation" => call'[l].read.was = situation[call'[l].case]
                        /\ call'[l].op = "step" => call'[l].read = Len(trajectory[call'[l].case]) + 1
    BY <1>3 DEF ReadOK
  <2>2. call'[l] = call[l] /\ call[l] # Cases!Idle /\ call[l].case \in Case
    BY <1>0, <1>3, <2>1, EndsAlone, CallTypes
  <2>3. call[l].op = "draft" => call[l].case # c
    BY <1>0, <1>1, <1>3, <2>1, <2>2, EndsAlone
  <2>4. QED
    BY <1>6, <2>1, <2>2, <2>3 DEF ReadOK
<1>12. PendingOK'
  BY <1>3 DEF PendingOK
<1>13. CardOK'
  <2>1. ASSUME NEW r \in Run, phase[r] \in {"asked", "sending"}, <<pending[r][1][1], "draft">> \notin raced
        PROVE  card[r] \in {Nothing, drafts'[pending[r][1][1]][pending[r][1][2]]}
    <3>1. 1 \in DOMAIN pending[r]
      BY <2>1 DEF PendingOK, DeskTypes
    <3>2. PICK t \in tool_told : t.case = pending[r][1][1] /\ t.number = pending[r][1][2]
      BY <3>1 DEF PendingOK
    <3>3. drafts'[t.case][t.number] = drafts[t.case][t.number]
      BY <1>9, <2>1, <3>2
    <3>4. QED
      BY <2>1, <3>2, <3>3 DEF CardOK
  <2>2. QED
    BY <1>3, <2>1 DEF CardOK
<1>14. Cases!SentAsShown' /\ Cases!BeliefsKept' /\ Cases!ClaimsHaveProvenance' /\ Cases!StepsInOrder'
  BY <1>3 DEF Cases!SentAsShown, Cases!BeliefsKept, Cases!ClaimsHaveProvenance, Cases!StepsInOrder, Cases!Calm
<1>15. NumbersOK' /\ ExistOK'
  <2>1. ASSUME NEW l \in Call, call'[l].op \in {"draft", "step"} PROVE call'[l] = call[l]
    <3>1. Cases!Idle.op = "idle"
      BY DEF Cases!Idle
    <3>2. QED
      BY <1>0, <1>3, <2>1, <3>1, EndsAlone
  <2>2. \A x \in Case : /\ Len(drafts[x]) \in Nat /\ DOMAIN drafts[x] = 1 .. Len(drafts[x])
                        /\ Len(drafts'[x]) \in Nat /\ DOMAIN drafts'[x] = 1 .. Len(drafts'[x])
                        /\ Len(drafts[x]) <= Len(drafts'[x])
    <3>1. ASSUME NEW x \in Case
          PROVE  /\ Len(drafts[x]) \in Nat /\ DOMAIN drafts[x] = 1 .. Len(drafts[x])
                 /\ Len(drafts'[x]) \in Nat /\ DOMAIN drafts'[x] = 1 .. Len(drafts'[x])
      BY <1>5, <1>7, LenProperties DEF DeskTypes
    <3>2. ASSUME NEW x \in Case PROVE Len(drafts[x]) <= Len(drafts'[x])
      <4>1. CASE x = c
        BY <1>6, <4>1
      <4>2. CASE x # c
        BY <1>6, <3>1, <4>2
      <4>3. QED
        BY <4>1, <4>2
    <3>3. QED
      BY <3>1, <3>2
  <2>3. ASSUME NEW l \in Call, call'[l].op = "draft" PROVE call'[l].read <= Len(drafts'[call'[l].case]) + 1
    <3>1. call'[l] = call[l]
      BY <2>1, <2>3
    <3>2. call[l] # Cases!Idle
      BY <2>3, <3>1 DEF Cases!Idle
    <3>3. call[l].case \in Case /\ call[l].read \in Nat
      BY <2>3, <3>1, <3>2, CallTypes
    <3>4. call[l].read <= Len(drafts[call[l].case]) + 1
      BY <2>3, <3>1 DEF ExistOK
    <3>5. QED
      BY <2>2, <3>1, <3>3, <3>4
  <2>4. ASSUME NEW t \in tool_told' PROVE t.number \in DOMAIN drafts'[t.case]
    <3>1. CASE t \in tool_told
      <4>1. t.number \in DOMAIN drafts[t.case] /\ t.case \in Case
        BY <3>1 DEF ExistOK, DeskTypes, Reference
      <4>2. QED
        BY <2>2, <4>1
    <3>2. CASE t \notin tool_told
      <4>1. t.case = c /\ t.number = n
        BY <1>3, <2>4, <3>2
      <4>2. n \in 1 .. Len(drafts'[c])
        BY <1>6
      <4>3. QED
        BY <1>2, <2>2, <4>1, <4>2
    <3>3. QED
      BY <3>1, <3>2
  <2>5. QED
    BY <1>3, <1>6, <2>1, <2>3, <2>4 DEF NumbersOK, ExistOK
<1>16. QED
  BY <1>4, <1>7, <1>10, <1>11, <1>12, <1>13, <1>14, <1>15

\* A belief is written over what was read; a claim without provenance is refused.
LEMMA WriteOK ==
  ASSUME Cases!CaseAssumption, DeskInv, [Cases!Next]_(Cases!vars), NEW k \in Call, Cases!WriteSituation(k) PROVE DeskInv'
<1> USE DEF DeskInv
<1>0. call[k] # Cases!Idle /\ call[k].op = "situation"
  BY DEF Cases!WriteSituation, Cases!Idle
<1>1. PICK c, d : c = call[k].case /\ d = call[k].read
  OBVIOUS
<1>2. c \in Case /\ d \in SituationRead
  BY <1>0, <1>1, CallTypes
<1>3. /\ call' = [call EXCEPT ![k] = Cases!Idle]
      /\ UNCHANGED <<drafts, trajectory, calls, phase, pending, card, tool_told, sent, raced>>
  BY DEF Cases!WriteSituation, Cases!Return
<1>4. AloneOK' /\ call' \in [Call -> {Cases!Idle} \cup DraftCall \cup SituationCall \cup StepCall]
  BY <1>0, <1>3, EndsAlone
<1>5. PICK m : m = Cases!Merged(d)
  OBVIOUS
<1>6. m \in Cases!Situation /\ m.state = [d.was.state EXCEPT ![d.key] = d.value]
  <2>1. /\ d.was.state \in [Key -> Belief] /\ d.was.provenance \in BOOLEAN /\ d.key \in Key
        /\ d.value \in Belief /\ d.evidence \in BOOLEAN
    BY <1>2 DEF SituationRead, Cases!Situation, Belief
  <2>2. [d.was.state EXCEPT ![d.key] = d.value] \in [Key -> Belief]
    BY <2>1
  <2>3. (d.was.provenance \/ d.evidence) \in BOOLEAN
    OBVIOUS
  <2>4. QED
    BY <1>5, <2>2, <2>3 DEF Cases!Merged, Cases!Situation, Belief
<1>7. IF Cases!Proven(m, d) THEN situation' = [situation EXCEPT ![c] = m] /\ latest' = [latest EXCEPT ![c][d.key] = d.value]
                            ELSE UNCHANGED <<situation, latest>>
  BY <1>1, <1>5 DEF Cases!WriteSituation
<1>8. /\ \A x \in Case \ {c} : situation'[x] = situation[x] /\ latest'[x] = latest[x]
      /\ situation' \in [Case -> Cases!Situation] /\ latest' \in [Case -> [Key -> Belief]]
  <2>1. d.key \in Key /\ d.value \in Belief
    BY <1>2 DEF SituationRead
  <2>2. CASE Cases!Proven(m, d)
    <3>1. situation' = [situation EXCEPT ![c] = m] /\ latest' = [latest EXCEPT ![c][d.key] = d.value]
      BY <1>7, <2>2
    <3>2. latest' \in [Case -> [Key -> Belief]] /\ \A x \in Case \ {c} : latest'[x] = latest[x]
      BY <1>2, <2>1, <3>1 DEF DeskTypes
    <3>3. situation' \in [Case -> Cases!Situation] /\ \A x \in Case \ {c} : situation'[x] = situation[x]
      BY <1>2, <1>6, <3>1 DEF DeskTypes
    <3>4. QED
      BY <3>2, <3>3
  <2>3. CASE ~ Cases!Proven(m, d)
    BY <1>7, <2>3 DEF DeskTypes
  <2>4. QED
    BY <2>2, <2>3
<1>9. DeskTypes'
  BY <1>3, <1>4, <1>8 DEF DeskTypes
<1>10. \A l \in Call : call'[l] # Cases!Idle => l # k /\ call'[l] = call[l]
  BY <1>0, <1>3, EndsAlone
<1>11. NumbersOK' /\ ExistOK'
  <2>1. Cases!Idle.op = "idle"
    BY DEF Cases!Idle
  <2>2. ASSUME NEW l \in Call, call'[l].op \in {"draft", "step"} PROVE call'[l] = call[l]
    BY <1>10, <2>1, <2>2
  <2>3. QED
    BY <1>3, <2>2 DEF NumbersOK, ExistOK
<1>12. ReadOK'
  <2>1. SUFFICES ASSUME NEW l \in Call, call'[l] # Cases!Idle, <<call'[l].case, call'[l].op>> \notin raced
                 PROVE  /\ call'[l].op = "draft" => call'[l].read = Len(drafts[call'[l].case]) + 1
                        /\ call'[l].op = "situation" => call'[l].read.was = situation'[call'[l].case]
                        /\ call'[l].op = "step" => call'[l].read = Len(trajectory[call'[l].case]) + 1
    BY <1>3 DEF ReadOK
  <2>2. call'[l] = call[l] /\ call[l] # Cases!Idle
    BY <1>10, <2>1
  <2>3. call[l].case \in Case
    BY <2>2, CallTypes
  <2>4. call[l].op = "situation" => call[l].case # c
    BY <1>0, <1>1, <1>3, <2>1, <2>2, EndsAlone
  <2>5. call[l].op = "situation" => situation'[call[l].case] = situation[call[l].case]
    BY <1>8, <2>3, <2>4
  <2>6. QED
    BY <2>1, <2>2, <2>5 DEF ReadOK
<1>13. Cases!BeliefsKept'
  <2>1. SUFFICES ASSUME NEW x \in Case, <<x, "situation">> \notin raced PROVE situation'[x].state = latest'[x]
    BY <1>3 DEF Cases!BeliefsKept, Cases!Calm
  <2>2. situation[x].state = latest[x]
    BY <2>1 DEF Cases!BeliefsKept, Cases!Calm
  <2>3. CASE x # c
    BY <1>8, <2>2, <2>3
  <2>4. CASE x = c /\ ~ Cases!Proven(m, d)
    BY <1>7, <2>2, <2>4
  <2>5. CASE x = c /\ Cases!Proven(m, d)
    <3>1. d.was = situation[c]
      BY <1>0, <1>1, <2>1, <2>5 DEF ReadOK
    <3>2. situation'[c] = m
      BY <1>2, <1>7, <2>5 DEF DeskTypes
    <3>3. latest'[c] = [latest[c] EXCEPT ![d.key] = d.value]
      BY <1>2, <1>7, <2>5 DEF DeskTypes
    <3>4. QED
      BY <1>6, <2>2, <2>5, <3>1, <3>2, <3>3
  <2>6. QED
    BY <2>3, <2>4, <2>5
<1>14. Cases!ClaimsHaveProvenance'
  <2>1. SUFFICES ASSUME NEW x \in Case, situation'[x].state # Cases!Unknown PROVE situation'[x].provenance
    BY DEF Cases!ClaimsHaveProvenance, Cases!Unknown
  <2>2. CASE x # c \/ ~ Cases!Proven(m, d)
    BY <1>7, <1>8, <2>1, <2>2 DEF Cases!ClaimsHaveProvenance
  <2>3. CASE x = c /\ Cases!Proven(m, d)
    <3>1. situation'[c] = m
      BY <1>2, <1>7, <2>3 DEF DeskTypes
    <3>2. QED
      BY <2>1, <2>3, <3>1 DEF Cases!Proven
  <2>4. QED
    BY <2>2, <2>3
<1>15. ToldOK' /\ PendingOK' /\ CardOK' /\ Cases!SentAsShown' /\ Cases!StepsInOrder'
  BY <1>3 DEF ToldOK, PendingOK, CardOK, Cases!SentAsShown, Cases!StepsInOrder, Cases!Calm
<1>16. QED
  BY <1>4, <1>9, <1>11, <1>12, <1>13, <1>14, <1>15

LEMMA AppendOK ==
  ASSUME Cases!CaseAssumption, DeskInv, [Cases!Next]_(Cases!vars), NEW k \in Call, Cases!AppendStep(k) PROVE DeskInv'
<1> USE DEF DeskInv
<1>0. call[k] # Cases!Idle /\ call[k].op = "step"
  BY DEF Cases!AppendStep, Cases!Idle
<1>1. PICK c, n, run : c = call[k].case /\ n = call[k].read /\ run = call[k].run
  OBVIOUS
<1>2. c \in Case /\ n \in Nat /\ run \in Run /\ n \in 1 .. calls
  BY <1>0, <1>1, CallTypes DEF NumbersOK
<1>3. PICK step : step = [seq |-> n, run |-> run]
  OBVIOUS
<1>4. step \in TakenStep /\ step.seq = n
  BY <1>2, <1>3 DEF TakenStep
<1>5. /\ trajectory' = [trajectory EXCEPT ![c] = Append(@, step)]
      /\ call' = [call EXCEPT ![k] = Cases!Idle]
      /\ UNCHANGED <<drafts, situation, calls, phase, pending, card, tool_told, sent, latest, raced>>
  BY <1>1, <1>3 DEF Cases!AppendStep, Cases!Return
<1>6. AloneOK' /\ call' \in [Call -> {Cases!Idle} \cup DraftCall \cup SituationCall \cup StepCall]
  BY <1>0, <1>5, EndsAlone
<1>7. PICK file \in Seq(TakenStep) : file = trajectory[c]
  BY <1>2 DEF DeskTypes
<1>8. PICK L \in Nat : L = Len(file) /\ DOMAIN file = 1 .. L
  BY <1>7
<1>9. /\ Append(file, step) \in Seq(TakenStep) /\ DOMAIN Append(file, step) = 1 .. L + 1
      /\ Append(file, step)[L + 1] = step /\ \A i \in 1 .. L : Append(file, step)[i] = file[i]
  BY <1>4, <1>7, <1>8
<1>10. trajectory'[c] = Append(file, step) /\ \A x \in Case \ {c} : trajectory'[x] = trajectory[x]
  BY <1>2, <1>5, <1>7 DEF DeskTypes
<1>11. DeskTypes'
  <2>1. trajectory' \in [Case -> Seq(TakenStep)]
    BY <1>5, <1>9, <1>10 DEF DeskTypes
  <2>2. QED
    BY <1>5, <1>6, <2>1 DEF DeskTypes
<1>12. \A l \in Call : call'[l] # Cases!Idle => l # k /\ call'[l] = call[l]
  BY <1>0, <1>5, EndsAlone
<1>13. NumbersOK' /\ ExistOK'
  <2>1. Cases!Idle.op = "idle"
    BY DEF Cases!Idle
  <2>2. ASSUME NEW l \in Call, call'[l].op \in {"draft", "step"} PROVE call'[l] = call[l]
    BY <1>12, <2>1, <2>2
  <2>3. ASSUME NEW x \in Case, NEW i \in DOMAIN trajectory'[x] PROVE trajectory'[x][i].seq \in 1 .. calls
    <3>1. CASE x # c
      BY <1>10, <2>3, <3>1 DEF NumbersOK
    <3>2. CASE x = c
      <4>1. \A j \in 1 .. L : file[j].seq \in 1 .. calls
        BY <1>2, <1>7, <1>8 DEF NumbersOK
      <4>2. i \in 1 .. L \/ i = L + 1
        BY <1>8, <1>9, <1>10, <2>3, <3>2
      <4>3. QED
        BY <1>2, <1>4, <1>9, <1>10, <3>2, <4>1, <4>2
    <3>3. QED
      BY <3>1, <3>2
  <2>4. QED
    BY <1>5, <2>2, <2>3 DEF NumbersOK, ExistOK
<1>14. ReadOK'
  <2>1. SUFFICES ASSUME NEW l \in Call, call'[l] # Cases!Idle, <<call'[l].case, call'[l].op>> \notin raced
                 PROVE  /\ call'[l].op = "draft" => call'[l].read = Len(drafts[call'[l].case]) + 1
                        /\ call'[l].op = "situation" => call'[l].read.was = situation[call'[l].case]
                        /\ call'[l].op = "step" => call'[l].read = Len(trajectory'[call'[l].case]) + 1
    BY <1>5 DEF ReadOK
  <2>2. call'[l] = call[l] /\ call[l] # Cases!Idle
    BY <1>12, <2>1
  <2>3. call[l].case \in Case
    BY <2>2, CallTypes
  <2>4. call[l].op = "step" => call[l].case # c
    BY <1>0, <1>1, <1>5, <2>1, <2>2, EndsAlone
  <2>5. call[l].op = "step" => trajectory'[call[l].case] = trajectory[call[l].case]
    BY <1>10, <2>3, <2>4
  <2>6. QED
    BY <2>1, <2>2, <2>5 DEF ReadOK
<1>15. Cases!StepsInOrder'
  <2>1. SUFFICES ASSUME NEW x \in Case, <<x, "step">> \notin raced, NEW i \in DOMAIN trajectory'[x] PROVE trajectory'[x][i].seq = i
    BY <1>5 DEF Cases!StepsInOrder, Cases!Calm
  <2>2. \A j \in DOMAIN trajectory[x] : trajectory[x][j].seq = j
    BY <2>1 DEF Cases!StepsInOrder, Cases!Calm
  <2>3. CASE x # c
    BY <1>10, <2>1, <2>2, <2>3
  <2>4. CASE x = c
    <3>1. n = L + 1
      BY <1>0, <1>1, <1>7, <1>8, <2>1, <2>4 DEF ReadOK
    <3>2. i \in 1 .. L \/ i = L + 1
      BY <1>8, <1>9, <1>10, <2>1, <2>4
    <3>3. QED
      BY <1>4, <1>7, <1>8, <1>9, <1>10, <2>2, <2>4, <3>1, <3>2
  <2>5. QED
    BY <2>3, <2>4
<1>16. ToldOK' /\ PendingOK' /\ CardOK' /\ Cases!SentAsShown' /\ Cases!BeliefsKept' /\ Cases!ClaimsHaveProvenance'
  BY <1>5 DEF ToldOK, PendingOK, CardOK, Cases!SentAsShown, Cases!BeliefsKept, Cases!ClaimsHaveProvenance, Cases!Calm
<1>17. QED
  BY <1>6, <1>11, <1>13, <1>14, <1>15, <1>16

\* A run asks to send what the tool returned; nothing of its own is at work.
LEMMA RequestOK ==
  ASSUME Cases!CaseAssumption, DeskInv, [Cases!Next]_(Cases!vars), NEW r \in Run, Cases!RequestSend(r) PROVE DeskInv'
<1> USE DEF DeskInv
<1>1. PICK t \in tool_told, u \in tool_told :
        pending' = [pending EXCEPT ![r] = IF t = u THEN <<<<t.case, t.number>>>>
                                          ELSE <<<<t.case, t.number>>, <<u.case, u.number>>>>]
  BY DEF Cases!RequestSend
<1>2. /\ phase[r] = "running" /\ phase' = [phase EXCEPT ![r] = "pausing"]
      /\ UNCHANGED <<drafts, situation, trajectory, call, calls, card, tool_told, sent, latest, raced>>
  BY DEF Cases!RequestSend
<1>3. PICK one, two : one = <<t.case, t.number>> /\ two = <<u.case, u.number>>
  OBVIOUS
<1>4. one \in Case \X Nat /\ two \in Case \X Nat
  BY <1>3 DEF DeskTypes, Reference
<1>5. PICK batch : batch = IF t = u THEN <<one>> ELSE <<one, two>>
  OBVIOUS
<1>6. batch \in Seq(Case \X Nat) /\ batch # <<>> /\ \A i \in DOMAIN batch : batch[i] \in {one, two}
  <2>1. CASE t = u
    <3>1. batch = <<one>>
      BY <1>5, <2>1
    <3>2. QED
      BY <1>4, <3>1
  <2>2. CASE t # u
    <3>1. batch = <<one, two>>
      BY <1>5, <2>2
    <3>2. QED
      BY <1>4, <3>1
  <2>3. QED
    BY <2>1, <2>2
<1>7. pending' = [pending EXCEPT ![r] = batch]
  BY <1>1, <1>3, <1>5
<1>8. pending'[r] = batch /\ phase'[r] = "pausing" /\ \A q \in Run \ {r} : pending'[q] = pending[q] /\ phase'[q] = phase[q]
  BY <1>2, <1>7 DEF DeskTypes
<1>9. DeskTypes'
  <2>1. pending' \in [Run -> Seq(Case \X Nat)]
    BY <1>6, <1>7 DEF DeskTypes
  <2>2. phase' \in [Run -> {"running", "pausing", "asked", "sending", "ended"}]
    BY <1>2 DEF DeskTypes
  <2>3. QED
    BY <1>2, <2>1, <2>2 DEF DeskTypes
<1>10. PendingOK'
  <2>1. SUFFICES ASSUME NEW q \in Run
                 PROVE  /\ \A i \in DOMAIN pending'[q] : \E x \in tool_told : x.case = pending'[q][i][1] /\ x.number = pending'[q][i][2]
                        /\ phase'[q] \in {"pausing", "asked", "sending"} => pending'[q] # <<>>
    BY <1>2 DEF PendingOK
  <2>2. CASE q = r
    <3>1. ASSUME NEW i \in DOMAIN batch PROVE \E x \in tool_told : x.case = batch[i][1] /\ x.number = batch[i][2]
      <4>1. one[1] = t.case /\ one[2] = t.number /\ two[1] = u.case /\ two[2] = u.number
        BY <1>3
      <4>2. batch[i] = one \/ batch[i] = two
        BY <1>6
      <4>3. QED
        BY <4>1, <4>2
    <3>2. QED
      BY <1>6, <1>8, <2>2, <3>1
  <2>3. CASE q # r
    BY <1>8, <2>3 DEF PendingOK
  <2>4. QED
    BY <2>2, <2>3
<1>11. CardOK'
  BY <1>2, <1>8 DEF CardOK
<1>12. AloneOK' /\ ReadOK' /\ ToldOK' /\ NumbersOK' /\ ExistOK'
  BY <1>2 DEF ExistOK, AloneOK, ReadOK, ToldOK, NumbersOK
<1>13. Cases!SentAsShown' /\ Cases!BeliefsKept' /\ Cases!ClaimsHaveProvenance' /\ Cases!StepsInOrder'
  BY <1>2 DEF Cases!SentAsShown, Cases!BeliefsKept, Cases!ClaimsHaveProvenance, Cases!StepsInOrder, Cases!Calm
<1>14. QED
  BY <1>9, <1>10, <1>11, <1>12, <1>13

\* A card shows the draft of the first send, which exists.
LEMMA ShowOK ==
  ASSUME Cases!CaseAssumption, DeskInv, [Cases!Next]_(Cases!vars), NEW r \in Run, Cases!ShowCard(r) PROVE DeskInv'
<1> USE DEF DeskInv
<1>1. /\ phase[r] = "pausing" /\ phase' = [phase EXCEPT ![r] = "asked"]
      /\ UNCHANGED <<drafts, situation, trajectory, call, calls, pending, tool_told, sent, latest, raced>>
  BY DEF Cases!ShowCard
<1>2. PICK shown : card' = [card EXCEPT ![r] = shown] /\ shown \in {Nothing, drafts[pending[r][1][1]][pending[r][1][2]]}
  BY DEF Cases!ShowCard, Cases!OutboundDraft, Cases!TextOf
<1>3. card'[r] = shown /\ phase'[r] = "asked" /\ \A q \in Run \ {r} : card'[q] = card[q] /\ phase'[q] = phase[q]
  BY <1>1, <1>2 DEF DeskTypes
<1>4. shown \in (1 .. MaxCalls) \cup {Nothing}
  <2>1. PICK first \in Case \X Nat : first = pending[r][1] /\ 1 \in DOMAIN pending[r]
    <3>1. pending[r] \in Seq(Case \X Nat) /\ pending[r] # <<>>
      BY <1>1 DEF PendingOK, DeskTypes
    <3>2. 1 \in DOMAIN pending[r] /\ pending[r][1] \in Case \X Nat
      BY <3>1
    <3>3. QED
      BY <3>2
  <2>2. PICK t \in tool_told : t.case = first[1] /\ t.number = first[2]
    BY <2>1 DEF PendingOK
  <2>3. t.case \in Case /\ t.number \in DOMAIN drafts[t.case]
    BY DEF ExistOK, DeskTypes, Reference
  <2>4. drafts[t.case][t.number] \in 1 .. MaxCalls
    <3>1. PICK file \in Seq(1 .. MaxCalls) : file = drafts[t.case]
      BY <2>3 DEF DeskTypes
    <3>2. PICK n : n = t.number
      OBVIOUS
    <3>3. n \in DOMAIN file
      BY <2>3, <3>1, <3>2
    <3>4. file[n] \in 1 .. MaxCalls
      <4>1. file \in [1 .. Len(file) -> 1 .. MaxCalls] /\ DOMAIN file = 1 .. Len(file)
        BY <3>1, LenProperties
      <4>2. QED
        BY <3>3, <4>1
    <3>5. QED
      BY <3>1, <3>2, <3>4
  <2>5. QED
    BY <1>2, <2>1, <2>2, <2>4
<1>5. DeskTypes'
  <2>1. card' \in [Run -> (1 .. MaxCalls) \cup {Nothing}]
    BY <1>2, <1>4 DEF DeskTypes
  <2>2. phase' \in [Run -> {"running", "pausing", "asked", "sending", "ended"}]
    BY <1>1 DEF DeskTypes
  <2>3. QED
    BY <1>1, <2>1, <2>2 DEF DeskTypes
<1>6. PendingOK'
  BY <1>1, <1>3 DEF PendingOK
<1>7. CardOK'
  BY <1>1, <1>2, <1>3 DEF CardOK
<1>8. AloneOK' /\ ReadOK' /\ ToldOK' /\ NumbersOK' /\ ExistOK'
  BY <1>1 DEF ExistOK, AloneOK, ReadOK, ToldOK, NumbersOK
<1>9. Cases!SentAsShown' /\ Cases!BeliefsKept' /\ Cases!ClaimsHaveProvenance' /\ Cases!StepsInOrder'
  BY <1>1 DEF Cases!SentAsShown, Cases!BeliefsKept, Cases!ClaimsHaveProvenance, Cases!StepsInOrder, Cases!Calm
<1>10. QED
  BY <1>5, <1>6, <1>7, <1>8, <1>9

LEMMA DecideOK ==
  ASSUME Cases!CaseAssumption, DeskInv, [Cases!Next]_(Cases!vars), NEW r \in Run, Cases!Decide(r) PROVE DeskInv'
<1> USE DEF DeskInv
<1>1. PICK after \in {"sending", "ended"} : phase' = [phase EXCEPT ![r] = after]
  BY DEF Cases!Decide
<1>2. /\ phase[r] = "asked"
      /\ UNCHANGED <<drafts, situation, trajectory, call, calls, pending, card, tool_told, sent, latest, raced>>
  BY DEF Cases!Decide
<1>3. phase'[r] = after /\ \A q \in Run \ {r} : phase'[q] = phase[q]
  BY <1>1 DEF DeskTypes
<1>4. DeskTypes'
  <2>1. phase' \in [Run -> {"running", "pausing", "asked", "sending", "ended"}]
    BY <1>1 DEF DeskTypes
  <2>2. QED
    BY <1>2, <2>1 DEF DeskTypes
<1>5. PendingOK' /\ CardOK'
  BY <1>2, <1>3 DEF PendingOK, CardOK
<1>6. AloneOK' /\ ReadOK' /\ ToldOK' /\ NumbersOK' /\ ExistOK'
  BY <1>2 DEF ExistOK, AloneOK, ReadOK, ToldOK, NumbersOK
<1>7. Cases!SentAsShown' /\ Cases!BeliefsKept' /\ Cases!ClaimsHaveProvenance' /\ Cases!StepsInOrder'
  BY <1>2 DEF Cases!SentAsShown, Cases!BeliefsKept, Cases!ClaimsHaveProvenance, Cases!StepsInOrder, Cases!Calm
<1>8. QED
  BY <1>4, <1>5, <1>6, <1>7

\* Each send reads its draft now: what the card shows and the tool returned.
LEMMA SendOK ==
  ASSUME Cases!CaseAssumption, DeskInv, [Cases!Next]_(Cases!vars), NEW r \in Run, Cases!SendToCustomer(r) PROVE DeskInv'
<1> USE DEF DeskInv
<1>1. /\ phase[r] = "sending" /\ phase' = [phase EXCEPT ![r] = "running"]
      /\ pending' = [pending EXCEPT ![r] = <<>>] /\ card' = [card EXCEPT ![r] = Nothing]
      /\ UNCHANGED <<drafts, situation, trajectory, call, calls, tool_told, latest, raced>>
  BY DEF Cases!SendToCustomer
<1>2. \A s \in sent' : s \in sent \/ \E i \in DOMAIN pending[r] :
        s = [case |-> pending[r][i][1], number |-> pending[r][i][2], text |-> drafts[pending[r][i][1]][pending[r][i][2]],
             shown |-> IF i = 1 THEN card[r] ELSE Nothing]
  BY DEF Cases!SendToCustomer, Cases!TextOf
<1>3. /\ phase'[r] = "running" /\ pending'[r] = <<>> /\ card'[r] = Nothing
      /\ \A q \in Run \ {r} : phase'[q] = phase[q] /\ pending'[q] = pending[q] /\ card'[q] = card[q]
  BY <1>1 DEF DeskTypes
<1>4. DeskTypes'
  <2>1. phase' \in [Run -> {"running", "pausing", "asked", "sending", "ended"}]
    BY <1>1 DEF DeskTypes
  <2>2. pending' \in [Run -> Seq(Case \X Nat)]
    BY <1>1 DEF DeskTypes
  <2>3. card' \in [Run -> (1 .. MaxCalls) \cup {Nothing}]
    BY <1>1 DEF DeskTypes
  <2>4. QED
    BY <1>1, <2>1, <2>2, <2>3 DEF DeskTypes
<1>5. PendingOK'
  <2>1. DOMAIN pending'[r] = {}
    BY <1>3
  <2>2. QED
    BY <1>1, <1>3, <2>1 DEF PendingOK
<1>6. CardOK'
  BY <1>1, <1>3 DEF CardOK
<1>7. AloneOK' /\ ReadOK' /\ ToldOK' /\ NumbersOK' /\ ExistOK'
  BY <1>1 DEF ExistOK, AloneOK, ReadOK, ToldOK, NumbersOK
<1>8. Cases!SentAsShown'
  <2>1. SUFFICES ASSUME NEW s \in sent', <<s.case, "draft">> \notin raced
                 PROVE  s.shown \in {s.text, Nothing} /\ [case |-> s.case, number |-> s.number, text |-> s.text] \in tool_told
    BY <1>1 DEF Cases!SentAsShown, Cases!Calm
  <2>2. CASE s \in sent
    BY <2>1, <2>2 DEF Cases!SentAsShown, Cases!Calm
  <2>3. CASE s \notin sent
    <3>1. PICK i \in DOMAIN pending[r] :
            s = [case |-> pending[r][i][1], number |-> pending[r][i][2], text |-> drafts[pending[r][i][1]][pending[r][i][2]],
                 shown |-> IF i = 1 THEN card[r] ELSE Nothing]
      BY <1>2, <2>1, <2>3
    <3>2. /\ s.case = pending[r][i][1] /\ s.number = pending[r][i][2] /\ s.text = drafts[s.case][s.number]
          /\ s.shown = IF i = 1 THEN card[r] ELSE Nothing
      BY <3>1
    <3>3. PICK t \in tool_told : t.case = s.case /\ t.number = s.number
      BY <3>2 DEF PendingOK
    <3>4. t.text = s.text /\ t \in Reference
      BY <2>1, <3>2, <3>3 DEF ToldOK, DeskTypes
    <3>5. t = [case |-> s.case, number |-> s.number, text |-> s.text]
      BY <3>3, <3>4 DEF Reference
    <3>6. s.shown \in {s.text, Nothing}
      BY <1>1, <2>1, <3>2 DEF CardOK
    <3>7. QED
      BY <3>5, <3>6
  <2>4. QED
    BY <2>2, <2>3
<1>9. Cases!BeliefsKept' /\ Cases!ClaimsHaveProvenance' /\ Cases!StepsInOrder'
  BY <1>1 DEF Cases!BeliefsKept, Cases!ClaimsHaveProvenance, Cases!StepsInOrder, Cases!Calm
<1>10. QED
  BY <1>4, <1>5, <1>6, <1>7, <1>8, <1>9

\* A restart ends the calls; a run that waits waits on.
LEMMA CrashOK ==
  ASSUME Cases!CaseAssumption, DeskInv, Cases!Crash PROVE DeskInv'
<1> USE DEF DeskInv
<1>1. /\ \A k \in Call : call'[k] = Cases!Idle
      /\ call' \in [Call -> {Cases!Idle} \cup DraftCall \cup SituationCall \cup StepCall]
      /\ phase' = [q \in Run |-> IF phase[q] \in {"pausing", "asked", "sending"} THEN "asked" ELSE "ended"]
      /\ UNCHANGED <<drafts, situation, trajectory, calls, pending, card, tool_told, sent, latest, raced>>
  BY DEF Cases!Crash
<1>2. DeskTypes'
  <2>1. phase' \in [Run -> {"running", "pausing", "asked", "sending", "ended"}]
    BY <1>1
  <2>2. QED
    BY <1>1, <2>1 DEF DeskTypes
<1>3. PendingOK'
  BY <1>1 DEF PendingOK
<1>4. CardOK'
  <2>1. ASSUME NEW q \in Run
        PROVE  phase[q] = "pausing" => card[q] = Nothing
    BY DEF CardOK
  <2>2. QED
    BY <1>1, <2>1 DEF CardOK
<1>5. AloneOK' /\ ReadOK' /\ ToldOK'
  BY <1>1 DEF AloneOK, ReadOK, ToldOK
<1>6. NumbersOK' /\ ExistOK'
  <2>1. \A k \in Call : call'[k].op = "idle"
    BY <1>1 DEF Cases!Idle
  <2>2. QED
    BY <1>1, <2>1 DEF NumbersOK, ExistOK
<1>7. Cases!SentAsShown' /\ Cases!BeliefsKept' /\ Cases!ClaimsHaveProvenance' /\ Cases!StepsInOrder'
  BY <1>1 DEF Cases!SentAsShown, Cases!BeliefsKept, Cases!ClaimsHaveProvenance, Cases!StepsInOrder, Cases!Calm
<1>8. QED
  BY <1>2, <1>3, <1>4, <1>5, <1>6, <1>7

LEMMA DeskInvariance ==
  ASSUME Cases!CaseAssumption PROVE Cases!Spec => []DeskInv
<1>1. Cases!Init => DeskInv
  <2> SUFFICES ASSUME Cases!Init PROVE DeskInv
    OBVIOUS
  <2>1. /\ drafts = [c \in Case |-> <<>>] /\ trajectory = [c \in Case |-> <<>>]
        /\ situation = [c \in Case |-> [state |-> Cases!Unknown, provenance |-> FALSE]]
        /\ latest = [c \in Case |-> Cases!Unknown] /\ call = [k \in Call |-> Cases!Idle] /\ calls = 0
        /\ phase = [r \in Run |-> "running"] /\ pending = [r \in Run |-> <<>>] /\ card = [r \in Run |-> Nothing]
        /\ tool_told = {} /\ sent = {} /\ raced = {}
    BY DEF Cases!Init
  <2>2. Cases!Unknown \in [Key -> Belief]
    BY DEF Cases!Unknown, Belief
  <2>3. DeskTypes
    <3>1. [state |-> Cases!Unknown, provenance |-> FALSE] \in Cases!Situation
      BY <2>2 DEF Cases!Situation, Belief
    <3>2. situation \in [Case -> Cases!Situation] /\ latest \in [Case -> [Key -> Belief]]
      BY <2>1, <2>2, <3>1
    <3>3. call \in [Call -> {Cases!Idle} \cup DraftCall \cup SituationCall \cup StepCall]
      BY <2>1
    <3>4. calls \in 0 .. MaxCalls
      BY <2>1, DeskNumbers
    <3>5. drafts \in [Case -> Seq(1 .. MaxCalls)] /\ trajectory \in [Case -> Seq(TakenStep)] /\ pending \in [Run -> Seq(Case \X Nat)]
      BY <2>1
    <3>6. QED
      BY <2>1, <3>2, <3>3, <3>4, <3>5 DEF DeskTypes
  <2>4. \A k \in Call : call[k] = Cases!Idle /\ call[k].op = "idle"
    BY <2>1 DEF Cases!Idle
  <2>5. AloneOK /\ ReadOK
    BY <2>4 DEF AloneOK, ReadOK
  <2>6. \A c \in Case : Len(drafts[c]) = 0 /\ DOMAIN trajectory[c] = {}
    BY <2>1
  <2>7. NumbersOK /\ ExistOK
    BY <2>1, <2>4, <2>6 DEF NumbersOK, ExistOK
  <2>8. ToldOK /\ PendingOK /\ CardOK
    BY <2>1 DEF ToldOK, PendingOK, CardOK
  <2>9. Cases!SentAsShown /\ Cases!BeliefsKept /\ Cases!ClaimsHaveProvenance /\ Cases!StepsInOrder
    <3>1. Cases!BeliefsKept /\ Cases!ClaimsHaveProvenance
      BY <2>1 DEF Cases!BeliefsKept, Cases!ClaimsHaveProvenance
    <3>2. Cases!SentAsShown /\ Cases!StepsInOrder
      BY <2>1, <2>6 DEF Cases!SentAsShown, Cases!StepsInOrder
    <3>3. QED
      BY <3>1, <3>2
  <2>10. QED
    BY <2>3, <2>5, <2>7, <2>8, <2>9 DEF DeskInv
<1>2. DeskInv /\ [Cases!Next]_(Cases!vars) => DeskInv'
  <2> SUFFICES ASSUME DeskInv, [Cases!Next]_(Cases!vars) PROVE DeskInv'
    OBVIOUS
  <2>1. ASSUME NEW k \in Call, NEW r \in Run, NEW c \in Case,
               Cases!NumberDraft(k, r, c) \/ Cases!ReadSituation(k, r, c) \/ Cases!NumberStep(k, r, c) PROVE DeskInv'
    BY <2>1, CallsBegin
  <2>2. ASSUME NEW k \in Call, Cases!PlaceDraft(k) \/ Cases!WriteSituation(k) \/ Cases!AppendStep(k) PROVE DeskInv'
    BY <2>2, PlaceOK, WriteOK, AppendOK
  <2>3. ASSUME NEW r \in Run, Cases!RequestSend(r) \/ Cases!ShowCard(r) \/ Cases!Decide(r) \/ Cases!SendToCustomer(r)
        PROVE  DeskInv'
    BY <2>3, RequestOK, ShowOK, DecideOK, SendOK
  <2>4. CASE Cases!Crash
    BY <2>4, CrashOK
  <2>5. CASE UNCHANGED Cases!vars
    <3>1. UNCHANGED <<drafts, situation, trajectory, call, calls, phase, pending, card, tool_told, sent, latest, raced>>
      BY <2>5 DEF Cases!vars
    <3>2. DeskTypes' /\ NumbersOK' /\ ExistOK' /\ AloneOK' /\ ReadOK'
      BY <3>1 DEF DeskInv, DeskTypes, NumbersOK, ExistOK, AloneOK, ReadOK
    <3>3. QED
      BY <3>1, <3>2, DeskFrame DEF DeskInv
  <2>6. QED
    BY <2>1, <2>2, <2>3, <2>4, <2>5 DEF Cases!Next
<1>3. QED
  BY <1>1, <1>2, PTL DEF Cases!Spec

\* For every set of cases, runs and threads: what a card showed and a tool saved
\* is what is sent, as long as no two saves of the case overlapped
\* (service.py:417), whatever was saved while the run waited for the operator.
THEOREM SendsAreAsShown == ASSUME Cases!CaseAssumption PROVE Cases!Spec => []Cases!SentAsShown
<1>1. DeskInv => Cases!SentAsShown
  BY DEF DeskInv
<1>2. QED
  BY <1>1, DeskInvariance, PTL

\* Every claim of a case has provenance, also when updates overlap and the later
\* one replaces what the earlier one wrote (store.py:124).
THEOREM ClaimsAreProven == ASSUME Cases!CaseAssumption PROVE Cases!Spec => []Cases!ClaimsHaveProvenance
<1>1. DeskInv => Cases!ClaimsHaveProvenance
  BY DEF DeskInv
<1>2. QED
  BY <1>1, DeskInvariance, PTL

\* Where no two calls of the tool overlap, no belief is lost and the steps of a
\* trajectory are numbered in the order of the file (_deep_merge, _next_seq).
THEOREM CaseFilesKeepUpdates ==
  ASSUME Cases!CaseAssumption PROVE Cases!Spec => [](Cases!BeliefsKept /\ Cases!StepsInOrder)
<1>1. DeskInv => Cases!BeliefsKept /\ Cases!StepsInOrder
  BY DEF DeskInv
<1>2. QED
  BY <1>1, DeskInvariance, PTL
-----------------------------------------------------------------------------
(* The customer records of zuaef_client_service (ClientRecords): one state *)
(* file, its history and a receipt per exchange, with no lock.             *)

CONSTANTS Thread, MaxRecords, MaxDeaths, Installed
VARIABLES client, history, receipts, step, records, deaths, returned, overlapped, wrecked

Records == INSTANCE ClientRecords WITH state <- client

\* What an exchange can have replaced, and where a thread is.
Before(i) == {Installed} \cup 1 .. (i - 1)
Exchange == 1 .. MaxRecords
Loaded == [at : {"read", "noted"}, id : Exchange, before : Records!Version]
Numbered == [at : {"numbered"}, id : Exchange, seq : Nat]
Copying == [at : {"copying", "copied", "filling"}, id : Exchange, seq : Nat, text : Records!Version \cup {Torn}]
Busy(t) == step[t] # Records!Idle

\* The history has no gaps; a receipt names an earlier exchange.
RecordTypes ==
  /\ records \in 0 .. MaxRecords
  /\ client \in {Installed, Torn} \cup 1 .. records
  /\ step \in [Thread -> {Records!Idle} \cup Loaded \cup Numbered \cup Copying]
  /\ \E n \in Nat : DOMAIN history = 1 .. n
  /\ DOMAIN receipts \subseteq 1 .. records /\ \A i \in DOMAIN receipts : receipts[i] \in Before(i)
  /\ returned \subseteq DOMAIN receipts

\* Exchanges in progress have numbers of their own, and a receipt once they have written it.
ProgressOK ==
  \A t \in Thread : Busy(t) =>
    /\ step[t].id \in 1 .. records /\ step[t].id \notin returned
    /\ IF step[t].at = "read" THEN step[t].before \in Before(step[t].id) ELSE step[t].id \in DOMAIN receipts
    /\ \A u \in Thread : Busy(u) /\ step[u].id = step[t].id => u = t

\* A number is one more than one that is taken, also when another thread takes it first.
NumbersTaken ==
  \A t \in Thread :
    /\ step[t].at = "numbered" => step[t].seq # 0 /\ (step[t].seq = 1 \/ step[t].seq - 1 \in DOMAIN history)
    /\ step[t].at = "copying" => step[t].seq \in DOMAIN history

\* Without an overlap the one in progress is the last, it replaces what the file holds, and
\* nothing confirmed has replaced that.
ChainOK ==
  ~overlapped =>
    /\ \A t, u \in Thread : Busy(t) /\ Busy(u) => t = u
    /\ \A t \in Thread : Busy(t) =>
         /\ step[t].id = records
         /\ step[t].at = "read" => step[t].before = client
         /\ step[t].at \notin {"read", "filling"} => receipts[step[t].id] = client
         /\ step[t].at = "filling" => \A j \in returned : receipts[j] # receipts[step[t].id]
         /\ step[t].at # "filling" => client # Torn
    /\ \A j \in returned : receipts[j] # client

\* Nor is a version lost while no death has left a torn file.
CopiesOK ==
  ~overlapped /\ ~wrecked =>
    \A t \in Thread : Busy(t) =>
      /\ step[t].at = "numbered" => step[t].seq \notin DOMAIN history
      /\ step[t].at = "copying" =>
           step[t].text = receipts[step[t].id] /\ history[step[t].seq] = Torn
      /\ step[t].at \in {"copied", "filling"} => receipts[step[t].id] \in Records!Range(history)

RecordInv == RecordTypes /\ ProgressOK /\ NumbersTaken /\ ChainOK /\ CopiesOK /\ Records!HistoryKept /\ Records!OneSuccessor

\* A number and a version are not confused.
LEMMA RecordFacts ==
  ASSUME Records!RecordsAssumption
  PROVE  MaxRecords \in Nat /\ Installed # Torn /\ Installed \notin Nat /\ Torn \notin Nat
  BY DEF Records!RecordsAssumption

\* What a thread holds.
LEMMA StepShape ==
  ASSUME RecordTypes, NEW t \in Thread
  PROVE  /\ Busy(t) => step[t] \in Loaded \cup Numbered \cup Copying /\ step[t].id \in Exchange
         /\ step[t].at \in {"read", "noted"} => step[t] \in Loaded
         /\ step[t].at = "numbered" => step[t] \in Numbered
         /\ step[t].at \in {"copying", "copied", "filling"} => step[t] \in Copying
         /\ step[t].at \in {"read", "noted", "numbered", "copying", "copied", "filling"} <=> Busy(t)
<1>1. step[t] = Records!Idle \/ step[t] \in Loaded \/ step[t] \in Numbered \/ step[t] \in Copying
  BY DEF RecordTypes
<1>2. Records!Idle.at = "idle"
  BY DEF Records!Idle
<1>3. ASSUME NEW s \in Loaded PROVE s.at \in {"read", "noted"} /\ s.id \in Exchange
  BY DEF Loaded
<1>4. ASSUME NEW s \in Numbered PROVE s.at = "numbered" /\ s.id \in Exchange
  BY DEF Numbered
<1>5. ASSUME NEW s \in Copying PROVE s.at \in {"copying", "copied", "filling"} /\ s.id \in Exchange
  BY DEF Copying
<1>6. QED
  BY <1>1, <1>2, <1>3, <1>4, <1>5 DEF Busy

\* What writing one more entry of a file or a receipt does.
LEMMA WithRange ==
  ASSUME NEW f, NEW i, NEW x, NEW g, g = Records!With(f, i, x)
  PROVE  /\ \A y \in Records!Range(f) : (i \notin DOMAIN f \/ f[i] # y) => y \in Records!Range(g)
         /\ x \in Records!Range(g)
<1>1. /\ DOMAIN g = DOMAIN f \cup {i} /\ g[i] = x
      /\ \A j \in DOMAIN f : j # i => g[j] = f[j]
  BY DEF Records!With
<1>2. \A y : y \in Records!Range(g) <=> \E j \in DOMAIN g : y = g[j]
  BY DEF Records!Range
<1>3. \A y : y \in Records!Range(f) <=> \E j \in DOMAIN f : y = f[j]
  BY DEF Records!Range
<1>4. QED
  BY <1>1, <1>2, <1>3

\* The next number of a history without gaps is free.
LEMMA NextNumber ==
  ASSUME RecordTypes, NEW n \in Nat, DOMAIN history = 1 .. n
  PROVE  Records!HistorySeq(history) = n + 1
<1>1. Cardinality(1 .. n) = n
  BY FS_Interval
<1>2. QED
  <2>1. Records!Cardinality(1 .. n) = Cardinality(1 .. n)
    BY DEF Records!Cardinality, Cardinality
  <2>2. QED
    BY <1>1, <2>1 DEF Records!HistorySeq
LEMMA LoadOK ==
  ASSUME Records!RecordsAssumption, RecordInv, NEW t \in Thread, Records!LoadState(t) PROVE RecordInv'
<1> USE DEF RecordInv
<1>1. PICK new : new = [at |-> "read", id |-> records + 1, before |-> client]
  OBVIOUS
<1>2. /\ step[t] = Records!Idle /\ records < MaxRecords /\ client # Torn /\ records' = records + 1
      /\ step' = [step EXCEPT ![t] = new]
      /\ overlapped' = (overlapped \/ \E u \in Thread : step[u] # Records!Idle)
      /\ UNCHANGED <<client, history, receipts, returned, wrecked>>
  BY <1>1 DEF Records!LoadState
<1>3. records \in Nat /\ records + 1 \in 1 .. MaxRecords /\ records' \in 0 .. MaxRecords /\ client \in {Installed} \cup 1 .. records
  BY <1>2, RecordFacts DEF RecordTypes
<1>4. new \in Loaded /\ new.at = "read" /\ new.id = records + 1 /\ new.before = client
  <2>1. client \in Records!Version
    BY <1>3, RecordFacts DEF Records!Version
  <2>2. QED
    BY <1>1, <1>3, <2>1 DEF Loaded, Exchange
<1>5. step'[t] = new /\ \A u \in Thread \ {t} : step'[u] = step[u]
  BY <1>2 DEF RecordTypes
<1>6. new # Records!Idle
  BY <1>4 DEF Records!Idle
<1>7. \A u \in Thread : Busy(u)' <=> u = t \/ Busy(u)
  BY <1>5, <1>6 DEF Busy
<1>8. RecordTypes'
  <2>1. step' \in [Thread -> {Records!Idle} \cup Loaded \cup Numbered \cup Copying]
    BY <1>2, <1>4 DEF RecordTypes
  <2>2. 1 .. records \subseteq 1 .. records'
    BY <1>2, <1>3
  <2>3. QED
    BY <1>2, <1>3, <2>1, <2>2 DEF RecordTypes
<1>9. \A u \in Thread : Busy(u) => step[u].id \in 1 .. records /\ step[u].id # records + 1
  BY <1>3 DEF ProgressOK
<1>10. ProgressOK'
  <2>1. records + 1 \notin DOMAIN receipts /\ records + 1 \notin returned /\ records + 1 \in 1 .. records'
    BY <1>2, <1>3 DEF RecordTypes
  <2>2. client \in Before(records + 1)
    BY <1>3 DEF Before
  <2>3. \A u \in Thread : Busy(u) => step[u].id \in 1 .. records'
    BY <1>2, <1>3, <1>9
  <2>4. QED
    BY <1>2, <1>4, <1>5, <1>7, <1>9, <2>1, <2>2, <2>3 DEF ProgressOK
<1>11. ChainOK'
  <2>1. SUFFICES ASSUME ~overlapped' PROVE ChainOK'
    BY DEF ChainOK
  <2>2. ~overlapped /\ \A u \in Thread : ~Busy(u)
    BY <1>2, <2>1 DEF Busy
  <2>3. \A j \in returned : receipts[j] # client
    BY <2>2 DEF ChainOK
  <2>4. QED
    BY <1>2, <1>4, <1>5, <1>7, <2>2, <2>3 DEF ChainOK
<1>12. CopiesOK'
  BY <1>2, <1>4, <1>5, <1>7 DEF CopiesOK
<1>13. Records!HistoryKept' /\ Records!OneSuccessor'
  BY <1>2 DEF Records!HistoryKept, Records!OneSuccessor, Records!Range
<1>14. NumbersTaken'
  BY <1>2, <1>4, <1>5 DEF NumbersTaken
<1>15. QED
  BY <1>8, <1>10, <1>11, <1>12, <1>13, <1>14

\* A thread goes on with the same exchange and leaves state and receipts alone.
LEMMA GoesOn ==
  ASSUME RecordInv, NEW t \in Thread, Busy(t), NEW new, new \in Loaded \cup Numbered \cup Copying,
         new.id = step[t].id, new.at # "read", step[t].at # "read",
         new.at = "filling" <=> step[t].at = "filling",
         step' = [step EXCEPT ![t] = new], UNCHANGED <<client, receipts, records, returned, overlapped>>,
         \E n \in Nat : DOMAIN history' = 1 .. n
  PROVE  /\ RecordTypes' /\ ProgressOK' /\ ChainOK' /\ step'[t] = new /\ \A u \in Thread \ {t} : step'[u] = step[u]
         /\ \A u \in Thread : Busy(u)' <=> Busy(u)
<1> USE DEF RecordInv
<1>1. step'[t] = new /\ \A u \in Thread \ {t} : step'[u] = step[u]
  BY DEF RecordTypes
<1>2. new # Records!Idle
  <2>1. new.at \in {"read", "noted", "numbered", "copying", "copied", "filling"}
    BY DEF Loaded, Numbered, Copying
  <2>2. Records!Idle.at = "idle"
    BY DEF Records!Idle
  <2>3. QED
    BY <2>1, <2>2
<1>3. \A u \in Thread : Busy(u)' <=> Busy(u)
  BY <1>1, <1>2 DEF Busy
<1>4. RecordTypes'
  <2>1. step' \in [Thread -> {Records!Idle} \cup Loaded \cup Numbered \cup Copying]
    BY DEF RecordTypes
  <2>2. QED
    BY <2>1 DEF RecordTypes
<1>5. \A u \in Thread : Busy(u) => step'[u].id = step[u].id
  BY <1>1
<1>6. ProgressOK'
  BY <1>1, <1>3, <1>5 DEF ProgressOK
<1>7. ChainOK'
  BY <1>1, <1>3, <1>5 DEF ChainOK
<1>8. QED
  BY <1>1, <1>3, <1>4, <1>6, <1>7

LEMMA NumberOK ==
  ASSUME Records!RecordsAssumption, RecordInv, NEW t \in Thread, Records!NumberHistory(t) PROVE RecordInv'
<1>1. PICK n \in Nat : DOMAIN history = 1 .. n
  BY DEF RecordInv, RecordTypes
<1>2. Records!HistorySeq(history) = n + 1
  BY <1>1, NextNumber DEF RecordInv
<1>3. step[t].at = "noted" /\ Busy(t) /\ step[t].id \in Exchange
  BY StepShape DEF Records!NumberHistory, RecordInv
<1>4. PICK new : new = [at |-> "numbered", id |-> step[t].id, seq |-> n + 1]
  OBVIOUS
<1>5. step' = [step EXCEPT ![t] = new] /\ UNCHANGED <<client, history, receipts, records, returned, overlapped, wrecked>>
  BY <1>2, <1>4 DEF Records!NumberHistory, RecordInv, RecordTypes
<1>6. new \in Numbered /\ new.at = "numbered" /\ new.id = step[t].id /\ new.seq = n + 1
  BY <1>3, <1>4 DEF Numbered
<1>7. /\ RecordTypes' /\ ProgressOK' /\ ChainOK' /\ step'[t] = new /\ \A u \in Thread \ {t} : step'[u] = step[u]
      /\ \A u \in Thread : Busy(u)' <=> Busy(u)
  BY <1>1, <1>3, <1>5, <1>6, GoesOn
<1>8. n + 1 \notin DOMAIN history /\ n + 1 # 0
  BY <1>1
<1>9. CopiesOK'
  BY <1>5, <1>6, <1>7, <1>8 DEF CopiesOK, Records!Range, RecordInv
<1>10. Records!HistoryKept' /\ Records!OneSuccessor'
  BY <1>5 DEF Records!HistoryKept, Records!OneSuccessor, Records!Range, RecordInv
<1>11. NumbersTaken'
  BY <1>1, <1>5, <1>6, <1>7 DEF NumbersTaken, RecordInv
<1>12. QED
  BY <1>7, <1>9, <1>10, <1>11 DEF RecordInv

\* A receipt is written before anything else of the exchange.
LEMMA ReceiptOK ==
  ASSUME Records!RecordsAssumption, RecordInv, NEW t \in Thread, Records!AppendInteraction(t) PROVE RecordInv'
<1> USE DEF RecordInv
<1>1. step[t].at = "read" /\ Busy(t) /\ step[t] \in Loaded
  BY StepShape DEF Records!AppendInteraction
<1>2. PICK id, before : id = step[t].id /\ before = step[t].before
  OBVIOUS
<1>3. /\ receipts' = Records!With(receipts, id, before) /\ step' = [step EXCEPT ![t].at = "noted"]
      /\ UNCHANGED <<client, history, records, returned, overlapped, wrecked>>
  BY <1>2 DEF Records!AppendInteraction, Records!Go
<1>4. PICK new : new = [step[t] EXCEPT !.at = "noted"]
  OBVIOUS
<1>5. new \in Loaded /\ new.at = "noted" /\ new.id = id
  BY <1>1, <1>2, <1>4 DEF Loaded
<1>6. step' = [step EXCEPT ![t] = new] /\ step'[t] = new /\ \A u \in Thread \ {t} : step'[u] = step[u]
  BY <1>3, <1>4 DEF RecordTypes
<1>7. new # Records!Idle
  BY <1>5 DEF Records!Idle
<1>8. \A u \in Thread : Busy(u)' <=> Busy(u)
  BY <1>1, <1>6, <1>7 DEF Busy
<1>9. id \in 1 .. records /\ id \notin returned /\ before \in Before(id)
  BY <1>1, <1>2 DEF ProgressOK
<1>10. DOMAIN receipts' = DOMAIN receipts \cup {id} /\ receipts'[id] = before /\ \A i \in DOMAIN receipts : i # id => receipts'[i] = receipts[i]
  <2>1. PICK with : with = Records!With(receipts, id, before)
    OBVIOUS
  <2>2. DOMAIN with = DOMAIN receipts \cup {id} /\ with[id] = before /\ \A i \in DOMAIN receipts : i # id => with[i] = receipts[i]
    BY <2>1 DEF Records!With
  <2>3. receipts' = with
    BY <1>3, <2>1
  <2>4. QED
    BY <2>2, <2>3
<1>11. \A i \in returned : receipts'[i] = receipts[i]
  BY <1>9, <1>10 DEF RecordTypes
<1>12. RecordTypes'
  <2>1. step' \in [Thread -> {Records!Idle} \cup Loaded \cup Numbered \cup Copying]
    BY <1>5, <1>6 DEF RecordTypes
  <2>2. \A i \in DOMAIN receipts' : receipts'[i] \in Before(i)
    BY <1>9, <1>10 DEF RecordTypes
  <2>3. QED
    BY <1>3, <1>9, <1>10, <2>1, <2>2 DEF RecordTypes
<1>13. \A u \in Thread : Busy(u) => step'[u].id = step[u].id
  BY <1>2, <1>5, <1>6
<1>14. ProgressOK'
  <2>1. ASSUME NEW u \in Thread, Busy(u)
        PROVE  /\ step'[u].id \in 1 .. records /\ step'[u].id \notin returned
               /\ IF step'[u].at = "read" THEN step'[u].before \in Before(step'[u].id) ELSE step'[u].id \in DOMAIN receipts'
               /\ \A v \in Thread : Busy(v) /\ step'[v].id = step'[u].id => v = u
    <3>1. /\ step[u].id \in 1 .. records /\ step[u].id \notin returned
          /\ \A v \in Thread : Busy(v) /\ step[v].id = step[u].id => v = u
      BY <2>1 DEF ProgressOK
    <3>2. CASE u = t
      BY <1>5, <1>6, <1>10, <1>13, <2>1, <3>1, <3>2
    <3>3. CASE u # t
      <4>1. IF step[u].at = "read" THEN step[u].before \in Before(step[u].id) ELSE step[u].id \in DOMAIN receipts
        BY <2>1 DEF ProgressOK
      <4>2. QED
        BY <1>6, <1>10, <1>13, <2>1, <3>1, <3>3, <4>1
    <3>4. QED
      BY <3>2, <3>3
  <2>2. QED
    BY <1>3, <1>8, <2>1 DEF ProgressOK
<1>15. ChainOK'
  <2>1. SUFFICES ASSUME ~overlapped PROVE ChainOK'
    BY <1>3 DEF ChainOK
  <2>2. before = client /\ client # Torn /\ id = records /\ \A u \in Thread : Busy(u) => u = t
    BY <1>1, <1>2, <2>1 DEF ChainOK
  <2>3. \A j \in returned : receipts'[j] # client
    BY <1>11, <2>1 DEF ChainOK
  <2>4. QED
    BY <1>3, <1>5, <1>6, <1>8, <1>10, <2>2, <2>3 DEF ChainOK
<1>16. CopiesOK'
  <2>1. SUFFICES ASSUME ~overlapped, ~wrecked PROVE CopiesOK'
    BY <1>3 DEF CopiesOK
  <2>2. \A u \in Thread : Busy(u)' => u = t
    BY <1>1, <1>8, <2>1 DEF ChainOK
  <2>3. QED
    BY <1>5, <1>6, <2>2 DEF CopiesOK
<1>17. Records!HistoryKept' /\ Records!OneSuccessor'
  BY <1>3, <1>11 DEF Records!HistoryKept, Records!OneSuccessor, Records!Range
<1>18. NumbersTaken'
  BY <1>3, <1>5, <1>6 DEF NumbersTaken
<1>19. QED
  BY <1>12, <1>14, <1>15, <1>16, <1>17, <1>18

\* The copy is opened under a free number, unless another thread took it first.
LEMMA OpenCopyOK ==
  ASSUME Records!RecordsAssumption, RecordInv, NEW t \in Thread, Records!OpenCopy(t) PROVE RecordInv'
<1>1. step[t].at = "numbered" /\ Busy(t) /\ step[t] \in Numbered /\ step[t].id \in Exchange
  BY StepShape DEF Records!OpenCopy, RecordInv
<1>2. PICK seq : seq = step[t].seq
  OBVIOUS
<1>3. PICK new : new = [at |-> "copying", id |-> step[t].id, seq |-> seq, text |-> client]
  OBVIOUS
<1>4. step' = [step EXCEPT ![t] = new] /\ UNCHANGED <<client, receipts, records, returned, overlapped, wrecked>>
  BY <1>2, <1>3 DEF Records!OpenCopy, RecordInv, RecordTypes
<1>5. seq \in Nat /\ seq # 0 /\ (seq = 1 \/ seq - 1 \in DOMAIN history)
  BY <1>1, <1>2 DEF Numbered, NumbersTaken, RecordInv
<1>6. new \in Copying /\ new.at = "copying" /\ new.id = step[t].id /\ new.seq = seq /\ new.text = client
  <2>1. client \in Records!Version \cup {Torn}
    BY RecordFacts DEF RecordInv, RecordTypes, Records!Version
  <2>2. QED
    BY <1>1, <1>3, <1>5, <2>1 DEF Copying
<1>7. history' = Records!With(history, seq, Torn)
  BY <1>2 DEF Records!OpenCopy
<1>8. DOMAIN history' = DOMAIN history \cup {seq} /\ history'[seq] = Torn
  <2>1. PICK with : with = Records!With(history, seq, Torn)
    OBVIOUS
  <2>2. DOMAIN with = DOMAIN history \cup {seq} /\ with[seq] = Torn
    BY <2>1 DEF Records!With
  <2>3. QED
    BY <1>7, <2>1, <2>2
<1>9. \E n \in Nat : DOMAIN history' = 1 .. n
  <2>1. PICK n \in Nat : DOMAIN history = 1 .. n
    BY DEF RecordInv, RecordTypes
  <2>2. CASE seq \in 1 .. n
    BY <1>8, <2>1, <2>2
  <2>3. CASE seq \notin 1 .. n
    <3>1. seq = n + 1
      BY <1>5, <2>1, <2>3
    <3>2. DOMAIN history' = 1 .. n + 1
      BY <1>8, <2>1, <3>1
    <3>3. QED
      BY <3>2
  <2>4. QED
    BY <2>2, <2>3
<1>10. /\ RecordTypes' /\ ProgressOK' /\ ChainOK' /\ step'[t] = new /\ \A u \in Thread \ {t} : step'[u] = step[u]
       /\ \A u \in Thread : Busy(u)' <=> Busy(u)
  BY <1>1, <1>4, <1>6, <1>9, GoesOn
<1>11. NumbersTaken'
  BY <1>6, <1>8, <1>10 DEF NumbersTaken, RecordInv
<1>12. ASSUME ~overlapped
       PROVE  /\ \A u \in Thread : Busy(u) => u = t
              /\ client = receipts[step[t].id]
  BY <1>1, <1>12 DEF ChainOK, RecordInv
<1>13. CopiesOK'
  BY <1>4, <1>6, <1>8, <1>10, <1>12 DEF CopiesOK, RecordInv
<1>14. Records!HistoryKept'
  <2>1. SUFFICES ASSUME ~overlapped, ~wrecked, NEW i \in returned PROVE receipts[i] \in Records!Range(history)'
    BY <1>4 DEF Records!HistoryKept, Records!Range
  <2>2. receipts[i] \in Records!Range(history)
    BY <2>1 DEF RecordInv, Records!HistoryKept
  <2>3. seq \notin DOMAIN history
    BY <1>1, <1>2, <2>1 DEF CopiesOK, RecordInv
  <2>4. QED
    BY <1>7, <2>2, <2>3, WithRange DEF Records!Range
<1>15. Records!OneSuccessor'
  BY <1>4 DEF Records!OneSuccessor, RecordInv
<1>16. QED
  BY <1>10, <1>11, <1>13, <1>14, <1>15 DEF RecordInv

\* What fills it is the version before, and what stood there was torn.
LEMMA FillCopyOK ==
  ASSUME Records!RecordsAssumption, RecordInv, NEW t \in Thread, Records!FillCopy(t) PROVE RecordInv'
<1>1. step[t].at = "copying" /\ Busy(t) /\ step[t] \in Copying /\ step[t].id \in Exchange
  BY StepShape DEF Records!FillCopy, RecordInv
<1>2. PICK seq, text : seq = step[t].seq /\ text = step[t].text
  OBVIOUS
<1>3. PICK new : new = [step[t] EXCEPT !.at = "copied"]
  OBVIOUS
<1>4. step' = [step EXCEPT ![t] = new] /\ UNCHANGED <<client, receipts, records, returned, overlapped, wrecked>>
  BY <1>3 DEF Records!FillCopy, Records!Go, RecordInv, RecordTypes
<1>5. seq \in DOMAIN history
  BY <1>1, <1>2 DEF NumbersTaken, RecordInv
<1>6. new \in Copying /\ new.at = "copied" /\ new.id = step[t].id
  BY <1>1, <1>3 DEF Copying
<1>7. history' = Records!With(history, seq, text)
  BY <1>2 DEF Records!FillCopy
<1>8. DOMAIN history' = DOMAIN history
  <2>1. PICK with : with = Records!With(history, seq, text)
    OBVIOUS
  <2>2. DOMAIN with = DOMAIN history \cup {seq}
    BY <2>1 DEF Records!With
  <2>3. QED
    BY <1>5, <1>7, <2>1, <2>2
<1>9. \E n \in Nat : DOMAIN history' = 1 .. n
  BY <1>8 DEF RecordInv, RecordTypes
<1>10. /\ RecordTypes' /\ ProgressOK' /\ ChainOK' /\ step'[t] = new /\ \A u \in Thread \ {t} : step'[u] = step[u]
       /\ \A u \in Thread : Busy(u)' <=> Busy(u)
  BY <1>1, <1>4, <1>6, <1>9, GoesOn
<1>11. NumbersTaken'
  BY <1>6, <1>8, <1>10 DEF NumbersTaken, RecordInv
<1>12. ASSUME ~overlapped, ~wrecked
       PROVE  /\ \A u \in Thread : Busy(u) => u = t
              /\ text = receipts[step[t].id] /\ history[seq] = Torn
  BY <1>1, <1>2, <1>12 DEF ChainOK, CopiesOK, RecordInv
<1>13. text \in Records!Range(history')
  BY <1>7, WithRange
<1>14. CopiesOK'
  BY <1>4, <1>6, <1>10, <1>12, <1>13 DEF CopiesOK, RecordInv, Records!Range
<1>15. Records!HistoryKept'
  <2>1. SUFFICES ASSUME ~overlapped, ~wrecked, NEW i \in returned PROVE receipts[i] \in Records!Range(history)'
    BY <1>4 DEF Records!HistoryKept, Records!Range
  <2>2. receipts[i] \in Records!Range(history)
    BY <2>1 DEF RecordInv, Records!HistoryKept
  <2>3. history[seq] # receipts[i]
    BY <1>12, <2>1, RecordFacts DEF RecordInv, RecordTypes, Before
  <2>4. QED
    BY <1>7, <2>2, <2>3, WithRange DEF Records!Range
<1>16. Records!OneSuccessor'
  BY <1>4 DEF Records!OneSuccessor, RecordInv
<1>17. QED
  BY <1>10, <1>11, <1>14, <1>15, <1>16 DEF RecordInv

\* The state is opened: it was what the exchange replaces.
LEMMA OpenStateOK ==
  ASSUME Records!RecordsAssumption, RecordInv, NEW t \in Thread, Records!OpenState(t) PROVE RecordInv'
<1> USE DEF RecordInv
<1>1. step[t].at = "copied" /\ Busy(t) /\ step[t] \in Copying /\ step[t].id \in Exchange
  BY StepShape DEF Records!OpenState
<1>2. PICK new : new = [step[t] EXCEPT !.at = "filling"]
  OBVIOUS
<1>3. step' = [step EXCEPT ![t] = new] /\ client' = Torn /\ UNCHANGED <<history, receipts, records, returned, overlapped, wrecked>>
  BY <1>2 DEF Records!OpenState, Records!Go, RecordTypes
<1>4. new \in Copying /\ new.at = "filling" /\ new.id = step[t].id
  BY <1>1, <1>2 DEF Copying
<1>5. step'[t] = new /\ \A u \in Thread \ {t} : step'[u] = step[u]
  BY <1>3 DEF RecordTypes
<1>6. new # Records!Idle
  BY <1>4 DEF Records!Idle
<1>7. \A u \in Thread : Busy(u)' <=> Busy(u)
  BY <1>1, <1>5, <1>6 DEF Busy
<1>8. RecordTypes'
  <2>1. step' \in [Thread -> {Records!Idle} \cup Loaded \cup Numbered \cup Copying]
    BY <1>3, <1>4 DEF RecordTypes
  <2>2. QED
    BY <1>3, <2>1 DEF RecordTypes
<1>9. \A u \in Thread : Busy(u) => step'[u].id = step[u].id
  BY <1>4, <1>5
<1>10. ProgressOK' /\ NumbersTaken'
  BY <1>1, <1>3, <1>4, <1>5, <1>7, <1>9 DEF ProgressOK, NumbersTaken
<1>11. \A j \in returned : receipts[j] # Torn
  BY RecordFacts DEF RecordTypes, Before
<1>12. ChainOK'
  <2>1. SUFFICES ASSUME ~overlapped PROVE ChainOK'
    BY <1>3 DEF ChainOK
  <2>2. /\ step[t].id = records /\ receipts[step[t].id] = client /\ \A j \in returned : receipts[j] # client
        /\ \A u \in Thread : Busy(u) => u = t
    BY <1>1, <2>1 DEF ChainOK
  <2>3. QED
    BY <1>3, <1>4, <1>5, <1>7, <1>11, <2>2 DEF ChainOK
<1>13. CopiesOK'
  BY <1>1, <1>3, <1>4, <1>5, <1>7, <1>9 DEF CopiesOK, Records!Range
<1>14. Records!HistoryKept' /\ Records!OneSuccessor'
  BY <1>3 DEF Records!HistoryKept, Records!OneSuccessor, Records!Range
<1>15. QED
  BY <1>8, <1>10, <1>12, <1>13, <1>14

\* The exchange is confirmed: its version is new, and its receipt is in the chain.
LEMMA FillStateOK ==
  ASSUME Records!RecordsAssumption, RecordInv, NEW t \in Thread, Records!FillState(t) PROVE RecordInv'
<1> USE DEF RecordInv
<1>1. step[t].at = "filling" /\ Busy(t) /\ step[t].id \in Exchange
  BY StepShape DEF Records!FillState
<1>2. PICK id : id = step[t].id
  OBVIOUS
<1>3. /\ step' = [step EXCEPT ![t] = Records!Idle] /\ client' = id /\ returned' = returned \cup {id}
      /\ UNCHANGED <<history, receipts, records, overlapped, wrecked>>
  BY <1>2 DEF Records!FillState
<1>4. step'[t] = Records!Idle /\ \A u \in Thread \ {t} : step'[u] = step[u]
  BY <1>3 DEF RecordTypes
<1>5. \A u \in Thread : Busy(u)' => Busy(u) /\ u # t /\ step'[u] = step[u]
  BY <1>4 DEF Busy
<1>6. Records!Idle.at = "idle"
  BY DEF Records!Idle
<1>7. id \in 1 .. records /\ id \in DOMAIN receipts /\ id \notin returned /\ \A u \in Thread : Busy(u) /\ step[u].id = id => u = t
  BY <1>1, <1>2 DEF ProgressOK
<1>8. RecordTypes'
  <2>1. step' \in [Thread -> {Records!Idle} \cup Loaded \cup Numbered \cup Copying]
    BY <1>3 DEF RecordTypes
  <2>2. QED
    BY <1>3, <1>7, <2>1 DEF RecordTypes
<1>9. ProgressOK' /\ NumbersTaken'
  BY <1>3, <1>4, <1>5, <1>6, <1>7 DEF ProgressOK, NumbersTaken
<1>10. ASSUME ~overlapped
       PROVE  /\ \A u \in Thread : ~Busy(u)'
              /\ \A j \in returned' : receipts[j] # id
              /\ \A j \in returned : receipts[j] # receipts[id]
  <2>1. /\ \A u \in Thread : Busy(u) => u = t
        /\ id = records /\ \A j \in returned : receipts[j] # receipts[id]
    BY <1>1, <1>2, <1>10 DEF ChainOK
  <2>2. \A u \in Thread : ~Busy(u)'
    BY <1>5, <2>1
  <2>3. ASSUME NEW j \in returned' PROVE receipts[j] # id
    <3>1. j \in DOMAIN receipts /\ j \in 1 .. records /\ records \in Nat
      BY <1>3, <1>7 DEF RecordTypes
    <3>2. receipts[j] \in Before(j)
      BY <3>1 DEF RecordTypes
    <3>3. id \in Nat /\ id \notin 1 .. (j - 1)
      BY <1>7, <2>1, <3>1
    <3>4. QED
      BY <3>2, <3>3, RecordFacts DEF Before
  <2>4. QED
    BY <2>1, <2>2, <2>3
<1>11. ChainOK' /\ CopiesOK'
  BY <1>3, <1>10 DEF ChainOK, CopiesOK
<1>12. Records!HistoryKept'
  <2>1. SUFFICES ASSUME ~overlapped, ~wrecked PROVE receipts[id] \in Records!Range(history)
    BY <1>3 DEF Records!HistoryKept, Records!Range
  <2>2. QED
    BY <1>1, <1>2, <2>1 DEF CopiesOK
<1>13. Records!OneSuccessor'
  BY <1>3, <1>10 DEF Records!OneSuccessor
<1>14. QED
  BY <1>8, <1>9, <1>11, <1>12, <1>13

LEMMA DieOK ==
  ASSUME RecordInv, Records!Die PROVE RecordInv'
<1> USE DEF RecordInv
<1>1. /\ step' = [t \in Thread |-> Records!Idle]
      /\ wrecked' = (wrecked \/ \E t \in Thread : step[t].at \in {"copying", "filling"})
      /\ UNCHANGED <<client, history, receipts, records, returned, overlapped>>
  BY DEF Records!Die
<1>2. \A t \in Thread : ~Busy(t)' /\ step'[t].at = "idle"
  BY <1>1 DEF Busy, Records!Idle
<1>3. RecordTypes'
  <2>1. step' \in [Thread -> {Records!Idle} \cup Loaded \cup Numbered \cup Copying]
    BY <1>1
  <2>2. QED
    BY <1>1, <2>1 DEF RecordTypes
<1>4. ProgressOK' /\ NumbersTaken' /\ ChainOK' /\ CopiesOK'
  BY <1>1, <1>2 DEF ProgressOK, NumbersTaken, ChainOK, CopiesOK
<1>5. Records!HistoryKept' /\ Records!OneSuccessor'
  BY <1>1 DEF Records!HistoryKept, Records!OneSuccessor, Records!Range
<1>6. QED
  BY <1>3, <1>4, <1>5

LEMMA RecordInvariance ==
  ASSUME Records!RecordsAssumption PROVE Records!Spec => []RecordInv
<1>1. Records!Init => RecordInv
  <2> SUFFICES ASSUME Records!Init PROVE RecordInv
    OBVIOUS
  <2>1. /\ client = Installed /\ history = <<>> /\ receipts = <<>> /\ step = [t \in Thread |-> Records!Idle]
        /\ records = 0 /\ returned = {} /\ overlapped = FALSE /\ wrecked = FALSE
    BY DEF Records!Init
  <2>2. \A t \in Thread : ~Busy(t) /\ step[t].at = "idle"
    BY <2>1 DEF Busy, Records!Idle
  <2>3. RecordTypes
    <3>1. DOMAIN history = 1 .. 0 /\ DOMAIN receipts = {}
      BY <2>1
    <3>2. \E n \in Nat : DOMAIN history = 1 .. n
      BY <3>1
    <3>3. QED
      BY <2>1, <3>1, <3>2, RecordFacts DEF RecordTypes
  <2>4. ProgressOK /\ NumbersTaken /\ ChainOK /\ CopiesOK
    BY <2>1, <2>2 DEF ProgressOK, NumbersTaken, ChainOK, CopiesOK
  <2>5. QED
    BY <2>1, <2>3, <2>4 DEF RecordInv, Records!HistoryKept, Records!OneSuccessor
<1>2. RecordInv /\ [Records!Next]_(Records!vars) => RecordInv'
  <2>1. ASSUME RecordInv, UNCHANGED Records!vars PROVE RecordInv'
    BY <2>1 DEF Records!vars, RecordInv, RecordTypes, ProgressOK, NumbersTaken, ChainOK, CopiesOK, Busy,
      Records!HistoryKept, Records!OneSuccessor, Records!Range
  <2>2. QED
    BY <2>1, LoadOK, ReceiptOK, NumberOK, OpenCopyOK, FillCopyOK, OpenStateOK, FillStateOK, DieOK DEF Records!Next
<1>3. QED
  BY <1>1, <1>2, PTL DEF Records!Spec

\* For any number of threads, exchanges and deaths: a confirmed exchange has its
\* receipt, whatever overlaps (record_interaction writes it first).
THEOREM ReceiptsOfTheConfirmed == ASSUME Records!RecordsAssumption PROVE Records!Spec => []Records!ConfirmedHasReceipt
<1>1. RecordInv => Records!ConfirmedHasReceipt
  BY DEF RecordInv, RecordTypes, Records!ConfirmedHasReceipt
<1>2. QED
  BY <1>1, RecordInvariance, PTL

\* What a confirmed exchange replaced is in the history (store.py:186), as long
\* as no two exchanges overlapped and no death left a torn file.
THEOREM HistoryIsKept == ASSUME Records!RecordsAssumption PROVE Records!Spec => []Records!HistoryKept
<1>1. RecordInv => Records!HistoryKept
  BY DEF RecordInv
<1>2. QED
  BY <1>1, RecordInvariance, PTL

\* Without an overlap the confirmed exchanges form one chain, also across
\* deaths: no version is replaced twice.
THEOREM ExchangesFormOneChain == ASSUME Records!RecordsAssumption PROVE Records!Spec => []Records!OneSuccessor
<1>1. RecordInv => Records!OneSuccessor
  BY DEF RecordInv
<1>2. QED
  BY <1>1, RecordInvariance, PTL
-----------------------------------------------------------------------------
(* The decision engine for every bound on what one message asks for.       *)

CONSTANT MaxTopics
VARIABLES asker, topics, decision

Engine == INSTANCE ClientPolicy WITH customer <- asker

\* The one feature that a further topic can take away; no condition names it.
Vague == {"budget unknown", "budget medium", "budget known"}
Firm(trigger) == \A condition \in trigger : condition \cap Vague = {}

Level == {1, 2}
Depth == {1, 2, 3}
Sound(p) ==
  /\ p.approval \in Level /\ p.ceiling \in Depth
  /\ Firm(p.trigger) /\ \A group \in p.alternatives : Firm(group)

\* The canonical policies, one by one.
LEMMA Sound1To7 == \A i \in 1 .. 7 : Sound(Engine!Policies1To7[i])
<1>1. /\ Sound(Engine!Policies1To7[1])
      /\ Sound(Engine!Policies1To7[2])
      /\ Sound(Engine!Policies1To7[3])
      /\ Sound(Engine!Policies1To7[4])
  BY DEF Engine!Policies1To7, Engine!Policy, Sound, Firm, Vague, Level, Depth
<1>2. /\ Sound(Engine!Policies1To7[5])
      /\ Sound(Engine!Policies1To7[6])
      /\ Sound(Engine!Policies1To7[7])
  BY DEF Engine!Policies1To7, Engine!Policy, Sound, Firm, Vague, Level, Depth
<1>3. QED
  BY <1>1, <1>2

LEMMA Sound8To14 == \A i \in 1 .. 7 : Sound(Engine!Policies8To14[i])
<1>1. /\ Sound(Engine!Policies8To14[1])
      /\ Sound(Engine!Policies8To14[2])
      /\ Sound(Engine!Policies8To14[3])
      /\ Sound(Engine!Policies8To14[4])
  BY DEF Engine!Policies8To14, Engine!Policy, Sound, Firm, Vague, Level, Depth
<1>2. /\ Sound(Engine!Policies8To14[5])
      /\ Sound(Engine!Policies8To14[6])
      /\ Sound(Engine!Policies8To14[7])
  BY DEF Engine!Policies8To14, Engine!Policy, Sound, Firm, Vague, Level, Depth
<1>3. QED
  BY <1>1, <1>2

LEMMA Sound15To22 == \A i \in 1 .. 8 : Sound(Engine!Policies15To22[i])
<1>1. /\ Sound(Engine!Policies15To22[1])
      /\ Sound(Engine!Policies15To22[2])
      /\ Sound(Engine!Policies15To22[3])
      /\ Sound(Engine!Policies15To22[4])
  BY DEF Engine!Policies15To22, Engine!Policy, Sound, Firm, Vague, Level, Depth
<1>2. /\ Sound(Engine!Policies15To22[5])
      /\ Sound(Engine!Policies15To22[6])
      /\ Sound(Engine!Policies15To22[7])
      /\ Sound(Engine!Policies15To22[8])
  BY DEF Engine!Policies15To22, Engine!Policy, Sound, Firm, Vague, Level, Depth
<1>3. QED
  BY <1>1, <1>2

LEMMA PoliciesAre ==
  /\ \A i \in DOMAIN Engine!Policies : Sound(Engine!Policies[i])
  /\ \E i \in DOMAIN Engine!Policies : Engine!Policies[i] = Engine!Policies8To14[7]
<1>1. PICK P : P = {p \in {Engine!Policies1To7[i] : i \in 1 .. 7} \cup {Engine!Policies8To14[i] : i \in 1 .. 7}
                        \cup {Engine!Policies15To22[i] : i \in 1 .. 8} : Sound(p)}
  OBVIOUS
<1>2. Engine!Policies1To7 \in Seq(P) /\ Len(Engine!Policies1To7) = 7
  <2>1. Len(Engine!Policies1To7) = 7 /\ DOMAIN Engine!Policies1To7 = 1 .. 7 /\ Engine!Policies1To7 = [i \in 1 .. 7 |-> Engine!Policies1To7[i]]
    BY DEF Engine!Policies1To7
  <2>2. \A i \in 1 .. 7 : Engine!Policies1To7[i] \in P
    BY <1>1, Sound1To7
  <2>3. QED
    BY <2>1, <2>2
<1>3. Engine!Policies8To14 \in Seq(P) /\ Len(Engine!Policies8To14) = 7
  <2>1. Len(Engine!Policies8To14) = 7 /\ DOMAIN Engine!Policies8To14 = 1 .. 7 /\ Engine!Policies8To14 = [i \in 1 .. 7 |-> Engine!Policies8To14[i]]
    BY DEF Engine!Policies8To14
  <2>2. \A i \in 1 .. 7 : Engine!Policies8To14[i] \in P
    BY <1>1, Sound8To14
  <2>3. QED
    BY <2>1, <2>2
<1>4. Engine!Policies15To22 \in Seq(P) /\ Len(Engine!Policies15To22) = 8
  <2>1. Len(Engine!Policies15To22) = 8 /\ DOMAIN Engine!Policies15To22 = 1 .. 8 /\ Engine!Policies15To22 = [i \in 1 .. 8 |-> Engine!Policies15To22[i]]
    BY DEF Engine!Policies15To22
  <2>2. \A i \in 1 .. 8 : Engine!Policies15To22[i] \in P
    BY <1>1, Sound15To22
  <2>3. QED
    BY <2>1, <2>2
<1>5. PICK a \in Seq(P), b \in Seq(P), c \in Seq(P) :
        a = Engine!Policies1To7 /\ b = Engine!Policies8To14 /\ c = Engine!Policies15To22 /\ Len(a) = 7 /\ Len(b) = 7 /\ Len(c) = 8
  BY <1>2, <1>3, <1>4
<1>6. PICK t : t = a \o b
  OBVIOUS
<1>7. t \in Seq(P) /\ Len(t) = 14 /\ t[14] = b[7]
  <2>1. /\ t \in Seq(P) /\ Len(t) = Len(a) + Len(b)
        /\ \A i \in 1 .. Len(a) + Len(b) : t[i] = IF i <= Len(a) THEN a[i] ELSE b[i - Len(a)]
    BY <1>6, ConcatProperties
  <2>2. Len(t) = 14 /\ 14 \in 1 .. Len(a) + Len(b) /\ ~ (14 <= Len(a)) /\ 14 - Len(a) = 7
    BY <1>5, <2>1
  <2>3. QED
    BY <2>1, <2>2
<1>8. PICK s : s = t \o c
  OBVIOUS
<1>9. s \in Seq(P) /\ Len(s) = 22 /\ s[14] = t[14] /\ DOMAIN s = 1 .. 22
  <2>1. /\ s \in Seq(P) /\ Len(s) = Len(t) + Len(c)
        /\ \A i \in 1 .. Len(t) + Len(c) : s[i] = IF i <= Len(t) THEN t[i] ELSE c[i - Len(t)]
    BY <1>7, <1>8, ConcatProperties
  <2>2. Len(s) = 22 /\ 14 \in 1 .. Len(t) + Len(c) /\ 14 <= Len(t)
    BY <1>5, <1>7, <2>1
  <2>3. DOMAIN s = 1 .. Len(s)
    BY <2>1
  <2>4. QED
    BY <2>1, <2>2, <2>3
<1>10. Engine!Policies = s
  BY <1>5, <1>6, <1>8 DEF Engine!Policies
<1>11. \A i \in 1 .. 22 : s[i] \in P
  BY <1>9, ElementOfSeq
<1>12. \A p \in P : Sound(p)
  BY <1>1
<1>13. QED
  BY <1>5, <1>7, <1>9, <1>10, <1>11, <1>12

\* What no longer holds of a message was of no use to a condition.
LEMMA MatchesStay ==
  ASSUME NEW f, NEW g, f \ Vague \subseteq g
  PROVE  Engine!Matches(f) \subseteq Engine!Matches(g)
<1>1. \A trigger : Firm(trigger) /\ Engine!Holds(trigger, f) => Engine!Holds(trigger, g)
  BY DEF Firm, Engine!Holds
<1>2. SUFFICES ASSUME NEW i \in Engine!Matches(f) PROVE i \in Engine!Matches(g)
  OBVIOUS
<1>3. i \in DOMAIN Engine!Policies
  BY <1>2 DEF Engine!Matches
<1>4. Sound(Engine!Policies[i])
  BY <1>3, PoliciesAre
<1>5. Engine!Holds(Engine!Policies[i].trigger, g)
  BY <1>1, <1>2, <1>4 DEF Sound, Engine!Matches
<1>6. PICK group \in Engine!Policies[i].alternatives : Engine!Holds(group, f)
  BY <1>2 DEF Engine!Matches
<1>7. Engine!Holds(group, g)
  BY <1>1, <1>4, <1>6 DEF Sound
<1>8. QED
  BY <1>3, <1>5, <1>6, <1>7 DEF Engine!Matches

LEMMA LevelMax ==
  ASSUME NEW S \in SUBSET Level, S # {}
  PROVE  Engine!Max(S) \in S /\ \A x \in S : x <= Engine!Max(S)
<1>1. \E m \in S : \A x \in S : m >= x
  <2>1. PICK y \in S : y \in Level /\ \A x \in S : x \in Level
    OBVIOUS
  <2>2. CASE 2 \in S
    BY <2>1, <2>2 DEF Level
  <2>3. CASE 2 \notin S
    BY <2>1, <2>3 DEF Level
  <2>4. QED
    BY <2>2, <2>3
<1>2. QED
  BY <1>1, Zenon DEF Engine!Max, Level

LEMMA DepthMin ==
  ASSUME NEW S \in SUBSET Depth, S # {}
  PROVE  Engine!Min(S) \in S /\ \A x \in S : Engine!Min(S) <= x
<1>1. \E m \in S : \A x \in S : m =< x
  <2>1. PICK y \in S : y \in Depth /\ \A x \in S : x \in Depth
    OBVIOUS
  <2>2. CASE 1 \in S
    BY <2>1, <2>2 DEF Depth
  <2>3. CASE 1 \notin S /\ 2 \in S
    BY <2>1, <2>3 DEF Depth
  <2>4. CASE 1 \notin S /\ 2 \notin S
    BY <2>1, <2>4 DEF Depth
  <2>5. QED
    BY <2>2, <2>3, <2>4
<1>2. QED
  BY <1>1 DEF Engine!Min

\* A decision is the strictest of its matches; one policy matches always, since
\* no assessment says validated.
Strictest(f) ==
  LET d == Engine!Merge(f) IN
    /\ DOMAIN d = {"approval", "ceiling", "restricted"}
    /\ \E i \in Engine!Matches(f) : d.approval = Engine!Policies[i].approval
    /\ \E i \in Engine!Matches(f) : d.ceiling = Engine!Policies[i].ceiling
    /\ \A i \in Engine!Matches(f) : Engine!Policies[i].approval <= d.approval /\ d.ceiling <= Engine!Policies[i].ceiling
    /\ d.restricted = UNION {Engine!Policies[i].restricted : i \in Engine!Matches(f)}

LEMMA Unvalidated ==
  ASSUME NEW f, "method not validated" \in f
  PROVE  \E i \in Engine!Matches(f) : Engine!Policies[i] = Engine!Policies8To14[7]
<1>1. PICK i \in DOMAIN Engine!Policies : Engine!Policies[i] = Engine!Policies8To14[7]
  BY PoliciesAre
<1>2. Engine!Policies8To14[7].trigger = {{"method not validated"}} /\ Engine!Policies8To14[7].alternatives = {{}}
  BY DEF Engine!Policies8To14, Engine!Policy
<1>3. Engine!Holds({{"method not validated"}}, f) /\ Engine!Holds({}, f)
  BY DEF Engine!Holds
<1>4. i \in Engine!Matches(f)
  BY <1>1, <1>2, <1>3 DEF Engine!Matches
<1>5. QED
  BY <1>1, <1>4

LEMMA MergeIsStrictest ==
  ASSUME NEW f, "method not validated" \in f
  PROVE  Strictest(f)
<1>1. PICK M : M = Engine!Matches(f)
  OBVIOUS
<1>2. M # {} /\ M \subseteq DOMAIN Engine!Policies
  BY <1>1, Unvalidated DEF Engine!Matches
<1>3. \A i \in M : Engine!Policies[i].approval \in Level /\ Engine!Policies[i].ceiling \in Depth
  BY <1>2, PoliciesAre DEF Sound
<1>4. PICK A, C : A = {Engine!Policies[i].approval : i \in M} /\ C = {Engine!Policies[i].ceiling : i \in M}
  OBVIOUS
<1>5. A \in SUBSET Level /\ A # {} /\ C \in SUBSET Depth /\ C # {}
  BY <1>2, <1>3, <1>4
<1>6. PICK Q : Q = {Engine!Policies[i] : i \in M}
  OBVIOUS
<1>7. Q # {} /\ {p.approval : p \in Q} = A /\ {p.ceiling : p \in Q} = C /\ UNION {p.restricted : p \in Q} = UNION {Engine!Policies[i].restricted : i \in M}
  BY <1>2, <1>4, <1>6
<1>8. Engine!Merge(f) = [approval |-> Engine!Max(A), ceiling |-> Engine!Min(C), restricted |-> UNION {Engine!Policies[i].restricted : i \in M}]
  BY <1>1, <1>6, <1>7 DEF Engine!Merge
<1>9. Engine!Max(A) \in A /\ (\A x \in A : x <= Engine!Max(A)) /\ Engine!Min(C) \in C /\ \A x \in C : Engine!Min(C) <= x
  BY <1>5, LevelMax, DepthMin
<1>10. PICK d : d = Engine!Merge(f)
  OBVIOUS
<1>11. /\ d.approval = Engine!Max(A) /\ d.ceiling = Engine!Min(C) /\ DOMAIN d = {"approval", "ceiling", "restricted"}
       /\ d.restricted = UNION {Engine!Policies[i].restricted : i \in M}
  <2>1. PICK a, c, u : a = Engine!Max(A) /\ c = Engine!Min(C) /\ u = UNION {Engine!Policies[i].restricted : i \in M}
    OBVIOUS
  <2>2. d = [approval |-> a, ceiling |-> c, restricted |-> u]
    BY <1>8, <1>10, <2>1
  <2>3. d.approval = a /\ d.ceiling = c /\ d.restricted = u /\ DOMAIN d = {"approval", "ceiling", "restricted"}
    BY <2>2
  <2>4. QED
    BY <2>1, <2>3
<1>12. (\E i \in M : d.approval = Engine!Policies[i].approval) /\ \E i \in M : d.ceiling = Engine!Policies[i].ceiling
  BY <1>4, <1>9, <1>11
<1>13. \A i \in M : Engine!Policies[i].approval <= d.approval /\ d.ceiling <= Engine!Policies[i].ceiling
  BY <1>4, <1>9, <1>11
<1>14. QED
  BY <1>1, <1>10, <1>11, <1>12, <1>13 DEF Strictest

\* More features, none of use lost: the approval rises, the disclosure falls.
LEMMA MergeTightens ==
  ASSUME NEW f, NEW g, f \ Vague \subseteq g, "method not validated" \in f
  PROVE  /\ Engine!Merge(g).approval >= Engine!Merge(f).approval
         /\ Engine!Merge(g).ceiling <= Engine!Merge(f).ceiling
         /\ Engine!Merge(f).restricted \subseteq Engine!Merge(g).restricted
<1>1. PICK d, e : d = Engine!Merge(f) /\ e = Engine!Merge(g)
  OBVIOUS
<1>2. "method not validated" \in g
  BY DEF Vague
<1>3. PICK M, N : M = Engine!Matches(f) /\ N = Engine!Matches(g)
  OBVIOUS
<1>4. M \subseteq N
  BY <1>3, MatchesStay
<1>5. /\ \E i \in M : d.approval = Engine!Policies[i].approval
      /\ \E i \in M : d.ceiling = Engine!Policies[i].ceiling
      /\ d.restricted = UNION {Engine!Policies[i].restricted : i \in M}
  BY <1>1, <1>3, MergeIsStrictest DEF Strictest
<1>6. /\ \A i \in N : Engine!Policies[i].approval <= e.approval /\ e.ceiling <= Engine!Policies[i].ceiling
      /\ e.restricted = UNION {Engine!Policies[i].restricted : i \in N}
  BY <1>1, <1>2, <1>3, MergeIsStrictest DEF Strictest
<1>7. d.approval <= e.approval /\ e.ceiling <= d.ceiling
  BY <1>4, <1>5, <1>6
<1>8. d.restricted \subseteq e.restricted
  BY <1>4, <1>5, <1>6
<1>9. QED
  <2>1. e.approval \in Level /\ d.approval \in Level
    <3>1. \A i \in DOMAIN Engine!Policies : Engine!Policies[i].approval \in Level
      BY PoliciesAre DEF Sound
    <3>2. M \subseteq DOMAIN Engine!Policies /\ N \subseteq DOMAIN Engine!Policies
      BY <1>3 DEF Engine!Matches
    <3>3. \E i \in N : e.approval = Engine!Policies[i].approval
      BY <1>1, <1>2, <1>3, MergeIsStrictest DEF Strictest
    <3>4. QED
      BY <1>5, <3>1, <3>2, <3>3
  <2>2. e.approval >= d.approval
    BY <1>7, <2>1 DEF Level
  <2>3. QED
    BY <1>1, <1>7, <1>8, <2>2

\* Saying more of a low budget keeps it low; every other feature stays.
LEMMA FeaturesStay ==
  ASSUME NEW c, NEW m, NEW t
  PROVE  Engine!Features(c, m) \ Vague \subseteq Engine!Features(c, m \cup {t})
<1>1. Engine!Budget(c, m) \in Vague \/ Engine!Budget(c, m \cup {t}) = Engine!Budget(c, m)
  BY DEF Engine!Budget, Vague
<1>2. QED
  BY <1>1 DEF Engine!Features

\* The decision on file is that of the features, unless it was refused.
EngineInv == decision = Engine!Decide(asker, topics)

LEMMA Answered ==
  ASSUME NEW c, NEW m, Engine!Decided(Engine!Decide(c, m))
  PROVE  Engine!Decide(c, m) = Engine!Merge(Engine!Features(c, m))
<1>1. ~ Engine!Decided([refused |-> TRUE])
  BY DEF Engine!Decided
<1>2. QED
  BY <1>1 DEF Engine!Decide

LEMMA EngineStarts == Engine!Init => EngineInv
  BY DEF Engine!Init, EngineInv

LEMMA EngineStep == EngineInv /\ [Engine!Next]_(Engine!vars) => EngineInv'
  BY DEF EngineInv, Engine!Next, Engine!AskMore, Engine!vars

\* SPEC 57, fail closed (policy.py:76): each thing more that a customer asks
\* for only raises the approval a reply needs, lowers what may be disclosed and
\* restricts more actions: for a message of any customer and any number of
\* topics, in whatever order they are taken, over the table of policies.
THEOREM MoreNeverLoosens ==
  Engine!Spec => Engine!AskingMoreNeverLoosens
<1>1. Engine!Init => EngineInv
  BY EngineStarts
<1>2. EngineInv /\ [Engine!Next]_(Engine!vars) => EngineInv'
  BY EngineStep
<1>3. ASSUME EngineInv, [Engine!Next]_(Engine!vars), decision' # decision, Engine!Decided(decision), Engine!Decided(decision')
      PROVE  /\ decision'.approval >= decision.approval
             /\ decision'.ceiling <= decision.ceiling
             /\ decision.restricted \subseteq decision'.restricted
  <2>1. PICK t : topics' = topics \cup {t} /\ asker' = asker /\ decision' = Engine!Decide(asker, topics')
    BY <1>3 DEF Engine!Next, Engine!AskMore, Engine!vars
  <2>2. PICK f, g : f = Engine!Features(asker, topics) /\ g = Engine!Features(asker, topics \cup {t})
    OBVIOUS
  <2>3. decision = Engine!Merge(f) /\ decision' = Engine!Merge(g)
    BY <1>3, <2>1, <2>2, Answered DEF EngineInv
  <2>4. f \ Vague \subseteq g /\ "method not validated" \in f
    BY <2>2, FeaturesStay DEF Engine!Features
  <2>5. QED
    BY <2>3, <2>4, MergeTightens
<1>4. EngineInv /\ [Engine!Next]_(Engine!vars)
        => [decision' # decision /\ Engine!Decided(decision) /\ Engine!Decided(decision') =>
              /\ decision'.approval >= decision.approval
              /\ decision'.ceiling <= decision.ceiling
              /\ decision.restricted \subseteq decision'.restricted]_(Engine!vars)
  BY <1>3
<1>5. QED
  BY <1>1, <1>2, <1>4, PTL DEF Engine!Spec, Engine!AskingMoreNeverLoosens

\* No message, to no customer, is answered without approval or with the full
\* plan or workflow (select_response_strategy): no assessment says validated.
THEOREM NothingUnapproved ==
  Engine!Spec => []Engine!BoundaryHolds
<1>1. Engine!Init => EngineInv
  BY EngineStarts
<1>2. EngineInv /\ [Engine!Next]_(Engine!vars) => EngineInv'
  BY EngineStep
<1>3. ASSUME EngineInv, Engine!Decided(decision)
      PROVE  decision.approval >= 1 /\ decision.ceiling <= 2 /\ {Engine!FullPlan, Engine!Workflow} \subseteq decision.restricted
  <2>1. PICK f : f = Engine!Features(asker, topics)
    OBVIOUS
  <2>2. decision = Engine!Merge(f) /\ "method not validated" \in f
    BY <1>3, <2>1, Answered DEF EngineInv, Engine!Features
  <2>3. PICK i \in Engine!Matches(f) : Engine!Policies[i] = Engine!Policies8To14[7]
    BY <2>2, Unvalidated
  <2>4. /\ \E j \in Engine!Matches(f) : decision.approval = Engine!Policies[j].approval
        /\ \E j \in Engine!Matches(f) : decision.ceiling = Engine!Policies[j].ceiling
        /\ decision.ceiling <= Engine!Policies[i].ceiling
        /\ Engine!Policies[i].restricted \subseteq decision.restricted
    BY <2>2, MergeIsStrictest DEF Strictest
  <2>5. \A j \in Engine!Matches(f) : Engine!Policies[j].approval \in Level
    BY PoliciesAre DEF Sound, Engine!Matches
  <2>6. decision.approval >= 1
    BY <2>4, <2>5 DEF Level
  <2>7. Engine!Policies8To14[7].ceiling = 2 /\ {Engine!FullPlan, Engine!Workflow} \subseteq Engine!Policies8To14[7].restricted
    BY DEF Engine!Policies8To14, Engine!Policy
  <2>8. QED
    BY <2>3, <2>4, <2>6, <2>7
<1>4. EngineInv => Engine!BoundaryHolds
  BY <1>3 DEF Engine!BoundaryHolds
<1>5. QED
  BY <1>1, <1>2, <1>4, PTL DEF Engine!Spec
=============================================================================
