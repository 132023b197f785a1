---------------------------- MODULE RuntimeProofs ----------------------------
(***************************************************************************)
(* What Settlement promises of a receipt, for any number of runs, writes,  *)
(* artifacts and calls.  The argument is the order of the digests: what a  *)
(* run finds at acceptance was written before it, so what differs from its *)
(* snapshot was written while it ran, and what a paused run wrote and is   *)
(* still there at its pause is in its receipt.  And what ArtifactDelivery  *)
(* promises of the work the receipt lists, and Composition of the agent.   *)
(***************************************************************************)
EXTENDS Settlement, Sequences, FiniteSetTheorems, WellFoundedInduction, TLAPS

Terminal == {"completed", "failed", "limit_reached"}

\* Runs and digests are given out in order.
OrderOK ==
  /\ \A f \in File : file[f] <= writes /\ (file[f] # Absent => writer[file[f]] # NoRun)
  /\ \A r \in Run, f \in File : base[r][f] <= writes
  /\ \A d \in Digest : writer[d] <= runs
  /\ \A r \in Run : \A x \in receipt[r].facts : x[2] <= writes

\* A run is accepted, runs and is over; a receipt ends it.
PhaseOK ==
  /\ \A r \in Run : phase[r] = "none" <=> r > runs
  /\ \A r \in Run : receipt[r].state # "none" => phase[r] = "over"
  /\ \A r \in Run : receipt[r].state = "none" => receipt[r].facts = {}
  /\ \A r \in Run : prior[r] # NoRun => receipt[prior[r]].state = "paused"

\* Two runs that are running know of each other.
BesideOK == \A r, q \in Running : r # q => q \in overlap[r]

\* What differs from the snapshot of a running run was written while it ran,
\* and what it found then is not its own.
SnapshotOK ==
  \A r \in Running : \A f \in File :
    /\ file[f] # Absent /\ file[f] # base[r][f] => writer[file[f]] \in {r} \cup overlap[r]
    /\ base[r][f] # Absent => writer[base[r][f]] # r

\* A pause receipt: what was written while the run ran, and of what the run
\* itself wrote everything that is still there.
PausedOK ==
  \A p \in Run : receipt[p].state = "paused" =>
    /\ \A x \in receipt[p].facts : writer[x[2]] \in {p} \cup overlap[p]
    /\ \A f \in File : file[f] # Absent /\ writer[file[f]] = p => <<f, file[f]>> \in receipt[p].facts

IInv == TypeOK /\ OrderOK /\ PhaseOK /\ BesideOK /\ SnapshotOK /\ PausedOK /\ FactsNotFromBefore
-----------------------------------------------------------------------------
LEMMA InitIInv == ASSUME SettlementAssumption, Init PROVE IInv
<1>1. TypeOK
  BY DEF SettlementAssumption, Init, TypeOK, Run, Digest, NoRun, Absent, Receipt, Fact
<1>2. OrderOK
  BY DEF SettlementAssumption, Init, OrderOK, Run, Digest, NoRun, Absent
<1>3. PhaseOK /\ BesideOK /\ SnapshotOK /\ PausedOK /\ FactsNotFromBefore
  BY DEF Init, PhaseOK, BesideOK, SnapshotOK, PausedOK, FactsNotFromBefore, Running, Run, NoRun
<1> QED
  BY <1>1, <1>2, <1>3 DEF IInv

\* The types the steps rest on, with the sets of numbers expanded.
LEMMA Types ==
  ASSUME SettlementAssumption, TypeOK
  PROVE  /\ MaxRuns \in Nat /\ MaxWrites \in Nat /\ writes \in Nat /\ runs \in Nat
         /\ writes <= MaxWrites /\ runs <= MaxRuns
         /\ \A f \in File : file[f] \in Nat /\ (file[f] # Absent => file[f] \in Digest)
         /\ \A r \in Run, f \in File : base[r][f] \in Nat /\ (base[r][f] # Absent => base[r][f] \in Digest)
         /\ \A d \in Digest : writer[d] \in Nat /\ d \in Nat /\ d # Absent
         /\ \A r \in Run : r \in Nat /\ prior[r] \in Nat /\ (prior[r] # NoRun => prior[r] \in Run)
         /\ \A r \in Run : \A x \in receipt[r].facts :
              x[1] \in File /\ x[2] \in Digest /\ x = <<x[1], x[2]>>
         /\ \A r \in Run : overlap[r] \subseteq Run
<1>1. \A r \in Run : receipt[r].facts \subseteq File \X Digest
  BY DEF TypeOK, Receipt, Fact
<1> QED
  BY <1>1 DEF SettlementAssumption, TypeOK, Run, Digest, NoRun, Absent
-----------------------------------------------------------------------------
\* A new run finds the files as they are, and everything that runs beside it.
LEMMA AcceptStep ==
  ASSUME SettlementAssumption, IInv, NEW p \in Run \cup {NoRun}, Accept(p)
  PROVE  IInv'
<1>0. PICK n : n = runs + 1
  OBVIOUS
<1>1. /\ n \in Run /\ n \in Nat /\ runs < n /\ phase[n] = "none" /\ receipt[n].state = "none"
      /\ receipt[n].facts = {} /\ n \notin Running
  BY <1>0, Types DEF IInv, PhaseOK, Accept, Run, Running, SettlementAssumption
<1>2. /\ runs' = n /\ UNCHANGED <<file, writer, writes, call, receipt>>
      /\ p # NoRun => receipt[p].state = "paused"
      /\ \A r \in Run : /\ phase'[r] = IF r = n THEN "running" ELSE phase[r]
                        /\ prior'[r] = IF r = n THEN p ELSE prior[r]
                        /\ base'[r] = IF r = n THEN file ELSE base[r]
                        /\ overlap'[r] = IF r = n THEN Running
                                         ELSE IF r \in Running THEN overlap[r] \cup {n} ELSE overlap[r]
  BY <1>0, <1>1 DEF Accept, IInv, TypeOK
<1>2a. /\ phase'[n] = "running" /\ base'[n] = file /\ overlap'[n] = Running
       /\ \A r \in Run : r # n => phase'[r] = phase[r] /\ base'[r] = base[r] /\ overlap[r] \subseteq overlap'[r]
  BY <1>1, <1>2
<1>3. TypeOK'
  <2>1. Running \subseteq Run /\ n \in 0 .. MaxRuns
    BY <1>1 DEF Running, Run
  <2>2. overlap' \in [Run -> SUBSET Run]
    <3>1. overlap \in [Run -> SUBSET Run]
      BY DEF IInv, TypeOK
    <3>2. overlap' = [r \in Run |-> IF r = n THEN Running
                                    ELSE IF r \in Running THEN overlap[r] \cup {n} ELSE overlap[r]]
      BY <1>0 DEF Accept
    <3> QED
      BY <1>1, <2>1, <3>1, <3>2
  <2>3. base' \in [Run -> [File -> Digest \cup {Absent}]]
    <3>1. file \in [File -> Digest \cup {Absent}] /\ base \in [Run -> [File -> Digest \cup {Absent}]]
      BY DEF IInv, TypeOK
    <3>2. base' = [base EXCEPT ![n] = file]
      BY <1>0 DEF Accept
    <3> QED
      BY <1>1, <3>1, <3>2
  <2> QED
    BY <1>1, <1>2, <2>1, <2>2, <2>3 DEF Accept, IInv, TypeOK
<1>4. OrderOK'
  <2>1. \A d \in Digest : writer[d] <= n
    BY <1>0, <1>1, Types DEF IInv, OrderOK
  <2> QED
    BY <1>2, <2>1 DEF IInv, OrderOK
<1>5. PhaseOK'
  <2>1. ASSUME NEW r \in Run PROVE phase'[r] = "none" <=> r > n
    <3>1. r \in Nat /\ runs \in Nat /\ (phase[r] = "none" <=> r > runs)
      BY Types DEF IInv, PhaseOK
    <3>2. CASE r = n
      BY <1>1, <1>2a, <3>2
    <3>3. CASE r # n
      BY <1>0, <1>1, <1>2a, <3>1, <3>3
    <3> QED
      BY <3>2, <3>3
  <2>2. \A r \in Run : receipt[r].state # "none" => phase'[r] = "over"
    BY <1>1, <1>2a DEF IInv, PhaseOK
  <2>3. \A r \in Run : prior'[r] # NoRun => receipt[prior'[r]].state = "paused"
    BY <1>2 DEF IInv, PhaseOK
  <2> QED
    BY <1>2, <2>1, <2>2, <2>3 DEF IInv, PhaseOK
<1>6. Running' = Running \cup {n}
  BY <1>1, <1>2 DEF Running
<1>7. BesideOK'
  <2> SUFFICES ASSUME NEW r \in Running \cup {n}, NEW q \in Running \cup {n}, r # q PROVE q \in overlap'[r]
    BY <1>6 DEF BesideOK
  <2>1. r \in Run /\ q \in Run
    BY <1>1 DEF Running
  <2> QED
    BY <1>1, <1>2, <2>1 DEF IInv, BesideOK
<1>8. SnapshotOK'
  <2> SUFFICES ASSUME NEW r \in Running \cup {n}, NEW f \in File
               PROVE  /\ file[f] # Absent /\ file[f] # base'[r][f] => writer[file[f]] \in {r} \cup overlap'[r]
                      /\ base'[r][f] # Absent => writer[base'[r][f]] # r
    BY <1>2, <1>6 DEF SnapshotOK
  <2>1. CASE r = n
    <3>1. file[f] # Absent => writer[file[f]] # n
      BY <1>0, <1>1, Types DEF IInv, OrderOK
    <3> QED
      BY <1>2a, <2>1, <3>1
  <2>2. CASE r \in Running /\ r # n
    BY <1>2a, <2>2 DEF IInv, SnapshotOK, Running
  <2> QED
    BY <2>1, <2>2
<1>9. \A r \in Run : overlap[r] \subseteq overlap'[r] \/ receipt[r].state = "none"
  BY <1>1, <1>2
<1>10. PausedOK'
  BY <1>2, <1>9 DEF IInv, PausedOK
<1>11. FactsNotFromBefore'
  <2> SUFFICES ASSUME NEW r \in Run, NEW x \in receipt[r].facts
               PROVE  writer[x[2]] \in {r, prior'[r]} \cup overlap'[r]
                                      \cup (IF prior'[r] = NoRun THEN {} ELSE overlap'[prior'[r]])
    BY <1>2 DEF FactsNotFromBefore
  <2>1. r # n /\ receipt[r].state # "none" /\ prior'[r] = prior[r] /\ overlap[r] \subseteq overlap'[r]
    BY <1>1, <1>2, <1>9 DEF IInv, PhaseOK
  <2>2. prior[r] # NoRun => overlap[prior[r]] \subseteq overlap'[prior[r]]
    BY <1>9, Types DEF IInv, PhaseOK
  <2> QED
    BY <2>1, <2>2 DEF IInv, FactsNotFromBefore
<1> QED
  BY <1>3, <1>4, <1>5, <1>7, <1>8, <1>10, <1>11 DEF IInv

\* A write is a new digest: of a run that is running, so beside every other.
LEMMA WriteStep ==
  ASSUME SettlementAssumption, IInv, NEW w \in Run, NEW g \in File, WriteArtifact(w, g)
  PROVE  IInv'
<1> DEFINE n == writes + 1
<1>1. /\ w \in Running /\ n \in Digest /\ n \in Nat /\ writes < n /\ n # Absent
  BY Types DEF WriteArtifact, Running, Digest, Absent, SettlementAssumption, IInv
<1>2. /\ writes' = n /\ UNCHANGED <<runs, phase, prior, base, call, receipt, overlap>>
      /\ \A f \in File : file'[f] = IF f = g THEN n ELSE file[f]
      /\ \A d \in Digest : writer'[d] = IF d = n THEN w ELSE writer[d]
  BY <1>1 DEF WriteArtifact, IInv, TypeOK
<1>3. TypeOK'
  <2>1. n \in 0 .. MaxWrites
    BY <1>1 DEF Digest
  <2> QED
    BY <1>1, <1>2, <2>1 DEF WriteArtifact, IInv, TypeOK
<1>4. Running' = Running
  BY <1>2 DEF Running
<1>5. w <= runs
  BY <1>1, Types DEF IInv, PhaseOK, Running
<1>6. OrderOK'
  <2>1. \A f \in File : file'[f] <= n /\ (file'[f] # Absent => writer'[file'[f]] # NoRun)
    <3>1. w # NoRun
      BY DEF Run, NoRun
    <3> QED
      BY <1>1, <1>2, <3>1, Types DEF IInv, OrderOK
  <2>2. \A r \in Run, f \in File : base[r][f] <= n
    BY <1>1, Types DEF IInv, OrderOK
  <2>3. \A d \in Digest : writer'[d] <= runs
    BY <1>2, <1>5 DEF IInv, OrderOK
  <2>4. \A r \in Run : \A x \in receipt[r].facts : x[2] <= n
    BY <1>1, Types DEF IInv, OrderOK, Digest
  <2> QED
    BY <1>2, <2>1, <2>2, <2>3, <2>4 DEF OrderOK
<1>7. /\ \A f \in File : file[f] # Absent => file[f] # n /\ writer'[file[f]] = writer[file[f]]
      /\ \A r \in Run, f \in File : base[r][f] # Absent => base[r][f] # n /\ writer'[base[r][f]] = writer[base[r][f]]
      /\ \A r \in Run : \A x \in receipt[r].facts : writer'[x[2]] = writer[x[2]]
  <2>1. \A f \in File : file[f] # n
    BY <1>1, Types DEF IInv, OrderOK
  <2>2. \A r \in Run, f \in File : base[r][f] # n
    BY <1>1, Types DEF IInv, OrderOK
  <2>3. \A r \in Run : \A x \in receipt[r].facts : x[2] # n
    BY <1>1, Types DEF IInv, OrderOK, Digest
  <2> QED
    BY <1>2, <2>1, <2>2, <2>3, Types DEF IInv
<1>8. PhaseOK' /\ BesideOK'
  BY <1>2, <1>4 DEF IInv, PhaseOK, BesideOK
<1>9. SnapshotOK'
  <2> SUFFICES ASSUME NEW r \in Running, NEW f \in File
               PROVE  /\ file'[f] # Absent /\ file'[f] # base[r][f] => writer'[file'[f]] \in {r} \cup overlap[r]
                      /\ base[r][f] # Absent => writer'[base[r][f]] # r
    BY <1>2, <1>4 DEF SnapshotOK
  <2>1. w \in {r} \cup overlap[r]
    BY <1>1 DEF IInv, BesideOK
  <2>2. r \in Run
    BY DEF Running
  <2> QED
    BY <1>1, <1>2, <1>7, <2>1, <2>2 DEF IInv, SnapshotOK
<1>10. PausedOK'
  <2> SUFFICES ASSUME NEW p \in Run, receipt[p].state = "paused"
               PROVE  /\ \A x \in receipt[p].facts : writer'[x[2]] \in {p} \cup overlap[p]
                      /\ \A f \in File : file'[f] # Absent /\ writer'[file'[f]] = p => <<f, file'[f]>> \in receipt[p].facts
    BY <1>2 DEF PausedOK
  <2>1. p # w
    BY <1>1 DEF IInv, PhaseOK, Running
  <2> QED
    BY <1>1, <1>2, <1>7, <2>1 DEF IInv, PausedOK
<1>11. FactsNotFromBefore'
  BY <1>2, <1>7 DEF IInv, FactsNotFromBefore
<1> QED
  BY <1>3, <1>6, <1>8, <1>9, <1>10, <1>11 DEF IInv

LEMMA DeleteStep ==
  ASSUME SettlementAssumption, IInv, NEW w \in Run, NEW g \in File, DeleteArtifact(w, g)
  PROVE  IInv'
<1>1. /\ UNCHANGED <<writer, writes, runs, phase, prior, base, call, receipt, overlap>>
      /\ \A f \in File : file'[f] = IF f = g THEN Absent ELSE file[f]
  BY DEF DeleteArtifact, IInv, TypeOK
<1>2. TypeOK'
  BY <1>1 DEF DeleteArtifact, IInv, TypeOK
<1>3. Running' = Running /\ (\A f \in File : file'[f] # Absent => file'[f] = file[f])
  BY <1>1 DEF Running
<1>4. OrderOK'
  BY <1>1, Types DEF IInv, OrderOK, Absent
<1>5. PhaseOK' /\ BesideOK' /\ SnapshotOK'
  BY <1>1, <1>3 DEF IInv, PhaseOK, BesideOK, SnapshotOK
<1>6. PausedOK' /\ FactsNotFromBefore'
  BY <1>1, <1>3 DEF IInv, PausedOK, FactsNotFromBefore
<1> QED
  BY <1>2, <1>4, <1>5, <1>6 DEF IInv

LEMMA CallStep ==
  ASSUME SettlementAssumption, IInv, NEW r \in Run, NEW c \in Call, RecordCall(r, c)
  PROVE  IInv'
<1>1. /\ UNCHANGED <<file, writer, writes, runs, phase, prior, base, receipt, overlap>>
      /\ call' \in [Run -> [Call -> {"none", "started", "settled"}]]
  <2>1. PICK v \in {"started", "settled"} : call' = [call EXCEPT ![r] = [@ EXCEPT ![c] = v]]
    BY DEF RecordCall
  <2>2. [call[r] EXCEPT ![c] = v] \in [Call -> {"none", "started", "settled"}]
    BY DEF IInv, TypeOK
  <2> QED
    BY <2>1, <2>2 DEF RecordCall, IInv, TypeOK
<1> QED
  BY <1>1 DEF IInv, TypeOK, OrderOK, PhaseOK, BesideOK, SnapshotOK, PausedOK, FactsNotFromBefore, Running
-----------------------------------------------------------------------------
\* What a running run has changed, and what of its pause receipt still stands.
LEMMA ChangedFacts ==
  ASSUME SettlementAssumption, IInv, NEW r \in Running
  PROVE  /\ Changed(r) \subseteq Fact
         /\ \A x \in Changed(r) : x[2] <= writes /\ writer[x[2]] \in {r} \cup overlap[r]
         /\ \A f \in File : file[f] # Absent /\ file[f] # base[r][f] => <<f, file[f]>> \in Changed(r)
<1>1. r \in Run
  BY DEF Running
<1>2. ASSUME NEW x \in Changed(r)
      PROVE  x \in Fact /\ x[2] <= writes /\ writer[x[2]] \in {r} \cup overlap[r]
  <2>1. PICK f \in File : file[f] \notin {Absent, base[r][f]} /\ x = <<f, file[f]>>
    BY DEF Changed
  <2>2. file[f] \in Digest /\ x[2] = file[f] /\ x \in Fact
    BY <2>1, Types DEF IInv, Fact
  <2> QED
    BY <2>1, <2>2 DEF IInv, OrderOK, SnapshotOK
<1> QED
  BY <1>2 DEF Changed

LEMMA InheritedFacts ==
  ASSUME SettlementAssumption, IInv, NEW r \in Run
  PROVE  /\ Inherited(r) \subseteq Fact
         /\ \A x \in Inherited(r) : x[2] <= writes /\ prior[r] \in Run /\ prior[r] # NoRun
                                    /\ writer[x[2]] \in {prior[r]} \cup overlap[prior[r]]
         /\ \A f \in File : prior[r] # NoRun /\ <<f, file[f]>> \in receipt[prior[r]].facts
                             => <<f, file[f]>> \in Inherited(r)
<1>1. CASE prior[r] = NoRun
  BY <1>1 DEF Inherited
<1>2. CASE prior[r] # NoRun
  <2>1. prior[r] \in Run /\ receipt[prior[r]].state = "paused"
    BY <1>2, Types DEF IInv, PhaseOK
  <2>2. Inherited(r) = {x \in receipt[prior[r]].facts : file[x[1]] = x[2]}
    BY <1>2 DEF Inherited
  <2>3. receipt[prior[r]].facts \subseteq Fact
    BY <2>1 DEF IInv, TypeOK, Receipt
  <2>4. \A x \in Inherited(r) : x[2] <= writes /\ writer[x[2]] \in {prior[r]} \cup overlap[prior[r]]
    BY <2>1, <2>2 DEF IInv, OrderOK, PausedOK
  <2> QED
    BY <1>2, <2>1, <2>2, <2>3, <2>4
<1> QED
  BY <1>1, <1>2

\* A receipt with facts of that kind keeps the invariant.
LEMMA ReceiptStep ==
  ASSUME SettlementAssumption, IInv, NEW r \in Running,
         NEW state \in {"paused"} \cup Terminal, NEW facts \in SUBSET Fact, NEW unresolved \in SUBSET Call,
         WriteReceipt(r, state, facts, unresolved),
         \A x \in facts : x[2] <= writes,
         \A x \in facts : writer[x[2]] \in {r, prior[r]} \cup overlap[r]
                            \cup (IF prior[r] = NoRun THEN {} ELSE overlap[prior[r]]),
         state = "paused" =>
           /\ \A x \in facts : writer[x[2]] \in {r} \cup overlap[r]
           /\ \A f \in File : file[f] # Absent /\ file[f] # base[r][f] => <<f, file[f]>> \in facts
  PROVE  IInv'
<1>1. r \in Run /\ phase[r] = "running" /\ receipt[r].state = "none"
  BY DEF Running, IInv, PhaseOK, TypeOK, Receipt
<1>2. /\ UNCHANGED <<file, writer, writes, runs, prior, base, call, overlap>>
      /\ \A q \in Run : /\ phase'[q] = IF q = r THEN "over" ELSE phase[q]
                        /\ q # r => receipt'[q] = receipt[q]
      /\ receipt'[r].state = state /\ receipt'[r].facts = facts
  BY <1>1 DEF WriteReceipt, IInv, TypeOK
<1>3. TypeOK'
  BY <1>1, <1>2 DEF WriteReceipt, IInv, TypeOK, Receipt, Terminal
<1>4. OrderOK'
  BY <1>2 DEF IInv, OrderOK
<1>5. PhaseOK'
  <2>1. \A q \in Run : prior[q] # NoRun => prior[q] \in Run /\ prior[q] # r
    BY <1>1, Types DEF IInv, PhaseOK
  <2>2. state # "none"
    BY DEF Terminal
  <2> QED
    BY <1>1, <1>2, <2>1, <2>2 DEF IInv, PhaseOK
<1>6. Running' \subseteq Running
  BY <1>2 DEF Running
<1>7. BesideOK' /\ SnapshotOK'
  BY <1>2, <1>6 DEF IInv, BesideOK, SnapshotOK
<1>8. PausedOK'
  <2>1. state = "paused" => \A f \in File : file[f] # Absent /\ writer[file[f]] = r => <<f, file[f]>> \in facts
    BY DEF IInv, SnapshotOK
  <2> QED
    BY <1>2, <2>1 DEF IInv, PausedOK
<1>9. FactsNotFromBefore'
  BY <1>2 DEF IInv, FactsNotFromBefore
<1> QED
  BY <1>3, <1>4, <1>5, <1>7, <1>8, <1>9 DEF IInv

LEMMA FinalizeStep ==
  ASSUME SettlementAssumption, IInv, NEW r \in Run, NEW outcome \in Terminal, Finalize(r, outcome)
  PROVE  IInv'
<1>1. r \in Running
  BY DEF Finalize, Running
<1>2. PICK state \in Terminal : WriteReceipt(r, state, Changed(r) \cup Inherited(r), Unresolved(r))
  BY DEF Finalize, Terminal
<1>3. Changed(r) \cup Inherited(r) \in SUBSET Fact /\ Unresolved(r) \in SUBSET Call
  BY <1>1, ChangedFacts, InheritedFacts DEF Unresolved
<1>4. \A x \in Changed(r) \cup Inherited(r) :
        /\ x[2] <= writes
        /\ writer[x[2]] \in {r, prior[r]} \cup overlap[r]
                            \cup (IF prior[r] = NoRun THEN {} ELSE overlap[prior[r]])
  BY <1>1, ChangedFacts, InheritedFacts
<1>5. state # "paused"
  BY DEF Terminal
<1> QED
  BY <1>1, <1>2, <1>3, <1>4, <1>5, ReceiptStep

LEMMA PausedStep == ASSUME SettlementAssumption, IInv, NEW r \in Run, BuildPaused(r) PROVE IInv'
<1>1. r \in Running /\ WriteReceipt(r, "paused", Changed(r), {})
  BY DEF BuildPaused, Running
<1>2. /\ Changed(r) \in SUBSET Fact
      /\ \A x \in Changed(r) : x[2] <= writes /\ writer[x[2]] \in {r} \cup overlap[r]
      /\ \A f \in File : file[f] # Absent /\ file[f] # base[r][f] => <<f, file[f]>> \in Changed(r)
  BY <1>1, ChangedFacts
<1> QED
  BY <1>1, <1>2, ReceiptStep

LEMMA LostStep == ASSUME SettlementAssumption, IInv, NEW r \in Run, RunLost(r) PROVE IInv'
<1>1. /\ UNCHANGED <<file, writer, writes, runs, prior, base, call, receipt, overlap>>
      /\ phase[r] = "running" /\ phase' \in [Run -> {"none", "running", "over"}]
      /\ \A q \in Run : phase'[q] = IF q = r THEN "over" ELSE phase[q]
  BY DEF RunLost, IInv, TypeOK
<1>2. Running' \subseteq Running
  BY <1>1 DEF Running
<1>3. TypeOK' /\ OrderOK' /\ PhaseOK'
  BY <1>1 DEF IInv, TypeOK, OrderOK, PhaseOK
<1>4. BesideOK' /\ SnapshotOK' /\ PausedOK' /\ FactsNotFromBefore'
  BY <1>1, <1>2 DEF IInv, BesideOK, SnapshotOK, PausedOK, FactsNotFromBefore
<1> QED
  BY <1>3, <1>4 DEF IInv

LEMMA Inductive == ASSUME SettlementAssumption, IInv, [Next]_vars PROVE IInv'
<1>1. CASE UNCHANGED vars
  BY <1>1 DEF vars, IInv, TypeOK, OrderOK, PhaseOK, BesideOK, SnapshotOK, PausedOK, FactsNotFromBefore, Running
<1> QED
  BY <1>1, AcceptStep, WriteStep, DeleteStep, CallStep, FinalizeStep, PausedStep, LostStep DEF Next, Terminal
-----------------------------------------------------------------------------
\* The step that writes a terminal receipt lists the work of the run and of its pause.
Listed ==
  \A r \in Run : \A f \in File :
    /\ phase[r] = "running"
    /\ receipt'[r].state \in {"completed", "failed", "limit_reached"}
    /\ file[f] # Absent
    /\ writer[file[f]] \in {r, prior[r]}
    => <<f, file[f]>> \in receipt'[r].facts

LEMMA WorkIsListed == ASSUME SettlementAssumption, IInv, Next PROVE Listed
<1> SUFFICES ASSUME NEW r \in Run, NEW f \in File, phase[r] = "running",
                    receipt'[r].state \in Terminal, file[f] # Absent, writer[file[f]] \in {r, prior[r]}
             PROVE  <<f, file[f]>> \in receipt'[r].facts
  BY DEF Listed, Terminal
<1>1. r \in Running /\ receipt[r].state = "none"
  BY DEF Running, IInv, PhaseOK, TypeOK, Receipt
<1>2. <<f, file[f]>> \in Changed(r) \cup Inherited(r)
  <2>1. CASE file[f] # base[r][f]
    BY <1>1, <2>1, ChangedFacts
  <2>2. CASE file[f] = base[r][f]
    <3>1. writer[file[f]] = prior[r] /\ writer[file[f]] # r
      BY <1>1, <2>2 DEF IInv, SnapshotOK
    <3>2. prior[r] # NoRun
      BY <3>1 DEF IInv, OrderOK
    <3> QED
      BY <3>1, <3>2, InheritedFacts, Types DEF IInv, PausedOK, PhaseOK
  <2> QED
    BY <2>1, <2>2
<1>3. PICK state \in Terminal : Finalize(r, state)
  <2>1. receipt'[r] # receipt[r]
    BY <1>1 DEF Terminal
  <2>2. ~ BuildPaused(r)
    BY <1>1 DEF BuildPaused, WriteReceipt, IInv, TypeOK, Terminal, Running
  <2>3. ASSUME NEW q \in Run, NEW state \in Terminal, q # r PROVE ~ Finalize(q, state) /\ ~ BuildPaused(q)
    BY <2>1, <2>3 DEF Finalize, BuildPaused, WriteReceipt, IInv, TypeOK
  <2>4. /\ \A p \in Run \cup {NoRun} : ~ Accept(p)
        /\ \A q \in Run : ~ RunLost(q)
        /\ \A q \in Run, g \in File : ~ WriteArtifact(q, g) /\ ~ DeleteArtifact(q, g)
        /\ \A q \in Run, c \in Call : ~ RecordCall(q, c)
    BY <2>1 DEF Accept, RunLost, WriteArtifact, DeleteArtifact, RecordCall
  <2> QED
    BY <2>2, <2>3, <2>4 DEF Next, Terminal
<1>4. receipt'[r].facts = Changed(r) \cup Inherited(r)
  BY <1>3 DEF Finalize, WriteReceipt, IInv, TypeOK
<1> QED
  BY <1>2, <1>4

\* A receipt claims only what its run, the run it continues, or a run beside one
\* of them wrote, and every artifact that still is the work of the run or of the
\* pause it continues, for any number of runs (runtime.py).
THEOREM ReceiptsAreTheRun == ASSUME SettlementAssumption PROVE Spec => ReceiptIsTheRun
<1>1. Init => IInv
  BY InitIInv
<1>2. IInv /\ [Next]_vars => IInv'
  BY Inductive
<1>3. IInv => TypeOK /\ FactsNotFromBefore
  BY DEF IInv
<1>4. IInv /\ [Next]_vars => [Listed]_vars
  BY WorkIsListed
<1>5. Spec => [](TypeOK /\ FactsNotFromBefore) /\ [][Listed]_vars
  BY <1>1, <1>2, <1>3, <1>4, PTL DEF Spec
<1> QED
  BY <1>5 DEF ReceiptIsTheRun, WorkListed, Listed
-----------------------------------------------------------------------------
(* What becomes of that work (ArtifactDelivery), for any runs, paths,      *)
(* contents and faults.  A temporary file that one run has open is torn    *)
(* until it is written and whole until it is renamed; what is listed is    *)
(* still to be done, done, or told.                                        *)

CONSTANTS Delivered, Path, Content, Large, Gone, Torn, Together, MaxWork, MaxFaults
VARIABLES host, root, pc, outcome, before, facts, todo, failures, data, copied, noticed, replied, sent, told, code,
          work, durable, tmp, full, works, faults, contended

Delivery == INSTANCE ArtifactDelivery WITH Run <- Delivered, Absent <- Gone, base <- before

Early == {"idle", "running", "refused"}
Holding == {"found", "opened", "written"}
Exporting == {"exporting"} \cup Holding

\* TypeOK, with the record of a run and of its beginning for every run.
DeliveryTypes ==
  /\ host \in [Delivered -> {"cli", "gateway"}] /\ root \in [Delivered -> BOOLEAN]
  /\ pc \in [Delivered -> {"idle", "running", "refused"} \cup Delivery!Delivering \cup Delivery!Over]
  /\ outcome \in [Delivered -> {"none", "completed", "failed", "limit_reached", "paused"}]
  /\ before \in [Delivered -> [Path -> Delivery!File]] /\ facts \in [Delivered -> [Path -> Delivery!File]]
  /\ todo \in [Delivered -> SUBSET Path] /\ failures \in [Delivered -> SUBSET Path] /\ copied \in [Delivered -> SUBSET Path]
  /\ sent \in [Delivered -> SUBSET Path] /\ told \in [Delivered -> SUBSET Path]
  /\ data \in [Delivered -> Delivery!File] /\ noticed \in [Delivered -> BOOLEAN] /\ replied \in [Delivered -> BOOLEAN]
  /\ code \in [Delivered -> {"none", "0", "1", "2", "3", "64"}]
  /\ work \in [Path -> Delivery!File]
  /\ durable \in [Path -> Delivery!File \cup {Torn}] /\ tmp \in [Path -> Delivery!File \cup {Torn}] /\ full \in BOOLEAN
  /\ works \in 0 .. MaxWork /\ faults \in 0 .. MaxFaults /\ contended \subseteq Path

\* What is listed: before, during and after its export, and on its way to the chat.
RunOK(r) ==
  /\ pc[r] \in Early => copied[r] = {} /\ failures[r] = {} /\ sent[r] = {} /\ told[r] = {} /\ ~ replied[r] /\ outcome[r] = "none"
  /\ {copied[r], failures[r], sent[r], told[r]} \subseteq SUBSET Delivery!Listed(r)
  /\ pc[r] \in Exporting \cup {"sending"} => todo[r] \subseteq Delivery!Listed(r)
  /\ pc[r] \in Holding => todo[r] # {}
  /\ pc[r] \in Exporting => ~ replied[r] /\
       (outcome[r] = "completed" /\ root[r] => Delivery!Listed(r) = copied[r] \cup failures[r] \cup todo[r])
  /\ pc[r] = "reporting" \/ replied[r] =>
       (outcome[r] = "completed" /\ root[r] =>
          Delivery!Listed(r) = copied[r] \cup failures[r] /\ (failures[r] # {} => noticed[r]))
  /\ pc[r] = "sending" /\ outcome[r] = "completed" => noticed[r] \/ Delivery!Listed(r) = sent[r] \cup told[r] \cup todo[r]
  /\ pc[r] = "done" /\ host[r] = "gateway" /\ outcome[r] = "completed" => noticed[r] \/ Delivery!Listed(r) = sent[r] \cup told[r]
  /\ host[r] = "cli" => pc[r] # "sending"

\* The file a run has in hand.
Hand(r) == Delivery!Least(todo[r])
TempOK ==
  /\ \A r, s \in Delivered : r # s /\ pc[r] \in {"opened", "written"} /\ pc[s] \in {"opened", "written"} /\ Hand(r) = Hand(s) =>
       Hand(r) \in contended
  /\ \A r \in Delivered :
       /\ pc[r] = "opened" => data[r] \in Content
       /\ pc[r] = "opened" /\ Hand(r) \notin contended => tmp[Hand(r)] = Torn
       /\ pc[r] = "written" /\ Hand(r) \notin contended => tmp[Hand(r)] \in Content
  /\ Delivery!DurableIsWhole

DeliveryInv == DeliveryTypes /\ (\A r \in Delivered : RunOK(r)) /\ TempOK

\* A set of numbers has a least.
LEMMA LeastIs ==
  ASSUME Path \subseteq Nat, NEW paths \in SUBSET Path, paths # {}
  PROVE  Delivery!Least(paths) \in paths
<1>1. PICK R : R = OpToRel(<, Nat)
  OBVIOUS
<1>2. IsWellFoundedOn(R, Nat)
  BY <1>1, NatLessThanWellFounded, Zenon
<1>3. \A x, y \in Nat : x < y => <<x, y>> \in R
  BY <1>1 DEF OpToRel
<1>4. PICK p \in paths : \A q \in paths : <<q, p>> \notin R
  <2>1. paths \subseteq Nat /\ paths # {}
    OBVIOUS
  <2>2. \E p \in paths : \A q \in paths : <<q, p>> \notin R
    BY <1>2, <2>1, WFMin
  <2>3. QED
    BY <2>2
<1>5. \A q \in paths : p <= q
  <2>1. \A q \in paths : p \in Nat /\ q \in Nat /\ ~ (q < p)
    BY <1>3, <1>4
  <2>2. QED
    BY <2>1
<1>6. PICK l : l = Delivery!Least(paths)
  OBVIOUS
<1>7. l = CHOOSE x \in paths : \A y \in paths : x <= y
  BY <1>6 DEF Delivery!Least
<1>8. l \in paths
  BY <1>4, <1>5, <1>7, Zenon
<1>9. QED
  BY <1>6, <1>8

LEMMA HandIs ==
  ASSUME Delivery!DeliveryAssumption, DeliveryInv, NEW r \in Delivered, todo[r] # {}
  PROVE  Hand(r) \in todo[r] /\ Hand(r) \in Path
<1>1. todo[r] \in SUBSET Path
  BY DEF DeliveryInv, DeliveryTypes
<1>2. QED
  BY <1>1, LeastIs DEF Hand, Delivery!DeliveryAssumption

LEMMA DeliveryInit == ASSUME Delivery!DeliveryAssumption, Delivery!Init PROVE DeliveryInv
<1>1. /\ pc = [r \in Delivered |-> "idle"] /\ outcome = [r \in Delivered |-> "none"] /\ data = [r \in Delivered |-> Gone]
      /\ code = [r \in Delivered |-> "none"] /\ noticed = [r \in Delivered |-> FALSE] /\ replied = [r \in Delivered |-> FALSE]
      /\ before = [r \in Delivered |-> Delivery!Nowhere] /\ facts = before
      /\ todo = [r \in Delivered |-> {}] /\ failures = todo /\ copied = todo /\ sent = todo /\ told = todo
      /\ work = Delivery!Nowhere /\ durable = Delivery!Nowhere /\ tmp = Delivery!Nowhere /\ full = FALSE
      /\ works = 0 /\ faults = 0 /\ contended = {}
      /\ host \in [Delivered -> {"cli", "gateway"}] /\ root \in [Delivered -> BOOLEAN]
  BY DEF Delivery!Init
<1>2. Delivery!Nowhere \in [Path -> Delivery!File] /\ (\A p \in Path : Delivery!Nowhere[p] = Gone /\ Gone # Torn)
  BY DEF Delivery!Nowhere, Delivery!File, Delivery!DeliveryAssumption
<1>3. DeliveryTypes
  <2>1. before \in [Delivered -> [Path -> Delivery!File]] /\ facts \in [Delivered -> [Path -> Delivery!File]]
    BY <1>1, <1>2
  <2>2. works \in 0 .. MaxWork /\ faults \in 0 .. MaxFaults
    BY <1>1 DEF Delivery!DeliveryAssumption
  <2>3. /\ todo \in [Delivered -> SUBSET Path] /\ failures \in [Delivered -> SUBSET Path] /\ copied \in [Delivered -> SUBSET Path]
        /\ sent \in [Delivered -> SUBSET Path] /\ told \in [Delivered -> SUBSET Path]
    BY <1>1
  <2>4. work \in [Path -> Delivery!File] /\ durable \in [Path -> Delivery!File \cup {Torn}] /\ tmp \in [Path -> Delivery!File \cup {Torn}]
    BY <1>1, <1>2
  <2>5. /\ data \in [Delivered -> Delivery!File] /\ noticed \in [Delivered -> BOOLEAN] /\ replied \in [Delivered -> BOOLEAN]
        /\ contended \subseteq Path
    BY <1>1 DEF Delivery!File
  <2>6. /\ pc \in [Delivered -> {"idle", "running", "refused"} \cup Delivery!Delivering \cup Delivery!Over]
        /\ outcome \in [Delivered -> {"none", "completed", "failed", "limit_reached", "paused"}]
        /\ code \in [Delivered -> {"none", "0", "1", "2", "3", "64"}] /\ full \in BOOLEAN
    BY <1>1
  <2>7. QED
    BY <1>1, <2>1, <2>2, <2>3, <2>4, <2>5, <2>6 DEF DeliveryTypes
<1>4. ASSUME NEW r \in Delivered PROVE RunOK(r)
  <2>1. /\ pc[r] = "idle" /\ copied[r] = {} /\ failures[r] = {} /\ sent[r] = {} /\ told[r] = {} /\ replied[r] = FALSE
        /\ outcome[r] = "none"
    BY <1>1
  <2>2. {copied[r], failures[r], sent[r], told[r]} \subseteq SUBSET Delivery!Listed(r)
    BY <2>1
  <2>3. QED
    BY <2>1, <2>2 DEF RunOK, Early, Holding, Exporting
<1>5. TempOK
  BY <1>1, <1>2 DEF TempOK, Delivery!DurableIsWhole
<1>6. QED
  BY <1>3, <1>4, <1>5 DEF DeliveryInv

\* What a step leaves to a run that does not take it.
Same(r) ==
  /\ pc'[r] = pc[r] /\ outcome'[r] = outcome[r] /\ root'[r] = root[r] /\ host'[r] = host[r] /\ facts'[r] = facts[r]
  /\ todo'[r] = todo[r] /\ failures'[r] = failures[r] /\ data'[r] = data[r] /\ copied'[r] = copied[r] /\ noticed'[r] = noticed[r]
  /\ replied'[r] = replied[r] /\ sent'[r] = sent[r] /\ told'[r] = told[r]

LEMMA RunStays == ASSUME NEW r, RunOK(r), Same(r) PROVE RunOK(r)'
<1>1. Delivery!Listed(r)' = Delivery!Listed(r)
  BY DEF Delivery!Listed, Same
<1>2. QED
  BY <1>1 DEF RunOK, Early, Holding, Exporting, Same

\* One run takes a step.
LEMMA OneRunSteps ==
  ASSUME DeliveryInv, NEW r \in Delivered, DeliveryTypes', \A s \in Delivered \ {r} : Same(s), RunOK(r)', TempOK'
  PROVE  DeliveryInv'
<1>1. ASSUME NEW s \in Delivered PROVE RunOK(s)'
  <2>1. CASE s = r
    BY <2>1, Zenon
  <2>2. CASE s # r
    <3>1. RunOK(s) /\ Same(s)
      BY <2>2 DEF DeliveryInv
    <3>2. QED
      BY <3>1, RunStays
  <2>3. QED
    BY <2>1, <2>2
<1>2. QED
  BY <1>1 DEF DeliveryInv

\* A step that opens, writes and renames nothing.
LEMMA TempStays ==
  ASSUME TempOK, UNCHANGED <<tmp, durable, contended>>,
         \A r \in Delivered : pc'[r] \in {"opened", "written"} => pc'[r] = pc[r] /\ todo'[r] = todo[r] /\ data'[r] = data[r]
  PROVE  TempOK'
<1>1. \A r \in Delivered : pc'[r] \in {"opened", "written"} => Hand(r)' = Hand(r)
  BY DEF Hand, Delivery!Least
<1>2. QED
  BY <1>1 DEF TempOK, Delivery!DurableIsWhole

LEMMA AcceptKeeps ==
  ASSUME Delivery!DeliveryAssumption, DeliveryInv, NEW r \in Delivered, Delivery!Accept(r) PROVE DeliveryInv'
<1>1. /\ pc[r] = "idle"
      /\ UNCHANGED <<host, root, outcome, facts, todo, failures, data, copied, noticed, replied, sent, told, work, durable, tmp, full,
                     works, faults, contended>>
  BY DEF Delivery!Accept, Delivery!At, Delivery!disk
<1>2. PICK there \in {"running", "refused"} : pc' = [pc EXCEPT ![r] = there]
  BY DEF Delivery!Accept, Delivery!Go
<1>3. DeliveryTypes'
  <2>1. pc' \in [Delivered -> {"idle", "running", "refused"} \cup Delivery!Delivering \cup Delivery!Over]
    BY <1>2 DEF DeliveryInv, DeliveryTypes
  <2>2. before' = before \/ before' = [before EXCEPT ![r] = work]
    BY DEF Delivery!Accept
  <2>3. before' \in [Delivered -> [Path -> Delivery!File]]
    BY <2>2 DEF DeliveryInv, DeliveryTypes
  <2>4. code' = code \/ code' = [code EXCEPT ![r] = "64"]
    <3>1. code' = code \/ code' = [code EXCEPT ![r] = IF host[r] = "cli" THEN "64" ELSE code[r]]
      BY DEF Delivery!Accept
    <3>2. code = [code EXCEPT ![r] = code[r]]
      BY DEF DeliveryInv, DeliveryTypes
    <3>3. QED
      BY <3>1, <3>2
  <2>5. code' \in [Delivered -> {"none", "0", "1", "2", "3", "64"}]
    BY <2>4 DEF DeliveryInv, DeliveryTypes
  <2>6. Delivery!File' = Delivery!File /\ Delivery!Delivering' = Delivery!Delivering /\ Delivery!Over' = Delivery!Over
    BY DEF Delivery!File, Delivery!Delivering, Delivery!Over
  <2>7. QED
    BY <1>1, <2>1, <2>3, <2>5, <2>6 DEF DeliveryInv, DeliveryTypes
<1>4. ASSUME NEW s \in Delivered \ {r} PROVE Same(s)
  BY <1>1, <1>2 DEF Same, DeliveryInv, DeliveryTypes
<1>5. RunOK(r)'
  <2>1. pc'[r] \in Early
    BY <1>2 DEF Early, DeliveryInv, DeliveryTypes
  <2>2. RunOK(r)
    BY DEF DeliveryInv
  <2>3. Delivery!Listed(r)' = Delivery!Listed(r)
    BY <1>1 DEF Delivery!Listed
  <2>4. QED
    BY <1>1, <2>1, <2>2, <2>3 DEF RunOK, Early, Holding, Exporting
<1>6. TempOK'
  BY <1>1, <1>2, TempStays DEF DeliveryInv, DeliveryTypes
<1>7. QED
  BY <1>3, <1>4, <1>5, <1>6, OneRunSteps

LEMMA WorkKeeps ==
  ASSUME Delivery!DeliveryAssumption, DeliveryInv, NEW p \in Path, NEW v \in Delivery!File, Delivery!Work(p, v) PROVE DeliveryInv'
<1>1. /\ works < MaxWork /\ works' = works + 1 /\ work' = [work EXCEPT ![p] = v]
      /\ UNCHANGED <<host, root, outcome, before, facts, pc, todo, failures, data, copied, noticed, replied, sent, told, code,
                     durable, tmp, full, faults, contended>>
  BY DEF Delivery!Work, Delivery!ofRun, Delivery!effects
<1>2. DeliveryTypes'
  <2>1. works' \in 0 .. MaxWork
    BY <1>1 DEF DeliveryInv, DeliveryTypes, Delivery!DeliveryAssumption
  <2>2. work' \in [Path -> Delivery!File]
    BY <1>1 DEF DeliveryInv, DeliveryTypes
  <2>3. Delivery!File' = Delivery!File /\ Delivery!Delivering' = Delivery!Delivering /\ Delivery!Over' = Delivery!Over
    BY DEF Delivery!File, Delivery!Delivering, Delivery!Over
  <2>4. QED
    BY <1>1, <2>1, <2>2, <2>3 DEF DeliveryInv, DeliveryTypes
<1>3. ASSUME NEW s \in Delivered PROVE RunOK(s)'
  <2>1. RunOK(s) /\ Same(s)
    BY <1>1 DEF Same, DeliveryInv
  <2>2. QED
    BY <2>1, RunStays
<1>4. TempOK'
  BY <1>1, TempStays DEF DeliveryInv
<1>5. QED
  BY <1>2, <1>3, <1>4 DEF DeliveryInv

LEMMA SettleKeeps ==
  ASSUME Delivery!DeliveryAssumption, DeliveryInv, NEW r \in Delivered,
         NEW how \in {"completed", "failed", "limit_reached", "paused"}, Delivery!Settle(r, how)
  PROVE  DeliveryInv'
<1>1. /\ pc[r] = "running" /\ outcome' = [outcome EXCEPT ![r] = how] /\ facts' = [facts EXCEPT ![r] = Delivery!Changed(r)]
      /\ UNCHANGED <<host, root, before, failures, data, copied, noticed, replied, sent, told, work, durable, tmp, full,
                     works, faults, contended>>
  BY DEF Delivery!Settle, Delivery!At, Delivery!disk
<1>2. Delivery!Changed(r) \in [Path -> Delivery!File]
  BY DEF Delivery!Changed, Delivery!File, DeliveryInv, DeliveryTypes
<1>3. outcome'[r] = how /\ facts'[r] = Delivery!Changed(r) /\ Delivery!Listed(r)' = {p \in Path : Delivery!Changed(r)[p] # Gone}
  <2>1. facts'[r] = Delivery!Changed(r) /\ outcome'[r] = how
    BY <1>1, <1>2 DEF DeliveryInv, DeliveryTypes
  <2>2. QED
    BY <2>1 DEF Delivery!Listed
<1>4. PICK there \in {"done", "exporting"} :
        /\ pc' = [pc EXCEPT ![r] = there]
        /\ there = "done" => how = "paused" /\ todo' = todo
        /\ there = "exporting" =>
             todo' = [todo EXCEPT ![r] = IF how = "completed" /\ root[r] THEN {p \in Path : Delivery!Changed(r)[p] # Gone} ELSE {}]
  BY DEF Delivery!Settle, Delivery!Go
<1>5. DeliveryTypes'
  <2>1. pc' \in [Delivered -> {"idle", "running", "refused"} \cup Delivery!Delivering \cup Delivery!Over]
    BY <1>4 DEF DeliveryInv, DeliveryTypes, Delivery!Delivering, Delivery!Over
  <2>2. outcome' \in [Delivered -> {"none", "completed", "failed", "limit_reached", "paused"}]
    BY <1>1 DEF DeliveryInv, DeliveryTypes
  <2>3. facts' \in [Delivered -> [Path -> Delivery!File]]
    BY <1>1, <1>2 DEF DeliveryInv, DeliveryTypes
  <2>4. todo' \in [Delivered -> SUBSET Path]
    <3>1. PICK listed : listed = IF how = "completed" /\ root[r] THEN {p \in Path : Delivery!Changed(r)[p] # Gone} ELSE {}
      OBVIOUS
    <3>2. listed \in SUBSET Path
      BY <3>1
    <3>3. todo' = todo \/ todo' = [todo EXCEPT ![r] = listed]
      BY <1>4, <3>1
    <3>4. QED
      BY <3>2, <3>3 DEF DeliveryInv, DeliveryTypes
  <2>5. code' = code \/ code' = [code EXCEPT ![r] = "3"]
    <3>1. code' = code \/ code' = [code EXCEPT ![r] = IF host[r] = "cli" THEN "3" ELSE code[r]]
      BY DEF Delivery!Settle
    <3>2. code = [code EXCEPT ![r] = code[r]]
      BY DEF DeliveryInv, DeliveryTypes
    <3>3. QED
      BY <3>1, <3>2
  <2>6. code' \in [Delivered -> {"none", "0", "1", "2", "3", "64"}]
    BY <2>5 DEF DeliveryInv, DeliveryTypes
  <2>7. Delivery!File' = Delivery!File /\ Delivery!Delivering' = Delivery!Delivering /\ Delivery!Over' = Delivery!Over
    BY DEF Delivery!File, Delivery!Delivering, Delivery!Over
  <2>8. QED
    BY <1>1, <2>1, <2>2, <2>3, <2>4, <2>6, <2>7 DEF DeliveryInv, DeliveryTypes
<1>6. ASSUME NEW s \in Delivered \ {r} PROVE Same(s)
  BY <1>1, <1>4 DEF Same, DeliveryInv, DeliveryTypes
<1>7. RunOK(r)'
  <2>1. copied'[r] = {} /\ failures'[r] = {} /\ sent'[r] = {} /\ told'[r] = {} /\ ~ replied'[r]
    BY <1>1 DEF RunOK, Early, DeliveryInv
  <2>2. CASE there = "done"
    <3>1. pc'[r] = "done" /\ outcome'[r] = "paused"
      BY <1>3, <1>4, <2>2 DEF DeliveryInv, DeliveryTypes
    <3>2. QED
      BY <2>1, <3>1 DEF RunOK, Early, Holding, Exporting
  <2>3. CASE there = "exporting"
    <3>1. pc'[r] = "exporting"
      BY <1>4, <2>3 DEF DeliveryInv, DeliveryTypes
    <3>2. todo'[r] = IF how = "completed" /\ root[r] THEN Delivery!Listed(r)' ELSE {}
      BY <1>3, <1>4, <2>3 DEF DeliveryInv, DeliveryTypes
    <3>3. root'[r] = root[r]
      BY <1>1
    <3>4. QED
      BY <1>3, <2>1, <3>1, <3>2, <3>3 DEF RunOK, Early, Holding, Exporting
  <2>4. QED
    BY <2>2, <2>3
<1>8. TempOK'
  <2>1. \A s \in Delivered : pc'[s] \in {"opened", "written"} => pc'[s] = pc[s] /\ todo'[s] = todo[s] /\ data'[s] = data[s]
    BY <1>1, <1>4 DEF DeliveryInv, DeliveryTypes
  <2>2. QED
    BY <1>1, <2>1, TempStays DEF DeliveryInv
<1>9. QED
  BY <1>5, <1>6, <1>7, <1>8, OneRunSteps

\* A file that is not there is tried and told.
LEMMA CheckKeeps ==
  ASSUME Delivery!DeliveryAssumption, DeliveryInv, NEW r \in Delivered, Delivery!Check(r) PROVE DeliveryInv'
<1>1. /\ pc[r] = "exporting" /\ todo[r] # {}
      /\ UNCHANGED <<host, root, outcome, before, facts, data, copied, noticed, replied, sent, told, code, work, durable, tmp, full,
                     works, faults, contended>>
  BY DEF Delivery!Check, Delivery!At, Delivery!disk, Delivery!ofRun, Delivery!effects
<1>2. Hand(r) \in todo[r] /\ Hand(r) \in Path
  BY <1>1, HandIs
<1>3. \/ todo' = [todo EXCEPT ![r] = todo[r] \ {Hand(r)}] /\ failures' = [failures EXCEPT ![r] = failures[r] \cup {Hand(r)}] /\ pc' = pc
      \/ pc' = [pc EXCEPT ![r] = "found"] /\ todo' = todo /\ failures' = failures
  BY DEF Delivery!Check, Delivery!Go, Hand
<1>4. Delivery!Listed(r)' = Delivery!Listed(r) /\ RunOK(r)
  BY <1>1 DEF Delivery!Listed, DeliveryInv
<1>5. DeliveryTypes'
  <2>1. pc' \in [Delivered -> {"idle", "running", "refused"} \cup Delivery!Delivering \cup Delivery!Over]
    BY <1>3 DEF DeliveryInv, DeliveryTypes, Delivery!Delivering
  <2>2. todo' \in [Delivered -> SUBSET Path] /\ failures' \in [Delivered -> SUBSET Path]
    <3>1. todo \in [Delivered -> SUBSET Path] /\ failures \in [Delivered -> SUBSET Path]
      BY DEF DeliveryInv, DeliveryTypes
    <3>2. todo[r] \ {Hand(r)} \in SUBSET Path /\ failures[r] \cup {Hand(r)} \in SUBSET Path
      BY <1>2, <3>1
    <3>3. QED
      BY <1>3, <3>1, <3>2
  <2>3. Delivery!File' = Delivery!File /\ Delivery!Delivering' = Delivery!Delivering /\ Delivery!Over' = Delivery!Over
    BY DEF Delivery!File, Delivery!Delivering, Delivery!Over
  <2>4. QED
    BY <1>1, <2>1, <2>2, <2>3 DEF DeliveryInv, DeliveryTypes
<1>6. ASSUME NEW s \in Delivered \ {r} PROVE Same(s)
  BY <1>1, <1>3 DEF Same, DeliveryInv, DeliveryTypes
<1>7. RunOK(r)'
  <2>1. CASE pc' = pc /\ todo' = [todo EXCEPT ![r] = todo[r] \ {Hand(r)}] /\ failures' = [failures EXCEPT ![r] = failures[r] \cup {Hand(r)}]
    <3>1. todo'[r] = todo[r] \ {Hand(r)} /\ failures'[r] = failures[r] \cup {Hand(r)} /\ pc'[r] = "exporting"
      BY <1>1, <2>1 DEF DeliveryInv, DeliveryTypes
    <3>2. QED
      BY <1>1, <1>2, <1>4, <3>1 DEF RunOK, Early, Holding, Exporting
  <2>2. CASE pc' = [pc EXCEPT ![r] = "found"] /\ todo' = todo /\ failures' = failures
    <3>1. pc'[r] = "found"
      BY <2>2 DEF DeliveryInv, DeliveryTypes
    <3>2. QED
      BY <1>1, <1>4, <2>2, <3>1 DEF RunOK, Early, Holding, Exporting
  <2>3. QED
    BY <1>3, <2>1, <2>2
<1>8. TempOK'
  <2>1. \A s \in Delivered : pc'[s] \in {"opened", "written"} => pc'[s] = pc[s] /\ todo'[s] = todo[s] /\ data'[s] = data[s]
    BY <1>1, <1>3 DEF DeliveryInv, DeliveryTypes
  <2>2. QED
    BY <1>1, <2>1, TempStays DEF DeliveryInv
<1>9. QED
  BY <1>5, <1>6, <1>7, <1>8, OneRunSteps

LEMMA ExportedKeeps ==
  ASSUME Delivery!DeliveryAssumption, DeliveryInv, NEW r \in Delivered, Delivery!Exported(r) PROVE DeliveryInv'
<1>1. /\ pc[r] = "exporting" /\ todo[r] = {} /\ pc' = [pc EXCEPT ![r] = "reporting"]
      /\ noticed' = [noticed EXCEPT ![r] = failures[r] # {}]
      /\ UNCHANGED <<host, root, outcome, before, facts, todo, failures, data, copied, replied, sent, told, code, work, durable, tmp, full,
                     works, faults, contended>>
  BY DEF Delivery!Exported, Delivery!At, Delivery!Go, Delivery!disk, Delivery!ofRun
<1>2. Delivery!Listed(r)' = Delivery!Listed(r) /\ RunOK(r)
  BY <1>1 DEF Delivery!Listed, DeliveryInv
<1>3. DeliveryTypes'
  <2>1. pc' \in [Delivered -> {"idle", "running", "refused"} \cup Delivery!Delivering \cup Delivery!Over]
    BY <1>1 DEF DeliveryInv, DeliveryTypes, Delivery!Delivering
  <2>2. (failures[r] # {}) \in BOOLEAN
    BY SMT
  <2>3. noticed' \in [Delivered -> BOOLEAN]
    BY <1>1, <2>2, Zenon DEF DeliveryInv, DeliveryTypes
  <2>4. Delivery!File' = Delivery!File /\ Delivery!Delivering' = Delivery!Delivering /\ Delivery!Over' = Delivery!Over
    BY DEF Delivery!File, Delivery!Delivering, Delivery!Over
  <2>5. QED
    BY <1>1, <2>1, <2>3, <2>4 DEF DeliveryInv, DeliveryTypes
<1>4. ASSUME NEW s \in Delivered \ {r} PROVE Same(s)
  BY <1>1 DEF Same, DeliveryInv, DeliveryTypes
<1>5. RunOK(r)'
  <2>1. pc'[r] = "reporting" /\ noticed'[r] = (failures[r] # {})
    BY <1>1 DEF DeliveryInv, DeliveryTypes
  <2>2. QED
    BY <1>1, <1>2, <2>1 DEF RunOK, Early, Holding, Exporting
<1>6. TempOK'
  <2>1. \A s \in Delivered : pc'[s] \in {"opened", "written"} => pc'[s] = pc[s] /\ todo'[s] = todo[s] /\ data'[s] = data[s]
    BY <1>1 DEF DeliveryInv, DeliveryTypes
  <2>2. QED
    BY <1>1, <2>1, TempStays DEF DeliveryInv
<1>7. QED
  BY <1>3, <1>4, <1>5, <1>6, OneRunSteps

LEMMA ReportKeeps ==
  ASSUME Delivery!DeliveryAssumption, DeliveryInv, NEW r \in Delivered, Delivery!Report(r) PROVE DeliveryInv'
<1>1. /\ pc[r] = "reporting" /\ replied' = [replied EXCEPT ![r] = TRUE]
      /\ UNCHANGED <<host, root, outcome, before, facts, failures, data, copied, noticed, sent, told, work, durable, tmp, full,
                     works, faults, contended>>
  BY DEF Delivery!Report, Delivery!At, Delivery!disk, Delivery!ofRun
<1>2. \/ pc' = [pc EXCEPT ![r] = "sending"] /\ todo' = [todo EXCEPT ![r] = Delivery!Listed(r)] /\ host[r] # "cli"
      \/ /\ pc' = [pc EXCEPT ![r] = "done"] /\ todo' = todo
         /\ host[r] = "cli" \/ ~ (outcome[r] = "completed" /\ Delivery!Listed(r) # {})
  BY DEF Delivery!Report, Delivery!Go
<1>3. Delivery!Listed(r)' = Delivery!Listed(r) /\ RunOK(r) /\ Delivery!Listed(r) \subseteq Path
  BY <1>1 DEF Delivery!Listed, DeliveryInv
<1>4. DeliveryTypes'
  <2>1. pc' \in [Delivered -> {"idle", "running", "refused"} \cup Delivery!Delivering \cup Delivery!Over]
    BY <1>2 DEF DeliveryInv, DeliveryTypes, Delivery!Delivering, Delivery!Over
  <2>2. todo' \in [Delivered -> SUBSET Path]
    BY <1>2, <1>3 DEF DeliveryInv, DeliveryTypes
  <2>3. replied' \in [Delivered -> BOOLEAN]
    BY <1>1 DEF DeliveryInv, DeliveryTypes
  <2>4. code' = code \/ code' = [code EXCEPT ![r] = Delivery!ExitCode(outcome[r])]
    BY DEF Delivery!Report
  <2>5. Delivery!ExitCode(outcome[r]) \in {"none", "0", "1", "2", "3", "64"}
    BY DEF Delivery!ExitCode
  <2>6. code' \in [Delivered -> {"none", "0", "1", "2", "3", "64"}]
    BY <2>4, <2>5 DEF DeliveryInv, DeliveryTypes
  <2>7. Delivery!File' = Delivery!File /\ Delivery!Delivering' = Delivery!Delivering /\ Delivery!Over' = Delivery!Over
    BY DEF Delivery!File, Delivery!Delivering, Delivery!Over
  <2>8. QED
    BY <1>1, <2>1, <2>2, <2>3, <2>6, <2>7 DEF DeliveryInv, DeliveryTypes
<1>5. ASSUME NEW s \in Delivered \ {r} PROVE Same(s)
  BY <1>1, <1>2 DEF Same, DeliveryInv, DeliveryTypes
<1>6. RunOK(r)'
  <2>1. replied'[r] = TRUE
    BY <1>1 DEF DeliveryInv, DeliveryTypes
  <2>2. CASE pc' = [pc EXCEPT ![r] = "sending"] /\ todo' = [todo EXCEPT ![r] = Delivery!Listed(r)] /\ host[r] # "cli"
    <3>1. pc'[r] = "sending" /\ todo'[r] = Delivery!Listed(r) /\ host'[r] # "cli"
      BY <1>1, <2>2 DEF DeliveryInv, DeliveryTypes
    <3>2. QED
      BY <1>1, <1>3, <2>1, <3>1 DEF RunOK, Early, Holding, Exporting
  <2>3. CASE /\ pc' = [pc EXCEPT ![r] = "done"] /\ todo' = todo
             /\ host[r] = "cli" \/ ~ (outcome[r] = "completed" /\ Delivery!Listed(r) # {})
    <3>1. pc'[r] = "done"
      BY <2>3 DEF DeliveryInv, DeliveryTypes
    <3>2. QED
      BY <1>1, <1>3, <2>1, <2>3, <3>1 DEF RunOK, Early, Holding, Exporting
  <2>4. QED
    BY <1>2, <2>2, <2>3
<1>7. TempOK'
  <2>1. \A s \in Delivered : pc'[s] \in {"opened", "written"} => pc'[s] = pc[s] /\ todo'[s] = todo[s] /\ data'[s] = data[s]
    BY <1>1, <1>2 DEF DeliveryInv, DeliveryTypes
  <2>2. QED
    BY <1>1, <2>1, TempStays DEF DeliveryInv
<1>8. QED
  BY <1>4, <1>5, <1>6, <1>7, OneRunSteps

LEMMA SendKeeps ==
  ASSUME Delivery!DeliveryAssumption, DeliveryInv, NEW r \in Delivered, Delivery!Send(r) PROVE DeliveryInv'
<1>1. /\ pc[r] = "sending" /\ todo[r] # {}
      /\ UNCHANGED <<host, root, outcome, before, facts, failures, data, copied, replied, code, work, durable, tmp, full, works, contended>>
  BY DEF Delivery!Send, Delivery!At, Delivery!disk, Delivery!ofRun
<1>2. Hand(r) \in todo[r] /\ Hand(r) \in Path
  BY <1>1, HandIs
<1>3. \/ /\ todo' = [todo EXCEPT ![r] = todo[r] \ {Hand(r)}] /\ UNCHANGED <<pc, noticed, faults>>
         /\ \/ sent' = [sent EXCEPT ![r] = sent[r] \cup {Hand(r)}] /\ told' = told
            \/ told' = [told EXCEPT ![r] = told[r] \cup {Hand(r)}] /\ sent' = sent
      \/ /\ faults < MaxFaults /\ faults' = faults + 1 /\ pc' = [pc EXCEPT ![r] = "done"] /\ noticed' = [noticed EXCEPT ![r] = TRUE]
         /\ UNCHANGED <<todo, sent, told>>
  BY DEF Delivery!Send, Delivery!Go, Hand
<1>4. Delivery!Listed(r)' = Delivery!Listed(r) /\ RunOK(r)
  BY <1>1 DEF Delivery!Listed, DeliveryInv
<1>5. DeliveryTypes'
  <2>1. pc' \in [Delivered -> {"idle", "running", "refused"} \cup Delivery!Delivering \cup Delivery!Over]
    BY <1>3 DEF DeliveryInv, DeliveryTypes, Delivery!Delivering, Delivery!Over
  <2>2. todo' \in [Delivered -> SUBSET Path] /\ sent' \in [Delivered -> SUBSET Path] /\ told' \in [Delivered -> SUBSET Path]
    <3>1. todo \in [Delivered -> SUBSET Path] /\ sent \in [Delivered -> SUBSET Path] /\ told \in [Delivered -> SUBSET Path]
      BY DEF DeliveryInv, DeliveryTypes
    <3>2. /\ todo[r] \ {Hand(r)} \in SUBSET Path /\ sent[r] \cup {Hand(r)} \in SUBSET Path
          /\ told[r] \cup {Hand(r)} \in SUBSET Path
      BY <1>2, <3>1
    <3>3. QED
      BY <1>3, <3>1, <3>2
  <2>3. noticed' \in [Delivered -> BOOLEAN]
    BY <1>3 DEF DeliveryInv, DeliveryTypes
  <2>4. faults' \in 0 .. MaxFaults
    BY <1>3 DEF DeliveryInv, DeliveryTypes, Delivery!DeliveryAssumption
  <2>5. Delivery!File' = Delivery!File /\ Delivery!Delivering' = Delivery!Delivering /\ Delivery!Over' = Delivery!Over
    BY DEF Delivery!File, Delivery!Delivering, Delivery!Over
  <2>6. QED
    BY <1>1, <2>1, <2>2, <2>3, <2>4, <2>5 DEF DeliveryInv, DeliveryTypes
<1>6. ASSUME NEW s \in Delivered \ {r} PROVE Same(s)
  BY <1>1, <1>3 DEF Same, DeliveryInv, DeliveryTypes
<1>7. RunOK(r)'
  <2>1. CASE /\ todo' = [todo EXCEPT ![r] = todo[r] \ {Hand(r)}] /\ UNCHANGED <<pc, noticed, faults>>
             /\ \/ sent' = [sent EXCEPT ![r] = sent[r] \cup {Hand(r)}] /\ told' = told
                \/ told' = [told EXCEPT ![r] = told[r] \cup {Hand(r)}] /\ sent' = sent
    <3>1. /\ todo'[r] = todo[r] \ {Hand(r)}
          /\ \/ sent'[r] = sent[r] \cup {Hand(r)} /\ told'[r] = told[r]
             \/ told'[r] = told[r] \cup {Hand(r)} /\ sent'[r] = sent[r]
      BY <2>1 DEF DeliveryInv, DeliveryTypes
    <3>2. Hand(r) \in Delivery!Listed(r)
      BY <1>1, <1>2, <1>4 DEF RunOK
    <3>3. QED
      BY <1>1, <1>2, <1>4, <2>1, <3>1, <3>2 DEF RunOK, Early, Holding, Exporting
  <2>2. CASE pc' = [pc EXCEPT ![r] = "done"] /\ noticed' = [noticed EXCEPT ![r] = TRUE] /\ UNCHANGED <<todo, sent, told>>
    <3>1. pc'[r] = "done" /\ noticed'[r]
      BY <2>2 DEF DeliveryInv, DeliveryTypes
    <3>2. QED
      BY <1>1, <1>4, <2>2, <3>1 DEF RunOK, Early, Holding, Exporting
  <2>3. QED
    BY <1>3, <2>1, <2>2
<1>8. TempOK'
  <2>1. \A s \in Delivered : pc'[s] \in {"opened", "written"} => pc'[s] = pc[s] /\ todo'[s] = todo[s] /\ data'[s] = data[s]
    BY <1>1, <1>3 DEF DeliveryInv, DeliveryTypes
  <2>2. QED
    BY <1>1, <2>1, TempStays DEF DeliveryInv
<1>9. QED
  BY <1>5, <1>6, <1>7, <1>8, OneRunSteps

\* The end of a run, and a repetition.
LEMMA TurnsKeep ==
  ASSUME Delivery!DeliveryAssumption, DeliveryInv, NEW r \in Delivered, Delivery!Sent(r) \/ Delivery!Again(r) \/ Delivery!Kill(r)
  PROVE  DeliveryInv'
<1>1. UNCHANGED <<host, root, outcome, before, facts, failures, data, copied, noticed, replied, sent, told, code, work, durable, tmp, full,
                  works, contended>>
  BY DEF Delivery!Sent, Delivery!Again, Delivery!Kill, Delivery!disk, Delivery!ofRun, Delivery!effects
<1>2. \/ pc[r] = "sending" /\ todo[r] = {} /\ pc' = [pc EXCEPT ![r] = "done"] /\ todo' = todo /\ faults' = faults
      \/ /\ pc[r] = "done" /\ host[r] = "gateway" /\ outcome[r] # "none"
         /\ pc' = [pc EXCEPT ![r] = "sending"] /\ todo' = [todo EXCEPT ![r] = Delivery!Listed(r)] /\ faults' = faults
      \/ /\ pc[r] \in Delivery!Delivering /\ pc' = [pc EXCEPT ![r] = "killed"] /\ todo' = todo
         /\ faults < MaxFaults /\ faults' = faults + 1
  BY DEF Delivery!Sent, Delivery!Again, Delivery!Kill, Delivery!At, Delivery!Go
<1>3. Delivery!Listed(r)' = Delivery!Listed(r) /\ RunOK(r) /\ Delivery!Listed(r) \subseteq Path
  BY <1>1 DEF Delivery!Listed, DeliveryInv
<1>4. DeliveryTypes'
  <2>1. pc' \in [Delivered -> {"idle", "running", "refused"} \cup Delivery!Delivering \cup Delivery!Over]
    <3>1. PICK there \in {"done", "sending", "killed"} : pc' = [pc EXCEPT ![r] = there]
      BY <1>2
    <3>2. QED
      BY <3>1 DEF DeliveryInv, DeliveryTypes, Delivery!Delivering, Delivery!Over
  <2>2. todo' \in [Delivered -> SUBSET Path]
    <3>1. todo' = todo \/ todo' = [todo EXCEPT ![r] = Delivery!Listed(r)]
      BY <1>2
    <3>2. QED
      BY <1>3, <3>1 DEF DeliveryInv, DeliveryTypes
  <2>3. faults' \in 0 .. MaxFaults
    BY <1>2 DEF DeliveryInv, DeliveryTypes, Delivery!DeliveryAssumption
  <2>4. Delivery!File' = Delivery!File /\ Delivery!Delivering' = Delivery!Delivering /\ Delivery!Over' = Delivery!Over
    BY DEF Delivery!File, Delivery!Delivering, Delivery!Over
  <2>5. QED
    BY <1>1, <2>1, <2>2, <2>3, <2>4 DEF DeliveryInv, DeliveryTypes
<1>5. ASSUME NEW s \in Delivered \ {r} PROVE Same(s)
  BY <1>1, <1>2 DEF Same, DeliveryInv, DeliveryTypes
<1>6. RunOK(r)'
  <2>1. CASE pc[r] = "sending" /\ todo[r] = {} /\ pc' = [pc EXCEPT ![r] = "done"] /\ todo' = todo
    <3>1. pc'[r] = "done"
      BY <2>1 DEF DeliveryInv, DeliveryTypes
    <3>2. QED
      BY <1>1, <1>3, <2>1, <3>1 DEF RunOK, Early, Holding, Exporting
  <2>2. CASE /\ pc[r] = "done" /\ host[r] = "gateway"
             /\ pc' = [pc EXCEPT ![r] = "sending"] /\ todo' = [todo EXCEPT ![r] = Delivery!Listed(r)]
    <3>1. pc'[r] = "sending" /\ todo'[r] = Delivery!Listed(r)
      BY <2>2 DEF DeliveryInv, DeliveryTypes
    <3>2. QED
      BY <1>1, <1>3, <2>2, <3>1 DEF RunOK, Early, Holding, Exporting
  <2>3. CASE pc' = [pc EXCEPT ![r] = "killed"] /\ todo' = todo
    <3>1. pc'[r] = "killed"
      BY <2>3 DEF DeliveryInv, DeliveryTypes
    <3>2. replied[r] /\ outcome[r] = "completed" /\ root[r] =>
             Delivery!Listed(r) = copied[r] \cup failures[r] /\ (failures[r] # {} => noticed[r])
      BY <1>3 DEF RunOK
    <3>3. QED
      BY <1>1, <1>3, <2>3, <3>1, <3>2 DEF RunOK, Early, Holding, Exporting
  <2>4. QED
    BY <1>2, <2>1, <2>2, <2>3
<1>7. TempOK'
  <2>1. \A s \in Delivered : pc'[s] \in {"opened", "written"} => pc'[s] = pc[s] /\ todo'[s] = todo[s] /\ data'[s] = data[s]
    BY <1>1, <1>2 DEF DeliveryInv, DeliveryTypes
  <2>2. QED
    BY <1>1, <2>1, TempStays DEF DeliveryInv
<1>8. QED
  BY <1>4, <1>5, <1>6, <1>7, OneRunSteps

LEMMA FillKeeps == ASSUME Delivery!DeliveryAssumption, DeliveryInv, Delivery!Fill PROVE DeliveryInv'
<1>1. /\ faults < MaxFaults /\ faults' = faults + 1 /\ full' = ~ full
      /\ UNCHANGED <<host, root, outcome, before, facts, pc, todo, failures, data, copied, noticed, replied, sent, told, code,
                     work, durable, tmp, works, contended>>
  BY DEF Delivery!Fill, Delivery!ofRun, Delivery!effects
<1>2. DeliveryTypes'
  <2>1. faults' \in 0 .. MaxFaults
    BY <1>1 DEF DeliveryInv, DeliveryTypes, Delivery!DeliveryAssumption
  <2>2. full' \in BOOLEAN
    BY <1>1
  <2>3. Delivery!File' = Delivery!File /\ Delivery!Delivering' = Delivery!Delivering /\ Delivery!Over' = Delivery!Over
    BY DEF Delivery!File, Delivery!Delivering, Delivery!Over
  <2>4. QED
    BY <1>1, <2>1, <2>2, <2>3 DEF DeliveryInv, DeliveryTypes
<1>3. ASSUME NEW s \in Delivered PROVE RunOK(s)'
  <2>1. RunOK(s) /\ Same(s)
    BY <1>1 DEF Same, DeliveryInv
  <2>2. QED
    BY <2>1, RunStays
<1>4. TempOK'
  BY <1>1, TempStays DEF DeliveryInv
<1>5. QED
  BY <1>2, <1>3, <1>4 DEF DeliveryInv

\* What ends a process writes nothing any more.
LEMMA EscapeKeeps ==
  ASSUME Delivery!DeliveryAssumption, DeliveryInv, NEW r \in Delivered, NEW missing \in BOOLEAN, Delivery!Escape(r, missing),
         pc[r] \in Holding,
         UNCHANGED <<host, root, outcome, before, facts, todo, failures, data, work, durable, tmp, full, works, faults, contended>>
  PROVE  DeliveryInv'
<1>1. /\ pc' = [pc EXCEPT ![r] = "escaped"] /\ UNCHANGED <<copied, noticed, replied, sent, told>>
      /\ code' = [code EXCEPT ![r] = IF missing /\ host[r] = "cli" THEN "64" ELSE "1"]
  BY DEF Delivery!Escape, Delivery!Go
<1>2. Delivery!Listed(r)' = Delivery!Listed(r) /\ RunOK(r)
  BY DEF Delivery!Listed, DeliveryInv
<1>3. DeliveryTypes'
  <2>1. pc' \in [Delivered -> {"idle", "running", "refused"} \cup Delivery!Delivering \cup Delivery!Over]
    BY <1>1 DEF DeliveryInv, DeliveryTypes, Delivery!Over
  <2>2. code' \in [Delivered -> {"none", "0", "1", "2", "3", "64"}]
    <3>1. PICK c \in {"64", "1"} : code' = [code EXCEPT ![r] = c]
      BY <1>1
    <3>2. QED
      BY <3>1 DEF DeliveryInv, DeliveryTypes
  <2>3. Delivery!File' = Delivery!File /\ Delivery!Delivering' = Delivery!Delivering /\ Delivery!Over' = Delivery!Over
    BY DEF Delivery!File, Delivery!Delivering, Delivery!Over
  <2>4. QED
    BY <1>1, <2>1, <2>2, <2>3 DEF DeliveryInv, DeliveryTypes
<1>4. ASSUME NEW s \in Delivered \ {r} PROVE Same(s)
  BY <1>1 DEF Same, DeliveryInv, DeliveryTypes
<1>5. RunOK(r)'
  <2>1. pc'[r] = "escaped"
    BY <1>1 DEF DeliveryInv, DeliveryTypes
  <2>2. QED
    BY <1>1, <1>2, <2>1 DEF RunOK, Early, Holding, Exporting
<1>6. TempOK'
  <2>1. \A s \in Delivered : pc'[s] \in {"opened", "written"} => pc'[s] = pc[s] /\ todo'[s] = todo[s] /\ data'[s] = data[s]
    BY <1>1 DEF DeliveryInv, DeliveryTypes
  <2>2. QED
    BY <2>1, TempStays DEF DeliveryInv
<1>7. QED
  BY <1>3, <1>4, <1>5, <1>6, OneRunSteps

\* Opening empties the temporary file, of another run too if that has it open.
LEMMA OpenKeeps ==
  ASSUME Delivery!DeliveryAssumption, DeliveryInv, NEW r \in Delivered, Delivery!Open(r) PROVE DeliveryInv'
<1> DEFINE hand == Hand(r)
<1> DEFINE taken == {q \in {hand} : \E s \in Delivered \ {r} : pc[s] \in {"opened", "written"} /\ Hand(s) = q}
<1>1. /\ pc[r] = "found"
      /\ UNCHANGED <<host, root, outcome, before, facts, todo, failures, work, durable, full, works, faults>>
  BY DEF Delivery!Open, Delivery!At, Delivery!ofRun
<1>2. hand \in todo[r] /\ hand \in Path
  BY <1>1, HandIs DEF DeliveryInv, RunOK, Holding
<1>3. CASE \E missing \in BOOLEAN : Delivery!Escape(r, missing) /\ UNCHANGED <<data, tmp, contended>>
  BY <1>1, <1>3, EscapeKeeps DEF Holding
<1>4. CASE /\ work[hand] # Gone /\ pc' = [pc EXCEPT ![r] = "opened"] /\ data' = [data EXCEPT ![r] = work[hand]]
           /\ tmp' = [tmp EXCEPT ![hand] = Torn] /\ contended' = contended \cup taken
           /\ UNCHANGED <<copied, noticed, replied, sent, told, code>>
  <2>1. Delivery!Listed(r)' = Delivery!Listed(r) /\ RunOK(r)
    BY <1>1 DEF Delivery!Listed, DeliveryInv
  <2>2. work[hand] \in Content
    BY <1>2, <1>4 DEF DeliveryInv, DeliveryTypes, Delivery!File
  <2>3. DeliveryTypes'
    <3>1. pc' \in [Delivered -> {"idle", "running", "refused"} \cup Delivery!Delivering \cup Delivery!Over]
      BY <1>4 DEF DeliveryInv, DeliveryTypes, Delivery!Delivering
    <3>2. data' \in [Delivered -> Delivery!File] /\ tmp' \in [Path -> Delivery!File \cup {Torn}]
      BY <1>4, <2>2 DEF DeliveryInv, DeliveryTypes, Delivery!File
    <3>3. contended' \subseteq Path
      BY <1>2, <1>4 DEF DeliveryInv, DeliveryTypes
    <3>4. Delivery!File' = Delivery!File /\ Delivery!Delivering' = Delivery!Delivering /\ Delivery!Over' = Delivery!Over
      BY DEF Delivery!File, Delivery!Delivering, Delivery!Over
    <3>5. QED
      BY <1>1, <1>4, <3>1, <3>2, <3>3, <3>4 DEF DeliveryInv, DeliveryTypes
  <2>4. ASSUME NEW s \in Delivered \ {r} PROVE Same(s)
    BY <1>1, <1>4 DEF Same, DeliveryInv, DeliveryTypes
  <2>5. pc'[r] = "opened" /\ data'[r] = work[hand]
    BY <1>4 DEF DeliveryInv, DeliveryTypes
  <2>6. RunOK(r)'
    BY <1>1, <1>4, <2>1, <2>5 DEF RunOK, Early, Holding, Exporting
  <2>7. TempOK'
    <3>1. \A s \in Delivered : Hand(s)' = Hand(s)
      BY <1>1 DEF Hand, Delivery!Least
    <3>2. ASSUME NEW s \in Delivered \ {r}, pc[s] \in {"opened", "written"}, Hand(s) = hand PROVE hand \in contended'
      BY <1>4, <3>2
    <3>3. ASSUME NEW s \in Delivered, NEW t \in Delivered, s # t, pc'[s] \in {"opened", "written"}, pc'[t] \in {"opened", "written"},
                 Hand(s)' = Hand(t)'
          PROVE  Hand(s)' \in contended'
      <4>1. CASE s = r
        <5>1. Hand(t) = hand /\ pc[t] \in {"opened", "written"} /\ t \in Delivered \ {r}
          BY <2>4, <3>1, <3>3, <4>1 DEF Same
        <5>2. QED
          BY <3>1, <3>2, <4>1, <5>1
      <4>2. CASE t = r
        <5>1. Hand(s) = hand /\ pc[s] \in {"opened", "written"} /\ s \in Delivered \ {r}
          BY <2>4, <3>1, <3>3, <4>2 DEF Same
        <5>2. QED
          BY <3>1, <3>2, <5>1
      <4>3. CASE s # r /\ t # r
        <5>1. Hand(s) \in contended
          BY <2>4, <3>1, <3>3, <4>3 DEF Same, DeliveryInv, TempOK
        <5>2. QED
          BY <1>4, <3>1, <5>1
      <4>4. QED
        BY <4>1, <4>2, <4>3
    <3>4. ASSUME NEW s \in Delivered
          PROVE  /\ pc'[s] = "opened" => data'[s] \in Content
                 /\ pc'[s] = "opened" /\ Hand(s)' \notin contended' => tmp'[Hand(s)'] = Torn
                 /\ pc'[s] = "written" /\ Hand(s)' \notin contended' => tmp'[Hand(s)'] \in Content
      <4>1. CASE s = r
        <5>1. tmp'[hand] = Torn
          BY <1>2, <1>4 DEF DeliveryInv, DeliveryTypes
        <5>2. QED
          BY <2>2, <2>5, <3>1, <4>1, <5>1
      <4>2. CASE s # r
        <5>1. pc'[s] = pc[s] /\ data'[s] = data[s]
          BY <2>4, <4>2 DEF Same
        <5>2. ASSUME pc[s] \in {"opened", "written"}, Hand(s) \notin contended'
              PROVE  tmp'[Hand(s)] = tmp[Hand(s)] /\ Hand(s) \notin contended
          <6>1. Hand(s) # hand /\ Hand(s) \notin contended
            BY <1>4, <3>2, <4>2, <5>2
          <6>2. todo[s] # {}
            BY <5>2 DEF DeliveryInv, RunOK, Holding
          <6>3. Hand(s) \in Path
            BY <6>2, HandIs
          <6>4. QED
            BY <1>4, <6>1, <6>3 DEF DeliveryInv, DeliveryTypes
        <5>3. /\ pc[s] = "opened" => data[s] \in Content
              /\ pc[s] = "opened" /\ Hand(s) \notin contended => tmp[Hand(s)] = Torn
              /\ pc[s] = "written" /\ Hand(s) \notin contended => tmp[Hand(s)] \in Content
          BY DEF DeliveryInv, TempOK
        <5>4. QED
          BY <3>1, <5>1, <5>2, <5>3
      <4>3. QED
        BY <4>1, <4>2
    <3>5. Delivery!DurableIsWhole'
      BY <1>1, <1>4 DEF DeliveryInv, TempOK, Delivery!DurableIsWhole
    <3>6. QED
      BY <3>3, <3>4, <3>5 DEF TempOK
  <2>8. QED
    BY <2>3, <2>4, <2>6, <2>7, OneRunSteps
<1>5. QED
  <2>1. TRUE \in BOOLEAN /\ FALSE \in BOOLEAN
    OBVIOUS
  <2>2. QED
    BY <1>3, <1>4, <2>1 DEF Delivery!Open, Delivery!Go, Delivery!effects, Hand

\* Two runs that hold one temporary file have it contended.
LEMMA OthersHold ==
  ASSUME DeliveryInv, NEW r \in Delivered, NEW s \in Delivered \ {r}, pc[r] \in {"opened", "written"}, pc[s] \in {"opened", "written"},
         Hand(s) \notin contended
  PROVE  Hand(s) # Hand(r)
BY DEF DeliveryInv, TempOK

LEMMA WriteKeeps ==
  ASSUME Delivery!DeliveryAssumption, DeliveryInv, NEW r \in Delivered, Delivery!Write(r) PROVE DeliveryInv'
<1> DEFINE hand == Hand(r)
<1> DEFINE over(old) == IF old = Torn THEN {data[r]} ELSE {data[r], Torn}
<1>1. /\ pc[r] = "opened"
      /\ UNCHANGED <<host, root, outcome, before, facts, todo, failures, data, work, full, works, faults, contended>>
  BY DEF Delivery!Write, Delivery!At, Delivery!ofRun
<1>2. hand \in todo[r] /\ hand \in Path
  BY <1>1, HandIs DEF DeliveryInv, RunOK, Holding
<1>3. data[r] \in Content /\ (hand \notin contended => tmp[hand] = Torn)
  BY <1>1 DEF DeliveryInv, TempOK
<1>4. Torn # Gone
  BY DEF Delivery!DeliveryAssumption
<1>5. CASE Delivery!Escape(r, FALSE) /\ UNCHANGED <<durable, tmp>>
  BY <1>1, <1>5, EscapeKeeps DEF Holding
<1>6. CASE /\ pc' = [pc EXCEPT ![r] = "written"] /\ UNCHANGED <<copied, noticed, replied, sent, told, code>>
           /\ \/ tmp[hand] # Gone /\ (\E v \in over(tmp[hand]) : tmp' = [tmp EXCEPT ![hand] = v]) /\ durable' = durable
              \/ tmp[hand] = Gone /\ (\E v \in over(durable[hand]) : durable' = [durable EXCEPT ![hand] = v]) /\ tmp' = tmp
  <2>1. Delivery!Listed(r)' = Delivery!Listed(r) /\ RunOK(r)
    BY <1>1 DEF Delivery!Listed, DeliveryInv
  <2>2. PICK v \in {data[r], Torn} :
          \/ tmp[hand] # Gone /\ tmp' = [tmp EXCEPT ![hand] = v] /\ durable' = durable /\ (tmp[hand] = Torn => v = data[r])
          \/ tmp[hand] = Gone /\ durable' = [durable EXCEPT ![hand] = v] /\ tmp' = tmp
    BY <1>6
  <2>3. v \in Delivery!File \cup {Torn}
    BY <1>3 DEF Delivery!File
  <2>4. DeliveryTypes'
    <3>1. pc' \in [Delivered -> {"idle", "running", "refused"} \cup Delivery!Delivering \cup Delivery!Over]
      BY <1>6 DEF DeliveryInv, DeliveryTypes, Delivery!Delivering
    <3>2. durable' \in [Path -> Delivery!File \cup {Torn}] /\ tmp' \in [Path -> Delivery!File \cup {Torn}]
      BY <2>2, <2>3 DEF DeliveryInv, DeliveryTypes
    <3>3. Delivery!File' = Delivery!File /\ Delivery!Delivering' = Delivery!Delivering /\ Delivery!Over' = Delivery!Over
      BY DEF Delivery!File, Delivery!Delivering, Delivery!Over
    <3>4. QED
      BY <1>1, <1>6, <3>1, <3>2, <3>3 DEF DeliveryInv, DeliveryTypes
  <2>5. ASSUME NEW s \in Delivered \ {r} PROVE Same(s)
    BY <1>1, <1>6 DEF Same, DeliveryInv, DeliveryTypes
  <2>6. pc'[r] = "written"
    BY <1>6 DEF DeliveryInv, DeliveryTypes
  <2>7. RunOK(r)'
    BY <1>1, <1>6, <2>1, <2>6 DEF RunOK, Early, Holding, Exporting
  <2>8. TempOK'
    <3>1. \A s \in Delivered : /\ Hand(s)' = Hand(s)
                               /\ pc'[s] \in {"opened", "written"} => pc[s] \in {"opened", "written"}
      BY <1>1, <2>5 DEF Hand, Delivery!Least, Same
    <3>2. ASSUME NEW s \in Delivered, NEW t \in Delivered, s # t, pc'[s] \in {"opened", "written"}, pc'[t] \in {"opened", "written"},
                 Hand(s)' = Hand(t)'
          PROVE  Hand(s)' \in contended'
      <4>1. Hand(s) \in contended
        BY <3>1, <3>2 DEF DeliveryInv, TempOK
      <4>2. QED
        BY <1>1, <3>1, <4>1
    <3>3. ASSUME NEW s \in Delivered
          PROVE  /\ pc'[s] = "opened" => data'[s] \in Content
                 /\ pc'[s] = "opened" /\ Hand(s)' \notin contended' => tmp'[Hand(s)'] = Torn
                 /\ pc'[s] = "written" /\ Hand(s)' \notin contended' => tmp'[Hand(s)'] \in Content
      <4>1. CASE s = r
        <5>1. ASSUME hand \notin contended PROVE tmp'[hand] = data[r]
          <6>1. tmp[hand] = Torn
            BY <1>3, <5>1
          <6>2. tmp' = [tmp EXCEPT ![hand] = data[r]]
            BY <1>4, <2>2, <6>1
          <6>3. QED
            BY <1>2, <6>2 DEF DeliveryInv, DeliveryTypes
        <5>2. QED
          BY <1>1, <1>3, <2>6, <3>1, <4>1, <5>1
      <4>2. CASE s # r
        <5>1. pc'[s] = pc[s] /\ data'[s] = data[s]
          BY <2>5, <4>2 DEF Same
        <5>2. ASSUME pc[s] \in {"opened", "written"}, Hand(s) \notin contended PROVE tmp'[Hand(s)] = tmp[Hand(s)]
          <6>1. Hand(s) # hand
            BY <1>1, <4>2, <5>2, OthersHold
          <6>2. todo[s] # {}
            BY <5>2 DEF DeliveryInv, RunOK, Holding
          <6>3. Hand(s) \in Path
            BY <6>2, HandIs
          <6>4. QED
            BY <2>2, <6>1, <6>3 DEF DeliveryInv, DeliveryTypes
        <5>3. /\ pc[s] = "opened" => data[s] \in Content
              /\ pc[s] = "opened" /\ Hand(s) \notin contended => tmp[Hand(s)] = Torn
              /\ pc[s] = "written" /\ Hand(s) \notin contended => tmp[Hand(s)] \in Content
          BY DEF DeliveryInv, TempOK
        <5>4. QED
          BY <1>1, <3>1, <5>1, <5>2, <5>3
      <4>3. QED
        BY <4>1, <4>2
    <3>4. Delivery!DurableIsWhole'
      <4>1. ASSUME NEW p \in Path, durable'[p] = Torn PROVE p \in contended
        <5>1. CASE p = hand
          <6>1. CASE tmp[hand] = Gone
            BY <1>3, <1>4, <5>1, <6>1
          <6>2. CASE tmp[hand] # Gone
            BY <2>2, <4>1, <6>2 DEF DeliveryInv, TempOK, Delivery!DurableIsWhole
          <6>3. QED
            BY <6>1, <6>2
        <5>2. CASE p # hand
          <6>1. durable'[p] = durable[p]
            BY <2>2, <5>2 DEF DeliveryInv, DeliveryTypes
          <6>2. QED
            BY <4>1, <6>1 DEF DeliveryInv, TempOK, Delivery!DurableIsWhole
        <5>3. QED
          BY <5>1, <5>2
      <4>2. QED
        BY <1>1, <4>1 DEF Delivery!DurableIsWhole
    <3>5. QED
      BY <3>2, <3>3, <3>4 DEF TempOK
  <2>9. QED
    BY <2>4, <2>5, <2>7, <2>8, OneRunSteps
<1>7. QED
  BY <1>5, <1>6 DEF Delivery!Write, Delivery!Go, Delivery!effects, Hand

LEMMA ReplaceKeeps ==
  ASSUME Delivery!DeliveryAssumption, DeliveryInv, NEW r \in Delivered, Delivery!Replace(r) PROVE DeliveryInv'
<1> DEFINE hand == Hand(r)
<1>1. /\ pc[r] = "written"
      /\ UNCHANGED <<host, root, outcome, before, facts, failures, data, work, full, works, faults, contended>>
  BY DEF Delivery!Replace, Delivery!At, Delivery!ofRun
<1>2. hand \in todo[r] /\ hand \in Path
  BY <1>1, HandIs DEF DeliveryInv, RunOK, Holding
<1>3. hand \notin contended => tmp[hand] \in Content
  BY <1>1 DEF DeliveryInv, TempOK
<1>4. Torn \notin Content
  BY DEF Delivery!DeliveryAssumption
<1>5. CASE Delivery!Escape(r, TRUE) /\ UNCHANGED <<todo, durable, tmp>>
  BY <1>1, <1>5, EscapeKeeps DEF Holding
<1>6. CASE /\ pc' = [pc EXCEPT ![r] = "exporting"] /\ UNCHANGED <<noticed, replied, sent, told, code>>
           /\ durable' = [durable EXCEPT ![hand] = tmp[hand]] /\ tmp' = [tmp EXCEPT ![hand] = Gone]
           /\ todo' = [todo EXCEPT ![r] = todo[r] \ {hand}] /\ copied' = [copied EXCEPT ![r] = copied[r] \cup {hand}]
  <2>1. Delivery!Listed(r)' = Delivery!Listed(r) /\ RunOK(r)
    BY <1>1 DEF Delivery!Listed, DeliveryInv
  <2>2. DeliveryTypes'
    <3>1. pc' \in [Delivered -> {"idle", "running", "refused"} \cup Delivery!Delivering \cup Delivery!Over]
      BY <1>6 DEF DeliveryInv, DeliveryTypes, Delivery!Delivering
    <3>2. tmp[hand] \in Delivery!File \cup {Torn} /\ Gone \in Delivery!File
      BY <1>2 DEF DeliveryInv, DeliveryTypes, Delivery!File
    <3>3. durable' \in [Path -> Delivery!File \cup {Torn}] /\ tmp' \in [Path -> Delivery!File \cup {Torn}]
      BY <1>6, <3>2 DEF DeliveryInv, DeliveryTypes
    <3>4. todo' \in [Delivered -> SUBSET Path] /\ copied' \in [Delivered -> SUBSET Path]
      <4>1. todo \in [Delivered -> SUBSET Path] /\ copied \in [Delivered -> SUBSET Path]
        BY DEF DeliveryInv, DeliveryTypes
      <4>2. todo[r] \ {hand} \in SUBSET Path /\ copied[r] \cup {hand} \in SUBSET Path
        BY <1>2, <4>1
      <4>3. QED
        BY <1>6, <4>1, <4>2
    <3>5. Delivery!File' = Delivery!File /\ Delivery!Delivering' = Delivery!Delivering /\ Delivery!Over' = Delivery!Over
      BY DEF Delivery!File, Delivery!Delivering, Delivery!Over
    <3>6. QED
      BY <1>1, <1>6, <3>1, <3>3, <3>4, <3>5 DEF DeliveryInv, DeliveryTypes
  <2>3. ASSUME NEW s \in Delivered \ {r} PROVE Same(s)
    BY <1>1, <1>6 DEF Same, DeliveryInv, DeliveryTypes
  <2>4. pc'[r] = "exporting" /\ todo'[r] = todo[r] \ {hand} /\ copied'[r] = copied[r] \cup {hand}
    BY <1>6 DEF DeliveryInv, DeliveryTypes
  <2>5. RunOK(r)'
    <3>1. hand \in Delivery!Listed(r)
      BY <1>1, <1>2, <2>1 DEF RunOK, Exporting, Holding
    <3>2. QED
      BY <1>1, <1>2, <1>6, <2>1, <2>4, <3>1 DEF RunOK, Early, Holding, Exporting
  <2>6. TempOK'
    <3>1. ASSUME NEW s \in Delivered, pc'[s] \in {"opened", "written"}
          PROVE  s # r /\ Hand(s)' = Hand(s) /\ pc'[s] = pc[s] /\ data'[s] = data[s]
      BY <2>3, <2>4, <3>1 DEF Hand, Delivery!Least, Same
    <3>2. ASSUME NEW s \in Delivered, NEW t \in Delivered, s # t, pc'[s] \in {"opened", "written"}, pc'[t] \in {"opened", "written"},
                 Hand(s)' = Hand(t)'
          PROVE  Hand(s)' \in contended'
      <4>1. Hand(s) \in contended
        BY <3>1, <3>2 DEF DeliveryInv, TempOK
      <4>2. QED
        BY <1>1, <3>1, <3>2, <4>1
    <3>3. ASSUME NEW s \in Delivered
          PROVE  /\ pc'[s] = "opened" => data'[s] \in Content
                 /\ pc'[s] = "opened" /\ Hand(s)' \notin contended' => tmp'[Hand(s)'] = Torn
                 /\ pc'[s] = "written" /\ Hand(s)' \notin contended' => tmp'[Hand(s)'] \in Content
      <4>1. ASSUME pc'[s] \in {"opened", "written"}, Hand(s) \notin contended PROVE tmp'[Hand(s)] = tmp[Hand(s)]
        <5>1. Hand(s) # hand
          BY <1>1, <3>1, <4>1, OthersHold
        <5>2. todo[s] # {}
          BY <3>1, <4>1 DEF DeliveryInv, RunOK, Holding
        <5>3. Hand(s) \in Path
          BY <5>2, HandIs
        <5>4. QED
          BY <1>6, <5>1, <5>3 DEF DeliveryInv, DeliveryTypes
      <4>2. /\ pc[s] = "opened" => data[s] \in Content
            /\ pc[s] = "opened" /\ Hand(s) \notin contended => tmp[Hand(s)] = Torn
            /\ pc[s] = "written" /\ Hand(s) \notin contended => tmp[Hand(s)] \in Content
        BY DEF DeliveryInv, TempOK
      <4>3. QED
        BY <1>1, <3>1, <4>1, <4>2
    <3>4. Delivery!DurableIsWhole'
      <4>1. ASSUME NEW p \in Path, durable'[p] = Torn PROVE p \in contended
        <5>1. CASE p = hand
          <6>1. durable'[p] = tmp[hand]
            BY <1>2, <1>6, <5>1 DEF DeliveryInv, DeliveryTypes
          <6>2. QED
            BY <1>3, <1>4, <4>1, <5>1, <6>1
        <5>2. CASE p # hand
          <6>1. durable'[p] = durable[p]
            BY <1>6, <5>2 DEF DeliveryInv, DeliveryTypes
          <6>2. QED
            BY <4>1, <6>1 DEF DeliveryInv, TempOK, Delivery!DurableIsWhole
        <5>3. QED
          BY <5>1, <5>2
      <4>2. QED
        BY <1>1, <4>1 DEF Delivery!DurableIsWhole
    <3>5. QED
      BY <3>2, <3>3, <3>4 DEF TempOK
  <2>7. QED
    BY <2>2, <2>3, <2>5, <2>6, OneRunSteps
<1>7. QED
  BY <1>5, <1>6 DEF Delivery!Replace, Delivery!Go, Hand

LEMMA DeliveryStep == ASSUME Delivery!DeliveryAssumption, DeliveryInv, [Delivery!Next]_Delivery!vars PROVE DeliveryInv'
<1>1. CASE Delivery!Next
  <2>1. ASSUME NEW p \in Path, NEW v \in Delivery!File, Delivery!Work(p, v) PROVE DeliveryInv'
    BY <2>1, WorkKeeps
  <2>2. ASSUME NEW r \in Delivered, NEW how \in {"completed", "failed", "limit_reached", "paused"}, Delivery!Settle(r, how) PROVE DeliveryInv'
    BY <2>2, SettleKeeps
  <2>3. ASSUME NEW r \in Delivered, Delivery!Accept(r) \/ Delivery!Check(r) \/ Delivery!Open(r) \/ Delivery!Write(r) \/ Delivery!Replace(r)
        PROVE  DeliveryInv'
    BY <2>3, AcceptKeeps, CheckKeeps, OpenKeeps, WriteKeeps, ReplaceKeeps
  <2>4. ASSUME NEW r \in Delivered, \/ Delivery!Exported(r) \/ Delivery!Report(r) \/ Delivery!Send(r)
                                    \/ Delivery!Sent(r) \/ Delivery!Again(r) \/ Delivery!Kill(r)
        PROVE  DeliveryInv'
    BY <2>4, ExportedKeeps, ReportKeeps, SendKeeps, TurnsKeep
  <2>5. QED
    BY <1>1, <2>1, <2>2, <2>3, <2>4, FillKeeps DEF Delivery!Next
<1>2. CASE UNCHANGED Delivery!vars
  <2>1. /\ UNCHANGED <<host, root, outcome, before, facts, pc, todo, failures, data, copied, noticed, replied, sent, told, code>>
        /\ UNCHANGED <<work, durable, tmp, full, works, faults, contended>>
    BY <1>2 DEF Delivery!vars
  <2>2. DeliveryTypes'
    <3>1. Delivery!File' = Delivery!File /\ Delivery!Delivering' = Delivery!Delivering /\ Delivery!Over' = Delivery!Over
      BY DEF Delivery!File, Delivery!Delivering, Delivery!Over
    <3>2. QED
      BY <2>1, <3>1 DEF DeliveryInv, DeliveryTypes
  <2>3. ASSUME NEW s \in Delivered PROVE RunOK(s)'
    <3>1. RunOK(s) /\ Same(s)
      BY <2>1 DEF Same, DeliveryInv
    <3>2. QED
      BY <3>1, RunStays
  <2>4. TempOK'
    BY <2>1, TempStays DEF DeliveryInv
  <2>5. QED
    BY <2>2, <2>3, <2>4 DEF DeliveryInv
<1>3. QED
  BY <1>1, <1>2

LEMMA DeliveryHolds ==
  ASSUME DeliveryInv PROVE Delivery!TypeOK /\ Delivery!DurableIsWhole /\ Delivery!CopiedOrTold /\ Delivery!SentOrTold
<1>1. Delivery!TypeOK
  <2>1. {before[r] : r \in Delivered} \subseteq [Path -> Delivery!File] /\ {facts[r] : r \in Delivered} \subseteq [Path -> Delivery!File]
    BY DEF DeliveryInv, DeliveryTypes
  <2>2. QED
    BY <2>1 DEF DeliveryInv, DeliveryTypes, Delivery!TypeOK
<1>2. Delivery!DurableIsWhole
  BY DEF DeliveryInv, TempOK
<1>3. Delivery!CopiedOrTold /\ Delivery!SentOrTold
  BY DEF DeliveryInv, RunOK, Delivery!CopiedOrTold, Delivery!SentOrTold, Delivery!At
<1>4. QED
  BY <1>1, <1>2, <1>3

\* A durable copy is whole, whatever dies and when, unless two runs had its
\* temporary file open (export_receipt_artifacts, runtime.py).
THEOREM CopiesAreWhole == ASSUME Delivery!DeliveryAssumption PROVE Delivery!Spec => [](Delivery!TypeOK /\ Delivery!DurableIsWhole)
<1>1. Delivery!Init => DeliveryInv
  BY DeliveryInit
<1>2. DeliveryInv /\ [Delivery!Next]_Delivery!vars => DeliveryInv'
  BY DeliveryStep
<1>3. DeliveryInv => Delivery!TypeOK /\ Delivery!DurableIsWhole
  BY DeliveryHolds
<1>4. QED
  BY <1>1, <1>2, <1>3, PTL DEF Delivery!Spec

\* What a completed run lists is copied or told, and sent to the chat or told
\* (_settle_terminal and _send_receipt_artifacts, service.py).
THEOREM ListedIsAccounted == ASSUME Delivery!DeliveryAssumption PROVE Delivery!Spec => [](Delivery!CopiedOrTold /\ Delivery!SentOrTold)
<1>1. Delivery!Init => DeliveryInv
  BY DeliveryInit
<1>2. DeliveryInv /\ [Delivery!Next]_Delivery!vars => DeliveryInv'
  BY DeliveryStep
<1>3. DeliveryInv => Delivery!CopiedOrTold /\ Delivery!SentOrTold
  BY DeliveryHolds
<1>4. QED
  BY <1>1, <1>2, <1>3, PTL DEF Delivery!Spec
-----------------------------------------------------------------------------
(* How the agent of a run is composed (Composition), for any plugins,      *)
(* releases, profiles, settings and edits.  What a snapshot holds is all   *)
(* that an agent is built from, and what it was built from once, it can be *)
(* built from again as long as the plugins are what they were.             *)

CONSTANTS Plugin, Release, Document, Host, MaxEdits
VARIABLES composing, profile, installed, settings, purpose, asked, refs, authorized, frozen, agent, pause_receipt, first, edits

Compose == INSTANCE Composition WITH pc <- composing, snapshot <- frozen, receipt <- pause_receipt, Absent <- Gone

\* TypeOK, one by one.
ComposeTypes ==
  /\ composing \in {"idle", "read", "resolved", "frozen", "running", "paused", "refused", "raised", "finished"}
  /\ profile \in Document \cup {Gone} /\ installed \in [Plugin -> Release \cup {Gone}] /\ settings \in Host
  /\ purpose \in {"check", "run", "resume"}
  /\ asked \in Document \cup {Gone} /\ refs \in Seq(Compose!Ref) /\ authorized \in (SUBSET Compose!Generalist) \cup {Gone}
  /\ frozen \in Compose!Snapshot \cup {Gone} /\ pause_receipt \in Compose!Snapshot \cup {Gone}
  /\ agent \in Compose!Agent \cup {Gone} /\ first \in Compose!Agent \cup {Gone}
  /\ edits \in 0 .. MaxEdits

\* What a snapshot holds: its plugins differ, and what hides tools can be found.
FrozenOK(s) ==
  /\ \A i, j \in DOMAIN s.plugins : s.plugins[i].id = s.plugins[j].id => i = j
  /\ \A i \in DOMAIN s.plugins : s.plugins[i].defer => Compose!Authorizes(s.generalist)

\* An agent was built from a snapshot, by releases that do not fail.
BuiltOf(a, s) ==
  /\ a.plugins = s.plugins
  /\ \A i \in DOMAIN s.plugins :
       /\ a.releases[i] \in Release /\ a.releases[i].version = s.plugins[i].version /\ a.releases[i].entry = s.plugins[i].entry
       /\ a.releases[i].makes = "bundle" /\ a.releases[i].skills # "missing"
       /\ a.releases[i].capability => s.plugins[i].allow
       /\ a.releases[i].marked => Compose!Authorizes(s.generalist)
  /\ s.generalist # Gone => a.flags \cap Compose!Generalist = s.generalist

\* An agent finds what it hides and adds what was granted.
AgentOK(a) ==
  /\ Compose!Deferred(a) # {} => "tool_search" \in a.capabilities
  /\ \A i \in DOMAIN a.plugins : a.plugins[i].id \in a.capabilities => a.plugins[i].allow

\* A command on its way to an agent.
WayOK ==
  /\ composing \in {"read", "resolved"} => purpose \in {"check", "run"} /\ Compose!Admitted(asked)
  /\ composing = "resolved" =>
       authorized = Compose!Effective(asked.generalist) /\ FrozenOK([plugins |-> refs, generalist |-> authorized])
  /\ composing = "frozen" => purpose \in {"run", "resume"} /\ frozen # Gone /\ FrozenOK(frozen)
  /\ composing \in {"frozen", "running"} /\ purpose = "run" /\ frozen # Gone => frozen.generalist = Compose!Effective(asked.generalist)

\* A run, its pause and its continuation.
ComposedOK ==
  /\ agent # Gone => AgentOK(agent)
  /\ composing \in {"running", "paused", "finished"} \/ purpose = "resume" => agent # Gone /\ first # Gone
  /\ composing = "running" /\ frozen # Gone => FrozenOK(frozen) /\ BuiltOf(agent, frozen) /\ BuiltOf(first, frozen)
  /\ (composing = "paused" \/ purpose = "resume") /\ pause_receipt # Gone =>
       FrozenOK(pause_receipt) /\ BuiltOf(agent, pause_receipt) /\ BuiltOf(first, pause_receipt)
  /\ composing \in {"frozen", "running", "refused", "raised"} /\ purpose = "resume" => frozen = pause_receipt
  /\ composing = "idle" => purpose # "resume"
  /\ composing = "running" /\ purpose = "run" /\ frozen # Gone => agent.flags = Compose!Applied(frozen.generalist)

ComposeInv == ComposeTypes /\ WayOK /\ ComposedOK

\* An id of its own for every row.
LEMMA DistinctIs ==
  ASSUME NEW rows \in Seq(Compose!Row), Compose!Distinct(rows)
  PROVE  \A i, j \in DOMAIN rows : rows[i].id = rows[j].id => i = j
<1> DEFINE ids == {rows[i].id : i \in DOMAIN rows}
<1> DEFINE idOf == [i \in 1 .. Len(rows) |-> rows[i].id]
<1>1. Len(rows) \in Nat /\ DOMAIN rows = 1 .. Len(rows)
  OBVIOUS
<1>2. Cardinality(ids) = Len(rows)
  BY DEF Compose!Distinct, Compose!Cardinality, Cardinality
<1>3. IsFiniteSet(1 .. Len(rows)) /\ Cardinality(1 .. Len(rows)) = Len(rows)
  BY <1>1, FS_Interval
<1>4. idOf \in Surjection(1 .. Len(rows), ids)
  BY <1>1 DEF Surjection
<1>5. idOf \in Injection(1 .. Len(rows), ids)
  BY <1>2, <1>3, <1>4, FS_Surjection
<1>6. \A i, j \in 1 .. Len(rows) : idOf[i] = idOf[j] => i = j
  BY <1>5 DEF Injection, IsInjective
<1>7. QED
  BY <1>1, <1>6

\* A plugin that ends no command.
Passes(ref, policy) ==
  /\ ~ Compose!Drifted(ref) /\ ~ Compose!Unimportable(ref) /\ ~ Compose!Unmade(ref) /\ ~ Compose!Ungranted(ref)
  /\ ~ Compose!Untaught(ref) /\ ~ Compose!Unfindable(ref, policy)

LEMMA FaultIs ==
  ASSUME NEW plugins, NEW policy
  PROVE  /\ Compose!Fault(plugins, policy) \in {"none", "raised", "refused"}
         /\ Compose!Fault(plugins, policy) = "none" <=> \A i \in DOMAIN plugins : Passes(plugins[i], policy)
BY DEF Compose!Fault, Passes

LEMMA LineIs == ASSUME NEW S, NEW n \in Nat, NEW line \in [1 .. n -> S] PROVE line \in Seq(S)
OBVIOUS

\* A frozen policy is exactly what is applied.
LEMMA AppliedIs ==
  ASSUME Compose!CompositionAssumption, settings \in Host, NEW policy \in (SUBSET Compose!Generalist) \cup {Gone}
  PROVE  /\ Compose!Applied(policy) \in SUBSET Compose!Flag
         /\ policy # Gone => Compose!Applied(policy) \cap Compose!Generalist = policy
         /\ Compose!Authorizes(policy) => "tool_search" \in Compose!Capabilities(Compose!Applied(policy))
         /\ Compose!Capabilities(Compose!Applied(policy)) \subseteq Compose!Flag
<1>1. settings \in SUBSET Compose!Flag /\ Compose!Generalist \subseteq Compose!Flag
  <2>1. Host \subseteq SUBSET Compose!Flag
    BY Zenon DEF Compose!CompositionAssumption
  <2>2. Compose!Generalist \subseteq Compose!Flag
    BY DEF Compose!Flag
  <2>3. QED
    BY <2>1, <2>2
<1>2. Compose!Applied(policy) \in SUBSET Compose!Flag
  <2>1. CASE policy = Gone
    BY <1>1, <2>1 DEF Compose!Applied
  <2>2. CASE policy # Gone
    <3>1. policy \subseteq Compose!Generalist /\ Compose!Applied(policy) = (settings \ Compose!Generalist) \cup policy
      BY <2>2 DEF Compose!Applied
    <3>2. QED
      BY <1>1, <3>1
  <2>3. QED
    BY <2>1, <2>2
<1>3. policy # Gone => Compose!Applied(policy) \cap Compose!Generalist = policy
  BY DEF Compose!Applied
<1>4. Compose!Authorizes(policy) => "tool_search" \in Compose!Capabilities(Compose!Applied(policy))
  BY DEF Compose!Authorizes, Compose!Applied, Compose!Capabilities
<1>5. Compose!Capabilities(Compose!Applied(policy)) \subseteq Compose!Flag
  BY <1>2 DEF Compose!Capabilities
<1>6. QED
  BY <1>2, <1>3, <1>4, <1>5

\* What is built from a snapshot whose plugins pass.
LEMMA BuiltIs ==
  ASSUME Compose!CompositionAssumption, ComposeTypes, NEW s \in Compose!Snapshot, FrozenOK(s),
         Compose!Fault(s.plugins, s.generalist) = "none"
  PROVE  LET built == Compose!Built(s.plugins, s.generalist) IN
           built \in Compose!Agent /\ BuiltOf(built, s) /\ AgentOK(built) /\ built.flags = Compose!Applied(s.generalist)
<1> DEFINE plugins == s.plugins
<1> DEFINE policy == s.generalist
<1> DEFINE releases == [i \in DOMAIN plugins |-> installed[plugins[i].id]]
<1> DEFINE flags == Compose!Applied(policy)
<1> DEFINE contributing == {plugins[i].id : i \in {j \in DOMAIN plugins : releases[j].capability}}
<1> DEFINE teaching == {plugins[i].id : i \in {j \in DOMAIN plugins : releases[j].skills = "there"}}
<1> DEFINE built == Compose!Built(s.plugins, s.generalist)
<1>1. plugins \in Seq(Compose!Ref) /\ policy \in (SUBSET Compose!Generalist) \cup {Gone}
  BY DEF Compose!Snapshot
<1>2. DOMAIN plugins = 1 .. Len(plugins) /\ Len(plugins) \in Nat /\ \A i \in DOMAIN plugins : plugins[i] \in Compose!Ref /\ plugins[i].id \in Plugin
  <2>1. DOMAIN plugins = 1 .. Len(plugins) /\ Len(plugins) \in Nat /\ \A i \in DOMAIN plugins : plugins[i] \in Compose!Ref
    BY <1>1
  <2>2. \A ref \in Compose!Ref : ref.id \in Plugin
    BY DEF Compose!Ref
  <2>3. QED
    BY <2>1, <2>2
<1>3. \A i \in DOMAIN plugins : Passes(plugins[i], policy)
  BY FaultIs
<1>4. ASSUME NEW i \in DOMAIN plugins
      PROVE  /\ releases[i] \in Release /\ releases[i].version = plugins[i].version /\ releases[i].entry = plugins[i].entry
             /\ releases[i].makes = "bundle" /\ releases[i].skills # "missing"
             /\ releases[i].capability => plugins[i].allow
             /\ releases[i].marked => Compose!Authorizes(policy)
  <2>1. releases[i] = installed[plugins[i].id]
    OBVIOUS
  <2>2. releases[i] \in Release \cup {Gone}
    BY <1>2, <2>1 DEF ComposeTypes
  <2>3. /\ ~ Compose!Drifted(plugins[i]) /\ ~ Compose!Unimportable(plugins[i]) /\ ~ Compose!Unmade(plugins[i])
        /\ ~ Compose!Ungranted(plugins[i]) /\ ~ Compose!Untaught(plugins[i]) /\ ~ Compose!Unfindable(plugins[i], policy)
    BY <1>3 DEF Passes
  <2>4. releases[i] \in Release
    BY <2>1, <2>2, <2>3 DEF Compose!Drifted
  <2>5. releases[i].makes \in {"bundle", "error", "import error"}
    BY <2>4 DEF Compose!CompositionAssumption
  <2>6. releases[i].makes = "bundle"
    BY <2>1, <2>3, <2>5 DEF Compose!Unimportable, Compose!Unmade
  <2>7. QED
    BY <2>1, <2>3, <2>4, <2>6 DEF Compose!Drifted, Compose!Ungranted, Compose!Untaught, Compose!Unfindable
<1>5. built = [plugins |-> plugins, releases |-> releases, flags |-> flags,
               capabilities |-> Compose!Capabilities(flags) \cup contributing, skills |-> IF "skills" \in flags THEN teaching ELSE {}]
  BY DEF Compose!Built
<1>6. /\ built.plugins = plugins /\ built.releases = releases /\ built.flags = flags
      /\ built.capabilities = Compose!Capabilities(flags) \cup contributing
  BY <1>5
<1>7. /\ flags \in SUBSET Compose!Flag /\ Compose!Capabilities(flags) \subseteq Compose!Flag
      /\ policy # Gone => flags \cap Compose!Generalist = policy
      /\ Compose!Authorizes(policy) => "tool_search" \in Compose!Capabilities(flags)
  BY <1>1, AppliedIs DEF ComposeTypes
<1>8. built \in Compose!Agent
  <2>1. releases \in Seq(Release)
    <3>1. PICK n \in Nat : DOMAIN plugins = 1 .. n
      BY <1>2
    <3>2. releases \in [1 .. n -> Release]
      BY <1>4, <3>1
    <3>3. QED
      BY <3>2, LineIs
  <2>2. contributing \subseteq Plugin /\ teaching \subseteq Plugin
    BY <1>2
  <2>3. Compose!Capabilities(flags) \cup contributing \in SUBSET (Compose!Flag \cup Plugin)
    BY <1>7, <2>2
  <2>4. (IF "skills" \in flags THEN teaching ELSE {}) \in SUBSET Plugin
    BY <2>2
  <2>5. PICK added, skills : /\ added = Compose!Capabilities(flags) \cup contributing
                             /\ skills = IF "skills" \in flags THEN teaching ELSE {}
    OBVIOUS
  <2>6. built = [plugins |-> plugins, releases |-> releases, flags |-> flags, capabilities |-> added, skills |-> skills]
    BY <1>5, <2>5
  <2>7. added \in SUBSET (Compose!Flag \cup Plugin) /\ skills \in SUBSET Plugin
    BY <2>3, <2>4, <2>5
  <2>8. QED
    BY <1>1, <1>7, <2>1, <2>6, <2>7 DEF Compose!Agent
<1>9. BuiltOf(built, s)
  BY <1>4, <1>6, <1>7 DEF BuiltOf
<1>10. AgentOK(built)
  <2>1. Compose!Deferred(built) # {} => Compose!Authorizes(policy)
    BY <1>4, <1>6 DEF Compose!Deferred, FrozenOK
  <2>2. ASSUME NEW i \in DOMAIN plugins, plugins[i].id \in built.capabilities PROVE plugins[i].allow
    <3>1. plugins[i].id \notin Compose!Flag
      BY <1>2 DEF Compose!CompositionAssumption
    <3>2. plugins[i].id \in contributing
      BY <1>6, <1>7, <2>2, <3>1
    <3>3. PICK j \in DOMAIN plugins : releases[j].capability /\ plugins[j].id = plugins[i].id
      BY <3>2
    <3>4. j = i
      BY <3>3 DEF FrozenOK
    <3>5. QED
      BY <1>4, <3>3, <3>4
  <2>3. QED
    BY <1>6, <1>7, <2>1, <2>2 DEF AgentOK
<1>11. QED
  BY <1>6, <1>8, <1>9, <1>10

\* The core agent has no plugins.
LEMMA CoreIs ==
  ASSUME Compose!CompositionAssumption, ComposeTypes
  PROVE  Compose!Built(<<>>, Gone) \in Compose!Agent /\ AgentOK(Compose!Built(<<>>, Gone))
<1> DEFINE flags == Compose!Applied(Gone)
<1> DEFINE core == Compose!Built(<<>>, Gone)
<1>1. flags \in SUBSET Compose!Flag /\ Compose!Capabilities(flags) \subseteq Compose!Flag
  <2>1. settings \in Host /\ Gone \in (SUBSET Compose!Generalist) \cup {Gone}
    BY DEF ComposeTypes
  <2>2. QED
    BY <2>1, AppliedIs
<1>2. DOMAIN <<>> = {} /\ <<>> \in Seq(Compose!Ref) /\ <<>> \in Seq(Release)
  OBVIOUS
<1>3. core = [plugins |-> <<>>, releases |-> <<>>, flags |-> flags, capabilities |-> Compose!Capabilities(flags), skills |-> {}]
  <2>1. [i \in {} |-> installed[<<>>[i].id]] = <<>>
    OBVIOUS
  <2>2. QED
    BY <1>2, <2>1 DEF Compose!Built
<1>4. core \in Compose!Agent
  <2>1. PICK added, none, flagged : added = Compose!Capabilities(flags) /\ none = <<>> /\ flagged = flags
    OBVIOUS
  <2>2. core = [plugins |-> none, releases |-> none, flags |-> flagged, capabilities |-> added, skills |-> {}]
    BY <1>3, <2>1
  <2>3. /\ none \in Seq(Compose!Ref) /\ none \in Seq(Release) /\ flagged \in SUBSET Compose!Flag
        /\ added \in SUBSET (Compose!Flag \cup Plugin) /\ {} \in SUBSET Plugin
    BY <1>1, <1>2, <2>1
  <2>4. QED
    BY <2>2, <2>3 DEF Compose!Agent
<1>5. DOMAIN core.plugins = {}
  BY <1>2, <1>3
<1>6. QED
  BY <1>4, <1>5 DEF AgentOK, Compose!Deferred

LEMMA SetsStand ==
  /\ Compose!Ref' = Compose!Ref /\ Compose!Snapshot' = Compose!Snapshot /\ Compose!Agent' = Compose!Agent
  /\ Compose!Generalist' = Compose!Generalist
BY DEF Compose!Ref, Compose!Snapshot, Compose!Agent, Compose!Generalist, Compose!Flag

\* What is said of a snapshot or an agent depends on nothing else.
LEMMA SaidNext ==
  /\ AgentOK(agent)' <=> AgentOK(agent')
  /\ FrozenOK(frozen)' <=> FrozenOK(frozen')
  /\ FrozenOK(pause_receipt)' <=> FrozenOK(pause_receipt')
  /\ BuiltOf(agent, frozen)' <=> BuiltOf(agent', frozen')
  /\ BuiltOf(first, frozen)' <=> BuiltOf(first', frozen')
  /\ BuiltOf(agent, pause_receipt)' <=> BuiltOf(agent', pause_receipt')
  /\ BuiltOf(first, pause_receipt)' <=> BuiltOf(first', pause_receipt')
<1>1. AgentOK(agent)' <=> AgentOK(agent')
  BY DEF AgentOK, Compose!Deferred
<1>2. FrozenOK(frozen)' <=> FrozenOK(frozen')
  BY DEF FrozenOK, Compose!Authorizes
<1>3. FrozenOK(pause_receipt)' <=> FrozenOK(pause_receipt')
  BY DEF FrozenOK, Compose!Authorizes
<1>4. BuiltOf(agent, frozen)' <=> BuiltOf(agent', frozen')
  BY DEF BuiltOf, Compose!Authorizes, Compose!Generalist
<1>5. BuiltOf(first, frozen)' <=> BuiltOf(first', frozen')
  BY DEF BuiltOf, Compose!Authorizes, Compose!Generalist
<1>6. BuiltOf(agent, pause_receipt)' <=> BuiltOf(agent', pause_receipt')
  BY DEF BuiltOf, Compose!Authorizes, Compose!Generalist
<1>7. BuiltOf(first, pause_receipt)' <=> BuiltOf(first', pause_receipt')
  BY DEF BuiltOf, Compose!Authorizes, Compose!Generalist
<1>8. QED
  BY <1>1, <1>2, <1>3, <1>4, <1>5, <1>6, <1>7

LEMMA ComposeInit == ASSUME Compose!CompositionAssumption, Compose!Init PROVE ComposeInv
<1>1. /\ composing = "idle" /\ purpose = "check" /\ asked = Gone /\ refs = <<>> /\ authorized = Gone /\ frozen = Gone
      /\ agent = Gone /\ pause_receipt = Gone /\ first = Gone /\ edits = 0
      /\ profile \in Document \cup {Gone} /\ settings \in Host
  BY DEF Compose!Init
<1>2. installed \in [Plugin -> Release \cup {Gone}]
  BY DEF Compose!Init
<1>3. edits \in 0 .. MaxEdits
  <2>1. MaxEdits \in Nat
    BY Zenon DEF Compose!CompositionAssumption
  <2>2. QED
    BY <1>1, <2>1
<1>4. refs \in Seq(Compose!Ref)
  BY <1>1
<1>5. QED
  BY <1>1, <1>2, <1>3, <1>4 DEF ComposeInv, ComposeTypes, WayOK, ComposedOK

\* The world changes, a run or a command stands.
LEMMA WorldKeeps ==
  ASSUME Compose!CompositionAssumption, ComposeInv, Compose!EditProfile \/ Compose!Install \/ Compose!Restart
  PROVE  ComposeInv'
<1>1. /\ UNCHANGED <<composing, purpose, asked, refs, authorized, frozen, agent, pause_receipt, first>>
      /\ edits < MaxEdits /\ edits' = edits + 1
  BY DEF Compose!EditProfile, Compose!Install, Compose!Restart, Compose!Changes
<1>2. /\ profile' \in Document \cup {Gone} /\ settings' \in Host /\ (settings' = settings \/ composing \in {"idle", "paused"})
      /\ installed' \in [Plugin -> Release \cup {Gone}]
  BY DEF Compose!EditProfile, Compose!Install, Compose!Restart, ComposeInv, ComposeTypes
<1>3. ComposeTypes'
  <2>1. edits' \in 0 .. MaxEdits
    <3>1. MaxEdits \in Nat /\ edits \in 0 .. MaxEdits
      BY Zenon DEF Compose!CompositionAssumption, ComposeInv, ComposeTypes
    <3>2. QED
      BY <1>1, <3>1
  <2>2. QED
    BY <1>1, <1>2, <2>1, SetsStand DEF ComposeInv, ComposeTypes
<1>4. WayOK'
  <2>1. Compose!Admitted(asked)' <=> Compose!Admitted(asked)
    BY <1>1 DEF Compose!Admitted, Compose!Distinct
  <2>2. /\ FrozenOK([plugins |-> refs, generalist |-> authorized])' <=> FrozenOK([plugins |-> refs, generalist |-> authorized])
        /\ FrozenOK(frozen)' <=> FrozenOK(frozen)
    BY <1>1 DEF FrozenOK, Compose!Authorizes
  <2>3. composing \notin {"idle", "paused"} => Compose!Effective(asked.generalist)' = Compose!Effective(asked.generalist)
    BY <1>1, <1>2 DEF Compose!Effective
  <2>4. QED
    BY <1>1, <2>1, <2>2, <2>3 DEF ComposeInv, WayOK
<1>5. ComposedOK'
  BY <1>1, <1>2, SaidNext DEF ComposeInv, ComposedOK, Compose!Applied, Compose!Generalist
<1>6. QED
  BY <1>3, <1>4, <1>5 DEF ComposeInv

\* A command that is refused, or was only a check, leaves all as it was.
LEMMA RefuseKeeps ==
  ASSUME ComposeInv, NEW how \in {"refused", "raised", "idle"}, Compose!Refuse(how), UNCHANGED Compose!world,
         composing \in {"idle", "read", "resolved", "frozen"}, how = "idle" => purpose = "check"
  PROVE  ComposeInv'
<1>1. /\ composing' = how
      /\ UNCHANGED <<purpose, asked, refs, authorized, frozen, agent, pause_receipt, first, profile, installed, settings, edits>>
  BY DEF Compose!Refuse, Compose!world
<1>2. ComposeTypes'
  BY <1>1, SetsStand DEF ComposeInv, ComposeTypes
<1>3. WayOK'
  BY <1>1 DEF WayOK
<1>4. ComposedOK'
  BY <1>1, SaidNext DEF ComposeInv, WayOK, ComposedOK
<1>5. QED
  BY <1>2, <1>3, <1>4 DEF ComposeInv

LEMMA LoadKeeps ==
  ASSUME Compose!CompositionAssumption, ComposeInv, NEW why \in {"check", "run"}, Compose!LoadProfile(why) PROVE ComposeInv'
<1>1. composing = "idle" /\ UNCHANGED Compose!world
  BY DEF Compose!LoadProfile
<1>2. CASE Compose!Admitted(profile)
  <2>1. /\ composing' = "read" /\ asked' = profile /\ purpose' = why
        /\ UNCHANGED <<refs, authorized, frozen, agent, pause_receipt, first, profile, installed, settings, edits>>
    BY <1>1, <1>2 DEF Compose!LoadProfile, Compose!world
  <2>2. ComposeTypes'
    BY <2>1, SetsStand DEF ComposeInv, ComposeTypes
  <2>3. WayOK'
    BY <1>2, <2>1 DEF WayOK, Compose!Admitted, Compose!Distinct
  <2>4. ComposedOK'
    BY <2>1, SaidNext DEF ComposeInv, ComposedOK
  <2>5. QED
    BY <2>2, <2>3, <2>4 DEF ComposeInv
<1>3. CASE ~ Compose!Admitted(profile)
  BY <1>1, <1>3, RefuseKeeps DEF Compose!LoadProfile
<1>4. QED
  BY <1>2, <1>3

\* The references are one per row, with the versions that are installed.
LEMMA ResolveKeeps == ASSUME Compose!CompositionAssumption, ComposeInv, Compose!Resolve PROVE ComposeInv'
<1> DEFINE rows == asked.rows
<1> DEFINE policy == Compose!Effective(asked.generalist)
<1>1. composing = "read" /\ UNCHANGED Compose!world
  BY DEF Compose!Resolve
<1>2. CASE Compose!Refuse("refused")
  BY <1>1, <1>2, RefuseKeeps
<1>3. CASE /\ \A i \in DOMAIN rows : installed[rows[i].id] # Gone /\ (rows[i].defer => Compose!Authorizes(policy))
           /\ composing' = "resolved" /\ refs' = [i \in DOMAIN rows |-> Compose!RefOf(rows[i])] /\ authorized' = policy
           /\ UNCHANGED <<purpose, asked, frozen, agent, pause_receipt, first>>
  <2>1. UNCHANGED <<profile, installed, settings, edits>>
    BY <1>1 DEF Compose!world
  <2>2. asked \in Document /\ rows \in Seq(Compose!Row) /\ Compose!Distinct(rows)
    <3>1. Compose!Admitted(asked)
      BY <1>1 DEF ComposeInv, WayOK
    <3>2. asked \in Document
      BY <3>1 DEF Compose!Admitted, ComposeInv, ComposeTypes
    <3>3. rows \in Seq(Compose!Row)
      BY <3>2, Zenon DEF Compose!CompositionAssumption
    <3>4. QED
      BY <3>1, <3>2, <3>3 DEF Compose!Admitted
  <2>3. \A i \in DOMAIN rows : rows[i].id \in Plugin /\ rows[i].allow \in BOOLEAN /\ rows[i].defer \in BOOLEAN
    <3>1. \A row \in Compose!Row : row.id \in Plugin /\ row.allow \in BOOLEAN /\ row.defer \in BOOLEAN
      BY DEF Compose!Row
    <3>2. \A i \in DOMAIN rows : rows[i] \in Compose!Row
      BY <2>2
    <3>3. QED
      BY <3>1, <3>2
  <2>4. refs' \in Seq(Compose!Ref)
    <3>1. ASSUME NEW i \in DOMAIN rows PROVE Compose!RefOf(rows[i]) \in Compose!Ref
      <4>1. installed[rows[i].id] \in Release
        BY <1>3, <2>3 DEF ComposeInv, ComposeTypes
      <4>2. installed[rows[i].id].version \in Nat /\ installed[rows[i].id].entry \in STRING
        BY <4>1, Zenon DEF Compose!CompositionAssumption
      <4>3. QED
        BY <2>3, <4>2 DEF Compose!RefOf, Compose!Ref
    <3>2. PICK n \in Nat : DOMAIN rows = 1 .. n
      BY <2>2
    <3>3. refs' \in [1 .. n -> Compose!Ref]
      BY <1>3, <3>1, <3>2
    <3>4. QED
      BY <3>3, LineIs
  <2>5. policy \in (SUBSET Compose!Generalist) \cup {Gone}
    <3>1. asked.generalist \in (SUBSET Compose!Generalist) \cup {Gone}
      BY <2>2, Zenon DEF Compose!CompositionAssumption
    <3>2. QED
      BY <3>1 DEF Compose!Effective
  <2>6. ComposeTypes'
    BY <1>3, <2>1, <2>4, <2>5, SetsStand DEF ComposeInv, ComposeTypes
  <2>7. WayOK'
    <3>1. purpose' \in {"check", "run"} /\ Compose!Admitted(asked)'
      BY <1>1, <1>3 DEF ComposeInv, WayOK, Compose!Admitted, Compose!Distinct
    <3>2. authorized' = Compose!Effective(asked.generalist)'
      BY <1>3, <2>1 DEF Compose!Effective
    <3>3. DOMAIN refs' = DOMAIN rows /\ \A i \in DOMAIN rows : refs'[i].id = rows[i].id /\ refs'[i].defer = rows[i].defer
      BY <1>3 DEF Compose!RefOf
    <3>4. \A i, j \in DOMAIN rows : rows[i].id = rows[j].id => i = j
      BY <2>2, DistinctIs
    <3>5. FrozenOK([plugins |-> refs, generalist |-> authorized])'
      BY <1>3, <3>3, <3>4 DEF FrozenOK, Compose!Authorizes
    <3>6. QED
      BY <1>3, <3>1, <3>2, <3>5 DEF WayOK
  <2>8. ComposedOK'
    BY <1>1, <1>3, <2>1, SaidNext DEF ComposeInv, WayOK, ComposedOK
  <2>9. QED
    BY <2>6, <2>7, <2>8 DEF ComposeInv
<1>4. QED
  BY <1>2, <1>3 DEF Compose!Resolve

LEMMA FreezeKeeps == ASSUME Compose!CompositionAssumption, ComposeInv, Compose!Freeze PROVE ComposeInv'
<1> DEFINE fault == Compose!Fault(refs, authorized)
<1>1. composing = "resolved" /\ purpose = "run" /\ UNCHANGED Compose!world
  BY DEF Compose!Freeze
<1>2. CASE fault # "none"
  <2>1. fault \in {"refused", "raised"} /\ Compose!Refuse(fault)
    BY <1>2, FaultIs DEF Compose!Freeze
  <2>2. QED
    BY <1>1, <2>1, RefuseKeeps
<1>3. CASE fault = "none"
  <2>1. /\ composing' = "frozen" /\ frozen' = [plugins |-> refs, generalist |-> authorized]
        /\ UNCHANGED <<purpose, asked, refs, authorized, agent, pause_receipt, first, profile, installed, settings, edits>>
    BY <1>3 DEF Compose!Freeze, Compose!world
  <2>2. frozen' \in Compose!Snapshot /\ frozen'.generalist = authorized /\ frozen' # Gone
    <3>1. frozen' \in Compose!Snapshot
      BY <2>1 DEF ComposeInv, ComposeTypes, Compose!Snapshot
    <3>2. Gone \notin Compose!Snapshot
      BY Zenon DEF Compose!CompositionAssumption
    <3>3. QED
      BY <2>1, <3>1, <3>2
  <2>3. ComposeTypes'
    BY <2>1, <2>2, SetsStand DEF ComposeInv, ComposeTypes
  <2>4. WayOK'
    <3>1. FrozenOK(frozen')
      BY <1>1, <2>1 DEF ComposeInv, WayOK
    <3>2. Compose!Effective(asked.generalist)' = authorized
      BY <1>1, <2>1 DEF ComposeInv, WayOK, Compose!Effective
    <3>3. QED
      BY <1>1, <2>1, <2>2, <3>1, <3>2, SaidNext DEF WayOK
  <2>5. ComposedOK'
    BY <1>1, <2>1, SaidNext DEF ComposeInv, ComposedOK
  <2>6. QED
    BY <2>3, <2>4, <2>5 DEF ComposeInv
<1>4. QED
  BY <1>2, <1>3

LEMMA OnlyCheckKeeps == ASSUME ComposeInv, Compose!Check PROVE ComposeInv'
<1> DEFINE fault == Compose!Fault(refs, authorized)
<1>1. composing = "resolved" /\ purpose = "check" /\ UNCHANGED Compose!world
  BY DEF Compose!Check
<1>2. PICK how \in {"refused", "raised", "idle"} : Compose!Refuse(how)
  <2>1. fault \in {"none", "refused", "raised"} /\ Compose!Refuse(IF fault = "none" THEN "idle" ELSE fault)
    BY FaultIs DEF Compose!Check
  <2>2. QED
    BY <2>1
<1>3. QED
  BY <1>1, <1>2, RefuseKeeps

LEMMA BuildKeeps == ASSUME Compose!CompositionAssumption, ComposeInv, Compose!Build PROVE ComposeInv'
<1> DEFINE fault == Compose!Fault(frozen.plugins, frozen.generalist)
<1> DEFINE built == Compose!Built(frozen.plugins, frozen.generalist)
<1>1. composing = "frozen" /\ UNCHANGED Compose!world
  BY DEF Compose!Build
<1>2. CASE fault # "none"
  <2>1. fault \in {"refused", "raised"} /\ Compose!Refuse(fault)
    BY <1>2, FaultIs DEF Compose!Build
  <2>2. purpose # "check"
    BY <1>1 DEF ComposeInv, WayOK
  <2>3. QED
    BY <1>1, <2>1, <2>2, RefuseKeeps
<1>3. CASE fault = "none"
  <2>1. /\ composing' = "running" /\ agent' = built /\ first' = IF purpose = "resume" THEN first ELSE built
        /\ UNCHANGED <<purpose, asked, refs, authorized, frozen, pause_receipt, profile, installed, settings, edits>>
    BY <1>3 DEF Compose!Build, Compose!Runs, Compose!world
  <2>2. purpose \in {"run", "resume"} /\ frozen # Gone /\ FrozenOK(frozen) /\ frozen \in Compose!Snapshot
    BY <1>1 DEF ComposeInv, ComposeTypes, WayOK
  <2>3. built \in Compose!Agent /\ BuiltOf(built, frozen) /\ AgentOK(built) /\ built.flags = Compose!Applied(frozen.generalist)
    BY <1>3, <2>2, BuiltIs DEF ComposeInv
  <2>4. built # Gone
    <3>1. Gone \notin Compose!Agent
      BY Zenon DEF Compose!CompositionAssumption
    <3>2. QED
      BY <2>3, <3>1
  <2>5. ComposeTypes'
    BY <2>1, <2>3, SetsStand DEF ComposeInv, ComposeTypes
  <2>6. WayOK'
    BY <1>1, <2>1 DEF ComposeInv, WayOK, Compose!Effective
  <2>7. Compose!Applied(frozen.generalist)' = Compose!Applied(frozen.generalist)
    BY <2>1 DEF Compose!Applied, Compose!Generalist
  <2>8. ComposedOK'
    <3>1. CASE purpose = "resume"
      <4>1. frozen = pause_receipt /\ first # Gone /\ BuiltOf(first, pause_receipt)
        BY <1>1, <2>2, <3>1 DEF ComposeInv, ComposedOK
      <4>2. QED
        BY <2>1, <2>2, <2>3, <2>4, <3>1, <4>1, SaidNext DEF ComposedOK
    <3>2. CASE purpose = "run"
      BY <2>1, <2>2, <2>3, <2>4, <2>7, <3>2, SaidNext DEF ComposedOK
    <3>3. QED
      BY <2>2, <3>1, <3>2
  <2>9. QED
    BY <2>5, <2>6, <2>8 DEF ComposeInv
<1>4. QED
  BY <1>2, <1>3

LEMMA CoreKeeps == ASSUME Compose!CompositionAssumption, ComposeInv, Compose!StartCore PROVE ComposeInv'
<1> DEFINE core == Compose!Built(<<>>, Gone)
<1>1. /\ composing = "idle" /\ purpose' = "run" /\ frozen' = Gone /\ composing' = "running" /\ agent' = core /\ first' = core
      /\ UNCHANGED <<asked, refs, authorized, pause_receipt, profile, installed, settings, edits>>
  BY DEF Compose!StartCore, Compose!Runs, Compose!world
<1>2. core \in Compose!Agent /\ AgentOK(core) /\ core # Gone
  <2>1. core \in Compose!Agent /\ AgentOK(core)
    BY CoreIs DEF ComposeInv
  <2>2. Gone \notin Compose!Agent
    BY Zenon DEF Compose!CompositionAssumption
  <2>3. QED
    BY <2>1, <2>2
<1>3. ComposeTypes'
  BY <1>1, <1>2, SetsStand DEF ComposeInv, ComposeTypes
<1>4. WayOK'
  BY <1>1 DEF WayOK
<1>5. ComposedOK'
  BY <1>1, <1>2, SaidNext DEF ComposedOK
<1>6. QED
  BY <1>3, <1>4, <1>5 DEF ComposeInv

LEMMA PauseKeeps == ASSUME ComposeInv, Compose!Pause \/ Compose!Finish PROVE ComposeInv'
<1>1. /\ composing = "running" /\ composing' \in {"paused", "finished"}
      /\ pause_receipt' = frozen \/ (composing' = "finished" /\ pause_receipt' = pause_receipt)
      /\ UNCHANGED <<purpose, asked, refs, authorized, frozen, agent, first, profile, installed, settings, edits>>
  BY DEF Compose!Pause, Compose!Finish, Compose!world
<1>2. ComposeTypes'
  BY <1>1, SetsStand DEF ComposeInv, ComposeTypes
<1>3. WayOK'
  BY <1>1 DEF WayOK
<1>4. ComposedOK'
  BY <1>1, SaidNext DEF ComposeInv, ComposedOK
<1>5. QED
  BY <1>2, <1>3, <1>4 DEF ComposeInv

LEMMA ResumeKeeps == ASSUME Compose!CompositionAssumption, ComposeInv, Compose!Resume PROVE ComposeInv'
<1> DEFINE core == Compose!Built(<<>>, Gone)
<1>1. /\ composing = "paused" /\ purpose' = "resume" /\ frozen' = pause_receipt /\ first' = first
      /\ IF pause_receipt = Gone THEN composing' = "running" /\ agent' = core ELSE composing' = "frozen" /\ agent' = agent
      /\ UNCHANGED <<asked, refs, authorized, pause_receipt, profile, installed, settings, edits>>
  BY DEF Compose!Resume, Compose!Runs, Compose!world
<1>2. core \in Compose!Agent /\ AgentOK(core) /\ core # Gone
  <2>1. core \in Compose!Agent /\ AgentOK(core)
    BY CoreIs DEF ComposeInv
  <2>2. Gone \notin Compose!Agent
    BY Zenon DEF Compose!CompositionAssumption
  <2>3. QED
    BY <2>1, <2>2
<1>3. ComposeTypes'
  BY <1>1, <1>2, SetsStand DEF ComposeInv, ComposeTypes
<1>4. WayOK'
  BY <1>1, SaidNext DEF ComposeInv, ComposedOK, WayOK
<1>5. ComposedOK'
  BY <1>1, <1>2, SaidNext DEF ComposeInv, ComposedOK
<1>6. QED
  BY <1>3, <1>4, <1>5 DEF ComposeInv

LEMMA TryKeeps == ASSUME ComposeInv, Compose!TryAgain PROVE ComposeInv'
<1>1. /\ composing \in {"refused", "raised"} /\ composing' = IF purpose = "resume" THEN "paused" ELSE "idle"
      /\ UNCHANGED <<purpose, asked, refs, authorized, frozen, agent, pause_receipt, first, profile, installed, settings, edits>>
  BY DEF Compose!TryAgain, Compose!world
<1>2. ComposeTypes'
  BY <1>1, SetsStand DEF ComposeInv, ComposeTypes
<1>3. WayOK'
  BY <1>1 DEF WayOK
<1>4. ComposedOK'
  BY <1>1, SaidNext DEF ComposeInv, ComposedOK
<1>5. QED
  BY <1>2, <1>3, <1>4 DEF ComposeInv

LEMMA ComposeStep == ASSUME Compose!CompositionAssumption, ComposeInv, [Compose!Next]_Compose!vars PROVE ComposeInv'
<1>1. CASE Compose!Next
  BY <1>1, LoadKeeps, ResolveKeeps, FreezeKeeps, OnlyCheckKeeps, BuildKeeps, CoreKeeps, PauseKeeps, ResumeKeeps, TryKeeps, WorldKeeps
     DEF Compose!Next
<1>2. CASE UNCHANGED Compose!vars
  <2>1. UNCHANGED <<composing, profile, installed, settings, purpose, asked, refs, authorized, frozen, agent, pause_receipt, first, edits>>
    BY <1>2 DEF Compose!vars
  <2>2. ComposeTypes'
    BY <2>1, SetsStand DEF ComposeInv, ComposeTypes
  <2>3. WayOK'
    BY <2>1 DEF ComposeInv, WayOK, Compose!Admitted, Compose!Distinct, Compose!Effective, FrozenOK, Compose!Authorizes
  <2>4. ComposedOK'
    BY <2>1, SaidNext DEF ComposeInv, ComposedOK, Compose!Applied, Compose!Generalist
  <2>5. QED
    BY <2>2, <2>3, <2>4 DEF ComposeInv
<1>3. QED
  BY <1>1, <1>2

LEMMA FrozenIs ==
  ASSUME Compose!CompositionAssumption, ComposeInv
  PROVE  Compose!TypeOK /\ Compose!HiddenIsFindable /\ Compose!FrozenStands /\ Compose!NothingUnasked
<1>1. Compose!TypeOK
  BY DEF ComposeInv, ComposeTypes, Compose!TypeOK
<1>2. Compose!Composed => agent # Gone /\ AgentOK(agent)
  BY DEF ComposeInv, ComposedOK, Compose!Composed
<1>3. Compose!HiddenIsFindable
  BY <1>2 DEF AgentOK, Compose!HiddenIsFindable
<1>4. Compose!FrozenStands
  <2>1. SUFFICES ASSUME purpose = "resume", pause_receipt # Gone
                 PROVE  /\ agent.plugins = first.plugins
                        /\ \A i \in DOMAIN agent.plugins :
                             /\ agent.releases[i].version = first.releases[i].version
                             /\ agent.releases[i].entry = first.releases[i].entry
                        /\ pause_receipt.generalist # Gone =>
                             agent.flags \cap Compose!Generalist = first.flags \cap Compose!Generalist
    BY DEF Compose!FrozenStands
  <2>2. BuiltOf(agent, pause_receipt) /\ BuiltOf(first, pause_receipt)
    BY <2>1 DEF ComposeInv, ComposedOK
  <2>3. QED
    BY <2>2 DEF BuiltOf
<1>5. Compose!NothingUnasked
  <2>1. ASSUME composing = "running", frozen # Gone, purpose = "run"
        PROVE  /\ agent.flags \subseteq settings
               /\ asked.generalist # Gone => agent.flags \cap Compose!Generalist \subseteq asked.generalist
    <3>1. agent.flags = Compose!Applied(Compose!Effective(asked.generalist))
      BY <2>1 DEF ComposeInv, WayOK, ComposedOK
    <3>2. CASE asked.generalist = Gone
      BY <3>1, <3>2 DEF Compose!Effective, Compose!Applied
    <3>3. CASE asked.generalist # Gone
      <4>1. Compose!Effective(asked.generalist) = asked.generalist \cap settings
        BY <3>3 DEF Compose!Effective
      <4>2. asked.generalist \cap settings # Gone
        <5>1. settings \in Host
          BY DEF ComposeInv, ComposeTypes
        <5>2. Host \subseteq SUBSET Compose!Flag /\ \A flags \in SUBSET Compose!Flag : flags # Gone
          BY Zenon DEF Compose!CompositionAssumption
        <5>3. asked.generalist \cap settings \in SUBSET Compose!Flag
          BY <5>1, <5>2
        <5>4. QED
          BY <5>2, <5>3
      <4>3. agent.flags = (settings \ Compose!Generalist) \cup (asked.generalist \cap settings)
        BY <3>1, <4>1, <4>2 DEF Compose!Applied
      <4>4. QED
        BY <4>3
    <3>4. QED
      BY <3>2, <3>3
  <2>2. QED
    BY <1>2, <2>1 DEF AgentOK, Compose!NothingUnasked
<1>6. QED
  BY <1>1, <1>3, <1>4, <1>5

\* What passed once passes again as long as it is what it was.
LEMMA CauseIs ==
  ASSUME Compose!CompositionAssumption, ComposeInv, [Compose!Next]_Compose!vars,
         composing' \in {"refused", "raised"}, purpose' = "resume", composing = "frozen"
  PROVE  \E i \in DOMAIN first.plugins : installed[first.plugins[i].id] # first.releases[i]
<1>1. Compose!Build
  BY DEF Compose!Next, Compose!vars, Compose!LoadProfile, Compose!Resolve, Compose!Freeze, Compose!Check, Compose!StartCore,
         Compose!Pause, Compose!Finish, Compose!Resume, Compose!TryAgain, Compose!EditProfile, Compose!Install, Compose!Restart,
         Compose!Changes
<1>2. Compose!Fault(frozen.plugins, frozen.generalist) # "none" /\ purpose = "resume"
  BY <1>1 DEF Compose!Build, Compose!Runs, Compose!Refuse
<1>3. PICK i \in DOMAIN frozen.plugins : ~ Passes(frozen.plugins[i], frozen.generalist)
  BY <1>2, FaultIs
<1>4. BuiltOf(first, frozen)
  BY <1>2 DEF ComposeInv, WayOK, ComposedOK
<1>5. /\ first.plugins = frozen.plugins /\ first.releases[i] \in Release
      /\ first.releases[i].version = frozen.plugins[i].version /\ first.releases[i].entry = frozen.plugins[i].entry
      /\ first.releases[i].makes = "bundle" /\ first.releases[i].skills # "missing"
      /\ first.releases[i].capability => frozen.plugins[i].allow
      /\ first.releases[i].marked => Compose!Authorizes(frozen.generalist)
  BY <1>4 DEF BuiltOf
<1>6. first.releases[i] # Gone
  <2>1. Gone \notin Document \cup Release
    BY Zenon DEF Compose!CompositionAssumption
  <2>2. QED
    BY <1>5, <2>1
<1>7. installed[frozen.plugins[i].id] # first.releases[i]
  <2>1. SUFFICES ASSUME installed[frozen.plugins[i].id] = first.releases[i] PROVE Passes(frozen.plugins[i], frozen.generalist)
    BY <1>3
  <2>2. QED
    BY <1>5, <1>6, <2>1 DEF Passes, Compose!Drifted, Compose!Unimportable, Compose!Unmade, Compose!Ungranted, Compose!Untaught,
       Compose!Unfindable
<1>8. QED
  BY <1>5, <1>7

\* No agent hides tools without a search for them, and a continuation has the
\* plugins, versions and policy that were frozen (composition.py,
\* continuation.py), whatever became of profile, plugins and host.
THEOREM ContinuationsAreAsFrozen ==
  ASSUME Compose!CompositionAssumption
  PROVE  Compose!Spec => [](Compose!TypeOK /\ Compose!HiddenIsFindable /\ Compose!FrozenStands)
<1>1. Compose!Init => ComposeInv
  BY ComposeInit
<1>2. ComposeInv /\ [Compose!Next]_Compose!vars => ComposeInv'
  BY ComposeStep
<1>3. ComposeInv => Compose!TypeOK /\ Compose!HiddenIsFindable /\ Compose!FrozenStands
  BY FrozenIs
<1>4. QED
  BY <1>1, <1>2, <1>3, PTL DEF Compose!Spec

\* What a run may do was allowed by the host it began under, asked for by its
\* profile, and granted plugin by plugin (_effective_generalist, build_agent).
THEOREM OnlyWhatWasAsked == ASSUME Compose!CompositionAssumption PROVE Compose!Spec => []Compose!NothingUnasked
<1>1. Compose!Init => ComposeInv
  BY ComposeInit
<1>2. ComposeInv /\ [Compose!Next]_Compose!vars => ComposeInv'
  BY ComposeStep
<1>3. ComposeInv => Compose!NothingUnasked
  BY FrozenIs
<1>4. QED
  BY <1>1, <1>2, <1>3, PTL DEF Compose!Spec

\* A continuation is refused only when a plugin is no longer what it was
\* (_resolve_bundles, composition.py).
THEOREM RefusalsHaveCause == ASSUME Compose!CompositionAssumption PROVE Compose!Spec => Compose!RefusedForCause
<1> DEFINE Caused == composing' \in {"refused", "raised"} /\ purpose' = "resume" /\ composing = "frozen"
                       => \E i \in DOMAIN first.plugins : installed[first.plugins[i].id] # first.releases[i]
<1>1. Compose!Init => ComposeInv
  BY ComposeInit
<1>2. ComposeInv /\ [Compose!Next]_Compose!vars => ComposeInv'
  BY ComposeStep
<1>3. ComposeInv /\ [Compose!Next]_Compose!vars => [Caused]_Compose!vars
  BY CauseIs
<1>4. Compose!Spec => [][Caused]_Compose!vars
  BY <1>1, <1>2, <1>3, PTL DEF Compose!Spec
<1>5. QED
  BY <1>4 DEF Compose!RefusedForCause
=============================================================================
