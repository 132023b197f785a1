-------------------------- MODULE MarketProofs --------------------------
(***************************************************************************)
(* The gate between the candidate pool and a live trigger, for any number  *)
(* of symbols, builds, proofs, scans and crashes.  A verdict that passes   *)
(* is of the very pool it is asked for, and what a validator has found     *)
(* sound stays so; a builder fills the snapshot before it opens the        *)
(* handoff, and only a later build touches either.  Then the history cache *)
(* for any number of callers and builders: what is handed out is of one    *)
(* series, and one of many callers that miss together asks the provider.   *)
(* Then what an answer may say of today, for any writers, days, faults,    *)
(* and whose evaluation a strategy gets, and of which symbols.  Last the   *)
(* replay of a strategy: the accounts of its intents, positions and cash.  *)
(***************************************************************************)
EXTENDS CandidatePool, Sequences, SequenceTheorems, FiniteSetTheorems, WellFoundedInduction, TLAPS

\* What passes is proved: the proof on file, and the one a scan goes by.
PassOK ==
  /\ proof \notin {Absent, Torn} /\ proof.status = "PASS" => proof.pool \in proved
  /\ scanner.pc = "quotes" /\ scanner.status = "PASS" => scanner.pool \in proved

Assembled == {"open snapshot", "fill snapshot", "open handoff", "fill handoff"}
Handing == {"open handoff", "fill handoff"}

\* The builds in order: what it has assembled is the current build, whose
\* snapshot is written when it comes to the handoff, and whose number no
\* handoff has before.
BuildOK ==
  /\ handoff \in Pool => handoff.gen <= builds
  /\ builder.pc \in Assembled => builder.pool.gen = builds
  /\ builder.pc \in Handing => snapshot = builder.pool
  /\ builder.pc \notin {"idle"} \cup Handing /\ handoff \in Pool => handoff.gen < builds

IInv == TypeOK /\ PassOK /\ BuildOK /\ TriggerIsProven /\ HandoffAudited
-----------------------------------------------------------------------------
LEMMA Files ==
  ASSUME PoolAssumption
  PROVE  /\ Absent \notin Pool /\ Torn \notin Pool /\ Absent # Torn
         /\ NoPool \in Pool /\ NoPool.symbols = {}
         /\ MaxBuilds \in Nat /\ Legacy \subseteq Symbol
<1>1. \A x \in Pool : x \in [gen : Nat, symbols : SUBSET Symbol]
  BY DEF Pool
<1>2. MaxBuilds \in Nat
  BY DEF PoolAssumption
<1> QED
  BY <1>1, <1>2 DEF PoolAssumption, Pool, NoPool

LEMMA Types ==
  ASSUME PoolAssumption, TypeOK
  PROVE  /\ MaxBuilds \in Nat /\ builds \in Nat /\ MaxProofs \in Nat /\ proofs \in Nat
         /\ MaxCrashes \in Nat /\ crashes \in Nat
         /\ builds <= MaxBuilds /\ proofs <= MaxProofs /\ crashes <= MaxCrashes
         /\ \A p \in Pool : p.gen \in Nat /\ p.symbols \subseteq Symbol
         /\ builder.pool \in Pool /\ validator.pool \in Pool /\ scanner.pool \in Pool
         /\ builder.pc \in {"idle", "fetch"} \cup Assembled
         /\ builder = [pc |-> builder.pc, pool |-> builder.pool]
<1>1. {MaxBuilds, MaxProofs, MaxCrashes} \subseteq Nat
  BY DEF PoolAssumption
<1>2. builds \in 0 .. MaxBuilds /\ proofs \in 0 .. MaxProofs /\ crashes \in 0 .. MaxCrashes
  BY DEF TypeOK
<1>3. \A p \in Pool : p.gen \in Nat /\ p.symbols \subseteq Symbol
  BY <1>1 DEF Pool
<1>4. /\ builder.pool \in Pool /\ validator.pool \in Pool /\ scanner.pool \in Pool
      /\ builder.pc \in {"idle", "fetch"} \cup Assembled
      /\ builder = [pc |-> builder.pc, pool |-> builder.pool]
  BY DEF TypeOK, Assembled
<1> QED
  BY <1>1, <1>2, <1>3, <1>4

LEMMA InitIInv == ASSUME PoolAssumption, Init PROVE IInv
<1>1. TypeOK
  BY Files DEF Init, TypeOK, Idle, NoScan, Status, PoolAssumption
<1>2. PassOK
  BY DEF Init, PassOK, NoScan
<1>3. BuildOK /\ TriggerIsProven /\ HandoffAudited
  BY Files DEF Init, BuildOK, TriggerIsProven, HandoffAudited, Idle, Assembled, Handing
<1> QED
  BY <1>1, <1>2, <1>3 DEF IInv

\* The types a step of the builder leaves alone.
LEMMA BuilderTypes ==
  ASSUME TypeOK, UNCHANGED <<proof, validator, scanner, scans, proved, proofs>>,
         builder' \in [pc : {"idle", "fetch"} \cup Assembled, pool : Pool],
         builds' \in 0 .. MaxBuilds, crashes' \in 0 .. MaxCrashes,
         snapshot' \in {Absent, Torn} \cup Pool, handoff' \in {Absent, Torn} \cup Pool
  PROVE  TypeOK'
BY DEF TypeOK, Assembled

\* The part of the invariant that a step of the builder cannot touch.
LEMMA BuilderKeeps ==
  ASSUME PassOK, TriggerIsProven, UNCHANGED <<proof, validator, scanner, scans, proved, proofs>>
  PROVE  PassOK' /\ TriggerIsProven'
BY DEF PassOK, TriggerIsProven

LEMMA MembershipStep == ASSUME PoolAssumption, IInv, Membership PROVE IInv'
<1>1. /\ builder' = [pc |-> "fetch", pool |-> NoPool] /\ builds' = builds + 1 /\ builds + 1 \in 0 .. MaxBuilds
      /\ UNCHANGED <<snapshot, handoff, proof, validator, scanner, scans, proved, proofs, crashes>>
  BY Types DEF Membership, IInv
<1>2. TypeOK'
  BY <1>1, Files, BuilderTypes DEF IInv, TypeOK
<1>3. BuildOK'
  <2>1. handoff \in Pool => handoff.gen \in Nat /\ handoff.gen < builds + 1
    BY Types DEF IInv, BuildOK
  <2> QED
    <3>1. builds \in Nat /\ builds' = builds + 1 /\ builder'.pc = "fetch" /\ handoff' = handoff
      BY <1>1, Types DEF IInv
    <3> QED
      BY <2>1, <3>1 DEF BuildOK, Assembled, Handing
<1>4. HandoffAudited'
  BY <1>1 DEF IInv, HandoffAudited
<1> QED
  BY <1>1, <1>2, <1>3, <1>4, BuilderKeeps DEF IInv

LEMMA AssembleStep == ASSUME PoolAssumption, IInv, Assemble PROVE IInv'
<1>1. PICK pool \in SUBSET Symbol :
        builder' = [pc |-> "open snapshot", pool |-> [gen |-> builds, symbols |-> pool]]
  BY DEF Assemble, Quoted
<1>2. /\ builder.pc = "fetch"
      /\ UNCHANGED <<snapshot, handoff, proof, validator, scanner, scans, proved, builds, proofs, crashes>>
  BY DEF Assemble
<1>3. TypeOK'
  <2>1. [gen |-> builds, symbols |-> pool] \in Pool
    BY DEF IInv, TypeOK, Pool
  <2> QED
    BY <1>1, <1>2, <2>1, BuilderTypes DEF IInv, TypeOK, Assembled
<1>4. BuildOK' /\ HandoffAudited'
  BY <1>1, <1>2 DEF IInv, BuildOK, HandoffAudited, Assembled, Handing
<1> QED
  BY <1>2, <1>3, <1>4, BuilderKeeps DEF IInv

\* The snapshot: opened, then filled with the pool of this build.
LEMMA SnapshotStep == ASSUME PoolAssumption, IInv, OpenSnapshot \/ FillSnapshot PROVE IInv'
<1>1. /\ UNCHANGED <<handoff, proof, validator, scanner, scans, proved, builds, proofs, crashes>>
      /\ builder.pc \in {"open snapshot", "fill snapshot"} /\ builder'.pool = builder.pool
      /\ builder' \in [pc : {"fill snapshot", "open handoff"}, pool : Pool]
      /\ \/ builder'.pc = "fill snapshot" /\ snapshot' = Torn
         \/ builder'.pc = "open handoff" /\ snapshot' = builder.pool
  BY DEF OpenSnapshot, FillSnapshot, At, IInv, TypeOK
<1>2. builder.pool \in Pool /\ builder.pool.gen = builds /\ builds \in Nat
  BY <1>1, Types DEF IInv, BuildOK, Assembled
<1>3. TypeOK'
  <2>1. builder' \in [pc : {"idle", "fetch"} \cup Assembled, pool : Pool]
    BY <1>1 DEF Assembled
  <2>2. /\ snapshot' \in {Absent, Torn} \cup Pool /\ handoff' \in {Absent, Torn} \cup Pool
        /\ builds' \in 0 .. MaxBuilds /\ crashes' \in 0 .. MaxCrashes
    BY <1>1, <1>2 DEF IInv, TypeOK
  <2> QED
    BY <1>1, <2>1, <2>2, BuilderTypes DEF IInv
<1>4. handoff \in Pool => handoff.gen \in Nat /\ handoff.gen < builds
  BY <1>1, Types DEF IInv, BuildOK, Handing
<1>5. BuildOK'
  BY <1>1, <1>2, <1>4 DEF IInv, BuildOK, Assembled, Handing
<1>6. HandoffAudited'
  <2>1. handoff' = handoff /\ snapshot' # Absent
    BY <1>1, <1>2, Files
  <2>2. CASE snapshot' = Torn
    BY <2>1, <2>2, Files DEF HandoffAudited
  <2>3. CASE snapshot' = builder.pool
    <3>1. handoff \in Pool => snapshot'.gen >= handoff.gen /\ snapshot'.gen # handoff.gen
      BY <1>2, <1>4, <2>3
    <3> QED
      BY <2>1, <3>1 DEF HandoffAudited
  <2> QED
    BY <1>1, <2>2, <2>3
<1> QED
  BY <1>1, <1>3, <1>5, <1>6, BuilderKeeps DEF IInv

\* The handoff: taken away or opened, then filled with what the snapshot holds.
LEMMA HandoffStep == ASSUME PoolAssumption, IInv, OpenHandoff \/ FillHandoff PROVE IInv'
<1>1. /\ UNCHANGED <<snapshot, proof, validator, scanner, scans, proved, builds, proofs, crashes>>
      /\ builder.pc \in Handing /\ snapshot = builder.pool /\ builder.pool \in Pool /\ builder.pool.gen = builds
  BY DEF OpenHandoff, FillHandoff, IInv, BuildOK, TypeOK, Assembled, Handing
<1>2. /\ builder' = Idle \/ builder' = [builder EXCEPT !.pc = "fill handoff"]
      /\ handoff' \in {Absent, Torn} \/ (handoff' = builder.pool /\ builder' = Idle)
  BY DEF OpenHandoff, FillHandoff
<1>3. builder' \in [pc : {"idle", "fill handoff"}, pool : Pool]
      /\ (builder'.pc = "fill handoff" => builder'.pool = builder.pool)
  <2>1. CASE builder' = Idle
    BY <2>1, Files DEF Idle
  <2>2. CASE builder' = [builder EXCEPT !.pc = "fill handoff"]
    BY <1>1, <2>2, Types DEF IInv
  <2> QED
    BY <1>2, <2>1, <2>2
<1>4. TypeOK'
  <2>1. builder' \in [pc : {"idle", "fetch"} \cup Assembled, pool : Pool]
    BY <1>3 DEF Assembled
  <2>2. /\ snapshot' \in {Absent, Torn} \cup Pool /\ handoff' \in {Absent, Torn} \cup Pool
        /\ builds' \in 0 .. MaxBuilds /\ crashes' \in 0 .. MaxCrashes
    BY <1>1, <1>2 DEF IInv, TypeOK
  <2> QED
    BY <1>1, <2>1, <2>2, BuilderTypes DEF IInv
<1>5. BuildOK'
  <2>1. handoff' \in Pool => handoff'.gen <= builds
    <3>1. builds \in Nat
      BY Types DEF IInv
    <3>2. CASE handoff' = builder.pool
      BY <1>1, <3>1, <3>2
    <3>3. CASE handoff' \in {Absent, Torn}
      BY <3>3, Files
    <3> QED
      BY <1>2, <3>2, <3>3
  <2> QED
    BY <1>1, <1>3, <2>1 DEF BuildOK, Assembled, Handing
<1>6. HandoffAudited'
  <2>1. builds \in Nat /\ snapshot' = snapshot /\ snapshot # Absent
    BY <1>1, Files, Types DEF IInv
  <2>2. CASE handoff' = builder.pool
    <3>1. snapshot' = handoff' /\ handoff'.gen = builds
      BY <1>1, <2>2
    <3> QED
      BY <2>1, <3>1 DEF HandoffAudited
  <2>3. CASE handoff' \in {Absent, Torn}
    BY <2>3, Files DEF HandoffAudited
  <2> QED
    BY <1>2, <2>2, <2>3
<1> QED
  BY <1>1, <1>4, <1>5, <1>6, BuilderKeeps DEF IInv

LEMMA DiesStep == ASSUME PoolAssumption, IInv, BuilderDies PROVE IInv'
<1>1. /\ builder' = Idle /\ crashes' = crashes + 1 /\ crashes + 1 \in 0 .. MaxCrashes
      /\ UNCHANGED <<snapshot, handoff, proof, validator, scanner, scans, proved, builds, proofs>>
  BY Types DEF BuilderDies, IInv
<1>2. TypeOK'
  BY <1>1, Files, BuilderTypes DEF IInv, TypeOK, Idle
<1>3. BuildOK' /\ HandoffAudited'
  BY <1>1 DEF IInv, BuildOK, HandoffAudited, Idle, Assembled, Handing
<1> QED
  BY <1>1, <1>2, <1>3, BuilderKeeps DEF IInv
-----------------------------------------------------------------------------
LEMMA ListedIsPool == ASSUME PoolAssumption, TypeOK PROVE Listed \in Pool
BY Files DEF Listed, TypeOK

LEMMA ProofStep == ASSUME PoolAssumption, IInv, StartProof \/ Validate \/ WriteProof PROVE IInv'
<1>1. UNCHANGED <<builder, snapshot, handoff, scanner, scans, builds, crashes>>
  BY DEF StartProof, Validate, WriteProof
<1>2. /\ validator' \in [pc : {"idle", "validate", "fill"}, pool : Pool]
      /\ validator'.pc # "idle" => validator'.pool.symbols # {}
      /\ proofs' \in 0 .. MaxProofs
      /\ proved \subseteq proved' /\ proved' \subseteq Pool
      /\ proof' \in {Absent, Torn} \/ proof' \in [pool : Pool, status : Status]
  <2>1. CASE StartProof
    <3>1. Listed \in Pool /\ Listed.symbols # {} /\ validator' = [pc |-> "validate", pool |-> Listed]
      BY <2>1, ListedIsPool DEF StartProof, Readable, IInv
    <3>2. proofs' \in 0 .. MaxProofs
      BY <2>1, Types DEF StartProof, IInv
    <3>3. /\ validator' \in [pc : {"idle", "validate", "fill"}, pool : Pool]
          /\ validator'.pool.symbols # {}
      BY <3>1
    <3>4. proof' = proof /\ proved' = proved
      BY <2>1 DEF StartProof
    <3>5. proved \subseteq Pool /\ (proof \in {Absent, Torn} \/ proof \in [pool : Pool, status : Status])
      BY DEF IInv, TypeOK
    <3> QED
      BY <3>2, <3>3, <3>4, <3>5
  <2>2. CASE Validate
    BY <2>2 DEF Validate, IInv, TypeOK
  <2>3. CASE WriteProof
    <3>1. PICK status \in {"PASS", "FAIL", "INSUFFICIENT_EVIDENCE"} :
            /\ proof' = [pool |-> validator.pool, status |-> status]
            /\ proved' = IF status = "PASS" THEN proved \cup {validator.pool} ELSE proved
      BY <2>3 DEF WriteProof
    <3>2. validator' = Idle /\ validator.pool \in Pool /\ proofs' \in 0 .. MaxProofs
      BY <2>3 DEF WriteProof, IInv, TypeOK
    <3> QED
      BY <3>1, <3>2, Files DEF IInv, TypeOK, Idle, Status
  <2> QED
    BY <2>1, <2>2, <2>3
<1>3. TypeOK'
  BY <1>1, <1>2 DEF IInv, TypeOK
<1>4. proof' \notin {Absent, Torn} /\ proof'.status = "PASS" => proof'.pool \in proved'
  BY DEF StartProof, Validate, WriteProof, IInv, PassOK
<1>5. PassOK' /\ TriggerIsProven'
  BY <1>1, <1>2, <1>4 DEF IInv, PassOK, TriggerIsProven
<1>6. BuildOK' /\ HandoffAudited'
  BY <1>1 DEF IInv, BuildOK, HandoffAudited
<1> QED
  BY <1>3, <1>5, <1>6 DEF IInv
-----------------------------------------------------------------------------
\* A verdict that passes is of the pool it was asked for, and that pool is proved.
LEMMA VerdictPasses ==
  ASSUME IInv, NEW pool \in Pool
  PROVE  Verdict(pool) \in Status /\ (Verdict(pool) = "PASS" => pool \in proved)
BY DEF IInv, TypeOK, PassOK, Verdict, Status

LEMMA ScanStep == ASSUME PoolAssumption, IInv, Resolve \/ Gate \/ Scan PROVE IInv'
<1>1. UNCHANGED <<builder, snapshot, handoff, proof, validator, proved, builds, proofs, crashes>>
  BY DEF Resolve, Gate, Scan
<1>2. /\ scanner' \in [pc : {"idle", "gate", "quotes"}, pool : Pool, status : Status]
      /\ scanner'.pc # "idle" => scanner'.pool.symbols # {}
      /\ scanner'.pc = "quotes" /\ scanner'.status = "PASS" => scanner'.pool \in proved
  <2>1. CASE Resolve
    <3>1. PICK pool \in Pool : pool.symbols # {} /\ scanner' = [scanner EXCEPT !.pc = "gate", !.pool = pool]
      <4>1. CASE Readable /\ scanner' = [scanner EXCEPT !.pc = "gate", !.pool = Listed]
        BY <4>1, ListedIsPool DEF Readable, IInv
      <4>2. CASE Legacy # {} /\ scanner' = [scanner EXCEPT !.pc = "gate", !.pool = [gen |-> 0, symbols |-> Legacy]]
        <5>1. [gen |-> 0, symbols |-> Legacy] \in Pool
          BY Files DEF Pool
        <5> QED
          BY <4>2, <5>1
      <4> QED
        BY <2>1, <4>1, <4>2 DEF Resolve
    <3> QED
      BY <3>1 DEF IInv, TypeOK
  <2>2. CASE Gate
    <3>1. scanner.pool \in Pool
      BY DEF IInv, TypeOK
    <3>2. Verdict(scanner.pool) \in Status /\ (Verdict(scanner.pool) = "PASS" => scanner.pool \in proved)
      BY <3>1, VerdictPasses
    <3> QED
      BY <2>2, <3>2 DEF Gate, IInv, TypeOK
  <2>3. CASE Scan
    BY <2>3, Files DEF Scan, NoScan, Status
  <2> QED
    BY <2>1, <2>2, <2>3
<1>3. \A a \in scans' : a \in Answer /\ (a.triggers # {} => a.pool \in proved)
  <2>1. CASE UNCHANGED scans
    BY <2>1 DEF IInv, TypeOK, TriggerIsProven
  <2>2. ASSUME Scan, NEW f \in MayFail(scanner.pool.symbols), Answers(f)
        PROVE  \A a \in scans' : a \in Answer /\ (a.triggers # {} => a.pool \in proved)
    <3>1. scanner.pc = "quotes" /\ scanner.pool \in Pool /\ scanner.pool.symbols \subseteq Symbol
      BY <2>2 DEF Scan, IInv, TypeOK, Pool
    <3>2. PICK t \in SUBSET Quoted(scanner.pool.symbols, f) :
            scans' = scans \cup {[pool |-> scanner.pool, quoted |-> Quoted(scanner.pool.symbols, f),
                                  triggers |-> IF scanner.status = "PASS" THEN t ELSE {}]}
      BY <2>2 DEF Answers
    <3>3. Quoted(scanner.pool.symbols, f) \subseteq Symbol
      BY <3>1 DEF Quoted
    <3>4. [pool |-> scanner.pool, quoted |-> Quoted(scanner.pool.symbols, f),
            triggers |-> IF scanner.status = "PASS" THEN t ELSE {}] \in Answer
      BY <3>1, <3>2, <3>3 DEF Answer
    <3>5. scanner.status = "PASS" => scanner.pool \in proved
      BY <3>1 DEF IInv, PassOK
    <3> DEFINE answer == [pool |-> scanner.pool, quoted |-> Quoted(scanner.pool.symbols, f),
                          triggers |-> IF scanner.status = "PASS" THEN t ELSE {}]
    <3>6. answer \in Answer /\ (answer.triggers # {} => answer.pool \in proved)
      BY <3>4, <3>5
    <3>7. scans' = scans \cup {answer}
      BY <3>2
    <3> HIDE DEF answer
    <3>8. \A a \in scans : a \in Answer /\ (a.triggers # {} => a.pool \in proved)
      BY DEF IInv, TypeOK, TriggerIsProven
    <3> QED
      BY <3>6, <3>7, <3>8
  <2> QED
    BY <2>1, <2>2 DEF Resolve, Gate, Scan
<1>4. TypeOK'
  BY <1>1, <1>2, <1>3 DEF IInv, TypeOK
<1>5. PassOK' /\ TriggerIsProven'
  BY <1>1, <1>2, <1>3 DEF IInv, PassOK, TriggerIsProven
<1>6. BuildOK' /\ HandoffAudited'
  BY <1>1 DEF IInv, BuildOK, HandoffAudited
<1> QED
  BY <1>4, <1>5, <1>6 DEF IInv
-----------------------------------------------------------------------------
LEMMA Inductive == ASSUME PoolAssumption, IInv, [Next]_vars PROVE IInv'
<1>1. CASE UNCHANGED vars
  <2>1. TypeOK'
    BY <1>1 DEF vars, IInv, TypeOK
  <2>2. PassOK' /\ TriggerIsProven'
    BY <1>1 DEF vars, IInv, PassOK, TriggerIsProven
  <2>3. BuildOK' /\ HandoffAudited'
    BY <1>1 DEF vars, IInv, BuildOK, HandoffAudited
  <2> QED
    BY <2>1, <2>2, <2>3 DEF IInv
<1> QED
  BY <1>1, MembershipStep, AssembleStep, SnapshotStep, HandoffStep, DiesStep, ProofStep, ScanStep DEF Next

\* A trigger stands on a passing proof of that very pool, and a handoff in use has
\* its snapshot, whatever is rebuilt, proved or killed in between, for any number
\* of symbols, builds, proofs and crashes (scan_sidecar.py, candidates_sidecar.py).
THEOREM TriggersAreProven == ASSUME PoolAssumption PROVE Spec => []ArmedIsProven
<1>1. Init => IInv
  BY InitIInv
<1>2. IInv /\ [Next]_vars => IInv'
  BY Inductive
<1>3. IInv => ArmedIsProven
  BY DEF IInv, ArmedIsProven
<1> QED
  BY <1>1, <1>2, <1>3, PTL DEF Spec
-----------------------------------------------------------------------------
(* The daily cache that a pool is built from (HistoryCache), with files    *)
(* and a lock of its own.                                                  *)

CONSTANTS Caller, Builder, Extent, Stale, MaxFetches, MaxCalls, MaxDays
VARIABLES csv, meta, pc, seen, got, intent, lock, fetches, refreshed, answers, calls, day, deaths

Cache == INSTANCE HistoryCache WITH crashes <- deaths

\* A fetch that was made.
Made == 1 .. Len(fetches)
Known == {Absent, Torn} \cup Made
Place == {"idle", "meta", "csv", "lock", "again meta", "again csv", "fetch", "open csv", "fill csv", "open meta", "fill meta"}
Writing == {"open csv", "fill csv", "open meta", "fill meta"}

\* The files, and what a process has of them, are of fetches that were made.
FilesOK ==
  /\ fetches \in Seq(Cache!Data) /\ Len(fetches) <= MaxFetches /\ day \in 0 .. MaxDays
  /\ csv \in Known /\ meta \in Known
  /\ seen \in [Cache!Proc -> Known] /\ got \in [Cache!Proc -> {0} \cup Made]
  /\ pc \in [Cache!Proc -> Place] /\ intent \in [Cache!Proc -> Cache!Intent]
  /\ \A p \in Cache!Proc : pc[p] \in Writing => got[p] \in Made

\* A caller goes on only with the lock.
LockHeld == \A p \in Caller : pc[p] \notin {"idle", "meta", "csv", "lock"} => lock = p

\* An answer that names files names two of one series.
AnswersOK ==
  \A a \in answers : a.status # "failed" =>
    a.csv \in Made /\ a.meta \in Made /\ fetches[a.csv].range = fetches[a.meta].range

\* Under the lock the files are what was read of them.
MissOK ==
  \A p \in Caller :
    /\ pc[p] = "again csv" => seen[p] = IF csv = Absent THEN Absent ELSE meta
    /\ pc[p] = "fetch" /\ intent[p] = "hydrate" => ~Cache!Current(meta, csv)

CacheInv == FilesOK /\ LockHeld /\ AnswersOK

LEMMA CacheNumbers ==
  ASSUME Cache!CacheAssumption
  PROVE  /\ MaxFetches \in Nat /\ MaxDays \in Nat
         /\ Absent \notin Nat /\ Torn \notin Nat /\ Absent # Torn
         /\ Caller \cap Builder = {} /\ "none" \notin Caller /\ Cache!None \notin Caller
  BY DEF Cache!CacheAssumption, Cache!None

LEMMA MadeIsFetch ==
  ASSUME Cache!CacheAssumption, FilesOK
  PROVE  /\ Len(fetches) \in Nat /\ Made \subseteq Cache!Fetch /\ Made \subseteq Nat
         /\ \A c \in Known : c \in Cache!Fetch => c \in Made
<1>1. Len(fetches) \in Nat /\ Len(fetches) <= MaxFetches /\ MaxFetches \in Nat
  BY CacheNumbers DEF FilesOK
<1>2. Made \subseteq Cache!Fetch /\ Made \subseteq Nat
  BY <1>1 DEF Made, Cache!Fetch
<1>3. Absent \notin Cache!Fetch /\ Torn \notin Cache!Fetch
  BY CacheNumbers DEF Cache!Fetch
<1>4. QED
  BY <1>1, <1>2, <1>3 DEF Known

\* Where a process goes, with what it has; the others stay.
Moves(p) ==
  /\ \E to \in Place : pc' = [pc EXCEPT ![p] = to]
  /\ \A q \in Cache!Proc : q # p => seen'[q] = seen[q] /\ got'[q] = got[q] /\ intent'[q] = intent[q] /\ pc'[q] = pc[q]

LEMMA CacheMoves ==
  ASSUME FilesOK, NEW p \in Cache!Proc, Cache!Call(p) \/ Cache!Step(p) \/ Cache!Dies(p)
  PROVE  Moves(p)
<1>1. \E to \in Place : pc' = [pc EXCEPT ![p] = to]
  BY DEF Cache!Call, Cache!Step, Cache!Dies, Cache!Read, Cache!ReadMeta, Cache!Probe, Cache!TryLock, Cache!Recheck,
    Cache!FetchOk, Cache!FetchFails, Cache!Write, Cache!OpenCsv, Cache!FillCsv, Cache!OpenMeta, Cache!FillMeta, Cache!Return,
    Cache!Goto, Place
<1>2. \A q \in Cache!Proc : q # p => pc'[q] = pc[q]
  BY <1>1 DEF FilesOK
<1>3. \A q \in Cache!Proc : q # p => seen'[q] = seen[q]
  BY DEF Cache!Call, Cache!Step, Cache!Dies, Cache!Read, Cache!ReadMeta, Cache!Probe, Cache!TryLock, Cache!Recheck,
    Cache!FetchOk, Cache!FetchFails, Cache!Write, Cache!OpenCsv, Cache!FillCsv, Cache!OpenMeta, Cache!FillMeta, Cache!Return, FilesOK
<1>4. \A q \in Cache!Proc : q # p => got'[q] = got[q]
  BY DEF Cache!Call, Cache!Step, Cache!Dies, Cache!Read, Cache!ReadMeta, Cache!Probe, Cache!TryLock, Cache!Recheck,
    Cache!FetchOk, Cache!FetchFails, Cache!Write, Cache!OpenCsv, Cache!FillCsv, Cache!OpenMeta, Cache!FillMeta, Cache!Return, FilesOK
<1>5. \A q \in Cache!Proc : q # p => intent'[q] = intent[q]
  BY DEF Cache!Call, Cache!Step, Cache!Dies, Cache!Read, Cache!ReadMeta, Cache!Probe, Cache!TryLock, Cache!Recheck,
    Cache!FetchOk, Cache!FetchFails, Cache!Write, Cache!OpenCsv, Cache!FillCsv, Cache!OpenMeta, Cache!FillMeta, Cache!Return, FilesOK
<1>6. QED
  BY <1>1, <1>2, <1>3, <1>4, <1>5 DEF Moves

\* What was fetched stays as it was.
LEMMA FetchesGrow ==
  ASSUME Cache!CacheAssumption, FilesOK, [Cache!Next]_(Cache!vars)
  PROVE  /\ fetches' \in Seq(Cache!Data) /\ Len(fetches') <= MaxFetches
         /\ Made \subseteq Made' /\ \A i \in Made : fetches'[i] = fetches[i]
<1>1. CASE fetches' = fetches
  BY <1>1 DEF FilesOK, Made
<1>2. ASSUME NEW p \in Cache!Proc, Cache!FetchOk(p)
      PROVE  /\ fetches' \in Seq(Cache!Data) /\ Len(fetches') <= MaxFetches
             /\ Made \subseteq Made' /\ \A i \in Made : fetches'[i] = fetches[i]
  <2>1. PICK d \in Cache!Data : fetches' = Append(fetches, d)
    BY <1>2 DEF Cache!FetchOk, Cache!Data, FilesOK
  <2>2. fetches \in Seq(Cache!Data) /\ Len(fetches) < MaxFetches /\ MaxFetches \in Nat
    BY <1>2, CacheNumbers DEF Cache!FetchOk, FilesOK
  <2>3. /\ fetches' \in Seq(Cache!Data) /\ Len(fetches') = Len(fetches) + 1
        /\ \A i \in 1 .. Len(fetches) : fetches'[i] = fetches[i]
    BY <2>1, <2>2
  <2>4. QED
    BY <2>2, <2>3 DEF Made
<1>3. fetches' = fetches \/ \E p \in Cache!Proc : Cache!FetchOk(p)
  BY DEF Cache!Next, Cache!Call, Cache!Step, Cache!Dies, Cache!Read, Cache!ReadMeta, Cache!Probe, Cache!TryLock, Cache!Recheck,
    Cache!FetchFails, Cache!Write, Cache!OpenCsv, Cache!FillCsv, Cache!OpenMeta, Cache!FillMeta, Cache!NextDay, Cache!vars
<1>4. QED
  BY <1>1, <1>2, <1>3

LEMMA FilesStep == ASSUME Cache!CacheAssumption, FilesOK, [Cache!Next]_(Cache!vars) PROVE FilesOK'
<1>0. /\ fetches' \in Seq(Cache!Data) /\ Len(fetches') <= MaxFetches
      /\ Made \subseteq Made' /\ Known \subseteq Known'
  BY FetchesGrow DEF Known
<1>1. ASSUME NEW p \in Cache!Proc, Cache!Call(p) \/ Cache!Step(p) \/ Cache!Dies(p) PROVE FilesOK'
  <2>1. Moves(p)
    BY <1>1, CacheMoves
  <2>2. pc' \in [Cache!Proc -> Place] /\ day' = day
    BY <1>1, <2>1 DEF Moves, FilesOK, Cache!Call, Cache!Step, Cache!Dies, Cache!Read, Cache!ReadMeta, Cache!Probe, Cache!TryLock,
      Cache!Recheck, Cache!FetchOk, Cache!FetchFails, Cache!Write, Cache!OpenCsv, Cache!FillCsv, Cache!OpenMeta, Cache!FillMeta
  <2>3. intent' \in [Cache!Proc -> Cache!Intent]
    BY <1>1 DEF FilesOK, Cache!Intent, Cache!Call, Cache!Step, Cache!Dies, Cache!Read, Cache!ReadMeta, Cache!Probe, Cache!TryLock,
      Cache!Recheck, Cache!FetchOk, Cache!FetchFails, Cache!Write, Cache!OpenCsv, Cache!FillCsv, Cache!OpenMeta, Cache!FillMeta,
      Cache!Return
  <2>4. seen' \in [Cache!Proc -> Known']
    <3>1. seen \in [Cache!Proc -> Known'] /\ meta \in Known' /\ Absent \in Known'
      BY <1>0 DEF FilesOK, Known
    <3>2. seen' = seen \/ \E x \in {meta, Absent} : seen' = [seen EXCEPT ![p] = x]
      BY <1>1 DEF Cache!Call, Cache!Step, Cache!Dies, Cache!Read, Cache!ReadMeta, Cache!Probe, Cache!TryLock,
        Cache!Recheck, Cache!FetchOk, Cache!FetchFails, Cache!Write, Cache!OpenCsv, Cache!FillCsv, Cache!OpenMeta, Cache!FillMeta,
        Cache!Return
    <3>3. QED
      BY <3>1, <3>2
  <2>5. got' \in [Cache!Proc -> {0} \cup Made'] /\ (pc'[p] \in Writing => got'[p] \in Made')
    <3>1. got \in [Cache!Proc -> {0} \cup Made']
      BY <1>0 DEF FilesOK
    <3>2. CASE Cache!FetchOk(p)
      <4>1. Len(fetches) + 1 \in Made'
        <5>1. PICK d \in Cache!Data : fetches' = Append(fetches, d)
          BY <3>2 DEF Cache!FetchOk, Cache!Data, FilesOK
        <5>2. Len(fetches') = Len(fetches) + 1 /\ Len(fetches) \in Nat
          BY <5>1 DEF FilesOK
        <5>3. QED
          BY <5>2 DEF Made
      <4>2. got' = [got EXCEPT ![p] = Len(fetches) + 1]
        BY <3>2 DEF Cache!FetchOk
      <4>3. QED
        BY <3>1, <4>1, <4>2
    <3>3. CASE ~Cache!FetchOk(p)
      <4>1. got' = got \/ got' = [got EXCEPT ![p] = 0]
        BY <1>1, <3>3 DEF Cache!Call, Cache!Step, Cache!Dies, Cache!Read, Cache!ReadMeta, Cache!Probe, Cache!TryLock,
          Cache!Recheck, Cache!FetchFails, Cache!Write, Cache!OpenCsv, Cache!FillCsv, Cache!OpenMeta, Cache!FillMeta, Cache!Return
      <4>2. pc'[p] \in Writing => pc[p] \in Writing /\ got' = got
        <5> USE DEF Writing, FilesOK, Cache!Goto
        <5>1. CASE Cache!Call(p) \/ Cache!Read(p) \/ Cache!TryLock(p)
          BY <5>1 DEF Cache!Call, Cache!Read, Cache!ReadMeta, Cache!TryLock, Cache!Return
        <5>2. CASE Cache!Probe(p) \/ Cache!Recheck(p) \/ Cache!FetchFails(p) \/ Cache!Dies(p)
          BY <5>2 DEF Cache!Probe, Cache!Recheck, Cache!FetchFails, Cache!Dies, Cache!Return
        <5>3. CASE Cache!Write(p)
          BY <5>3 DEF Cache!Write, Cache!OpenCsv, Cache!FillCsv, Cache!OpenMeta, Cache!FillMeta, Cache!Return
        <5>4. QED
          BY <1>1, <3>3, <5>1, <5>2, <5>3 DEF Cache!Step
      <4>3. QED
        BY <1>0, <3>1, <4>1, <4>2 DEF FilesOK
    <3>4. QED
      BY <3>2, <3>3
  <2>6. \A q \in Cache!Proc : pc'[q] \in Writing => got'[q] \in Made'
    BY <1>0, <2>1, <2>5 DEF Moves, FilesOK
  <2>7. csv' \in Known' /\ meta' \in Known'
    <3>1. csv' = csv \/ csv' = Torn \/ (pc[p] \in Writing /\ csv' = got[p])
      BY <1>1 DEF Cache!Call, Cache!Step, Cache!Dies, Cache!Read, Cache!ReadMeta, Cache!Probe, Cache!TryLock,
        Cache!Recheck, Cache!FetchOk, Cache!FetchFails, Cache!Write, Cache!OpenCsv, Cache!FillCsv, Cache!OpenMeta, Cache!FillMeta, Writing
    <3>2. meta' = meta \/ meta' = Torn \/ (pc[p] \in Writing /\ meta' = got[p])
      BY <1>1 DEF Cache!Call, Cache!Step, Cache!Dies, Cache!Read, Cache!ReadMeta, Cache!Probe, Cache!TryLock,
        Cache!Recheck, Cache!FetchOk, Cache!FetchFails, Cache!Write, Cache!OpenCsv, Cache!FillCsv, Cache!OpenMeta, Cache!FillMeta, Writing
    <3>3. csv \in Known' /\ meta \in Known' /\ Torn \in Known' /\ (pc[p] \in Writing => got[p] \in Known')
      BY <1>0 DEF FilesOK, Known
    <3>4. QED
      BY <3>1, <3>2, <3>3
  <2>8. QED
    BY <1>0, <2>2, <2>3, <2>4, <2>5, <2>6, <2>7 DEF FilesOK
<1>2. CASE Cache!NextDay \/ UNCHANGED Cache!vars
  <2>1. UNCHANGED <<csv, meta, pc, seen, got, intent, fetches>>
    BY <1>2 DEF Cache!NextDay, Cache!vars
  <2>2. day' \in 0 .. MaxDays
    BY <1>2, CacheNumbers DEF Cache!NextDay, Cache!vars, FilesOK
  <2>3. QED
    BY <2>1, <2>2 DEF FilesOK, Known, Made
<1>3. QED
  BY <1>1, <1>2 DEF Cache!Next

LEMMA LockStep == ASSUME Cache!CacheAssumption, FilesOK, LockHeld, [Cache!Next]_(Cache!vars) PROVE LockHeld'
<1>1. ASSUME NEW p \in Cache!Proc, Cache!Call(p) \/ Cache!Step(p) \/ Cache!Dies(p) PROVE LockHeld'
  <2>1. Moves(p)
    BY <1>1, CacheMoves
  <2>2. \/ lock' = lock
        \/ lock = p /\ lock' = Cache!None /\ pc'[p] = "idle"
        \/ lock = Cache!None /\ lock' = p
    BY <1>1 DEF FilesOK, Cache!Call, Cache!Step, Cache!Dies, Cache!Read, Cache!ReadMeta, Cache!Probe, Cache!TryLock,
      Cache!Recheck, Cache!FetchOk, Cache!FetchFails, Cache!Write, Cache!OpenCsv, Cache!FillCsv, Cache!OpenMeta, Cache!FillMeta,
      Cache!Return, Cache!Goto
  <2>3. p \in Caller /\ pc'[p] \notin {"idle", "meta", "csv", "lock"} => lock' = p
    <3>1. CASE Cache!Call(p)
      BY <3>1, CacheNumbers DEF Cache!Call, Cache!Goto, FilesOK
    <3>2. CASE Cache!TryLock(p)
      BY <3>2 DEF Cache!TryLock, Cache!Return, Cache!Goto, FilesOK
    <3>3. CASE Cache!ReadMeta(p, "meta", "csv") \/ Cache!Probe(p) \/ Cache!Dies(p)
      BY <3>3 DEF Cache!ReadMeta, Cache!Probe, Cache!Dies, Cache!Return, Cache!Goto, FilesOK
    <3>4. CASE Cache!ReadMeta(p, "again meta", "again csv") \/ Cache!Recheck(p) \/ Cache!FetchOk(p) \/ Cache!FetchFails(p)
      BY <3>4 DEF Cache!ReadMeta, Cache!Recheck, Cache!FetchOk, Cache!FetchFails, Cache!Return, Cache!Goto, FilesOK, LockHeld
    <3>5. CASE Cache!Write(p)
      BY <3>5 DEF Cache!Write, Cache!OpenCsv, Cache!FillCsv, Cache!OpenMeta, Cache!FillMeta, Cache!Return, Cache!Goto, FilesOK, LockHeld
    <3>6. QED
      BY <1>1, <3>1, <3>2, <3>3, <3>4, <3>5 DEF Cache!Step, Cache!Read
  <2>4. ASSUME NEW q \in Caller, q # p, pc'[q] \notin {"idle", "meta", "csv", "lock"} PROVE lock' = q
    <3>1. pc'[q] = pc[q]
      BY <2>1, <2>4 DEF Moves, Cache!Proc
    <3>2. lock = q
      BY <2>4, <3>1 DEF LockHeld
    <3>3. QED
      BY <2>2, <2>4, <3>2, CacheNumbers
  <2>5. QED
    BY <2>3, <2>4 DEF LockHeld
<1>2. CASE Cache!NextDay \/ UNCHANGED Cache!vars
  BY <1>2 DEF Cache!NextDay, Cache!vars, LockHeld
<1>3. QED
  BY <1>1, <1>2 DEF Cache!Next

LEMMA AnswersStep == ASSUME Cache!CacheAssumption, FilesOK, AnswersOK, [Cache!Next]_(Cache!vars) PROVE AnswersOK'
<1>0. Made \subseteq Made' /\ \A i \in Made : fetches'[i] = fetches[i]
  BY FetchesGrow
<1>1. ASSUME NEW x \in answers, x.status # "failed"
      PROVE  x.csv \in Made' /\ x.meta \in Made' /\ fetches'[x.csv].range = fetches'[x.meta].range
  BY <1>0, <1>1 DEF AnswersOK
<1>2. ASSUME NEW x \in answers', x \notin answers, x.status # "failed"
      PROVE  x.csv \in Made /\ x.meta \in Made /\ fetches[x.csv].range = fetches[x.meta].range
  <2>1. PICK p \in Cache!Proc : Cache!Probe(p) \/ Cache!TryLock(p) \/ Cache!Recheck(p) \/ Cache!FetchFails(p) \/ Cache!FillMeta(p)
    BY <1>2 DEF Cache!Next, Cache!Call, Cache!Step, Cache!Dies, Cache!Read, Cache!ReadMeta, Cache!FetchOk, Cache!Write,
      Cache!OpenCsv, Cache!FillCsv, Cache!OpenMeta, Cache!NextDay, Cache!vars
  <2>2. \/ Cache!Current(seen[p], csv) /\ x = [status |-> "cache", csv |-> csv, meta |-> seen[p]]
        \/ pc[p] = "fill meta" /\ x = [status |-> "hydrated", csv |-> got[p], meta |-> got[p]]
    <3>1. CASE Cache!TryLock(p) \/ Cache!FetchFails(p)
      <4>1. answers' = answers \/ answers' = answers \cup {[status |-> "failed", csv |-> Absent, meta |-> Absent]}
        BY <3>1 DEF Cache!TryLock, Cache!FetchFails, Cache!Return
      <4>2. x = [status |-> "failed", csv |-> Absent, meta |-> Absent]
        BY <1>2, <4>1
      <4>3. x.status = "failed"
        BY <4>2
      <4>4. QED
        BY <1>2, <4>3
    <3>2. CASE Cache!Probe(p) \/ Cache!Recheck(p)
      <4>1. \/ answers' = answers
            \/ Cache!Current(seen[p], csv) /\ answers' = answers \cup {[status |-> "cache", csv |-> csv, meta |-> seen[p]]}
        BY <3>2 DEF Cache!Probe, Cache!Recheck, Cache!Return
      <4>2. QED
        BY <1>2, <4>1
    <3>3. CASE Cache!FillMeta(p)
      <4>1. pc[p] = "fill meta" /\ answers' = answers \cup {[status |-> "hydrated", csv |-> got[p], meta |-> got[p]]}
        BY <3>3 DEF Cache!FillMeta, Cache!Return
      <4>2. QED
        BY <1>2, <4>1
    <3>4. QED
      BY <2>1, <3>1, <3>2, <3>3
  <2>3. CASE Cache!Current(seen[p], csv) /\ x = [status |-> "cache", csv |-> csv, meta |-> seen[p]]
    <3>1. csv \in Made /\ seen[p] \in Made
      BY <2>3, MadeIsFetch DEF Cache!Current, FilesOK
    <3>2. fetches[csv].range = fetches[seen[p]].range
      BY <2>3 DEF Cache!Current
    <3>3. QED
      BY <2>3, <3>1, <3>2
  <2>4. CASE pc[p] = "fill meta" /\ x = [status |-> "hydrated", csv |-> got[p], meta |-> got[p]]
    BY <2>4 DEF FilesOK, Writing
  <2>5. QED
    BY <2>2, <2>3, <2>4
<1>3. ASSUME NEW x \in answers', x.status # "failed"
      PROVE  x.csv \in Made' /\ x.meta \in Made' /\ fetches'[x.csv].range = fetches'[x.meta].range
  BY <1>0, <1>1, <1>2, <1>3
<1>4. QED
  BY <1>3 DEF AnswersOK

\* Without a builder beside the callers, nobody writes but who holds the lock.
LEMMA MissStep ==
  ASSUME Cache!CacheAssumption, Builder = {}, FilesOK, LockHeld, MissOK, [Cache!Next]_(Cache!vars) PROVE MissOK'
<1>0. \A c, d : c = Absent => ~Cache!Current(d, c)
  BY CacheNumbers DEF Cache!Current, Cache!Fetch
<1>1. ASSUME NEW p \in Cache!Proc, Cache!Call(p) \/ Cache!Step(p) \/ Cache!Dies(p) PROVE MissOK'
  <2>0. p \in Caller /\ Moves(p)
    BY <1>1, CacheMoves DEF Cache!Proc
  <2>1. ASSUME NEW q \in Caller, q # p
        PROVE  /\ pc'[q] = "again csv" => seen'[q] = IF csv' = Absent THEN Absent ELSE meta'
               /\ pc'[q] = "fetch" /\ intent'[q] = "hydrate" => ~Cache!Current(meta, csv)'
    <3>1. pc'[q] = pc[q] /\ seen'[q] = seen[q] /\ intent'[q] = intent[q]
      BY <2>0, <2>1 DEF Moves, Cache!Proc
    <3>2. SUFFICES ASSUME pc[q] \in {"again csv", "fetch"} PROVE UNCHANGED <<csv, meta, fetches>>
      BY <3>1 DEF MissOK, Cache!Current
    <3>3. lock = q
      BY <3>2 DEF LockHeld
    <3>4. pc[p] \in {"idle", "meta", "csv", "lock"}
      BY <2>0, <2>1, <3>3 DEF LockHeld
    <3>5. QED
      BY <1>1, <3>4 DEF Cache!Call, Cache!Step, Cache!Dies, Cache!Read, Cache!ReadMeta, Cache!Probe, Cache!TryLock,
        Cache!Recheck, Cache!FetchOk, Cache!FetchFails, Cache!Write, Cache!OpenCsv, Cache!FillCsv, Cache!OpenMeta, Cache!FillMeta
  <2>2. pc'[p] = "again csv" => seen'[p] = IF csv' = Absent THEN Absent ELSE meta'
    <3>1. SUFFICES ASSUME pc'[p] = "again csv" PROVE seen'[p] = IF csv' = Absent THEN Absent ELSE meta'
      OBVIOUS
    <3>2. Cache!ReadMeta(p, "again meta", "again csv")
      <4> USE DEF Cache!Goto, Cache!Return, FilesOK
      <4>1. ~(Cache!Call(p) \/ Cache!Dies(p) \/ Cache!FetchOk(p) \/ Cache!FetchFails(p))
        BY <2>0, <3>1 DEF Cache!Call, Cache!Dies, Cache!FetchOk, Cache!FetchFails
      <4>2. ~(Cache!Probe(p) \/ Cache!TryLock(p) \/ Cache!Recheck(p) \/ Cache!ReadMeta(p, "meta", "csv"))
        BY <3>1 DEF Cache!Probe, Cache!TryLock, Cache!Recheck, Cache!ReadMeta
      <4>3. ~Cache!Write(p)
        BY <3>1 DEF Cache!Write, Cache!OpenCsv, Cache!FillCsv, Cache!OpenMeta, Cache!FillMeta
      <4>4. QED
        BY <1>1, <4>1, <4>2, <4>3 DEF Cache!Step, Cache!Read
    <3>3. QED
      BY <3>2 DEF Cache!ReadMeta, FilesOK
  <2>3. pc'[p] = "fetch" /\ intent'[p] = "hydrate" => ~Cache!Current(meta, csv)'
    <3>1. SUFFICES ASSUME pc'[p] = "fetch", intent'[p] = "hydrate" PROVE ~Cache!Current(meta, csv)'
      OBVIOUS
    <3>2. Cache!Recheck(p)
      <4> USE DEF Cache!Goto, Cache!Return, FilesOK
      <4>1. ~(Cache!Call(p) \/ Cache!Dies(p) \/ Cache!FetchOk(p) \/ Cache!FetchFails(p))
        BY <2>0, <3>1 DEF Cache!Call, Cache!Dies, Cache!FetchOk, Cache!FetchFails
      <4>2. ~(Cache!Probe(p) \/ Cache!TryLock(p) \/ Cache!Read(p))
        BY <3>1 DEF Cache!Probe, Cache!TryLock, Cache!Read, Cache!ReadMeta
      <4>3. ~Cache!Write(p)
        BY <3>1 DEF Cache!Write, Cache!OpenCsv, Cache!FillCsv, Cache!OpenMeta, Cache!FillMeta
      <4>4. QED
        BY <1>1, <4>1, <4>2, <4>3 DEF Cache!Step
    <3>3. pc[p] = "again csv" /\ ~Cache!Current(seen[p], csv) /\ UNCHANGED <<csv, meta, fetches>>
      BY <3>1, <3>2 DEF Cache!Recheck, Cache!Return, Cache!Goto, FilesOK
    <3>4. seen[p] = IF csv = Absent THEN Absent ELSE meta
      BY <2>0, <3>3 DEF MissOK
    <3>5. ~Cache!Current(meta, csv)
      BY <1>0, <3>3, <3>4
    <3>6. QED
      BY <3>3, <3>5 DEF Cache!Current
  <2>4. QED
    BY <2>1, <2>2, <2>3 DEF MissOK
<1>2. CASE Cache!NextDay \/ UNCHANGED Cache!vars
  BY <1>2 DEF Cache!NextDay, Cache!vars, MissOK, Cache!Current
<1>3. QED
  BY <1>1, <1>2 DEF Cache!Next

LEMMA CacheInvariance == ASSUME Cache!CacheAssumption PROVE Cache!Spec => []CacheInv
<1>1. Cache!Init => CacheInv
  <2>1. ASSUME Cache!Init PROVE CacheInv
    <3>1. FilesOK
      BY <2>1, CacheNumbers DEF Cache!Init, FilesOK, Known, Made, Place, Cache!Intent, Writing
    <3>2. LockHeld /\ AnswersOK
      BY <2>1 DEF Cache!Init, LockHeld, AnswersOK, Cache!Proc
    <3>3. QED
      BY <3>1, <3>2 DEF CacheInv
  <2>2. QED
    BY <2>1
<1>2. CacheInv /\ [Cache!Next]_(Cache!vars) => CacheInv'
  BY FilesStep, LockStep, AnswersStep DEF CacheInv
<1>3. QED
  BY <1>1, <1>2, PTL DEF Cache!Spec

\* The bars that an answer counts and the last day it names are of one series,
\* also while a builder writes the two files without the lock, or dies between
\* them (read_cache, ensure_history, fetch_history).
THEOREM EvidenceIsOfOneSeries == ASSUME Cache!CacheAssumption PROVE Cache!Spec => []Cache!EvidenceAgrees
<1>1. CacheInv => Cache!EvidenceAgrees
  BY DEF CacheInv, AnswersOK, Cache!EvidenceAgrees
<1>2. QED
  BY <1>1, CacheInvariance, PTL

\* Among callers of ensure_history, however many miss at once, nobody fetches
\* for a miss what the cache already holds: who gets the lock reads once more.
THEOREM OneOfManyHydrates == ASSUME Cache!CacheAssumption, Builder = {} PROVE Cache!Spec => []Cache!OneHydration
<1>1. Cache!Init => MissOK
  BY DEF Cache!Init, MissOK, Cache!Proc
<1>2. CacheInv /\ MissOK /\ [Cache!Next]_(Cache!vars) => MissOK'
  BY MissStep DEF CacheInv
<1>3. MissOK => Cache!OneHydration
  BY DEF MissOK, Cache!OneHydration
<1>4. QED
  BY <1>1, <1>2, <1>3, CacheInvariance, PTL DEF Cache!Spec
-----------------------------------------------------------------------------
(* What an answer may say of today (ScanFreshness), for any candidates,    *)
(* writers, days, cycles and faults.  Nobody writes the files of another   *)
(* day than today's, the lines of the log are in the order of their days,  *)
(* and what a snapshot has read was there when it read it.                 *)

CONSTANTS Candidate, Writer, Session, Weekend, Rows, MaxCycles, MaxFaults
VARIABLES scan_day, hours, opportunities, state, soak, scan_lock, step, scan, reader, answer, observed, fresh, cycles, losses

Today == INSTANCE ScanFreshness WITH day <- scan_day, phase <- hours, lock <- scan_lock, pc <- step, mem <- scan, faults <- losses

\* What a scan quoted, it saw on its day.
Sound(m) == m.kind = "scan" => \A c \in m.quoted : m.board[c].on = m.day

\* A cycle under way is of today; what it scanned is observed once it is written.
CycleOK ==
  /\ scan \in [Writer -> Today!Cycle]
  /\ \A w \in Writer :
       /\ step[w] \in {"save", "open", "fill", "settle"} => scan[w].day = scan_day /\ Sound(scan[w])
       /\ step[w] # "idle" /\ scan[w].kind \in {"scan", "lost"} => scan_day \notin Weekend
       /\ step[w] \in {"settle", "log"} /\ scan[w].kind = "scan" => scan_day \in observed

StateOK(s) == s # Torn => Sound(s) /\ s.day \in 1 .. scan_day /\ (s.kind = "scan" => s.day \in observed)

\* The log is in the order of the days, and no scan is of a weekend.
Row == [day : Today!Day, symbols : BOOLEAN, status : Today!Kind]
LogOK ==
  \A k \in DOMAIN soak :
    /\ soak[k].day \in 1 .. scan_day
    /\ \A j \in DOMAIN soak : j < k => soak[j].day <= soak[k].day
    /\ soak[k].symbols => soak[k].day \notin Weekend
    /\ soak[k].status = "scan" => soak[k].symbols /\ soak[k].day \in observed
ScannedOn(d) == \E k \in DOMAIN soak : soak[k].symbols /\ soak[k].day = d

\* What a snapshot has read was so when it read it, and today's data is not
\* followed by another day's.
ReaderOK ==
  /\ reader \in [pc : {"idle", "state", "rows"}, state : {Torn} \cup Today!Cycle, scanned : Today!Day, full : BOOLEAN]
  /\ reader.pc # "idle" =>
       /\ StateOK(reader.state)
       /\ fresh = scan_day => reader.state = Torn \/ reader.state.day = scan_day
       /\ reader.state # Torn /\ reader.state.day = scan_day => state = Torn \/ state.day = scan_day
  /\ reader.pc = "rows" =>
       /\ reader.scanned # 0 => ScannedOn(reader.scanned)
       /\ fresh = scan_day => reader.full \/ reader.scanned = scan_day

\* What made today fresh is still there, unless state.json is torn.
FreshOK ==
  /\ fresh <= scan_day
  /\ fresh = scan_day => ScannedOn(scan_day) /\ (state = Torn \/ state.day = scan_day)

AnswerOK == Today!CompletedIsToday /\ Today!FreshIsLasting /\ Today!DaysWereObserved

FreshInv ==
  /\ Today!TypeOK /\ CycleOK /\ StateOK(state) /\ LogOK /\ ReaderOK /\ FreshOK /\ AnswerOK
  /\ observed \subseteq 1 .. scan_day

\* A set of numbers up to N has a largest.
LEMMA LargestNumber ==
  ASSUME NEW N \in Nat, NEW S \in SUBSET (1 .. N), S # {}
  PROVE  \E n \in S : \A m \in S : m <= n
<1>1. PICK R : R = OpToRel(<, Nat)
  OBVIOUS
<1>2. IsWellFoundedOn(R, Nat)
  BY <1>1, NatLessThanWellFounded, Zenon
<1>3. \A x, y \in Nat : x < y => <<x, y>> \in R
  BY <1>1 DEF OpToRel
<1>4. PICK T : T = {N - s : s \in S}
  OBVIOUS
<1>5. T \subseteq Nat /\ T # {}
  <2>1. \A s \in S : N - s \in Nat
    OBVIOUS
  <2>2. PICK s \in S : TRUE
    OBVIOUS
  <2>3. N - s \in T
    BY <1>4
  <2>4. T \subseteq Nat
    BY <1>4, <2>1
  <2>5. QED
    BY <2>3, <2>4
<1>6. PICK x \in T : \A y \in T : <<y, x>> \notin R
  BY <1>2, <1>5, WFMin
<1>7. PICK n \in S : x = N - n
  BY <1>4
<1>8. ASSUME NEW m \in S PROVE m <= n
  <2>1. N - m \in T /\ N - m \in Nat /\ N - n \in Nat
    BY <1>4
  <2>2. ~ (N - m < N - n)
    BY <1>3, <1>6, <1>7, <2>1
  <2>3. QED
    BY <2>2
<1>9. QED
  BY <1>8

\* The last line with symbols, or none.
LEMMA LastScanIs ==
  ASSUME NEW rows \in Seq(Row)
  PROVE  \/ Today!LastScan(rows) = 0 /\ \A k \in DOMAIN rows : ~ rows[k].symbols
         \/ \E k \in DOMAIN rows : /\ rows[k].symbols /\ Today!LastScan(rows) = rows[k].day
                                   /\ \A j \in DOMAIN rows : rows[j].symbols => j <= k
<1> DEFINE marked == {k \in DOMAIN rows : rows[k].symbols}
<1>1. CASE marked = {}
  BY <1>1 DEF Today!LastScan
<1>2. CASE marked # {}
  <2>1. marked \in SUBSET (1 .. Len(rows)) /\ Len(rows) \in Nat
    OBVIOUS
  <2>2. \E k \in marked : \A j \in marked : j <= k
    BY <1>2, <2>1, LargestNumber
  <2>3. \E k \in marked : \A j \in marked : k >= j
    BY <2>1, <2>2
  <2>4. PICK k : k = Today!Max(marked)
    OBVIOUS
  <2>5. k \in marked /\ \A j \in marked : k >= j
    BY <2>3, <2>4, Zenon DEF Today!Max
  <2>6. Today!LastScan(rows) = rows[k].day
    BY <1>2, <2>4 DEF Today!LastScan
  <2>7. \A j \in marked : j <= k
    BY <2>1, <2>5
  <2>8. QED
    BY <2>5, <2>6, <2>7
<1>3. QED
  BY <1>1, <1>2

LEMMA FreshNumbers ==
  ASSUME Today!FreshnessAssumption, Today!TypeOK
  PROVE  /\ MaxDays \in Nat \ {0} /\ MaxCycles \in Nat /\ MaxFaults \in Nat /\ Rows \in Nat \ {0} /\ Today!Day = 0 .. MaxDays
         /\ scan_day \in Nat /\ scan_day \in 1 .. MaxDays /\ scan_day \in Today!Day /\ fresh \in Nat
         /\ cycles \in 0 .. MaxCycles /\ losses \in 0 .. MaxFaults
<1>1. MaxDays \in Nat \ {0} /\ MaxCycles \in Nat /\ MaxFaults \in Nat /\ Rows \in Nat \ {0}
  BY DEF Today!FreshnessAssumption
<1>2. scan_day \in 1 .. MaxDays /\ fresh \in 0 .. MaxDays /\ cycles \in 0 .. MaxCycles /\ losses \in 0 .. MaxFaults
  BY DEF Today!TypeOK, Today!Day
<1>3. QED
  BY <1>1, <1>2 DEF Today!Day

LEMMA FreshInit == ASSUME Today!FreshnessAssumption, Today!Init PROVE FreshInv
<1>1. MaxDays \in Nat \ {0} /\ MaxCycles \in Nat /\ MaxFaults \in Nat /\ 0 \in Today!Day
  BY DEF Today!FreshnessAssumption, Today!Day
<1>2. Today!Unknown \in Today!Board
  BY <1>1 DEF Today!Unknown, Today!Board, Today!Opportunity
<1>3. Today!NoCycle \in Today!Cycle
  BY <1>1, <1>2 DEF Today!NoCycle, Today!Cycle, Today!Kind
<1>4. /\ scan_day = 1 /\ hours = "pre open" /\ opportunities = Today!Unknown /\ state = Torn
      /\ scan_lock = Today!None /\ step = [w \in Writer |-> "idle"] /\ scan = [w \in Writer |-> Today!NoCycle]
      /\ answer = Today!NoAnswer /\ observed = {} /\ fresh = 0 /\ cycles = 0 /\ losses = 0
  BY DEF Today!Init
<1>5. /\ reader \in [pc : {"idle", "state", "rows"}, state : {Torn} \cup Today!Cycle, scanned : Today!Day, full : BOOLEAN]
      /\ reader.pc = "idle" /\ reader.state = Torn
  BY <1>1 DEF Today!Init, Today!NoRead
<1>6. soak \in Seq(Row) /\ DOMAIN soak = {}
  <2>1. soak = << >>
    BY DEF Today!Init
  <2>2. soak \in Seq(Row) /\ Len(soak) = 0
    BY <2>1, EmptySeq
  <2>3. DOMAIN soak = 1 .. Len(soak)
    BY <2>2
  <2>4. QED
    BY <2>2, <2>3
<1>7. Today!TypeOK
  <2>1. scan_day \in 1 .. MaxDays /\ fresh \in Today!Day /\ cycles \in 0 .. MaxCycles /\ losses \in 0 .. MaxFaults
    <3>1. scan_day = 1 /\ fresh = 0 /\ cycles = 0 /\ losses = 0
      BY <1>4
    <3>2. QED
      BY <1>1, <3>1
  <2>2. \A w \in Writer : scan[w] \in Today!Cycle /\ step[w] = "idle"
    BY <1>3, <1>4
  <2>3. QED
    BY <1>2, <1>4, <1>5, <1>6, <2>1, <2>2 DEF Today!TypeOK, Row
<1>8. CycleOK /\ StateOK(state) /\ LogOK
  BY <1>3, <1>4, <1>6 DEF CycleOK, StateOK, LogOK
<1>9. ReaderOK /\ FreshOK
  <2>1. fresh = 0 /\ scan_day = 1
    BY <1>4
  <2>2. QED
    BY <1>5, <2>1 DEF ReaderOK, FreshOK
<1>10. AnswerOK
  BY <1>4 DEF AnswerOK, Today!CompletedIsToday, Today!FreshIsLasting, Today!DaysWereObserved, Today!Answered
<1>11. QED
  BY <1>4, <1>7, <1>8, <1>9, <1>10 DEF FreshInv

\* What the writers do to the files on one day leaves what was read, called
\* fresh or answered as it was: nothing goes from the log or from what was
\* observed, and state.json is torn or becomes of today.
LEMMA WriterStays ==
  ASSUME Today!FreshnessAssumption, FreshInv, UNCHANGED <<scan_day, reader, answer, fresh>>, Today!TypeOK', CycleOK', LogOK', StateOK(state)',
         observed \subseteq observed', observed' \subseteq 1 .. scan_day,
         \A d \in 1 .. scan_day : ScannedOn(d) => ScannedOn(d)',
         state' = Torn \/ state' = state \/ state'.day = scan_day
  PROVE  FreshInv'
<1> USE DEF FreshInv
<1>1. \A s : StateOK(s) => s = Torn \/ (Sound(s) /\ s.day \in 1 .. scan_day /\ (s.kind = "scan" => s.day \in observed'))
  BY DEF StateOK
<1>2. StateOK(reader.state) => StateOK(reader.state)'
  BY <1>1 DEF StateOK, Sound
<1>3. scan_day \in Nat /\ scan_day \in 1 .. scan_day /\ reader.scanned \in Nat
  BY FreshNumbers DEF ReaderOK
<1>4. reader.pc = "rows" /\ reader.scanned # 0 => ScannedOn(reader.scanned)'
  <2>1. ASSUME reader.pc = "rows", reader.scanned # 0 PROVE ScannedOn(reader.scanned)' 
    <3>1. ScannedOn(reader.scanned)
      BY <2>1 DEF ReaderOK
    <3>2. reader.scanned \in 1 .. scan_day
      BY <3>1 DEF ScannedOn, LogOK
    <3>3. PICK d \in 1 .. scan_day : d = reader.scanned
      BY <3>2
    <3>4. ScannedOn(d)'
      BY <3>1, <3>3
    <3>5. QED
      BY <3>3, <3>4 DEF ScannedOn
  <2>2. QED
    BY <2>1
<1>5. ScannedOn(scan_day) => ScannedOn(scan_day)'
  <2>1. PICK d \in 1 .. scan_day : d = scan_day
    BY <1>3
  <2>2. QED
    BY <2>1 DEF ScannedOn
<1>6. ReaderOK'
  <2>1. reader \in [pc : {"idle", "state", "rows"}, state : {Torn} \cup Today!Cycle, scanned : Today!Day, full : BOOLEAN]'
    BY DEF ReaderOK, Today!Cycle, Today!Day, Today!Kind, Today!Board, Today!Opportunity
  <2>2. QED
    BY <1>2, <1>4, <2>1 DEF ReaderOK
<1>7. FreshOK'
  BY <1>5 DEF FreshOK
<1>8. AnswerOK'
  BY DEF AnswerOK, Today!CompletedIsToday, Today!FreshIsLasting, Today!DaysWereObserved, Today!Answered
<1>9. QED
  BY <1>6, <1>7, <1>8

\* A step of a writer that writes no file.
LEMMA NoFile ==
  ASSUME Today!FreshnessAssumption, FreshInv, UNCHANGED <<scan_day, state, soak, reader, answer, observed, fresh>>, Today!TypeOK', CycleOK' PROVE FreshInv'
<1> USE DEF FreshInv
<1>1. LogOK' /\ StateOK(state)' /\ \A d \in 1 .. scan_day : ScannedOn(d) => ScannedOn(d)'
  BY DEF LogOK, StateOK, Sound, ScannedOn
<1>2. QED
  BY <1>1, WriterStays

\* One writer goes on, and the others stay where they are.
LEMMA Onward ==
  ASSUME FreshInv, NEW w \in Writer, NEW m \in Today!Cycle, NEW p \in {"idle", "save", "open", "fill", "settle", "log"},
         scan' = [scan EXCEPT ![w] = m], step' = [step EXCEPT ![w] = p], scan_day' = scan_day, observed \subseteq observed',
         p \in {"save", "open", "fill", "settle"} => m.day = scan_day /\ Sound(m),
         p # "idle" /\ m.kind \in {"scan", "lost"} => scan_day \notin Weekend,
         p \in {"settle", "log"} /\ m.kind = "scan" => scan_day \in observed'
  PROVE  CycleOK' /\ step' \in [Writer -> {"idle", "save", "open", "fill", "settle", "log"}] /\ step'[w] = p /\ scan'[w] = m
         /\ \A v \in Writer \ {w} : step'[v] = step[v] /\ scan'[v] = scan[v]
<1> USE DEF FreshInv
<1>1. /\ step'[w] = p /\ scan'[w] = m /\ scan' \in [Writer -> Today!Cycle]
      /\ step' \in [Writer -> {"idle", "save", "open", "fill", "settle", "log"}]
      /\ \A v \in Writer \ {w} : step'[v] = step[v] /\ scan'[v] = scan[v]
  BY DEF Today!TypeOK, CycleOK
<1>2. ASSUME NEW v \in Writer
      PROVE  /\ step'[v] \in {"save", "open", "fill", "settle"} => scan'[v].day = scan_day' /\ Sound(scan'[v])
             /\ step'[v] # "idle" /\ scan'[v].kind \in {"scan", "lost"} => scan_day' \notin Weekend
             /\ step'[v] \in {"settle", "log"} /\ scan'[v].kind = "scan" => scan_day' \in observed'
  <2>1. CASE v = w
    BY <2>1, <1>1
  <2>2. CASE v # w
    BY <2>2, <1>1 DEF CycleOK
  <2>3. QED
    BY <2>1, <2>2
<1>3. Today!Cycle' = Today!Cycle
  BY DEF Today!Cycle, Today!Day, Today!Kind, Today!Board, Today!Opportunity
<1>4. CycleOK'
  BY <1>1, <1>2 DEF CycleOK, Sound
<1>5. QED
  BY <1>1, <1>4

LEMMA BeginOK == ASSUME Today!FreshnessAssumption, FreshInv, NEW w \in Writer, Today!Begin(w) PROVE FreshInv'
<1> USE DEF FreshInv
<1>1. /\ step[w] = "idle" /\ scan_lock = Today!None /\ cycles < MaxCycles /\ scan_lock' = w /\ cycles' = cycles + 1
      /\ UNCHANGED <<scan_day, hours, opportunities, state, soak, reader, answer, observed, fresh, losses>>
  BY DEF Today!Begin
<1>2. PICK m, p :
        /\ scan' = [scan EXCEPT ![w] = m] /\ step' = [step EXCEPT ![w] = p] /\ p \in {"save", "open"}
        /\ m \in Today!Cycle /\ m.day = scan_day /\ Sound(m) /\ (m.kind \in {"scan", "lost"} => hours = "open")
  <2>0. scan_day \in Today!Day /\ opportunities \in Today!Board
    BY FreshNumbers DEF Today!TypeOK
  <2>1. ASSUME NEW k \in {"heartbeat", "lost"}, k = "lost" => hours = "open",
               scan' = [scan EXCEPT ![w] = [day |-> scan_day, kind |-> k, board |-> opportunities, quoted |-> {}, trust |-> "UNKNOWN"]],
               step' = [step EXCEPT ![w] = "open"]
        PROVE  \E m, p : /\ scan' = [scan EXCEPT ![w] = m] /\ step' = [step EXCEPT ![w] = p] /\ p \in {"save", "open"}
                         /\ m \in Today!Cycle /\ m.day = scan_day /\ Sound(m) /\ (m.kind \in {"scan", "lost"} => hours = "open")
    <3>1. PICK m : m = [day |-> scan_day, kind |-> k, board |-> opportunities, quoted |-> {}, trust |-> "UNKNOWN"]
      OBVIOUS
    <3>2. m \in Today!Cycle /\ m.day = scan_day /\ m.kind = k /\ m.kind # "scan"
      BY <3>1, <2>0 DEF Today!Cycle, Today!Kind
    <3>3. Sound(m)
      BY <3>2 DEF Sound
    <3>4. QED
      BY <2>1, <3>1, <3>2, <3>3
  <2>2. ASSUME hours = "open", step' = [step EXCEPT ![w] = "save"],
               NEW quoted \in SUBSET Candidate, NEW trust \in {"PASS", "FAIL"},
               NEW b \in Today!Evaluated(opportunities, quoted, trust),
               scan' = [scan EXCEPT ![w] = [day |-> scan_day, kind |-> "scan", board |-> b, quoted |-> quoted, trust |-> trust]]
        PROVE  \E m, p : /\ scan' = [scan EXCEPT ![w] = m] /\ step' = [step EXCEPT ![w] = p] /\ p \in {"save", "open"}
                         /\ m \in Today!Cycle /\ m.day = scan_day /\ Sound(m) /\ (m.kind \in {"scan", "lost"} => hours = "open")
    <3>1. PICK m : m = [day |-> scan_day, kind |-> "scan", board |-> b, quoted |-> quoted, trust |-> trust]
      OBVIOUS
    <3>2. b \in Today!Board /\ \A c \in quoted : b[c].on = scan_day
      BY DEF Today!Evaluated
    <3>3. m \in Today!Cycle /\ m.day = scan_day
      BY <3>1, <3>2, <2>0 DEF Today!Cycle, Today!Kind
    <3>4. Sound(m)
      BY <3>1, <3>2 DEF Sound
    <3>5. QED
      BY <2>2, <3>1, <3>3, <3>4
  <2>3. QED
    BY <2>1, <2>2 DEF Today!Begin
<1>3. hours = "open" => scan_day \notin Weekend
  BY DEF Today!TypeOK
<1>4. CycleOK' /\ step' \in [Writer -> {"idle", "save", "open", "fill", "settle", "log"}] /\ step'[w] = p /\ scan'[w] = m
      /\ \A v \in Writer \ {w} : step'[v] = step[v] /\ scan'[v] = scan[v]
  BY <1>1, <1>2, <1>3, Onward
<1>5. \A v \in Writer : step[v] \in {"idle", "log"}
  BY <1>1 DEF Today!TypeOK, Today!FreshnessAssumption
<1>6. Today!TypeOK'
  <2>1. cycles' \in 0 .. MaxCycles
    BY <1>1, FreshNumbers
  <2>2. \A v \in Writer : scan'[v] \in Today!Cycle /\ (step'[v] \notin {"idle", "log"} => scan_lock' = v)
    BY <1>1, <1>2, <1>4, <1>5 DEF Today!TypeOK
  <2>3. QED
    BY <1>1, <1>4, <2>1, <2>2 DEF Today!TypeOK
<1>7. QED
  BY <1>1, <1>4, <1>6, NoFile

\* A cycle goes on with what it has: the candidates are saved, state.json is
\* opened and filled.
LEMMA FilesWritten ==
  ASSUME Today!FreshnessAssumption, FreshInv, NEW w \in Writer, Today!Save(w) \/ Today!OpenState(w) \/ Today!FillState(w)
  PROVE  FreshInv'
<1> USE DEF FreshInv
<1>1. /\ step[w] \in {"save", "open", "fill"} /\ UNCHANGED <<scan_day, hours, soak, scan_lock, scan, reader, answer, fresh, cycles, losses>>
      /\ scan_lock = w /\ scan[w] \in Today!Cycle /\ scan[w].day = scan_day /\ Sound(scan[w])
  BY DEF Today!Save, Today!OpenState, Today!FillState, Today!TypeOK, CycleOK
<1>2. PICK p \in {"open", "fill", "settle"} : step' = [step EXCEPT ![w] = p] /\ (p = "settle" => Today!FillState(w))
  BY DEF Today!Save, Today!OpenState, Today!FillState
<1>3. /\ observed \subseteq observed' /\ observed' \subseteq observed \cup {scan_day}
      /\ p = "settle" /\ scan[w].kind = "scan" => scan_day \in observed'
      /\ opportunities' = opportunities \/ opportunities' = scan[w].board
      /\ (state' = state /\ observed' = observed) \/ (state' = Torn /\ observed' = observed)
         \/ (state' = scan[w] /\ (scan[w].kind = "scan" => scan_day \in observed'))
  BY <1>1, <1>2 DEF Today!Save, Today!OpenState, Today!FillState
<1>4. /\ CycleOK' /\ step' \in [Writer -> {"idle", "save", "open", "fill", "settle", "log"}] /\ step'[w] = p
      /\ \A v \in Writer \ {w} : step'[v] = step[v] /\ scan'[v] = scan[v]
  <2>1. scan' = [scan EXCEPT ![w] = scan[w]]
    BY <1>1 DEF CycleOK
  <2>2. scan[w].kind \in {"scan", "lost"} => scan_day \notin Weekend
    BY <1>1 DEF CycleOK
  <2>3. QED
    BY <1>1, <1>2, <1>3, <2>1, <2>2, Onward
<1>5. scan_day \in 1 .. MaxDays /\ scan_day \in 1 .. scan_day /\ observed' \subseteq 1 .. scan_day
  BY <1>3, FreshNumbers
<1>6. Today!TypeOK'
  <2>1. scan[w].board \in Today!Board
    BY <1>1 DEF Today!Cycle
  <2>2. opportunities' \in Today!Board /\ (state' # Torn => state' \in Today!Cycle) /\ observed' \subseteq 1 .. MaxDays
    BY <1>1, <1>3, <1>5, <2>1 DEF Today!TypeOK
  <2>3. \A v \in Writer : scan'[v] \in Today!Cycle /\ (step'[v] \notin {"idle", "log"} => scan_lock' = v)
    BY <1>1, <1>4 DEF Today!TypeOK
  <2>4. QED
    BY <1>1, <1>4, <2>2, <2>3 DEF Today!TypeOK
<1>7. LogOK'
  BY <1>1, <1>3 DEF LogOK
<1>8. StateOK(state)'
  <2>1. StateOK(state) => state = Torn \/ (Sound(state) /\ state.day \in 1 .. scan_day /\ (state.kind = "scan" => state.day \in observed))
    BY DEF StateOK
  <2>2. CASE state' = state
    BY <2>1, <2>2, <1>1, <1>3 DEF StateOK, Sound
  <2>3. CASE state' = Torn
    BY <2>3 DEF StateOK
  <2>4. CASE state' = scan[w] /\ (scan[w].kind = "scan" => scan_day \in observed')
    BY <2>4, <1>1, <1>5 DEF StateOK, Sound
  <2>5. QED
    BY <1>3, <2>2, <2>3, <2>4
<1>9. \A d \in 1 .. scan_day : ScannedOn(d) => ScannedOn(d)'
  BY <1>1 DEF ScannedOn
<1>10. state' = Torn \/ state' = state \/ state'.day = scan_day
  BY <1>1, <1>3
<1>11. QED
  BY <1>1, <1>3, <1>4, <1>5, <1>6, <1>7, <1>8, <1>9, <1>10, WriterStays

LEMMA NoCycleIs ==
  ASSUME Today!FreshnessAssumption, Today!TypeOK, NEW k \in Today!Kind
  PROVE  [Today!NoCycle EXCEPT !.kind = k] \in Today!Cycle /\ [Today!NoCycle EXCEPT !.kind = k].kind = k
         /\ Today!NoCycle \in Today!Cycle /\ Today!NoCycle.kind = "failed"
<1>1. 0 \in Today!Day
  BY FreshNumbers
<1>2. Today!Unknown \in Today!Board
  BY <1>1 DEF Today!Unknown, Today!Board, Today!Opportunity
<1>3. QED
  BY <1>1, <1>2 DEF Today!NoCycle, Today!Cycle, Today!Kind

\* A cycle ends, in one of four ways.
LEMMA CycleEnds ==
  ASSUME Today!FreshnessAssumption, FreshInv, NEW w \in Writer, Today!Settle(w) \/ Today!Fail(w) \/ Today!Die(w)
  PROVE  FreshInv'
<1> USE DEF FreshInv
<1>1. /\ UNCHANGED <<scan_day, hours, opportunities, state, soak, reader, answer, observed, fresh, cycles>>
      /\ losses' = losses \/ (losses < MaxFaults /\ losses' = losses + 1)
  BY DEF Today!Settle, Today!Fail, Today!Die
<1>2. /\ scan_lock' = Today!None \/ scan_lock' = scan_lock
      /\ scan_lock' # scan_lock => scan_lock = w
  BY DEF Today!Settle, Today!Fail, Today!Die, Today!TypeOK
<1>3. PICK m \in Today!Cycle, p \in {"idle", "log"} :
        /\ scan' = [scan EXCEPT ![w] = m] /\ step' = [step EXCEPT ![w] = p]
        /\ m.kind = "failed" \/ (m.kind = scan[w].kind /\ step[w] = "settle")
  <2>1. Today!After(w) \in {"idle", "log"}
    BY DEF Today!After
  <2>2. CASE Today!Settle(w)
    <3>1. scan[w].kind \in Today!Kind /\ "failed" \in Today!Kind
      BY DEF CycleOK, Today!Cycle, Today!Kind
    <3>2. PICK k \in Today!Kind : k = (IF w \in Session THEN scan[w].kind ELSE "failed")
      BY <3>1
    <3>3. Today!Ended(w, scan[w].kind) = [Today!NoCycle EXCEPT !.kind = k]
      BY <3>2, NoCycleIs DEF Today!Ended, Today!NoCycle
    <3>4. Today!Ended(w, scan[w].kind) \in Today!Cycle /\ Today!Ended(w, scan[w].kind).kind = k
      BY <3>3, NoCycleIs
    <3>5. scan' = [scan EXCEPT ![w] = Today!Ended(w, scan[w].kind)] /\ step' = [step EXCEPT ![w] = Today!After(w)] /\ step[w] = "settle"
      BY <2>2 DEF Today!Settle
    <3>6. QED
      BY <2>1, <3>2, <3>4, <3>5
  <2>3. CASE Today!Fail(w) \/ Today!Die(w)
    <3>1. scan' = [scan EXCEPT ![w] = Today!NoCycle] /\ (step' = [step EXCEPT ![w] = Today!After(w)] \/ step' = [step EXCEPT ![w] = "idle"])
      BY <2>3 DEF Today!Fail, Today!Die
    <3>2. Today!NoCycle \in Today!Cycle /\ Today!NoCycle.kind = "failed"
      BY NoCycleIs DEF Today!Kind
    <3>3. QED
      BY <2>1, <3>1, <3>2
  <2>4. QED
    BY <2>2, <2>3
<1>4. m.kind \in {"scan", "lost"} => scan_day \notin Weekend
  BY <1>3 DEF CycleOK
<1>5. m.kind = "scan" => scan_day \in observed'
  BY <1>1, <1>3 DEF CycleOK
<1>6. CycleOK' /\ step' \in [Writer -> {"idle", "save", "open", "fill", "settle", "log"}] /\ step'[w] = p
      /\ \A v \in Writer \ {w} : step'[v] = step[v] /\ scan'[v] = scan[v]
  BY <1>1, <1>3, <1>4, <1>5, Onward
<1>7. Today!TypeOK'
  <2>1. \A v \in Writer : scan'[v] \in Today!Cycle /\ (step'[v] \notin {"idle", "log"} => scan_lock' = v)
    <3>1. SUFFICES ASSUME NEW v \in Writer PROVE scan'[v] \in Today!Cycle /\ (step'[v] \notin {"idle", "log"} => scan_lock' = v)
      OBVIOUS
    <3>2. scan'[v] \in Today!Cycle
      BY <1>3 DEF CycleOK
    <3>3. CASE v = w
      BY <3>2, <3>3, <1>3, <1>6
    <3>4. CASE v # w
      BY <3>2, <3>4, <1>2, <1>6 DEF Today!TypeOK
    <3>5. QED
      BY <3>3, <3>4
  <2>2. losses' \in 0 .. MaxFaults
    BY <1>1, FreshNumbers
  <2>3. scan_lock' \in Writer \cup {Today!None}
    BY <1>2 DEF Today!TypeOK
  <2>4. QED
    BY <1>1, <1>6, <2>1, <2>2, <2>3 DEF Today!TypeOK
<1>8. QED
  BY <1>1, <1>6, <1>7, NoFile

\* A session adds its line.
LEMMA LineAdded ==
  ASSUME Today!FreshnessAssumption, FreshInv, NEW w \in Writer, Today!Log(w)
  PROVE  FreshInv'
<1> USE DEF FreshInv
<1>1. /\ step[w] = "log" /\ step' = [step EXCEPT ![w] = "idle"] /\ scan' = [scan EXCEPT ![w] = Today!NoCycle]
      /\ UNCHANGED <<scan_day, hours, opportunities, state, scan_lock, reader, answer, observed, fresh, cycles, losses>>
  BY DEF Today!Log
<1>2. PICK row : /\ row = [day |-> scan_day, symbols |-> scan[w].kind \in {"scan", "lost"}, status |-> scan[w].kind]
                 /\ soak' = Append(soak, row)
  BY DEF Today!Log
<1>3. row.day = scan_day /\ (row.symbols <=> scan[w].kind \in {"scan", "lost"}) /\ row.status = scan[w].kind /\ row \in Row
  <2>1. scan[w].kind \in Today!Kind
    BY DEF CycleOK, Today!Cycle
  <2>2. (scan[w].kind \in {"scan", "lost"}) \in BOOLEAN
    BY SMT
  <2>3. ASSUME NEW b \in BOOLEAN PROVE [day |-> scan_day, symbols |-> b, status |-> scan[w].kind] \in Row
    BY <2>1, FreshNumbers DEF Row
  <2>4. row \in Row
    BY <1>2, <2>2, <2>3, Zenon
  <2>5. row.day = scan_day /\ row.symbols = (scan[w].kind \in {"scan", "lost"}) /\ row.status = scan[w].kind
    BY <1>2
  <2>6. QED
    BY <2>4, <2>5
<1>4. CycleOK' /\ step' \in [Writer -> {"idle", "save", "open", "fill", "settle", "log"}] /\ step'[w] = "idle"
      /\ \A v \in Writer \ {w} : step'[v] = step[v] /\ scan'[v] = scan[v]
  BY <1>1, NoCycleIs, Onward DEF Today!Kind
<1>5. soak \in Seq(Row)
  BY DEF Today!TypeOK, Row
<1>6. /\ soak' \in Seq(Row) /\ Len(soak) \in Nat /\ Len(soak') = Len(soak) + 1 /\ soak'[Len(soak')] = row
      /\ DOMAIN soak = 1 .. Len(soak) /\ DOMAIN soak' = 1 .. Len(soak) + 1
      /\ \A k \in 1 .. Len(soak) : soak'[k] = soak[k]
  BY <1>2, <1>3, <1>5, AppendProperties
<1>7. Today!TypeOK'
  <2>1. \A v \in Writer : scan'[v] \in Today!Cycle /\ (step'[v] \notin {"idle", "log"} => scan_lock' = v)
    BY <1>1, <1>4 DEF Today!TypeOK, CycleOK
  <2>2. Row' = Row
    BY DEF Row, Today!Day, Today!Kind
  <2>3. QED
    BY <1>1, <1>4, <1>6, <2>1, <2>2 DEF Today!TypeOK, Row
<1>8. LogOK'
  <2>1. scan_day \in Nat /\ scan_day \in 1 .. scan_day
    BY FreshNumbers
  <2>2. row.symbols => row.day \notin Weekend
    BY <1>1, <1>3 DEF CycleOK
  <2>3. row.status = "scan" => row.symbols /\ row.day \in observed
    BY <1>1, <1>3 DEF CycleOK
  <2>4. \A j \in 1 .. Len(soak) : soak[j].day \in Nat /\ soak[j].day <= scan_day
    BY <1>6, <2>1 DEF LogOK
  <2>5. SUFFICES ASSUME NEW k \in DOMAIN soak'
                 PROVE  /\ soak'[k].day \in 1 .. scan_day
                        /\ \A j \in DOMAIN soak' : j < k => soak'[j].day <= soak'[k].day
                        /\ soak'[k].symbols => soak'[k].day \notin Weekend
                        /\ soak'[k].status = "scan" => soak'[k].symbols /\ soak'[k].day \in observed
    BY <1>1 DEF LogOK
  <2>6. CASE k \in 1 .. Len(soak)
    <3>1. \A j \in DOMAIN soak' : j < k => j \in 1 .. Len(soak)
      BY <2>6, <1>6
    <3>2. QED
      BY <2>6, <3>1, <1>6 DEF LogOK
  <2>7. CASE k = Len(soak) + 1
    <3>1. soak'[k] = row
      BY <2>7, <1>6
    <3>2. \A j \in DOMAIN soak' : j < k => soak'[j].day <= scan_day
      BY <2>4, <2>7, <1>6
    <3>3. QED
      BY <3>1, <3>2, <1>3, <2>1, <2>2, <2>3
  <2>8. QED
    BY <2>6, <2>7, <1>6
<1>9. StateOK(state)'
  BY <1>1 DEF StateOK, Sound
<1>10. \A d \in 1 .. scan_day : ScannedOn(d) => ScannedOn(d)'
  BY <1>6 DEF ScannedOn
<1>11. QED
  BY <1>1, <1>4, <1>7, <1>8, <1>9, <1>10, WriterStays

\* The clock goes on, and nothing read, called fresh or written is of the new day.
LEMMA ClockTicks == ASSUME Today!FreshnessAssumption, FreshInv, Today!Tick PROVE FreshInv'
<1> USE DEF FreshInv
<1>1. /\ \A w \in Writer : step[w] = "idle"
      /\ UNCHANGED <<opportunities, state, soak, scan_lock, step, scan, reader, answer, observed, fresh, cycles, losses>>
      /\ scan_day' = scan_day \/ (scan_day < MaxDays /\ scan_day' = scan_day + 1)
      /\ hours' \in {"pre open", "open", "closed"} /\ (hours' = "open" => scan_day' = scan_day /\ scan_day \notin Weekend)
  BY DEF Today!Tick
<1>2. /\ scan_day \in Nat /\ scan_day' \in Nat /\ scan_day <= scan_day' /\ scan_day' \in 1 .. MaxDays
      /\ \A d \in 1 .. scan_day : d \in 1 .. scan_day'
  <2>1. MaxDays \in Nat /\ scan_day \in 1 .. MaxDays
    BY FreshNumbers
  <2>2. scan_day' = scan_day \/ (scan_day < MaxDays /\ scan_day' = scan_day + 1)
    BY <1>1
  <2>3. QED
    BY <2>1, <2>2
<1>3. Today!TypeOK'
  <2>1. scan_day' \in 1 .. MaxDays /\ (scan_day' \in Weekend => hours' # "open")
    BY <1>1, <1>2
  <2>2. Today!Cycle' = Today!Cycle /\ Today!Board' = Today!Board /\ Today!Kind' = Today!Kind /\ Today!Day' = Today!Day
    BY DEF Today!Cycle, Today!Kind, Today!Board, Today!Opportunity, Today!Day
  <2>3. QED
    BY <1>1, <2>1, <2>2 DEF Today!TypeOK
<1>4. CycleOK'
  BY <1>1 DEF CycleOK, Today!Cycle, Today!Kind, Today!Board, Today!Opportunity, Today!Day
<1>5. StateOK(state)' /\ (StateOK(reader.state) => StateOK(reader.state)')
  BY <1>1, <1>2 DEF StateOK, Sound
<1>6. LogOK'
  BY <1>1, <1>2 DEF LogOK
<1>7. reader' \in [pc : {"idle", "state", "rows"}, state : {Torn} \cup Today!Cycle, scanned : Today!Day, full : BOOLEAN]'
  BY <1>1 DEF ReaderOK, Today!Cycle, Today!Kind, Today!Board, Today!Opportunity, Today!Day
<1>8. reader.pc = "rows" => (reader.scanned # 0 => ScannedOn(reader.scanned)')
  BY <1>1 DEF ReaderOK, ScannedOn
<1>9. ReaderOK' /\ FreshOK'
  <2>1. CASE scan_day' = scan_day
    <3>1. ScannedOn(scan_day) => ScannedOn(scan_day)'
      BY <1>1, <2>1 DEF ScannedOn
    <3>2. QED
      BY <3>1, <1>1, <1>5, <1>7, <1>8, <2>1 DEF ReaderOK, FreshOK
  <2>2. CASE scan_day' = scan_day + 1
    <3>1. fresh' # scan_day' /\ fresh' <= scan_day'
      <4>1. fresh \in Nat /\ scan_day \in Nat /\ fresh <= scan_day /\ fresh' = fresh
        BY <1>1, FreshNumbers DEF FreshOK
      <4>2. QED
        BY <2>2, <4>1
    <3>2. reader.pc # "idle" => reader.state = Torn \/ reader.state.day # scan_day'
      BY <1>2, <2>2 DEF ReaderOK, StateOK
    <3>3. QED
      BY <3>1, <3>2, <1>1, <1>5, <1>7, <1>8 DEF ReaderOK, FreshOK
  <2>3. QED
    BY <1>1, <2>1, <2>2
<1>10. AnswerOK'
  BY <1>1 DEF AnswerOK, Today!CompletedIsToday, Today!FreshIsLasting, Today!DaysWereObserved, Today!Answered
<1>11. observed' \subseteq 1 .. scan_day'
  BY <1>1, <1>2
<1>12. QED
  BY <1>3, <1>4, <1>5, <1>6, <1>9, <1>10, <1>11, <1>1

\* What a reader does not touch.
LEMMA ReaderOnly ==
  ASSUME FreshInv, UNCHANGED <<scan_day, hours, opportunities, state, soak, scan_lock, step, scan, observed, cycles, losses>>
  PROVE  CycleOK' /\ StateOK(state)' /\ LogOK' /\ observed' \subseteq 1 .. scan_day' /\ (\A d : ScannedOn(d)' <=> ScannedOn(d))
         /\ (\A s : StateOK(s)' <=> StateOK(s))
<1> USE DEF FreshInv
<1>1. CycleOK'
  BY DEF CycleOK, Today!Cycle, Today!Kind, Today!Board, Today!Opportunity, Today!Day, Sound
<1>2. \A s : StateOK(s)' <=> StateOK(s)
  BY DEF StateOK, Sound
<1>3. LogOK' /\ \A d : ScannedOn(d)' <=> ScannedOn(d)
  BY DEF LogOK, ScannedOn
<1>4. StateOK(state)'
  BY DEF StateOK, Sound
<1>5. QED
  BY <1>1, <1>2, <1>3, <1>4

LEMMA StateRead == ASSUME Today!FreshnessAssumption, FreshInv, Today!ReadState PROVE FreshInv'
<1> USE DEF FreshInv
<1>1. /\ reader' = [Today!NoRead EXCEPT !.pc = "state", !.state = state] /\ answer' = Today!NoAnswer
      /\ UNCHANGED <<scan_day, hours, opportunities, state, soak, scan_lock, step, scan, observed, fresh, cycles, losses>>
  BY DEF Today!ReadState
<1>2. CycleOK' /\ StateOK(state)' /\ LogOK' /\ observed' \subseteq 1 .. scan_day' /\ (\A d : ScannedOn(d)' <=> ScannedOn(d))
      /\ (\A s : StateOK(s)' <=> StateOK(s))
  BY <1>1, ReaderOnly
<1>3. state \in {Torn} \cup Today!Cycle /\ 0 \in Today!Day
  <2>1. 0 \in Today!Day
    BY FreshNumbers
  <2>2. QED
    BY <2>1 DEF Today!TypeOK
<1>4. /\ reader' \in [pc : {"idle", "state", "rows"}, state : {Torn} \cup Today!Cycle, scanned : Today!Day, full : BOOLEAN]
      /\ reader'.pc = "state" /\ reader'.state = state
  BY <1>1, <1>3 DEF Today!NoRead
<1>5. ReaderOK'
  <2>1. reader' \in [pc : {"idle", "state", "rows"}, state : {Torn} \cup Today!Cycle, scanned : Today!Day, full : BOOLEAN]'
    BY <1>4 DEF Today!Cycle, Today!Kind, Today!Board, Today!Opportunity, Today!Day
  <2>2. StateOK(reader.state)'
    BY <1>1, <1>4 DEF StateOK, Sound
  <2>3. QED
    BY <2>1, <2>2, <1>1, <1>4 DEF ReaderOK, FreshOK
<1>6. Today!TypeOK'
  BY <1>1, <1>4 DEF Today!TypeOK, Today!Cycle, Today!Kind, Today!Board, Today!Opportunity, Today!Day
<1>7. FreshOK'
  <2>1. ScannedOn(scan_day)' <=> ScannedOn(scan_day)
    BY <1>1 DEF ScannedOn
  <2>2. QED
    BY <2>1, <1>1 DEF FreshOK
<1>8. AnswerOK'
  BY <1>1 DEF AnswerOK, Today!CompletedIsToday, Today!FreshIsLasting, Today!DaysWereObserved, Today!Answered, Today!NoAnswer
<1>9. QED
  BY <1>1, <1>2, <1>5, <1>6, <1>7, <1>8

\* The last lines of the log, or all of it: their last scan is a scan of the
\* log, and of all lines it is the last.
LEMMA LinesRead == ASSUME Today!FreshnessAssumption, FreshInv, Today!ReadSoak PROVE FreshInv'
<1> USE DEF FreshInv
<1>1. PICK rows :
        /\ rows = IF Len(soak) > Rows THEN Today!Recent ELSE soak
        /\ reader' = [reader EXCEPT !.pc = "rows", !.scanned = Today!LastScan(rows), !.full = Len(rows) = Rows]
  BY DEF Today!ReadSoak
<1>2. reader.pc = "state" /\ UNCHANGED <<scan_day, hours, opportunities, state, soak, scan_lock, step, scan, answer, observed, fresh, cycles, losses>>
  BY DEF Today!ReadSoak
<1>3. soak \in Seq(Row) /\ Len(soak) \in Nat /\ DOMAIN soak = 1 .. Len(soak) /\ Rows \in Nat \ {0}
  <2>1. Rows \in Nat \ {0}
    BY FreshNumbers
  <2>2. soak \in Seq(Row)
    BY DEF Today!TypeOK, Row
  <2>3. QED
    BY <2>1, <2>2
<1>4. /\ rows \in Seq(Row) /\ \A k \in DOMAIN rows : \E j \in DOMAIN soak : rows[k] = soak[j]
      /\ rows = soak \/ Len(rows) = Rows
  <2>1. CASE Len(soak) > Rows
    <3>1. rows = SubSeq(soak, Len(soak) - Rows + 1, Len(soak))
      BY <1>1, <2>1 DEF Today!Recent
    <3>2. /\ Len(soak) - Rows + 1 \in 1 .. Len(soak) /\ Len(soak) \in 1 .. Len(soak)
          /\ Len(soak) - (Len(soak) - Rows + 1) + 1 = Rows
      BY <1>3, <2>1
    <3>3. PICK from \in 1 .. Len(soak) : from = Len(soak) - Rows + 1
      BY <3>2
    <3>4. rows \in Seq(Row) /\ Len(rows) = Rows /\ \A k \in 1 .. Rows : rows[k] = soak[from + k - 1] /\ from + k - 1 \in DOMAIN soak
      BY <1>3, <3>1, <3>2, <3>3
    <3>5. DOMAIN rows = 1 .. Rows
      BY <3>4
    <3>6. QED
      BY <3>4, <3>5
  <2>2. CASE ~ (Len(soak) > Rows)
    BY <1>1, <1>3, <2>2
  <2>3. QED
    BY <2>1, <2>2
<1>5. PICK last : last = Today!LastScan(rows)
  OBVIOUS
<1>6. last # 0 => ScannedOn(last)
  BY <1>4, <1>5, LastScanIs DEF ScannedOn
<1>7. last \in 0 .. scan_day /\ last \in Today!Day
  <2>1. last # 0 => last \in 1 .. scan_day
    BY <1>6 DEF ScannedOn, LogOK
  <2>2. QED
    BY <2>1, FreshNumbers
<1>8. rows = soak /\ ScannedOn(scan_day) => last = scan_day
  <2>1. ASSUME rows = soak, ScannedOn(scan_day) PROVE last = scan_day
    <3>1. PICK j \in DOMAIN soak : soak[j].symbols /\ soak[j].day = scan_day
      BY <2>1 DEF ScannedOn
    <3>2. PICK k \in DOMAIN soak : last = soak[k].day /\ j <= k
      BY <2>1, <3>1, <1>4, <1>5, LastScanIs
    <3>3. scan_day <= last
      <4>1. CASE j = k
        BY <4>1, <3>1, <3>2, FreshNumbers
      <4>2. CASE j < k
        BY <4>2, <3>1, <3>2 DEF LogOK
      <4>3. QED
        BY <3>2, <4>1, <4>2, <1>3
    <3>4. QED
      BY <3>3, <1>7, FreshNumbers
  <2>2. QED
    BY <2>1
<1>9. /\ reader'.pc = "rows" /\ reader'.state = reader.state /\ reader'.scanned = last /\ (reader'.full <=> Len(rows) = Rows)
      /\ reader' \in [pc : {"idle", "state", "rows"}, state : {Torn} \cup Today!Cycle, scanned : Today!Day, full : BOOLEAN]
  <2>1. (Len(rows) = Rows) \in BOOLEAN
    BY SMT
  <2>2. PICK b : b = (Len(rows) = Rows) /\ b \in BOOLEAN
    BY <2>1
  <2>3. reader' = [reader EXCEPT !.pc = "rows", !.scanned = last, !.full = b]
    BY <1>1, <1>5, <2>2
  <2>4. reader'.pc = "rows" /\ reader'.state = reader.state /\ reader'.scanned = last /\ reader'.full = b
    BY <2>3 DEF ReaderOK
  <2>5. reader' \in [pc : {"idle", "state", "rows"}, state : {Torn} \cup Today!Cycle, scanned : Today!Day, full : BOOLEAN]
    BY <2>2, <2>3, <1>7 DEF ReaderOK
  <2>6. QED
    BY <2>2, <2>4, <2>5
<1>10. CycleOK' /\ StateOK(state)' /\ LogOK' /\ observed' \subseteq 1 .. scan_day' /\ (\A d : ScannedOn(d)' <=> ScannedOn(d))
       /\ (\A s : StateOK(s)' <=> StateOK(s))
  BY <1>2, ReaderOnly
<1>11. ReaderOK'
  <2>1. reader' \in [pc : {"idle", "state", "rows"}, state : {Torn} \cup Today!Cycle, scanned : Today!Day, full : BOOLEAN]'
    BY <1>9 DEF Today!Cycle, Today!Kind, Today!Board, Today!Opportunity, Today!Day
  <2>2. StateOK(reader.state)'
    BY <1>2, <1>9 DEF ReaderOK, StateOK, Sound
  <2>3. reader'.scanned # 0 => ScannedOn(reader.scanned)'
    BY <1>2, <1>6, <1>9 DEF ScannedOn
  <2>4. fresh = scan_day => reader'.full \/ reader'.scanned = scan_day
    BY <1>4, <1>8, <1>9 DEF FreshOK
  <2>5. QED
    BY <2>1, <2>2, <2>3, <2>4, <1>2, <1>9 DEF ReaderOK
<1>12. Today!TypeOK'
  BY <1>2, <1>9 DEF Today!TypeOK, Today!Cycle, Today!Kind, Today!Board, Today!Opportunity, Today!Day
<1>13. FreshOK'
  <2>1. ScannedOn(scan_day)' <=> ScannedOn(scan_day)
    BY <1>2 DEF ScannedOn
  <2>2. QED
    BY <2>1, <1>2 DEF FreshOK
<1>14. AnswerOK'
  BY <1>2 DEF AnswerOK, Today!CompletedIsToday, Today!FreshIsLasting, Today!DaysWereObserved, Today!Answered
<1>15. QED
  BY <1>2, <1>10, <1>11, <1>12, <1>13, <1>14

\* FRESH is data and a scan of today.
LEMMA DeriveIs ==
  ASSUME scan_day \in Nat \ {0}, NEW latest \in 0 .. scan_day, NEW scanned \in 0 .. scan_day
  PROVE  /\ Today!Derive(latest, scanned) \in Today!Verdict
         /\ Today!Derive(latest, scanned) = "FRESH" <=> latest = scan_day /\ scanned = scan_day
<1>1. CASE latest = 0
  BY <1>1 DEF Today!Derive, Today!Verdict
<1>2. CASE latest > 0 /\ latest < scan_day
  BY <1>2 DEF Today!Derive, Today!Verdict
<1>3. CASE latest = scan_day /\ scanned = 0
  BY <1>3 DEF Today!Derive, Today!Verdict
<1>4. CASE latest = scan_day /\ scanned = scan_day
  BY <1>4 DEF Today!Derive, Today!Verdict
<1>5. CASE latest = scan_day /\ scanned \in 1 .. scan_day - 1
  BY <1>5 DEF Today!Derive, Today!Verdict
<1>6. QED
  BY <1>1, <1>2, <1>3, <1>4, <1>5

LEMMA ConcludeIs ==
  ASSUME NEW s, NEW scanned
  PROVE  /\ Today!Conclude(s, scanned) \in Today!Conclusion
         /\ Today!Conclude(s, scanned) # "NO_VALID_SCAN_EVIDENCE" => s # Torn /\ s.kind = "scan"
<1>1. CASE s = Torn \/ scanned = 0
  BY <1>1 DEF Today!Conclude, Today!Conclusion
<1>2. CASE s # Torn /\ scanned # 0
  BY <1>2 DEF Today!Conclude, Today!Conclusion
<1>3. QED
  BY <1>1, <1>2

LEMMA AnswerGiven == ASSUME Today!FreshnessAssumption, FreshInv, Today!Answer PROVE FreshInv'
<1> USE DEF FreshInv
<1> DEFINE verdict == Today!Derive(IF reader.state = Torn THEN 0 ELSE reader.state.day, reader.scanned)
           conclusion == Today!Conclude(reader.state, reader.scanned)
<1>1. /\ reader.pc = "rows" /\ reader' = Today!NoRead
      /\ answer' = [day |-> scan_day, verdict |-> verdict, conclusion |-> conclusion, state |-> reader.state,
                    full |-> reader.full, again |-> fresh = scan_day, days |-> Today!TradingDays]
      /\ fresh' = IF verdict = "FRESH" THEN scan_day ELSE fresh
      /\ UNCHANGED <<scan_day, hours, opportunities, state, soak, scan_lock, step, scan, observed, cycles, losses>>
  BY DEF Today!Answer
<1>2. /\ answer'.day = scan_day /\ answer'.verdict = verdict /\ answer'.conclusion = conclusion /\ answer'.state = reader.state
      /\ answer'.full = reader.full /\ answer'.again = (fresh = scan_day) /\ answer'.days = Today!TradingDays
  BY <1>1
<1>3. scan_day \in Nat \ {0} /\ scan_day \in 1 .. MaxDays /\ 0 \in Today!Day /\ scan_day \in Today!Day
  BY FreshNumbers
<1>4. StateOK(reader.state) /\ (reader.scanned # 0 => ScannedOn(reader.scanned))
  BY <1>1 DEF ReaderOK
<1>5. reader.scanned \in 0 .. scan_day /\ (reader.scanned # 0 => reader.scanned \notin Weekend)
  <2>1. \A d : ScannedOn(d) => d \in 1 .. scan_day /\ d \notin Weekend
    BY DEF ScannedOn, LogOK
  <2>2. reader.scanned # 0 => reader.scanned \in 1 .. scan_day /\ reader.scanned \notin Weekend
    BY <1>4, <2>1
  <2>3. QED
    BY <2>2, <1>3
<1>6. PICK latest \in 0 .. scan_day : latest = (IF reader.state = Torn THEN 0 ELSE reader.state.day)
  <2>1. reader.state # Torn => reader.state.day \in 1 .. scan_day
    BY <1>4 DEF StateOK
  <2>2. QED
    BY <2>1, <1>3
<1>7. verdict \in Today!Verdict /\ (verdict = "FRESH" <=> latest = scan_day /\ reader.scanned = scan_day)
  BY <1>3, <1>5, <1>6, DeriveIs
<1>8. verdict = "FRESH" <=> reader.state # Torn /\ reader.state.day = scan_day /\ reader.scanned = scan_day
  BY <1>3, <1>6, <1>7
<1>9. conclusion \in Today!Conclusion /\ (conclusion # "NO_VALID_SCAN_EVIDENCE" => reader.state # Torn /\ reader.state.kind = "scan")
  BY ConcludeIs
<1>10. Today!TradingDays \subseteq observed \ Weekend /\ observed \subseteq 1 .. MaxDays
  BY DEF Today!TradingDays, LogOK, Today!TypeOK
<1>11. CycleOK' /\ StateOK(state)' /\ LogOK' /\ observed' \subseteq 1 .. scan_day'
  BY <1>1, ReaderOnly
<1>12. reader'.pc = "idle" /\ reader' \in [pc : {"idle", "state", "rows"}, state : {Torn} \cup Today!Cycle, scanned : Today!Day, full : BOOLEAN]
       /\ reader'.state = Torn
  BY <1>1, <1>3 DEF Today!NoRead
<1>13. ReaderOK'
  BY <1>12 DEF ReaderOK, Today!Cycle, Today!Kind, Today!Board, Today!Opportunity, Today!Day
<1>14. Today!TypeOK'
  <2>1. fresh' \in Today!Day
    BY <1>1, <1>3 DEF Today!TypeOK
  <2>2. answer'.days \subseteq 1 .. MaxDays /\ answer'.day \in 1 .. MaxDays /\ answer'.verdict \in Today!Verdict /\ answer'.conclusion \in Today!Conclusion
    BY <1>2, <1>3, <1>7, <1>9, <1>10
  <2>3. Today!Cycle' = Today!Cycle /\ Today!Board' = Today!Board /\ Today!Kind' = Today!Kind /\ Today!Day' = Today!Day
    BY DEF Today!Cycle, Today!Kind, Today!Board, Today!Opportunity, Today!Day
  <2>4. QED
    BY <1>1, <1>12, <2>1, <2>2, <2>3 DEF Today!TypeOK
<1>15. FreshOK'
  <2>1. CASE verdict = "FRESH"
    <3>1. fresh' = scan_day /\ ScannedOn(scan_day) /\ (state = Torn \/ state.day = scan_day)
      BY <2>1, <1>1, <1>3, <1>4, <1>8 DEF ReaderOK
    <3>2. scan_day' = scan_day /\ state' = state /\ soak' = soak
      BY <1>1
    <3>3. fresh' <= scan_day'
      BY <3>1, <3>2, <1>3
    <3>4. ScannedOn(scan_day)'
      BY <3>1, <3>2 DEF ScannedOn
    <3>5. QED
      BY <3>1, <3>2, <3>3, <3>4 DEF FreshOK
  <2>2. CASE verdict # "FRESH"
    BY <2>2, <1>1 DEF FreshOK, ScannedOn
  <2>3. QED
    BY <2>1, <2>2
<1>16. Today!CompletedIsToday'
  <2>1. ASSUME verdict = "FRESH", conclusion # "NO_VALID_SCAN_EVIDENCE"
        PROVE  scan_day \in observed /\ \A c \in reader.state.quoted : reader.state.board[c].on = scan_day
    BY <2>1, <1>4, <1>8, <1>9 DEF StateOK, Sound
  <2>2. QED
    BY <2>1, <1>1, <1>2 DEF Today!CompletedIsToday
<1>17. Today!FreshIsLasting'
  <2>1. verdict = "FRESH" => scan_day \notin Weekend
    BY <1>3, <1>5, <1>8
  <2>2. fresh = scan_day => verdict = "FRESH" \/ reader.state = Torn \/ reader.full
    BY <1>1, <1>8 DEF ReaderOK
  <2>3. QED
    BY <2>1, <2>2, <1>2 DEF Today!FreshIsLasting
<1>18. Today!DaysWereObserved'
  BY <1>1, <1>2, <1>10 DEF Today!DaysWereObserved
<1>19. QED
  BY <1>11, <1>13, <1>14, <1>15, <1>16, <1>17, <1>18 DEF AnswerOK

LEMMA FreshStep == ASSUME Today!FreshnessAssumption, FreshInv, [Today!Next]_Today!vars PROVE FreshInv'
<1>1. CASE UNCHANGED Today!vars
  <2> USE <1>1 DEF Today!vars, FreshInv
  <2>1. Today!TypeOK'
    <3>1. Today!Cycle' = Today!Cycle /\ Today!Board' = Today!Board /\ Today!Kind' = Today!Kind /\ Today!Day' = Today!Day
      BY DEF Today!Cycle, Today!Kind, Today!Board, Today!Opportunity, Today!Day
    <3>2. QED
      BY <3>1 DEF Today!TypeOK
  <2>2. CycleOK' /\ StateOK(state)' /\ LogOK'
    BY ReaderOnly
  <2>3. QED
    BY <2>1, <2>2, NoFile
<1>2. QED
  BY <1>1, BeginOK, FilesWritten, CycleEnds, LineAdded, ClockTicks, StateRead, LinesRead, AnswerGiven DEF Today!Next

\* What FRESH and COMPLETED_* show was seen today, whatever overlaps, fails or
\* dies between the files (freshness.py, trading.py).
THEOREM FreshShowsToday == ASSUME Today!FreshnessAssumption PROVE Today!Spec => [](Today!TypeOK /\ Today!CompletedIsToday)
<1>1. Today!Init => FreshInv
  BY FreshInit
<1>2. FreshInv /\ [Today!Next]_Today!vars => FreshInv'
  BY FreshStep
<1>3. FreshInv => Today!TypeOK /\ Today!CompletedIsToday
  BY DEF FreshInv, AnswerOK
<1>4. QED
  BY <1>1, <1>2, <1>3, PTL DEF Today!Spec

\* A weekend is never FRESH, a day that was stays so unless state.json is torn
\* or the scan has left the lines read, and no day counts as a trading day that
\* no cycle observed (freshness.py, validation.py).
THEOREM FreshDaysLast == ASSUME Today!FreshnessAssumption PROVE Today!Spec => [](Today!FreshIsLasting /\ Today!DaysWereObserved)
<1>1. Today!Init => FreshInv
  BY FreshInit
<1>2. FreshInv /\ [Today!Next]_Today!vars => FreshInv'
  BY FreshStep
<1>3. FreshInv => Today!FreshIsLasting /\ Today!DaysWereObserved
  BY DEF FreshInv, AnswerOK
<1>4. QED
  BY <1>1, <1>2, <1>3, PTL DEF Today!Spec
-----------------------------------------------------------------------------
(* The evaluation of a strategy (StrategyRound), for any calls, strategies *)
(* and universe.  A directory has one owner as long as no second call has  *)
(* taken its name, and as long as nothing has met the shared data one      *)
(* sidecar at a time works on it, from the first symbol to the last.       *)

CONSTANTS Call, Toolset, Universe, Newcomer, Name, MaxSeconds, MaxKills, MaxChanges
VARIABLES symbols, round_csv, store, used, round, evidence, round_answers, second, kills, changes, disturbed

Round == INSTANCE StrategyRound WITH csv <- round_csv, call <- round, answers <- round_answers

Traded == Round!Elements(Universe) \cup {Newcomer}
Slot == {<<>>} \cup (Name \X Nat)

\* A call on its way: before its evaluation and after it, in the sidecar, and
\* with the panel it has read.
Resting == [at : {"idle", "checked", "returning", "ended"}, dir : Slot]
Working == [at : {"staging", "filling", "dumping", "reading"}, dir : Slot, i : Nat \ {0}, symbols : Seq(Traded)]
Replaying == [at : {"replaying"}, dir : Slot, covered : BOOLEAN]
RoundTypes ==
  /\ symbols \in Seq(Traded)
  /\ DOMAIN round_csv \subseteq Round!Elements(symbols) /\ \A x \in DOMAIN round_csv : round_csv[x] \in {"torn", "whole"}
  /\ DOMAIN store = {"exists", "data"} /\ store.exists \in BOOLEAN
  /\ DOMAIN store.data \subseteq Round!Elements(symbols) /\ \A x \in DOMAIN store.data : store.data[x] \in {"torn", "whole"}
  /\ round \in [Call -> Resting \cup Working \cup Replaying]
  /\ \A c \in Call : round[c].at \in Round!InSidecar => Round!Elements(round[c].symbols) \subseteq Round!Elements(symbols)
  /\ \A c \in Call : round[c].at = "filling" => round[c].i \in DOMAIN round[c].symbols
  /\ second \in 0 .. MaxSeconds /\ kills \in 0 .. MaxKills /\ changes \in 0 .. MaxChanges

\* A directory, once taken, is kept; what is in one that no other call has
\* taken is of the call that has.
Alone(c) == \A d \in Call \ {c} : round[d].dir # round[c].dir
OwnOK ==
  /\ \A c \in Call : round[c].at \in {"idle", "checked"} => round[c].dir = <<>>
  /\ \A c \in Call : round[c].at \notin {"idle", "checked", "ended"} => round[c].dir # <<>>
  /\ \A c \in Call : round[c].at = "returning" =>
       /\ round[c].dir \in DOMAIN evidence /\ evidence[round[c].dir].of \in Call
       /\ Alone(c) => evidence[round[c].dir].of = c /\ evidence[round[c].dir].gate = "PASS"
  /\ \A a \in round_answers :
       /\ a.by \in Call /\ a.of \in Call /\ round[a.by].at = "ended" /\ round[a.by].dir # <<>>
       /\ Alone(a.by) => a.of = a.by /\ a.gate = "PASS"
  /\ \A d \in DOMAIN evidence : evidence[d].of \in Call

\* While nothing has met the shared data, one sidecar at a time works on it.
Whole(f, n) == \A j \in DOMAIN Universe : j < n => Universe[j] \in DOMAIN f /\ f[Universe[j]] = "whole"
Throughout == Len(Universe) + 1
PanelOK ==
  /\ symbols = Universe
  /\ \A c, d \in Call : round[c].at \in Round!InSidecar /\ round[d].at \in Round!InSidecar => c = d
  /\ \A c \in Call :
       /\ round[c].at \in Round!InSidecar => round[c].symbols = Universe
       /\ round[c].at \in {"staging", "filling"} => Whole(round_csv, round[c].i)
       /\ round[c].at = "dumping" => store.exists /\ Whole(round_csv, Throughout) /\ \A x \in DOMAIN store.data : store.data[x] = "whole"
       /\ round[c].at = "reading" => store.exists
       /\ round[c].at = "replaying" => round[c].covered
  /\ \A x \in DOMAIN round_csv : round_csv[x] = "torn" => \E c \in Call : round[c].at = "filling" /\ x = Universe[round[c].i]
  /\ store.exists => Whole(store.data, Throughout) \/ \E c \in Call : round[c].at = "dumping"
  /\ \A d \in DOMAIN evidence : evidence[d].covered
  /\ \A a \in round_answers : a.covered

RoundInv == RoundTypes /\ OwnOK /\ (disturbed \/ PanelOK)

LEMMA UniverseIs ==
  ASSUME Round!RoundAssumption
  PROVE  /\ Universe \in Seq(Round!Elements(Universe)) /\ Universe \in Seq(Traded)
         /\ Len(Universe) \in Nat /\ DOMAIN Universe = 1 .. Len(Universe)
<1>1. Universe \in Seq(Round!Elements(Universe))
  BY DEF Round!RoundAssumption, Round!Elements
<1>2. Round!Elements(Universe) \subseteq Traded
  BY DEF Traded
<1>3. QED
  BY <1>1, <1>2

\* One call takes a step.
LEMMA OneMoves ==
  ASSUME RoundTypes, NEW c \in Call, NEW r \in Resting \cup Working \cup Replaying, round' = [round EXCEPT ![c] = r]
  PROVE  round' \in [Call -> Resting \cup Working \cup Replaying] /\ round'[c] = r /\ \A d \in Call \ {c} : round'[d] = round[d]
BY DEF RoundTypes

LEMMA CallIs ==
  ASSUME RoundTypes, NEW c \in Call
  PROVE  /\ round[c].at \in {"idle", "checked", "returning", "ended"} => round[c] \in Resting
         /\ round[c].at \in Round!InSidecar => round[c] \in Working
         /\ round[c].at = "replaying" => round[c] \in Replaying
         /\ round[c].dir \in Slot
         /\ round[c].at \in {"idle", "checked", "replaying", "returning", "ended"} \cup Round!InSidecar
<1>1. round[c] \in Resting \cup Working \cup Replaying
  BY DEF RoundTypes
<1>2. CASE round[c] \in Resting
  BY <1>2 DEF Resting, Round!InSidecar
<1>3. CASE round[c] \in Working
  BY <1>3 DEF Working, Round!InSidecar
<1>4. CASE round[c] \in Replaying
  BY <1>4 DEF Replaying, Round!InSidecar
<1>5. QED
  BY <1>1, <1>2, <1>3, <1>4

\* A call goes on, or ends, in the directory it has.
LEMMA OwnStays ==
  ASSUME OwnOK, NEW c \in Call, UNCHANGED <<evidence, round_answers>>, \A d \in Call \ {c} : round'[d] = round[d],
         round'[c].dir = round[c].dir, round'[c].at \notin {"idle", "returning"}, round[c].at # "ended",
         round'[c].at = "checked" => round[c].at = "idle",
         round'[c].at \notin {"checked", "ended"} => round[c].at \notin {"idle", "checked"}
  PROVE  OwnOK'
<1>1. \A d \in Call : round'[d].dir = round[d].dir
  BY Zenon
<1>2. \A d \in Call : Alone(d)' <=> Alone(d)
  BY <1>1 DEF Alone
<1>3. \A d \in Call : round'[d].at \in {"idle", "checked"} => round'[d].dir = <<>>
  BY <1>1 DEF OwnOK
<1>4. \A d \in Call : round'[d].at \notin {"idle", "checked", "ended"} => round'[d].dir # <<>>
  BY <1>1 DEF OwnOK
<1>5. \A d \in Call : round'[d].at = "returning" => round[d].at = "returning"
  OBVIOUS
<1>6. \A d \in Call : round[d].at = "ended" => round'[d].at = "ended"
  OBVIOUS
<1>7. QED
  BY <1>1, <1>2, <1>3, <1>4, <1>5, <1>6 DEF OwnOK

\* A step that leaves the shared data alone.
LEMMA TypesStay ==
  ASSUME RoundTypes, NEW c \in Call, NEW r \in Resting \cup Working \cup Replaying, round' = [round EXCEPT ![c] = r],
         UNCHANGED <<symbols, round_csv, store, second, changes>>, kills' \in 0 .. MaxKills,
         r.at \in Round!InSidecar => Round!Elements(r.symbols) \subseteq Round!Elements(symbols),
         r.at = "filling" => r.i \in DOMAIN r.symbols
  PROVE  RoundTypes'
<1>1. round' \in [Call -> Resting \cup Working \cup Replaying] /\ round'[c] = r /\ \A d \in Call \ {c} : round'[d] = round[d]
  BY OneMoves
<1>2. \A d \in Call : round'[d].at \in Round!InSidecar => Round!Elements(round'[d].symbols) \subseteq Round!Elements(symbols)
  BY <1>1 DEF RoundTypes
<1>3. \A d \in Call : round'[d].at = "filling" => round'[d].i \in DOMAIN round'[d].symbols
  BY <1>1 DEF RoundTypes
<1>4. Round!Elements(symbols)' = Round!Elements(symbols) /\ Round!InSidecar' = Round!InSidecar
  BY DEF Round!Elements, Round!InSidecar
<1>5. (\A d \in Call : round[d].at \in Round!InSidecar => Round!Elements(round[d].symbols) \subseteq Round!Elements(symbols))'
  BY <1>2 DEF Round!Elements, Round!InSidecar
<1>6. (DOMAIN round_csv \subseteq Round!Elements(symbols) /\ DOMAIN store.data \subseteq Round!Elements(symbols))'
  BY <1>4 DEF RoundTypes
<1>7. QED
  BY <1>1, <1>3, <1>5, <1>6 DEF RoundTypes

\* A call outside the sidecar goes on.
LEMMA PanelStays ==
  ASSUME disturbed \/ PanelOK, NEW c \in Call, UNCHANGED <<symbols, round_csv, store, disturbed>>,
         \A d \in Call \ {c} : round'[d] = round[d],
         round[c].at \notin Round!InSidecar, round'[c].at \notin Round!InSidecar \cup {"replaying"},
         PanelOK => (\A d \in DOMAIN evidence' : evidence'[d].covered) /\ \A a \in round_answers' : a.covered
  PROVE  (disturbed \/ PanelOK)'
<1> SUFFICES ASSUME PanelOK PROVE PanelOK'
  OBVIOUS
<1> USE DEF Round!InSidecar
<1>1. \A d \in Call : round'[d].at \in Round!InSidecar \cup {"replaying"} => d # c /\ round'[d] = round[d]
  OBVIOUS
<1>2. \A d \in Call : round[d].at \in Round!InSidecar => d # c /\ round'[d] = round[d]
  OBVIOUS
<1>3. (\A e, d \in Call : round[e].at \in Round!InSidecar /\ round[d].at \in Round!InSidecar => e = d)'
  BY <1>1 DEF PanelOK
<1>4. (\A d \in Call :
         /\ round[d].at \in Round!InSidecar => round[d].symbols = Universe
         /\ round[d].at \in {"staging", "filling"} => Whole(round_csv, round[d].i)
         /\ round[d].at = "dumping" => store.exists /\ Whole(round_csv, Throughout) /\ \A x \in DOMAIN store.data : store.data[x] = "whole"
         /\ round[d].at = "reading" => store.exists
         /\ round[d].at = "replaying" => round[d].covered)'
  BY <1>1 DEF PanelOK, Whole, Throughout
<1>5. (\A x \in DOMAIN round_csv : round_csv[x] = "torn" => \E d \in Call : round[d].at = "filling" /\ x = Universe[round[d].i])'
  BY <1>2 DEF PanelOK
<1>6. (store.exists => Whole(store.data, Throughout) \/ \E d \in Call : round[d].at = "dumping")'
  BY <1>2 DEF PanelOK, Whole, Throughout
<1>7. QED
  BY <1>3, <1>4, <1>5, <1>6 DEF PanelOK

LEMMA RoundInit == ASSUME Round!RoundAssumption, Round!Init PROVE RoundInv
<1> USE DEF Round!Init, Round!Idle, Round!NoRound, Round!InSidecar
<1>1. round \in [Call -> Resting]
  BY DEF Resting, Slot
<1>2. round \in [Call -> Resting \cup Working \cup Replaying]
  BY <1>1
<1>3. DOMAIN round_csv = {} /\ DOMAIN store.data = {} /\ DOMAIN evidence = {}
  OBVIOUS
<1>4. \A c \in Call : round[c].at = "idle" /\ round[c].dir = <<>>
  OBVIOUS
<1>5. symbols \in Seq(Traded)
  BY UniverseIs
<1>6. RoundTypes
  BY <1>2, <1>3, <1>4, <1>5 DEF RoundTypes, Round!RoundAssumption
<1>7. OwnOK
  BY <1>3, <1>4 DEF OwnOK
<1>8. PanelOK
  BY <1>3, <1>4 DEF PanelOK
<1>9. QED
  BY <1>6, <1>7, <1>8 DEF RoundInv

LEMMA CheckStep == ASSUME Round!RoundAssumption, RoundInv, NEW c \in Call, Round!CheckRound(c) PROVE RoundInv'
<1> USE DEF RoundInv
<1>0. round[c] = [at |-> "idle", dir |-> <<>>] /\ round \in [Call -> Resting \cup Working \cup Replaying]
  BY DEF Round!CheckRound, Round!Idle, RoundTypes
<1>1. PICK r \in Resting : round' = [round EXCEPT ![c] = r] /\ r.at \in {"checked", "ended"} /\ r.dir = <<>>
  <2>1. CASE used[Toolset[c]] >= 1
    <3>1. [at |-> "ended", dir |-> <<>>] \in Resting
      BY DEF Resting, Slot
    <3>2. QED
      BY <1>0, <2>1, <3>1 DEF Round!CheckRound, Round!End
  <2>2. CASE ~ (used[Toolset[c]] >= 1)
    <3>1. [at |-> "checked", dir |-> <<>>] \in Resting
      BY DEF Resting, Slot
    <3>2. [round[c] EXCEPT !.at = "checked"] = [at |-> "checked", dir |-> <<>>]
      BY <1>0
    <3>3. round' = [round EXCEPT ![c] = [at |-> "checked", dir |-> <<>>]]
      BY <1>0, <2>2, <3>2 DEF Round!CheckRound
    <3>4. QED
      BY <3>1, <3>3
  <2>3. QED
    BY <2>1, <2>2
<1>2. round'[c] = r /\ \A d \in Call \ {c} : round'[d] = round[d]
  BY <1>1, OneMoves
<1>3. UNCHANGED <<symbols, round_csv, store, evidence, round_answers, second, kills, changes, disturbed>>
  BY DEF Round!CheckRound
<1>4. RoundTypes'
  BY <1>1, <1>3, TypesStay DEF RoundTypes, Round!InSidecar
<1>5. OwnOK'
  BY <1>0, <1>1, <1>2, <1>3, OwnStays
<1>6. (disturbed \/ PanelOK)'
  BY <1>0, <1>1, <1>2, <1>3, PanelStays DEF PanelOK, Round!InSidecar
<1>7. QED
  BY <1>4, <1>5, <1>6

\* A call ends where it is.
LEMMA EndIs ==
  ASSUME RoundTypes, NEW c \in Call, Round!End(c)
  PROVE  \E r \in Resting : r.at = "ended" /\ r.dir = round[c].dir /\ round' = [round EXCEPT ![c] = r]
<1>1. [at |-> "ended", dir |-> round[c].dir] \in Resting
  BY CallIs DEF Resting
<1>2. round' = [round EXCEPT ![c] = [at |-> "ended", dir |-> round[c].dir]]
  BY DEF Round!End
<1>3. QED
  BY <1>1, <1>2

LEMMA RefuseStep == ASSUME Round!RoundAssumption, RoundInv, NEW c \in Call, Round!RefuseSpec(c) PROVE RoundInv'
<1> USE DEF RoundInv
<1>1. PICK r \in Resting : r.at = "ended" /\ r.dir = round[c].dir /\ round' = [round EXCEPT ![c] = r]
  BY EndIs DEF Round!RefuseSpec
<1>2. round'[c] = r /\ \A d \in Call \ {c} : round'[d] = round[d]
  BY <1>1, OneMoves
<1>3. round[c].at = "checked" /\ UNCHANGED <<symbols, round_csv, store, evidence, round_answers, second, kills, changes, disturbed>>
  BY DEF Round!RefuseSpec
<1>4. RoundTypes'
  BY <1>1, <1>3, TypesStay DEF RoundTypes, Round!InSidecar
<1>5. OwnOK'
  BY <1>1, <1>2, <1>3, OwnStays
<1>6. (disturbed \/ PanelOK)'
  BY <1>1, <1>2, <1>3, PanelStays DEF PanelOK, Round!InSidecar
<1>7. QED
  BY <1>4, <1>5, <1>6

LEMMA KillStep == ASSUME Round!RoundAssumption, RoundInv, NEW c \in Call, Round!Kill(c) PROVE RoundInv'
<1> USE DEF RoundInv
<1>1. PICK r \in Resting : r.at = "ended" /\ r.dir = round[c].dir /\ round' = [round EXCEPT ![c] = r]
  BY EndIs DEF Round!Kill
<1>2. round'[c] = r /\ \A d \in Call \ {c} : round'[d] = round[d]
  BY <1>1, OneMoves
<1>3. round[c].at \in Round!InSidecar /\ disturbed' /\ UNCHANGED <<symbols, round_csv, store, evidence, round_answers, second, changes>>
  BY DEF Round!Kill
<1>4. kills' \in 0 .. MaxKills
  BY DEF Round!Kill, RoundTypes, Round!RoundAssumption
<1>5. RoundTypes'
  BY <1>1, <1>3, <1>4, TypesStay DEF Round!InSidecar
<1>6. OwnOK'
  BY <1>1, <1>2, <1>3, OwnStays DEF Round!InSidecar
<1>7. QED
  BY <1>3, <1>5, <1>6

LEMMA UniverseStep == ASSUME Round!RoundAssumption, RoundInv, Round!ChangeUniverse PROVE RoundInv'
<1> USE DEF RoundInv
<1>1. symbols' = Append(symbols, Newcomer) /\ disturbed' /\ UNCHANGED <<round_csv, store, round, evidence, round_answers, second, kills>>
  BY DEF Round!ChangeUniverse
<1>2. changes' \in 0 .. MaxChanges
  BY DEF Round!ChangeUniverse, RoundTypes, Round!RoundAssumption
<1>3. symbols \in Seq(Traded) /\ Newcomer \in Traded
  BY DEF RoundTypes, Traded
<1>4. symbols' \in Seq(Traded)
  BY <1>1, <1>3
<1>5. \A i \in DOMAIN symbols : i \in DOMAIN symbols' /\ symbols'[i] = symbols[i]
  BY <1>1, <1>3
<1>6. Round!Elements(symbols) \subseteq Round!Elements(symbols')
  BY <1>5 DEF Round!Elements
<1>7. Round!Elements(symbols') = Round!Elements(symbols)'
  BY DEF Round!Elements
<1>8. (\A c \in Call : round[c].at \in Round!InSidecar => Round!Elements(round[c].symbols) \subseteq Round!Elements(symbols))'
  <2>1. \A c \in Call : round[c].at \in Round!InSidecar => Round!Elements(round[c].symbols) \subseteq Round!Elements(symbols')
    BY <1>6 DEF RoundTypes
  <2>2. QED
    BY <1>1, <2>1 DEF Round!Elements, Round!InSidecar
<1>9. (DOMAIN round_csv \subseteq Round!Elements(symbols) /\ DOMAIN store.data \subseteq Round!Elements(symbols))'
  BY <1>1, <1>6, <1>7 DEF RoundTypes
<1>10. RoundTypes'
  BY <1>1, <1>2, <1>4, <1>8, <1>9 DEF RoundTypes
<1>11. OwnOK'
  BY <1>1 DEF OwnOK, Alone
<1>12. QED
  BY <1>1, <1>10, <1>11

\* A name and a second are a directory; another call may have taken it.
LEMMA StartStep == ASSUME Round!RoundAssumption, RoundInv, NEW c \in Call, Round!StartEvaluation(c) PROVE RoundInv'
<1> USE DEF RoundInv
<1>1. PICK n \in Name : round' = [round EXCEPT ![c] = [at |-> "staging", dir |-> <<n, second>>, i |-> 1, symbols |-> symbols]]
  BY DEF Round!StartEvaluation, Round!ChildDir
<1>2. PICK r : r = [at |-> "staging", dir |-> <<n, second>>, i |-> 1, symbols |-> symbols]
  OBVIOUS
<1>3. /\ round[c].at = "checked" /\ UNCHANGED <<symbols, round_csv, store, evidence, round_answers, second, kills, changes>>
      /\ disturbed' = (disturbed \/ \E d \in Call : round[d].at \in Round!InSidecar)
  BY DEF Round!StartEvaluation
<1>4. r \in Working
  <2>1. <<n, second>> \in Slot
    BY DEF Slot, RoundTypes, Round!RoundAssumption
  <2>2. QED
    BY <1>2, <2>1 DEF Working, RoundTypes
<1>5. round'[c] = r /\ \A d \in Call \ {c} : round'[d] = round[d]
  BY <1>1, <1>2, <1>4, OneMoves
<1>6. RoundTypes'
  BY <1>1, <1>2, <1>3, <1>4, TypesStay DEF RoundTypes, Round!InSidecar
<1>7. OwnOK'
  <2>1. round[c].dir = <<>>
    BY <1>3 DEF OwnOK
  <2>2. \A d \in Call \ {c} : round[d].dir # <<>> => (Alone(d)' => Alone(d))
    BY <1>5, <2>1 DEF Alone
  <2>3. \A d \in Call : round'[d].at \in {"idle", "checked"} => round'[d].dir = <<>>
    BY <1>2, <1>5 DEF OwnOK
  <2>4. \A d \in Call : round'[d].at \notin {"idle", "checked", "ended"} => round'[d].dir # <<>>
    BY <1>2, <1>5 DEF OwnOK
  <2>5. \A d \in Call : round'[d].at = "returning" => d # c /\ round'[d] = round[d] /\ round[d].dir # <<>>
    BY <1>2, <1>5 DEF OwnOK
  <2>6. (\A d \in Call : round[d].at = "returning" =>
           /\ round[d].dir \in DOMAIN evidence /\ evidence[round[d].dir].of \in Call
           /\ Alone(d) => evidence[round[d].dir].of = d /\ evidence[round[d].dir].gate = "PASS")'
    BY <1>3, <2>2, <2>5 DEF OwnOK
  <2>7. (\A a \in round_answers :
           /\ a.by \in Call /\ a.of \in Call /\ round[a.by].at = "ended" /\ round[a.by].dir # <<>>
           /\ Alone(a.by) => a.of = a.by /\ a.gate = "PASS")'
    <3>1. \A a \in round_answers : a.by \in Call \ {c} /\ round[a.by].dir # <<>> /\ round'[a.by] = round[a.by]
      BY <1>3, <1>5 DEF OwnOK
    <3>2. QED
      BY <1>3, <2>2, <3>1 DEF OwnOK
  <2>8. (\A d \in DOMAIN evidence : evidence[d].of \in Call)'
    BY <1>3 DEF OwnOK
  <2>9. QED
    BY <2>3, <2>4, <2>6, <2>7, <2>8 DEF OwnOK
<1>8. (disturbed \/ PanelOK)'
  <2> SUFFICES ASSUME ~ disturbed' PROVE PanelOK'
    OBVIOUS
  <2> USE DEF Round!InSidecar
  <2>1. PanelOK /\ \A d \in Call : round[d].at \notin Round!InSidecar
    BY <1>3
  <2>2. \A d \in Call : round'[d].at \in Round!InSidecar => d = c
    BY <1>5, <2>1
  <2>3. \A d \in Call : round'[d].at = "replaying" => d # c /\ round'[d] = round[d]
    BY <1>2, <1>5
  <2>4. Whole(round_csv, 1)
    BY UniverseIs DEF Whole
  <2>5. \A x \in DOMAIN round_csv : round_csv[x] # "torn"
    BY <2>1 DEF PanelOK
  <2>6. store.exists => Whole(store.data, Throughout)
    BY <2>1 DEF PanelOK
  <2>7. symbols = Universe
    BY <2>1 DEF PanelOK
  <2>8. (\A d \in Call :
           /\ round[d].at \in Round!InSidecar => round[d].symbols = Universe
           /\ round[d].at \in {"staging", "filling"} => Whole(round_csv, round[d].i)
           /\ round[d].at = "dumping" => store.exists /\ Whole(round_csv, Throughout) /\ \A x \in DOMAIN store.data : store.data[x] = "whole"
           /\ round[d].at = "reading" => store.exists
           /\ round[d].at = "replaying" => round[d].covered)'
    BY <1>2, <1>3, <1>5, <2>1, <2>2, <2>3, <2>4, <2>7 DEF PanelOK, Whole
  <2>9. (store.exists => Whole(store.data, Throughout))'
    BY <1>3, <2>6 DEF Whole, Throughout
  <2>10. QED
    BY <1>3, <2>1, <2>2, <2>5, <2>7, <2>8, <2>9 DEF PanelOK
<1>9. QED
  BY <1>6, <1>7, <1>8

LEMMA TickStep == ASSUME Round!RoundAssumption, RoundInv, Round!Tick PROVE RoundInv'
<1> USE DEF RoundInv
<1>1. UNCHANGED <<symbols, round_csv, store, round, evidence, round_answers, kills, changes, disturbed>>
  BY DEF Round!Tick
<1>2. second' \in 0 .. MaxSeconds
  BY DEF Round!Tick, RoundTypes, Round!RoundAssumption
<1>3. RoundTypes'
  <2>1. Round!Elements(symbols)' = Round!Elements(symbols)
    BY <1>1 DEF Round!Elements
  <2>2. (\A c \in Call : round[c].at \in Round!InSidecar => Round!Elements(round[c].symbols) \subseteq Round!Elements(symbols))'
    BY <1>1, <2>1 DEF RoundTypes, Round!Elements, Round!InSidecar
  <2>3. (DOMAIN round_csv \subseteq Round!Elements(symbols) /\ DOMAIN store.data \subseteq Round!Elements(symbols))'
    BY <1>1, <2>1 DEF RoundTypes
  <2>4. QED
    BY <1>1, <1>2, <2>2, <2>3 DEF RoundTypes
<1>4. OwnOK'
  BY <1>1 DEF OwnOK, Alone
<1>5. (disturbed \/ PanelOK)'
  BY <1>1 DEF PanelOK, Whole, Throughout, Round!InSidecar
<1>6. QED
  BY <1>3, <1>4, <1>5

\* The evidence of a directory is that of the last call that wrote there.
LEMMA EvidenceStep == ASSUME Round!RoundAssumption, RoundInv, NEW c \in Call, Round!WriteEvidence(c) PROVE RoundInv'
<1> USE DEF RoundInv
<1>1. PICK gate \in {"PASS", "UNSUPPORTED"} :
        /\ evidence' = Round!With(evidence, round[c].dir, [of |-> c, gate |-> gate, covered |-> round[c].covered])
        /\ IF gate = "PASS" THEN round' = [round EXCEPT ![c] = [at |-> "returning", dir |-> @.dir]] ELSE Round!End(c)
  BY DEF Round!WriteEvidence
<1>2. round[c].at = "replaying" /\ UNCHANGED <<symbols, round_csv, store, round_answers, second, kills, changes, disturbed>>
  BY DEF Round!WriteEvidence
<1>3. PICK r \in Resting : /\ round' = [round EXCEPT ![c] = r] /\ r.dir = round[c].dir
                           /\ r.at = IF gate = "PASS" THEN "returning" ELSE "ended"
  <2>1. CASE gate = "PASS"
    <3>1. [at |-> "returning", dir |-> round[c].dir] \in Resting
      BY CallIs DEF Resting
    <3>2. round' = [round EXCEPT ![c] = [at |-> "returning", dir |-> round[c].dir]]
      BY <1>1, <2>1
    <3>3. QED
      BY <2>1, <3>1, <3>2
  <2>2. CASE gate # "PASS"
    BY <1>1, <2>2, EndIs
  <2>3. QED
    BY <2>1, <2>2
<1>4. round'[c] = r /\ \A d \in Call \ {c} : round'[d] = round[d]
  BY <1>3, OneMoves
<1>5. /\ DOMAIN evidence' = DOMAIN evidence \cup {round[c].dir}
      /\ evidence'[round[c].dir] = [of |-> c, gate |-> gate, covered |-> round[c].covered]
      /\ \A d \in DOMAIN evidence \ {round[c].dir} : evidence'[d] = evidence[d]
  BY <1>1 DEF Round!With
<1>6. RoundTypes'
  BY <1>2, <1>3, TypesStay DEF RoundTypes, Round!InSidecar
<1>7. OwnOK'
  <2>1. \A d \in Call : round'[d].dir = round[d].dir
    BY <1>3, <1>4
  <2>2. \A d \in Call : Alone(d)' <=> Alone(d)
    BY <2>1 DEF Alone
  <2>3. round[c].dir # <<>>
    BY <1>2 DEF OwnOK
  <2>4. \A d \in Call : round'[d].at \in {"idle", "checked"} => round'[d].dir = <<>>
    BY <1>3, <1>4 DEF OwnOK
  <2>5. \A d \in Call : round'[d].at \notin {"idle", "checked", "ended"} => round'[d].dir # <<>>
    BY <1>3, <1>4, <2>3 DEF OwnOK
  <2>6. ASSUME NEW d \in Call, round'[d].at = "returning"
        PROVE  /\ round'[d].dir \in DOMAIN evidence' /\ evidence'[round'[d].dir].of \in Call
               /\ Alone(d) => evidence'[round'[d].dir].of = d /\ evidence'[round'[d].dir].gate = "PASS"
    <3>1. CASE d = c
      BY <1>3, <1>4, <1>5, <2>6, <3>1
    <3>2. CASE d # c /\ round[d].dir = round[c].dir
      BY <1>5, <2>1, <3>2 DEF Alone
    <3>3. CASE d # c /\ round[d].dir # round[c].dir
      BY <1>4, <1>5, <2>6, <3>3 DEF OwnOK
    <3>4. QED
      BY <3>1, <3>2, <3>3
  <2>7. (\A a \in round_answers :
           /\ a.by \in Call /\ a.of \in Call /\ round[a.by].at = "ended" /\ round[a.by].dir # <<>>
           /\ Alone(a.by) => a.of = a.by /\ a.gate = "PASS")'
    <3>1. \A a \in round_answers : a.by \in Call \ {c}
      BY <1>2 DEF OwnOK
    <3>2. QED
      BY <1>2, <1>4, <2>2, <3>1 DEF OwnOK
  <2>8. \A d \in DOMAIN evidence' : evidence'[d].of \in Call
    BY <1>5 DEF OwnOK
  <2>9. QED
    BY <2>2, <2>4, <2>5, <2>6, <2>7, <2>8 DEF OwnOK
<1>8. (disturbed \/ PanelOK)'
  <2>1. PanelOK => \A d \in DOMAIN evidence' : evidence'[d].covered
    BY <1>2, <1>5 DEF PanelOK
  <2>2. QED
    BY <1>2, <1>3, <1>4, <2>1, PanelStays DEF PanelOK, Round!InSidecar
<1>9. QED
  BY <1>6, <1>7, <1>8

LEMMA AnswerStep == ASSUME Round!RoundAssumption, RoundInv, NEW c \in Call, Round!Answer(c) PROVE RoundInv'
<1> USE DEF RoundInv
<1>1. PICK r \in Resting : r.at = "ended" /\ r.dir = round[c].dir /\ round' = [round EXCEPT ![c] = r]
  BY EndIs DEF Round!Answer
<1>2. round'[c] = r /\ \A d \in Call \ {c} : round'[d] = round[d]
  BY <1>1, OneMoves
<1>3. round[c].at = "returning" /\ UNCHANGED <<symbols, round_csv, store, evidence, second, kills, changes, disturbed>>
  BY DEF Round!Answer
<1>4. PICK e : e = evidence[round[c].dir]
  OBVIOUS
<1>5. round_answers' = round_answers \cup {[by |-> c, of |-> e.of, gate |-> e.gate, covered |-> e.covered]}
  BY <1>4 DEF Round!Answer
<1>6. /\ round[c].dir \in DOMAIN evidence /\ e.of \in Call /\ round[c].dir # <<>>
      /\ Alone(c) => e.of = c /\ e.gate = "PASS"
  BY <1>3, <1>4 DEF OwnOK
<1>7. RoundTypes'
  BY <1>1, <1>3, TypesStay DEF RoundTypes, Round!InSidecar
<1>8. OwnOK'
  <2>1. \A d \in Call : round'[d].dir = round[d].dir
    BY <1>1, <1>2
  <2>2. \A d \in Call : Alone(d)' <=> Alone(d)
    BY <2>1 DEF Alone
  <2>3. \A d \in Call : round'[d].at \in {"idle", "checked"} => round'[d].dir = <<>>
    BY <1>1, <1>2 DEF OwnOK
  <2>4. \A d \in Call : round'[d].at \notin {"idle", "checked", "ended"} => round'[d].dir # <<>>
    BY <1>1, <1>2 DEF OwnOK
  <2>5. (\A d \in Call : round[d].at = "returning" =>
           /\ round[d].dir \in DOMAIN evidence /\ evidence[round[d].dir].of \in Call
           /\ Alone(d) => evidence[round[d].dir].of = d /\ evidence[round[d].dir].gate = "PASS")'
    <3>1. \A d \in Call : round'[d].at = "returning" => d # c /\ round'[d] = round[d]
      BY <1>1, <1>2
    <3>2. QED
      BY <1>3, <2>2, <3>1 DEF OwnOK
  <2>6. ASSUME NEW a \in round_answers'
        PROVE  /\ a.by \in Call /\ a.of \in Call /\ round'[a.by].at = "ended" /\ round'[a.by].dir # <<>>
               /\ Alone(a.by)' => a.of = a.by /\ a.gate = "PASS"
    <3>1. CASE a \in round_answers
      <4>1. a.by \in Call \ {c}
        BY <1>3, <3>1 DEF OwnOK
      <4>2. QED
        BY <1>2, <2>2, <3>1, <4>1 DEF OwnOK
    <3>2. CASE a = [by |-> c, of |-> e.of, gate |-> e.gate, covered |-> e.covered]
      BY <1>1, <1>2, <1>6, <2>2, <3>2
    <3>3. QED
      BY <1>5, <3>1, <3>2
  <2>7. (\A d \in DOMAIN evidence : evidence[d].of \in Call)'
    BY <1>3 DEF OwnOK
  <2>8. QED
    BY <2>3, <2>4, <2>5, <2>6, <2>7 DEF OwnOK
<1>9. (disturbed \/ PanelOK)'
  <2>1. PanelOK => (\A d \in DOMAIN evidence' : evidence'[d].covered) /\ \A a \in round_answers' : a.covered
    BY <1>3, <1>4, <1>5, <1>6 DEF PanelOK
  <2>2. QED
    BY <1>1, <1>2, <1>3, <2>1, PanelStays DEF Round!InSidecar
<1>10. QED
  BY <1>7, <1>8, <1>9

\* The sidecar of a call goes on.
LEMMA SidecarTypes ==
  ASSUME RoundTypes, NEW c \in Call, NEW r \in Working, round' = [round EXCEPT ![c] = r],
         UNCHANGED <<symbols, second, kills, changes>>, round[c].at \in Round!InSidecar, r.symbols = round[c].symbols,
         r.at = "filling" => r.i \in DOMAIN r.symbols,
         DOMAIN round_csv' \subseteq Round!Elements(symbols), \A x \in DOMAIN round_csv' : round_csv'[x] \in {"torn", "whole"},
         DOMAIN store' = {"exists", "data"}, store'.exists \in BOOLEAN,
         DOMAIN store'.data \subseteq Round!Elements(symbols), \A x \in DOMAIN store'.data : store'.data[x] \in {"torn", "whole"}
  PROVE  RoundTypes'
<1>1. round' \in [Call -> Resting \cup Working \cup Replaying] /\ round'[c] = r /\ \A d \in Call \ {c} : round'[d] = round[d]
  BY OneMoves
<1>2. \A d \in Call : round'[d].at \in Round!InSidecar => Round!Elements(round'[d].symbols) \subseteq Round!Elements(symbols)
  BY <1>1 DEF RoundTypes
<1>3. \A d \in Call : round'[d].at = "filling" => round'[d].i \in DOMAIN round'[d].symbols
  BY <1>1 DEF RoundTypes
<1>4. Round!Elements(symbols)' = Round!Elements(symbols)
  BY DEF Round!Elements
<1>5. (\A d \in Call : round[d].at \in Round!InSidecar => Round!Elements(round[d].symbols) \subseteq Round!Elements(symbols))'
  BY <1>2 DEF Round!Elements, Round!InSidecar
<1>6. QED
  BY <1>1, <1>3, <1>4, <1>5 DEF RoundTypes

LEMMA SidecarPanel ==
  ASSUME PanelOK, NEW c \in Call, UNCHANGED <<symbols, evidence, round_answers>>,
         \A d \in Call \ {c} : round'[d] = round[d],
         round[c].at \in Round!InSidecar, round'[c].at \in Round!InSidecar, round'[c].symbols = Universe,
         round'[c].at \in {"staging", "filling"} => Whole(round_csv', round'[c].i),
         round'[c].at = "dumping" =>
           store'.exists /\ Whole(round_csv', Throughout) /\ \A x \in DOMAIN store'.data : store'.data[x] = "whole",
         round'[c].at = "reading" => store'.exists,
         \A x \in DOMAIN round_csv' : round_csv'[x] = "torn" => round'[c].at = "filling" /\ x = Universe[round'[c].i],
         store'.exists => Whole(store'.data, Throughout) \/ round'[c].at = "dumping"
  PROVE  PanelOK'
<1> USE DEF Round!InSidecar
<1>1. \A d \in Call : round'[d].at \in Round!InSidecar => d = c
  BY DEF PanelOK
<1>2. \A d \in Call : round'[d].at = "replaying" => d # c /\ round'[d] = round[d]
  OBVIOUS
<1>3. (\A d \in Call :
         /\ round[d].at \in Round!InSidecar => round[d].symbols = Universe
         /\ round[d].at \in {"staging", "filling"} => Whole(round_csv, round[d].i)
         /\ round[d].at = "dumping" => store.exists /\ Whole(round_csv, Throughout) /\ \A x \in DOMAIN store.data : store.data[x] = "whole"
         /\ round[d].at = "reading" => store.exists
         /\ round[d].at = "replaying" => round[d].covered)'
  BY <1>1, <1>2 DEF PanelOK, Whole, Throughout
<1>4. (\A e, d \in Call : round[e].at \in Round!InSidecar /\ round[d].at \in Round!InSidecar => e = d)'
  BY <1>1
<1>5. (store.exists => Whole(store.data, Throughout) \/ \E d \in Call : round[d].at = "dumping")'
  BY DEF Whole, Throughout
<1>6. (symbols = Universe /\ (\A d \in DOMAIN evidence : evidence[d].covered) /\ \A a \in round_answers : a.covered)'
  BY DEF PanelOK
<1>7. QED
  BY <1>3, <1>4, <1>5, <1>6 DEF PanelOK

\* What one sidecar alone knows of the shared data.
LEMMA AloneAtWork ==
  ASSUME PanelOK, NEW c \in Call, round[c].at \in Round!InSidecar
  PROVE  /\ round[c].symbols = Universe
         /\ round[c].at # "filling" => \A x \in DOMAIN round_csv : round_csv[x] # "torn"
         /\ round[c].at = "filling" => \A x \in DOMAIN round_csv : round_csv[x] = "torn" => x = Universe[round[c].i]
         /\ round[c].at # "dumping" /\ store.exists => Whole(store.data, Throughout)
<1>1. \A d \in Call : round[d].at \in Round!InSidecar => d = c
  BY DEF PanelOK
<1>2. \A d \in Call : round[d].at \in {"filling", "dumping"} => d = c
  BY <1>1 DEF Round!InSidecar
<1>3. QED
  BY <1>2 DEF PanelOK

LEMMA StageStep == ASSUME Round!RoundAssumption, RoundInv, NEW c \in Call, Round!StageSymbol(c) PROVE RoundInv'
<1> USE DEF RoundInv
<1>1. round[c].at = "staging" /\ UNCHANGED <<symbols, store, evidence, round_answers, second, kills, changes, disturbed>>
  BY DEF Round!StageSymbol
<1>2. PICK o : o = round[c]
  OBVIOUS
<1>3. /\ o \in Working /\ Round!Elements(o.symbols) \subseteq Round!Elements(symbols)
      /\ o.i \in Nat \ {0} /\ o.symbols \in Seq(Traded) /\ o.dir \in Slot
  BY <1>1, <1>2, CallIs DEF RoundTypes, Round!InSidecar, Working
<1>4. o.i \in DOMAIN o.symbols
  BY <1>2, <1>3 DEF Round!StageSymbol
<1>5. PICK sym : sym = o.symbols[o.i]
  OBVIOUS
<1>6. sym \in Round!Elements(symbols)
  BY <1>3, <1>4, <1>5 DEF Round!Elements
<1>7. CASE sym \in DOMAIN round_csv
  <2>1. PICK r : r = [at |-> "staging", dir |-> o.dir, i |-> o.i + 1, symbols |-> o.symbols]
    OBVIOUS
  <2>2. r \in Working
    BY <1>3, <2>1 DEF Working
  <2>3. [o EXCEPT !.i = o.i + 1] = r
    BY <1>1, <1>2, <1>3, <2>1 DEF Working
  <2>4. round' = [round EXCEPT ![c] = r] /\ UNCHANGED round_csv
    <3>1. round' = [round EXCEPT ![c].i = @ + 1] /\ UNCHANGED round_csv
      BY <1>2, <1>5, <1>7 DEF Round!StageSymbol, Round!Staged
    <3>2. QED
      BY <1>2, <2>3, <3>1
  <2>5. round'[c] = r /\ \A d \in Call \ {c} : round'[d] = round[d]
    BY <2>2, <2>4, OneMoves
  <2>6. RoundTypes'
    BY <1>1, <1>2, <1>3, <2>1, <2>2, <2>4, SidecarTypes DEF RoundTypes, Round!InSidecar
  <2>7. OwnOK'
    BY <1>1, <1>2, <2>1, <2>5, OwnStays
  <2>8. ASSUME PanelOK PROVE PanelOK'
    <3>1. o.symbols = Universe /\ (\A x \in DOMAIN round_csv : round_csv[x] # "torn") /\ (store.exists => Whole(store.data, Throughout))
      BY <1>1, <1>2, <2>8, AloneAtWork DEF Round!InSidecar
    <3>2. Whole(round_csv, o.i)
      BY <1>1, <1>2, <2>8 DEF PanelOK
    <3>3. round_csv[sym] = "whole"
      BY <1>7, <3>1 DEF RoundTypes
    <3>4. Whole(round_csv, o.i + 1)
      BY <1>3, <1>5, <1>7, <3>1, <3>2, <3>3, UniverseIs DEF Whole
    <3>5. r.at = "staging" /\ r.i = o.i + 1 /\ r.symbols = o.symbols
      BY <2>1
    <3>6. QED
      BY <1>1, <2>4, <2>5, <2>8, <3>1, <3>4, <3>5, SidecarPanel DEF Round!InSidecar
  <2>9. QED
    BY <1>1, <2>6, <2>7, <2>8
<1>8. CASE sym \notin DOMAIN round_csv
  <2>1. PICK r : r = [at |-> "filling", dir |-> o.dir, i |-> o.i, symbols |-> o.symbols]
    OBVIOUS
  <2>2. r \in Working
    BY <1>3, <2>1 DEF Working
  <2>3. [o EXCEPT !.at = "filling"] = r
    BY <1>1, <1>2, <1>3, <2>1 DEF Working
  <2>4. round' = [round EXCEPT ![c] = r] /\ round_csv' = Round!With(round_csv, sym, "torn")
    <3>1. round' = [round EXCEPT ![c].at = "filling"] /\ round_csv' = Round!With(round_csv, sym, "torn")
      BY <1>2, <1>5, <1>8 DEF Round!StageSymbol, Round!Staged
    <3>2. QED
      BY <1>2, <2>3, <3>1
  <2>5. round'[c] = r /\ \A d \in Call \ {c} : round'[d] = round[d]
    BY <2>2, <2>4, OneMoves
  <2>6. /\ DOMAIN round_csv' = DOMAIN round_csv \cup {sym} /\ round_csv'[sym] = "torn"
        /\ \A x \in DOMAIN round_csv : round_csv'[x] = round_csv[x]
    BY <1>8, <2>4 DEF Round!With
  <2>7. RoundTypes'
    <3>1. DOMAIN round_csv' \subseteq Round!Elements(symbols) /\ \A x \in DOMAIN round_csv' : round_csv'[x] \in {"torn", "whole"}
      BY <1>6, <2>6 DEF RoundTypes
    <3>2. QED
      BY <1>1, <1>2, <1>3, <1>4, <2>1, <2>2, <2>4, <3>1, SidecarTypes DEF RoundTypes, Round!InSidecar
  <2>8. OwnOK'
    BY <1>1, <1>2, <2>1, <2>5, OwnStays
  <2>9. ASSUME PanelOK PROVE PanelOK'
    <3>1. o.symbols = Universe /\ (\A x \in DOMAIN round_csv : round_csv[x] # "torn") /\ (store.exists => Whole(store.data, Throughout))
      BY <1>1, <1>2, <2>9, AloneAtWork DEF Round!InSidecar
    <3>2. Whole(round_csv, o.i)
      BY <1>1, <1>2, <2>9 DEF PanelOK
    <3>3. Whole(round_csv', o.i)
      BY <2>6, <3>2 DEF Whole
    <3>4. \A x \in DOMAIN round_csv' : round_csv'[x] = "torn" => x = Universe[o.i]
      BY <1>5, <2>6, <3>1
    <3>5. r.at = "filling" /\ r.i = o.i /\ r.symbols = o.symbols
      BY <2>1
    <3>6. Whole(store.data, Throughout)' <=> Whole(store.data, Throughout)
      BY <1>1 DEF Whole, Throughout
    <3>7. QED
      BY <1>1, <2>5, <2>9, <3>1, <3>3, <3>4, <3>5, SidecarPanel DEF Round!InSidecar
  <2>10. QED
    BY <1>1, <2>7, <2>8, <2>9
<1>9. QED
  BY <1>7, <1>8

LEMMA FillStep == ASSUME Round!RoundAssumption, RoundInv, NEW c \in Call, Round!FillCsv(c) PROVE RoundInv'
<1> USE DEF RoundInv
<1>1. round[c].at = "filling" /\ UNCHANGED <<symbols, store, evidence, round_answers, second, kills, changes, disturbed>>
  BY DEF Round!FillCsv
<1>2. PICK o : o = round[c]
  OBVIOUS
<1>3. /\ o \in Working /\ Round!Elements(o.symbols) \subseteq Round!Elements(symbols)
      /\ o.i \in Nat \ {0} /\ o.symbols \in Seq(Traded) /\ o.dir \in Slot /\ o.i \in DOMAIN o.symbols
  BY <1>1, <1>2, CallIs DEF RoundTypes, Round!InSidecar, Working
<1>4. PICK sym : sym = o.symbols[o.i]
  OBVIOUS
<1>5. sym \in Round!Elements(symbols)
  BY <1>3, <1>4 DEF Round!Elements
<1>6. PICK r : r = [at |-> "staging", dir |-> o.dir, i |-> o.i + 1, symbols |-> o.symbols]
  OBVIOUS
<1>7. r \in Working
  BY <1>3, <1>6 DEF Working
<1>8. [o EXCEPT !.at = "staging", !.i = o.i + 1] = r
  <2>1. PICK s : s = [o EXCEPT !.at = "staging"]
    OBVIOUS
  <2>2. s = [at |-> "staging", dir |-> o.dir, i |-> o.i, symbols |-> o.symbols]
    BY <1>1, <1>2, <1>3, <2>1 DEF Working
  <2>3. [s EXCEPT !.i = o.i + 1] = r
    BY <1>6, <2>2
  <2>4. [o EXCEPT !.at = "staging", !.i = o.i + 1] = [s EXCEPT !.i = o.i + 1]
    BY <2>1
  <2>5. QED
    BY <2>3, <2>4
<1>9. round' = [round EXCEPT ![c] = r] /\ round_csv' = Round!With(round_csv, sym, "whole")
  <2>1. round' = [round EXCEPT ![c].at = "staging", ![c].i = @ + 1] /\ round_csv' = Round!With(round_csv, sym, "whole")
    BY <1>2, <1>4 DEF Round!FillCsv
  <2>2. round' = [round EXCEPT ![c] = [o EXCEPT !.at = "staging", !.i = o.i + 1]]
    BY <1>2, <1>3, <2>1 DEF RoundTypes, Working
  <2>3. QED
    BY <1>8, <2>1, <2>2
<1>10. round'[c] = r /\ \A d \in Call \ {c} : round'[d] = round[d]
  BY <1>7, <1>9, OneMoves
<1>11. /\ DOMAIN round_csv' = DOMAIN round_csv \cup {sym} /\ round_csv'[sym] = "whole"
       /\ \A x \in DOMAIN round_csv \ {sym} : round_csv'[x] = round_csv[x]
  BY <1>9 DEF Round!With
<1>12. RoundTypes'
  <2>1. DOMAIN round_csv' \subseteq Round!Elements(symbols) /\ \A x \in DOMAIN round_csv' : round_csv'[x] \in {"torn", "whole"}
    BY <1>5, <1>11 DEF RoundTypes
  <2>2. QED
    BY <1>1, <1>2, <1>6, <1>7, <1>9, <2>1, SidecarTypes DEF RoundTypes, Round!InSidecar
<1>13. OwnOK'
  BY <1>1, <1>2, <1>6, <1>10, OwnStays
<1>14. ASSUME PanelOK PROVE PanelOK'
  <2>1. /\ o.symbols = Universe /\ (store.exists => Whole(store.data, Throughout))
        /\ \A x \in DOMAIN round_csv : round_csv[x] = "torn" => x = sym
    BY <1>1, <1>2, <1>4, <1>14, AloneAtWork DEF Round!InSidecar
  <2>2. Whole(round_csv, o.i)
    BY <1>1, <1>2, <1>14 DEF PanelOK
  <2>3. Whole(round_csv', o.i + 1)
    BY <1>3, <1>4, <1>11, <2>1, <2>2, UniverseIs DEF Whole
  <2>4. \A x \in DOMAIN round_csv' : round_csv'[x] # "torn"
    BY <1>11, <2>1
  <2>5. r.at = "staging" /\ r.i = o.i + 1 /\ r.symbols = o.symbols
    BY <1>6
  <2>6. Whole(store.data, Throughout)' <=> Whole(store.data, Throughout)
    BY <1>1 DEF Whole, Throughout
  <2>7. QED
    BY <1>1, <1>10, <1>14, <2>1, <2>3, <2>4, <2>5, SidecarPanel DEF Round!InSidecar
<1>15. QED
  BY <1>1, <1>12, <1>13, <1>14

\* A sidecar goes on to the store or the panel.
LEMMA GoesOn ==
  ASSUME RoundTypes, NEW c \in Call, round[c].at \in Round!InSidecar, NEW at \in {"dumping", "reading"},
         round' = [round EXCEPT ![c].at = at]
  PROVE  \E r \in Working : round' = [round EXCEPT ![c] = r] /\ r.at = at /\ r.dir = round[c].dir /\ r.symbols = round[c].symbols
<1>1. PICK o : o = round[c]
  OBVIOUS
<1>2. o \in Working
  BY <1>1, CallIs
<1>3. [o EXCEPT !.at = at] \in Working
  BY <1>2 DEF Working
<1>4. [o EXCEPT !.at = at].at = at /\ [o EXCEPT !.at = at].dir = o.dir /\ [o EXCEPT !.at = at].symbols = o.symbols
  BY <1>2 DEF Working
<1>5. round' = [round EXCEPT ![c] = [o EXCEPT !.at = at]]
  BY <1>1
<1>6. QED
  BY <1>1, <1>3, <1>4, <1>5

LEMMA BuildStep == ASSUME Round!RoundAssumption, RoundInv, NEW c \in Call, Round!BuildStore(c) PROVE RoundInv'
<1> USE DEF RoundInv
<1>1. /\ round[c].at = "staging" /\ round[c].i > Len(round[c].symbols)
      /\ UNCHANGED <<symbols, round_csv, evidence, round_answers, second, kills, changes, disturbed>>
  BY DEF Round!BuildStore
<1>2. \/ store.exists /\ UNCHANGED store /\ round' = [round EXCEPT ![c].at = "reading"]
      \/ ~ store.exists /\ store' = [exists |-> TRUE, data |-> <<>>] /\ round' = [round EXCEPT ![c].at = "dumping"]
  BY DEF Round!BuildStore
<1>3. PICK r \in Working : /\ round' = [round EXCEPT ![c] = r] /\ r.dir = round[c].dir /\ r.symbols = round[c].symbols
                           /\ r.at = IF store.exists THEN "reading" ELSE "dumping"
  BY <1>1, <1>2, GoesOn DEF Round!InSidecar
<1>4. round'[c] = r /\ \A d \in Call \ {c} : round'[d] = round[d]
  BY <1>3, OneMoves
<1>5. RoundTypes'
  <2>1. /\ DOMAIN store' = {"exists", "data"} /\ store'.exists \in BOOLEAN
        /\ DOMAIN store'.data \subseteq Round!Elements(symbols) /\ \A x \in DOMAIN store'.data : store'.data[x] \in {"torn", "whole"}
    <3>1. CASE store' = store
      BY <3>1 DEF RoundTypes
    <3>2. CASE store' = [exists |-> TRUE, data |-> <<>>]
      BY <3>2
    <3>3. QED
      BY <1>2, <3>1, <3>2
  <2>2. DOMAIN round_csv' \subseteq Round!Elements(symbols) /\ \A x \in DOMAIN round_csv' : round_csv'[x] \in {"torn", "whole"}
    BY <1>1 DEF RoundTypes
  <2>3. QED
    BY <1>1, <1>3, <2>1, <2>2, SidecarTypes DEF Round!InSidecar
<1>6. OwnOK'
  BY <1>1, <1>3, <1>4, OwnStays
<1>7. ASSUME PanelOK PROVE PanelOK'
  <2>1. /\ round[c].symbols = Universe /\ (\A x \in DOMAIN round_csv : round_csv[x] # "torn")
        /\ store.exists => Whole(store.data, Throughout)
    BY <1>1, <1>7, AloneAtWork DEF Round!InSidecar
  <2>2. Whole(round_csv, round[c].i)
    BY <1>1, <1>7 DEF PanelOK
  <2>3. round[c].i \in Nat
    BY <1>1, CallIs DEF Round!InSidecar, Working
  <2>4. Whole(round_csv', Throughout)
    BY <1>1, <2>1, <2>2, <2>3, UniverseIs DEF Whole, Throughout
  <2>5. CASE store.exists
    BY <1>1, <1>2, <1>3, <1>4, <1>7, <2>1, <2>5, SidecarPanel DEF Round!InSidecar
  <2>6. CASE ~ store.exists
    <3>1. store'.exists /\ DOMAIN store'.data = {}
      BY <1>2, <2>6
    <3>2. QED
      BY <1>1, <1>3, <1>4, <1>7, <2>1, <2>4, <2>6, <3>1, SidecarPanel DEF Round!InSidecar
  <2>7. QED
    BY <2>5, <2>6
<1>8. QED
  BY <1>1, <1>5, <1>6, <1>7

LEMMA DumpStep == ASSUME Round!RoundAssumption, RoundInv, NEW c \in Call, Round!DumpSymbol(c) PROVE RoundInv'
<1> USE DEF RoundInv
<1>1. round[c].at = "dumping" /\ UNCHANGED <<symbols, round_csv, round, evidence, round_answers, second, kills, changes, disturbed>>
  BY DEF Round!DumpSymbol
<1>2. PICK sym \in DOMAIN round_csv \ DOMAIN store.data : store' = [store EXCEPT !.data = Round!With(@, sym, round_csv[sym])]
  BY DEF Round!DumpSymbol
<1>3. /\ DOMAIN store' = {"exists", "data"} /\ store'.exists = store.exists
      /\ store'.data = Round!With(store.data, sym, round_csv[sym])
  BY <1>2 DEF RoundTypes
<1>4. /\ DOMAIN store'.data = DOMAIN store.data \cup {sym} /\ store'.data[sym] = round_csv[sym]
      /\ \A x \in DOMAIN store.data : store'.data[x] = store.data[x]
  BY <1>2, <1>3 DEF Round!With
<1>5. round[c] \in Working /\ round' = [round EXCEPT ![c] = round[c]]
  BY <1>1, CallIs DEF Round!InSidecar, RoundTypes
<1>6. RoundTypes'
  <2>1. /\ store'.exists \in BOOLEAN /\ DOMAIN store'.data \subseteq Round!Elements(symbols)
        /\ \A x \in DOMAIN store'.data : store'.data[x] \in {"torn", "whole"}
    BY <1>2, <1>3, <1>4 DEF RoundTypes
  <2>2. DOMAIN round_csv' \subseteq Round!Elements(symbols) /\ \A x \in DOMAIN round_csv' : round_csv'[x] \in {"torn", "whole"}
    BY <1>1 DEF RoundTypes
  <2>3. QED
    BY <1>1, <1>3, <1>5, <2>1, <2>2, SidecarTypes DEF Round!InSidecar
<1>7. OwnOK'
  BY <1>1 DEF OwnOK, Alone
<1>8. ASSUME PanelOK PROVE PanelOK'
  <2>1. round[c].symbols = Universe /\ \A x \in DOMAIN round_csv : round_csv[x] # "torn"
    BY <1>1, <1>8, AloneAtWork DEF Round!InSidecar
  <2>2. store.exists /\ Whole(round_csv, Throughout) /\ \A x \in DOMAIN store.data : store.data[x] = "whole"
    BY <1>1, <1>8 DEF PanelOK
  <2>3. round_csv[sym] = "whole"
    BY <1>2, <2>1 DEF RoundTypes
  <2>4. store'.exists /\ \A x \in DOMAIN store'.data : store'.data[x] = "whole"
    BY <1>3, <1>4, <2>2, <2>3
  <2>5. QED
    BY <1>1, <1>8, <2>1, <2>2, <2>4, SidecarPanel DEF Round!InSidecar
<1>9. QED
  BY <1>1, <1>6, <1>7, <1>8

LEMMA DumpedStep == ASSUME Round!RoundAssumption, RoundInv, NEW c \in Call, Round!DumpDone(c) PROVE RoundInv'
<1> USE DEF RoundInv
<1>1. /\ round[c].at = "dumping" /\ DOMAIN round_csv \subseteq DOMAIN store.data /\ round' = [round EXCEPT ![c].at = "reading"]
      /\ UNCHANGED <<symbols, round_csv, store, evidence, round_answers, second, kills, changes, disturbed>>
  BY DEF Round!DumpDone
<1>2. PICK r \in Working : /\ round' = [round EXCEPT ![c] = r] /\ r.at = "reading" /\ r.dir = round[c].dir
                           /\ r.symbols = round[c].symbols
  BY <1>1, GoesOn DEF Round!InSidecar
<1>3. round'[c] = r /\ \A d \in Call \ {c} : round'[d] = round[d]
  BY <1>2, OneMoves
<1>4. RoundTypes'
  <2>1. (DOMAIN round_csv' \subseteq Round!Elements(symbols)) /\ (DOMAIN store'.data \subseteq Round!Elements(symbols))
    BY <1>1 DEF RoundTypes
  <2>2. QED
    BY <1>1, <1>2, <2>1, SidecarTypes DEF RoundTypes, Round!InSidecar
<1>5. OwnOK'
  BY <1>1, <1>2, <1>3, OwnStays
<1>6. ASSUME PanelOK PROVE PanelOK'
  <2>1. round[c].symbols = Universe /\ \A x \in DOMAIN round_csv : round_csv[x] # "torn"
    BY <1>1, <1>6, AloneAtWork DEF Round!InSidecar
  <2>2. store.exists /\ Whole(round_csv, Throughout) /\ \A x \in DOMAIN store.data : store.data[x] = "whole"
    BY <1>1, <1>6 DEF PanelOK
  <2>3. Whole(store'.data, Throughout)
    BY <1>1, <2>2 DEF Whole
  <2>4. QED
    BY <1>1, <1>2, <1>3, <1>6, <2>1, <2>2, <2>3, SidecarPanel DEF Round!InSidecar
<1>7. QED
  BY <1>1, <1>4, <1>5, <1>6

\* What the panel covers is settled when it is read.
LEMMA ReadStep == ASSUME Round!RoundAssumption, RoundInv, NEW c \in Call, Round!ReadPanel(c) PROVE RoundInv'
<1> USE DEF RoundInv
<1>1. round[c].at = "reading" /\ UNCHANGED <<symbols, round_csv, store, evidence, round_answers, second, kills, changes, disturbed>>
  BY DEF Round!ReadPanel
<1>2. PICK r : r = [at |-> "replaying", dir |-> round[c].dir, covered |-> Round!Covered(c)]
  OBVIOUS
<1>3. r \in Replaying
  <2>1. (Round!Covered(c)) \in BOOLEAN
    BY SMT DEF Round!Covered
  <2>2. round[c].dir \in Slot
    BY CallIs
  <2>3. QED
    BY <1>2, <2>1, <2>2 DEF Replaying
<1>4. round' = [round EXCEPT ![c] = r]
  BY <1>2 DEF Round!ReadPanel
<1>5. round'[c] = r /\ \A d \in Call \ {c} : round'[d] = round[d]
  BY <1>3, <1>4, OneMoves
<1>6. RoundTypes'
  BY <1>1, <1>2, <1>3, <1>4, TypesStay DEF RoundTypes, Round!InSidecar
<1>7. OwnOK'
  BY <1>1, <1>2, <1>5, OwnStays
<1>8. ASSUME PanelOK PROVE PanelOK'
  <2> USE DEF Round!InSidecar
  <2>1. \A d \in Call : round'[d].at \notin Round!InSidecar
    BY <1>1, <1>2, <1>5, <1>8 DEF PanelOK
  <2>2. /\ round[c].symbols = Universe /\ (\A x \in DOMAIN round_csv : round_csv[x] # "torn")
        /\ store.exists => Whole(store.data, Throughout)
    BY <1>1, <1>8, AloneAtWork
  <2>3. store.exists
    BY <1>1, <1>8 DEF PanelOK
  <2>4. Round!Covered(c)
    BY <2>2, <2>3, UniverseIs DEF Round!Covered, Whole, Throughout
  <2>5. r.covered
    BY <1>2, <2>4
  <2>6. \A d \in Call : round'[d].at = "replaying" => round'[d].covered
    BY <1>5, <1>8, <2>5 DEF PanelOK
  <2>7. Whole(store.data, Throughout)'
    BY <1>1, <2>2, <2>3 DEF Whole, Throughout
  <2>8. (symbols = Universe /\ (\A d \in DOMAIN evidence : evidence[d].covered) /\ \A a \in round_answers : a.covered)'
    BY <1>1, <1>8 DEF PanelOK
  <2>9. QED
    BY <1>1, <2>1, <2>2, <2>6, <2>7, <2>8 DEF PanelOK
<1>9. QED
  BY <1>1, <1>6, <1>7, <1>8

LEMMA RoundStep == ASSUME Round!RoundAssumption, RoundInv, [Round!Next]_Round!vars PROVE RoundInv'
<1>1. CASE UNCHANGED Round!vars
  <2> USE <1>1 DEF Round!vars
  <2>1. Round!Elements(symbols)' = Round!Elements(symbols)
    BY DEF Round!Elements
  <2>2. (\A c \in Call : round[c].at \in Round!InSidecar => Round!Elements(round[c].symbols) \subseteq Round!Elements(symbols))'
    BY <2>1 DEF RoundInv, RoundTypes, Round!Elements, Round!InSidecar
  <2>3. (DOMAIN round_csv \subseteq Round!Elements(symbols) /\ DOMAIN store.data \subseteq Round!Elements(symbols))'
    BY <2>1 DEF RoundInv, RoundTypes
  <2>4. RoundTypes'
    BY <2>2, <2>3 DEF RoundInv, RoundTypes
  <2>5. OwnOK'
    BY DEF RoundInv, OwnOK, Alone
  <2>6. (disturbed \/ PanelOK)'
    BY DEF RoundInv, PanelOK, Whole, Throughout, Round!InSidecar
  <2>7. QED
    BY <2>4, <2>5, <2>6 DEF RoundInv
<1>2. CASE Round!Next
  BY <1>2, CheckStep, RefuseStep, StartStep, StageStep, FillStep, BuildStep, DumpStep, DumpedStep, ReadStep,
     EvidenceStep, AnswerStep, KillStep, UniverseStep, TickStep DEF Round!Next
<1>3. QED
  BY <1>1, <1>2

\* What the tool answers is the evaluation of that call and passed the gate,
\* unless another call took its name in its second (toolset.py).
THEOREM EvaluationsAreOwn == ASSUME Round!RoundAssumption PROVE Round!Spec => [](Round!TypeOK /\ Round!AnswerIsOwn)
<1>1. Round!Init => RoundInv
  BY RoundInit
<1>2. RoundInv /\ [Round!Next]_Round!vars => RoundInv'
  BY RoundStep
<1>3. RoundInv => Round!TypeOK /\ Round!AnswerIsOwn
  <2> SUFFICES ASSUME RoundInv PROVE Round!TypeOK /\ Round!AnswerIsOwn
    OBVIOUS
  <2>1. Round!Elements(symbols) \subseteq Round!Elements(Universe) \cup {Newcomer}
    BY DEF RoundInv, RoundTypes, Traded, Round!Elements
  <2>2. Round!Elements(round_csv) \subseteq {"torn", "whole"} /\ Round!Elements(store.data) \subseteq {"torn", "whole"}
    BY DEF RoundInv, RoundTypes, Round!Elements
  <2>3. \A c \in Call : round[c].at \in {"idle", "checked", "replaying", "returning", "ended"} \cup Round!InSidecar
    BY CallIs DEF RoundInv
  <2>4. Round!TypeOK
    BY <2>1, <2>2, <2>3 DEF RoundInv, RoundTypes, OwnOK, Round!TypeOK
  <2>5. Round!AnswerIsOwn
    BY DEF RoundInv, OwnOK, Alone, Round!AnswerIsOwn
  <2>6. QED
    BY <2>4, <2>5
<1>4. QED
  BY <1>1, <1>2, <1>3, PTL DEF Round!Spec

\* An evaluation covers the universe it states, as long as no kill, overlap or
\* change met the staged files and the store (eval_sidecar.py, dump_bin.py).
THEOREM EvaluationsCoverUniverse == ASSUME Round!RoundAssumption PROVE Round!Spec => []Round!EvidenceIsWhole
<1>1. Round!Init => RoundInv
  BY RoundInit
<1>2. RoundInv /\ [Round!Next]_Round!vars => RoundInv'
  BY RoundStep
<1>3. RoundInv => Round!EvidenceIsWhole
  BY DEF RoundInv, PanelOK, Round!EvidenceIsWhole
<1>4. QED
  BY <1>1, <1>2, <1>3, PTL DEF Round!Spec
-----------------------------------------------------------------------------
(* The replay of a strategy, for any number of symbols, days and prices.   *)

CONSTANTS Price, Cash, LotSize, Fraction, MinFee, FeeRate, MaxPositions, Splittable
VARIABLES market, held, entering, leaving, pending, queue, positions, cash, fills, blocked, splits, decided, bought, crossed, tainted

Engine == INSTANCE Replay

\* Where an intent is: it waits, was filled, or was refused for good.
Waits(i) == (\E k \in 1 .. Len(queue) : queue[k] = i) \/ (\E k \in 1 .. Len(pending) : pending[k] = i)
FilledAt(i) == {k \in 1 .. Len(fills) : fills[k][1] = i}
RefusedFor(b, i) == b[1] = i /\ (i.action = "BUY" \/ b[3] = "no_position")
IsRefused(i) == \E b \in blocked : RefusedFor(b, i)
AccountOK(i) ==
  /\ \A k, l \in FilledAt(i) : k = l
  /\ Waits(i) => FilledAt(i) = {} /\ ~ IsRefused(i)
  /\ ~ Waits(i) => (FilledAt(i) # {} <=> ~ IsRefused(i))

\* Each intent waits in one place, and the days of the intents only grow.
IntentsOK ==
  /\ pc = "closed" => queue = << >>
  /\ \A i \in decided : i.day <= day /\ (pc = "open" => i.day < day)
  /\ \A k \in 1 .. Len(queue) : queue[k] \in decided
  /\ \A k \in 1 .. Len(pending) : pending[k] \in decided
  /\ \A k, l \in 1 .. Len(queue) : queue[k] = queue[l] => k = l
  /\ \A k, l \in 1 .. Len(pending) : pending[k] = pending[l] => k = l
  /\ \A k \in 1 .. Len(queue), l \in 1 .. Len(pending) : queue[k] # pending[l]
  /\ \A k \in 1 .. Len(fills) : fills[k][1] \in decided
  /\ \A b \in blocked : b[1] \in decided
  /\ \A i \in decided : AccountOK(i)

\* The sells of an open come before its buys, deferred ones included.
SellsFirst(q) == \A k, l \in 1 .. Len(q) : k < l /\ q[l].action = "SELL" => q[k].action = "SELL"
OnlySells(q) == \A k \in 1 .. Len(q) : q[k].action = "SELL"
TurnOK ==
  /\ SellsFirst(queue) /\ SellsFirst(pending) /\ (pc = "open" => OnlySells(pending))
  /\ \A s \in Symbol : bought[s] <= day
  /\ (\E k \in 1 .. Len(queue) : queue[k].action = "SELL") => \A s \in Symbol : bought[s] < day

\* The fills of a symbol: a position is what was bought since the last sell,
\* it dates from the first of these buys, and it is crossed by a later change.
SideOf(f, s, action) == {k \in 1 .. Len(f) : f[k][1].symbol = s /\ f[k][1].action = action}
Since(f, s, k) == {j \in SideOf(f, s, "BUY") : j < k /\ \A i \in SideOf(f, s, "SELL") : i < k => i < j}
Earliest(j, S) == j \in S /\ \A i \in S : j <= i
OpenedOn(s) == \E j \in Since(fills, s, Len(fills) + 1) : Earliest(j, Since(fills, s, Len(fills) + 1)) /\ fills[j][2] = positions[s].buy
ClosedAt(k) ==
  LET own == Since(fills, fills[k][1].symbol, k)
  IN  \E j \in own : Earliest(j, own) /\ (k \in tainted <=> \E d \in splits[fills[k][1].symbol] : fills[j][2] < d /\ d <= fills[k][2])
GateOK ==
  /\ \A s \in Symbol : splits[s] \subseteq 1 .. day
  /\ \A k \in 1 .. Len(fills) : fills[k][2] <= day
  /\ \A s \in Symbol : positions[s].shares = 0 => Since(fills, s, Len(fills) + 1) = {}
  /\ \A s \in Symbol : positions[s].shares # 0 => OpenedOn(s)
  /\ \A s \in Symbol : s \in crossed <=> positions[s].shares # 0 /\ \E d \in splits[s] : positions[s].buy < d
  /\ \A k \in 1 .. Len(fills) : fills[k][1].action = "SELL" => ClosedAt(k)
  /\ \A k \in tainted : k \in 1 .. Len(fills) /\ fills[k][1].action = "SELL"

DaysOK == Engine!TypeOK /\ (pc = "open" => day \in Engine!Day)
ReplayInv == DaysOK /\ IntentsOK /\ TurnOK /\ GateOK

\* With fees that fit, no cash is owed.
CashOK == cash >= 0 /\ \A s \in Symbol : positions[s].shares = 0 \/ positions[s].shares >= LotSize

LEMMA EngineNumbers ==
  ASSUME Engine!ReplayAssumption
  PROVE  /\ Symbol \subseteq Nat /\ IsFiniteSet(Symbol) /\ Splittable \subseteq Symbol
         /\ \A p \in Price : p \in Nat /\ p # 0
         /\ Cash \in Nat /\ LotSize \in Nat \ {0} /\ Fraction \in Nat \ {0} /\ FeeRate \in Nat \ {0} /\ MaxPositions \in Nat \ {0}
         /\ MinFee \in Nat /\ MaxDays \in Nat
         /\ \A S : Engine!Cardinality(S) = Cardinality(S)
<1>1. \A S : Engine!Cardinality(S) = Cardinality(S)
  BY DEF Engine!Cardinality, Cardinality
<1>2. IsFiniteSet(Symbol)
  BY DEF Engine!ReplayAssumption, Engine!IsFiniteSet, IsFiniteSet
<1>3. QED
  BY <1>1, <1>2 DEF Engine!ReplayAssumption

\* The numbers of S below n, and how many there are.
Under(S, n) == {m \in S : m < n}
LEMMA UnderIs ==
  ASSUME NEW S, S \subseteq Nat, IsFiniteSet(S)
  PROVE  /\ Cardinality(S) \in Nat
         /\ \A n \in S : Cardinality(Under(S, n)) \in 0 .. Cardinality(S) - 1
         /\ \A n, p \in S : Cardinality(Under(S, n)) = Cardinality(Under(S, p)) => n = p
<1>1. Cardinality(S) \in Nat
  BY FS_CardinalityType
<1>2. ASSUME NEW n \in S PROVE IsFiniteSet(Under(S, n)) /\ Cardinality(Under(S, n)) \in 0 .. Cardinality(S) - 1
  <2>1. Under(S, n) \in SUBSET S /\ n \notin Under(S, n)
    BY DEF Under
  <2>2. IsFiniteSet(Under(S, n)) /\ Cardinality(Under(S, n)) <= Cardinality(S) /\ Cardinality(Under(S, n)) # Cardinality(S)
    BY <2>1, FS_Subset
  <2>3. Cardinality(Under(S, n)) \in Nat
    BY <2>2, FS_CardinalityType
  <2>4. QED
    BY <1>1, <2>2, <2>3
<1>3. ASSUME NEW n \in S, NEW p \in S, n < p PROVE Cardinality(Under(S, n)) # Cardinality(Under(S, p))
  <2>1. n \in Nat /\ p \in Nat /\ \A m \in S : m \in Nat
    OBVIOUS
  <2>2. Under(S, n) \in SUBSET Under(S, p) /\ n \in Under(S, p) /\ n \notin Under(S, n)
    <3>1. ASSUME NEW m \in S, m < n PROVE m < p
      BY <1>3, <2>1, <3>1
    <3>2. ~ (n < n)
      BY <2>1
    <3>3. QED
      BY <1>3, <3>1, <3>2 DEF Under
  <2>3. QED
    BY <1>2, <2>2, FS_Subset
<1>4. ASSUME NEW n \in S, NEW p \in S, Cardinality(Under(S, n)) = Cardinality(Under(S, p)) PROVE n = p
  <2>1. n \in Nat /\ p \in Nat
    OBVIOUS
  <2>2. ~ (n < p) /\ ~ (p < n)
    BY <1>3, <1>4
  <2>3. QED
    BY <2>1, <2>2
<1>5. QED
  BY <1>1, <1>2, <1>4

\* A sorted set has each of its numbers once.
LEMMA SortedIs ==
  ASSUME Engine!ReplayAssumption, NEW S, S \subseteq Symbol, NEW c, c = Cardinality(S), NEW t, t = Engine!Ascending(S)
  PROVE  /\ c \in Nat /\ t \in [1 .. c -> S]
         /\ \A i, j \in 1 .. c : t[i] = t[j] => i = j
<1>1. IsFiniteSet(S) /\ S \subseteq Nat
  BY EngineNumbers, FS_Subset
<1>2. /\ c \in Nat
      /\ \A n \in S : Cardinality(Under(S, n)) \in 0 .. c - 1
      /\ \A n, p \in S : Cardinality(Under(S, n)) = Cardinality(Under(S, p)) => n = p
  BY <1>1, UnderIs
<1>3. t = [i \in 1 .. c |-> CHOOSE n \in S : Cardinality(Under(S, n)) = i - 1]
  BY Zenon DEF Engine!Ascending, Under, Engine!Cardinality, Cardinality
<1>4. ASSUME NEW i \in 0 .. c - 1 PROVE \E n \in S : Cardinality(Under(S, n)) = i
  <2>1. PICK T : T = 0 .. c - 1
    OBVIOUS
  <2>2. PICK f : f = [n \in S |-> Cardinality(Under(S, n))]
    OBVIOUS
  <2>3. f \in [S -> T] /\ \A n \in S : f[n] = Cardinality(Under(S, n))
    BY <1>2, <2>1, <2>2
  <2>4. \A a, b \in S : f[a] = f[b] => a = b
    BY <1>2, <2>3
  <2>5. f \in Injection(S, T)
    BY <2>3, <2>4, Zenon DEF Injection, IsInjective
  <2>6. IsFiniteSet(T) /\ Cardinality(T) = Cardinality(S)
    BY <1>2, <2>1, FS_Interval
  <2>7. f \in Surjection(S, T)
    BY <2>5, <2>6, FS_Injection, Zenon
  <2>8. QED
    BY <2>1, <2>3, <2>7 DEF Surjection
<1>5. ASSUME NEW i \in 1 .. c PROVE t[i] \in S /\ Cardinality(Under(S, t[i])) = i - 1
  <2>1. i - 1 \in 0 .. c - 1
    BY <1>2
  <2>2. \E n \in S : Cardinality(Under(S, n)) = i - 1
    BY <1>4, <2>1
  <2>3. t[i] = CHOOSE n \in S : Cardinality(Under(S, n)) = i - 1
    BY <1>3
  <2>4. QED
    BY <2>2, <2>3, Zenon
<1>6. ASSUME NEW i \in 1 .. c, NEW j \in 1 .. c, t[i] = t[j] PROVE i = j
  <2>1. Cardinality(Under(S, t[i])) = i - 1 /\ Cardinality(Under(S, t[j])) = j - 1
    BY <1>5
  <2>2. i - 1 = j - 1
    BY <1>6, <2>1
  <2>3. QED
    BY <2>2
<1>7. t \in [1 .. c -> S]
  BY <1>3, <1>5
<1>8. QED
  BY <1>2, <1>6, <1>7

\* The intents of one kind that a day decides.
LEMMA IntentsAre ==
  ASSUME Engine!ReplayAssumption, day \in Engine!Day, NEW action \in {"BUY", "SELL"}, NEW S, S \subseteq Symbol, NEW q, q = Engine!Intents(action, S)
  PROVE  /\ q \in Seq(Engine!Intent)
         /\ \A k \in 1 .. Len(q) : q[k].action = action /\ q[k].day = day
         /\ \A k, l \in 1 .. Len(q) : q[k] = q[l] => k = l
<1>1. PICK c, t : c = Cardinality(S) /\ t = Engine!Ascending(S)
  OBVIOUS
<1>2. c \in Nat /\ t \in [1 .. c -> S] /\ \A i, j \in 1 .. c : t[i] = t[j] => i = j
  BY <1>1, SortedIs
<1>3. q = [k \in 1 .. c |-> [action |-> action, symbol |-> t[k], day |-> day]]
  BY <1>1, EngineNumbers DEF Engine!Intents
<1>4. \A k \in 1 .. c : q[k].action = action /\ q[k].day = day /\ q[k].symbol = t[k]
  BY <1>3
<1>5. ASSUME NEW k \in 1 .. c PROVE q[k] \in Engine!Intent
  <2>1. t[k] \in Symbol
    BY <1>2
  <2>2. q[k] = [action |-> action, symbol |-> t[k], day |-> day]
    BY <1>3
  <2>3. QED
    BY <2>1, <2>2 DEF Engine!Intent
<1>6. q \in Seq(Engine!Intent) /\ Len(q) = c
  <2>1. q \in [1 .. c -> Engine!Intent]
    BY <1>3, <1>5
  <2>2. QED
    BY <1>2, <2>1
<1>7. \A k, l \in 1 .. c : q[k] = q[l] => k = l
  <2>1. SUFFICES ASSUME NEW k \in 1 .. c, NEW l \in 1 .. c, q[k] = q[l] PROVE k = l
    OBVIOUS
  <2>2. q[k].symbol = t[k] /\ q[l].symbol = t[l]
    BY <1>4
  <2>3. t[k] = t[l]
    BY <2>1, <2>2
  <2>4. QED
    BY <1>2, <2>3
<1>8. QED
  BY <1>4, <1>6, <1>7

\* Of the names that are wanted, no more are taken than there are slots.
LEMMA FirstFit ==
  ASSUME Engine!ReplayAssumption, NEW W, W \subseteq Symbol, NEW free \in Nat
  PROVE  Cardinality({x \in W : Cardinality(Under(W, x)) < free}) <= free
<1>1. IsFiniteSet(W) /\ W \subseteq Nat
  BY EngineNumbers, FS_Subset
<1>2. PICK E, T : E = {x \in W : Cardinality(Under(W, x)) < free} /\ T = 0 .. free - 1
  OBVIOUS
<1>3. IsFiniteSet(T) /\ Cardinality(T) = free
  BY <1>2, FS_Interval
<1>4. PICK f : f = [x \in E |-> Cardinality(Under(W, x))]
  OBVIOUS
<1>5. \A n \in W : Cardinality(Under(W, n)) \in Nat
  <2>1. \A n \in W : Cardinality(Under(W, n)) \in 0 .. Cardinality(W) - 1
    BY <1>1, UnderIs
  <2>2. \A n \in W : \A k \in 0 .. Cardinality(W) - 1 : k \in Nat
    BY <1>1, UnderIs
  <2>3. QED
    BY <2>1, <2>2
<1>6. f \in [E -> T]
  BY <1>2, <1>4, <1>5
<1>7. \A a, b \in E : f[a] = f[b] => a = b
  <2>1. \A n, p \in W : Cardinality(Under(W, n)) = Cardinality(Under(W, p)) => n = p
    BY <1>1, UnderIs
  <2>2. \A a \in E : a \in W /\ f[a] = Cardinality(Under(W, a))
    BY <1>2, <1>4
  <2>3. QED
    BY <2>1, <2>2
<1>8. f \in Injection(E, T)
  BY <1>6, <1>7, Zenon DEF Injection, IsInjective
<1>9. Cardinality(E) <= Cardinality(T)
  BY <1>3, <1>8, FS_Injection
<1>10. QED
  BY <1>2, <1>3, <1>9

LEMMA CommissionIs ==
  ASSUME Engine!ReplayAssumption, NEW n \in Int
  PROVE  Engine!Commission(n) \in Int /\ Engine!Commission(n) >= MinFee /\ (n >= MinFee => Engine!Commission(n) <= n)
<1>1. MinFee \in Nat /\ FeeRate \in Nat \ {0}
  BY EngineNumbers
<1>2. PICK m : m = n \div FeeRate
  OBVIOUS
<1>3. m \in Int /\ (n >= 0 => m <= n)
  BY <1>1, <1>2
<1>4. Engine!Commission(n) = IF m > MinFee THEN m ELSE MinFee
  BY <1>2 DEF Engine!Commission, Engine!Larger
<1>5. QED
  BY <1>1, <1>3, <1>4

LEMMA SharesAre ==
  ASSUME Engine!ReplayAssumption, cash \in Int, NEW p \in Price
  PROVE  Engine!Shares(p) \in Int
<1>1. p \in Nat \ {0} /\ LotSize \in Nat \ {0} /\ Fraction \in Nat \ {0}
  BY EngineNumbers
<1>2. PICK b : b = cash \div Fraction
  OBVIOUS
<1>3. b \in Int
  BY <1>1, <1>2
<1>4. PICK q : q = (b \div p) \div LotSize
  OBVIOUS
<1>5. q \in Int
  BY <1>1, <1>3, <1>4
<1>6. q * LotSize \in Int
  BY <1>1, <1>5
<1>7. Engine!Lots(cash \div Fraction, p) = q * LotSize
  BY <1>2, <1>4 DEF Engine!Lots
<1>8. QED
  BY <1>1, <1>6, <1>7 DEF Engine!Shares

\* One intent of an open: a buy or a sell that is filled, or a refusal.
Turn(i) ==
  /\ pc = "open" /\ queue # << >> /\ i \in Engine!Intent /\ i = Head(queue) /\ queue' = Tail(queue)
  /\ UNCHANGED <<pc, day, market, held, entering, leaving, splits, decided>>
BuyFills(i, n) ==
  /\ i.action = "BUY" /\ n \in Nat \ {0} /\ fills' = Append(fills, <<i, day>>)
  /\ positions' = [positions EXCEPT ![i.symbol] = [shares |-> positions[i.symbol].shares + n,
                                                   buy |-> IF positions[i.symbol].shares = 0 THEN day ELSE positions[i.symbol].buy]]
  /\ bought' = [bought EXCEPT ![i.symbol] = day] /\ Cardinality(Engine!Holding) < MaxPositions
  /\ n = Engine!Shares(market[i.symbol].price)
  /\ cash' = cash - (n * market[i.symbol].price + Engine!Commission(n * market[i.symbol].price))
  /\ UNCHANGED <<pending, blocked, crossed, tainted>>
SellFills(i) ==
  /\ i.action = "SELL" /\ positions[i.symbol].shares # 0 /\ positions[i.symbol].buy < day /\ fills' = Append(fills, <<i, day>>)
  /\ positions' = [positions EXCEPT ![i.symbol] = [shares |-> 0, buy |-> 0]]
  /\ crossed' = crossed \ {i.symbol}
  /\ tainted' = (IF i.symbol \in crossed THEN tainted \cup {Len(fills) + 1} ELSE tainted)
  /\ cash' = cash + positions[i.symbol].shares * market[i.symbol].price - Engine!Commission(positions[i.symbol].shares * market[i.symbol].price)
  /\ UNCHANGED <<pending, blocked, bought>>
Refusal(i, why) ==
  /\ why \in Engine!Reason /\ blocked' = blocked \cup {<<i, day, why>>}
  /\ pending' = IF i.action = "SELL" /\ why # "no_position" THEN Append(pending, i) ELSE pending
  /\ UNCHANGED <<fills, positions, cash, bought, crossed, tainted>>

LEMMA SymbolTypes ==
  ASSUME DaysOK, NEW s \in Symbol
  PROVE  /\ positions[s] = [shares |-> positions[s].shares, buy |-> positions[s].buy]
         /\ positions[s].shares \in Nat /\ positions[s].buy \in 0 .. MaxDays
         /\ market[s].price \in Price /\ bought[s] \in 0 .. MaxDays
<1>1. positions[s] \in [shares : Nat, buy : 0 .. MaxDays] /\ market[s] \in Engine!Bars /\ bought[s] \in 0 .. MaxDays
  BY DEF DaysOK, Engine!TypeOK
<1>2. QED
  BY <1>1 DEF Engine!Bars, Engine!Bar

LEMMA ExecuteIs ==
  ASSUME Engine!ReplayAssumption, DaysOK, Engine!Execute
  PROVE  \E i \in Engine!Intent : Turn(i) /\ ((\E n : BuyFills(i, n)) \/ SellFills(i) \/ \E why : Refusal(i, why))
<1>1. PICK i : i = Head(queue)
  OBVIOUS
<1>2. PICK s : s = i.symbol
  OBVIOUS
<1>3. queue \in Seq(Engine!Intent) /\ queue # << >> /\ cash \in Int
  BY DEF DaysOK, Engine!TypeOK, Engine!Execute
<1>4. i \in Engine!Intent /\ s \in Symbol /\ i.action \in {"BUY", "SELL"}
  <2>1. Len(queue) \in Nat /\ Len(queue) # 0 /\ \A k \in 1 .. Len(queue) : queue[k] \in Engine!Intent
    BY <1>3, EmptySeq
  <2>2. i = queue[1]
    BY <1>1, <1>3
  <2>3. i \in Engine!Intent
    BY <2>1, <2>2
  <2>4. QED
    BY <1>2, <2>3 DEF Engine!Intent
<1>5. Turn(i)
  BY <1>1, <1>3, <1>4 DEF Engine!Execute, Turn
<1>6. PICK why : why = IF i.action = "BUY" THEN Engine!BuyBlocked(s) ELSE Engine!SellBlocked(s)
  OBVIOUS
<1>7. /\ why = "filled" => /\ fills' = Append(fills, <<i, day>>) /\ UNCHANGED <<pending, blocked>>
                           /\ i.action = "BUY" => Engine!Buy(s)
                           /\ i.action = "SELL" => Engine!Sell(s)
      /\ why # "filled" => /\ blocked' = blocked \cup {<<i, day, why>>}
                           /\ pending' = (IF i.action = "SELL" /\ why # "no_position" THEN Append(pending, i) ELSE pending)
                           /\ UNCHANGED <<fills, positions, cash, bought, crossed, tainted>>
  BY <1>1, <1>2, <1>4, <1>6 DEF Engine!Execute, Engine!Deferred
<1>8. why \in Engine!Reason \cup {"filled"}
  BY <1>6 DEF Engine!BuyBlocked, Engine!SellBlocked, Engine!Reason
<1>9. CASE why # "filled"
  BY <1>4, <1>5, <1>7, <1>8, <1>9 DEF Refusal
<1>10. CASE why = "filled" /\ i.action = "BUY"
  <2>1. PICK p : p = market[s].price
    OBVIOUS
  <2>2. p \in Price
    BY <1>4, <2>1, SymbolTypes
  <2>3. PICK n : n = Engine!Shares(p)
    OBVIOUS
  <2>4. n \in Int
    BY <1>3, <2>2, <2>3, SharesAre
  <2>5. ~ (Engine!Cardinality(Engine!Holding) >= MaxPositions) /\ ~ (n <= 0)
    BY <1>6, <1>10, <2>1, <2>3 DEF Engine!BuyBlocked
  <2>6. Cardinality(Engine!Holding) < MaxPositions
    <3>1. Engine!Cardinality(Engine!Holding) = Cardinality(Engine!Holding)
      BY EngineNumbers
    <3>2. Engine!Holding \in SUBSET Symbol
      BY DEF Engine!Holding
    <3>3. IsFiniteSet(Engine!Holding)
      BY <3>2, EngineNumbers, FS_Subset
    <3>4. Cardinality(Engine!Holding) \in Nat
      BY <3>3, FS_CardinalityType
    <3>5. QED
      BY <2>5, <3>1, <3>4, EngineNumbers
  <2>7. Engine!Buy(s)
    BY <1>7, <1>10
  <2>8. BuyFills(i, n)
    BY <1>2, <1>4, <1>7, <1>10, <2>1, <2>3, <2>4, <2>5, <2>6, <2>7 DEF Engine!Buy, BuyFills
  <2>9. QED
    BY <1>4, <1>5, <2>8
<1>11. CASE why = "filled" /\ i.action = "SELL"
  <2>1. positions[s].shares # 0 /\ ~ (day <= positions[s].buy)
    BY <1>6, <1>11 DEF Engine!SellBlocked
  <2>2. positions[s].buy < day
    BY <1>4, <2>1, SymbolTypes DEF DaysOK, Engine!TypeOK
  <2>3. Engine!Sell(s)
    BY <1>7, <1>11
  <2>4. SellFills(i)
    BY <1>2, <1>4, <1>7, <1>11, <2>1, <2>2, <2>3 DEF Engine!Sell, SellFills, Engine!NoPosition
  <2>5. QED
    BY <1>4, <1>5, <2>4
<1>12. QED
  BY <1>4, <1>9, <1>10, <1>11

\* No more symbols are held than there are positions, when one set is part of another.
LEMMA NoMoreHeld ==
  ASSUME Engine!ReplayAssumption, NEW S, S \subseteq Symbol, NEW T, T \subseteq S
  PROVE  Cardinality(S) \in Nat /\ Cardinality(T) \in Nat /\ Cardinality(T) <= Cardinality(S)
<1>1. IsFiniteSet(S)
  BY EngineNumbers, FS_Subset
<1>2. T \in SUBSET S
  OBVIOUS
<1>3. IsFiniteSet(T) /\ Cardinality(T) <= Cardinality(S)
  BY <1>1, <1>2, FS_Subset
<1>4. QED
  BY <1>1, <1>3, FS_CardinalityType

LEMMA TypesBegin ==
  ASSUME Engine!ReplayAssumption, Engine!Init
  PROVE  DaysOK
<1>1. Cardinality({}) = 0
  BY FS_EmptySet
<1>2. Engine!Holding = {}
  BY DEF Engine!Init, Engine!Holding, Engine!NoPosition
<1>3. PICK p : p = CHOOSE x \in Price : TRUE
  OBVIOUS
<1>4. p \in Price
  BY <1>3 DEF Engine!ReplayAssumption
<1>5. market \in [Symbol -> Engine!Bars]
  <2>1. Engine!Quiet = [state |-> "suspended", price |-> p, entry |-> FALSE, exit |-> FALSE, split |-> FALSE]
    BY <1>3 DEF Engine!Quiet
  <2>2. Engine!Quiet \in Engine!Bars
    BY <1>4, <2>1 DEF Engine!Bars, Engine!Bar, Engine!State
  <2>3. QED
    BY <2>2 DEF Engine!Init
<1>6. /\ Engine!Cardinality({} \cup {}) <= MaxPositions
      /\ Engine!Cardinality(Engine!Holding) <= MaxPositions
  BY <1>1, <1>2, EngineNumbers
<1>7. /\ positions \in [Symbol -> [shares : Nat, buy : 0 .. MaxDays]] /\ cash \in Int
      /\ splits \in [Symbol -> SUBSET Engine!Day] /\ bought \in [Symbol -> 0 .. MaxDays] /\ day \in 0 .. MaxDays
  BY EngineNumbers DEF Engine!Init, Engine!NoPosition
<1>8. /\ pending \in Seq(Engine!Intent) /\ queue \in Seq(Engine!Intent) /\ fills \in Seq(Engine!Intent \X Engine!Day)
      /\ blocked \subseteq Engine!Intent \X Engine!Day \X Engine!Reason
      /\ held = {} /\ entering = {} /\ leaving = {} /\ pc = "closed" /\ decided = {} /\ crossed = {} /\ tainted = {}
  BY DEF Engine!Init
<1>9. QED
  BY <1>5, <1>6, <1>7, <1>8 DEF DaysOK, Engine!TypeOK

LEMMA TypesMorning ==
  ASSUME Engine!ReplayAssumption, DaysOK, Engine!Morning
  PROVE  DaysOK'
<1>1. day' \in 1 .. MaxDays /\ day' \in Engine!Day /\ day' \in 0 .. MaxDays /\ day' = day + 1
  BY EngineNumbers DEF DaysOK, Engine!TypeOK, Engine!Morning, Engine!Day
<1>2. market' \in [Symbol -> Engine!Bars]
  BY DEF Engine!Morning
<1>3. held' \subseteq Symbol /\ entering' = {} /\ leaving' \subseteq held' /\ held' \cup entering' \subseteq held \cup entering
  BY DEF DaysOK, Engine!TypeOK, Engine!Morning
<1>4. Engine!Cardinality(held' \cup entering') <= MaxPositions
  <2>1. PICK S, T : S = held \cup entering /\ T = held' \cup entering'
    OBVIOUS
  <2>2. S \subseteq Symbol /\ T \subseteq S /\ Engine!Cardinality(S) <= MaxPositions
    BY <1>3, <2>1 DEF DaysOK, Engine!TypeOK
  <2>3. Cardinality(S) \in Nat /\ Cardinality(T) \in Nat /\ Cardinality(T) <= Cardinality(S)
    BY <2>2, NoMoreHeld
  <2>4. QED
    BY <2>1, <2>2, <2>3, EngineNumbers
<1>5. pending' = << >> /\ pending' \in Seq(Engine!Intent) /\ queue' \in Seq(Engine!Intent)
  BY DEF DaysOK, Engine!TypeOK, Engine!Morning
<1>6. splits' \in [Symbol -> SUBSET Engine!Day]
  BY <1>1 DEF DaysOK, Engine!TypeOK, Engine!Morning
<1>7. crossed' \subseteq Symbol
  BY DEF DaysOK, Engine!TypeOK, Engine!Morning, Engine!Holding
<1>8. /\ UNCHANGED <<positions, cash, fills, blocked, decided, bought, tainted>> /\ pc' = "open"
  BY DEF Engine!Morning
<1>9. Engine!Holding' = Engine!Holding
  BY <1>8 DEF Engine!Holding
<1>10. /\ positions' \in [Symbol -> [shares : Nat, buy : 0 .. MaxDays]] /\ cash' \in Int
       /\ Engine!Cardinality(Engine!Holding') <= MaxPositions
       /\ fills' \in Seq(Engine!Intent \X Engine!Day) /\ blocked' \subseteq Engine!Intent \X Engine!Day \X Engine!Reason
       /\ decided' \subseteq Engine!Intent /\ bought' \in [Symbol -> 0 .. MaxDays] /\ tainted' \subseteq DOMAIN fills'
  BY <1>8, <1>9 DEF DaysOK, Engine!TypeOK
<1>11. QED
  BY <1>1, <1>2, <1>3, <1>4, <1>5, <1>6, <1>7, <1>8, <1>10 DEF DaysOK, Engine!TypeOK

\* The symbols that are bought are new and fit.
LEMMA EntriesAre ==
  ASSUME Engine!ReplayAssumption, DaysOK
  PROVE  /\ Engine!Entries \subseteq Symbol \ held /\ Engine!Exits \subseteq held
         /\ Engine!Cardinality(held \cup Engine!Entries) <= MaxPositions
<1>1. PICK W, free : W = {s \in Symbol \ held : market[s].entry} /\ free = MaxPositions - Engine!Cardinality(held)
  OBVIOUS
<1>2. held \subseteq Symbol /\ entering \subseteq Symbol /\ Engine!Cardinality(held \cup entering) <= MaxPositions
  BY DEF DaysOK, Engine!TypeOK
<1>3. Cardinality(held) \in Nat /\ free \in Nat /\ free = MaxPositions - Cardinality(held)
  <2>1. PICK S : S = held \cup entering
    OBVIOUS
  <2>2. S \subseteq Symbol /\ held \subseteq S
    BY <1>2, <2>1
  <2>3. Cardinality(S) \in Nat /\ Cardinality(held) \in Nat /\ Cardinality(held) <= Cardinality(S)
    BY <2>2, NoMoreHeld
  <2>4. Engine!Cardinality(S) = Cardinality(S) /\ Engine!Cardinality(held) = Cardinality(held)
    BY EngineNumbers
  <2>5. Cardinality(S) <= MaxPositions
    BY <1>2, <2>1, <2>4
  <2>6. QED
    BY <1>1, <2>3, <2>4, <2>5, EngineNumbers
<1>4. Engine!Entries = {s \in W : Cardinality(Under(W, s)) < free}
  <2>1. Engine!Entries = {s \in W : Engine!Cardinality(Under(W, s)) < free}
    BY <1>1, Zenon DEF Engine!Entries, Under
  <2>2. QED
    BY <2>1, EngineNumbers
<1>5. PICK E : E = Engine!Entries
  OBVIOUS
<1>6. E \subseteq W /\ W \subseteq Symbol /\ E \cap held = {} /\ E \subseteq Symbol
  BY <1>1, <1>4, <1>5
<1>7. Cardinality(E) <= free
  BY <1>3, <1>4, <1>5, <1>6, FirstFit
<1>8. IsFiniteSet(E) /\ IsFiniteSet(held)
  <2>1. IsFiniteSet(Symbol) /\ E \in SUBSET Symbol /\ held \in SUBSET Symbol
    BY <1>2, <1>6, EngineNumbers
  <2>2. QED
    BY <2>1, FS_Subset
<1>9. Cardinality(held \cup E) = Cardinality(held) + Cardinality(E) - Cardinality(held \cap E)
  BY <1>8, FS_Union
<1>10. held \cap E = {} /\ Cardinality({}) = 0 /\ Cardinality(E) \in Nat
  BY <1>6, <1>8, FS_EmptySet, FS_CardinalityType
<1>11. Cardinality(held \cup E) <= MaxPositions
  BY <1>3, <1>7, <1>9, <1>10, EngineNumbers
<1>12. QED
  BY <1>1, <1>5, <1>6, <1>11, EngineNumbers DEF Engine!Exits

\* What the next open gets: what was deferred today, then the sells and the buys of this close.
LEMMA ThreeParts ==
  ASSUME NEW A, NEW p \in Seq(A), NEW s \in Seq(A), NEW b \in Seq(A), NEW t, t = p \o s \o b
  PROVE  /\ t \in Seq(A) /\ Len(t) = Len(p) + Len(s) + Len(b)
         /\ \A k \in 1 .. Len(t) : \/ k \in 1 .. Len(p) /\ t[k] = p[k]
                                   \/ k > Len(p) /\ k - Len(p) \in 1 .. Len(s) /\ t[k] = s[k - Len(p)]
                                   \/ k > Len(p) + Len(s) /\ k - Len(p) - Len(s) \in 1 .. Len(b) /\ t[k] = b[k - Len(p) - Len(s)]
         /\ \A k \in 1 .. Len(p) : k \in 1 .. Len(t) /\ t[k] = p[k]
<1>1. PICK u : u = p \o s
  OBVIOUS
<1>2. u \in Seq(A) /\ Len(u) = Len(p) + Len(s) /\ \A k \in 1 .. Len(u) : u[k] = IF k <= Len(p) THEN p[k] ELSE s[k - Len(p)]
  BY <1>1, ConcatProperties
<1>3. t = u \o b
  BY <1>1
<1>4. t \in Seq(A) /\ Len(t) = Len(u) + Len(b) /\ \A k \in 1 .. Len(t) : t[k] = IF k <= Len(u) THEN u[k] ELSE b[k - Len(u)]
  <2>1. u \in Seq(A)
    BY <1>2
  <2>2. u \o b \in Seq(A) /\ Len(u \o b) = Len(u) + Len(b) /\ \A k \in 1 .. Len(u) + Len(b) : (u \o b)[k] = IF k <= Len(u) THEN u[k] ELSE b[k - Len(u)]
    BY <2>1, ConcatProperties
  <2>3. QED
    BY <1>3, <2>2
<1>5. Len(p) \in Nat /\ Len(s) \in Nat /\ Len(b) \in Nat /\ Len(u) \in Nat /\ Len(t) \in Nat
  BY <1>2, <1>4
<1>6. ASSUME NEW k \in 1 .. Len(t)
      PROVE  \/ k \in 1 .. Len(p) /\ t[k] = p[k]
             \/ k > Len(p) /\ k - Len(p) \in 1 .. Len(s) /\ t[k] = s[k - Len(p)]
             \/ k > Len(p) + Len(s) /\ k - Len(p) - Len(s) \in 1 .. Len(b) /\ t[k] = b[k - Len(p) - Len(s)]
  <2>1. CASE k <= Len(u)
    <3>1. t[k] = u[k] /\ k \in 1 .. Len(u) /\ u[k] = IF k <= Len(p) THEN p[k] ELSE s[k - Len(p)]
      BY <1>2, <1>4, <1>5, <2>1
    <3>2. QED
      BY <1>2, <1>5, <2>1, <3>1
  <2>2. CASE ~ (k <= Len(u))
    <3>1. t[k] = b[k - Len(u)] /\ Len(u) = Len(p) + Len(s) /\ k - Len(u) = k - Len(p) - Len(s)
      BY <1>2, <1>4, <1>5, <2>2
    <3>2. t[k] = b[k - Len(p) - Len(s)]
      BY <3>1
    <3>3. k > Len(p) + Len(s) /\ k - Len(p) - Len(s) \in 1 .. Len(b)
      BY <1>2, <1>4, <1>5, <2>2
    <3>4. QED
      BY <3>2, <3>3
  <2>3. QED
    BY <2>1, <2>2
<1>7. ASSUME NEW k \in 1 .. Len(p) PROVE k \in 1 .. Len(t) /\ t[k] = p[k]
  <2>1. k \in 1 .. Len(u) /\ k \in 1 .. Len(t) /\ k <= Len(u)
    BY <1>2, <1>4, <1>5
  <2>2. t[k] = u[k] /\ u[k] = p[k]
    BY <1>2, <1>4, <2>1
  <2>3. QED
    BY <2>1, <2>2
<1>8. QED
  BY <1>2, <1>4, <1>6, <1>7

LEMMA TomorrowIs ==
  ASSUME Engine!ReplayAssumption, ReplayInv, pc = "open", NEW t, t = Engine!Tomorrow
  PROVE  /\ t \in Seq(Engine!Intent) /\ SellsFirst(t)
         /\ \A k, l \in 1 .. Len(t) : t[k] = t[l] => k = l
         /\ \A k \in 1 .. Len(t) : t[k].day = day \/ \E l \in 1 .. Len(pending) : t[k] = pending[l]
         /\ \A k \in 1 .. Len(pending) : k \in 1 .. Len(t) /\ t[k] = pending[k]
<1>1. PICK s, b : s = Engine!Intents("SELL", Engine!Exits) /\ b = Engine!Intents("BUY", Engine!Entries)
  OBVIOUS
<1>2. day \in Engine!Day /\ pending \in Seq(Engine!Intent) /\ held \subseteq Symbol
  BY DEF ReplayInv, DaysOK, Engine!TypeOK
<1>3. Engine!Exits \subseteq Symbol /\ Engine!Entries \subseteq Symbol
  BY <1>2, EntriesAre DEF ReplayInv
<1>4. /\ s \in Seq(Engine!Intent)
      /\ \A k \in 1 .. Len(s) : s[k].action = "SELL" /\ s[k].day = day
      /\ \A k, l \in 1 .. Len(s) : s[k] = s[l] => k = l
  BY <1>1, <1>2, <1>3, IntentsAre
<1>5. /\ b \in Seq(Engine!Intent)
      /\ \A k \in 1 .. Len(b) : b[k].action = "BUY" /\ b[k].day = day
      /\ \A k, l \in 1 .. Len(b) : b[k] = b[l] => k = l
  BY <1>1, <1>2, <1>3, IntentsAre
<1>6. t = pending \o s \o b
  BY <1>1 DEF Engine!Tomorrow
<1>7. PICK A : A = Engine!Intent
  OBVIOUS
<1>8. pending \in Seq(A) /\ s \in Seq(A) /\ b \in Seq(A)
  BY <1>2, <1>4, <1>5, <1>7
<1>9. PICK lp, ls, lb : lp = Len(pending) /\ ls = Len(s) /\ lb = Len(b) /\ lp \in Nat /\ ls \in Nat /\ lb \in Nat
  <2>1. Len(pending) \in Nat /\ Len(s) \in Nat /\ Len(b) \in Nat
    BY <1>8, LenProperties
  <2>2. QED
    BY <2>1, Zenon
<1>10. /\ t \in Seq(A) /\ Len(t) = lp + ls + lb
       /\ \A k \in 1 .. Len(t) : \/ k \in 1 .. lp /\ t[k] = pending[k]
                                 \/ k > lp /\ k - lp \in 1 .. ls /\ t[k] = s[k - lp]
                                 \/ k > lp + ls /\ k - lp - ls \in 1 .. lb /\ t[k] = b[k - lp - ls]
       /\ \A k \in 1 .. lp : k \in 1 .. Len(t) /\ t[k] = pending[k]
  BY <1>6, <1>8, <1>9, ThreeParts
<1>11. ASSUME NEW k \in 1 .. lp PROVE pending[k].day < day /\ pending[k].day # day /\ pending[k].action = "SELL"
  <2>1. pending[k] \in decided /\ pending[k].day < day
    BY <1>9 DEF ReplayInv, IntentsOK
  <2>2. pending[k].action = "SELL"
    BY <1>9 DEF ReplayInv, TurnOK, OnlySells
  <2>3. day \in Nat /\ pending[k] \in Engine!Intent
    BY <1>2, <1>9, EngineNumbers DEF Engine!Day
  <2>4. pending[k].day \in Nat
    BY <2>3, EngineNumbers DEF Engine!Intent, Engine!Day
  <2>5. QED
    BY <2>1, <2>2, <2>3, <2>4
<1>12. ASSUME NEW k \in 1 .. Len(t)
       PROVE  /\ t[k].action = "SELL" <=> k <= lp + ls
              /\ t[k].day # day <=> k <= lp
  <2>1. CASE k \in 1 .. lp /\ t[k] = pending[k]
    BY <1>9, <1>11, <2>1
  <2>2. CASE k > lp /\ k - lp \in 1 .. ls /\ t[k] = s[k - lp]
    BY <1>4, <1>9, <2>2
  <2>3. CASE k > lp + ls /\ k - lp - ls \in 1 .. lb /\ t[k] = b[k - lp - ls]
    BY <1>5, <1>9, <2>3
  <2>4. QED
    BY <1>10, <2>1, <2>2, <2>3
<1>13. SellsFirst(t)
  <2>1. SUFFICES ASSUME NEW k \in 1 .. Len(t), NEW l \in 1 .. Len(t), k < l, t[l].action = "SELL" PROVE t[k].action = "SELL"
    BY DEF SellsFirst
  <2>2. l <= lp + ls
    BY <1>12, <2>1
  <2>3. k <= lp + ls
    BY <1>9, <1>10, <2>1, <2>2
  <2>4. QED
    BY <1>12, <2>3
<1>14. ASSUME NEW k \in 1 .. Len(t), NEW l \in 1 .. Len(t), t[k] = t[l] PROVE k = l
  <2>1. (k <= lp + ls <=> l <= lp + ls) /\ (k <= lp <=> l <= lp)
    BY <1>12, <1>14
  <2>2. CASE k <= lp
    <3>1. k \in 1 .. lp /\ l \in 1 .. lp /\ t[k] = pending[k] /\ t[l] = pending[l]
      BY <1>9, <1>10, <2>1, <2>2
    <3>2. QED
      BY <1>9, <1>14, <3>1 DEF ReplayInv, IntentsOK
  <2>3. CASE ~ (k <= lp) /\ k <= lp + ls
    <3>1. k - lp \in 1 .. ls /\ t[k] = s[k - lp] /\ l - lp \in 1 .. ls /\ t[l] = s[l - lp]
      BY <1>9, <1>10, <2>1, <2>3
    <3>2. k - lp = l - lp
      BY <1>4, <1>9, <1>14, <3>1
    <3>3. QED
      BY <1>9, <1>10, <3>2
  <2>4. CASE ~ (k <= lp + ls)
    <3>1. k - lp - ls \in 1 .. lb /\ t[k] = b[k - lp - ls] /\ l - lp - ls \in 1 .. lb /\ t[l] = b[l - lp - ls]
      BY <1>9, <1>10, <2>1, <2>4
    <3>2. k - lp - ls = l - lp - ls
      BY <1>5, <1>9, <1>14, <3>1
    <3>3. QED
      BY <1>9, <1>10, <3>2
  <2>5. QED
    BY <2>2, <2>3, <2>4
<1>15. ASSUME NEW k \in 1 .. Len(t) PROVE t[k].day = day \/ \E l \in 1 .. Len(pending) : t[k] = pending[l]
  <2>1. CASE k <= lp
    BY <1>9, <1>10, <2>1
  <2>2. CASE ~ (k <= lp)
    BY <1>12, <2>2
  <2>3. QED
    BY <2>1, <2>2
<1>16. QED
  BY <1>7, <1>9, <1>10, <1>13, <1>14, <1>15

LEMMA TypesEvening ==
  ASSUME Engine!ReplayAssumption, ReplayInv, Engine!Evening
  PROVE  DaysOK'
<1>1. PICK t : t = Engine!Tomorrow
  OBVIOUS
<1>2. t \in Seq(Engine!Intent) /\ pending' = t /\ decided' = decided \cup Engine!ToSet(t)
  BY <1>1, TomorrowIs DEF Engine!Evening
<1>3. Engine!ToSet(t) \subseteq Engine!Intent
  BY <1>2 DEF Engine!ToSet
<1>4. /\ Engine!Entries \subseteq Symbol \ held /\ Engine!Exits \subseteq held
      /\ Engine!Cardinality(held \cup Engine!Entries) <= MaxPositions
  BY EntriesAre DEF ReplayInv
<1>5. UNCHANGED <<day, market, held, queue, positions, cash, fills, blocked, splits, bought, crossed, tainted>> /\ pc' = "closed"
  BY DEF Engine!Evening
<1>6. Engine!Holding' = Engine!Holding
  BY <1>5 DEF Engine!Holding
<1>7. /\ held' \subseteq Symbol /\ entering' \subseteq Symbol /\ leaving' \subseteq held'
      /\ Engine!Cardinality(held' \cup entering') <= MaxPositions
  BY <1>4, <1>5 DEF Engine!Evening, ReplayInv, DaysOK, Engine!TypeOK
<1>8. decided' \subseteq Engine!Intent /\ pending' \in Seq(Engine!Intent)
  BY <1>2, <1>3 DEF ReplayInv, DaysOK, Engine!TypeOK
<1>9. /\ day' \in 0 .. MaxDays /\ market' \in [Symbol -> Engine!Bars] /\ queue' \in Seq(Engine!Intent)
      /\ positions' \in [Symbol -> [shares : Nat, buy : 0 .. MaxDays]] /\ cash' \in Int
      /\ Engine!Cardinality(Engine!Holding') <= MaxPositions
      /\ fills' \in Seq(Engine!Intent \X Engine!Day) /\ blocked' \subseteq Engine!Intent \X Engine!Day \X Engine!Reason
      /\ splits' \in [Symbol -> SUBSET Engine!Day] /\ bought' \in [Symbol -> 0 .. MaxDays]
      /\ crossed' \subseteq Symbol /\ tainted' \subseteq DOMAIN fills'
  BY <1>5, <1>6 DEF ReplayInv, DaysOK, Engine!TypeOK
<1>10. QED
  BY <1>5, <1>7, <1>8, <1>9 DEF DaysOK, Engine!TypeOK

LEMMA TurnIs ==
  ASSUME Engine!ReplayAssumption, DaysOK, NEW i \in Engine!Intent, Turn(i)
  PROVE  /\ i.symbol \in Symbol /\ i.action \in {"BUY", "SELL"} /\ i.day \in Engine!Day /\ day \in Engine!Day /\ day \in Nat
         /\ Len(queue) \in Nat /\ Len(queue) >= 1 /\ i = queue[1] /\ pc = "open"
         /\ queue' \in Seq(Engine!Intent) /\ Len(queue') = Len(queue) - 1
         /\ \A k \in 1 .. Len(queue') : queue'[k] = queue[k + 1]
<1>1. queue \in Seq(Engine!Intent) /\ queue # << >> /\ day \in Engine!Day
  BY DEF DaysOK, Engine!TypeOK, Turn
<1>2. Len(queue) \in Nat /\ Len(queue) >= 1
  BY <1>1, EmptySeq
<1>3. Tail(queue) \in Seq(Engine!Intent) /\ Len(Tail(queue)) = Len(queue) - 1 /\ \A k \in 1 .. Len(Tail(queue)) : Tail(queue)[k] = queue[k + 1]
  BY <1>1, HeadTailProperties
<1>4. queue' = Tail(queue) /\ i = Head(queue) /\ pc = "open"
  BY DEF Turn
<1>5. Head(queue) = queue[1]
  BY <1>1
<1>6. i.symbol \in Symbol /\ i.action \in {"BUY", "SELL"} /\ i.day \in Engine!Day
  BY DEF Engine!Intent
<1>7. day \in Nat
  BY <1>1, EngineNumbers DEF Engine!Day
<1>8. QED
  BY <1>1, <1>2, <1>3, <1>4, <1>5, <1>6, <1>7

\* A fill is added at the end.
LEMMA FillsGrow ==
  ASSUME DaysOK, pc = "open", NEW i \in Engine!Intent, fills' = Append(fills, <<i, day>>)
  PROVE  /\ Len(fills) \in Nat /\ Len(fills') = Len(fills) + 1 /\ fills' \in Seq(Engine!Intent \X Engine!Day)
         /\ \A k \in 1 .. Len(fills) : fills'[k] = fills[k]
         /\ fills'[Len(fills) + 1] = <<i, day>>
<1>1. fills \in Seq(Engine!Intent \X Engine!Day) /\ <<i, day>> \in Engine!Intent \X Engine!Day
  BY DEF DaysOK, Engine!TypeOK
<1>2. QED
  BY <1>1, AppendProperties

LEMMA TypesExecute ==
  ASSUME Engine!ReplayAssumption, DaysOK, Engine!Execute
  PROVE  DaysOK'
<1>1. PICK i \in Engine!Intent : Turn(i) /\ ((\E n : BuyFills(i, n)) \/ SellFills(i) \/ \E why : Refusal(i, why))
  BY ExecuteIs
<1>2. PICK s : s = i.symbol
  OBVIOUS
<1>3. s \in Symbol /\ i.action \in {"BUY", "SELL"} /\ day \in Engine!Day /\ queue' \in Seq(Engine!Intent) /\ pc = "open"
  BY <1>1, <1>2, TurnIs
<1>4. UNCHANGED <<pc, day, market, held, entering, leaving, splits, decided>>
  BY <1>1 DEF Turn
<1>5. /\ positions \in [Symbol -> [shares : Nat, buy : 0 .. MaxDays]] /\ cash \in Int
      /\ Engine!Cardinality(Engine!Holding) <= MaxPositions
      /\ fills \in Seq(Engine!Intent \X Engine!Day) /\ blocked \subseteq Engine!Intent \X Engine!Day \X Engine!Reason
      /\ bought \in [Symbol -> 0 .. MaxDays] /\ crossed \subseteq Symbol /\ tainted \subseteq DOMAIN fills
      /\ pending \in Seq(Engine!Intent) /\ day \in 0 .. MaxDays
  BY DEF DaysOK, Engine!TypeOK
<1>6. /\ positions[s] = [shares |-> positions[s].shares, buy |-> positions[s].buy]
      /\ positions[s].shares \in Nat /\ positions[s].buy \in 0 .. MaxDays /\ market[s].price \in Price /\ market[s].price \in Nat
  BY <1>3, SymbolTypes, EngineNumbers
<1>7. IsFiniteSet(Engine!Holding) /\ Engine!Holding \subseteq Symbol /\ Cardinality(Engine!Holding) \in Nat /\ Cardinality(Engine!Holding) <= MaxPositions
  <2>1. Engine!Holding \in SUBSET Symbol
    BY DEF Engine!Holding
  <2>2. IsFiniteSet(Engine!Holding)
    BY <2>1, EngineNumbers, FS_Subset
  <2>3. QED
    BY <1>5, <2>1, <2>2, EngineNumbers, FS_CardinalityType
<1>8. SUFFICES /\ positions' \in [Symbol -> [shares : Nat, buy : 0 .. MaxDays]] /\ cash' \in Int
               /\ Cardinality(Engine!Holding') <= MaxPositions
               /\ fills' \in Seq(Engine!Intent \X Engine!Day) /\ blocked' \subseteq Engine!Intent \X Engine!Day \X Engine!Reason
               /\ bought' \in [Symbol -> 0 .. MaxDays] /\ crossed' \subseteq Symbol /\ tainted' \subseteq DOMAIN fills'
               /\ pending' \in Seq(Engine!Intent)
  <2>1. Engine!Cardinality(Engine!Holding') = Cardinality(Engine!Holding')
    BY EngineNumbers
  <2>2. QED
    BY <1>3, <1>4, <2>1 DEF DaysOK, Engine!TypeOK
<1>9. ASSUME fills' = Append(fills, <<i, day>>) PROVE fills' \in Seq(Engine!Intent \X Engine!Day) /\ tainted \cup {Len(fills) + 1} \subseteq DOMAIN fills'
  <2>1. /\ Len(fills) \in Nat /\ Len(fills') = Len(fills) + 1 /\ fills' \in Seq(Engine!Intent \X Engine!Day)
    BY <1>3, <1>9, FillsGrow
  <2>2. DOMAIN fills = 1 .. Len(fills) /\ DOMAIN fills' = 1 .. Len(fills) + 1
    BY <1>5, <2>1
  <2>3. QED
    BY <1>5, <2>1, <2>2
<1>10. CASE \E n : BuyFills(i, n)
  <2>1. PICK n : BuyFills(i, n)
    BY <1>10
  <2>2. PICK sh, by : sh = positions[s].shares + n /\ by = (IF positions[s].shares = 0 THEN day ELSE positions[s].buy)
    OBVIOUS
  <2>3. n \in Nat /\ sh \in Nat /\ by \in 0 .. MaxDays
    BY <1>5, <1>6, <2>1, <2>2 DEF BuyFills
  <2>4. PICK e : e = [shares |-> sh, buy |-> by]
    OBVIOUS
  <2>5. e \in [shares : Nat, buy : 0 .. MaxDays] /\ positions' = [positions EXCEPT ![s] = e]
    BY <1>2, <2>1, <2>2, <2>3, <2>4 DEF BuyFills
  <2>6. positions' \in [Symbol -> [shares : Nat, buy : 0 .. MaxDays]]
    BY <1>5, <2>5
  <2>7. Engine!Holding' \subseteq Engine!Holding \cup {s}
    BY <1>5, <2>5 DEF Engine!Holding
  <2>8. Cardinality(Engine!Holding') <= MaxPositions
    <3>1. PICK H, G : H = Engine!Holding \cup {s} /\ G = Engine!Holding'
      OBVIOUS
    <3>2. IsFiniteSet(H) /\ Cardinality(H) <= Cardinality(Engine!Holding) + 1
      <4>1. PICK S : S = Engine!Holding
        OBVIOUS
      <4>2. IsFiniteSet(S) /\ Cardinality(S) \in Nat
        BY <1>7, <4>1
      <4>3. IsFiniteSet(S \cup {s}) /\ Cardinality(S \cup {s}) = IF s \in S THEN Cardinality(S) ELSE Cardinality(S) + 1
        BY <4>2, FS_AddElement
      <4>4. Cardinality(S \cup {s}) <= Cardinality(S) + 1
        BY <4>2, <4>3
      <4>5. QED
        BY <3>1, <4>1, <4>3, <4>4
    <3>3. G \in SUBSET H
      BY <2>7, <3>1
    <3>4. Cardinality(G) <= Cardinality(H) /\ Cardinality(G) \in Nat /\ Cardinality(H) \in Nat
      BY <3>2, <3>3, FS_Subset, FS_CardinalityType
    <3>5. Cardinality(Engine!Holding) < MaxPositions
      BY <2>1 DEF BuyFills
    <3>6. QED
      BY <1>7, <3>1, <3>2, <3>4, <3>5, EngineNumbers
  <2>9. cash' \in Int
    <3>1. PICK m : m = n * market[s].price
      OBVIOUS
    <3>2. m \in Int
      BY <1>6, <2>3, <3>1
    <3>3. Engine!Commission(m) \in Int
      BY <3>2, CommissionIs
    <3>4. cash' = cash - (m + Engine!Commission(m))
      BY <1>2, <2>1, <3>1 DEF BuyFills
    <3>5. QED
      BY <1>5, <3>2, <3>3, <3>4
  <2>10. bought' \in [Symbol -> 0 .. MaxDays]
    BY <1>5, <2>1 DEF BuyFills
  <2>11. QED
    BY <1>5, <1>9, <2>1, <2>6, <2>8, <2>9, <2>10 DEF BuyFills
<1>11. CASE SellFills(i)
  <2>1. PICK e : e = [shares |-> 0, buy |-> 0]
    OBVIOUS
  <2>2. e \in [shares : Nat, buy : 0 .. MaxDays] /\ positions' = [positions EXCEPT ![s] = e]
    BY <1>2, <1>11, <2>1, EngineNumbers DEF SellFills
  <2>3. positions' \in [Symbol -> [shares : Nat, buy : 0 .. MaxDays]]
    BY <1>5, <2>2
  <2>4. Engine!Holding' \subseteq Engine!Holding
    BY <1>5, <2>1, <2>2 DEF Engine!Holding
  <2>5. Cardinality(Engine!Holding') <= MaxPositions
    <3>1. PICK H, G : H = Engine!Holding /\ G = Engine!Holding'
      OBVIOUS
    <3>2. Cardinality(G) <= Cardinality(H) /\ Cardinality(G) \in Nat /\ Cardinality(H) \in Nat /\ Cardinality(H) <= MaxPositions
      BY <1>7, <2>4, <3>1, NoMoreHeld
    <3>3. QED
      BY <3>1, <3>2, EngineNumbers
  <2>6. cash' \in Int
    <3>1. PICK m : m = positions[s].shares * market[s].price
      OBVIOUS
    <3>2. m \in Int
      BY <1>6, <3>1
    <3>3. Engine!Commission(m) \in Int
      BY <3>2, CommissionIs
    <3>4. cash' = cash + m - Engine!Commission(m)
      BY <1>2, <1>11, <3>1 DEF SellFills
    <3>5. QED
      BY <1>5, <3>2, <3>3, <3>4
  <2>7. QED
    BY <1>5, <1>9, <1>11, <2>3, <2>5, <2>6 DEF SellFills
<1>12. CASE \E why : Refusal(i, why)
  <2>1. PICK why : Refusal(i, why)
    BY <1>12
  <2>2. blocked' \subseteq Engine!Intent \X Engine!Day \X Engine!Reason
    BY <1>3, <1>5, <2>1 DEF Refusal
  <2>3. pending' \in Seq(Engine!Intent)
    <3>1. Append(pending, i) \in Seq(Engine!Intent)
      BY <1>5, AppendProperties
    <3>2. QED
      BY <1>5, <2>1, <3>1 DEF Refusal
  <2>4. Engine!Holding' = Engine!Holding
    BY <2>1 DEF Refusal, Engine!Holding
  <2>5. QED
    BY <1>5, <1>7, <2>1, <2>2, <2>3, <2>4 DEF Refusal
<1>13. QED
  BY <1>1, <1>10, <1>11, <1>12

LEMMA TurnMorning ==
  ASSUME Engine!ReplayAssumption, ReplayInv, Engine!Morning
  PROVE  TurnOK'
<1>1. queue' = pending /\ pending' = << >> /\ pc' = "open" /\ bought' = bought /\ day' = day + 1 /\ day \in Nat
  BY EngineNumbers DEF Engine!Morning, ReplayInv, DaysOK, Engine!TypeOK
<1>2. \A s \in Symbol : bought[s] <= day /\ bought[s] \in Nat
  <2>1. \A s \in Symbol : bought[s] \in 0 .. MaxDays
    BY DEF ReplayInv, DaysOK, Engine!TypeOK
  <2>2. QED
    BY <2>1, EngineNumbers DEF ReplayInv, TurnOK
<1>3. \A s \in Symbol : bought'[s] < day' /\ bought'[s] <= day'
  BY <1>1, <1>2
<1>4. SellsFirst(queue')
  BY <1>1 DEF ReplayInv, TurnOK
<1>5. SellsFirst(pending') /\ OnlySells(pending')
  BY <1>1 DEF SellsFirst, OnlySells
<1>6. QED
  BY <1>3, <1>4, <1>5 DEF TurnOK

LEMMA TurnEvening ==
  ASSUME Engine!ReplayAssumption, ReplayInv, Engine!Evening
  PROVE  TurnOK'
<1>1. queue' = << >> /\ pc' = "closed" /\ bought' = bought /\ day' = day
  BY DEF Engine!Evening
<1>2. SellsFirst(pending')
  <2>1. PICK t : t = Engine!Tomorrow
    OBVIOUS
  <2>2. SellsFirst(t)
    BY <2>1, TomorrowIs DEF Engine!Evening
  <2>3. pending' = t
    BY <2>1 DEF Engine!Evening
  <2>4. QED
    BY <2>2, <2>3
<1>3. SellsFirst(queue') /\ ~ (\E k \in 1 .. Len(queue') : queue'[k].action = "SELL")
  BY <1>1 DEF SellsFirst
<1>4. QED
  BY <1>1, <1>2, <1>3 DEF ReplayInv, TurnOK

LEMMA TurnExecute ==
  ASSUME Engine!ReplayAssumption, ReplayInv, Engine!Execute
  PROVE  TurnOK'
<1>1. PICK i \in Engine!Intent : Turn(i) /\ ((\E n : BuyFills(i, n)) \/ SellFills(i) \/ \E why : Refusal(i, why))
  BY ExecuteIs DEF ReplayInv
<1>2. /\ i.symbol \in Symbol /\ i.action \in {"BUY", "SELL"} /\ day \in Nat
      /\ Len(queue) \in Nat /\ Len(queue) >= 1 /\ i = queue[1] /\ pc = "open"
      /\ Len(queue') = Len(queue) - 1 /\ \A k \in 1 .. Len(queue') : queue'[k] = queue[k + 1]
  BY <1>1, TurnIs DEF ReplayInv
<1>3. pc' = pc /\ day' = day
  BY <1>1 DEF Turn
<1>4. SellsFirst(queue) /\ OnlySells(pending) /\ pending \in Seq(Engine!Intent)
  BY <1>2 DEF ReplayInv, TurnOK, DaysOK, Engine!TypeOK
<1>5. SellsFirst(queue')
  <2>1. SUFFICES ASSUME NEW k \in 1 .. Len(queue'), NEW l \in 1 .. Len(queue'), k < l, queue'[l].action = "SELL" PROVE queue'[k].action = "SELL"
    BY DEF SellsFirst
  <2>2. k + 1 \in 1 .. Len(queue) /\ l + 1 \in 1 .. Len(queue) /\ k + 1 < l + 1
    BY <1>2, <2>1
  <2>3. queue'[k] = queue[k + 1] /\ queue'[l] = queue[l + 1]
    BY <1>2
  <2>4. QED
    BY <1>4, <2>1, <2>2, <2>3 DEF SellsFirst
<1>6. OnlySells(pending') /\ SellsFirst(pending')
  <2>1. OnlySells(pending')
    <3>1. CASE pending' = pending
      BY <1>4, <3>1
    <3>2. CASE i.action = "SELL" /\ pending' = Append(pending, i)
      <4>1. /\ Len(pending) \in Nat /\ Len(pending') = Len(pending) + 1
            /\ \A k \in 1 .. Len(pending) : pending'[k] = pending[k]
            /\ pending'[Len(pending) + 1] = i
        BY <1>4, <3>2, AppendProperties
      <4>2. QED
        BY <1>4, <3>2, <4>1 DEF OnlySells
    <3>3. QED
      BY <1>1, <3>1, <3>2 DEF BuyFills, SellFills, Refusal
  <2>2. QED
    BY <2>1 DEF OnlySells, SellsFirst
<1>7. \A s \in Symbol : bought[s] <= day
  BY DEF ReplayInv, TurnOK
<1>8. ASSUME NEW k \in 1 .. Len(queue'), queue'[k].action = "SELL" PROVE i.action = "SELL" /\ \A s \in Symbol : bought[s] < day
  <2>1. k + 1 \in 1 .. Len(queue) /\ 1 \in 1 .. Len(queue) /\ 1 < k + 1 /\ queue[k + 1].action = "SELL"
    BY <1>2, <1>8
  <2>2. queue[1].action = "SELL"
    BY <1>4, <2>1 DEF SellsFirst
  <2>3. QED
    BY <1>2, <2>1, <2>2 DEF ReplayInv, TurnOK
<1>9. CASE \E n : BuyFills(i, n)
  <2>1. i.action = "BUY" /\ bought' = [bought EXCEPT ![i.symbol] = day]
    BY <1>9 DEF BuyFills
  <2>2. ~ (\E k \in 1 .. Len(queue') : queue'[k].action = "SELL")
    BY <1>8, <2>1
  <2>3. bought \in [Symbol -> 0 .. MaxDays]
    BY DEF ReplayInv, DaysOK, Engine!TypeOK
  <2>4. \A s \in Symbol : bought'[s] <= day'
    BY <1>2, <1>3, <1>7, <2>1, <2>3
  <2>5. QED
    BY <1>5, <1>6, <2>2, <2>4 DEF TurnOK
<1>10. CASE SellFills(i) \/ \E why : Refusal(i, why)
  <2>1. bought' = bought
    BY <1>10 DEF SellFills, Refusal
  <2>2. (\E k \in 1 .. Len(queue') : queue'[k].action = "SELL") => \A s \in Symbol : bought[s] < day
    BY <1>8
  <2>3. QED
    BY <1>3, <1>5, <1>6, <1>7, <2>1, <2>2 DEF TurnOK
<1>11. QED
  BY <1>1, <1>9, <1>10

\* An intent that is left alone keeps its account.
LEMMA AccountStays ==
  ASSUME NEW j, AccountOK(j), Waits(j)' <=> Waits(j), FilledAt(j)' = FilledAt(j), IsRefused(j)' <=> IsRefused(j)
  PROVE  AccountOK(j)'
  BY DEF AccountOK

LEMMA IntentsMorning ==
  ASSUME Engine!ReplayAssumption, ReplayInv, Engine!Morning
  PROVE  IntentsOK'
<1>1. queue' = pending /\ pending' = << >> /\ pc' = "open" /\ pc = "closed" /\ day' = day + 1 /\ day \in Nat
  BY EngineNumbers DEF Engine!Morning, ReplayInv, DaysOK, Engine!TypeOK
<1>2. UNCHANGED <<fills, blocked, decided>>
  BY DEF Engine!Morning
<1>3. queue = << >>
  BY <1>1 DEF ReplayInv, IntentsOK
<1>4. ASSUME NEW i \in decided PROVE i.day <= day' /\ i.day < day' /\ AccountOK(i)'
  <2>1. i.day <= day /\ AccountOK(i) /\ i.day \in Nat
    <3>1. i \in Engine!Intent
      BY DEF ReplayInv, DaysOK, Engine!TypeOK
    <3>2. i.day \in Nat
      BY <3>1, EngineNumbers DEF Engine!Intent, Engine!Day
    <3>3. QED
      BY <3>2 DEF ReplayInv, IntentsOK
  <2>2. Waits(i)' <=> Waits(i)
    BY <1>1, <1>3 DEF Waits
  <2>3. FilledAt(i)' = FilledAt(i) /\ (IsRefused(i)' <=> IsRefused(i))
    BY <1>2 DEF FilledAt, IsRefused
  <2>4. AccountOK(i)'
    BY <2>1, <2>2, <2>3, AccountStays
  <2>5. QED
    BY <1>1, <2>1, <2>4
<1>5. /\ \A k \in 1 .. Len(queue') : queue'[k] \in decided'
      /\ \A k \in 1 .. Len(pending') : pending'[k] \in decided'
      /\ \A k, l \in 1 .. Len(queue') : queue'[k] = queue'[l] => k = l
      /\ \A k, l \in 1 .. Len(pending') : pending'[k] = pending'[l] => k = l
      /\ \A k \in 1 .. Len(queue'), l \in 1 .. Len(pending') : queue'[k] # pending'[l]
  BY <1>1, <1>2 DEF ReplayInv, IntentsOK
<1>6. /\ \A k \in 1 .. Len(fills') : fills'[k][1] \in decided'
      /\ \A b \in blocked' : b[1] \in decided'
  BY <1>2 DEF ReplayInv, IntentsOK
<1>7. QED
  BY <1>1, <1>2, <1>4, <1>5, <1>6 DEF IntentsOK

LEMMA IntentsEvening ==
  ASSUME Engine!ReplayAssumption, ReplayInv, Engine!Evening
  PROVE  IntentsOK'
<1>1. PICK t : t = Engine!Tomorrow
  OBVIOUS
<1>2. /\ t \in Seq(Engine!Intent)
      /\ \A k, l \in 1 .. Len(t) : t[k] = t[l] => k = l
      /\ \A k \in 1 .. Len(t) : t[k].day = day \/ \E l \in 1 .. Len(pending) : t[k] = pending[l]
      /\ \A k \in 1 .. Len(pending) : k \in 1 .. Len(t) /\ t[k] = pending[k]
  BY <1>1, TomorrowIs DEF Engine!Evening
<1>3. /\ pc = "open" /\ pc' = "closed" /\ queue = << >> /\ queue' = << >> /\ pending' = t /\ decided' = decided \cup Engine!ToSet(t)
      /\ UNCHANGED <<day, fills, blocked>>
  BY <1>1 DEF Engine!Evening
<1>4. \A j : j \in Engine!ToSet(t) <=> \E k \in 1 .. Len(t) : t[k] = j
  BY <1>2 DEF Engine!ToSet
<1>5. day \in Nat /\ decided \subseteq Engine!Intent /\ \A i \in Engine!Intent : i.day \in Nat
  BY EngineNumbers DEF ReplayInv, DaysOK, Engine!TypeOK, Engine!Intent, Engine!Day
<1>6. \A i \in decided : i.day < day /\ i.day <= day /\ i.day # day /\ AccountOK(i)
  BY <1>3, <1>5 DEF ReplayInv, IntentsOK
<1>7. \A j : FilledAt(j)' = FilledAt(j) /\ (IsRefused(j)' <=> IsRefused(j))
  BY <1>3 DEF FilledAt, IsRefused
<1>8. ASSUME NEW j \in decided PROVE AccountOK(j)'
  <2>1. Waits(j)' <=> \E k \in 1 .. Len(t) : t[k] = j
    BY <1>3 DEF Waits
  <2>2. Waits(j) <=> \E k \in 1 .. Len(pending) : pending[k] = j
    BY <1>3 DEF Waits
  <2>3. Waits(j)' <=> Waits(j)
    BY <1>2, <1>6, <2>1, <2>2
  <2>4. QED
    BY <1>6, <1>7, <2>3, AccountStays
<1>9. ASSUME NEW j \in Engine!ToSet(t), j \notin decided PROVE AccountOK(j)' /\ j.day = day
  <2>1. PICK k \in 1 .. Len(t) : t[k] = j
    BY <1>4
  <2>2. Waits(j)'
    BY <1>3, <2>1 DEF Waits
  <2>3. FilledAt(j) = {} /\ ~ IsRefused(j)
    BY <1>9 DEF ReplayInv, IntentsOK, FilledAt, IsRefused, RefusedFor
  <2>4. ~ (\E l \in 1 .. Len(pending) : t[k] = pending[l])
    BY <1>9, <2>1 DEF ReplayInv, IntentsOK
  <2>5. j.day = day
    BY <1>2, <2>1, <2>4
  <2>6. FilledAt(j)' = {} /\ ~ IsRefused(j)'
    BY <1>7, <2>3
  <2>7. QED
    BY <2>2, <2>5, <2>6 DEF AccountOK
<1>10. \A i \in decided' : i.day <= day' /\ AccountOK(i)'
  BY <1>3, <1>5, <1>6, <1>8, <1>9
<1>11. /\ \A k \in 1 .. Len(queue') : queue'[k] \in decided'
       /\ \A k \in 1 .. Len(pending') : pending'[k] \in decided'
       /\ \A k, l \in 1 .. Len(queue') : queue'[k] = queue'[l] => k = l
       /\ \A k, l \in 1 .. Len(pending') : pending'[k] = pending'[l] => k = l
       /\ \A k \in 1 .. Len(queue'), l \in 1 .. Len(pending') : queue'[k] # pending'[l]
  BY <1>2, <1>3, <1>4
<1>12. /\ \A k \in 1 .. Len(fills') : fills'[k][1] \in decided'
       /\ \A b \in blocked' : b[1] \in decided'
  BY <1>3 DEF ReplayInv, IntentsOK
<1>13. QED
  BY <1>3, <1>10, <1>11, <1>12 DEF IntentsOK

LEMMA IntentsExecute ==
  ASSUME Engine!ReplayAssumption, ReplayInv, Engine!Execute
  PROVE  IntentsOK'
<1>1. PICK i \in Engine!Intent : Turn(i) /\ ((\E n : BuyFills(i, n)) \/ SellFills(i) \/ \E why : Refusal(i, why))
  BY ExecuteIs DEF ReplayInv
<1>2. /\ i.action \in {"BUY", "SELL"} /\ day \in Engine!Day
      /\ Len(queue) \in Nat /\ Len(queue) >= 1 /\ i = queue[1] /\ pc = "open"
      /\ Len(queue') = Len(queue) - 1 /\ \A k \in 1 .. Len(queue') : queue'[k] = queue[k + 1]
  BY <1>1, TurnIs DEF ReplayInv
<1>3. UNCHANGED <<pc, day, decided>>
  BY <1>1 DEF Turn
<1>4. /\ \A k \in 1 .. Len(queue) : queue[k] \in decided
      /\ \A k \in 1 .. Len(pending) : pending[k] \in decided
      /\ \A k, l \in 1 .. Len(queue) : queue[k] = queue[l] => k = l
      /\ \A k, l \in 1 .. Len(pending) : pending[k] = pending[l] => k = l
      /\ \A k \in 1 .. Len(queue), l \in 1 .. Len(pending) : queue[k] # pending[l]
      /\ \A k \in 1 .. Len(fills) : fills[k][1] \in decided
      /\ \A b \in blocked : b[1] \in decided
      /\ \A j \in decided : AccountOK(j) /\ j.day <= day /\ j.day < day
  BY <1>2 DEF ReplayInv, IntentsOK
<1>5. 1 \in 1 .. Len(queue) /\ i \in decided /\ pending \in Seq(Engine!Intent)
  BY <1>2, <1>4 DEF ReplayInv, DaysOK, Engine!TypeOK
\* The intents that are still queued.
<1>6. \A k \in 1 .. Len(queue') : k + 1 \in 1 .. Len(queue) /\ k + 1 # 1 /\ queue'[k] = queue[k + 1]
  BY <1>2
<1>7. \A k \in 1 .. Len(queue') : queue'[k] # i
  BY <1>2, <1>4, <1>5, <1>6
<1>8. \A j : j # i => ((\E k \in 1 .. Len(queue) : queue[k] = j) <=> \E k \in 1 .. Len(queue') : queue'[k] = j)
  <2>1. SUFFICES ASSUME NEW j, j # i PROVE (\E k \in 1 .. Len(queue) : queue[k] = j) <=> \E k \in 1 .. Len(queue') : queue'[k] = j
    OBVIOUS
  <2>2. ASSUME NEW k \in 1 .. Len(queue), queue[k] = j PROVE \E l \in 1 .. Len(queue') : queue'[l] = j
    <3>1. k # 1
      BY <1>2, <2>1, <2>2
    <3>2. k - 1 \in 1 .. Len(queue')
      BY <1>2, <3>1
    <3>3. queue'[k - 1] = queue[k - 1 + 1] /\ k - 1 + 1 = k
      BY <1>2, <3>2
    <3>4. QED
      BY <2>2, <3>2, <3>3
  <2>3. ASSUME NEW k \in 1 .. Len(queue'), queue'[k] = j PROVE \E l \in 1 .. Len(queue) : queue[l] = j
    BY <1>6, <2>3
  <2>4. QED
    BY <2>2, <2>3
<1>9. \A k, l \in 1 .. Len(queue') : queue'[k] = queue'[l] => k = l
  <2>1. SUFFICES ASSUME NEW k \in 1 .. Len(queue'), NEW l \in 1 .. Len(queue'), queue'[k] = queue'[l] PROVE k = l
    OBVIOUS
  <2>2. k + 1 = l + 1
    BY <1>4, <1>6, <2>1
  <2>3. QED
    BY <2>2
<1>10. \A k \in 1 .. Len(queue') : queue'[k] \in decided' /\ \A l \in 1 .. Len(pending) : queue'[k] # pending[l]
  BY <1>3, <1>4, <1>6
<1>11. Waits(i) /\ FilledAt(i) = {} /\ ~ IsRefused(i) /\ \A k \in 1 .. Len(pending) : pending[k] # i
  <2>1. Waits(i)
    BY <1>2, <1>5 DEF Waits
  <2>2. QED
    BY <1>2, <1>4, <1>5, <2>1 DEF AccountOK
<1>12. CASE fills' = Append(fills, <<i, day>>) /\ UNCHANGED <<pending, blocked>>
  <2>1. /\ Len(fills) \in Nat /\ Len(fills') = Len(fills) + 1
        /\ \A k \in 1 .. Len(fills) : fills'[k] = fills[k]
        /\ fills'[Len(fills) + 1] = <<i, day>>
    BY <1>2, <1>12, FillsGrow DEF ReplayInv
  <2>2. \A k \in 1 .. Len(fills') : k \in 1 .. Len(fills) \/ k = Len(fills) + 1
    BY <2>1
  <2>3. fills'[Len(fills) + 1][1] = i /\ Len(fills) + 1 \in 1 .. Len(fills') /\ \A k \in 1 .. Len(fills) : k \in 1 .. Len(fills')
    BY <2>1
  <2>4. ASSUME NEW j \in decided, j # i PROVE AccountOK(j)'
    <3>1. Waits(j)' <=> Waits(j)
      BY <1>8, <1>12, <2>4 DEF Waits
    <3>2. IsRefused(j)' <=> IsRefused(j)
      BY <1>12 DEF IsRefused
    <3>3. FilledAt(j)' = FilledAt(j)
      BY <2>1, <2>2, <2>3, <2>4 DEF FilledAt
    <3>4. QED
      BY <1>4, <3>1, <3>2, <3>3, AccountStays
  <2>5. AccountOK(i)'
    <3>1. ~ Waits(i)'
      BY <1>7, <1>11, <1>12 DEF Waits
    <3>2. ~ IsRefused(i)'
      BY <1>11, <1>12 DEF IsRefused
    <3>3. FilledAt(i)' = {Len(fills) + 1}
      BY <1>11, <2>1, <2>2, <2>3 DEF FilledAt
    <3>4. QED
      BY <3>1, <3>2, <3>3 DEF AccountOK
  <2>6. \A k \in 1 .. Len(fills') : fills'[k][1] \in decided'
    BY <1>3, <1>4, <1>5, <2>1, <2>2, <2>3
  <2>7. \A j \in decided' : j.day <= day' /\ j.day < day' /\ AccountOK(j)'
    BY <1>3, <1>4, <2>4, <2>5
  <2>8. /\ \A k \in 1 .. Len(pending') : pending'[k] \in decided'
        /\ \A k, l \in 1 .. Len(pending') : pending'[k] = pending'[l] => k = l
        /\ \A k \in 1 .. Len(queue'), l \in 1 .. Len(pending') : queue'[k] # pending'[l]
        /\ \A b \in blocked' : b[1] \in decided'
    BY <1>3, <1>4, <1>10, <1>12
  <2>9. QED
    BY <1>2, <1>3, <1>9, <1>10, <2>6, <2>7, <2>8 DEF IntentsOK
<1>13. CASE \E why : Refusal(i, why)
  <2>1. PICK why : Refusal(i, why)
    BY <1>13
  <2>2. fills' = fills /\ blocked' = blocked \cup {<<i, day, why>>}
    BY <2>1 DEF Refusal
  <2>3. PICK b : b = <<i, day, why>> /\ b[1] = i /\ b[3] = why
    <3>1. PICK x : x = <<i, day, why>>
      OBVIOUS
    <3>2. x[1] = i /\ x[3] = why
      BY <3>1
    <3>3. QED
      BY <3>1, <3>2
  <2>4. \A j : FilledAt(j)' = FilledAt(j)
    BY <2>2 DEF FilledAt
  <2>5. \A j : IsRefused(j)' <=> IsRefused(j) \/ RefusedFor(b, j)
    BY <2>2, <2>3 DEF IsRefused
  <2>6. \A j : j # i => ~ RefusedFor(b, j)
    BY <2>3 DEF RefusedFor
  <2>7. \A k \in 1 .. Len(fills') : fills'[k][1] \in decided'
    BY <1>3, <1>4, <2>2
  <2>8. \A x \in blocked' : x[1] \in decided'
    BY <1>3, <1>4, <1>5, <2>2, <2>3
  <2>9. CASE i.action = "SELL" /\ why # "no_position"
    <3>1. pending' = Append(pending, i)
      BY <2>1, <2>9 DEF Refusal
    <3>2. /\ Len(pending) \in Nat /\ Len(pending') = Len(pending) + 1
          /\ \A k \in 1 .. Len(pending) : pending'[k] = pending[k]
          /\ pending'[Len(pending) + 1] = i
      BY <1>5, <3>1, AppendProperties
    <3>3. /\ \A k \in 1 .. Len(pending') : k \in 1 .. Len(pending) \/ k = Len(pending) + 1
          /\ Len(pending) + 1 \in 1 .. Len(pending') /\ \A k \in 1 .. Len(pending) : k \in 1 .. Len(pending')
      BY <3>2
    <3>4. ~ RefusedFor(b, i)
      BY <2>3, <2>9 DEF RefusedFor
    <3>5. ASSUME NEW j \in decided, j # i PROVE AccountOK(j)'
      <4>1. (\E k \in 1 .. Len(pending') : pending'[k] = j) <=> \E k \in 1 .. Len(pending) : pending[k] = j
        BY <3>2, <3>3, <3>5
      <4>2. Waits(j)' <=> Waits(j)
        BY <1>8, <3>5, <4>1 DEF Waits
      <4>3. QED
        BY <1>4, <2>4, <2>5, <2>6, <3>5, <4>2, AccountStays
    <3>6. AccountOK(i)'
      <4>1. Waits(i)'
        BY <3>2, <3>3 DEF Waits
      <4>2. ~ IsRefused(i)' /\ FilledAt(i)' = {}
        BY <1>11, <2>4, <2>5, <3>4
      <4>3. QED
        BY <4>1, <4>2 DEF AccountOK
    <3>7. \A j \in decided' : j.day <= day' /\ j.day < day' /\ AccountOK(j)'
      BY <1>3, <1>4, <3>5, <3>6
    <3>8. /\ \A k \in 1 .. Len(pending') : pending'[k] \in decided'
          /\ \A k, l \in 1 .. Len(pending') : pending'[k] = pending'[l] => k = l
          /\ \A k \in 1 .. Len(queue'), l \in 1 .. Len(pending') : queue'[k] # pending'[l]
      BY <1>3, <1>4, <1>5, <1>7, <1>10, <1>11, <3>2, <3>3
    <3>9. QED
      BY <1>2, <1>3, <1>9, <1>10, <2>7, <2>8, <3>7, <3>8 DEF IntentsOK
  <2>10. CASE ~ (i.action = "SELL" /\ why # "no_position")
    <3>1. pending' = pending
      BY <2>1, <2>10 DEF Refusal
    <3>2. RefusedFor(b, i)
      BY <1>2, <2>3, <2>10 DEF RefusedFor
    <3>3. ASSUME NEW j \in decided, j # i PROVE AccountOK(j)'
      <4>1. Waits(j)' <=> Waits(j)
        BY <1>8, <3>1, <3>3 DEF Waits
      <4>2. QED
        BY <1>4, <2>4, <2>5, <2>6, <3>3, <4>1, AccountStays
    <3>4. AccountOK(i)'
      <4>1. ~ Waits(i)'
        BY <1>7, <1>11, <3>1 DEF Waits
      <4>2. IsRefused(i)' /\ FilledAt(i)' = {}
        BY <1>11, <2>4, <2>5, <3>2
      <4>3. QED
        BY <4>1, <4>2 DEF AccountOK
    <3>5. \A j \in decided' : j.day <= day' /\ j.day < day' /\ AccountOK(j)'
      BY <1>3, <1>4, <3>3, <3>4
    <3>6. /\ \A k \in 1 .. Len(pending') : pending'[k] \in decided'
          /\ \A k, l \in 1 .. Len(pending') : pending'[k] = pending'[l] => k = l
          /\ \A k \in 1 .. Len(queue'), l \in 1 .. Len(pending') : queue'[k] # pending'[l]
      BY <1>3, <1>4, <1>10, <3>1
    <3>7. QED
      BY <1>2, <1>3, <1>9, <1>10, <2>7, <2>8, <3>5, <3>6 DEF IntentsOK
  <2>11. QED
    BY <2>9, <2>10
<1>14. QED
  BY <1>1, <1>12, <1>13 DEF BuyFills, SellFills

\* The buys behind a position, when a fill is added.
AddsFill(f, g, n, i, d) == n \in Nat /\ n = Len(f) /\ Len(g) = n + 1 /\ (\A k \in 1 .. n : g[k] = f[k]) /\ g[n + 1] = <<i, d>>
LEMMA SinceGrows ==
  ASSUME NEW f, NEW g, NEW n, NEW i, NEW d, AddsFill(f, g, n, i, d)
  PROVE  /\ \A s : \A k \in 1 .. n + 1 : Since(g, s, k) = Since(f, s, k)
         /\ \A s : s # i.symbol => Since(g, s, n + 2) = Since(f, s, n + 1)
         /\ i.action = "BUY" => Since(g, i.symbol, n + 2) = Since(f, i.symbol, n + 1) \cup {n + 1}
         /\ i.action = "SELL" => Since(g, i.symbol, n + 2) = {}
<1>0. n \in Nat /\ n = Len(f) /\ Len(g) = n + 1 /\ (\A k \in 1 .. n : g[k] = f[k]) /\ g[n + 1] = <<i, d>>
  BY DEF AddsFill
<1>1. g[n + 1][1] = i
  <2>1. PICK x : x = <<i, d>>
    OBVIOUS
  <2>2. x[1] = i
    BY <2>1
  <2>3. QED
    BY <1>0, <2>1, <2>2
<1>2. \A s, action : \A k \in 1 .. n : k \in SideOf(g, s, action) <=> k \in SideOf(f, s, action)
  BY <1>0 DEF SideOf
<1>3. \A s, action : n + 1 \in SideOf(g, s, action) <=> s = i.symbol /\ action = i.action
  BY <1>0, <1>1 DEF SideOf
<1>4. \A s, action : SideOf(f, s, action) \subseteq 1 .. n /\ SideOf(g, s, action) \subseteq 1 .. n + 1
  BY <1>0 DEF SideOf
<1>5. ASSUME NEW s, NEW k \in 1 .. n + 1 PROVE Since(g, s, k) = Since(f, s, k)
  <2>1. \A action : \A j : j < k => (j \in SideOf(g, s, action) <=> j \in SideOf(f, s, action))
    BY <1>0, <1>2, <1>4
  <2>2. QED
    BY <1>0, <2>1 DEF Since
<1>6. ASSUME NEW s, s # i.symbol PROVE Since(g, s, n + 2) = Since(f, s, n + 1)
  <2>1. \A action : SideOf(g, s, action) = SideOf(f, s, action)
    <3>1. ASSUME NEW action, NEW j PROVE j \in SideOf(g, s, action) <=> j \in SideOf(f, s, action)
      <4>1. j \in SideOf(g, s, action) => j \in 1 .. n
        BY <1>0, <1>3, <1>4, <1>6
      <4>2. j \in SideOf(f, s, action) => j \in 1 .. n
        BY <1>0, <1>4
      <4>3. QED
        BY <1>0, <1>2, <4>1, <4>2
    <3>2. ASSUME NEW action PROVE SideOf(g, s, action) = SideOf(f, s, action)
      <4>1. \A j : j \in SideOf(g, s, action) <=> j \in SideOf(f, s, action)
        BY <1>0, <3>1
      <4>2. QED
        BY <1>0, <4>1
    <3>3. QED
      BY <1>0, <3>2
  <2>2. \A action : \A j \in SideOf(f, s, action) : j < n + 1 /\ j < n + 2
    BY <1>0, <1>4
  <2>3. QED
    BY <1>0, <2>1, <2>2 DEF Since
<1>7. PICK s : s = i.symbol
  OBVIOUS
<1>8. ASSUME i.action = "BUY" PROVE Since(g, s, n + 2) = Since(f, s, n + 1) \cup {n + 1}
  <2>1. SideOf(g, s, "BUY") = SideOf(f, s, "BUY") \cup {n + 1}
    <3>1. n + 1 \in SideOf(g, s, "BUY")
      BY <1>0, <1>3, <1>7, <1>8
    <3>2. \A j \in SideOf(g, s, "BUY") : j = n + 1 \/ j \in SideOf(f, s, "BUY")
      BY <1>0, <1>2, <1>4
    <3>3. \A j \in SideOf(f, s, "BUY") : j \in SideOf(g, s, "BUY")
      BY <1>0, <1>2, <1>4
    <3>4. QED
      BY <1>0, <3>1, <3>2, <3>3
  <2>2. SideOf(g, s, "SELL") = SideOf(f, s, "SELL")
    <3>1. n + 1 \notin SideOf(g, s, "SELL")
      BY <1>0, <1>3, <1>8
    <3>2. \A j \in SideOf(g, s, "SELL") : j \in SideOf(f, s, "SELL")
      BY <1>0, <1>2, <1>4, <3>1
    <3>3. \A j \in SideOf(f, s, "SELL") : j \in SideOf(g, s, "SELL")
      BY <1>0, <1>2, <1>4
    <3>4. QED
      BY <1>0, <3>2, <3>3
  <2>3. \A action : \A j \in SideOf(f, s, action) : j < n + 1 /\ j < n + 2 /\ j \in Nat
    BY <1>0, <1>4
  <2>4. n + 1 < n + 2
    BY <1>0
  <2>5. QED
    BY <1>0, <2>1, <2>2, <2>3, <2>4 DEF Since
<1>9. ASSUME i.action = "SELL" PROVE Since(g, s, n + 2) = {}
  <2>1. n + 1 \in SideOf(g, s, "SELL") /\ n + 1 < n + 2 /\ n + 1 \notin SideOf(g, s, "BUY")
    BY <1>0, <1>3, <1>7, <1>9
  <2>2. \A j \in SideOf(g, s, "BUY") : j \in 1 .. n + 1 /\ ~ (n + 1 < j)
    BY <1>0, <1>4
  <2>3. QED
    BY <1>0, <2>1, <2>2 DEF Since
<1>10. QED
  BY <1>0, <1>5, <1>6, <1>7, <1>8, <1>9

LEMMA GateMorning ==
  ASSUME Engine!ReplayAssumption, ReplayInv, Engine!Morning
  PROVE  GateOK'
<1>1. UNCHANGED <<fills, positions, tainted>> /\ day' = day + 1 /\ day \in Nat
  BY EngineNumbers DEF Engine!Morning, ReplayInv, DaysOK, Engine!TypeOK
<1>2. /\ \A s \in Symbol : splits[s] \subseteq 1 .. day
      /\ \A k \in 1 .. Len(fills) : fills[k][2] <= day
      /\ \A s \in Symbol : positions[s].shares = 0 => Since(fills, s, Len(fills) + 1) = {}
      /\ \A s \in Symbol : positions[s].shares # 0 => OpenedOn(s)
      /\ \A s \in Symbol : s \in crossed <=> positions[s].shares # 0 /\ \E d \in splits[s] : positions[s].buy < d
      /\ \A k \in 1 .. Len(fills) : fills[k][1].action = "SELL" => ClosedAt(k)
      /\ \A k \in tainted : k \in 1 .. Len(fills) /\ fills[k][1].action = "SELL"
  BY DEF ReplayInv, GateOK
<1>3. \A s \in Symbol : splits'[s] = splits[s] \cup IF market'[s].split THEN {day'} ELSE {}
  BY DEF Engine!Morning
<1>4. crossed' = crossed \cup {s \in Engine!Holding : market'[s].split}
  BY DEF Engine!Morning
<1>5. \A k \in 1 .. Len(fills) : fills[k][2] \in Nat /\ fills[k][1].symbol \in Symbol
  <2>1. fills \in Seq(Engine!Intent \X Engine!Day)
    BY DEF ReplayInv, DaysOK, Engine!TypeOK
  <2>2. \A k \in 1 .. Len(fills) : fills[k] \in Engine!Intent \X Engine!Day
    BY <2>1
  <2>3. \A x \in Engine!Intent \X Engine!Day : x[1].symbol \in Symbol /\ x[2] \in Nat
    BY EngineNumbers DEF Engine!Intent, Engine!Day
  <2>4. QED
    BY <2>2, <2>3
<1>6. \A s \in Symbol : splits'[s] \subseteq 1 .. day'
  BY <1>1, <1>2, <1>3
<1>7. \A k \in 1 .. Len(fills') : fills'[k][2] <= day'
  BY <1>1, <1>2, <1>5
<1>8. \A s \in Symbol : positions'[s].shares = 0 => Since(fills', s, Len(fills') + 1) = {}
  BY <1>1, <1>2
<1>9. \A s \in Symbol : positions'[s].shares # 0 => OpenedOn(s)'
  BY <1>1, <1>2 DEF OpenedOn
<1>10. ASSUME NEW s \in Symbol PROVE s \in crossed' <=> positions'[s].shares # 0 /\ \E d \in splits'[s] : positions'[s].buy < d
  <2>1. positions[s].shares \in Nat
    BY SymbolTypes DEF ReplayInv
  <2>2. s \in Engine!Holding <=> positions[s].shares # 0
    BY <2>1 DEF Engine!Holding
  <2>3. CASE market'[s].split /\ positions[s].shares # 0
    <3>1. s \in crossed' /\ day' \in splits'[s]
      BY <1>3, <1>4, <2>2, <2>3
    <3>2. PICK j \in Since(fills, s, Len(fills) + 1) : fills[j][2] = positions[s].buy
      BY <1>2, <2>3 DEF OpenedOn
    <3>3. j \in 1 .. Len(fills)
      BY DEF Since, SideOf
    <3>4. positions[s].buy < day'
      BY <1>1, <1>2, <1>5, <3>2, <3>3
    <3>5. QED
      BY <1>1, <2>3, <3>1, <3>4
  <2>4. CASE positions[s].shares = 0
    BY <1>1, <1>2, <1>4, <2>2, <2>4
  <2>5. CASE ~ market'[s].split
    BY <1>1, <1>2, <1>3, <1>4, <2>5
  <2>6. QED
    BY <2>3, <2>4, <2>5
<1>11. ASSUME NEW k \in 1 .. Len(fills'), fills'[k][1].action = "SELL" PROVE ClosedAt(k)'
  <2>1. PICK s : s = fills[k][1].symbol
    OBVIOUS
  <2>2. ClosedAt(k) /\ s \in Symbol /\ fills[k][2] \in Nat /\ fills[k][2] <= day
    BY <1>1, <1>2, <1>5, <1>11, <2>1
  <2>3. \A d : d <= fills[k][2] => (d \in splits'[s] <=> d \in splits[s])
    BY <1>1, <1>3, <2>2
  <2>4. PICK j \in Since(fills, s, k) : Earliest(j, Since(fills, s, k)) /\ (k \in tainted <=> \E d \in splits[s] : fills[j][2] < d /\ d <= fills[k][2])
    BY <2>1, <2>2 DEF ClosedAt
  <2>5. k \in tainted <=> \E d \in splits'[s] : fills[j][2] < d /\ d <= fills[k][2]
    BY <2>3, <2>4
  <2>6. QED
    BY <1>1, <2>1, <2>4, <2>5 DEF ClosedAt
<1>12. \A k \in tainted' : k \in 1 .. Len(fills') /\ fills'[k][1].action = "SELL"
  BY <1>1, <1>2
<1>13. QED
  BY <1>6, <1>7, <1>8, <1>9, <1>10, <1>11, <1>12 DEF GateOK

LEMMA GateEvening ==
  ASSUME ReplayInv, Engine!Evening
  PROVE  GateOK'
<1>1. UNCHANGED <<day, fills, positions, splits, crossed, tainted>>
  BY DEF Engine!Evening
<1>2. \A s \in Symbol : OpenedOn(s)' <=> OpenedOn(s)
  BY <1>1 DEF OpenedOn
<1>3. \A k \in 1 .. Len(fills) : ClosedAt(k)' <=> ClosedAt(k)
  BY <1>1 DEF ClosedAt
<1>4. QED
  BY <1>1, <1>2, <1>3 DEF ReplayInv, GateOK

LEMMA GateExecute ==
  ASSUME Engine!ReplayAssumption, ReplayInv, Engine!Execute
  PROVE  GateOK'
<1>1. PICK i \in Engine!Intent : Turn(i) /\ ((\E m : BuyFills(i, m)) \/ SellFills(i) \/ \E why : Refusal(i, why))
  BY ExecuteIs DEF ReplayInv
<1>2. PICK s : s = i.symbol
  OBVIOUS
<1>3. s \in Symbol /\ i.action \in {"BUY", "SELL"} /\ day \in Engine!Day /\ day \in Nat /\ pc = "open"
  BY <1>1, <1>2, TurnIs DEF ReplayInv
<1>4. day' = day /\ splits' = splits
  BY <1>1 DEF Turn
<1>5. /\ \A x \in Symbol : splits[x] \subseteq 1 .. day
      /\ \A k \in 1 .. Len(fills) : fills[k][2] <= day
      /\ \A x \in Symbol : positions[x].shares = 0 => Since(fills, x, Len(fills) + 1) = {}
      /\ \A x \in Symbol : positions[x].shares # 0 => OpenedOn(x)
      /\ \A x \in Symbol : x \in crossed <=> positions[x].shares # 0 /\ \E d \in splits[x] : positions[x].buy < d
      /\ \A k \in 1 .. Len(fills) : fills[k][1].action = "SELL" => ClosedAt(k)
      /\ \A k \in tainted : k \in 1 .. Len(fills) /\ fills[k][1].action = "SELL"
  BY DEF ReplayInv, GateOK
<1>6. CASE \E why : Refusal(i, why)
  <2>1. UNCHANGED <<fills, positions, crossed, tainted>>
    BY <1>6 DEF Refusal
  <2>2. \A x \in Symbol : OpenedOn(x)' <=> OpenedOn(x)
    BY <2>1 DEF OpenedOn
  <2>3. \A k \in 1 .. Len(fills) : ClosedAt(k)' <=> ClosedAt(k)
    BY <1>4, <2>1 DEF ClosedAt
  <2>4. QED
    BY <1>4, <1>5, <2>1, <2>2, <2>3 DEF GateOK
<1>7. CASE (\E m : BuyFills(i, m)) \/ SellFills(i)
  <2>1. fills' = Append(fills, <<i, day>>)
    BY <1>7 DEF BuyFills, SellFills
  <2>2. PICK f, g, n : f = fills /\ g = fills' /\ n = Len(fills)
    OBVIOUS
  <2>3. n \in Nat /\ n = Len(f) /\ Len(g) = n + 1 /\ (\A k \in 1 .. n : g[k] = f[k]) /\ g[n + 1] = <<i, day>>
    BY <1>3, <2>1, <2>2, FillsGrow DEF ReplayInv
  <2>4. /\ \A x : \A k \in 1 .. n + 1 : Since(g, x, k) = Since(f, x, k)
        /\ \A x : x # s => Since(g, x, n + 2) = Since(f, x, n + 1)
        /\ i.action = "BUY" => Since(g, s, n + 2) = Since(f, s, n + 1) \cup {n + 1}
        /\ i.action = "SELL" => Since(g, s, n + 2) = {}
    <3>1. AddsFill(f, g, n, i, day)
      BY <2>3 DEF AddsFill
    <3>2. /\ \A x : \A k \in 1 .. n + 1 : Since(g, x, k) = Since(f, x, k)
          /\ \A x : x # i.symbol => Since(g, x, n + 2) = Since(f, x, n + 1)
          /\ i.action = "BUY" => Since(g, i.symbol, n + 2) = Since(f, i.symbol, n + 1) \cup {n + 1}
          /\ i.action = "SELL" => Since(g, i.symbol, n + 2) = {}
      BY <3>1, SinceGrows
    <3>3. QED
      BY <1>2, <3>2
  <2>5. g[n + 1][1] = i /\ g[n + 1][2] = day
    <3>1. PICK x : x = <<i, day>>
      OBVIOUS
    <3>2. x[1] = i /\ x[2] = day
      BY <3>1
    <3>3. QED
      BY <2>3, <3>1, <3>2
  <2>6. \A k \in 1 .. Len(g) : k \in 1 .. n \/ k = n + 1
    BY <2>3
  <2>7. \A x : Since(f, x, n + 1) \subseteq 1 .. n /\ \A k : Since(f, x, k) \subseteq 1 .. n
    BY <2>3 DEF Since, SideOf
  <2>8. \A k \in 1 .. n : f[k][1].symbol \in Symbol
    <3>1. f \in Seq(Engine!Intent \X Engine!Day)
      BY <2>2 DEF ReplayInv, DaysOK, Engine!TypeOK
    <3>2. \A k \in 1 .. n : f[k] \in Engine!Intent \X Engine!Day
      BY <2>3, <3>1
    <3>3. \A x \in Engine!Intent \X Engine!Day : x[1].symbol \in Symbol
      BY DEF Engine!Intent
    <3>4. QED
      BY <3>2, <3>3
  <2>9. \A k \in 1 .. Len(g) : g[k][2] <= day
    BY <1>3, <1>5, <2>2, <2>3, <2>5, <2>6
  <2>10. \A x \in Symbol : x # s => positions'[x] = positions[x]
    <3>1. positions \in [Symbol -> [shares : Nat, buy : 0 .. MaxDays]]
      BY DEF ReplayInv, DaysOK, Engine!TypeOK
    <3>2. QED
      BY <1>2, <1>7, <3>1 DEF BuyFills, SellFills
  <2>11. ASSUME NEW x \in Symbol, x # s
         PROVE  /\ positions'[x].shares = 0 => Since(g, x, Len(g) + 1) = {}
                /\ positions'[x].shares # 0 => OpenedOn(x)'
    <3>1. n + 1 + 1 = n + 2 /\ Since(g, x, n + 2) = Since(f, x, n + 1)
      BY <2>3, <2>4, <2>11
    <3>2. Since(g, x, Len(g) + 1) = Since(f, x, Len(f) + 1)
      BY <2>3, <3>1
    <3>3. \A j \in Since(f, x, Len(f) + 1) : g[j] = f[j]
      BY <2>3, <2>7
    <3>4. positions'[x].shares # 0 => OpenedOn(x)'
      BY <1>5, <2>2, <2>10, <2>11, <3>2, <3>3 DEF OpenedOn
    <3>5. QED
      BY <1>5, <2>2, <2>10, <2>11, <3>2, <3>4
  <2>12. ASSUME NEW k \in 1 .. n, f[k][1].action = "SELL", k \in tainted' <=> k \in tainted PROVE ClosedAt(k)'
    <3>1. PICK x : x = f[k][1].symbol /\ x = g[k][1].symbol
      BY <2>3
    <3>2. k \in 1 .. n + 1 /\ Since(g, x, k) = Since(f, x, k)
      BY <2>3, <2>4
    <3>3. \A j \in Since(f, x, k) : g[j] = f[j]
      BY <2>3, <2>7
    <3>4. ClosedAt(k)
      BY <1>5, <2>2, <2>12
    <3>5. PICK j \in Since(f, x, k) : Earliest(j, Since(f, x, k)) /\ (k \in tainted <=> \E d \in splits[x] : f[j][2] < d /\ d <= f[k][2])
      BY <2>2, <3>1, <3>4 DEF ClosedAt
    <3>6. k \in tainted' <=> \E d \in splits'[x] : g[j][2] < d /\ d <= g[k][2]
      BY <1>4, <2>3, <2>12, <3>3, <3>5
    <3>7. QED
      BY <2>2, <3>1, <3>2, <3>5, <3>6 DEF ClosedAt
  <2>13. n + 1 \notin tainted /\ \A k \in tainted : k \in 1 .. n /\ k \in 1 .. Len(g) /\ g[k][1].action = "SELL"
    BY <1>5, <2>2, <2>3
  <2>14. \A x \in Symbol : splits'[x] \subseteq 1 .. day
    BY <1>4, <1>5
  <2>15. SUFFICES
           /\ positions'[s].shares = 0 => Since(g, s, Len(g) + 1) = {}
           /\ positions'[s].shares # 0 => OpenedOn(s)'
           /\ \A x \in Symbol : x \in crossed' <=> positions'[x].shares # 0 /\ \E d \in splits[x] : positions'[x].buy < d
           /\ \A k \in 1 .. Len(g) : g[k][1].action = "SELL" => ClosedAt(k)'
           /\ \A k \in tainted' : k \in 1 .. Len(g) /\ g[k][1].action = "SELL"
    BY <1>4, <2>2, <2>9, <2>11, <2>14 DEF GateOK
  <2>16. CASE \E m : BuyFills(i, m)
    <3>1. PICK m : BuyFills(i, m)
      BY <2>16
    <3>2. /\ i.action = "BUY" /\ m \in Nat \ {0} /\ crossed' = crossed /\ tainted' = tainted
          /\ positions' = [positions EXCEPT ![s] = [shares |-> positions[s].shares + m, buy |-> IF positions[s].shares = 0 THEN day ELSE positions[s].buy]]
      BY <1>2, <3>1 DEF BuyFills
    <3>3. positions \in [Symbol -> [shares : Nat, buy : 0 .. MaxDays]] /\ positions[s].shares \in Nat
      BY <1>3, SymbolTypes DEF ReplayInv, DaysOK, Engine!TypeOK
    <3>4. positions'[s].shares = positions[s].shares + m /\ positions'[s].buy = IF positions[s].shares = 0 THEN day ELSE positions[s].buy
      BY <1>3, <3>2, <3>3
    <3>5. positions'[s].shares # 0
      BY <3>2, <3>3, <3>4
    <3>6. Since(g, s, Len(g) + 1) = Since(f, s, n + 1) \cup {n + 1}
      <4>1. n + 1 + 1 = n + 2
        BY <2>3
      <4>2. QED
        BY <2>3, <2>4, <3>2, <4>1
    <3>7. OpenedOn(s)'
      <4>1. CASE positions[s].shares = 0
        <5>1. Since(g, s, Len(g) + 1) = {n + 1}
          BY <1>3, <1>5, <2>2, <3>6, <4>1
        <5>2. Earliest(n + 1, {n + 1}) /\ g[n + 1][2] = positions'[s].buy
          BY <2>3, <2>5, <3>4, <4>1 DEF Earliest
        <5>3. QED
          BY <2>2, <5>1, <5>2 DEF OpenedOn
      <4>2. CASE positions[s].shares # 0
        <5>1. OpenedOn(s)
          BY <1>3, <1>5, <4>2
        <5>2. PICK j \in Since(f, s, n + 1) : Earliest(j, Since(f, s, n + 1)) /\ f[j][2] = positions[s].buy
          BY <2>2, <2>3, <5>1 DEF OpenedOn
        <5>3. j \in 1 .. n /\ j <= n + 1 /\ g[j] = f[j]
          BY <2>3, <2>7
        <5>4. Earliest(j, Since(g, s, Len(g) + 1)) /\ j \in Since(g, s, Len(g) + 1)
          BY <3>6, <5>2, <5>3 DEF Earliest
        <5>5. g[j][2] = positions'[s].buy
          BY <3>4, <4>2, <5>2, <5>3
        <5>6. QED
          BY <2>2, <5>4, <5>5 DEF OpenedOn
      <4>3. QED
        BY <4>1, <4>2
    <3>8. \A x \in Symbol : x \in crossed' <=> positions'[x].shares # 0 /\ \E d \in splits[x] : positions'[x].buy < d
      <4>1. CASE positions[s].shares = 0
        <5>1. s \notin crossed' /\ positions'[s].buy = day
          BY <1>3, <1>5, <3>2, <3>4, <4>1
        <5>2. \A d \in splits[s] : ~ (day < d)
          BY <1>3, <1>5
        <5>3. QED
          BY <1>5, <2>10, <3>2, <5>1, <5>2
      <4>2. CASE positions[s].shares # 0
        BY <1>3, <1>5, <2>10, <3>2, <3>4, <3>5, <4>2
      <4>3. QED
        BY <4>1, <4>2
    <3>9. ASSUME NEW k \in 1 .. Len(g), g[k][1].action = "SELL" PROVE ClosedAt(k)'
      <4>1. k \in 1 .. n
        BY <2>5, <2>6, <3>2, <3>9
      <4>2. QED
        BY <2>3, <2>12, <3>2, <3>9, <4>1
    <3>10. QED
      BY <2>13, <3>2, <3>5, <3>7, <3>8, <3>9
  <2>17. CASE SellFills(i)
    <3>1. /\ i.action = "SELL" /\ positions[s].shares # 0 /\ crossed' = crossed \ {s}
          /\ positions' = [positions EXCEPT ![s] = [shares |-> 0, buy |-> 0]]
          /\ tainted' = (IF s \in crossed THEN tainted \cup {n + 1} ELSE tainted)
      BY <1>2, <2>2, <2>17 DEF SellFills
    <3>2. positions \in [Symbol -> [shares : Nat, buy : 0 .. MaxDays]]
      BY DEF ReplayInv, DaysOK, Engine!TypeOK
    <3>3. positions'[s].shares = 0
      BY <1>3, <3>1, <3>2
    <3>4. Since(g, s, Len(g) + 1) = {}
      <4>1. n + 1 + 1 = n + 2
        BY <2>3
      <4>2. QED
        BY <2>3, <2>4, <3>1, <4>1
    <3>5. \A x \in Symbol : x \in crossed' <=> positions'[x].shares # 0 /\ \E d \in splits[x] : positions'[x].buy < d
      BY <1>5, <2>10, <3>1, <3>3
    <3>6. ClosedAt(n + 1)'
      <4>1. OpenedOn(s)
        BY <1>3, <1>5, <3>1
      <4>2. PICK j \in Since(f, s, n + 1) : Earliest(j, Since(f, s, n + 1)) /\ f[j][2] = positions[s].buy
        BY <2>2, <2>3, <4>1 DEF OpenedOn
      <4>3. n + 1 \in 1 .. n + 1 /\ Since(g, s, n + 1) = Since(f, s, n + 1) /\ j \in 1 .. n /\ g[j] = f[j]
        BY <2>3, <2>4, <2>7, <4>2
      <4>4. n + 1 \in tainted' <=> s \in crossed
        BY <2>13, <3>1
      <4>5. s \in crossed <=> \E d \in splits[s] : positions[s].buy < d
        BY <1>3, <1>5, <3>1
      <4>6. \A d \in splits[s] : d <= day
        BY <1>3, <1>5
      <4>7. n + 1 \in tainted' <=> \E d \in splits'[s] : g[j][2] < d /\ d <= g[n + 1][2]
        BY <1>4, <2>5, <4>2, <4>3, <4>4, <4>5, <4>6
      <4>8. g[n + 1][1].symbol = s
        BY <1>2, <2>5
      <4>9. QED
        BY <2>2, <4>2, <4>3, <4>7, <4>8 DEF ClosedAt
    <3>7. \A k \in 1 .. n : k \in tainted' <=> k \in tainted
      BY <2>3, <3>1
    <3>8. ASSUME NEW k \in 1 .. Len(g), g[k][1].action = "SELL" PROVE ClosedAt(k)'
      <4>1. CASE k = n + 1
        BY <3>6, <4>1
      <4>2. CASE k \in 1 .. n
        BY <2>3, <2>12, <3>7, <3>8, <4>2
      <4>3. QED
        BY <2>6, <4>1, <4>2
    <3>9. \A k \in tainted' : k \in 1 .. Len(g) /\ g[k][1].action = "SELL"
      <4>1. n + 1 \in 1 .. Len(g) /\ g[n + 1][1].action = "SELL"
        BY <2>3, <2>5, <3>1
      <4>2. QED
        BY <2>13, <3>1, <4>1
    <3>10. QED
      BY <3>3, <3>4, <3>5, <3>8, <3>9
  <2>18. QED
    BY <1>7, <2>16, <2>17
<1>8. QED
  BY <1>1, <1>6, <1>7

LEMMA ReplayBegins ==
  ASSUME Engine!ReplayAssumption, Engine!Init
  PROVE  ReplayInv /\ CashOK
<1>1. DaysOK
  BY TypesBegin
<1>2. /\ pc = "closed" /\ day = 0 /\ pending = << >> /\ queue = << >> /\ cash = Cash /\ fills = << >> /\ blocked = {} /\ decided = {} /\ tainted = {} /\ crossed = {}
      /\ \A s \in Symbol : positions[s].shares = 0 /\ bought[s] = 0 /\ splits[s] = {}
  BY DEF Engine!Init, Engine!NoPosition
<1>3. IntentsOK
  BY <1>2 DEF IntentsOK
<1>4. TurnOK
  BY <1>2 DEF TurnOK, SellsFirst
<1>5. \A s : Since(fills, s, Len(fills) + 1) = {}
  BY <1>2 DEF Since, SideOf
<1>6. GateOK
  BY <1>2, <1>5 DEF GateOK
<1>7. CashOK
  BY <1>2, EngineNumbers DEF CashOK
<1>8. QED
  BY <1>1, <1>3, <1>4, <1>6, <1>7 DEF ReplayInv

LEMMA ReplaySteps ==
  ASSUME Engine!ReplayAssumption, ReplayInv, [Engine!Next]_Engine!vars
  PROVE  ReplayInv'
<1>1. CASE Engine!Morning
  BY <1>1, TypesMorning, IntentsMorning, TurnMorning, GateMorning DEF ReplayInv
<1>2. CASE Engine!Execute
  BY <1>2, TypesExecute, IntentsExecute, TurnExecute, GateExecute DEF ReplayInv
<1>3. CASE Engine!Evening
  BY <1>3, TypesEvening, IntentsEvening, TurnEvening, GateEvening DEF ReplayInv
<1>4. CASE UNCHANGED Engine!vars
  <2>1. DaysOK'
    BY <1>4 DEF ReplayInv, DaysOK, Engine!TypeOK, Engine!Holding, Engine!vars
  <2>2. IntentsOK'
    BY <1>4 DEF ReplayInv, IntentsOK, AccountOK, Waits, FilledAt, IsRefused, Engine!vars
  <2>3. TurnOK'
    BY <1>4 DEF ReplayInv, TurnOK, Engine!vars
  <2>4. GateOK'
    BY <1>4 DEF ReplayInv, GateOK, OpenedOn, ClosedAt, Engine!vars
  <2>5. QED
    BY <2>1, <2>2, <2>3, <2>4 DEF ReplayInv
<1>5. QED
  BY <1>1, <1>2, <1>3, <1>4 DEF Engine!Next

LEMMA AccountedIs ==
  ASSUME Engine!ReplayAssumption, ReplayInv
  PROVE  Engine!Accounted
<1>1. pending \in Seq(Engine!Intent) /\ queue \in Seq(Engine!Intent) /\ fills \in Seq(Engine!Intent \X Engine!Day)
  BY DEF ReplayInv, DaysOK, Engine!TypeOK
<1>2. SUFFICES ASSUME NEW i \in decided
               PROVE  /\ Engine!Cardinality({k \in DOMAIN fills : fills[k][1] = i}) <= 1
                      /\ i \in Engine!ToSet(pending) \cup Engine!ToSet(queue)
                           => Engine!Cardinality({k \in DOMAIN fills : fills[k][1] = i}) = 0 /\ ~ (\E b \in blocked : b[1] = i /\ (i.action = "BUY" \/ b[3] = "no_position"))
                      /\ ~ (i \in Engine!ToSet(pending) \cup Engine!ToSet(queue))
                           => (Engine!Cardinality({k \in DOMAIN fills : fills[k][1] = i}) = 1 <=> ~ (\E b \in blocked : b[1] = i /\ (i.action = "BUY" \/ b[3] = "no_position")))
  BY DEF Engine!Accounted
<1>3. AccountOK(i)
  BY DEF ReplayInv, IntentsOK
<1>4. PICK F : F = FilledAt(i)
  OBVIOUS
<1>5. Engine!Cardinality({k \in DOMAIN fills : fills[k][1] = i}) = Cardinality(F)
  <2>1. {k \in DOMAIN fills : fills[k][1] = i} = F
    BY <1>1, <1>4 DEF FilledAt
  <2>2. QED
    BY <2>1, EngineNumbers
<1>6. i \in Engine!ToSet(pending) \cup Engine!ToSet(queue) <=> Waits(i)
  BY <1>1 DEF Engine!ToSet, Waits
<1>7. (\E b \in blocked : b[1] = i /\ (i.action = "BUY" \/ b[3] = "no_position")) <=> IsRefused(i)
  BY DEF IsRefused, RefusedFor
<1>8. (F = {} => Cardinality(F) = 0) /\ (F # {} => Cardinality(F) = 1)
  <2>1. CASE F = {}
    BY <2>1, FS_EmptySet
  <2>2. CASE F # {}
    <3>1. PICK k : k \in F
      BY <2>2
    <3>2. F = {k}
      BY <1>3, <1>4, <3>1 DEF AccountOK
    <3>3. QED
      BY <2>2, <3>2, FS_Singleton
  <2>3. QED
    BY <2>1, <2>2
<1>9. QED
  BY <1>3, <1>4, <1>5, <1>6, <1>7, <1>8 DEF AccountOK

LEMMA GateExactly ==
  ASSUME Engine!ReplayAssumption, ReplayInv
  PROVE  Engine!GateIsExact
<1>1. fills \in Seq(Engine!Intent \X Engine!Day) /\ DOMAIN fills = 1 .. Len(fills)
  BY DEF ReplayInv, DaysOK, Engine!TypeOK
<1>2. ASSUME NEW k \in 1 .. Len(fills), fills[k][1].action = "SELL"
      PROVE  k \in tainted <=> \E d \in splits[fills[k][1].symbol] : Engine!EntryOf(k) < d /\ d <= fills[k][2]
  <2>1. PICK s, own : s = fills[k][1].symbol /\ own = Since(fills, s, k)
    OBVIOUS
  <2>2. ClosedAt(k)
    BY <1>2 DEF ReplayInv, GateOK
  <2>3. PICK j \in own : Earliest(j, own) /\ (k \in tainted <=> \E d \in splits[s] : fills[j][2] < d /\ d <= fills[k][2])
    BY <2>1, <2>2 DEF ClosedAt
  <2>4. own = {x \in Engine!FillsOf(s, "BUY") : x < k /\ \A y \in Engine!FillsOf(s, "SELL") : y < k => y < x}
    BY <1>1, <2>1 DEF Engine!FillsOf, Since, SideOf
  <2>5. Engine!EntryOf(k) = fills[CHOOSE x \in own : \A y \in own : x <= y][2]
    BY <2>1, <2>4, Zenon DEF Engine!EntryOf
  <2>6. \A x \in own : x \in 1 .. Len(fills)
    BY <2>1 DEF Since, SideOf
  <2>7. \A x \in own : (\A y \in own : x <= y) => x = j
    BY <2>3, <2>6 DEF Earliest
  <2>8. \A y \in own : j <= y
    BY <2>3 DEF Earliest
  <2>9. (CHOOSE x \in own : \A y \in own : x <= y) = j
    BY <2>3, <2>7, <2>8, Zenon
  <2>10. Engine!EntryOf(k) = fills[j][2]
    BY <2>5, <2>9
  <2>11. QED
    BY <2>1, <2>3, <2>10
<1>3. \A k \in tainted : k \in 1 .. Len(fills) /\ fills[k][1].action = "SELL"
  BY DEF ReplayInv, GateOK
<1>4. QED
  BY <1>1, <1>2, <1>3 DEF Engine!GateIsExact, Engine!Unsupported

LEMMA SoldAfterTheDay ==
  ASSUME Engine!ReplayAssumption, ReplayInv, [Engine!Next]_Engine!vars, NEW s \in Engine!Holding, positions'[s].shares = 0
  PROVE  bought[s] < day
<1>1. s \in Symbol /\ positions[s].shares # 0 /\ positions[s].shares \in Nat
  <2>1. s \in Symbol /\ positions[s].shares > 0
    BY DEF Engine!Holding
  <2>2. positions[s].shares \in Nat
    BY <2>1, SymbolTypes DEF ReplayInv
  <2>3. QED
    BY <2>1, <2>2
<1>2. positions' # positions
  BY <1>1
<1>3. Engine!Execute
  BY <1>2 DEF Engine!Next, Engine!vars, Engine!Morning, Engine!Evening
<1>4. PICK i \in Engine!Intent : Turn(i) /\ ((\E n : BuyFills(i, n)) \/ SellFills(i) \/ \E why : Refusal(i, why))
  BY <1>3, ExecuteIs DEF ReplayInv
<1>5. positions \in [Symbol -> [shares : Nat, buy : 0 .. MaxDays]]
  BY DEF ReplayInv, DaysOK, Engine!TypeOK
<1>6. ~ (\E why : Refusal(i, why))
  BY <1>2 DEF Refusal
<1>7. ~ (\E n : BuyFills(i, n))
  <2>1. SUFFICES ASSUME NEW n, BuyFills(i, n) PROVE FALSE
    OBVIOUS
  <2>2. /\ n \in Nat \ {0}
        /\ positions' = [positions EXCEPT ![i.symbol] = [shares |-> positions[i.symbol].shares + n,
                                                         buy |-> IF positions[i.symbol].shares = 0 THEN day ELSE positions[i.symbol].buy]]
    BY <2>1 DEF BuyFills
  <2>3. CASE s = i.symbol
    <3>1. positions'[s].shares = positions[s].shares + n
      BY <1>1, <1>5, <2>2, <2>3
    <3>2. QED
      BY <1>1, <2>2, <3>1
  <2>4. CASE s # i.symbol
    BY <1>1, <1>5, <2>2, <2>4
  <2>5. QED
    BY <2>3, <2>4
<1>8. i.action = "SELL" /\ Len(queue) \in Nat /\ Len(queue) >= 1 /\ i = queue[1]
  BY <1>4, <1>6, <1>7, TurnIs DEF SellFills, ReplayInv
<1>9. 1 \in 1 .. Len(queue) /\ queue[1].action = "SELL"
  BY <1>8
<1>10. QED
  BY <1>1, <1>9 DEF ReplayInv, TurnOK

\* In every replay no intent is lost or executed twice, and the trust gate
\* names exactly the sells of shares that were held through a change of the factor.
THEOREM ReplayIsAccounted ==
  ASSUME Engine!ReplayAssumption
  PROVE  Engine!Spec => [](Engine!TypeOK /\ Engine!Accounted /\ Engine!GateIsExact)
<1>1. Engine!Init => ReplayInv
  BY ReplayBegins
<1>2. ReplayInv /\ [Engine!Next]_Engine!vars => ReplayInv'
  BY ReplaySteps
<1>3. ReplayInv => Engine!TypeOK /\ Engine!Accounted /\ Engine!GateIsExact
  BY AccountedIs, GateExactly DEF ReplayInv, DaysOK
<1>4. QED
  BY <1>1, <1>2, <1>3, PTL DEF Engine!Spec

\* No share is sold on the day it was bought, also when a deferred sell, a
\* re-entry and their fills meet in one open.
THEOREM NothingSoldTheSameDay ==
  ASSUME Engine!ReplayAssumption
  PROVE  Engine!Spec => Engine!TPlusOne
<1>1. Engine!Init => ReplayInv
  BY ReplayBegins
<1>2. ReplayInv /\ [Engine!Next]_Engine!vars => ReplayInv'
  BY ReplaySteps
<1>3. ReplayInv /\ [Engine!Next]_Engine!vars => [\A s \in Engine!Holding : positions'[s].shares = 0 => bought[s] < day]_Engine!vars
  BY SoldAfterTheDay
<1>4. QED
  BY <1>1, <1>2, <1>3, PTL DEF Engine!Spec, Engine!TPlusOne

\* What a buy spends: half of the cash for the shares, and no more for the commission.
LEMMA BuyFits ==
  ASSUME Engine!ReplayAssumption, Engine!FeesFit, cash \in Nat, NEW p \in Price, NEW n, n = Engine!Shares(p), n \in Nat \ {0}
  PROVE  /\ n >= LotSize /\ n * p + Engine!Commission(n * p) <= cash
<1>1. p \in Nat \ {0} /\ LotSize \in Nat \ {0} /\ Fraction \in Nat \ {0} /\ Fraction >= 2 /\ MinFee \in Nat /\ LotSize * p >= MinFee
  BY EngineNumbers DEF Engine!FeesFit
<1>2. PICK b : b = cash \div Fraction
  OBVIOUS
<1>3. b \in Nat /\ b * Fraction <= cash
  BY <1>1, <1>2
<1>4. b * 2 <= cash
  BY <1>1, <1>3
<1>5. PICK c : c = b \div p
  OBVIOUS
<1>6. c \in Nat /\ c * p <= b
  BY <1>1, <1>3, <1>5
<1>7. PICK q : q = c \div LotSize
  OBVIOUS
<1>8. q \in Nat /\ q * LotSize <= c
  BY <1>1, <1>6, <1>7
<1>9. PICK m : m = q * LotSize
  OBVIOUS
<1>10. m \in Nat /\ m <= c
  BY <1>1, <1>8, <1>9
<1>11. m * p <= c * p /\ m * p \in Nat
  BY <1>1, <1>6, <1>10
<1>12. m = Engine!Lots(cash \div Fraction, p)
  BY <1>2, <1>5, <1>7, <1>9 DEF Engine!Lots
<1>13. n = IF m > 0 /\ m * p + Engine!Commission(m * p) > cash THEN m - LotSize ELSE m
  BY <1>12 DEF Engine!Shares
<1>14. m > 0
  BY <1>1, <1>10, <1>13
<1>15. m >= LotSize
  <2>1. q >= 1
    BY <1>1, <1>8, <1>9, <1>14
  <2>2. QED
    BY <1>1, <1>8, <1>9, <2>1
<1>16. m * p >= LotSize * p
  BY <1>1, <1>10, <1>15
<1>17. Engine!Commission(m * p) \in Int /\ Engine!Commission(m * p) <= m * p
  <2>1. PICK x : x = m * p
    OBVIOUS
  <2>2. x \in Int /\ x >= MinFee
    BY <1>1, <1>11, <1>16, <2>1
  <2>3. Engine!Commission(x) \in Int /\ Engine!Commission(x) <= x
    BY <2>2, CommissionIs
  <2>4. QED
    BY <2>1, <2>3
<1>18. m * p + Engine!Commission(m * p) <= cash
  <2>1. PICK x, y, e : x = m * p /\ y = c * p /\ e = Engine!Commission(m * p)
    OBVIOUS
  <2>2. x \in Int /\ y \in Int /\ e \in Int /\ cash \in Int
    BY <1>1, <1>6, <1>11, <1>17, <2>1
  <2>3. x <= y /\ y <= b /\ e <= x
    BY <1>6, <1>11, <1>17, <2>1
  <2>4. x + e <= b * 2
    BY <1>3, <2>2, <2>3
  <2>5. x + e <= cash
    BY <1>3, <1>4, <2>2, <2>4
  <2>6. QED
    BY <2>1, <2>5
<1>19. n = m
  BY <1>11, <1>13, <1>17, <1>18
<1>20. QED
  BY <1>15, <1>18, <1>19

LEMMA SellPays ==
  ASSUME Engine!ReplayAssumption, Engine!FeesFit, NEW p \in Price, NEW n \in Nat, n >= LotSize
  PROVE  n * p \in Nat /\ Engine!Commission(n * p) \in Int /\ Engine!Commission(n * p) <= n * p
<1>1. p \in Nat \ {0} /\ LotSize \in Nat \ {0} /\ MinFee \in Nat /\ LotSize * p >= MinFee
  BY EngineNumbers DEF Engine!FeesFit
<1>2. n * p >= LotSize * p /\ n * p \in Nat
  BY <1>1
<1>3. PICK x : x = n * p
  OBVIOUS
<1>4. x \in Int /\ x >= MinFee
  BY <1>1, <1>2, <1>3
<1>5. Engine!Commission(x) \in Int /\ Engine!Commission(x) <= x
  BY <1>4, CommissionIs
<1>6. QED
  BY <1>2, <1>3, <1>5

LEMMA CashStays ==
  ASSUME Engine!ReplayAssumption, Engine!FeesFit, ReplayInv, CashOK, [Engine!Next]_Engine!vars
  PROVE  CashOK'
<1>1. CASE ~ Engine!Execute
  <2>1. UNCHANGED <<positions, cash>>
    BY <1>1 DEF Engine!Next, Engine!vars, Engine!Morning, Engine!Evening
  <2>2. QED
    BY <2>1 DEF CashOK
<1>2. CASE Engine!Execute
  <2>1. PICK i \in Engine!Intent : Turn(i) /\ ((\E n : BuyFills(i, n)) \/ SellFills(i) \/ \E why : Refusal(i, why))
    BY <1>2, ExecuteIs DEF ReplayInv
  <2>2. PICK s, p : s = i.symbol /\ p = market[i.symbol].price
    OBVIOUS
  <2>3. s \in Symbol
    BY <2>1, <2>2, TurnIs DEF ReplayInv
  <2>4. positions[s].shares \in Nat /\ p \in Price
    BY <2>2, <2>3, SymbolTypes DEF ReplayInv
  <2>5. positions \in [Symbol -> [shares : Nat, buy : 0 .. MaxDays]] /\ cash \in Int
    BY DEF ReplayInv, DaysOK, Engine!TypeOK
  <2>6. cash \in Nat /\ \A x \in Symbol : positions[x].shares = 0 \/ positions[x].shares >= LotSize
    BY <2>5 DEF CashOK
  <2>7. CASE \E n : BuyFills(i, n)
    <3>1. PICK n : BuyFills(i, n)
      BY <2>7
    <3>2. /\ n \in Nat \ {0} /\ n = Engine!Shares(p) /\ cash' = cash - (n * p + Engine!Commission(n * p))
          /\ positions' = [positions EXCEPT ![s] = [shares |-> positions[s].shares + n,
                                                   buy |-> IF positions[s].shares = 0 THEN day ELSE positions[s].buy]]
      BY <2>2, <3>1 DEF BuyFills
    <3>3. n >= LotSize /\ n * p + Engine!Commission(n * p) <= cash
      BY <2>4, <2>6, <3>2, BuyFits
    <3>4. n * p \in Int /\ Engine!Commission(n * p) \in Int
      <4>1. p \in Nat
        BY <2>4, EngineNumbers
      <4>2. n * p \in Int
        BY <3>2, <4>1
      <4>3. QED
        BY <4>2, CommissionIs
    <3>5. cash' >= 0
      BY <2>6, <3>2, <3>3, <3>4
    <3>6. positions'[s].shares = positions[s].shares + n /\ \A x \in Symbol : x # s => positions'[x] = positions[x]
      BY <2>3, <2>5, <3>2
    <3>7. positions'[s].shares >= LotSize
      BY <2>4, <3>2, <3>3, <3>6, EngineNumbers
    <3>8. QED
      BY <2>6, <3>5, <3>6, <3>7 DEF CashOK
  <2>8. CASE SellFills(i)
    <3>1. PICK n : n = positions[s].shares
      OBVIOUS
    <3>2. /\ n # 0 /\ n \in Nat /\ cash' = cash + n * p - Engine!Commission(n * p)
          /\ positions' = [positions EXCEPT ![s] = [shares |-> 0, buy |-> 0]]
      BY <2>2, <2>4, <2>8, <3>1 DEF SellFills
    <3>3. n >= LotSize
      BY <2>3, <2>6, <3>1, <3>2
    <3>4. n * p \in Nat /\ Engine!Commission(n * p) \in Int /\ Engine!Commission(n * p) <= n * p
      BY <2>4, <3>2, <3>3, SellPays
    <3>5. cash' >= 0
      BY <2>6, <3>2, <3>4
    <3>6. positions'[s].shares = 0 /\ \A x \in Symbol : x # s => positions'[x] = positions[x]
      BY <2>3, <2>5, <3>2
    <3>7. QED
      BY <2>6, <3>5, <3>6 DEF CashOK
  <2>9. CASE \E why : Refusal(i, why)
    <3>1. UNCHANGED <<positions, cash>>
      BY <2>9 DEF Refusal
    <3>2. QED
      BY <3>1 DEF CashOK
  <2>10. QED
    BY <2>1, <2>7, <2>8, <2>9
<1>3. QED
  BY <1>1, <1>2

\* With fees that fit the lots and the fraction that a spec may spend, no
\* replay ever owes cash.
THEOREM NoCashIsOwed ==
  ASSUME Engine!ReplayAssumption, Engine!FeesFit
  PROVE  Engine!Spec => []Engine!CashNeverNegative
<1>1. Engine!Init => ReplayInv /\ CashOK
  BY ReplayBegins
<1>2. ReplayInv /\ CashOK /\ [Engine!Next]_Engine!vars => ReplayInv' /\ CashOK'
  BY ReplaySteps, CashStays
<1>3. CashOK => Engine!CashNeverNegative
  BY DEF CashOK, Engine!CashNeverNegative
<1>4. QED
  BY <1>1, <1>2, <1>3, PTL DEF Engine!Spec
=============================================================================
