---------------------------- MODULE CandidatePool ----------------------------
(***************************************************************************)
(* From the candidate pool to a live trigger: candidates_sidecar.py builds *)
(* the pool and hands it over in a file, quant_validate_semantics.py       *)
(* proves the cached volumes of that pool, scan_sidecar.py scans it.       *)
(* Three programs, files between them, nothing else.                       *)
(***************************************************************************)
EXTENDS Naturals, FiniteSets

CONSTANTS
  Symbol,        \* numbers; those of a pool are asked for in ascending order
  Legacy,        \* the symbols of the frozen subset, {} without a manifest
  BatchSize,     \* BATCH_SIZE
  MaxBatchesFail,
  MinSample,     \* the validator's --min-sample
  MaxBuilds, MaxProofs, MaxScans, MaxCrashes,  \* bounds
  Absent, Torn   \* no file; a file opened for writing and not filled

PoolAssumption ==
  /\ Symbol \subseteq Nat /\ Legacy \subseteq Symbol
  /\ {BatchSize, MinSample} \subseteq Nat \ {0}
  /\ {MaxBatchesFail, MaxBuilds, MaxProofs, MaxScans, MaxCrashes} \subseteq Nat
  \* No file and a torn one are told apart, and from any pool.
  /\ Absent # Torn /\ {Absent, Torn} \cap [gen : Nat, symbols : SUBSET Symbol] = {}

VARIABLES
  builder,   \* [pc, pool]: the builder and the snapshot it has assembled
  snapshot, handoff, proof,  \* the files; proof is the latest one
  validator, \* [pc, pool]
  scanner,   \* [pc, pool, status]
  scans,     \* the answers given
  proved,    \* (history) the pools a validator has found sound
  builds, proofs, crashes

vars == <<builder, snapshot, handoff, proof, validator, scanner, scans, proved, builds, proofs, crashes>>

Pool == [gen : 0 .. MaxBuilds, symbols : SUBSET Symbol]
NoPool == [gen |-> 0, symbols |-> {}]
Status == {"PASS", "FAIL", "INSUFFICIENT_EVIDENCE", "UNKNOWN", "STALE"}
Answer == [pool : Pool, quoted : SUBSET Symbol, triggers : SUBSET Symbol]
Idle == [pc |-> "idle", pool |-> NoPool]
NoScan == [pc |-> "idle", pool |-> NoPool, status |-> "UNKNOWN"]

TypeOK ==
  /\ builder \in [pc : {"idle", "fetch", "open snapshot", "fill snapshot", "open handoff", "fill handoff"}, pool : Pool]
  /\ validator \in [pc : {"idle", "validate", "fill"}, pool : Pool]
  /\ scanner \in [pc : {"idle", "gate", "quotes"}, pool : Pool, status : Status]
  /\ \A f \in {snapshot, handoff} : f \in {Absent, Torn} \/ f \in Pool
  /\ proof \in {Absent, Torn} \/ proof \in [pool : Pool, status : Status]
  /\ scans \subseteq Answer /\ proved \subseteq Pool
  /\ builds \in 0 .. MaxBuilds /\ proofs \in 0 .. MaxProofs /\ crashes \in 0 .. MaxCrashes
  \* No program goes on with an empty universe.
  /\ (scanner.pc # "idle" => scanner.pool.symbols # {}) /\ (validator.pc # "idle" => validator.pool.symbols # {})

Init ==
  /\ builder = Idle /\ validator = Idle /\ scanner = NoScan
  /\ snapshot = Absent /\ handoff = Absent /\ proof = Absent
  /\ scans = {} /\ proved = {} /\ builds = 0 /\ proofs = 0 /\ crashes = 0
-----------------------------------------------------------------------------
\* resolve_membership: two indices, each live, cached or failed; no name at
\* all ends the build before any file is touched.
Membership ==
  /\ builder.pc = "idle" /\ builds < MaxBuilds
  /\ builder' = [pc |-> "fetch", pool |-> NoPool]
  /\ builds' = builds + 1
  /\ UNCHANGED <<snapshot, handoff, proof, validator, scanner, scans, proved, proofs, crashes>>

\* fetch_batch_quotes: the symbols in batches, in order.
Batch(symbols, i) ==
  LET Place(x) == Cardinality({y \in symbols : y < x}) IN {x \in symbols : Place(x) \div BatchSize = i}
Batches(symbols) == {Batch(symbols, i) : i \in 0 .. Cardinality(symbols) \div BatchSize} \ {{}}

\* More than MaxBatchesFail failed batches raise; the symbols of a failed
\* batch, and those the answer does not name, have no quote.
QuotesFail(symbols) == Cardinality(Batches(symbols)) > MaxBatchesFail
Quoted(symbols, failed) == symbols \ UNION failed
MayFail(symbols) == {f \in SUBSET Batches(symbols) : Cardinality(f) <= MaxBatchesFail}

\* Quotes, deep data, scores: any part of what was quoted may be the pool.
Assemble ==
  /\ builder.pc = "fetch"
  /\ \E f \in MayFail(Symbol) : \E pool \in SUBSET Quoted(Symbol, f) :
       builder' = [pc |-> "open snapshot", pool |-> [gen |-> builds, symbols |-> pool]]
  /\ UNCHANGED <<snapshot, handoff, proof, validator, scanner, scans, proved, builds, proofs, crashes>>

At(from, to) == builder.pc = from /\ builder' = [builder EXCEPT !.pc = to]

OpenSnapshot ==
  /\ At("open snapshot", "fill snapshot")
  /\ snapshot' = Torn
  /\ UNCHANGED <<handoff, proof, validator, scanner, scans, proved, builds, proofs, crashes>>

FillSnapshot ==
  /\ At("fill snapshot", "open handoff")
  /\ snapshot' = builder.pool
  /\ UNCHANGED <<handoff, proof, validator, scanner, scans, proved, builds, proofs, crashes>>

\* An empty pool takes the handoff away and ends the build with exit 2.
OpenHandoff ==
  /\ builder.pc = "open handoff"
  /\ builder' = IF builder.pool.symbols = {} THEN Idle ELSE [builder EXCEPT !.pc = "fill handoff"]
  /\ handoff' = IF builder.pool.symbols = {} THEN Absent ELSE Torn
  /\ UNCHANGED <<snapshot, proof, validator, scanner, scans, proved, builds, proofs, crashes>>

FillHandoff ==
  /\ builder.pc = "fill handoff"
  /\ builder' = Idle
  /\ handoff' = builder.pool
  /\ UNCHANGED <<snapshot, proof, validator, scanner, scans, proved, builds, proofs, crashes>>

\* An exception or a kill, at any step.
BuilderDies ==
  /\ builder.pc # "idle" /\ crashes < MaxCrashes
  /\ builder' = Idle
  /\ crashes' = crashes + 1
  /\ UNCHANGED <<snapshot, handoff, proof, validator, scanner, scans, proved, builds, proofs>>
-----------------------------------------------------------------------------
Listed == IF handoff \in {Absent, Torn} THEN NoPool ELSE handoff

\* load_active_symbols: absent, torn or without symbols is an error.
Readable == Listed.symbols # {}

StartProof ==
  /\ validator.pc = "idle" /\ proofs < MaxProofs
  /\ Readable /\ Cardinality(Listed.symbols) >= MinSample
  /\ validator' = [pc |-> "validate", pool |-> Listed]
  /\ proofs' = proofs + 1
  /\ UNCHANGED <<builder, snapshot, handoff, proof, scanner, scans, proved, builds, crashes>>

\* Quotes and the daily caches of the pool, and the file of the verdict.
Validate ==
  /\ validator.pc = "validate"
  /\ validator' = [validator EXCEPT !.pc = "fill"]
  /\ proof' = Torn
  /\ UNCHANGED <<builder, snapshot, handoff, scanner, scans, proved, builds, proofs, crashes>>

WriteProof ==
  /\ validator.pc = "fill"
  /\ \E s \in {"PASS", "FAIL", "INSUFFICIENT_EVIDENCE"} :
       /\ proof' = [pool |-> validator.pool, status |-> s]
       /\ proved' = IF s = "PASS" THEN proved \cup {validator.pool} ELSE proved
  /\ validator' = Idle
  /\ UNCHANGED <<builder, snapshot, handoff, scanner, scans, builds, proofs, crashes>>
-----------------------------------------------------------------------------
\* resolve_universe: a handoff that is there and broken is an error, the
\* frozen subset (generation 0) stands in for one that is absent.
Resolve ==
  /\ scanner.pc = "idle" /\ Cardinality(scans) < MaxScans
  /\ \/ Readable /\ scanner' = [scanner EXCEPT !.pc = "gate", !.pool = Listed]
     \/ /\ handoff = Absent /\ Legacy # {}
        /\ scanner' = [scanner EXCEPT !.pc = "gate", !.pool = [gen |-> 0, symbols |-> Legacy]]
  /\ UNCHANGED <<builder, snapshot, handoff, proof, validator, scans, proved, builds, proofs, crashes>>

\* (mutant) the generation of the pool is not compared.
VerdictSet(pool) ==
  CASE proof \in {Absent, Torn} -> "UNKNOWN"
    [] proof \notin {Absent, Torn} /\ proof.status = "PASS" /\ proof.pool.symbols # pool.symbols -> "STALE"
    [] OTHER -> proof.status

\* load_volume_semantics, of the latest proof.
Verdict(pool) ==
  IF proof \in {Absent, Torn} THEN "UNKNOWN"
  ELSE IF proof.status = "PASS" /\ proof.pool # pool THEN "STALE" ELSE proof.status

Gate ==
  /\ scanner.pc = "gate"
  /\ scanner' = [scanner EXCEPT !.pc = "quotes", !.status = Verdict(scanner.pool)]
  /\ UNCHANGED <<builder, snapshot, handoff, proof, validator, scans, proved, builds, proofs, crashes>>

\* Every quoted symbol may trigger; only a proof that passed arms.
Answers(failed) ==
  LET quoted == Quoted(scanner.pool.symbols, failed) IN
    \E t \in SUBSET quoted :
      scans' = scans \cup {[pool |-> scanner.pool, quoted |-> quoted,
                            triggers |-> IF scanner.status = "PASS" THEN t ELSE {}]}

Scan ==
  /\ scanner.pc = "quotes" /\ scanner' = NoScan
  /\ \/ \E f \in MayFail(scanner.pool.symbols) : Answers(f)
     \/ QuotesFail(scanner.pool.symbols) /\ UNCHANGED scans
  /\ UNCHANGED <<builder, snapshot, handoff, proof, validator, proved, builds, proofs, crashes>>

Next ==
  \/ Membership \/ Assemble \/ OpenSnapshot \/ FillSnapshot \/ OpenHandoff \/ FillHandoff \/ BuilderDies
  \/ StartProof \/ Validate \/ WriteProof
  \/ Resolve \/ Gate \/ Scan

Spec == Init /\ [][Next]_vars
-----------------------------------------------------------------------------
\* A trigger stands on a proof of that very pool: the symbols and the
\* generation, whatever is rebuilt while the proof or the scan is under way.
TriggerIsProven == \A a \in scans : a.triggers # {} => a.pool \in proved

\* The pool in use is on record: its snapshot was written before it was handed
\* over, whatever died in between.
HandoffAudited ==
  handoff \in Pool =>
    /\ snapshot # Absent
    /\ snapshot \in Pool => snapshot.gen >= handoff.gen /\ (snapshot.gen = handoff.gen => snapshot = handoff)

\* The gate between the pool and a live trigger, and the record beside it.
ArmedIsProven == TypeOK /\ TriggerIsProven /\ HandoffAudited

\* After an empty pool no older handoff lingers.
EmptyPoolFailsClosed ==
  snapshot \in Pool /\ snapshot.symbols = {} /\ builder.pc = "idle" => handoff = Absent

\* No trigger is a finding of the market: something was seen.
NoTradeIsObserved == \A a \in scans : a.quoted # {}
=============================================================================
