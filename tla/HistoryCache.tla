---------------------------- MODULE HistoryCache ----------------------------
(***************************************************************************)
(* The daily cache of one symbol (quant_core.py): a CSV and its metadata,  *)
(* written in place one after the other; ensure_history hydrates it under  *)
(* a file lock that is tried once, fetch_history (the pool builder, the    *)
(* strategy evaluator) writes it without.  Days pass, upstream may fail.   *)
(***************************************************************************)
EXTENDS Naturals, Sequences, FiniteSets

CONSTANTS
  Caller,       \* callers of ensure_history
  Builder,      \* callers of fetch_history
  Extent,       \* the row counts and date ranges upstream may answer with
  Stale,        \* those whose last bar is older than HISTORY_STALE_AFTER_DAYS
  MaxFetches, MaxCalls, MaxDays, MaxCrashes,  \* bounds
  Absent, Torn

CacheAssumption ==
  /\ Stale \subseteq Extent /\ {MaxFetches, MaxCalls, MaxDays, MaxCrashes} \subseteq Nat
  /\ Absent # Torn /\ {Absent, Torn} \cap Nat = {}
  /\ Caller \cap Builder = {} /\ "none" \notin Caller

VARIABLES
  csv, meta,   \* the two files: the fetch they were written by
  pc, seen, got, intent,  \* of each process
  lock,        \* the caller that holds the lock, or none
  fetches,     \* what was fetched: range, unit, day
  refreshed,   \* (history) fetches of callers with intent refresh, per day
  answers, calls, day, crashes

vars == <<csv, meta, pc, seen, got, intent, lock, fetches, refreshed, answers, calls, day, crashes>>

Proc == Caller \cup Builder
None == "none"
Fetch == 1 .. MaxFetches
Data == [range : Extent, unit : {"share", "unknown"}, day : 0 .. MaxDays]
File == {Absent, Torn} \cup Fetch
Intent == {None, "hydrate", "refresh"}
Status == {"cache", "hydrated", "failed"}

TypeOK ==
  /\ csv \in File /\ meta \in File
  /\ pc \in [Proc -> {"idle", "meta", "csv", "lock", "again meta", "again csv", "fetch", "open csv", "fill csv", "open meta", "fill meta"}]
  /\ seen \in [Proc -> File] /\ got \in [Proc -> {0} \cup Fetch]
  /\ intent \in [Proc -> Intent] /\ lock \in Caller \cup {None}
  /\ fetches \in UNION {[1 .. n -> Data] : n \in 0 .. MaxFetches}
  /\ refreshed \in [0 .. MaxDays -> 0 .. MaxCalls]
  /\ answers \subseteq [status : Status, csv : File, meta : File]
  \* A caller hydrates under the lock.
  /\ \A p \in Caller : pc[p] \notin {"idle", "meta", "csv", "lock"} => lock = p
  /\ calls \in 0 .. MaxCalls /\ day \in 0 .. MaxDays /\ crashes \in 0 .. MaxCrashes

Init ==
  /\ csv = Absent /\ meta = Absent
  /\ pc = [p \in Proc |-> "idle"] /\ seen = [p \in Proc |-> Absent] /\ got = [p \in Proc |-> 0]
  /\ intent = [p \in Proc |-> None] /\ lock = None
  /\ fetches = << >> /\ refreshed = [d \in 0 .. MaxDays |-> 0] /\ answers = {}
  /\ calls = 0 /\ day = 0 /\ crashes = 0

\* history_cache_is_current, after read_cache: an unreadable file is no cache.
Current(m, c) ==
  /\ m \in Fetch /\ c \in Fetch
  /\ fetches[m].unit = "share" /\ fetches[m].range = fetches[c].range

\* The last bar is old and the fetch is not of today.
NeedsRefresh(m) == fetches[m].range \in Stale /\ fetches[m].day # day
-----------------------------------------------------------------------------
Goto(p, l) == pc' = [pc EXCEPT ![p] = l]

\* The end of a call: what it says, and the lock if it was held.
Return(p, status, c, m) ==
  /\ Goto(p, "idle")
  /\ answers' = answers \cup {[status |-> status, csv |-> c, meta |-> m]}
  /\ intent' = [intent EXCEPT ![p] = None]
  /\ seen' = [seen EXCEPT ![p] = Absent] /\ got' = [got EXCEPT ![p] = 0]
  /\ lock' = IF lock = p THEN None ELSE lock

Call(p) ==
  /\ pc[p] = "idle" /\ calls < MaxCalls
  /\ calls' = calls + 1
  /\ Goto(p, IF p \in Builder THEN "fetch" ELSE "meta")
  /\ UNCHANGED <<csv, meta, seen, got, intent, lock, fetches, refreshed, answers, day, crashes>>

\* read_cache: both files are there, the metadata is read before the rows.
ReadMeta(p, from, to) ==
  /\ pc[p] = from
  /\ seen' = [seen EXCEPT ![p] = IF csv = Absent THEN Absent ELSE meta]
  /\ Goto(p, to)
  /\ UNCHANGED <<csv, meta, got, intent, lock, fetches, refreshed, answers, calls, day, crashes>>

Probe(p) ==
  /\ pc[p] = "csv"
  /\ IF Current(seen[p], csv) /\ ~NeedsRefresh(seen[p])
     THEN Return(p, "cache", csv, seen[p])
     ELSE /\ Goto(p, "lock")
          /\ intent' = [intent EXCEPT ![p] = IF Current(seen[p], csv) THEN "refresh" ELSE "hydrate"]
          /\ UNCHANGED <<seen, got, lock, answers>>
  /\ UNCHANGED <<csv, meta, fetches, refreshed, calls, day, crashes>>

\* (mutant) the lock is taken and the cache is not read again.
TryLockOnce(p) ==
  /\ pc[p] = "lock"
  /\ IF lock # None
     THEN Return(p, "failed", Absent, Absent)
     ELSE /\ lock' = p
          /\ Goto(p, "fetch")
          /\ UNCHANGED <<seen, got, intent, answers>>
  /\ UNCHANGED <<csv, meta, fetches, refreshed, calls, day, crashes>>

\* LOCK_NB: a lock that is held ends the call.  A miss reads once more.
TryLock(p) ==
  /\ pc[p] = "lock"
  /\ IF lock # None
     THEN Return(p, "failed", Absent, Absent)
     ELSE /\ lock' = p
          /\ Goto(p, IF intent[p] = "hydrate" THEN "again meta" ELSE "fetch")
          /\ UNCHANGED <<seen, got, intent, answers>>
  /\ UNCHANGED <<csv, meta, fetches, refreshed, calls, day, crashes>>

Recheck(p) ==
  /\ pc[p] = "again csv"
  /\ IF Current(seen[p], csv)
     THEN Return(p, "cache", csv, seen[p])
     ELSE Goto(p, "fetch") /\ UNCHANGED <<seen, got, intent, lock, answers>>
  /\ UNCHANGED <<csv, meta, fetches, refreshed, calls, day, crashes>>

\* Three attempts; upstream answers with some range, in a unit that can or
\* cannot be told.
FetchOk(p) ==
  /\ pc[p] = "fetch" /\ Len(fetches) < MaxFetches
  /\ \E d \in [range : Extent, unit : {"share", "unknown"}, day : {day}] : fetches' = Append(fetches, d)
  /\ got' = [got EXCEPT ![p] = Len(fetches) + 1]
  /\ refreshed' = IF intent[p] = "refresh" THEN [refreshed EXCEPT ![day] = @ + 1] ELSE refreshed
  /\ Goto(p, "open csv")
  /\ UNCHANGED <<csv, meta, seen, intent, lock, answers, calls, day, crashes>>

FetchFails(p) ==
  /\ pc[p] = "fetch"
  /\ refreshed' = IF intent[p] = "refresh" THEN [refreshed EXCEPT ![day] = @ + 1] ELSE refreshed
  /\ Return(p, "failed", Absent, Absent)
  /\ UNCHANGED <<csv, meta, fetches, calls, day, crashes>>

\* write_cache.
OpenCsv(p) ==
  /\ pc[p] = "open csv" /\ Goto(p, "fill csv")
  /\ csv' = Torn
  /\ UNCHANGED <<meta, seen, got, intent, lock, fetches, refreshed, answers, calls, day, crashes>>
FillCsv(p) ==
  /\ pc[p] = "fill csv" /\ Goto(p, "open meta")
  /\ csv' = got[p]
  /\ UNCHANGED <<meta, seen, got, intent, lock, fetches, refreshed, answers, calls, day, crashes>>
OpenMeta(p) ==
  /\ pc[p] = "open meta" /\ Goto(p, "fill meta")
  /\ meta' = Torn
  /\ UNCHANGED <<csv, seen, got, intent, lock, fetches, refreshed, answers, calls, day, crashes>>
FillMeta(p) ==
  /\ pc[p] = "fill meta"
  /\ meta' = got[p]
  /\ Return(p, "hydrated", got[p], got[p])
  /\ UNCHANGED <<csv, fetches, refreshed, calls, day, crashes>>

\* The kernel gives the lock back.
Dies(p) ==
  /\ pc[p] # "idle" /\ crashes < MaxCrashes
  /\ crashes' = crashes + 1
  /\ Goto(p, "idle") /\ intent' = [intent EXCEPT ![p] = None]
  /\ seen' = [seen EXCEPT ![p] = Absent] /\ got' = [got EXCEPT ![p] = 0]
  /\ lock' = IF lock = p THEN None ELSE lock
  /\ UNCHANGED <<csv, meta, fetches, refreshed, answers, calls, day>>

NextDay ==
  /\ day < MaxDays
  /\ day' = day + 1
  /\ UNCHANGED <<csv, meta, pc, seen, got, intent, lock, fetches, refreshed, answers, calls, crashes>>

Read(p) == ReadMeta(p, "meta", "csv") \/ ReadMeta(p, "again meta", "again csv")
Write(p) == OpenCsv(p) \/ FillCsv(p) \/ OpenMeta(p) \/ FillMeta(p)

Step(p) == Read(p) \/ Probe(p) \/ TryLock(p) \/ Recheck(p) \/ FetchOk(p) \/ FetchFails(p) \/ Write(p)

Next ==
  \/ \E p \in Proc : Call(p) \/ Step(p) \/ Dies(p)
  \/ NextDay

Spec == Init /\ [][Next]_vars
FairSpec ==
  /\ Spec
  /\ \A p \in Proc : WF_vars(Step(p))
-----------------------------------------------------------------------------
\* Of several callers that miss, one fetches: nobody fetches for a miss what
\* the cache already holds.
OneHydration == \A p \in Caller : pc[p] = "fetch" /\ intent[p] = "hydrate" => ~Current(meta, csv)

\* The bars an answer counts and the last day it names are of one series,
\* whoever writes the two files meanwhile or dies between them.
EvidenceAgrees ==
  \A a \in answers : a.status # "failed" => fetches[a.csv].range = fetches[a.meta].range

\* The lock comes back, whatever becomes of its holder.
LockFreed == lock # None ~> lock = None

\* Volumes taken from the cache are shares.
VolumesAreShares == \A a \in answers : a.status = "cache" => fetches[a.csv].unit = "share"

\* An old series is asked for once a day.
OneRefreshPerDay == \A d \in 0 .. MaxDays : refreshed[d] <= 1
=============================================================================
