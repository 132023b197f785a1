---------------------------- MODULE ClientRecords ----------------------------
(***************************************************************************)
(* The business history of zuaef_client_service (store.py, toolset.py):    *)
(* one customer's state file, the versions it replaced, and one receipt    *)
(* per recorded exchange.  record_interaction reads the state, writes the  *)
(* receipt, copies the file to its history and fills it anew, in place and *)
(* with no lock; tools of one answer run in parallel threads.              *)
(***************************************************************************)
EXTENDS Naturals, FiniteSets, Functions

CONSTANTS
  Thread,
  MaxRecords, MaxDeaths,
  Installed,   \* the state the corpus came with
  Torn         \* a file between its truncation and its fill

RecordsAssumption ==
  {MaxRecords, MaxDeaths} \subseteq Nat /\ Installed # Torn /\ {Installed, Torn} \cap Nat = {}

VARIABLES
  state,      \* the exchange the state file was updated from, or Torn
  history,    \* of each number: the version copied there
  receipts,   \* of each exchange: the state its receipt says came before
  step,       \* of each thread: where it is, its exchange, what it read
  records, deaths,
  returned,   \* exchanges the tool has confirmed, in a chain from -> to
  overlapped, \* two exchanges were ever recorded at once
  wrecked     \* a death has left a torn file

vars == <<state, history, receipts, step, records, deaths, returned, overlapped, wrecked>>

Idle == [at |-> "idle"]
Version == {Installed} \cup 1 .. MaxRecords

TypeOK ==
  /\ state \in Version \cup {Torn}
  /\ DOMAIN history \subseteq 1 .. MaxRecords /\ Range(history) \subseteq Version \cup {Torn}
  /\ DOMAIN receipts \subseteq 1 .. MaxRecords /\ Range(receipts) \subseteq Version
  /\ \A t \in Thread : step[t].at \in {"idle", "read", "noted", "numbered", "copying", "copied", "filling"}
  /\ records \in 0 .. MaxRecords /\ deaths \in 0 .. MaxDeaths
  /\ returned \subseteq 1 .. MaxRecords
  /\ {overlapped, wrecked} \subseteq BOOLEAN

Init ==
  /\ state = Installed
  /\ history = <<>> /\ receipts = <<>>
  /\ step = [t \in Thread |-> Idle]
  /\ records = 0 /\ deaths = 0
  /\ returned = {} /\ overlapped = FALSE /\ wrecked = FALSE
-----------------------------------------------------------------------------
With(f, i, x) == [j \in DOMAIN f \cup {i} |-> IF j = i THEN x ELSE f[j]]

Go(t, at) == step' = [step EXCEPT ![t].at = at]

\* load_customer_state: a torn file raises, and so does the tool.
LoadState(t) ==
  /\ step[t] = Idle /\ records < MaxRecords /\ state # Torn
  /\ records' = records + 1
  /\ step' = [step EXCEPT ![t] = [at |-> "read", id |-> records + 1, before |-> state]]
  /\ overlapped' = (overlapped \/ \E u \in Thread : step[u] # Idle)
  /\ UNCHANGED <<state, history, receipts, deaths, returned, wrecked>>

\* append_interaction: a file of its own.
AppendInteraction(t) ==
  /\ step[t].at = "read"
  /\ receipts' = With(receipts, step[t].id, step[t].before)
  /\ Go(t, "noted")
  /\ UNCHANGED <<state, history, records, deaths, returned, overlapped, wrecked>>

\* (mutant) the numbers start at the files there are.
HistorySeqAt(h) == IF h = <<>> THEN 1 ELSE Cardinality(DOMAIN h)

\* One more than the files there are.
HistorySeq(h) == Cardinality(DOMAIN h) + 1

\* write_customer_state: the number, the copy, the fill.
NumberHistory(t) ==
  /\ step[t].at = "noted"
  /\ step' = [step EXCEPT ![t] = [at |-> "numbered", id |-> @.id, seq |-> HistorySeq(history)]]
  /\ UNCHANGED <<state, history, receipts, records, deaths, returned, overlapped, wrecked>>

\* The copy is opened, truncated, after the state has been read.
OpenCopy(t) ==
  /\ step[t].at = "numbered"
  /\ history' = With(history, step[t].seq, Torn)
  /\ step' = [step EXCEPT ![t] = [at |-> "copying", id |-> @.id, seq |-> @.seq, text |-> state]]
  /\ UNCHANGED <<state, receipts, records, deaths, returned, overlapped, wrecked>>

FillCopy(t) ==
  /\ step[t].at = "copying"
  /\ history' = With(history, step[t].seq, step[t].text)
  /\ Go(t, "copied")
  /\ UNCHANGED <<state, receipts, records, deaths, returned, overlapped, wrecked>>

OpenState(t) ==
  /\ step[t].at = "copied"
  /\ state' = Torn
  /\ Go(t, "filling")
  /\ UNCHANGED <<history, receipts, records, deaths, returned, overlapped, wrecked>>

FillState(t) ==
  /\ step[t].at = "filling"
  /\ state' = step[t].id
  /\ returned' = returned \cup {step[t].id}
  /\ step' = [step EXCEPT ![t] = Idle]
  /\ UNCHANGED <<history, receipts, records, deaths, overlapped, wrecked>>

\* The process dies with all its threads.
Die ==
  /\ deaths < MaxDeaths
  /\ deaths' = deaths + 1
  /\ wrecked' = (wrecked \/ \E t \in Thread : step[t].at \in {"copying", "filling"})
  /\ step' = [t \in Thread |-> Idle]
  /\ UNCHANGED <<state, history, receipts, records, returned, overlapped>>

Next ==
  \/ \E t \in Thread :
       \/ LoadState(t) \/ AppendInteraction(t) \/ NumberHistory(t)
       \/ OpenCopy(t) \/ FillCopy(t) \/ OpenState(t) \/ FillState(t)
  \/ Die

Spec == Init /\ [][Next]_vars
-----------------------------------------------------------------------------
\* models.py:209 "one business-layer customer interaction record": a confirmed
\* exchange has its receipt, whatever overlaps or dies.
ConfirmedHasReceipt == returned \subseteq DOMAIN receipts

\* store.py:186 "history kept": what a receipt says came before is in the
\* history or still the state, unless two exchanges overlapped or a death left
\* a file torn.
HistoryKept ==
  ~overlapped /\ ~wrecked =>
    \A i \in returned : receipts[i] \in Range(history)

\* The receipts of the confirmed exchanges form one chain: no two of them
\* replaced the same version, unless exchanges overlapped.
OneSuccessor ==
  ~overlapped => \A i, j \in returned : receipts[i] = receipts[j] => i = j
-----------------------------------------------------------------------------
\* The same when exchanges overlap: refuted, two of them take one number and
\* one version is gone.
HistoryAlwaysKept == ~wrecked => \A i \in returned : receipts[i] \in Range(history) \cup {state}

\* A customer can always be served again: refuted, a death inside the fill
\* leaves a file no tool can load.
Servable == (\A t \in Thread : step[t] = Idle) => state # Torn
=============================================================================
