---------------------------- MODULE StrategyRound ----------------------------
(***************************************************************************)
(* evaluate_strategy of zuaef_quant (toolset.py) and the sidecar process   *)
(* it starts (eval_sidecar.py, dump_bin.py): the one evaluation of a       *)
(* round, the directory named by strategy and second, the staged CSVs and  *)
(* the binary store that every evaluation shares and takes as it is once   *)
(* they exist.  The panel silently lacks what the store lacks.             *)
(***************************************************************************)
EXTENDS Naturals, Sequences, FiniteSets

CONSTANTS
  Call,         \* calls of the tool
  Toolset,      \* of each call: the composed toolset it counts in
  Universe,     \* the symbols, in order
  Newcomer,     \* a symbol the universe may gain
  Name,         \* of strategies
  MaxSeconds, MaxKills, MaxChanges

RoundAssumption ==
  /\ {MaxSeconds, MaxKills, MaxChanges} \subseteq Nat
  /\ DOMAIN Toolset = Call /\ Universe \in Seq({Universe[i] : i \in DOMAIN Universe})

VARIABLES
  symbols,      \* csi500_subset.meta.json
  csv,          \* of each staged symbol: "torn" or "whole"
  store,        \* absent, or of each dumped symbol: its data
  used,         \* the evaluations each toolset has counted
  call,         \* of each call: where it is
  evidence,     \* of each child directory: evidence.json
  answers,      \* what the calls returned
  second, kills, changes,
  disturbed     \* a kill, an overlap or a change has met the shared data

vars == <<symbols, csv, store, used, call, evidence, answers, second, kills, changes, disturbed>>

Idle == [at |-> "idle", dir |-> <<>>]
NoRound == [exists |-> FALSE, data |-> <<>>]
InSidecar == {"staging", "filling", "building", "dumping", "reading"}
Elements(s) == {s[i] : i \in DOMAIN s}

TypeOK ==
  /\ Elements(symbols) \subseteq Elements(Universe) \cup {Newcomer}
  /\ DOMAIN csv \subseteq Elements(symbols) /\ Elements(csv) \subseteq {"torn", "whole"}
  /\ DOMAIN store.data \subseteq Elements(symbols) /\ Elements(store.data) \subseteq {"torn", "whole"}
  /\ \A c \in Call : call[c].at \in {"idle", "checked", "replaying", "returning", "ended"} \cup InSidecar
  /\ \A a \in answers : a.by \in Call /\ a.of \in Call
  /\ second \in 0 .. MaxSeconds /\ kills \in 0 .. MaxKills /\ changes \in 0 .. MaxChanges

Init ==
  /\ symbols = Universe
  /\ csv = <<>> /\ store = NoRound
  /\ used = [t \in {Toolset[c] : c \in Call} |-> 0]
  /\ call = [c \in Call |-> Idle]
  /\ evidence = <<>> /\ answers = {}
  /\ second = 0 /\ kills = 0 /\ changes = 0 /\ disturbed = FALSE
-----------------------------------------------------------------------------
With(f, i, x) == [j \in DOMAIN f \cup {i} |-> IF j = i THEN x ELSE f[j]]
End(c) == call' = [call EXCEPT ![c] = [at |-> "ended", dir |-> @.dir]]

\* The check of the counter; a call past it is in a thread of its own.
CheckRound(c) ==
  /\ call[c] = Idle
  /\ IF used[Toolset[c]] >= 1 THEN End(c)
     ELSE call' = [call EXCEPT ![c].at = "checked"]
  /\ UNCHANGED <<symbols, csv, store, used, evidence, answers, second, kills, changes, disturbed>>

ChildDir(n) == <<n, second>>

Count(c) == used' = [used EXCEPT ![Toolset[c]] = @ + 1]

\* validate_spec_dict: a refused spec has used up the round.
RefuseSpec(c) ==
  /\ call[c].at = "checked"
  /\ Count(c) /\ End(c)
  /\ UNCHANGED <<symbols, csv, store, evidence, answers, second, kills, changes, disturbed>>

\* An accepted one gets its directory and starts the sidecar.
StartEvaluation(c) ==
  /\ call[c].at = "checked"
  /\ Count(c)
  /\ \E n \in Name :
       call' = [call EXCEPT ![c] = [at |-> "staging", dir |-> ChildDir(n), i |-> 1, symbols |-> symbols]]
  /\ disturbed' = (disturbed \/ \E d \in Call : call[d].at \in InSidecar)
  /\ UNCHANGED <<symbols, csv, store, evidence, answers, second, kills, changes>>
-----------------------------------------------------------------------------
(* The sidecar.                                                            *)

\* stage_qlib_csvs takes a file that is there as it is.
Staged(s, sym) == sym \in DOMAIN s

StageSymbol(c) ==
  /\ call[c].at = "staging" /\ call[c].i <= Len(call[c].symbols)
  /\ LET sym == call[c].symbols[call[c].i]
     IN  IF Staged(csv, sym)
         THEN /\ call' = [call EXCEPT ![c].i = @ + 1]
              /\ UNCHANGED csv
         ELSE /\ csv' = With(csv, sym, "torn")
              /\ call' = [call EXCEPT ![c].at = "filling"]
  /\ UNCHANGED <<symbols, store, used, evidence, answers, second, kills, changes, disturbed>>

FillCsv(c) ==
  /\ call[c].at = "filling"
  /\ csv' = With(csv, call[c].symbols[call[c].i], "whole")
  /\ call' = [call EXCEPT ![c].at = "staging", ![c].i = @ + 1]
  /\ UNCHANGED <<symbols, store, used, evidence, answers, second, kills, changes, disturbed>>

\* build_qlib_store takes a directory that is there as it is; else it starts
\* one (DumpDataAll: calendars, instruments, then features).
BuildStore(c) ==
  /\ call[c].at = "staging" /\ call[c].i > Len(call[c].symbols)
  /\ IF store.exists
     THEN call' = [call EXCEPT ![c].at = "reading"] /\ UNCHANGED store
     ELSE /\ store' = [exists |-> TRUE, data |-> <<>>]
          /\ call' = [call EXCEPT ![c].at = "dumping"]
  /\ UNCHANGED <<symbols, csv, used, evidence, answers, second, kills, changes, disturbed>>

\* _dump_bin of one staged file.
DumpSymbol(c) ==
  /\ call[c].at = "dumping"
  /\ \E sym \in DOMAIN csv \ DOMAIN store.data :
       store' = [store EXCEPT !.data = With(@, sym, csv[sym])]
  /\ UNCHANGED <<symbols, csv, used, call, evidence, answers, second, kills, changes, disturbed>>

\* (mutant) the pool of dumpers is not waited for.
DumpDoneEarly(c) ==
  /\ call[c].at = "dumping"
  /\ call' = [call EXCEPT ![c].at = "reading"]
  /\ UNCHANGED <<symbols, csv, store, used, evidence, answers, second, kills, changes, disturbed>>

DumpDone(c) ==
  /\ call[c].at = "dumping" /\ DOMAIN csv \subseteq DOMAIN store.data
  /\ call' = [call EXCEPT ![c].at = "reading"]
  /\ UNCHANGED <<symbols, csv, store, used, evidence, answers, second, kills, changes, disturbed>>

\* load_panel: an instrument with no data is left out.
Covered(c) ==
  \A i \in DOMAIN call[c].symbols :
    /\ call[c].symbols[i] \in DOMAIN store.data
    /\ store.data[call[c].symbols[i]] = "whole"

ReadPanel(c) ==
  /\ call[c].at = "reading"
  /\ call' = [call EXCEPT ![c] = [at |-> "replaying", dir |-> @.dir, covered |-> Covered(c)]]
  /\ UNCHANGED <<symbols, csv, store, used, evidence, answers, second, kills, changes, disturbed>>

\* main writes the evidence whatever the corporate-action gate says, and
\* returns 2 when it fails: _run_module raises, the call has no answer.
WriteEvidence(c) ==
  /\ call[c].at = "replaying"
  /\ \E gate \in {"PASS", "UNSUPPORTED"} :
       /\ evidence' = With(evidence, call[c].dir,
                           [of |-> c, gate |-> gate, covered |-> call[c].covered])
       /\ IF gate = "PASS" THEN call' = [call EXCEPT ![c] = [at |-> "returning", dir |-> @.dir]]
          ELSE End(c)
  /\ UNCHANGED <<symbols, csv, store, used, answers, second, kills, changes, disturbed>>

\* The call reads the evidence of its directory.
Answer(c) ==
  /\ call[c].at = "returning"
  /\ LET e == evidence[call[c].dir]
     IN  answers' = answers \cup {[by |-> c, of |-> e.of, gate |-> e.gate,
                                   covered |-> e.covered]}
  /\ End(c)
  /\ UNCHANGED <<symbols, csv, store, used, evidence, second, kills, changes, disturbed>>
-----------------------------------------------------------------------------
\* The timeout of 1200 s kills the sidecar where it is.
Kill(c) ==
  /\ kills < MaxKills /\ call[c].at \in InSidecar
  /\ kills' = kills + 1
  /\ disturbed' = TRUE
  /\ End(c)
  /\ UNCHANGED <<symbols, csv, store, used, evidence, answers, second, changes>>

\* The host fetches the universe anew; the store stays.
ChangeUniverse ==
  /\ changes < MaxChanges
  /\ changes' = changes + 1
  /\ symbols' = Append(symbols, Newcomer)
  /\ disturbed' = TRUE
  /\ UNCHANGED <<csv, store, used, call, evidence, answers, second, kills>>

Tick ==
  /\ second < MaxSeconds
  /\ second' = second + 1
  /\ UNCHANGED <<symbols, csv, store, used, call, evidence, answers, kills, changes, disturbed>>

Next ==
  \/ \E c \in Call :
       \/ CheckRound(c) \/ RefuseSpec(c) \/ StartEvaluation(c) \/ StageSymbol(c) \/ FillCsv(c) \/ BuildStore(c)
       \/ DumpSymbol(c) \/ DumpDone(c) \/ ReadPanel(c) \/ WriteEvidence(c) \/ Answer(c) \/ Kill(c)
  \/ ChangeUniverse \/ Tick

Spec == Init /\ [][Next]_vars
-----------------------------------------------------------------------------
\* An answer is the evaluation of its own call and passed the gate, unless
\* another call took its name in its second (toolset.py:266).
AnswerIsOwn ==
  \A a \in answers :
    (\A d \in Call \ {a.by} : call[d].dir # call[a.by].dir) => a.of = a.by /\ a.gate = "PASS"

\* eval_sidecar.py:295 states universe_size: an answer covers it, unless a
\* kill, an overlap or a change of the universe met the shared data.
EvidenceIsWhole == ~disturbed => \A a \in answers : a.covered
-----------------------------------------------------------------------------
\* Refuted: a store that a killed or running sidecar left is taken as it is.
PanelIsUniverse == \A a \in answers : a.covered

\* toolset.py:246, "one evaluation per round".  Refuted: two threads pass the
\* check before either counts.
OnePerRound == \A t \in DOMAIN used : used[t] <= 1
=============================================================================
