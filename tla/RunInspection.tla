---------------------------- MODULE RunInspection ----------------------------
(***************************************************************************)
(* The two summaries of one run: the inspection (web/inspection.py), which *)
(* the /inspect command, the console and the analysing agent read, and the *)
(* projection kept for an analysis (web/analysis_projector.py).            *)
(* Both are computed from one load of the run's facts.  Lines are counted, *)
(* not characters; one of the two token rankings stands for both, and      *)
(* usage and diagnostics among the unknown facts are left out.             *)
(***************************************************************************)
EXTENDS Integers, FiniteSets, SequencesExt

CONSTANTS
  Tool, Latency, Input,            \* names; what a completed request may show, 0 for unknown
  TopN, ChronologyLimit, ListCap,  \* rows an inspection keeps
  RankingLimit,                    \* rows of a ranking the report starts with
  Budget,                          \* lines a report may have beside its summary
  MaxRequests,                     \* requests a projection keeps
  PartCap, ExcerptBudget,          \* parts and characters of its excerpts
  Artifacts,                       \* how many files a run may have changed
  MaxRows, MaxParts                \* bounds

InspectionAssumption ==
  /\ Latency \cup Input \cup Artifacts \subseteq Nat
  /\ {TopN, ChronologyLimit, ListCap, RankingLimit, Budget, MaxRequests, PartCap, ExcerptBudget, MaxRows, MaxParts} \subseteq Nat

VARIABLES
  rows,                \* the timeline: requests and tool calls by their start
  receipt,             \* none while the run works, else its facts
  pc, scope, found,    \* the inspection: which steps, of which facts, what it kept
  limits, page,        \* rows each section may show, and the report
  excerpts             \* the excerpts of a projection, and the parts they are of

vars == <<rows, receipt, pc, scope, found, limits, page, excerpts>>

NoReceipt == [settled |-> FALSE, unresolved |-> << >>, artifacts |-> 0]
Nothing == [part |-> << >>, of |-> << >>]
Section == {"ranking", "tool", "timeline", "artifact", "unknown"}
Whole == [from |-> 0, to |-> MaxRows]

TypeOK ==
  /\ \A k \in DOMAIN rows : rows[k].kind \in {"request", "tool"} /\ rows[k].step \in 0 .. MaxRows /\ rows[k].status \in {"open", "done"}
  /\ receipt.settled \in BOOLEAN /\ receipt.artifacts \in {0} \cup Artifacts
  /\ pc \in {"working", "cutting", "done", "raised"}
  /\ DOMAIN limits = Section /\ \A s \in Section : limits[s] \in Nat
  /\ DOMAIN page \subseteq {"latency", "input", "tool", "timeline", "artifact", "incomplete", "unresolved", "started"}

\* SubSeq bounds of items[:n], and what _bounded_list leaves.
Leading(s, n) == SubSeq(s, 1, IF n < Len(s) THEN n ELSE Len(s))
Latest(s, n) == SubSeq(s, IF n < Len(s) THEN Len(s) - n + 1 ELSE 1, Len(s))
Bounded(s, n) == [shown |-> Leading(s, n), omitted |-> Len(s) - Len(Leading(s, n))]
Indices(rws, Test(_)) == SelectSeq([k \in DOMAIN rws |-> k], LAMBDA k : Test(rws[k]))

Init ==
  /\ rows = << >> /\ receipt = NoReceipt /\ pc = "working" /\ scope = << >> /\ found = << >>
  /\ limits = [s \in Section |-> 0] /\ page = << >> /\ excerpts = Nothing
-----------------------------------------------------------------------------
\* The run: a request makes a step; a call belongs to the step before it.
Step == Len(Indices(rows, LAMBDA r : r.kind = "request"))
Row(kind, tool, status) ==
  [kind |-> kind, step |-> Step + (IF kind = "request" THEN 1 ELSE 0), tool |-> tool, latency |-> 0, input |-> 0, status |-> status]

Works == pc = "working" /\ ~receipt.settled /\ UNCHANGED <<pc, scope, found, limits, page, excerpts>>
Request ==
  /\ Works /\ Len(rows) < MaxRows /\ UNCHANGED receipt
  /\ \/ \E m \in Latency, n \in Input : rows' = Append(rows, [Row("request", "", "done") EXCEPT !.latency = m, !.input = n])
     \/ rows' = Append(rows, Row("request", "", "open"))
UseTool ==
  /\ Works /\ Len(rows) < MaxRows /\ UNCHANGED receipt
  /\ \E t \in Tool, status \in {"open", "done"} : rows' = Append(rows, Row("tool", t, status))

\* The receipt names the calls left open by their own ids (here: their place
\* among the calls), the timeline by their row.
Calls(rws) == Indices(rws, LAMBDA r : r.kind = "tool")
OpenCalls(rws) == SelectSeq(Calls(rws), LAMBDA k : rws[k].status = "open")
Settle ==
  /\ Works /\ UNCHANGED rows
  /\ \E n \in Artifacts : receipt' = [settled |-> TRUE, unresolved |-> OpenCalls(rows), artifacts |-> n]
-----------------------------------------------------------------------------
\* _rank_requests by one metric: the unknown is not ranked, ties keep their order.
Value(r, metric) == IF metric = "latency" THEN r.latency ELSE r.input
Rank(rws, metric) ==
  LET v(k) == Value(rws[k], metric) IN
  SortSeq(Indices(rws, LAMBDA r : r.kind = "request" /\ Value(r, metric) > 0), LAMBDA i, j : v(i) > v(j) \/ (v(i) = v(j) /\ i < j))

\* _tool_activity: per tool, in order of first use, the lengths of its groups;
\* a request between two calls ends a group.
Grow(activity, t, joins) ==
  LET known == {n \in DOMAIN activity : activity[n].tool = t} IN
  IF known = {} THEN Append(activity, [tool |-> t, groups |-> <<1>>])
  ELSE LET n == CHOOSE n \in known : TRUE
           groups == activity[n].groups IN
       [activity EXCEPT ![n].groups = IF joins THEN [groups EXCEPT ![Len(groups)] = @ + 1] ELSE Append(groups, 1)]
Activity(rws) ==
  FoldLeft(LAMBDA acc, r :
             IF r.kind = "request" THEN [acc EXCEPT !.previous = ""]
             ELSE [activity |-> Grow(acc.activity, r.tool, acc.previous = r.tool), previous |-> r.tool],
           [activity |-> << >>, previous |-> ""], rws).activity

\* The calls of the rows, then those of the receipt whose id is not among the
\* ids seen: a row has an id of its own, so none is.
Unresolved(rws, rcpt) ==
  (IF rcpt.settled THEN [k \in DOMAIN OpenCalls(rws) |-> <<"row", OpenCalls(rws)[k]>>] ELSE << >>)
    \o [k \in DOMAIN rcpt.unresolved |-> <<"call", rcpt.unresolved[k]>>]

\* inspect_run of the rows of a scope; unreadable events leave no rows.
Inspection(rws, rcpt) ==
  [latency |-> Bounded(Rank(rws, "latency"), TopN),
   input |-> Bounded(Rank(rws, "input"), TopN),
   tool |-> Bounded(Activity(rws), ListCap),
   timeline |-> [shown |-> Latest(rws, ChronologyLimit), omitted |-> Len(rws) - Len(Latest(rws, ChronologyLimit))],
   artifact |-> Bounded([k \in 1 .. rcpt.artifacts |-> k], ListCap),
   incomplete |-> Bounded(Indices(rws, LAMBDA r : r.kind = "request" /\ r.status = "open"), ListCap),
   unresolved |-> Bounded(Unresolved(rws, rcpt), ListCap),
   started |-> Bounded(IF rcpt.settled THEN << >> ELSE OpenCalls(rws), ListCap)]

\* inspect_run_segment
InScope(s) == SelectSeq(rows, LAMBDA r : s.from <= r.step /\ r.step <= s.to)
-----------------------------------------------------------------------------
\* The report: what each section shows under the limits.
LimitOf(section) ==
  CASE section \in {"latency", "input"} -> "ranking"
    [] section \in {"incomplete", "unresolved", "started"} -> "unknown"
    [] section \in {"tool", "timeline", "artifact"} -> section
Shown(f, section, l) ==
  LET n == l[LimitOf(section)] IN IF section = "timeline" THEN Latest(f[section].shown, n) ELSE Leading(f[section].shown, n)
\* (mutant) only what the report itself cut is counted.
OmittedHere(f, section, l) == Len(f[section].shown) - Len(Shown(f, section, l))
Omitted(f, section, l) == f[section].omitted + Len(f[section].shown) - Len(Shown(f, section, l))

\* An empty section says none, whatever was cut from it; an unknown fact that
\* is cut is still counted.
Says(f, section, l) ==
  LET shown == Shown(f, section, l) omitted == Omitted(f, section, l) IN
  IF LimitOf(section) = "unknown" \/ shown # << >> THEN [shown |-> shown, omitted |-> omitted] ELSE [shown |-> << >>, omitted |-> 0]
Render(f, l) == [section \in DOMAIN f |-> Says(f, section, l)]
LinesOf(p, section) ==
  LET s == p[section] IN
  IF s.shown # << >> THEN Len(s.shown) + (IF s.omitted > 0 THEN 1 ELSE 0)
  ELSE IF LimitOf(section) # "unknown" THEN 1 ELSE IF s.omitted > 0 THEN 2 ELSE 0
Length(p) == SumFunction([section \in DOMAIN p |-> LinesOf(p, section)])

Inspect ==
  /\ pc = "working" /\ (rows # << >> \/ receipt.settled)
  /\ \E s \in {Whole} \cup [from : 0 .. Step, to : 0 .. Step], readable \in BOOLEAN :
       /\ s.from <= s.to /\ (receipt.settled \/ readable)
       /\ LET kept == Inspection(IF readable THEN InScope(s) ELSE << >>, receipt)
              l == [ranking |-> RankingLimit, tool |-> Len(kept.tool.shown), timeline |-> Len(kept.timeline.shown),
                    artifact |-> Len(kept.artifact.shown), unknown |-> ListCap] IN
            /\ scope' = [from |-> s.from, to |-> s.to, readable |-> readable]
            /\ found' = kept /\ limits' = l /\ page' = Render(kept, l)
  /\ pc' = "cutting"
  /\ UNCHANGED <<rows, receipt, excerpts>>

\* The first limit above zero is halved: the timeline goes first, what is not
\* known last.
CutOrder == <<"timeline", "ranking", "tool", "artifact", "unknown">>
NextCut(l) == LET positive == SelectSeq(CutOrder, LAMBDA s : l[s] > 0) IN IF positive = << >> THEN "" ELSE positive[1]

Cut ==
  /\ pc = "cutting" /\ Length(page) > Budget /\ NextCut(limits) # ""
  /\ limits' = [limits EXCEPT ![NextCut(limits)] = @ \div 2]
  /\ page' = Render(found, limits')
  /\ UNCHANGED <<rows, receipt, pc, scope, found, excerpts>>

End ==
  /\ pc = "cutting"
  /\ \/ Length(page) <= Budget /\ pc' = "done"
     \/ Length(page) > Budget /\ NextCut(limits) = "" /\ pc' = "raised"
  /\ UNCHANGED <<rows, receipt, scope, found, limits, page, excerpts>>

Again ==
  /\ pc \in {"done", "raised"}
  /\ pc' = "working" /\ scope' = << >> /\ found' = << >> /\ limits' = [s \in Section |-> 0] /\ page' = << >> /\ excerpts' = Nothing
  /\ UNCHANGED <<rows, receipt>>
-----------------------------------------------------------------------------
\* The projection kept for an analysis: the first requests and all the calls.
RequestMetrics(rws) == [rows |-> Leading(Indices(rws, LAMBDA r : r.kind = "request"), MaxRequests), omitted |-> 0]

\* _tool_sequence: requests between two calls do not part them.
ConsecutiveRuns(calls) ==
  SelectSeq(FoldLeft(LAMBDA acc, t : IF acc # << >> /\ acc[Len(acc)].tool = t THEN [acc EXCEPT ![Len(acc)].length = @ + 1]
                                     ELSE Append(acc, [tool |-> t, length |-> 1]),
                     << >>, calls),
            LAMBDA run : run.length >= 2)

\* _observable_excerpts over the lengths of the parts (0: blank), the marker as -1.
Marker == -1
Total(s) == FoldLeft(LAMBDA x, y : IF y = Marker THEN x ELSE x + y, 0, s)
Excerpts(parts) ==
  LET kept == FoldLeft(LAMBDA acc, p : IF p = 0 \/ Marker \in Range(acc) THEN acc
                                       ELSE IF Total(acc) + p >= ExcerptBudget THEN acc \o <<p, Marker>> ELSE Append(acc, p),
                       << >>, parts) IN Leading(kept, PartCap)

Excerpt ==
  /\ pc = "working" /\ receipt.settled /\ rows = << >>
  /\ \E n \in 0 .. MaxParts : \E parts \in [1 .. n -> 0 .. 2] : excerpts' = [part |-> Excerpts(parts), of |-> parts]
  /\ UNCHANGED <<rows, receipt, pc, scope, found, limits, page>>

Next == Request \/ UseTool \/ Settle \/ Inspect \/ Cut \/ End \/ Again \/ Excerpt
Spec == Init /\ [][Next]_vars
-----------------------------------------------------------------------------
Read == IF scope.readable THEN InScope(scope) ELSE << >>
Cutting == pc # "working"

\* A ranking never leaves out a request that is known to be larger than one it
\* shows, and what it shows and what it counts as omitted are all the known ones.
RankingsAreTop ==
  Cutting => \A section \in {"latency", "input"} :
    LET value(k) == Value(Read[k], section)
        known == {k \in DOMAIN Read : value(k) > 0}
        shown == found[section].shown IN
    /\ Range(shown) \subseteq known /\ Cardinality(Range(shown)) = Len(shown)
    /\ found[section].omitted = Cardinality(known) - Len(shown)
    /\ \A i \in DOMAIN shown : \A k \in known \ {shown[j] : j \in 1 .. i - 1} :
         value(k) < value(shown[i]) \/ (value(k) = value(shown[i]) /\ shown[i] <= k)

\* The groups of a tool are its unbroken runs, and add up to its calls.
ActivityAccounts ==
  Cutting /\ found.tool.omitted = 0 =>
    \A t \in Tool :
      LET at == {k \in DOMAIN Read : Read[k].tool = t}
          entry == {n \in DOMAIN found.tool.shown : found.tool.shown[n].tool = t} IN
      /\ (at = {}) = (entry = {})
      /\ \A n \in entry :
           /\ Total(found.tool.shown[n].groups) = Cardinality(at)
           /\ Len(found.tool.shown[n].groups) = Cardinality({k \in at : k = 1 \/ Read[k - 1].tool # t})

\* What a section shows and what it says it omits is all there is, through
\* both cuts, wherever it shows a row; unknown facts always.
CountsAddUp ==
  Cutting => \A section \in DOMAIN page :
    page[section].shown # << >> \/ LimitOf(section) = "unknown" =>
      Len(page[section].shown) + page[section].omitted = Len(found[section].shown) + found[section].omitted

\* The timeline goes first and what is not known last: an unknown fact that
\* was kept is cut only when nothing else is left to cut.
UnknownCutLast ==
  Cutting /\ (\E section \in DOMAIN page : LimitOf(section) = "unknown" /\ Len(page[section].shown) < Len(found[section].shown)) =>
    \A s \in Section \ {"unknown"} : limits[s] = 0

\* An error means that nothing was left to cut.
RaisedIsEmpty == pc = "raised" => \A section \in DOMAIN page : page[section].shown = << >>

\* A call left open in the steps inspected is named or counted, whether the
\* events or only the receipt tell of it.
OpenCallsTold ==
  Cutting => \A k \in DOMAIN Read : Read[k].kind = "tool" /\ Read[k].status = "open" =>
    page.unresolved.shown # << >> \/ page.unresolved.omitted > 0 \/ page.started.shown # << >> \/ page.started.omitted > 0

\* Excerpts are whole parts from the start, and few enough.
ExcerptsArePrefix ==
  LET shown == SelectSeq(excerpts.part, LAMBDA p : p # Marker) said == SelectSeq(excerpts.of, LAMBDA p : p > 0) IN
  /\ IsPrefix(shown, said) /\ Len(shown) <= PartCap
  /\ Total(shown) < ExcerptBudget + 2
-----------------------------------------------------------------------------
\* Stronger readings; each is refuted.

\* The omitted counts are explicit: a section is empty only when there is nothing.
EmptyMeansNone == pc = "done" => \A section \in DOMAIN page : page[section].shown = << >> /\ page[section].omitted = 0 => found[section].shown = << >>

\* A call is listed once.
CallListedOnce == Cutting => Len(found.unresolved.shown) + found.unresolved.omitted <= Len(OpenCalls(rows))

\* A segment tells only of its steps.
SegmentKeepsScope ==
  Cutting => \A n \in DOMAIN found.unresolved.shown :
    LET k == found.unresolved.shown[n][2] IN scope.from <= rows[k].step /\ rows[k].step <= scope.to

\* A projection that leaves requests out says so.
ProjectionSaysSo == LET m == RequestMetrics(rows) IN Len(m.rows) + m.omitted = Step

\* The two summaries agree on what is consecutive.
SummariesAgree ==
  Cutting /\ scope.readable =>
    LET calls == [n \in DOMAIN Calls(Read) |-> Read[Calls(Read)[n]].tool] IN
    \A n \in DOMAIN ConsecutiveRuns(calls) : \E i \in DOMAIN found.tool.shown :
      \E g \in DOMAIN found.tool.shown[i].groups :
        found.tool.shown[i].tool = ConsecutiveRuns(calls)[n].tool /\ found.tool.shown[i].groups[g] = ConsecutiveRuns(calls)[n].length

\* Excerpts that stop early are marked.
TruncationMarked == Total(excerpts.of) > Total(excerpts.part) => Marker \in Range(excerpts.part)
=============================================================================
