--------------------------- MODULE AnalysisReport ---------------------------
(***************************************************************************)
(* What a run analysis reads and what its report says (web/analysis.py,    *)
(* web/analysis_store.py): the worker loads the facts of the subject once, *)
(* exports them, lets the analysing agent read them in chunks, and builds  *)
(* analysis.md out of the agent's Markdown and a section of its own, while *)
(* the subject may go on.  Who may start a worker and what becomes of the  *)
(* file is RunAnalysis.                                                    *)
(***************************************************************************)
EXTENDS Integers, FiniteSets, SequencesExt

CONSTANTS
  Required,    \* the headings the agent must write, in order
  Host,        \* the heading of the section the worker writes, after the first
  Line,        \* lines an agent writes: a text, indented by four or more or not
  Size, Limit, \* length of a projection, and of the chunks asked for
  MaxLines, MaxGrowth

Heading == ToSet(Required)
Text == Heading \cup {Host, "aside", "fence", "long fence", "span", "text", "blank"}

ReportAssumption ==
  /\ Required # << >> /\ Host \notin Heading /\ Line \subseteq [text : Text, deep : BOOLEAN]
  /\ {Size, Limit} \subseteq Nat \ {0} /\ {MaxLines, MaxGrowth} \subseteq Nat

VARIABLES
  pc,
  facts,     \* how far the subject has come
  bound,     \* the load the worker made, -1 for none
  exported,  \* the load projection.md and projection.json are of
  read,      \* what the agent has read of a section
  lines,     \* its answer so far
  report     \* analysis.md

vars == <<pc, facts, bound, exported, read, lines, report>>

TypeOK ==
  /\ pc \in {"idle", "loaded", "reading", "read", "writing", "written", "failed"}
  /\ facts \in 0 .. MaxGrowth /\ bound \in -1 .. facts /\ exported \in -1 .. facts
  /\ read \in Seq((0 .. MaxGrowth) \X (1 .. Size)) /\ lines \in Seq(Line)
  /\ \A k \in DOMAIN report : report[k].by \in {"agent", "host"} /\ report[k].line \in [text : Text, deep : BOOLEAN] /\ report[k].of \in -1 .. facts

Init == pc = "idle" /\ facts = 0 /\ bound = -1 /\ exported = -1 /\ read = << >> /\ lines = << >> /\ report = << >>

Grow ==
  /\ pc \in {"idle", "loaded", "reading"} /\ facts < MaxGrowth /\ facts' = facts + 1
  /\ UNCHANGED <<pc, bound, exported, read, lines, report>>

\* _run_analysis: one load, then export_projection.
Load == pc = "idle" /\ pc' = "loaded" /\ bound' = facts /\ UNCHANGED <<facts, exported, read, lines, report>>
Export == pc = "loaded" /\ pc' = "reading" /\ exported' = bound /\ UNCHANGED <<facts, bound, read, lines, report>>

\* make_inspection_toolset: both tools are bound to the load.
InspectionFacts == bound

\* read_run_projection from where the agent has got to, while more is said to
\* follow.
Chunk(offset) == [k \in 1 .. (IF offset + Limit < Size THEN Limit ELSE Size - offset) |-> <<InspectionFacts, offset + k>>]
ReadChunk ==
  /\ pc = "reading"
  /\ LET chunk == Chunk(Len(read)) IN
       /\ read' = read \o chunk
       /\ pc' = IF Len(read) + Len(chunk) < Size THEN "reading" ELSE "read"
  /\ UNCHANGED <<facts, bound, exported, lines, report>>

\* It need not read all, or anything.
Answer == pc \in {"reading", "read"} /\ pc' = "writing" /\ read' = << >> /\ UNCHANGED <<facts, bound, exported, lines, report>>
Write ==
  /\ pc = "writing" /\ Len(lines) < MaxLines /\ \E l \in Line : lines' = Append(lines, l)
  /\ UNCHANGED <<pc, facts, bound, exported, read, report>>
-----------------------------------------------------------------------------
\* str.strip: no blank line at either end, no indent before the first.
Strip(s) ==
  LET kept == {k \in DOMAIN s : s[k].text # "blank"} IN
  IF kept = {} THEN << >>
  ELSE LET from == CHOOSE k \in kept : \A j \in kept : k <= j
           to == CHOOSE k \in kept : \A j \in kept : k >= j IN
       [k \in 1 .. to - from + 1 |-> IF k = 1 THEN [s[from] EXCEPT !.deep = FALSE] ELSE s[from + k - 1]]

FenceLength(l) ==
  IF l.deep THEN 0 ELSE CASE l.text \in {"fence", "span"} -> 3 [] l.text = "long fence" -> 4 [] l.text \notin {"fence", "span", "long fence"} -> 0
IsHeading(l) == ~l.deep /\ l.text \in Heading \cup {Host, "aside"}

\* (mutant) any fence ends a fence.
ClosesAny(l, fence) == FenceLength(l) > 0 /\ l.text # "span"
Closes(l, fence) == FenceLength(l) >= fence /\ l.text # "span"

\* One line of _extract_model_sections.  A heading that is not required ends a
\* section and starts none.
Put(acc, l) == [acc EXCEPT !.sections = [h \in Heading |-> IF h = acc.current THEN Append(@[h], l) ELSE @[h]]]
Take(acc, l) ==
  IF acc.fence > 0 THEN [Put(acc, l) EXCEPT !.fence = IF Closes(l, @) THEN 0 ELSE @]
  ELSE IF FenceLength(l) > 0 THEN [Put(acc, l) EXCEPT !.fence = FenceLength(l)]
  ELSE IF IsHeading(l)
       THEN [acc EXCEPT !.current = IF l.text \in Heading THEN l.text ELSE "",
                        !.seen = @ \cup ({l.text} \cap Heading), !.repeated = @ \/ l.text \in acc.seen]
  ELSE Put(acc, l)
Parsed(s) ==
  FoldLeft(Take, [current |-> "", fence |-> 0, seen |-> {}, repeated |-> FALSE, sections |-> [h \in Heading |-> << >>]], Strip(s))
Content(s) == [h \in Heading |-> Strip(Parsed(s).sections[h])]
Acceptable(s) == ~Parsed(s).repeated /\ \A h \in Heading : Content(s)[h] # << >>

By(who, s) == [k \in DOMAIN s |-> [by |-> who, line |-> s[k], of |-> bound]]
Plain(text) == [text |-> text, deep |-> FALSE]
\* render_observed_facts, of the load
ObservedFacts == By("host", <<Plain(Host), Plain("text")>>)
Section(s, h) == By("host", <<Plain(h)>>) \o By("agent", Content(s)[h])

\* _format_analysis_artifact
Format(s) == Section(s, Required[1]) \o ObservedFacts \o FlattenSeq([n \in 1 .. Len(Required) - 1 |-> Section(s, Required[n + 1])])

\* _write_new_analysis: all of it, or an error.
End ==
  /\ pc = "writing"
  /\ IF Acceptable(lines) THEN pc' = "written" /\ report' = Format(lines) ELSE pc' = "failed" /\ UNCHANGED report
  /\ UNCHANGED <<facts, bound, exported, read, lines>>

Next == Grow \/ Load \/ Export \/ ReadChunk \/ Answer \/ Write \/ End
Spec == Init /\ [][Next]_vars
-----------------------------------------------------------------------------
\* The headings a Markdown reader sees: those outside of fences, where a line
\* with its fence closed is none.
Visible(s) ==
  FoldLeft(LAMBDA acc, k :
             IF acc.fence > 0 THEN [acc EXCEPT !.fence = IF FenceLength(s[k]) >= @ /\ s[k].text # "span" THEN 0 ELSE @]
             ELSE IF FenceLength(s[k]) > 0 /\ s[k].text # "span" THEN [acc EXCEPT !.fence = FenceLength(s[k])]
             ELSE IF IsHeading(s[k]) THEN [acc EXCEPT !.at = Append(@, k)] ELSE acc,
           [fence |-> 0, at |-> << >>], [k \in DOMAIN s |-> k]).at
ReportLines == [k \in DOMAIN report |-> report[k].line]
Seen == [n \in DOMAIN Visible(ReportLines) |-> report[Visible(ReportLines)[n]]]

\* No line whose fence is closed in it, no section that starts indented, and
\* no fence left open but in the section that comes last in the report.
Ordinary ==
  /\ Parsed(lines).fence = 0 \/ Parsed(lines).current = Required[Len(Required)]
  /\ \A k \in DOMAIN lines : lines[k].text # "span"
  /\ \A k \in DOMAIN lines : lines[k].deep => k > 1 /\ ~lines[k - 1].deep /\ lines[k - 1].text \notin Heading \cup {"blank"}

\* A reader of the report finds the required sections and the section of the
\* host, once each, in order, and no other.
SectionsAreSeen ==
  pc = "written" /\ Ordinary =>
    /\ [n \in DOMAIN Seen |-> Seen[n].line.text] = <<Required[1], Host>> \o Tail(Required)
    /\ \A n \in DOMAIN Seen : Seen[n].by = "host"

\* An analysis is refused only when a reader of the answer would miss a required
\* section, find one twice, or find one empty.
RefusedForCause ==
  pc = "failed" /\ Ordinary =>
    LET s == Strip(lines) at == Visible(s)
        OfHeading(h) == {n \in DOMAIN at : s[at[n]].text = h} IN
    \E h \in Heading :
      \/ Cardinality(OfHeading(h)) # 1
      \/ \E n \in OfHeading(h) : at[n] = Len(s) \/ (n < Len(at) /\ at[n + 1] = at[n] + 1)

\* What was exported, what the agent read to the end and what the host reports
\* are of one load, however far the subject has come since.
OneLoad ==
  /\ exported \in {-1, bound}
  /\ pc = "read" => read = [k \in 1 .. Size |-> <<exported, k>>]
  /\ \A k \in DOMAIN report : report[k].of = exported
-----------------------------------------------------------------------------
\* Stronger readings; each is refuted.

\* The host owns its section whatever the agent writes (analysis.py:65).
HostSectionIsSeen ==
  pc = "written" => Cardinality({n \in DOMAIN Seen : Seen[n].line.text = Host}) = 1 /\ \A n \in DOMAIN Seen : Seen[n].by = "host"

\* An answer with all its sections is accepted.
WholeIsAccepted ==
  pc = "failed" => LET s == Strip(lines) at == Visible(s) IN
    [n \in DOMAIN at |-> s[at[n]].text] # Required \/ \E n \in DOMAIN at : at[n] = Len(s) \/ (n < Len(at) /\ at[n + 1] = at[n] + 1)
=============================================================================
