----------------------------- MODULE ConsoleList -----------------------------
(***************************************************************************)
(* The list of runs: pages of readers.list_run_facts, newest first, whose  *)
(* cursor is an offset into an order that new runs keep moving, and the    *)
(* browser that puts the pages together (console-view.ts).  Runs are       *)
(* numbered as they start; a run whose only trace is a receipt that cannot *)
(* be read has no start and sorts last.                                    *)
(***************************************************************************)
EXTENDS Integers, Sequences, FiniteSets, SequencesExt

CONSTANTS
  MaxRuns,   \* bound on the runs
  Known,     \* the runs there are at the start
  Unstamped, \* the runs without a start
  Asked,     \* the runs with the status the client asks for
  PageSize,
  MaxAsks    \* bound on requests

ListAssumption ==
  /\ MaxRuns \in Nat /\ Known \in 0 .. MaxRuns /\ PageSize \in Nat \ {0} /\ MaxAsks \in Nat
  /\ Unstamped \subseteq 1 .. Known /\ Asked \subseteq 1 .. MaxRuns

VARIABLES
  started,    \* runs started
  tail,       \* the order of the runs without a start
  generation, \* listRequestGeneration
  requests,
  list, cursor, \* on screen
  base        \* the runs there were when the first page was read

vars == <<started, tail, generation, requests, list, cursor, base>>

Run == 1 .. MaxRuns
First == 0  \* the cursor of the first page, and null: no further page
Pending == [runs |-> <<>>, next |-> First, base |-> 0]

TypeOK ==
  /\ started \in Known .. MaxRuns /\ tail \in SetToSeqs(Unstamped)
  /\ generation \in 0 .. MaxAsks
  /\ \A q \in requests :
       /\ q.generation \in 1 .. generation /\ q.offset \in 0 .. MaxRuns /\ q.served \in BOOLEAN
       /\ q.answer.next \in 0 .. started /\ Len(q.answer.runs) <= PageSize
  /\ list \in Seq(Run) /\ cursor \in 0 .. started /\ base \in 0 .. started

\* The tail is the order in which a set of names is walked: it holds until
\* the set changes or the process ends.
Init ==
  /\ started = Known /\ tail \in SetToSeqs(Unstamped)
  /\ generation = 0 /\ requests = {} /\ list = <<>> /\ cursor = First /\ base = 0
-----------------------------------------------------------------------------
RunStarts ==
  /\ started < MaxRuns
  /\ started' = started + 1 /\ tail' \in SetToSeqs(Unstamped)
  /\ UNCHANGED <<generation, requests, list, cursor, base>>

\* The hashes of names are of the process; requests on their way fail.
ConsoleRestarts ==
  /\ tail' \in SetToSeqs(Unstamped) /\ requests' = {}
  /\ UNCHANGED <<started, generation, list, cursor, base>>

\* The numbers of S in ascending order.
Ascending(S) == [i \in 1 .. Cardinality(S) |-> CHOOSE n \in S : Cardinality({m \in S : m < n}) = i - 1]

\* ordered: newest first, and after them, as they are walked, the runs
\* without a start. A run is sorted by its key.
Keys == {-r : r \in (1 .. started) \ Unstamped} \cup DOMAIN tail
Ordered == LET keys == Ascending(Keys)
           IN  [i \in DOMAIN keys |-> IF keys[i] < 0 THEN -keys[i] ELSE tail[keys[i]]]

\* The positions after the offset of the runs that are asked for ...
Hits(offset) == Ascending({i \in offset + 1 .. Len(Ordered) : Ordered[i] \in Asked})

\* ... and scanned, the position the page ends at.
Scanned(hits) == IF Len(hits) < PageSize THEN Len(Ordered) ELSE hits[PageSize]

Page(offset) ==
  LET hits == Hits(offset)
      size == IF Len(hits) < PageSize THEN Len(hits) ELSE PageSize
      scanned == Scanned(hits)
  IN [runs |-> [i \in 1 .. size |-> Ordered[hits[i]]],
      next |-> IF Len(hits) >= PageSize /\ scanned < Len(Ordered) THEN scanned ELSE First,
      base |-> started]

Serve(q) ==
  /\ q \in requests /\ ~q.served
  /\ requests' = (requests \ {q}) \cup {[q EXCEPT !.served = TRUE, !.answer = Page(q.offset)]}
  /\ UNCHANGED <<started, tail, generation, list, cursor, base>>
-----------------------------------------------------------------------------
Ask(offset) ==
  /\ generation < MaxAsks
  /\ generation' = generation + 1
  /\ requests' = requests \cup
       {[generation |-> generation + 1, offset |-> offset, served |-> FALSE, answer |-> Pending]}
  /\ UNCHANGED <<started, tail, list, cursor, base>>

\* A frame, the Refresh button, the start of the console.
ReloadRuns == Ask(First)
LoadMore == cursor # First /\ Ask(cursor)

\* (mutant) an answer is taken whatever was asked since.
CurrentAny(q) == TRUE

\* What is listed already is dropped.
More(page) ==
  LET fresh == Ascending({i \in DOMAIN page : page[i] \notin ToSet(list)})
  IN  list \o [i \in DOMAIN fresh |-> page[fresh[i]]]
Current(q) == q.generation = generation

Receive(q) ==
  /\ q \in requests /\ q.served
  /\ requests' = requests \ {q}
  /\ IF Current(q)
     THEN /\ list' = IF q.offset = First THEN q.answer.runs ELSE More(q.answer.runs)
          /\ base' = IF q.offset = First THEN q.answer.base ELSE base
          /\ cursor' = q.answer.next
     ELSE UNCHANGED <<list, base, cursor>>
  /\ UNCHANGED <<started, tail, generation>>

Next ==
  \/ RunStarts \/ ConsoleRestarts \/ ReloadRuns \/ LoadMore
  \/ \E q \in requests : Serve(q) \/ Receive(q)

Spec == Init /\ [][Next]_vars
-----------------------------------------------------------------------------
\* The runs whose order is not kept: two without a start may change places
\* between two pages, and the further page then skips one of them.
Restless == IF \E p, r \in Unstamped : p # r THEN Unstamped ELSE {}

\* When there is no further page, every other run of the first page's time that
\* has the status is in the list: the runs that started since moved the offsets,
\* and no run fell between two pages.
NothingMissing ==
  cursor = First /\ base > 0 => ((1 .. base) \cap Asked) \ Restless \subseteq ToSet(list)

\* No run is listed twice, and of two runs there were when the first page was
\* read, the newer never stands below the older.
NewestFirst ==
  \A i, j \in DOMAIN list : i < j =>
    /\ list[i] # list[j]
    /\ list[j] \in (1 .. base) \ Unstamped => list[i] > list[j] /\ list[i] \notin Unstamped

\* What has started since then is not below them either, until more have
\* started than one page holds.
LateRunsStayOff == started - base <= PageSize => ToSet(list) \subseteq 1 .. base

\* (refuted) The restless ones are listed too.
EveryRunListed == cursor = First /\ base > 0 => (1 .. base) \cap Asked \subseteq ToSet(list)

\* (refuted) Then a further page appends newer runs below older ones.
NewestOnTop ==
  \A i, j \in DOMAIN list : i < j /\ list[j] \notin Unstamped => list[i] > list[j]
=============================================================================
