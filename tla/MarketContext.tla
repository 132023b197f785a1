---------------------------- MODULE MarketContext ----------------------------
(***************************************************************************)
(* The evidence about the whole market (market_context.py, and the tool    *)
(* get_market_context).  The feeds are asked one after the other; a feed   *)
(* that fails answers an empty table, a cell may be missing, and each      *)
(* layer has its fallbacks.  What no feed shows is listed as missing.      *)
(***************************************************************************)
EXTENDS Integers, Sequences, FiniteSets
LOCAL INSTANCE SequencesExt
LOCAL INSTANCE TLC

CONSTANTS
  Tables,     \* what each feed may answer: sets of sequences of rows
  Target,     \* the indices of _INDEX_TARGETS
  Asia,       \* the indices of _ASIA_TARGETS
  Required,   \* those of them an answer needs
  Null,       \* a cell that is missing, or no number
  PerSide,    \* MAX_SECTORS_PER_SIDE
  Limit       \* news items asked for

VARIABLES
  pc,
  told,       \* what each feed asked so far has answered
  indices, breadth, turnover, sectors, energy, rate, dollar, asia, news,
  missing

vars == <<pc, told, indices, breadth, turnover, sectors, energy, rate, dollar, asia, news, missing>>
layers == <<indices, breadth, turnover, sectors, energy, rate, dollar, asia, news>>

Feed == {"index", "spot", "activity", "sectors", "sectors ths", "world", "futures", "rates", "boc", "asia", "news", "news cls"}
Layer == {"indices", "breadth", "turnover", "sectors", "energy", "rates", "dollar", "asia", "news"}
Count == {"up", "down", "flat"}
Oil == {"brent", "wti"}
Cell == Int \cup {Null}
\* A quote of one index, or none.
IsQuote(q) == q = <<>> \/ (Len(q) = 1 /\ q[1] \in Cell)

Row(f) ==
  CASE f = "index" -> [label : SUBSET Target, is : Target, exchange : {"SSE", "SZSE", "none"}, level : Cell, amount : Cell]
    [] f = "spot" -> [change : Cell, amount : Cell]
    [] f = "activity" -> [item : Count, value : Cell, nan : BOOLEAN]
    [] f \in {"sectors", "sectors ths"} -> [name : Nat, change : Cell]
    [] f \in {"world", "asia"} -> [label : SUBSET (Asia \cup {"dollar"}), level : Cell]
    [] f = "futures" -> [kind : Oil \cup {"crude"}, score : Nat, volume : Nat, level : Cell]
    [] f \in {"rates", "boc"} -> [value : Cell]
    [] OTHER -> [title : Nat \cup {Null}]

ContextAssumption ==
  /\ DOMAIN Tables = Feed /\ Required \subseteq Asia /\ PerSide \in Nat \ {0} /\ Limit \in Nat \ {0}
  /\ \A f \in Feed : \A table \in Tables[f] : \A i \in DOMAIN table : table[i] \in Row(f)

Phase == {"index", "spot", "activity", "sectors", "sectors ths", "futures", "rates", "world", "boc", "asia", "news", "news cls", "packet", "raised", "unavailable"}
TypeOK ==
  /\ pc \in Phase /\ \A f \in Feed : told[f] \in Tables[f] \cup {<<>>}
  /\ \A q \in indices : q.target \in Target /\ q.level \in Cell
  /\ DOMAIN breadth = Count /\ \A c \in Count : breadth[c] \in Cell
  /\ turnover \in Cell /\ rate \in Cell /\ IsQuote(dollar)
  /\ \A e \in Oil \cup {"crude"} : IsQuote(energy[e])
  /\ \A x \in Asia : IsQuote(asia[x])
  /\ Len(news) <= Limit /\ \A m \in missing : m[1] \in Layer

Blank ==
  /\ indices = {} /\ breadth = [c \in Count |-> Null] /\ turnover = Null
  /\ sectors = [leaders |-> <<>>, laggards |-> <<>>, count |-> 0]
  /\ energy = [e \in Oil \cup {"crude"} |-> <<>>] /\ rate = Null /\ dollar = <<>> /\ asia = [x \in Asia |-> <<>>] /\ news = <<>>
Init == pc = "index" /\ told = [f \in Feed |-> <<>>] /\ Blank /\ missing = {}

\* _call and _records: a feed that fails, or is not there, has no rows.
Ask(f) == pc = f /\ \E table \in Tables[f] \cup {<<>>} : told' = [told EXCEPT ![f] = table]
Miss(what) == missing' = missing \cup what
All(layer) == <<layer, "all">>
Observed(cells) == SelectSeq(cells, LAMBDA c : c # Null)
FirstOf(cells) == LET seen == Observed(cells) IN IF seen = <<>> THEN Null ELSE seen[1]
LastOf(cells) == LET seen == Observed(cells) IN IF seen = <<>> THEN Null ELSE seen[Len(seen)]
UpTo(n, rows) == SubSeq(rows, 1, IF Len(rows) < n THEN Len(rows) ELSE n)
Total(cells) == FoldSeq(+, 0, cells)

\* The import of akshare fails: the packet names every layer.
NoAkshare ==
  /\ pc = "index" /\ pc' = "packet" /\ Miss({All(layer) : layer \in Layer})
  /\ UNCHANGED <<told, layers>>

\* get_market_context: a sidecar that hangs, dies or prints nothing leaves an
\* answer without any layer.
Fail == pc \notin {"packet", "unavailable"} /\ pc' = "unavailable" /\ UNCHANGED <<told, layers, missing>>
-----------------------------------------------------------------------------
\* _collect_a_share_indices: for an index, the first row whose label matches.
Labelled(rows, x) == SelectSeq(rows, LAMBDA row : x \in row.label)
Indices ==
  /\ Ask("index") /\ pc' = "spot"
  /\ LET rows == told'["index"]
         found == {x \in Target : Labelled(rows, x) # <<>>}
     IN /\ indices' = {[target |-> x, is |-> Labelled(rows, x)[1].is, level |-> Labelled(rows, x)[1].level] : x \in found}
        /\ Miss(IF rows = <<>> THEN {All("indices")} ELSE {<<"indices", x>> : x \in Target \ found})
  /\ UNCHANGED <<breadth, turnover, sectors, energy, rate, dollar, asia, news>>

\* _index_turnover_sum: the amount of one row of an exchange.
AmountOf(exchange) ==
  LET rows == SelectSeq(told["index"], LAMBDA row : row.exchange = exchange)
  IN FirstOf([i \in DOMAIN rows |-> rows[i].amount])
\* (mutant) what is known of one exchange is taken for the total.
IndexTurnoverPartial == IF AmountOf("SSE") = Null THEN AmountOf("SZSE") ELSE IF AmountOf("SZSE") = Null THEN AmountOf("SSE") ELSE AmountOf("SSE") + AmountOf("SZSE")
IndexTurnover == IF Null \in {AmountOf("SSE"), AmountOf("SZSE")} THEN Null ELSE AmountOf("SSE") + AmountOf("SZSE")

\* _collect_breadth_and_turnover with the spot feed; the activity feed is
\* asked for a breadth it does not show.
Spot ==
  /\ Ask("spot")
  /\ LET rows == told'["spot"]
         changes == Observed([i \in DOMAIN rows |-> rows[i].change])
         amounts == Observed([i \in DOMAIN rows |-> rows[i].amount])
         Rows(Sign(_)) == Len(SelectSeq(changes, Sign))
     IN /\ turnover' = IF amounts # <<>> THEN Total(amounts) ELSE IndexTurnover
        /\ Miss(IF turnover' = Null THEN {All("turnover")} ELSE {})
        /\ IF changes = <<>>
             THEN pc' = "activity" /\ UNCHANGED breadth
             ELSE /\ pc' = "sectors"
                  /\ breadth' = [c \in Count |-> CASE c = "up" -> Rows(LAMBDA x : x > 0) [] c = "down" -> Rows(LAMBDA x : x < 0) [] OTHER -> Rows(LAMBDA x : x = 0)]
  /\ UNCHANGED <<indices, sectors, energy, rate, dollar, asia, news>>

\* A value that is NaN ends the sidecar: int() refuses it (_to_int).
Activity ==
  /\ Ask("activity")
  /\ LET rows == told'["activity"]
         Told(c) == SelectSeq(rows, LAMBDA row : row.item = c /\ (row.nan \/ row.value # Null))
     IN IF \E c \in Count : Told(c) # <<>> /\ Told(c)[1].nan
          THEN pc' = "raised" /\ UNCHANGED <<breadth, missing>>
          ELSE /\ pc' = "sectors"
               /\ breadth' = [c \in Count |-> IF Told(c) = <<>> THEN Null ELSE Told(c)[1].value]
               /\ Miss(IF Null \in {breadth'["up"], breadth'["down"]} THEN {All("breadth")} ELSE {})
  /\ UNCHANGED <<indices, turnover, sectors, energy, rate, dollar, asia, news>>

\* _collect_sectors: the second feed is asked when the first shows none.
Known(rows) == SelectSeq(rows, LAMBDA row : row.change # Null)
Falling(rows) == SortSeq(rows, LAMBDA x, y : x.change > y.change)
Sectors(f, next) ==
  /\ Ask(f)
  /\ LET known == Falling(Known(told'[f])) IN
       IF known # <<>>
         THEN /\ pc' = "world" /\ UNCHANGED missing
              /\ sectors' = [leaders |-> UpTo(PerSide, known), count |-> Len(known),
                             laggards |-> UpTo(PerSide, Reverse(known))]
         ELSE /\ pc' = next /\ UNCHANGED sectors
              /\ Miss(IF next = "world" THEN {All("sectors")} ELSE {})
  /\ UNCHANGED <<indices, breadth, turnover, energy, rate, dollar, asia, news>>
-----------------------------------------------------------------------------
\* The dollar index and the Asian indices of one table; _global_index_row
\* takes the first row of a matching label, with or without a level.
QuoteOf(rows, x) == IF Labelled(rows, x) = <<>> THEN <<>> ELSE <<Labelled(rows, x)[1].level>>
World ==
  /\ Ask("world")
  /\ dollar' = QuoteOf(told'["world"], "dollar") /\ asia' = [x \in Asia |-> QuoteOf(told'["world"], x)]
  /\ pc' = "futures"
  /\ UNCHANGED <<indices, breadth, turnover, sectors, energy, rate, news, missing>>

\* _pick_oil: of the rows with a price the one that fits the name best, and of
\* these the one traded most.
Picked(rows, kind) ==
  LET of == SelectSeq(rows, LAMBDA row : row.kind = kind /\ row.level # Null)
      best == CHOOSE i \in DOMAIN of : \A j \in DOMAIN of :
                \/ of[i].score > of[j].score
                \/ of[i].score = of[j].score /\ (of[i].volume > of[j].volume \/ (of[i].volume = of[j].volume /\ i <= j))
  IN IF of = <<>> THEN <<>> ELSE <<of[best].level>>
Futures ==
  /\ Ask("futures") /\ pc' = "rates"
  /\ LET rows == told'["futures"]
         oil == [e \in Oil |-> Picked(rows, e)]
         crude == SelectSeq(rows, LAMBDA row : row.kind = "crude" /\ row.level # Null)
         neither == \A e \in Oil : oil[e] = <<>>
     IN /\ energy' = [e \in Oil \cup {"crude"} |->
                        IF e \in Oil THEN oil[e] ELSE IF neither /\ crude # <<>> THEN <<crude[1].level>> ELSE <<>>]
        /\ Miss({<<"energy", e>> : e \in {x \in Oil : oil[x] = <<>>}}
                \cup (IF neither /\ crude = <<>> THEN {All("energy")} ELSE {}))
  /\ UNCHANGED <<indices, breadth, turnover, sectors, rate, dollar, asia, news>>

AfterDollar == IF \E x \in Required : asia[x] = <<>> THEN "asia" ELSE "news"

\* The yields of thirty days, or all of them; the last that is known.
Rates ==
  /\ Ask("rates") /\ pc' = IF dollar = <<>> THEN "boc" ELSE AfterDollar
  /\ rate' = LastOf([i \in DOMAIN told'["rates"] |-> told'["rates"][i].value])
  /\ Miss(IF rate' = Null THEN {All("rates")} ELSE {})
  /\ UNCHANGED <<indices, breadth, turnover, sectors, energy, dollar, asia, news>>

\* _dollar_fallback_quote: the last known rate of the dollar.
Boc ==
  /\ Ask("boc")
  /\ LET last == LastOf([i \in DOMAIN told'["boc"] |-> told'["boc"][i].value])
     IN dollar' = IF last = Null THEN <<>> ELSE <<last>>
  /\ Miss(IF dollar' = <<>> THEN {All("dollar")} ELSE {})
  /\ pc' = AfterDollar
  /\ UNCHANGED <<indices, breadth, turnover, sectors, energy, rate, asia, news>>

\* _asia_fallback_quotes: asked for all of Asia when a required index has no
\* row; a quote of the first table stands.
AsiaAgain ==
  /\ Ask("asia") /\ pc' = "news"
  /\ asia' = [x \in Asia |-> IF asia[x] # <<>> THEN asia[x] ELSE QuoteOf(told'["asia"], x)]
  /\ LET shown == {x \in Asia : asia'[x] # <<>>}
     IN Miss(IF shown = {} THEN {All("asia")} ELSE {<<"asia", x>> : x \in Required \ shown})
  /\ UNCHANGED <<indices, breadth, turnover, sectors, energy, rate, dollar, news>>
-----------------------------------------------------------------------------
Titles(rows) == SelectSeq(rows, LAMBDA row : row.title # Null)
\* _collect_news: of the first feed only the first rows are looked at, and the
\* second fills what is left.
News ==
  /\ Ask("news") /\ news' = Titles(UpTo(Limit, told'["news"]))
  /\ pc' = IF Len(news') < Limit THEN "news cls" ELSE "packet"
  /\ UNCHANGED <<indices, breadth, turnover, sectors, energy, rate, dollar, asia, missing>>

NewsCls ==
  /\ Ask("news cls") /\ pc' = "packet"
  /\ news' = UpTo(Limit, news \o Titles(told'["news cls"]))
  /\ Miss(IF news' = <<>> THEN {All("news")} ELSE {})
  /\ UNCHANGED <<indices, breadth, turnover, sectors, energy, rate, dollar, asia>>

Next ==
  \/ Indices \/ Spot \/ Activity \/ Sectors("sectors", "sectors ths") \/ Sectors("sectors ths", "world")
  \/ World \/ Futures \/ Rates \/ Boc \/ AsiaAgain \/ News \/ NewsCls \/ NoAkshare \/ Fail

Spec == Init /\ [][Next]_vars
-----------------------------------------------------------------------------
Told(layer, what) == {All(layer), <<layer, what>>} \cap missing # {}

\* A layer is shown or listed as missing, never both and never neither, along
\* whichever of its feeds it came.
AbsentIsTold ==
  pc = "packet" =>
    /\ \A x \in Target : (\E q \in indices : q.target = x) # Told("indices", x)
    /\ (Null \in {breadth["up"], breadth["down"]}) = Told("breadth", "all")
    /\ (turnover = Null) = Told("turnover", "all")
    /\ (sectors.count = 0) = Told("sectors", "all")
    /\ \A e \in Oil : (energy[e] = <<>>) = Told("energy", e)
    /\ (rate = Null) = Told("rates", "all") /\ (dollar = <<>>) = Told("dollar", "all")
    /\ \A x \in Required : (asia[x] = <<>>) = Told("asia", x)
    /\ (news = <<>>) = Told("news", "all")

\* Figures of one layer are of one feed: the counts of a breadth add up to the
\* rows one feed has counted, and the turnover is that of the spot feed or of
\* both exchanges, never of one.
OneFeedOneLayer ==
  LET spot == told["spot"]
      changes == Observed([i \in DOMAIN spot |-> spot[i].change])
      amounts == Observed([i \in DOMAIN spot |-> spot[i].amount])
      Amounts(x) == {told["index"][i].amount : i \in {j \in DOMAIN told["index"] : told["index"][j].exchange = x}} \ {Null}
  IN /\ changes # <<>> /\ breadth["up"] # Null => breadth["up"] + breadth["down"] + breadth["flat"] = Len(changes)
     /\ turnover # Null /\ amounts = <<>> => \E x \in Amounts("SSE"), y \in Amounts("SZSE") : turnover = x + y

\* No sector that is left out rises more than a leader or less than a laggard,
\* and both are of one feed.
SectorsAreExtremes ==
  \E f \in {"sectors", "sectors ths"} :
    LET rows == Known(told[f])
        Of(side) == {side[i] : i \in DOMAIN side}
        all == {rows[i] : i \in DOMAIN rows}
    IN /\ sectors.count \in {0, Len(rows)} /\ Of(sectors.leaders) \cup Of(sectors.laggards) \subseteq all
       /\ \A x \in all \ Of(sectors.leaders), y \in Of(sectors.leaders) : x.change <= y.change
       /\ \A x \in all \ Of(sectors.laggards), y \in Of(sectors.laggards) : x.change >= y.change

ContextHolds == TypeOK /\ AbsentIsTold /\ OneFeedOneLayer /\ SectorsAreExtremes

\* Refuted, see the README: a row without a level counts as shown and stops
\* the fallback, a total leaves out rows without an amount, an alias matches
\* another index, a sector is leader and laggard, a NaN ends the sidecar.
LevelShown == pc = "packet" => (\A q \in indices : q.level # Null) /\ dollar # <<Null>> /\ \A x \in Required : asia[x] # <<Null>>
TotalIsWhole == turnover # Null /\ told["spot"] # <<>> => \A i \in DOMAIN told["spot"] : told["spot"][i].amount # Null
LabelIsIndex == \A q \in indices : q.is = q.target
SidesDisjoint == {sectors.leaders[i] : i \in DOMAIN sectors.leaders} \cap {sectors.laggards[i] : i \in DOMAIN sectors.laggards} = {}
NeverRaises == pc # "raised"
=============================================================================
