---------------------------- MODULE CandidateRank ----------------------------
(***************************************************************************)
(* candidates_sidecar.py, the ranking of the candidate pool: who is looked *)
(* at in depth, who is eligible, percentiles among peers, four blocks      *)
(* renormalised over what is known, the tier, and the sector-capped pool.  *)
(* Between two builds the figures of one symbol change; a build computes   *)
(* everything else from the figures.                                       *)
(*                                                                         *)
(* Figures are small numbers, None when absent; fractions and percentiles  *)
(* are in twelfths, which is exact for at most four symbols, and scores    *)
(* are in tenths, as the code rounds them.                                 *)
(***************************************************************************)
EXTENDS Integers, FiniteSets, SequencesExt

CONSTANTS
  Symbol,      \* numbers; ties are broken by them
  Industry,    \* the industry of each symbol, Unknown for some
  Financial,   \* the industries with the financial sector model
  Unknown,
  Figures,     \* the sets of figures a symbol may have
  DeepMax,     \* deep_max_symbols
  Legacy,      \* looked at in depth whatever the cut
  MinPeers, SectorCap, Board, PoolMax,
  TierA, TierB, TierC  \* in tenths

None == -1
Twelfths == 0 .. 12

RankAssumption ==
  /\ Symbol \subseteq Nat /\ Cardinality(Symbol) \in 1 .. 4 /\ Legacy \subseteq Symbol
  \* pe and pb of 0 stand for any that is not positive; turnover, rows and
  \* timing are fractions, and a turnover of None is below the minimum.
  /\ \A f \in Figures :
       /\ {f.pe, f.pb, f.roe, f.debt} \subseteq Nat \cup {None}
       /\ {f.own, f.dividend, f.cfo, f.growth, f.turnover, f.rows} \subseteq Twelfths \cup {None}
       /\ f.timing \in Twelfths /\ {f.cfo_low, f.stale, f.fresh} \subseteq BOOLEAN

VARIABLES figures, snapshot  \* snapshot: [deep, score, tier, pool] of the latest build

vars == <<figures, snapshot>>
-----------------------------------------------------------------------------
Sum(f) == FoldFunction(LAMBDA a, b : a + b, 0, f)
Positive(v) == IF v > 0 THEN v ELSE None
Reversed(p) == IF p = None THEN None ELSE 12 - p

\* percentile_map among `peers`: ties share the average of their ranks, a
\* single value sits in the middle.
Percentile(x, value, peers) ==
  LET valued == {y \in peers : value[y] # None}
      below == Cardinality({y \in valued : value[y] < value[x]})
      level == Cardinality({y \in valued : value[y] = value[x]})
  IN IF value[x] = None THEN None
     ELSE IF valued = {x} THEN 6
     ELSE (12 * below + 6 * (level - 1)) \div (Cardinality(valued) - 1)

\* group_percentiles: within the group when it has enough valid values,
\* within the whole pool otherwise.
GroupPercentile(x, value, group, pool) ==
  LET peers == {y \in pool : group[y] = group[x] /\ value[y] # None} IN
    Percentile(x, value, IF group[x] # Unknown /\ Cardinality(peers) >= MinPeers THEN peers ELSE pool)

Ahead(score, x, y) == score[x] > score[y] \/ (score[x] = score[y] /\ x < y)
-----------------------------------------------------------------------------
\* The snapshot stage: enough turnover.  preselect_deep: a proxy of value and
\* liquidity bounds the expensive part.
Deep(F) ==
  LET survivors == {x \in Symbol : F[x].turnover # None}
      pe == [y \in Symbol |-> Positive(F[y].pe)]
      pb == [y \in Symbol |-> Positive(F[y].pb)]
      Cheap(x, value, weight) ==
        LET p == Percentile(x, value, survivors) IN IF p = None THEN 0 ELSE weight * (12 - p)
      proxy == [x \in survivors |-> Cheap(x, pe, 15) + Cheap(x, pb, 10)
                                    + (IF F[x].dividend > 0 THEN 5 * F[x].dividend ELSE 0) + 10 * F[x].turnover]
  IN {x \in survivors : x \in Legacy \/ Cardinality({y \in survivors : Ahead(proxy, y, x)}) < DeepMax}

\* evaluate_eligibility: turnover, history, no loss, fresh financials.
Eligible(f) == f.turnover # None /\ f.rows # None /\ f.pe # 0 /\ f.fresh
-----------------------------------------------------------------------------
\* A component: its weight, and the fraction of it achieved or None.
Part(weight, fraction) == [weight |-> weight, fraction |-> fraction]

\* score_value: cheap is good, what is not positive is missing.
ScoreValue(x, F, pool) ==
  << Part(15, Reversed(GroupPercentile(x, [y \in pool |-> Positive(F[y].pe)], Industry, pool))),
     Part(10, Reversed(GroupPercentile(x, [y \in pool |-> Positive(F[y].pb)], Industry, pool))),
     Part(10, Reversed(F[x].own)),
     Part(5, Positive(F[x].dividend)) >>

\* The return on equity is compared among the financials, or within the
\* industry; the names of no industry make a group of their own here.
RoeGroup == [y \in Symbol |-> IF Industry[y] \in Financial THEN "FIN" ELSE IF Industry[y] = Unknown THEN "POOL" ELSE Industry[y]]

Debt(x, F, pool) == GroupPercentile(x, [y \in pool |-> F[y].debt], Industry, pool)

\* (mutant) leverage is rewarded.
ScoreQualityLevered(x, F, pool) ==
  LET roe == Part(10, GroupPercentile(x, [y \in pool |-> F[y].roe], RoeGroup, pool)) IN
    IF Industry[x] \in Financial THEN <<roe, Part(10, F[x].growth)>>
    ELSE <<roe, Part(10, F[x].cfo), Part(5, Debt(x, F, pool)), Part(10, F[x].growth)>>

\* score_quality: a financial company has no cash-flow and leverage parts.
ScoreQuality(x, F, pool) ==
  LET roe == Part(10, GroupPercentile(x, [y \in pool |-> F[y].roe], RoeGroup, pool)) IN
    IF Industry[x] \in Financial THEN <<roe, Part(10, F[x].growth)>>
    ELSE <<roe, Part(10, F[x].cfo), Part(5, Reversed(Debt(x, F, pool))), Part(10, F[x].growth)>>

ScoreTradeability(x, F) == <<Part(10, F[x].turnover), Part(5, F[x].rows)>>
ScoreTiming(x, F) == <<Part(1, F[x].timing)>>

\* normalize_block: a block is judged by its known components.
Available(parts) == {i \in DOMAIN parts : parts[i].fraction # None}
Weight(parts) == Sum([i \in Available(parts) |-> parts[i].weight])
Got(parts) == Sum([i \in Available(parts) |-> parts[i].weight * parts[i].fraction])

\* The rounded sum of value 40, quality 35, tradeability 15 and timing 10: the
\* blocks over one denominator, each in twelfths, in tenths of a point.
Composite(x, F, pool) ==
  LET block == <<ScoreValue(x, F, pool), ScoreQuality(x, F, pool), ScoreTradeability(x, F), ScoreTiming(x, F)>>
      points == <<40, 35, 15, 10>>
      over == [i \in 1 .. 4 |-> IF Available(block[i]) = {} THEN 1 ELSE Weight(block[i])]
      whole == over[1] * over[2] * over[3] * over[4]
      sum == Sum([i \in 1 .. 4 |-> points[i] * Got(block[i]) * (whole \div over[i])])
  IN (10 * sum + 6 * whole) \div (12 * whole)

\* build_red_flags and the flags of the quality block: those that keep a name
\* out of tier A, whatever its score.
Critical(x, F, pool) == F[x].stale \/ (Industry[x] \notin Financial /\ (F[x].cfo_low \/ Debt(x, F, pool) >= 11))

\* compute_tier: A is 3, DROP is 0.
Tier(composite, critical) ==
  IF composite >= TierA /\ ~ critical THEN 3 ELSE IF composite >= TierB THEN 2 ELSE IF composite >= TierC THEN 1 ELSE 0
-----------------------------------------------------------------------------
OfIndustry(pool, i) == Cardinality({k \in DOMAIN pool : Industry[pool[k]] = i})

\* The industry of x has its share of the board.
Capped(pool, x) == Industry[x] # Unknown /\ Len(pool) < Board /\ OfIndustry(pool, Industry[x]) >= SectorCap

\* select_pool: down the ranking, once; a name passed over is not looked at
\* again.
SelectPool(ranked) ==
  LET take[i \in 0 .. Len(ranked)] ==
        IF i = 0 THEN << >>
        ELSE IF Len(take[i - 1]) >= PoolMax \/ Capped(take[i - 1], ranked[i]) THEN take[i - 1]
        ELSE Append(take[i - 1], ranked[i])
  IN take[Len(ranked)]

BuildSnapshot(F) ==
  LET deep == Deep(F)
      scored == {x \in deep : Eligible(F[x])}
      score == [x \in scored |-> Composite(x, F, scored)]
  IN [deep |-> deep, score |-> score,
      tier |-> [x \in scored |-> Tier(score[x], Critical(x, F, scored))],
      pool |-> SelectPool(SetToSortSeq(scored, LAMBDA x, y : Ahead(score, x, y)))]

Init == figures \in [Symbol -> Figures] /\ snapshot = BuildSnapshot(figures)

\* One symbol is quoted, reports or is fetched anew, and the next build runs.
Build ==
  \E x \in Symbol : \E f \in Figures \ {figures[x]} :
    /\ figures' = [figures EXCEPT ![x] = f]
    /\ snapshot' = BuildSnapshot(figures')

Next == Build
Spec == Init /\ [][Next]_vars
-----------------------------------------------------------------------------
Scored == DOMAIN snapshot.score
Pooled == ToSet(snapshot.pool)

\* The board has at most SectorCap names of an industry; and a name stays out
\* only behind a full pool of better names, or because the better names of
\* its own industry had filled the share of their industry.
PoolHolds ==
  LET pool == snapshot.pool
      Better(x) == SelectSeq(pool, LAMBDA y : Ahead(snapshot.score, y, x))
  IN /\ \A i \in {Industry[x] : x \in Symbol} \ {Unknown} :
          OfIndustry(SubSeq(pool, 1, IF Len(pool) < Board THEN Len(pool) ELSE Board), i) <= SectorCap
     /\ \A x \in Scored \ Pooled :
          \/ Len(Better(x)) = PoolMax
          \/ Industry[x] # Unknown /\ OfIndustry(Better(x), Industry[x]) >= SectorCap

\* g is nowhere worse than f, and no figure appeared or went away.
NoWorse(f, g) ==
  LET Rising(v, w) == (v = None) = (w = None) /\ v <= w
      Falling(v, w) == Rising(w, v) /\ (v = 0) = (w = 0)
  IN /\ Falling(f.pe, g.pe) /\ Falling(f.pb, g.pb) /\ Rising(g.own, f.own) /\ Rising(g.debt, f.debt)
     /\ Falling(g.dividend, f.dividend)
     /\ Rising(f.roe, g.roe) /\ Rising(f.cfo, g.cfo) /\ Rising(f.growth, g.growth)
     /\ Rising(f.turnover, g.turnover) /\ Rising(f.rows, g.rows) /\ f.timing <= g.timing
     /\ (g.cfo_low => f.cfo_low) /\ (g.stale => f.stale) /\ (f.fresh => g.fresh)

\* A symbol whose figures got better, every known one of them, does not fall
\* in score or tier, as long as the cut of the deep set stays where it is.
BetterNeverLower ==
  [][\A x \in {x \in Symbol : figures'[x] # figures[x]} \cap Scored :
       NoWorse(figures[x], figures'[x]) /\ snapshot'.deep = snapshot.deep
         => x \in Scored' /\ snapshot'.score[x] >= snapshot.score[x] /\ snapshot'.tier[x] >= snapshot.tier[x]]_vars

\* The same without that condition (does not hold: a cheaper quote may swap
\* the other names of the deep set, and with them the peers).
BetterNeverLowerAnyCut ==
  [][\A x \in Scored :
       NoWorse(figures[x], figures'[x]) /\ figures'[x] # figures[x]
         => x \in Scored' /\ snapshot'.score[x] >= snapshot.score[x]]_vars

\* A first dividend does not cost a symbol points (does not hold: none at all
\* is missing and renormalised away, a small one is scored).
DividendNeverHurts ==
  [][\A x \in Scored :
       /\ figures[x].dividend = 0 /\ figures'[x] = [figures[x] EXCEPT !.dividend = figures'[x].dividend]
       /\ figures'[x] # figures[x] /\ snapshot'.deep = snapshot.deep
       => snapshot'.score[x] >= snapshot.score[x]]_vars

\* No name is passed over for a worse one of its own industry (does not hold:
\* the cap ends with the board, and a name passed over is not seen again).
NoInversion ==
  \A x \in Scored \ Pooled : \A y \in Pooled : Industry[x] = Industry[y] => Ahead(snapshot.score, y, x)
=============================================================================
