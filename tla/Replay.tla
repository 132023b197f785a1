------------------------------- MODULE Replay -------------------------------
(***************************************************************************)
(* The strategy evaluation (zuaef_quant): build_intents of eval_sidecar.py *)
(* decides on the close of a day what ReplayEngine of quant_core.py        *)
(* executes at the next open, against suspensions, price limits and T+1.   *)
(* The builder never learns what the engine could not execute.             *)
(***************************************************************************)
EXTENDS Integers, FiniteSets, Sequences, SequencesExt

CONSTANTS
  Symbol,         \* numbers, in the order of the codes
  Price,          \* open prices after slippage
  Cash, LotSize, Fraction,  \* a buy may spend 1/Fraction of the cash
  MinFee, FeeRate,          \* commission: 1/FeeRate of the notional, at least MinFee
  MaxPositions,
  Splittable,     \* symbols whose adjustment factor may change
  MaxDays         \* length of the window

ReplayAssumption ==
  /\ Symbol \subseteq Nat /\ IsFiniteSet(Symbol) /\ Splittable \subseteq Symbol /\ Price # {} /\ Price \subseteq Nat \ {0}
  /\ {Cash, LotSize, Fraction, FeeRate, MaxPositions} \subseteq Nat \ {0} /\ {MinFee, MaxDays} \subseteq Nat

VARIABLES
  pc,        \* open: the queue of the day is being executed
  day, market,
  held, entering, leaving,  \* of build_intents: positions, pending_entries, sell_decided
  pending, queue,           \* of run: what the next open gets, what this one has left
  positions, cash,
  fills, blocked,
  splits,    \* the days on which a factor changed
  decided, bought, crossed, tainted  \* (history) intents, last buy, a split while held, and its sells

vars == <<pc, day, market, held, entering, leaving, pending, queue, positions, cash, fills, blocked, splits, decided, bought, crossed, tainted>>

Day == 1 .. MaxDays
Intent == [action : {"BUY", "SELL"}, symbol : Symbol, day : Day]
State == {"suspended", "limit down", "traded", "limit up"}
\* What a day brings to a symbol: its open, the signals of its close, and
\* whether its adjustment factor changed.
Bar == [state : State, price : Price, entry : BOOLEAN, exit : BOOLEAN, split : BOOLEAN]
Bars == {b \in Bar : b.state = "suspended" => ~b.entry /\ ~b.exit}
Reason == {"max_positions", "suspended_or_no_bar", "limit_up_open", "insufficient_budget", "no_position", "t_plus_1", "limit_down_open"}
NoPosition == [shares |-> 0, buy |-> 0]
Holding == {s \in Symbol : positions[s].shares > 0}

TypeOK ==
  /\ pc \in {"open", "closed"} /\ day \in 0 .. MaxDays /\ market \in [Symbol -> Bars]
  /\ held \subseteq Symbol /\ entering \subseteq Symbol /\ leaving \subseteq held
  /\ Cardinality(held \cup entering) <= MaxPositions
  /\ pending \in Seq(Intent) /\ queue \in Seq(Intent)
  /\ positions \in [Symbol -> [shares : Nat, buy : 0 .. MaxDays]] /\ cash \in Int
  /\ Cardinality(Holding) <= MaxPositions
  /\ fills \in Seq(Intent \X Day) /\ blocked \subseteq Intent \X Day \X Reason
  /\ splits \in [Symbol -> SUBSET Day]
  /\ decided \subseteq Intent /\ bought \in [Symbol -> 0 .. MaxDays]
  /\ crossed \subseteq Symbol /\ tainted \subseteq DOMAIN fills

Quiet == [state |-> "suspended", price |-> CHOOSE p \in Price : TRUE, entry |-> FALSE, exit |-> FALSE, split |-> FALSE]
Init ==
  /\ pc = "closed" /\ day = 0 /\ market = [s \in Symbol |-> Quiet]
  /\ held = {} /\ entering = {} /\ leaving = {}
  /\ pending = << >> /\ queue = << >>
  /\ positions = [s \in Symbol |-> NoPosition] /\ cash = Cash
  /\ fills = << >> /\ blocked = {} /\ decided = {} /\ bought = [s \in Symbol |-> 0]
  /\ splits = [s \in Symbol |-> {}] /\ crossed = {} /\ tainted = {}
-----------------------------------------------------------------------------
\* A new day: entries of yesterday fill for the builder unless the symbol is
\* suspended, exits of yesterday leave.
Morning ==
  /\ pc = "closed" /\ day < MaxDays
  /\ pc' = "open" /\ day' = day + 1
  /\ market' \in {m \in [Symbol -> Bars] : \A s \in Symbol \ Splittable : ~m[s].split}
  /\ splits' = [s \in Symbol |-> splits[s] \cup IF market'[s].split THEN {day'} ELSE {}]
  /\ held' = (held \cup {s \in entering : market'[s].state # "suspended"}) \ leaving
  /\ entering' = {} /\ leaving' = {}
  /\ queue' = pending /\ pending' = << >>
  /\ crossed' = crossed \cup {s \in Holding : market'[s].split}
  /\ UNCHANGED <<positions, cash, fills, blocked, decided, bought, tainted>>

Larger(a, b) == IF a > b THEN a ELSE b
Commission(notional) == Larger(notional \div FeeRate, MinFee)
Lots(budget, price) == ((budget \div price) \div LotSize) * LotSize

\* Rounded down to the lot; one lot less when the commission does not fit.
Shares(price) ==
  LET n == Lots(cash \div Fraction, price) IN
    IF n > 0 /\ n * price + Commission(n * price) > cash THEN n - LotSize ELSE n

\* Why a buy is refused, for good.
BuyBlocked(s) ==
  IF Cardinality(Holding) >= MaxPositions THEN "max_positions"
  ELSE IF market[s].state = "suspended" THEN "suspended_or_no_bar"
  ELSE IF market[s].state = "limit up" THEN "limit_up_open"
  ELSE IF Shares(market[s].price) <= 0 THEN "insufficient_budget" ELSE "filled"

SellBlocked(s) ==
  IF positions[s].shares = 0 THEN "no_position"
  ELSE IF day <= positions[s].buy THEN "t_plus_1"
  ELSE IF market[s].state = "suspended" THEN "suspended_or_no_bar"
  ELSE IF market[s].state = "limit down" THEN "limit_down_open" ELSE "filled"

\* The day of the first buy stays the day of the position.
Buy(s) ==
  LET price == market[s].price
      n == Shares(price) IN
    /\ positions' = [positions EXCEPT ![s] = [shares |-> @.shares + n, buy |-> IF @.shares = 0 THEN day ELSE @.buy]]
    /\ cash' = cash - (n * price + Commission(n * price))
    /\ bought' = [bought EXCEPT ![s] = day]
    /\ UNCHANGED <<crossed, tainted>>

\* Stamp duty is part of the fee.
Sell(s) ==
  LET notional == positions[s].shares * market[s].price IN
    /\ positions' = [positions EXCEPT ![s] = NoPosition]
    /\ cash' = cash + notional - Commission(notional)
    /\ crossed' = crossed \ {s}
    /\ tainted' = IF s \in crossed THEN tainted \cup {Len(fills) + 1} ELSE tainted
    /\ UNCHANGED bought

\* A sell that is blocked is tried again, a buy is not.
Deferred(i, why) == i.action = "SELL" /\ why # "no_position"

Execute ==
  /\ pc = "open" /\ queue # << >>
  /\ LET i == Head(queue)
         s == i.symbol
         why == IF i.action = "BUY" THEN BuyBlocked(s) ELSE SellBlocked(s) IN
       IF why = "filled"
       THEN /\ fills' = Append(fills, <<i, day>>)
            /\ IF i.action = "BUY" THEN Buy(s) ELSE Sell(s)
            /\ UNCHANGED <<pending, blocked>>
       ELSE /\ blocked' = blocked \cup {<<i, day, why>>}
            /\ pending' = IF Deferred(i, why) THEN Append(pending, i) ELSE pending
            /\ UNCHANGED <<fills, positions, cash, bought, crossed, tainted>>
  /\ queue' = Tail(queue)
  /\ UNCHANGED <<pc, day, market, held, entering, leaving, splits, decided>>

\* sorted: the symbols in the order of their codes.
Ascending(S) == [i \in 1 .. Cardinality(S) |-> CHOOSE n \in S : Cardinality({m \in S : m < n}) = i - 1]
Intents(action, symbols) ==
  [k \in 1 .. Cardinality(symbols) |-> [action |-> action, symbol |-> Ascending(symbols)[k], day |-> day]]

Exits == {s \in held : market[s].exit}
\* The first symbols that fit the free slots; an exit of today frees none.
Entries ==
  LET wanted == {s \in Symbol \ held : market[s].entry}
      free == MaxPositions - Cardinality(held) IN
    {s \in wanted : Cardinality({x \in wanted : x < s}) < free}

Tomorrow == pending \o Intents("SELL", Exits) \o Intents("BUY", Entries)

Evening ==
  /\ pc = "open" /\ queue = << >>
  /\ pc' = "closed"
  /\ leaving' = Exits /\ entering' = Entries
  /\ pending' = Tomorrow
  /\ decided' = decided \cup ToSet(Tomorrow)
  /\ UNCHANGED <<day, market, held, queue, positions, cash, fills, blocked, splits, bought, crossed, tainted>>

FillsOf(s, action) == {k \in DOMAIN fills : fills[k][1].symbol = s /\ fills[k][1].action = action}

\* (mutant) the last buy before the sell.
EntryLast(k) ==
  LET s == fills[k][1].symbol IN
    fills[CHOOSE j \in FillsOf(s, "BUY") : j < k /\ \A i \in FillsOf(s, "BUY") : i < k => i <= j][2]

\* The first buy since the sell before.
EntryOf(k) ==
  LET s == fills[k][1].symbol
      own == {j \in FillsOf(s, "BUY") : j < k /\ \A i \in FillsOf(s, "SELL") : i < k => i < j} IN
    fills[CHOOSE j \in own : \A i \in own : j <= i][2]

\* unsupported_corporate_action_trades.
Unsupported ==
  {k \in DOMAIN fills :
     /\ fills[k][1].action = "SELL"
     /\ \E d \in splits[fills[k][1].symbol] : EntryOf(k) < d /\ d <= fills[k][2]}

Next == Morning \/ Execute \/ Evening
Spec == Init /\ [][Next]_vars
-----------------------------------------------------------------------------
\* A share is never sold on the day it was bought, also when a deferred sell,
\* a re-entry and their fills meet in one open.
TPlusOne == [][\A s \in Holding : positions'[s].shares = 0 => bought[s] < day]_vars

\* A spec may spend half of the cash on a position (validate_spec_dict, toolset.py),
\* and a lot is worth the least commission.
FeesFit == Fraction >= 2 /\ \A p \in Price : LotSize * p >= MinFee
\* Holds with FeesFit: shares and commission each fit in half of the cash.
CashNeverNegative == cash >= 0

\* No intent is lost or executed twice: it waits, was filled once, or was
\* refused for good.
Accounted ==
  \A i \in decided :
    LET waiting == i \in ToSet(pending) \cup ToSet(queue)
        filled == Cardinality({k \in DOMAIN fills : fills[k][1] = i})
        refused == \E b \in blocked : b[1] = i /\ (i.action = "BUY" \/ b[3] = "no_position") IN
      /\ filled <= 1
      /\ waiting => filled = 0 /\ ~refused
      /\ ~waiting => (filled = 1 <=> ~refused)

\* The trust gate names the sells of shares that were held through a change
\* of the factor, and no other.
GateIsExact == Unsupported = tainted
=============================================================================
