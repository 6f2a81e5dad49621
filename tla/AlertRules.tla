------------------------------- MODULE AlertRules -------------------------------
(***************************************************************************)
(* The conditions of alerts (src/alerts/alert_rules.py, indicators.py), the*)
(* close history technical rules look at (price_history.py), and the two   *)
(* ways in which they are evaluated: AlertEngine.evaluate looks at all     *)
(* stocks at once, a hosted evaluate_symbol job (job_processor.py) at one  *)
(* symbol and the watches that are indexed under it.                       *)
(*                                                                         *)
(* A number is an integer, or Bad for what is missing, not a number or not *)
(* finite.  The RSI is kept as an exact fraction; the code uses floats.    *)
(***************************************************************************)
EXTENDS Integers, Sequences, FiniteSets

CONSTANTS Ticker,       \* symbols
          Rule,         \* conditions of alerts
          Quote,        \* closes a snapshot may show
          History,      \* [candles, timed, bars]: what provider and store hold
          MinBars,      \* DEFAULT_PROVIDER_MIN_BARS
          MaxDates      \* newest stored dates that are read

Bad == -1

ASSUME RulesAssumption ==
  /\ MaxDates \in Nat
  /\ \A h \in History :
       /\ h.candles \in Seq([time : Nat \cup {Bad}, close : Nat \cup {Bad}])
       /\ h.timed \in BOOLEAN
       /\ h.bars \in Seq(Nat \cup {Bad})

Unchecked == [at |-> "unchecked"]

VARIABLES
  rule,      \* the condition of the alert
  history,   \* ticker -> its candles and stored closes
  snapshot,  \* ticker -> close of the snapshot; Bad when it is not in it
  fired      \* whether the file and the hosted evaluation of it fire, or
             \* Unchecked since the snapshot changed

ruleVars == <<rule, history, snapshot, fired>>
--------------------------------------------------------------------------------
(* Slips: variants of definitions below with a plausible bug in them.      *)
SlipAsListed(h, S) == {p \in S \X S : p[1] < p[2]}
SlipTypeOnly(c) == IF c.type = "rsi_threshold" THEN {c.symbol} ELSE {}
--------------------------------------------------------------------------------
Finite(x) == x # Bad

Compare(value, operator, threshold) ==
  CASE operator = "less_than" -> value < threshold
    [] operator = "less_or_equal" -> value <= threshold
    [] operator = "greater_than" -> value > threshold
    [] operator = "greater_or_equal" -> value >= threshold
    [] operator = "equal" -> value = threshold
    [] OTHER -> FALSE

(* evaluate_price_threshold *)
PriceMatches(c, close) ==
  Finite(close) /\ Finite(c.value) /\ Compare(close, c.operator, c.value)

(* evaluate_screening_match of a stock that has a close only: a volume or  *)
(* a change that it lacks counts as zero.                                  *)
ScreenMatches(c, close) ==
  /\ \A f \in DOMAIN c.filters : Finite(c.filters[f])
  /\ \A f \in DOMAIN c.filters \cap {"volume_threshold", "min_daily_change_pct"} :
       0 >= c.filters[f]
  /\ "price_min" \in DOMAIN c.filters => Finite(close) /\ close >= c.filters["price_min"]
  /\ "price_max" \in DOMAIN c.filters => Finite(close) /\ close <= c.filters["price_max"]

(* compute_rsi: Wilder's average of gains or losses, the mean of the      *)
(* first p and from then on moved by each that follows, as a fraction.     *)
Smoothed(x, p) ==
  LET average[k \in 0..Len(x)] ==
        IF k = 0 THEN <<0, p>>
        ELSE LET sum == average[k - 1][1]
                 scale == average[k - 1][2]
             IN IF k <= p THEN <<sum + x[k], p>>
                ELSE <<sum * (p - 1) + x[k] * scale, scale * p>>
  IN average[Len(x)][1]

NoRsi == <<0, 0>>

Rsi(closes, period) ==
  LET gains == [i \in 1..(Len(closes) - 1) |->
                  IF closes[i + 1] > closes[i] THEN closes[i + 1] - closes[i] ELSE 0]
      losses == [i \in 1..(Len(closes) - 1) |->
                   IF closes[i + 1] < closes[i] THEN closes[i] - closes[i + 1] ELSE 0]
      g == Smoothed(gains, period)
      l == Smoothed(losses, period)
  IN CASE Len(closes) < period + 1 -> NoRsi
       [] Len(closes) > period /\ l = 0 -> IF g > 0 THEN <<100, 1>> ELSE NoRsi
       [] OTHER -> <<100 * g, g + l>>

(* evaluate_rsi_threshold; _rsi_period refuses the others. *)
RsiMatches(c, closes) ==
  LET rsi == Rsi(closes, c.period)
  IN /\ c.period \in 2..50 /\ Finite(c.value)
     /\ rsi # NoRsi /\ Compare(rsi[1], c.operator, c.value * rsi[2])

(* evaluate_leaf_symbols: the symbols of a snapshot that a leaf matches.   *)
LeafMatches(c, shown, closes) ==
  CASE c.type = "price_threshold" -> {s \in {c.symbol} \cap DOMAIN shown : PriceMatches(c, shown[s])}
    [] c.type = "rsi_threshold" -> {s \in {c.symbol} \cap DOMAIN closes : RsiMatches(c, closes[s])}
    [] c.type = "screening_match" -> {s \in DOMAIN shown : ScreenMatches(c, shown[s])}
    [] OTHER -> {}

Leaf == {"price_threshold", "rsi_threshold", "screening_match"}

(* evaluate_compound: at most five leaves, none of them a compound. *)
CompoundMatches(c, shown, closes) ==
  LET leaves == DOMAIN c.leaves
      match == [i \in leaves |-> LeafMatches(c.leaves[i], shown, closes)]
      sound == Len(c.leaves) \in 1..5 /\ \A i \in leaves : c.leaves[i].type \in Leaf
  IN IF sound /\ (c.op = "or" \/ \A i \in leaves : match[i] # {})
     THEN UNION {match[i] : i \in leaves} ELSE {}

(* condition_watch_symbols *)
WatchSymbols(c) ==
  CASE c.type \in {"price_threshold", "rsi_threshold"} -> {c.symbol}
    [] c.type = "compound" -> {c.leaves[i].symbol : i \in {j \in DOMAIN c.leaves :
                                c.leaves[j].type \in {"price_threshold", "rsi_threshold"}}}
    [] OTHER -> {}

(* primary_watch_symbol: only a condition about one symbol is indexed. *)
Primary(c) == IF \E s \in Ticker : WatchSymbols(c) = {s} THEN WatchSymbols(c) ELSE {}

(* collect_rsi_symbols *)
RsiSymbols(c) ==
  CASE c.type = "rsi_threshold" -> {c.symbol}
    [] c.type = "compound" -> {c.leaves[i].symbol : i \in {j \in DOMAIN c.leaves :
                                c.leaves[j].type = "rsi_threshold"}}
    [] OTHER -> {}
--------------------------------------------------------------------------------
(* The members of S as R puts them one before another: the k-th has k - 1  *)
(* before it.                                                              *)
Before(S, R, x) == {y \in S : <<y, x>> \in R}

Place(S, R, k) == CHOOSE x \in S : Cardinality(Before(S, R, x)) = k - 1

InOrder(S, R) == [k \in 1..Cardinality(S) |-> Place(S, R, k)]

(* closes_from_candle_payload: what can be used, in the order of its time. *)
(* Where the payload has not one timestamp for each close (no list of them,*)
(* or one of another length) the closes are taken in the order listed.     *)
Stamp(h, i) == IF h.timed THEN h.candles[i].time ELSE i

Usable(h) == {i \in DOMAIN h.candles : Finite(Stamp(h, i)) /\ Finite(h.candles[i].close)}

ByTime(h, S) ==
  {p \in S \X S : \/ Stamp(h, p[1]) < Stamp(h, p[2])
                  \/ Stamp(h, p[1]) = Stamp(h, p[2]) /\ p[1] < p[2]}

FromCandles(h) ==
  LET order == InOrder(Usable(h), ByTime(h, Usable(h)))
  IN [k \in DOMAIN order |-> h.candles[order[k]].close]

(* load_symbol_closes_from_market_bars: the rows come newest first. *)
Reversed(S) == {p \in S \X S : p[1] > p[2]}

FromBars(bars) ==
  LET rows == {i \in DOMAIN bars : i <= MaxDates /\ Finite(bars[i])}
      order == InOrder(rows, Reversed(rows))
  IN [k \in DOMAIN order |-> bars[order[k]]]

(* load_symbol_closes: the provider's series unless it is short and the    *)
(* stored one is longer.                                                   *)
LoadCloses(h) ==
  LET provider == FromCandles(h)
      local == FromBars(h.bars)
  IN IF Len(provider) >= MinBars \/ (provider # <<>> /\ Len(provider) >= Len(local))
     THEN provider ELSE local

(* merge_latest_close: the quote replaces the last close, even if that is  *)
(* of an earlier session.                                                  *)
MergeLatest(closes, latest) ==
  CASE ~Finite(latest) -> closes
    [] Finite(latest) /\ closes = <<>> -> <<latest>>
    [] OTHER -> [closes EXCEPT ![Len(closes)] = latest]

ClosesOf(symbols) == [s \in symbols |-> MergeLatest(LoadCloses(history[s]), snapshot[s])]

Matches(c, shown, closes) ==
  IF c.type = "compound" THEN CompoundMatches(c, shown, closes) ELSE LeafMatches(c, shown, closes)

Shown(symbols) == [s \in {t \in symbols : Finite(snapshot[t])} |-> snapshot[s]]

(* AlertEngine.evaluate of the snapshot the runner loads.  Without a quote *)
(* at all there is nothing to evaluate.                                    *)
FileFires ==
  DOMAIN Shown(Ticker) # {} /\ Matches(rule, Shown(Ticker), ClosesOf(RsiSymbols(rule))) # {}

(* The leaves of a compound for which a job loads the history. *)
JobHistory(c) == RsiSymbols(c)

(* run_orchestrator_tick enqueues a job for a symbol with a price, and     *)
(* _process_evaluate_symbol evaluates the watches indexed under it.        *)
HostedFires ==
  /\ rule.type # "screening_match"
  /\ \E s \in Primary(rule) \cap DOMAIN Shown(Ticker) :
       Matches(rule, Shown({s}), ClosesOf(JobHistory(rule) \cap {s})) # {}
--------------------------------------------------------------------------------
RulesInit ==
  /\ rule \in Rule
  /\ history \in [Ticker -> History]
  /\ snapshot = [s \in Ticker |-> Bad]
  /\ fired = Unchecked

QuoteChanges(s, close) ==
  /\ snapshot' = [snapshot EXCEPT ![s] = close]
  /\ fired' = Unchecked
  /\ UNCHANGED <<rule, history>>

CheckRule ==
  /\ fired' = [file |-> FileFires, hosted |-> HostedFires]
  /\ UNCHANGED <<rule, history, snapshot>>

RulesNext == CheckRule \/ \E s \in Ticker, close \in Quote : QuoteChanges(s, close)

RulesSpec == RulesInit /\ [][RulesNext]_ruleVars
--------------------------------------------------------------------------------
RulesTypeOK == snapshot \in [Ticker -> Quote \cup {Bad}]

Screens(c) == c.type = "compound" /\ \E i \in DOMAIN c.leaves : c.leaves[i].type = "screening_match"

(* A hosted user is alerted of what the same rule of a file alerts of:     *)
(* jobs that look at one symbol find every match of an indexed rule whose  *)
(* symbol has a price, and invent none.  A compound that screens sees only *)
(* its own symbol when it is hosted, and may miss the others.              *)
HostedAgreesWithFile ==
  fired # Unchecked =>
    /\ fired.hosted => fired.file
    /\ (\E s \in Ticker : WatchSymbols(rule) = {s} /\ Finite(snapshot[s])) /\ ~Screens(rule)
         => (fired.file => fired.hosted)

(* Whichever source the closes come from and whatever is missing in        *)
(* between, the RSI of a price that rose in every session is 100, of one   *)
(* that fell 0, and of one that did not move undefined.  Candles that come *)
(* with a timestamp each may be listed in any order; of a list without     *)
(* them, the sessions are those of its own order, oldest first.            *)
Move(a, b) == CASE a < b -> "up" [] a > b -> "down" [] OTHER -> "none"

Trends(h, move) ==
  /\ \A i, j \in DOMAIN h.bars :
       i < j /\ Finite(h.bars[i]) /\ Finite(h.bars[j]) => Move(h.bars[j], h.bars[i]) = move
  /\ \A i, j \in Usable(h) :
       i # j /\ Stamp(h, i) <= Stamp(h, j)
         => Move(h.candles[i].close, h.candles[j].close) = move

RsiFollowsPrices ==
  fired # Unchecked => \A s \in Ticker, period \in {2, 3, 14} :
    LET closes == LoadCloses(history[s])
    IN Len(closes) > period =>
         /\ Trends(history[s], "up") => Rsi(closes, period) = <<100, 1>>
         /\ Trends(history[s], "down") => Rsi(closes, period)[1] = 0 /\ Rsi(closes, period) # NoRsi
         /\ Trends(history[s], "none") => Rsi(closes, period) = NoRsi
================================================================================
