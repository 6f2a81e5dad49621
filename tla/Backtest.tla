-------------------------------- MODULE Backtest --------------------------------
(***************************************************************************)
(* How projections are scored against what happened: what a quote tells of *)
(* the session before it (_quote_outcome_provenance in api_client.py), the *)
(* rows of the runs (market_bars.py, projections_store.py), the session a  *)
(* projection is for (market_calendar.py) and evaluate_projections         *)
(* (backtesting.py).                                                       *)
(*                                                                         *)
(* One symbol.  A day has two instants, before and after the close of its  *)
(* session if it has one; a price is the session whose official close it   *)
(* is, or Unknown within a session.                                        *)
(***************************************************************************)
EXTENDS Naturals, FiniteSetsExt

CONSTANTS Sessions,      \* days the exchange is open
          Unknown,       \* NULL, no row, a price that is no close
          FirstInstant, LastInstant,  \* bounds: the time the runs see
          Horizon,       \* horizon_sessions
          MaxBars, MaxProjections     \* bounds: rows written

(* There are two sessions before the first instant, and enough after the   *)
(* last one to score what is projected by then.                            *)
ASSUME BacktestAssumption ==
  /\ Unknown \notin Nat
  /\ FirstInstant \in Nat /\ LastInstant \in Nat /\ FirstInstant <= LastInstant
  /\ Horizon \in Nat \ {0}
  /\ Sessions \subseteq Nat /\ IsFiniteSet(Sessions)
  /\ \E s, t \in Sessions : s < t /\ t < FirstInstant \div 2
  /\ Cardinality({s \in Sessions : LastInstant < 2 * s}) >= Horizon

VARIABLES
  instant,         \* the time
  quotedOn,        \* day of the last trade a quote shows
  barRows,         \* market_bars: trade_date -> row
  projectionRows,  \* projections: run_date -> row
  projected        \* a projection generated and not saved yet, or Unknown

backtestVars == <<instant, quotedOn, barRows, projectionRows, projected>>

RowDate == 0..(LastInstant \div 2)
DayOf(i) == i \div 2
CloseOf(s) == 2 * s + 1
--------------------------------------------------------------------------------
(* calendar.previous_session, date_to_session(direction="previous"). *)
PreviousSession(s) == Max({t \in Sessions : t < s})
SessionAtOrBefore(d) == Max({t \in Sessions : t <= d})

TradingSessionAfter(d, n) ==
  CHOOSE s \in Sessions :
    Cardinality({t \in Sessions : SessionAtOrBefore(d) < t /\ t <= s}) = n

LastCompletedSession(i) ==
  LET candidate == SessionAtOrBefore(DayOf(i))
  IN IF CloseOf(candidate) <= i THEN candidate ELSE PreviousSession(candidate)

(* A slip: a variant of a definition below with a plausible bug in it.     *)
SlipFromRunDay(p, day) == TradingSessionAfter(day, Horizon)

(* previous_close_session_at gives a session only on a day that is one;    *)
(* the quote must be of that day or of the session before it.              *)
Qualifies(day, quoteDay) ==
  day \in Sessions /\ quoteDay \in {PreviousSession(day), day}

(* External: "pc" is relative to the session the quote is of.  It is the   *)
(* close before it for a quote that is up to date, and of some session     *)
(* before for one that is not, or when no session is on.                   *)
PreviousCloses(day, quoteDay) ==
  IF day \in Sessions /\ quoteDay \in {PreviousSession(day), day}
  THEN {PreviousSession(day)}
  ELSE {s \in Sessions : s < day}

(* get_stock_data at the end of a fetch, saved under the date of the run:  *)
(* the row of an earlier run of the day is overwritten.                    *)
CurrentPrice == IF CloseOf(quotedOn) <= instant THEN quotedOn ELSE Unknown

(* A quote that does not qualify is stored as such, with 0 for             *)
(* outcome_final; the row of an old file has NULL there.                   *)
BarRow(pc) ==
  IF pc # Unknown /\ Qualifies(DayOf(instant), quotedOn)
  THEN [close |-> CurrentPrice, final |-> 1,
        session |-> PreviousSession(DayOf(instant)), official |-> pc]
  ELSE [close |-> CurrentPrice, final |-> 0, session |-> Unknown, official |-> Unknown]

LegacyRow(close) ==
  [close |-> close, final |-> Unknown, session |-> Unknown, official |-> Unknown]

(* _target_session: from the time of generation if the row has one, else   *)
(* from its run date.                                                      *)
TargetSession(p, day) ==
  IF p.generatedAt # Unknown
  THEN TradingSessionAfter(LastCompletedSession(p.generatedAt), Horizon)
  ELSE TradingSessionAfter(day, Horizon)
--------------------------------------------------------------------------------
(* close_map: bars come newest date first, and an older row of the same    *)
(* session replaces a newer one.                                           *)
HasProvenance(row) == row.final # Unknown \/ row.session # Unknown \/ row.official # Unknown

Counted(row, verifiedOnly) ==
  /\ row # Unknown
  /\ IF HasProvenance(row) THEN row.final = 1 /\ row.session # Unknown /\ row.official # Unknown
     ELSE ~verifiedOnly

Entry(day, row) ==
  IF HasProvenance(row) THEN [date |-> day, session |-> row.session, price |-> row.official]
  ELSE [date |-> day, session |-> day, price |-> row.close]

CloseMap(verifiedOnly) ==
  LET entries == {Entry(d, barRows[d]) : d \in {x \in RowDate : Counted(barRows[x], verifiedOnly)}}
  IN {e \in entries : \A other \in entries : other.session = e.session => e.date <= other.date}

(* What is scored: neither pending nor missing.  An entry of the target    *)
(* session implies that it is not after the latest session observed.       *)
Samples(verifiedOnly) ==
  LET sample(d, e) == [projection |-> projectionRows[d], target |-> e.session, actual |-> e.price]
      scored(d, e) == e.session = TargetSession(projectionRows[d], d)
      days == {d \in RowDate : projectionRows[d] # Unknown}
      closes == CloseMap(verifiedOnly)
  IN UNION {{sample(d, e) : e \in {c \in closes : scored(d, c)}} : d \in days}
--------------------------------------------------------------------------------
BacktestInit ==
  /\ instant = FirstInstant
  /\ quotedOn \in {SessionAtOrBefore(DayOf(FirstInstant) - 1),
                   PreviousSession(SessionAtOrBefore(DayOf(FirstInstant) - 1))}
  /\ barRows = [d \in RowDate |-> Unknown]
  /\ projectionRows = [d \in RowDate |-> Unknown]
  /\ projected = Unknown

InstantPasses ==
  /\ instant < LastInstant
  /\ instant' = instant + 1
  /\ UNCHANGED <<quotedOn, barRows, projectionRows, projected>>

(* The symbol trades in the session that is on; a halted one does not. *)
Trades ==
  /\ DayOf(instant) \in Sessions /\ instant < CloseOf(DayOf(instant))
  /\ quotedOn # DayOf(instant)
  /\ quotedOn' = DayOf(instant)
  /\ UNCHANGED <<instant, barRows, projectionRows, projected>>

Written(rows) == Cardinality({d \in RowDate : rows[d] # Unknown})

CollectBar(pc) ==
  /\ barRows[DayOf(instant)] = Unknown => Written(barRows) < MaxBars
  /\ barRows' = [barRows EXCEPT ![DayOf(instant)] = BarRow(pc)]
  /\ UNCHANGED <<instant, quotedOn, projectionRows, projected>>

(* An import leaves a date alone under which it found rows; what a fetch   *)
(* stored since it looked is overwritten (MarketStore has the whole).      *)
ImportBar(d, close) ==
  /\ barRows[d] = Unknown \/ d = DayOf(instant)
  /\ barRows[d] = Unknown => Written(barRows) < MaxBars
  /\ barRows' = [barRows EXCEPT ![d] = LegacyRow(close)]
  /\ UNCHANGED <<instant, quotedOn, projectionRows, projected>>

(* projector.project_stock, then upsert_projections, under the date it is  *)
(* by then; an imported row of an old run lacks the time.                  *)
GenerateProjection(stamped) ==
  /\ projected = Unknown
  /\ projected' = [generatedAt |-> IF stamped THEN instant ELSE Unknown, made |-> instant]
  /\ UNCHANGED <<instant, quotedOn, barRows, projectionRows>>

SaveProjection ==
  /\ projected # Unknown
  /\ projectionRows[DayOf(instant)] = Unknown => Written(projectionRows) < MaxProjections
  /\ projectionRows' = [projectionRows EXCEPT ![DayOf(instant)] = projected]
  /\ projected' = Unknown
  /\ UNCHANGED <<instant, quotedOn, barRows>>

BacktestNext ==
  \/ InstantPasses
  \/ Trades
  \/ \E pc \in PreviousCloses(DayOf(instant), quotedOn) \cup {Unknown} : CollectBar(pc)
  \/ \E d \in {x \in RowDate : x <= DayOf(instant)} :
       \E close \in {SessionAtOrBefore(d), Unknown} : ImportBar(d, close)
  \/ \E stamped \in BOOLEAN : GenerateProjection(stamped)
  \/ SaveProjection

BacktestSpec == BacktestInit /\ [][BacktestNext]_backtestVars
--------------------------------------------------------------------------------
BacktestTypeOK ==
  /\ instant \in FirstInstant..LastInstant
  /\ quotedOn \in Sessions /\ 2 * quotedOn <= instant
  /\ \A d \in RowDate : barRows[d] # Unknown => barRows[d].session = Unknown \/ barRows[d].session < d

(* What qualifies a report for calibration is scored fairly: a sample is   *)
(* compared with the official close of its target session, which was still *)
(* ahead when the projection was made; and when the row tells when that    *)
(* was, exactly Horizon sessions close from then to there.                 *)
VerifiedSamplesAreFair ==
  \A s \in Samples(TRUE) :
    /\ s.actual = s.target
    /\ s.projection.made < CloseOf(s.target)
    /\ s.projection.generatedAt # Unknown =>
         Cardinality({t \in Sessions : /\ s.projection.made < CloseOf(t)
                                       /\ t <= s.target}) = Horizon
================================================================================
