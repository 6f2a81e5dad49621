------------------------------ MODULE MarketStore ------------------------------
(***************************************************************************)
(* The stored market data: daily bars, projections and daily summaries     *)
(* (src/storage/market_bars.py, projections_store.py, data_storage.py),    *)
(* the tracker runs that fill them (src/workflows/tracker.py), the import  *)
(* of files an earlier version wrote (legacy_market_data.py) and the quote *)
(* that readers take for the latest one.                                   *)
(*                                                                         *)
(* Runs overlap: one of a command line and one of the dashboard.  Each of  *)
(* their saves asks for the date anew, so a run can span midnight.         *)
(***************************************************************************)
EXTENDS Integers, FiniteSets

CONSTANTS Symbol, Tracker,
          HoursPerDay, LastHour,   \* the clock; LastHour is its bound
          SnapshotLimit,           \* dates that latest_saved_quotes looks at
          LegacyFiles,             \* directories to import
          MaxTracks, MaxImports    \* bounds: runs and imports started

ASSUME MarketAssumption ==
  /\ HoursPerDay \in Nat \ {0} /\ SnapshotLimit \in Nat \ {0} /\ LastHour \in Nat
  /\ IsFiniteSet(Symbol)

VARIABLES
  hour,         \* the clock
  bars,         \* <<date, symbol>> -> row: its source and its quote
  projections,  \* <<date, symbol>> -> source of the row
  summaries,    \* date -> source of the row
  tracked,      \* tracker -> what its run is about to do and has
  import,       \* the import that runs
  started       \* how many runs and imports were started

marketVars == <<hour, bars, projections, summaries, tracked, import, started>>
marketTables == <<bars, projections, summaries>>

Date == 0..(LastHour \div HoursPerDay)
DateToday == hour \div HoursPerDay
Unstamped == -1          \* a quote without a usable provider time
--------------------------------------------------------------------------------
(* Slips: variants of definitions below with a plausible bug in them.    *)
SlipRank(k) == <<0, k[1], k[1]>>
SlipSkip(table, day) == table # "projections" /\ day \in import.existing[table] /\ ~import.replace
--------------------------------------------------------------------------------
(* INSERT ... ON CONFLICT DO UPDATE of rows, in one transaction. *)
Upsert(table, rows) == [k \in DOMAIN table \cup DOMAIN rows |->
                          IF k \in DOMAIN rows THEN rows[k] ELSE table[k]]

Dates(table) == {k[1] : k \in DOMAIN table}

(* row_from_stock; quotes without a finite close, which make no row, are   *)
(* not among the quotes here.                                              *)
BarRows(day, quotes, source) ==
  [k \in {day} \X DOMAIN quotes |-> [source |-> source, at |-> quotes[k[2]]]]

ProjectionRows(day, symbols, source) == [k \in {day} \X symbols |-> source]

Newest(dates, n) == {d \in dates : Cardinality({e \in dates : e > d}) < n}

(* latest_saved_quotes: provider time first, then the date it is stored    *)
(* under; a row has one date and symbol, so written_at never decides.      *)
Rank(k) == IF bars[k].at # Unstamped THEN <<1, bars[k].at, k[1]>>
           ELSE <<0, k[1] * HoursPerDay, k[1]>>

Below(a, b) ==
  \/ a[1] < b[1]
  \/ a[1] = b[1] /\ (a[2] < b[2] \/ (a[2] = b[2] /\ a[3] <= b[3]))

LatestQuote(s) ==
  LET rows == {k \in DOMAIN bars : k[2] = s /\ k[1] \in Newest(Dates(bars), SnapshotLimit)}
  IN {k \in rows : \A o \in rows : Below(Rank(o), Rank(k))}
--------------------------------------------------------------------------------
NotTracking == [at |-> "rest"]
NoImport == [at |-> "none"]

MarketInit ==
  /\ hour = 0
  /\ bars = << >> /\ projections = << >> /\ summaries = << >>
  /\ tracked = [t \in Tracker |-> NotTracking]
  /\ import = NoImport
  /\ started = [runs |-> 0, imports |-> 0]

Track(t, r) == tracked' = [tracked EXCEPT ![t] = r]

(* _fetch_data: quotes of now; without any the run fails. *)
FetchQuotes(t, quotes) ==
  /\ tracked[t] = NotTracking /\ started.runs < MaxTracks
  /\ started' = [started EXCEPT !.runs = @ + 1]
  /\ Track(t, [at |-> "save", quotes |-> quotes])
  /\ UNCHANGED <<hour, marketTables, import>>

(* _save_data: the run goes on when it fails, and also fails when no row   *)
(* is usable.                                                              *)
SaveDailyData(t, ok) ==
  /\ tracked[t].at = "save"
  /\ bars' = IF ok THEN Upsert(bars, BarRows(DateToday, tracked[t].quotes, "fetch")) ELSE bars
  /\ Track(t, [tracked[t] EXCEPT !.at = "summarise"])
  /\ UNCHANGED <<hour, projections, summaries, import, started>>

(* _save_summary: the projections are not saved if this fails, or if there *)
(* are none because they could not be generated.                           *)
SaveSummary(t, ok, projected) ==
  /\ tracked[t].at = "summarise"
  /\ summaries' = IF ok THEN Upsert(summaries, [d \in {DateToday} |-> "tracker"]) ELSE summaries
  /\ Track(t, IF ok /\ projected THEN [tracked[t] EXCEPT !.at = "project"] ELSE NotTracking)
  /\ UNCHANGED <<hour, bars, projections, import, started>>

SaveProjections(t, ok) ==
  /\ tracked[t].at = "project"
  /\ projections' = IF ok THEN Upsert(projections,
                                 ProjectionRows(DateToday, DOMAIN tracked[t].quotes, "tracker"))
                    ELSE projections
  /\ Track(t, NotTracking)
  /\ UNCHANGED <<hour, bars, summaries, import, started>>

TrackerDies(t) ==
  /\ tracked[t] # NotTracking
  /\ Track(t, NotTracking)
  /\ UNCHANGED <<hour, marketTables, import, started>>

HourPasses ==
  /\ hour < LastHour
  /\ hour' = hour + 1
  /\ UNCHANGED <<marketTables, tracked, import, started>>
--------------------------------------------------------------------------------
(* backfill_legacy_market_data looks once at what exists, table by table,  *)
(* and then goes through the files in the same order, each table by date.  *)
Table == <<"bars", "projections", "summaries">>
Existing == [bars |-> Dates(bars), projections |-> Dates(projections),
             summaries |-> DOMAIN summaries]

StartImport(files, replace) ==
  /\ import = NoImport /\ started.imports < MaxImports
  /\ started' = [started EXCEPT !.imports = @ + 1]
  /\ import' = [at |-> "look", table |-> 1, files |-> files, replace |-> replace,
                existing |-> << >>, left |-> {},
                csv |-> {},       \* projection_csv_imported_dates
                found |-> << >>]  \* history: what existed when it looked
  /\ UNCHANGED <<hour, marketTables, tracked>>

Look ==
  LET table == Table[import.table]
      with(f, v) == [x \in DOMAIN f \cup {table} |-> IF x = table THEN v ELSE f[x]]
      seen == [import EXCEPT !.existing = with(@, Existing[table]),
                             !.found = with(@, Existing[table])]
  IN /\ import.at = "look"
     /\ import' = IF import.table < 3 THEN [seen EXCEPT !.table = @ + 1]
                  ELSE [seen EXCEPT !.at = "files", !.table = 1, !.left = Date]
     /\ UNCHANGED <<hour, marketTables, tracked, started>>

Skip(table, day) == day \in import.existing[table] /\ ~import.replace

NextFile(i) == [i EXCEPT !.left = @ \ {CHOOSE d \in @ : \A e \in @ : d <= e}]
FileDate == CHOOSE d \in import.left : \A e \in import.left : d <= e

Reads(table) == import.at = "files" /\ import.left # {} /\ Table[import.table] = table

(* A file of unusable rows is an error that stops nothing. *)
ImportBars ==
  LET day == FileDate
      found == import.files.bars[day]
  IN /\ Reads("bars")
     /\ bars' = IF found = "good" /\ ~Skip("bars", day)
                THEN Upsert(bars, BarRows(day, [s \in Symbol |-> Unstamped], "legacy"))
                ELSE bars
     /\ import' = NextFile(import)
     /\ UNCHANGED <<hour, projections, summaries, tracked, started>>

ImportProjections ==
  LET day == FileDate
      takes == import.files.projections[day] = "good" /\ ~Skip("projections", day)
  IN /\ Reads("projections")
     /\ projections' = IF takes THEN Upsert(projections, ProjectionRows(day, Symbol, "csv"))
                       ELSE projections
     /\ import' = NextFile(IF takes THEN [import EXCEPT !.existing.projections = @ \cup {day},
                                                        !.csv = @ \cup {day}] ELSE import)
     /\ UNCHANGED <<hour, bars, summaries, tracked, started>>

(* Projections inside a summary fill in where no projections exist, or     *)
(* replace those no file of this import gave; bad ones do not keep the     *)
(* summary out.                                                            *)
NeedsEmbedded(day) ==
  \/ day \notin import.existing.projections
  \/ import.replace /\ day \notin import.csv

(* They are stored before the summary, in a transaction of their own. *)
Embeds(day) == import.files.summaries[day] = "embedding" /\ NeedsEmbedded(day)

ImportEmbedded ==
  LET day == FileDate
  IN /\ Reads("summaries") /\ Embeds(day)
     /\ projections' = Upsert(projections, ProjectionRows(day, Symbol, "embedded"))
     /\ import' = [import EXCEPT !.at = "summary", !.existing.projections = @ \cup {day}]
     /\ UNCHANGED <<hour, bars, summaries, tracked, started>>

ImportSummary ==
  LET day == FileDate
      found == import.files.summaries[day]
  IN /\ import.at = "summary" \/ (Reads("summaries") /\ ~Embeds(day))
     /\ summaries' = IF found # "none" /\ ~Skip("summaries", day)
                     THEN Upsert(summaries, [d \in {day} |-> "legacy"]) ELSE summaries
     /\ import' = NextFile([import EXCEPT !.at = "files"])
     /\ UNCHANGED <<hour, bars, projections, tracked, started>>

NextTable ==
  /\ import.at = "files" /\ import.left = {}
  /\ import' = IF import.table < 3 THEN [import EXCEPT !.table = @ + 1, !.left = Date]
               ELSE NoImport
  /\ UNCHANGED <<hour, marketTables, tracked, started>>

ImportDies ==
  /\ import # NoImport
  /\ import' = NoImport
  /\ UNCHANGED <<hour, marketTables, tracked, started>>

(* Quotes a fetch can bring: of the hour, and some without provider time.  *)
Quotes == UNION {[S -> {hour, Unstamped}] : S \in SUBSET Symbol \ {{}}}

MarketNext ==
  \/ \E t \in Tracker :
       \/ \E quotes \in Quotes : FetchQuotes(t, quotes)
       \/ \E ok \in BOOLEAN : SaveDailyData(t, ok) \/ SaveProjections(t, ok)
       \/ \E ok, projected \in BOOLEAN : SaveSummary(t, ok, projected)
       \/ TrackerDies(t)
  \/ HourPasses
  \/ \E files \in LegacyFiles, replace \in BOOLEAN : StartImport(files, replace)
  \/ Look \/ ImportBars \/ ImportProjections \/ ImportEmbedded \/ ImportSummary
  \/ NextTable \/ ImportDies

MarketSpec == MarketInit /\ [][MarketNext]_marketVars
--------------------------------------------------------------------------------
MarketTypeOK ==
  /\ Dates(bars) \cup Dates(projections) \cup DOMAIN summaries \subseteq Date
  /\ \A k \in DOMAIN bars : bars[k].at <= hour

(* Rows of trackers under the given dates of each table. *)
LiveRows(dates) ==
  [bars |-> {k \in DOMAIN bars : k[1] \in dates["bars"] /\ bars[k].source = "fetch"},
   projections |-> {k \in DOMAIN projections :
                      k[1] \in dates["projections"] /\ projections[k] = "tracker"},
   summaries |-> {d \in DOMAIN summaries : d \in dates["summaries"] /\ summaries[d] = "tracker"}]

(* backfill_legacy_market_data: under the dates it found at its one look   *)
(* an import without replace overwrites no snapshot of a tracker, neither  *)
(* one that was there nor one stored while it goes through its files.  Of  *)
(* a date it did not find it overwrites what a tracker stored since: there *)
(* the docstring's "an old file cannot overwrite a newer durable snapshot" *)
(* does not hold.  And projections inside a summary replace none under a   *)
(* date of which this import read a file of projections.                   *)
ImportKeepsSnapshots ==
  [][import.at \in {"files", "summary"} =>
       /\ ~import.replace => \A found \in {import.found} :
                               \A table \in {"bars", "projections", "summaries"} :
                                 LiveRows(found)[table] \subseteq LiveRows(found)'[table]
       /\ \A k \in DOMAIN projections' :
            k[1] \in import.csv /\ projections'[k] = "embedded" =>
              k \in DOMAIN projections /\ projections[k] = "embedded"]_marketVars

(* The quote shown for a symbol is the newest the recent snapshots hold by *)
(* its provider's time, also when runs that span midnight or overtake each *)
(* other have stored an older one under a later date.                      *)
LatestIsNewest ==
  \A s \in Symbol : LET recent == {k \in DOMAIN bars :
                                     k[2] = s /\ k[1] \in Newest(Dates(bars), SnapshotLimit)}
                   IN \A k \in recent : \E best \in LatestQuote(s) : bars[k].at <= bars[best].at
================================================================================
