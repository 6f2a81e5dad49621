------------------------------- MODULE Collection -------------------------------
(***************************************************************************)
(* How a tracker run collects quotes: the symbols of each index, from a    *)
(* cache, a package or a short list of last resort (index_fetcher.py), the *)
(* screener (stock_screener.py), the pool that fetches them                *)
(* (data_fetcher.py, api_client.py) and what the workflow keeps of it and  *)
(* adds to it (_fetch_data in src/workflows/tracker.py).                   *)
(*                                                                         *)
(* Prices are abstracted away: a quote is usable or not, a score whether a *)
(* stock qualifies, and the volume decides between stocks.  The order in   *)
(* which the pool finishes is free; the order of rows decides nothing else.*)
(***************************************************************************)
EXTENDS Naturals, Sequences, FiniteSets

CONSTANTS IndexNames,      \* indices_to_track, in order
          PackageList(_),  \* index -> its symbols in pytickersymbols
          FallbackList(_), \* index -> _get_minimal_fallback
          SaneSize(_),     \* index -> fewest symbols that are believed
          Volume(_),       \* symbol -> its volume
          Watched,         \* get_enabled_watch_symbols
          IndexCap,        \* most symbols taken of an index (100)
          ScreenAbove,     \* indices with more symbols are screened (20)
          FilterTop,       \* top_n of the screener
          TopChoices,      \* values of top_n_stocks; 0 for none
          CacheDays,       \* how long a cached list is used
          MaxCollections, LastDay   \* bounds: runs and the calendar

(* get_indices_to_track falls back on a default list, never on an empty one. *)
ASSUME CollectionAssumption ==
  IndexNames # <<>> /\ DOMAIN IndexNames = 1..Len(IndexNames) /\ Len(IndexNames) \in Nat

VARIABLES
  calendar,    \* the date
  listCache,   \* index -> its cache file, or NoList
  collecting,  \* the run, or NotCollecting
  collections  \* how many were started

collectionVars == <<calendar, listCache, collecting, collections>>

NoList == [day |-> 0, symbols |-> <<>>]
NotCollecting == [at |-> "idle"]
IndexSet == {IndexNames[i] : i \in DOMAIN IndexNames}
--------------------------------------------------------------------------------
(* Slips: variants of definitions below with a plausible bug in them.      *)
SlipFetched(r) == UNION {r.fetched[x] : x \in IndexSet}
--------------------------------------------------------------------------------
CollectionInit ==
  /\ calendar = 1
  /\ listCache = [x \in IndexSet |-> NoList]
  /\ collecting = NotCollecting
  /\ collections = 0

(* run, _fetch_data. *)
StartCollection(top, screened) ==
  /\ collecting = NotCollecting /\ collections < MaxCollections
  /\ collections' = collections + 1
  /\ collecting' = [at |-> "list", index |-> 1, top |-> top, screened |-> screened,
                    asked |-> {}, fetched |-> [x \in IndexSet |-> {}],
                    data |-> <<>>, refused |-> {}]
  /\ UNCHANGED <<calendar, listCache>>

IndexNow == IndexNames[collecting.index]

(* _load_from_cache: an empty list is as good as none. *)
Cached(index) ==
  listCache[index].symbols # <<>> /\ calendar - listCache[index].day < CacheDays

Believed(index, symbols) == Len(symbols) >= SaneSize(index)

(* get_index_symbols; what the package lists is saved, which may fail.     *)
Listed(index, package) ==
  IF Cached(index) THEN listCache[index].symbols
  ELSE IF Believed(index, package) THEN package ELSE FallbackList(index)

(* _fetch_data: without a screener each index gets its share of top_n.     *)
Share(top) == (top + Len(IndexNames) - 1) \div Len(IndexNames)

Limited(symbols, n) == SubSeq(symbols, 1, IF Len(symbols) < n THEN Len(symbols) ELSE n)

UpToCap(symbols, r) ==
  LET capped == Limited(symbols, IndexCap)
  IN IF r.top > 0 /\ ~r.screened THEN Limited(capped, Share(r.top)) ELSE capped

(* get_qualified_symbols: those with the best scores, of those that have   *)
(* one; if the screener fails the symbols stay as they are.                *)
Qualified(symbols) ==
  LET all == {symbols[i] : i \in DOMAIN symbols}
  IN {all} \cup {q \in SUBSET all : Cardinality(q) <= FilterTop}

ToFetch(symbols, r) ==
  IF r.screened /\ Len(symbols) > ScreenAbove THEN Qualified(symbols)
  ELSE {{symbols[i] : i \in DOMAIN symbols}}

ListIndex(package, saved) ==
  LET symbols == Listed(IndexNow, package)
  IN /\ collecting.at = "list"
     /\ listCache' = IF ~Cached(IndexNow) /\ Believed(IndexNow, package) /\ saved
                     THEN [listCache EXCEPT ![IndexNow] = [day |-> calendar, symbols |-> package]]
                     ELSE listCache
     /\ \E wanted \in ToFetch(UpToCap(symbols, collecting), collecting) :
          collecting' = [collecting EXCEPT !.at = "fetch", !.asked = wanted]
     /\ UNCHANGED <<calendar, collections>>

(* fetch_symbol_data in the pool: get_stock_data turns every failure into  *)
(* no data, so that it is never retried.                                   *)
FetchDone(s, usable) ==
  /\ collecting.at = "fetch" /\ s \in collecting.asked
  /\ collecting' = [collecting EXCEPT !.asked = @ \ {s},
                                      !.fetched[IndexNow] = IF usable THEN @ \cup {s} ELSE @]
  /\ UNCHANGED <<calendar, listCache, collections>>

EndIndex ==
  /\ collecting.at = "fetch" /\ collecting.asked = {}
  /\ collecting' = IF collecting.index < Len(IndexNames)
                   THEN [collecting EXCEPT !.at = "list", !.index = @ + 1]
                   ELSE [collecting EXCEPT !.at = "combine"]
  /\ UNCHANGED <<calendar, listCache, collections>>

(* all_data: a stock of two indices is in it twice. *)
Rows(r) == UNION {{x} \X r.fetched[x] : x \in IndexSet}

(* The top_n rows by volume; which of equal ones is free. *)
TopRows(r) ==
  LET rows == Rows(r)
  IN IF r.top = 0 \/ Cardinality(rows) <= r.top THEN {rows}
     ELSE {k \in SUBSET rows : /\ Cardinality(k) = r.top
                               /\ \A a \in k, b \in rows \ k : Volume(a[2]) >= Volume(b[2])}

(* The symbols that count as there when the watched ones are added. *)
Present(r) == {row[2] : row \in r.data}

Combine ==
  /\ collecting.at = "combine"
  /\ \E rows \in TopRows(collecting) :
       LET r == [collecting EXCEPT !.at = "watch", !.data = rows]
       IN collecting' = [r EXCEPT !.asked = Watched \ Present(r)]
  /\ UNCHANGED <<calendar, listCache, collections>>

FetchWatched(s, usable) ==
  /\ collecting.at = "watch" /\ s \in collecting.asked
  /\ collecting' = [collecting EXCEPT
       !.asked = @ \ {s},
       !.data = IF usable THEN @ \cup {<<"watch", s>>} ELSE @,
       !.refused = IF usable THEN @ ELSE @ \cup {s}]
  /\ UNCHANGED <<calendar, listCache, collections>>

(* The run goes on to save, or fails without data; MarketStore is about    *)
(* what follows.                                                           *)
EndCollection ==
  /\ collecting.at = "watch" /\ collecting.asked = {}
  /\ collecting' = NotCollecting
  /\ UNCHANGED <<calendar, listCache, collections>>

(* An exception fails the run; its process may die as well. *)
CollectionAborts ==
  /\ collecting # NotCollecting
  /\ collecting' = NotCollecting
  /\ UNCHANGED <<calendar, listCache, collections>>

DayPasses ==
  /\ calendar < LastDay /\ collecting = NotCollecting
  /\ calendar' = calendar + 1
  /\ UNCHANGED <<listCache, collecting, collections>>

PackageAnswers(index) == {PackageList(index), FallbackList(index), <<>>}

CollectionNext ==
  \/ \E top \in TopChoices, screened \in BOOLEAN : StartCollection(top, screened)
  \/ \E x \in IndexSet, saved \in BOOLEAN : \E package \in PackageAnswers(x) :
       collecting # NotCollecting /\ x = IndexNow /\ ListIndex(package, saved)
  \/ \E x \in IndexSet : \E usable \in BOOLEAN :
       \E s \in UNION {{PackageList(x)[i] : i \in DOMAIN PackageList(x)},
                       {FallbackList(x)[i] : i \in DOMAIN FallbackList(x)}} :
         FetchDone(s, usable)
  \/ \E s \in Watched, usable \in BOOLEAN : FetchWatched(s, usable)
  \/ EndIndex \/ Combine \/ EndCollection \/ CollectionAborts
  \/ DayPasses

CollectionSpec == CollectionInit /\ [][CollectionNext]_collectionVars
--------------------------------------------------------------------------------
CollectionTypeOK ==
  /\ \A x \in IndexSet : listCache[x].day <= calendar
  /\ collecting # NotCollecting => collecting.index \in DOMAIN IndexNames

(* A run ends with a quote of every watched symbol that had one to give    *)
(* when it was asked for it, whatever the indices, the screener and the    *)
(* limit to the most active stocks left out.                               *)
WatchedAreFetched ==
  collecting.at = "watch" /\ collecting.asked = {} =>
    Watched \subseteq {row[2] : row \in collecting.data} \cup collecting.refused
================================================================================
