---------------------------- MODULE AlertConfigStore ----------------------------
(***************************************************************************)
(* The alert configurations of hosted users (src/storage/user_alerts.py)   *)
(* and the watch rows derived from them (src/storage/alert_watches.py):    *)
(* the settings routes of API processes save and initialise them, and      *)
(* init_database, which every process runs at its start and the API runs   *)
(* on account requests, rebuilds the rows of all users.                    *)
(*                                                                         *)
(* A transaction that begins with BEGIN IMMEDIATE is two steps here, the   *)
(* read and the write with the commit, between which other processes move. *)
(* The writer mutex (SQLite's reserved lock, the advisory lock of          *)
(* _PostgresConnection) is writer.                                         *)
(*                                                                         *)
(* A rule is abstracted to what these functions tell apart: its id, its    *)
(* kind, the price condition it is deduplicated by, its ticker, its        *)
(* webhook and the parts of it that are missing or malformed.              *)
(***************************************************************************)
EXTENDS Naturals, Sequences

CONSTANTS Api, StoreWorker, \* processes
          Nobody,          \* the mutex is free
          User, Payload,   \* users and the configurations their browsers send
          Legacy,          \* configurations stored before this version ran
          NoRow,           \* the user has no configuration
          Garbled,         \* a stored blob that is not a JSON object
          NoId, NoKey, NoSymbol, NoUrl,
          Placeholder,     \* a webhook address of the bundled example
          MaxAlerts        \* MAX_ALERTS_PER_CONFIG

RuleFields == {"id", "kind", "key", "symbol", "url", "faults"}

(* The JSON of a configuration: the default webhook and a list of rules. *)
ConfigShape(c) ==
  /\ DOMAIN c = {"url", "rules"}
  /\ Len(c.rules) \in Nat /\ DOMAIN c.rules = 1..Len(c.rules)
  /\ \A i \in DOMAIN c.rules : DOMAIN c.rules[i] = RuleFields

ASSUME StoreAssumption ==
  /\ Nobody \notin Api \cup StoreWorker
  /\ \A c \in Payload \cup (Legacy \ {NoRow, Garbled}) : ConfigShape(c)

VARIABLES
  stored,   \* user -> user_alert_configs.config_json
  watches,  \* user -> rows of alert_watches
  writer,   \* process inside BEGIN IMMEDIATE
  task,     \* process -> what it is in the middle of, with what it has read
  ready     \* processes whose start-up init_database is behind them

storeVars == <<stored, watches, writer, task, ready>>

Process == Api \cup StoreWorker
Idle == [op |-> "idle"]

--------------------------------------------------------------------------------
(* Slips: variants of definitions below with a plausible bug in them.      *)
SlipNoMutex == TRUE
--------------------------------------------------------------------------------
(* _price_alert_key, or the id of a rule that has no complete condition. *)
DedupeKey(r) == IF r.key = NoKey THEN <<"id", r.id>> ELSE <<"price", r.key>>

(* dedupe_alerts_config: the loop over the rules keeps the first of those  *)
(* with one key.                                                           *)
Seen(rules, i) == \E j \in 1..(i - 1) : DedupeKey(rules[j]) = DedupeKey(rules[i])

Dedupe(rules) ==
  LET unique[i \in 0..Len(rules)] ==
        CASE i = 0 -> <<>>
          [] i # 0 /\ ~Seen(rules, i) -> Append(unique[i - 1], rules[i])
          [] OTHER -> unique[i - 1]
  IN unique[Len(rules)]

NotPlaceholder(url) == IF url = Placeholder THEN NoUrl ELSE url

(* polish_alerts_config without the environment's recipient. *)
Polish(c) ==
  [url |-> NotPlaceholder(c.url),
   rules |-> Dedupe([i \in DOMAIN c.rules |->
                       [c.rules[i] EXCEPT !.url = NotPlaceholder(@)]])]

(* strip_webhook_secrets_from_config. *)
Strip(c) ==
  [url |-> NoUrl, rules |-> [i \in DOMAIN c.rules |-> [c.rules[i] EXCEPT !.url = NoUrl]]]

OldUrl(new, old) == IF new = NoUrl THEN old ELSE new

(* _merge_existing_webhook_secrets: a browser never sees a webhook and     *)
(* sends a blank, which keeps the stored one, by rule id.  An id that is   *)
(* stored twice counts with its last rule.                                 *)
MergeSecrets(c, old) ==
  IF old \in {NoRow, Garbled} THEN c
  ELSE LET Same(r) == {i \in DOMAIN old.rules : old.rules[i].id = r.id /\ r.id # NoId}
           Kept(r) == IF Same(r) = {} THEN NoUrl
                      ELSE old.rules[CHOOSE i \in Same(r) : \A j \in Same(r) : j <= i].url
       IN [url |-> OldUrl(c.url, old.url),
           rules |-> [i \in DOMAIN c.rules |->
                        [c.rules[i] EXCEPT !.url = OldUrl(@, Kept(c.rules[i]))]]]

WithinLimit(c) == Len(c.rules) <= MaxAlerts

(* What each kind of rule must have, beside a usable cooldown. *)
Needed(kind) ==
  CASE kind = "price" -> {"symbol", "operator", "value"}
    [] kind = "rsi" -> {"symbol", "operator", "value", "period"}
    [] kind = "compound" -> {"op", "leaves"}
    [] OTHER -> {}

Named(c) == {i \in DOMAIN c.rules : c.rules[i].id # NoId}

(* _rows_from_config raises on anything else. *)
SoundConfig(c) ==
  /\ c \notin {NoRow, Garbled}
  /\ WithinLimit(c)
  /\ \A i, j \in Named(c) : c.rules[i].id = c.rules[j].id => i = j
  /\ \A i \in Named(c) :
       c.rules[i].faults \cap (Needed(c.rules[i].kind) \cup {"cooldown"}) = {}

(* The ticker a rule is indexed under; screening rules have none, and a    *)
(* compound one has one when all its leaves name it (primary_watch_symbol).*)
WatchSymbol(r) == IF r.kind = "other" THEN NoSymbol ELSE r.symbol

(* _rows_from_config: rules without an id are left out. *)
RowsOf(c) ==
  {[rule |-> c.rules[i], symbol |-> WatchSymbol(c.rules[i]), url |-> c.url] : i \in Named(c)}

(* The checks of put_alerts_config itself, before anything is stored. *)
RouteAccepts(c) ==
  /\ Named(c) = DOMAIN c.rules
  /\ \A i, j \in DOMAIN c.rules : c.rules[i].id = c.rules[j].id => i = j
  /\ \A i \in DOMAIN c.rules :
       c.rules[i].faults \cap (Needed(c.rules[i].kind) \ {"value", "leaves"}) = {}
--------------------------------------------------------------------------------
StoreInit ==
  /\ stored \in [User -> Legacy]
  /\ watches = [u \in User |-> {}]
  /\ writer = Nobody
  /\ task = [p \in Process |-> Idle]
  /\ ready = {}

MutexFree == writer = Nobody

(* BEGIN IMMEDIATE and the reads after it. *)
Begin(p, t) ==
  /\ MutexFree
  /\ writer' = p
  /\ task' = [task EXCEPT ![p] = t]
  /\ UNCHANGED <<stored, watches, ready>>

SaveTask(op, u, c) == [op |-> op, user |-> u, payload |-> c, old |-> stored[u]]

End(p) ==
  /\ writer' = IF writer = p THEN Nobody ELSE writer
  /\ task' = [task EXCEPT ![p] = Idle]

Serving(p) == p \in Api \cap ready /\ task[p] = Idle

(* put_alerts_config up to the read inside the transaction.  The raw       *)
(* payload is measured, before Polish can shrink it.                       *)
PutConfig(p, u, c) ==
  /\ Serving(p)
  /\ RouteAccepts(c)
  /\ WithinLimit(c)
  /\ Begin(p, SaveTask("save", u, c))

EmptyConfig == [url |-> NoUrl, rules |-> <<>>]

InitRefused(u, force) == stored[u] # NoRow /\ ~force

(* init_user_alerts_config: the look for a row is a transaction of its     *)
(* own, the save is the next.  A refusal is answered with 409.             *)
CheckInit(p, u, force) ==
  /\ Serving(p)
  /\ ~InitRefused(u, force)
  /\ task' = [task EXCEPT ![p] = [op |-> "initChecked", user |-> u, force |-> force]]
  /\ UNCHANGED <<stored, watches, writer, ready>>

InitConfig(p) ==
  /\ task[p].op = "initChecked"
  /\ Begin(p, SaveTask(IF task[p].force THEN "forcedInit" ELSE "init",
                       task[p].user, EmptyConfig))

Writes(p) == task[p].op \in {"save", "init", "forcedInit"}

(* What a save stores: merged with what it read, then polished. *)
Result(p) == Polish(MergeSecrets(task[p].payload, task[p].old))

SlipIndexPayload(p) ==
  /\ Writes(p)
  /\ SoundConfig(Result(p))
  /\ stored' = [stored EXCEPT ![task[p].user] = Result(p)]
  /\ watches' = [watches EXCEPT ![task[p].user] = RowsOf(Polish(task[p].payload))]
  /\ End(p)
  /\ UNCHANGED ready

(* save_user_alerts_config: validation, both writes and the commit. *)
CommitSave(p) ==
  /\ Writes(p)
  /\ SoundConfig(Result(p))
  /\ stored' = [stored EXCEPT ![task[p].user] = Result(p)]
  /\ watches' = [watches EXCEPT ![task[p].user] = RowsOf(Result(p))]
  /\ End(p)
  /\ UNCHANGED ready

(* InvalidAlertWatchConfig rolls the transaction back. *)
RejectSave(p) ==
  /\ Writes(p)
  /\ ~SoundConfig(Result(p))
  /\ End(p)
  /\ UNCHANGED <<stored, watches, ready>>

(* _backfill_watches_from_configs: at the start of a process, and in       *)
(* account requests of the API.                                            *)
BeginBackfill(p) ==
  /\ task[p] = Idle
  /\ p \in Api \/ p \notin ready
  /\ Begin(p, [op |-> "backfill", seen |-> stored])

Indexable(c) == SoundConfig(c)

(* A configuration that cannot be read keeps the rows it has. *)
EndBackfill(p) ==
  /\ task[p].op = "backfill"
  /\ watches' = [u \in User |->
                   IF Indexable(task[p].seen[u]) THEN RowsOf(task[p].seen[u]) ELSE watches[u]]
  /\ ready' = ready \cup {p}
  /\ End(p)
  /\ UNCHANGED stored

(* A process dies and is started again: its transaction is rolled back. *)
Restart(p) ==
  /\ p \in ready \/ task[p] # Idle
  /\ ready' = ready \ {p}
  /\ End(p)
  /\ UNCHANGED <<stored, watches>>

StoreNext ==
  \E p \in Process :
    \/ \E u \in User, c \in Payload : PutConfig(p, u, c)
    \/ \E u \in User, force \in BOOLEAN : CheckInit(p, u, force)
    \/ InitConfig(p) \/ CommitSave(p) \/ RejectSave(p)
    \/ BeginBackfill(p) \/ EndBackfill(p)
    \/ Restart(p)

StoreSpec == StoreInit /\ [][StoreNext]_storeVars
--------------------------------------------------------------------------------
(* The mutex has one holder, which is the process between the read and the *)
(* commit of a transaction, and that process has read what is stored now.  *)
StoreTypeOK ==
  /\ ready \in SUBSET Process
  /\ \A u \in User : \A r \in watches[u] : r.rule.id # NoId
  /\ \A p \in Process : writer = p <=> task[p].op \notin {"idle", "initChecked"}
  /\ \A p \in Process : Writes(p) => task[p].old = stored[task[p].user]
  /\ \A p \in Process : task[p].op = "backfill" => task[p].seen = stored

(* Once init_database is behind any process, the watch rows of every user  *)
(* whose configuration can be read are the rows of that configuration:     *)
(* no rebuild at a start or an account request brings back rows of a       *)
(* configuration that was saved over meanwhile.                            *)
ReadyIsIndexed ==
  ready # {} => \A u \in User : SoundConfig(stored[u]) => watches[u] = RowsOf(stored[u])

(* Replacing a configuration loses a stored webhook only where the payload *)
(* names another one: a blank default, or a rule that kept its id and has  *)
(* a blank, leaves what is stored when the save commits, also when another *)
(* process stored it a moment ago.  An address of the bundled example is   *)
(* no webhook and is blanked.                                              *)
WebhookKept ==
  [][\A p \in Process, u \in User :
       LET old == stored[u]
           new == stored'[u]
           sent == task[p].payload
       IN Writes(p) /\ task[p].user = u /\ new # old /\ SoundConfig(old) =>
            /\ sent.url = NoUrl => new.url = NotPlaceholder(old.url)
            /\ \A i \in DOMAIN sent.rules, j \in Named(old), k \in DOMAIN new.rules :
                 /\ sent.rules[i].url = NoUrl
                 /\ old.rules[j].id = sent.rules[i].id
                 /\ new.rules[k].id = sent.rules[i].id
                 => new.rules[k].url = NotPlaceholder(old.rules[j].url)]_storeVars

Index == INSTANCE ConfigIndex WITH
  Readable <- SoundConfig, IndexOf <- RowsOf, index <- watches

(* Stored configuration and watch rows change together. *)
ImplementsIndex == Index!IndexSpec
================================================================================
