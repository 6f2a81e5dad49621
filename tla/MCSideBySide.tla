------------------------------ MODULE MCSideBySide ------------------------------
(***************************************************************************)
(* The components that share no state with each other, for model checking  *)
(* in one run.  A behaviour chooses one of them and moves only that one:   *)
(* the others rest in an initial state, so the run checks each component   *)
(* on all of its own states and never on their product.                    *)
(***************************************************************************)
EXTENDS AlertJobs, AlertConfigStore, Accounts, RateLimits, FinnhubLimiter, WorkerHealth,
        AlertDelivery, LocalFiles, MarketStore, Migrations, AlertRules, Collection,
        Backtest

CONSTANTS a1, a2, w, u1,    \* two API processes, a worker and a user
          l1, l2, l3        \* loops: two threads of a1 and the worker

VARIABLE component

Component == {"queue", "store", "accounts", "limits", "limiter", "health", "delivery",
              "files", "market", "migrations", "rules", "collection",
              "backtest"}
--------------------------------------------------------------------------------
(* The queue: two loops of one process and one of another. *)
MCLoop == {l1, l2, l3}
MCLockId == {a1, w}
MCLockIdOf == [l \in MCLoop |-> IF l = l3 THEN w ELSE a1]
--------------------------------------------------------------------------------
(* Stored configurations. *)
MCApi == {a1, a2}
MCStoreWorker == {w}
MCUser == {u1}

MCRow(id, kind, key, url, faults) ==
  [id |-> id, kind |-> kind, key |-> key, symbol |-> IF kind = "compound" THEN NoSymbol ELSE "S",
   url |-> url, faults |-> faults]
MCConfig(url, rules) == [url |-> url, rules |-> rules]
MCPrice(id, key, url) == MCRow(id, "price", key, url, {})

(* A rotation of the default webhook, saves with blanks and with a rule's  *)
(* own webhook, two rules of one condition, a placeholder, and what the    *)
(* route or the validation refuses.                                        *)
MCPayload ==
  {MCConfig("new", <<MCPrice("r1", "k1", NoUrl)>>),
   MCConfig(NoUrl, <<MCPrice("r1", "k1", NoUrl), MCPrice("r2", "k1", "own")>>),
   MCConfig(NoUrl, <<MCPrice("r2", "k2", "own"), MCPrice("r1", "k1", Placeholder)>>),
   MCConfig(Placeholder, <<MCRow("r2", "compound", NoKey, NoUrl, {})>>),
   MCConfig(NoUrl, <<MCRow("r2", "rsi", NoKey, NoUrl, {"value"})>>),
   MCConfig(NoUrl, <<MCPrice("r1", "k1", NoUrl), MCPrice("r1", "k1", NoUrl)>>),
   MCConfig(NoUrl, <<MCPrice("r1", "k1", NoUrl), MCPrice("r2", "k1", NoUrl),
                     MCPrice("r3", "k1", NoUrl)>>)}

MCLegacy ==
  {NoRow, Garbled,
   MCConfig("old", <<MCPrice("r1", "k1", "own"), MCRow(NoId, "other", NoKey, NoUrl, {})>>),
   MCConfig("old", <<MCRow("r1", "price", NoKey, NoUrl, {"symbol"})>>)}
--------------------------------------------------------------------------------
(* Limits: two windows of different length; a request matches one or both. *)
MCRuleLimit(r) == IF r = "a" THEN 2 ELSE 1
MCRuleWindow(r) == IF r = "a" THEN 2 ELSE 3
MCMatching == {<<"a">>, <<"b", "a">>}

(* Two starts of the worker, one of the API beside them. *)
MCMaxLife == [worker |-> 2, api |-> 1]
--------------------------------------------------------------------------------
(* Delivery: hosted over SMTP, a laptop with a broken Mailgun domain and   *)
(* one with a key of it; rules with the process's channels, without any    *)
(* address, and with an address and a server of their own.                 *)
MCSmtp(host, user, password, port) ==
  [host |-> host, user |-> user, password |-> password, port |-> port]
MCNoSmtp == MCSmtp("none", "none", "none", "none")
MCRuleOf(notifications, url, to, smtp) ==
  [notifications |-> notifications, url |-> url, to |-> to, from |-> "none",
   optIn |-> "unset", smtp |-> smtp]
MCEnv(hosted, provider, domain) ==
  [hosted |-> hosted, url |-> "good", to |-> "good", from |-> "good", provider |-> provider,
   sendgridKey |-> provider = "", mailgunKey |-> TRUE, mailgunDomain |-> domain,
   mailgunBase |-> "default", smtp |-> MCSmtp("good", "good", "good", "none")]
MCSetting ==
  {[rule |-> r, defaults |-> [url |-> "none", to |-> "good"], env |-> e] :
     r \in {MCRuleOf(<<"log", "email", "webhook">>, "good", "none", MCNoSmtp),
            MCRuleOf(<<"log", "webhook">>, "none", "none", MCNoSmtp),
            MCRuleOf(<<"email">>, "bad", "bad", MCSmtp("good", "good", "good", "bad"))},
     e \in {MCEnv(TRUE, "smtp", "none"), MCEnv(FALSE, "mailgun", "bad"), MCEnv(FALSE, "", "good")}}

(* The threads that update a local file are the dashboard's. *)
OneProcess(t) == "api"
--------------------------------------------------------------------------------
(* A directory to import: bars of one date that parse and of one that do   *)
(* not, and summaries with projections in them, on one date beside a file  *)
(* of projections.                                                         *)
MCLegacyFiles ==
  {[bars |-> [d \in Date |-> IF d = 0 THEN "good" ELSE "bad"],
    projections |-> [d \in Date |-> IF d = 0 THEN "none" ELSE "good"],
    summaries |-> [d \in Date |-> "embedding"]]}

(* A release that knows two migrations beside two that know three. *)
MCReleaseOf(p) == IF p = "old" THEN 2 ELSE 3
--------------------------------------------------------------------------------
(* Rules: leaves of every kind, one with a threshold that is no number,    *)
(* compounds of both kinds, a compound in a compound, which is malformed.  *)
MCPriceRule(s, operator, value) ==
  [type |-> "price_threshold", symbol |-> s, operator |-> operator, value |-> value]
MCRsiRule(s, operator, value) ==
  [type |-> "rsi_threshold", symbol |-> s, operator |-> operator, value |-> value, period |-> 2]
MCScreen ==
  [type |-> "screening_match", filters |-> [price_min |-> 2, volume_threshold |-> 0]]
MCCompound(op, leaves) == [type |-> "compound", op |-> op, leaves |-> leaves]
MCRule ==
  {MCPriceRule("A", "less_than", 2), MCPriceRule("A", "equal", Bad),
   MCRsiRule("A", "greater_or_equal", 60), MCScreen,
   MCCompound("or", <<MCPriceRule("A", "greater_than", 1), MCPriceRule("B", "less_or_equal", 1)>>),
   MCCompound("and", <<MCPriceRule("A", "greater_than", 1), MCRsiRule("A", "less_than", 40)>>),
   MCCompound("and", <<MCRsiRule("B", "greater_than", 50), MCScreen>>),
   MCCompound("or", <<MCCompound("and", <<MCPriceRule("A", "greater_than", 1)>>)>>)}
MCTimed(c) == [i \in DOMAIN c |-> [time |-> Len(c) - i, close |-> c[i]]]
MCUntimed(c) == [i \in DOMAIN c |-> [time |-> Bad, close |-> c[i]]]
MCHistory ==
  {[candles |-> MCTimed(<<3, 1>>), timed |-> TRUE, bars |-> <<1, 2, 3, 1>>],
   [candles |-> <<>>, timed |-> TRUE, bars |-> <<4, 3, 2, 1>>],
   [candles |-> MCTimed(<<1, Bad, 2, 3>>), timed |-> TRUE, bars |-> <<>>],
   [candles |-> MCUntimed(<<1, 2, Bad, 3>>), timed |-> FALSE, bars |-> <<>>]}
--------------------------------------------------------------------------------
(* Two indices that share a symbol; "b" is watched and in the first, "w"   *)
(* is watched and in neither.                                              *)
MCIndexNames == <<"sp", "dow">>
MCPackageList(x) == IF x = "sp" THEN <<"a", "b", "c">> ELSE <<"a", "d">>
MCFallbackList(x) == <<"a">>
MCSaneSize(x) == IF x = "sp" THEN 3 ELSE 2
MCVolume(s) == CASE s = "a" -> 3 [] s \in {"b", "c"} -> 2 [] OTHER -> 1
--------------------------------------------------------------------------------
(* Days 0 to 14, of which four have no session; the runs see 2 to 5.       *)
MCSessions == 0..14 \ {3, 10, 11, 13}
--------------------------------------------------------------------------------
(* The component that moves may start in any of its initial states, the   *)
(* others rest in one.                                                     *)
SideInit ==
  /\ component \in Component
  /\ QueueInit
  /\ StoreInit
  /\ component # "store" => stored = [u \in User |-> NoRow]
  /\ AccountsInit
  /\ LimitsInit
  /\ LimiterInit
  /\ HealthInit
  /\ DeliveryInit
  /\ component # "delivery" => setting = CHOOSE s \in Setting : TRUE
  /\ FilesInit
  /\ component # "files" => file = CHOOSE f \in File : TRUE
  /\ MarketInit
  /\ MigrationInit
  /\ component # "migrations" => versions = {} /\ \A v \in Version : tables[v] = 0
  /\ RulesInit
  /\ component # "rules" => /\ rule = CHOOSE r \in Rule : TRUE
                            /\ history = [s \in Ticker |-> CHOOSE h \in History : TRUE]
  /\ CollectionInit
  /\ BacktestInit
  /\ component # "backtest" => quotedOn = SessionAtOrBefore(DayOf(FirstInstant) - 1)

OthersRest ==
  /\ UNCHANGED component
  /\ IF component = "queue" THEN TRUE ELSE UNCHANGED queueVars
  /\ IF component = "store" THEN TRUE ELSE UNCHANGED storeVars
  /\ IF component = "accounts" THEN TRUE ELSE UNCHANGED accountVars
  /\ IF component = "limits" THEN TRUE ELSE UNCHANGED limitVars
  /\ IF component = "limiter" THEN TRUE ELSE UNCHANGED limiterVars
  /\ IF component = "health" THEN TRUE ELSE UNCHANGED healthVars
  /\ IF component = "delivery" THEN TRUE ELSE UNCHANGED deliveryVars
  /\ IF component = "files" THEN TRUE ELSE UNCHANGED fileVars
  /\ IF component = "market" THEN TRUE ELSE UNCHANGED marketVars
  /\ IF component = "migrations" THEN TRUE ELSE UNCHANGED migrationVars
  /\ IF component = "rules" THEN TRUE ELSE UNCHANGED ruleVars
  /\ IF component = "collection" THEN TRUE ELSE UNCHANGED collectionVars
  /\ IF component = "backtest" THEN TRUE ELSE UNCHANGED backtestVars

SideNext ==
  \/ component = "queue" /\ QueueNext /\ OthersRest
  \/ component = "store" /\ StoreNext /\ OthersRest
  \/ component = "accounts" /\ AccountsNext /\ OthersRest
  \/ component = "limits" /\ LimitsNext /\ OthersRest
  \/ component = "limiter" /\ LimiterNext /\ OthersRest
  \/ component = "health" /\ HealthNext /\ OthersRest
  \/ component = "delivery" /\ DeliveryNext /\ OthersRest
  \/ component = "files" /\ FilesNext /\ OthersRest
  \/ component = "market" /\ MarketNext /\ OthersRest
  \/ component = "migrations" /\ MigrationNext /\ OthersRest
  \/ component = "rules" /\ RulesNext /\ OthersRest
  \/ component = "collection" /\ CollectionNext /\ OthersRest
  \/ component = "backtest" /\ BacktestNext /\ OthersRest

sideVars ==
  <<component, queueVars, storeVars, accountVars, limitVars, limiterVars, healthVars,
    deliveryVars, fileVars, marketVars, migrationVars, ruleVars, collectionVars,
    backtestVars>>

SideSpec == SideInit /\ [][SideNext]_sideVars

(* Every component keeps its types, and the bookkeeping each of them       *)
(* states beside its types.                                                *)
ComponentsTypeOK ==
  /\ StoreTypeOK /\ AccountsTypeOK /\ LimitsTypeOK /\ LimiterTypeOK /\ HealthTypeOK
  /\ DeliveryTypeOK /\ FilesTypeOK /\ MarketTypeOK /\ MigrationTypeOK /\ RulesTypeOK
  /\ CollectionTypeOK /\ BacktestTypeOK
================================================================================
