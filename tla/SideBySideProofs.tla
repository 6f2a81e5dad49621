---------------------------- MODULE SideBySideProofs ----------------------------
(*****************************************************************************)
(* The components put next to each other, for any values of their constants: *)
(* a behaviour of MCSideBySide is one of every component's specification, so *)
(* whatever is proved of a component holds in the run of all of them.        *)
(*****************************************************************************)
EXTENDS MCSideBySide, AlertJobsProofs, StorageProofs, DashboardProofs, MarketDataProofs,
        AlertsProofs

(* A component moves as its own specification says, or rests.                *)
LEMMA MovesOrRests ==
  ASSUME [SideNext]_sideVars
  PROVE  /\ [QueueNext]_queueVars
         /\ [StoreNext]_storeVars /\ [AccountsNext]_accountVars
         /\ [LimitsNext]_limitVars /\ [LimiterNext]_limiterVars
         /\ [HealthNext]_healthVars /\ [DeliveryNext]_deliveryVars
         /\ [FilesNext]_fileVars /\ [MarketNext]_marketVars
         /\ [MigrationNext]_migrationVars /\ [RulesNext]_ruleVars
         /\ [CollectionNext]_collectionVars /\ [BacktestNext]_backtestVars
<1>1. CASE UNCHANGED sideVars
  BY <1>1 DEF sideVars
<1>2. CASE SideNext
  <2>1. OthersRest
    BY <1>2 DEF SideNext
  <2>2. /\ component = "queue" => QueueNext
        /\ component = "store" => StoreNext
        /\ component = "accounts" => AccountsNext
        /\ component = "limits" => LimitsNext
        /\ component = "limiter" => LimiterNext
        /\ component = "health" => HealthNext
        /\ component = "delivery" => DeliveryNext
        /\ component = "files" => FilesNext
        /\ component = "market" => MarketNext
        /\ component = "migrations" => MigrationNext
        /\ component = "rules" => RulesNext
        /\ component = "collection" => CollectionNext
        /\ component = "backtest" => BacktestNext
    BY <1>2 DEF SideNext
  <2> QED
    BY <2>1, <2>2 DEF OthersRest
<1> QED
  BY <1>1, <1>2

(* A behaviour of the components side by side is a behaviour of each.        *)
THEOREM EachBehaves ==
  SideSpec => /\ QueueSpec
              /\ StoreSpec /\ AccountsSpec /\ LimitsSpec /\ LimiterSpec
              /\ HealthSpec /\ DeliverySpec /\ FilesSpec /\ MarketSpec
              /\ MigrationSpec /\ RulesSpec /\ CollectionSpec /\ BacktestSpec
<1>1. SideInit => /\ QueueInit
                  /\ StoreInit /\ AccountsInit /\ LimitsInit /\ LimiterInit
                  /\ HealthInit /\ DeliveryInit /\ FilesInit /\ MarketInit
                  /\ MigrationInit /\ RulesInit /\ CollectionInit /\ BacktestInit
  BY DEF SideInit
<1> QED
  BY <1>1, MovesOrRests, PTL
     DEF SideSpec, QueueSpec, StoreSpec, AccountsSpec, LimitsSpec, LimiterSpec, HealthSpec,
         DeliverySpec, FilesSpec, MarketSpec, MigrationSpec, RulesSpec, CollectionSpec, BacktestSpec

(* The type invariants and the bookkeeping of the twelve components beside   *)
(* the queue, for any values of their constants.                             *)
THEOREM ComponentsTypes == SideSpec => []ComponentsTypeOK
<1>1. SideSpec => /\ []StoreTypeOK /\ []AccountsTypeOK /\ []LimitsTypeOK /\ []LimiterTypeOK
                  /\ []HealthTypeOK /\ []DeliveryTypeOK /\ []FilesTypeOK /\ []MarketTypeOK
                  /\ []MigrationTypeOK /\ []RulesTypeOK /\ []CollectionTypeOK
                  /\ []BacktestTypeOK
  BY EachBehaves, StoreTypeCorrect, AccountsTypes, LimitsTypes, LimiterTypes, HealthTypes,
     DeliveryTypes, FilesTypes, MarketTypes, MigrationSerialised, RulesTypes,
     CollectionTypes, BacktestTypes, PTL
<1>2. ASSUME StoreTypeOK, AccountsTypeOK, LimitsTypeOK, LimiterTypeOK, HealthTypeOK,
             DeliveryTypeOK, FilesTypeOK, MarketTypeOK, MigrationTypeOK, RulesTypeOK,
             CollectionTypeOK, BacktestTypeOK
      PROVE  ComponentsTypeOK
  BY <1>2 DEF ComponentsTypeOK
<1> QED
  BY <1>1, <1>2, PTL
================================================================================
