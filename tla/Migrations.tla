------------------------------- MODULE Migrations -------------------------------
(***************************************************************************)
(* Schema migrations (apply_migrations and init_database in                *)
(* src/storage/database.py).  Every process of a deployment brings the     *)
(* database to the schema of its release before it uses it, in one         *)
(* transaction under the writer mutex; during a rollout processes of two   *)
(* releases start side by side, and any of them can die at any step.       *)
(*                                                                         *)
(* The statements of a version are ALTER TABLE or CREATE ... IF NOT EXISTS:*)
(* only the latter can be repeated.  A database of before the migrations   *)
(* has the tables of version 1 and no schema_migrations.                   *)
(***************************************************************************)
EXTENDS Naturals

CONSTANTS Instance,        \* processes of the deployment
          ReleaseOf(_),    \* instance -> LATEST_SCHEMA_VERSION of its release
          LastRelease,     \* newest release
          Repeatable,      \* versions whose statements can all be repeated
          MaxDeaths        \* bound: processes that die

(* The statements of version 1 are all CREATE ... IF NOT EXISTS. *)
ASSUME MigrationAssumption ==
  /\ LastRelease \in Nat \ {0} /\ Repeatable \subseteq 1..LastRelease
  /\ 1 \in Repeatable
  /\ \A p \in Instance : ReleaseOf(p) \in 1..LastRelease

VARIABLES
  tables,     \* version -> how often its statements were executed, committed
  versions,   \* rows of schema_migrations, committed
  draft,      \* process in a transaction -> tables and versions it sees, read set
  phase,      \* process -> "off", "wait", "migrate", "serve", or why it failed:
              \* "newer" schema, "broken" database or "clash" with another process
  deaths

migrationVars == <<tables, versions, draft, phase, deaths>>

Version == 1..LastRelease
Executed(v, n) == [w \in Version |-> IF w = v THEN n[w] + 1 ELSE n[w]]
--------------------------------------------------------------------------------
(* Slips: variants of definitions below with a plausible bug in them.      *)
SlipNoBegin(p) == TRUE
--------------------------------------------------------------------------------
MigrationInit ==
  /\ \E n \in 0..LastRelease :
       /\ versions = 1..n
       /\ \/ tables = [v \in Version |-> IF v <= n THEN 1 ELSE 0]
          \/ n = 0 /\ tables = [v \in Version |-> IF v = 1 THEN 1 ELSE 0]
  /\ draft = [p \in Instance |-> [read |-> {}, tables |-> tables, versions |-> versions]]
  /\ phase = [p \in Instance |-> "off"]
  /\ deaths = 0

To(p, where) == phase' = [phase EXCEPT ![p] = where]

StartInstance(p) ==
  /\ phase[p] = "off"
  /\ To(p, "wait")
  /\ UNCHANGED <<tables, versions, draft, deaths>>

(* BEGIN IMMEDIATE: one transaction at a time. *)
Begins(p) == \A q \in Instance : phase[q] # "migrate"

(* Versions of a release that this one does not know. *)
NoneNewer(p) == versions \subseteq 1..ReleaseOf(p)

BeginMigration(p) ==
  /\ phase[p] = "wait" /\ Begins(p)
  /\ IF NoneNewer(p) THEN To(p, "migrate") ELSE To(p, "newer")
  /\ draft' = [draft EXCEPT ![p] = [read |-> versions, tables |-> tables, versions |-> versions]]
  /\ UNCHANGED <<tables, versions, deaths>>

Pending(p) == {v \in 1..ReleaseOf(p) : v \notin draft[p].versions}

(* The statements of the next version and its row.  A statement that       *)
(* cannot be repeated fails, and everything is rolled back.                *)
ApplyVersion(p) ==
  \E v \in Pending(p) :
    /\ phase[p] = "migrate" /\ \A o \in Pending(p) : v <= o
    /\ IF draft[p].tables[v] > 0 /\ v \notin Repeatable
       THEN To(p, "clash") /\ UNCHANGED draft
       ELSE /\ draft' = [draft EXCEPT ![p].tables = Executed(v, @),
                                      ![p].versions = @ \cup {v}]
            /\ UNCHANGED phase
    /\ UNCHANGED <<tables, versions, deaths>>

(* The connection is lost or the disk is full. *)
MigrationFails(p) ==
  /\ phase[p] \in {"wait", "migrate"}
  /\ To(p, "broken")
  /\ UNCHANGED <<tables, versions, draft, deaths>>

(* The version is the primary key of schema_migrations. *)
CommitMigration(p) ==
  LET mine == draft[p].versions \ draft[p].read
  IN /\ phase[p] = "migrate" /\ Pending(p) = {}
     /\ IF mine \cap versions # {}
        THEN To(p, "clash") /\ UNCHANGED <<tables, versions>>
        ELSE /\ tables' = [v \in Version |-> IF v \in mine THEN tables[v] + 1 ELSE tables[v]]
             /\ versions' = versions \cup mine
             /\ To(p, "serve")
     /\ UNCHANGED <<draft, deaths>>

InstanceDies(p) ==
  /\ phase[p] \in {"wait", "migrate", "serve"} /\ deaths < MaxDeaths
  /\ deaths' = deaths + 1
  /\ To(p, "off")
  /\ UNCHANGED <<tables, versions, draft>>

(* The supervisor starts it again. *)
StartAgainFailed(p) ==
  /\ phase[p] \in {"newer", "broken", "clash"} /\ deaths < MaxDeaths
  /\ deaths' = deaths + 1
  /\ To(p, "off")
  /\ UNCHANGED <<tables, versions, draft>>

MigrationNext ==
  \E p \in Instance :
    \/ StartInstance(p) \/ BeginMigration(p) \/ ApplyVersion(p) \/ CommitMigration(p)
    \/ MigrationFails(p) \/ InstanceDies(p) \/ StartAgainFailed(p)

MigrationSpec == MigrationInit /\ [][MigrationNext]_migrationVars
--------------------------------------------------------------------------------
MigrationTypeOK ==
  /\ versions \subseteq Version
  /\ tables \in [Version -> Nat]
  /\ phase \in [Instance -> {"off", "wait", "migrate", "serve", "newer", "broken", "clash"}]
  /\ draft \in [Instance -> [read : SUBSET Version, tables : [Version -> Nat],
                             versions : SUBSET Version]]

TablesMatch(executed, recorded) ==
  \A v \in Version \ {1} : executed[v] = (IF v \in recorded THEN 1 ELSE 0)

(* The database has the statements of exactly the versions it says it has, *)
(* each executed once, whoever died during a rollout; version 1 alone may  *)
(* find its tables there.  A process that serves has every table of its    *)
(* release, and none fails to start because another one starts.            *)
SchemaIsWhole ==
  /\ TablesMatch(tables, versions)
  /\ \A p \in Instance : phase[p] = "serve" => 1..ReleaseOf(p) \subseteq versions
  /\ \A p \in Instance : phase[p] # "clash"

(* One process migrates at a time, and what it has read is what is there.  *)
DraftIsCurrent ==
  /\ \A p, q \in Instance : phase[p] = "migrate" /\ phase[q] = "migrate" => p = q
  /\ \A p \in Instance : phase[p] = "migrate" =>
       /\ draft[p].read = versions
       /\ versions \subseteq draft[p].versions
       /\ TablesMatch(draft[p].tables, draft[p].versions)

MigrationInv == MigrationTypeOK /\ DraftIsCurrent /\ SchemaIsWhole
================================================================================
