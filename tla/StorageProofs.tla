----------------------------- MODULE StorageProofs -----------------------------
(*****************************************************************************)
(* What is stored stays whole: the index of watch rows follows the stored    *)
(* configurations, and a rollout keeps the schema, for any number of         *)
(* processes, users and releases.                                            *)
(*****************************************************************************)
EXTENDS AlertConfigStore, Migrations, DataLemmas
--------------------------------------------------------------------------------
(*****************************************************************************)
(* Alert configurations. The mutex makes what a transaction has read what    *)
(* is still stored when it commits; the refinement of the index rests on     *)
(* that.                                                                     *)
(*****************************************************************************)

Write == {"save", "init", "forcedInit"}

TaskTyped ==
  /\ DOMAIN stored = User /\ DOMAIN watches = User /\ DOMAIN task = Process
  /\ writer \in Process \cup {Nobody}
  /\ \A p \in Process :
       /\ task[p].op \in Write \cup {"idle", "initChecked", "backfill"}
       /\ task[p].op \in Write \cup {"initChecked"} => task[p].user \in User

StoreInv == TaskTyped /\ StoreTypeOK /\ ReadyIsIndexed

LEMMA StoreInvInit == StoreInit => StoreInv
  BY StoreAssumption
  DEF StoreInit, StoreInv, TaskTyped, StoreTypeOK, ReadyIsIndexed, Process, Idle, Write, Writes

(* Rows are made of rules that have an id.                                 *)
LEMMA RowsAreNamed == ASSUME NEW c, NEW r \in RowsOf(c) PROVE r.rule.id # NoId
  BY DEF RowsOf, Named

(* A transaction begins: nobody is inside one, and it reads what is there. *)
LEMMA BeginInv ==
  ASSUME StoreInv, NEW p \in Process, NEW t, Begin(p, t),
         t.op \in Write \cup {"backfill"},
         t.op \in Write => t.user \in User /\ t.old = stored[t.user],
         t.op = "backfill" => t.seen = stored
  PROVE  StoreInv'
  <1>. USE DEF StoreInv, Begin
  <1>0. \A q \in Process : task[q].op \in {"idle", "initChecked"}
    BY StoreAssumption DEF MutexFree, StoreTypeOK, Process
  <1>1. \A q \in Process : task'[q] = IF q = p THEN t ELSE task[q] BY DEF TaskTyped
  <1>2. TaskTyped' BY <1>1 DEF TaskTyped
  <1>3. StoreTypeOK' BY <1>0, <1>1 DEF StoreTypeOK, Writes, Write
  <1>4. ReadyIsIndexed' BY DEF ReadyIsIndexed
  <1>. QED BY <1>2, <1>3, <1>4

(* Whoever ends a transaction was the only one inside one, so no other     *)
(* transaction has read what it writes.                                    *)
LEMMA EndInv ==
  ASSUME StoreInv, NEW p \in Process, End(p),
         task[p].op \in Write \cup {"backfill"} \/ UNCHANGED <<stored, watches>>,
         DOMAIN stored' = User, DOMAIN watches' = User,
         \A u \in User : \A r \in watches'[u] : r.rule.id # NoId,
         ready' \subseteq Process, ReadyIsIndexed'
  PROVE  StoreInv'
  <1>. USE DEF StoreInv
  <1>1. \A q \in Process : task'[q] = IF q = p THEN Idle ELSE task[q] BY DEF End, TaskTyped
  <1>2. TaskTyped' BY <1>1 DEF End, TaskTyped, Idle, Write
  <1>3. \A q \in Process : writer' = q <=> task'[q].op \notin {"idle", "initChecked"}
    BY <1>1, StoreAssumption DEF End, StoreTypeOK, Idle, Process
  <1>4. CASE UNCHANGED <<stored, watches>>
    BY <1>1, <1>2, <1>3, <1>4 DEF StoreTypeOK, Writes, Idle
  <1>5. CASE task[p].op \in Write \cup {"backfill"}
    <2>1. writer = p BY <1>5 DEF StoreTypeOK, Write
    <2>2. \A q \in Process : task'[q].op \in {"idle", "initChecked"}
      BY <1>1, <2>1 DEF StoreTypeOK, Idle
    <2>. QED BY <1>2, <1>3, <2>2 DEF StoreTypeOK, Writes
  <1>. QED BY <1>4, <1>5

LEMMA StoreInvStep == StoreInv /\ [StoreNext]_storeVars => StoreInv'
  <1>. SUFFICES ASSUME StoreInv, [StoreNext]_storeVars PROVE StoreInv'
    OBVIOUS
  <1>0. CASE UNCHANGED storeVars
    BY <1>0 DEF storeVars, StoreInv, TaskTyped, StoreTypeOK, ReadyIsIndexed, Writes
  <1>1. ASSUME NEW p \in Process, NEW u \in User, NEW c, PutConfig(p, u, c) PROVE StoreInv'
    <2>1. /\ SaveTask("save", u, c).op = "save" /\ SaveTask("save", u, c).user = u
          /\ SaveTask("save", u, c).old = stored[u]
      BY DEF SaveTask
    <2>. QED BY <1>1, <2>1, BeginInv DEF PutConfig, Write
  <1>2. ASSUME NEW p \in Process, NEW u \in User, NEW force, CheckInit(p, u, force) PROVE StoreInv'
    <2>. DEFINE t == [op |-> "initChecked", user |-> u, force |-> force]
    <2>1. /\ task[p] = Idle /\ task' = [task EXCEPT ![p] = t]
          /\ UNCHANGED <<stored, watches, writer, ready>>
      BY <1>2 DEF CheckInit, Serving
    <2>2. t.op = "initChecked" /\ t.user = u OBVIOUS
    <2>. HIDE DEF t
    <2>3. \A q \in Process : task'[q] = IF q = p THEN t ELSE task[q]
      BY <2>1 DEF StoreInv, TaskTyped
    <2>4. TaskTyped' BY <2>1, <2>2, <2>3 DEF StoreInv, TaskTyped, Write
    <2>5. StoreTypeOK' BY <2>1, <2>2, <2>3 DEF StoreInv, StoreTypeOK, Writes, Idle
    <2>6. ReadyIsIndexed' BY <2>1 DEF StoreInv, ReadyIsIndexed
    <2>. QED BY <2>4, <2>5, <2>6 DEF StoreInv
  <1>3. ASSUME NEW p \in Process, InitConfig(p) PROVE StoreInv'
    <2>. DEFINE t == SaveTask(IF task[p].force THEN "forcedInit" ELSE "init",
                              task[p].user, EmptyConfig)
    <2>1. task[p].user \in User /\ Begin(p, t) BY <1>3 DEF InitConfig, StoreInv, TaskTyped
    <2>2. t.op \in Write /\ t.user = task[p].user /\ t.old = stored[task[p].user]
      BY DEF SaveTask, Write
    <2>. HIDE DEF t
    <2>. QED BY <2>1, <2>2, BeginInv DEF Write
  <1>4. ASSUME NEW p \in Process, CommitSave(p) PROVE StoreInv'
    <2>. DEFINE u == task[p].user
                c == Result(p)
    <2>1. /\ task[p].op \in Write /\ u \in User
          /\ stored' = [stored EXCEPT ![u] = c] /\ watches' = [watches EXCEPT ![u] = RowsOf(c)]
          /\ End(p) /\ UNCHANGED ready
      BY <1>4 DEF CommitSave, Writes, Write, StoreInv, TaskTyped
    <2>. HIDE DEF u, c
    <2>2. DOMAIN stored' = User /\ DOMAIN watches' = User
      BY <2>1 DEF StoreInv, TaskTyped
    <2>3. \A v \in User : /\ stored'[v] = IF v = u THEN c ELSE stored[v]
                         /\ watches'[v] = IF v = u THEN RowsOf(c) ELSE watches[v]
      BY <2>1 DEF StoreInv, TaskTyped
    <2>4. \A v \in User : \A r \in watches'[v] : r.rule.id # NoId
      BY <2>3, RowsAreNamed DEF StoreInv, StoreTypeOK
    <2>5. ReadyIsIndexed' BY <2>1, <2>3 DEF StoreInv, ReadyIsIndexed
    <2>. QED BY <2>1, <2>2, <2>4, <2>5, EndInv DEF StoreInv, StoreTypeOK
  <1>5. ASSUME NEW p \in Process, RejectSave(p) PROVE StoreInv'
    BY <1>5, EndInv DEF RejectSave, StoreInv, TaskTyped, StoreTypeOK, ReadyIsIndexed
  <1>6. ASSUME NEW p \in Process, BeginBackfill(p) PROVE StoreInv'
    <2>. DEFINE t == [op |-> "backfill", seen |-> stored]
    <2>1. Begin(p, t) BY <1>6 DEF BeginBackfill
    <2>2. t.op = "backfill" /\ t.seen = stored OBVIOUS
    <2>. HIDE DEF t
    <2>. QED BY <2>1, <2>2, BeginInv DEF Write
  <1>7. ASSUME NEW p \in Process, EndBackfill(p) PROVE StoreInv'
    <2>1. /\ task[p].op = "backfill" /\ task[p].seen = stored
          /\ watches' = [u \in User |-> IF SoundConfig(stored[u]) THEN RowsOf(stored[u])
                                       ELSE watches[u]]
          /\ ready' = ready \cup {p} /\ End(p) /\ UNCHANGED stored
      BY <1>7 DEF EndBackfill, Indexable, StoreInv, StoreTypeOK
    <2>2. \A v \in User : \A r \in watches'[v] : r.rule.id # NoId
      BY <2>1, RowsAreNamed DEF StoreInv, StoreTypeOK
    <2>3. ReadyIsIndexed' BY <2>1 DEF ReadyIsIndexed
    <2>4. DOMAIN stored' = User /\ DOMAIN watches' = User /\ ready' \subseteq Process
      BY <2>1 DEF StoreInv, TaskTyped, StoreTypeOK
    <2>. QED BY <2>1, <2>2, <2>3, <2>4, EndInv
  <1>8. ASSUME NEW p \in Process, Restart(p) PROVE StoreInv'
    <2>1. ReadyIsIndexed' BY <1>8 DEF Restart, StoreInv, ReadyIsIndexed
    <2>. QED BY <1>8, <2>1, EndInv DEF Restart, StoreInv, TaskTyped, StoreTypeOK
  <1>. QED BY <1>0, <1>1, <1>2, <1>3, <1>4, <1>5, <1>6, <1>7, <1>8 DEF StoreNext

(* The mutex and the tasks that run under it agree, and what is indexed is *)
(* what is stored.                                                         *)
THEOREM StoreInvariant == StoreSpec => []StoreInv
  BY StoreInvInit, StoreInvStep, PTL DEF StoreSpec

(* The mutex is held by the one process in a transaction, and what that    *)
(* process has read is still stored.                                       *)
THEOREM StoreTypeCorrect == StoreSpec => []StoreTypeOK
  <1>1. StoreInv => StoreTypeOK BY DEF StoreInv
  <1>. QED BY <1>1, StoreInvariant, PTL

(* Behind the init_database of any process, every readable configuration   *)
(* is indexed, whatever is saved, rebuilt or restarted at the same time.   *)
THEOREM IndexIsComplete == StoreSpec => []ReadyIsIndexed
  <1>1. StoreInv => ReadyIsIndexed BY DEF StoreInv
  <1>. QED BY <1>1, StoreInvariant, PTL

(* Every step of the store is a step of an index over it: a save writes    *)
(* both, a rebuild copies what is stored, and nothing else touches them.   *)
THEOREM StoreImplementsIndex == StoreSpec => ImplementsIndex
  <1>1. StoreInv /\ [StoreNext]_storeVars => [Index!IndexNext]_(Index!indexVars)
    <2>. SUFFICES ASSUME StoreInv, [StoreNext]_storeVars,
                         ~ UNCHANGED <<stored, watches>>
                  PROVE  Index!IndexNext
      BY DEF Index!indexVars
    <2>1. ASSUME NEW p \in Process, CommitSave(p) PROVE Index!IndexNext
      <3>. DEFINE u == task[p].user
      <3>1. u \in User /\ DOMAIN stored = User
        BY <2>1 DEF CommitSave, Writes, Write, StoreInv, TaskTyped
      <3>2. stored'[u] = Result(p) BY <2>1, <3>1 DEF CommitSave
      <3>3. Index!StoreBoth(u, Result(p)) BY <2>1 DEF CommitSave, Index!StoreBoth
      <3>. HIDE DEF u
      <3>. QED BY <3>1, <3>2, <3>3 DEF Index!IndexNext
    <2>2. ASSUME NEW p \in Process, EndBackfill(p) PROVE Index!IndexNext
      <3>1. task[p].seen = stored BY <2>2 DEF EndBackfill, StoreInv, StoreTypeOK
      <3>2. Index!RefreshIndex BY <2>2, <3>1 DEF EndBackfill, Indexable, Index!RefreshIndex
      <3>. QED BY <3>2 DEF Index!IndexNext
    <2>. QED
      BY <2>1, <2>2
      DEF StoreNext, storeVars, PutConfig, CheckInit, InitConfig, RejectSave, BeginBackfill, Restart,
          Begin
  <1>. QED BY <1>1, StoreInvariant, PTL DEF StoreSpec, ImplementsIndex, Index!IndexSpec
--------------------------------------------------------------------------------
(* What becomes of the webhooks of a configuration that is saved over.     *)
RulesOf(rules) == {rules[i] : i \in 1..Len(rules)}

(* One step of the loop that drops rules of a key that was seen.           *)
DedupeStep(rules) ==
  [p \in (1..Len(rules)) \X Seq(RulesOf(rules)) |->
     IF ~Seen(rules, p[1]) THEN Append(p[2], rules[p[1]]) ELSE p[2]]

(* The loop invents no rule. *)
LEMMA DedupeKeeps ==
  ASSUME NEW rules, Len(rules) \in Nat
  PROVE  Dedupe(rules) \in Seq(RulesOf(rules))
<1> DEFINE n == Len(rules)
           V == Seq(RulesOf(rules))
<1>1. \A i \in 1..n : rules[i] \in RulesOf(rules)
  BY DEF RulesOf
<1>2. DedupeStep(rules) \in Steps(n, V)
  <2>1. ASSUME NEW p \in (1..n) \X V
        PROVE  (IF ~Seen(rules, p[1]) THEN Append(p[2], rules[p[1]]) ELSE p[2]) \in V
    <3>1. p[2] \in V /\ rules[p[1]] \in RulesOf(rules)
      BY <1>1
    <3> QED
      BY <3>1, AppendProperties
  <2> QED
    BY <2>1 DEF DedupeStep, Steps
<1>3. PICK f \in [0..n -> V] :
        f[0] = <<>> /\ \A i \in 1..n : f[i] = DedupeStep(rules)[<<i, f[i - 1]>>]
  <2> DEFINE first == <<>>
  <2>1. first \in V
    OBVIOUS
  <2> HIDE DEF n, V, first
  <2>2. Loop(n, V, first, DedupeStep(rules)) # {}
    BY <1>2, <2>1, LoopRuns DEF n
  <2> QED
    BY <2>2 DEF Loop, first
<1> DEFINE Once(g) ==
      [i \in 0..n |->
         CASE i = 0 -> <<>>
           [] i # 0 /\ ~Seen(rules, i) -> Append(g[i - 1], rules[i])
           [] OTHER -> g[i - 1]]
           unique == CHOOSE g : g = Once(g)
<1>4. ASSUME NEW i \in 0..n PROVE f[i] = Once(f)[i]
  <2>1. CASE i = 0
    BY <2>1, <1>3
  <2>2. CASE i # 0
    <3>1. i \in 1..n /\ i - 1 \in 0..n /\ <<i, f[i - 1]>> \in (1..n) \X V
      BY <2>2
    <3>2. f[i] = IF ~Seen(rules, i) THEN Append(f[i - 1], rules[i]) ELSE f[i - 1]
      BY <3>1, <1>3 DEF DedupeStep
    <3> QED
      BY <2>2, <3>2
  <2> QED
    BY <2>1, <2>2
<1>5. f = Once(f)
  BY <1>4
<1>6. unique = Once(unique)
  <2> HIDE DEF Once
  <2> QED BY <1>5
<1>7. \A i \in 0..n : unique[i] \in V
  <2> DEFINE T == {i \in 0..n : unique[i] \in V}
  <2> HIDE DEF unique
  <2>1. 0 \in T
    BY <1>6
  <2>2. ASSUME NEW i \in 1..n, i - 1 \in T PROVE i \in T
    <3>1. i \in 0..n /\ i # 0 /\ unique[i - 1] \in V
      BY <2>2
    <3>2. unique[i] = IF ~Seen(rules, i) THEN Append(unique[i - 1], rules[i]) ELSE unique[i - 1]
      BY <1>6, <3>1
    <3>3. Append(unique[i - 1], rules[i]) \in V
      BY <3>1, <1>1, AppendProperties
    <3> QED
      BY <3>1, <3>2, <3>3
  <2>3. 0..n \subseteq T
    <3> HIDE DEF T, n
    <3> QED BY <2>1, <2>2, UpTo DEF n
  <2> QED
    BY <2>3
<1> HIDE DEF unique
<1>8. unique[n] \in V
  BY <1>7
<1> QED
  BY <1>8 DEF Dedupe, unique

LEMMA ListOf ==
  ASSUME NEW n \in Nat, NEW f, DOMAIN f = 1..n, f = [i \in 1..n |-> f[i]]
  PROVE  Len(f) = n
<1> DEFINE S == {f[i] : i \in 1..n}
<1>1. f \in [1..n -> S]
  OBVIOUS
<1>2. f \in Seq(S)
  BY <1>1
<1> QED
  BY <1>2, LenProperties

(* The secrets are merged rule by rule. *)
LEMMA MergeKeeps ==
  ASSUME NEW c, ConfigShape(c), NEW old
  PROVE  /\ ConfigShape(MergeSecrets(c, old))
         /\ DOMAIN MergeSecrets(c, old).rules = DOMAIN c.rules
         /\ \A i \in DOMAIN c.rules : MergeSecrets(c, old).rules[i].id = c.rules[i].id
<1>1. CASE old \in {NoRow, Garbled}
  BY <1>1 DEF MergeSecrets
<1>2. CASE old \notin {NoRow, Garbled}
  <2> DEFINE m == MergeSecrets(c, old)
             n == Len(c.rules)
  <2>1. n \in Nat /\ DOMAIN c.rules = 1..n
    BY DEF ConfigShape
  <2>2. /\ DOMAIN m = {"url", "rules"} /\ DOMAIN m.rules = 1..n
        /\ m.rules = [i \in 1..n |-> m.rules[i]]
    BY <1>2, <2>1 DEF MergeSecrets
  <2>3. ASSUME NEW i \in 1..n
        PROVE  DOMAIN m.rules[i] = DOMAIN c.rules[i] /\ m.rules[i].id = c.rules[i].id
    BY <1>2, <2>1 DEF MergeSecrets, ConfigShape, RuleFields
  <2> HIDE DEF m, n
  <2>4. Len(m.rules) = n
    BY <2>1, <2>2, ListOf
  <2>5. ConfigShape(m)
    BY <2>1, <2>2, <2>3, <2>4 DEF ConfigShape, n
  <2> QED
    BY <2>1, <2>2, <2>3, <2>5 DEF m
<1> QED
  BY <1>1, <1>2

(* Every rule of a polished configuration is one of its rules. *)
LEMMA PolishKeeps ==
  ASSUME NEW c, ConfigShape(c)
  PROVE  /\ ConfigShape(Polish(c))
         /\ Polish(c).url = NotPlaceholder(c.url)
         /\ \A k \in DOMAIN Polish(c).rules : \E i \in DOMAIN c.rules :
              /\ Polish(c).rules[k].id = c.rules[i].id
              /\ Polish(c).rules[k].url = NotPlaceholder(c.rules[i].url)
<1> DEFINE n == Len(c.rules)
           blanked == [i \in DOMAIN c.rules |-> [c.rules[i] EXCEPT !.url = NotPlaceholder(@)]]
           kept == Dedupe(blanked)
<1>1. n \in Nat /\ DOMAIN c.rules = 1..n
  BY DEF ConfigShape
<1>2. \A i \in 1..n : /\ DOMAIN blanked[i] = RuleFields /\ blanked[i].id = c.rules[i].id
                      /\ blanked[i].url = NotPlaceholder(c.rules[i].url)
  BY <1>1 DEF ConfigShape, RuleFields
<1>3. DOMAIN blanked = 1..n /\ blanked = [i \in 1..n |-> blanked[i]]
  BY <1>1
<1>4. Polish(c) = [url |-> NotPlaceholder(c.url), rules |-> kept]
  BY DEF Polish
<1> HIDE DEF n, blanked
<1>5. Len(blanked) = n
  BY <1>1, <1>3, ListOf
<1>6. kept \in Seq(RulesOf(blanked))
  BY <1>1, <1>5, DedupeKeeps
<1> HIDE DEF kept
<1>7. Len(kept) \in Nat /\ DOMAIN kept = 1..Len(kept)
  BY <1>6, LenProperties
<1>8. \A k \in DOMAIN kept : \E i \in 1..n : kept[k] = blanked[i]
  BY <1>5, <1>6, <1>7, ElementOfSeq DEF RulesOf
<1>9. ConfigShape(Polish(c))
  BY <1>2, <1>4, <1>7, <1>8 DEF ConfigShape
<1> QED
  BY <1>1, <1>2, <1>4, <1>8, <1>9

(* A save has rules of different ids: the route refuses others.            *)
DistinctIds(c) == \A i, j \in DOMAIN c.rules : c.rules[i].id = c.rules[j].id => i = j

ConfigsShaped ==
  /\ \A u \in User : stored[u] \in {NoRow, Garbled} \/ ConfigShape(stored[u])
  /\ \A p \in Process :
       Writes(p) => ConfigShape(task[p].payload) /\ DistinctIds(task[p].payload)

LEMMA ShapedInit == StoreInit => ConfigsShaped
  BY StoreAssumption DEF StoreInit, ConfigsShaped, Writes, Idle

LEMMA EmptyShaped == ConfigShape(EmptyConfig) /\ DistinctIds(EmptyConfig)
<1>1. EmptyConfig.rules = <<>> /\ DOMAIN EmptyConfig = {"url", "rules"}
  BY DEF EmptyConfig
<1>2. Len(EmptyConfig.rules) = 0 /\ DOMAIN EmptyConfig.rules = {}
  BY <1>1
<1> QED
  BY <1>1, <1>2 DEF ConfigShape, DistinctIds

(* What is merged and polished is a configuration again.                   *)
LEMMA ShapedStep ==
  ASSUME StoreInv, ConfigsShaped, [StoreNext]_storeVars
  PROVE  ConfigsShaped'
<1> USE DEF ConfigsShaped
<1>1. CASE UNCHANGED storeVars
  BY <1>1 DEF storeVars, Writes
<1>2. ASSUME NEW p \in Process, NEW t, task' = [task EXCEPT ![p] = t], UNCHANGED stored,
             t.op \in Write => ConfigShape(t.payload) /\ DistinctIds(t.payload)
      PROVE  ConfigsShaped'
  <2>1. \A q \in Process : task'[q] = IF q = p THEN t ELSE task[q]
    BY <1>2 DEF StoreInv, TaskTyped
  <2> QED
    BY <1>2, <2>1 DEF Writes, Write
<1>3. ASSUME NEW p \in Process, End(p), UNCHANGED stored PROVE ConfigsShaped'
  <2>1. Idle.op \notin Write
    BY DEF Idle, Write
  <2> QED
    BY <1>2, <1>3, <2>1 DEF End
<1>4. ASSUME NEW p \in Process, NEW u \in User, NEW c \in Payload, PutConfig(p, u, c)
      PROVE  ConfigsShaped'
  <2>1. ConfigShape(c) /\ DistinctIds(c)
    BY <1>4, StoreAssumption DEF PutConfig, RouteAccepts, DistinctIds
  <2>2. /\ task' = [task EXCEPT ![p] = SaveTask("save", u, c)] /\ UNCHANGED stored
        /\ SaveTask("save", u, c).payload = c
    BY <1>4 DEF PutConfig, Begin, SaveTask
  <2> QED
    BY <1>2, <2>1, <2>2
<1>5. ASSUME NEW p \in Process, NEW u \in User, NEW force \in BOOLEAN, CheckInit(p, u, force)
      PROVE  ConfigsShaped'
  <2> DEFINE t == [op |-> "initChecked", user |-> u, force |-> force]
  <2>1. task' = [task EXCEPT ![p] = t] /\ UNCHANGED stored /\ t.op \notin Write
    BY <1>5 DEF CheckInit, Write
  <2> HIDE DEF t
  <2> QED
    BY <1>2, <2>1
<1>6. ASSUME NEW p \in Process, InitConfig(p) PROVE ConfigsShaped'
  <2> DEFINE t == SaveTask(IF task[p].force THEN "forcedInit" ELSE "init",
                           task[p].user, EmptyConfig)
  <2>1. task' = [task EXCEPT ![p] = t] /\ UNCHANGED stored /\ t.payload = EmptyConfig
    BY <1>6 DEF InitConfig, Begin, SaveTask
  <2> HIDE DEF t
  <2> QED
    BY <1>2, <2>1, EmptyShaped
<1>7. ASSUME NEW p \in Process, CommitSave(p) PROVE ConfigsShaped'
  <2> DEFINE u == task[p].user
             c == Result(p)
  <2>1. ConfigShape(c)
    BY <1>7, MergeKeeps, PolishKeeps DEF CommitSave, Result
  <2>2. /\ stored' = [stored EXCEPT ![u] = c] /\ task' = [task EXCEPT ![p] = Idle]
        /\ DOMAIN stored = User /\ DOMAIN task = Process
    BY <1>7 DEF CommitSave, End, StoreInv, TaskTyped
  <2> HIDE DEF u, c
  <2>3. \A v \in User : stored'[v] = IF v = u THEN c ELSE stored[v]
    BY <2>2
  <2>4. \A q \in Process : task'[q] = IF q = p THEN Idle ELSE task[q]
    BY <2>2
  <2> QED
    BY <2>1, <2>3, <2>4 DEF Writes, Idle
<1>8. ASSUME NEW p \in Process, BeginBackfill(p) PROVE ConfigsShaped'
  <2> DEFINE t == [op |-> "backfill", seen |-> stored]
  <2>1. task' = [task EXCEPT ![p] = t] /\ UNCHANGED stored /\ t.op \notin Write
    BY <1>8 DEF BeginBackfill, Begin, Write
  <2> HIDE DEF t
  <2> QED
    BY <1>2, <2>1
<1>9. ASSUME NEW p \in Process, RejectSave(p) \/ EndBackfill(p) \/ Restart(p)
      PROVE  ConfigsShaped'
  BY <1>3, <1>9 DEF RejectSave, EndBackfill, Restart
<1> QED
  BY <1>1, <1>4, <1>5, <1>6, <1>7, <1>8, <1>9 DEF StoreNext

(* A blank in a payload with distinct ids leaves what the old configuration*)
(* has under that id.                                                      *)
LEMMA BlankKeeps ==
  ASSUME NEW c, ConfigShape(c), DistinctIds(c),
         NEW old, ConfigShape(old), SoundConfig(old)
  PROVE  LET new == Polish(MergeSecrets(c, old))
         IN /\ c.url = NoUrl => new.url = NotPlaceholder(old.url)
            /\ \A i \in DOMAIN c.rules, j \in Named(old), k \in DOMAIN new.rules :
                 /\ c.rules[i].url = NoUrl
                 /\ old.rules[j].id = c.rules[i].id
                 /\ new.rules[k].id = c.rules[i].id
                 => new.rules[k].url = NotPlaceholder(old.rules[j].url)
<1> DEFINE m == MergeSecrets(c, old)
           new == Polish(m)
<1>1. old \notin {NoRow, Garbled}
  BY DEF SoundConfig
<1>2. c.url = NoUrl => m.url = old.url
  BY <1>1 DEF MergeSecrets, OldUrl
<1>3. ASSUME NEW i \in DOMAIN c.rules, NEW j \in Named(old),
             c.rules[i].url = NoUrl, old.rules[j].id = c.rules[i].id
      PROVE  m.rules[i].url = old.rules[j].url
  <2> DEFINE Same(r) == {n \in DOMAIN old.rules : old.rules[n].id = r.id /\ r.id # NoId}
             r == c.rules[i]
             Last == CHOOSE n \in Same(r) : \A k \in Same(r) : k <= n
  <2>1. Same(r) = {j}
    BY <1>3 DEF Named, SoundConfig
  <2>2. j \in Nat
    BY <1>3 DEF Named, ConfigShape
  <2>3. Last = j
    BY <2>1, <2>2
  <2>4. DOMAIN r = RuleFields
    BY DEF ConfigShape
  <2>5. m.rules[i] = [r EXCEPT !.url = OldUrl(r.url, IF Same(r) = {} THEN NoUrl
                                                      ELSE old.rules[Last].url)]
    BY <1>1 DEF MergeSecrets
  <2> HIDE DEF Same, Last, m
  <2>6. m.rules[i] = [r EXCEPT !.url = old.rules[j].url]
    BY <1>3, <2>1, <2>3, <2>5 DEF OldUrl
  <2> QED
    BY <2>4, <2>6 DEF RuleFields
<1>4. ConfigShape(m) /\ DOMAIN m.rules = DOMAIN c.rules
      /\ \A i \in DOMAIN c.rules : m.rules[i].id = c.rules[i].id
  BY MergeKeeps
<1> HIDE DEF m
<1>5. /\ new.url = NotPlaceholder(m.url)
      /\ \A k \in DOMAIN new.rules : \E i \in DOMAIN m.rules :
           new.rules[k].id = m.rules[i].id /\ new.rules[k].url = NotPlaceholder(m.rules[i].url)
  BY <1>4, PolishKeeps
<1> HIDE DEF new
<1>6. ASSUME NEW i \in DOMAIN c.rules, NEW j \in Named(old), NEW k \in DOMAIN new.rules,
             c.rules[i].url = NoUrl, old.rules[j].id = c.rules[i].id,
             new.rules[k].id = c.rules[i].id
      PROVE  new.rules[k].url = NotPlaceholder(old.rules[j].url)
  <2>1. PICK n \in DOMAIN m.rules :
          new.rules[k].id = m.rules[n].id /\ new.rules[k].url = NotPlaceholder(m.rules[n].url)
    BY <1>5
  <2>2. n = i
    BY <1>4, <1>6, <2>1 DEF DistinctIds
  <2> QED
    BY <1>3, <1>6, <2>1, <2>2
<1> QED
  BY <1>2, <1>5, <1>6 DEF m, new

(* A blank in what a browser saves keeps the stored webhook: the rule it   *)
(* belongs to is the one it replaces, and what was read when the save began*)
(* is what it overwrites, whatever the other processes do.                 *)
THEOREM BlanksKeepWebhooks == StoreSpec => WebhookKept
<1> DEFINE Kept == \A p \in Process, u \in User :
       LET old == stored[u]
           new == stored'[u]
           sent == task[p].payload
       IN Writes(p) /\ task[p].user = u /\ new # old /\ SoundConfig(old) =>
            /\ sent.url = NoUrl => new.url = NotPlaceholder(old.url)
            /\ \A i \in DOMAIN sent.rules, j \in Named(old), k \in DOMAIN new.rules :
                 /\ sent.rules[i].url = NoUrl
                 /\ old.rules[j].id = sent.rules[i].id
                 /\ new.rules[k].id = sent.rules[i].id
                 => new.rules[k].url = NotPlaceholder(old.rules[j].url)
<1>1. StoreInv /\ ConfigsShaped /\ [StoreNext]_storeVars => [Kept]_storeVars
  <2> SUFFICES ASSUME StoreInv, ConfigsShaped, [StoreNext]_storeVars,
                      NEW p \in Process, NEW u \in User,
                      Writes(p), task[p].user = u, stored'[u] # stored[u], SoundConfig(stored[u])
               PROVE  LET new == stored'[u]
                          sent == task[p].payload
                      IN /\ sent.url = NoUrl => new.url = NotPlaceholder(stored[u].url)
                         /\ \A i \in DOMAIN sent.rules, j \in Named(stored[u]), k \in DOMAIN new.rules :
                              /\ sent.rules[i].url = NoUrl
                              /\ stored[u].rules[j].id = sent.rules[i].id
                              /\ new.rules[k].id = sent.rules[i].id
                              => new.rules[k].url = NotPlaceholder(stored[u].rules[j].url)
    OBVIOUS
  <2>1. PICK q \in Process : CommitSave(q)
    BY DEF StoreNext, storeVars, PutConfig, CheckInit, InitConfig, Begin, RejectSave,
           BeginBackfill, EndBackfill, Restart
  <2>2. q = p
    BY <2>1, StoreAssumption DEF CommitSave, Writes, StoreInv, StoreTypeOK
  <2>3. stored'[u] = Polish(MergeSecrets(task[p].payload, stored[u]))
    BY <2>1, <2>2 DEF CommitSave, Result, StoreInv, TaskTyped, StoreTypeOK
  <2>4. /\ ConfigShape(task[p].payload) /\ DistinctIds(task[p].payload)
        /\ ConfigShape(stored[u])
    BY DEF ConfigsShaped, SoundConfig
  <2> QED
    BY <2>3, <2>4, BlankKeeps
<1>2. StoreSpec => []ConfigsShaped
  BY StoreInvariant, ShapedInit, ShapedStep, PTL DEF StoreSpec
<1> QED
  BY <1>1, <1>2, StoreInvariant, PTL DEF StoreSpec, WebhookKept

--------------------------------------------------------------------------------
(*****************************************************************************)
(* Migrations. MigrationInv is inductive: because one process is inside the  *)
(* transaction at a time, what it read at the beginning is still what is     *)
(* committed when it commits.                                                *)
(*****************************************************************************)

LEMMA MigrationInvInit == MigrationInit => MigrationInv
  <1>. SUFFICES ASSUME MigrationInit PROVE MigrationInv
    OBVIOUS
  <1>. USE MigrationAssumption DEF MigrationInit, Version, TablesMatch
  <1>1. MigrationTypeOK BY DEF MigrationTypeOK
  <1>2. DraftIsCurrent BY DEF DraftIsCurrent
  <1>3. SchemaIsWhole BY DEF SchemaIsWhole
  <1>. QED BY <1>1, <1>2, <1>3 DEF MigrationInv

(* Steps that only move a process to a phase outside the transaction.      *)
LEMMA PhaseOnly ==
  ASSUME MigrationInv, NEW p \in Instance,
         NEW where \in {"off", "wait", "newer", "broken"},
         To(p, where), UNCHANGED <<tables, versions, draft>>
  PROVE  MigrationInv'
  <1>. USE MigrationAssumption DEF MigrationInv, To, TablesMatch
  <1>1. MigrationTypeOK' BY DEF MigrationTypeOK
  <1>2. DraftIsCurrent' BY DEF DraftIsCurrent, MigrationTypeOK
  <1>3. SchemaIsWhole' BY DEF SchemaIsWhole, MigrationTypeOK
  <1>. QED BY <1>1, <1>2, <1>3

LEMMA MigrationInvStep ==
  MigrationInv /\ [MigrationNext]_migrationVars => MigrationInv'
  <1>. SUFFICES ASSUME MigrationInv, [MigrationNext]_migrationVars PROVE MigrationInv'
    OBVIOUS
  <1>1. CASE UNCHANGED migrationVars
    BY <1>1 DEF migrationVars, MigrationInv, MigrationTypeOK, DraftIsCurrent, SchemaIsWhole, TablesMatch
  <1>2. ASSUME NEW p \in Instance,
               StartInstance(p) \/ MigrationFails(p) \/ InstanceDies(p) \/ StartAgainFailed(p)
        PROVE  MigrationInv'
    <2>1. CASE StartInstance(p) BY <2>1, PhaseOnly DEF StartInstance
    <2>2. CASE MigrationFails(p) BY <2>2, PhaseOnly DEF MigrationFails
    <2>3. CASE InstanceDies(p) BY <2>3, PhaseOnly DEF InstanceDies
    <2>4. CASE StartAgainFailed(p) BY <2>4, PhaseOnly DEF StartAgainFailed
    <2>. QED BY <1>2, <2>1, <2>2, <2>3, <2>4
  <1>3. ASSUME NEW p \in Instance, BeginMigration(p) PROVE MigrationInv'
    <2>. USE <1>3 DEF BeginMigration, MigrationInv, To, TablesMatch
    <2>1. MigrationTypeOK' BY DEF MigrationTypeOK
    <2>2. DraftIsCurrent' BY DEF DraftIsCurrent, MigrationTypeOK, SchemaIsWhole, Begins
    <2>3. SchemaIsWhole' BY DEF SchemaIsWhole, MigrationTypeOK
    <2>. QED BY <2>1, <2>2, <2>3
  (* The statements of a version that is not recorded were never executed, *)
  (* but for version 1, whose statements can be repeated.                  *)
  <1>4. ASSUME NEW p \in Instance, ApplyVersion(p) PROVE MigrationInv'
    <2>1. PICK v \in Pending(p) :
            /\ phase[p] = "migrate"
            /\ IF draft[p].tables[v] > 0 /\ v \notin Repeatable
               THEN To(p, "clash") /\ UNCHANGED draft
               ELSE /\ draft' = [draft EXCEPT ![p].tables = Executed(v, @),
                                              ![p].versions = @ \cup {v}]
                    /\ UNCHANGED phase
            /\ UNCHANGED <<tables, versions, deaths>>
      BY <1>4 DEF ApplyVersion
    <2>2. v \in Version /\ v \notin draft[p].versions
      BY MigrationAssumption DEF Pending, Version
    <2>3. ~(draft[p].tables[v] > 0 /\ v \notin Repeatable)
      BY <2>1, <2>2, MigrationAssumption DEF MigrationInv, DraftIsCurrent, TablesMatch
    <2>4. /\ draft' = [draft EXCEPT ![p].tables = Executed(v, @), ![p].versions = @ \cup {v}]
          /\ UNCHANGED <<tables, versions, phase>>
      BY <2>1, <2>3
    <2>5. /\ Executed(v, draft[p].tables) \in [Version -> Nat]
          /\ TablesMatch(Executed(v, draft[p].tables), draft[p].versions \cup {v})
      BY <2>1, <2>2 DEF MigrationInv, MigrationTypeOK, DraftIsCurrent, TablesMatch, Executed
    <2>. USE <2>2, <2>4, <2>5 DEF MigrationInv
    <2>6. MigrationTypeOK' BY DEF MigrationTypeOK
    <2>7. DraftIsCurrent'
      <3>1. \A q \in Instance : phase'[q] = "migrate" => q = p
        BY <2>1 DEF DraftIsCurrent
      <3>2. draft'[p] = [read |-> draft[p].read, tables |-> Executed(v, draft[p].tables),
                         versions |-> draft[p].versions \cup {v}]
        BY DEF MigrationTypeOK
      <3>5. /\ draft'[p].read = draft[p].read
            /\ draft'[p].tables = Executed(v, draft[p].tables)
            /\ draft'[p].versions = draft[p].versions \cup {v}
        BY ONLY <3>2
      <3>3. TablesMatch(draft'[p].tables, draft'[p].versions) BY ONLY <3>5, <2>5
      <3>6. draft[p].read = versions /\ versions \subseteq draft[p].versions
        BY <2>1 DEF DraftIsCurrent
      <3>4. draft'[p].read = versions /\ versions \subseteq draft'[p].versions
        BY ONLY <3>5, <3>6
      <3>7. UNCHANGED versions OBVIOUS
      <3>. QED BY ONLY <3>1, <3>3, <3>4, <3>7 DEF DraftIsCurrent, TablesMatch, Version
    <2>8. SchemaIsWhole' BY DEF SchemaIsWhole, TablesMatch
    <2>. QED BY <2>6, <2>7, <2>8
  (* What the process adds was not recorded before, and is executed once.  *)
  <1>5. ASSUME NEW p \in Instance, CommitMigration(p) PROVE MigrationInv'
    <2>. DEFINE mine == draft[p].versions \ draft[p].read
    <2>1. phase[p] = "migrate" /\ Pending(p) = {} BY <1>5 DEF CommitMigration
    <2>2. /\ draft[p].read = versions /\ draft[p].versions \subseteq Version
          /\ mine \cap versions = {}
      BY <2>1 DEF MigrationInv, DraftIsCurrent, MigrationTypeOK
    <2>3. /\ tables' = [v \in Version |-> IF v \in mine THEN tables[v] + 1 ELSE tables[v]]
          /\ versions' = versions \cup mine
          /\ To(p, "serve")
          /\ UNCHANGED draft
      BY <1>5, <2>2 DEF CommitMigration
    <2>4. 1..ReleaseOf(p) \subseteq versions'
      BY <2>1, <2>2, <2>3 DEF Pending
    <2>. HIDE DEF mine
    <2>. USE <2>2, <2>3 DEF MigrationInv, To
    <2>5. MigrationTypeOK' BY DEF MigrationTypeOK, mine
    <2>6. DraftIsCurrent' BY <2>1 DEF DraftIsCurrent, MigrationTypeOK
    <2>7. TablesMatch(tables', versions') BY DEF SchemaIsWhole, MigrationTypeOK, TablesMatch
    <2>8. SchemaIsWhole' BY <2>4, <2>7 DEF SchemaIsWhole, MigrationTypeOK, TablesMatch
    <2>. QED BY <2>5, <2>6, <2>8
  <1>. QED BY <1>1, <1>2, <1>3, <1>4, <1>5 DEF MigrationNext

(* Whatever processes start, die or fail during a rollout, the database    *)
(* has the statements of the versions it records, once each, and a process *)
(* that serves has every table of its release.                             *)
THEOREM SchemaCorrect == MigrationSpec => []SchemaIsWhole
  <1>1. MigrationInv => SchemaIsWhole BY DEF MigrationInv
  <1>. QED BY MigrationInvInit, MigrationInvStep, <1>1, PTL DEF MigrationSpec

(* The transaction is serialised: one process migrates, on what is there.  *)
THEOREM MigrationSerialised == MigrationSpec => [](MigrationTypeOK /\ DraftIsCurrent)
  <1>1. MigrationInv => MigrationTypeOK /\ DraftIsCurrent BY DEF MigrationInv
  <1>. QED BY MigrationInvInit, MigrationInvStep, <1>1, PTL DEF MigrationSpec

================================================================================
