---------------------------- MODULE AlertJobsProofs ----------------------------
(***************************************************************************)
(* Proofs about the alert job queue, for any number of loops, processes,   *)
(* rows and attempts.  The inductive invariant is the conjunction of the   *)
(* type invariant, the shape of a lease, the agreement between the lease   *)
(* column and the loops' memory, the distinctness of claims, and a bound   *)
(* of the attempts that late loops may still cause.                        *)
(***************************************************************************)
EXTENDS AlertJobs, FiniteSetTheorems, TLAPS

(* The attempts below the limit whose claim somebody still holds.  Each of *)
(* them can bring the row back to pending once, by a late fail_job.        *)
EarlyHeld(j) ==
  {k \in 1..(MaxAttempts - 1) : \E w \in Worker : [job |-> j, attempt |-> k] \in held[w]}

AttemptsBounded ==
  \A j \in Job :
    IF SharedId
    THEN attempts[j] >= MaxAttempts =>
           attempts[j] + Cardinality(EarlyHeld(j)) <=
             IF status[j] \in {"absent", "pending"} THEN 2 * MaxAttempts - 2
             ELSE 2 * MaxAttempts - 1
    ELSE status[j] \in {"absent", "pending"} => attempts[j] < MaxAttempts

QueueInv ==
  /\ QueueTypeOK /\ LeaseWellFormed /\ LeaseMatchesClaim /\ ClaimsDistinct
  /\ AttemptsBounded

(* The bound of the attempts is a number, at least max_attempts. *)
LEMMA TryLimitType == TryLimit \in Nat /\ MaxAttempts <= TryLimit
BY QueueAssumption DEF TryLimit

(* There are only so many early claims. *)
LEMMA EarlyHeldFinite ==
  ASSUME NEW j
  PROVE  /\ IsFiniteSet(EarlyHeld(j)) /\ Cardinality(EarlyHeld(j)) \in Nat
         /\ Cardinality(EarlyHeld(j)) <= MaxAttempts - 1
<1>1. /\ IsFiniteSet(1..(MaxAttempts - 1))
      /\ Cardinality(1..(MaxAttempts - 1)) = MaxAttempts - 1
  BY QueueAssumption, FS_Interval
<1>2. EarlyHeld(j) \subseteq 1..(MaxAttempts - 1)
  BY DEF EarlyHeld
<1> QED
  BY <1>1, <1>2, FS_Subset, FS_CardinalityType

(* A subset of the early claims is no larger, and smaller when one is gone. *)
LEMMA FewerEarly ==
  ASSUME NEW S, IsFiniteSet(S), NEW T \in SUBSET S
  PROVE  /\ Cardinality(T) \in Nat /\ Cardinality(S) \in Nat
         /\ Cardinality(T) <= Cardinality(S)
         /\ \A k \in S \ T : Cardinality(T) <= Cardinality(S) - 1
<1>1. /\ IsFiniteSet(T) /\ Cardinality(T) \in Nat /\ Cardinality(S) \in Nat
      /\ Cardinality(T) <= Cardinality(S)
  BY FS_Subset, FS_CardinalityType
<1>2. ASSUME NEW k \in S \ T PROVE Cardinality(T) <= Cardinality(S) - 1
  <2>1. /\ IsFiniteSet(S \ {k}) /\ Cardinality(S \ {k}) = Cardinality(S) - 1
    BY FS_RemoveElement
  <2>2. T \subseteq S \ {k}
    BY <1>2
  <2> QED
    BY <2>1, <2>2, FS_Subset
<1> QED
  BY <1>1, <1>2

(* An owner of a lease in a process of one loop holds the running attempt; *)
(* a late owner is of a process where another loop holds it or has ended.  *)
LEMMA OwnerHolds ==
  ASSUME QueueInv, NEW w \in Worker, w \in alive, NEW c \in held[w], OwnsLease(w, c.job)
  PROVE  /\ Siblings(w) = {} => c = RunningClaim(c.job)
         /\ c = RunningClaim(c.job) \/ \E v \in Siblings(w) :
                                        v \in alive => RunningClaim(c.job) \in held[v]
<1>1. c \in Claim /\ c.job \in Job
  BY DEF QueueInv, QueueTypeOK, Claim
<1>2. PICK v \in Worker : /\ LockIdOf[v] = lockedBy[c.job]
                          /\ v \in alive => RunningClaim(c.job) \in held[v]
  BY <1>1 DEF QueueInv, LeaseMatchesClaim, OwnsLease
<1>3. CASE v = w
  <2>1. RunningClaim(c.job) \in held[w] /\ RunningClaim(c.job).job = c.job
    BY <1>2, <1>3 DEF RunningClaim
  <2> QED
    BY <2>1 DEF QueueInv, ClaimsDistinct
<1>4. CASE v # w
  BY <1>2, <1>4 DEF Siblings, OwnsLease
<1> QED
  BY <1>3, <1>4

(* Without shared identifiers there are no siblings. *)
LEMMA NoSiblings == ~SharedId => \A w \in Worker : Siblings(w) = {}
BY DEF SharedId, Siblings

(* The LIMITed selection of a claim returns rows of the selection only. *)
LEMMA LowestSubset == ASSUME NEW S, NEW n PROVE Lowest(S, n) \subseteq S
BY DEF Lowest

(* The rows one claim picks are due; they are pending or stale with an attempt left. *)
LEMMA PickedFacts ==
  ASSUME NEW t
  PROVE  /\ Picked(t) \subseteq Due(t)
         /\ Due(t) \subseteq Job
         /\ Recovered(t) \subseteq StaleJobs(t)
         /\ Exhausted(t) \subseteq StaleJobs(t)
         /\ StaleJobs(t) \subseteq Job
BY DEF Picked, Due, Lowest, Recovered, Exhausted, StaleJobs

(* The empty queue satisfies the invariant. *)
LEMMA QueueInitInv == QueueInit => QueueInv
<1> SUFFICES ASSUME QueueInit PROVE QueueInv
  OBVIOUS
<1>1. QueueTypeOK
  BY QueueAssumption, TryLimitType DEF QueueInit, QueueTypeOK, Status, JobType
<1>2. LeaseWellFormed
  BY QueueAssumption, TryLimitType DEF QueueInit, LeaseWellFormed
<1>3. LeaseMatchesClaim /\ ClaimsDistinct
  BY DEF QueueInit, LeaseMatchesClaim, ClaimsDistinct
<1>4. AttemptsBounded
  BY QueueAssumption DEF QueueInit, AttemptsBounded
<1> QED
  BY <1>1, <1>2, <1>3, <1>4 DEF QueueInv

(* Inserting rows: they are pending, unowned and held by nobody. *)
LEMMA SubmissionInv ==
  ASSUME QueueInv, NEW t \in JobType, NEW n \in 1..MaxEnqueue, EnqueueJobs(t, n)
  PROVE  QueueInv'
<1> DEFINE new == NewIds(n)
<1>1. /\ new \subseteq {j \in Job : status[j] = "absent"}
      /\ status' = [j \in Job |-> IF j \in new THEN "pending" ELSE status[j]]
      /\ jobType' = [j \in Job |-> IF j \in new THEN t ELSE jobType[j]]
      /\ UNCHANGED <<attempts, lockedBy, lockAge, wait, held, turn, alive>>
  BY DEF EnqueueJobs, NewIds, Lowest
<1> HIDE DEF new
<1>2. QueueTypeOK'
  BY <1>1 DEF QueueInv, QueueTypeOK, Status, JobType
<1>3. \A j \in Job : j \in new => status[j] = "absent" /\ status'[j] = "pending"
  BY <1>1
<1>4. \A j \in Job : j \notin new => status'[j] = status[j]
  BY <1>1
<1>5. LeaseWellFormed'
  BY <1>1, <1>3, <1>4 DEF QueueInv, LeaseWellFormed
<1>6. LeaseMatchesClaim'
  BY <1>1, <1>3, <1>4 DEF QueueInv, LeaseMatchesClaim, RunningClaim
<1>7. ClaimsDistinct'
  BY <1>1 DEF QueueInv, ClaimsDistinct
<1>8. AttemptsBounded'
  <2>1. \A j \in Job : EarlyHeld(j)' = EarlyHeld(j)
    BY <1>1 DEF EarlyHeld
  <2> QED
    BY <1>1, <1>3, <1>4, <2>1 DEF QueueInv, AttemptsBounded
<1> QED
  BY <1>2, <1>5, <1>6, <1>7, <1>8 DEF QueueInv

(* What one claim transaction does to one row: lease it to w, fail it for  *)
(* its payload or for its used-up attempts, recover it, or leave it alone. *)
LeasedTo(w, j) ==
  /\ status[j] \in {"pending", "processing"} /\ attempts[j] < TryLimit
  /\ status[j] = "processing" => attempts[j] < MaxAttempts /\ lockAge[j] >= StaleAfter
  /\ status'[j] = "processing" /\ attempts'[j] = attempts[j] + 1
  /\ lockedBy'[j] = LockIdOf[w] /\ lockAge'[j] = 0
  /\ [job |-> j, attempt |-> attempts[j] + 1] \in held'[w]

RejectedRow(j) ==
  /\ j \in Corrupt
  /\ status[j] \in {"pending", "processing"} /\ attempts[j] < TryLimit
  /\ status[j] = "processing" => attempts[j] < MaxAttempts /\ lockAge[j] >= StaleAfter
  /\ status'[j] = "failed" /\ attempts'[j] = attempts[j] + 1
  /\ lockedBy'[j] = NoWorker /\ lockAge'[j] = 0

RecoveredRow(j) ==
  /\ status[j] = "processing" /\ lockAge[j] >= StaleAfter
  /\ \/ status'[j] = "failed" /\ attempts[j] >= MaxAttempts
     \/ status'[j] = "pending" /\ attempts[j] < MaxAttempts
  /\ attempts'[j] = attempts[j]
  /\ lockedBy'[j] = NoWorker /\ lockAge'[j] = 0

KeptRow(j) ==
  /\ status'[j] = status[j] /\ attempts'[j] = attempts[j]
  /\ lockedBy'[j] = lockedBy[j] /\ lockAge'[j] = lockAge[j]

RowAfterClaim(w, j) == LeasedTo(w, j) \/ RejectedRow(j) \/ RecoveredRow(j) \/ KeptRow(j)

(* What claim_jobs does to each row, one row at a time. *)
LEMMA ClaimRows ==
  ASSUME QueueInv, NEW t \in JobType, NEW w \in Worker, ClaimJobs(t, w)
  PROVE  \A j \in Job : RowAfterClaim(w, j)
<1> TAKE j \in Job
<1> DEFINE leased == Picked(t) \ Corrupt
           failed == Exhausted(t) \cup (Picked(t) \cap Corrupt)
<1>1. /\ status'[j] = IF j \in leased THEN "processing"
                      ELSE IF j \in failed THEN "failed"
                      ELSE IF j \in Recovered(t) THEN "pending"
                      ELSE status[j]
      /\ attempts'[j] = IF j \in Picked(t) THEN attempts[j] + 1 ELSE attempts[j]
      /\ lockedBy'[j] = IF j \in leased THEN LockIdOf[w]
                        ELSE IF j \in StaleJobs(t) \cup failed THEN NoWorker
                        ELSE lockedBy[j]
      /\ lockAge'[j] = IF j \in StaleJobs(t) \cup Picked(t) THEN 0 ELSE lockAge[j]
  BY DEF ClaimJobs, NextAttempt
<1>2. /\ attempts[j] \in 0..TryLimit
      /\ status[j] \in {"absent", "pending"} => attempts[j] < TryLimit
  BY DEF QueueInv, QueueTypeOK, LeaseWellFormed
<1>3. j \in Picked(t) =>
        /\ status[j] \in {"pending", "processing"} /\ attempts[j] < TryLimit
        /\ status[j] = "processing" => j \in Recovered(t)
        /\ j \notin Exhausted(t)
  BY <1>2, PickedFacts, QueueAssumption, TryLimitType DEF Due, Recovered, Exhausted, StaleJobs
<1>4. j \in StaleJobs(t) =>
        /\ status[j] = "processing" /\ lockAge[j] >= StaleAfter
        /\ j \in Recovered(t) \/ j \in Exhausted(t)
  BY <1>2, QueueAssumption, TryLimitType DEF Recovered, Exhausted, StaleJobs
<1>5. /\ j \in Recovered(t) => j \in StaleJobs(t) /\ attempts[j] < MaxAttempts
      /\ j \in Exhausted(t) => j \in StaleJobs(t) /\ attempts[j] >= MaxAttempts
  BY <1>2, QueueAssumption DEF Recovered, Exhausted
<1>6. CASE j \in leased
  <2>1. [job |-> j, attempt |-> attempts[j] + 1] \in held'[w]
    BY <1>6 DEF ClaimJobs, NextAttempt, QueueInv, QueueTypeOK
  <2> QED
    BY <1>1, <1>3, <1>4, <1>5, <1>6, <2>1 DEF LeasedTo, RowAfterClaim
<1>7. CASE j \in Picked(t) \cap Corrupt
  BY <1>1, <1>3, <1>4, <1>5, <1>7 DEF RejectedRow, RowAfterClaim
<1>8. CASE j \in Exhausted(t)
  BY <1>1, <1>3, <1>4, <1>5, <1>8 DEF RecoveredRow, RowAfterClaim
<1>9. CASE j \notin Picked(t) /\ j \in Recovered(t)
  BY <1>1, <1>2, <1>4, <1>5, <1>9, QueueAssumption DEF RecoveredRow, RowAfterClaim
<1>10. CASE j \notin Picked(t) /\ j \notin StaleJobs(t)
  BY <1>1, <1>5, <1>10 DEF KeptRow, RowAfterClaim
<1> QED
  BY <1>4, <1>6, <1>7, <1>8, <1>9, <1>10

(* What the claiming worker holds afterwards: the new attempt of each row  *)
(* it leased, and nothing else.                                            *)
LEMMA ClaimHeld ==
  ASSUME QueueInv, NEW t \in JobType, NEW w \in Worker, ClaimJobs(t, w)
  PROVE  /\ \A v \in Worker : v # w => held'[v] = held[v]
         /\ \A c \in held'[w] :
              /\ c \in Claim
              /\ c = [job |-> c.job, attempt |-> attempts'[c.job]]
              /\ attempts'[c.job] = attempts[c.job] + 1
<1> DEFINE leased == Picked(t) \ Corrupt
<1>1. /\ held' = [held EXCEPT ![w] =
                    {[job |-> j, attempt |-> attempts[j] + 1] : j \in leased}]
      /\ attempts' = [j \in Job |-> IF j \in Picked(t) THEN attempts[j] + 1 ELSE attempts[j]]
  BY DEF ClaimJobs, NextAttempt
<1>2. held'[w] = {[job |-> j, attempt |-> attempts[j] + 1] : j \in leased}
  BY <1>1 DEF QueueInv, QueueTypeOK
<1>3. ASSUME NEW j \in leased
      PROVE  /\ j \in Job
             /\ attempts'[j] = attempts[j] + 1
             /\ attempts[j] + 1 \in 1..TryLimit
  <2>1. j \in Job /\ j \in Picked(t)
    BY PickedFacts
  <2>2. attempts[j] \in 0..TryLimit /\ attempts[j] < TryLimit
    BY <2>1, PickedFacts, TryLimitType, QueueAssumption
    DEF Due, Recovered, QueueInv, QueueTypeOK, LeaseWellFormed
  <2> QED
    BY <1>1, <2>1, <2>2, TryLimitType
<1>4. ASSUME NEW c \in held'[w]
      PROVE  /\ c \in Claim
             /\ c = [job |-> c.job, attempt |-> attempts'[c.job]]
             /\ attempts'[c.job] = attempts[c.job] + 1
  <2>1. PICK j \in leased : c = [job |-> j, attempt |-> attempts[j] + 1]
    BY <1>2
  <2> QED
    BY <1>3, <2>1 DEF Claim
<1>5. \A v \in Worker : v # w => held'[v] = held[v]
  BY <1>1 DEF QueueInv, QueueTypeOK
<1> QED
  BY <1>4, <1>5

(* A claim preserves the invariant: every old lease is kept or taken over
   under a new attempt number, so old claims stay distinct from new ones. *)
LEMMA ClaimBatchInv ==
  ASSUME QueueInv, NEW w \in Worker, ClaimBatch(w)
  PROVE  QueueInv'
<1> DEFINE t == turn[w]
<1>1. /\ t \in JobType /\ w \in alive /\ held[w] = {} /\ ClaimJobs(t, w)
      /\ UNCHANGED <<jobType, wait, alive>>
      /\ turn' = [turn EXCEPT ![w] = OtherType(@)]
  BY DEF ClaimBatch, ClaimJobs, NextAttempt, QueueInv, QueueTypeOK
<1> HIDE DEF t
<1>r. \A j \in Job : RowAfterClaim(w, j)
  BY <1>1, ClaimRows
<1>2. OtherType(turn[w]) \in JobType
  <2>1. \E u \in JobType : u # turn[w]
    BY DEF JobType
  <2> QED
    BY <2>1 DEF OtherType
<1>3. QueueTypeOK'
  <2>1. \A j \in Job : /\ status'[j] \in Status
                       /\ attempts'[j] \in 0..TryLimit
                       /\ lockedBy'[j] \in LockId \cup {NoWorker}
                       /\ lockAge'[j] \in 0..StaleAfter
    <3> TAKE j \in Job
    <3>1. /\ status[j] \in Status /\ attempts[j] \in 0..TryLimit
          /\ lockedBy[j] \in LockId \cup {NoWorker} /\ lockAge[j] \in 0..StaleAfter
      BY DEF QueueInv, QueueTypeOK
    <3>2. CASE LeasedTo(w, j)
      BY <3>1, <3>2, QueueAssumption, TryLimitType DEF LeasedTo, Status
    <3>3. CASE RejectedRow(j)
      BY <3>1, <3>3, QueueAssumption, TryLimitType DEF RejectedRow, Status
    <3>4. CASE RecoveredRow(j)
      BY <3>1, <3>4, QueueAssumption DEF RecoveredRow, Status
    <3>5. CASE KeptRow(j)
      BY <3>1, <3>5 DEF KeptRow
    <3> QED
      BY <1>r, <3>2, <3>3, <3>4, <3>5 DEF RowAfterClaim
  <2>2. /\ status' = [j \in Job |-> status'[j]] /\ attempts' = [j \in Job |-> attempts'[j]]
        /\ lockedBy' = [j \in Job |-> lockedBy'[j]] /\ lockAge' = [j \in Job |-> lockAge'[j]]
    BY <1>1 DEF ClaimJobs, NextAttempt
  <2>3. held' \in [Worker -> SUBSET Claim]
    <3>1. held' = [v \in Worker |-> held'[v]]
      BY <1>1 DEF ClaimJobs, NextAttempt, QueueInv, QueueTypeOK
    <3>2. \A v \in Worker : held'[v] \subseteq Claim
      BY <1>1, ClaimHeld DEF QueueInv, QueueTypeOK
    <3> QED
      BY <3>1, <3>2
  <2>4. /\ status' \in [Job -> Status] /\ attempts' \in [Job -> 0..TryLimit]
        /\ lockedBy' \in [Job -> LockId \cup {NoWorker}] /\ lockAge' \in [Job -> 0..StaleAfter]
    BY <2>1, <2>2
  <2> QED
    BY <1>1, <1>2, <2>3, <2>4 DEF QueueInv, QueueTypeOK
<1>4. LeaseWellFormed'
  <2> SUFFICES ASSUME NEW j \in Job
               PROVE  /\ lockedBy'[j] # NoWorker <=> status'[j] = "processing"
                      /\ status'[j] \in {"absent", "pending"} => attempts'[j] < TryLimit
                      /\ status'[j] \in {"processing", "completed"} => attempts'[j] > 0
    BY DEF LeaseWellFormed
  <2>1. /\ attempts[j] \in 0..TryLimit
        /\ lockedBy[j] # NoWorker <=> status[j] = "processing"
        /\ status[j] \in {"absent", "pending"} => attempts[j] < TryLimit
        /\ status[j] \in {"processing", "completed"} => attempts[j] > 0
    BY DEF QueueInv, QueueTypeOK, LeaseWellFormed
  <2>2. CASE LeasedTo(w, j)
    BY <2>1, <2>2, QueueAssumption DEF LeasedTo
  <2>3. CASE RejectedRow(j)
    BY <2>1, <2>3, QueueAssumption DEF RejectedRow
  <2>4. CASE RecoveredRow(j)
    BY <2>1, <2>4, QueueAssumption, TryLimitType DEF RecoveredRow
  <2>5. CASE KeptRow(j)
    BY <2>1, <2>5, QueueAssumption DEF KeptRow
  <2> QED
    BY <1>r, <2>2, <2>3, <2>4, <2>5 DEF RowAfterClaim
<1>5. ClaimsDistinct'
  <2>0. \A v \in Worker : \A c \in held[v] : c.job \in Job /\ c.attempt \in 1..TryLimit
                                            /\ c.attempt <= attempts[c.job]
    BY DEF QueueInv, QueueTypeOK, ClaimsDistinct, Claim
  <2>1. \A j \in Job : /\ attempts[j] \in Nat /\ attempts'[j] \in Nat
                       /\ attempts'[j] >= attempts[j]
    <3> TAKE j \in Job
    <3>1. attempts[j] \in 0..TryLimit
      BY DEF QueueInv, QueueTypeOK
    <3>2. attempts'[j] = attempts[j] \/ attempts'[j] = attempts[j] + 1
      BY <1>r DEF RowAfterClaim, LeasedTo, RejectedRow, RecoveredRow, KeptRow
    <3> QED
      BY <3>1, <3>2, TryLimitType
  <2>2. ASSUME NEW v \in Worker, NEW c \in held'[v]
        PROVE  /\ c.attempt <= attempts'[c.job]
               /\ \A d \in held'[v] : d.job = c.job => d = c
               /\ \A u \in Worker : c \in held'[u] => u = v
    <3>1. CASE v = w
      <4>1. /\ c \in Claim /\ c = [job |-> c.job, attempt |-> attempts'[c.job]]
            /\ attempts'[c.job] = attempts[c.job] + 1
        BY <1>1, <2>2, <3>1, ClaimHeld
      <4>2. /\ c.job \in Job /\ c.attempt = attempts[c.job] + 1
            /\ c.attempt = attempts'[c.job]
        BY <4>1 DEF Claim
      <4>3. \A d \in held'[v] : d.job = c.job => d = c
        BY <1>1, <3>1, <4>1, ClaimHeld
      <4>4. ASSUME NEW u \in Worker, c \in held'[u], u # w
            PROVE  FALSE
        <5>1. c \in held[u]
          BY <1>1, <4>4, ClaimHeld
        <5> QED
          BY <2>0, <2>1, <4>2, <5>1
      <4> QED
        BY <2>1, <3>1, <4>2, <4>3, <4>4
    <3>2. CASE v # w
      <4>1. held'[v] = held[v]
        BY <1>1, <3>2, ClaimHeld
      <4>2. c.job \in Job /\ c.attempt \in Nat /\ c.attempt <= attempts[c.job]
        BY <2>0, <2>2, <4>1, QueueAssumption
      <4>3. ASSUME c \in held'[w] PROVE FALSE
        <5>1. /\ c = [job |-> c.job, attempt |-> attempts'[c.job]]
              /\ attempts'[c.job] = attempts[c.job] + 1
          BY <1>1, <4>3, ClaimHeld
        <5>2. c.attempt = attempts'[c.job]
          BY <5>1
        <5> QED
          BY <2>1, <4>2, <5>1, <5>2
      <4>4. \A u \in Worker : c \in held'[u] => u = v
        BY <1>1, <2>2, <4>1, <4>3, ClaimHeld DEF QueueInv, ClaimsDistinct
      <4>5. \A d \in held'[v] : d.job = c.job => d = c
        BY <2>2, <4>1 DEF QueueInv, ClaimsDistinct
      <4> QED
        BY <2>1, <4>2, <4>4, <4>5
    <3> QED
      BY <3>1, <3>2
  <2> QED
    BY <2>2 DEF ClaimsDistinct
<1>6. LeaseMatchesClaim'
  <2> SUFFICES ASSUME NEW j \in Job, status'[j] = "processing"
               PROVE  /\ \A v \in Worker : RunningClaim(j)' \in held'[v]
                                            => LockIdOf[v] = lockedBy'[j]
                      /\ \E v \in Worker : /\ LockIdOf[v] = lockedBy'[j]
                                           /\ v \in alive' => RunningClaim(j)' \in held'[v]
    BY DEF LeaseMatchesClaim
  <2>0. /\ alive' = alive /\ attempts[j] \in Nat /\ attempts'[j] \in Nat
        /\ RunningClaim(j)' = [job |-> j, attempt |-> attempts'[j]]
        /\ \A u \in Worker : [job |-> j, attempt |-> attempts'[j]] \in held[u]
                              => attempts'[j] <= attempts[j]
    BY <1>1, <1>3, TryLimitType
    DEF QueueInv, QueueTypeOK, ClaimsDistinct, RunningClaim
  <2>1. CASE /\ attempts'[j] = attempts[j] + 1 /\ lockedBy'[j] = LockIdOf[w]
             /\ [job |-> j, attempt |-> attempts[j] + 1] \in held'[w]
    <3>1. \A v \in Worker : RunningClaim(j)' \in held'[v] => v = w
      BY <1>1, <2>0, <2>1, ClaimHeld
    <3> QED
      BY <2>0, <2>1, <3>1
  <2>2. CASE /\ status'[j] = status[j] /\ attempts'[j] = attempts[j]
             /\ lockedBy'[j] = lockedBy[j]
    <3>1. /\ RunningClaim(j)' = RunningClaim(j)
          /\ \A v \in Worker : RunningClaim(j) \in held[v] => LockIdOf[v] = lockedBy[j]
      BY <2>0, <2>2 DEF QueueInv, LeaseMatchesClaim, RunningClaim
    <3>2. PICK v \in Worker : /\ LockIdOf[v] = lockedBy[j]
                              /\ v \in alive => RunningClaim(j) \in held[v]
      BY <2>2 DEF QueueInv, LeaseMatchesClaim
    <3>3. v # w
      BY <1>1, <3>2
    <3>4. RunningClaim(j)' \notin held'[w]
      <4>1. SUFFICES ASSUME RunningClaim(j)' \in held'[w] PROVE FALSE
        OBVIOUS
      <4>2. attempts'[j] = attempts[j] + 1
        BY <1>1, <2>0, <4>1, ClaimHeld
      <4> QED
        BY <2>0, <2>2, <4>2
    <3>5. \A u \in Worker : u # w => held'[u] = held[u]
      BY <1>1, ClaimHeld
    <3> QED
      BY <2>0, <2>2, <3>1, <3>2, <3>3, <3>4, <3>5
  <2> QED
    BY <1>r, <2>1, <2>2
    DEF RowAfterClaim, LeasedTo, RejectedRow, RecoveredRow, KeptRow
<1>7. AttemptsBounded'
  <2> SUFFICES ASSUME NEW j \in Job
               PROVE  IF SharedId
                      THEN attempts'[j] >= MaxAttempts =>
                             attempts'[j] + Cardinality(EarlyHeld(j)') <=
                               IF status'[j] \in {"absent", "pending"} THEN 2 * MaxAttempts - 2
                               ELSE 2 * MaxAttempts - 1
                      ELSE status'[j] \in {"absent", "pending"} => attempts'[j] < MaxAttempts
    BY DEF AttemptsBounded, SharedId
  <2>1. /\ attempts[j] \in Nat
        /\ IF SharedId
           THEN attempts[j] >= MaxAttempts =>
                  attempts[j] + Cardinality(EarlyHeld(j)) <=
                    IF status[j] \in {"absent", "pending"} THEN 2 * MaxAttempts - 2
                    ELSE 2 * MaxAttempts - 1
           ELSE status[j] \in {"absent", "pending"} => attempts[j] < MaxAttempts
    BY TryLimitType DEF QueueInv, QueueTypeOK, AttemptsBounded
  <2>2. ASSUME attempts'[j] >= MaxAttempts
        PROVE  EarlyHeld(j)' \subseteq EarlyHeld(j)
    <3>1. ASSUME NEW k \in 1..(MaxAttempts - 1), NEW v \in Worker,
                 [job |-> j, attempt |-> k] \in held'[v]
          PROVE  [job |-> j, attempt |-> k] \in held[v]
      <4>1. k # attempts'[j]
        BY <2>2, QueueAssumption
      <4>2. v # w
        BY <1>1, <3>1, <4>1, ClaimHeld
      <4> QED
        BY <1>1, <3>1, <4>2, ClaimHeld
    <3> QED
      BY <3>1 DEF EarlyHeld
  <2>3. /\ Cardinality(EarlyHeld(j)') \in Nat /\ Cardinality(EarlyHeld(j)) \in Nat
        /\ Cardinality(EarlyHeld(j)) <= MaxAttempts - 1
        /\ attempts'[j] >= MaxAttempts =>
             Cardinality(EarlyHeld(j)') <= Cardinality(EarlyHeld(j))
    <3>1. EarlyHeld(j)' \subseteq 1..(MaxAttempts - 1) /\ IsFiniteSet(1..(MaxAttempts - 1))
      BY QueueAssumption, FS_Interval DEF EarlyHeld
    <3>2. Cardinality(EarlyHeld(j)') \in Nat
      BY <3>1, FS_Subset, FS_CardinalityType
    <3> QED
      BY <2>2, <3>2, EarlyHeldFinite, FewerEarly
  <2>4. MaxAttempts \in Nat /\ MaxAttempts >= 1 /\ (~SharedId => TryLimit = MaxAttempts)
    BY QueueAssumption DEF TryLimit
  <2>5. CASE LeasedTo(w, j)
    BY <2>1, <2>3, <2>4, <2>5 DEF LeasedTo
  <2>6. CASE RejectedRow(j)
    BY <2>1, <2>3, <2>4, <2>6 DEF RejectedRow
  <2>7. CASE RecoveredRow(j)
    BY <2>1, <2>3, <2>4, <2>7 DEF RecoveredRow
  <2>8. CASE KeptRow(j)
    BY <2>1, <2>3, <2>4, <2>8 DEF KeptRow
  <2> QED
    BY <1>r, <2>5, <2>6, <2>7, <2>8 DEF RowAfterClaim
<1> QED
  BY <1>3, <1>4, <1>5, <1>6, <1>7 DEF QueueInv

(* Where claims only go away and a row stays as it is, the bound holds on. *)
LEMMA BoundKept ==
  ASSUME QueueInv, NEW j \in Job, status'[j] = status[j], attempts'[j] = attempts[j],
         \A w \in Worker : held'[w] \subseteq held[w]
  PROVE  IF SharedId
         THEN attempts'[j] >= MaxAttempts =>
                attempts'[j] + Cardinality(EarlyHeld(j)') <=
                  IF status'[j] \in {"absent", "pending"} THEN 2 * MaxAttempts - 2
                  ELSE 2 * MaxAttempts - 1
         ELSE status'[j] \in {"absent", "pending"} => attempts'[j] < MaxAttempts
<1>1. EarlyHeld(j)' \subseteq EarlyHeld(j)
  BY DEF EarlyHeld
<1>2. /\ Cardinality(EarlyHeld(j)') \in Nat /\ Cardinality(EarlyHeld(j)) \in Nat
      /\ Cardinality(EarlyHeld(j)') <= Cardinality(EarlyHeld(j))
  BY <1>1, EarlyHeldFinite, FewerEarly
<1>3. attempts[j] \in Nat /\ MaxAttempts \in Nat
  BY TryLimitType, QueueAssumption DEF QueueInv, QueueTypeOK
<1> QED
  BY <1>2, <1>3 DEF QueueInv, AttemptsBounded

(* Dropping a claim and possibly releasing its row keeps the invariant.  A *)
(* row goes back to pending only for a claim below the limit; where that   *)
(* is not the running attempt, there is one early claim less.              *)
LEMMA ReportInv ==
  ASSUME QueueInv, NEW w \in Worker, NEW c \in held[w], w \in alive,
         CompleteJob(w, c) \/ FailJob(w, c)
  PROVE  QueueInv'
<1>1. /\ c \in Claim /\ c.job \in Job /\ c.attempt \in Nat \ {0}
      /\ c = [job |-> c.job, attempt |-> c.attempt]
      /\ attempts[c.job] \in Nat /\ c.attempt <= attempts[c.job]
      /\ held' = [held EXCEPT ![w] = @ \ {c}]
      /\ UNCHANGED <<jobType, attempts, turn, alive>>
  BY TryLimitType
  DEF CompleteJob, FailJob, FailJobSeeing, Release, rowVars, QueueInv, QueueTypeOK, Claim,
      ClaimsDistinct
<1>a. /\ \A v \in Worker : held'[v] \subseteq held[v]
      /\ \A v \in Worker : \A d \in held[v] : ~(v = w /\ d = c) => d \in held'[v]
      /\ c \notin held'[w]
  BY <1>1 DEF QueueInv, QueueTypeOK
<1>b. ClaimsDistinct'
  BY <1>1, <1>a DEF QueueInv, ClaimsDistinct
<1>2. CASE /\ ~OwnsLease(w, c.job)
           /\ UNCHANGED rowVars
  <2>1. QueueTypeOK'
    BY <1>1, <1>2 DEF QueueInv, QueueTypeOK, rowVars
  <2>2. LeaseWellFormed'
    BY <1>1, <1>2 DEF QueueInv, QueueTypeOK, LeaseWellFormed, rowVars
  <2>3. LeaseMatchesClaim'
    <3> SUFFICES ASSUME NEW j \in Job, status[j] = "processing"
                 PROVE  /\ \A v \in Worker : RunningClaim(j) \in held'[v]
                                              => LockIdOf[v] = lockedBy[j]
                        /\ \E v \in Worker : /\ LockIdOf[v] = lockedBy[j]
                                             /\ v \in alive => RunningClaim(j) \in held'[v]
      BY <1>1, <1>2 DEF LeaseMatchesClaim, RunningClaim, rowVars
    <3>1. \A v \in Worker : RunningClaim(j) \in held'[v] => LockIdOf[v] = lockedBy[j]
      BY <1>a DEF QueueInv, LeaseMatchesClaim
    <3>2. PICK v \in Worker : /\ LockIdOf[v] = lockedBy[j]
                              /\ v \in alive => RunningClaim(j) \in held[v]
      BY DEF QueueInv, LeaseMatchesClaim
    <3>3. ~(v = w /\ RunningClaim(j) = c)
      BY <1>2, <3>2 DEF OwnsLease, RunningClaim
    <3> QED
      BY <1>a, <3>1, <3>2, <3>3
  <2>4. AttemptsBounded'
    <3>1. \A j \in Job : status'[j] = status[j] /\ attempts'[j] = attempts[j]
      BY <1>2 DEF rowVars
    <3> QED
      BY <1>a, <3>1, BoundKept DEF AttemptsBounded, SharedId
  <2> QED
    BY <1>b, <2>1, <2>2, <2>3, <2>4 DEF QueueInv
<1>3. ASSUME OwnsLease(w, c.job),
             NEW s \in {"completed", "failed", "pending"},
             s = "pending" => c.attempt < MaxAttempts,
             s = "pending" /\ c = RunningClaim(c.job) => attempts[c.job] < MaxAttempts,
             Release(c.job, s),
             wait' \in [Job -> 0..RetryDelay]
      PROVE  QueueInv'
  <2>0. /\ status'[c.job] = s /\ lockedBy'[c.job] = NoWorker
        /\ \A j \in Job : j # c.job => status'[j] = status[j] /\ lockedBy'[j] = lockedBy[j]
    BY <1>1, <1>3 DEF Release, QueueInv, QueueTypeOK
  <2>1. QueueTypeOK'
    BY <1>1, <1>3, QueueAssumption DEF QueueInv, QueueTypeOK, Release, Status
  <2>2. LeaseMatchesClaim'
    <3> SUFFICES ASSUME NEW j \in Job, status'[j] = "processing"
                 PROVE  /\ \A v \in Worker : RunningClaim(j) \in held'[v]
                                              => LockIdOf[v] = lockedBy'[j]
                        /\ \E v \in Worker : /\ LockIdOf[v] = lockedBy'[j]
                                             /\ v \in alive => RunningClaim(j) \in held'[v]
      BY <1>1 DEF LeaseMatchesClaim, RunningClaim
    <3>1. j # c.job /\ status[j] = "processing" /\ lockedBy'[j] = lockedBy[j]
      BY <1>3, <2>0
    <3>2. /\ \A v \in Worker : RunningClaim(j) \in held[v] => LockIdOf[v] = lockedBy[j]
          /\ \E v \in Worker : /\ LockIdOf[v] = lockedBy[j]
                               /\ v \in alive => RunningClaim(j) \in held[v]
      BY <3>1 DEF QueueInv, LeaseMatchesClaim
    <3>3. c # RunningClaim(j)
      BY <3>1 DEF RunningClaim
    <3> QED
      BY <1>a, <3>1, <3>2, <3>3
  <2>3. AttemptsBounded'
    <3> SUFFICES ASSUME NEW j \in Job
                 PROVE  IF SharedId
                        THEN attempts'[j] >= MaxAttempts =>
                               attempts'[j] + Cardinality(EarlyHeld(j)') <=
                                 IF status'[j] \in {"absent", "pending"}
                                 THEN 2 * MaxAttempts - 2 ELSE 2 * MaxAttempts - 1
                        ELSE status'[j] \in {"absent", "pending"} => attempts'[j] < MaxAttempts
      BY DEF AttemptsBounded, SharedId
    <3>1. CASE j # c.job
      BY <1>1, <1>a, <2>0, <3>1, BoundKept
    <3>2. CASE j = c.job
      <4>1. EarlyHeld(j)' \subseteq EarlyHeld(j)
        BY <1>a DEF EarlyHeld
      <4>2. /\ Cardinality(EarlyHeld(j)') \in Nat /\ Cardinality(EarlyHeld(j)) \in Nat
            /\ Cardinality(EarlyHeld(j)') <= Cardinality(EarlyHeld(j))
        BY <4>1, EarlyHeldFinite, FewerEarly
      <4>3. ASSUME s = "pending"
            PROVE  Cardinality(EarlyHeld(j)') <= Cardinality(EarlyHeld(j)) - 1
        <5>1. c.attempt \in 1..(MaxAttempts - 1)
          BY <1>1, <1>3, <4>3, QueueAssumption
        <5>2. c.attempt \in EarlyHeld(j)
          BY <1>1, <3>2, <5>1 DEF EarlyHeld
        <5>3. c.attempt \notin EarlyHeld(j)'
          <6>1. \A v \in Worker : c \in held[v] => v = w
            BY DEF QueueInv, ClaimsDistinct
          <6>2. \A v \in Worker : [job |-> j, attempt |-> c.attempt] \notin held'[v]
            BY <1>1, <1>a, <3>2, <6>1
          <6> QED
            BY <6>2 DEF EarlyHeld
        <5> QED
          BY <4>1, <5>2, <5>3, EarlyHeldFinite, FewerEarly
      <4>4. /\ attempts'[j] = attempts[j] /\ status[j] = "processing" /\ status'[j] = s
            /\ attempts[j] \in Nat /\ MaxAttempts \in Nat
        BY <1>1, <1>3, <2>0, <3>2, QueueAssumption DEF OwnsLease
      <4>5. SharedId /\ attempts[j] >= MaxAttempts =>
              attempts[j] + Cardinality(EarlyHeld(j)) <= 2 * MaxAttempts - 1
        BY <4>4 DEF QueueInv, AttemptsBounded
      <4>6. ASSUME ~SharedId, s = "pending" PROVE attempts[j] < MaxAttempts
        <5>1. c = RunningClaim(c.job)
          BY <1>3, <4>6, OwnerHolds, NoSiblings
        <5> QED
          BY <1>3, <3>2, <4>6, <5>1
      <4>7. CASE s = "pending"
        BY <4>2, <4>3, <4>4, <4>5, <4>6, <4>7
      <4>8. CASE s # "pending"
        BY <1>3, <4>2, <4>4, <4>5, <4>8
      <4> QED
        BY <4>7, <4>8
    <3> QED
      BY <3>1, <3>2
  <2>4. LeaseWellFormed'
    <3> SUFFICES ASSUME NEW j \in Job
                 PROVE  /\ lockedBy'[j] # NoWorker <=> status'[j] = "processing"
                        /\ status'[j] \in {"absent", "pending"} => attempts'[j] < TryLimit
                        /\ status'[j] \in {"processing", "completed"} => attempts'[j] > 0
      BY DEF LeaseWellFormed
    <3>1. attempts'[j] = attempts[j] /\ attempts[j] \in Nat /\ MaxAttempts \in Nat \ {0}
      BY <1>1, TryLimitType, QueueAssumption DEF QueueInv, QueueTypeOK
    <3>2. CASE j # c.job
      BY <1>1, <2>0, <3>2 DEF QueueInv, LeaseWellFormed
    <3>3. CASE j = c.job
      <4>1. status[j] = "processing" /\ attempts[j] > 0 /\ status'[j] = s /\ lockedBy'[j] = NoWorker
        BY <1>1, <1>3, <2>0, <3>3 DEF OwnsLease, QueueInv, LeaseWellFormed
      <4>2. Cardinality(EarlyHeld(j)') \in Nat
        <5>1. EarlyHeld(j)' \subseteq EarlyHeld(j)
          BY <1>a DEF EarlyHeld
        <5> QED
          BY <5>1, EarlyHeldFinite, FewerEarly
      <4>3. IF SharedId
            THEN attempts'[j] >= MaxAttempts =>
                   attempts'[j] + Cardinality(EarlyHeld(j)') <=
                     IF status'[j] \in {"absent", "pending"}
                     THEN 2 * MaxAttempts - 2 ELSE 2 * MaxAttempts - 1
            ELSE status'[j] \in {"absent", "pending"} => attempts'[j] < MaxAttempts
        BY <2>3 DEF AttemptsBounded, SharedId
      <4>4. s = "pending" => attempts'[j] < TryLimit
        BY <3>1, <4>1, <4>2, <4>3 DEF TryLimit
      <4> QED
        BY <1>3, <3>1, <4>1, <4>4
    <3> QED
      BY <3>2, <3>3
  <2> QED
    BY <1>b, <2>1, <2>2, <2>3, <2>4 DEF QueueInv
<1>4. CASE CompleteJob(w, c)
  <2>1. CASE OwnsLease(w, c.job)
    <3>1. Release(c.job, "completed") /\ wait' = wait
      BY <1>4, <2>1 DEF CompleteJob
    <3> QED
      BY <1>3, <2>1, <3>1 DEF QueueInv, QueueTypeOK
  <2>2. CASE ~OwnsLease(w, c.job)
    BY <1>2, <1>4, <2>2 DEF CompleteJob
  <2> QED
    BY <2>1, <2>2
<1>5. CASE FailJob(w, c)
  <2>0. PICK seen \in c.attempt..attempts[c.job] : FailJobSeeing(w, c, seen)
    BY <1>5 DEF FailJob
  <2>a. seen \in Nat /\ c.attempt <= seen /\ MaxAttempts \in Nat
        /\ (c = RunningClaim(c.job) => seen = attempts[c.job])
    <3>1. c = RunningClaim(c.job) => c.attempt = attempts[c.job]
      BY DEF RunningClaim
    <3> QED
      BY <1>1, <2>0, <3>1, QueueAssumption
  <2>1. CASE OwnsLease(w, c.job) /\ seen >= MaxAttempts
    <3>1. Release(c.job, "failed") /\ wait' = wait
      BY <2>0, <2>1 DEF FailJobSeeing
    <3> QED
      BY <1>3, <2>1, <3>1 DEF QueueInv, QueueTypeOK
  <2>2. CASE OwnsLease(w, c.job) /\ ~(seen >= MaxAttempts)
    <3>1. Release(c.job, "pending") /\ wait' = [wait EXCEPT ![c.job] = RetryDelay]
      BY <2>0, <2>2 DEF FailJobSeeing
    <3>2. /\ c.attempt < MaxAttempts
          /\ c = RunningClaim(c.job) => attempts[c.job] < MaxAttempts
      BY <1>1, <2>2, <2>a
    <3>3. wait' \in [Job -> 0..RetryDelay]
      <4>1. RetryDelay \in 0..RetryDelay /\ wait \in [Job -> 0..RetryDelay]
        BY QueueAssumption DEF QueueInv, QueueTypeOK
      <4> QED
        BY <3>1, <4>1
    <3> QED
      BY <1>3, <2>2, <3>1, <3>2, <3>3
  <2>3. CASE ~OwnsLease(w, c.job)
    BY <1>2, <2>0, <2>3 DEF FailJobSeeing
  <2> QED
    BY <2>1, <2>2, <2>3
<1> QED
  BY <1>4, <1>5

(* A crash forgets claims and frees no row: the leases wait for recovery. *)
LEMMA CrashInv ==
  ASSUME QueueInv, NEW w \in Worker, Crash(w)
  PROVE  QueueInv'
<1>1. QueueTypeOK' /\ LeaseWellFormed'
  BY DEF Crash, rowVars, QueueInv, QueueTypeOK, LeaseWellFormed
<1>2. /\ UNCHANGED rowVars /\ alive' = alive \ {w} /\ held'[w] = {}
      /\ \A v \in Worker : v # w => held'[v] = held[v]
  BY DEF Crash, QueueInv, QueueTypeOK
<1>3. ClaimsDistinct'
  BY <1>2 DEF rowVars, QueueInv, ClaimsDistinct
<1>4. LeaseMatchesClaim'
  BY <1>2 DEF rowVars, QueueInv, LeaseMatchesClaim, RunningClaim
<1>5. AttemptsBounded'
  <2>1. /\ \A j \in Job : status'[j] = status[j] /\ attempts'[j] = attempts[j]
        /\ \A v \in Worker : held'[v] \subseteq held[v]
    BY <1>2 DEF rowVars
  <2> QED
    BY <2>1, BoundKept DEF AttemptsBounded, SharedId
<1> QED
  BY <1>1, <1>3, <1>4, <1>5 DEF QueueInv

(* Time only ages leases and retry delays. *)
LEMMA TickInv == QueueInv /\ Tick => QueueInv'
<1> SUFFICES ASSUME QueueInv, Tick PROVE QueueInv'
  OBVIOUS
<1>1. lockAge' \in [Job -> 0..StaleAfter] /\ wait' \in [Job -> 0..RetryDelay]
  BY QueueAssumption DEF Tick, QueueInv, QueueTypeOK
<1>2. QueueTypeOK'
  BY <1>1 DEF Tick, QueueInv, QueueTypeOK
<1>3. LeaseWellFormed' /\ LeaseMatchesClaim' /\ ClaimsDistinct'
  BY DEF Tick, QueueInv, LeaseWellFormed, LeaseMatchesClaim, ClaimsDistinct, RunningClaim
<1>4. AttemptsBounded'
  BY DEF Tick, QueueInv, AttemptsBounded, EarlyHeld
<1> QED
  BY <1>2, <1>3, <1>4 DEF QueueInv

(* The invariant speaks of the queue's variables only. *)
LEMMA QueueStutterInv == QueueInv /\ UNCHANGED queueVars => QueueInv'
<1> SUFFICES ASSUME QueueInv, UNCHANGED queueVars PROVE QueueInv'
  OBVIOUS
<1>1. QueueTypeOK' /\ LeaseWellFormed' /\ LeaseMatchesClaim' /\ ClaimsDistinct'
  BY DEF QueueInv, queueVars, rowVars, QueueTypeOK, LeaseWellFormed, LeaseMatchesClaim,
         ClaimsDistinct, RunningClaim
<1>2. AttemptsBounded'
  BY DEF QueueInv, queueVars, rowVars, AttemptsBounded, EarlyHeld
<1> QED
  BY <1>1, <1>2 DEF QueueInv

(* Every step of the queue preserves the invariant. *)
LEMMA QueueNextInv == QueueInv /\ [QueueNext]_queueVars => QueueInv'
<1> SUFFICES ASSUME QueueInv, [QueueNext]_queueVars PROVE QueueInv'
  OBVIOUS
<1>1. CASE Submission
  BY <1>1, SubmissionInv DEF Submission
<1>2. CASE \E w \in Worker : ClaimBatch(w)
  BY <1>2, ClaimBatchInv
<1>3. CASE \E w \in Worker : Report(w)
  BY <1>3, ReportInv DEF Report
<1>4. CASE \E w \in Worker : Crash(w)
  BY <1>4, CrashInv
<1>5. CASE Tick
  BY <1>5, TickInv
<1>6. CASE UNCHANGED queueVars
  BY <1>6, QueueStutterInv
<1> QED
  BY <1>1, <1>2, <1>3, <1>4, <1>5, <1>6 DEF QueueNext

(* The inductive invariant of the queue: types, the shape of leases, the   *)
(* agreement of lease column and loops' memory, distinct claims, and the   *)
(* bound of the attempts.                                                  *)
THEOREM QueueSafe == QueueSpec => []QueueInv
BY QueueInitInv, QueueNextInv, PTL DEF QueueSpec

(* Type correctness of the queue. *)
THEOREM QueueTypeCorrect == QueueSpec => []QueueTypeOK
BY QueueSafe, PTL DEF QueueInv

(* Leases are well formed: owner exactly while processing, and no row is   *)
(* left to work on without an attempt to spend.                            *)
THEOREM LeasesWellFormed == QueueSpec => []LeaseWellFormed
BY QueueSafe, PTL DEF QueueInv

(* The lease column and the loops' memory always agree: who holds the      *)
(* claim of a running attempt is of the process that the lease names.      *)
THEOREM LeasesMatchClaims == QueueSpec => []LeaseMatchesClaim
BY QueueSafe, PTL DEF QueueInv

(* No two loops ever hold the claim of the same attempt, of one process or *)
(* of two.                                                                 *)
THEOREM ClaimsAreDistinct == QueueSpec => []ClaimsDistinct
BY QueueSafe, PTL DEF QueueInv

--------------------------------------------------------------------------------
(* The effect of any step on one row, in terms of the lifecycle of a job. *)
RowStep(j) ==
  \/ status'[j] = status[j] /\ attempts'[j] = attempts[j]
  \/ status[j] = "absent" /\ status'[j] = "pending" /\ attempts'[j] = attempts[j]
  \/ \E w \in Worker : LeasedTo(w, j)
  \/ RejectedRow(j)
  \/ RecoveredRow(j)
  \/ /\ status[j] = "processing" /\ attempts'[j] = attempts[j]
     /\ \/ status'[j] = "completed"
        \/ status'[j] = "failed" /\ attempts[j] >= MaxAttempts
        \/ status'[j] = "pending"

(* Every step of the queue moves each row by one of the steps of RowStep. *)
LEMMA EveryStepIsARowStep ==
  QueueInv /\ [QueueNext]_queueVars => \A j \in Job : RowStep(j)
<1> SUFFICES ASSUME QueueInv, [QueueNext]_queueVars, NEW j \in Job PROVE RowStep(j)
  OBVIOUS
<1>0. attempts[j] \in 0..TryLimit /\ status \in [Job -> Status]
  BY DEF QueueInv, QueueTypeOK
<1>1. CASE Submission
  BY <1>1 DEF Submission, EnqueueJobs, NewIds, Lowest, RowStep
<1>2. ASSUME NEW w \in Worker, ClaimBatch(w) PROVE RowStep(j)
  <2>1. turn[w] \in JobType /\ ClaimJobs(turn[w], w)
    BY <1>2 DEF ClaimBatch, QueueInv, QueueTypeOK
  <2>2. RowAfterClaim(w, j)
    BY <2>1, ClaimRows
  <2> QED
    BY <2>2 DEF RowAfterClaim, RowStep, KeptRow
<1>3. ASSUME NEW w \in Worker, Report(w) PROVE RowStep(j)
  <2>1. PICK c \in held[w] : CompleteJob(w, c) \/ FailJob(w, c)
    BY <1>3 DEF Report
  <2>2. c.job \in Job
    BY DEF QueueInv, QueueTypeOK, Claim
  <2>3. CASE CompleteJob(w, c)
    BY <1>0, <2>3 DEF CompleteJob, Release, OwnsLease, RowStep, rowVars
  <2>4. CASE FailJob(w, c)
    <3>1. PICK seen \in c.attempt..attempts[c.job] : FailJobSeeing(w, c, seen)
      BY <2>4 DEF FailJob
    <3>2. seen >= MaxAttempts => attempts[c.job] >= MaxAttempts
      <4>1. c.attempt \in Nat /\ attempts[c.job] \in Nat
        BY <2>2, TryLimitType DEF QueueInv, QueueTypeOK, Claim
      <4> QED
        BY <3>1, <4>1, QueueAssumption
    <3> QED
      BY <1>0, <3>1, <3>2 DEF FailJobSeeing, Release, OwnsLease, RowStep, rowVars
  <2> QED
    BY <2>1, <2>3, <2>4
<1>4. CASE \E w \in Worker : Crash(w)
  BY <1>4 DEF Crash, rowVars, RowStep
<1>5. CASE Tick
  BY <1>5 DEF Tick, RowStep
<1>6. CASE UNCHANGED queueVars
  BY <1>6 DEF queueVars, rowVars, RowStep
<1> QED
  BY <1>1, <1>2, <1>3, <1>4, <1>5, <1>6 DEF QueueNext

(* A completed or failed job is never touched again. *)
THEOREM SettledJobsAreFinal == QueueSpec => SettledIsFinal
<1>1. QueueInv /\ [QueueNext]_queueVars =>
        [\A j \in Job : Settled(j) =>
           status'[j] = status[j] /\ attempts'[j] = attempts[j]]_queueVars
  BY EveryStepIsARowStep DEF RowStep, Settled, LeasedTo, RejectedRow, RecoveredRow
<1> QED
  BY <1>1, QueueSafe, PTL DEF QueueSpec, SettledIsFinal

(* A report on a claim that is no longer the running attempt of its row    *)
(* leaves the row alone, unless that runs under the reporter's identifier  *)
(* in another loop of its process.                                         *)
THEOREM LateReportsSpareOthers == QueueSpec => LateReportSparesOthers
<1> DEFINE Spares == \A w \in Worker : \A c \in held[w] \ held'[w] :
              Late(c) => \/ RowKept(c.job)
                         \/ \E v \in Siblings(w) : v \in alive => RunningClaim(c.job) \in held[v]
<1>1. QueueInv /\ [QueueNext]_queueVars => [Spares]_queueVars
  <2> SUFFICES ASSUME QueueInv, QueueNext, NEW w \in Worker, NEW c \in held[w] \ held'[w],
                      Late(c)
               PROVE  \/ RowKept(c.job)
                      \/ \E v \in Siblings(w) : v \in alive => RunningClaim(c.job) \in held[v]
    BY DEF queueVars
  <2>0. held \in [Worker -> SUBSET Claim] /\ c = [job |-> c.job, attempt |-> c.attempt]
    BY DEF QueueInv, QueueTypeOK, Claim
  <2>1. CASE Submission \/ Tick
    BY <2>1 DEF Submission, EnqueueJobs, Tick
  <2>2. CASE \E v \in Worker : ClaimBatch(v)
    <3>1. PICK v \in Worker : ClaimBatch(v)
      BY <2>2
    <3>2. held[v] = {} /\ \A u \in Worker : u # v => held'[u] = held[u]
      BY <2>0, <3>1 DEF ClaimBatch, ClaimJobs, NextAttempt
    <3> QED
      BY <3>2
  <2>3. CASE \E v \in Worker : Crash(v)
    BY <2>3 DEF Crash, rowVars, RowKept
  <2>4. CASE \E v \in Worker : Report(v)
    <3>0. PICK v \in Worker : Report(v)
      BY <2>4
    <3>1. PICK d \in held[v] : v \in alive /\ (CompleteJob(v, d) \/ FailJob(v, d))
      BY <3>0 DEF Report
    <3>2. v = w /\ d = c
      BY <2>0, <3>1 DEF CompleteJob, FailJob, FailJobSeeing
    <3>3. CASE ~OwnsLease(w, c.job)
      BY <3>1, <3>2, <3>3 DEF CompleteJob, FailJob, FailJobSeeing, rowVars, RowKept
    <3>4. CASE OwnsLease(w, c.job)
      <4>1. c # RunningClaim(c.job)
        BY <3>4 DEF Late, OwnsLease, RunningClaim
      <4> QED
        BY <3>1, <3>2, <3>4, <4>1, OwnerHolds
    <3> QED
      BY <3>3, <3>4
  <2> QED
    BY <2>1, <2>2, <2>3, <2>4 DEF QueueNext
<1> QED
  BY <1>1, QueueSafe, PTL DEF QueueSpec, LateReportSparesOthers

(* A running lease is ended by its process only: while the lease is not    *)
(* stale the row leaves processing by a report of a loop that goes by the  *)
(* identifier, and where there is one such loop, on the running attempt.   *)
THEOREM LeasesEndByOwner == QueueSpec => OnlyOwnerEndsLease
<1> DEFINE Owner == \A j \in Job :
              status[j] = "processing" /\ lockAge[j] < StaleAfter /\ status'[j] # "processing" =>
                \E w \in Worker :
                  /\ LockIdOf[w] = lockedBy[j]
                  /\ \E c \in held[w] \ held'[w] :
                       c.job = j /\ (Siblings(w) = {} => c = RunningClaim(j))
<1>1. QueueInv /\ [QueueNext]_queueVars => [Owner]_queueVars
  <2> SUFFICES ASSUME QueueInv, QueueNext, NEW j \in Job, status[j] = "processing",
                      lockAge[j] < StaleAfter, status'[j] # "processing"
               PROVE  \E w \in Worker :
                        /\ LockIdOf[w] = lockedBy[j]
                        /\ \E c \in held[w] \ held'[w] :
                             c.job = j /\ (Siblings(w) = {} => c = RunningClaim(j))
    BY DEF queueVars
  <2>0. lockAge[j] \in 0..StaleAfter
    BY DEF QueueInv, QueueTypeOK
  <2>1. CASE Submission \/ Tick
    BY <2>0, <2>1 DEF Submission, EnqueueJobs, NewIds, Lowest, Tick
  <2>2. CASE \E v \in Worker : ClaimBatch(v)
    <3>1. PICK v \in Worker : ClaimBatch(v)
      BY <2>2
    <3>2. turn[v] \in JobType /\ ClaimJobs(turn[v], v)
      BY <3>1 DEF ClaimBatch, QueueInv, QueueTypeOK
    <3>3. RowAfterClaim(v, j)
      BY <3>2, ClaimRows
    <3>4. ~(lockAge[j] >= StaleAfter)
      BY <2>0, QueueAssumption
    <3> QED
      BY <2>0, <3>3, <3>4 DEF RowAfterClaim, LeasedTo, RejectedRow, RecoveredRow, KeptRow
  <2>3. CASE \E v \in Worker : Crash(v)
    BY <2>0, <2>3 DEF Crash, rowVars
  <2>4. CASE \E v \in Worker : Report(v)
    <3>0. PICK v \in Worker : Report(v)
      BY <2>4
    <3>1. PICK c \in held[v] : v \in alive /\ (CompleteJob(v, c) \/ FailJob(v, c))
      BY <3>0 DEF Report
    <3>2. c.job = j /\ OwnsLease(v, c.job)
      BY <2>0, <3>1
      DEF CompleteJob, FailJob, FailJobSeeing, Release, rowVars, QueueInv, QueueTypeOK
    <3>3. Siblings(v) = {} => c = RunningClaim(j)
      BY <3>1, <3>2, OwnerHolds
    <3>4. held' = [held EXCEPT ![v] = @ \ {c}]
      BY <3>1 DEF CompleteJob, FailJob, FailJobSeeing
    <3>5. c \in held[v] \ held'[v]
      BY <3>4 DEF QueueInv, QueueTypeOK
    <3> QED
      BY <3>2, <3>3, <3>5 DEF OwnsLease
  <2> QED
    BY <2>1, <2>2, <2>3, <2>4 DEF QueueNext
<1> QED
  BY <1>1, QueueSafe, PTL DEF QueueSpec, OnlyOwnerEndsLease

(* The queue implements the job lifecycle: every step is a lifecycle step  *)
(* of the jobs it touches, or a stutter.                                   *)
THEOREM QueueImplementsLifecycle == QueueSpec => ImplementsLifecycle
<1> DEFINE ph == [j \in Job |-> IF status[j] \in {"pending", "processing"}
                               THEN "open" ELSE status[j]]
<1>1. QueueInit => Lifecycle!LifecycleInit
  BY DEF QueueInit, Lifecycle!LifecycleInit
<1>2. QueueInv /\ QueueInv' /\ [QueueNext]_queueVars => [Lifecycle!LifecycleNext]_(Lifecycle!lifecycleVars)
  <2> SUFFICES ASSUME QueueInv, QueueInv', [QueueNext]_queueVars
               PROVE  Lifecycle!LifecycleNext
    BY DEF Lifecycle!lifecycleVars
  <2>1. ph' \in [Job -> {"absent", "open", "completed", "failed"}]
    BY DEF QueueInv, QueueTypeOK, Status
  <2>2. attempts' \in [Job -> 0..TryLimit]
    BY DEF QueueInv, QueueTypeOK
  <2>3. ASSUME NEW j \in Job
        PROVE  \/ Lifecycle!Same(j) \/ Lifecycle!Submit(j) \/ Lifecycle!Try(j)
               \/ Lifecycle!Finish(j) \/ Lifecycle!GiveUp(j) \/ Lifecycle!Reject(j)
    <3>0. /\ RowStep(j)
          /\ attempts[j] \in 0..TryLimit /\ TryLimit \in Nat
          /\ status[j] \in {"processing", "completed"} => attempts[j] > 0
          /\ ph[j] = IF status[j] \in {"pending", "processing"} THEN "open" ELSE status[j]
          /\ ph'[j] = IF status'[j] \in {"pending", "processing"} THEN "open" ELSE status'[j]
      BY EveryStepIsARowStep, TryLimitType DEF QueueInv, QueueTypeOK, LeaseWellFormed
    <3> HIDE DEF ph
    <3> QED
      BY <3>0
      DEF RowStep, LeasedTo, RejectedRow, RecoveredRow, ph,
          Lifecycle!Same, Lifecycle!Submit, Lifecycle!Try, Lifecycle!Finish,
          Lifecycle!GiveUp, Lifecycle!Reject
  <2> QED
    BY <2>1, <2>2, <2>3 DEF Lifecycle!LifecycleNext
<1> QED
  BY <1>1, <1>2, QueueSafe, PTL DEF QueueSpec, ImplementsLifecycle, Lifecycle!LifecycleSpec
================================================================================
