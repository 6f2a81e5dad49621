------------------------------- MODULE AlertJobs -------------------------------
(***************************************************************************)
(* The alert_jobs table used as a job queue (src/storage/alert_jobs.py)    *)
(* and the workers that drain it (process_job_queue): jobs are claimed in  *)
(* batches under a lease, completed or failed by the lease owner, and      *)
(* recovered by the next claim when a lease has gone stale.                *)
(*                                                                         *)
(* Time is kept as what the code compares it with: lockAge is the age of   *)
(* locked_at (counted up to StaleAfter, where the lease is stale) and wait *)
(* is what is left until run_after.  No absolute clock is needed.          *)
(*                                                                         *)
(* A worker is one sequential loop: the worker process, or a thread of the *)
(* API process that runs a check (at start-up, after a refresh, in a       *)
(* request).  The identifier it puts into locked_by names the process      *)
(* (_PROCESS_WORKER_ID), so the threads of one process share it.  A loop   *)
(* that ended with its process, or by an exception its thread caught,      *)
(* never comes back: a later loop of the process is another worker with    *)
(* the same identifier, a restarted process has an identifier of its own.  *)
(***************************************************************************)
EXTENDS Naturals, FiniteSets

CONSTANTS Worker,       \* the loops that drain the queue
          LockId,       \* worker identifiers, one per process
          LockIdOf,     \* worker -> the identifier of its process
          NoWorker,     \* locked_by IS NULL
          MaxJobs,      \* bound: rows ever inserted
          MaxAttempts,  \* max_attempts of every row
          StaleAfter,   \* age at which a lease is stale
          RetryDelay,   \* retry_delay_seconds of fail_job
          ClaimLimit,   \* LIMIT of one claim
          MaxEnqueue,   \* bound: rows inserted by one transaction
          Corrupt       \* ids of rows whose payload_json does not parse

ASSUME QueueAssumption ==
  /\ LockIdOf \in [Worker -> LockId]
  /\ NoWorker \notin LockId
  /\ MaxJobs \in Nat
  /\ MaxAttempts \in Nat \ {0}
  /\ StaleAfter \in Nat
  /\ RetryDelay \in Nat
  /\ ClaimLimit \in Nat
  /\ MaxEnqueue \in Nat
  /\ Corrupt \subseteq 1..MaxJobs

VARIABLES
  status,    \* job -> status column ("absent": not inserted yet)
  jobType,   \* job -> job_type column
  attempts,  \* job -> attempts column
  lockedBy,  \* job -> locked_by column
  lockAge,   \* job -> now - locked_at, up to StaleAfter (0 when NULL)
  wait,      \* job -> run_after - now, 0 when due
  held,      \* worker -> claimed jobs it has not reported on, in memory
  turn,      \* worker -> type the worker's loop claims next
  alive      \* workers whose loop has not ended with their process or a raise

rowVars == <<status, jobType, attempts, lockedBy, lockAge, wait>>
queueVars == <<rowVars, held, turn, alive>>

Job == 1..MaxJobs
JobType == {"evaluate_symbol", "deliver"}
Status == {"absent", "pending", "processing", "completed", "failed"}

(* Two loops of one process use one identifier. *)
SharedId == \E v, w \in Worker : v # w /\ LockIdOf[v] = LockIdOf[w]

(* The attempts a job may be given.  Beyond MaxAttempts a job is requeued  *)
(* only by fail_job for a late loop that read the attempts column before a *)
(* sibling claimed the job again, once for each earlier attempt.           *)
TryLimit == IF SharedId THEN 2 * MaxAttempts - 1 ELSE MaxAttempts

Claim == [job : Job, attempt : 1..TryLimit]

QueueTypeOK ==
  /\ status \in [Job -> Status]
  /\ jobType \in [Job -> JobType]
  /\ attempts \in [Job -> 0..TryLimit]
  /\ lockedBy \in [Job -> LockId \cup {NoWorker}]
  /\ lockAge \in [Job -> 0..StaleAfter]
  /\ wait \in [Job -> 0..RetryDelay]
  /\ held \in [Worker -> SUBSET Claim]
  /\ turn \in [Worker -> JobType]
  /\ alive \in SUBSET Worker

QueueInit ==
  /\ status = [j \in Job |-> "absent"]
  /\ jobType = [j \in Job |-> "deliver"]
  /\ attempts = [j \in Job |-> 0]
  /\ lockedBy = [j \in Job |-> NoWorker]
  /\ lockAge = [j \in Job |-> 0]
  /\ wait = [j \in Job |-> 0]
  /\ held = [w \in Worker |-> {}]
  /\ turn = [w \in Worker |-> "evaluate_symbol"]
  /\ alive = Worker

--------------------------------------------------------------------------------
(* Slips: variants of definitions below with a plausible bug in them.      *)
SlipStaleTooEarly(t) ==
  {j \in Job : status[j] = "processing" /\ jobType[j] = t /\ lockAge[j] + 1 >= StaleAfter}
SlipRecoverAll(t) ==
  {j \in Job : status[j] = "processing" /\ jobType[j] = t /\ lockAge[j] >= StaleAfter}
SlipNeverExhausted(t) == {}
SlipSettledIsDue(t) ==
  {j \in Job : jobType[j] = t /\ wait[j] = 0 /\ status[j] \notin {"absent", "processing"}}
SlipAnyLease(w, j) == status[j] = "processing"
SlipFreshLease(w, j) == status[j] = "processing" /\ lockedBy[j] = LockIdOf[w] /\ lockAge[j] < StaleAfter
SlipNoGuard(w, j) == TRUE
--------------------------------------------------------------------------------
(* The n members of S with the smallest ids: ORDER BY id LIMIT n. *)
Lowest(S, n) == {j \in S : Cardinality({k \in S : k < j}) < n}

NewIds(n) == Lowest({j \in Job : status[j] = "absent"}, n)

(* enqueue_job (n = 1) and enqueue_jobs: due at once, never tried. *)
EnqueueJobs(t, n) ==
  LET new == NewIds(n)
  IN /\ Cardinality(new) = n
     /\ status' = [j \in Job |-> IF j \in new THEN "pending" ELSE status[j]]
     /\ jobType' = [j \in Job |-> IF j \in new THEN t ELSE jobType[j]]
     /\ UNCHANGED <<attempts, lockedBy, lockAge, wait, held, turn, alive>>

StaleJobs(t) ==
  {j \in Job : status[j] = "processing" /\ jobType[j] = t /\ lockAge[j] >= StaleAfter}

(* Stale leases with attempts left go back to pending, the others fail. *)
Recovered(t) == {j \in StaleJobs(t) : attempts[j] < MaxAttempts}
Exhausted(t) == {j \in StaleJobs(t) : attempts[j] >= MaxAttempts}

Due(t) ==
  {j \in Job : jobType[j] = t /\ wait[j] = 0 /\ (status[j] = "pending" \/ j \in Recovered(t))}

Picked(t) == Lowest(Due(t), ClaimLimit)

(* attempts = attempts + 1, also for a job taken over from a stale lease. *)
NextAttempt(j) == attempts[j] + 1

(* claim_jobs is one BEGIN IMMEDIATE transaction: stale recovery, then the *)
(* due rows in id order.  A row whose payload does not parse is failed     *)
(* inside the same transaction and is not returned.                        *)
ClaimJobs(t, w) ==
  LET leased == Picked(t) \ Corrupt
      failed == Exhausted(t) \cup (Picked(t) \cap Corrupt)
  IN /\ status' = [j \in Job |->
                     IF j \in leased THEN "processing"
                     ELSE IF j \in failed THEN "failed"
                     ELSE IF j \in Recovered(t) THEN "pending"
                     ELSE status[j]]
     /\ attempts' = [j \in Job |-> IF j \in Picked(t) THEN NextAttempt(j) ELSE attempts[j]]
     /\ lockedBy' = [j \in Job |->
                       IF j \in leased THEN LockIdOf[w]
                       ELSE IF j \in StaleJobs(t) \cup failed THEN NoWorker
                       ELSE lockedBy[j]]
     /\ lockAge' = [j \in Job |->
                      IF j \in StaleJobs(t) \cup Picked(t) THEN 0 ELSE lockAge[j]]
     /\ held' = [held EXCEPT ![w] =
                   {[job |-> j, attempt |-> NextAttempt(j)] : j \in leased}]
     /\ UNCHANGED <<jobType, wait, alive>>

(* What complete_job and fail_job ask: status and locked_by, no attempt. *)
OwnsLease(w, j) == status[j] = "processing" /\ lockedBy[j] = LockIdOf[w]

Release(j, s) ==
  /\ status' = [status EXCEPT ![j] = s]
  /\ lockedBy' = [lockedBy EXCEPT ![j] = NoWorker]
  /\ lockAge' = [lockAge EXCEPT ![j] = 0]

(* complete_job: the update matches no row once the lease is gone. *)
CompleteJob(w, c) ==
  /\ IF OwnsLease(w, c.job)
     THEN Release(c.job, "completed") /\ UNCHANGED <<jobType, attempts, wait>>
     ELSE UNCHANGED rowVars
  /\ held' = [held EXCEPT ![w] = @ \ {c}]
  /\ UNCHANGED <<turn, alive>>

(* fail_job of a loop that read the attempts column as seen. *)
FailJobSeeing(w, c, seen) ==
  /\ IF OwnsLease(w, c.job)
     THEN IF seen >= MaxAttempts
          THEN Release(c.job, "failed") /\ UNCHANGED <<jobType, attempts, wait>>
          ELSE /\ Release(c.job, "pending")
               /\ wait' = [wait EXCEPT ![c.job] = RetryDelay]
               /\ UNCHANGED <<jobType, attempts>>
     ELSE UNCHANGED rowVars
  /\ held' = [held EXCEPT ![w] = @ \ {c}]
  /\ UNCHANGED <<turn, alive>>

(* fail_job is a SELECT and an UPDATE, two statements that both ask for    *)
(* the lease.  In between the row may be recovered and claimed again by a  *)
(* sibling, so the attempts that were read are those of any claim since    *)
(* this one.  A SELECT that finds no lease is a report without effect.     *)
FailJob(w, c) == \E seen \in c.attempt..attempts[c.job] : FailJobSeeing(w, c, seen)

--------------------------------------------------------------------------------
OtherType(t) == CHOOSE u \in JobType : u # t

(* The loop of process_job_queue: an evaluate batch, then a deliver batch, *)
(* each worked off before the next claim.                                  *)
ClaimBatch(w) ==
  /\ w \in alive
  /\ held[w] = {}
  /\ ClaimJobs(turn[w], w)
  /\ turn' = [turn EXCEPT ![w] = OtherType(@)]

(* The job at the head of the batch: jobs are returned in id order. *)
IsCurrent(w, c) == c \in held[w] /\ \A d \in held[w] : c.job <= d.job

Report(w) ==
  /\ w \in alive
  /\ \E c \in held[w] : IsCurrent(w, c) /\ (CompleteJob(w, c) \/ FailJob(w, c))

(* A loop ends early: its process dies, or a claim or fail_job raises and  *)
(* its thread catches that.  What it held in memory is lost, its leases    *)
(* stay.  The deployment keeps a worker running, so the last one remains.  *)
Crash(w) ==
  /\ w \in alive
  /\ alive # {w}
  /\ alive' = alive \ {w}
  /\ held' = [held EXCEPT ![w] = {}]
  /\ UNCHANGED <<rowVars, turn>>

(* Time passes. *)
Tick ==
  /\ lockAge' = [j \in Job |->
                   IF status[j] = "processing" /\ lockAge[j] < StaleAfter
                   THEN lockAge[j] + 1 ELSE lockAge[j]]
  /\ wait' = [j \in Job |-> IF wait[j] > 0 THEN wait[j] - 1 ELSE 0]
  /\ UNCHANGED <<status, jobType, attempts, lockedBy, held, turn, alive>>

Submission == \E t \in JobType, n \in 1..MaxEnqueue : EnqueueJobs(t, n)

QueueNext ==
  \/ Submission
  \/ \E w \in Worker : ClaimBatch(w) \/ Report(w) \/ Crash(w)
  \/ Tick

QueueSpec == QueueInit /\ [][QueueNext]_queueVars

(* Worker loops keep running (run_worker_loop), a job that is started      *)
(* returns or raises, and time passes.                                     *)
QueueFairness ==
  /\ \A w \in Worker : WF_queueVars(ClaimBatch(w)) /\ WF_queueVars(Report(w))
  /\ WF_queueVars(Tick)

FairQueueSpec == QueueSpec /\ QueueFairness
--------------------------------------------------------------------------------
Settled(j) == status[j] \in {"completed", "failed"}

(* A lease is well formed: a row names an owner exactly while it is        *)
(* processing, and every row still to be worked on has an attempt left, so *)
(* stale recovery and failure never requeue a job past its limit.          *)
LeaseWellFormed ==
  \A j \in Job :
    /\ lockedBy[j] # NoWorker <=> status[j] = "processing"
    /\ status[j] \in {"absent", "pending"} => attempts[j] < TryLimit
    /\ status[j] \in {"processing", "completed"} => attempts[j] > 0

(* The claim of the latest attempt of a job. *)
RunningClaim(j) == [job |-> j, attempt |-> attempts[j]]

(* The lease column and the loops' memory agree: a loop that holds the     *)
(* claim of a row's running attempt is of the process the lease names, and *)
(* some loop of that process holds that claim or has ended (as the one     *)
(* that took it then has).  Claims of earlier attempts are of late loops.  *)
LeaseMatchesClaim ==
  \A j \in Job :
    status[j] = "processing" =>
      /\ \A w \in Worker : RunningClaim(j) \in held[w] => LockIdOf[w] = lockedBy[j]
      /\ \E w \in Worker : /\ LockIdOf[w] = lockedBy[j]
                           /\ w \in alive => RunningClaim(j) \in held[w]

(* Nobody holds a claim from the future, a loop holds one claim per job,   *)
(* and no two loops hold the claim of one attempt of one job, also when    *)
(* they lock it under one identifier.                                      *)
ClaimsDistinct ==
  \A w \in Worker : \A c \in held[w] :
    /\ c.attempt <= attempts[c.job]
    /\ \A d \in held[w] : d.job = c.job => d = c
    /\ \A v \in Worker : c \in held[v] => v = w

Siblings(w) == {v \in Worker : v # w /\ LockIdOf[v] = LockIdOf[w]}

(* A report on a claim that is not the running attempt of its row. *)
Late(c) == ~(status[c.job] = "processing" /\ attempts[c.job] = c.attempt)

RowKept(j) ==
  status'[j] = status[j] /\ lockedBy'[j] = lockedBy[j] /\ wait'[j] = wait[j]

(* A late report changes nothing of another process: complete_job and      *)
(* fail_job of a late loop leave the row as it is, unless its running      *)
(* attempt was claimed under the same identifier by a sibling that works   *)
(* on it or has ended.  A process with a single loop has no sibling.       *)
LateReportSparesOthers ==
  [][\A w \in Worker : \A c \in held[w] \ held'[w] :
       Late(c) => \/ RowKept(c.job)
                  \/ \E v \in Siblings(w) : v \in alive => RunningClaim(c.job) \in held[v]
    ]_queueVars

(* complete_job and fail_job of a late worker change nothing (docstrings   *)
(* of both, test_alert_jobs_lock_ownership.py).                            *)
LateReportIsNoop ==
  [][\A w \in Worker : \A c \in held[w] \ held'[w] : Late(c) => RowKept(c.job)]_queueVars

(* A completed or failed job is final: no late worker, recovery or claim   *)
(* touches it again.                                                       *)
SettledIsFinal ==
  [][\A j \in Job : Settled(j) =>
       status'[j] = status[j] /\ attempts'[j] = attempts[j]]_queueVars

(* A lease that is not stale is ended only by a report of the process that *)
(* holds it: no claim, recovery or crash takes the job away.  Where the    *)
(* process has a single loop it is the report on the running attempt.      *)
OnlyOwnerEndsLease ==
  [][\A j \in Job :
       status[j] = "processing" /\ lockAge[j] < StaleAfter /\ status'[j] # "processing" =>
         \E w \in Worker :
           /\ LockIdOf[w] = lockedBy[j]
           /\ \E c \in held[w] \ held'[w] :
                c.job = j /\ (Siblings(w) = {} => c = RunningClaim(j))]_queueVars

(* The queue implements the lifecycle of a job. *)
Lifecycle == INSTANCE JobLifecycle
  WITH Unreadable <- Corrupt,
       tries <- attempts,
       phase <- [j \in Job |-> IF status[j] \in {"pending", "processing"}
                               THEN "open" ELSE status[j]]

ImplementsLifecycle == Lifecycle!LifecycleSpec

(* Every job that enters the queue is completed or failed in the end,      *)
(* whatever crashes, and although rows with a corrupt payload sit at the   *)
(* head of the queue.                                                      *)
EveryJobSettles == \A j \in Job : status[j] = "pending" ~> Settled(j)
================================================================================
