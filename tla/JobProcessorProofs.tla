-------------------------- MODULE JobProcessorProofs ---------------------------
(***************************************************************************)
(* Proofs about the job processor, for any number of workers, alerts and   *)
(* rows, any settings the users save and any delays: it implements the     *)
(* queue, and the trigger marker does its work.                            *)
(***************************************************************************)
EXTENDS JobProcessor, AlertJobsProofs, DataLemmas

(* Steps inside a job's function leave the queue alone or enqueue one row. *)
LEMMA JobStepIsQueueStep ==
  ASSUME NEW w \in Worker, JobStep(w)
  PROVE  UNCHANGED queueVars \/ EnqueueJobs("deliver", 1)
BY DEF JobStep, ListWatches, EvaluateWatch, EnqueueDeliver, EndEvaluate, ReadMarker,
       RereadMarker, GetWatch, CheckCooldown, TryClaimTrigger, Send, RecordEvent,
       RestoreClaim, Raise, ReadAttempts

--------------------------------------------------------------------------------
(* A worker that claimed the trigger marker and has not yet notified       *)
(* anybody or rolled back.                                                 *)
Claiming(w) == pc[w] \in {"send", "restore"}

(* Its claim is still in its memory. *)
ActiveClaims == \A w \in Worker : Claiming(w) => Current(w) \in held[w]

(* What fail_job read of the attempts of a claim is of it or a later one.  *)
AttemptsSeen ==
  \A w \in Worker :
    pc[w] = "failing" => /\ Current(w) \in held[w]
                         /\ mem[w].seen \in Current(w).attempt..attempts[Current(w).job]

(* Rows not inserted yet were never tried, and a notification was sent by  *)
(* an attempt that happened: events of notified jobs do not change.        *)
UnbornUntried == \A j \in Job : status[j] = "absent" => attempts[j] = 0
InboxTried == \A n \in inbox : n.attempt <= attempts[n.job]

FrameInv ==
  /\ QueueInv /\ ProcessorTypeOK /\ ActiveClaims /\ AttemptsSeen
  /\ UnbornUntried /\ InboxTried

(* A report of the processor is a report on the head of the batch. *)
LEMMA FinishIsReport ==
  ASSUME AttemptsSeen, NEW w \in Worker, Finish(w) PROVE Report(w)
<1>1. w \in alive /\ IsCurrent(w, Current(w)) /\ Current(w) \in held[w]
  BY DEF Finish, Busy, IsCurrent
<1>2. CompleteJob(w, Current(w)) \/ FailJob(w, Current(w))
  BY DEF Finish, FailJob, AttemptsSeen
<1> QED
  BY <1>1, <1>2 DEF Report

(* The case split over the processor's next-state relation. *)
LEMMA ProcessorStepIsQueueStep ==
  ASSUME AttemptsSeen, [ProcessorNext]_vars PROVE [QueueNext]_queueVars
<1>0. 1 \in 1..MaxEnqueue /\ "deliver" \in JobType /\ "evaluate_symbol" \in JobType
  BY QueueAssumption, ProcessorAssumption DEF JobType
<1>1. CASE Orchestrate
  <2>1. Submission
    BY <1>0, <1>1 DEF Orchestrate, Submission
  <2> QED BY <2>1 DEF QueueNext
<1>2. ASSUME NEW w \in Worker, NextBatch(w) PROVE QueueNext
  BY <1>2 DEF NextBatch, QueueNext
<1>3. ASSUME NEW w \in Worker, JobStep(w) PROVE [QueueNext]_queueVars
  <2>1. CASE EnqueueJobs("deliver", 1)
    <3>1. Submission
      BY <1>0, <2>1 DEF Submission
    <3> QED BY <3>1 DEF QueueNext
  <2> QED BY <1>3, <2>1, JobStepIsQueueStep
<1>4. ASSUME NEW w \in Worker, Finish(w) PROVE QueueNext
  BY <1>4, FinishIsReport DEF QueueNext
<1>5. ASSUME NEW w \in Worker, Die(w) PROVE QueueNext
  BY <1>5 DEF Die, QueueNext
<1>6. ASSUME NEW a \in Alert, NEW r \in Row, SaveWatch(a, r) PROVE UNCHANGED queueVars
  BY <1>6 DEF SaveWatch
<1>7. CASE Clock
  BY <1>7 DEF Clock, QueueNext
<1>8. CASE UNCHANGED vars
  BY <1>8 DEF vars
<1> QED
  BY <1>1, <1>2, <1>3, <1>4, <1>5, <1>6, <1>7, <1>8 DEF ProcessorNext

(* The typed values the steps put together. *)
LEMMA BlankType == Blank \in Memory
BY TryLimitType DEF Blank, Memory, Row, Mark

(* What the invariants tell of the job a worker is at. *)
LEMMA CurrentType ==
  ASSUME FrameInv, NEW w \in Worker, Current(w) \in held[w]
  PROVE  /\ Current(w).job \in Job /\ Current(w).attempt \in 1..TryLimit
         /\ Current(w).attempt <= attempts[Current(w).job]
         /\ attempts[Current(w).job] \in Nat
         /\ status[Current(w).job] # "absent"
         /\ EventOf(w) \in Event /\ EventOf(w).alert \in Alert /\ EventOf(w).at \in Time
         /\ Marker(w) \in Mark
<1>1. Current(w) \in Claim
  BY DEF FrameInv, QueueInv, QueueTypeOK
<1>2. Current(w).job \in Job /\ Current(w).attempt \in 1..TryLimit
  BY <1>1 DEF Claim
<1>3. Current(w).attempt <= attempts[Current(w).job]
  BY DEF FrameInv, QueueInv, ClaimsDistinct
<1>4. attempts[Current(w).job] \in 0..TryLimit
  BY <1>2 DEF FrameInv, QueueInv, QueueTypeOK
<1>5. status[Current(w).job] # "absent"
  BY <1>2, <1>3, <1>4, TryLimitType DEF FrameInv, UnbornUntried
<1>6. EventOf(w) \in Event
  BY <1>2 DEF EventOf, FrameInv, ProcessorTypeOK
<1>7. EventOf(w).alert \in Alert /\ EventOf(w).at \in Time
  BY <1>6 DEF Event
<1>8. Marker(w) \in Mark
  BY <1>7 DEF Marker, FrameInv, ProcessorTypeOK
<1> QED
  BY <1>2, <1>3, <1>4, <1>5, <1>6, <1>7, <1>8, TryLimitType

(* Moving a worker to another step, with other local variables. *)
LEMMA GotoType ==
  ASSUME ProcessorTypeOK, NEW w \in Worker, NEW s \in Step, Goto(w, s)
  PROVE  pc' \in [Worker -> Step]
BY DEF ProcessorTypeOK, Goto

LEMMA MemType ==
  ASSUME ProcessorTypeOK, NEW w \in Worker, NEW x \in Memory, mem' = [mem EXCEPT ![w] = x]
  PROVE  mem' \in [Worker -> Memory]
BY DEF ProcessorTypeOK

LEMMA ReturnType ==
  ASSUME ProcessorTypeOK, NEW w \in Worker, NEW s \in Step, Return(w, s)
  PROVE  pc' \in [Worker -> Step] /\ mem' \in [Worker -> Memory]
BY BlankType, GotoType, MemType DEF Return

(* Evaluate steps keep every variable in its type. *)
LEMMA EvaluateType ==
  ASSUME FrameInv, NEW w \in Worker,
         ListWatches(w) \/ EvaluateWatch(w) \/ EnqueueDeliver(w) \/ EndEvaluate(w)
  PROVE  ProcessorTypeOK'
<1>0. ProcessorTypeOK /\ mem[w] \in Memory
  BY DEF FrameInv, ProcessorTypeOK
<1>1. CASE ListWatches(w)
  <2> DEFINE enabled == {a \in Alert : watch[a] # NoWatch /\ watch[a].enabled}
             rows == [a \in Alert |-> IF a \in enabled THEN watch[a] ELSE NoWatch]
             x == [mem[w] EXCEPT !.todo = enabled, !.rows = rows]
  <2>1. mem' = [mem EXCEPT ![w] = x]
    BY <1>0, <1>1 DEF ListWatches, Memory, ProcessorTypeOK
  <2>2. enabled \in SUBSET Alert /\ rows \in [Alert -> Row]
    BY <1>0 DEF ProcessorTypeOK, Row
  <2>3. x \in Memory
    <3> HIDE DEF enabled, rows
    <3> QED BY <1>0, <2>2 DEF Memory
  <2>4. pc' \in [Worker -> Step]
    BY <1>0, <1>1, GotoType DEF ListWatches, Step, DbStep
  <2>5. mem' \in [Worker -> Memory]
    <3> HIDE DEF x
    <3> QED BY <1>0, <2>1, <2>3, MemType
  <2> QED BY <1>0, <1>1, <2>4, <2>5 DEF ListWatches, ProcessorTypeOK
<1>2. CASE EvaluateWatch(w)
  <2>1. PICK a \in mem[w].todo :
          \/ mem' = [mem EXCEPT ![w].todo = @ \ {a}] /\ UNCHANGED pc
          \/ Goto(w, "matched") /\ mem' = [mem EXCEPT ![w].todo = @ \ {a}, ![w].target = {a}]
    BY <1>2 DEF EvaluateWatch
  <2>2. mem[w].todo \in SUBSET Alert
    BY <1>0 DEF Memory
  <2>3. [mem[w] EXCEPT !.todo = @ \ {a}] \in Memory
    BY <1>0, <2>2 DEF Memory
  <2>4. [mem[w] EXCEPT !.todo = @ \ {a}, !.target = {a}] \in Memory
    BY <1>0, <2>1, <2>2 DEF Memory
  <2>5. mem' \in [Worker -> Memory]
    BY <1>0, <2>1, <2>3, <2>4 DEF ProcessorTypeOK
  <2>6. pc' \in [Worker -> Step]
    BY <1>0, <2>1, GotoType DEF Step, DbStep, ProcessorTypeOK
  <2> QED BY <1>0, <1>2, <2>5, <2>6 DEF EvaluateWatch, ProcessorTypeOK
<1>3. CASE EnqueueDeliver(w)
  <2>1. [mem[w] EXCEPT !.target = {}] \in Memory
    BY <1>0 DEF Memory
  <2>2. mem' \in [Worker -> Memory]
    BY <1>0, <1>3, <2>1 DEF EnqueueDeliver, ProcessorTypeOK
  <2>3. pc' \in [Worker -> Step]
    BY <1>0, <1>3, GotoType DEF EnqueueDeliver, Step, DbStep
  <2>4. event' \in [Job -> Event]
    <3>1. PICK a \in mem[w].target :
            event' = [j \in Job |-> IF j \in NewIds(1) THEN [alert |-> a, at |-> now] ELSE event[j]]
      BY <1>3 DEF EnqueueDeliver
    <3>2. [alert |-> a, at |-> now] \in Event
      BY <1>0, <3>1 DEF Memory, Event, ProcessorTypeOK
    <3> QED BY <1>0, <3>1, <3>2 DEF ProcessorTypeOK
  <2> QED BY <1>0, <1>3, <2>2, <2>3, <2>4 DEF EnqueueDeliver, ProcessorTypeOK
<1>4. CASE EndEvaluate(w)
  <2>1. pc' \in [Worker -> Step] /\ mem' \in [Worker -> Memory]
    BY <1>0, <1>4, ReturnType DEF EndEvaluate, Step, DbStep
  <2> QED BY <1>0, <1>4, <2>1 DEF EndEvaluate, ProcessorTypeOK
<1> QED
  BY <1>1, <1>2, <1>3, <1>4

(* Deliver steps keep every variable in its type. *)
LEMMA DeliverType ==
  ASSUME FrameInv, NEW w \in Worker,
         \/ ReadMarker(w) \/ RereadMarker(w) \/ GetWatch(w) \/ CheckCooldown(w)
         \/ TryClaimTrigger(w) \/ Send(w) \/ RecordEvent(w) \/ RestoreClaim(w)
  PROVE  ProcessorTypeOK'
<1>0. ProcessorTypeOK /\ mem[w] \in Memory
  BY DEF FrameInv, ProcessorTypeOK
<1>c. Busy(w) /\ Current(w) \in held[w]
  BY DEF ReadMarker, RereadMarker, GetWatch, CheckCooldown, TryClaimTrigger, Send,
         RecordEvent, RestoreClaim, Runs, Busy, IsCurrent
<1>t. /\ Current(w).job \in Job /\ Current(w).attempt \in 1..TryLimit
      /\ EventOf(w).alert \in Alert /\ EventOf(w).at \in Time /\ Marker(w) \in Mark
  BY <1>c, CurrentType
<1>1. CASE ReadMarker(w)
  <2>1. pc' \in [Worker -> Step]
    BY <1>0, <1>1, GotoType DEF ReadMarker, Step, DbStep
  <2> QED BY <1>0, <1>1, <2>1 DEF ReadMarker, ProcessorTypeOK
<1>2. CASE RereadMarker(w)
  <2>1. pc' \in [Worker -> Step]
    BY <1>0, <1>2, GotoType DEF RereadMarker, Step, DbStep
  <2> QED BY <1>0, <1>2, <2>1 DEF RereadMarker, ProcessorTypeOK
<1>3. CASE GetWatch(w)
  <2>1. pc' \in [Worker -> Step]
    BY <1>0, <1>3, GotoType DEF GetWatch, Step, DbStep
  <2>2. watch[EventOf(w).alert] \in Row
    BY <1>0, <1>t DEF ProcessorTypeOK
  <2>3. [mem[w] EXCEPT !.rows[EventOf(w).alert] = watch[EventOf(w).alert]] \in Memory
    BY <1>0, <2>2 DEF Memory
  <2>4. mem' \in [Worker -> Memory]
    BY <1>0, <1>3, <2>3 DEF GetWatch, ProcessorTypeOK
  <2> QED BY <1>0, <1>3, <2>1, <2>4 DEF GetWatch, ProcessorTypeOK
<1>4. CASE CheckCooldown(w)
  <2>1. pc' \in [Worker -> Step] /\ mem' \in [Worker -> Memory]
    <3>1. CASE Return(w, "complete")
      BY <1>0, <3>1, ReturnType DEF Step, DbStep
    <3>2. CASE Goto(w, "claim") /\ UNCHANGED mem
      BY <1>0, <3>2, GotoType DEF Step, DbStep, ProcessorTypeOK
    <3> QED BY <1>4, <3>1, <3>2 DEF CheckCooldown
  <2> QED BY <1>0, <1>4, <2>1 DEF CheckCooldown, ProcessorTypeOK
<1>5. CASE TryClaimTrigger(w)
  <2>1. CASE Claimable(w)
    <3>1. [mem[w] EXCEPT !.prev = Marker(w)] \in Memory
      BY <1>0, <1>t DEF Memory
    <3>2. mem' \in [Worker -> Memory]
      BY <1>0, <1>5, <2>1, <3>1 DEF TryClaimTrigger, ProcessorTypeOK
    <3>3. pc' \in [Worker -> Step]
      BY <1>0, <1>5, <2>1, GotoType DEF TryClaimTrigger, Step, DbStep
    <3>4. marker' \in [Alert -> Mark]
      BY <1>0, <1>t, <1>5, <2>1 DEF TryClaimTrigger, ProcessorTypeOK, Mark
    <3> QED BY <1>0, <1>5, <3>2, <3>3, <3>4 DEF TryClaimTrigger, ProcessorTypeOK
  <2>2. CASE ~Claimable(w)
    <3>1. pc' \in [Worker -> Step] /\ mem' \in [Worker -> Memory]
      BY <1>0, <1>5, <2>2, ReturnType DEF TryClaimTrigger, Step, DbStep
    <3> QED BY <1>0, <1>5, <2>2, <3>1 DEF TryClaimTrigger, ProcessorTypeOK
  <2> QED BY <2>1, <2>2
<1>6. CASE Send(w)
  <2>1. pc' \in [Worker -> Step]
    BY <1>0, <1>6, GotoType DEF Send, Step, DbStep
  <2>2. inbox' \in SUBSET [job : Job, attempt : 1..TryLimit, time : Time]
    BY <1>0, <1>t, <1>6 DEF Send, ProcessorTypeOK
  <2> QED BY <1>0, <1>6, <2>1, <2>2 DEF Send, ProcessorTypeOK
<1>7. CASE RecordEvent(w)
  <2>1. pc' \in [Worker -> Step] /\ mem' \in [Worker -> Memory]
    BY <1>0, <1>7, ReturnType DEF RecordEvent, Step, DbStep
  <2>2. marker' \in [Alert -> Mark]
    BY <1>0, <1>t, <1>7 DEF RecordEvent, RecordTrigger, ProcessorTypeOK, Mark
  <2>3. overtaken' \in SUBSET Job
    BY <1>0, <1>7 DEF RecordEvent, Overtake, ProcessorTypeOK
  <2> QED BY <1>0, <1>7, <2>1, <2>2, <2>3 DEF RecordEvent, ProcessorTypeOK
<1>8. CASE RestoreClaim(w)
  <2>1. pc' \in [Worker -> Step] /\ mem' \in [Worker -> Memory]
    BY <1>0, <1>8, ReturnType DEF RestoreClaim, Step
  <2>2. mem[w].prev \in Mark
    BY <1>0 DEF Memory
  <2>3. marker' \in [Alert -> Mark]
    BY <1>0, <1>t, <1>8, <2>2 DEF RestoreClaim, ProcessorTypeOK
  <2>4. overtaken' \in SUBSET Job
    BY <1>0, <1>8 DEF RestoreClaim, Overtake, ProcessorTypeOK
  <2> QED BY <1>0, <1>8, <2>1, <2>3, <2>4 DEF RestoreClaim, ProcessorTypeOK
<1> QED
  BY <1>1, <1>2, <1>3, <1>4, <1>5, <1>6, <1>7, <1>8

(* Steps between two jobs keep every variable in its type. *)
LEMMA BetweenJobsType ==
  ASSUME FrameInv, NEW w \in Worker,
         Raise(w) \/ ReadAttempts(w) \/ NextBatch(w) \/ Finish(w) \/ Die(w)
  PROVE  ProcessorTypeOK'
<1>0. ProcessorTypeOK
  BY DEF FrameInv
<1>1. CASE NextBatch(w)
  BY <1>0, <1>1 DEF NextBatch, procVars, ProcessorTypeOK
<1>2. CASE Raise(w) \/ Finish(w) \/ Die(w)
  <2>1. pc' \in [Worker -> Step] /\ mem' \in [Worker -> Memory]
    BY <1>0, <1>2, ReturnType DEF Raise, Finish, Die, Step, DbStep
  <2> QED BY <1>0, <1>2, <2>1 DEF Raise, Finish, Die, ProcessorTypeOK
<1>3. CASE ReadAttempts(w)
  <2>1. pc' \in [Worker -> Step]
    BY <1>0, <1>3, GotoType DEF ReadAttempts, Step
  <2>2. Current(w) \in held[w] /\ mem[w] \in Memory
    BY <1>0, <1>3 DEF ReadAttempts, Busy, IsCurrent, ProcessorTypeOK
  <2>3. attempts[Current(w).job] \in 0..TryLimit
    BY <2>2 DEF FrameInv, QueueInv, QueueTypeOK, Claim
  <2>4. [mem[w] EXCEPT !.seen = attempts[Current(w).job]] \in Memory
    BY <2>2, <2>3 DEF Memory
  <2>5. mem' \in [Worker -> Memory]
    BY <1>0, <1>3, <2>4, MemType DEF ReadAttempts
  <2> QED BY <1>0, <1>3, <2>1, <2>5 DEF ReadAttempts, ProcessorTypeOK
<1> QED
  BY <1>1, <1>2, <1>3

--------------------------------------------------------------------------------
(* Rows of the queue are tried again, never less often. *)
LEMMA AttemptsGrow ==
  ASSUME QueueInv, [QueueNext]_queueVars, NEW j \in Job
  PROVE  /\ attempts'[j] >= attempts[j]
         /\ status'[j] = "absent" => status[j] = "absent" /\ attempts'[j] = attempts[j]
<1>1. RowStep(j)
  BY EveryStepIsARowStep
<1>2. attempts[j] \in Nat
  BY TryLimitType DEF QueueInv, QueueTypeOK
<1> QED
  BY <1>1, <1>2 DEF RowStep, LeasedTo, RejectedRow, RecoveredRow

(* The job at the head of a batch depends on the batch only. *)
LEMMA CurrentKept ==
  ASSUME NEW v \in Worker, held'[v] = held[v] PROVE Current(v)' = Current(v)
BY DEF Current, IsCurrent

(* The events of inserted jobs never change. *)
EventsKept == \A j \in Job : status[j] # "absent" => event'[j] = event[j]

LEMMA EveryStepKeepsEvents ==
  ASSUME ProcessorTypeOK, [ProcessorNext]_vars PROVE EventsKept
<1>1. ASSUME NEW w \in Worker, EnqueueDeliver(w) PROVE EventsKept
  BY <1>1 DEF EnqueueDeliver, EventsKept, NewIds, Lowest
<1>2. ASSUME NEW w \in Worker, JobStep(w), ~EnqueueDeliver(w) PROVE EventsKept
  BY <1>2 DEF EventsKept, JobStep, ListWatches, EvaluateWatch, EndEvaluate, ReadMarker,
       RereadMarker, GetWatch, CheckCooldown, TryClaimTrigger, Send, RecordEvent,
       RestoreClaim, Raise, ReadAttempts
<1>3. ASSUME NEW w \in Worker, NextBatch(w) \/ Finish(w) \/ Die(w) PROVE EventsKept
  BY <1>3 DEF EventsKept, NextBatch, Finish, Die, procVars
<1>4. CASE Orchestrate \/ Clock \/ \E a \in Alert, r \in Row : SaveWatch(a, r)
  BY <1>4 DEF EventsKept, Orchestrate, Clock, SaveWatch, procVars
<1>5. CASE UNCHANGED vars
  BY <1>5 DEF EventsKept, vars, procVars
<1> QED
  BY <1>1, <1>2, <1>3, <1>4, <1>5 DEF ProcessorNext

(* Claims in memory: a worker that claims the marker after the step        *)
(* claimed it before, for the same job and with the same memory.           *)
KeepsClaim(v) == Claiming(v)' => Claiming(v) /\ held'[v] = held[v] /\ mem'[v] = mem[v]

(* Steps of w inside its job say nothing of the other workers. *)
LEMMA OthersKept ==
  ASSUME FrameInv, NEW w \in Worker, NEW v \in Worker, v # w,
         JobStep(w) \/ NextBatch(w) \/ Finish(w) \/ Die(w)
  PROVE  pc'[v] = pc[v] /\ held'[v] = held[v] /\ mem'[v] = mem[v]
<1>0. /\ pc \in [Worker -> Step] /\ mem \in [Worker -> Memory]
      /\ held \in [Worker -> SUBSET Claim]
  BY DEF FrameInv, ProcessorTypeOK, QueueInv, QueueTypeOK
<1>1. CASE ListWatches(w) \/ EvaluateWatch(w) \/ EnqueueDeliver(w) \/ EndEvaluate(w)
  BY <1>0, <1>1 DEF ListWatches, EvaluateWatch, EnqueueDeliver, EndEvaluate, EnqueueJobs,
       Return, Goto, queueVars
<1>2. CASE ReadMarker(w) \/ RereadMarker(w) \/ GetWatch(w) \/ CheckCooldown(w)
  BY <1>0, <1>2 DEF ReadMarker, RereadMarker, GetWatch, CheckCooldown, Return, Goto, queueVars
<1>3. CASE TryClaimTrigger(w) \/ Send(w) \/ RecordEvent(w) \/ RestoreClaim(w) \/ Raise(w)
  BY <1>0, <1>3 DEF TryClaimTrigger, Send, RecordEvent, RestoreClaim, Raise, Return, Goto, queueVars
<1>4. CASE NextBatch(w)
  BY <1>0, <1>4 DEF NextBatch, procVars, ClaimBatch, ClaimJobs
<1>5. CASE Finish(w)
  BY <1>0, <1>5 DEF Finish, CompleteJob, FailJob, FailJobSeeing, Return, Goto
<1>6. CASE Die(w)
  BY <1>0, <1>6 DEF Die, Crash, Return, Goto
<1>7. CASE ReadAttempts(w)
  BY <1>0, <1>7 DEF ReadAttempts, Goto, queueVars
<1> QED
  BY <1>1, <1>2, <1>3, <1>4, <1>5, <1>6, <1>7 DEF JobStep

(* Only try_claim_trigger makes a claim; every other step leaves the       *)
(* claims that remain as they are.                                         *)
LEMMA ClaimsKept ==
  ASSUME FrameInv, [ProcessorNext]_vars, NEW v \in Worker, ~TryClaimTrigger(v)
  PROVE  KeepsClaim(v)
<1>0. /\ pc \in [Worker -> Step] /\ mem \in [Worker -> Memory]
      /\ held \in [Worker -> SUBSET Claim]
  BY DEF FrameInv, ProcessorTypeOK, QueueInv, QueueTypeOK
<1>1. CASE JobStep(v) \/ Finish(v) \/ Die(v)
  <2>1. CASE ListWatches(v) \/ EvaluateWatch(v) \/ EnqueueDeliver(v) \/ EndEvaluate(v)
    BY <1>0, <2>1 DEF ListWatches, EvaluateWatch, EnqueueDeliver, EndEvaluate, Return, Goto,
         KeepsClaim, Claiming
  <2>2. CASE ReadMarker(v) \/ RereadMarker(v) \/ GetWatch(v) \/ CheckCooldown(v)
    BY <1>0, <2>2 DEF ReadMarker, RereadMarker, GetWatch, CheckCooldown, Return, Goto,
         KeepsClaim, Claiming
  <2>3. CASE Send(v)
    BY <1>0, <2>3 DEF Send, Goto, KeepsClaim, Claiming, queueVars
  <2>4. CASE \/ RecordEvent(v) \/ RestoreClaim(v) \/ Raise(v) \/ ReadAttempts(v)
             \/ Finish(v) \/ Die(v)
    BY <1>0, <2>4 DEF RecordEvent, RestoreClaim, Raise, ReadAttempts, Finish, Die, Return, Goto,
         KeepsClaim, Claiming
  <2> QED BY <1>1, <2>1, <2>2, <2>3, <2>4 DEF JobStep
<1>2. CASE NextBatch(v)
  <2>1. held[v] = {} /\ pc' = pc
    BY <1>2 DEF NextBatch, ClaimBatch, procVars
  <2>2. ~Claiming(v)
    BY <2>1 DEF FrameInv, ActiveClaims
  <2> QED BY <2>1, <2>2 DEF KeepsClaim, Claiming
<1>3. ASSUME NEW w \in Worker, w # v, JobStep(w) \/ NextBatch(w) \/ Finish(w) \/ Die(w)
      PROVE  KeepsClaim(v)
  BY <1>3, OthersKept DEF KeepsClaim, Claiming
<1>4. CASE Orchestrate \/ Clock \/ \E a \in Alert, r \in Row : SaveWatch(a, r)
  BY <1>4 DEF KeepsClaim, Claiming, Orchestrate, EnqueueJobs, Clock, Tick, SaveWatch, procVars,
       queueVars
<1>5. CASE UNCHANGED vars
  BY <1>5 DEF KeepsClaim, Claiming, vars, procVars, queueVars
<1> QED
  BY <1>1, <1>2, <1>3, <1>4, <1>5 DEF ProcessorNext

(* Only fail_job's SELECT begins a failure; until its UPDATE the loop's    *)
(* batch and memory stay.                                                  *)
LEMMA FailuresKept ==
  ASSUME FrameInv, [ProcessorNext]_vars, NEW v \in Worker, ~ReadAttempts(v),
         pc'[v] = "failing"
  PROVE  pc[v] = "failing" /\ held'[v] = held[v] /\ mem'[v] = mem[v]
<1>0. /\ pc \in [Worker -> Step] /\ mem \in [Worker -> Memory]
      /\ held \in [Worker -> SUBSET Claim]
  BY DEF FrameInv, ProcessorTypeOK, QueueInv, QueueTypeOK
<1>1. CASE JobStep(v) \/ Finish(v) \/ Die(v)
  <2>1. CASE ListWatches(v) \/ EvaluateWatch(v) \/ EnqueueDeliver(v) \/ EndEvaluate(v)
    BY <1>0, <2>1 DEF ListWatches, EvaluateWatch, EnqueueDeliver, EndEvaluate, Return, Goto
  <2>2. CASE ReadMarker(v) \/ RereadMarker(v) \/ GetWatch(v) \/ CheckCooldown(v)
    BY <1>0, <2>2 DEF ReadMarker, RereadMarker, GetWatch, CheckCooldown, Return, Goto
  <2>3. CASE TryClaimTrigger(v) \/ Send(v)
    BY <1>0, <2>3 DEF TryClaimTrigger, Send, Return, Goto
  <2>4. CASE RecordEvent(v) \/ RestoreClaim(v) \/ Raise(v) \/ Finish(v) \/ Die(v)
    BY <1>0, <2>4 DEF RecordEvent, RestoreClaim, Raise, Finish, Die, Return, Goto
  <2> QED BY <1>1, <2>1, <2>2, <2>3, <2>4 DEF JobStep
<1>2. CASE NextBatch(v)
  <2>1. held[v] = {} /\ pc' = pc
    BY <1>2 DEF NextBatch, ClaimBatch, procVars
  <2> QED BY <2>1 DEF FrameInv, AttemptsSeen
<1>3. ASSUME NEW w \in Worker, w # v, JobStep(w) \/ NextBatch(w) \/ Finish(w) \/ Die(w)
      PROVE  pc'[v] = pc[v] /\ held'[v] = held[v] /\ mem'[v] = mem[v]
  BY <1>3, OthersKept
<1>4. CASE Orchestrate \/ Clock \/ \E a \in Alert, r \in Row : SaveWatch(a, r)
  BY <1>4 DEF Orchestrate, EnqueueJobs, Clock, Tick, SaveWatch, procVars, queueVars
<1>5. CASE UNCHANGED vars
  BY <1>5 DEF vars, procVars, queueVars
<1> QED
  BY <1>1, <1>2, <1>3, <1>4, <1>5 DEF ProcessorNext

(* Only Send adds to the inbox. *)
LEMMA InboxKept ==
  ASSUME [ProcessorNext]_vars, \A w \in Worker : ~Send(w)
  PROVE  inbox' = inbox
<1>1. ASSUME NEW w \in Worker, JobStep(w), ~Send(w) PROVE inbox' = inbox
  BY <1>1 DEF JobStep, ListWatches, EvaluateWatch, EndEvaluate, EnqueueDeliver, ReadMarker,
       RereadMarker, GetWatch, CheckCooldown, TryClaimTrigger, RecordEvent, RestoreClaim, Raise,
       ReadAttempts
<1>2. ASSUME NEW w \in Worker, NextBatch(w) \/ Finish(w) \/ Die(w) PROVE inbox' = inbox
  BY <1>2 DEF NextBatch, Finish, Die, procVars
<1>3. CASE Orchestrate \/ Clock \/ \E a \in Alert, r \in Row : SaveWatch(a, r)
  BY <1>3 DEF Orchestrate, Clock, SaveWatch, procVars
<1>4. CASE UNCHANGED vars
  BY <1>4 DEF vars, procVars
<1> QED
  BY <1>1, <1>2, <1>3, <1>4 DEF ProcessorNext

(* What a notification adds to the inbox. *)
LEMMA SendAdds ==
  ASSUME FrameInv, NEW w \in Worker, Send(w)
  PROVE  /\ Current(w) \in held[w] /\ pc[w] = "send" /\ UNCHANGED <<queueVars, marker, event, mem, overtaken>>
         /\ inbox \subseteq inbox'
         /\ \A n \in inbox' \ inbox : n.job = Current(w).job /\ n.attempt = Current(w).attempt
         /\ inbox' # inbox => pc'[w] = "record"
         /\ \A v \in Worker : v # w => pc'[v] = pc[v]
BY DEF Send, Runs, Busy, IsCurrent, Goto, FrameInv, ProcessorTypeOK

(* The processor starts in its types, with no claim and an empty inbox. *)
LEMMA FrameInit == ProcessorInit => FrameInv
<1> SUFFICES ASSUME ProcessorInit PROVE FrameInv
  OBVIOUS
<1>1. QueueInv
  BY QueueInitInv DEF ProcessorInit
<1>2. ProcessorTypeOK
  <2>1. event \in [Job -> Event]
    <3>1. (CHOOSE a \in Alert : TRUE) \in Alert
      BY ProcessorAssumption
    <3>2. 0 \in Time
      BY ProcessorAssumption DEF Time
    <3> QED BY <3>1, <3>2 DEF ProcessorInit, Event
  <2>2. now \in Time /\ pc \in [Worker -> Step] /\ mem \in [Worker -> Memory]
    BY BlankType, ProcessorAssumption DEF ProcessorInit, Time, Step, DbStep
  <2> QED BY <2>1, <2>2 DEF ProcessorInit, ProcessorTypeOK, Row, Mark
<1>3. ActiveClaims /\ AttemptsSeen /\ UnbornUntried /\ InboxTried
  BY DEF ProcessorInit, QueueInit, ActiveClaims, AttemptsSeen, Claiming, UnbornUntried, InboxTried
<1> QED
  BY <1>1, <1>2, <1>3 DEF FrameInv

(* Every step keeps the types, the claims in memory and the tried rows. *)
LEMMA FrameNext ==
  ASSUME FrameInv, [ProcessorNext]_vars PROVE FrameInv'
<1>0. QueueInv /\ ProcessorTypeOK /\ [QueueNext]_queueVars
  BY ProcessorStepIsQueueStep DEF FrameInv
<1>1. QueueInv'
  BY <1>0, QueueNextInv
<1>2. ProcessorTypeOK'
  <2>1. ASSUME NEW w \in Worker, JobStep(w) PROVE ProcessorTypeOK'
    BY <2>1, EvaluateType, DeliverType, BetweenJobsType DEF JobStep
  <2>2. ASSUME NEW w \in Worker, NextBatch(w) \/ Finish(w) \/ Die(w) PROVE ProcessorTypeOK'
    BY <2>2, BetweenJobsType
  <2>3. CASE Orchestrate \/ UNCHANGED vars
    BY <1>0, <2>3 DEF Orchestrate, vars, procVars, ProcessorTypeOK
  <2>4. CASE Clock
    BY <1>0, <2>4, ProcessorAssumption DEF Clock, ProcessorTypeOK, Time
  <2>5. ASSUME NEW a \in Alert, NEW r \in Row, SaveWatch(a, r) PROVE ProcessorTypeOK'
    BY <1>0, <2>5 DEF SaveWatch, ProcessorTypeOK
  <2> QED BY <2>1, <2>2, <2>3, <2>4, <2>5 DEF ProcessorNext
<1>3. ActiveClaims'
  <2> SUFFICES ASSUME NEW v \in Worker, Claiming(v)' PROVE Current(v)' \in held'[v]
    BY DEF ActiveClaims
  <2>1. CASE TryClaimTrigger(v)
    BY <2>1, CurrentKept DEF TryClaimTrigger, Runs, Busy, IsCurrent, queueVars
  <2>2. CASE ~TryClaimTrigger(v)
    BY <2>2, ClaimsKept, CurrentKept DEF KeepsClaim, FrameInv, ActiveClaims
  <2> QED BY <2>1, <2>2
<1>4. UnbornUntried'
  BY <1>0, AttemptsGrow DEF FrameInv, UnbornUntried
<1>5. InboxTried'
  <2> SUFFICES ASSUME NEW n \in inbox' PROVE n.attempt <= attempts'[n.job]
    BY DEF InboxTried
  <2>1. CASE n \in inbox
    <3>1. n.job \in Job /\ n.attempt \in 1..TryLimit /\ n.attempt <= attempts[n.job]
      BY <1>0, <2>1 DEF ProcessorTypeOK, FrameInv, InboxTried
    <3>2. attempts'[n.job] >= attempts[n.job]
      BY <1>0, <3>1, AttemptsGrow
    <3>3. attempts[n.job] \in Nat /\ attempts'[n.job] \in Nat
      BY <1>0, <1>1, <3>1, TryLimitType DEF QueueInv, QueueTypeOK
    <3> QED BY <3>1, <3>2, <3>3, TryLimitType
  <2>2. CASE n \notin inbox
    <3>1. PICK w \in Worker : Send(w)
      BY <2>2, InboxKept
    <3>2. n.job = Current(w).job /\ n.attempt = Current(w).attempt /\ Current(w) \in held[w]
      BY <2>2, <3>1, SendAdds
    <3>3. n.attempt <= attempts[n.job]
      BY <3>2, CurrentType
    <3>4. attempts' = attempts
      BY <3>1, SendAdds DEF queueVars, rowVars
    <3> QED BY <3>3, <3>4
  <2> QED BY <2>1, <2>2
<1>6. AttemptsSeen'
  <2> SUFFICES ASSUME NEW v \in Worker, pc'[v] = "failing"
               PROVE  /\ Current(v)' \in held'[v]
                      /\ mem'[v].seen \in Current(v)'.attempt..attempts'[Current(v)'.job]
    BY DEF AttemptsSeen
  <2>1. CASE ReadAttempts(v)
    <3>1. /\ Current(v) \in held[v] /\ held' = held /\ attempts' = attempts
          /\ mem'[v].seen = attempts[Current(v).job]
      BY <1>0, <2>1
      DEF ReadAttempts, Busy, IsCurrent, queueVars, rowVars, ProcessorTypeOK, Memory
    <3>2. /\ Current(v).attempt \in Nat /\ Current(v).attempt <= attempts[Current(v).job]
          /\ attempts[Current(v).job] \in Nat
      BY <3>1, CurrentType
    <3>3. Current(v)' = Current(v)
      BY <3>1, CurrentKept
    <3> QED BY <3>1, <3>2, <3>3
  <2>2. CASE ~ReadAttempts(v)
    <3>1. pc[v] = "failing" /\ held'[v] = held[v] /\ mem'[v] = mem[v]
      BY <2>2, FailuresKept
    <3>2. /\ Current(v) \in held[v] /\ Current(v)' = Current(v)
          /\ mem[v].seen \in Current(v).attempt..attempts[Current(v).job]
      BY <3>1, CurrentKept DEF FrameInv, AttemptsSeen
    <3>3. /\ Current(v).job \in Job /\ Current(v).attempt \in Nat
          /\ attempts[Current(v).job] \in Nat
      BY <3>2, CurrentType
    <3>4. attempts'[Current(v).job] >= attempts[Current(v).job]
      BY <1>0, <3>3, AttemptsGrow
    <3>5. attempts'[Current(v).job] \in Nat
      BY <1>1, <3>3, TryLimitType DEF QueueInv, QueueTypeOK
    <3> QED BY <3>1, <3>2, <3>3, <3>4, <3>5
  <2> QED BY <2>1, <2>2
<1> QED
  BY <1>1, <1>2, <1>3, <1>4, <1>5, <1>6 DEF FrameInv

(* The frame invariant holds of every behaviour. *)
LEMMA FrameHolds == ProcessorSpec => []FrameInv
BY FrameInit, FrameNext, PTL DEF ProcessorSpec

(* Whatever the workers do inside their jobs, the alert_jobs table goes    *)
(* through the steps of the queue: every property of the queue holds of    *)
(* the processor.                                                          *)
THEOREM ProcessorImplementsQueue == ProcessorSpec => ImplementsQueue
<1>1. ProcessorInit => QueueInit
  BY DEF ProcessorInit
<1>2. FrameInv /\ [ProcessorNext]_vars => [QueueNext]_queueVars
  BY ProcessorStepIsQueueStep DEF FrameInv
<1> QED
  BY <1>1, <1>2, FrameHolds, PTL DEF ProcessorSpec, QueueSpec, ImplementsQueue

--------------------------------------------------------------------------------
(* The trigger protocol.  A job counts as long as the marker has not moved *)
(* back past its event.                                                    *)
Safe(j) == j \notin overtaken

(* While a claim runs the marker covers it.                                *)
ClaimsCovered ==
  \A w \in Worker : Claiming(w) /\ Safe(Current(w).job) => AtLeast(Marker(w), EventOf(w).at)

(* The timestamp a roll-back returns to is older than the claim, ...       *)
PrevBelow == \A w \in Worker : Claiming(w) => ~AtLeast(mem[w].prev, EventOf(w).at)

(* ... and covers every older event of the watch that was notified, or     *)
(* that somebody else is about to notify.                                  *)
Spares(w, j) ==
  Safe(Current(w).job) /\ Safe(j) /\ event[j].alert = EventOf(w).alert =>
    AtLeast(mem[w].prev, event[j].at) \/ event[j].at > EventOf(w).at

PrevSparesInbox == \A w \in Worker : Claiming(w) => \A n \in inbox : Spares(w, n.job)
PrevSparesClaims ==
  \A w, v \in Worker : Claiming(w) /\ Claiming(v) /\ v # w => Spares(w, Current(v).job)

TriggerInv ==
  /\ FrameInv
  /\ MarkerCoversNotified /\ NotifiedOnceUnlessOvertaken
  /\ ClaimsCovered /\ PrevBelow /\ PrevSparesInbox /\ PrevSparesClaims

(* Comparing a marker with timestamps.                                     *)
LEMMA MarkOrder ==
  ASSUME NEW m \in Mark, NEW t \in Time, NEW u \in Time
  PROVE  /\ AtLeast(m, t) /\ u <= t => AtLeast(m, u)
         /\ ~AtLeast(m, t) /\ AtLeast(m, u) => u < t
         /\ AtLeast(t, u) <=> t >= u
BY ProcessorAssumption DEF Mark, Time, AtLeast

(* The jobs behind notifications are rows of the table. *)
LEMMA InboxBorn ==
  ASSUME FrameInv, NEW n \in inbox
  PROVE  /\ n.job \in Job /\ status[n.job] # "absent" /\ event[n.job] \in Event
         /\ event[n.job].alert \in Alert /\ event[n.job].at \in Time
<1>1. n.job \in Job /\ n.attempt \in 1..TryLimit /\ n.attempt <= attempts[n.job]
  BY DEF FrameInv, ProcessorTypeOK, InboxTried
<1>2. status[n.job] # "absent"
  BY <1>1 DEF FrameInv, UnbornUntried
<1>3. event[n.job] \in Event
  BY <1>1 DEF FrameInv, ProcessorTypeOK
<1> QED
  BY <1>1, <1>2, <1>3 DEF Event

(* A claim that a step keeps is the same claim after it. *)
LEMMA KeptClaim ==
  ASSUME FrameInv, EventsKept, NEW v \in Worker, KeepsClaim(v), Claiming(v)'
  PROVE  /\ Claiming(v) /\ Current(v) \in held[v]
         /\ Current(v)' = Current(v) /\ EventOf(v)' = EventOf(v)
         /\ mem'[v] = mem[v] /\ event'[Current(v).job] = event[Current(v).job]
<1>1. Claiming(v) /\ Current(v)' = Current(v) /\ mem'[v] = mem[v]
  BY CurrentKept DEF KeepsClaim
<1>2. Current(v) \in held[v]
  BY <1>1 DEF FrameInv, ActiveClaims
<1>3. event'[Current(v).job] = event[Current(v).job]
  BY <1>2, CurrentType DEF EventsKept
<1> QED
  BY <1>1, <1>2, <1>3 DEF EventOf

(* The roll-back targets survive every step that makes no claim, sends     *)
(* nothing and forgives no job.                                            *)
QuietStep ==
  /\ EventsKept /\ inbox' = inbox /\ overtaken \subseteq overtaken'
  /\ \A v \in Worker : KeepsClaim(v)

LEMMA QuietKeepsPrev ==
  ASSUME TriggerInv, QuietStep
  PROVE  /\ NotifiedOnceUnlessOvertaken'
         /\ PrevBelow' /\ PrevSparesInbox' /\ PrevSparesClaims'
<1>0. FrameInv /\ EventsKept
  BY DEF TriggerInv, QuietStep
<1>1. NotifiedOnceUnlessOvertaken'
  BY DEF TriggerInv, QuietStep, NotifiedOnceUnlessOvertaken
<1>2. PrevBelow'
  BY <1>0, KeptClaim DEF TriggerInv, QuietStep, PrevBelow
<1>3. PrevSparesInbox'
  <2> SUFFICES ASSUME NEW w \in Worker, Claiming(w)', NEW n \in inbox' PROVE Spares(w, n.job)'
    BY DEF PrevSparesInbox
  <2>1. Spares(w, n.job) /\ event'[n.job] = event[n.job]
    BY <1>0, KeptClaim, InboxBorn DEF TriggerInv, QuietStep, PrevSparesInbox, EventsKept
  <2> QED
    BY <1>0, <2>1, KeptClaim DEF QuietStep, Spares, Safe
<1>4. PrevSparesClaims'
  <2> SUFFICES ASSUME NEW w \in Worker, NEW v \in Worker, v # w, Claiming(w)', Claiming(v)'
               PROVE  Spares(w, Current(v).job)'
    BY DEF PrevSparesClaims
  <2>1. Spares(w, Current(v).job)
    BY <1>0, KeptClaim DEF TriggerInv, QuietStep, PrevSparesClaims
  <2> QED
    BY <1>0, <2>1, KeptClaim DEF QuietStep, Spares, Safe
<1> QED
  BY <1>1, <1>2, <1>3, <1>4

(* The jobs a marker has to cover: notified, or still claimed after the step. *)
Live(j) ==
  \/ \E n \in inbox : n.job = j
  \/ \E v \in Worker : Claiming(v) /\ Claiming(v)' /\ Current(v).job = j

CoverKept ==
  \A j \in Job :
    Live(j) /\ j \notin overtaken' /\ AtLeast(marker[event[j].alert], event[j].at) =>
      AtLeast(marker'[event[j].alert], event[j].at)

(* A quiet step that uncovers no live job preserves the invariant. *)
LEMMA QuietKeepsTrigger ==
  ASSUME TriggerInv, FrameInv', QuietStep, CoverKept PROVE TriggerInv'
<1>0. FrameInv /\ EventsKept
  BY DEF TriggerInv, QuietStep
<1>1. MarkerCoversNotified'
  <2> SUFFICES ASSUME NEW n \in inbox', n.job \notin overtaken'
               PROVE  AtLeast(marker'[event'[n.job].alert], event'[n.job].at)
    BY DEF MarkerCoversNotified
  <2>1. n \in inbox /\ n.job \in Job /\ event'[n.job] = event[n.job]
    BY <1>0, InboxBorn DEF QuietStep, EventsKept
  <2>2. AtLeast(marker[event[n.job].alert], event[n.job].at)
    BY <2>1 DEF TriggerInv, MarkerCoversNotified, QuietStep
  <2>3. Live(n.job)
    BY <2>1 DEF Live
  <2> QED
    BY <2>1, <2>2, <2>3 DEF CoverKept
<1>2. ClaimsCovered'
  <2> SUFFICES ASSUME NEW v \in Worker, Claiming(v)', Safe(Current(v).job)'
               PROVE  AtLeast(Marker(v), EventOf(v).at)'
    BY DEF ClaimsCovered
  <2>1. /\ Claiming(v) /\ Current(v) \in held[v] /\ Current(v)' = Current(v)
        /\ EventOf(v)' = EventOf(v)
    BY <1>0, KeptClaim DEF QuietStep
  <2>2. Current(v).job \in Job
    BY <1>0, <2>1, CurrentType
  <2>3. Current(v).job \notin overtaken' /\ Current(v).job \notin overtaken
    BY <2>1 DEF Safe, QuietStep
  <2>4. AtLeast(marker[EventOf(v).alert], EventOf(v).at)
    BY <2>1, <2>3 DEF TriggerInv, ClaimsCovered, Safe, Marker
  <2>5. Live(Current(v).job)
    BY <2>1 DEF Live
  <2>6. AtLeast(marker'[EventOf(v).alert], EventOf(v).at)
    BY <2>2, <2>3, <2>4, <2>5 DEF CoverKept, EventOf
  <2> QED
    BY <2>1, <2>6 DEF Marker
<1> QED
  BY <1>1, <1>2, QuietKeepsPrev DEF TriggerInv

(* record_trigger forgives the jobs it uncovers. *)
LEMMA RecordEventInv ==
  ASSUME TriggerInv, FrameInv', NEW w \in Worker, RecordEvent(w), QuietStep PROVE TriggerInv'
<1>1. CoverKept
  <2> SUFFICES ASSUME NEW j \in Job, Live(j), j \notin overtaken',
                      AtLeast(marker[event[j].alert], event[j].at)
               PROVE  AtLeast(marker'[event[j].alert], event[j].at)
    BY DEF CoverKept
  <2>0. FrameInv /\ marker \in [Alert -> Mark] /\ event[j].alert \in Alert
    BY DEF TriggerInv, FrameInv, ProcessorTypeOK, Event
  <2>1. status[j] # "absent"
    BY <2>0, InboxBorn, CurrentType DEF Live, FrameInv, ActiveClaims
  <2>2. CASE UNCHANGED marker
    BY <2>2
  <2>3. CASE RecordTrigger(EventOf(w).alert, EventOf(w).at) /\ Overtake(EventOf(w).alert)
    BY <2>0, <2>1, <2>3 DEF RecordTrigger, Overtake
  <2> QED
    BY <2>2, <2>3 DEF RecordEvent
<1> QED
  BY <1>1, QuietKeepsTrigger

(* A roll-back uncovers nobody: what it returns to covers the older events *)
(* of the watch, and newer ones are not covered by the claim it undoes.    *)
LEMMA RestoreClaimInv ==
  ASSUME TriggerInv, FrameInv', NEW w \in Worker, RestoreClaim(w), QuietStep PROVE TriggerInv'
<1>0. FrameInv /\ marker \in [Alert -> Mark] /\ mem[w].prev \in Mark
  BY DEF TriggerInv, FrameInv, ProcessorTypeOK, Memory
<1>1. CoverKept
  <2> SUFFICES ASSUME NEW j \in Job, Live(j), j \notin overtaken',
                      AtLeast(marker[event[j].alert], event[j].at)
               PROVE  AtLeast(marker'[event[j].alert], event[j].at)
    BY DEF CoverKept
  <2>0. event[j].alert \in Alert /\ event[j].at \in Time
    BY <1>0 DEF FrameInv, ProcessorTypeOK, Event
  <2>1. status[j] # "absent"
    BY <1>0, InboxBorn, CurrentType DEF Live, FrameInv, ActiveClaims
  <2>2. Claiming(w) /\ Current(w) \in held[w] /\ ~Claiming(w)'
    BY <1>0 DEF RestoreClaim, Runs, Busy, IsCurrent, Claiming, Return, Goto, FrameInv, ProcessorTypeOK
  <2>3. EventOf(w).alert \in Alert /\ EventOf(w).at \in Time
    BY <1>0, <2>2, CurrentType
  <2>4. CASE ~StillClaimed(w) \/ event[j].alert # EventOf(w).alert
    BY <1>0, <2>0, <2>4 DEF RestoreClaim
  <2>5. CASE StillClaimed(w) /\ event[j].alert = EventOf(w).alert /\ Current(w).job \in overtaken
    BY <1>0, <2>1, <2>5 DEF RestoreClaim, Overtake
  <2>6. CASE StillClaimed(w) /\ event[j].alert = EventOf(w).alert /\ Safe(Current(w).job)
    <3>1. Spares(w, j)
      BY <2>2 DEF Live, TriggerInv, PrevSparesInbox, PrevSparesClaims
    <3>2. Safe(j)
      BY DEF Safe, QuietStep
    <3>3. marker[EventOf(w).alert] = EventOf(w).at
      BY <2>6 DEF StillClaimed, Marker
    <3>4. EventOf(w).at >= event[j].at
      BY <2>6, <3>3 DEF AtLeast
    <3>5. AtLeast(mem[w].prev, event[j].at)
      BY <2>0, <2>3, <2>6, <3>1, <3>2, <3>4, ProcessorAssumption DEF Spares, Time
    <3>6. marker'[EventOf(w).alert] = mem[w].prev
      BY <1>0, <2>3, <2>6 DEF RestoreClaim
    <3> QED BY <2>6, <3>5, <3>6
  <2> QED
    BY <2>4, <2>5, <2>6 DEF Safe
<1> QED
  BY <1>1, QuietKeepsTrigger

(* A claim is granted to an event newer than everything notified or being  *)
(* notified, and remembers the marker that covers those.                   *)
LEMMA TryClaimInv ==
  ASSUME TriggerInv, FrameInv', NEW w \in Worker, TryClaimTrigger(w), Claimable(w),
         EventsKept, \A v \in Worker \ {w} : KeepsClaim(v)
  PROVE  TriggerInv'
<1> DEFINE a == EventOf(w).alert
           t == EventOf(w).at
<1>0. /\ FrameInv /\ marker \in [Alert -> Mark] /\ mem \in [Worker -> Memory]
      /\ Current(w) \in held[w]
  BY DEF TriggerInv, FrameInv, ProcessorTypeOK, TryClaimTrigger, Runs, Busy, IsCurrent
<1>1. a \in Alert /\ t \in Time /\ Marker(w) \in Mark /\ Marker(w) = marker[a]
  BY <1>0, CurrentType DEF Marker
<1>2. /\ marker' = [marker EXCEPT ![a] = t] /\ mem' = [mem EXCEPT ![w].prev = Marker(w)]
      /\ UNCHANGED <<queueVars, event, inbox, overtaken>>
      /\ ~AtLeast(marker[a], t)
  BY <1>1 DEF TryClaimTrigger, Claimable
<1>3. mem'[w].prev = marker[a] /\ Current(w)' = Current(w) /\ EventOf(w)' = EventOf(w)
  <2>1. mem[w] \in Memory
    BY <1>0
  <2>2. mem'[w].prev = marker[a]
    BY <1>0, <1>1, <1>2, <2>1 DEF Memory
  <2>3. held'[w] = held[w]
    BY <1>2 DEF queueVars
  <2> QED BY <1>2, <2>2, <2>3, CurrentKept DEF EventOf
<1>4. \A v \in Worker \ {w} : Claiming(v)' =>
        /\ Claiming(v) /\ Current(v) \in held[v] /\ Current(v)' = Current(v)
        /\ EventOf(v)' = EventOf(v) /\ mem'[v] = mem[v]
        /\ EventOf(v).alert \in Alert /\ EventOf(v).at \in Time
  BY <1>0, KeptClaim, CurrentType
<1> HIDE DEF a, t
<1>5. MarkerCoversNotified'
  <2> SUFFICES ASSUME NEW n \in inbox, n.job \notin overtaken
               PROVE  AtLeast(marker'[event[n.job].alert], event[n.job].at)
    BY <1>2 DEF MarkerCoversNotified
  <2>1. event[n.job].alert \in Alert /\ event[n.job].at \in Time
    BY <1>0, InboxBorn
  <2>2. AtLeast(marker[event[n.job].alert], event[n.job].at)
    BY DEF TriggerInv, MarkerCoversNotified
  <2>3. CASE event[n.job].alert = a
    <3>1. marker[a] \in Mark
      BY <1>0, <1>1
    <3>2. event[n.job].at < t
      BY <1>1, <1>2, <2>1, <2>2, <2>3, <3>1, MarkOrder
    <3>3. AtLeast(t, event[n.job].at)
      BY <1>1, <2>1, <3>2, ProcessorAssumption DEF AtLeast, Time
    <3> QED BY <1>0, <1>1, <1>2, <2>3, <3>3
  <2>4. CASE event[n.job].alert # a
    BY <1>0, <1>2, <2>1, <2>2, <2>4
  <2> QED BY <2>3, <2>4
<1>6. \A v \in Worker \ {w} : Claiming(v)' /\ Safe(Current(v).job) /\ EventOf(v).alert = a =>
        AtLeast(marker[a], EventOf(v).at) /\ EventOf(v).at < t
  <2> SUFFICES ASSUME NEW v \in Worker \ {w}, Claiming(v)', Safe(Current(v).job), EventOf(v).alert = a
               PROVE  AtLeast(marker[a], EventOf(v).at) /\ EventOf(v).at < t
    OBVIOUS
  <2>1. AtLeast(marker[a], EventOf(v).at)
    BY <1>4 DEF TriggerInv, ClaimsCovered, Marker
  <2>2. marker[a] \in Mark /\ EventOf(v).at \in Time
    BY <1>0, <1>1, <1>4
  <2> QED BY <1>1, <1>2, <2>1, <2>2, MarkOrder
<1>7. ClaimsCovered'
  <2> SUFFICES ASSUME NEW v \in Worker, Claiming(v)', Safe(Current(v).job)'
               PROVE  AtLeast(Marker(v), EventOf(v).at)'
    BY DEF ClaimsCovered
  <2>1. CASE v = w
    <3>1. Marker(w)' = t
      BY <1>0, <1>1, <1>2, <1>3 DEF Marker, a
    <3>2. AtLeast(t, t)
      BY <1>1, ProcessorAssumption DEF AtLeast, Time
    <3> QED BY <1>3, <2>1, <3>1, <3>2 DEF t, AtLeast
  <2>2. CASE v # w
    <3>1. Claiming(v) /\ EventOf(v)' = EventOf(v) /\ Safe(Current(v).job)
      BY <1>2, <1>4, <2>2 DEF Safe
    <3>2. EventOf(v).alert \in Alert /\ EventOf(v).at \in Time
      BY <1>4, <2>2
    <3>3. CASE EventOf(v).alert = a
      <4>1. EventOf(v).at < t
        BY <1>6, <2>2, <3>1, <3>3
      <4>2. AtLeast(t, EventOf(v).at)
        BY <1>1, <3>2, <4>1, ProcessorAssumption DEF AtLeast, Time
      <4>3. Marker(v)' = t
        BY <1>0, <1>1, <1>2, <3>1, <3>3 DEF Marker
      <4> QED BY <3>1, <4>2, <4>3 DEF AtLeast
    <3>4. CASE EventOf(v).alert # a
      <4>1. Marker(v)' = Marker(v)
        BY <1>0, <1>2, <3>1, <3>2, <3>4 DEF Marker
      <4>2. AtLeast(Marker(v), EventOf(v).at)
        BY <3>1 DEF TriggerInv, ClaimsCovered
      <4> QED BY <3>1, <4>1, <4>2 DEF AtLeast
    <3> QED BY <3>3, <3>4
  <2> QED BY <2>1, <2>2
<1>8. PrevBelow'
  <2> SUFFICES ASSUME NEW v \in Worker, Claiming(v)' PROVE ~AtLeast(mem'[v].prev, EventOf(v)'.at)
    BY DEF PrevBelow
  <2>1. CASE v = w
    BY <1>2, <1>3, <2>1 DEF t
  <2>2. CASE v # w
    BY <1>4, <2>2 DEF TriggerInv, PrevBelow
  <2> QED BY <2>1, <2>2
<1>9. PrevSparesInbox'
  <2> SUFFICES ASSUME NEW v \in Worker, Claiming(v)', NEW n \in inbox PROVE Spares(v, n.job)'
    BY <1>2 DEF PrevSparesInbox
  <2>1. CASE v = w
    <3>1. Safe(n.job) => AtLeast(marker[event[n.job].alert], event[n.job].at)
      BY DEF TriggerInv, MarkerCoversNotified, Safe
    <3> QED BY <1>2, <1>3, <2>1, <3>1 DEF Spares, Safe, a
  <2>2. CASE v # w
    <3>1. Spares(v, n.job)
      BY <1>4, <2>2 DEF TriggerInv, PrevSparesInbox
    <3> QED BY <1>2, <1>4, <2>2, <3>1 DEF Spares, Safe
  <2> QED BY <2>1, <2>2
<1>10. PrevSparesClaims'
  <2> SUFFICES ASSUME NEW v \in Worker, NEW u \in Worker, u # v, Claiming(v)', Claiming(u)'
               PROVE  Spares(v, Current(u).job)'
    BY DEF PrevSparesClaims
  <2>1. CASE v = w
    <3>1. Safe(Current(u).job) /\ EventOf(u).alert = a => AtLeast(marker[a], EventOf(u).at)
      BY <1>6, <2>1
    <3>2. Current(u)' = Current(u) /\ event' = event
      BY <1>2, <1>4, <2>1
    <3> QED BY <1>2, <1>3, <2>1, <3>1, <3>2 DEF Spares, Safe, a, EventOf
  <2>2. CASE u = w
    <3>1. Safe(Current(v).job) /\ EventOf(v).alert = a => EventOf(v).at < t
      BY <1>6, <2>2
    <3>2. EventOf(v).at \in Time /\ EventOf(v)' = EventOf(v) /\ Current(v)' = Current(v)
      BY <1>4, <2>2
    <3>3. EventOf(v).at < t => t > EventOf(v).at
      BY <1>1, <3>2, ProcessorAssumption DEF Time
    <3> QED BY <1>2, <1>3, <2>2, <3>1, <3>2, <3>3 DEF Spares, Safe, a, t, EventOf
  <2>3. CASE v # w /\ u # w
    <3>1. Spares(v, Current(u).job)
      BY <1>4, <2>3 DEF TriggerInv, PrevSparesClaims
    <3> QED BY <1>2, <1>4, <2>3, <3>1 DEF Spares, Safe
  <2> QED BY <2>1, <2>2, <2>3
<1>11. NotifiedOnceUnlessOvertaken'
  BY <1>2 DEF TriggerInv, NotifiedOnceUnlessOvertaken
<1> QED
  BY <1>5, <1>7, <1>8, <1>9, <1>10, <1>11 DEF TriggerInv

(* A notification is the first of its event: the claim behind it was       *)
(* granted over a marker older than the event, and every notified event of *)
(* the watch is older still.  From here on the marker covers it.           *)
LEMMA SendInv ==
  ASSUME TriggerInv, FrameInv', NEW w \in Worker, Send(w), EventsKept,
         \A v \in Worker : KeepsClaim(v)
  PROVE  TriggerInv'
<1> DEFINE j == Current(w).job
           sent == [job |-> j, attempt |-> Current(w).attempt, time |-> now]
<1>0. /\ FrameInv /\ Current(w) \in held[w] /\ Claiming(w)
      /\ UNCHANGED <<queueVars, marker, event, mem, overtaken>>
  BY SendAdds DEF TriggerInv, Claiming
<1>1. CASE inbox' = inbox
  <2>1. QuietStep
    BY <1>0, <1>1 DEF QuietStep
  <2>2. CoverKept
    BY <1>0 DEF CoverKept
  <2> QED BY <2>1, <2>2, QuietKeepsTrigger
<1>2. CASE inbox' # inbox
  <2>0. /\ inbox' = inbox \cup {sent} /\ sent.job = j /\ ~Claiming(w)'
        /\ j \in Job /\ event[j] = EventOf(w)
        /\ event[j].alert \in Alert /\ event[j].at \in Time
    <3>1. inbox' = inbox \cup {sent} /\ sent.job = j
      BY <1>2 DEF Send
    <3>2. pc'[w] = "record"
      BY <1>0, <1>2, SendAdds
    <3> QED BY <1>0, <3>1, <3>2, CurrentType DEF Claiming, EventOf
  <2>1. \A v \in Worker : Claiming(v)' =>
          /\ v # w /\ Claiming(v) /\ Current(v)' = Current(v) /\ EventOf(v)' = EventOf(v)
          /\ mem'[v] = mem[v] /\ Marker(v)' = Marker(v)
    BY <1>0, <2>0, KeptClaim DEF Marker
  <2> HIDE DEF j, sent
  <2>2. MarkerCoversNotified'
    <3> SUFFICES ASSUME NEW n \in inbox', n.job \notin overtaken
                 PROVE  AtLeast(marker[event[n.job].alert], event[n.job].at)
      BY <1>0 DEF MarkerCoversNotified, AtLeast
    <3>1. CASE n \in inbox
      BY <3>1 DEF TriggerInv, MarkerCoversNotified
    <3>2. CASE n = sent
      BY <1>0, <2>0, <3>2 DEF TriggerInv, ClaimsCovered, Safe, Marker, j
    <3> QED BY <2>0, <3>1, <3>2
  <2>3. \A m \in inbox : m.job = j => j \in overtaken
    <3> SUFFICES ASSUME NEW m \in inbox, m.job = j, Safe(j) PROVE FALSE
      BY DEF Safe
    <3>1. Spares(w, j)
      BY <1>0 DEF TriggerInv, PrevSparesInbox
    <3>2. AtLeast(mem[w].prev, EventOf(w).at) \/ EventOf(w).at > EventOf(w).at
      BY <2>0, <3>1 DEF Spares, j
    <3>3. ~(EventOf(w).at > EventOf(w).at)
      BY <2>0, ProcessorAssumption DEF Time
    <3> QED BY <1>0, <3>2, <3>3 DEF TriggerInv, PrevBelow
  <2>4. NotifiedOnceUnlessOvertaken'
    BY <1>0, <2>0, <2>3 DEF TriggerInv, NotifiedOnceUnlessOvertaken
  <2>5. ClaimsCovered'
    BY <1>0, <2>1 DEF TriggerInv, ClaimsCovered, Safe, AtLeast
  <2>6. PrevBelow'
    BY <2>1 DEF TriggerInv, PrevBelow, AtLeast
  <2>7. PrevSparesInbox'
    <3> SUFFICES ASSUME NEW v \in Worker, Claiming(v)', NEW n \in inbox' PROVE Spares(v, n.job)'
      BY DEF PrevSparesInbox
    <3>1. Spares(v, n.job)
      BY <1>0, <2>0, <2>1 DEF TriggerInv, PrevSparesInbox, PrevSparesClaims, j
    <3> QED BY <1>0, <2>1, <3>1 DEF Spares, Safe, AtLeast
  <2>8. PrevSparesClaims'
    <3> SUFFICES ASSUME NEW v \in Worker, NEW u \in Worker, u # v, Claiming(v)', Claiming(u)'
                 PROVE  Spares(v, Current(u).job)'
      BY DEF PrevSparesClaims
    <3>1. Spares(v, Current(u).job)
      BY <2>1 DEF TriggerInv, PrevSparesClaims
    <3> QED BY <1>0, <2>1, <3>1 DEF Spares, Safe, AtLeast
  <2> QED
    BY <2>2, <2>4, <2>5, <2>6, <2>7, <2>8 DEF TriggerInv
<1> QED
  BY <1>1, <1>2

(* The processor starts with no claim and nothing notified. *)
LEMMA TriggerInit == ProcessorInit => TriggerInv
BY FrameInit DEF ProcessorInit, TriggerInv, MarkerCoversNotified, NotifiedOnceUnlessOvertaken,
  ClaimsCovered, PrevBelow, PrevSparesInbox, PrevSparesClaims, Claiming

(* The steps that neither touch a marker nor grant a claim nor notify. *)
LEMMA OtherStepInv ==
  ASSUME TriggerInv, FrameInv', EventsKept, UNCHANGED <<marker, inbox, overtaken>>,
         \A v \in Worker : KeepsClaim(v)
  PROVE  TriggerInv'
BY QuietKeepsTrigger DEF QuietStep, CoverKept

(* Every step keeps the invariant. *)
LEMMA TriggerNext ==
  ASSUME TriggerInv, [ProcessorNext]_vars PROVE TriggerInv'
<1>0. FrameInv /\ FrameInv' /\ EventsKept
  BY FrameNext, EveryStepKeepsEvents DEF TriggerInv, FrameInv
<1>1. ASSUME NEW w \in Worker, TryClaimTrigger(w) PROVE TriggerInv'
  <2>1. \A v \in Worker \ {w} : KeepsClaim(v)
    BY <1>0, <1>1, OthersKept DEF JobStep, KeepsClaim, Claiming
  <2>2. CASE Claimable(w)
    BY <1>0, <1>1, <2>1, <2>2, TryClaimInv
  <2>3. CASE ~Claimable(w)
    <3>1. ~Claiming(w)' /\ UNCHANGED <<marker, inbox, overtaken>>
      BY <1>0, <1>1, <2>3 DEF TryClaimTrigger, Return, Goto, Claiming, FrameInv, ProcessorTypeOK
    <3>2. KeepsClaim(w)
      BY <3>1 DEF KeepsClaim
    <3> QED BY <1>0, <2>1, <3>1, <3>2, OtherStepInv
  <2> QED BY <2>2, <2>3
<1> SUFFICES ASSUME \A w \in Worker : ~TryClaimTrigger(w) PROVE TriggerInv'
  BY <1>1
<1>2. \A v \in Worker : KeepsClaim(v)
  BY <1>0, ClaimsKept
<1>3. ASSUME NEW w \in Worker, Send(w) PROVE TriggerInv'
  BY <1>0, <1>2, <1>3, SendInv
<1>4. ASSUME NEW w \in Worker, RecordEvent(w) \/ RestoreClaim(w) PROVE TriggerInv'
  <2>1. inbox' = inbox /\ overtaken \subseteq overtaken'
    BY <1>4 DEF RecordEvent, RestoreClaim, Overtake
  <2>2. QuietStep
    BY <1>0, <1>2, <2>1 DEF QuietStep
  <2> QED BY <1>0, <1>4, <2>2, RecordEventInv, RestoreClaimInv
<1>5. ASSUME NEW w \in Worker,
             \/ ListWatches(w) \/ EvaluateWatch(w) \/ EnqueueDeliver(w) \/ EndEvaluate(w)
             \/ ReadMarker(w) \/ RereadMarker(w) \/ GetWatch(w) \/ CheckCooldown(w) \/ Raise(w)
             \/ ReadAttempts(w)
      PROVE  TriggerInv'
  <2>1. UNCHANGED <<marker, inbox, overtaken>>
    BY <1>5 DEF ListWatches, EvaluateWatch, EnqueueDeliver, EndEvaluate, ReadMarker, RereadMarker,
         GetWatch, CheckCooldown, Raise, ReadAttempts
  <2> QED BY <1>0, <1>2, <2>1, OtherStepInv
<1>6. ASSUME NEW w \in Worker, NextBatch(w) \/ Finish(w) \/ Die(w) PROVE TriggerInv'
  <2>1. UNCHANGED <<marker, inbox, overtaken>>
    BY <1>6 DEF NextBatch, Finish, Die, procVars
  <2> QED BY <1>0, <1>2, <2>1, OtherStepInv
<1>7. CASE Orchestrate \/ Clock \/ UNCHANGED vars \/ \E a \in Alert, r \in Row : SaveWatch(a, r)
  <2>1. UNCHANGED <<marker, inbox, overtaken>>
    BY <1>7 DEF Orchestrate, Clock, SaveWatch, vars, procVars
  <2> QED BY <1>0, <1>2, <2>1, OtherStepInv
<1> QED
  BY <1>3, <1>4, <1>5, <1>6, <1>7 DEF ProcessorNext, JobStep

--------------------------------------------------------------------------------
(* The invariant of the trigger protocol holds throughout. *)
LEMMA TriggerSafe == ProcessorSpec => []TriggerInv
<1>1. ProcessorInit => TriggerInv
  BY TriggerInit
<1>2. TriggerInv /\ [ProcessorNext]_vars => TriggerInv'
  BY TriggerNext
<1> QED
  BY <1>1, <1>2, PTL DEF ProcessorSpec

(* The markers, events, inboxes and local variables of process_job_queue   *)
(* keep their types, in particular no notification has more attempts       *)
(* behind it than DEFAULT_MAX_ATTEMPTS.                                    *)
THEOREM ProcessorTypeCorrect == ProcessorSpec => []ProcessorTypeOK
<1>1. TriggerInv => ProcessorTypeOK
  BY DEF TriggerInv, FrameInv
<1> QED
  BY <1>1, TriggerSafe, PTL

(* last_triggered_at covers every notified event of its watch, whatever    *)
(* claims, failed sends, roll-backs, crashes and recoveries happen around  *)
(* it, unless record_trigger moved it back past the event.                 *)
THEOREM MarkerCovers == ProcessorSpec => []MarkerCoversNotified
<1>1. TriggerInv => MarkerCoversNotified
  BY DEF TriggerInv
<1> QED
  BY <1>1, TriggerSafe, PTL

(* try_claim_trigger lets one attempt of one worker notify an event, unless*)
(* record_trigger moved the marker back past the event.                    *)
THEOREM NoDuplicateNotification == ProcessorSpec => []NotifiedOnceUnlessOvertaken
<1>1. TriggerInv => NotifiedOnceUnlessOvertaken
  BY DEF TriggerInv
<1> QED
  BY <1>1, TriggerSafe, PTL

--------------------------------------------------------------------------------
(* The spacing of notifications.  Events are not stamped in the future,    *)
(* and every notification is for a deliver job.                            *)
EventsPast == \A j \in Job : event[j].at <= now

DeliverOnly ==
  /\ \A n \in inbox : jobType[n.job] = "deliver"
  /\ \A w \in Worker : Claiming(w) => jobType[Current(w).job] = "deliver"

(* A worker compares the cooldown of a row that existed.                   *)
RowsRead ==
  \A w \in Worker : pc[w] \in {"cooldown", "claim"} =>
    Current(w) \in held[w] /\ mem[w].rows[EventOf(w).alert] \in Config

(* A deliver job of the same watch as the claim of w, for an older event.  *)
Older(w, j) ==
  /\ status[j] # "absent" /\ jobType[j] = "deliver" /\ Safe(j)
  /\ event[j].alert = EventOf(w).alert /\ event[j].at < EventOf(w).at

(* The cooldown after the event of j is over.                              *)
CooledDown(j) == now >= event[j].at + MinCooldown

(* Nobody can claim j any more: the marker is past it, and so is what any  *)
(* claim at least as new goes back to.                                     *)
Reserved(w, j) ==
  /\ AtLeast(Marker(w), event[j].at)
  /\ \A v \in Worker \ {w} :
       /\ Claiming(v) /\ Safe(Current(v).job)
       /\ EventOf(v).alert = EventOf(w).alert /\ EventOf(v).at >= event[j].at
       => AtLeast(mem[v].prev, event[j].at)

(* Jobs whose event was notified or is about to be.                        *)
Touched(j) ==
  \/ \E n \in inbox : n.job = j
  \/ \E v \in Worker : Claiming(v) /\ Current(v).job = j

ClaimSpaced(w, j) ==
  Older(w, j) => (CooledDown(j) \/ Reserved(w, j)) /\ (Touched(j) => CooledDown(j))

ClaimsSpaced == \A w \in Worker, j \in Job : Claiming(w) => ClaimSpaced(w, j)

(* Config has a member: users start with some settings.                    *)
SpacedInv ==
  Config # {} /\ TriggerInv /\ EventsPast /\ DeliverOnly /\ RowsRead /\ ClaimsSpaced

(* MinCooldown is a lower bound of the cooldowns users set. *)
LEMMA MinCooldownBound ==
  ASSUME NEW r \in Config
  PROVE  MinCooldown \in Nat /\ r.cooldown \in Nat /\ MinCooldown <= r.cooldown
<1> DEFINE S == {q.cooldown : q \in Config}
<1>1. \A q \in Config : q.cooldown \in Nat
  BY ProcessorAssumption
<1>2. S \in SUBSET Nat /\ S # {}
  BY <1>1
<1>3. PICK x \in S : \A y \in S : x <= y
  <2> HIDE DEF S
  <2> QED BY <1>2, LeastNat
<1>4. x \in S /\ \A q \in Config : x <= q.cooldown
  BY <1>3
<1>5. MinCooldown \in S /\ \A q \in Config : MinCooldown <= q.cooldown
  BY <1>4 DEF MinCooldown
<1> QED
  BY <1>1, <1>2, <1>5

(* A row keeps its type; a new deliver job is stamped with the time. *)
RowsStamped ==
  \A j \in Job :
    /\ status[j] # "absent" => jobType'[j] = jobType[j]
    /\ status[j] = "absent" /\ status'[j] # "absent" /\ jobType'[j] = "deliver" =>
         event'[j].at = now
    /\ status[j] = "absent" => event'[j].at \in {event[j].at, now}

(* What each kind of step does to the rows. *)
LEMMA EnqueueStamps ==
  ASSUME ProcessorTypeOK, NEW w \in Worker, EnqueueDeliver(w) PROVE RowsStamped
BY DEF EnqueueDeliver, EnqueueJobs, RowsStamped, NewIds, Lowest

(* A claim leases rows that are there, ... *)
LEMMA ClaimKeepsRows ==
  ASSUME NEW w, NEW t, ClaimJobs(t, w)
  PROVE  /\ jobType' = jobType
         /\ \A j \in Job : status[j] = "absent" => status'[j] = "absent"
BY DEF ClaimJobs, Exhausted, Recovered, StaleJobs, Picked, Lowest, Due

(* ... and a report touches its own, which is in process. *)
LEMMA ReportKeepsRows ==
  ASSUME QueueTypeOK, NEW w, NEW c,
         CompleteJob(w, c) \/ FailJob(w, c) \/ FailJobSeeing(w, c, mem[w].seen)
  PROVE  /\ jobType' = jobType
         /\ \A j \in Job : status[j] = "absent" => status'[j] = "absent"
BY DEF CompleteJob, FailJob, FailJobSeeing, Release, OwnsLease, QueueTypeOK, rowVars

(* The same of every step of the processor. *)
LEMMA EveryStepStamps ==
  ASSUME FrameInv, [ProcessorNext]_vars PROVE RowsStamped
<1>0. ProcessorTypeOK /\ QueueTypeOK
  BY DEF FrameInv, QueueInv
<1>1. ASSUME NEW w \in Worker, JobStep(w), ~EnqueueDeliver(w) PROVE RowsStamped
  BY <1>1 DEF RowsStamped, JobStep, ListWatches, EvaluateWatch, EndEvaluate, ReadMarker,
       RereadMarker, GetWatch, CheckCooldown, TryClaimTrigger, Send, RecordEvent,
       RestoreClaim, Raise, ReadAttempts, queueVars, rowVars
<1>2. ASSUME NEW w \in Worker, NextBatch(w) PROVE RowsStamped
  BY <1>2, ClaimKeepsRows DEF NextBatch, ClaimBatch, RowsStamped, procVars
<1>3. ASSUME NEW w \in Worker, Finish(w) PROVE RowsStamped
  BY <1>0, <1>3, ReportKeepsRows DEF Finish, RowsStamped
<1>4. ASSUME NEW w \in Worker, Die(w) PROVE RowsStamped
  BY <1>4 DEF Die, Crash, RowsStamped, rowVars
<1>5. CASE Orchestrate
  BY <1>5 DEF Orchestrate, EnqueueJobs, RowsStamped, NewIds, Lowest, procVars
<1>6. CASE Clock \/ UNCHANGED vars \/ \E a \in Alert, r \in Row : SaveWatch(a, r)
  BY <1>6 DEF Clock, Tick, SaveWatch, RowsStamped, vars, procVars, queueVars, rowVars
<1> QED
  BY <1>0, <1>1, <1>2, <1>3, <1>4, <1>5, <1>6, EnqueueStamps DEF ProcessorNext

(* The clock only goes forward. *)
LEMMA EveryStepAges ==
  ASSUME ProcessorTypeOK, [ProcessorNext]_vars PROVE now \in Nat /\ now' \in Nat /\ now' >= now
<1>0. now \in Nat
  BY ProcessorAssumption DEF ProcessorTypeOK, Time
<1>1. ASSUME NEW w \in Worker, JobStep(w) PROVE now' = now
  BY <1>1 DEF JobStep, ListWatches, EvaluateWatch, EndEvaluate, EnqueueDeliver, ReadMarker,
       RereadMarker, GetWatch, CheckCooldown, TryClaimTrigger, Send, RecordEvent,
       RestoreClaim, Raise, ReadAttempts
<1>2. ASSUME NEW w \in Worker, NextBatch(w) \/ Finish(w) \/ Die(w) PROVE now' = now
  BY <1>2 DEF NextBatch, Finish, Die, procVars
<1>3. CASE Orchestrate \/ UNCHANGED vars \/ \E a \in Alert, r \in Row : SaveWatch(a, r)
  BY <1>0, <1>3 DEF Orchestrate, SaveWatch, vars, procVars
<1>4. CASE Clock
  BY <1>0, <1>4 DEF Clock
<1> QED
  BY <1>0, <1>1, <1>2, <1>3, <1>4 DEF ProcessorNext

(* No step stamps an event in the future. *)
LEMMA PastNext ==
  ASSUME FrameInv, EventsPast, [ProcessorNext]_vars PROVE EventsPast'
<1>0. EventsKept /\ RowsStamped /\ now \in Nat /\ now' \in Nat /\ now' >= now
  BY EveryStepKeepsEvents, EveryStepStamps, EveryStepAges DEF FrameInv
<1> SUFFICES ASSUME NEW j \in Job PROVE event'[j].at <= now'
  BY DEF EventsPast
<1>1. event[j].at \in Nat /\ event[j].at <= now
  BY ProcessorAssumption DEF FrameInv, ProcessorTypeOK, Event, Time, EventsPast
<1>2. event'[j].at \in {event[j].at, now}
  BY <1>0 DEF EventsKept, RowsStamped
<1> QED
  BY <1>0, <1>1, <1>2

(* Only deliver jobs claim the marker and notify. *)
LEMMA DeliverOnlyNext ==
  ASSUME FrameInv, DeliverOnly, [ProcessorNext]_vars PROVE DeliverOnly'
<1>0. EventsKept /\ RowsStamped
  BY EveryStepKeepsEvents, EveryStepStamps DEF FrameInv
<1>1. ASSUME NEW n \in inbox' PROVE jobType'[n.job] = "deliver"
  <2>1. CASE n \in inbox
    BY <1>0, <2>1, InboxBorn DEF DeliverOnly, RowsStamped
  <2>2. CASE n \notin inbox
    <3>1. PICK w \in Worker : Send(w)
      BY <2>2, InboxKept
    <3>2. n.job = Current(w).job /\ jobType' = jobType
      BY <2>2, <3>1, SendAdds DEF queueVars, rowVars
    <3> QED BY <3>1, <3>2 DEF Send, Runs
  <2> QED BY <2>1, <2>2
<1>2. ASSUME NEW w \in Worker, Claiming(w)' PROVE jobType'[Current(w)'.job] = "deliver"
  <2>1. CASE TryClaimTrigger(w)
    <3>1. jobType' = jobType /\ held'[w] = held[w]
      BY <2>1 DEF TryClaimTrigger, queueVars, rowVars
    <3>2. Current(w)' = Current(w)
      BY <3>1, CurrentKept
    <3> QED BY <2>1, <3>1, <3>2 DEF TryClaimTrigger, Runs
  <2>2. CASE ~TryClaimTrigger(w)
    <3>1. Claiming(w) /\ Current(w) \in held[w] /\ Current(w)' = Current(w)
      BY <1>0, <1>2, <2>2, ClaimsKept, KeptClaim
    <3>2. Current(w).job \in Job /\ status[Current(w).job] # "absent"
      BY <3>1, CurrentType
    <3> QED BY <1>0, <3>1, <3>2 DEF DeliverOnly, RowsStamped
  <2> QED BY <2>1, <2>2
<1> QED
  BY <1>1, <1>2 DEF DeliverOnly

(* A worker between the read of its row and the claim keeps both. *)
LEMMA ReadingKept ==
  ASSUME FrameInv, RowsRead, [ProcessorNext]_vars, NEW w \in Worker,
         ~GetWatch(w), ~CheckCooldown(w), pc'[w] \in {"cooldown", "claim"}
  PROVE  pc'[w] = pc[w] /\ held'[w] = held[w] /\ mem'[w] = mem[w]
<1>0. /\ pc \in [Worker -> Step] /\ mem \in [Worker -> Memory]
      /\ held \in [Worker -> SUBSET Claim]
  BY DEF FrameInv, ProcessorTypeOK, QueueInv, QueueTypeOK
<1>1. CASE JobStep(w) \/ Finish(w) \/ Die(w)
  <2>1. CASE ListWatches(w) \/ EvaluateWatch(w) \/ EnqueueDeliver(w) \/ EndEvaluate(w)
    BY <1>0, <2>1 DEF ListWatches, EvaluateWatch, EnqueueDeliver, EndEvaluate, Return, Goto
  <2>2. CASE ReadMarker(w) \/ RereadMarker(w) \/ TryClaimTrigger(w) \/ Send(w)
    BY <1>0, <2>2 DEF ReadMarker, RereadMarker, TryClaimTrigger, Send, Return, Goto
  <2>3. CASE RecordEvent(w) \/ RestoreClaim(w) \/ Raise(w) \/ Finish(w) \/ Die(w)
    BY <1>0, <2>3 DEF RecordEvent, RestoreClaim, Raise, Finish, Die, Return, Goto
  <2>4. CASE ReadAttempts(w)
    BY <1>0, <2>4 DEF ReadAttempts, Goto
  <2> QED BY <1>1, <2>1, <2>2, <2>3, <2>4 DEF JobStep
<1>2. CASE NextBatch(w)
  BY <1>2 DEF NextBatch, ClaimBatch, procVars, RowsRead
<1>3. ASSUME NEW v \in Worker, v # w, JobStep(v) \/ NextBatch(v) \/ Finish(v) \/ Die(v)
      PROVE  pc'[w] = pc[w] /\ held'[w] = held[w] /\ mem'[w] = mem[w]
  BY <1>3, OthersKept
<1>4. CASE Orchestrate \/ Clock \/ \E a \in Alert, r \in Row : SaveWatch(a, r)
  BY <1>4 DEF Orchestrate, EnqueueJobs, Clock, Tick, SaveWatch, procVars, queueVars
<1>5. CASE UNCHANGED vars
  BY <1>5 DEF vars, procVars, queueVars
<1> QED
  BY <1>1, <1>2, <1>3, <1>4, <1>5 DEF ProcessorNext

(* The row a worker compares with was read from a watch that existed. *)
LEMMA RowsReadNext ==
  ASSUME FrameInv, RowsRead, [ProcessorNext]_vars PROVE RowsRead'
<1>0. /\ EventsKept /\ pc \in [Worker -> Step] /\ mem \in [Worker -> Memory]
      /\ watch \in [Alert -> Row]
  BY EveryStepKeepsEvents DEF FrameInv, ProcessorTypeOK
<1> SUFFICES ASSUME NEW w \in Worker, pc'[w] \in {"cooldown", "claim"}
             PROVE  Current(w)' \in held'[w] /\ mem'[w].rows[EventOf(w)'.alert] \in Config
  BY DEF RowsRead
<1>1. CASE GetWatch(w)
  <2> DEFINE a == EventOf(w).alert
  <2>1. Current(w) \in held[w] /\ UNCHANGED <<queueVars, event>>
    BY <1>1 DEF GetWatch, Runs, Busy, IsCurrent
  <2>2. a \in Alert
    BY <2>1, CurrentType
  <2>3. Current(w)' = Current(w) /\ EventOf(w)' = EventOf(w) /\ held' = held
    BY <2>1, CurrentKept DEF EventOf, queueVars
  <2>4. watch[a] # NoWatch /\ mem' = [mem EXCEPT ![w].rows[a] = watch[a]]
    BY <1>0, <1>1 DEF GetWatch, Goto
  <2>5. mem[w] \in Memory /\ mem[w].rows \in [Alert -> Row]
    BY <1>0 DEF Memory
  <2>6. mem'[w].rows[a] = watch[a]
    BY <1>0, <2>2, <2>4, <2>5 DEF Memory
  <2>7. watch[a] \in Config
    BY <1>0, <2>2, <2>4 DEF Row
  <2> QED BY <2>1, <2>3, <2>6, <2>7
<1>2. CASE CheckCooldown(w)
  <2>1. /\ Current(w) \in held[w] /\ UNCHANGED <<queueVars, event>> /\ pc[w] = "cooldown"
    BY <1>2 DEF CheckCooldown, Runs, Busy, IsCurrent
  <2>2. Current(w)' = Current(w) /\ EventOf(w)' = EventOf(w) /\ held' = held
    BY <2>1, CurrentKept DEF EventOf, queueVars
  <2>3. mem' = mem
    BY <1>0, <1>2 DEF CheckCooldown, Return, Goto
  <2> QED BY <2>1, <2>2, <2>3 DEF RowsRead
<1>3. CASE ~GetWatch(w) /\ ~CheckCooldown(w)
  <2>1. pc'[w] = pc[w] /\ held'[w] = held[w] /\ mem'[w] = mem[w]
    BY <1>3, ReadingKept
  <2>2. Current(w) \in held[w] /\ mem[w].rows[EventOf(w).alert] \in Config
    BY <2>1 DEF RowsRead
  <2>3. Current(w)' = Current(w) /\ EventOf(w)' = EventOf(w)
    BY <1>0, <2>1, <2>2, CurrentKept, CurrentType DEF EventOf, EventsKept
  <2> QED BY <2>1, <2>2, <2>3
<1> QED
  BY <1>1, <1>2, <1>3

--------------------------------------------------------------------------------
(* Reserved jobs that stay covered, whatever happens to the marker. *)
ReservedKept ==
  \A w \in Worker, j \in Job :
    Claiming(w) /\ Claiming(w)' /\ Older(w, j) /\ Reserved(w, j) /\ j \notin overtaken' =>
      AtLeast(marker'[EventOf(w).alert], event[j].at)

(* An older job of a claim was one before a step that kept the claim: new  *)
(* jobs are stamped with the time, which no claimed event is ahead of.     *)
LEMMA OlderBefore ==
  ASSUME FrameInv, EventsPast, EventsKept, RowsStamped, overtaken \subseteq overtaken',
         NEW w \in Worker, NEW j \in Job, Claiming(w), EventOf(w)' = EventOf(w), Older(w, j)'
  PROVE  Older(w, j) /\ event'[j] = event[j]
<1>1. Current(w) \in held[w]
  BY DEF FrameInv, ActiveClaims
<1>2. EventOf(w).at \in Nat /\ now \in Nat /\ EventOf(w).at <= now
  BY <1>1, CurrentType, ProcessorAssumption DEF EventOf, EventsPast, FrameInv, ProcessorTypeOK, Time
<1>3. status[j] # "absent"
  <2> SUFFICES ASSUME status[j] = "absent" PROVE FALSE
    OBVIOUS
  <2>1. event'[j].at = now /\ event'[j].at < EventOf(w).at
    BY DEF RowsStamped, Older
  <2> QED BY <1>2, <2>1
<1>4. event'[j] = event[j] /\ jobType'[j] = jobType[j]
  BY <1>3 DEF EventsKept, RowsStamped
<1> QED
  BY <1>3, <1>4 DEF Older, Safe

(* Time only brings the end of a cooldown nearer. *)
LEMMA StaysCooledDown ==
  ASSUME FrameInv, NEW j \in Job, event'[j] = event[j], NEW r \in Config, CooledDown(j),
         now \in Nat, now' \in Nat, now' >= now
  PROVE  CooledDown(j)'
<1>1. MinCooldown \in Nat /\ MinCooldown' = MinCooldown
  BY MinCooldownBound DEF MinCooldown
<1>2. event[j].at \in Nat
  BY ProcessorAssumption DEF FrameInv, ProcessorTypeOK, Event, Time
<1> QED
  BY <1>1, <1>2 DEF CooledDown

(* Steps that make no claim. *)
LEMMA KeptSpaced ==
  ASSUME FrameInv, EventsPast, ClaimsSpaced, EventsKept, RowsStamped, NEW r \in Config,
         now \in Nat, now' \in Nat, now' >= now, overtaken \subseteq overtaken',
         \A v \in Worker : KeepsClaim(v), \A n \in inbox' : Touched(n.job), ReservedKept
  PROVE  ClaimsSpaced'
<1> SUFFICES ASSUME NEW w \in Worker, NEW j \in Job, Claiming(w)', Older(w, j)'
             PROVE  /\ CooledDown(j)' \/ Reserved(w, j)'
                    /\ Touched(j)' => CooledDown(j)'
  BY DEF ClaimsSpaced, ClaimSpaced
<1>1. Claiming(w) /\ EventOf(w)' = EventOf(w) /\ Current(w) \in held[w]
  BY KeptClaim
<1>2. Older(w, j) /\ event'[j] = event[j]
  BY <1>1, OlderBefore
<1>3. /\ CooledDown(j) \/ Reserved(w, j)
      /\ Touched(j) => CooledDown(j)
  BY <1>1, <1>2 DEF ClaimsSpaced, ClaimSpaced
<1>4. CooledDown(j) => CooledDown(j)'
  BY <1>2, StaysCooledDown
<1>5. Touched(j)' => Touched(j)
  BY KeptClaim DEF Touched
<1>6. Reserved(w, j) => Reserved(w, j)'
  <2> SUFFICES ASSUME Reserved(w, j) PROVE Reserved(w, j)'
    OBVIOUS
  <2>1. AtLeast(Marker(w), event[j].at)'
    BY <1>1, <1>2 DEF ReservedKept, Older, Safe, Marker, AtLeast
  <2>2. ASSUME NEW v \in Worker \ {w}, Claiming(v)', Safe(Current(v).job)',
               EventOf(v)'.alert = EventOf(w)'.alert, EventOf(v)'.at >= event'[j].at
        PROVE  AtLeast(mem[v].prev, event[j].at)'
    <3>1. Claiming(v) /\ Current(v)' = Current(v) /\ EventOf(v)' = EventOf(v) /\ mem'[v] = mem[v]
      BY <2>2, KeptClaim
    <3>2. AtLeast(mem[v].prev, event[j].at)
      BY <1>1, <1>2, <2>2, <3>1 DEF Reserved, Safe
    <3> QED BY <1>2, <3>1, <3>2 DEF AtLeast
  <2> QED BY <2>1, <2>2 DEF Reserved
<1> QED
  BY <1>3, <1>4, <1>5, <1>6

(* record_trigger forgives what it uncovers. *)
LEMMA RecordKeepsReserved ==
  ASSUME FrameInv, NEW w \in Worker, RecordEvent(w) PROVE ReservedKept
<1> SUFFICES ASSUME NEW v \in Worker, NEW j \in Job, Claiming(v), Older(v, j), Reserved(v, j),
                    j \notin overtaken'
             PROVE  AtLeast(marker'[EventOf(v).alert], event[j].at)
  BY DEF ReservedKept
<1>0. /\ marker \in [Alert -> Mark] /\ event[j].alert = EventOf(v).alert
      /\ AtLeast(marker[event[j].alert], event[j].at) /\ status[j] # "absent"
  BY DEF FrameInv, ProcessorTypeOK, Older, Reserved, Marker
<1>1. CASE UNCHANGED marker
  BY <1>0, <1>1
<1>2. CASE RecordTrigger(EventOf(w).alert, EventOf(w).at) /\ Overtake(EventOf(w).alert)
  BY <1>0, <1>2 DEF RecordTrigger, Overtake
<1> QED
  BY <1>1, <1>2 DEF RecordEvent

(* A roll-back returns to a marker that still covers the reserved jobs. *)
LEMMA RestoreKeepsReserved ==
  ASSUME FrameInv, NEW w \in Worker, RestoreClaim(w) PROVE ReservedKept
<1> SUFFICES ASSUME NEW v \in Worker, NEW j \in Job, Claiming(v), Claiming(v)', Older(v, j),
                    Reserved(v, j), j \notin overtaken'
             PROVE  AtLeast(marker'[EventOf(v).alert], event[j].at)
  BY DEF ReservedKept
<1>0. /\ marker \in [Alert -> Mark] /\ event[j].alert = EventOf(v).alert
      /\ AtLeast(marker[event[j].alert], event[j].at) /\ status[j] # "absent"
      /\ event[j].alert \in Alert /\ event[j].at \in Time
  BY DEF FrameInv, ProcessorTypeOK, Older, Reserved, Marker, Event
<1>1. v # w /\ Claiming(w) /\ Current(w) \in held[w]
  BY DEF RestoreClaim, Runs, Busy, IsCurrent, Claiming, Return, Goto, FrameInv,
         ProcessorTypeOK
<1>2. CASE ~StillClaimed(w) \/ event[j].alert # EventOf(w).alert
  <2>1. EventOf(w).alert \in Alert
    BY <1>1, CurrentType
  <2> QED BY <1>0, <1>2, <2>1 DEF RestoreClaim
<1>3. CASE StillClaimed(w) /\ event[j].alert = EventOf(w).alert /\ Current(w).job \in overtaken
  BY <1>0, <1>3 DEF RestoreClaim, Overtake
<1>4. CASE StillClaimed(w) /\ event[j].alert = EventOf(w).alert /\ Safe(Current(w).job)
  <2>1. EventOf(w).at >= event[j].at
    BY <1>0, <1>4 DEF StillClaimed, Marker, AtLeast
  <2>2. AtLeast(mem[w].prev, event[j].at)
    BY <1>0, <1>1, <1>4, <2>1 DEF Reserved
  <2>3. marker'[event[j].alert] = mem[w].prev
    BY <1>0, <1>4 DEF RestoreClaim
  <2> QED BY <1>0, <2>2, <2>3
<1> QED
  BY <1>2, <1>3, <1>4 DEF Safe

(* A marker out of its cooldown is a cooldown past the events it covers. *)
LEMMA OutOfCooldown ==
  ASSUME FrameInv, EventsPast, NEW m \in Mark, NEW r \in Config, NEW j \in Job,
         ~Cooling(m, r.cooldown), AtLeast(m, event[j].at)
  PROVE  CooledDown(j)
<1>1. /\ event[j].at \in Nat /\ now \in Nat /\ event[j].at <= now /\ m \in Nat
      /\ m >= event[j].at
  BY ProcessorAssumption DEF FrameInv, ProcessorTypeOK, Event, Time, Mark, AtLeast, EventsPast
<1>2. MinCooldown \in Nat /\ r.cooldown \in Nat /\ MinCooldown <= r.cooldown
  BY MinCooldownBound
<1>3. r.cooldown = 0 \/ now - m >= r.cooldown
  BY <1>1, <1>2 DEF Cooling, AtLeast
<1> QED
  BY <1>1, <1>2, <1>3 DEF CooledDown

(* A claim is granted over a marker out of its cooldown: the touched jobs  *)
(* it covers have cooled down, the untouched older ones get reserved, and  *)
(* what others had reserved cannot be claimed.                             *)
LEMMA ClaimSpacedNext ==
  ASSUME SpacedInv, NEW w \in Worker, TryClaimTrigger(w), Claimable(w), EventsKept, RowsStamped,
         \A v \in Worker \ {w} : KeepsClaim(v)
  PROVE  ClaimsSpaced'
<1> DEFINE a == EventOf(w).alert
           t == EventOf(w).at
           c == Current(w).job
<1>0. /\ FrameInv /\ TriggerInv /\ marker \in [Alert -> Mark] /\ mem \in [Worker -> Memory]
      /\ Current(w) \in held[w] /\ ~Claiming(w) /\ now' = now
  BY DEF SpacedInv, TriggerInv, FrameInv, ProcessorTypeOK, TryClaimTrigger, Runs, Busy, IsCurrent,
         Claiming
<1>1. a \in Alert /\ t \in Time /\ Marker(w) \in Mark /\ Marker(w) = marker[a] /\ c \in Job
      /\ event[c] = EventOf(w)
  BY <1>0, CurrentType DEF Marker, EventOf
<1>2. /\ marker' = [marker EXCEPT ![a] = t] /\ mem' = [mem EXCEPT ![w].prev = Marker(w)]
      /\ UNCHANGED <<queueVars, event, inbox, overtaken>>
      /\ ~AtLeast(marker[a], t) /\ ~Cooling(marker[a], Cooldown(w))
  BY <1>1 DEF TryClaimTrigger, Claimable
<1>3. mem'[w].prev = marker[a] /\ Current(w)' = Current(w) /\ EventOf(w)' = EventOf(w)
  <2>1. mem[w] \in Memory
    BY <1>0
  <2>2. mem'[w].prev = marker[a]
    BY <1>0, <1>1, <1>2, <2>1 DEF Memory
  <2>3. held'[w] = held[w]
    BY <1>2 DEF queueVars
  <2> QED BY <1>2, <2>2, <2>3, CurrentKept DEF EventOf
<1>4. \A v \in Worker \ {w} : Claiming(v)' =>
        /\ Claiming(v) /\ Current(v) \in held[v] /\ Current(v)' = Current(v)
        /\ EventOf(v)' = EventOf(v) /\ mem'[v] = mem[v]
        /\ EventOf(v).alert \in Alert /\ EventOf(v).at \in Time
  BY <1>0, KeptClaim, CurrentType
<1>5. \A j \in Job : CooledDown(j)' <=> CooledDown(j)
  BY <1>0, <1>2 DEF CooledDown, MinCooldown
<1>6. \A j \in Job : event[j].at \in Time /\ event[j].alert \in Alert
  BY <1>0 DEF FrameInv, ProcessorTypeOK, Event
<1>7. \A j \in Job : Touched(j)' => Touched(j) \/ j = c
  BY <1>2, <1>3, <1>4 DEF Touched
<1>8. \A j \in Job : AtLeast(marker[a], event[j].at) => CooledDown(j)
  <2>1. mem[w].rows[a] \in Config
    BY DEF SpacedInv, RowsRead, TryClaimTrigger
  <2> QED BY <1>0, <1>1, <1>2, <2>1, OutOfCooldown DEF SpacedInv, Cooldown
<1> HIDE DEF a, t, c
<1> SUFFICES ASSUME NEW v \in Worker, NEW j \in Job, Claiming(v)', Older(v, j)'
             PROVE  /\ CooledDown(j) \/ Reserved(v, j)'
                    /\ Touched(j)' => CooledDown(j)
  BY <1>5 DEF ClaimsSpaced, ClaimSpaced
<1>9. EventOf(v)' = EventOf(v) /\ Older(v, j) /\ event' = event
  BY <1>2, <1>3, <1>4 DEF Older, Safe, queueVars, rowVars
<1>10. CASE v = w
  <2>1. event[j].alert = a /\ event[j].at < t /\ j \notin overtaken /\ event'[j] = event[j]
    BY <1>9, <1>10 DEF Older, Safe, a, t
  <2>2. Touched(j) => AtLeast(marker[a], event[j].at)
    <3>1. ASSUME NEW n \in inbox, n.job = j PROVE AtLeast(marker[a], event[j].at)
      BY <1>0, <2>1, <3>1 DEF TriggerInv, MarkerCoversNotified
    <3>2. ASSUME NEW u \in Worker, Claiming(u), Current(u).job = j
          PROVE  AtLeast(marker[a], event[j].at)
      BY <1>0, <2>1, <3>2 DEF TriggerInv, ClaimsCovered, Safe, Marker, EventOf
    <3> QED BY <3>1, <3>2 DEF Touched
  <2>3. j # c
    <3>1. ~(t < t)
      BY <1>1, ProcessorAssumption DEF Time
    <3> QED BY <1>1, <2>1, <3>1 DEF t
  <2>4. Touched(j)' => CooledDown(j)
    BY <1>7, <1>8, <2>2, <2>3
  <2>5. ASSUME ~AtLeast(marker[a], event[j].at) PROVE Reserved(w, j)'
    <3>1. Marker(w)' = t
      BY <1>0, <1>1, <1>2, <1>3 DEF Marker, a
    <3>2. AtLeast(t, event[j].at)
      BY <1>1, <1>6, <2>1, ProcessorAssumption DEF AtLeast, Time
    <3>3. ASSUME NEW u \in Worker \ {w}, Claiming(u)', Safe(Current(u).job)',
                 EventOf(u)'.alert = EventOf(w)'.alert, EventOf(u)'.at >= event'[j].at
          PROVE  FALSE
      <4>1. /\ Claiming(u) /\ Safe(Current(u).job) /\ EventOf(u).alert = a
            /\ EventOf(u).at >= event[j].at /\ EventOf(u).at \in Time
        BY <1>2, <1>3, <1>4, <2>1, <3>3 DEF Safe, a
      <4>2. AtLeast(marker[a], EventOf(u).at)
        BY <1>0, <4>1 DEF TriggerInv, ClaimsCovered, Marker
      <4>3. event[j].at <= EventOf(u).at
        BY <1>6, <4>1, ProcessorAssumption DEF Time
      <4>4. AtLeast(marker[a], event[j].at)
        BY <1>0, <1>1, <1>6, <4>1, <4>2, <4>3, MarkOrder
      <4> QED BY <2>5, <4>4
    <3> QED BY <2>1, <3>1, <3>2, <3>3 DEF Reserved, AtLeast
  <2> QED BY <1>8, <1>10, <2>4, <2>5
<1>11. CASE v # w
  <2>1. /\ Claiming(v) /\ EventOf(v).alert \in Alert /\ EventOf(v).at \in Time
        /\ event[j].alert = EventOf(v).alert
    BY <1>4, <1>9, <1>11 DEF Older
  <2>2. /\ CooledDown(j) \/ Reserved(v, j)
        /\ Touched(j) => CooledDown(j)
    BY <1>9, <2>1 DEF SpacedInv, ClaimsSpaced, ClaimSpaced
  <2>3. j = c => CooledDown(j)
    <3> SUFFICES ASSUME j = c, Reserved(v, j) PROVE FALSE
      BY <2>2
    <3>1. AtLeast(marker[a], t)
      BY <1>1, <2>1 DEF Reserved, Marker, a, t
    <3> QED BY <1>2, <3>1
  <2>4. Touched(j)' => CooledDown(j)
    BY <1>7, <2>2, <2>3
  <2>5. ASSUME Reserved(v, j) PROVE Reserved(v, j)'
    <3>1. AtLeast(marker'[EventOf(v).alert], event[j].at)
      <4>1. AtLeast(marker[EventOf(v).alert], event[j].at)
        BY <2>5 DEF Reserved, Marker
      <4>2. CASE EventOf(v).alert = a
        <5>1. marker[a] \in Mark
          BY <1>0, <1>1
        <5>2. event[j].at < t
          BY <1>1, <1>2, <1>6, <4>1, <4>2, <5>1, MarkOrder
        <5>3. AtLeast(t, event[j].at)
          BY <1>1, <1>6, <5>2, ProcessorAssumption DEF AtLeast, Time
        <5> QED BY <1>0, <1>1, <1>2, <4>2, <5>3
      <4>3. CASE EventOf(v).alert # a
        BY <1>0, <1>2, <2>1, <4>1, <4>3
      <4> QED BY <4>2, <4>3
    <3>2. AtLeast(Marker(v)', event'[j].at)
      BY <1>9, <3>1 DEF Marker
    <3>3. ASSUME NEW u \in Worker \ {v}, Claiming(u)', Safe(Current(u).job)',
                 EventOf(u)'.alert = EventOf(v)'.alert, EventOf(u)'.at >= event'[j].at
          PROVE  AtLeast(mem'[u].prev, event'[j].at)
      <4>1. CASE u = w
        <5>1. EventOf(v).alert = a
          BY <1>3, <1>9, <3>3, <4>1 DEF a
        <5> QED BY <1>3, <1>9, <2>5, <4>1, <5>1 DEF Reserved, Marker
      <4>2. CASE u # w
        <5>1. /\ Claiming(u) /\ Safe(Current(u).job) /\ EventOf(u).alert = EventOf(v).alert
              /\ EventOf(u).at >= event[j].at /\ mem'[u] = mem[u]
          BY <1>2, <1>4, <1>9, <3>3, <4>2 DEF Safe
        <5> QED BY <1>9, <2>5, <5>1 DEF Reserved
      <4> QED BY <4>1, <4>2
    <3> QED BY <3>2, <3>3 DEF Reserved, AtLeast
  <2> QED BY <2>2, <2>4, <2>5
<1> QED
  BY <1>10, <1>11

(* The processor starts with nothing claimed and no event stamped ahead. *)
LEMMA SpacedInit == ProcessorInit => SpacedInv
<1> SUFFICES ASSUME ProcessorInit PROVE SpacedInv
  OBVIOUS
<1>1. TriggerInv
  BY TriggerInit
<1>2. Config # {}
  BY ProcessorAssumption DEF ProcessorInit
<1>3. EventsPast
  BY DEF ProcessorInit, EventsPast
<1>4. DeliverOnly /\ RowsRead /\ ClaimsSpaced
  BY DEF ProcessorInit, DeliverOnly, RowsRead, ClaimsSpaced, Claiming
<1> QED
  BY <1>1, <1>2, <1>3, <1>4 DEF SpacedInv

(* Every step keeps the claims spaced. *)
LEMMA SpacedNext ==
  ASSUME SpacedInv, [ProcessorNext]_vars PROVE SpacedInv'
<1>0. /\ FrameInv /\ EventsKept /\ RowsStamped /\ now \in Nat /\ now' \in Nat /\ now' >= now
      /\ EventsPast /\ ClaimsSpaced
  BY EveryStepKeepsEvents, EveryStepStamps, EveryStepAges DEF SpacedInv, TriggerInv, FrameInv
<1>1. TriggerInv' /\ EventsPast' /\ DeliverOnly' /\ RowsRead'
  BY <1>0, TriggerNext, PastNext, DeliverOnlyNext, RowsReadNext DEF SpacedInv
<1>2. PICK r \in Config : TRUE
  BY DEF SpacedInv
<1>3. (Config # {})'
  BY <1>2
<1> SUFFICES ClaimsSpaced'
  BY <1>1, <1>3 DEF SpacedInv
<1>4. ASSUME NEW w \in Worker, TryClaimTrigger(w), Claimable(w) PROVE ClaimsSpaced'
  <2>1. \A v \in Worker \ {w} : KeepsClaim(v)
    BY <1>0, <1>4, OthersKept DEF JobStep, KeepsClaim, Claiming
  <2> QED BY <1>0, <1>4, <2>1, ClaimSpacedNext
<1> SUFFICES ASSUME \A w \in Worker : ~(TryClaimTrigger(w) /\ Claimable(w)) PROVE ClaimsSpaced'
  BY <1>4
<1>5. ASSUME NEW v \in Worker PROVE KeepsClaim(v)
  <2>1. CASE TryClaimTrigger(v)
    BY <1>0, <2>1 DEF TryClaimTrigger, Return, Goto, Claiming, KeepsClaim, FrameInv, ProcessorTypeOK
  <2> QED BY <1>0, <2>1, ClaimsKept
<1>6. /\ overtaken \subseteq overtaken'
      /\ UNCHANGED marker \/ \E w \in Worker : RecordEvent(w) \/ RestoreClaim(w)
  <2>1. ASSUME NEW w \in Worker, RecordEvent(w) \/ RestoreClaim(w) PROVE overtaken \subseteq overtaken'
    BY <2>1 DEF RecordEvent, RestoreClaim, Overtake
  <2>2. ASSUME NEW w \in Worker, JobStep(w), ~RecordEvent(w), ~RestoreClaim(w)
        PROVE  UNCHANGED <<marker, overtaken>>
    BY <2>2 DEF JobStep, ListWatches, EvaluateWatch, EnqueueDeliver, EndEvaluate, ReadMarker,
         RereadMarker, GetWatch, CheckCooldown, TryClaimTrigger, Send, Raise, ReadAttempts
  <2>3. ASSUME NEW w \in Worker, NextBatch(w) \/ Finish(w) \/ Die(w)
        PROVE  UNCHANGED <<marker, overtaken>>
    BY <2>3 DEF NextBatch, Finish, Die, procVars
  <2>4. CASE Orchestrate \/ Clock \/ UNCHANGED vars \/ \E a \in Alert, q \in Row : SaveWatch(a, q)
    BY <2>4 DEF Orchestrate, Clock, SaveWatch, vars, procVars
  <2> QED BY <2>1, <2>2, <2>3, <2>4 DEF ProcessorNext
<1>7. \A n \in inbox' : Touched(n.job)
  <2>1. ASSUME NEW w \in Worker, Send(w) PROVE \A n \in inbox' : Touched(n.job)
    BY <1>0, <2>1, SendAdds DEF Touched, Claiming
  <2> QED BY <2>1, InboxKept DEF Touched
<1>8. ReservedKept
  <2>1. CASE UNCHANGED marker
    BY <2>1 DEF ReservedKept, Reserved, Marker, AtLeast
  <2> QED BY <1>0, <1>6, <2>1, RecordKeepsReserved, RestoreKeepsReserved
<1> QED
  BY <1>0, <1>2, <1>5, <1>6, <1>7, <1>8, KeptSpaced

(* The claims stay spaced throughout. *)
LEMMA SpacedSafe == ProcessorSpec => []SpacedInv
<1>1. ProcessorInit => SpacedInv
  BY SpacedInit
<1>2. SpacedInv /\ [ProcessorNext]_vars => SpacedInv'
  BY SpacedNext
<1> QED
  BY <1>1, <1>2, PTL DEF ProcessorSpec

(* A notification of process_job_queue goes out no sooner than the         *)
(* smallest cooldown after the event of every older notification of its    *)
(* watch, unless record_trigger moved the marker back past the older one.  *)
THEOREM NotificationsSpaced == ProcessorSpec => SpacedFromEarlierEvent
<1> DEFINE A == \A n \in inbox' \ inbox, m \in inbox :
                  /\ event[m.job].alert = event[n.job].alert
                  /\ event[m.job].at < event[n.job].at
                  /\ m.job \notin overtaken
                  => now >= event[m.job].at + MinCooldown
<1>1. ASSUME SpacedInv, [ProcessorNext]_vars PROVE A
  <2>0. FrameInv /\ DeliverOnly /\ ClaimsSpaced
    BY <1>1 DEF SpacedInv, TriggerInv
  <2> SUFFICES ASSUME NEW n \in inbox' \ inbox, NEW m \in inbox,
                      event[m.job].alert = event[n.job].alert,
                      event[m.job].at < event[n.job].at, m.job \notin overtaken
               PROVE  now >= event[m.job].at + MinCooldown
    OBVIOUS
  <2>1. PICK w \in Worker : Send(w)
    BY <1>1, InboxKept
  <2>2. n.job = Current(w).job /\ Claiming(w)
    BY <2>0, <2>1, SendAdds DEF Claiming
  <2>3. Older(w, m.job) /\ Touched(m.job) /\ m.job \in Job
    BY <2>0, <2>2, InboxBorn DEF DeliverOnly, Older, Safe, EventOf, Touched
  <2> QED BY <2>0, <2>2, <2>3 DEF ClaimsSpaced, ClaimSpaced, CooledDown
<1>2. SpacedInv /\ [ProcessorNext]_vars => [A]_vars
  BY <1>1
<1> QED
  BY <1>2, SpacedSafe, PTL DEF ProcessorSpec, SpacedFromEarlierEvent

--------------------------------------------------------------------------------
(* One worker whose database never fails: the marker is where a            *)
(* notification left it, or the worker is about to notify or to roll back. *)
OneWorker == DbErrors = FALSE /\ \E w \in Worker : Worker = {w}
CooldownsBounded == \E r \in Config : \A q \in Config : q.cooldown <= r.cooldown

(* An event of the alert at least as new as t was notified.                *)
Justified(a, t) == \E n \in inbox : event[n.job].alert = a /\ event[n.job].at >= t

Accounted(j) ==
  \E n \in inbox : /\ event[n.job].alert = event[j].alert
                   /\ event[n.job].at + MaxCooldown >= event[j].at

ClaimMarks(w) ==
  Claiming(w) => /\ Marker(w) = EventOf(w).at
                 /\ mem[w].prev # Never => Justified(EventOf(w).alert, mem[w].prev)
RecordJustified(w) ==
  pc[w] = "record" => Current(w) \in held[w] /\ Justified(EventOf(w).alert, EventOf(w).at)
MarkersJustified(w) ==
  \A a \in Alert :
    marker[a] # Never => Justified(a, marker[a]) \/ (Claiming(w) /\ EventOf(w).alert = a)
RereadSees(w) == pc[w] = "reread" => Current(w) \in held[w] /\ Marker(w) # Never
CompleteAccounted(w) ==
  pc[w] = "complete" =>
    /\ Current(w) \in held[w]
    /\ jobType[Current(w).job] = "deliver" => Accounted(Current(w).job)

Places(w) ==
  /\ ClaimMarks(w) /\ RecordJustified(w) /\ MarkersJustified(w)
  /\ RereadSees(w) /\ CompleteAccounted(w)

SoloInv ==
  SpacedInv /\ alive = Worker /\ CompletedIsAccounted /\ \A w \in Worker : Places(w)

(* MaxCooldown is an upper bound of the cooldowns. *)
LEMMA MaxCooldownBound ==
  ASSUME CooldownsBounded, NEW r \in Config
  PROVE  MaxCooldown \in Nat /\ r.cooldown \in Nat /\ r.cooldown <= MaxCooldown
<1> DEFINE S == {q.cooldown : q \in Config}
<1>1. \A q \in Config : q.cooldown \in Nat
  BY ProcessorAssumption
<1>2. PICK x \in Config : \A q \in Config : q.cooldown <= x.cooldown
  BY DEF CooldownsBounded
<1>3. x.cooldown \in S /\ \A q \in Config : x.cooldown >= q.cooldown
  BY <1>1, <1>2
<1>4. MaxCooldown \in S /\ \A q \in Config : MaxCooldown >= q.cooldown
  BY <1>3 DEF MaxCooldown
<1> QED
  BY <1>1, <1>4

(* Notifications stay, with their events. *)
InboxGrows == inbox \subseteq inbox' /\ \A n \in inbox : event'[n.job] = event[n.job]

JustifiedThen(a, t) == \E n \in inbox' : event'[n.job].alert = a /\ event'[n.job].at >= t

(* No step takes a notification back. *)
LEMMA EveryStepGrowsInbox ==
  ASSUME FrameInv, [ProcessorNext]_vars PROVE InboxGrows
<1>1. inbox \subseteq inbox'
  BY InboxKept, SendAdds
<1>2. EventsKept
  BY EveryStepKeepsEvents DEF FrameInv
<1> QED
  BY <1>1, <1>2, InboxBorn DEF InboxGrows, EventsKept

(* Justified events stay so, ... *)
LEMMA StaysJustified ==
  ASSUME InboxGrows PROVE \A a, t : Justified(a, t) => JustifiedThen(a, t)
BY DEF InboxGrows, Justified, JustifiedThen

(* ... and so do accounted ones. *)
LEMMA StaysAccounted ==
  ASSUME InboxGrows, NEW j \in Job, event'[j] = event[j], Accounted(j) PROVE Accounted(j)'
BY DEF InboxGrows, Accounted, MaxCooldown

(* A marker that covers an event, or is in its cooldown when the worker    *)
(* looks, accounts for the event.                                          *)
LEMMA MarkerAccounts ==
  ASSUME FrameInv, EventsPast, CooldownsBounded, NEW r \in Config, NEW m \in Mark, NEW j \in Job,
         Justified(event[j].alert, m), AtLeast(m, event[j].at) \/ Cooling(m, r.cooldown)
  PROVE  Accounted(j)
<1>1. PICK n \in inbox : event[n.job].alert = event[j].alert /\ event[n.job].at >= m
  BY DEF Justified
<1>2. /\ event[j].at \in Nat /\ now \in Nat /\ event[j].at <= now /\ m \in Nat
      /\ event[n.job].at \in Nat
  BY InboxBorn, ProcessorAssumption
  DEF FrameInv, ProcessorTypeOK, Event, Time, Mark, AtLeast, Cooling, EventsPast
<1>3. MaxCooldown \in Nat /\ r.cooldown \in Nat /\ r.cooldown <= MaxCooldown
  BY MaxCooldownBound
<1>4. m >= event[j].at \/ now - m < r.cooldown
  BY DEF AtLeast, Cooling
<1>5. event[n.job].at + MaxCooldown >= event[j].at
  BY <1>1, <1>2, <1>3, <1>4
<1> QED
  BY <1>1, <1>5 DEF Accounted

(* A step that leaves the worker where a place says something of it. *)
Marked == {"send", "restore", "record", "reread", "complete"}
KeepsPlace(w) ==
  pc[w] \in Marked \/ pc'[w] \in Marked =>
    pc'[w] = pc[w] /\ held'[w] = held[w] /\ mem'[w] = mem[w]

(* A worker at such a place has a current job. *)
LEMMA PlaceHeld ==
  ASSUME FrameInv, NEW w \in Worker, Places(w), pc[w] \in Marked PROVE Current(w) \in held[w]
BY DEF FrameInv, ActiveClaims, Claiming, Places, RecordJustified, RereadSees, CompleteAccounted, Marked

(* What is said of its place stays true. *)
LEMMA KeptPlaces ==
  ASSUME FrameInv, NEW w \in Worker, Places(w), EventsKept, RowsStamped, InboxGrows, KeepsPlace(w),
         UNCHANGED marker
  PROVE  Places(w)'
<1>1. CASE pc[w] \in Marked
  <2>1. /\ pc'[w] = pc[w] /\ held'[w] = held[w] /\ mem'[w] = mem[w] /\ Current(w) \in held[w]
        /\ Current(w)' = Current(w)
    BY <1>1, PlaceHeld, CurrentKept DEF KeepsPlace
  <2>2. /\ Current(w).job \in Job /\ event'[Current(w).job] = event[Current(w).job]
        /\ jobType'[Current(w).job] = jobType[Current(w).job]
    BY <2>1, CurrentType DEF EventsKept, RowsStamped
  <2>3. EventOf(w)' = EventOf(w) /\ Marker(w)' = Marker(w)
    BY <2>1, <2>2 DEF EventOf, Marker
  <2>4. ClaimMarks(w)' /\ RecordJustified(w)' /\ RereadSees(w)'
    <3>1. /\ Claiming(w) /\ mem[w].prev # Never => JustifiedThen(EventOf(w).alert, mem[w].prev)
          /\ pc[w] = "record" => JustifiedThen(EventOf(w).alert, EventOf(w).at)
      BY StaysJustified DEF Places, ClaimMarks, RecordJustified
    <3> QED BY <2>1, <2>3, <3>1
          DEF Places, ClaimMarks, RecordJustified, RereadSees, Claiming, Justified, JustifiedThen
  <2>5. MarkersJustified(w)'
    <3>1. \A a \in Alert :
            marker[a] # Never => JustifiedThen(a, marker[a]) \/ (Claiming(w) /\ EventOf(w).alert = a)
      BY StaysJustified DEF Places, MarkersJustified
    <3> QED BY <2>1, <2>3, <3>1 DEF MarkersJustified, Claiming, Justified, JustifiedThen
  <2>6. CompleteAccounted(w)'
    BY <2>1, <2>2, StaysAccounted DEF Places, CompleteAccounted
  <2> QED BY <2>4, <2>5, <2>6 DEF Places
<1>2. CASE pc[w] \notin Marked
  <2>1. pc'[w] \notin Marked
    BY <1>2 DEF KeepsPlace
  <2>2. MarkersJustified(w)'
    BY <1>2, StaysJustified
    DEF Places, MarkersJustified, Claiming, Justified, JustifiedThen, Marked
  <2> QED BY <2>1, <2>2 DEF Places, ClaimMarks, RecordJustified, RereadSees, CompleteAccounted,
            Claiming, Marked
<1> QED
  BY <1>1, <1>2

(* What the steps of a delivery have in common. *)
LEMMA Delivering ==
  ASSUME FrameInv, NEW w \in Worker, UNCHANGED <<queueVars, event>>, Runs(w, "deliver")
  PROVE  /\ Current(w) \in held[w] /\ held' = held /\ Current(w)' = Current(w)
         /\ EventOf(w)' = EventOf(w) /\ EventOf(w) = event[Current(w).job]
         /\ Current(w).job \in Job /\ EventOf(w).alert \in Alert /\ EventOf(w).at \in Time
         /\ Marker(w) \in Mark /\ Marker(w) = marker[EventOf(w).alert]
         /\ pc \in [Worker -> Step] /\ mem \in [Worker -> Memory] /\ marker \in [Alert -> Mark]
<1>1. Current(w) \in held[w] /\ held' = held
  BY DEF Runs, Busy, IsCurrent, queueVars
<1>2. Current(w)' = Current(w)
  BY <1>1, CurrentKept
<1> QED
  BY <1>1, <1>2, CurrentType DEF EventOf, Marker, FrameInv, ProcessorTypeOK

(* The worker looks at the marker and goes on, or finds its event covered. *)
LEMMA LookPlaces ==
  ASSUME FrameInv, EventsPast, RowsRead, CooldownsBounded, Config # {}, NEW w \in Worker, Places(w),
         InboxGrows, ReadMarker(w) \/ RereadMarker(w) \/ CheckCooldown(w)
  PROVE  Places(w)'
<1> DEFINE a == EventOf(w).alert
           c == Current(w).job
<1>0. /\ Runs(w, "deliver") /\ UNCHANGED <<queueVars, marker, event, inbox>>
      /\ pc[w] \in {"idle", "reread", "cooldown"}
  BY DEF ReadMarker, RereadMarker, CheckCooldown
<1>1. /\ Current(w) \in held[w] /\ held' = held /\ Current(w)' = Current(w)
      /\ EventOf(w)' = EventOf(w) /\ EventOf(w) = event[c] /\ c \in Job /\ a \in Alert
      /\ Marker(w) \in Mark /\ Marker(w) = marker[a] /\ pc \in [Worker -> Step]
  BY <1>0, Delivering
<1>2. ~Claiming(w) /\ Marker(w)' = Marker(w)
  BY <1>0, <1>1 DEF Claiming, Marker
<1>3. Marker(w) # Never => Justified(event[c].alert, Marker(w))
  BY <1>1, <1>2 DEF Places, MarkersJustified
<1>4. pc'[w] = "complete" => Accounted(c)
  <2>1. CASE ReadMarker(w)
    BY <1>1, <2>1 DEF ReadMarker, Goto
  <2>2. CASE RereadMarker(w) /\ pc'[w] = "complete"
    <3>1. Marker(w) # Never /\ AtLeast(Marker(w), event[c].at)
      BY <1>1, <2>2 DEF RereadMarker, Goto, Places, RereadSees
    <3> QED BY <1>1, <1>3, <3>1, MarkerAccounts
  <2>3. CASE CheckCooldown(w) /\ pc'[w] = "complete"
    <3>1. Cooling(Marker(w), Cooldown(w))
      BY <1>1, <2>3 DEF CheckCooldown, Goto
    <3>2. Marker(w) # Never /\ mem[w].rows[a] \in Config
      BY <2>3, <3>1 DEF Cooling, RowsRead, CheckCooldown
    <3> QED BY <1>1, <1>3, <3>1, <3>2, MarkerAccounts DEF Cooldown
  <2> QED BY <2>1, <2>2, <2>3
<1>5. /\ pc'[w] \in {"watch", "reread", "complete", "claim"}
      /\ pc'[w] = "reread" => Marker(w) # Never
  BY <1>1 DEF ReadMarker, RereadMarker, CheckCooldown, Return, Goto
<1>6. MarkersJustified(w)'
  BY <1>0, <1>2 DEF Places, MarkersJustified, Justified
<1>7. pc'[w] = "complete" => Accounted(c)'
  BY <1>0, <1>1, <1>4 DEF Accounted, MaxCooldown
<1> QED
  BY <1>1, <1>2, <1>5, <1>6, <1>7
  DEF Places, ClaimMarks, RecordJustified, RereadSees, CompleteAccounted, Claiming

(* A claim remembers a marker that a notification left. *)
LEMMA ClaimPlaces ==
  ASSUME FrameInv, EventsPast, RowsRead, CooldownsBounded, Config # {}, NEW w \in Worker, Places(w),
         TryClaimTrigger(w)
  PROVE  Places(w)'
<1> DEFINE a == EventOf(w).alert
           c == Current(w).job
<1>0. /\ Runs(w, "deliver") /\ UNCHANGED <<queueVars, event, inbox>> /\ pc[w] = "claim"
  BY DEF TryClaimTrigger
<1>1. /\ Current(w) \in held[w] /\ held' = held /\ Current(w)' = Current(w)
      /\ EventOf(w)' = EventOf(w) /\ EventOf(w) = event[c] /\ c \in Job /\ a \in Alert
      /\ Marker(w) \in Mark /\ Marker(w) = marker[a] /\ pc \in [Worker -> Step]
      /\ mem \in [Worker -> Memory] /\ marker \in [Alert -> Mark] /\ EventOf(w).at \in Time
  BY <1>0, Delivering
<1>2. \A b \in Alert : marker[b] # Never => Justified(b, marker[b])
  BY <1>0 DEF Places, MarkersJustified, Claiming
<1>3. \A b, t : Justified(b, t) => JustifiedThen(b, t)
  BY <1>0 DEF Justified, JustifiedThen
<1>4. CASE Claimable(w)
  <2>1. /\ pc'[w] = "send" /\ mem' = [mem EXCEPT ![w].prev = marker[a]]
        /\ marker' = [marker EXCEPT ![a] = EventOf(w).at]
    BY <1>1, <1>4 DEF TryClaimTrigger, Goto
  <2>2. mem[w] \in Memory
    BY <1>1
  <2>3. mem'[w].prev = marker[a]
    BY <1>1, <2>1, <2>2 DEF Memory
  <2>4. Marker(w)' = EventOf(w).at
    BY <1>1, <2>1 DEF Marker
  <2>5. ClaimMarks(w)'
    <3>1. marker[a] # Never => JustifiedThen(a, marker[a])
      BY <1>1, <1>2, <1>3
    <3> QED BY <1>1, <2>3, <2>4, <3>1 DEF ClaimMarks, Justified, JustifiedThen
  <2>6. MarkersJustified(w)'
    <3> SUFFICES ASSUME NEW b \in Alert, marker'[b] # Never, b # a
                 PROVE  JustifiedThen(b, marker'[b])
      BY <1>1, <2>1 DEF MarkersJustified, Claiming, Justified, JustifiedThen
    <3> QED BY <1>1, <1>2, <1>3, <2>1
  <2> QED BY <2>1, <2>5, <2>6 DEF Places, RecordJustified, RereadSees, CompleteAccounted
<1>5. CASE ~Claimable(w)
  <2>1. pc'[w] = "complete" /\ marker' = marker
    BY <1>1, <1>5 DEF TryClaimTrigger, Return, Goto
  <2>2. AtLeast(marker[a], event[c].at) \/ Cooling(marker[a], Cooldown(w))
    BY <1>1, <1>5 DEF Claimable
  <2>3. marker[a] # Never /\ mem[w].rows[a] \in Config
    BY <1>0, <2>2 DEF AtLeast, Cooling, RowsRead
  <2>4. Accounted(c)
    BY <1>1, <1>2, <2>2, <2>3, MarkerAccounts DEF Cooldown
  <2>5. Accounted(c)'
    BY <1>0, <1>1, <2>4 DEF Accounted, MaxCooldown
  <2>6. MarkersJustified(w)'
    BY <1>2, <1>3, <2>1 DEF MarkersJustified, Justified, JustifiedThen
  <2> QED BY <1>1, <2>1, <2>5, <2>6
        DEF Places, ClaimMarks, RecordJustified, RereadSees, CompleteAccounted, Claiming
<1> QED
  BY <1>4, <1>5

(* A notification justifies the marker of its claim. *)
LEMMA SendPlaces ==
  ASSUME FrameInv, NEW w \in Worker, Places(w), Send(w), InboxGrows PROVE Places(w)'
<1> DEFINE a == EventOf(w).alert
           t == EventOf(w).at
<1>0. /\ Runs(w, "deliver") /\ UNCHANGED <<queueVars, event, marker, mem>> /\ Claiming(w)
  BY DEF Send, Claiming
<1>1. /\ Current(w) \in held[w] /\ held' = held /\ Current(w)' = Current(w)
      /\ EventOf(w)' = EventOf(w) /\ EventOf(w) = event[Current(w).job] /\ t \in Time
      /\ Marker(w) = marker[a] /\ pc \in [Worker -> Step]
  BY <1>0, Delivering
<1>2. Marker(w) = t /\ (mem[w].prev # Never => JustifiedThen(a, mem[w].prev))
  BY <1>0, StaysJustified DEF Places, ClaimMarks
<1>3. \A b \in Alert : marker[b] # Never /\ b # a => JustifiedThen(b, marker[b])
  BY StaysJustified DEF Places, MarkersJustified
<1>4. CASE pc'[w] = "record"
  <2>1. \E n \in inbox' : n.job = Current(w).job
    <3> DEFINE sent == [job |-> Current(w).job, attempt |-> Current(w).attempt, time |-> now]
    <3>1. pc' # [pc EXCEPT ![w] = "restore"]
      BY <1>1, <1>4
    <3>2. inbox' = inbox \cup {sent}
      BY <3>1 DEF Send, Goto
    <3>3. sent.job = Current(w).job
      OBVIOUS
    <3> HIDE DEF sent
    <3> QED BY <3>2, <3>3
  <2>2. JustifiedThen(a, t)
    <3>1. t >= t
      BY <1>1, ProcessorAssumption DEF Time
    <3>2. PICK n \in inbox' : n.job = Current(w).job
      BY <2>1
    <3>3. event'[n.job] = EventOf(w)
      BY <1>0, <1>1, <3>2
    <3> QED BY <3>1, <3>3 DEF JustifiedThen
  <2>3. \A b \in Alert : marker'[b] # Never => JustifiedThen(b, marker'[b])
    BY <1>0, <1>1, <1>2, <1>3, <2>2
  <2>4. MarkersJustified(w)'
    BY <2>3 DEF MarkersJustified, Justified, JustifiedThen
  <2>5. RecordJustified(w)'
    BY <1>1, <2>2 DEF RecordJustified, Justified, JustifiedThen
  <2> QED BY <1>4, <2>4, <2>5 DEF Places, ClaimMarks, Claiming, RereadSees, CompleteAccounted
<1>5. CASE pc'[w] = "restore"
  <2>1. ClaimMarks(w)'
    BY <1>0, <1>1, <1>2 DEF ClaimMarks, Marker, Justified, JustifiedThen
  <2>2. MarkersJustified(w)'
    BY <1>0, <1>1, <1>3, <1>5 DEF MarkersJustified, Claiming, Justified, JustifiedThen
  <2> QED BY <1>5, <2>1, <2>2 DEF Places, RecordJustified, RereadSees, CompleteAccounted
<1> QED
  BY <1>1, <1>4, <1>5 DEF Send, Goto

(* record_event writes the event that was just notified; a roll-back finds *)
(* its own claim and returns to a notified one.                            *)
LEMMA SettlePlaces ==
  ASSUME FrameInv, CooldownsBounded, Config # {}, DbErrors = FALSE, NEW w \in Worker, Places(w),
         RecordEvent(w) \/ RestoreClaim(w), InboxGrows
  PROVE  Places(w)'
<1> DEFINE a == EventOf(w).alert
           t == EventOf(w).at
           c == Current(w).job
<1>0. Runs(w, "deliver") /\ UNCHANGED <<queueVars, event, inbox>>
  BY DEF RecordEvent, RestoreClaim
<1>1. /\ Current(w) \in held[w] /\ held' = held /\ Current(w)' = Current(w)
      /\ EventOf(w)' = EventOf(w) /\ EventOf(w) = event[c] /\ c \in Job /\ t \in Time /\ a \in Alert
      /\ Marker(w) = marker[a] /\ pc \in [Worker -> Step] /\ marker \in [Alert -> Mark]
  BY <1>0, Delivering
<1>2. \A b \in Alert : marker[b] # Never /\ b # a => JustifiedThen(b, marker[b])
  BY StaysJustified DEF Places, MarkersJustified
<1>3. CASE RecordEvent(w)
  <2>1. pc'[w] = "complete" /\ marker' = [marker EXCEPT ![a] = t]
    BY <1>1, <1>3 DEF RecordEvent, RecordTrigger, Return, Goto
  <2>2. Justified(a, t)
    BY <1>3 DEF RecordEvent, Places, RecordJustified
  <2>3. JustifiedThen(a, t)
    BY <2>2, StaysJustified
  <2>4. \A b \in Alert : marker'[b] # Never => JustifiedThen(b, marker'[b])
    BY <1>1, <1>2, <2>1, <2>3
  <2>5. Accounted(c)
    <3>1. PICK r \in Config : TRUE
      OBVIOUS
    <3>2. MaxCooldown \in Nat
      BY <3>1, MaxCooldownBound
    <3>3. PICK n \in inbox : event[n.job].alert = a /\ event[n.job].at >= t
      BY <2>2 DEF Justified
    <3>4. event[n.job].at \in Nat /\ t \in Nat
      BY <1>1, InboxBorn, ProcessorAssumption DEF Time
    <3>5. event[n.job].at + MaxCooldown >= t
      BY <3>2, <3>3, <3>4
    <3> QED BY <1>1, <3>3, <3>5 DEF Accounted
  <2>6. Accounted(c)'
    BY <1>0, <1>1, <2>5 DEF Accounted, MaxCooldown
  <2>7. MarkersJustified(w)'
    BY <2>4 DEF MarkersJustified, Justified, JustifiedThen
  <2> QED BY <1>1, <2>1, <2>6, <2>7
        DEF Places, ClaimMarks, RecordJustified, RereadSees, CompleteAccounted, Claiming
<1>4. CASE RestoreClaim(w)
  <2>1. Claiming(w) /\ pc'[w] = "fail"
    BY <1>1, <1>4 DEF RestoreClaim, Claiming, Return, Goto
  <2>2. Marker(w) = t /\ (mem[w].prev # Never => JustifiedThen(a, mem[w].prev))
    BY <2>1, StaysJustified DEF Places, ClaimMarks
  <2>3. marker' = [marker EXCEPT ![a] = mem[w].prev]
    BY <1>4, <2>2 DEF RestoreClaim, StillClaimed
  <2>4. \A b \in Alert : marker'[b] # Never => JustifiedThen(b, marker'[b])
    BY <1>1, <1>2, <2>2, <2>3
  <2>5. MarkersJustified(w)'
    BY <2>4 DEF MarkersJustified, Justified, JustifiedThen
  <2> QED BY <2>1, <2>5
        DEF Places, ClaimMarks, RecordJustified, RereadSees, CompleteAccounted, Claiming
<1> QED
  BY <1>3, <1>4

(* The job of an evaluation or a report is done: no claim is open. *)
LEMMA DonePlaces ==
  ASSUME FrameInv, NEW w \in Worker, Places(w), EndEvaluate(w) \/ Finish(w), InboxGrows
  PROVE  Places(w)'
<1>0. pc \in [Worker -> Step] /\ marker' = marker /\ ~Claiming(w)
  BY DEF FrameInv, ProcessorTypeOK, EndEvaluate, Finish, Claiming
<1>1. \A b \in Alert : marker'[b] # Never => JustifiedThen(b, marker'[b])
  BY <1>0, StaysJustified DEF Places, MarkersJustified
<1>2. MarkersJustified(w)'
  BY <1>1 DEF MarkersJustified, Justified, JustifiedThen
<1>3. CASE Finish(w)
  <2>1. pc'[w] = "idle"
    BY <1>0, <1>3 DEF Finish, Return, Goto
  <2> QED BY <1>2, <2>1
        DEF Places, ClaimMarks, RecordJustified, RereadSees, CompleteAccounted, Claiming
<1>4. CASE EndEvaluate(w)
  <2>1. /\ pc'[w] = "complete" /\ Current(w) \in held[w] /\ held' = held /\ jobType' = jobType
        /\ jobType[Current(w).job] = "evaluate_symbol"
    BY <1>0, <1>4 DEF EndEvaluate, Return, Goto, Runs, Busy, IsCurrent, queueVars, rowVars
  <2>2. Current(w)' = Current(w)
    BY <2>1, CurrentKept
  <2>3. CompleteAccounted(w)'
    BY <2>1, <2>2 DEF CompleteAccounted
  <2> QED BY <1>2, <2>1, <2>3 DEF Places, ClaimMarks, RecordJustified, RereadSees, Claiming
<1> QED
  BY <1>3, <1>4

(* The other steps of the worker leave every place. *)
LEMMA OtherKeepsPlace ==
  ASSUME FrameInv, NEW w \in Worker, Places(w),
         \/ ListWatches(w) \/ EvaluateWatch(w) \/ EnqueueDeliver(w) \/ GetWatch(w) \/ NextBatch(w)
         \/ Orchestrate \/ Clock \/ UNCHANGED vars \/ \E a \in Alert, r \in Row : SaveWatch(a, r)
         \/ ReadAttempts(w)
  PROVE  KeepsPlace(w) /\ UNCHANGED marker
<1>0. pc \in [Worker -> Step]
  BY DEF FrameInv, ProcessorTypeOK
<1>1. CASE ListWatches(w) \/ EvaluateWatch(w) \/ EnqueueDeliver(w) \/ GetWatch(w) \/ ReadAttempts(w)
  BY <1>0, <1>1 DEF ListWatches, EvaluateWatch, EnqueueDeliver, GetWatch, ReadAttempts, Goto,
       KeepsPlace, Marked
<1>2. CASE NextBatch(w)
  <2>1. held[w] = {} /\ pc' = pc /\ marker' = marker
    BY <1>2 DEF NextBatch, ClaimBatch, procVars
  <2>2. pc[w] \notin Marked
    BY <2>1, PlaceHeld
  <2> QED BY <2>1, <2>2 DEF KeepsPlace
<1>3. CASE Orchestrate \/ Clock \/ UNCHANGED vars \/ \E a \in Alert, r \in Row : SaveWatch(a, r)
  BY <1>3 DEF Orchestrate, EnqueueJobs, Clock, Tick, SaveWatch, vars, procVars, queueVars, KeepsPlace
<1> QED
  BY <1>1, <1>2, <1>3

(* Only a report on a completed job makes a row completed. *)
LEMMA CompletedByReport ==
  ASSUME FrameInv, [ProcessorNext]_vars, NEW j \in Job, status'[j] = "completed",
         status[j] # "completed"
  PROVE  \E w \in Worker : Finish(w) /\ pc[w] = "complete" /\ j = Current(w).job
<1>0. status \in [Job -> Status]
  BY DEF FrameInv, QueueInv, QueueTypeOK
<1>1. ASSUME NEW t, NEW n, EnqueueJobs(t, n) PROVE FALSE
  BY <1>1 DEF EnqueueJobs
<1>2. ASSUME NEW w \in Worker, JobStep(w) PROVE FALSE
  BY <1>1, <1>2, JobStepIsQueueStep DEF queueVars, rowVars
<1>3. ASSUME NEW w \in Worker, NextBatch(w) PROVE FALSE
  BY <1>3 DEF NextBatch, ClaimBatch, ClaimJobs
<1>4. ASSUME NEW w \in Worker, Die(w) PROVE FALSE
  BY <1>4 DEF Die, Crash, rowVars
<1>5. ASSUME NEW w \in Worker, Finish(w) PROVE pc[w] = "complete" /\ j = Current(w).job
  BY <1>0, <1>5 DEF Finish, CompleteJob, FailJob, FailJobSeeing, Release, rowVars
<1>6. CASE Orchestrate
  BY <1>1, <1>6 DEF Orchestrate
<1>7. CASE Clock \/ UNCHANGED vars \/ \E a \in Alert, r \in Row : SaveWatch(a, r)
  BY <1>7 DEF Clock, Tick, SaveWatch, vars, queueVars, rowVars
<1> QED
  BY <1>2, <1>3, <1>4, <1>5, <1>6, <1>7 DEF ProcessorNext

(* The only worker is never killed. *)
LEMMA StaysAlive ==
  ASSUME FrameInv, OneWorker, alive = Worker, [ProcessorNext]_vars
  PROVE  alive' = Worker /\ \A w \in Worker : ~Die(w)
<1>1. ASSUME NEW w \in Worker, Die(w) PROVE FALSE
  <2>1. alive # {w} /\ Worker = {w}
    BY <1>1 DEF Die, Crash, OneWorker
  <2> QED BY <2>1
<1>2. ASSUME NEW w \in Worker, JobStep(w) PROVE alive' = alive
  BY <1>2, JobStepIsQueueStep DEF EnqueueJobs, queueVars
<1>3. ASSUME NEW w \in Worker, NextBatch(w) \/ Finish(w) PROVE alive' = alive
  BY <1>3 DEF NextBatch, ClaimBatch, ClaimJobs, Finish, CompleteJob, FailJob, FailJobSeeing
<1>4. ASSUME Orchestrate \/ Clock \/ UNCHANGED vars \/ \E a \in Alert, r \in Row : SaveWatch(a, r)
      PROVE  alive' = alive
  BY <1>4 DEF Orchestrate, EnqueueJobs, Clock, Tick, SaveWatch, vars, queueVars
<1> QED
  BY <1>1, <1>2, <1>3, <1>4 DEF ProcessorNext

(* The only worker starts with nothing in hand. *)
LEMMA SoloInit == ProcessorInit => SoloInv
<1> SUFFICES ASSUME ProcessorInit PROVE SoloInv
  OBVIOUS
<1>1. SpacedInv
  BY SpacedInit
<1>2. alive = Worker /\ CompletedIsAccounted
  BY DEF ProcessorInit, QueueInit, CompletedIsAccounted
<1>3. \A w \in Worker : Places(w)
  BY DEF ProcessorInit, Places, ClaimMarks, RecordJustified, MarkersJustified, RereadSees,
       CompleteAccounted, Claiming
<1> QED
  BY <1>1, <1>2, <1>3 DEF SoloInv

(* Every step of the one worker keeps the marker justified and every       *)
(* completed job accounted for.                                            *)
LEMMA SoloNext ==
  ASSUME OneWorker, CooldownsBounded, SoloInv, [ProcessorNext]_vars PROVE SoloInv'
<1>0. /\ SpacedInv /\ FrameInv /\ EventsPast /\ RowsRead /\ Config # {} /\ EventsKept /\ RowsStamped
      /\ InboxGrows /\ alive = Worker /\ DbErrors = FALSE /\ CompletedIsAccounted
  BY EveryStepKeepsEvents, EveryStepStamps, EveryStepGrowsInbox
  DEF SoloInv, SpacedInv, TriggerInv, FrameInv, OneWorker
<1>1. SpacedInv' /\ alive' = Worker /\ \A w \in Worker : ~Die(w)
  BY <1>0, SpacedNext, StaysAlive
<1>2. ASSUME NEW w \in Worker PROVE Places(w)'
  <2>0. Places(w)
    BY DEF SoloInv
  <2>1. CASE ReadMarker(w) \/ RereadMarker(w) \/ CheckCooldown(w)
    BY <1>0, <2>0, <2>1, LookPlaces
  <2>2. CASE TryClaimTrigger(w)
    BY <1>0, <2>0, <2>2, ClaimPlaces
  <2>3. CASE Send(w)
    BY <1>0, <2>0, <2>3, SendPlaces
  <2>4. CASE RecordEvent(w) \/ RestoreClaim(w)
    BY <1>0, <2>0, <2>4, SettlePlaces
  <2>5. CASE EndEvaluate(w) \/ Finish(w)
    BY <1>0, <2>0, <2>5, DonePlaces
  <2>6. CASE \/ ListWatches(w) \/ EvaluateWatch(w) \/ EnqueueDeliver(w) \/ GetWatch(w) \/ NextBatch(w)
             \/ Orchestrate \/ Clock \/ UNCHANGED vars \/ ReadAttempts(w)
             \/ \E a \in Alert, r \in Row : SaveWatch(a, r)
    <3>1. KeepsPlace(w) /\ UNCHANGED marker
      BY <1>0, <2>0, <2>6, OtherKeepsPlace
    <3> QED BY <1>0, <2>0, <3>1, KeptPlaces
  <2>7. ~Raise(w) /\ ~Die(w) /\ \A v \in Worker : v = w
    BY <1>0, <1>1 DEF Raise, OneWorker
  <2> QED BY <2>1, <2>2, <2>3, <2>4, <2>5, <2>6, <2>7 DEF ProcessorNext, JobStep
<1>3. CompletedIsAccounted'
  <2> SUFFICES ASSUME NEW j \in Job, status'[j] = "completed", jobType'[j] = "deliver"
               PROVE  Accounted(j)'
    BY DEF CompletedIsAccounted, Accounted
  <2>1. CASE status[j] = "completed"
    <3>1. event'[j] = event[j] /\ jobType[j] = "deliver"
      BY <1>0, <2>1 DEF EventsKept, RowsStamped
    <3>2. Accounted(j)
      BY <1>0, <2>1, <3>1 DEF CompletedIsAccounted, Accounted
    <3> QED BY <1>0, <3>1, <3>2, StaysAccounted
  <2>2. CASE status[j] # "completed"
    <3>1. PICK w \in Worker : Finish(w) /\ pc[w] = "complete" /\ j = Current(w).job
      BY <1>0, <2>2, CompletedByReport
    <3>2. Current(w) \in held[w] /\ (jobType[j] = "deliver" => Accounted(j))
      BY <3>1 DEF SoloInv, Places, CompleteAccounted
    <3>3. status[j] # "absent"
      BY <1>0, <3>1, <3>2, CurrentType
    <3>4. event'[j] = event[j] /\ jobType[j] = "deliver"
      BY <1>0, <3>3 DEF EventsKept, RowsStamped
    <3> QED BY <1>0, <3>2, <3>4, StaysAccounted
  <2> QED BY <2>1, <2>2
<1> QED
  BY <1>1, <1>2, <1>3 DEF SoloInv

(* The markers stay justified throughout. *)
LEMMA SoloSafe ==
  ASSUME OneWorker, CooldownsBounded PROVE ProcessorSpec => []SoloInv
<1>1. ProcessorInit => SoloInv
  BY SoloInit
<1>2. SoloInv /\ [ProcessorNext]_vars => SoloInv'
  BY SoloNext
<1> QED
  BY <1>1, <1>2, PTL DEF ProcessorSpec

(* With one worker and no database error a completed deliver job was       *)
(* notified, or a notification at least as new, or one within the cooldown,*)
(* stands for it: process_job_queue drops no event of its own accord.      *)
THEOREM NothingDropped ==
  ASSUME OneWorker, CooldownsBounded PROVE ProcessorSpec => []CompletedIsAccounted
<1>1. SoloInv => CompletedIsAccounted
  BY DEF SoloInv
<1> QED
  BY <1>1, SoloSafe, PTL

(* With one worker and no database error the marker that makes a retry     *)
(* skip its event belongs to a notification at least as new, sent or under *)
(* way: restore_trigger_claim leaves every failed delivery eligible.       *)
THEOREM RetriesEligible ==
  ASSUME OneWorker, CooldownsBounded PROVE ProcessorSpec => []RetriesStayEligible
<1>1. ASSUME SoloInv PROVE RetriesStayEligible
  <2>0. FrameInv /\ alive = Worker
    BY <1>1 DEF SoloInv, SpacedInv, TriggerInv
  <2> SUFFICES ASSUME NEW j \in Job, CoveredRetry(j)
               PROVE  \/ \E n \in inbox : /\ event[n.job].alert = event[j].alert
                                         /\ event[n.job].at >= event[j].at
                      \/ \E w \in InFlight : /\ EventOf(w).alert = event[j].alert
                                            /\ EventOf(w).at >= event[j].at
    BY DEF RetriesStayEligible
  <2> DEFINE m == marker[event[j].alert]
  <2>1. /\ event[j].alert \in Alert /\ event[j].at \in Nat /\ m # Never /\ m \in Nat
        /\ m >= event[j].at
    BY <2>0, ProcessorAssumption DEF CoveredRetry, AtLeast, FrameInv, ProcessorTypeOK, Event, Time, Mark
  <2>2. PICK w \in Worker : TRUE
    BY DEF OneWorker
  <2>3. CASE Justified(event[j].alert, m)
    <3>1. PICK n \in inbox : event[n.job].alert = event[j].alert /\ event[n.job].at >= m
      BY <2>3 DEF Justified
    <3>2. event[n.job].at \in Nat
      BY <2>0, InboxBorn, ProcessorAssumption DEF Time
    <3> QED BY <2>1, <3>1, <3>2
  <2>4. CASE Claiming(w) /\ EventOf(w).alert = event[j].alert
    <3>1. Current(w) \in held[w] /\ Marker(w) = EventOf(w).at
      BY <1>1, <2>0, <2>4 DEF FrameInv, ActiveClaims, SoloInv, Places, ClaimMarks
    <3>2. w \in InFlight
      BY <2>0, <2>4, <3>1 DEF InFlight, Claiming
    <3> QED BY <2>1, <2>4, <3>1, <3>2 DEF Marker
  <2> QED BY <1>1, <2>1, <2>3, <2>4 DEF SoloInv, Places, MarkersJustified
<1> QED
  BY <1>1, SoloSafe, PTL
================================================================================
