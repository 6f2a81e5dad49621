----------------------------- MODULE JobProcessor ------------------------------
(***************************************************************************)
(* What a worker does with the jobs it claims (src/alerts/job_processor.py)*)
(* on top of the queue of AlertJobs: evaluate jobs match the watches of a  *)
(* symbol and enqueue deliver jobs, deliver jobs claim the trigger marker  *)
(* of their watch, notify the user and record or roll back the claim.      *)
(* Every database transaction and the notification itself are steps of     *)
(* their own, so workers interleave between any two of them and die        *)
(* between any two of them.                                                *)
(*                                                                         *)
(* The alerts of the model watch one symbol.  Timestamps are values of a   *)
(* clock of coarse units; an event is stamped and enqueued in one unit.    *)
(***************************************************************************)
EXTENDS AlertJobs

CONSTANTS Alert,     \* (user_id, alert_id) pairs
          Config,    \* watch rows users save: [enabled, cooldown]
          NoWatch,   \* no row in alert_watches
          Never,     \* no row in alert_trigger_state
          MaxTime,   \* bound: last value of the clock
          DbErrors   \* may a database call raise (locked, connection lost)?

ASSUME ProcessorAssumption ==
  /\ MaxEnqueue > 0
  /\ Alert # {}
  /\ Config \subseteq [enabled : BOOLEAN, cooldown : Nat]
  /\ NoWatch \notin Config
  /\ MaxTime \in Nat
  /\ Never \notin 0..MaxTime
  /\ DbErrors \in BOOLEAN

VARIABLES
  now,       \* the clock
  watch,     \* alert -> alert_watches row
  marker,    \* alert -> last_triggered_at
  event,     \* job -> the event in a deliver job's payload
  pc,        \* worker -> where it is in the job at the head of its batch
  mem,       \* worker -> local variables of that job's function
  inbox,     \* notifications users received: job, attempt that sent it, time
  overtaken  \* history: jobs whose event the marker moved back past because
             \* an older event was recorded late

procVars == <<now, watch, marker, event, pc, mem, inbox, overtaken>>
vars == <<queueVars, procVars>>

Time == 0..MaxTime
Row == Config \cup {NoWatch}
Mark == Time \cup {Never}
Event == [alert : Alert, at : Time]

\* todo: watches the evaluate loop has left; target: the one that matched;
\* rows: watch rows read; prev: previous_trigger; seen: attempts in fail_job.
Memory == [todo : SUBSET Alert, target : SUBSET Alert, rows : [Alert -> Row],
           prev : Mark, seen : 0..TryLimit]
Blank == [todo |-> {}, target |-> {}, rows |-> [a \in Alert |-> NoWatch],
          prev |-> Never, seen |-> 0]

DbStep == {"idle", "evaluate", "matched", "reread", "watch", "cooldown", "claim",
           "restore", "complete"}
Step == DbStep \cup {"send", "record", "fail", "failing"}

ProcessorTypeOK ==
  /\ now \in Time
  /\ watch \in [Alert -> Row]
  /\ marker \in [Alert -> Mark]
  /\ event \in [Job -> Event]
  /\ pc \in [Worker -> Step]
  /\ mem \in [Worker -> Memory]
  /\ inbox \in SUBSET [job : Job, attempt : 1..TryLimit, time : Time]
  /\ overtaken \in SUBSET Job

ProcessorInit ==
  /\ QueueInit
  /\ now = 0
  /\ watch \in [Alert -> Config]
  /\ marker = [a \in Alert |-> Never]
  /\ event = [j \in Job |-> [alert |-> CHOOSE a \in Alert : TRUE, at |-> 0]]
  /\ pc = [w \in Worker |-> "idle"]
  /\ mem = [w \in Worker |-> Blank]
  /\ inbox = {}
  /\ overtaken = {}

--------------------------------------------------------------------------------
AtLeast(m, t) == m # Never /\ m >= t

(* _within_cooldown, and the same test inside try_claim_trigger. *)
Cooling(m, cooldown) == cooldown > 0 /\ m # Never /\ now - m < cooldown

Current(w) == CHOOSE c \in held[w] : IsCurrent(w, c)
EventOf(w) == event[Current(w).job]
Marker(w) == marker[EventOf(w).alert]
Cooldown(w) == mem[w].rows[EventOf(w).alert].cooldown

Busy(w) == w \in alive /\ held[w] # {} /\ IsCurrent(w, Current(w))
Runs(w, t) == Busy(w) /\ jobType[Current(w).job] = t
Goto(w, s) == pc' = [pc EXCEPT ![w] = s]

(* The job's function is over: its local variables are gone. *)
Return(w, s) == Goto(w, s) /\ mem' = [mem EXCEPT ![w] = Blank]

--------------------------------------------------------------------------------
(* Slips: variants of definitions below with a plausible bug in them.      *)
SlipRecordLater(a, t) == marker' = [marker EXCEPT ![a] = now + 1]
SlipIgnoreTies(w) ==
  ~(Marker(w) # Never /\ Marker(w) > EventOf(w).at) /\ ~Cooling(Marker(w), Cooldown(w))
SlipClaimWhileCooling(w) == ~AtLeast(Marker(w), EventOf(w).at)
SlipAlwaysRestore(w) == TRUE
SlipNeverRestore(w) == FALSE
SlipDropUnwatched(w) ==
  /\ Runs(w, "deliver") /\ pc[w] = "watch"
  /\ LET a == EventOf(w).alert
     IN IF watch[a] = NoWatch
        THEN Goto(w, "complete") /\ UNCHANGED mem
        ELSE Goto(w, "cooldown") /\ mem' = [mem EXCEPT ![w].rows[a] = watch[a]]
  /\ UNCHANGED <<queueVars, now, watch, marker, event, inbox, overtaken>>
SlipNextBatchEarly(w) ==
  /\ w \in alive
  /\ ClaimJobs(turn[w], w)
  /\ turn' = [turn EXCEPT ![w] = OtherType(@)]
  /\ UNCHANGED procVars
--------------------------------------------------------------------------------
(* _process_evaluate_symbol: list_watches_for_symbol. *)
ListWatches(w) ==
  /\ Runs(w, "evaluate_symbol") /\ pc[w] = "idle"
  /\ Goto(w, "evaluate")
  /\ LET enabled == {a \in Alert : watch[a] # NoWatch /\ watch[a].enabled}
     IN mem' = [mem EXCEPT
                  ![w].todo = enabled,
                  ![w].rows = [a \in Alert |-> IF a \in enabled THEN watch[a] ELSE NoWatch]]
  /\ UNCHANGED <<queueVars, now, watch, marker, event, inbox, overtaken>>

(* One round of the loop: skip a watch in its cooldown, and one whose rule *)
(* does not match the price.                                               *)
EvaluateWatch(w) ==
  /\ Runs(w, "evaluate_symbol") /\ pc[w] = "evaluate"
  /\ \E a \in mem[w].todo :
       \/ /\ mem' = [mem EXCEPT ![w].todo = @ \ {a}]
          /\ UNCHANGED pc
       \/ /\ ~Cooling(marker[a], mem[w].rows[a].cooldown)
          /\ Goto(w, "matched")
          /\ mem' = [mem EXCEPT ![w].todo = @ \ {a}, ![w].target = {a}]
  /\ UNCHANGED <<queueVars, now, watch, marker, event, inbox, overtaken>>

(* The rule matched: the event is stamped and its deliver job enqueued. *)
EnqueueDeliver(w) ==
  /\ Runs(w, "evaluate_symbol") /\ pc[w] = "matched"
  /\ EnqueueJobs("deliver", 1)
  /\ \E a \in mem[w].target :
       event' = [j \in Job |-> IF j \in NewIds(1) THEN [alert |-> a, at |-> now] ELSE event[j]]
  /\ Goto(w, "evaluate")
  /\ mem' = [mem EXCEPT ![w].target = {}]
  /\ UNCHANGED <<now, watch, marker, inbox, overtaken>>

EndEvaluate(w) ==
  /\ Runs(w, "evaluate_symbol") /\ pc[w] = "evaluate" /\ mem[w].todo = {}
  /\ Return(w, "complete")
  /\ UNCHANGED <<queueVars, now, watch, marker, event, inbox, overtaken>>

--------------------------------------------------------------------------------
(* _process_deliver reads the marker twice, in two transactions: a first   *)
(* look whether there is one, and storage.get_last_triggered.              *)
ReadMarker(w) ==
  /\ Runs(w, "deliver") /\ pc[w] = "idle"
  /\ Goto(w, IF Marker(w) = Never THEN "watch" ELSE "reread")
  /\ UNCHANGED <<queueVars, now, watch, marker, event, mem, inbox, overtaken>>

(* A marker gone by the second read counts as already delivered. *)
RereadMarker(w) ==
  /\ Runs(w, "deliver") /\ pc[w] = "reread"
  /\ Goto(w, IF Marker(w) = Never \/ AtLeast(Marker(w), EventOf(w).at)
             THEN "complete" ELSE "watch")
  /\ UNCHANGED <<queueVars, now, watch, marker, event, mem, inbox, overtaken>>

(* get_watch; a deleted watch raises.  enabled is not looked at. *)
GetWatch(w) ==
  /\ Runs(w, "deliver") /\ pc[w] = "watch"
  /\ LET a == EventOf(w).alert
     IN IF watch[a] = NoWatch
        THEN Goto(w, "fail") /\ UNCHANGED mem
        ELSE Goto(w, "cooldown") /\ mem' = [mem EXCEPT ![w].rows[a] = watch[a]]
  /\ UNCHANGED <<queueVars, now, watch, marker, event, inbox, overtaken>>

CheckCooldown(w) ==
  /\ Runs(w, "deliver") /\ pc[w] = "cooldown"
  /\ IF Cooling(Marker(w), Cooldown(w))
     THEN Return(w, "complete")
     ELSE Goto(w, "claim") /\ UNCHANGED mem
  /\ UNCHANGED <<queueVars, now, watch, marker, event, inbox, overtaken>>

(* try_claim_trigger, one BEGIN IMMEDIATE transaction. *)
Claimable(w) ==
  ~AtLeast(Marker(w), EventOf(w).at) /\ ~Cooling(Marker(w), Cooldown(w))

TryClaimTrigger(w) ==
  /\ Runs(w, "deliver") /\ pc[w] = "claim"
  /\ IF Claimable(w)
     THEN /\ Goto(w, "send")
          /\ mem' = [mem EXCEPT ![w].prev = Marker(w)]
          /\ marker' = [marker EXCEPT ![EventOf(w).alert] = EventOf(w).at]
     ELSE Return(w, "complete") /\ UNCHANGED marker
  /\ UNCHANGED <<queueVars, now, watch, event, inbox, overtaken>>

(* AlertEngine.deliver_event: some channel took the notification, or none  *)
(* did and the caller raises.                                              *)
Send(w) ==
  /\ Runs(w, "deliver") /\ pc[w] = "send"
  /\ \/ /\ inbox' = inbox \cup {[job |-> Current(w).job,
                                 attempt |-> Current(w).attempt, time |-> now]}
        /\ Goto(w, "record")
     \/ Goto(w, "restore") /\ UNCHANGED inbox
  /\ UNCHANGED <<queueVars, now, watch, marker, event, mem, overtaken>>

(* record_event: record_trigger overwrites the marker whatever it is.  An  *)
(* error is logged and the delivery still counts.                          *)
RecordTrigger(a, t) == marker' = [marker EXCEPT ![a] = t]

(* The jobs the marker of a moves back past. *)
Overtake(a) ==
  overtaken' = overtaken \cup
    {j \in Job : /\ status[j] # "absent" /\ event[j].alert = a
                 /\ AtLeast(marker[a], event[j].at) /\ ~AtLeast(marker'[a], event[j].at)}

RecordEvent(w) ==
  /\ Runs(w, "deliver") /\ pc[w] = "record"
  /\ \/ RecordTrigger(EventOf(w).alert, EventOf(w).at) /\ Overtake(EventOf(w).alert)
     \/ DbErrors /\ UNCHANGED <<marker, overtaken>>
  /\ Return(w, "complete")
  /\ UNCHANGED <<queueVars, now, watch, event, inbox>>

(* restore_trigger_claim: only while the marker is still this claim (by    *)
(* its timestamp: after an overtaken event was claimed again the roll-back *)
(* of its first claim hits the second).                                    *)
StillClaimed(w) == Marker(w) = EventOf(w).at

RestoreClaim(w) ==
  /\ Runs(w, "deliver") /\ pc[w] = "restore"
  /\ marker' = IF StillClaimed(w)
               THEN [marker EXCEPT ![EventOf(w).alert] = mem[w].prev] ELSE marker
  /\ IF Current(w).job \in overtaken THEN Overtake(EventOf(w).alert) ELSE UNCHANGED overtaken
  /\ Return(w, "fail")
  /\ UNCHANGED <<queueVars, now, watch, event, inbox>>

--------------------------------------------------------------------------------
(* A database call of the job raises: process_job_queue fails the job. *)
Raise(w) ==
  /\ DbErrors
  /\ Busy(w) /\ pc[w] \in DbStep
  /\ Return(w, "fail")
  /\ UNCHANGED <<queueVars, now, watch, marker, event, inbox, overtaken>>

(* fail_job's SELECT finds the lease and reads the attempts. *)
ReadAttempts(w) ==
  /\ Busy(w) /\ pc[w] = "fail" /\ OwnsLease(w, Current(w).job)
  /\ Goto(w, "failing")
  /\ mem' = [mem EXCEPT ![w].seen = attempts[Current(w).job]]
  /\ UNCHANGED <<queueVars, now, watch, marker, event, inbox, overtaken>>

(* process_job_queue reports the outcome and turns to the next job: by     *)
(* complete_job, by fail_job's SELECT that finds no lease, or its UPDATE.  *)
Finish(w) ==
  /\ Busy(w)
  /\ \/ pc[w] = "complete" /\ CompleteJob(w, Current(w))
     \/ pc[w] = "fail" /\ ~OwnsLease(w, Current(w).job) /\ FailJob(w, Current(w))
     \/ pc[w] = "failing" /\ FailJobSeeing(w, Current(w), mem[w].seen)
  /\ Return(w, "idle")
  /\ UNCHANGED <<now, watch, marker, event, inbox, overtaken>>

NextBatch(w) == ClaimBatch(w) /\ UNCHANGED procVars

Die(w) ==
  /\ Crash(w)
  /\ Return(w, "idle")
  /\ UNCHANGED <<now, watch, marker, event, inbox, overtaken>>

JobStep(w) ==
  \/ ListWatches(w) \/ EvaluateWatch(w) \/ EnqueueDeliver(w) \/ EndEvaluate(w)
  \/ ReadMarker(w) \/ RereadMarker(w) \/ GetWatch(w) \/ CheckCooldown(w)
  \/ TryClaimTrigger(w) \/ Send(w) \/ RecordEvent(w) \/ RestoreClaim(w) \/ Raise(w)
  \/ ReadAttempts(w)

(* run_orchestrator_tick: an evaluate job for the symbol.  It read the     *)
(* enabled symbols earlier, so a watch may have been paused since.         *)
Orchestrate == EnqueueJobs("evaluate_symbol", 1) /\ UNCHANGED procVars

(* A user saves other settings: sync_watches_from_config replaces the row, *)
(* the trigger marker stays.                                               *)
SaveWatch(a, r) ==
  /\ watch' = [watch EXCEPT ![a] = r]
  /\ UNCHANGED <<queueVars, now, marker, event, pc, mem, inbox, overtaken>>

Clock ==
  /\ now < MaxTime
  /\ now' = now + 1
  /\ Tick
  /\ UNCHANGED <<watch, marker, event, pc, mem, inbox, overtaken>>

ProcessorNext ==
  \/ Orchestrate
  \/ \E w \in Worker : NextBatch(w) \/ JobStep(w) \/ Finish(w) \/ Die(w)
  \/ \E a \in Alert, r \in Row : SaveWatch(a, r)
  \/ Clock

ProcessorSpec == ProcessorInit /\ [][ProcessorNext]_vars
--------------------------------------------------------------------------------
(* Every step of the processor is a step of the queue, so what holds of    *)
(* the queue holds while the jobs are worked off (process_job_queue).      *)
ImplementsQueue == QueueSpec

(* The marker covers what was sent: once an event was notified the marker  *)
(* of its watch stays at or past the event's timestamp, through failed     *)
(* sends of other events, their roll-backs, crashes and recoveries -       *)
(* unless an older event was recorded late.                                *)
MarkerCoversNotified ==
  \A n \in inbox : n.job \in overtaken \/ AtLeast(marker[event[n.job].alert], event[n.job].at)

(* An event is notified at most once, whoever recovers, retries or         *)
(* competes - unless the marker moved back past it.                        *)
NotifiedOnceUnlessOvertaken ==
  \A m, n \in inbox : m.job = n.job => m = n \/ m.job \in overtaken

MinCooldown == CHOOSE c \in {r.cooldown : r \in Config} : \A r \in Config : c <= r.cooldown

(* A notification is never sent less than a cooldown after the event of an *)
(* older one of its watch that was sent before, although the evaluate jobs *)
(* of overlapping ticks both pass the check that precedes enqueueing -     *)
(* unless the marker moved back past the older one.                        *)
SpacedFromEarlierEvent ==
  [][\A n \in inbox' \ inbox, m \in inbox :
       /\ event[m.job].alert = event[n.job].alert
       /\ event[m.job].at < event[n.job].at
       /\ m.job \notin overtaken
       => now >= event[m.job].at + MinCooldown]_vars

(* Workers between a trigger claim and its record or roll-back. *)
InFlight == {w \in alive : held[w] # {} /\ pc[w] \in {"send", "restore"}}

(* A failed delivery stays eligible for its retry: while no worker has     *)
(* died, the marker that makes a retry skip its event is that of an event  *)
(* at least as new that was notified or is being sent (docstring of        *)
(* try_claim_trigger).                                                     *)
CoveredRetry(j) ==
  /\ status[j] = "pending" /\ jobType[j] = "deliver" /\ attempts[j] > 0
  /\ AtLeast(marker[event[j].alert], event[j].at)

RetriesStayEligible ==
  \A j \in Job :
    CoveredRetry(j) /\ alive = Worker =>
      \/ \E n \in inbox : /\ event[n.job].alert = event[j].alert
                          /\ event[n.job].at >= event[j].at
      \/ \E w \in InFlight : /\ EventOf(w).alert = event[j].alert
                             /\ EventOf(w).at >= event[j].at

(* No event is notified twice: stale-job recovery does not resend what was *)
(* delivered (comment in _process_deliver).                                *)
NotifiedOnce == \A m, n \in inbox : m.job = n.job => m = n

(* Notifications of one watch are a cooldown apart (comment at the         *)
(* deliver-time cooldown check).                                           *)
CooldownSpacing ==
  \A m, n \in inbox :
    m.job # n.job /\ event[m.job].alert = event[n.job].alert /\ m.time <= n.time =>
      n.time >= m.time + MinCooldown

MaxCooldown == CHOOSE c \in {r.cooldown : r \in Config} : \A r \in Config : c >= r.cooldown

(* A completed deliver job is accounted for: its event was notified, or    *)
(* one of the same watch at least as new, or one within the cooldown.      *)
CompletedIsAccounted ==
  \A j \in Job :
    status[j] = "completed" /\ jobType[j] = "deliver" =>
      \E n \in inbox : /\ event[n.job].alert = event[j].alert
                       /\ event[n.job].at + MaxCooldown >= event[j].at
================================================================================
