------------------------------ MODULE WorkerHealth ------------------------------
(***************************************************************************)
(* Check cycles and the heartbeats they leave: the loop of the worker      *)
(* process (src/alerts/alert_worker.py), the threads of the API process    *)
(* that run the same cycle after its start and after a refresh, the        *)
(* heartbeat rows and the answer of /health/worker                         *)
(* (src/storage/health.py).                                                *)
(*                                                                         *)
(* All threads of a process write the heartbeat of one worker id, drawn    *)
(* when the process starts.  What a cycle does to jobs and watches is the  *)
(* subject of JobProcessor; here it succeeds or raises.                    *)
(***************************************************************************)
EXTENDS Naturals

CONSTANTS MaxLife,        \* bound: starts of each process
          Interval,       \* interval_seconds
          StaleSeconds,   \* age up to which /health/worker takes a heartbeat
          HealthUntil     \* bound: the clock

ASSUME HealthAssumption ==
  /\ MaxLife["worker"] \in Nat \ {0} /\ MaxLife["api"] \in Nat \ {0} /\ Interval \in Nat \ {0}
  /\ StaleSeconds \in Nat /\ HealthUntil \in Nat

VARIABLES
  wall,       \* the clock
  life,       \* process -> how often it was started
  cycle,      \* thread -> where it is in run_db_worker_cycle
  stopping,   \* the stop flag of run_worker_loop
  heartbeat,  \* worker id -> row of worker_heartbeats
  succeeded   \* history: worker id -> time of its latest success, or 0

healthVars == <<wall, life, cycle, stopping, heartbeat, succeeded>>

WorkerId == UNION {{p} \X (1..MaxLife[p]) : p \in {"worker", "api"}}

Owner == [loop |-> "worker", startup |-> "api", refresh |-> "api"]
Thread == DOMAIN Owner

Off == [at |-> "off"]
IdOf(t) == <<Owner[t], life[Owner[t]]>>
--------------------------------------------------------------------------------
(* Slips: variants of definitions below with a plausible bug in them.      *)
SlipAnyAge(row) == row.status = "healthy"
--------------------------------------------------------------------------------
HealthInit ==
  /\ wall = 1
  /\ life = [p \in {"worker", "api"} |-> 1]
  /\ cycle = [t \in Thread |-> IF t = "refresh" THEN Off ELSE [at |-> "start"]]
  /\ stopping = FALSE
  /\ heartbeat = << >>
  /\ succeeded = [i \in WorkerId |-> 0]

Goes(t, c) == cycle' = [cycle EXCEPT ![t] = c]

(* A refresh that succeeded runs a check in its thread. *)
RefreshChecks ==
  /\ cycle["refresh"] = Off
  /\ Goes("refresh", [at |-> "start"])
  /\ UNCHANGED <<wall, life, stopping, heartbeat, succeeded>>

(* An exception ends the loop, and with it the process; the API logs it.   *)
Raise(t) == Goes(t, Off)

(* init_database is outside the try block: no heartbeat tells of it. *)
InitFails(t) ==
  /\ cycle[t].at = "start"
  /\ Raise(t)
  /\ UNCHANGED <<wall, life, stopping, heartbeat, succeeded>>

(* The tick and the queue; record_worker_heartbeat then reads the clock.   *)
RunCycle(t, status) ==
  /\ cycle[t].at = "start"
  /\ Goes(t, [at |-> "record", status |-> status, now |-> wall])
  /\ succeeded' = IF status = "healthy"
                  THEN [succeeded EXCEPT ![IdOf(t)] = wall] ELSE succeeded
  /\ UNCHANGED <<wall, life, stopping, heartbeat>>

(* An error is raised on; after a success the loop sleeps, unless it is    *)
(* to stop, and a thread of the API is done.                               *)
CycleOver(t) ==
  IF cycle[t].status = "error" \/ t # "loop" \/ stopping
  THEN Raise(t)
  ELSE Goes(t, [at |-> "asleep", due |-> wall + Interval])

Row(t) == [status |-> cycle[t].status, seen |-> cycle[t].now]

UpdateHeartbeat(t) ==
  /\ cycle[t].at = "record"
  /\ IF IdOf(t) \in DOMAIN heartbeat
     THEN heartbeat' = [heartbeat EXCEPT ![IdOf(t)] = Row(t)] /\ CycleOver(t)
     ELSE Goes(t, [cycle[t] EXCEPT !.at = "insert"]) /\ UNCHANGED heartbeat
  /\ UNCHANGED <<wall, life, stopping, succeeded>>

(* No row was updated.  PostgreSQL lets another thread of the process      *)
(* insert the id meanwhile, and this insert fails.                         *)
InsertHeartbeat(t) ==
  /\ cycle[t].at = "insert"
  /\ IF IdOf(t) \in DOMAIN heartbeat
     THEN Raise(t) /\ UNCHANGED heartbeat
     ELSE /\ heartbeat' = [i \in DOMAIN heartbeat \cup {IdOf(t)} |->
                             IF i = IdOf(t) THEN Row(t) ELSE heartbeat[i]]
          /\ CycleOver(t)
  /\ UNCHANGED <<wall, life, stopping, succeeded>>

(* The database fails while the heartbeat is written: that raises too. *)
RecordFails(t) ==
  /\ cycle[t].at \in {"record", "insert"}
  /\ Raise(t)
  /\ UNCHANGED <<wall, life, stopping, heartbeat, succeeded>>

(* The loop looks at the stop flag every second of its sleep. *)
LoopGoesOn ==
  /\ cycle["loop"].at = "asleep"
  /\ \/ stopping /\ Goes("loop", Off)
     \/ ~stopping /\ wall >= cycle["loop"].due /\ Goes("loop", [at |-> "start"])
  /\ UNCHANGED <<wall, life, stopping, heartbeat, succeeded>>

(* SIGINT or SIGTERM. *)
Signal ==
  /\ ~stopping /\ cycle["loop"] # Off
  /\ stopping' = TRUE
  /\ UNCHANGED <<wall, life, cycle, heartbeat, succeeded>>

(* A process is started again, with a new worker id; what its threads were *)
(* in the middle of is lost.                                               *)
StartAgain(p) ==
  /\ life[p] < MaxLife[p]
  /\ life' = [life EXCEPT ![p] = @ + 1]
  /\ cycle' = [t \in Thread |-> IF Owner[t] # p THEN cycle[t]
                                ELSE IF t = "refresh" THEN Off ELSE [at |-> "start"]]
  /\ stopping' = (stopping /\ p # "worker")
  /\ UNCHANGED <<wall, heartbeat, succeeded>>

WallTick ==
  /\ wall < HealthUntil
  /\ wall' = wall + 1
  /\ UNCHANGED <<life, cycle, stopping, heartbeat, succeeded>>

(* latest_worker_heartbeat: of any process; ties fall either way. *)
Latest == {i \in DOMAIN heartbeat : \A j \in DOMAIN heartbeat :
             heartbeat[j].seen <= heartbeat[i].seen}

FreshRow(row) == row.status = "healthy" /\ wall - row.seen <= StaleSeconds

(* Worker ids with which the endpoint can answer that all is well. *)
HealthyAnswers == {i \in Latest : FreshRow(heartbeat[i])}

HealthNext ==
  \/ \E t \in Thread :
       \/ InitFails(t) \/ UpdateHeartbeat(t) \/ InsertHeartbeat(t) \/ RecordFails(t)
       \/ \E status \in {"healthy", "error"} : RunCycle(t, status)
  \/ RefreshChecks \/ LoopGoesOn \/ Signal \/ WallTick
  \/ \E p \in {"worker", "api"} : StartAgain(p)

HealthSpec == HealthInit /\ [][HealthNext]_healthVars
--------------------------------------------------------------------------------
HealthTypeOK ==
  /\ DOMAIN heartbeat \subseteq WorkerId
  /\ \A i \in DOMAIN heartbeat : i[2] <= life[i[1]] /\ heartbeat[i].seen <= wall

(* Whatever threads share an id, overwrite each other's heartbeat or die   *)
(* before they write one: an answer of /health/worker that all is well     *)
(* names a process with a cycle that succeeded no earlier than the time it *)
(* names, which is no longer ago than the endpoint allows.                 *)
OkMeansServed ==
  \A i \in HealthyAnswers :
    /\ heartbeat[i].seen <= succeeded[i]
    /\ wall <= heartbeat[i].seen + StaleSeconds
================================================================================
