----------------------------- MODULE RecoveryProbe -----------------------------
(***************************************************************************)
(* A rehearsal of a recovery beside WorkerHealth: an operator notes the    *)
(* worker id that /health/worker names, starts the worker again and waits  *)
(* until the endpoint names another one (scripts/check_worker_health.py).  *)
(***************************************************************************)
EXTENDS WorkerHealth

VARIABLE rehearsal   \* id captured, starts of the worker then, id that passed

probeVars == <<healthVars, rehearsal>>

NoWorkerId == <<"none", 0>>
--------------------------------------------------------------------------------
ProbeInit ==
  /\ HealthInit
  /\ rehearsal = [captured |-> NoWorkerId, before |-> 0, passed |-> NoWorkerId]

(* check_worker_health.py --print-worker-id ...                            *)
CaptureId(i) ==
  /\ rehearsal.captured = NoWorkerId /\ i \in HealthyAnswers
  /\ rehearsal' = [rehearsal EXCEPT !.captured = i, !.before = life["worker"]]
  /\ UNCHANGED healthVars

(* ... and, when the worker was started again, --previous-worker-id.       *)
ProbeRecovery(i) ==
  /\ rehearsal.captured # NoWorkerId /\ rehearsal.passed = NoWorkerId
  /\ life["worker"] > rehearsal.before
  /\ i \in HealthyAnswers /\ i # rehearsal.captured
  /\ rehearsal' = [rehearsal EXCEPT !.passed = i]
  /\ UNCHANGED healthVars

ProbeNext ==
  \/ HealthNext /\ UNCHANGED rehearsal
  \/ \E i \in WorkerId : CaptureId(i) \/ ProbeRecovery(i)

ProbeSpec == ProbeInit /\ [][ProbeNext]_probeVars
--------------------------------------------------------------------------------
(* tests/scripts/test_staging_compose_health_probes.py: the rehearsal      *)
(* requires a success from the restarted worker.                           *)
RecoveryIsNewWorker ==
  rehearsal.passed # NoWorkerId =>
    rehearsal.passed[1] = "worker" /\ rehearsal.passed[2] > rehearsal.before
================================================================================
