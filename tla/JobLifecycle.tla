----------------------------- MODULE JobLifecycle -----------------------------
(***************************************************************************)
(* What the alert job queue promises about a job, whoever works on it:     *)
(* a submitted job stays open until it is settled, is tried at most        *)
(* TryLimit times, is completed only after a try, is given up only when    *)
(* MaxAttempts tries were made or its payload cannot be read, and once     *)
(* settled never changes again.  Leases, workers, batches and clocks are   *)
(* absent: AlertJobs is shown to implement this specification.             *)
(***************************************************************************)
EXTENDS Naturals

CONSTANTS Job,          \* the jobs that may be submitted
          MaxAttempts,  \* tries after which a job may be given up
          TryLimit,     \* tries after which it is not tried again
          Unreadable    \* jobs whose stored payload does not parse

VARIABLES phase, tries

lifecycleVars == <<phase, tries>>

LifecycleTypeOK ==
  /\ phase \in [Job -> {"absent", "open", "completed", "failed"}]
  /\ tries \in [Job -> 0..TryLimit]

LifecycleInit ==
  /\ phase = [j \in Job |-> "absent"]
  /\ tries = [j \in Job |-> 0]

Same(j) == phase'[j] = phase[j] /\ tries'[j] = tries[j]

Submit(j) == phase[j] = "absent" /\ phase'[j] = "open" /\ tries'[j] = tries[j]

Try(j) ==
  /\ phase[j] = "open" /\ tries[j] < TryLimit
  /\ phase'[j] = "open" /\ tries'[j] = tries[j] + 1

Finish(j) ==
  /\ phase[j] = "open" /\ tries[j] > 0
  /\ phase'[j] = "completed" /\ tries'[j] = tries[j]

GiveUp(j) ==
  /\ phase[j] = "open" /\ tries[j] >= MaxAttempts
  /\ phase'[j] = "failed" /\ tries'[j] = tries[j]

Reject(j) ==
  /\ phase[j] = "open" /\ j \in Unreadable /\ tries[j] < TryLimit
  /\ phase'[j] = "failed" /\ tries'[j] = tries[j] + 1

(* One transaction of the queue may move several jobs at once. *)
LifecycleNext ==
  /\ phase' \in [Job -> {"absent", "open", "completed", "failed"}]
  /\ tries' \in [Job -> 0..TryLimit]
  /\ \A j \in Job :
       Same(j) \/ Submit(j) \/ Try(j) \/ Finish(j) \/ GiveUp(j) \/ Reject(j)

LifecycleSpec == LifecycleInit /\ [][LifecycleNext]_lifecycleVars
================================================================================
