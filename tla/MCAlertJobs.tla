------------------------------ MODULE MCAlertJobs ------------------------------
(* Instance of AlertJobs for model checking: two loops of one process and  *)
(* one of another, rows of which one may be corrupt, batches of two.       *)
EXTENDS AlertJobs, TLC

CONSTANTS w1, w2, w3, api, worker

MCWorker == {w1, w2, w3}
MCLockId == {api, worker}
MCLockIdOf == [w \in MCWorker |-> IF w = w3 THEN worker ELSE api]
MCCorrupt == {2}
SiblingSymmetry == Permutations({w1, w2})
================================================================================
