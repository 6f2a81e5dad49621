---------------------------- MODULE MCJobProcessor -----------------------------
(* Instances of JobProcessor for model checking. *)
EXTENDS JobProcessor, TLC

CONSTANTS w1, w2, a1, a2, api, worker

MCWorker == {w1, w2}
MCOneWorker == {w1}
MCLockId == {api, worker}
MCApart == [w \in MCWorker |-> IF w = w1 THEN api ELSE worker]
MCSiblings == [w \in MCWorker |-> api]
MCOneId == [w \in MCOneWorker |-> worker]
MCAlert == {a1}
MCConfig == {[enabled |-> TRUE, cooldown |-> 0]}
MCCooldown == {[enabled |-> TRUE, cooldown |-> 2]}
MCAlerts == {a1, a2}
MCNoCorrupt == {}
WorkerSymmetry == Permutations(MCWorker)

(* Two processes trade places: their loops and their identifiers at once. *)
JointSwap == [x \in MCWorker \cup MCLockId |->
                CASE x = w1 -> w2 [] x = w2 -> w1 [] x = api -> worker [] OTHER -> api]
ProcessSymmetry == {[x \in MCWorker \cup MCLockId |-> x], JointSwap}
================================================================================
