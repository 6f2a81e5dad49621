--------------------------------- MODULE MCLive ---------------------------------
(***************************************************************************)
(* The components with a fairness of their own, for checking what must     *)
(* happen in the end: the job queue of the workers, the refresh of the API *)
(* process and the quotes of the picker in the browser.  They share no     *)
(* state, so a behaviour chooses one of them, moves only that one and is   *)
(* fair to that one.                                                       *)
(***************************************************************************)
EXTENDS AlertJobs, RefreshController, SymbolPrices

CONSTANTS w1, w2, api

VARIABLE component

(* Two loops of one process; the payload of one row does not parse. *)
MCWorker == {w1, w2}
MCLockIdOf == [w \in MCWorker |-> api]
MCCorrupt == {1}

liveVars == <<component, queueVars, refreshVars, priceVars>>

LiveInit ==
  component \in {"queue", "refresh", "prices"} /\ QueueInit /\ RefreshInit /\ PricesInit

LiveNext ==
  \/ component = "queue" /\ QueueNext /\ UNCHANGED <<component, refreshVars, priceVars>>
  \/ component = "refresh" /\ RefreshNext /\ UNCHANGED <<component, queueVars, priceVars>>
  \/ component = "prices" /\ PricesNext /\ UNCHANGED <<component, queueVars, refreshVars>>

(* QueueFairness, RefreshFairness and PricesFairness, each of the          *)
(* component that moves.                                                   *)
LiveFairness ==
  /\ \A w \in Worker : /\ WF_queueVars(component = "queue" /\ ClaimBatch(w))
                      /\ WF_queueVars(component = "queue" /\ Report(w))
  /\ WF_queueVars(component = "queue" /\ Tick)
  /\ WF_refreshVars(component = "refresh" /\ CancelStep)
  /\ \A r \in Run : WF_refreshVars(component = "refresh" /\ TrackerStep(r))
  /\ WF_priceVars(component = "prices" /\ StartCall)
  /\ WF_priceVars(component = "prices" /\ WakeUp)
  /\ WF_priceVars(component = "prices" /\ BatchAnswered)
  /\ WF_priceVars(component = "prices" /\ ClockRuns)

LiveSpec == LiveInit /\ [][LiveNext]_liveVars /\ LiveFairness
================================================================================
