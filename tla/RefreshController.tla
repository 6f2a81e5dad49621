--------------------------- MODULE RefreshController ---------------------------
(***************************************************************************)
(* The dashboard's data refresh (dashboard/backend/api/refresh.py): POST   *)
(* /refresh starts a tracker thread that runs the CLI in a child process   *)
(* and waits for it, POST /refresh/cancel asks it to stop.  The handlers   *)
(* are coroutines without an await, so the event loop runs one at a time,  *)
(* but the tracker thread runs between any two of their statements.        *)
(*                                                                         *)
(* A step is one access to what threads share: refresh_status, the cancel  *)
(* event, _refresh_process and the child itself.  Accesses that commute    *)
(* with everything the other thread may do between them are one step.      *)
(* The progress texts, which only repeat last_status, are left out.        *)
(***************************************************************************)
EXTENDS Integers

CONSTANTS MaxRuns,  \* bound: refreshes started
          MaxPolls  \* polls of the child before REFRESH_TIMEOUT_SECONDS is over

ASSUME RefreshAssumption == MaxRuns \in Nat \ {0} /\ MaxPolls \in Nat \ {0}

Run == 1..MaxRuns
NoRun == 0

VARIABLES
  isRunning,    \* refresh_status["is_running"]
  lastStatus,   \* refresh_status["last_status"]
  lastRefresh,  \* the run that stamped refresh_status["last_refresh"]
  cancelEvent,  \* _refresh_cancel_event
  process,      \* _refresh_process: the run whose child it is
  runs,         \* tracker threads started
  tracker,      \* run -> where its tracker thread is
  polls,        \* run -> polls of the child so far
  child,        \* run -> its child process
  handler,      \* where the cancel the event loop is in is, "free" if in none
  target,       \* the child that cancel waits for
  cancel        \* history, run -> when a cancel set the event during it

trackerVars == <<tracker, polls>>
cancelVars == <<handler, target, cancel>>
statusVars == <<isRunning, lastStatus, lastRefresh>>
refreshVars == <<statusVars, cancelEvent, process, runs, trackerVars, child, cancelVars>>

RefreshStatus == {"idle", "running", "success", "error", "timeout", "cancelled"}
Live == {"running", "terminated", "killed"}    \* terminated, killed: the signal was sent
Exited == {"exit0", "exitN"}                   \* by return code
Early == {"begin", "clear"}
Watching == {"spawn", "loop", "poll", "reap", "reapKilled", "check"}
Ending == {"verdict", "alerts", "final", "release"}
Active == Early \cup Watching \cup Ending

RefreshTypeOK ==
  /\ isRunning \in BOOLEAN
  /\ lastStatus \in RefreshStatus
  /\ lastRefresh \in Run \cup {NoRun}
  /\ cancelEvent \in BOOLEAN
  /\ process \in Run \cup {NoRun}
  /\ runs \in 0..MaxRuns
  /\ tracker \in [Run -> Active \cup {"none", "done"}]
  /\ polls \in [Run -> 0..MaxPolls]
  /\ child \in [Run -> Live \cup Exited \cup {"none"}]
  /\ handler \in {"free", "status", "set", "read", "poll", "terminate", "wait",
                  "waiting", "kill"}
  /\ target \in Run \cup {NoRun}
  /\ cancel \in [Run -> {"none", "early", "timely", "late"}]

RefreshInit ==
  /\ isRunning = FALSE /\ lastStatus = "idle" /\ lastRefresh = NoRun
  /\ cancelEvent = FALSE /\ process = NoRun /\ runs = 0
  /\ tracker = [r \in Run |-> "none"]
  /\ polls = [r \in Run |-> 0]
  /\ child = [r \in Run |-> "none"]
  /\ handler = "free" /\ target = NoRun
  /\ cancel = [r \in Run |-> "none"]

--------------------------------------------------------------------------------
At(r, s) == tracker[r] = s
Goto(r, s) == tracker' = [tracker EXCEPT ![r] = s]

(* Popen.terminate and Popen.kill do nothing to a child that has exited.   *)
Terminated(c) == IF c = "running" THEN "terminated" ELSE c
Killed(c) == IF c \in Live THEN "killed" ELSE c
Terminate(r) == child' = [child EXCEPT ![r] = Terminated(@)]
Kill(r) == child' = [child EXCEPT ![r] = Killed(@)]

(* When, seen from the run's own reads of the event, a cancel arrives.     *)
Arrival(r) ==
  IF tracker[r] \in Watching \/ cancel[r] = "timely" THEN "timely"
  ELSE IF tracker[r] \in Early THEN "early" ELSE "late"

--------------------------------------------------------------------------------
(* Slips: variants of definitions below with a plausible bug in them.      *)
SlipKeepEvent(r) ==
  /\ At(r, "clear") /\ Goto(r, "spawn")
  /\ UNCHANGED <<statusVars, cancelEvent, process, runs, polls, child, cancelVars>>
SlipReleaseOnCancel ==
  /\ handler = "set"
  /\ cancelEvent' = TRUE /\ handler' = "read" /\ isRunning' = FALSE
  /\ cancel' = [cancel EXCEPT ![runs] = Arrival(runs)]
  /\ UNCHANGED <<lastStatus, lastRefresh, process, runs, trackerVars, child, target>>
SlipSkipCheck(r) ==
  /\ At(r, "check") /\ Goto(r, "verdict")
  /\ UNCHANGED <<statusVars, cancelEvent, process, runs, polls, child, cancelVars>>
SlipKeepPolling(r) ==
  /\ At(r, "poll") /\ child[process] \in Live
  /\ Goto(r, "loop")
  /\ UNCHANGED <<statusVars, cancelEvent, process, runs, polls, child, cancelVars>>
SlipIgnoreReturncode(r) ==
  /\ At(r, "verdict") /\ lastStatus # "timeout"
  /\ Goto(r, "alerts")
  /\ lastStatus' = "success" /\ lastRefresh' = r
  /\ UNCHANGED <<isRunning, cancelEvent, process, runs, polls, child, cancelVars>>
SlipUntimedWait == FALSE
--------------------------------------------------------------------------------
(* trigger_refresh.  Nothing runs between its check and its writes that    *)
(* could change the outcome: with is_running FALSE there is no tracker,    *)
(* and other handlers wait for the event loop, start lock or not.          *)
TriggerRefresh ==
  /\ handler = "free" /\ ~isRunning /\ runs < MaxRuns
  /\ isRunning' = TRUE /\ lastStatus' = "running"
  /\ runs' = runs + 1 /\ Goto(runs + 1, "begin")
  /\ UNCHANGED <<lastRefresh, cancelEvent, process, polls, child, cancelVars>>

(* ... with no Finnhub key in the environment or in .env. *)
TriggerWithoutKey ==
  /\ handler = "free" /\ ~isRunning
  /\ lastStatus' = "error"
  /\ UNCHANGED <<isRunning, lastRefresh, cancelEvent, process, runs, trackerVars, child,
                 cancelVars>>

--------------------------------------------------------------------------------
(* run_daily_tracker.  A first write of the status, then the event is reset. *)
TrackerBegins(r) ==
  /\ At(r, "begin") /\ Goto(r, "clear")
  /\ isRunning' = TRUE /\ lastStatus' = "running"
  /\ UNCHANGED <<lastRefresh, cancelEvent, process, runs, polls, child, cancelVars>>

ClearEvent(r) ==
  /\ At(r, "clear") /\ Goto(r, "spawn")
  /\ cancelEvent' = FALSE
  /\ UNCHANGED <<statusVars, process, runs, polls, child, cancelVars>>

Spawn(r) ==
  /\ At(r, "spawn") /\ Goto(r, "loop")
  /\ child' = [child EXCEPT ![r] = "running"] /\ process' = r
  /\ UNCHANGED <<statusVars, cancelEvent, runs, polls, cancelVars>>

(* Anything up to and including Popen raises. *)
SpawnFails(r) ==
  /\ At(r, "spawn") /\ Goto(r, "final")
  /\ lastStatus' = "error"
  /\ UNCHANGED <<isRunning, lastRefresh, cancelEvent, process, runs, polls, child, cancelVars>>

(* The loop: first the event, then the child, then the clock. *)
LoopCancelled(r) ==
  /\ At(r, "loop") /\ cancelEvent
  /\ Goto(r, "reap")
  /\ lastStatus' = "cancelled" /\ Terminate(process)
  /\ UNCHANGED <<isRunning, lastRefresh, cancelEvent, process, runs, polls, cancelVars>>

LoopNotCancelled(r) ==
  /\ At(r, "loop") /\ ~cancelEvent
  /\ Goto(r, "poll")
  /\ UNCHANGED <<statusVars, cancelEvent, process, runs, polls, child, cancelVars>>

PollExited(r) ==
  /\ At(r, "poll") /\ child[process] \in Exited
  /\ Goto(r, "reap")
  /\ UNCHANGED <<statusVars, cancelEvent, process, runs, polls, child, cancelVars>>

PollAgain(r) ==
  /\ At(r, "poll") /\ child[process] \in Live /\ polls[r] < MaxPolls
  /\ Goto(r, "loop") /\ polls' = [polls EXCEPT ![r] = @ + 1]
  /\ UNCHANGED <<statusVars, cancelEvent, process, runs, child, cancelVars>>

(* The machine may be slow: the time can be over after any number of polls. *)
PollTimeout(r) ==
  /\ At(r, "poll") /\ child[process] \in Live
  /\ Goto(r, "reap")
  /\ lastStatus' = "timeout" /\ Terminate(process)
  /\ UNCHANGED <<isRunning, lastRefresh, cancelEvent, process, runs, polls, cancelVars>>

(* wait(timeout=30), and after a kill wait(timeout=10), which may raise. *)
Reaped(r) ==
  /\ tracker[r] \in {"reap", "reapKilled"} /\ child[process] \in Exited
  /\ Goto(r, "check")
  /\ UNCHANGED <<statusVars, cancelEvent, process, runs, polls, child, cancelVars>>

ReapExpires(r) ==
  /\ At(r, "reap") /\ child[process] \in Live
  /\ Goto(r, "reapKilled") /\ Kill(process)
  /\ UNCHANGED <<statusVars, cancelEvent, process, runs, polls, cancelVars>>

ReapKilledExpires(r) ==
  /\ At(r, "reapKilled") /\ child[process] \in Live
  /\ Goto(r, "final")
  /\ lastStatus' = "error"
  /\ UNCHANGED <<isRunning, lastRefresh, cancelEvent, process, runs, polls, child, cancelVars>>

(* The event is looked at once more, and never again in this run. *)
CheckCancelled(r) ==
  /\ At(r, "check") /\ cancelEvent
  /\ Goto(r, "final")
  /\ lastStatus' = "cancelled"
  /\ UNCHANGED <<isRunning, lastRefresh, cancelEvent, process, runs, polls, child, cancelVars>>

CheckNotCancelled(r) ==
  /\ At(r, "check") /\ ~cancelEvent
  /\ Goto(r, "verdict")
  /\ UNCHANGED <<statusVars, cancelEvent, process, runs, polls, child, cancelVars>>

VerdictTimeout(r) ==
  /\ At(r, "verdict") /\ lastStatus = "timeout"
  /\ Goto(r, "final")
  /\ UNCHANGED <<statusVars, cancelEvent, process, runs, polls, child, cancelVars>>

VerdictSuccess(r) ==
  /\ At(r, "verdict") /\ lastStatus # "timeout" /\ child[process] = "exit0"
  /\ Goto(r, "alerts")
  /\ lastStatus' = "success" /\ lastRefresh' = r
  /\ UNCHANGED <<isRunning, cancelEvent, process, runs, polls, child, cancelVars>>

VerdictError(r) ==
  /\ At(r, "verdict") /\ lastStatus # "timeout" /\ child[process] # "exit0"
  /\ Goto(r, "final")
  /\ lastStatus' = "error"
  /\ UNCHANGED <<isRunning, lastRefresh, cancelEvent, process, runs, polls, child, cancelVars>>

(* run_check_once, whatever comes of it (JobProcessor says what it does). *)
CheckAlerts(r) ==
  /\ At(r, "alerts") /\ Goto(r, "final")
  /\ UNCHANGED <<statusVars, cancelEvent, process, runs, polls, child, cancelVars>>

ForgetProcess(r) ==
  /\ At(r, "final") /\ Goto(r, "release")
  /\ process' = NoRun
  /\ UNCHANGED <<statusVars, cancelEvent, runs, polls, child, cancelVars>>

FreeSlot(r) ==
  /\ At(r, "release") /\ Goto(r, "done")
  /\ isRunning' = FALSE
  /\ UNCHANGED <<lastStatus, lastRefresh, cancelEvent, process, runs, polls, child, cancelVars>>

TrackerStep(r) ==
  \/ TrackerBegins(r) \/ ClearEvent(r) \/ Spawn(r) \/ SpawnFails(r)
  \/ LoopCancelled(r) \/ LoopNotCancelled(r)
  \/ PollExited(r) \/ PollAgain(r) \/ PollTimeout(r)
  \/ Reaped(r) \/ ReapExpires(r) \/ ReapKilledExpires(r)
  \/ CheckCancelled(r) \/ CheckNotCancelled(r)
  \/ VerdictTimeout(r) \/ VerdictSuccess(r) \/ VerdictError(r)
  \/ CheckAlerts(r) \/ ForgetProcess(r) \/ FreeSlot(r)

--------------------------------------------------------------------------------
(* The child finishes, successfully or not, of itself or of a signal.  It  *)
(* may have finished just before a signal reaches it.                      *)
ChildExits(r) ==
  /\ child[r] \in Live
  /\ \E c \in Exited : child' = [child EXCEPT ![r] = c]
  /\ UNCHANGED <<statusVars, cancelEvent, process, runs, trackerVars, cancelVars>>

--------------------------------------------------------------------------------
(* cancel_refresh.  Without a refresh it answers 400 and changes nothing.  *)
CancelStarts ==
  /\ handler = "free" /\ isRunning
  /\ handler' = "status"
  /\ UNCHANGED <<statusVars, cancelEvent, process, runs, trackerVars, child, target, cancel>>

CancelWritesStatus ==
  /\ handler = "status" /\ handler' = "set"
  /\ lastStatus' = "cancelled"
  /\ UNCHANGED <<isRunning, lastRefresh, cancelEvent, process, runs, trackerVars, child, target,
                 cancel>>

CancelSetsEvent ==
  /\ handler = "set" /\ handler' = "read"
  /\ cancelEvent' = TRUE
  /\ cancel' = [cancel EXCEPT ![runs] = Arrival(runs)]
  /\ UNCHANGED <<statusVars, process, runs, trackerVars, child, target>>

(* _refresh_process is read anew at each use, by then it may be None: the  *)
(* first read answers, at the others the request fails on None.            *)
CancelFindsNoProcess ==
  /\ handler \in {"read", "poll", "terminate", "wait", "kill"} /\ process = NoRun
  /\ handler' = "free" /\ target' = NoRun
  /\ UNCHANGED <<statusVars, cancelEvent, process, runs, trackerVars, child, cancel>>

CancelReadsProcess ==
  /\ handler = "read" /\ process # NoRun
  /\ handler' = "poll"
  /\ UNCHANGED <<statusVars, cancelEvent, process, runs, trackerVars, child, target, cancel>>

CancelPolls ==
  /\ handler = "poll" /\ process # NoRun
  /\ handler' = IF child[process] \in Live THEN "terminate" ELSE "free"
  /\ UNCHANGED <<statusVars, cancelEvent, process, runs, trackerVars, child, target, cancel>>

CancelTerminates ==
  /\ handler = "terminate" /\ process # NoRun
  /\ handler' = "wait" /\ Terminate(process)
  /\ UNCHANGED <<statusVars, cancelEvent, process, runs, trackerVars, target, cancel>>

CancelWaits ==
  /\ handler = "wait" /\ process # NoRun
  /\ handler' = "waiting" /\ target' = process
  /\ UNCHANGED <<statusVars, cancelEvent, process, runs, trackerVars, child, cancel>>

CancelWaitDone ==
  /\ handler = "waiting" /\ child[target] \in Exited
  /\ handler' = "free" /\ target' = NoRun
  /\ UNCHANGED <<statusVars, cancelEvent, process, runs, trackerVars, child, cancel>>

CancelWaitExpires ==
  /\ handler = "waiting" /\ child[target] \in Live
  /\ handler' = "kill" /\ target' = NoRun
  /\ UNCHANGED <<statusVars, cancelEvent, process, runs, trackerVars, child, cancel>>

CancelKills ==
  /\ handler = "kill" /\ process # NoRun
  /\ handler' = "free" /\ Kill(process)
  /\ UNCHANGED <<statusVars, cancelEvent, process, runs, trackerVars, target, cancel>>

CancelStep ==
  \/ CancelWritesStatus \/ CancelSetsEvent \/ CancelFindsNoProcess
  \/ CancelReadsProcess \/ CancelPolls \/ CancelTerminates
  \/ CancelWaits \/ CancelWaitDone \/ CancelWaitExpires \/ CancelKills

--------------------------------------------------------------------------------
RefreshNext ==
  \/ TriggerRefresh \/ TriggerWithoutKey
  \/ CancelStarts \/ CancelStep
  \/ \E r \in Run : TrackerStep(r) \/ ChildExits(r)

RefreshSpec == RefreshInit /\ [][RefreshNext]_refreshVars

(* The tracker thread and the event loop are scheduled, and every wait of  *)
(* theirs has a timeout; nothing is assumed of clients or of the child.    *)
RefreshFairness ==
  /\ WF_refreshVars(CancelStep)
  /\ \A r \in Run : WF_refreshVars(TrackerStep(r))

RefreshLiveSpec == RefreshSpec /\ RefreshFairness

--------------------------------------------------------------------------------
(* A child nobody has killed is the one _refresh_process names, and the    *)
(* refresh slot is taken as long as it runs: no orphan is left behind and  *)
(* no second refresh starts beside it (refresh.py:42, 171, 342).           *)
LiveChildTracked ==
  \A r \in Run : child[r] \in Live \ {"killed"} => isRunning /\ process = r

(* A cancel that arrives after the run cleared the event and before its    *)
(* last look at it keeps the run from stamping last_refresh and from       *)
(* checking alerts, and the run ends as cancelled, or as an error when the *)
(* child cannot even be killed, never as a timeout.                        *)
TimelyCancelHonoured ==
  \A r \in Run : cancel[r] = "timely" =>
    /\ lastRefresh # r
    /\ tracker[r] # "alerts"
    /\ tracker[r] \in {"final", "release"} => lastStatus \in {"cancelled", "error"}

(* What is reported once nothing runs is how the last refresh ended: never *)
(* "running", "success" only for a refresh whose child exited with 0, and  *)
(* "timeout" only for one that brought no data.                            *)
SettledStatusTrue ==
  ~isRunning =>
    /\ lastStatus # "running"
    /\ lastStatus = "success" => lastRefresh = runs /\ child[runs] = "exit0"
    /\ lastStatus = "timeout" => lastRefresh # runs

(* What the proofs rest on.  Runs do not overlap: earlier ones are done,   *)
(* later ones have not begun.                                              *)
OneAtATime ==
  \A r \in Run :
    /\ r > runs => tracker[r] = "none" /\ child[r] = "none"
    /\ r < runs => tracker[r] = "done"
    /\ r = runs => tracker[r] # "none"
    /\ tracker[r] \in Active => isRunning

(* The running tracker owns _refresh_process from Popen to its finally,    *)
(* and leaves the wait only when the child exited or was killed.           *)
OwnsChild ==
  \A r \in Run :
    /\ tracker[r] \in {"loop", "poll", "reap", "reapKilled", "check", "verdict", "alerts"}
         => process = r
    /\ child[r] \in Live \ {"killed"} => tracker[r] \in {"loop", "poll", "reap"}

(* A run in reach of a cancel sees the event exactly when one was sent to  *)
(* it, and such a run turns away from success.                             *)
EventIsMine ==
  \A r \in Run :
    /\ tracker[r] \in Watching => (cancelEvent <=> cancel[r] = "timely")
    /\ cancel[r] = "timely" => tracker[r] \in Watching \cup {"final", "release", "done"}
    /\ lastRefresh = r => tracker[r] \in {"alerts", "final", "release", "done"}

(* The status a run leaves is written before it lets go of the slot.       *)
StatusWritten ==
  /\ \A r \in Run : tracker[r] \in {"alerts", "final", "release"} => lastStatus # "running"
  /\ lastStatus = "success" => runs > 0 /\ lastRefresh = runs /\ child[runs] = "exit0"
  /\ lastStatus = "timeout" => lastRefresh # runs
  /\ lastStatus = "running" => isRunning

RefreshInv ==
  /\ RefreshTypeOK /\ OneAtATime /\ OwnsChild /\ EventIsMine
  /\ TimelyCancelHonoured /\ StatusWritten

(* The event outlives the run it was set for; a run ends itself as         *)
(* cancelled only on a cancel that was sent while it could see it.         *)
CancelAddressed ==
  [][\A r \in Run : LoopCancelled(r) \/ CheckCancelled(r) => cancel[r] = "timely"]_refreshVars

(* A refresh ends, also when its child hangs and survives every signal:    *)
(* the slot cannot be blocked for ever.                                    *)
RefreshEnds == isRunning ~> ~isRunning

(* A cancel request gives the event loop back. *)
CancelReturns == handler # "free" ~> handler = "free"

(* "Cancel the current refresh job if running.": a cancel accepted before  *)
(* the run has cleared the event keeps it from bringing data too.          *)
EarlyCancelHonoured ==
  \A r \in Run : cancel[r] = "early" => lastRefresh # r
================================================================================
