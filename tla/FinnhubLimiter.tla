----------------------------- MODULE FinnhubLimiter -----------------------------
(***************************************************************************)
(* The limiter of FinnhubClient (src/services/api_client.py): threads of a *)
(* fetch share a token bucket and a rolling budget of calls behind a lock, *)
(* which a thread keeps while it sleeps; a 429 answer refills the bucket   *)
(* from outside the lock.                                                  *)
(*                                                                         *)
(* Time is counted in units in which Rate tokens are added.  A sleep ends  *)
(* when its time has come or later; tokens and times are whole numbers.    *)
(***************************************************************************)
EXTENDS Naturals, Sequences, FiniteSetsExt

CONSTANTS Fetcher,        \* threads
          NoFetcher,      \* the lock is free
          CallsPerWindow, \* calls_per_minute, the capacity of the bucket
          Budget,         \* budget_max_calls
          WindowLength,   \* budget_window_sec
          Rate,           \* refill_rate
          MaxTries,       \* max_retries of _make_request
          FetchUntil      \* bound: the clock

ASSUME BudgetAssumption ==
  /\ CallsPerWindow \in Nat /\ Budget \in 1..CallsPerWindow
  /\ WindowLength \in Nat \ {0}
  /\ Rate \in Nat \ {0}
  /\ NoFetcher \notin Fetcher

VARIABLES
  clock,
  bucket,      \* tokens
  refilled,    \* last_refill
  callTimes,   \* call_times
  step,        \* thread -> where it is in wait_if_needed and _make_request
  wake,        \* thread -> time it has read, or before which it sleeps
  tries,       \* thread -> attempt
  lockOf,      \* thread that holds the lock, or NoFetcher
  recorded     \* history: times of all calls the limiter let through

limiterVars == <<clock, bucket, refilled, callTimes, step, wake, tries, lockOf, recorded>>

--------------------------------------------------------------------------------
(* Slips: variants of definitions below with a plausible bug in them.      *)
SlipKeepAged(t) == clock - t > WindowLength
--------------------------------------------------------------------------------
LimiterInit ==
  /\ clock = 0
  /\ bucket = IF CallsPerWindow \div 6 < 10 THEN CallsPerWindow \div 6 ELSE 10
  /\ refilled = 0
  /\ callTimes = <<>>
  /\ step = [f \in Fetcher |-> "idle"]
  /\ wake = [f \in Fetcher |-> 0]
  /\ tries = [f \in Fetcher |-> 0]
  /\ lockOf = NoFetcher
  /\ recorded = <<>>

Capped(n) == IF n > CallsPerWindow THEN CallsPerWindow ELSE n

(* Entries that left the window. *)
Aged(t) == clock - t >= WindowLength

(* Entries are popped from the left up to the first that is in the window. *)
Purged ==
  LET kept == {i \in DOMAIN callTimes : ~Aged(callTimes[i])}
  IN  IF kept = {} THEN <<>> ELSE SubSeq(callTimes, Min(kept), Len(callTimes))

Moves(f, s) == step' = [step EXCEPT ![f] = s]

Sleeps(f, s, n) == Moves(f, s) /\ wake' = [wake EXCEPT ![f] = clock + n]

(* wait_if_needed: the lock, the purge, and a sleep when the budget is     *)
(* spent, until the oldest call leaves the window.                         *)
EnterLimiter(f) ==
  /\ step[f] = "idle"
  /\ lockOf = NoFetcher
  /\ lockOf' = f
  /\ callTimes' = Purged
  /\ IF Len(Purged) >= Budget
     THEN Sleeps(f, "spent", WindowLength - (clock - Head(Purged)))
     ELSE Moves(f, "budgeted") /\ UNCHANGED wake
  /\ UNCHANGED <<clock, bucket, refilled, tries, recorded>>

BudgetReturns(f) ==
  /\ step[f] = "spent" /\ clock >= wake[f]
  /\ callTimes' = Purged
  /\ Moves(f, "budgeted")
  /\ UNCHANGED <<clock, bucket, refilled, wake, tries, lockOf, recorded>>

Refill == Capped(bucket + (clock - refilled) * Rate)

(* Tokens are added for the time that passed; with none, wait for one. *)
TakeToken(f) ==
  /\ step[f] = "budgeted"
  /\ refilled' = clock
  /\ bucket' = Refill
  /\ IF Refill < 1
     THEN Sleeps(f, "dry", 1)
     ELSE Sleeps(f, "take", 0)
  /\ UNCHANGED <<clock, callTimes, tries, lockOf, recorded>>

TokenReturns(f) ==
  /\ step[f] = "dry" /\ clock >= wake[f]
  /\ refilled' = clock
  /\ bucket' = Refill
  /\ Sleeps(f, "take", 0)
  /\ UNCHANGED <<clock, callTimes, tries, lockOf, recorded>>

(* The token is spent, the call recorded at the time the limiter has read, *)
(* and the lock released.                                                  *)
LetCall(f) ==
  /\ step[f] = "take"
  /\ bucket' = IF bucket > 0 THEN bucket - 1 ELSE 0
  /\ callTimes' = Append(callTimes, wake[f])
  /\ recorded' = Append(recorded, wake[f])
  /\ lockOf' = NoFetcher
  /\ Moves(f, "request")
  /\ UNCHANGED <<clock, refilled, wake, tries>>

(* The request is answered, or fails for good. *)
Answered(f) ==
  /\ step[f] = "request"
  /\ Moves(f, "idle")
  /\ tries' = [tries EXCEPT ![f] = 0]
  /\ UNCHANGED <<clock, bucket, refilled, callTimes, wake, lockOf, recorded>>

(* A 429 or a failed connection is tried again after a sleep, without      *)
(* another look at the limiter.                                            *)
RetryLater(f) ==
  /\ step[f] = "request" /\ tries[f] + 1 < MaxTries
  /\ tries' = [tries EXCEPT ![f] = @ + 1]
  /\ \E s \in {"blocked", "backoff"} : Sleeps(f, s, 1)
  /\ UNCHANGED <<clock, bucket, refilled, callTimes, lockOf, recorded>>

Retry(f) ==
  /\ clock >= wake[f]
  /\ \/ /\ step[f] = "blocked"
        /\ bucket' = CallsPerWindow
        /\ refilled' = clock
     \/ step[f] = "backoff" /\ UNCHANGED <<bucket, refilled>>
  /\ Moves(f, "request")
  /\ UNCHANGED <<clock, callTimes, wake, tries, lockOf, recorded>>

TimePasses ==
  /\ clock < FetchUntil
  /\ clock' = clock + 1
  /\ UNCHANGED <<bucket, refilled, callTimes, step, wake, tries, lockOf, recorded>>

LimiterNext ==
  \/ \E f \in Fetcher :
       \/ EnterLimiter(f) \/ BudgetReturns(f) \/ TakeToken(f) \/ TokenReturns(f)
       \/ LetCall(f) \/ Answered(f) \/ RetryLater(f) \/ Retry(f)
  \/ TimePasses

LimiterSpec == LimiterInit /\ [][LimiterNext]_limiterVars
--------------------------------------------------------------------------------
LimiterTypeOK ==
  /\ bucket \in 0..CallsPerWindow
  /\ refilled <= clock
  /\ Len(callTimes) <= Budget
  /\ \A f \in Fetcher : lockOf = f <=> step[f] \in {"spent", "budgeted", "dry", "take"}

(* No window of the rolling budget holds more calls than the budget: the   *)
(* comment in wait_if_needed tells of the extra call that `>` let through. *)
(* Threads that wait at the lock, sleeps that end late and buckets that    *)
(* a 429 fills up from outside the lock do not change it.                  *)
WindowWithinBudget ==
  \A i \in DOMAIN recorded :
    Cardinality({j \in DOMAIN recorded :
                   recorded[j] <= recorded[i] /\ recorded[i] - recorded[j] < WindowLength})
      <= Budget
================================================================================
