--------------------------- MODULE MarketDataProofs ---------------------------
(*****************************************************************************)
(* Data from the provider to the report: the client's budget of calls, the   *)
(* collection of quotes, the tables of snapshots and the samples of a        *)
(* backtest, for any threads, symbols, files and calendars.                  *)
(*****************************************************************************)
EXTENDS FinnhubLimiter, Collection, MarketStore, Backtest, DataLemmas
--------------------------------------------------------------------------------
(*****************************************************************************)
(* The budget of the Finnhub client. No window holds more calls than the     *)
(* budget, for any threads, budget and window: the calls the deque forgot    *)
(* have left the window, and a thread behind the budget's wait has room for  *)
(* one.                                                                      *)
(*****************************************************************************)

(* The entries of the deque are the latest calls that were recorded.       *)
Forgotten == Len(recorded) - Len(callTimes)

LimiterStep ==
  {"idle", "spent", "budgeted", "dry", "take", "request", "blocked", "backoff"}

AtLimiter(f) == step[f] \in {"spent", "budgeted", "dry", "take"}

DequeIsSuffix ==
  /\ Len(callTimes) <= Len(recorded) /\ Len(callTimes) <= Budget
  /\ \A i \in 1..Len(callTimes) : callTimes[i] = recorded[Forgotten + i]

(* At t no recorded call is still to come, and those the deque forgot have *)
(* left the window.                                                        *)
RecordedBefore(t) ==
  /\ \A i \in 1..Len(recorded) : recorded[i] <= t
  /\ \A i \in 1..Forgotten : recorded[i] + WindowLength <= t

RecordedInOrder ==
  \A i, j \in 1..Len(recorded) : i <= j => recorded[i] <= recorded[j]

HasRoom(f) ==
  /\ AtLimiter(f) => lockOf = f
  /\ step[f] \in {"budgeted", "dry", "take"} => Len(callTimes) < Budget
  /\ step[f] = "spent" => callTimes # <<>> /\ wake[f] = callTimes[1] + WindowLength
  /\ step[f] = "take" => wake[f] <= clock /\ RecordedBefore(wake[f])

LimiterInv ==
  /\ clock \in Int /\ callTimes \in Seq(Int) /\ recorded \in Seq(Int)
  /\ wake \in [Fetcher -> Int] /\ step \in [Fetcher -> LimiterStep]
  /\ DequeIsSuffix
  /\ RecordedBefore(clock)
  /\ RecordedInOrder
  /\ \A f \in Fetcher : HasRoom(f)
  /\ WindowWithinBudget

(* Min of positions is the least one. *)
LEMMA LeastPosition ==
  ASSUME NEW n \in Nat, NEW S \in SUBSET (1..n), S # {}
  PROVE  Min(S) \in S /\ \A i \in S : Min(S) <= i
<1>1. S \in SUBSET Nat
  OBVIOUS
<1>2. PICK x \in S : \A y \in S : x <= y
  BY <1>1, LeastNat
<1> QED
  BY <1>2 DEF Min

(* A purge drops aged entries from the left and stops at one that is not.  *)
LEMMA PurgeDropsAged ==
  ASSUME callTimes \in Seq(Int), clock \in Int
  PROVE  \E n \in 0..Len(callTimes) :
           /\ Purged \in Seq(Int) /\ Len(Purged) = Len(callTimes) - n
           /\ \A i \in 1..Len(Purged) : Purged[i] = callTimes[n + i]
           /\ \A i \in 1..n : Aged(callTimes[i])
           /\ n < Len(callTimes) => ~Aged(callTimes[n + 1])
<1> DEFINE C == Len(callTimes)
           kept == {i \in DOMAIN callTimes : ~Aged(callTimes[i])}
<1>1. C \in Nat /\ DOMAIN callTimes = 1..C /\ \A i \in 1..C : callTimes[i] \in Int
  BY LenProperties, ElementOfSeq
<1>2. CASE kept = {}
  <2>1. Purged = <<>> /\ Purged \in Seq(Int) /\ Len(Purged) = 0
    BY <1>2 DEF Purged
  <2>2. \A i \in 1..C : Aged(callTimes[i])
    BY <1>1, <1>2
  <2> HIDE DEF C, kept
  <2>3. /\ C \in 0..C /\ Len(Purged) = C - C /\ ~(C < C)
        /\ \A i \in 1..Len(Purged) : Purged[i] = callTimes[C + i]
    BY <1>1, <2>1
  <2> QED
    BY <2>1, <2>2, <2>3 DEF C
<1>3. CASE kept # {}
  <2> DEFINE m == Min(kept)
  <2>1. m \in kept /\ \A i \in kept : m <= i
    BY <1>1, <1>3, LeastPosition
  <2>2. Purged = SubSeq(callTimes, m, C)
    BY <1>3 DEF Purged
  <2> HIDE DEF m
  <2>3. m \in 1..C /\ \A i \in m..C : callTimes[i] \in Int
    BY <1>1, <2>1
  <2>4. /\ Purged \in Seq(Int) /\ Len(Purged) = C - m + 1
        /\ \A i \in 1..(C - m + 1) : Purged[i] = callTimes[m + i - 1]
    BY <1>1, <2>2, <2>3, SubSeqProperties
  <2>5. \A i \in 1..(m - 1) : Aged(callTimes[i])
    BY <1>1, <2>1, <2>3
  <2>6. PICK n \in 0..C : n = m - 1
    BY <1>1, <2>3
  <2>7. \A i \in 1..Len(Purged) : Purged[i] = callTimes[n + i]
    <3> TAKE i \in 1..Len(Purged)
    <3>1. i \in 1..(C - m + 1) /\ m + i - 1 = n + i
      BY <1>1, <2>3, <2>4, <2>6
    <3> QED
      BY <2>4, <3>1
  <2>8. ~Aged(callTimes[n + 1])
    <3>1. n + 1 = m
      BY <2>3, <2>6
    <3> QED
      BY <2>1, <3>1
  <2>9. Len(Purged) = C - n /\ \A i \in 1..n : Aged(callTimes[i])
    BY <1>1, <2>3, <2>4, <2>5, <2>6
  <2> HIDE DEF C, kept
  <2> QED
    BY <2>4, <2>7, <2>8, <2>9 DEF C
<1> QED
  BY <1>2, <1>3

(* After a purge the deque is still a suffix, what it forgot has aged, and *)
(* it is shorter when its first entry had aged.                            *)
LEMMA PurgeKeepsSuffix ==
  ASSUME LimiterInv, callTimes' = Purged, UNCHANGED <<clock, recorded>>
  PROVE  /\ callTimes' \in Seq(Int) /\ Len(callTimes') <= Len(callTimes)
         /\ DequeIsSuffix' /\ RecordedBefore(clock)'
         /\ callTimes # <<>> /\ Aged(callTimes[1]) => Len(callTimes') < Len(callTimes)
<1> DEFINE C == Len(callTimes)
           N == Len(recorded)
<1>1. PICK n \in 0..C :
        /\ Purged \in Seq(Int) /\ Len(Purged) = C - n
        /\ \A i \in 1..Len(Purged) : Purged[i] = callTimes[n + i]
        /\ \A i \in 1..n : Aged(callTimes[i])
        /\ n < C => ~Aged(callTimes[n + 1])
  BY PurgeDropsAged DEF LimiterInv
<1>2. /\ C \in Nat /\ N \in Nat /\ C <= N /\ C <= Budget /\ Budget \in Int
      /\ clock \in Int /\ WindowLength \in Int
      /\ \A i \in 1..C : callTimes[i] = recorded[N - C + i]
      /\ \A i \in 1..N : recorded[i] \in Int
  BY LenProperties, ElementOfSeq, BudgetAssumption DEF LimiterInv, DequeIsSuffix, Forgotten
<1>3. /\ \A i \in 1..N : recorded[i] <= clock
      /\ \A i \in 1..(N - C) : recorded[i] + WindowLength <= clock
  BY DEF LimiterInv, RecordedBefore, Forgotten
<1>4. callTimes # <<>> => C >= 1
  BY <1>2, EmptySeq DEF LimiterInv
<1> HIDE DEF C, N
<1>5. Len(callTimes') = C - n /\ Len(recorded') = N /\ Forgotten' = N - C + n
  BY <1>1, <1>2 DEF Forgotten, N
<1>6. DequeIsSuffix'
  <2>1. \A i \in 1..(C - n) : callTimes'[i] = recorded'[N - C + n + i]
    <3> TAKE i \in 1..(C - n)
    <3>1. callTimes'[i] = callTimes[n + i] /\ n + i \in 1..C
      BY <1>1, <1>2
    <3>2. callTimes[n + i] = recorded[N - C + (n + i)]
      BY <1>2, <3>1
    <3>3. N - C + (n + i) = N - C + n + i
      BY <1>2
    <3> QED
      BY <3>1, <3>2, <3>3
  <2>2. Len(callTimes') <= Len(recorded') /\ Len(callTimes') <= Budget
    BY <1>1, <1>2, <1>5
  <2> QED
    BY <1>5, <2>1, <2>2, BudgetAssumption DEF DequeIsSuffix
<1>7. \A i \in 1..(N - C + n) : recorded[i] + WindowLength <= clock
  <2> TAKE i \in 1..(N - C + n)
  <2>1. CASE i <= N - C
    BY <1>2, <1>3, <2>1
  <2>2. CASE i > N - C
    <3>1. i - (N - C) \in 1..n /\ i - (N - C) \in 1..C
      BY <1>2, <2>2
    <3>2. Aged(callTimes[i - (N - C)]) /\ callTimes[i - (N - C)] = recorded[N - C + (i - (N - C))]
      BY <1>1, <1>2, <3>1
    <3>3. N - C + (i - (N - C)) = i /\ i \in 1..N
      BY <1>2
    <3>4. Aged(recorded[i]) /\ recorded[i] \in Int
      BY <1>2, <3>2, <3>3
    <3> QED
      BY <1>2, <3>4 DEF Aged
  <2> QED
    BY <1>2, <2>1, <2>2
<1>8. RecordedBefore(clock)'
  BY <1>3, <1>5, <1>7 DEF RecordedBefore, N
<1>9. callTimes # <<>> /\ Aged(callTimes[1]) => Len(callTimes') < C
  BY <1>1, <1>2, <1>4, <1>5
<1> QED
  BY <1>1, <1>2, <1>5, <1>6, <1>8, <1>9 DEF C

LEMMA LimiterInvInit == LimiterInit => LimiterInv
<1> SUFFICES ASSUME LimiterInit PROVE LimiterInv
  OBVIOUS
<1>1. /\ callTimes = <<>> /\ recorded = <<>> /\ clock = 0
      /\ wake = [f \in Fetcher |-> 0] /\ step = [f \in Fetcher |-> "idle"]
  BY DEF LimiterInit
<1>2. Len(callTimes) = 0 /\ Len(recorded) = 0 /\ DOMAIN recorded = {} /\ Budget \in Nat
  BY <1>1, BudgetAssumption
<1>3. DequeIsSuffix
  BY <1>2 DEF DequeIsSuffix
<1>4. RecordedBefore(clock)
  BY <1>2 DEF RecordedBefore, Forgotten
<1>5. \A f \in Fetcher : HasRoom(f)
  BY <1>1 DEF HasRoom, AtLimiter
<1>6. WindowWithinBudget
  BY <1>2 DEF WindowWithinBudget
<1>7. RecordedInOrder
  BY <1>2 DEF RecordedInOrder
<1>8. /\ clock \in Int /\ callTimes \in Seq(Int) /\ recorded \in Seq(Int)
      /\ wake \in [Fetcher -> Int] /\ step \in [Fetcher -> LimiterStep]
  <2>1. wake \in [Fetcher -> Int]
    BY <1>1
  <2>2. step \in [Fetcher -> LimiterStep]
    BY <1>1 DEF LimiterStep
  <2> QED
    BY <1>1, <2>1, <2>2
<1> QED
  BY <1>3, <1>4, <1>5, <1>6, <1>7, <1>8 DEF LimiterInv

(* Steps that record no call.                                              *)
LEMMA NothingRecorded ==
  ASSUME LimiterInv, UNCHANGED recorded, clock' \in Int, callTimes' \in Seq(Int),
         wake' \in [Fetcher -> Int], step' \in [Fetcher -> LimiterStep],
         DequeIsSuffix', RecordedBefore(clock)', \A f \in Fetcher : HasRoom(f)'
  PROVE  LimiterInv'
<1>1. WindowWithinBudget' /\ RecordedInOrder' /\ recorded' \in Seq(Int)
  BY DEF LimiterInv, WindowWithinBudget, RecordedInOrder
<1> QED
  BY <1>1 DEF LimiterInv

(* Steps that touch neither the deque nor what is recorded.                *)
LEMMA DequeUntouched ==
  ASSUME LimiterInv, UNCHANGED <<callTimes, recorded>>, clock' \in Int, clock <= clock',
         wake' \in [Fetcher -> Int], step' \in [Fetcher -> LimiterStep],
         \A f \in Fetcher : HasRoom(f)'
  PROVE  LimiterInv'
<1>1. RecordedBefore(clock)'
  <2>1. /\ \A i \in 1..Len(recorded) : recorded[i] \in Int /\ recorded[i] <= clock
        /\ \A i \in 1..Forgotten : recorded[i] + WindowLength <= clock
        /\ Forgotten <= Len(recorded) /\ Forgotten \in Int /\ Len(recorded) \in Nat
        /\ WindowLength \in Int /\ clock \in Int
    BY LenProperties, ElementOfSeq, BudgetAssumption
    DEF LimiterInv, RecordedBefore, Forgotten
  <2>2. Forgotten' = Forgotten /\ recorded' = recorded
    BY DEF Forgotten
  <2> QED
    BY <2>1, <2>2 DEF RecordedBefore
<1>2. DequeIsSuffix' /\ callTimes' \in Seq(Int)
  BY DEF LimiterInv, DequeIsSuffix, Forgotten
<1> QED
  BY <1>1, <1>2, NothingRecorded

(* A thread at the limiter has it for itself.                              *)
LEMMA OneAtLimiter ==
  ASSUME LimiterInv, NEW f \in Fetcher, AtLimiter(f)
  PROVE  \A g \in Fetcher : AtLimiter(g) => g = f
  BY DEF LimiterInv, HasRoom

LEMMA EnterLimiterInv ==
  ASSUME LimiterInv, NEW f \in Fetcher, EnterLimiter(f)
  PROVE  LimiterInv'
<1>1. /\ callTimes' = Purged /\ UNCHANGED <<clock, recorded>> /\ lockOf = NoFetcher /\ lockOf' = f
  BY DEF EnterLimiter
<1>2. /\ callTimes' \in Seq(Int) /\ DequeIsSuffix' /\ RecordedBefore(clock)'
  BY <1>1, PurgeKeepsSuffix
<1>3. /\ clock \in Int /\ wake \in [Fetcher -> Int] /\ step \in [Fetcher -> LimiterStep]
      /\ Budget \in Nat \ {0} /\ WindowLength \in Int
  BY BudgetAssumption DEF LimiterInv
<1>4. \A g \in Fetcher : ~AtLimiter(g)
  BY <1>1, BudgetAssumption DEF LimiterInv, HasRoom
<1>5. CASE Len(Purged) >= Budget
  <2>1. callTimes' # <<>>
    BY <1>1, <1>3, <1>5
  <2>2. Head(Purged) = callTimes'[1] /\ callTimes'[1] \in Int
    BY <1>1, <1>2, <2>1
  <2>3. /\ step' = [step EXCEPT ![f] = "spent"]
        /\ wake' = [wake EXCEPT ![f] = clock + (WindowLength - (clock - callTimes'[1]))]
    BY <1>5, <2>2 DEF EnterLimiter, Sleeps, Moves
  <2>4. clock + (WindowLength - (clock - callTimes'[1])) = callTimes'[1] + WindowLength
    BY <1>3, <2>2
  <2>5. \A g \in Fetcher : HasRoom(g)'
    BY <1>1, <1>3, <1>4, <2>1, <2>3, <2>4 DEF HasRoom, AtLimiter
  <2> QED
    <3>1. clock + (WindowLength - (clock - callTimes'[1])) \in Int
      BY <1>3, <2>2
    <3>2. wake' \in [Fetcher -> Int] /\ step' \in [Fetcher -> LimiterStep]
      BY <1>3, <2>3, <3>1 DEF LimiterStep
    <3> QED
      BY <1>1, <1>2, <1>3, <2>5, <3>2, NothingRecorded
<1>6. CASE ~(Len(Purged) >= Budget)
  <2>1. step' = [step EXCEPT ![f] = "budgeted"] /\ wake' = wake
    BY <1>6 DEF EnterLimiter, Moves
  <2>2. Len(callTimes') < Budget
    BY <1>1, <1>2, <1>3, <1>6, LenProperties
  <2>3. \A g \in Fetcher : HasRoom(g)'
    BY <1>1, <1>3, <1>4, <2>1, <2>2 DEF HasRoom, AtLimiter
  <2> QED
    <3>1. wake' \in [Fetcher -> Int] /\ step' \in [Fetcher -> LimiterStep]
      BY <1>3, <2>1 DEF LimiterStep
    <3> QED
      BY <1>1, <1>2, <1>3, <2>3, <3>1, NothingRecorded
<1> QED
  BY <1>5, <1>6

(* The sleep was until the oldest entry had aged: the purge makes room.    *)
LEMMA BudgetReturnsInv ==
  ASSUME LimiterInv, NEW f \in Fetcher, BudgetReturns(f)
  PROVE  LimiterInv'
<1>1. /\ callTimes' = Purged /\ UNCHANGED <<clock, recorded, wake, lockOf>>
      /\ step[f] = "spent" /\ clock >= wake[f] /\ step' = [step EXCEPT ![f] = "budgeted"]
  BY DEF BudgetReturns, Moves
<1>2. /\ callTimes' \in Seq(Int) /\ DequeIsSuffix' /\ RecordedBefore(clock)'
      /\ callTimes # <<>> /\ Aged(callTimes[1]) => Len(callTimes') < Len(callTimes)
  BY <1>1, PurgeKeepsSuffix
<1>3. /\ clock \in Int /\ wake \in [Fetcher -> Int] /\ step \in [Fetcher -> LimiterStep]
      /\ Budget \in Nat /\ WindowLength \in Int /\ Len(callTimes) <= Budget
  BY BudgetAssumption DEF LimiterInv, DequeIsSuffix
<1>4. AtLimiter(f) /\ lockOf = f /\ callTimes # <<>> /\ wake[f] = callTimes[1] + WindowLength
  BY <1>1 DEF LimiterInv, HasRoom, AtLimiter
<1>5. Aged(callTimes[1])
  <2>1. callTimes[1] \in Int
    BY <1>4 DEF LimiterInv
  <2> QED
    BY <1>1, <1>3, <1>4, <2>1 DEF Aged
<1>6. Len(callTimes') < Budget
  <2>1. callTimes \in Seq(Int)
    BY DEF LimiterInv
  <2> QED
    BY <1>2, <1>3, <1>4, <1>5, <2>1, LenProperties
<1>7. \A g \in Fetcher : g # f => ~AtLimiter(g)
  BY <1>4, OneAtLimiter
<1>8. \A g \in Fetcher : HasRoom(g)'
  BY <1>1, <1>3, <1>4, <1>6, <1>7 DEF HasRoom, AtLimiter
<1>9. wake' \in [Fetcher -> Int] /\ step' \in [Fetcher -> LimiterStep]
  BY <1>1, <1>3 DEF LimiterStep
<1> QED
  BY <1>1, <1>2, <1>3, <1>8, <1>9, NothingRecorded

(* The token steps: the thread keeps its room, and what it reads of the    *)
(* clock before the call comes after all recorded calls.                   *)
LEMMA TokenInv ==
  ASSUME LimiterInv, NEW f \in Fetcher, TakeToken(f) \/ TokenReturns(f)
  PROVE  LimiterInv'
<1>1. /\ UNCHANGED <<callTimes, recorded, clock, lockOf>> /\ step[f] \in {"budgeted", "dry"}
      /\ \/ step' = [step EXCEPT ![f] = "dry"] /\ wake' = [wake EXCEPT ![f] = clock + 1]
         \/ step' = [step EXCEPT ![f] = "take"] /\ wake' = [wake EXCEPT ![f] = clock + 0]
  BY DEF TakeToken, TokenReturns, Sleeps, Moves
<1>2. /\ clock \in Int /\ wake \in [Fetcher -> Int] /\ step \in [Fetcher -> LimiterStep]
      /\ RecordedBefore(clock) /\ HasRoom(f) /\ AtLimiter(f)
  BY <1>1 DEF LimiterInv, AtLimiter
<1>3. \A g \in Fetcher : g # f => ~AtLimiter(g)
  BY <1>2, OneAtLimiter
<1>4. RecordedBefore(clock)' /\ clock + 0 = clock /\ clock' <= clock
  BY <1>1, <1>2 DEF RecordedBefore, Forgotten
<1>5. \A g \in Fetcher : HasRoom(g)'
  <2> TAKE g \in Fetcher
  <2>1. CASE g = f
    BY <1>1, <1>2, <1>4, <2>1 DEF HasRoom, AtLimiter, RecordedBefore, Forgotten
  <2>2. CASE g # f
    BY <1>1, <1>2, <1>3, <2>2 DEF HasRoom, AtLimiter
  <2> QED
    BY <2>1, <2>2
<1>6. wake' \in [Fetcher -> Int] /\ step' \in [Fetcher -> LimiterStep]
  BY <1>1, <1>2 DEF LimiterStep
<1> QED
  BY <1>1, <1>2, <1>5, <1>6, DequeUntouched

(* The other steps of a thread and the clock.                              *)
LEMMA ElsewhereInv ==
  ASSUME LimiterInv,
         (\E f \in Fetcher : Answered(f) \/ RetryLater(f) \/ Retry(f)) \/ TimePasses
         \/ UNCHANGED limiterVars
  PROVE  LimiterInv'
<1>1. /\ clock \in Int /\ wake \in [Fetcher -> Int] /\ step \in [Fetcher -> LimiterStep]
      /\ \A g \in Fetcher : HasRoom(g)
  BY DEF LimiterInv
<1>2. \A t : RecordedBefore(t) /\ UNCHANGED <<recorded, callTimes>> => RecordedBefore(t)'
  BY DEF RecordedBefore, Forgotten
<1>3. ASSUME NEW f \in Fetcher, Answered(f) \/ RetryLater(f) \/ Retry(f)
      PROVE  LimiterInv'
  <2>1. /\ UNCHANGED <<clock, callTimes, recorded, lockOf>> /\ ~AtLimiter(f)
        /\ \E s \in {"idle", "blocked", "backoff", "request"} : step' = [step EXCEPT ![f] = s]
        /\ wake' = wake \/ wake' = [wake EXCEPT ![f] = clock + 1]
    BY <1>3 DEF Answered, RetryLater, Retry, Moves, Sleeps, AtLimiter
  <2>2. wake' \in [Fetcher -> Int] /\ step' \in [Fetcher -> LimiterStep]
    BY <1>1, <2>1 DEF LimiterStep
  <2>3. \A g \in Fetcher : HasRoom(g)'
    <3> TAKE g \in Fetcher
    <3>1. CASE g = f
      BY <1>1, <2>1, <3>1 DEF HasRoom, AtLimiter
    <3>2. CASE g # f
      <4>1. step'[g] = step[g] /\ wake'[g] = wake[g]
        BY <1>1, <2>1, <3>2
      <4> QED
        BY <1>1, <1>2, <2>1, <4>1 DEF HasRoom, AtLimiter, RecordedBefore, Forgotten
    <3> QED
      BY <3>1, <3>2
  <2> QED
    BY <1>1, <2>1, <2>2, <2>3, DequeUntouched
<1>4. CASE TimePasses \/ UNCHANGED limiterVars
  <2>1. /\ UNCHANGED <<callTimes, recorded, lockOf, wake, step>>
        /\ clock' \in Int /\ clock <= clock'
    BY <1>1, <1>4 DEF TimePasses, limiterVars
  <2>2. \A g \in Fetcher : HasRoom(g)'
    BY <1>1, <2>1 DEF HasRoom, AtLimiter, RecordedBefore, Forgotten
  <2> QED
    BY <1>1, <2>1, <2>2, DequeUntouched
<1> QED
  BY <1>3, <1>4

(* The call that is recorded.  The calls in a window that ends with it are *)
(* in the deque, and so is every call recorded at the same time.           *)
LEMMA LetCallInv ==
  ASSUME LimiterInv, NEW f \in Fetcher, LetCall(f)
  PROVE  LimiterInv'
<1> DEFINE C == Len(callTimes)
           N == Len(recorded)
           t == wake[f]
<1>1. /\ callTimes' = Append(callTimes, t) /\ recorded' = Append(recorded, t)
      /\ UNCHANGED <<clock, wake>> /\ step[f] = "take" /\ step' = [step EXCEPT ![f] = "request"]
  BY DEF LetCall, Moves
<1>2. /\ clock \in Int /\ wake \in [Fetcher -> Int] /\ step \in [Fetcher -> LimiterStep]
      /\ t \in Int /\ Budget \in Int /\ WindowLength \in Nat \ {0}
      /\ C \in Nat /\ N \in Nat /\ C <= N /\ callTimes \in Seq(Int) /\ recorded \in Seq(Int)
      /\ DOMAIN recorded = 1..N
  BY LenProperties, BudgetAssumption DEF LimiterInv, DequeIsSuffix
<1>3. AtLimiter(f) /\ HasRoom(f) /\ C < Budget /\ t <= clock /\ RecordedBefore(t)
  BY <1>1 DEF LimiterInv, HasRoom, AtLimiter
<1>4. \A g \in Fetcher : g # f => ~AtLimiter(g)
  BY <1>3, OneAtLimiter
<1>5. /\ \A i \in 1..C : callTimes[i] \in Int /\ callTimes[i] = recorded[N - C + i]
      /\ \A i \in 1..N : recorded[i] \in Int /\ recorded[i] <= t
      /\ \A i \in 1..(N - C) : recorded[i] + WindowLength <= t
      /\ \A i, j \in 1..N : i <= j => recorded[i] <= recorded[j]
  BY <1>2, <1>3, ElementOfSeq
  DEF LimiterInv, DequeIsSuffix, Forgotten, RecordedBefore, RecordedInOrder
<1>6. /\ callTimes' \in Seq(Int) /\ Len(callTimes') = C + 1
      /\ \A i \in 1..C : callTimes'[i] = callTimes[i]
      /\ callTimes'[C + 1] = t
  BY <1>1, <1>2, AppendProperties
<1>7. /\ recorded' \in Seq(Int) /\ Len(recorded') = N + 1 /\ DOMAIN recorded' = 1..(N + 1)
      /\ \A i \in 1..N : recorded'[i] = recorded[i]
      /\ recorded'[N + 1] = t
  <2>1. /\ recorded' \in Seq(Int) /\ Len(recorded') = N + 1
        /\ \A i \in 1..N : recorded'[i] = recorded[i]
        /\ recorded'[N + 1] = t
    BY <1>1, <1>2, AppendProperties
  <2> QED
    BY <2>1, LenProperties
<1>8. WindowWithinBudget
  BY DEF LimiterInv
<1> HIDE DEF C, N, t
<1>9. Forgotten' = N - C
  BY <1>2, <1>6, <1>7 DEF Forgotten
<1>10. DequeIsSuffix'
  <2>1. \A i \in 1..(C + 1) : callTimes'[i] = recorded'[N - C + i]
    <3> TAKE i \in 1..(C + 1)
    <3>1. CASE i = C + 1
      <4>1. N - C + (C + 1) = N + 1
        BY <1>2
      <4> QED
        BY <1>6, <1>7, <3>1, <4>1
    <3>2. CASE i # C + 1
      <4>1. i \in 1..C /\ N - C + i \in 1..N
        BY <1>2, <3>2
      <4> QED
        BY <1>5, <1>6, <1>7, <4>1
    <3> QED
      BY <3>1, <3>2
  <2>2. C + 1 <= N + 1 /\ C + 1 <= Budget
    BY <1>2, <1>3 DEF C
  <2> QED
    BY <1>6, <1>7, <1>9, <2>1, <2>2, BudgetAssumption DEF DequeIsSuffix
<1>11. RecordedBefore(clock)' /\ RecordedInOrder'
  <2>1. \A i \in 1..(N + 1) : recorded'[i] \in Int /\ recorded'[i] <= t
    <3> TAKE i \in 1..(N + 1)
    <3>1. i = N + 1 \/ i \in 1..N
      BY <1>2
    <3> QED
      BY <1>2, <1>5, <1>7, <3>1
  <2>2. \A i \in 1..(N + 1) : recorded'[i] <= clock
    BY <1>2, <1>3, <2>1 DEF t
  <2>3. \A i \in 1..(N - C) : recorded'[i] + WindowLength <= clock
    <3> TAKE i \in 1..(N - C)
    <3>1. i \in 1..N
      BY <1>2
    <3> QED
      BY <1>2, <1>3, <1>5, <1>7, <3>1 DEF t
  <2>4. ASSUME NEW i \in 1..(N + 1), NEW j \in 1..(N + 1), i <= j
        PROVE  recorded'[i] <= recorded'[j]
    <3>1. CASE j = N + 1
      BY <1>7, <2>1, <3>1
    <3>2. CASE j # N + 1
      <4>1. i \in 1..N /\ j \in 1..N
        BY <1>2, <2>4, <3>2
      <4> QED
        BY <1>5, <1>7, <2>4, <4>1
    <3> QED
      BY <3>1, <3>2
  <2> QED
    BY <1>1, <1>7, <1>9, <2>2, <2>3, <2>4 DEF RecordedBefore, RecordedInOrder
<1>12. WindowWithinBudget'
  <2> DEFINE W(i) == {j \in DOMAIN recorded :
                        recorded[j] <= recorded[i] /\ recorded[i] - recorded[j] < WindowLength}
             New == {j \in 1..(N + 1) : recorded'[j] <= t /\ t - recorded'[j] < WindowLength}
  <2>1. Cardinality(New) <= Budget
    <3>1. New \in SUBSET ((N - C + 1)..(N + 1))
      <4> SUFFICES ASSUME NEW j \in 1..(N + 1), t - recorded'[j] < WindowLength
                   PROVE  j \in (N - C + 1)..(N + 1)
        OBVIOUS
      <4>1. CASE j \in 1..(N - C)
        <5>1. j \in 1..N
          BY <1>2, <4>1
        <5> QED
          BY <1>2, <1>5, <1>7, <4>1, <5>1
      <4> QED
        BY <1>2, <4>1
    <3>2. /\ IsFiniteSet((N - C + 1)..(N + 1))
          /\ Cardinality((N - C + 1)..(N + 1)) = C + 1
      <4>1. N - C + 1 \in Int /\ N + 1 \in Int /\ ~(N - C + 1 > N + 1)
            /\ (N + 1) - (N - C + 1) + 1 = C + 1
        BY <1>2
      <4> QED
        BY <4>1, FS_Interval
    <3>3. Cardinality(New) <= C + 1 /\ Cardinality(New) \in Nat
      BY <3>1, <3>2, FS_Subset, FS_CardinalityType
    <3> QED
      BY <1>2, <1>3, <3>3 DEF C
  <2>2. SUFFICES ASSUME NEW i \in 1..(N + 1)
                 PROVE  Cardinality({j \in 1..(N + 1) :
                            recorded'[j] <= recorded'[i]
                            /\ recorded'[i] - recorded'[j] < WindowLength}) <= Budget
    BY <1>7, BudgetAssumption DEF WindowWithinBudget
  <2>3. CASE recorded'[i] = t
    BY <2>1, <2>3
  <2>4. CASE recorded'[i] # t
    <3>1. i \in 1..N
      BY <1>2, <1>7, <2>4
    <3>2. recorded'[i] = recorded[i] /\ recorded[i] < t /\ recorded[i] \in Int
      BY <1>2, <1>5, <1>7, <2>4, <3>1
    <3>3. W(i) = {j \in 1..(N + 1) :
                    recorded'[j] <= recorded'[i] /\ recorded'[i] - recorded'[j] < WindowLength}
      <4>1. \A j \in 1..(N + 1) : recorded'[j] <= recorded'[i] => j \in 1..N
        BY <1>2, <1>7, <3>2
      <4>2. 1..N \subseteq 1..(N + 1)
        BY <1>2
      <4> QED
        BY <1>2, <1>7, <3>2, <4>1, <4>2
    <3>4. Cardinality(W(i)) <= Budget
      BY <1>2, <1>8, <3>1 DEF WindowWithinBudget
    <3> QED
      BY <3>3, <3>4
  <2> QED
    BY <2>3, <2>4
<1>13. \A g \in Fetcher : HasRoom(g)'
  BY <1>1, <1>2, <1>4 DEF HasRoom, AtLimiter
<1>14. step' \in [Fetcher -> LimiterStep]
  BY <1>1, <1>2 DEF LimiterStep
<1> QED
  BY <1>1, <1>2, <1>6, <1>7, <1>10, <1>11, <1>12, <1>13, <1>14 DEF LimiterInv

LEMMA LimiterInvStep == LimiterInv /\ [LimiterNext]_limiterVars => LimiterInv'
<1> SUFFICES ASSUME LimiterInv, [LimiterNext]_limiterVars PROVE LimiterInv'
  OBVIOUS
<1>1. ASSUME NEW f \in Fetcher, EnterLimiter(f) PROVE LimiterInv'
  BY <1>1, EnterLimiterInv
<1>2. ASSUME NEW f \in Fetcher, BudgetReturns(f) PROVE LimiterInv'
  BY <1>2, BudgetReturnsInv
<1>3. ASSUME NEW f \in Fetcher, TakeToken(f) \/ TokenReturns(f) PROVE LimiterInv'
  BY <1>3, TokenInv
<1>4. ASSUME NEW f \in Fetcher, LetCall(f) PROVE LimiterInv'
  BY <1>4, LetCallInv
<1>5. ASSUME (\E f \in Fetcher : Answered(f) \/ RetryLater(f) \/ Retry(f)) \/ TimePasses
             \/ UNCHANGED limiterVars
      PROVE  LimiterInv'
  BY <1>5, ElsewhereInv
<1> QED
  BY <1>1, <1>2, <1>3, <1>4, <1>5 DEF LimiterNext

(* No window of the rolling budget holds more recorded calls than the      *)
(* budget, however many threads share the limiter, however late their      *)
(* sleeps end and whatever their requests are answered.                    *)
THEOREM BudgetHolds == LimiterSpec => []WindowWithinBudget
<1>1. LimiterInv => WindowWithinBudget
  BY DEF LimiterInv
<1> QED
  BY LimiterInvInit, LimiterInvStep, <1>1, PTL DEF LimiterSpec

(* The bucket and the times it is filled for, and whose lock it is.        *)
BucketInv ==
  /\ clock \in Nat /\ refilled \in Nat /\ refilled <= clock
  /\ bucket \in 0..CallsPerWindow
  /\ \A f \in Fetcher : lockOf = f <=> AtLimiter(f)

LEMMA RefillFits ==
  ASSUME BucketInv
  PROVE  Refill \in 0..CallsPerWindow
<1>1. (clock - refilled) * Rate \in Nat
  <2>1. clock - refilled \in Nat /\ Rate \in Nat
    BY BudgetAssumption DEF BucketInv
  <2>2. \A m, n \in Nat : m * n \in Nat
    OBVIOUS
  <2> QED
    BY <2>1, <2>2
<1> DEFINE added == (clock - refilled) * Rate
<1>2. added \in Nat
  BY <1>1
<1> HIDE DEF added
<1>3. Capped(bucket + added) \in 0..CallsPerWindow
  BY <1>2, BudgetAssumption DEF BucketInv, Capped
<1> QED
  BY <1>3 DEF Refill, added

(* A thread that moves by itself keeps the lock, gets it or gives it back. *)
LEMMA LockKept ==
  ASSUME BucketInv, step \in [Fetcher -> LimiterStep], NEW f \in Fetcher,
         NEW s \in LimiterStep, step' = [step EXCEPT ![f] = s],
         \/ AtLimiter(f) /\ s \in {"spent", "budgeted", "dry", "take"} /\ lockOf' = lockOf
         \/ AtLimiter(f) /\ s \notin {"spent", "budgeted", "dry", "take"} /\ lockOf' = NoFetcher
         \/ lockOf = NoFetcher /\ s \in {"spent", "budgeted", "dry", "take"} /\ lockOf' = f
         \/ ~AtLimiter(f) /\ s \notin {"spent", "budgeted", "dry", "take"} /\ lockOf' = lockOf
  PROVE  \A g \in Fetcher : lockOf' = g <=> AtLimiter(g)'
BY BudgetAssumption DEF BucketInv, AtLimiter

LEMMA BucketStep ==
  ASSUME LimiterInv, BucketInv, [LimiterNext]_limiterVars
  PROVE  BucketInv'
<1>1. /\ step \in [Fetcher -> LimiterStep] /\ CallsPerWindow \in Nat \ {0}
      /\ Refill \in 0..CallsPerWindow
  BY RefillFits, BudgetAssumption DEF LimiterInv
<1>2. CASE UNCHANGED limiterVars
  BY <1>2 DEF limiterVars, BucketInv, AtLimiter
<1>3. CASE TimePasses
  BY <1>3 DEF TimePasses, BucketInv, AtLimiter
<1>4. ASSUME NEW f \in Fetcher, EnterLimiter(f) PROVE BucketInv'
  <2>1. \E s \in {"spent", "budgeted"} : step' = [step EXCEPT ![f] = s]
    BY <1>4 DEF EnterLimiter, Sleeps, Moves
  <2>2. lockOf = NoFetcher /\ lockOf' = f /\ UNCHANGED <<clock, bucket, refilled>>
    BY <1>4 DEF EnterLimiter
  <2>3. \A g \in Fetcher : lockOf' = g <=> AtLimiter(g)'
    BY <1>1, <2>1, <2>2, LockKept DEF LimiterStep
  <2> QED
    BY <2>2, <2>3 DEF BucketInv
<1>5. ASSUME NEW f \in Fetcher, BudgetReturns(f) PROVE BucketInv'
  <2>1. \A g \in Fetcher : lockOf' = g <=> AtLimiter(g)'
    BY <1>1, <1>5, LockKept DEF BudgetReturns, Moves, AtLimiter, LimiterStep
  <2> QED
    BY <1>5, <2>1 DEF BudgetReturns, BucketInv
<1>6. ASSUME NEW f \in Fetcher, TakeToken(f) \/ TokenReturns(f) PROVE BucketInv'
  <2>1. /\ \E s \in {"dry", "take"} : step' = [step EXCEPT ![f] = s]
        /\ step[f] \in {"budgeted", "dry"} /\ refilled' = clock /\ bucket' = Refill
        /\ UNCHANGED <<clock, lockOf>>
    BY <1>6 DEF TakeToken, TokenReturns, Sleeps, Moves
  <2>2. \A g \in Fetcher : lockOf' = g <=> AtLimiter(g)'
    BY <1>1, <2>1, LockKept DEF AtLimiter, LimiterStep
  <2> QED
    BY <1>1, <2>1, <2>2 DEF BucketInv
<1>7. ASSUME NEW f \in Fetcher, LetCall(f) PROVE BucketInv'
  <2>1. \A g \in Fetcher : lockOf' = g <=> AtLimiter(g)'
    BY <1>1, <1>7, LockKept DEF LetCall, Moves, AtLimiter, LimiterStep
  <2>2. bucket' \in 0..CallsPerWindow
    BY <1>1, <1>7 DEF LetCall, BucketInv
  <2> QED
    BY <1>7, <2>1, <2>2 DEF LetCall, BucketInv
<1>8. ASSUME NEW f \in Fetcher, Answered(f) \/ RetryLater(f) \/ Retry(f) PROVE BucketInv'
  <2>1. /\ \E s \in {"idle", "blocked", "backoff", "request"} : step' = [step EXCEPT ![f] = s]
        /\ step[f] \in {"request", "blocked", "backoff"} /\ UNCHANGED <<clock, lockOf>>
        /\ \/ UNCHANGED <<bucket, refilled>>
           \/ bucket' = CallsPerWindow /\ refilled' = clock
    BY <1>8 DEF Answered, RetryLater, Retry, Sleeps, Moves
  <2>2. \A g \in Fetcher : lockOf' = g <=> AtLimiter(g)'
    BY <1>1, <2>1, LockKept DEF AtLimiter, LimiterStep
  <2> QED
    BY <1>1, <2>1, <2>2 DEF BucketInv
<1> QED
  BY <1>2, <1>3, <1>4, <1>5, <1>6, <1>7, <1>8 DEF LimiterNext

(* The bucket holds no more than its capacity although an answer of 429    *)
(* fills it up from outside the lock, the deque no more than the budget,   *)
(* and the lock is of the thread at the limiter.                           *)
THEOREM LimiterTypes == LimiterSpec => []LimiterTypeOK
<1>1. LimiterInit => BucketInv
  BY BudgetAssumption DEF LimiterInit, BucketInv, AtLimiter
<1>2. LimiterInv /\ BucketInv => LimiterTypeOK
  BY DEF LimiterInv, BucketInv, DequeIsSuffix, LimiterTypeOK, AtLimiter
<1>3. LimiterInv /\ BucketInv /\ [LimiterNext]_limiterVars => BucketInv'
  BY BucketStep
<1> QED
  BY LimiterInvInit, LimiterInvStep, <1>1, <1>2, <1>3, PTL DEF LimiterSpec

--------------------------------------------------------------------------------
(*****************************************************************************)
(* Collection. WatchedInHand is what the end of a run needs: no watched      *)
(* symbol is dropped between the list of what is missing and the answers.    *)
(*****************************************************************************)

CollectionFields == {"at", "index", "top", "screened", "asked", "fetched", "data", "refused"}

(* Every watched symbol is there, still asked for or was refused.          *)
WatchedInHand ==
  collecting.at = "watch" =>
    Watched \subseteq Present(collecting) \cup collecting.asked \cup collecting.refused

(* A run that is on has all its fields; the lists that are cached are of   *)
(* days that were.                                                         *)
CollectionInv ==
  /\ calendar \in Nat
  /\ DOMAIN listCache = IndexSet
  /\ \A x \in IndexSet : listCache[x].day \in Nat /\ listCache[x].day <= calendar
  /\ collecting # NotCollecting =>
       /\ DOMAIN collecting = CollectionFields
       /\ collecting.index \in DOMAIN IndexNames
       /\ WatchedInHand

LEMMA CollectionInitially ==
  ASSUME CollectionInit
  PROVE  CollectionInv
BY DEF CollectionInit, CollectionInv, NoList

(* Steps of the run that leave the calendar and the cached lists alone. *)
LEMMA RunGoesOn ==
  ASSUME CollectionInv, UNCHANGED <<calendar, listCache>>,
         collecting' # NotCollecting => /\ DOMAIN collecting' = CollectionFields
                                        /\ collecting'.index \in DOMAIN IndexNames
                                        /\ WatchedInHand'
  PROVE  CollectionInv'
BY DEF CollectionInv

LEMMA StartKeeps ==
  ASSUME CollectionInv, NEW top, NEW screened, StartCollection(top, screened)
  PROVE  CollectionInv'
<1>1. UNCHANGED <<calendar, listCache>> /\ DOMAIN collecting' = CollectionFields
      /\ collecting'.index = 1 /\ collecting'.at = "list"
  BY DEF StartCollection, CollectionFields
<1>2. 1 \in DOMAIN IndexNames
  BY CollectionAssumption
<1> QED
  BY <1>1, <1>2, RunGoesOn DEF WatchedInHand

LEMMA ListKeeps ==
  ASSUME CollectionInv, collecting # NotCollecting, NEW package, NEW saved \in BOOLEAN,
         ListIndex(package, saved)
  PROVE  CollectionInv'
<1> DEFINE cached == [listCache EXCEPT ![IndexNow] = [day |-> calendar, symbols |-> package]]
<1>1. PICK wanted : collecting' = [collecting EXCEPT !.at = "fetch", !.asked = wanted]
  BY DEF ListIndex
<1>2. UNCHANGED calendar /\ listCache' \in {listCache, cached}
  BY DEF ListIndex
<1>3. DOMAIN listCache' = IndexSet
  BY <1>2 DEF CollectionInv
<1>4. \A x \in IndexSet : listCache'[x].day \in Nat /\ listCache'[x].day <= calendar
  BY <1>2 DEF CollectionInv
<1>5. /\ DOMAIN collecting' = CollectionFields /\ collecting'.index = collecting.index
      /\ collecting'.at = "fetch"
  BY <1>1 DEF CollectionInv, CollectionFields
<1> QED
  BY <1>2, <1>3, <1>4, <1>5 DEF CollectionInv, WatchedInHand

LEMMA FetchKeeps ==
  ASSUME CollectionInv, NEW s, NEW usable \in BOOLEAN, FetchDone(s, usable)
  PROVE  CollectionInv'
<1>1. collecting # NotCollecting
  BY DEF FetchDone, NotCollecting
<1>2. DOMAIN collecting' = CollectionFields /\ collecting'.index = collecting.index
      /\ collecting'.at = "fetch" /\ UNCHANGED <<calendar, listCache>>
  BY <1>1 DEF FetchDone, CollectionInv, CollectionFields
<1> QED
  BY <1>1, <1>2, RunGoesOn DEF CollectionInv, WatchedInHand

LEMMA EndIndexKeeps ==
  ASSUME CollectionInv, EndIndex
  PROVE  CollectionInv'
<1>1. collecting # NotCollecting
  BY DEF EndIndex, NotCollecting
<1>2. DOMAIN collecting' = CollectionFields /\ collecting'.at \in {"list", "combine"}
      /\ UNCHANGED <<calendar, listCache>>
  BY <1>1 DEF EndIndex, CollectionInv, CollectionFields
<1>3. collecting'.index \in DOMAIN IndexNames
  <2>1. collecting.index \in 1..Len(IndexNames) /\ Len(IndexNames) \in Nat
    BY <1>1, CollectionAssumption DEF CollectionInv
  <2>2. \/ collecting.index < Len(IndexNames) /\ collecting'.index = collecting.index + 1
        \/ collecting'.index = collecting.index
    BY <1>1 DEF EndIndex, CollectionInv, CollectionFields
  <2> QED
    BY <2>1, <2>2, CollectionAssumption
<1> QED
  BY <1>2, <1>3, RunGoesOn DEF WatchedInHand

(* What is asked for after the indices is what is watched and not there    *)
(* yet.                                                                    *)
LEMMA CombineKeeps ==
  ASSUME CollectionInv, Combine
  PROVE  CollectionInv'
<1>1. collecting # NotCollecting
  BY DEF Combine, NotCollecting
<1>2. PICK rows \in TopRows(collecting) :
        LET r == [collecting EXCEPT !.at = "watch", !.data = rows]
        IN collecting' = [r EXCEPT !.asked = Watched \ Present(r)]
  BY DEF Combine
<1> DEFINE r == [collecting EXCEPT !.at = "watch", !.data = rows]
<1>3. DOMAIN r = CollectionFields /\ r.index = collecting.index
  BY <1>1 DEF CollectionInv, CollectionFields
<1>4. collecting' = [r EXCEPT !.asked = Watched \ Present(r)]
  BY <1>2
<1> HIDE DEF r
<1>5. /\ DOMAIN collecting' = CollectionFields /\ collecting'.index = collecting.index
      /\ collecting'.asked = Watched \ Present(r) /\ collecting'.data = r.data
  BY <1>3, <1>4 DEF CollectionFields
<1>6. WatchedInHand'
  BY <1>5 DEF WatchedInHand, Present
<1>7. UNCHANGED <<calendar, listCache>>
  BY DEF Combine
<1> QED
  BY <1>1, <1>5, <1>6, <1>7, RunGoesOn DEF CollectionInv

(* A watched symbol that was asked for is there afterwards or was refused. *)
LEMMA FetchWatchedKeeps ==
  ASSUME CollectionInv, NEW s \in Watched, NEW usable \in BOOLEAN, FetchWatched(s, usable)
  PROVE  CollectionInv'
<1>1. collecting # NotCollecting /\ WatchedInHand /\ collecting.at = "watch"
  BY DEF FetchWatched, NotCollecting, CollectionInv
<1>2. /\ DOMAIN collecting' = CollectionFields /\ collecting'.index = collecting.index
      /\ collecting'.asked = collecting.asked \ {s}
      /\ collecting'.data = IF usable THEN collecting.data \cup {<<"watch", s>>} ELSE collecting.data
      /\ collecting'.refused = IF usable THEN collecting.refused ELSE collecting.refused \cup {s}
      /\ UNCHANGED <<calendar, listCache>>
  BY <1>1 DEF FetchWatched, CollectionInv, CollectionFields
<1>3. /\ Present(collecting) \subseteq Present(collecting')
      /\ usable => s \in Present(collecting')
  <2>1. collecting.data \subseteq collecting'.data
    BY <1>2
  <2>2. usable => <<"watch", s>> \in collecting'.data /\ <<"watch", s>>[2] = s
    BY <1>2
  <2> QED
    BY <2>1, <2>2, Zenon DEF Present
<1>4. WatchedInHand'
  BY <1>1, <1>2, <1>3 DEF WatchedInHand
<1> QED
  BY <1>1, <1>2, <1>4, RunGoesOn DEF CollectionInv

LEMMA CollectionStep ==
  ASSUME CollectionInv, [CollectionNext]_collectionVars
  PROVE  CollectionInv'
<1>1. CASE UNCHANGED collectionVars
  BY <1>1 DEF collectionVars, CollectionInv, WatchedInHand
<1>2. CASE EndCollection \/ CollectionAborts
  BY <1>2, RunGoesOn DEF EndCollection, CollectionAborts
<1>3. CASE DayPasses
  BY <1>3 DEF DayPasses, CollectionInv
<1>4. ASSUME NEW x \in IndexSet, NEW saved \in BOOLEAN, NEW package \in PackageAnswers(x),
             collecting # NotCollecting, ListIndex(package, saved)
      PROVE  CollectionInv'
  BY <1>4, ListKeeps
<1> QED
  BY <1>1, <1>2, <1>3, <1>4, StartKeeps, FetchKeeps, EndIndexKeeps, CombineKeeps,
     FetchWatchedKeeps DEF CollectionNext

LEMMA CollectionAlways == CollectionSpec => []CollectionInv
<1>1. CollectionInit => CollectionInv
  BY CollectionInitially
<1>2. CollectionInv /\ [CollectionNext]_collectionVars => CollectionInv'
  BY CollectionStep
<1> QED
  BY <1>1, <1>2, PTL DEF CollectionSpec

(* A run is always at an index of its list, and no cached list is of a day *)
(* ahead, for any indices, symbols and lists.                              *)
THEOREM CollectionTypes == CollectionSpec => []CollectionTypeOK
<1>1. CollectionInv => CollectionTypeOK
  BY DEF CollectionInv, CollectionTypeOK
<1> QED
  BY <1>1, CollectionAlways, PTL

(* Whatever the lists, the screener and the limit to the most active       *)
(* stocks left out: a run that ends has a quote of every watched symbol    *)
(* that did not refuse one.                                                *)
THEOREM WatchedCollected == CollectionSpec => []WatchedAreFetched
<1>1. CollectionInv => WatchedAreFetched
  BY DEF CollectionInv, WatchedInHand, WatchedAreFetched, NotCollecting, Present
<1> QED
  BY <1>1, CollectionAlways, PTL

--------------------------------------------------------------------------------
(*****************************************************************************)
(* Tables of snapshots. ImportOK keeps the dates an import found when it     *)
(* looked among those it takes for existing, so that it writes under none of *)
(* them; trackers only add rows of theirs.                                   *)
(*****************************************************************************)

TableName == {"bars", "projections", "summaries"}
ImportFields == {"at", "table", "files", "replace", "existing", "left", "csv", "found"}
Provided == {Unstamped} \cup 0..hour

(* The rows of the three tables; a time of a provider is never ahead of    *)
(* the clock.                                                              *)
RowsOK ==
  /\ DOMAIN bars \subseteq Date \X Symbol /\ \A k \in DOMAIN bars : bars[k].at \in Provided
  /\ DOMAIN projections \subseteq Date \X Symbol
  /\ DOMAIN summaries \subseteq Date

(* A tracker between its fetch and its last save holds the quotes it       *)
(* fetched.                                                                *)
RunOK(t) ==
  \/ tracked[t] = NotTracking
  \/ /\ DOMAIN tracked[t] = {"at", "quotes"}
     /\ DOMAIN tracked[t].quotes \subseteq Symbol
     /\ \A s \in DOMAIN tracked[t].quotes : tracked[t].quotes[s] \in Provided

(* How far an import is: the tables it has looked at, the files left of    *)
(* the table it is at.                                                     *)
ImportShape ==
  /\ DOMAIN import = ImportFields
  /\ import.at \in {"look", "files", "summary"} /\ import.table \in 1..3
  /\ import.replace \in BOOLEAN
  /\ DOMAIN import.existing = DOMAIN import.found
  /\ \A t \in DOMAIN import.found : import.found[t] \subseteq import.existing[t]
  /\ import.at = "look" =>
       import.csv = {} /\ DOMAIN import.found = {Table[i] : i \in 1..(import.table - 1)}
  /\ import.at # "look" => /\ DOMAIN import.found = TableName
                           /\ import.left \subseteq Date
                           /\ import.csv \subseteq import.existing["projections"]
  /\ import.at = "summary" => import.left # {}

ImportOK == import # NoImport => ImportShape

MarketInv ==
  /\ hour \in 0..LastHour
  /\ RowsOK
  /\ DOMAIN tracked = Tracker /\ \A t \in Tracker : RunOK(t)
  /\ ImportOK

(* The day of the clock is one of the dates of the tables.                 *)
LEMMA Today ==
  ASSUME MarketInv
  PROVE  DateToday \in Date
<1>1. hour \in Nat /\ LastHour \in Nat /\ hour <= LastHour /\ HoursPerDay \in Nat \ {0}
  BY MarketAssumption DEF MarketInv
<1>2. \A a, b \in Nat, d \in Nat \ {0} : a <= b => a \div d \in Nat /\ a \div d <= b \div d
  OBVIOUS
<1>3. /\ hour \div HoursPerDay \in Nat /\ hour \div HoursPerDay <= LastHour \div HoursPerDay
      /\ LastHour \div HoursPerDay \in Nat
  BY <1>1, <1>2
<1> QED
  BY <1>3 DEF DateToday, Date

LEMMA MarketInitially ==
  ASSUME MarketInit
  PROVE  MarketInv
BY MarketAssumption DEF MarketInit, MarketInv, RowsOK, RunOK, ImportOK

(* Steps of trackers leave the import alone. *)
LEMMA ImportRests ==
  ASSUME ImportOK, UNCHANGED import
  PROVE  ImportOK'
<1>1. Date' = Date
  BY DEF Date
<1> QED
  BY <1>1 DEF ImportOK, ImportShape

(* A step of one tracker leaves the runs of the others as they are.        *)
LEMMA OneTracks ==
  ASSUME MarketInv, NEW t \in Tracker, NEW r, Track(t, r), UNCHANGED hour,
         r = NotTracking \/ /\ DOMAIN r = {"at", "quotes"}
                            /\ DOMAIN r.quotes \subseteq Symbol
                            /\ \A s \in DOMAIN r.quotes : r.quotes[s] \in Provided
  PROVE  DOMAIN tracked' = Tracker /\ \A u \in Tracker : RunOK(u)'
<1>1. DOMAIN tracked' = Tracker /\ \A u \in Tracker : tracked'[u] = IF u = t THEN r ELSE tracked[u]
  BY DEF Track, MarketInv
<1>2. Provided' = Provided
  BY DEF Provided
<1> QED
  BY <1>1, <1>2 DEF RunOK, MarketInv

LEMMA FetchQuotesKeeps ==
  ASSUME MarketInv, NEW t \in Tracker, NEW quotes \in Quotes, FetchQuotes(t, quotes)
  PROVE  MarketInv'
<1> DEFINE r == [at |-> "save", quotes |-> quotes]
<1>1. Track(t, r) /\ UNCHANGED <<hour, bars, projections, summaries, import>>
  BY DEF FetchQuotes, marketTables
<1>2. PICK S \in SUBSET Symbol : quotes \in [S -> {hour, Unstamped}]
  BY DEF Quotes
<1>3. hour \in Nat
  BY MarketAssumption DEF MarketInv
<1>4. /\ DOMAIN r = {"at", "quotes"} /\ DOMAIN r.quotes \subseteq Symbol
      /\ \A s \in DOMAIN r.quotes : r.quotes[s] \in Provided
  BY <1>2, <1>3 DEF Provided
<1> HIDE DEF r
<1>5. DOMAIN tracked' = Tracker /\ \A u \in Tracker : RunOK(u)'
  BY <1>1, <1>4, OneTracks
<1>6. ImportOK'
  BY <1>1, ImportRests DEF MarketInv
<1> QED
  BY <1>1, <1>5, <1>6 DEF MarketInv, RowsOK, Provided

LEMMA SaveDailyDataKeeps ==
  ASSUME MarketInv, NEW t \in Tracker, NEW ok \in BOOLEAN, SaveDailyData(t, ok)
  PROVE  MarketInv'
<1> DEFINE quotes == tracked[t].quotes
           rows == BarRows(DateToday, quotes, "fetch")
           r == [tracked[t] EXCEPT !.at = "summarise"]
<1>1. /\ Track(t, r) /\ UNCHANGED <<hour, projections, summaries, import>>
      /\ bars' = IF ok THEN Upsert(bars, rows) ELSE bars
  BY DEF SaveDailyData
<1>2. /\ DOMAIN tracked[t] = {"at", "quotes"} /\ DOMAIN quotes \subseteq Symbol
      /\ \A s \in DOMAIN quotes : quotes[s] \in Provided
  BY DEF SaveDailyData, MarketInv, RunOK, NotTracking
<1>3. DOMAIN r = {"at", "quotes"} /\ r.quotes = quotes
  BY <1>2
<1>4. /\ DOMAIN rows \subseteq Date \X Symbol
      /\ \A k \in DOMAIN rows : rows[k].source = "fetch" /\ rows[k].at \in Provided
  BY <1>2, Today DEF BarRows
<1>5. DOMAIN tracked' = Tracker /\ \A u \in Tracker : RunOK(u)'
  <2> HIDE DEF r
  <2> QED BY <1>1, <1>2, <1>3, OneTracks
<1> HIDE DEF rows, r, quotes
<1>6. /\ DOMAIN bars \subseteq DOMAIN bars'
      /\ \A k \in DOMAIN bars' : \/ bars'[k].source = "fetch" /\ bars'[k].at \in Provided
                                      /\ k \in Date \X Symbol
                                 \/ k \in DOMAIN bars /\ bars'[k] = bars[k]
  <2>1. CASE ok
    <3>1. bars' = Upsert(bars, rows)
      BY <1>1, <2>1
    <3>2. /\ DOMAIN bars' = DOMAIN bars \cup DOMAIN rows
          /\ \A k \in DOMAIN bars' : bars'[k] = IF k \in DOMAIN rows THEN rows[k] ELSE bars[k]
      BY <3>1 DEF Upsert
    <3> QED
      BY <3>2, <1>4
  <2>2. CASE ~ok
    BY <1>1, <2>2
  <2> QED
    BY <2>1, <2>2
<1>7. RowsOK' 
  BY <1>1, <1>6 DEF MarketInv, RowsOK, Provided
<1>8. ImportOK'
  BY <1>1, ImportRests DEF MarketInv
<1> QED
  BY <1>1, <1>5, <1>7, <1>8 DEF MarketInv

LEMMA SaveSummaryKeeps ==
  ASSUME MarketInv, NEW t \in Tracker, NEW ok \in BOOLEAN, NEW shows \in BOOLEAN,
         SaveSummary(t, ok, shows)
  PROVE  MarketInv'
<1> DEFINE r == IF ok /\ shows THEN [tracked[t] EXCEPT !.at = "project"] ELSE NotTracking
           rows == [d \in {DateToday} |-> "tracker"]
<1>1. /\ Track(t, r) /\ UNCHANGED <<hour, bars, projections, import>>
      /\ summaries' = IF ok THEN Upsert(summaries, rows) ELSE summaries
  BY DEF SaveSummary
<1>2. /\ DOMAIN tracked[t] = {"at", "quotes"} /\ DOMAIN tracked[t].quotes \subseteq Symbol
      /\ \A s \in DOMAIN tracked[t].quotes : tracked[t].quotes[s] \in Provided
  BY DEF SaveSummary, MarketInv, RunOK, NotTracking
<1>3. r = NotTracking \/ (DOMAIN r = {"at", "quotes"} /\ r.quotes = tracked[t].quotes)
  BY <1>2
<1>4. DOMAIN rows \subseteq Date /\ \A d \in DOMAIN rows : rows[d] = "tracker"
  BY Today
<1>5. DOMAIN tracked' = Tracker /\ \A u \in Tracker : RunOK(u)'
  <2> HIDE DEF r
  <2> QED BY <1>1, <1>2, <1>3, OneTracks
<1> HIDE DEF rows, r
<1>6. /\ DOMAIN summaries \subseteq DOMAIN summaries'
      /\ \A d \in DOMAIN summaries' : \/ summaries'[d] = "tracker" /\ d \in Date
                                      \/ d \in DOMAIN summaries /\ summaries'[d] = summaries[d]
  <2>1. CASE ok
    <3>1. summaries' = Upsert(summaries, rows)
      BY <1>1, <2>1
    <3>2. /\ DOMAIN summaries' = DOMAIN summaries \cup DOMAIN rows
          /\ \A k \in DOMAIN summaries' : summaries'[k] = IF k \in DOMAIN rows THEN rows[k] ELSE summaries[k]
      BY <3>1 DEF Upsert
    <3> QED
      BY <3>2, <1>4
  <2>2. CASE ~ok
    BY <1>1, <2>2
  <2> QED
    BY <2>1, <2>2
<1>7. RowsOK'
  BY <1>1, <1>6 DEF MarketInv, RowsOK, Provided
<1>8. ImportOK'
  BY <1>1, ImportRests DEF MarketInv
<1> QED
  BY <1>1, <1>5, <1>7, <1>8 DEF MarketInv

LEMMA SaveProjectionsKeeps ==
  ASSUME MarketInv, NEW t \in Tracker, NEW ok \in BOOLEAN, SaveProjections(t, ok)
  PROVE  MarketInv'
<1> DEFINE symbols == DOMAIN tracked[t].quotes
           rows == ProjectionRows(DateToday, symbols, "tracker")
<1>1. /\ Track(t, NotTracking) /\ UNCHANGED <<hour, bars, summaries, import>>
      /\ projections' = IF ok THEN Upsert(projections, rows) ELSE projections
  BY DEF SaveProjections
<1>2. symbols \subseteq Symbol
  BY DEF SaveProjections, MarketInv, RunOK, NotTracking
<1>3. DOMAIN rows \subseteq Date \X Symbol /\ \A k \in DOMAIN rows : rows[k] = "tracker"
  BY <1>2, Today DEF ProjectionRows
<1>4. DOMAIN tracked' = Tracker /\ \A u \in Tracker : RunOK(u)'
  BY <1>1, OneTracks
<1> HIDE DEF rows, symbols
<1>5. /\ DOMAIN projections \subseteq DOMAIN projections'
      /\ \A k \in DOMAIN projections' :
           \/ projections'[k] = "tracker" /\ k \in Date \X Symbol
           \/ k \in DOMAIN projections /\ projections'[k] = projections[k]
  <2>1. CASE ok
    <3>1. projections' = Upsert(projections, rows)
      BY <1>1, <2>1
    <3>2. /\ DOMAIN projections' = DOMAIN projections \cup DOMAIN rows
          /\ \A k \in DOMAIN projections' : projections'[k] = IF k \in DOMAIN rows THEN rows[k] ELSE projections[k]
      BY <3>1 DEF Upsert
    <3> QED
      BY <3>2, <1>3
  <2>2. CASE ~ok
    BY <1>1, <2>2
  <2> QED
    BY <2>1, <2>2
<1>6. RowsOK'
  BY <1>1, <1>5 DEF MarketInv, RowsOK, Provided
<1>7. ImportOK'
  BY <1>1, ImportRests DEF MarketInv
<1> QED
  BY <1>1, <1>4, <1>6, <1>7 DEF MarketInv

LEMMA TrackerDiesKeeps ==
  ASSUME MarketInv, NEW t \in Tracker, TrackerDies(t)
  PROVE  MarketInv'
<1>1. Track(t, NotTracking) /\ UNCHANGED <<hour, bars, projections, summaries, import>>
  BY DEF TrackerDies, marketTables
<1>2. DOMAIN tracked' = Tracker /\ \A u \in Tracker : RunOK(u)'
  BY <1>1, OneTracks
<1>3. ImportOK'
  BY <1>1, ImportRests DEF MarketInv
<1> QED
  BY <1>1, <1>2, <1>3 DEF MarketInv, RowsOK, Provided

LEMMA HourKeeps ==
  ASSUME MarketInv, HourPasses
  PROVE  MarketInv'
<1>1. hour \in 0..LastHour /\ hour < LastHour /\ hour' = hour + 1
      /\ UNCHANGED <<bars, projections, summaries, tracked, import>>
  BY DEF HourPasses, marketTables, MarketInv
<1>2. hour' \in 0..LastHour /\ Provided \subseteq Provided'
  BY <1>1, MarketAssumption DEF Provided
<1>4. ImportOK'
  BY <1>1, ImportRests DEF MarketInv
<1>5. RowsOK'
  BY <1>1, <1>2 DEF MarketInv, RowsOK
<1>6. \A t \in Tracker : RunOK(t)'
  BY <1>1, <1>2 DEF MarketInv, RunOK
<1> QED
  BY <1>1, <1>2, <1>4, <1>5, <1>6 DEF MarketInv

(* The import takes the files in turn until none is left.                  *)
LEMMA FileIsDate ==
  ASSUME MarketInv, import.at \in {"files", "summary"}, import.left # {}
  PROVE  FileDate \in import.left /\ FileDate \in Date
<1>1. import # NoImport
  BY DEF NoImport
<1>2. import.left \subseteq Date
  BY <1>1 DEF MarketInv, ImportOK, ImportShape
<1>3. import.left \in SUBSET Nat
  BY <1>2 DEF Date
<1> DEFINE S == import.left
<1>4. \E d \in S : \A e \in S : d <= e
  <2>1. S \in SUBSET Nat /\ S # {}
    BY <1>3
  <2> HIDE DEF S
  <2> QED BY <2>1, LeastNat
<1> QED
  BY <1>2, <1>4 DEF FileDate

LEMMA NextFileFields ==
  ASSUME NEW i, DOMAIN i = ImportFields
  PROVE  /\ DOMAIN NextFile(i) = ImportFields /\ NextFile(i).left \subseteq i.left
         /\ \A f \in ImportFields \ {"left"} : NextFile(i)[f] = i[f]
BY DEF NextFile, ImportFields

LEMMA StartImportKeeps ==
  ASSUME MarketInv, NEW files, NEW replace \in BOOLEAN, StartImport(files, replace)
  PROVE  MarketInv'
<1>1. UNCHANGED <<hour, bars, projections, summaries, tracked>>
  BY DEF StartImport, marketTables
<1>2. /\ import'.at = "look" /\ import'.table = 1 /\ import'.replace = replace /\ import'.csv = {}
      /\ DOMAIN import' = ImportFields
      /\ DOMAIN import'.existing = {} /\ DOMAIN import'.found = {}
  BY DEF StartImport, ImportFields
<1>3. {Table[i] : i \in 1..(1 - 1)} = {}
  OBVIOUS
<1>4. ImportShape'
  BY <1>2, <1>3 DEF ImportShape, Table
<1>5. ImportOK'
  BY <1>4 DEF ImportOK
<1> QED
  BY <1>1, <1>5 DEF MarketInv, RowsOK, RunOK, Provided

(* What the import finds when it looks at a table is there at that moment. *)
LEMMA LookKeeps ==
  ASSUME MarketInv, Look
  PROVE  MarketInv'
<1> DEFINE table == Table[import.table]
           With(f, v) == [x \in DOMAIN f \cup {table} |-> IF x = table THEN v ELSE f[x]]
           existing == With(import.existing, Existing[table])
           found == With(import.found, Existing[table])
           seen == [import EXCEPT !.existing = existing, !.found = found]
<1>1. /\ UNCHANGED <<hour, bars, projections, summaries, tracked>>
      /\ import.at = "look"
      /\ import' = IF import.table < 3 THEN [seen EXCEPT !.table = @ + 1]
                   ELSE [seen EXCEPT !.at = "files", !.table = 1, !.left = Date]
  BY DEF Look, marketTables
<1>2. import # NoImport /\ ImportShape
  BY <1>1 DEF MarketInv, ImportOK, NoImport
<1>3. /\ DOMAIN import = ImportFields /\ import.table \in 1..3 /\ import.csv = {}
      /\ DOMAIN import.existing = DOMAIN import.found
      /\ DOMAIN import.found = {Table[i] : i \in 1..(import.table - 1)}
      /\ \A t \in DOMAIN import.found : import.found[t] \subseteq import.existing[t]
      /\ import.replace \in BOOLEAN
  BY <1>1, <1>2 DEF ImportShape
<1>4. /\ DOMAIN seen = ImportFields /\ seen.existing = existing /\ seen.found = found
      /\ seen.at = "look" /\ seen.table = import.table
      /\ seen.csv = {} /\ seen.replace = import.replace
  BY <1>1, <1>3 DEF ImportFields
<1>5. DOMAIN existing = DOMAIN import.existing \cup {table} /\ DOMAIN found = DOMAIN import.found \cup {table}
  OBVIOUS
<1>6. \A x \in DOMAIN found : found[x] \subseteq existing[x]
  BY <1>3
<1>7. DOMAIN found = {Table[i] : i \in 1..import.table}
  BY <1>3, <1>5
<1> HIDE DEF seen, existing, found
<1>8. /\ DOMAIN import' = ImportFields /\ import'.existing = existing /\ import'.found = found
      /\ import'.csv = {} /\ import'.replace = import.replace
      /\ \/ import.table < 3 /\ import'.at = "look" /\ import'.table = import.table + 1
         \/ import.table = 3 /\ import'.at = "files" /\ import'.table = 1 /\ import'.left = Date
  BY <1>1, <1>3, <1>4 DEF ImportFields
<1>9. ImportShape'
  <2>1. CASE import.table < 3
    <3>1. import'.at = "look" /\ import'.table = import.table + 1 /\ import'.table - 1 = import.table
          /\ import'.table \in 1..3
      BY <1>3, <1>8, <2>1
    <3>2. DOMAIN import'.found = {Table[i] : i \in 1..(import'.table - 1)}
      BY <1>7, <1>8, <3>1
    <3> QED
      BY <1>3, <1>5, <1>6, <1>8, <3>1, <3>2 DEF ImportShape, Table
  <2>2. CASE import.table = 3
    <3>1. import'.at = "files" /\ import'.table = 1 /\ import'.left = Date
      BY <1>8, <2>2
    <3>2. {Table[i] : i \in 1..3} = TableName
      <4>1. 1..3 = {1, 2, 3}
        OBVIOUS
      <4> QED
        BY <4>1 DEF Table, TableName
    <3>3. Date' = Date
      BY DEF Date
    <3> QED
      BY <1>3, <1>5, <1>6, <1>7, <1>8, <2>2, <3>1, <3>2, <3>3 DEF ImportShape
  <2> QED
    BY <1>3, <2>1, <2>2
<1>10. ImportOK'
  BY <1>9 DEF ImportOK
<1> QED
  BY <1>1, <1>10 DEF MarketInv, RowsOK, RunOK, Provided

(* What an import knows while it goes through its files. *)
LEMMA InFiles ==
  ASSUME MarketInv, import.at \in {"files", "summary"}
  PROVE  /\ import # NoImport /\ ImportShape
         /\ DOMAIN import = ImportFields /\ import.replace \in BOOLEAN
         /\ DOMAIN import.found = TableName /\ DOMAIN import.existing = TableName
         /\ \A t \in TableName : import.found[t] \subseteq import.existing[t]
         /\ import.left \subseteq Date /\ import.csv \subseteq import.existing["projections"]
BY DEF MarketInv, ImportOK, ImportShape, NoImport

(* An import that goes on keeps its shape when it only learns of dates.    *)
LEMMA ShapeKept ==
  ASSUME MarketInv, import.at \in {"files", "summary"}, DOMAIN import' = ImportFields,
         import'.at \in {"files", "summary"}, import'.table \in 1..3,
         import'.replace = import.replace, import'.found = import.found,
         DOMAIN import'.existing = TableName,
         \A t \in TableName : import.existing[t] \subseteq import'.existing[t],
         import'.csv \subseteq import'.existing["projections"],
         import'.left \subseteq Date, import'.at = "summary" => import'.left # {}
  PROVE  ImportOK'
<1>1. Date' = Date
  BY DEF Date
<1>2. ImportShape'
  BY <1>1, InFiles DEF ImportShape
<1> QED
  BY <1>2 DEF ImportOK

LEMMA ImportBarsKeeps ==
  ASSUME MarketInv, ImportBars
  PROVE  MarketInv'
<1> DEFINE day == FileDate
           rows == BarRows(day, [s \in Symbol |-> Unstamped], "legacy")
           found == import.files.bars[day]
<1>1. /\ UNCHANGED <<hour, projections, summaries, tracked>> /\ import.at = "files"
      /\ import.left # {} /\ import' = NextFile(import)
      /\ bars' = IF found = "good" /\ ~Skip("bars", day) THEN Upsert(bars, rows) ELSE bars
  BY DEF ImportBars, Reads
<1>2. day \in Date
  BY <1>1, FileIsDate
<1>3. DOMAIN rows = {day} \X Symbol /\ \A k \in DOMAIN rows : rows[k].at = Unstamped
  BY DEF BarRows
<1> HIDE DEF rows, day
<1>4. /\ DOMAIN import' = ImportFields /\ import'.left \subseteq import.left
      /\ \A f \in ImportFields \ {"left"} : import'[f] = import[f]
  BY <1>1, InFiles, NextFileFields
<1>5. /\ import'.at = import.at /\ import'.table = import.table /\ import'.replace = import.replace
      /\ import'.existing = import.existing /\ import'.found = import.found /\ import'.csv = import.csv
  BY <1>4 DEF ImportFields
<1>6. ImportOK'
  BY <1>1, <1>4, <1>5, InFiles, ShapeKept DEF ImportShape
<1>7. \/ bars' = bars
      \/ /\ DOMAIN bars' = DOMAIN bars \cup DOMAIN rows
         /\ \A k \in DOMAIN bars' : bars'[k] = IF k \in DOMAIN rows THEN rows[k] ELSE bars[k]
  BY <1>1 DEF Upsert
<1>8. RowsOK'
  BY <1>1, <1>2, <1>3, <1>7 DEF MarketInv, RowsOK, Provided
<1> QED
  BY <1>1, <1>6, <1>8 DEF MarketInv, RunOK, Provided

(* The dates an import adds to those it takes for existing. *)
LEMMA LearnsDate ==
  ASSUME NEW i, DOMAIN i = ImportFields, DOMAIN i.existing = TableName, NEW day, NEW took,
         took = [i.existing EXCEPT !["projections"] = @ \cup {day}]
  PROVE  /\ DOMAIN took = TableName
         /\ \A t \in TableName : i.existing[t] \subseteq took[t]
         /\ took["projections"] = i.existing["projections"] \cup {day}
BY DEF TableName

LEMMA ImportProjectionsKeeps ==
  ASSUME MarketInv, ImportProjections
  PROVE  MarketInv'
<1> DEFINE day == FileDate
           rows == ProjectionRows(day, Symbol, "csv")
           takes == import.files.projections[day] = "good" /\ ~Skip("projections", day)
           took == [import EXCEPT !.existing.projections = @ \cup {day}, !.csv = @ \cup {day}]
           i == IF takes THEN took ELSE import
<1>1. /\ UNCHANGED <<hour, bars, summaries, tracked>> /\ import.at = "files"
      /\ import.left # {} /\ import' = NextFile(i)
      /\ projections' = IF takes THEN Upsert(projections, rows) ELSE projections
  BY DEF ImportProjections, Reads
<1>2. day \in Date
  BY <1>1, FileIsDate
<1>3. DOMAIN rows = {day} \X Symbol
  BY DEF ProjectionRows
<1>5. /\ DOMAIN import = ImportFields /\ DOMAIN import.existing = TableName
  BY <1>1, InFiles
<1> HIDE DEF day, takes, rows
<1>6. /\ DOMAIN took = ImportFields /\ took.at = import.at /\ took.table = import.table
      /\ took.replace = import.replace /\ took.found = import.found /\ took.left = import.left
      /\ took.existing = [import.existing EXCEPT !["projections"] = @ \cup {day}]
      /\ took.csv = import.csv \cup {day}
  BY <1>5 DEF ImportFields
<1>7. /\ DOMAIN took.existing = TableName
      /\ \A t \in TableName : import.existing[t] \subseteq took.existing[t]
      /\ took.existing["projections"] = import.existing["projections"] \cup {day}
  BY <1>5, <1>6, LearnsDate
<1> HIDE DEF took
<1>8. /\ DOMAIN i = ImportFields /\ i.at = import.at /\ i.table = import.table
      /\ i.replace = import.replace /\ i.found = import.found /\ i.left = import.left
      /\ DOMAIN i.existing = TableName
      /\ \A t \in TableName : import.existing[t] \subseteq i.existing[t]
      /\ i.csv \subseteq i.existing["projections"]
  BY <1>1, <1>5, <1>6, <1>7, InFiles
<1> HIDE DEF i
<1>9. /\ DOMAIN import' = ImportFields /\ import'.left \subseteq i.left
      /\ \A f \in ImportFields \ {"left"} : import'[f] = i[f]
  BY <1>1, <1>8, NextFileFields
<1>10. /\ import'.at = import.at /\ import'.table = import.table /\ import'.replace = import.replace
       /\ import'.existing = i.existing /\ import'.found = import.found /\ import'.csv = i.csv
       /\ import'.left \subseteq import.left
  BY <1>8, <1>9 DEF ImportFields
<1>11. ImportOK'
  BY <1>1, <1>8, <1>9, <1>10, InFiles, ShapeKept DEF ImportShape
<1>12. projections' = projections \/ DOMAIN projections' = DOMAIN projections \cup DOMAIN rows
  BY <1>1 DEF Upsert
<1>13. RowsOK'
  BY <1>1, <1>2, <1>3, <1>12 DEF MarketInv, RowsOK, Provided
<1> QED
  BY <1>1, <1>11, <1>13 DEF MarketInv, RunOK, Provided

LEMMA ImportEmbeddedKeeps ==
  ASSUME MarketInv, ImportEmbedded
  PROVE  MarketInv'
<1> DEFINE day == FileDate
           rows == ProjectionRows(day, Symbol, "embedded")
<1>1. /\ UNCHANGED <<hour, bars, summaries, tracked>> /\ import.at = "files"
      /\ import.left # {} /\ import.table = 3
      /\ import' = [import EXCEPT !.at = "summary", !.existing.projections = @ \cup {day}]
      /\ projections' = Upsert(projections, rows)
  <2>1. Table[import.table] = "summaries" /\ import.table \in 1..3
    BY InFiles DEF ImportEmbedded, Reads, ImportShape
  <2>2. import.table = 3
    BY <2>1 DEF Table
  <2> QED
    BY <2>2 DEF ImportEmbedded, Reads
<1>2. day \in Date
  BY <1>1, FileIsDate
<1>3. DOMAIN rows = {day} \X Symbol
  BY DEF ProjectionRows
<1>4. DOMAIN import = ImportFields /\ DOMAIN import.existing = TableName
  BY <1>1, InFiles
<1> HIDE DEF day, rows
<1>5. /\ DOMAIN import' = ImportFields /\ import'.at = "summary" /\ import'.table = 3
      /\ import'.replace = import.replace /\ import'.found = import.found
      /\ import'.left = import.left /\ import'.csv = import.csv
      /\ import'.existing = [import.existing EXCEPT !["projections"] = @ \cup {day}]
  BY <1>1, <1>4 DEF ImportFields
<1>6. /\ DOMAIN import'.existing = TableName
      /\ \A t \in TableName : import.existing[t] \subseteq import'.existing[t]
      /\ import'.existing["projections"] = import.existing["projections"] \cup {day}
  BY <1>4, <1>5, LearnsDate
<1>7. ImportOK'
  BY <1>1, <1>5, <1>6, InFiles, ShapeKept
<1>8. DOMAIN projections' = DOMAIN projections \cup DOMAIN rows
  BY <1>1 DEF Upsert
<1>9. RowsOK'
  BY <1>1, <1>2, <1>3, <1>8 DEF MarketInv, RowsOK, Provided
<1> QED
  BY <1>1, <1>7, <1>9 DEF MarketInv, RunOK, Provided

LEMMA ImportSummaryKeeps ==
  ASSUME MarketInv, ImportSummary
  PROVE  MarketInv'
<1> DEFINE day == FileDate
           takes == import.files.summaries[day] # "none" /\ ~Skip("summaries", day)
           row == [d \in {day} |-> "legacy"]
           i == [import EXCEPT !.at = "files"]
<1>1. /\ UNCHANGED <<hour, bars, projections, tracked>> /\ import.at \in {"files", "summary"}
      /\ import.left # {} /\ import' = NextFile(i)
      /\ summaries' = IF takes THEN Upsert(summaries, row) ELSE summaries
  <2>1. import.at = "summary" => import.left # {}
    BY InFiles DEF ImportShape
  <2> QED
    BY <2>1 DEF ImportSummary, Reads
<1>2. day \in Date
  BY <1>1, FileIsDate
<1>3. DOMAIN row = {day}
  OBVIOUS
<1> HIDE DEF day, takes, row
<1>4. /\ DOMAIN i = ImportFields /\ i.at = "files"
      /\ \A f \in ImportFields \ {"at"} : i[f] = import[f]
  BY <1>1, InFiles DEF ImportFields
<1> HIDE DEF i
<1>5. /\ DOMAIN import' = ImportFields /\ import'.left \subseteq i.left
      /\ \A f \in ImportFields \ {"left"} : import'[f] = i[f]
  BY <1>1, <1>4, NextFileFields
<1>6. /\ import'.at = "files" /\ import'.table = import.table /\ import'.replace = import.replace
      /\ import'.existing = import.existing /\ import'.found = import.found
      /\ import'.csv = import.csv /\ import'.left \subseteq import.left
  BY <1>4, <1>5 DEF ImportFields
<1>7. ImportOK'
  BY <1>1, <1>5, <1>6, InFiles, ShapeKept DEF ImportShape
<1>8. summaries' = summaries \/ DOMAIN summaries' = DOMAIN summaries \cup DOMAIN row
  BY <1>1 DEF Upsert
<1>9. RowsOK'
  BY <1>1, <1>2, <1>3, <1>8 DEF MarketInv, RowsOK, Provided
<1> QED
  BY <1>1, <1>7, <1>9 DEF MarketInv, RunOK, Provided

LEMMA NextTableKeeps ==
  ASSUME MarketInv, NextTable
  PROVE  MarketInv'
<1>1. UNCHANGED <<hour, bars, projections, summaries, tracked>> /\ import.at = "files"
  BY DEF NextTable, marketTables
<1>2. import.table \in 1..3 /\ DOMAIN import = ImportFields
  BY <1>1, InFiles DEF ImportShape
<1>3. \/ import' = NoImport
      \/ /\ DOMAIN import' = ImportFields
         /\ import'.at = import.at /\ import'.table \in 1..3 /\ import'.replace = import.replace
         /\ import'.existing = import.existing /\ import'.found = import.found
         /\ import'.csv = import.csv /\ import'.left = Date
  BY <1>2 DEF NextTable, ImportFields
<1>4. ImportOK'
  <2>1. CASE import' = NoImport
    BY <2>1 DEF ImportOK, NoImport
  <2>2. CASE import' # NoImport
    BY <1>1, <1>3, <2>2, InFiles, ShapeKept
  <2> QED
    BY <2>1, <2>2
<1> QED
  BY <1>1, <1>4 DEF MarketInv, RowsOK, RunOK, Provided

LEMMA MarketStep ==
  ASSUME MarketInv, [MarketNext]_marketVars
  PROVE  MarketInv'
<1>1. CASE UNCHANGED marketVars
  BY <1>1 DEF marketVars, MarketInv, RowsOK, RunOK, Provided, ImportOK, ImportShape, Date
<1>2. CASE ImportDies
  BY <1>2 DEF ImportDies, marketTables, MarketInv, RowsOK, RunOK, Provided, ImportOK, NoImport
<1>3. ASSUME NEW files \in LegacyFiles, NEW replace \in BOOLEAN, StartImport(files, replace)
      PROVE  MarketInv'
  BY <1>3, StartImportKeeps
<1>4. ASSUME NEW t \in Tracker,
             \/ \E quotes \in Quotes : FetchQuotes(t, quotes)
             \/ \E ok \in BOOLEAN : SaveDailyData(t, ok) \/ SaveProjections(t, ok)
             \/ \E ok, shows \in BOOLEAN : SaveSummary(t, ok, shows)
             \/ TrackerDies(t)
      PROVE  MarketInv'
  BY <1>4, FetchQuotesKeeps, SaveDailyDataKeeps, SaveProjectionsKeeps, SaveSummaryKeeps,
     TrackerDiesKeeps
<1> QED
  BY <1>1, <1>2, <1>3, <1>4, HourKeeps, LookKeeps, ImportBarsKeeps, ImportProjectionsKeeps,
     ImportEmbeddedKeeps, ImportSummaryKeeps, NextTableKeeps DEF MarketNext

LEMMA MarketAlways == MarketSpec => []MarketInv
<1>1. MarketInit => MarketInv
  BY MarketInitially
<1>2. MarketInv /\ [MarketNext]_marketVars => MarketInv'
  BY MarketStep
<1> QED
  BY <1>1, <1>2, PTL DEF MarketSpec

(* Every row is of a date and a symbol there are, for any trackers,        *)
(* symbols, files and hours.                                               *)
THEOREM MarketTypes == MarketSpec => []MarketTypeOK
<1>1. MarketInv => MarketTypeOK
  <2> SUFFICES ASSUME MarketInv PROVE MarketTypeOK
    OBVIOUS
  <2>1. Dates(bars) \cup Dates(projections) \cup DOMAIN summaries \subseteq Date
    BY DEF MarketInv, RowsOK, Dates
  <2>2. hour \in Nat
    BY MarketAssumption DEF MarketInv
  <2>3. \A k \in DOMAIN bars : bars[k].at <= hour
    BY <2>2 DEF MarketInv, RowsOK, Provided, Unstamped
  <2> QED
    BY <2>1, <2>3 DEF MarketTypeOK
<1> QED
  BY <1>1, MarketAlways, PTL

(* What a step may do to the tables: a tracker's row stays one, and none of*)
(* the projections becomes one of a summary.                               *)
BarsStay(found) ==
  \A k \in DOMAIN bars : k[1] \in found =>
    k \in DOMAIN bars' /\ (bars'[k] = bars[k] \/ bars'[k].source = "fetch")
ProjectionsStay(found) ==
  \A k \in DOMAIN projections : k[1] \in found =>
    k \in DOMAIN projections' /\ projections'[k] \in {projections[k], "tracker"}
SummariesStay(found) ==
  \A d \in DOMAIN summaries : d \in found =>
    d \in DOMAIN summaries' /\ summaries'[d] \in {summaries[d], "tracker"}
NoneEmbedded(dates) ==
  \A k \in DOMAIN projections' : k[1] \in dates /\ projections'[k] = "embedded" =>
    k \in DOMAIN projections /\ projections[k] = "embedded"

TablesStay ==
  /\ ~import.replace => /\ BarsStay(import.found["bars"])
                        /\ ProjectionsStay(import.found["projections"])
                        /\ SummariesStay(import.found["summaries"])
  /\ NoneEmbedded(import.csv)

LEMMA TrackersStay ==
  ASSUME NEW t \in Tracker,
         \/ \E quotes \in Quotes : FetchQuotes(t, quotes)
         \/ \E ok \in BOOLEAN : SaveDailyData(t, ok) \/ SaveProjections(t, ok)
         \/ \E ok, shows \in BOOLEAN : SaveSummary(t, ok, shows)
         \/ TrackerDies(t)
  PROVE  TablesStay
<1>1. CASE SaveDailyData(t, TRUE)
  <2>1. UNCHANGED <<projections, summaries>>
        /\ bars' = Upsert(bars, BarRows(DateToday, tracked[t].quotes, "fetch"))
    BY <1>1 DEF SaveDailyData
  <2>2. BarsStay(import.found["bars"])
    BY <2>1 DEF Upsert, BarRows, BarsStay
  <2> QED
    BY <2>1, <2>2 DEF TablesStay, ProjectionsStay, SummariesStay, NoneEmbedded
<1>2. CASE SaveProjections(t, TRUE)
  <2>1. UNCHANGED <<bars, summaries>>
        /\ projections' = Upsert(projections,
                             ProjectionRows(DateToday, DOMAIN tracked[t].quotes, "tracker"))
    BY <1>2 DEF SaveProjections
  <2>2. ProjectionsStay(import.found["projections"]) /\ NoneEmbedded(import.csv)
    BY <2>1 DEF Upsert, ProjectionRows, ProjectionsStay, NoneEmbedded
  <2> QED
    BY <2>1, <2>2 DEF TablesStay, BarsStay, SummariesStay
<1>3. CASE \E shows \in BOOLEAN : SaveSummary(t, TRUE, shows)
  <2>1. UNCHANGED <<bars, projections>>
        /\ summaries' = Upsert(summaries, [d \in {DateToday} |-> "tracker"])
    BY <1>3 DEF SaveSummary
  <2>2. SummariesStay(import.found["summaries"])
    BY <2>1 DEF Upsert, SummariesStay
  <2> QED
    BY <2>1, <2>2 DEF TablesStay, BarsStay, ProjectionsStay, NoneEmbedded
<1>4. CASE UNCHANGED <<bars, projections, summaries>>
  BY <1>4 DEF TablesStay, BarsStay, ProjectionsStay, SummariesStay, NoneEmbedded
<1>5. CASE SaveDailyData(t, FALSE) \/ SaveProjections(t, FALSE)
           \/ \E shows \in BOOLEAN : SaveSummary(t, FALSE, shows)
  BY <1>4, <1>5 DEF SaveDailyData, SaveProjections, SaveSummary
<1>6. CASE TrackerDies(t) \/ \E quotes \in Quotes : FetchQuotes(t, quotes)
  BY <1>4, <1>6 DEF TrackerDies, FetchQuotes, marketTables
<1> QED
  BY <1>1, <1>2, <1>3, <1>5, <1>6

(* An import writes under no date it found; and embedded projections under *)
(* none it has read a file of.                                             *)
LEMMA ImportStays ==
  ASSUME MarketInv, import.at \in {"files", "summary"},
         ImportBars \/ ImportProjections \/ ImportEmbedded \/ ImportSummary
  PROVE  TablesStay
<1>1. /\ \A t \in TableName : import.found[t] \subseteq import.existing[t]
      /\ import.csv \subseteq import.existing["projections"]
  BY InFiles
<1>2. CASE ImportBars
  <2>1. /\ UNCHANGED <<projections, summaries>>
        /\ \/ bars' = bars
           \/ /\ ~Skip("bars", FileDate)
              /\ bars' = Upsert(bars, BarRows(FileDate, [s \in Symbol |-> Unstamped], "legacy"))
    BY <1>2 DEF ImportBars
  <2>2. ~import.replace => BarsStay(import.found["bars"])
    BY <1>1, <2>1 DEF Skip, Upsert, BarRows, BarsStay, TableName
  <2> QED
    BY <2>1, <2>2 DEF TablesStay, ProjectionsStay, SummariesStay, NoneEmbedded
<1>3. CASE ImportProjections
  <2>1. /\ UNCHANGED <<bars, summaries>>
        /\ \/ projections' = projections
           \/ /\ ~Skip("projections", FileDate)
              /\ projections' = Upsert(projections, ProjectionRows(FileDate, Symbol, "csv"))
    BY <1>3 DEF ImportProjections
  <2>2. ~import.replace => ProjectionsStay(import.found["projections"])
    BY <1>1, <2>1 DEF Skip, Upsert, ProjectionRows, ProjectionsStay, TableName
  <2>3. NoneEmbedded(import.csv)
    BY <2>1 DEF Upsert, ProjectionRows, NoneEmbedded
  <2> QED
    BY <2>1, <2>2, <2>3 DEF TablesStay, BarsStay, SummariesStay
<1>4. CASE ImportEmbedded
  <2>1. UNCHANGED <<bars, summaries>> /\ NeedsEmbedded(FileDate)
        /\ projections' = Upsert(projections, ProjectionRows(FileDate, Symbol, "embedded"))
    BY <1>4 DEF ImportEmbedded, Embeds
  <2>2. FileDate \notin import.csv /\ (~import.replace => FileDate \notin import.existing["projections"])
    BY <1>1, <2>1 DEF NeedsEmbedded
  <2>3. ~import.replace => ProjectionsStay(import.found["projections"])
    BY <1>1, <2>1, <2>2 DEF Upsert, ProjectionRows, ProjectionsStay, TableName
  <2>4. NoneEmbedded(import.csv)
    BY <2>1, <2>2 DEF Upsert, ProjectionRows, NoneEmbedded
  <2> QED
    BY <2>1, <2>3, <2>4 DEF TablesStay, BarsStay, SummariesStay
<1>5. CASE ImportSummary
  <2>1. /\ UNCHANGED <<bars, projections>>
        /\ \/ summaries' = summaries
           \/ /\ ~Skip("summaries", FileDate)
              /\ summaries' = Upsert(summaries, [d \in {FileDate} |-> "legacy"])
    BY <1>5 DEF ImportSummary
  <2>2. ~import.replace => SummariesStay(import.found["summaries"])
    BY <1>1, <2>1 DEF Skip, Upsert, SummariesStay, TableName
  <2> QED
    BY <2>1, <2>2 DEF TablesStay, BarsStay, ProjectionsStay, NoneEmbedded
<1> QED
  BY <1>2, <1>3, <1>4, <1>5

(* Whatever trackers write while an import goes through its files: without *)
(* replace it overwrites no row of theirs under a date it found at its     *)
(* look, and projections inside a summary replace none of a file.          *)
THEOREM ImportsKeepSnapshots == MarketSpec => ImportKeepsSnapshots
<1> DEFINE Kept ==
      import.at \in {"files", "summary"} =>
        /\ ~import.replace => \A found \in {import.found} :
                                \A table \in {"bars", "projections", "summaries"} :
                                  LiveRows(found)[table] \subseteq LiveRows(found)'[table]
        /\ \A k \in DOMAIN projections' :
             k[1] \in import.csv /\ projections'[k] = "embedded" =>
               k \in DOMAIN projections /\ projections[k] = "embedded"
<1>1. MarketInv /\ [MarketNext]_marketVars => [Kept]_marketVars
  <2> SUFFICES ASSUME MarketInv, MarketNext, import.at \in {"files", "summary"} PROVE Kept
    OBVIOUS
  <2>1. TablesStay
    <3>1. CASE UNCHANGED <<bars, projections, summaries>>
      BY <3>1 DEF TablesStay, BarsStay, ProjectionsStay, SummariesStay, NoneEmbedded
    <3>2. CASE \/ HourPasses \/ Look \/ NextTable \/ ImportDies
               \/ \E files \in LegacyFiles, replaces \in BOOLEAN : StartImport(files, replaces)
      BY <3>1, <3>2 DEF HourPasses, Look, NextTable, ImportDies, StartImport, marketTables
    <3> QED
      BY <3>2, TrackersStay, ImportStays DEF MarketNext
  <2>2. ASSUME ~import.replace, NEW found, found = import.found,
               NEW table \in {"bars", "projections", "summaries"}
        PROVE  LiveRows(found)[table] \subseteq LiveRows(found)'[table]
    <3>1. /\ BarsStay(found["bars"]) /\ ProjectionsStay(found["projections"])
          /\ SummariesStay(found["summaries"])
      BY <2>1, <2>2 DEF TablesStay
    <3>2. CASE table = "bars"
      BY <3>1, <3>2 DEF BarsStay, LiveRows
    <3>3. CASE table = "projections"
      BY <3>1, <3>3 DEF ProjectionsStay, LiveRows
    <3>4. CASE table = "summaries"
      BY <3>1, <3>4 DEF SummariesStay, LiveRows
    <3> QED
      BY <2>2, <3>2, <3>3, <3>4
  <2> QED
    BY <2>1, <2>2 DEF TablesStay, NoneEmbedded
<1> QED
  BY <1>1, MarketAlways, PTL DEF MarketSpec, ImportKeepsSnapshots

(* The order of stored quotes. *)
LEMMA RankIsInts ==
  ASSUME MarketInv, NEW k \in DOMAIN bars
  PROVE  /\ Rank(k)[1] \in Int /\ Rank(k)[2] \in Int /\ Rank(k)[3] \in Int
         /\ bars[k].at \in Int /\ bars[k].at >= -1
<1>1. bars[k].at \in Provided /\ hour \in Nat /\ k[1] \in Nat /\ HoursPerDay \in Nat
  BY MarketAssumption DEF MarketInv, RowsOK, Date
<1>2. k[1] * HoursPerDay \in Int
  BY <1>1
<1> QED
  BY <1>1, <1>2 DEF Rank, Provided, Unstamped

(* The quote shown for a symbol is the newest that the recent snapshots    *)
(* hold, for any number of trackers that overtake each other: a finite set *)
(* that is totally ordered has a greatest member.                          *)
THEOREM LatestQuoteIsNewest == MarketSpec => []LatestIsNewest
<1>1. MarketInv => LatestIsNewest
  <2> SUFFICES ASSUME MarketInv, NEW s \in Symbol
               PROVE  LET recent == {k \in DOMAIN bars :
                                       k[2] = s /\ k[1] \in Newest(Dates(bars), SnapshotLimit)}
                      IN \A k \in recent : \E best \in LatestQuote(s) : bars[k].at <= bars[best].at
    BY DEF LatestIsNewest
  <2> DEFINE recent == {k \in DOMAIN bars :
                          k[2] = s /\ k[1] \in Newest(Dates(bars), SnapshotLimit)}
             R == {p \in recent \X recent : Below(Rank(p[1]), Rank(p[2]))}
  <2> SUFFICES ASSUME NEW k \in recent
               PROVE  \E best \in LatestQuote(s) : bars[k].at <= bars[best].at
    OBVIOUS
  <2>1. recent \subseteq DOMAIN bars
    OBVIOUS
  <2>2. IsFiniteSet(recent)
    <3>1. LastHour \div HoursPerDay \in Int
      BY MarketAssumption
    <3>2. IsFiniteSet(Date)
      BY <3>1, FS_Interval DEF Date
    <3>3. IsFiniteSet(Date \X Symbol)
      BY <3>2, MarketAssumption, FS_Product
    <3>4. recent \in SUBSET (Date \X Symbol)
      BY <2>1 DEF MarketInv, RowsOK
    <3> QED
      BY <3>3, <3>4, FS_Subset
  <2> HIDE DEF recent
  <2>3. /\ \A a, b \in recent : <<a, b>> \in R \/ <<b, a>> \in R
        /\ \A a, b, c \in recent : <<a, b>> \in R /\ <<b, c>> \in R => <<a, c>> \in R
    <3>1. \A a \in recent : Rank(a)[1] \in Int /\ Rank(a)[2] \in Int /\ Rank(a)[3] \in Int
      BY <2>1, RankIsInts
    <3>2. \A a, b \in recent : Below(Rank(a), Rank(b)) \/ Below(Rank(b), Rank(a))
      BY <3>1 DEF Below
    <3>3. \A a, b, c \in recent :
            Below(Rank(a), Rank(b)) /\ Below(Rank(b), Rank(c)) => Below(Rank(a), Rank(c))
      BY <3>1 DEF Below
    <3> QED
      BY <3>2, <3>3
  <2>4. PICK best \in recent : \A o \in recent : <<o, best>> \in R
    <3> HIDE DEF R
    <3> QED BY <2>2, <2>3, Greatest
  <2>5. \A o \in recent : Below(Rank(o), Rank(best))
    BY <2>4
  <2>6. best \in LatestQuote(s)
    BY <2>5 DEF LatestQuote, recent
  <2>7. bars[k].at <= bars[best].at
    <3>1. Below(Rank(k), Rank(best)) /\ k \in DOMAIN bars /\ best \in DOMAIN bars
      BY <2>1, <2>5
    <3>2. bars[k].at \in Int /\ bars[k].at >= -1 /\ bars[best].at \in Int /\ bars[best].at >= -1
      BY <3>1, RankIsInts
    <3> QED
      BY <3>1, <3>2 DEF Rank, Below, Unstamped
  <2> QED
    BY <2>6, <2>7
<1> QED
  BY <1>1, MarketAlways, PTL

--------------------------------------------------------------------------------
(*****************************************************************************)
(* Samples of a backtest. BarOK and ProjectionOK say what a row that names   *)
(* its session or its time can be relied on for; the rest is arithmetic of   *)
(* the calendar.                                                             *)
(*****************************************************************************)

(* Days at which the calendar has sessions before. *)
LEMMA MaxOf ==
  ASSUME NEW S \in SUBSET Nat, IsFiniteSet(S), S # {}
  PROVE  Max(S) \in S /\ \A x \in S : x <= Max(S)
<1>1. PICK m \in S : \A x \in S : x <= m
  BY GreatestInt
<1>2. \A x \in S : m >= x
  BY <1>1
<1> QED
  BY <1>1, <1>2 DEF Max

(* The day of the first instant.                                           *)
FirstDay == FirstInstant \div 2

(* The calendar is finite, and two sessions of it are over before the      *)
(* first instant.                                                          *)
LEMMA Calendar ==
  /\ Sessions \in SUBSET Nat /\ IsFiniteSet(Sessions)
  /\ FirstDay \in Nat
  /\ \E s, t \in Sessions : s < t /\ t < FirstDay
BY BacktestAssumption DEF FirstDay

(* The session at or before a day is the last one that is not after it.    *)
LEMMA BeforeOrAt ==
  ASSUME NEW d \in Nat, \E t \in Sessions : t <= d
  PROVE  /\ SessionAtOrBefore(d) \in Sessions /\ SessionAtOrBefore(d) <= d
         /\ \A t \in Sessions : t <= d <=> t <= SessionAtOrBefore(d)
<1> DEFINE S == {t \in Sessions : t <= d}
<1>1. S \in SUBSET Nat /\ IsFiniteSet(S) /\ S # {}
  BY Calendar, FS_Subset
<1>2. Max(S) \in S /\ \A x \in S : x <= Max(S)
  <2> HIDE DEF S
  <2> QED BY <1>1, MaxOf
<1>3. \A t \in Sessions : t \in Nat
  BY Calendar
<1> QED
  BY <1>2, <1>3 DEF SessionAtOrBefore

(* The previous session is the last one before the day.                    *)
LEMMA SessionBefore ==
  ASSUME NEW d \in Nat, \E t \in Sessions : t < d
  PROVE  /\ PreviousSession(d) \in Sessions /\ PreviousSession(d) < d
         /\ \A t \in Sessions : t < d <=> t <= PreviousSession(d)
<1> DEFINE S == {t \in Sessions : t < d}
<1>1. S \in SUBSET Nat /\ IsFiniteSet(S) /\ S # {}
  BY Calendar, FS_Subset
<1>2. Max(S) \in S /\ \A x \in S : x <= Max(S)
  <2> HIDE DEF S
  <2> QED BY <1>1, MaxOf
<1>3. \A t \in Sessions : t \in Nat
  BY Calendar
<1> QED
  BY <1>2, <1>3 DEF PreviousSession

(* A day has two instants, before and after its close.                     *)
LEMMA Days ==
  ASSUME NEW i \in Nat
  PROVE  DayOf(i) \in Nat /\ 2 * DayOf(i) <= i /\ i < 2 * DayOf(i) + 2
BY DEF DayOf

(* The last completed session is the last one whose close is not ahead. *)
LEMMA LastCompleted ==
  ASSUME NEW i \in Nat, FirstInstant <= i
  PROVE  /\ LastCompletedSession(i) \in Sessions
         /\ \A t \in Sessions : i < CloseOf(t) <=> LastCompletedSession(i) < t
<1> DEFINE c == SessionAtOrBefore(DayOf(i))
<1>1. DayOf(i) \in Nat /\ 2 * DayOf(i) <= i /\ i < 2 * DayOf(i) + 2 /\ FirstDay <= DayOf(i)
  BY Days, BacktestAssumption DEF DayOf, FirstDay
<1>2. PICK r, s \in Sessions : r < s /\ s < FirstDay
  BY Calendar
<1>3. r \in Nat /\ s \in Nat /\ FirstDay \in Nat /\ \A t \in Sessions : t \in Nat
  BY Calendar
<1>4. s <= DayOf(i)
  BY <1>1, <1>2, <1>3
<1>5. c \in Sessions /\ c \in Nat /\ c <= DayOf(i) /\ \A t \in Sessions : t <= DayOf(i) <=> t <= c
  BY <1>1, <1>3, <1>4, BeforeOrAt
<1> HIDE DEF c
<1>6. CASE CloseOf(c) <= i
  <2>1. LastCompletedSession(i) = c
    BY <1>6 DEF LastCompletedSession, c
  <2>2. \A t \in Sessions : i < 2 * t + 1 <=> c < t
    BY <1>1, <1>3, <1>5, <1>6 DEF CloseOf
  <2> QED
    BY <1>5, <2>1, <2>2 DEF CloseOf
<1>7. CASE ~(CloseOf(c) <= i)
  <2>1. LastCompletedSession(i) = PreviousSession(c)
    BY <1>7 DEF LastCompletedSession, c
  <2>2. s < c
    BY <1>1, <1>2, <1>3, <1>4, <1>5, <1>7 DEF CloseOf
  <2>3. PreviousSession(c) \in Sessions /\ PreviousSession(c) < c
        /\ \A t \in Sessions : t < c <=> t <= PreviousSession(c)
    BY <1>5, <2>2, SessionBefore
  <2>4. \A t \in Sessions : i < 2 * t + 1 <=> PreviousSession(c) < t
    <3> TAKE t \in Sessions
    <3>1. t \in Nat /\ PreviousSession(c) \in Nat /\ i < 2 * c + 1
      <4>1. CloseOf(c) = 2 * c + 1 /\ CloseOf(c) \in Nat
        BY <1>5 DEF CloseOf
      <4>2. i < CloseOf(c)
        BY <1>7, <4>1
      <4> QED
        BY <1>3, <2>3, <4>1, <4>2
    <3>2. CASE t < c
      BY <1>1, <1>5, <2>3, <3>1, <3>2
    <3>3. CASE ~(t < c)
      BY <1>1, <1>5, <2>3, <3>1, <3>3
    <3> QED
      BY <3>2, <3>3
  <2> QED
    BY <2>1, <2>3, <2>4 DEF CloseOf
<1> QED
  BY <1>6, <1>7

(* Of a finite set of numbers with n members one has n up to it. *)
LEMMA CountedUp ==
  ASSUME NEW T \in SUBSET Nat, IsFiniteSet(T), NEW n \in Nat \ {0}, n <= Cardinality(T)
  PROVE  \E s \in T : Cardinality({t \in T : t <= s}) = n
<1> DEFINE UpToIt(s) == {t \in T : t <= s}
           S == {s \in T : Cardinality(UpToIt(s)) >= n}
<1>1. \A s \in T : IsFiniteSet(UpToIt(s)) /\ Cardinality(UpToIt(s)) \in Nat
  <2> TAKE s \in T
  <2>1. UpToIt(s) \in SUBSET T
    OBVIOUS
  <2> QED
    BY <2>1, FS_Subset, FS_CardinalityType
<1>2. T # {} /\ Cardinality(T) \in Nat
  BY FS_EmptySet, FS_CardinalityType
<1>3. PICK m \in T : \A x \in T : x <= m
  BY <1>2, GreatestInt
<1>4. UpToIt(m) = T
  BY <1>3
<1>5. m \in S
  BY <1>4
<1>6. PICK s \in S : \A x \in S : s <= x
  <2>1. S \in SUBSET Nat /\ S # {}
    BY <1>5
  <2> HIDE DEF S
  <2> QED BY <2>1, LeastNat
<1>7. s \in T /\ s \in Nat /\ Cardinality(UpToIt(s)) >= n
  OBVIOUS
<1>8. CASE Cardinality(UpToIt(s)) > n
  <2> DEFINE Less == UpToIt(s) \ {s}
  <2>1. IsFiniteSet(Less) /\ Cardinality(Less) = Cardinality(UpToIt(s)) - 1
    <3>1. s \in UpToIt(s)
      BY <1>7
    <3> HIDE DEF UpToIt
    <3> QED
      BY <1>1, <1>7, <3>1, FS_RemoveElement
  <2>2. Cardinality(Less) \in Nat /\ Cardinality(Less) >= n /\ Cardinality(Less) # 0
    <3>1. Cardinality(UpToIt(s)) \in Nat
      BY <1>1, <1>7
    <3> HIDE DEF UpToIt, Less
    <3> QED BY <1>8, <2>1, <3>1
  <2>3. Less # {} /\ Less \in SUBSET Nat
    <3>1. Less \in SUBSET Nat
      OBVIOUS
    <3> HIDE DEF Less
    <3> QED BY <2>2, <3>1, FS_EmptySet
  <2>4. PICK x \in Less : \A y \in Less : y <= x
    <3>1. Less \in SUBSET Int
      BY <2>3
    <3> HIDE DEF Less
    <3> QED BY <2>1, <2>3, <3>1, GreatestInt
  <2>5. x \in T /\ x < s /\ UpToIt(x) = Less
    <3>1. x \in T /\ x \in Nat /\ x <= s /\ x # s
      BY <2>4
    <3>2. \A t \in T : t <= x <=> t \in Less
      <4> TAKE t \in T
      <4>1. t \in Less <=> t <= s /\ t # s
        OBVIOUS
      <4>2. t \in Less => t <= x
        BY <2>4
      <4> QED
        BY <1>7, <3>1, <4>1, <4>2
    <3>3. Less \subseteq T
      OBVIOUS
    <3>4. {t \in T : t <= x} = Less
      <4> HIDE DEF Less
      <4> QED BY <3>2, <3>3
    <3>5. x < s
      BY <1>7, <3>1
    <3> QED
      BY <3>1, <3>4, <3>5
  <2>6. x \in S
    BY <2>2, <2>5
  <2>7. s <= x
    BY <1>6, <2>6
  <2> QED
    BY <1>7, <2>5, <2>7
<1>9. CASE ~(Cardinality(UpToIt(s)) > n)
  <2>1. Cardinality(UpToIt(s)) \in Nat
    BY <1>1, <1>7
  <2>2. Cardinality(UpToIt(s)) = n
    <3> HIDE DEF UpToIt
    <3> QED BY <1>7, <1>9, <2>1
  <2> QED
    BY <1>7, <2>2
<1> QED
  BY <1>8, <1>9

(* The calendar goes far enough to tell the session a projection is for. *)
LEMMA TargetExists ==
  ASSUME NEW d \in RowDate, \E t \in Sessions : t <= d, NEW n \in 1..Horizon
  PROVE  /\ TradingSessionAfter(d, n) \in Sessions
         /\ Cardinality({t \in Sessions : SessionAtOrBefore(d) < t /\ t <= TradingSessionAfter(d, n)}) = n
<1> DEFINE b == SessionAtOrBefore(d)
           T == {t \in Sessions : b < t}
           Later == {s \in Sessions : LastInstant < 2 * s}
<1>1. d \in Nat /\ 2 * d <= LastInstant /\ LastInstant \in Nat /\ Horizon \in Nat
  BY BacktestAssumption DEF RowDate
<1>2. b \in Sessions /\ b <= d /\ b \in Nat
  BY <1>1, BeforeOrAt, Calendar
<1>3. T \in SUBSET Nat /\ IsFiniteSet(T) /\ T \in SUBSET Sessions
  BY Calendar, FS_Subset
<1>4. Later \in SUBSET T
  <2>1. ASSUME NEW s \in Sessions, LastInstant < 2 * s PROVE b < s
    <3>1. s \in Nat
      BY Calendar
    <3> HIDE DEF b
    <3> QED
      BY <1>1, <1>2, <2>1, <3>1
  <2> QED
    BY <2>1
<1>5. Cardinality(Later) >= Horizon
  BY BacktestAssumption
<1>6. n \in Nat \ {0} /\ n <= Cardinality(T)
  <2>1. Cardinality(Later) <= Cardinality(T) /\ IsFiniteSet(Later)
    BY <1>3, <1>4, FS_Subset
  <2>2. Cardinality(Later) \in Nat /\ Cardinality(T) \in Nat
    BY <1>3, <2>1, FS_CardinalityType
  <2> HIDE DEF Later, T
  <2> QED
    BY <1>1, <1>5, <2>1, <2>2
<1>7. PICK s \in T : Cardinality({t \in T : t <= s}) = n
  <2> HIDE DEF T
  <2> QED BY <1>3, <1>6, CountedUp
<1>8. {t \in T : t <= s} = {t \in Sessions : b < t /\ t <= s}
  OBVIOUS
<1>9. \E u \in Sessions : Cardinality({t \in Sessions : b < t /\ t <= u}) = n
  BY <1>7, <1>8
<1> QED
  BY <1>9 DEF TradingSessionAfter

(* A row that is verified holds the official close of the session it names; *)
BarOK(d) ==
  LET row == barRows[d]
  IN row # Unknown /\ row.session # Unknown =>
       /\ row.official = row.session
       /\ row.session \in Sessions /\ row.session < d

(* a projection is saved on the day it was made, or later.                 *)
MadeBy(p, day) ==
  /\ p.made \in Nat /\ FirstInstant <= p.made /\ p.made < 2 * day + 2
  /\ p.generatedAt \in {p.made, Unknown}

ProjectionOK(d) ==
  projectionRows[d] # Unknown => FirstDay <= d /\ MadeBy(projectionRows[d], d)

(* The instant, the quotes and the rows; MadeBy of the projection in hand  *)
(* is what saving it later rests on.                                       *)
BacktestInv ==
  /\ instant \in FirstInstant..LastInstant
  /\ quotedOn \in Sessions /\ 2 * quotedOn <= instant
  /\ DOMAIN barRows = RowDate /\ \A d \in RowDate : BarOK(d)
  /\ DOMAIN projectionRows = RowDate /\ \A d \in RowDate : ProjectionOK(d)
  /\ projected # Unknown => MadeBy(projected, DayOf(instant))

(* What an instant within the bounds means for its day.                    *)
LEMMA InstantIs ==
  ASSUME instant \in FirstInstant..LastInstant
  PROVE  /\ instant \in Nat /\ DayOf(instant) \in Nat /\ DayOf(instant) \in RowDate
         /\ FirstDay <= DayOf(instant)
         /\ 2 * DayOf(instant) <= instant /\ instant < 2 * DayOf(instant) + 2
BY BacktestAssumption DEF DayOf, RowDate, FirstDay

(* From the first day on there is a session before.                        *)
LEMMA PreviousIs ==
  ASSUME NEW day \in Nat, FirstDay <= day
  PROVE  PreviousSession(day) \in Sessions /\ PreviousSession(day) < day
         /\ SessionAtOrBefore(day) \in Sessions /\ SessionAtOrBefore(day) <= day
<1>1. \E t \in Sessions : t < day /\ t <= day
  <2>1. PICK r, s \in Sessions : r < s /\ s < FirstDay
    BY Calendar
  <2>2. s \in Nat /\ FirstDay \in Nat
    BY Calendar
  <2> QED
    BY <2>1, <2>2
<1> QED
  BY <1>1, SessionBefore, BeforeOrAt

LEMMA BacktestInitially ==
  ASSUME BacktestInit
  PROVE  BacktestInv
<1> DEFINE d == DayOf(FirstInstant) - 1
           c == SessionAtOrBefore(d)
<1>1. PICK r, s \in Sessions : r < s /\ s < FirstDay
  BY Calendar
<1>2. r \in Nat /\ s \in Nat /\ FirstDay \in Nat /\ d = FirstDay - 1 /\ d \in Nat /\ s <= d
      /\ 2 * d <= FirstInstant
  BY <1>1, Calendar, BacktestAssumption DEF DayOf, FirstDay
<1> HIDE DEF d
<1>3. c \in Sessions /\ c \in Nat /\ c <= d /\ s <= c
  BY <1>2, BeforeOrAt, Calendar
<1>4. \E t \in Sessions : t < c
  BY <1>1, <1>2, <1>3
<1>5. PreviousSession(c) \in Sessions /\ PreviousSession(c) < c /\ PreviousSession(c) \in Nat
  BY <1>3, <1>4, SessionBefore, Calendar
<1>6. quotedOn \in {c, PreviousSession(c)}
  BY DEF BacktestInit, d
<1> HIDE DEF c
<1>7. quotedOn \in Sessions /\ quotedOn \in Nat /\ quotedOn <= d
  BY <1>2, <1>3, <1>5, <1>6
<1>8. instant = FirstInstant /\ instant \in FirstInstant..LastInstant
  BY BacktestAssumption DEF BacktestInit
<1>9. 2 * quotedOn <= instant
  BY <1>2, <1>7, <1>8, BacktestAssumption
<1> QED
  BY <1>7, <1>8, <1>9 DEF BacktestInit, BacktestInv, BarOK, ProjectionOK

LEMMA InstantKeeps ==
  ASSUME BacktestInv, InstantPasses
  PROVE  BacktestInv'
<1>1. instant \in Nat /\ DayOf(instant) \in Nat /\ instant' = instant + 1 /\ instant < LastInstant
      /\ UNCHANGED <<quotedOn, barRows, projectionRows, projected>>
  BY InstantIs DEF BacktestInv, InstantPasses
<1>2. instant' \in FirstInstant..LastInstant
  BY <1>1, BacktestAssumption DEF BacktestInv
<1>3. DayOf(instant) <= DayOf(instant') /\ DayOf(instant') \in Nat
  BY <1>1 DEF DayOf
<1>4. 2 * quotedOn' <= instant'
  BY <1>1, Calendar DEF BacktestInv
<1>5. projected # Unknown => MadeBy(projected, DayOf(instant'))
  BY <1>1, <1>3 DEF BacktestInv, MadeBy
<1> QED
  BY <1>1, <1>2, <1>4, <1>5 DEF BacktestInv, BarOK, ProjectionOK

LEMMA TradesKeeps ==
  ASSUME BacktestInv, Trades
  PROVE  BacktestInv'
<1>1. quotedOn' = DayOf(instant) /\ quotedOn' \in Sessions /\ 2 * quotedOn' <= instant
  BY InstantIs DEF BacktestInv, Trades
<1> QED
  BY <1>1 DEF BacktestInv, Trades, BarOK, ProjectionOK, MadeBy, DayOf

LEMMA CollectBarKeeps ==
  ASSUME BacktestInv, NEW pc \in PreviousCloses(DayOf(instant), quotedOn) \cup {Unknown},
         CollectBar(pc)
  PROVE  BacktestInv'
<1> DEFINE day == DayOf(instant)
           row == BarRow(pc)
<1>1. day \in RowDate /\ day \in Nat /\ FirstDay <= day
  BY InstantIs DEF BacktestInv
<1>2. row.session # Unknown => row.official = row.session /\ row.session = PreviousSession(day)
  <2>1. CASE pc # Unknown /\ Qualifies(day, quotedOn)
    <3>1. row = [close |-> CurrentPrice, final |-> 1, session |-> PreviousSession(day), official |-> pc]
      BY <2>1 DEF BarRow
    <3>2. pc = PreviousSession(day)
      BY <2>1 DEF Qualifies, PreviousCloses
    <3> QED
      BY <3>1, <3>2
  <2>2. CASE ~(pc # Unknown /\ Qualifies(day, quotedOn))
    <3>1. row = [close |-> CurrentPrice, final |-> 0, session |-> Unknown, official |-> Unknown]
      BY <2>2 DEF BarRow
    <3> QED
      BY <3>1
  <2> QED
    BY <2>1, <2>2
<1>3. PreviousSession(day) \in Sessions /\ PreviousSession(day) < day
  BY <1>1, PreviousIs
<1> HIDE DEF row, day
<1>4. /\ DOMAIN barRows' = RowDate
      /\ \A d \in RowDate : barRows'[d] = IF d = day THEN row ELSE barRows[d]
      /\ UNCHANGED <<instant, quotedOn, projectionRows, projected>>
  BY DEF CollectBar, BacktestInv, row, day
<1>5. \A d \in RowDate : BarOK(d)'
  BY <1>2, <1>3, <1>4 DEF BacktestInv, BarOK
<1> QED
  BY <1>4, <1>5 DEF BacktestInv, ProjectionOK

LEMMA ImportBarKeeps ==
  ASSUME BacktestInv, NEW day \in RowDate, NEW close, ImportBar(day, close)
  PROVE  BacktestInv'
<1>1. LegacyRow(close).session = Unknown
  BY DEF LegacyRow
<1>2. /\ DOMAIN barRows' = RowDate
      /\ \A d \in RowDate : barRows'[d] = IF d = day THEN LegacyRow(close) ELSE barRows[d]
      /\ UNCHANGED <<instant, quotedOn, projectionRows, projected>>
  BY DEF ImportBar, BacktestInv
<1>3. \A d \in RowDate : BarOK(d)'
  BY <1>1, <1>2 DEF BacktestInv, BarOK
<1> QED
  BY <1>2, <1>3 DEF BacktestInv, ProjectionOK

LEMMA GenerateKeeps ==
  ASSUME BacktestInv, NEW stamped \in BOOLEAN, GenerateProjection(stamped)
  PROVE  BacktestInv'
<1>1. instant \in Nat /\ FirstInstant <= instant /\ instant < 2 * DayOf(instant) + 2
  BY InstantIs DEF BacktestInv
<1>2. MadeBy(projected', DayOf(instant)) /\ UNCHANGED <<instant, quotedOn, barRows, projectionRows>>
  BY <1>1 DEF GenerateProjection, MadeBy
<1> QED
  BY <1>2 DEF BacktestInv, BarOK, ProjectionOK

LEMMA SaveProjectionKeeps ==
  ASSUME BacktestInv, SaveProjection
  PROVE  BacktestInv'
<1> DEFINE day == DayOf(instant)
<1>1. day \in RowDate /\ FirstDay <= day
  BY InstantIs DEF BacktestInv
<1>2. MadeBy(projected, day)
  BY DEF SaveProjection, BacktestInv
<1> HIDE DEF day
<1>3. /\ DOMAIN projectionRows' = RowDate
      /\ \A d \in RowDate : projectionRows'[d] = IF d = day THEN projected ELSE projectionRows[d]
      /\ projected' = Unknown /\ UNCHANGED <<instant, quotedOn, barRows>>
  BY DEF SaveProjection, BacktestInv, day
<1>4. \A d \in RowDate : ProjectionOK(d)'
  BY <1>1, <1>2, <1>3 DEF BacktestInv, ProjectionOK
<1> QED
  BY <1>3, <1>4 DEF BacktestInv, BarOK

LEMMA BacktestStep ==
  ASSUME BacktestInv, [BacktestNext]_backtestVars
  PROVE  BacktestInv'
<1>1. CASE UNCHANGED backtestVars
  BY <1>1 DEF backtestVars, BacktestInv, BarOK, ProjectionOK, MadeBy, DayOf
<1> QED
  BY <1>1, InstantKeeps, TradesKeeps, CollectBarKeeps, ImportBarKeeps, GenerateKeeps,
     SaveProjectionKeeps
  DEF BacktestNext

LEMMA BacktestAlways == BacktestSpec => []BacktestInv
<1>1. BacktestInit => BacktestInv
  BY BacktestInitially
<1>2. BacktestInv /\ [BacktestNext]_backtestVars => BacktestInv'
  BY BacktestStep
<1> QED
  BY <1>1, <1>2, PTL DEF BacktestSpec

(* The session a saved projection is for was still ahead when it was made. *)
LEMMA TargetAhead ==
  ASSUME NEW d \in RowDate, FirstDay <= d, NEW p, MadeBy(p, d)
  PROVE  LET target == TargetSession(p, d)
         IN /\ target \in Sessions /\ p.made < CloseOf(target)
            /\ p.generatedAt # Unknown =>
                 Cardinality({t \in Sessions : p.made < CloseOf(t) /\ t <= target}) = Horizon
<1> DEFINE target == TargetSession(p, d)
<1>1. /\ p.made \in Nat /\ FirstInstant <= p.made /\ p.made < 2 * d + 2
      /\ p.generatedAt \in {p.made, Unknown} /\ d \in Nat
  BY BacktestAssumption DEF MadeBy, RowDate
<1>2. Horizon \in 1..Horizon /\ Horizon # 0 /\ Horizon \in Nat
  BY BacktestAssumption
<1>3. \E t \in Sessions : t <= d
  BY <1>1, PreviousIs
<1>4. CASE p.generatedAt # Unknown
  <2> DEFINE L == LastCompletedSession(p.made)
  <2>1. L \in Sessions /\ \A t \in Sessions : p.made < CloseOf(t) <=> L < t
    BY <1>1, LastCompleted
  <2>2. L \in Nat /\ 2 * L + 1 <= p.made
    <3>1. L \in Nat /\ ~(L < L)
      <4> HIDE DEF L
      <4>1. L \in Nat
        BY <2>1, Calendar
      <4> QED
        BY <4>1
    <3>2. ~(p.made < CloseOf(L)) /\ CloseOf(L) = 2 * L + 1
      BY <2>1, <3>1 DEF CloseOf
    <3> HIDE DEF L
    <3> QED
      BY <1>1, <3>1, <3>2
  <2>3. target = TradingSessionAfter(L, Horizon)
    BY <1>1, <1>4 DEF TargetSession
  <2> HIDE DEF L, target
  <2>4. L \in RowDate /\ \E t \in Sessions : t <= L
    <3>1. L <= d
      BY <1>1, <2>2
    <3>2. d <= LastInstant \div 2 /\ LastInstant \div 2 \in Nat
      BY BacktestAssumption DEF RowDate
    <3> QED
      BY <1>1, <2>1, <2>2, <3>1, <3>2 DEF RowDate
  <2>5. SessionAtOrBefore(L) = L
    <3>1. SessionAtOrBefore(L) \in Sessions /\ SessionAtOrBefore(L) <= L /\ L <= SessionAtOrBefore(L)
      BY <2>1, <2>2, <2>4, BeforeOrAt
    <3>2. SessionAtOrBefore(L) \in Nat /\ L \in Nat
      BY <2>2, <3>1, Calendar
    <3> QED
      BY <3>1, <3>2
  <2>6. target \in Sessions /\ Cardinality({t \in Sessions : L < t /\ t <= target}) = Horizon
    BY <1>2, <2>3, <2>4, <2>5, TargetExists
  <2>7. {t \in Sessions : L < t /\ t <= target}
          = {t \in Sessions : p.made < CloseOf(t) /\ t <= target}
    BY <2>1
  <2>8. L < target
    <3>1. PICK t \in Sessions : L < t /\ t <= target
      <4>1. {t \in Sessions : L < t /\ t <= target} # {}
        BY <1>2, <2>6, FS_EmptySet
      <4> QED
        BY <4>1
    <3> QED
      BY <2>2, <2>6, <3>1, Calendar
  <2> QED
    BY <2>1, <2>6, <2>7, <2>8 DEF target
<1>5. CASE p.generatedAt = Unknown
  <2>1. target = TradingSessionAfter(d, Horizon)
    BY <1>5 DEF TargetSession
  <2> DEFINE b == SessionAtOrBefore(d)
  <2> HIDE DEF target
  <2>2. target \in Sessions /\ Cardinality({t \in Sessions : b < t /\ t <= target}) = Horizon
    BY <1>2, <1>3, <2>1, TargetExists
  <2>3. PICK t \in Sessions : b < t /\ t <= target
    <3>1. {t \in Sessions : b < t /\ t <= target} # {}
      <4> HIDE DEF b
      <4> QED BY <1>2, <2>2, FS_EmptySet
    <3> QED
      BY <3>1
  <2>4. b \in Sessions /\ \A u \in Sessions : u <= d <=> u <= b
    BY <1>1, <1>3, BeforeOrAt
  <2>5. t \in Nat /\ target \in Nat /\ b \in Nat
    BY <2>2, <2>3, <2>4, Calendar
  <2> HIDE DEF b
  <2>6. d < target
    BY <1>1, <2>2, <2>3, <2>4, <2>5
  <2>7. p.made < CloseOf(target)
    BY <1>1, <2>5, <2>6 DEF CloseOf
  <2> QED
    BY <1>5, <2>2, <2>7 DEF target
<1> QED
  BY <1>4, <1>5

(* Rows are kept per day; quotes are of a session that was, for any        *)
(* calendar, horizon and instants.                                         *)
THEOREM BacktestTypes == BacktestSpec => []BacktestTypeOK
<1>1. BacktestInv => BacktestTypeOK
  BY DEF BacktestInv, BarOK, BacktestTypeOK
<1> QED
  BY <1>1, BacktestAlways, PTL

(* A sample that qualifies a report is compared with the official close of *)
(* its target session, that close was ahead when the projection was made,  *)
(* and Horizon sessions close from then to there, for any calendar that    *)
(* covers the instants and any Horizon.                                    *)
THEOREM VerifiedSamplesFair == BacktestSpec => []VerifiedSamplesAreFair
<1>1. BacktestInv => VerifiedSamplesAreFair
  <2> SUFFICES ASSUME BacktestInv, NEW s \in Samples(TRUE)
               PROVE  /\ s.actual = s.target
                      /\ s.projection.made < CloseOf(s.target)
                      /\ s.projection.generatedAt # Unknown =>
                           Cardinality({t \in Sessions : /\ s.projection.made < CloseOf(t)
                                                         /\ t <= s.target}) = Horizon
    BY DEF VerifiedSamplesAreFair
  <2>1. PICK d \in RowDate, e \in CloseMap(TRUE) :
          /\ projectionRows[d] # Unknown /\ e.session = TargetSession(projectionRows[d], d)
          /\ s = [projection |-> projectionRows[d], target |-> e.session, actual |-> e.price]
    BY DEF Samples
  <2>2. PICK day \in RowDate : Counted(barRows[day], TRUE) /\ e = Entry(day, barRows[day])
    BY <2>1 DEF CloseMap
  <2>3. barRows[day] # Unknown /\ barRows[day].session # Unknown /\ HasProvenance(barRows[day])
    BY <2>2 DEF Counted, HasProvenance
  <2>4. e.session = barRows[day].session /\ e.price = barRows[day].official
    BY <2>2, <2>3 DEF Entry
  <2>5. e.price = e.session
    BY <2>2, <2>3, <2>4 DEF BacktestInv, BarOK
  <2>6. FirstDay <= d /\ MadeBy(projectionRows[d], d)
    BY <2>1 DEF BacktestInv, ProjectionOK
  <2>7. s.projection = projectionRows[d] /\ s.target = e.session /\ s.actual = e.price
    BY <2>1
  <2>8. s.target = TargetSession(s.projection, d)
    BY <2>1, <2>7
  <2> QED
    BY <2>5, <2>6, <2>7, <2>8, TargetAhead
<1> QED
  BY <1>1, BacktestAlways, PTL

================================================================================
