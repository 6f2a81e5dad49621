------------------------------ MODULE SymbolPrices ------------------------------
(***************************************************************************)
(* The quotes of the symbol picker, useSymbolPrices.ts: calls of           *)
(* fetchPricesFor queue up on one chain of promises, each asks for its     *)
(* symbols in batches with a gap between them, and a symbol is shown as    *)
(* loading from the call until its batch, or the call, is over.            *)
(*                                                                         *)
(* What React was given by setState (`given`) and what the last render saw *)
(* (`shown`, and the refs set in it) differ until the next render.  Times  *)
(* are ages that stop at the limit they are compared with.  A step runs    *)
(* until the code awaits.  Quote metadata and the set of attempted symbols *)
(* only decide what is displayed and are left out.                         *)
(***************************************************************************)
EXTENDS Naturals, Sequences, FiniteSets

CONSTANTS ShownSymbol,  \* symbols of the picker
          BatchSize,    \* MAX_BATCH
          BatchGap,     \* BATCH_GAP_MS
          FailedRetry,  \* FAILED_RETRY_MS
          MaxQueued     \* bound: calls on the chain

VARIABLES
  given,             \* prices, pricingPending, quotesUnavailable, apiReady as set
  shown,             \* the same as rendered
  unavailableNow,    \* quotesUnavailableRef
  chain,             \* calls waiting, each a set of symbols
  call,              \* the call that runs
  failedAge,         \* symbol -> age of its failure, FailedRetry if there is none
  batchAge,          \* age of the last batch
  mounted

priceVars == <<given, shown, unavailableNow, chain, call, failedAge, batchAge, mounted>>

NoCall == [at |-> "none", queued |-> {}, left |-> {}, batch |-> {}]
--------------------------------------------------------------------------------
(* A slip: a variant of a definition below with a plausible bug in it.     *)
SlipKeepLoading(queued, pending) == pending

PricesInit ==
  /\ given = [prices |-> {}, pending |-> {}, unavailable |-> FALSE, ready |-> FALSE]
  /\ shown = given
  /\ unavailableNow = FALSE
  /\ chain = <<>>
  /\ call = NoCall
  /\ failedAge = [s \in ShownSymbol |-> FailedRetry]
  /\ batchAge = BatchGap
  /\ mounted = TRUE

(* inflightRef: only the call that runs has a batch in flight. *)
Inflight == IF call.at = "asked" THEN call.batch ELSE {}

(* isFetchBlocked and the price of the last render. *)
Wanted(symbols, failed) ==
  {s \in symbols : s \notin shown.prices \cup Inflight /\ failed[s] = FailedRetry}

(* The health check of the first render: a failure clears nothing.         *)
ProbeAnswers(ok) ==
  /\ mounted /\ ~given.ready
  /\ given' = [given EXCEPT !.ready = TRUE, !.unavailable = @ \/ ~ok]
  /\ failedAge' = IF ok THEN [s \in ShownSymbol |-> FailedRetry] ELSE failedAge
  /\ UNCHANGED <<shown, unavailableNow, chain, call, batchAge, mounted>>

Render ==
  /\ mounted /\ <<shown, unavailableNow>> # <<given, given.unavailable>>
  /\ shown' = given
  /\ unavailableNow' = given.unavailable
  /\ UNCHANGED <<given, chain, call, failedAge, batchAge, mounted>>

Unmount ==
  /\ mounted
  /\ mounted' = FALSE
  /\ UNCHANGED <<given, shown, unavailableNow, chain, call, failedAge, batchAge>>

(* mergePrices: the quotes saved with the catalogue. *)
MergePrice(s) ==
  /\ given' = [given EXCEPT !.prices = @ \cup {s}]
  /\ UNCHANGED <<shown, unavailableNow, chain, call, failedAge, batchAge, mounted>>

Enqueue(symbols, failed) ==
  LET queued == Wanted(symbols, failed)
  IN IF mounted /\ shown.ready /\ ~shown.unavailable /\ queued # {}
     THEN /\ chain' = Append(chain, queued)
          /\ given' = [given EXCEPT !.pending = @ \cup queued]
     ELSE UNCHANGED <<chain, given>>

FetchPricesFor(symbols) ==
  /\ Len(chain) < MaxQueued
  /\ Enqueue(symbols, failedAge)
  /\ UNCHANGED <<shown, unavailableNow, call, failedAge, batchAge, mounted>>

RetryPriceFor(s) ==
  /\ Len(chain) < MaxQueued
  /\ failedAge' = [failedAge EXCEPT ![s] = FailedRetry]
  /\ Enqueue({s}, failedAge')
  /\ UNCHANGED <<shown, unavailableNow, call, batchAge, mounted>>
--------------------------------------------------------------------------------
(* The next batch of the symbols that are left and still wanted; the call  *)
(* ends if there are none.                                                 *)
Sends(queued, left) ==
  LET wanted == Wanted(left, failedAge)
      size == IF Cardinality(wanted) < BatchSize THEN Cardinality(wanted) ELSE BatchSize
  IN IF wanted = {} THEN {NoCall}
     ELSE {[at |-> "asked", queued |-> queued, left |-> wanted \ b, batch |-> b] :
             b \in {x \in SUBSET wanted : Cardinality(x) = size}}

Loops(queued, left, unavailable) ==
  IF left = {} \/ ~mounted \/ unavailable THEN {NoCall}
  ELSE IF batchAge < BatchGap
  THEN {[at |-> "sleep", queued |-> queued, left |-> left, batch |-> {}]}
  ELSE Sends(queued, left)

(* The `finally` of the chain. *)
WithoutCall(queued, pending) == IF mounted THEN pending \ queued ELSE pending

(* Where the call goes from here, with what it adds to or takes from the   *)
(* symbols that are loading.                                               *)
CallGoesOn(queued, to, state) ==
  /\ call' = to
  /\ given' = [state EXCEPT !.pending = IF to = NoCall THEN WithoutCall(queued, @)
                                        ELSE @ \cup to.batch]
  /\ batchAge' = IF to.at = "asked" THEN 0 ELSE batchAge

StartCall ==
  /\ call = NoCall /\ chain # <<>>
  /\ chain' = Tail(chain)
  /\ \E to \in Loops(Head(chain), Wanted(Head(chain), failedAge), unavailableNow) :
       CallGoesOn(Head(chain), to, given)
  /\ UNCHANGED <<shown, unavailableNow, failedAge, mounted>>

WakeUp ==
  /\ call.at = "sleep" /\ batchAge = BatchGap
  /\ \E to \in Loops(call.queued, call.left, unavailableNow) : CallGoesOn(call.queued, to, given)
  /\ UNCHANGED <<shown, unavailableNow, chain, failedAge, mounted>>

Done(state) == [state EXCEPT !.pending = @ \ call.batch]

(* A price for each of `good`, none for the rest of the batch. *)
Quoted(good) ==
  /\ call.at = "asked" /\ mounted /\ good \subseteq call.batch
  /\ failedAge' = [s \in ShownSymbol |-> IF s \in good THEN FailedRetry
                                    ELSE IF s \in call.batch THEN 0 ELSE failedAge[s]]
  /\ \E to \in Loops(call.queued, call.left, unavailableNow) :
       CallGoesOn(call.queued, to,
             [Done(given) EXCEPT !.prices = @ \cup good, !.unavailable = @ /\ good = {}])
  /\ UNCHANGED <<shown, unavailableNow, chain, mounted>>

(* An error or the time limit of the client; 405 is an API without quotes. *)
QuotesFail(gone) ==
  /\ call.at = "asked" /\ mounted
  /\ unavailableNow' = (unavailableNow \/ gone)
  /\ \E to \in Loops(call.queued, IF gone THEN {} ELSE call.left, unavailableNow') :
       CallGoesOn(call.queued, to, [Done(given) EXCEPT !.unavailable = @ \/ gone])
  /\ UNCHANGED <<shown, chain, failedAge, mounted>>

AnsweredTooLate ==
  /\ call.at = "asked" /\ ~mounted
  /\ CallGoesOn(call.queued, NoCall, given)
  /\ UNCHANGED <<shown, unavailableNow, chain, failedAge, mounted>>

BatchAnswered ==
  \/ \E good \in SUBSET ShownSymbol : Quoted(good)
  \/ \E gone \in BOOLEAN : QuotesFail(gone)
  \/ AnsweredTooLate

ClockRuns ==
  /\ batchAge < BatchGap \/ \E s \in ShownSymbol : failedAge[s] < FailedRetry
  /\ batchAge' = IF batchAge < BatchGap THEN batchAge + 1 ELSE batchAge
  /\ failedAge' = [s \in ShownSymbol |-> IF failedAge[s] < FailedRetry THEN failedAge[s] + 1
                                    ELSE FailedRetry]
  /\ UNCHANGED <<given, shown, unavailableNow, chain, call, mounted>>

PricesNext ==
  \/ \E ok \in BOOLEAN : ProbeAnswers(ok)
  \/ Render \/ Unmount
  \/ \E s \in ShownSymbol : MergePrice(s) \/ RetryPriceFor(s)
  \/ \E symbols \in SUBSET ShownSymbol : FetchPricesFor(symbols)
  \/ StartCall \/ WakeUp \/ BatchAnswered
  \/ ClockRuns

PricesSpec == PricesInit /\ [][PricesNext]_priceVars

(* Promises and timers run, and a request is answered or times out         *)
(* (services/api.ts gives it ten seconds).  Nobody has to call or render.  *)
PricesFairness ==
  /\ WF_priceVars(StartCall) /\ WF_priceVars(WakeUp)
  /\ WF_priceVars(BatchAnswered) /\ WF_priceVars(ClockRuns)

PricesLiveSpec == PricesSpec /\ PricesFairness
--------------------------------------------------------------------------------
PricesTypeOK ==
  /\ given \in [prices : SUBSET ShownSymbol, pending : SUBSET ShownSymbol,
               unavailable : BOOLEAN, ready : BOOLEAN]
  /\ chain \in Seq(SUBSET ShownSymbol)
  /\ call \in [at : {"none", "sleep", "asked"}, queued : SUBSET ShownSymbol,
              left : SUBSET ShownSymbol, batch : SUBSET ShownSymbol]
  /\ call.left \cup call.batch \subseteq call.queued
  /\ mounted \in BOOLEAN

OnChain == UNION {chain[i] : i \in DOMAIN chain}

(* While the page is open, a symbol shown as loading belongs to a call that *)
(* waits on the chain or to the one that runs, which will take it away.     *)
LoadingIsQueued == mounted => given.pending \subseteq OnChain \cup call.queued

(* A symbol shown as loading stops being so, whatever the API answers and  *)
(* whatever becomes of the call that asked for it, while the page is open. *)
LoadingEnds ==
  \A s \in ShownSymbol : s \in given.pending ~> (s \notin given.pending \/ ~mounted)
================================================================================
