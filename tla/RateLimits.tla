------------------------------- MODULE RateLimits -------------------------------
(***************************************************************************)
(* The limits on API requests: fixed windows per rule and client, counted  *)
(* in api_rate_limits (src/storage/rate_limits.py) or in memory            *)
(* (_MemoryCounters), and the middleware that consults every rule a        *)
(* request matches (dashboard/backend/rate_limit.py).                      *)
(*                                                                         *)
(* The middleware reads the clock, then counts in the thread pool, one     *)
(* transaction per rule: requests that arrived in one order are counted in *)
(* another, and one may be counted when its window is over.  Clients do    *)
(* not share counters, so one client is enough.                            *)
(***************************************************************************)
EXTENDS Naturals, Sequences, FiniteSets

CONSTANTS LimitRule,          \* names of the rules
          RuleLimit(_),       \* rule -> limit
          RuleWindow(_),      \* rule -> window_seconds
          Matching,           \* kinds of request: sequences of the rules they match, each once
          MaxRequest,         \* bound: requests ever made
          LastSecond          \* bound: the clock

ASSUME LimitAssumption ==
  /\ \A r \in LimitRule : RuleLimit(r) \in Nat \ {0} /\ RuleWindow(r) \in Nat \ {0}
  /\ Matching \subseteq Seq(LimitRule)
  /\ \A m \in Matching : \A i, j \in DOMAIN m : m[i] = m[j] => i = j
  /\ MaxRequest \in Nat /\ LastSecond \in Nat

VARIABLES
  second,    \* the clock
  counter,   \* <<rule, window_start>> -> request_count of the rows that exist
  asking,    \* request -> rules still to count, the time it arrived, its verdict
  purgedAt,  \* history: the latest time a purge was made for
  let        \* history: <<rule, window_start>> -> requests the rule let through in time

limitVars == <<second, counter, asking, purgedAt, let>>

--------------------------------------------------------------------------------
(* Slips: variants of definitions below with a plausible bug in them.      *)
SlipEarlyExpiry(b, now) == b[2] + RuleWindow(b[1]) <= now + 1
--------------------------------------------------------------------------------
Bucket == LimitRule \X (0..LastSecond)

WindowStart(rule, now) == now - (now % RuleWindow(rule))

(* expires_at <= now, where expires_at is the end of the window. *)
Expired(b, now) == b[2] + RuleWindow(b[1]) <= now

LimitsInit ==
  /\ second = 0
  /\ counter = << >>
  /\ asking = << >>
  /\ purgedAt = 0
  /\ let = [b \in Bucket |-> 0]

(* RateLimitMiddleware.dispatch reads the clock. *)
Arrive(rules) ==
  /\ Len(asking) < MaxRequest
  /\ asking' = Append(asking, [todo |-> rules, now |-> second, verdict |-> "pass"])
  /\ UNCHANGED <<second, counter, purgedAt, let>>

(* consume_rate_limit: purge, then insert or add one, in one transaction. *)
Consume(b, now) ==
  LET rows == {x \in DOMAIN counter : ~Expired(x, now)}
      count == IF b \in rows THEN counter[b] + 1 ELSE 1
  IN counter' = [x \in rows \cup {b} |-> IF x = b THEN count ELSE counter[x]]

(* Every matching rule is counted, also after one has said no. *)
CountRule(i) ==
  LET q == asking[i]
      rule == Head(q.todo)
      b == <<rule, WindowStart(rule, q.now)>>
      admits == counter'[b] <= RuleLimit(rule)
  IN /\ q.todo # <<>>
     /\ Consume(b, q.now)
     /\ asking' = [asking EXCEPT ![i].todo = Tail(@),
                                 ![i].verdict = IF admits THEN @ ELSE "429"]
     /\ let' = IF admits /\ ~Expired(b, purgedAt) THEN [let EXCEPT ![b] = @ + 1] ELSE let
     /\ purgedAt' = IF q.now > purgedAt THEN q.now ELSE purgedAt
     /\ UNCHANGED second

(* The database cannot be reached: 503, what was counted stays counted. *)
CountFails(i) ==
  /\ asking[i].todo # <<>>
  /\ asking' = [asking EXCEPT ![i].todo = <<>>, ![i].verdict = "503"]
  /\ UNCHANGED <<second, counter, purgedAt, let>>

NextSecond ==
  /\ second < LastSecond
  /\ second' = second + 1
  /\ UNCHANGED <<counter, asking, purgedAt, let>>

LimitsNext ==
  \/ \E rules \in Matching : Arrive(rules)
  \/ \E i \in DOMAIN asking : CountRule(i) \/ CountFails(i)
  \/ NextSecond

LimitsSpec == LimitsInit /\ [][LimitsNext]_limitVars
--------------------------------------------------------------------------------
LimitsTypeOK ==
  /\ DOMAIN counter \subseteq Bucket
  /\ \A b \in DOMAIN counter : counter[b] \in 1..MaxRequest
  /\ purgedAt <= second

(* No rule lets more than its limit of requests through in one window,     *)
(* among those that are counted before any request of a later window has   *)
(* purged it, in whatever order they are counted.  One that comes after    *)
(* the purge finds its row gone and starts a count of its own.             *)
LimitPerWindow == \A b \in Bucket : let[b] <= RuleLimit(b[1])

(* A window that no purge has reached has counted all it let through.      *)
CountsCover ==
  \A b \in Bucket : ~Expired(b, purgedAt) =>
    let[b] <= (IF b \in DOMAIN counter THEN counter[b] ELSE 0)

RequestsWaiting ==
  /\ asking \in Seq([todo : Seq(LimitRule), now : Nat, verdict : {"pass", "429", "503"}])
  /\ \A i \in DOMAIN asking : asking[i].now <= second

LimitsInv ==
  /\ second \in 0..LastSecond /\ purgedAt \in Nat
  /\ DOMAIN counter \subseteq Bucket /\ \A b \in DOMAIN counter : counter[b] \in Nat
  /\ let \in [Bucket -> Nat]
  /\ RequestsWaiting /\ CountsCover /\ LimitPerWindow
================================================================================
