----------------------------- MODULE AlertsProofs -----------------------------
(*****************************************************************************)
(* From a rule to a delivery, and the heartbeat that tells whether anyone    *)
(* looks: what the runner and the jobs make of a rule, what the cooldown of  *)
(* an alert rests on, and what an answer of the health endpoint means, for   *)
(* any rules, settings, threads and restarts.                                *)
(*****************************************************************************)
EXTENDS AlertRules, AlertDelivery, LocalFiles, WorkerHealth, DataLemmas
--------------------------------------------------------------------------------
(*****************************************************************************)
(* Rules. The operators that evaluate a rule are monotone in what they are   *)
(* shown; a job is shown less than the file runner, and about its own        *)
(* symbol the same.                                                          *)
(*****************************************************************************)

(* A function that agrees with another one where it is defined.            *)
Restricts(f, g) == DOMAIN f \subseteq DOMAIN g /\ \A x \in DOMAIN f : f[x] = g[x]

(* What a leaf matches, it matches also when more is shown.                *)
LEMMA LeafGrows ==
  ASSUME NEW c, NEW shown, NEW closes, NEW shown2, NEW closes2,
         Restricts(shown, shown2), Restricts(closes, closes2)
  PROVE  LeafMatches(c, shown, closes) \subseteq LeafMatches(c, shown2, closes2)
<1>1. CASE c.type = "price_threshold"
  BY <1>1 DEF LeafMatches, Restricts
<1>2. CASE c.type = "rsi_threshold"
  BY <1>2 DEF LeafMatches, Restricts
<1>3. CASE c.type = "screening_match"
  BY <1>3 DEF LeafMatches, Restricts
<1>4. CASE c.type \notin {"price_threshold", "rsi_threshold", "screening_match"}
  BY <1>4 DEF LeafMatches
<1> QED
  BY <1>1, <1>2, <1>3, <1>4

(* So does a rule, whose compounds are made of and and or only.            *)
LEMMA RuleGrows ==
  ASSUME NEW c, NEW shown, NEW closes, NEW shown2, NEW closes2,
         Restricts(shown, shown2), Restricts(closes, closes2)
  PROVE  Matches(c, shown, closes) \subseteq Matches(c, shown2, closes2)
<1>1. CASE c.type # "compound"
  BY <1>1, LeafGrows DEF Matches
<1>2. CASE c.type = "compound"
  <2>1. \A i \in DOMAIN c.leaves :
          LeafMatches(c.leaves[i], shown, closes) \subseteq LeafMatches(c.leaves[i], shown2, closes2)
    BY LeafGrows
  <2>2. CompoundMatches(c, shown, closes) \subseteq CompoundMatches(c, shown2, closes2)
    BY <2>1 DEF CompoundMatches
  <2> QED
    BY <1>2, <2>2 DEF Matches
<1> QED
  BY <1>1, <1>2

(* A job of some symbols is shown part of what the file runner is shown.   *)
LEMMA ShownRestricts ==
  ASSUME NEW S, NEW T, S \subseteq T
  PROVE  Restricts(Shown(S), Shown(T)) /\ Restricts(ClosesOf(S), ClosesOf(T))
BY DEF Restricts, Shown, ClosesOf

(* What a job of one symbol fires on fires for the file runner.            *)
LEMMA JobInvents ==
  ASSUME HostedFires
  PROVE  FileFires
<1>1. PICK s \in Primary(rule) \cap DOMAIN Shown(Ticker) :
        Matches(rule, Shown({s}), ClosesOf(JobHistory(rule) \cap {s})) # {}
  BY DEF HostedFires
<1>2. s \in Ticker
  BY <1>1 DEF Shown
<1>3. Restricts(Shown({s}), Shown(Ticker))
  BY <1>2, ShownRestricts
<1>4. Restricts(ClosesOf(JobHistory(rule) \cap {s}), ClosesOf(RsiSymbols(rule)))
  BY ShownRestricts DEF JobHistory
<1>5. Matches(rule, Shown(Ticker), ClosesOf(RsiSymbols(rule))) # {}
  BY <1>1, <1>3, <1>4, RuleGrows
<1> QED
  BY <1>1, <1>5 DEF FileFires

(* A leaf about one symbol finds in the job of that symbol what it finds at all. *)
LEMMA LeafOfSymbol ==
  ASSUME NEW c, NEW s \in Ticker, Finite(snapshot[s]), c.symbol = s,
         NEW S, c.type = "rsi_threshold" => s \in S,
         c.type \in {"price_threshold", "rsi_threshold"}
  PROVE  LeafMatches(c, Shown(Ticker), ClosesOf(S))
           = LeafMatches(c, Shown({s}), ClosesOf(S \cap {s}))
<1>1. s \in DOMAIN Shown(Ticker) /\ s \in DOMAIN Shown({s}) /\ Shown(Ticker)[s] = Shown({s})[s]
  BY DEF Shown
<1>2. CASE c.type = "price_threshold"
  BY <1>1, <1>2 DEF LeafMatches
<1>3. CASE c.type = "rsi_threshold"
  <2>1. s \in DOMAIN ClosesOf(S) /\ s \in DOMAIN ClosesOf(S \cap {s})
        /\ ClosesOf(S)[s] = ClosesOf(S \cap {s})[s]
    BY <1>3 DEF ClosesOf
  <2> QED
    BY <1>3, <2>1 DEF LeafMatches
<1> QED
  BY <1>2, <1>3

(* An indexed rule of one symbol with a price fires in the job of that     *)
(* symbol.                                                                 *)
LEMMA JobFinds ==
  ASSUME FileFires, NEW s \in Ticker, WatchSymbols(rule) = {s}, Finite(snapshot[s]), ~Screens(rule)
  PROVE  HostedFires
<1> DEFINE S == RsiSymbols(rule)
<1>1. s \in Primary(rule) \cap DOMAIN Shown(Ticker)
  BY DEF Primary, Shown
<1>2. rule.type \in {"price_threshold", "rsi_threshold", "compound"}
  BY DEF WatchSymbols
<1>3. Matches(rule, Shown(Ticker), ClosesOf(S)) # {}
  BY DEF FileFires
<1>4. Matches(rule, Shown({s}), ClosesOf(S \cap {s})) # {}
  <2>1. CASE rule.type # "compound"
    <3>1. rule.symbol = s /\ rule.type \in {"price_threshold", "rsi_threshold"}
      BY <1>2, <2>1 DEF WatchSymbols
    <3>2. rule.type = "rsi_threshold" => s \in S
      BY <3>1 DEF RsiSymbols
    <3> HIDE DEF S
    <3>3. LeafMatches(rule, Shown(Ticker), ClosesOf(S))
            = LeafMatches(rule, Shown({s}), ClosesOf(S \cap {s}))
      BY <3>1, <3>2, LeafOfSymbol
    <3> QED
      BY <1>3, <2>1, <3>3 DEF Matches
  <2>2. CASE rule.type = "compound"
    <3> DEFINE leaves == DOMAIN rule.leaves
               sound == Len(rule.leaves) \in 1..5 /\ \A i \in leaves : rule.leaves[i].type \in Leaf
    <3>1. sound
      BY <1>3, <2>2 DEF Matches, CompoundMatches
    <3>2. ASSUME NEW i \in leaves
          PROVE  LeafMatches(rule.leaves[i], Shown(Ticker), ClosesOf(S))
                   = LeafMatches(rule.leaves[i], Shown({s}), ClosesOf(S \cap {s}))
      <4>1. rule.leaves[i].type \in {"price_threshold", "rsi_threshold"}
        BY <2>2, <3>1 DEF Leaf, Screens
      <4>2. rule.leaves[i].symbol = s
        BY <2>2, <4>1 DEF WatchSymbols
      <4>3. rule.leaves[i].type = "rsi_threshold" => s \in S
        BY <2>2, <4>2 DEF RsiSymbols
      <4> HIDE DEF S
      <4> QED
        BY <4>1, <4>2, <4>3, LeafOfSymbol
    <3> HIDE DEF S
    <3>3. CompoundMatches(rule, Shown({s}), ClosesOf(S \cap {s}))
            = CompoundMatches(rule, Shown(Ticker), ClosesOf(S))
      BY <3>2 DEF CompoundMatches
    <3> QED
      BY <1>3, <2>2, <3>3 DEF Matches
  <2> QED
    BY <2>1, <2>2
<1> QED
  BY <1>1, <1>2, <1>4 DEF HostedFires, JobHistory

(* What is known of a check is of the snapshot it looked at. *)
(* The outcomes are those of the rule and the snapshot as they are.        *)
RulesInv == fired = Unchecked \/ fired = [file |-> FileFires, hosted |-> HostedFires]

LEMMA RulesAlways == RulesSpec => []RulesInv
<1>1. RulesInit => RulesInv
  BY DEF RulesInit, RulesInv
<1>2. RulesInv /\ [RulesNext]_ruleVars => RulesInv'
  <2> SUFFICES ASSUME RulesInv, [RulesNext]_ruleVars PROVE RulesInv'
    OBVIOUS
  <2>1. CASE UNCHANGED ruleVars
    <3>1. FileFires' = FileFires
      BY <2>1 DEF ruleVars, FileFires, Shown, ClosesOf
    <3>2. HostedFires' = HostedFires
      BY <2>1 DEF ruleVars, HostedFires, Shown, ClosesOf
    <3>3. fired' = fired
      BY <2>1 DEF ruleVars
    <3> QED
      BY <3>1, <3>2, <3>3, Zenon DEF RulesInv
  <2>2. CASE CheckRule
    <3>1. FileFires' = FileFires
      BY <2>2 DEF CheckRule, FileFires, Shown, ClosesOf
    <3>2. HostedFires' = HostedFires
      BY <2>2 DEF CheckRule, HostedFires, Shown, ClosesOf
    <3>3. fired' = [file |-> FileFires, hosted |-> HostedFires]
      BY <2>2 DEF CheckRule
    <3>4. fired' = [file |-> FileFires', hosted |-> HostedFires']
      BY <3>1, <3>2, <3>3, Zenon
    <3> QED
      BY <3>4, Zenon DEF RulesInv
  <2>3. ASSUME NEW s \in Ticker, NEW close \in Quote, QuoteChanges(s, close) PROVE RulesInv'
    BY <2>3 DEF QuoteChanges, RulesInv
  <2> QED
    BY <2>1, <2>2, <2>3 DEF RulesNext
<1> QED
  BY <1>1, <1>2, PTL DEF RulesSpec

(* A job invents no alert, and finds every match of an indexed rule about  *)
(* one symbol that does not screen, for any rule, snapshot and histories.  *)
THEOREM HostedAgrees == RulesSpec => []HostedAgreesWithFile
<1>1. RulesInv => HostedAgreesWithFile
  <2> SUFFICES ASSUME RulesInv, fired # Unchecked
               PROVE  /\ fired.hosted => fired.file
                      /\ (\E s \in Ticker : WatchSymbols(rule) = {s} /\ Finite(snapshot[s]))
                           /\ ~Screens(rule) => (fired.file => fired.hosted)
    BY DEF HostedAgreesWithFile
  <2>1. fired.file = FileFires /\ fired.hosted = HostedFires
    BY DEF RulesInv
  <2> QED
    BY <2>1, JobInvents, JobFinds
<1> QED
  BY <1>1, RulesAlways, PTL

(* The snapshot shows quotes, and nothing of a symbol without one.         *)
THEOREM RulesTypes == RulesSpec => []RulesTypeOK
<1>1. RulesInit => RulesTypeOK
  BY DEF RulesInit, RulesTypeOK
<1>2. RulesTypeOK /\ [RulesNext]_ruleVars => RulesTypeOK'
  BY DEF RulesNext, ruleVars, CheckRule, QuoteChanges, RulesTypeOK
<1> QED
  BY <1>1, <1>2, PTL DEF RulesSpec

--------------------------------------------------------------------------------
(*****************************************************************************)
(* The closes. InOrder lists a set as its order has it, so each source is in *)
(* the order of the sessions; the loop of compute_rsi then keeps sums that   *)
(* are zero as long as no change was, and positive from one on.              *)
(*****************************************************************************)

(* A strict total order of a finite set.                                   *)
Orders(R, S) ==
  /\ \A a, b \in S : a # b => <<a, b>> \in R \/ <<b, a>> \in R
  /\ \A a \in S : <<a, a>> \notin R
  /\ \A a, b, c \in S : <<a, b>> \in R /\ <<b, c>> \in R => <<a, c>> \in R

(* Whoever is before another has fewer before it. *)
LEMMA RankGrows ==
  ASSUME NEW S, IsFiniteSet(S), NEW R, Orders(R, S)
  PROVE  /\ \A a \in S : Cardinality(Before(S, R, a)) \in Nat
         /\ \A a \in S : Cardinality(Before(S, R, a)) < Cardinality(S)
         /\ \A a, b \in S : <<a, b>> \in R =>
              Cardinality(Before(S, R, a)) < Cardinality(Before(S, R, b))
<1>0. Cardinality(S) \in Nat
  BY FS_CardinalityType
<1>1. ASSUME NEW a \in S
      PROVE  /\ IsFiniteSet(Before(S, R, a)) /\ Cardinality(Before(S, R, a)) \in Nat
             /\ Cardinality(Before(S, R, a)) < Cardinality(S)
  <2>1. Before(S, R, a) \in SUBSET S /\ a \notin Before(S, R, a)
    BY DEF Before, Orders
  <2>2. /\ IsFiniteSet(Before(S, R, a)) /\ Cardinality(Before(S, R, a)) <= Cardinality(S)
        /\ Cardinality(Before(S, R, a)) # Cardinality(S)
    BY <2>1, FS_Subset
  <2>3. Cardinality(Before(S, R, a)) \in Nat
    BY <2>2, FS_CardinalityType
  <2> QED
    BY <2>2, <2>3, <1>0
<1>2. ASSUME NEW a \in S, NEW b \in S, <<a, b>> \in R
      PROVE  Cardinality(Before(S, R, a)) < Cardinality(Before(S, R, b))
  <2>1. /\ Before(S, R, a) \in SUBSET Before(S, R, b)
        /\ a \in Before(S, R, b) /\ a \notin Before(S, R, a)
    BY <1>2 DEF Before, Orders
  <2>2. /\ Cardinality(Before(S, R, a)) <= Cardinality(Before(S, R, b))
        /\ Cardinality(Before(S, R, a)) # Cardinality(Before(S, R, b))
    <3>1. IsFiniteSet(Before(S, R, b))
      BY <1>1
    <3> QED
      BY <2>1, <3>1, FS_Subset
  <2> QED
    BY <2>2, <1>1
<1> QED
  BY <1>1, <1>2

(* InOrder lists a finite set as a strict total order has it. *)
LEMMA InOrderLists ==
  ASSUME NEW S, IsFiniteSet(S), NEW R, Orders(R, S)
  PROVE  /\ Cardinality(S) \in Nat
         /\ InOrder(S, R) \in [1..Cardinality(S) -> S]
         /\ \A j, k \in 1..Cardinality(S) :
              j < k => <<InOrder(S, R)[j], InOrder(S, R)[k]>> \in R
<1> DEFINE n == Cardinality(S)
           rank == [x \in S |-> 1 + Cardinality(Before(S, R, x))]
           o == InOrder(S, R)
<1>1. n \in Nat
  BY FS_CardinalityType
<1>2. \A x \in S : rank[x] \in 1..n
  BY <1>1, RankGrows
<1>3. \A x, y \in S : <<x, y>> \in R => rank[x] < rank[y]
  BY RankGrows
<1>4. rank \in Injection(S, 1..n)
  <2>1. rank \in [S -> 1..n]
    BY <1>2
  <2>2. \A x, y \in S : x # y => rank[x] # rank[y]
    <3> HIDE DEF rank, n
    <3>1. ASSUME NEW x \in S, NEW y \in S, x # y
          PROVE  rank[x] # rank[y]
      <4>1. rank[x] \in Int /\ rank[y] \in Int
        BY <1>1, <1>2
      <4>2. <<x, y>> \in R \/ <<y, x>> \in R
        BY <3>1 DEF Orders
      <4> QED
        BY <4>1, <4>2, <1>3
    <3> QED BY <3>1
  <2> HIDE DEF rank, n
  <2> QED
    BY <2>1, <2>2 DEF Injection, IsInjective
<1>5. rank \in Surjection(S, 1..n)
  <2>1. IsFiniteSet(1..n) /\ Cardinality(1..n) = n
    BY <1>1, FS_Interval
  <2> HIDE DEF rank
  <2> QED
    BY <1>4, <2>1, FS_Injection
<1>6. ASSUME NEW k \in 1..n
      PROVE  o[k] \in S /\ rank[o[k]] = k
  <2>1. PICK w \in S : rank[w] = k
    <3> HIDE DEF rank
    <3> QED BY <1>5 DEF Surjection
  <2>2. \A x \in S : rank[x] = k <=> Cardinality(Before(S, R, x)) = k - 1
    BY <1>6, <1>1, RankGrows
  <2>3. o[k] = CHOOSE x \in S : Cardinality(Before(S, R, x)) = k - 1
    BY <1>6 DEF InOrder, Place
  <2>4. o[k] \in S /\ Cardinality(Before(S, R, o[k])) = k - 1
    <3> HIDE DEF o, rank
    <3> QED BY <2>1, <2>2, <2>3
  <2> QED
    BY <2>2, <2>4
<1>7. o \in [1..n -> S]
  <2>1. o = [k \in 1..n |-> o[k]]
    BY DEF InOrder
  <2> HIDE DEF o, n
  <2> QED
    BY <1>6, <2>1
<1>8. ASSUME NEW j \in 1..n, NEW k \in 1..n, j < k
      PROVE  <<o[j], o[k]>> \in R
  <2> HIDE DEF rank, o
  <2>1. o[j] \in S /\ o[k] \in S /\ rank[o[j]] = j /\ rank[o[k]] = k
    BY <1>6
  <2>2. o[j] # o[k] /\ <<o[k], o[j]>> \notin R
    BY <1>1, <1>8, <2>1, <1>3
  <2> QED
    BY <2>1, <2>2 DEF Orders
<1> QED
  BY <1>1, <1>7, <1>8
(* Each close and the one after it are as the pairs of R.                  *)
Follows(closes, R) ==
  /\ closes \in Seq(Nat)
  /\ \A k \in 1..(Len(closes) - 1) : <<closes[k], closes[k + 1]>> \in R

(* The position of a candle, or its time where it has a usable one, is a   *)
(* number, and so is its close.                                            *)
LEMMA UsableCandle ==
  ASSUME NEW h \in History
  PROVE  /\ IsFiniteSet(Usable(h))
         /\ \A i \in Usable(h) : i \in Int /\ Stamp(h, i) \in Nat /\ h.candles[i].close \in Nat
<1> DEFINE c == h.candles
           V == [time : Nat \cup {Bad}, close : Nat \cup {Bad}]
<1>0. c \in Seq(V)
  BY RulesAssumption
<1>1. c \in Seq(V) /\ Len(c) \in Nat /\ DOMAIN c = 1..Len(c)
  <2> HIDE DEF c, V
  <2> QED BY <1>0
<1>2. \A i \in 1..Len(c) : c[i] \in V
  <2> HIDE DEF c, V
  <2> QED BY <1>1, ElementOfSeq
<1>3. Usable(h) \in SUBSET (1..Len(c)) /\ IsFiniteSet(1..Len(c))
  BY <1>1, FS_Interval DEF Usable
<1>4. IsFiniteSet(Usable(h))
  BY <1>3, FS_Subset
<1>5. ASSUME NEW i \in Usable(h)
      PROVE  i \in Int /\ Stamp(h, i) \in Nat /\ h.candles[i].close \in Nat
  <2>1. i \in Nat /\ c[i] \in V
    BY <1>1, <1>2, <1>3
  <2>2. c[i].close # Bad /\ Stamp(h, i) # Bad
    BY DEF Usable, Finite
  <2> QED
    BY <2>1, <2>2 DEF Stamp
<1> QED
  BY <1>4, <1>5

LEMMA CandlesFollow ==
  ASSUME NEW h \in History, NEW R,
         \A i, j \in Usable(h) :
           i # j /\ Stamp(h, i) <= Stamp(h, j)
             => <<h.candles[i].close, h.candles[j].close>> \in R
  PROVE  Follows(FromCandles(h), R)
<1> DEFINE S == Usable(h)
           T == ByTime(h, S)
           o == InOrder(S, T)
           n == Cardinality(S)
           c == h.candles
<1>1. IsFiniteSet(S)
  BY UsableCandle
<1>2. \A i \in S : i \in Int /\ Stamp(h, i) \in Nat /\ c[i].close \in Nat
  BY UsableCandle
<1>3. Orders(T, S)
  <2> HIDE DEF S
  <2> QED BY <1>2 DEF Orders, ByTime
<1>4. /\ n \in Nat /\ o \in [1..n -> S]
      /\ \A j, k \in 1..n : j < k => <<o[j], o[k]>> \in T
  BY <1>1, <1>3, InOrderLists
<1>5. FromCandles(h) = [k \in 1..n |-> c[o[k]].close]
  BY <1>4 DEF FromCandles
<1>6. FromCandles(h) \in [1..n -> Nat]
  <2> HIDE DEF S, n, o, c
  <2> QED BY <1>2, <1>4, <1>5
<1>7. FromCandles(h) \in Seq(Nat) /\ Len(FromCandles(h)) = n
  <2> HIDE DEF n
  <2> QED BY <1>4, <1>6
<1>8. ASSUME NEW k \in 1..(n - 1)
      PROVE  <<FromCandles(h)[k], FromCandles(h)[k + 1]>> \in R
  <2> HIDE DEF S, n, o
  <2>1. k \in 1..n /\ k + 1 \in 1..n /\ k < k + 1
    BY <1>4
  <2>2. <<o[k], o[k + 1]>> \in T /\ o[k] \in S /\ o[k + 1] \in S
    BY <1>4, <2>1
  <2>3. o[k] # o[k + 1] /\ Stamp(h, o[k]) <= Stamp(h, o[k + 1])
    BY <2>2, <1>2 DEF ByTime
  <2>4. <<c[o[k]].close, c[o[k + 1]].close>> \in R
    BY <2>2, <2>3 DEF S
  <2> QED
    BY <1>5, <2>1, <2>4
<1> QED
  BY <1>7, <1>8 DEF Follows

LEMMA BarsFollow ==
  ASSUME NEW b \in Seq(Nat \cup {Bad}), NEW R,
         \A i, j \in DOMAIN b :
           i < j /\ Finite(b[i]) /\ Finite(b[j]) => <<b[j], b[i]>> \in R
  PROVE  Follows(FromBars(b), R)
<1> DEFINE S == {i \in DOMAIN b : i <= MaxDates /\ Finite(b[i])}
           T == Reversed(S)
           o == InOrder(S, T)
           n == Cardinality(S)
<1>1. IsFiniteSet(S)
  <2>1. IsFiniteSet(1..Len(b)) /\ S \in SUBSET (1..Len(b))
    BY FS_Interval
  <2> QED
    BY <2>1, FS_Subset
<1>2. \A i \in S : i \in Int /\ i \in DOMAIN b /\ Finite(b[i]) /\ b[i] \in Nat
  BY DEF Finite
<1>3. Orders(T, S)
  <2> HIDE DEF S
  <2> QED BY <1>2 DEF Orders, Reversed
<1>4. /\ n \in Nat /\ o \in [1..n -> S]
      /\ \A j, k \in 1..n : j < k => <<o[j], o[k]>> \in T
  BY <1>1, <1>3, InOrderLists
<1>5. FromBars(b) = [k \in 1..n |-> b[o[k]]]
  BY <1>4 DEF FromBars
<1>6. FromBars(b) \in [1..n -> Nat]
  <2> HIDE DEF S, n, o
  <2> QED BY <1>2, <1>4, <1>5
<1>7. FromBars(b) \in Seq(Nat) /\ Len(FromBars(b)) = n
  <2> HIDE DEF n
  <2> QED BY <1>4, <1>6
<1>8. ASSUME NEW k \in 1..(n - 1)
      PROVE  <<FromBars(b)[k], FromBars(b)[k + 1]>> \in R
  <2> HIDE DEF S, n, o
  <2>1. k \in 1..n /\ k + 1 \in 1..n /\ k < k + 1
    BY <1>4
  <2>2. <<o[k], o[k + 1]>> \in T /\ o[k] \in S /\ o[k + 1] \in S
    BY <1>4, <2>1
  <2>3. o[k + 1] < o[k]
    BY <2>2 DEF Reversed
  <2>4. <<b[o[k]], b[o[k + 1]]>> \in R
    BY <2>2, <2>3, <1>2
  <2> QED
    BY <1>5, <2>1, <2>4
<1> QED
  BY <1>7, <1>8 DEF Follows

(* Both sources are in the order of the sessions, and so is the one taken. *)
LEMMA ClosesFollow ==
  ASSUME NEW h \in History, NEW R,
         \A i, j \in DOMAIN h.bars :
           i < j /\ Finite(h.bars[i]) /\ Finite(h.bars[j]) => <<h.bars[j], h.bars[i]>> \in R,
         \A i, j \in Usable(h) :
           i # j /\ Stamp(h, i) <= Stamp(h, j)
             => <<h.candles[i].close, h.candles[j].close>> \in R
  PROVE  Follows(LoadCloses(h), R)
<1>1. Follows(FromCandles(h), R)
  BY CandlesFollow
<1>2. Follows(FromBars(h.bars), R)
  BY BarsFollow, RulesAssumption
<1> QED
  BY <1>1, <1>2 DEF LoadCloses
--------------------------------------------------------------------------------
(* A sum and the scale it is kept in, and what the loop of compute_rsi     *)
(* makes of them with the next change.                                     *)
Scaled == Nat \X (Nat \ {0})

SmoothStep(x, p) ==
  [q \in (1..Len(x)) \X Scaled |->
     IF q[1] <= p THEN <<q[2][1] + x[q[1]], p>>
     ELSE <<q[2][1] * (p - 1) + x[q[1]] * q[2][2], q[2][2] * p>>]

LEMMA Products ==
  /\ \A a, b \in Nat : a * b \in Nat
  /\ \A a, b \in Nat \ {0} : a * b \in Nat \ {0}
  /\ \A a \in Nat : 0 * a = 0
  OBVIOUS

LEMMA SmoothStepKeeps ==
  ASSUME NEW x \in Seq(Nat), NEW p \in Nat \ {0},
         NEW i \in 1..Len(x), NEW a \in Scaled
  PROVE  /\ SmoothStep(x, p)[<<i, a>>] \in Scaled
         /\ a[1] = 0 /\ x[i] = 0 => SmoothStep(x, p)[<<i, a>>][1] = 0
         /\ x[i] > 0 => SmoothStep(x, p)[<<i, a>>][1] > 0
<1>1. PICK s \in Nat, d \in Nat \ {0} : a = <<s, d>>
  BY DEF Scaled
<1>2. <<i, a>> \in (1..Len(x)) \X Scaled /\ x[i] \in Nat /\ p - 1 \in Nat
  OBVIOUS
<1>3. SmoothStep(x, p)[<<i, a>>] =
        IF i <= p THEN <<s + x[i], p>> ELSE <<s * (p - 1) + x[i] * d, d * p>>
  BY <1>1, <1>2 DEF SmoothStep
<1>4. CASE i <= p
  BY <1>1, <1>2, <1>3, <1>4 DEF Scaled
<1>5. CASE ~(i <= p)
  <2>1. s * (p - 1) \in Nat /\ x[i] * d \in Nat /\ d * p \in Nat \ {0}
    BY <1>1, <1>2, Products
  <2>2. s = 0 /\ x[i] = 0 => s * (p - 1) = 0 /\ x[i] * d = 0
    BY <1>1, <1>2, Products
  <2>3. x[i] > 0 => x[i] * d > 0
    BY <1>1, <1>2, Products
  <2> DEFINE u == s * (p - 1)
             v == x[i] * d
             w == d * p
  <2>4. SmoothStep(x, p)[<<i, a>>] = <<u + v, w>>
    BY <1>3, <1>5
  <2>5. u \in Nat /\ v \in Nat /\ w \in Nat \ {0} /\ (s = 0 /\ x[i] = 0 => u = 0 /\ v = 0)
          /\ (x[i] > 0 => v > 0)
    BY <2>1, <2>2, <2>3
  <2> HIDE DEF u, v, w
  <2> QED
    BY <2>4, <2>5, <1>1 DEF Scaled
<1> QED
  BY <1>4, <1>5

(* The average of changes none of which is a loss is zero when none is a   *)
(* gain, and positive when all are.                                        *)
LEMMA SmoothedOf ==
  ASSUME NEW x \in Seq(Nat), NEW p \in Nat \ {0}
  PROVE  /\ Smoothed(x, p) \in Nat
         /\ (\A i \in 1..Len(x) : x[i] = 0) => Smoothed(x, p) = 0
         /\ Len(x) > 0 /\ (\A i \in 1..Len(x) : x[i] > 0) => Smoothed(x, p) > 0
<1> DEFINE n == Len(x)
           Once(g) ==
             [k \in 0..n |->
                IF k = 0 THEN <<0, p>>
                ELSE LET sum == g[k - 1][1]
                         scale == g[k - 1][2]
                     IN IF k <= p THEN <<sum + x[k], p>>
                        ELSE <<sum * (p - 1) + x[k] * scale, scale * p>>]
           average == CHOOSE g : g = Once(g)
<1>1. n \in Nat /\ <<0, p>> \in Scaled
  BY DEF Scaled
<1>2. SmoothStep(x, p) \in Steps(n, Scaled)
  <2>1. \A i \in 1..n, a \in Scaled : SmoothStep(x, p)[<<i, a>>] \in Scaled
    BY SmoothStepKeeps
  <2>2. SmoothStep(x, p) = [q \in (1..n) \X Scaled |-> SmoothStep(x, p)[q]]
    BY DEF SmoothStep
  <2> HIDE DEF n
  <2>3. \A q \in (1..n) \X Scaled : SmoothStep(x, p)[q] \in Scaled
    <3>1. ASSUME NEW q \in (1..n) \X Scaled PROVE SmoothStep(x, p)[q] \in Scaled
      <4>1. q[1] \in 1..n /\ q[2] \in Scaled /\ q = <<q[1], q[2]>>
        OBVIOUS
      <4> QED BY <4>1, <2>1
    <3> QED BY <3>1
  <2> QED
    BY <2>2, <2>3 DEF Steps
<1>3. PICK f \in [0..n -> Scaled] :
        f[0] = <<0, p>> /\ \A i \in 1..n : f[i] = SmoothStep(x, p)[<<i, f[i - 1]>>]
  <2> DEFINE first == <<0, p>>
  <2> HIDE DEF n, first
  <2>1. first \in Scaled
    BY <1>1 DEF first
  <2>2. Loop(n, Scaled, first, SmoothStep(x, p)) # {}
    BY <1>1, <1>2, <2>1, LoopRuns
  <2> QED
    BY <2>2 DEF Loop, first
<1>4. ASSUME NEW g, NEW i \in 1..n, g[i - 1] \in Scaled
      PROVE  Once(g)[i] = SmoothStep(x, p)[<<i, g[i - 1]>>]
  <2>1. <<i, g[i - 1]>> \in (1..Len(x)) \X Scaled /\ i \in 0..n /\ i # 0
    BY <1>4
  <2> QED
    BY <2>1 DEF SmoothStep
<1>5. ASSUME NEW i \in 0..n PROVE f[i] = Once(f)[i]
  <2>1. CASE i = 0
    BY <2>1, <1>3
  <2>2. CASE i # 0
    <3> HIDE DEF n, Once
    <3>1. i \in 1..n /\ i - 1 \in 0..n
      BY <2>2, <1>1
    <3>2. f[i - 1] \in Scaled
      BY <3>1, <1>3
    <3> QED
      BY <3>1, <3>2, <1>3, <1>4
  <2> QED
    BY <2>1, <2>2
<1>6. f = Once(f)
  BY <1>5
<1>7. average = Once(average)
  <2> HIDE DEF Once
  <2> QED BY <1>6
<1>8. Smoothed(x, p) = average[n][1]
  BY DEF Smoothed
<1>9. average[0] = <<0, p>>
  <2> HIDE DEF average
  <2> QED BY <1>1, <1>7
<1> HIDE DEF average
<1>10. \A i \in 0..n : average[i] \in Scaled
  <2> DEFINE T == {i \in 0..n : average[i] \in Scaled}
  <2>1. 0 \in T
    <3>1. 0 \in 0..n
      BY <1>1
    <3>2. average[0] \in Scaled
      BY <1>1, <1>9
    <3> HIDE DEF n, Once
    <3> QED BY <3>1, <3>2
  <2>2. ASSUME NEW i \in 1..n, i - 1 \in T PROVE i \in T
    <3>1. i \in 0..n /\ average[i - 1] \in Scaled
      BY <2>2
    <3>2. average[i] = SmoothStep(x, p)[<<i, average[i - 1]>>]
      <4> HIDE DEF Once
      <4> QED BY <1>4, <1>7, <3>1
    <3> QED
      BY <3>1, <3>2, SmoothStepKeeps
  <2>3. 0..n \subseteq T
    <3> HIDE DEF T, n
    <3> QED BY <1>1, <2>1, <2>2, UpTo
  <2> QED
    BY <2>3
<1>11. ASSUME NEW i \in 1..n
       PROVE  /\ average[i - 1] \in Scaled
              /\ average[i] = SmoothStep(x, p)[<<i, average[i - 1]>>]
  <2>1. average[i - 1] \in Scaled
    BY <1>10
  <2> HIDE DEF Once
  <2> QED BY <1>4, <1>7, <2>1
<1>12. ASSUME \A i \in 1..n : x[i] = 0 PROVE average[n][1] = 0
  <2> DEFINE T == {i \in 0..n : average[i][1] = 0}
  <2>1. 0 \in T
    BY <1>1, <1>9
  <2>2. ASSUME NEW i \in 1..n, i - 1 \in T PROVE i \in T
    BY <2>2, <1>11, <1>12, SmoothStepKeeps
  <2>3. 0..n \subseteq T
    <3> HIDE DEF T, n
    <3> QED BY <1>1, <2>1, <2>2, UpTo
  <2> QED
    BY <2>3, <1>1
<1>13. ASSUME n > 0, \A i \in 1..n : x[i] > 0 PROVE average[n][1] > 0
  <2>1. n \in 1..n
    BY <1>1, <1>13
  <2> QED
    BY <2>1, <1>11, <1>13, SmoothStepKeeps
<1>14. average[n][1] \in Nat
  <2>1. average[n] \in Scaled
    BY <1>1, <1>10
  <2> QED
    BY <2>1 DEF Scaled
<1> HIDE DEF n
<1> QED
  BY <1>8, <1>12, <1>13, <1>14 DEF n
--------------------------------------------------------------------------------
(* The pairs of closes of which the second moved so from the first.        *)
Moved(move) == {q \in Nat \X Nat : Move(q[1], q[2]) = move}

(* The gains and the losses compute_rsi averages.                          *)
Gains(c) == [i \in 1..(Len(c) - 1) |-> IF c[i + 1] > c[i] THEN c[i + 1] - c[i] ELSE 0]
Losses(c) == [i \in 1..(Len(c) - 1) |-> IF c[i + 1] < c[i] THEN c[i] - c[i + 1] ELSE 0]

LEMMA Changes ==
  ASSUME NEW c \in Seq(Nat), Len(c) > 0
  PROVE  /\ Gains(c) \in Seq(Nat) /\ Len(Gains(c)) = Len(c) - 1
         /\ Losses(c) \in Seq(Nat) /\ Len(Losses(c)) = Len(c) - 1
         /\ \A i \in 1..(Len(c) - 1) :
              /\ c[i] \in Nat /\ c[i + 1] \in Nat
              /\ c[i] < c[i + 1] => Gains(c)[i] > 0 /\ Losses(c)[i] = 0
              /\ c[i] > c[i + 1] => Gains(c)[i] = 0 /\ Losses(c)[i] > 0
              /\ c[i] = c[i + 1] => Gains(c)[i] = 0 /\ Losses(c)[i] = 0
<1> DEFINE n == Len(c) - 1
<1>1. n \in Nat /\ \A i \in 1..n : i \in 1..Len(c) /\ i + 1 \in 1..Len(c)
  OBVIOUS
<1>2. \A i \in 1..n : c[i] \in Nat /\ c[i + 1] \in Nat
  BY <1>1, ElementOfSeq
<1>3. Gains(c) \in [1..n -> Nat] /\ Losses(c) \in [1..n -> Nat]
  <2>1. \A i \in 1..n :
          /\ (IF c[i + 1] > c[i] THEN c[i + 1] - c[i] ELSE 0) \in Nat
          /\ (IF c[i + 1] < c[i] THEN c[i] - c[i + 1] ELSE 0) \in Nat
    <3> HIDE DEF n
    <3> QED BY <1>2
  <2> QED
    BY <2>1 DEF Gains, Losses
<1>4. /\ Gains(c) \in Seq(Nat) /\ Len(Gains(c)) = n
      /\ Losses(c) \in Seq(Nat) /\ Len(Losses(c)) = n
  <2> HIDE DEF n
  <2>1. \A f \in [1..n -> Nat] : f \in Seq(Nat) /\ Len(f) = n
    BY <1>1
  <2> QED BY <1>3, <2>1
<1>5. \A i \in 1..n :
        /\ c[i] < c[i + 1] => Gains(c)[i] > 0 /\ Losses(c)[i] = 0
        /\ c[i] > c[i + 1] => Gains(c)[i] = 0 /\ Losses(c)[i] > 0
        /\ c[i] = c[i + 1] => Gains(c)[i] = 0 /\ Losses(c)[i] = 0
  BY <1>2 DEF Gains, Losses
<1> QED
  BY <1>2, <1>4, <1>5

(* The RSI of closes that only rise is 100, of closes that only fall 0, and*)
(* of closes that do not move there is none.                               *)
LEMMA RsiOf ==
  ASSUME NEW c \in Seq(Nat), NEW p \in Nat \ {0}, Len(c) > p
  PROVE  /\ Follows(c, Moved("up")) => Rsi(c, p) = <<100, 1>>
         /\ Follows(c, Moved("down")) => Rsi(c, p)[1] = 0 /\ Rsi(c, p) # NoRsi
         /\ Follows(c, Moved("none")) => Rsi(c, p) = NoRsi
<1> DEFINE g == Smoothed(Gains(c), p)
           l == Smoothed(Losses(c), p)
<1>0. 1 \in 1..(Len(c) - 1)
  OBVIOUS
<1>1. Len(c) \in Nat /\ ~(Len(c) < p + 1) /\ Len(c) > 0 /\ Len(c) - 1 > 0
  OBVIOUS
<1>2. Rsi(c, p) = IF l = 0 THEN IF g > 0 THEN <<100, 1>> ELSE NoRsi
                  ELSE <<100 * g, g + l>>
  BY <1>1 DEF Rsi, Gains, Losses
<1> HIDE DEF g, l
<1>3. g \in Nat /\ l \in Nat
  BY <1>1, Changes, SmoothedOf DEF g, l
<1>4. CASE Follows(c, Moved("up"))
  <2>1. \A i \in 1..(Len(c) - 1) : Gains(c)[i] > 0 /\ Losses(c)[i] = 0
    BY <1>1, <1>4, Changes DEF Follows, Moved, Move
  <2>2. g > 0 /\ l = 0
    BY <1>1, <2>1, Changes, SmoothedOf DEF g, l
  <2>3. ~Follows(c, Moved("down")) /\ ~Follows(c, Moved("none"))
    BY <1>0, <1>4 DEF Follows, Moved
  <2> QED
    BY <1>2, <2>2, <2>3
<1>5. CASE Follows(c, Moved("down"))
  <2>1. \A i \in 1..(Len(c) - 1) : Gains(c)[i] = 0 /\ Losses(c)[i] > 0
    BY <1>1, <1>5, Changes DEF Follows, Moved, Move
  <2>2. g = 0 /\ l > 0
    BY <1>1, <2>1, Changes, SmoothedOf DEF g, l
  <2>3. ~Follows(c, Moved("up")) /\ ~Follows(c, Moved("none"))
    BY <1>0, <1>5 DEF Follows, Moved
  <2> QED
    BY <1>2, <1>3, <2>2, <2>3 DEF NoRsi
<1>6. CASE Follows(c, Moved("none"))
  <2>1. \A i \in 1..(Len(c) - 1) : Gains(c)[i] = 0 /\ Losses(c)[i] = 0
    <3>1. \A i \in 1..(Len(c) - 1) : c[i] \in Nat /\ c[i + 1] \in Nat /\ Move(c[i], c[i + 1]) = "none"
      BY <1>6 DEF Follows, Moved
    <3>2. \A i \in 1..(Len(c) - 1) : c[i] = c[i + 1]
      BY <3>1 DEF Move
    <3> QED BY <1>1, <3>2, Changes
  <2>2. g = 0 /\ l = 0
    BY <1>1, <2>1, Changes, SmoothedOf DEF g, l
  <2>3. ~Follows(c, Moved("up")) /\ ~Follows(c, Moved("down"))
    BY <1>0, <1>6 DEF Follows, Moved
  <2> QED
    BY <1>2, <2>2, <2>3
<1> QED
  BY <1>4, <1>5, <1>6

(* What is usable of a history is a time and a close.                      *)
LEMMA HistoryCloses ==
  ASSUME NEW h \in History
  PROVE  /\ \A i \in DOMAIN h.bars : Finite(h.bars[i]) => h.bars[i] \in Nat
         /\ \A i \in Usable(h) : h.candles[i].close \in Nat
<1>1. h.bars \in Seq(Nat \cup {Bad})
  BY RulesAssumption
<1>2. \A i \in DOMAIN h.bars : h.bars[i] \in Nat \cup {Bad}
  BY <1>1, ElementOfSeq
<1> QED
  BY <1>2, UsableCandle DEF Finite

LEMMA TrendFollows ==
  ASSUME NEW h \in History
  PROVE  /\ LoadCloses(h) \in Seq(Nat)
         /\ \A move : Trends(h, move) => Follows(LoadCloses(h), Moved(move))
<1>1. LoadCloses(h) \in Seq(Nat)
  <2>1. Follows(LoadCloses(h), Nat \X Nat)
    BY ClosesFollow, HistoryCloses
  <2> QED
    BY <2>1 DEF Follows
<1>2. ASSUME NEW move, Trends(h, move) PROVE Follows(LoadCloses(h), Moved(move))
  <2>1. /\ \A i, j \in DOMAIN h.bars :
             i < j /\ Finite(h.bars[i]) /\ Finite(h.bars[j])
               => <<h.bars[j], h.bars[i]>> \in Moved(move)
        /\ \A i, j \in Usable(h) :
             i # j /\ Stamp(h, i) <= Stamp(h, j)
               => <<h.candles[i].close, h.candles[j].close>> \in Moved(move)
    BY <1>2, HistoryCloses DEF Trends, Moved
  <2> QED
    BY <2>1, ClosesFollow
<1> QED
  BY <1>1, <1>2

(* The RSI an alert looks at follows the prices: for every history of the  *)
(* provider, with timestamps in any order or without them in its own, every*)
(* history of the store and every choice between the two, a price that rose*)
(* in every session has RSI 100, one that fell 0, and one that stood still *)
(* none (price_history.py, indicators.py).                                 *)
THEOREM RsiFollows == RulesSpec => []RsiFollowsPrices
<1> DEFINE Known == history \in [Ticker -> History]
<1>1. RulesInit => Known
  BY DEF RulesInit
<1>2. Known /\ [RulesNext]_ruleVars => Known'
  BY DEF RulesNext, ruleVars, CheckRule, QuoteChanges
<1>3. Known => RsiFollowsPrices
  <2> SUFFICES ASSUME Known, NEW s \in Ticker, NEW p \in {2, 3, 14},
                      Len(LoadCloses(history[s])) > p
      PROVE  LET closes == LoadCloses(history[s])
             IN /\ Trends(history[s], "up") => Rsi(closes, p) = <<100, 1>>
                /\ Trends(history[s], "down") => Rsi(closes, p)[1] = 0 /\ Rsi(closes, p) # NoRsi
                /\ Trends(history[s], "none") => Rsi(closes, p) = NoRsi
    BY DEF RsiFollowsPrices
  <2>1. PICK h \in History : h = history[s]
    OBVIOUS
  <2>2. p \in Nat \ {0}
    OBVIOUS
  <2> QED
    BY <2>1, <2>2, TrendFollows, RsiOf
<1> QED
  BY <1>1, <1>2, <1>3, PTL DEF RulesSpec

--------------------------------------------------------------------------------
(*****************************************************************************)
(* Delivery. SendOK is inductive: what a thread has counted was accepted,    *)
(* and as long as it has met no channel of the user, those of the setting    *)
(* are still to do.                                                          *)
(*****************************************************************************)

(* The names a rule may give that have a notifier.                         *)
Channel == {"log", "webhook", "email"}

(* One step of the loop that builds the notifiers of an alert. *)
(* The names in a rule, from which the loop makes notifiers.               *)
NamesOf(s) == s.rule.notifications
BuildStep(s) ==
  [p \in (1..Len(NamesOf(s))) \X Seq(Channel) |->
     IF Built(s, NamesOf(s)[p[1]]) THEN Append(p[2], NamesOf(s)[p[1]]) ELSE p[2]]

(* The loop over the names of a rule builds a list of channels, whatever   *)
(* the names are.                                                          *)
LEMMA NotifiersAreChannels ==
  ASSUME NEW s \in Setting
  PROVE  Notifiers(s) \in Seq(Channel)
<1> DEFINE names == NamesOf(s)
           n == Len(names)
<1>1. n \in Nat
  BY DeliveryAssumption DEF NamesOf
<1>2. \A c : Built(s, c) => c \in Channel
  BY DEF Built, Channel
<1>3. BuildStep(s) \in [(1..n) \X Seq(Channel) -> Seq(Channel)]
  <2>1. ASSUME NEW p \in (1..n) \X Seq(Channel)
        PROVE  (IF Built(s, names[p[1]]) THEN Append(p[2], names[p[1]]) ELSE p[2]) \in Seq(Channel)
    <3>1. p[2] \in Seq(Channel)
      OBVIOUS
    <3> QED
      BY <1>2, <3>1, AppendProperties
  <2> QED
    BY <2>1 DEF BuildStep
<1>4. <<>> \in Seq(Channel)
  OBVIOUS
<1>5. PICK f \in [0..n -> Seq(Channel)] :
        f[0] = <<>> /\ \A i \in 1..n : f[i] = BuildStep(s)[<<i, f[i - 1]>>]
  <2> DEFINE first == <<>>
  <2>1. BuildStep(s) \in Steps(n, Seq(Channel)) /\ first \in Seq(Channel)
    BY <1>3, <1>4 DEF Steps
  <2> HIDE DEF n, first
  <2>2. Loop(n, Seq(Channel), first, BuildStep(s)) # {}
    BY <1>1, <2>1, LoopRuns
  <2> QED
    BY <2>2 DEF Loop, first
<1> DEFINE Once(g) ==
      [i \in 0..n |->
         CASE i = 0 -> <<>>
           [] i # 0 /\ Built(s, names[i]) -> Append(g[i - 1], names[i])
           [] OTHER -> g[i - 1]]
           built == CHOOSE g : g = Once(g)
<1>6. ASSUME NEW i \in 0..n PROVE f[i] = Once(f)[i]
  <2>1. CASE i = 0
    BY <2>1, <1>5
  <2>2. CASE i # 0
    <3>1. i \in 1..n /\ i - 1 \in 0..n /\ <<i, f[i - 1]>> \in (1..n) \X Seq(Channel)
      BY <2>2, <1>1
    <3>2. f[i] = IF Built(s, names[i]) THEN Append(f[i - 1], names[i]) ELSE f[i - 1]
      BY <3>1, <1>5 DEF BuildStep
    <3> QED
      BY <2>2, <3>2
  <2> QED
    BY <2>1, <2>2
<1>7. f = Once(f)
  BY <1>6
<1>8. built = Once(built)
  <2> HIDE DEF Once
  <2> QED BY <1>7
<1>9. \A i \in 0..n : built[i] \in Seq(Channel)
  <2> DEFINE T == {i \in 0..n : built[i] \in Seq(Channel)}
  <2> HIDE DEF built
  <2>1. 0 \in T
    BY <1>1, <1>4, <1>8
  <2>2. ASSUME NEW i \in 1..n, i - 1 \in T PROVE i \in T
    <3>1. i \in 0..n /\ i # 0 /\ built[i - 1] \in Seq(Channel)
      BY <1>1, <2>2
    <3>2. built[i] = IF Built(s, names[i]) THEN Append(built[i - 1], names[i]) ELSE built[i - 1]
      BY <1>8, <3>1
    <3>3. Built(s, names[i]) => Append(built[i - 1], names[i]) \in Seq(Channel)
      BY <3>1, <1>2, AppendProperties
    <3> QED
      BY <3>1, <3>2, <3>3
  <2>3. 0..n \subseteq T
    <3> HIDE DEF T, n
    <3> QED BY <1>1, <2>1, <2>2, UpTo
  <2> QED
    BY <2>3
<1>10. built[n] \in Seq(Channel) /\ <<"log">> \in Seq(Channel)
  <2>1. <<"log">> \in Seq(Channel)
    BY DEF Channel
  <2> HIDE DEF built, n
  <2>2. n \in 0..n
    BY <1>1
  <2> QED
    BY <1>9, <2>1, <2>2
<1>11. Notifiers(s) = IF built[n] = <<>> THEN <<"log">> ELSE built[n]
  BY DEF Notifiers, NamesOf
<1> QED
  BY <1>10, <1>11

(* The attempts are at least one and at most ten, whatever is configured.  *)
LEMMA TriesBound == TriesAllowed \in 1..10
<1>1. \E n \in 1..10 : \/ n = RawAttempts
                       \/ RawAttempts < 1 /\ n = 1
                       \/ RawAttempts > 10 /\ n = 10
  BY DeliveryAssumption
<1> QED
  BY <1>1 DEF TriesAllowed

(* A delivery on its way.                                                  *)
Delivering == [event : Nat, test : BOOLEAN, todo : Seq(Channel), tried : Nat,
               user : {"none", "ok", "failed"}, log : BOOLEAN]

(* A thread in the middle of a delivery: what it has counted was accepted, *)
(* and while it has met no channel but the log, the others are still to do.*)
SendOK(s) ==
  /\ s \in Delivering /\ s.event \in 1..minute /\ s.tried < TriesAllowed
  /\ s.user = "ok" /\ ~s.test => \E c \in UserChannel : <<s.event, c>> \in accepted
  /\ s.log /\ ~s.test => <<s.event, "log">> \in accepted
  /\ s.user = "none" =>
       \A i \in DOMAIN Notifiers(setting) :
         \/ Notifiers(setting)[i] = "log"
         \/ \E j \in 1..Len(s.todo) : s.todo[j] = Notifiers(setting)[i]

(* The marker names an event that was accepted over a channel of the user, *)
(* or over the log where the setting has only that.                        *)
MarkerOK ==
  lastTriggered # 0 =>
    \/ \E c \in UserChannel : <<lastTriggered, c>> \in accepted
    \/ /\ <<lastTriggered, "log">> \in accepted
       /\ \A i \in DOMAIN Notifiers(setting) : Notifiers(setting)[i] = "log"

(* SendOK of a thread is what makes MarkerOK hold when it ends.            *)
DeliveryInv ==
  /\ setting \in Setting /\ minute \in Nat \ {0} /\ lastTriggered \in 0..minute
  /\ DOMAIN sending = Checker
  /\ \A t \in Checker : sending[t] = Resting \/ SendOK(sending[t])
  /\ MarkerOK

LEMMA DeliveryInitially ==
  ASSUME DeliveryInit
  PROVE  DeliveryInv
BY DEF DeliveryInit, DeliveryInv, MarkerOK

(* What the other threads do is not disturbed. *)
LEMMA OneProceeds ==
  ASSUME DeliveryInv, NEW t \in Checker, \A u \in Checker \ {t} : sending'[u] = sending[u],
         sending'[t] = Resting \/ SendOK(sending[t])',
         UNCHANGED <<setting, minute>>, accepted \subseteq accepted'
  PROVE  \A u \in Checker : sending'[u] = Resting \/ SendOK(sending[u])'
<1> TAKE u \in Checker
<1>1. CASE u # t
  <2>1. sending'[u] = sending[u] /\ (sending[u] = Resting \/ SendOK(sending[u]))
    BY <1>1 DEF DeliveryInv
  <2>2. setting' = setting /\ minute' = minute
    OBVIOUS
  <2>3. CASE SendOK(sending[u])
    <3> DEFINE s == sending[u]
    <3>1. sending'[u] = s
      BY <2>1
    <3> HIDE DEF s
    <3>2. SendOK(s)
      BY <2>3 DEF s
    <3>3. SendOK(sending[u])'
      BY <2>2, <3>1, <3>2 DEF SendOK
    <3> QED
      BY <3>3
  <2> QED
    BY <2>1, <2>3
<1> QED
  BY <1>1

(* A thread that begins has every channel still to do.                     *)
LEMMA BeginSending ==
  ASSUME DeliveryInv, NEW t \in Checker, Evaluate(t) \/ TestSend(t)
  PROVE  DeliveryInv'
<1>1. PICK test \in BOOLEAN : Proceed(t, Sending(test))
  BY DEF Evaluate, TestSend
<1>2. UNCHANGED <<setting, minute, lastTriggered, accepted>>
  BY DEF Evaluate, TestSend
<1> DEFINE s == Sending(test)
           n == Notifiers(setting)
<1>3. n \in Seq(Channel)
  BY NotifiersAreChannels DEF DeliveryInv
<1>4. s \in Delivering /\ s.event \in 1..minute /\ s.tried < TriesAllowed
      /\ s.user = "none" /\ s.log = FALSE /\ s.todo = n
  BY <1>3, TriesBound DEF Sending, Delivering, DeliveryInv
<1>5. \A i \in DOMAIN n : \E j \in 1..Len(s.todo) : s.todo[j] = n[i]
  BY <1>3, <1>4
<1>6. SendOK(s)
  <2> HIDE DEF s
  <2> QED BY <1>4, <1>5 DEF SendOK
<1>7. /\ DOMAIN sending' = Checker
      /\ \A u \in Checker : sending'[u] = IF u = t THEN s ELSE sending[u]
  BY <1>1 DEF Proceed, DeliveryInv
<1>8. \A u \in Checker : sending'[u] = Resting \/ SendOK(sending[u])'
  <2>1. sending'[t] = s
    BY <1>7
  <2> HIDE DEF s
  <2>2. SendOK(sending[t])'
    BY <1>2, <1>6, <2>1 DEF SendOK
  <2> QED BY <1>2, <1>7, <2>2, OneProceeds
<1>9. MarkerOK'
  BY <1>2 DEF MarkerOK, DeliveryInv
<1> QED
  BY <1>2, <1>7, <1>8, <1>9 DEF DeliveryInv

(* Another attempt, or the answer of the channel that is counted.          *)
LEMMA SettledOK ==
  ASSUME DeliveryInv, NEW t \in Checker, NEW ok \in BOOLEAN,
         SendOK(sending[t]), sending[t].todo # <<>>,
         sending'[t] = ChannelDone(sending[t], ok), UNCHANGED <<setting, minute>>,
         accepted' = IF ok /\ ~sending[t].test
                     THEN accepted \cup {<<sending[t].event, Head(sending[t].todo)>>} ELSE accepted
  PROVE  SendOK(sending[t])'
<1> DEFINE s == sending[t]
           channel == Head(s.todo)
           r == ChannelDone(s, ok)
<1>0. /\ SendOK(s) /\ s.todo # <<>> /\ sending'[t] = r
      /\ accepted' = IF ok /\ ~s.test THEN accepted \cup {<<s.event, channel>>} ELSE accepted
  OBVIOUS
<1> HIDE DEF s
<1>1. s \in Delivering /\ s.todo \in Seq(Channel) /\ Len(s.todo) \in Nat
  BY <1>0 DEF SendOK, Delivering
<1>2. channel \in Channel /\ Tail(s.todo) \in Seq(Channel) /\ Len(Tail(s.todo)) = Len(s.todo) - 1
      /\ s.todo[1] = channel /\ \A j \in 1..Len(Tail(s.todo)) : Tail(s.todo)[j] = s.todo[j + 1]
  BY <1>0, <1>1, HeadTailProperties
<1>3. /\ r.event = s.event /\ r.test = s.test /\ r.todo = Tail(s.todo) /\ r.tried = 0
      /\ r.user = CASE channel = "log" -> s.user
                    [] channel # "log" /\ ok -> "ok"
                    [] OTHER -> IF s.user = "ok" THEN "ok" ELSE "failed"
      /\ r.log = (s.log \/ (channel = "log" /\ ok))
      /\ r \in Delivering
  <2>1. s.user \in {"none", "ok", "failed"} /\ s.event \in Nat /\ s.test \in BOOLEAN /\ s.log \in BOOLEAN
    BY <1>1 DEF Delivering
  <2> QED
    BY <1>1, <1>2, <2>1 DEF ChannelDone, Delivering
<1> HIDE DEF r
<1>4. r.event \in (1..minute)' /\ r.tried < TriesAllowed
  BY <1>0, <1>3, TriesBound DEF SendOK
<1>5. ASSUME r.user = "ok", ~r.test PROVE \E c \in UserChannel : <<r.event, c>> \in accepted'
  <2>1. CASE s.user = "ok"
    BY <2>1, <1>0, <1>3, <1>5 DEF SendOK
  <2>2. CASE s.user # "ok"
    BY <2>2, <1>0, <1>2, <1>3, <1>5 DEF Channel, UserChannel
  <2> QED
    BY <2>1, <2>2
<1>6. ASSUME r.log, ~r.test PROVE <<r.event, "log">> \in accepted'
  BY <1>0, <1>3, <1>6 DEF SendOK
<1>7. ASSUME r.user = "none", NEW i \in DOMAIN Notifiers(setting)
      PROVE  \/ Notifiers(setting)[i] = "log"
             \/ \E j \in 1..Len(r.todo) : r.todo[j] = Notifiers(setting)[i]
  <2>1. s.user = "none" /\ channel = "log"
    BY <1>3, <1>7
  <2>2. CASE Notifiers(setting)[i] # "log"
    <3>1. PICK j \in 1..Len(s.todo) : s.todo[j] = Notifiers(setting)[i]
      BY <1>0, <1>7, <2>1, <2>2 DEF SendOK
    <3>2. j # 1
      BY <1>2, <2>1, <2>2, <3>1
    <3>3. j - 1 \in 1..Len(Tail(s.todo)) /\ (j - 1) + 1 = j
      BY <1>1, <1>2, <3>1, <3>2
    <3> QED
      BY <1>2, <1>3, <3>1, <3>3
  <2> QED
    BY <2>2
<1>8. Notifiers(setting') = Notifiers(setting)
  OBVIOUS
<1> QED
  BY <1>0, <1>3, <1>4, <1>5, <1>6, <1>7, <1>8 DEF SendOK

LEMMA AttemptKeeps ==
  ASSUME DeliveryInv, NEW t \in Checker, NEW answer \in {"accepted", "refused", "transient"},
         Attempt(t, answer)
  PROVE  DeliveryInv'
<1> DEFINE s == sending[t]
           again == answer = "transient" /\ s.tried + 1 < TriesAllowed
           r == IF again THEN [s EXCEPT !.tried = @ + 1] ELSE ChannelDone(s, answer = "accepted")
<1>1. /\ SendOK(s) /\ s.todo # <<>> /\ UNCHANGED <<setting, minute, lastTriggered>>
      /\ accepted' = IF answer = "accepted" /\ ~s.test
                     THEN accepted \cup {<<s.event, Head(s.todo)>>} ELSE accepted
  BY DEF Attempt, DeliveryInv
<1>2. /\ DOMAIN sending' = Checker
      /\ \A u \in Checker : sending'[u] = IF u = t THEN r ELSE sending[u]
  BY DEF Attempt, Proceed, DeliveryInv
<1>3. SendOK(sending[t])'
  <2>1. CASE again
    <3>1. /\ sending'[t] = [s EXCEPT !.tried = s.tried + 1]
          /\ accepted' = accepted /\ s.tried + 1 < TriesAllowed
      BY <2>1, <1>1, <1>2
    <3> HIDE DEF s, again, r
    <3> DEFINE q == [s EXCEPT !.tried = s.tried + 1]
    <3>2. s \in Delivering /\ s.tried \in Nat
      BY <1>1 DEF SendOK, Delivering
    <3>3. /\ q.event = s.event /\ q.test = s.test /\ q.todo = s.todo /\ q.user = s.user
          /\ q.log = s.log /\ q.tried = s.tried + 1 /\ q \in Delivering
      BY <3>2 DEF Delivering
    <3>4. sending'[t] = q
      BY <3>1
    <3> HIDE DEF q
    <3> QED
      BY <1>1, <3>1, <3>3, <3>4 DEF SendOK
  <2>2. CASE ~again
    <3>1. sending'[t] = ChannelDone(s, answer = "accepted") /\ (answer = "accepted") \in BOOLEAN
      BY <2>2, <1>2
    <3> DEFINE ok == answer = "accepted"
    <3>2. /\ accepted' = IF ok /\ ~sending[t].test
                          THEN accepted \cup {<<sending[t].event, Head(sending[t].todo)>>}
                          ELSE accepted
          /\ sending'[t] = ChannelDone(sending[t], ok) /\ ok \in BOOLEAN
      BY <1>1, <3>1
    <3> HIDE DEF ok
    <3> QED
      BY <1>1, <3>2, SettledOK
  <2> QED
    BY <2>1, <2>2
<1>4. \A u \in Checker : sending'[u] = Resting \/ SendOK(sending[u])'
  <2>1. \A u \in Checker \ {t} : sending'[u] = sending[u]
    BY <1>2
  <2>2. accepted \subseteq accepted' /\ UNCHANGED <<setting, minute>>
    BY <1>1
  <2> QED
    BY <1>3, <2>1, <2>2, OneProceeds
<1>5. MarkerOK'
  BY <1>1 DEF MarkerOK, DeliveryInv
<1> QED
  BY <1>1, <1>2, <1>4, <1>5 DEF DeliveryInv

LEMMA RestKeeps ==
  ASSUME DeliveryInv, NEW t \in Checker, Proceed(t, Resting),
         UNCHANGED <<setting, minute, accepted>>,
         lastTriggered' \in 0..minute, MarkerOK'
  PROVE  DeliveryInv'
<1>1. DOMAIN sending' = Checker /\ \A u \in Checker : sending'[u] = IF u = t THEN Resting ELSE sending[u]
  BY DEF Proceed, DeliveryInv
<1>2. \A u \in Checker : sending'[u] = Resting \/ SendOK(sending[u])'
  BY <1>1, OneProceeds
<1> QED
  BY <1>1, <1>2 DEF DeliveryInv

(* The marker is set only with an event that was accepted as MarkerOK      *)
(* says.                                                                   *)
LEMMA FinishKeeps ==
  ASSUME DeliveryInv, NEW t \in Checker, FinishDelivery(t)
  PROVE  DeliveryInv'
<1> DEFINE s == sending[t]
<1>1. s.todo = <<>> /\ Proceed(t, Resting) /\ UNCHANGED <<setting, minute, accepted>>
      /\ (UNCHANGED lastTriggered \/ (~s.test /\ Delivered(s) /\ lastTriggered' = s.event))
  BY DEF FinishDelivery
<1>2. SendOK(s)
  BY <1>1 DEF DeliveryInv, Resting
<1> HIDE DEF s
<1>3. CASE UNCHANGED lastTriggered
  <2>1. lastTriggered' \in 0..minute /\ MarkerOK'
    BY <1>1, <1>3 DEF MarkerOK, DeliveryInv
  <2> QED
    BY <1>1, <2>1, RestKeeps
<1>4. CASE ~s.test /\ Delivered(s) /\ lastTriggered' = s.event
  <2>1. lastTriggered' \in 0..minute /\ s.event \in 1..minute /\ minute \in Nat
    BY <1>2, <1>4 DEF SendOK, DeliveryInv
  <2>2. MarkerOK'
    <3>1. CASE s.user = "ok"
      <4>1. \E c \in UserChannel : <<lastTriggered', c>> \in accepted'
        BY <1>1, <1>2, <1>4, <3>1 DEF SendOK
      <4> QED
        BY <4>1 DEF MarkerOK
    <3>2. CASE s.user = "none" /\ s.log
      <4>1. <<s.event, "log">> \in accepted
        BY <1>2, <1>4, <3>2 DEF SendOK
      <4>2. Len(s.todo) = 0
        BY <1>1
      <4>3. \A i \in DOMAIN Notifiers(setting) : Notifiers(setting)[i] = "log"
        BY <1>2, <3>2, <4>2 DEF SendOK
      <4>4. Notifiers(setting)' = Notifiers(setting)
        BY <1>1 DEF Notifiers
      <4> QED
        BY <1>1, <1>4, <4>1, <4>3, <4>4 DEF MarkerOK
    <3> QED
      BY <1>4, <3>1, <3>2 DEF Delivered
  <2> QED
    BY <1>1, <2>1, <2>2, RestKeeps
<1> QED
  BY <1>1, <1>3, <1>4

LEMMA MinuteKeeps ==
  ASSUME DeliveryInv, MinutePasses
  PROVE  DeliveryInv'
<1>1. minute \in Nat /\ minute' = minute + 1 /\ UNCHANGED <<setting, lastTriggered, sending, accepted>>
  BY DEF MinutePasses, DeliveryInv
<1>2. ASSUME NEW t \in Checker, SendOK(sending[t]) PROVE SendOK(sending[t])'
  <2>1. sending[t].event \in 1..(minute') /\ sending'[t] = sending[t]
    BY <1>1, <1>2 DEF SendOK
  <2> DEFINE s == sending[t]
  <2>2. SendOK(s) /\ s.event \in 1..(minute') /\ sending'[t] = s
    BY <1>2, <2>1
  <2> HIDE DEF s
  <2> QED
    BY <1>1, <2>2 DEF SendOK
<1>3. MarkerOK'
  BY <1>1 DEF MarkerOK, DeliveryInv
<1>4. lastTriggered' \in 0..(minute') /\ minute' \in Nat \ {0}
  BY <1>1 DEF DeliveryInv
<1>5. \A t \in Checker : sending'[t] = Resting \/ SendOK(sending[t])'
  BY <1>1, <1>2 DEF DeliveryInv
<1> QED
  BY <1>1, <1>3, <1>4, <1>5 DEF DeliveryInv

LEMMA DeliveryStep ==
  ASSUME DeliveryInv, [DeliveryNext]_deliveryVars
  PROVE  DeliveryInv'
<1>1. CASE UNCHANGED deliveryVars
  BY <1>1 DEF deliveryVars, DeliveryInv, SendOK, MarkerOK
<1>2. ASSUME NEW t \in Checker, CheckerDies(t) PROVE DeliveryInv'
  <2>1. lastTriggered' \in 0..minute /\ MarkerOK'
    BY <1>2 DEF CheckerDies, DeliveryInv, MarkerOK
  <2> QED
    BY <1>2, <2>1, RestKeeps DEF CheckerDies
<1> QED
  BY <1>1, <1>2, BeginSending, AttemptKeeps, FinishKeeps, MinuteKeeps DEF DeliveryNext

LEMMA DeliveryAlways == DeliverySpec => []DeliveryInv
<1>1. DeliveryInit => DeliveryInv
  BY DeliveryInitially
<1>2. DeliveryInv /\ [DeliveryNext]_deliveryVars => DeliveryInv'
  BY DeliveryStep
<1> QED
  BY <1>1, <1>2, PTL DEF DeliverySpec

(* The setting, the marker and the threads are what the types say, for any *)
(* threads, settings and minutes.                                          *)
THEOREM DeliveryTypes == DeliverySpec => []DeliveryTypeOK
<1>1. DeliveryInv => DeliveryTypeOK
  BY DEF DeliveryInv, DeliveryTypeOK, SendOK
<1> QED
  BY <1>1, DeliveryAlways, PTL

(* The marker of an alert names an event that reached its user: over a     *)
(* channel of the user, or over the log when the setting has no other,     *)
(* whatever the number of threads that send it, the tests and the          *)
(* attempts.                                                               *)
THEOREM CooldownNeedsDelivery == DeliverySpec => []MarkerMeansDelivered
<1>1. DeliveryInv => MarkerMeansDelivered
  BY DEF DeliveryInv, MarkerOK, MarkerMeansDelivered, UserChannel
<1> QED
  BY <1>1, DeliveryAlways, PTL

(* The addresses and the transport of a hosted user who did not opt in.    *)
LEMMA OperatorKept ==
  ASSUME NEW s, s.env.hosted, s.rule.optIn = "unset"
  PROVE  /\ WebhookOf(s) # "operator" /\ RecipientOf(s) # "operator"
         /\ SenderOf(s) # "own" /\ TransportOf(s) # {"own"}
<1>1. ~Allowed(s)
  BY DEF Allowed
<1>2. WebhookOf(s) # "operator" /\ RecipientOf(s) # "operator"
  BY <1>1 DEF WebhookOf, RecipientOf
<1>3. \A f : SmtpField(s, f)[1] = "operator"
  BY <1>1 DEF SmtpField
<1>4. SenderOf(s) # "own"
  BY <1>1, <1>3 DEF SenderOf
<1>5. TransportOf(s) \in {{"sendgrid"}, {"mailgun"}, {"operator"}, {}}
  BY <1>3 DEF TransportOf
<1> QED
  BY <1>2, <1>4, <1>5

(* An alert of a hosted user goes to no address of the operator and uses   *)
(* no account of the user, for every setting there can be.                 *)
THEOREM HostedApart == DeliverySpec => []HostedKeepsApart
<1>1. HostedKeepsApart
  BY OperatorKept DEF HostedKeepsApart
<1> QED
  BY <1>1, PTL

--------------------------------------------------------------------------------
(*****************************************************************************)
(* Local files. While the threads are of one process, an update has read     *)
(* what is shown until it renames, because the others wait for their turn.   *)
(*****************************************************************************)

(* All threads are of one process.                                         *)
InOneProcess == \A t, u \in FileThread : ProcessOf(t) = ProcessOf(u)

UpdateRows == Seq(1..MaxUpdates)
ShownRows == IF name.target = 0 THEN <<>> ELSE inode[name.target]

(* An update has its turn; what it makes of the file is up to date, and    *)
(* what it writes to is not what a reader opens.                           *)
UpdateOK(t) ==
  \/ update[t] = NoUpdate
  \/ /\ DOMAIN update[t] = {"at", "fd", "content"}
     /\ update[t].at \in {"loaded", "opened", "closed"}
     /\ updater[ProcessOf(t)] = t
     /\ \E u \in 1..MaxUpdates : update[t].content = NewContent(file, ShownRows, u)
     /\ update[t].at = "loaded" => update[t].fd = 0
     /\ update[t].at # "loaded" => /\ update[t].fd \in Inode /\ update[t].fd # name.target
                                   /\ file # "env" => name.tmp = update[t].fd
     /\ update[t].at = "closed" => inode[update[t].fd] = update[t].content

FilesInv ==
  /\ file \in File /\ begun \in 0..MaxUpdates
  /\ DOMAIN inode = Inode /\ DOMAIN updater = FileProcess /\ DOMAIN update = FileThread
  /\ name \in [target : Inode \cup {0}, tmp : Inode \cup {0}]
  /\ name.tmp # 0 => name.tmp # name.target /\ file # "env"
  /\ ShownRows \in UpdateRows
  /\ \A t \in FileThread : UpdateOK(t)

(* A file of sequence numbers is not torn. *)
LEMMA RowsAreWhole == ASSUME NEW s \in UpdateRows PROVE s # Torn
<1>1. Torn[1] = 0 /\ 1 \in DOMAIN Torn
  BY DEF Torn
<1>2. \A i \in DOMAIN s : s[i] \in 1..MaxUpdates
  BY LenProperties, ElementOfSeq DEF UpdateRows
<1> QED
  BY <1>1, <1>2

LEMMA NewContentIsRows ==
  ASSUME NEW f, NEW s \in UpdateRows, NEW u \in 1..MaxUpdates
  PROVE  NewContent(f, s, u) \in UpdateRows
<1>1. Append(s, u) \in UpdateRows /\ <<u>> \in UpdateRows /\ Append(s, u) # <<>>
  BY AppendProperties DEF UpdateRows
<1>2. Tail(Append(s, u)) \in UpdateRows
  BY <1>1, HeadTailProperties DEF UpdateRows
<1> QED
  BY <1>1, <1>2 DEF NewContent

(* There are more inodes than names and descriptors. *)
LEMMA SomeInodeFree ==
  ASSUME FilesInv, NEW t \in FileThread, \A u \in FileThread : update[u].fd = 0
  PROVE  FreeInode \in Inode /\ FreeInode \notin {name.target, name.tmp}
<1>1. Cardinality(FileThread) \in Nat /\ Cardinality(FileThread) # 0
  BY FilesAssumption, FS_CardinalityType, FS_EmptySet
<1>2. {1, 2, 3} \subseteq Inode /\ 0 \notin Inode
  BY <1>1 DEF Inode
<1>3. InUse \subseteq {name.target, name.tmp, 0}
  BY DEF InUse
<1>4. \E i \in {1, 2, 3} : i # name.target /\ i # name.tmp
  OBVIOUS
<1>5. \E i \in Inode : i \notin InUse
  BY <1>2, <1>3, <1>4
<1>6. FreeInode \in Inode /\ FreeInode \notin InUse
  BY <1>5 DEF FreeInode
<1> QED
  BY <1>6 DEF InUse

LEMMA FilesInitially == FilesInit => FilesInv
<1> SUFFICES ASSUME FilesInit PROVE FilesInv
  OBVIOUS
<1>1. <<>> \in UpdateRows
  BY DEF UpdateRows
<1> QED
  BY <1>1, FilesAssumption DEF FilesInit, FilesInv, UpdateOK, ShownRows

(* Of one process, only the thread whose turn it is updates anything.      *)
LEMMA OneUpdates ==
  ASSUME InOneProcess, FilesInv, NEW t \in FileThread, update[t] # NoUpdate
  PROVE  \A u \in FileThread \ {t} : update[u] = NoUpdate
BY DEF InOneProcess, FilesInv, UpdateOK

LEMMA BeginUpdateKeeps ==
  ASSUME InOneProcess, FilesInv, NEW t \in FileThread, BeginUpdate(t)
  PROVE  FilesInv'
<1> DEFINE c == NewContent(file, Content(name.target), begun')
           d == [at |-> "loaded", fd |-> 0, content |-> c]
<1>1. /\ updater' = [updater EXCEPT ![ProcessOf(t)] = t] /\ begun' = begun + 1
      /\ update' = [update EXCEPT ![t] = d] /\ UNCHANGED <<file, inode, name>>
      /\ begun' \in 1..MaxUpdates /\ updater[ProcessOf(t)] = NoTurn
  BY FilesAssumption DEF BeginUpdate, Continues, FilesInv, TurnFree
<1>2. \A u \in FileThread : update[u] = NoUpdate
  BY <1>1, FilesAssumption DEF FilesInv, UpdateOK, InOneProcess
<1>3. Content(name.target) = ShownRows /\ ShownRows' = ShownRows
  BY <1>1, RowsAreWhole DEF Content, ShownRows, FilesInv
<1>4. /\ DOMAIN d = {"at", "fd", "content"} /\ d.at = "loaded" /\ d.fd = 0
      /\ d.content = NewContent(file, ShownRows, begun')
  BY <1>3
<1> HIDE DEF d
<1>5. \A u \in FileThread : update'[u] = IF u = t THEN d ELSE NoUpdate
  BY <1>1, <1>2 DEF FilesInv
<1>6. updater'[ProcessOf(t)] = t /\ DOMAIN updater' = FileProcess /\ DOMAIN update' = FileThread
  BY <1>1 DEF FilesInv, FileProcess
<1>7. \A u \in FileThread : UpdateOK(u)'
  BY <1>1, <1>3, <1>4, <1>5, <1>6 DEF UpdateOK
<1> QED
  BY <1>1, <1>3, <1>6, <1>7 DEF FilesInv

(* The temporary file is not the file, so that a reader sees nothing of it.*)
LEMMA OpenTmpKeeps ==
  ASSUME InOneProcess, FilesInv, NEW t \in FileThread, OpenTmp(t)
  PROVE  FilesInv' /\ UNCHANGED <<file, ShownRows>>
<1> DEFINE fd == IF file # "env" /\ name.tmp # 0 THEN name.tmp ELSE FreeInode
           d == [update[t] EXCEPT !.at = "opened", !.fd = fd]
<1>1. /\ update[t].at = "loaded" /\ inode' = [inode EXCEPT ![fd] = Torn]
      /\ name' = IF file = "env" THEN name ELSE [name EXCEPT !.tmp = fd]
      /\ update' = [update EXCEPT ![t] = d] /\ UNCHANGED <<file, updater, begun>>
  BY DEF OpenTmp, Continues
<1>2. update[t] # NoUpdate /\ update[t].fd = 0 /\ DOMAIN update[t] = {"at", "fd", "content"}
  BY <1>1 DEF NoUpdate, FilesInv, UpdateOK
<1>3. \A u \in FileThread \ {t} : update[u] = NoUpdate
  BY <1>2, OneUpdates
<1>4. \A u \in FileThread : update[u].fd = 0
  BY <1>2, <1>3 DEF NoUpdate
<1>5. fd \in Inode /\ fd # name.target
  BY <1>4, SomeInodeFree DEF FilesInv
<1>6. 0 \notin Inode
  BY DEF Inode
<1>7. /\ DOMAIN d = {"at", "fd", "content"} /\ d.at = "opened" /\ d.fd = fd
      /\ d.content = update[t].content
  BY <1>2
<1> HIDE DEF fd, d
<1>8. /\ name' \in [target : Inode \cup {0}, tmp : Inode \cup {0}]
      /\ name'.target = name.target
      /\ file # "env" => name'.tmp = fd
      /\ name'.tmp # 0 => name'.tmp # name'.target /\ file # "env"
  BY <1>1, <1>5, <1>6 DEF FilesInv
<1>9. ShownRows' = ShownRows
  BY <1>1, <1>5, <1>8 DEF ShownRows, FilesInv
<1>10. \A u \in FileThread : update'[u] = IF u = t THEN d ELSE NoUpdate
  BY <1>1, <1>3 DEF FilesInv
<1>11. updater[ProcessOf(t)] = t /\ \E u \in 1..MaxUpdates : d.content = NewContent(file, ShownRows, u)
  BY <1>2, <1>7 DEF FilesInv, UpdateOK
<1>12. \A u \in FileThread : UpdateOK(u)'
  BY <1>1, <1>5, <1>7, <1>8, <1>9, <1>10, <1>11 DEF UpdateOK
<1> QED
  BY <1>1, <1>8, <1>9, <1>12 DEF FilesInv

LEMMA CloseTmpKeeps ==
  ASSUME InOneProcess, FilesInv, NEW t \in FileThread, CloseTmp(t)
  PROVE  FilesInv' /\ UNCHANGED <<file, ShownRows>>
<1> DEFINE d == [update[t] EXCEPT !.at = "closed"]
           fd == update[t].fd
<1>1. /\ update[t].at = "opened" /\ inode' = [inode EXCEPT ![fd] = update[t].content]
      /\ update' = [update EXCEPT ![t] = d] /\ UNCHANGED <<file, name, updater, begun>>
  BY DEF CloseTmp, Continues
<1>2. /\ update[t] # NoUpdate /\ DOMAIN update[t] = {"at", "fd", "content"}
      /\ fd \in Inode /\ fd # name.target /\ updater[ProcessOf(t)] = t
      /\ file # "env" => name.tmp = fd
      /\ \E u \in 1..MaxUpdates : update[t].content = NewContent(file, ShownRows, u)
  BY <1>1 DEF NoUpdate, FilesInv, UpdateOK
<1>3. \A u \in FileThread \ {t} : update[u] = NoUpdate
  BY <1>2, OneUpdates
<1>4. /\ DOMAIN d = {"at", "fd", "content"} /\ d.at = "closed" /\ d.fd = fd
      /\ d.content = update[t].content
  BY <1>2
<1> HIDE DEF fd, d
<1>5. ShownRows' = ShownRows /\ inode'[fd] = d.content /\ DOMAIN inode' = Inode
  BY <1>1, <1>2, <1>4 DEF ShownRows, FilesInv
<1>6. \A u \in FileThread : update'[u] = IF u = t THEN d ELSE NoUpdate
  BY <1>1, <1>3 DEF FilesInv
<1>7. \A u \in FileThread : UpdateOK(u)'
  BY <1>1, <1>2, <1>4, <1>5, <1>6 DEF UpdateOK
<1> QED
  BY <1>1, <1>5, <1>7 DEF FilesInv

(* After the last step of an update nobody is in one.                      *)
LEMMA NobodyUpdates ==
  ASSUME FilesInv, \A u \in FileThread : update'[u] = NoUpdate,
         DOMAIN update' = FileThread, DOMAIN updater' = FileProcess, UNCHANGED <<file, inode, begun>>,
         name' \in [target : Inode \cup {0}, tmp : Inode \cup {0}],
         name'.tmp # 0 => name'.tmp # name'.target /\ file # "env", ShownRows' \in UpdateRows
  PROVE  FilesInv'
BY DEF FilesInv, UpdateOK

LEMMA RenameKeeps ==
  ASSUME InOneProcess, FilesInv, NEW t \in FileThread, RenameTmp(t)
  PROVE  /\ FilesInv'
         /\ file' = file /\ \E u \in 1..MaxUpdates : ShownRows' = NewContent(file, ShownRows, u)
<1> DEFINE fd == update[t].fd
<1>1. /\ update[t].at = "closed" /\ update' = [update EXCEPT ![t] = NoUpdate]
      /\ DOMAIN updater' = DOMAIN updater /\ UNCHANGED <<file, inode, begun>>
  BY DEF RenameTmp, EndUpdate, Continues
<1>2. /\ update[t] # NoUpdate /\ fd \in Inode /\ fd # name.target
      /\ file # "env" => name.tmp = fd
      /\ inode[fd] = update[t].content
      /\ \E u \in 1..MaxUpdates : update[t].content = NewContent(file, ShownRows, u)
  BY <1>1 DEF NoUpdate, FilesInv, UpdateOK
<1>3. \A u \in FileThread \ {t} : update[u] = NoUpdate
  BY <1>2, OneUpdates
<1>4. \A u \in FileThread : update'[u] = NoUpdate
  BY <1>1, <1>3 DEF FilesInv
<1>5. name' = [name EXCEPT !.target = fd, !.tmp = IF file = "env" THEN @ ELSE 0]
  BY <1>2 DEF RenameTmp
<1>6. 0 \notin Inode
  BY DEF Inode
<1> HIDE DEF fd
<1>7. /\ name' \in [target : Inode \cup {0}, tmp : Inode \cup {0}] /\ name'.target = fd
      /\ file # "env" => name'.tmp = 0
      /\ file = "env" => name'.tmp = name.tmp
  BY <1>2, <1>5 DEF FilesInv
<1>8. ShownRows' = update[t].content
  BY <1>1, <1>2, <1>6, <1>7 DEF ShownRows
<1>9. ShownRows' \in UpdateRows
  BY <1>2, <1>8, NewContentIsRows DEF FilesInv
<1> QED
  BY <1>1, <1>2, <1>4, <1>7, <1>8, <1>9, NobodyUpdates DEF FilesInv

LEMMA FilesStep ==
  ASSUME InOneProcess, FilesInv, [FilesNext]_fileVars
  PROVE  /\ FilesInv'
         /\ file' = file
         /\ \/ ShownRows' = ShownRows
            \/ \E u \in 1..MaxUpdates : ShownRows' = NewContent(file, ShownRows, u)
<1>1. CASE UNCHANGED fileVars
  BY <1>1 DEF fileVars, FilesInv, UpdateOK, ShownRows
<1>2. ASSUME NEW t \in FileThread, BeginUpdate(t)
      PROVE  FilesInv' /\ file' = file /\ ShownRows' = ShownRows
  BY <1>2, BeginUpdateKeeps DEF BeginUpdate, ShownRows
<1>3. ASSUME NEW t \in FileThread, OpenTmp(t) \/ CloseTmp(t)
      PROVE  FilesInv' /\ file' = file /\ ShownRows' = ShownRows
  BY <1>3, OpenTmpKeeps, CloseTmpKeeps
<1>4. ASSUME NEW t \in FileThread, RenameFails(t)
      PROVE  FilesInv' /\ file' = file /\ ShownRows' = ShownRows
  <2>1. /\ update[t].at = "closed" /\ update' = [update EXCEPT ![t] = NoUpdate]
        /\ DOMAIN updater' = DOMAIN updater /\ UNCHANGED <<file, inode, name, begun>>
    BY <1>4 DEF RenameFails, EndUpdate, Continues
  <2>2. update[t] # NoUpdate
    BY <2>1 DEF NoUpdate
  <2>3. \A u \in FileThread : update'[u] = NoUpdate
    BY <2>1, <2>2, OneUpdates DEF FilesInv
  <2>4. ShownRows' = ShownRows
    BY <2>1 DEF ShownRows
  <2> QED
    BY <2>1, <2>3, <2>4, NobodyUpdates DEF FilesInv
<1>5. ASSUME NEW p \in FileProcess, FileProcessDies(p)
      PROVE  FilesInv' /\ file' = file /\ ShownRows' = ShownRows
  <2>1. /\ update' = [t \in FileThread |-> IF ProcessOf(t) = p THEN NoUpdate ELSE update[t]]
        /\ DOMAIN updater' = DOMAIN updater /\ UNCHANGED <<file, inode, name, begun>>
    BY <1>5 DEF FileProcessDies
  <2>2. \A u \in FileThread : update'[u] = NoUpdate
    BY <2>1 DEF FileProcess, InOneProcess
  <2>3. ShownRows' = ShownRows
    BY <2>1 DEF ShownRows
  <2> QED
    BY <2>1, <2>2, <2>3, NobodyUpdates DEF FilesInv
<1> QED
  BY <1>1, <1>2, <1>3, <1>4, <1>5, RenameKeeps DEF FilesNext

LEMMA FilesAlways == ASSUME InOneProcess PROVE FilesSpec => []FilesInv
<1>1. FilesInv /\ [FilesNext]_fileVars => FilesInv'
  BY FilesStep
<1> QED
  BY <1>1, FilesInitially, PTL DEF FilesSpec

(* While all threads are of one process, a reader never finds a file that  *)
(* is being written, at whatever step of an update a process dies.  Run    *)
(* FilesShared shows that two processes break it.                          *)
THEOREM OneProcessShowsWhole ==
  ASSUME InOneProcess
  PROVE  FilesSpec => []ReadersSeeWhole
<1>1. FilesInv => ReadersSeeWhole
  BY RowsAreWhole DEF FilesInv, ShownRows, ReadersSeeWhole
<1> QED
  BY <1>1, FilesAlways, PTL

(* And the file changes only by one whole update of the content before it: *)
(* the updates of one process lose none of each other.                     *)
THEOREM OneProcessLosesNothing ==
  ASSUME InOneProcess
  PROVE  FilesSpec => ImplementsUpdates
<1>1. FilesInv /\ [FilesNext]_fileVars =>
        [\E u \in 1..MaxUpdates : ShownNow' = AfterUpdate(ShownNow, u)]_ShownNow
  <2> SUFFICES ASSUME FilesInv, [FilesNext]_fileVars
               PROVE  \/ ShownNow' = ShownNow
                      \/ \E u \in 1..MaxUpdates : ShownNow' = AfterUpdate(ShownNow, u)
    OBVIOUS
  <2>1. CASE ShownRows' = ShownRows
    BY <2>1, FilesStep DEF ShownNow, ShownRows
  <2>2. ASSUME NEW u \in 1..MaxUpdates, ShownRows' = NewContent(file, ShownRows, u)
        PROVE  ShownNow' = AfterUpdate(ShownNow, u)
    BY <2>2, FilesStep DEF ShownNow, ShownRows, AfterUpdate
  <2> QED
    BY <2>1, <2>2, FilesStep
<1> QED
  BY <1>1, FilesAlways, PTL DEF FilesSpec, ImplementsUpdates, Updates!UpdatesSpec

(* What the threads of any number of processes have open. Several may have *)
(* the same file open, and the names may refer to it.                      *)
OpenFiles ==
  /\ begun \in 0..MaxUpdates
  /\ name \in [target : Inode \cup {0}, tmp : Inode \cup {0}]
  /\ DOMAIN update = FileThread
  /\ \A t \in FileThread : /\ update[t].fd \in Inode \cup {0}
                           /\ update[t].at \in {"none", "loaded"} => update[t].fd = 0

(* Two more files than threads are enough: a thread that opens one has     *)
(* none open yet.                                                          *)
LEMMA InodeToOpen ==
  ASSUME OpenFiles, NEW t \in FileThread, update[t].at = "loaded"
  PROVE  FreeInode \in Inode
<1> DEFINE N == Cardinality(FileThread)
           others == FileThread \ {t}
           fds == {update[u].fd : u \in others}
           used == fds \cup {name.target} \cup {name.tmp}
<1>1. N \in Nat /\ IsFiniteSet(others) /\ Cardinality(others) = N - 1
  BY FilesAssumption, FS_RemoveElement, FS_CardinalityType
<1>2. IsFiniteSet(fds) /\ Cardinality(fds) <= N - 1
  <2> DEFINE f == [u \in others |-> update[u].fd]
  <2>1. f \in Surjection(others, fds)
    BY DEF Surjection
  <2> QED
    BY <1>1, <2>1, FS_Surjection
<1>3. IsFiniteSet(used) /\ Cardinality(used) <= N + 1
  <2>1. N - 1 \in Nat
    BY <1>1, FS_CardinalityType
  <2> HIDE DEF fds, N
  <2>2. IsFiniteSet(fds \cup {name.target}) /\ Cardinality(fds \cup {name.target}) <= N - 1 + 1
    BY <1>2, <2>1, OneMore
  <2> DEFINE more == fds \cup {name.target}
  <2>3. N \in Nat /\ IsFiniteSet(more) /\ Cardinality(more) <= N
    BY <1>1, <2>2
  <2> HIDE DEF more
  <2>4. IsFiniteSet(more \cup {name.tmp}) /\ Cardinality(more \cup {name.tmp}) <= N + 1
    BY <2>3, OneMore
  <2> QED
    BY <2>4 DEF more
<1>4. IsFiniteSet(Inode) /\ Cardinality(Inode) = N + 2
  BY <1>1, FS_Interval DEF Inode
<1>5. \E i \in Inode : i \notin used
  <2>1. SUFFICES ASSUME Inode \subseteq used PROVE FALSE
    OBVIOUS
  <2>2. Cardinality(Inode) <= Cardinality(used) /\ Cardinality(used) \in Nat
    BY <1>3, <2>1, FS_Subset, FS_CardinalityType
  <2> QED
    BY <1>1, <1>3, <1>4, <2>2
<1>6. 0 \notin Inode /\ update[t].fd = 0
  BY DEF Inode, OpenFiles
<1>7. \E i \in Inode : i \notin InUse
  BY <1>5, <1>6 DEF InUse
<1> QED
  BY <1>7 DEF FreeInode

LEMMA OpenFilesStep ==
  ASSUME OpenFiles, [FilesNext]_fileVars
  PROVE  OpenFiles'
<1>1. CASE UNCHANGED fileVars
  BY <1>1 DEF fileVars, OpenFiles
<1>2. ASSUME NEW t \in FileThread, BeginUpdate(t) PROVE OpenFiles'
  BY <1>2, FilesAssumption DEF BeginUpdate, Continues, OpenFiles
<1>3. ASSUME NEW t \in FileThread, OpenTmp(t) PROVE OpenFiles'
  <2> DEFINE fd == IF file # "env" /\ name.tmp # 0 THEN name.tmp ELSE FreeInode
             d == [update[t] EXCEPT !.at = "opened", !.fd = fd]
  <2>1. /\ update[t].at = "loaded" /\ UNCHANGED begun
        /\ name' = IF file = "env" THEN name ELSE [name EXCEPT !.tmp = fd]
        /\ update' = [update EXCEPT ![t] = d]
    BY <1>3 DEF OpenTmp, Continues
  <2>2. fd \in Inode
    BY <2>1, InodeToOpen DEF OpenFiles
  <2> HIDE DEF fd
  <2>3. name' \in [target : Inode \cup {0}, tmp : Inode \cup {0}]
    BY <2>1, <2>2 DEF OpenFiles
  <2>4. d.fd \in Inode \cup {0} /\ d.at \notin {"none", "loaded"}
    <3>1. update[t].fd = 0
      BY <2>1 DEF OpenFiles
    <3> QED
      BY <2>2, <3>1
  <2> HIDE DEF d
  <2> QED
    BY <2>1, <2>3, <2>4 DEF OpenFiles
<1>4. ASSUME NEW t \in FileThread, CloseTmp(t) PROVE OpenFiles'
  <2> DEFINE d == [update[t] EXCEPT !.at = "closed"]
  <2>1. /\ UNCHANGED <<name, begun>> /\ update' = [update EXCEPT ![t] = d]
    BY <1>4 DEF CloseTmp, Continues
  <2>2. d.fd \in Inode \cup {0} /\ d.at \notin {"none", "loaded"}
    BY <1>4 DEF CloseTmp, OpenFiles
  <2> HIDE DEF d
  <2> QED
    BY <2>1, <2>2 DEF OpenFiles
<1>5. ASSUME NEW t \in FileThread, RenameTmp(t) \/ RenameFails(t) PROVE OpenFiles'
  <2> DEFINE source == IF file = "env" THEN update[t].fd ELSE name.tmp
  <2>1. /\ UNCHANGED begun /\ update' = [update EXCEPT ![t] = NoUpdate]
        /\ \/ name' = [name EXCEPT !.target = source, !.tmp = IF file = "env" THEN @ ELSE 0]
           \/ name' = name
    BY <1>5 DEF RenameTmp, RenameFails, EndUpdate, Continues
  <2>2. source \in Inode \cup {0}
    BY DEF OpenFiles
  <2> HIDE DEF source
  <2>3. name' \in [target : Inode \cup {0}, tmp : Inode \cup {0}]
    BY <2>1, <2>2 DEF OpenFiles
  <2> QED
    BY <2>1, <2>3 DEF OpenFiles, NoUpdate
<1>6. ASSUME NEW p \in FileProcess, FileProcessDies(p) PROVE OpenFiles'
  BY <1>6 DEF FileProcessDies, OpenFiles, NoUpdate
<1> QED
  BY <1>1, <1>2, <1>3, <1>4, <1>5, <1>6 DEF FilesNext

(* The names refer to files that are there, for any threads and processes: *)
(* a thread that opens a file always finds one that nothing refers to.     *)
THEOREM FilesTypes == FilesSpec => []FilesTypeOK
<1>1. FilesInit => OpenFiles
  BY FilesAssumption DEF FilesInit, OpenFiles, NoUpdate
<1>2. OpenFiles => FilesTypeOK
  BY FilesAssumption DEF OpenFiles, FilesTypeOK
<1> QED
  BY <1>1, <1>2, OpenFilesStep, PTL DEF FilesSpec

--------------------------------------------------------------------------------
(*****************************************************************************)
(* Heartbeats. A row is never newer than the latest success of the process   *)
(* it names, because a thread carries the time of its own cycle and writes   *)
(* under the id its process has had since.                                   *)
(*****************************************************************************)

HealthProcess == {"worker", "api"}

(* A result in hand is no newer than the clock, and no newer than the      *)
(* latest success of its process if it is one.                             *)
CycleOK(t) ==
  cycle[t].at \in {"record", "insert"} =>
    /\ cycle[t] \in [at : {"record", "insert"}, status : {"healthy", "error"}, now : Nat]
    /\ cycle[t].now <= wall
    /\ cycle[t].status = "healthy" => cycle[t].now <= succeeded[IdOf(t)]

(* The same of a row: the process it names has succeeded since.            *)
HeartbeatOK(i) ==
  /\ i \in WorkerId /\ i[2] <= life[i[1]]
  /\ heartbeat[i].seen \in Nat /\ heartbeat[i].seen <= wall
  /\ heartbeat[i].status = "healthy" => heartbeat[i].seen <= succeeded[i]

(* Each conjunct is about one variable and the history that it must not be *)
(* ahead of.                                                               *)
HealthInv ==
  /\ wall \in Nat
  /\ life \in [HealthProcess -> Nat] /\ \A p \in HealthProcess : life[p] \in 1..MaxLife[p]
  /\ DOMAIN cycle = Thread /\ \A t \in Thread : CycleOK(t)
  /\ succeeded \in [WorkerId -> Nat] /\ \A i \in WorkerId : succeeded[i] <= wall
  /\ \A i \in DOMAIN heartbeat : HeartbeatOK(i)

(* Every thread is one of the worker process or of the API process.        *)
LEMMA Owners == /\ \A t \in Thread : Owner[t] \in HealthProcess
                /\ Thread = {"loop", "startup", "refresh"}
BY DEF Thread, Owner, HealthProcess

(* A thread writes under the id of the process as it was started last.     *)
LEMMA ThreadIds ==
  ASSUME HealthInv, NEW t \in Thread
  PROVE  IdOf(t) \in WorkerId /\ IdOf(t)[1] = Owner[t] /\ IdOf(t)[2] = life[Owner[t]]
<1>1. Owner[t] \in HealthProcess
  BY Owners
<1>2. life[Owner[t]] \in 1..MaxLife[Owner[t]]
  BY <1>1 DEF HealthInv
<1>3. QED
  BY <1>1, <1>2 DEF IdOf, WorkerId, HealthProcess

(* Nothing has run at the start.                                           *)
LEMMA HealthInitially ==
  ASSUME HealthInit
  PROVE  HealthInv
<1>1. /\ 1 \in 1..MaxLife["worker"] /\ 1 \in 1..MaxLife["api"]
  BY HealthAssumption
<1>2. \A t \in Thread : cycle[t].at \in {"off", "start"}
  BY DEF HealthInit, Off
<1>3. /\ life \in [HealthProcess -> Nat] /\ \A p \in HealthProcess : life[p] \in 1..MaxLife[p]
  BY <1>1 DEF HealthInit, HealthProcess
<1>4. DOMAIN cycle = Thread /\ \A t \in Thread : CycleOK(t)
  BY <1>2 DEF HealthInit, CycleOK
<1>5. /\ succeeded \in [WorkerId -> Nat] /\ \A i \in WorkerId : succeeded[i] <= wall
      /\ wall \in Nat /\ DOMAIN heartbeat = {}
  BY DEF HealthInit
<1> QED
  BY <1>3, <1>4, <1>5 DEF HealthInv

(* A step that only moves one thread to a place where it has no result yet. *)
LEMMA NoResultYet ==
  ASSUME HealthInv, NEW t \in Thread, NEW c, c.at \notin {"record", "insert"},
         Goes(t, c), UNCHANGED <<wall, life, heartbeat, succeeded>>
  PROVE  HealthInv'
<1>1. \A u \in Thread : cycle'[u] = IF u = t THEN c ELSE cycle[u]
  BY DEF Goes, HealthInv
<1>2. \A u \in Thread : CycleOK(u)'
  BY <1>1 DEF HealthInv, CycleOK, IdOf
<1>3. DOMAIN cycle' = Thread
  BY DEF Goes, HealthInv
<1>4. \A i \in DOMAIN heartbeat' : HeartbeatOK(i)'
  BY DEF HealthInv, HeartbeatOK
<1> QED
  BY <1>2, <1>3, <1>4 DEF HealthInv

LEMMA NothingInHand ==
  ASSUME HealthInv, UNCHANGED <<wall, life, cycle, heartbeat, succeeded>>
  PROVE  HealthInv'
BY DEF HealthInv, CycleOK, IdOf, HeartbeatOK

(* The outcome of a cycle is at hand with the time it ended.               *)
LEMMA RunCycleKeeps ==
  ASSUME HealthInv, NEW t \in Thread, NEW status \in {"healthy", "error"}, RunCycle(t, status)
  PROVE  HealthInv'
<1> DEFINE c == [at |-> "record", status |-> status, now |-> wall]
<1>1. \A u \in Thread : cycle'[u] = IF u = t THEN c ELSE cycle[u]
  BY DEF RunCycle, Goes, HealthInv
<1>2. DOMAIN cycle' = Thread /\ UNCHANGED <<wall, life, heartbeat>>
  BY DEF RunCycle, Goes, HealthInv
<1>3. IdOf(t) \in WorkerId
  BY ThreadIds
<1>4. /\ succeeded' \in [WorkerId -> Nat]
      /\ \A i \in WorkerId : succeeded[i] <= succeeded'[i] /\ succeeded'[i] <= wall
      /\ status = "healthy" => succeeded'[IdOf(t)] = wall
  BY <1>3 DEF RunCycle, HealthInv
<1>5. \A u \in Thread : CycleOK(u)'
  <2> TAKE u \in Thread
  <2>1. CASE u = t
    BY <2>1, <1>1, <1>2, <1>4 DEF CycleOK, HealthInv, IdOf
  <2>2. CASE u # t
    <3>1. cycle'[u] = cycle[u] /\ IdOf(u)' = IdOf(u) /\ wall' = wall
      BY <2>2, <1>1, <1>2 DEF IdOf
    <3>2. succeeded[IdOf(u)] \in Nat /\ succeeded'[IdOf(u)] \in Nat
          /\ succeeded[IdOf(u)] <= succeeded'[IdOf(u)]
      BY ThreadIds, <1>4 DEF HealthInv
    <3>3. CycleOK(u)
      BY DEF HealthInv
    <3> QED
      BY <3>1, <3>2, <3>3 DEF CycleOK
  <2> QED
    BY <2>1, <2>2
<1>6. \A i \in DOMAIN heartbeat' : HeartbeatOK(i)'
  <2> TAKE i \in DOMAIN heartbeat'
  <2>1. i \in DOMAIN heartbeat /\ heartbeat'[i] = heartbeat[i] /\ life' = life /\ wall' = wall
    BY <1>2
  <2>2. HeartbeatOK(i)
    BY <2>1 DEF HealthInv
  <2>3. succeeded[i] \in Nat /\ succeeded'[i] \in Nat /\ succeeded[i] <= succeeded'[i]
    BY <2>2, <1>4 DEF HeartbeatOK, HealthInv
  <2> QED
    BY <2>1, <2>2, <2>3 DEF HeartbeatOK
<1> QED
  BY <1>2, <1>4, <1>5, <1>6 DEF HealthInv

(* A thread whose cycle is over has no result in hand.                     *)
LEMMA CycleOverKeeps ==
  ASSUME HealthInv, NEW t \in Thread, CycleOver(t)
  PROVE  /\ DOMAIN cycle' = Thread
         /\ \A u \in Thread : cycle'[u] = cycle[u] \/ cycle'[u].at \in {"off", "asleep"}
BY DEF CycleOver, Raise, Goes, Off, HealthInv

(* The heartbeat a thread writes is one of a cycle that succeeded, if it says so. *)
LEMMA WriteKeeps ==
  ASSUME HealthInv, NEW t \in Thread, cycle[t].at \in {"record", "insert"}, CycleOver(t),
         UNCHANGED <<wall, life, succeeded>>,
         DOMAIN heartbeat' \subseteq DOMAIN heartbeat \cup {IdOf(t)},
         \A i \in DOMAIN heartbeat' :
           heartbeat'[i] = IF i = IdOf(t) THEN Row(t) ELSE heartbeat[i]
  PROVE  HealthInv'
<1>1. /\ DOMAIN cycle' = Thread
      /\ \A u \in Thread : cycle'[u] = cycle[u] \/ cycle'[u].at \in {"off", "asleep"}
  BY CycleOverKeeps
<1>2. \A u \in Thread : CycleOK(u)'
  BY <1>1 DEF HealthInv, CycleOK, IdOf
<1>3. \A i \in DOMAIN heartbeat' : HeartbeatOK(i)'
  <2> TAKE i \in DOMAIN heartbeat'
  <2>1. CASE i = IdOf(t)
    <3>1. heartbeat'[i] = Row(t) /\ CycleOK(t)
      BY <2>1 DEF HealthInv
    <3>2. i \in WorkerId /\ i[1] = Owner[t] /\ i[2] = life[Owner[t]]
      BY <2>1, ThreadIds
    <3>3. life[Owner[t]] \in Nat
      BY Owners DEF HealthInv
    <3> QED
      BY <3>1, <3>2, <3>3, <2>1 DEF HeartbeatOK, CycleOK, Row
  <2>2. CASE i # IdOf(t)
    BY <2>2 DEF HealthInv, HeartbeatOK
  <2> QED
    BY <2>1, <2>2
<1> QED
  BY <1>1, <1>2, <1>3 DEF HealthInv

LEMMA UpdateHeartbeatKeeps ==
  ASSUME HealthInv, NEW t \in Thread, UpdateHeartbeat(t)
  PROVE  HealthInv'
<1>1. CASE IdOf(t) \in DOMAIN heartbeat
  BY <1>1, WriteKeeps DEF UpdateHeartbeat
<1>2. CASE IdOf(t) \notin DOMAIN heartbeat
  <2> DEFINE c == [cycle[t] EXCEPT !.at = "insert"]
  <2>1. \A u \in Thread : cycle'[u] = IF u = t THEN c ELSE cycle[u]
    BY <1>2 DEF UpdateHeartbeat, Goes, HealthInv
  <2>2. DOMAIN cycle' = Thread /\ UNCHANGED <<wall, life, heartbeat, succeeded>>
    BY <1>2 DEF UpdateHeartbeat, Goes, HealthInv
  <2>3. cycle[t].at = "record"
    BY DEF UpdateHeartbeat
  <2>4. CycleOK(t)'
    BY <2>1, <2>2, <2>3 DEF CycleOK, HealthInv, IdOf
  <2>5. \A u \in Thread : CycleOK(u)'
    BY <2>1, <2>2, <2>4 DEF CycleOK, HealthInv, IdOf
  <2>6. \A i \in DOMAIN heartbeat' : HeartbeatOK(i)'
    BY <2>2 DEF HealthInv, HeartbeatOK
  <2> QED
    BY <2>2, <2>5, <2>6 DEF HealthInv
<1> QED
  BY <1>1, <1>2

LEMMA InsertHeartbeatKeeps ==
  ASSUME HealthInv, NEW t \in Thread, InsertHeartbeat(t)
  PROVE  HealthInv'
<1>1. CASE IdOf(t) \in DOMAIN heartbeat
  BY <1>1, NoResultYet DEF InsertHeartbeat, Raise, Off
<1>2. CASE IdOf(t) \notin DOMAIN heartbeat
  BY <1>2, WriteKeeps DEF InsertHeartbeat
<1> QED
  BY <1>1, <1>2

(* A new process has a new id and no thread with a result. *)
LEMMA StartAgainKeeps ==
  ASSUME HealthInv, NEW p \in HealthProcess, StartAgain(p)
  PROVE  HealthInv'
<1>1. UNCHANGED <<wall, heartbeat, succeeded>> /\ DOMAIN cycle' = Thread
  BY DEF StartAgain
<1>2. \A u \in Thread : \/ Owner[u] # p /\ cycle'[u] = cycle[u]
                        \/ cycle'[u].at \in {"off", "start"}
  BY DEF StartAgain, Off
<1>3. /\ life' \in [HealthProcess -> Nat]
      /\ \A q \in HealthProcess : life[q] <= life'[q] /\ life[q] \in Nat /\ life'[q] \in Nat
      /\ \A q \in HealthProcess : q # p => life'[q] = life[q]
  BY DEF StartAgain, HealthInv
<1>4. \A q \in HealthProcess : MaxLife[q] \in Nat
  BY HealthAssumption DEF HealthProcess
<1>5. \A q \in HealthProcess : life'[q] \in 1..MaxLife[q]
  BY <1>4 DEF StartAgain, HealthInv
<1>6. \A u \in Thread : CycleOK(u)'
  <2> TAKE u \in Thread
  <2>1. CASE Owner[u] # p /\ cycle'[u] = cycle[u]
    <3>1. IdOf(u)' = IdOf(u)
      BY <2>1, <1>3, Owners DEF IdOf
    <3> QED
      BY <3>1, <2>1, <1>1 DEF CycleOK, HealthInv
  <2>2. CASE cycle'[u].at \in {"off", "start"}
    BY <2>2 DEF CycleOK
  <2> QED
    BY <2>1, <2>2, <1>2
<1>7. \A i \in DOMAIN heartbeat' : HeartbeatOK(i)'
  <2> TAKE i \in DOMAIN heartbeat'
  <2>1. HeartbeatOK(i)
    BY <1>1 DEF HealthInv
  <2>2. i[1] \in HealthProcess /\ i[2] \in Nat
    BY <2>1, <1>4 DEF HeartbeatOK, WorkerId, HealthProcess
  <2> QED
    BY <2>1, <2>2, <1>1, <1>3 DEF HeartbeatOK
<1> QED
  BY <1>1, <1>3, <1>5, <1>6, <1>7 DEF HealthInv

LEMMA WallTickKeeps ==
  ASSUME HealthInv, WallTick
  PROVE  HealthInv'
<1>1. wall \in Nat /\ wall' = wall + 1 /\ UNCHANGED <<life, cycle, heartbeat, succeeded>>
  BY DEF HealthInv, WallTick
<1>2. \A u \in Thread : CycleOK(u)'
  BY <1>1 DEF HealthInv, CycleOK, IdOf
<1>3. \A i \in DOMAIN heartbeat' : HeartbeatOK(i)'
  BY <1>1 DEF HealthInv, HeartbeatOK
<1>4. \A i \in WorkerId : succeeded'[i] <= wall'
  BY <1>1 DEF HealthInv
<1> QED
  BY <1>1, <1>2, <1>3, <1>4 DEF HealthInv

LEMMA HealthStep ==
  ASSUME HealthInv, [HealthNext]_healthVars
  PROVE  HealthInv'
<1>1. CASE UNCHANGED healthVars
  BY <1>1, NothingInHand DEF healthVars
<1>2. ASSUME NEW t \in Thread, InitFails(t) \/ RecordFails(t) PROVE HealthInv'
  BY <1>2, NoResultYet DEF InitFails, RecordFails, Raise, Off
<1>3. CASE RefreshChecks
  BY <1>3, NoResultYet, Owners DEF RefreshChecks
<1>4. CASE LoopGoesOn
  BY <1>4, NoResultYet, Owners DEF LoopGoesOn, Off
<1>5. CASE Signal
  BY <1>5, NothingInHand DEF Signal
<1> QED
  BY <1>1, <1>2, <1>3, <1>4, <1>5, RunCycleKeeps, UpdateHeartbeatKeeps,
     InsertHeartbeatKeeps, StartAgainKeeps, WallTickKeeps DEF HealthNext, HealthProcess

LEMMA HealthAlways == HealthSpec => []HealthInv
<1>1. HealthInit => HealthInv
  BY HealthInitially
<1>2. HealthInv /\ [HealthNext]_healthVars => HealthInv'
  BY HealthStep
<1> QED
  BY <1>1, <1>2, PTL DEF HealthSpec

(* The clock, the rows and the threads are what the types say, for any     *)
(* number of restarts of either process, any interval and any age the      *)
(* endpoint allows.                                                        *)
THEOREM HealthTypes == HealthSpec => []HealthTypeOK
<1>1. HealthInv => HealthTypeOK
  BY DEF HealthInv, HeartbeatOK, HealthTypeOK
<1> QED
  BY <1>1, HealthAlways, PTL

(* An answer that all is well names a process one of whose cycles          *)
(* succeeded no earlier than the time the answer names, which is not too   *)
(* long ago: whatever threads share the id, overwrite each other or die    *)
(* before they write.                                                      *)
THEOREM WorkerServed == HealthSpec => []OkMeansServed
<1>1. HealthInv => OkMeansServed
  <2> SUFFICES ASSUME HealthInv, NEW i \in HealthyAnswers
               PROVE  heartbeat[i].seen <= succeeded[i] /\ wall <= heartbeat[i].seen + StaleSeconds
    BY DEF OkMeansServed
  <2>1. i \in DOMAIN heartbeat /\ FreshRow(heartbeat[i])
    BY DEF HealthyAnswers, Latest
  <2>2. heartbeat[i].seen \in Nat /\ HeartbeatOK(i) /\ wall \in Nat
    BY <2>1 DEF HealthInv, HeartbeatOK
  <2> QED
    BY <2>1, <2>2, HealthAssumption DEF FreshRow, HeartbeatOK
<1> QED
  BY <1>1, HealthAlways, PTL

================================================================================
