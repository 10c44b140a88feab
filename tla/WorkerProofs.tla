---------------------------- MODULE WorkerProofs ----------------------------
(***************************************************************************)
(* Theorems about the polling worker, for every set of payments, campaigns *)
(* and assets and every number of attempts.                                *)
(***************************************************************************)
EXTENDS Worker, SumFacts

LEMMA ConstantFacts ==
    /\ MemoOf \in [Payment -> Campaign \cup {None}]
    /\ None \notin Campaign
    /\ AssetOf \in [Payment -> Asset] /\ AmountOf \in [Payment -> Nat]
    /\ IsFiniteSet(Payment) /\ IsFiniteSet(Asset)
BY WorkerAssumption

-----------------------------------------------------------------------------
(***************************************************************************)
(* The health of the worker: no error survives the record that follows it. *)
(***************************************************************************)
NoErrors == consecutive = 0

\* Whatever failed before, every poll starts with a logger that calls the
\* worker healthy: worker_logger.rs counts from zero each time.
THEOREM HealthyAlways == Spec => []HealthyAtEveryPoll
<1>1. Init => NoErrors
  BY DEF Init, NoErrors
<1>2. ASSUME NoErrors, [Next]_vars
      PROVE  NoErrors'
  <2>1. CASE PollSucceeds
    BY <1>2, <2>1 DEF NoErrors, PollSucceeds, ErrorsAfter
  <2>2. CASE PollFails
    BY <1>2, <2>2 DEF NoErrors, PollFails, ErrorsAfterFailure, ErrorsAfter,
                      Healthy
  <2>3. CASE UNCHANGED consecutive
    BY <1>2, <2>3 DEF NoErrors
  <2>4. [Next]_vars => PollSucceeds \/ PollFails \/ UNCHANGED consecutive
    BY DEF Next, Work, Fetch, FetchOk, FetchFails, Delay, Match,
           Sleep, NewCampaign, vars, logger
  <2> QED BY <1>2, <2>1, <2>2, <2>3, <2>4
<1>3. NoErrors => HealthyAtEveryPoll
  BY DEF NoErrors, HealthyAtEveryPoll
<1> QED BY <1>1, <1>2, <1>3, PTL DEF Spec

-----------------------------------------------------------------------------
(***************************************************************************)
(* Deliveries and totals.  A payment of the batch still to be looked at is *)
(* a delivery not yet counted.                                             *)
(***************************************************************************)
Waiting(p) == IF p \in todo THEN 1 ELSE 0

Types ==
    /\ todo \subseteq Payment
    /\ known \subseteq Campaign
    /\ totals \in [Campaign -> [Asset -> Int]]
    /\ deliveries \in [Payment -> Nat]
    /\ counted \in [Payment -> Nat]

Delivered == \A p \in Payment : counted[p] + Waiting(p) <= deliveries[p]

Worth == [p \in Payment |-> counted[p] * AmountOf[p]]

PaymentsFor(c) == {p \in Payment : MemoOf[p] = c}

PaymentsIn(c, a) == {p \in Payment : MemoOf[p] = c /\ AssetOf[p] = a}

Sums ==
    \A c \in Campaign :
        /\ \A a \in Asset :
              totals[c][a] = SumFunctionOnSet(Worth, PaymentsIn(c, a))
        /\ SumFunctionOnSet(totals[c], Asset)
              = SumFunctionOnSet(Worth, PaymentsFor(c))

LEMMA PaymentsFinite ==
    ASSUME NEW c, NEW a
    PROVE  IsFiniteSet(PaymentsFor(c)) /\ IsFiniteSet(PaymentsIn(c, a))
<1>1. PaymentsFor(c) \in SUBSET Payment /\ PaymentsIn(c, a) \in SUBSET Payment
  BY DEF PaymentsFor, PaymentsIn
<1> QED BY <1>1, ConstantFacts, FS_Subset

LEMMA WorkerInit == Init => Types /\ Delivered /\ Sums
<1> SUFFICES ASSUME Init
             PROVE  Types /\ Delivered /\ Sums
  OBVIOUS
<1>1. Types
  BY DEF Init, Types
<1>2. Delivered
  BY DEF Init, Delivered, Waiting
<1>3. ASSUME NEW c \in Campaign
      PROVE  /\ \A a \in Asset :
                   totals[c][a] = SumFunctionOnSet(Worth, PaymentsIn(c, a))
             /\ SumFunctionOnSet(totals[c], Asset)
                   = SumFunctionOnSet(Worth, PaymentsFor(c))
  <2>1. \A p \in Payment : Worth[p] = 0
    BY ConstantFacts DEF Init, Worth
  <2>2. \A a \in Asset : totals[c][a] = 0
    BY DEF Init
  <2>3. \A a \in Asset : SumFunctionOnSet(Worth, PaymentsIn(c, a)) = 0
    <3> SUFFICES ASSUME NEW a \in Asset
                 PROVE  SumFunctionOnSet(Worth, PaymentsIn(c, a)) = 0
      OBVIOUS
    <3>1. \A p \in PaymentsIn(c, a) : Worth[p] = 0
      BY <2>1 DEF PaymentsIn
    <3> QED BY <3>1, PaymentsFinite, SumZero
  <2>4. SumFunctionOnSet(Worth, PaymentsFor(c)) = 0
    <3>1. \A p \in PaymentsFor(c) : Worth[p] = 0
      BY <2>1 DEF PaymentsFor
    <3> QED BY <3>1, PaymentsFinite, SumZero
  <2>5. SumFunctionOnSet(totals[c], Asset) = 0
    BY <2>2, ConstantFacts, SumZero
  <2> QED BY <2>2, <2>3, <2>4, <2>5
<1> QED BY <1>1, <1>2, <1>3 DEF Sums

\* A payment for a campaign that exists adds its amount to both sides.
LEMMA CountAdds ==
    ASSUME Types, Sums, NEW p \in Payment, Matches(p), Count(p)
    PROVE  /\ Sums' /\ totals' \in [Campaign -> [Asset -> Int]]
           /\ counted' \in [Payment -> Nat] /\ counted'[p] = counted[p] + 1
           /\ \A q \in Payment : q # p => counted'[q] = counted[q]
<1> DEFINE d == MemoOf[p]
           b == AssetOf[p]
           n == AmountOf[p]
<1>1. d \in Campaign /\ b \in Asset /\ n \in Nat
  BY ConstantFacts DEF Matches, Types
<1>2. /\ totals' = [totals EXCEPT ![d][b] = @ + n]
      /\ counted' = [counted EXCEPT ![p] = @ + 1]
  BY DEF Count, Increment
<1>3. MemoOf[p] = d /\ AssetOf[p] = b /\ AmountOf[p] = n
  OBVIOUS
<1> HIDE DEF d, b, n
<1>4. /\ totals' \in [Campaign -> [Asset -> Int]]
      /\ totals'[d][b] = totals[d][b] + n
      /\ \A c \in Campaign, a \in Asset :
            c # d \/ a # b => totals'[c][a] = totals[c][a]
      /\ \A c \in Campaign, a \in Asset :
            totals[c][a] \in Int /\ totals'[c][a] \in Int
  <2> DEFINE row == [totals[d] EXCEPT ![b] = @ + n]
  <2>1. totals' = [totals EXCEPT ![d] = row]
    BY <1>2
  <2>2. /\ row \in [Asset -> Int] /\ row[b] = totals[d][b] + n
        /\ \A a \in Asset : a # b => row[a] = totals[d][a]
    BY <1>1 DEF Types
  <2> HIDE DEF row
  <2> QED BY <1>1, <2>1, <2>2 DEF Types
<1>5. /\ counted' \in [Payment -> Nat] /\ counted'[p] = counted[p] + 1
      /\ \A q \in Payment : q # p => counted'[q] = counted[q]
      /\ counted[p] \in Nat
  BY <1>2 DEF Types
<1>6. /\ \A q \in Payment : Worth[q] \in Int /\ Worth'[q] \in Int
      /\ \A q \in Payment : q # p => Worth'[q] = Worth[q]
      /\ Worth'[p] = Worth[p] + n
  <2>1. ASSUME NEW q \in Payment
        PROVE  /\ Worth[q] = counted[q] * AmountOf[q]
               /\ Worth'[q] = counted'[q] * AmountOf[q]
               /\ Worth[q] \in Int /\ Worth'[q] \in Int
    <3>1. AmountOf[q] \in Int /\ counted[q] \in Int /\ counted'[q] \in Int
      BY <1>5, ConstantFacts DEF Types
    <3> QED BY <3>1 DEF Worth
  <2>2. (counted[p] + 1) * n = counted[p] * n + n
    BY <1>1, <1>5
  <2> QED BY <1>3, <1>5, <2>1, <2>2
<1>7. ASSUME NEW c \in Campaign
      PROVE  /\ \A a \in Asset :
                   totals'[c][a] = SumFunctionOnSet(Worth', PaymentsIn(c, a))
             /\ SumFunctionOnSet(totals'[c], Asset)
                   = SumFunctionOnSet(Worth', PaymentsFor(c))
  <2>1. ASSUME NEW S \in SUBSET Payment, IsFiniteSet(S)
        PROVE  /\ SumFunctionOnSet(Worth, S) \in Int
               /\ p \in S => SumFunctionOnSet(Worth', S)
                                = SumFunctionOnSet(Worth, S) + n
               /\ p \notin S => SumFunctionOnSet(Worth', S)
                                   = SumFunctionOnSet(Worth, S)
    <3>1. \A q \in S : Worth[q] \in Int /\ Worth'[q] \in Int
      BY <1>6
    <3>2. SumFunctionOnSet(Worth, S) \in Int
      BY <2>1, <3>1, SumInt
    <3>3. CASE p \in S
      <4>1. \A q \in S \ {p} : Worth'[q] = Worth[q]
        BY <1>6
      <4> DEFINE s == SumFunctionOnSet(Worth, S)
                 t == SumFunctionOnSet(Worth', S)
      <4>2. t = s + Worth'[p] - Worth[p]
        BY <2>1, <3>1, <3>3, <4>1, SumChange
      <4>3. s \in Int /\ Worth[p] \in Int
        BY <1>6, <3>2
      <4> HIDE DEF s, t
      <4>4. t = s + n
        BY <1>1, <1>6, <4>2, <4>3
      <4> QED BY <3>2, <3>3, <4>4 DEF s, t
    <3>4. CASE p \notin S
      <4>1. \A q \in S : Worth'[q] = Worth[q]
        BY <1>6, <3>4
      <4>2. SumFunctionOnSet(Worth', S) = SumFunctionOnSet(Worth, S)
        BY <2>1, <4>1, SumAgree
      <4> QED BY <3>2, <3>4, <4>2
    <3> QED BY <3>3, <3>4
  <2>2. ASSUME NEW a \in Asset
        PROVE  totals'[c][a] = SumFunctionOnSet(Worth', PaymentsIn(c, a))
    <3>1. totals[c][a] = SumFunctionOnSet(Worth, PaymentsIn(c, a))
      BY DEF Sums
    <3>2. p \in PaymentsIn(c, a) <=> c = d /\ a = b
      BY <1>3 DEF PaymentsIn
    <3>3. PaymentsIn(c, a) \in SUBSET Payment /\ IsFiniteSet(PaymentsIn(c, a))
      BY PaymentsFinite DEF PaymentsIn
    <3>4. CASE c = d /\ a = b
      BY <1>4, <2>1, <3>1, <3>2, <3>3, <3>4
    <3>5. CASE ~(c = d /\ a = b)
      BY <1>4, <2>1, <3>1, <3>2, <3>3, <3>5
    <3> QED BY <3>4, <3>5
  <2>3. SumFunctionOnSet(totals'[c], Asset)
           = SumFunctionOnSet(Worth', PaymentsFor(c))
    <3> DEFINE f == totals[c]
               g == totals'[c]
    <3>1. SumFunctionOnSet(f, Asset) = SumFunctionOnSet(Worth, PaymentsFor(c))
      BY DEF Sums
    <3>2. p \in PaymentsFor(c) <=> c = d
      BY <1>3 DEF PaymentsFor
    <3>3. PaymentsFor(c) \in SUBSET Payment /\ IsFiniteSet(PaymentsFor(c))
      BY PaymentsFinite DEF PaymentsFor
    <3>4. \A a \in Asset : f[a] \in Int /\ g[a] \in Int
      BY <1>4
    <3>5. IsFiniteSet(Asset)
      BY ConstantFacts
    <3>6. CASE c = d
      <4>1. \A a \in Asset \ {b} : g[a] = f[a]
        BY <1>4
      <4>2. g[b] = f[b] + n /\ f[b] \in Int
        BY <1>1, <1>4, <3>6
      <4> HIDE DEF f, g
      <4> DEFINE s == SumFunctionOnSet(f, Asset)
                 t == SumFunctionOnSet(g, Asset)
      <4>3. t = s + g[b] - f[b] /\ s \in Int
        BY <1>1, <3>4, <3>5, <4>1, SumChange, SumInt
      <4> HIDE DEF s, t
      <4>4. t = s + n
        BY <1>1, <4>2, <4>3
      <4>5. SumFunctionOnSet(Worth', PaymentsFor(c))
               = SumFunctionOnSet(Worth, PaymentsFor(c)) + n
        BY <2>1, <3>2, <3>3, <3>6
      <4> QED BY <3>1, <4>4, <4>5 DEF s, t, g
    <3>7. CASE c # d
      <4>1. \A a \in Asset : g[a] = f[a]
        BY <1>4, <3>7
      <4> HIDE DEF f, g
      <4>2. SumFunctionOnSet(g, Asset) = SumFunctionOnSet(f, Asset)
        BY <3>5, <4>1, SumAgree
      <4>3. SumFunctionOnSet(Worth', PaymentsFor(c))
               = SumFunctionOnSet(Worth, PaymentsFor(c))
        BY <2>1, <3>2, <3>3, <3>7
      <4> QED BY <3>1, <4>2, <4>3 DEF g
    <3> QED BY <3>6, <3>7
  <2> QED BY <2>2, <2>3
<1> QED BY <1>4, <1>5, <1>7 DEF Sums, PaymentsIn, PaymentsFor

\* A step that counts nothing.
LEMMA SumsKept ==
    ASSUME Sums, totals' = totals, counted' = counted
    PROVE  Sums'
BY DEF Sums, Worth, PaymentsIn, PaymentsFor

LEMMA FetchDelivers ==
    ASSUME Types, Delivered, Sums, NEW batch \in SUBSET Payment, FetchOk(batch)
    PROVE  Types' /\ Delivered' /\ Sums'
<1>1. /\ todo' = batch
      /\ deliveries' = [p \in Payment |->
                           deliveries[p] + (IF p \in batch THEN 1 ELSE 0)]
      /\ UNCHANGED <<totals, counted, known>>
  BY DEF FetchOk
<1>2. Types'
  BY <1>1 DEF Types
<1>3. ASSUME NEW p \in Payment
      PROVE  counted'[p] + Waiting(p)' <= deliveries'[p]
  <2>1. /\ counted[p] \in Nat /\ deliveries[p] \in Nat
        /\ counted[p] + Waiting(p) <= deliveries[p]
    BY DEF Types, Delivered
  <2>2. /\ deliveries'[p] = deliveries[p] + (IF p \in batch THEN 1 ELSE 0)
        /\ counted' = counted /\ todo' = batch
    BY <1>1
  <2> QED BY <2>1, <2>2 DEF Waiting
<1>4. Delivered'
  BY <1>1, <1>3 DEF Delivered
<1> QED BY <1>1, <1>2, <1>4, SumsKept

LEMMA MatchDelivers ==
    ASSUME Types, Delivered, Sums, NEW p \in Payment, Match(p)
    PROVE  Types' /\ Delivered' /\ Sums'
<1>1. /\ p \in todo /\ todo' = todo \ {p}
      /\ UNCHANGED <<deliveries, known>>
  BY DEF Match
<1>2. /\ counted[p] \in Nat /\ deliveries[p] \in Nat
      /\ \A q \in Payment : /\ counted[q] \in Nat /\ deliveries[q] \in Nat
                            /\ counted[q] + Waiting(q) <= deliveries[q]
  BY DEF Types, Delivered
<1>3. CASE Matches(p) /\ Count(p)
  <2>1. /\ Sums' /\ totals' \in [Campaign -> [Asset -> Int]]
        /\ counted' \in [Payment -> Nat] /\ counted'[p] = counted[p] + 1
        /\ \A q \in Payment : q # p => counted'[q] = counted[q]
    BY <1>3, CountAdds
  <2>2. Types'
    BY <1>1, <2>1 DEF Types
  <2>3. ASSUME NEW q \in Payment
        PROVE  counted'[q] + Waiting(q)' <= deliveries'[q]
    BY <1>1, <1>2, <2>1 DEF Waiting
  <2> QED BY <2>1, <2>2, <2>3 DEF Delivered
<1>4. CASE UNCHANGED <<totals, counted>>
  <2>1. Types'
    BY <1>1, <1>4 DEF Types
  <2>2. ASSUME NEW q \in Payment
        PROVE  counted'[q] + Waiting(q)' <= deliveries'[q]
    BY <1>1, <1>2, <1>4 DEF Waiting
  <2> QED BY <1>4, <2>1, <2>2, SumsKept DEF Delivered
<1> QED BY <1>3, <1>4 DEF Match

LEMMA WorkerNext ==
    ASSUME Types, Delivered, Sums, [Next]_vars
    PROVE  Types' /\ Delivered' /\ Sums'
<1>1. ASSUME UNCHANGED payments, known' \subseteq Campaign
      PROVE  Types' /\ Delivered' /\ Sums'
  BY <1>1, SumsKept DEF payments, Types, Delivered, Waiting
<1>2. known \subseteq Campaign
  BY DEF Types
<1>3. CASE UNCHANGED vars
  BY <1>1, <1>2, <1>3 DEF vars
<1>4. ASSUME NEW c \in Campaign, NewCampaign(c)
      PROVE  Types' /\ Delivered' /\ Sums'
  BY <1>1, <1>2, <1>4 DEF NewCampaign
<1>5. CASE FetchFails \/ Delay \/ PollSucceeds \/ PollFails \/ Sleep
  BY <1>1, <1>2, <1>5 DEF FetchFails, Delay, PollSucceeds, PollFails, Sleep
<1>6. CASE Fetch
  BY <1>5, <1>6, FetchDelivers DEF Fetch
<1>7. ASSUME NEW p \in Payment, Match(p)
      PROVE  Types' /\ Delivered' /\ Sums'
  BY <1>7, MatchDelivers
<1> QED BY <1>3, <1>4, <1>5, <1>6, <1>7 DEF Next, Work

\* A campaign's total is what its counted deliveries were worth, asset by asset
\* and in all, and a payment is counted at most as often as it was delivered.
THEOREM TotalsFollowDeliveries == Spec => []TotalsMatchDeliveries
<1>1. ASSUME Types, Delivered, Sums
      PROVE  TotalsMatchDeliveries
  <2>1. ASSUME NEW p \in Payment
        PROVE  counted[p] <= deliveries[p]
    <3>1. /\ counted[p] \in Nat /\ deliveries[p] \in Nat
          /\ counted[p] + Waiting(p) <= deliveries[p]
      BY <1>1 DEF Types, Delivered
    <3>2. Waiting(p) \in Nat
      BY DEF Waiting
    <3> QED BY <3>1, <3>2
  <2>2. ASSUME NEW c \in Campaign
        PROVE  /\ \A a \in Asset :
                     totals[c][a] = SumFunctionOnSet(Worth, PaymentsIn(c, a))
               /\ CampaignTotal(c) = SumFunctionOnSet(Worth, PaymentsFor(c))
    <3>1. DOMAIN totals[c] = Asset
      BY <1>1 DEF Types
    <3>2. CampaignTotal(c) = SumFunctionOnSet(totals[c], Asset)
      BY <3>1 DEF CampaignTotal, SumFunction
    <3> QED BY <1>1, <3>2 DEF Sums
  <2> QED BY <2>1, <2>2
          DEF TotalsMatchDeliveries, Worth, PaymentsIn, PaymentsFor
<1> QED BY <1>1, WorkerInit, WorkerNext, PTL DEF Spec

=============================================================================
