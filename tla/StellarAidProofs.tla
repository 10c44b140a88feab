-------------------------- MODULE StellarAidProofs --------------------------
(***************************************************************************)
(* Theorems about the platform contract, for every set of users, assets and*)
(* arguments and every width of its integers: its books agree, a pending   *)
(* withdrawal stays covered, and it implements the promise of Withdrawals. *)
(***************************************************************************)
EXTENDS StellarAid, SumFacts, SequenceTheorems

-----------------------------------------------------------------------------
(***************************************************************************)
(* Data: integers, sums over a history.                                    *)
(***************************************************************************)

\* The assumptions, one fact each.
LEMMA ConstantFacts ==
    /\ NoAsset \notin Asset /\ IsFiniteSet(Address) /\ IsFiniteSet(Asset)
    /\ None \notin Address /\ None \notin Campaign /\ None \notin Int
    /\ None \notin WithdrawalRequest /\ None \notin [amount : Int, to : Address]
    /\ BASE_FEE \in Nat /\ MaxI128 \in Nat /\ MaxU32 \in Nat
    /\ MaxCampaigns \in Nat /\ MaxDonations \in Nat /\ MaxRequests \in Nat
    /\ MaxInitializations \in Nat
    /\ \A g \in Goals : g \in Int
    /\ \A n \in DonationAmounts : n \in Int
    /\ \A n \in WithdrawalAmounts : n \in Int
BY ConstantsAssumption

InI128(n) == -MaxI128 - 1 <= n /\ n <= MaxI128

\* A wrapped integer differs from the integer by turns of the whole range.
LEMMA WrapTurns ==
    ASSUME NEW n \in Int
    PROVE  /\ WrapI128(n) \in Int /\ InI128(WrapI128(n))
           /\ \E k \in Int : n = WrapI128(n) + 2 * (MaxI128 + 1) * k
           /\ InI128(n) => WrapI128(n) = n
           /\ n >= -MaxI128 - 1 => WrapI128(n) <= n
<1> DEFINE m == n + MaxI128 + 1
           u == 2 * (MaxI128 + 1)
<1>1. /\ MaxI128 \in Nat /\ u \in Int /\ u > 0 /\ m \in Int
  BY ConstantFacts
<1>2. /\ m \div u \in Int /\ m % u \in Int /\ m = u * (m \div u) + (m % u)
      /\ 0 <= m % u /\ m % u < u
  <2> HIDE DEF m, u
  <2> QED BY <1>1, QuotientFacts
<1>3. ASSUME 0 <= m, m < u
      PROVE  m % u = m
  <2>1. m = u * 0 + m /\ 0 \in Int
    BY <1>1
  <2> HIDE DEF m, u
  <2> QED BY <1>1, <1>3, <2>1, QuotientUnique
<1>4. ASSUME m >= 0
      PROVE  m % u <= m
  <2> HIDE DEF m, u
  <2>1. 0 <= m \div u
    BY <1>1, <1>4, QuotientAtLeast
  <2>2. 0 <= u * (m \div u) /\ u * (m \div u) \in Int
    BY <1>1, <1>2, <2>1
  <2> QED BY <1>1, <1>2, <2>2
<1>5. WrapI128(n) = (m % u) - MaxI128 - 1
  BY DEF WrapI128
<1>6. \E k \in Int : n = WrapI128(n) + 2 * (MaxI128 + 1) * k
  <2> DEFINE k == m \div u
             r == m % u
  <2>1. /\ k \in Int /\ r \in Int /\ m = u * k + r
        /\ WrapI128(n) = r - MaxI128 - 1
    BY <1>2, <1>5
  <2> HIDE DEF k, r
  <2>2. u * k \in Int
    BY <1>1, <2>1
  <2>3. n = WrapI128(n) + u * k
    <3> HIDE DEF u
    <3> QED BY <1>1, <2>1, <2>2
  <2> QED BY <2>1, <2>3
<1>7. WrapI128(n) \in Int /\ InI128(WrapI128(n))
  <2> DEFINE r == m % u
  <2>1. r \in Int /\ 0 <= r /\ r < u /\ WrapI128(n) = r - MaxI128 - 1
    BY <1>2, <1>5
  <2> HIDE DEF r
  <2> QED BY <1>1, <2>1 DEF InI128
<1>8. InI128(n) => WrapI128(n) = n
  BY <1>1, <1>3, <1>5 DEF InI128
<1>9. n >= -MaxI128 - 1 => WrapI128(n) <= n
  <2> DEFINE r == m % u
  <2>1. r \in Int /\ WrapI128(n) = r - MaxI128 - 1 /\ (m >= 0 => r <= m)
    BY <1>2, <1>4, <1>5
  <2> HIDE DEF r
  <2> QED BY <1>1, <2>1
<1> QED BY <1>6, <1>7, <1>8, <1>9

\* In range, equal up to turns means equal.
LEMMA WrapUnique ==
    ASSUME NEW n \in Int, NEW r \in Int, NEW k \in Int,
           InI128(r), n = r + 2 * (MaxI128 + 1) * k
    PROVE  WrapI128(n) = r
<1> DEFINE u == 2 * (MaxI128 + 1)
<1>1. PICK j \in Int : n = WrapI128(n) + u * j
  BY WrapTurns
<1>2. /\ WrapI128(n) \in Int /\ InI128(WrapI128(n))
      /\ MaxI128 \in Nat /\ u \in Int /\ u > 0
  <2>1. MaxI128 \in Nat
    BY ConstantFacts
  <2>2. WrapI128(n) \in Int /\ InI128(WrapI128(n))
    BY WrapTurns
  <2> QED BY <2>1, <2>2
<1>3. WrapI128(n) - r < u /\ r - WrapI128(n) < u
  BY <1>2 DEF InI128
<1>4. n = r + u * k
  OBVIOUS
<1> DEFINE w == WrapI128(n)
<1> HIDE DEF u, w
<1>5. w \in Int /\ w - r < u /\ r - w < u /\ n = w + u * j
  BY <1>1, <1>2, <1>3 DEF w
<1>6. k - j \in Int /\ w - r = u * (k - j)
  BY <1>2, <1>4, <1>5
<1>7. ~(k - j >= 1)
  <2> SUFFICES ASSUME k - j >= 1
               PROVE  FALSE
    OBVIOUS
  <2>1. 1 * u <= (k - j) * u
    BY <1>2, <1>6, ProductMonotonic
  <2> QED BY <1>2, <1>5, <1>6, <2>1
<1>8. ~(k - j <= -1)
  <2> SUFFICES ASSUME k - j <= -1
               PROVE  FALSE
    OBVIOUS
  <2>1. (k - j) * u <= (-1) * u
    BY <1>2, <1>6, ProductMonotonic
  <2> QED BY <1>2, <1>5, <1>6, <2>1
<1>9. k - j = 0
  BY <1>6, <1>7, <1>8
<1> QED BY <1>2, <1>5, <1>6, <1>9 DEF w

\* Adding to a wrapped total is adding before wrapping.
LEMMA WrapPlus ==
    ASSUME NEW m \in Int, NEW n \in Int
    PROVE  WrapI128(WrapI128(m) + n) = WrapI128(m + n)
<1> DEFINE u == 2 * (MaxI128 + 1)
           w == WrapI128(m)
           x == WrapI128(w + n)
<1>1. w \in Int /\ x \in Int /\ InI128(x) /\ u \in Int
  BY WrapTurns, ConstantFacts
<1>2. PICK j \in Int : m = w + u * j
  BY WrapTurns
<1>3. PICK k \in Int : w + n = x + u * k
  BY <1>1, WrapTurns
<1> HIDE DEF u, w, x
<1>4. j + k \in Int /\ m + n \in Int /\ m + n = x + u * (j + k)
  BY <1>1, <1>2, <1>3
<1> USE DEF u
<1>5. WrapI128(m + n) = x
  BY <1>1, <1>4, WrapUnique
<1> QED BY <1>5 DEF x, w

\* Taking from a wrapped total what it covers is taking before wrapping.
LEMMA WrapMinus ==
    ASSUME NEW m \in Int, NEW n \in Int, 0 <= n, n <= WrapI128(m)
    PROVE  WrapI128(m - n) = WrapI128(m) - n
<1> DEFINE u == 2 * (MaxI128 + 1)
           w == WrapI128(m)
<1>1. w \in Int /\ InI128(w) /\ u \in Int /\ MaxI128 \in Nat
  BY WrapTurns, ConstantFacts
<1>2. PICK j \in Int : m = w + u * j
  BY WrapTurns
<1>3. n <= w
  OBVIOUS
<1> HIDE DEF w
<1>4. w - n \in Int /\ InI128(w - n)
  BY <1>1, <1>3 DEF InI128
<1>5. m - n = (w - n) + u * j
  <2>1. u * j \in Int
    BY <1>1, <1>2
  <2> HIDE DEF u
  <2> QED BY <1>1, <1>2, <2>1
<1>6. WrapI128(m - n) = w - n
  BY <1>2, <1>4, <1>5, WrapUnique
<1> QED BY <1>6 DEF w

LEMMA IntervalFinite ==
    ASSUME NEW n \in Nat
    PROVE  IsFiniteSet(1 .. n) /\ Cardinality(1 .. n) = n
<1>1. /\ IsFiniteSet(1 .. n)
      /\ Cardinality(1 .. n) = IF 1 > n THEN 0 ELSE n - 1 + 1
  BY FS_Interval, 1 \in Int, n \in Int
<1> QED BY <1>1

\* A history that one record is added to: indices, types, sums.
LEMMA AppendFacts ==
    ASSUME NEW S, NEW h \in Seq(S), NEW r \in S
    PROVE  /\ Len(h) \in Nat /\ DOMAIN h = 1 .. Len(h)
           /\ Append(h, r) \in Seq(S) /\ Len(Append(h, r)) = Len(h) + 1
           /\ DOMAIN Append(h, r) = DOMAIN h \cup {Len(h) + 1}
           /\ Len(h) + 1 \notin DOMAIN h
           /\ \A i \in DOMAIN h : Append(h, r)[i] = h[i]
           /\ Append(h, r)[Len(h) + 1] = r
<1>1. Len(h) \in Nat /\ DOMAIN h = 1 .. Len(h)
  BY LenProperties
<1>2. /\ Append(h, r) \in Seq(S) /\ Len(Append(h, r)) = Len(h) + 1
      /\ \A i \in 1 .. Len(h) : Append(h, r)[i] = h[i]
      /\ Append(h, r)[Len(h) + 1] = r
  BY AppendProperties
<1>3. DOMAIN Append(h, r) = 1 .. Len(Append(h, r))
  BY <1>2, LenProperties
<1>4. 1 .. (Len(h) + 1) = (1 .. Len(h)) \cup {Len(h) + 1}
  BY <1>1
<1> QED BY <1>1, <1>2, <1>3, <1>4

\* The amounts of the records at some places of a history.
AmountsAt(h, S) == SumFunctionOnSet([i \in DOMAIN h |-> h[i].amount], S)

LEMMA AmountsType ==
    ASSUME NEW h \in Seq(DonationRecord), NEW S \in SUBSET DOMAIN h
    PROVE  /\ IsFiniteSet(DOMAIN h) /\ IsFiniteSet(S)
           /\ \A i \in DOMAIN h : h[i].amount \in Int
           /\ AmountsAt(h, S) \in Int
           /\ SumOfAmounts(h) = AmountsAt(h, DOMAIN h)
<1>1. Len(h) \in Nat /\ DOMAIN h = 1 .. Len(h)
  BY LenProperties
<1>2. IsFiniteSet(DOMAIN h)
  BY <1>1, IntervalFinite
<1>3. IsFiniteSet(S)
  BY <1>2, FS_Subset
<1>4. \A i \in DOMAIN h : h[i].amount \in Int
  <2>1. \A i \in DOMAIN h : h[i] \in DonationRecord
    BY <1>1, ElementOfSeq
  <2> QED BY <2>1 DEF DonationRecord
<1> DEFINE f == [i \in DOMAIN h |-> h[i].amount]
<1>5. \A i \in S : f[i] \in Int
  BY <1>4
<1> HIDE DEF f
<1>6. SumFunctionOnSet(f, S) \in Int
  BY <1>3, <1>5, SumInt
<1> USE DEF f
<1>7. SumOfAmounts(h) = SumFunctionOnSet(f, DOMAIN h)
  BY DEF SumOfAmounts, SumFunction
<1> QED BY <1>2, <1>3, <1>4, <1>6, <1>7 DEF AmountsAt

\* A new record counts where its place does.
LEMMA AmountsAppend ==
    ASSUME NEW h \in Seq(DonationRecord), NEW r \in DonationRecord,
           NEW S \in SUBSET DOMAIN h
    PROVE  /\ AmountsAt(Append(h, r), S) = AmountsAt(h, S)
           /\ AmountsAt(Append(h, r), S \cup {Len(h) + 1})
                = AmountsAt(h, S) + r.amount
           /\ SumOfAmounts(Append(h, r)) = SumOfAmounts(h) + r.amount
<1> DEFINE g == Append(h, r)
           n == Len(h) + 1
           e == [i \in DOMAIN h |-> h[i].amount]
           f == [i \in DOMAIN g |-> g[i].amount]
<1>1. /\ g \in Seq(DonationRecord) /\ DOMAIN g = DOMAIN h \cup {n}
      /\ n \notin DOMAIN h /\ g[n] = r
      /\ \A i \in DOMAIN h : g[i] = h[i]
  BY AppendFacts
<1>2. ASSUME NEW T \in SUBSET DOMAIN h
      PROVE  /\ AmountsAt(g, T) = AmountsAt(h, T)
             /\ AmountsAt(g, T \cup {n}) = AmountsAt(h, T) + r.amount
  <2>1. IsFiniteSet(T) /\ AmountsAt(h, T) \in Int /\ AmountsAt(g, T) \in Int
    <3>1. T \in SUBSET DOMAIN g
      BY <1>1
    <3> HIDE DEF g
    <3> QED BY <1>1, <3>1, AmountsType
  <2>2. \A i \in T : f[i] = e[i]
    BY <1>1
  <2>3. AmountsAt(g, T) = AmountsAt(h, T)
    <3> HIDE DEF e, f, g
    <3>1. SumFunctionOnSet(f, T) = SumFunctionOnSet(e, T)
      BY <2>1, <2>2, SumAgree
    <3> QED BY <3>1 DEF AmountsAt, e, f
  <2>4. /\ \A i \in T \cup {n} : f[i] \in Int
        /\ f[n] = r.amount /\ r.amount \in Int
        /\ (T \cup {n}) \ {n} = T
    <3>1. \A i \in DOMAIN g : g[i].amount \in Int
      <4> HIDE DEF g
      <4> QED BY <1>1, AmountsType, DOMAIN g \in SUBSET DOMAIN g
    <3> QED BY <1>1, <3>1 DEF DonationRecord
  <2>5. IsFiniteSet(T \cup {n}) /\ n \in T \cup {n}
    BY <2>1, FS_AddElement
  <2>6. AmountsAt(g, T \cup {n}) = r.amount + AmountsAt(g, T)
    <3> HIDE DEF f, g, n
    <3>1. SumFunctionOnSet(f, T \cup {n})
            = f[n] + SumFunctionOnSet(f, (T \cup {n}) \ {n})
      BY <2>4, <2>5, SumRemove
    <3> QED BY <2>4, <3>1 DEF AmountsAt, f
  <2> HIDE DEF g, n
  <2> QED BY <2>1, <2>3, <2>4, <2>6
<1>3. SumOfAmounts(g) = AmountsAt(g, DOMAIN g)
      /\ SumOfAmounts(h) = AmountsAt(h, DOMAIN h)
  <2> HIDE DEF g
  <2> QED BY <1>1, AmountsType, DOMAIN g \in SUBSET DOMAIN g, DOMAIN h \in SUBSET DOMAIN h
<1> HIDE DEF g, n
<1>4. SumOfAmounts(g) = SumOfAmounts(h) + r.amount
  BY <1>1, <1>2, <1>3
<1> QED BY <1>2, <1>4 DEF g, n

-----------------------------------------------------------------------------
(***************************************************************************)
(* Type correctness, one lemma per group of calls.                         *)
(***************************************************************************)
LEMMA CampaignIds ==
    /\ CampaignId \subseteq Nat /\ IsFiniteSet(CampaignId)
    /\ \A id \in CampaignId : id \in Nat /\ 1 <= id /\ id <= MaxCampaigns
    /\ \A id \in Nat : 1 <= id /\ id <= MaxCampaigns => id \in CampaignId
BY ConstantFacts, IntervalFinite DEF CampaignId

LEMMA TypesInit == Init => TypeOK
BY ConstantFacts, EmptySeq DEF Init, TypeOK

LEMMA TypesInitialize ==
    ASSUME TypeOK, NEW caller \in Address, Initialize(caller)
    PROVE  TypeOK'
BY ConstantFacts DEF TypeOK, Initialize, books, counters

LEMMA TypesCreate ==
    ASSUME TypeOK, NEW creator \in Address, NEW goal \in Goals,
           CreateCampaign(creator, goal)
    PROVE  /\ TypeOK'
           /\ count + 1 \in CampaignId
           /\ campaigns'[count + 1] # None
<1> DEFINE c == [creator |-> creator, goal |-> goal, raised |-> 0,
                 active |-> TRUE]
<1>1. c \in Campaign /\ c # None
  <2>1. goal \in Int
    BY ConstantFacts
  <2>2. c \in Campaign
    BY <2>1 DEF Campaign
  <2> QED BY <2>2, ConstantFacts
<1>2. /\ count \in Nat /\ created \in Nat /\ count <= created
      /\ created < MaxCampaigns /\ MaxCampaigns \in Nat
  BY ConstantFacts DEF TypeOK, CreateCampaign
<1>3. count + 1 \in CampaignId
  BY <1>2, CampaignIds
<1>4. campaigns' = [campaigns EXCEPT ![count + 1] = c]
  BY DEF CreateCampaign
<1> HIDE DEF c
<1>5. /\ campaigns' \in [CampaignId -> Campaign \cup {None}]
      /\ campaigns'[count + 1] # None
  BY <1>1, <1>3, <1>4 DEF TypeOK
<1>6. count' \in 0 .. created' /\ created' \in 0 .. MaxCampaigns
  BY <1>2 DEF CreateCampaign
<1> QED BY <1>3, <1>5, <1>6 DEF CreateCampaign, TypeOK, counters

\* What a donation records.
LEMMA DonateFacts ==
    ASSUME TypeOK, NEW d \in Address, NEW id \in CampaignId,
           NEW amount \in DonationAmounts, NEW asset \in Asset \cup {NoAsset},
           Donate(d, id, amount, asset)
    PROVE  /\ asset \in Asset /\ amount \in Int /\ NetOf(amount) \in Nat
           /\ NetOf(amount) > 0
           /\ [donor |-> d, amount |-> NetOf(amount), asset |-> asset]
                 \in DonationRecord
           /\ campaigns[id] \in Campaign /\ campaigns[id] # None
           /\ campaigns[id].raised \in Int
           /\ history[id] \in Seq(DonationRecord)
           /\ donors[id] \in Seq(Address)
<1>1. amount \in Int /\ BASE_FEE \in Nat /\ amount > BASE_FEE
  BY ConstantFacts DEF Donate, ExceedsFee
<1>2. NetOf(amount) \in Nat /\ NetOf(amount) > 0
  BY <1>1 DEF NetOf
<1>3. asset \in Asset /\ campaigns[id] # None /\ campaigns[id] \in Campaign
  BY DEF Donate, TypeOK
<1>4. campaigns[id].raised \in Int
  BY <1>3 DEF Campaign
<1>5. [donor |-> d, amount |-> NetOf(amount), asset |-> asset] \in DonationRecord
  BY <1>2, <1>3 DEF DonationRecord
<1>6. history[id] \in Seq(DonationRecord) /\ donors[id] \in Seq(Address)
  BY DEF TypeOK
<1> QED BY <1>1, <1>2, <1>3, <1>4, <1>5, <1>6

LEMMA TypesDonate ==
    ASSUME TypeOK, NEW d \in Address, NEW id \in CampaignId,
           NEW amount \in DonationAmounts, NEW asset \in Asset \cup {NoAsset},
           Donate(d, id, amount, asset)
    PROVE  TypeOK'
<1> DEFINE r == [donor |-> d, amount |-> NetOf(amount), asset |-> asset]
           h == Append(history[id], r)
<1>1. /\ asset \in Asset /\ amount \in Int /\ NetOf(amount) \in Nat
      /\ NetOf(amount) > 0 /\ r \in DonationRecord /\ r.amount = NetOf(amount)
      /\ campaigns[id] \in Campaign
      /\ history[id] \in Seq(DonationRecord) /\ donors[id] \in Seq(Address)
  BY DonateFacts
<1>2. \A n \in Int : PlusNet(n, amount) \in Int
  BY <1>1, WrapTurns DEF PlusNet
<1>3. campaigns' \in [CampaignId -> Campaign \cup {None}]
  <2> DEFINE c == [campaigns[id] EXCEPT !.raised = PlusNet(@, amount)]
  <2>1. c \in Campaign
    BY <1>1, <1>2 DEF Campaign
  <2>2. campaigns' = [campaigns EXCEPT ![id] = c]
    BY DEF Donate
  <2> HIDE DEF c
  <2> QED BY <2>1, <2>2 DEF TypeOK
<1>4. assetRaised' \in [CampaignId -> [Asset -> Int]]
  <2> DEFINE f == [assetRaised[id] EXCEPT ![asset] = PlusNet(@, amount)]
  <2>1. f \in [Asset -> Int]
    <3>1. assetRaised[id] \in [Asset -> Int]
      BY <1>1 DEF TypeOK
    <3> QED BY <1>2, <3>1
  <2>2. assetRaised' = [assetRaised EXCEPT ![id] = f]
    BY DEF Donate
  <2> HIDE DEF f
  <2> QED BY <2>1, <2>2 DEF TypeOK
<1>5. /\ h \in Seq(DonationRecord)
      /\ \A i \in DOMAIN h : h[i].amount > 0
  <2>1. \A i \in DOMAIN history[id] : history[id][i].amount > 0
    BY DEF TypeOK
  <2> HIDE DEF r
  <2> QED BY <1>1, <2>1, AppendFacts
<1>6. /\ history' \in [CampaignId -> Seq(DonationRecord)]
      /\ \A x \in CampaignId : \A i \in DOMAIN history'[x] :
            history'[x][i].amount > 0
  <2>1. history' = [history EXCEPT ![id] = h]
    BY DEF Donate
  <2> HIDE DEF h
  <2> QED BY <1>5, <2>1 DEF TypeOK
<1>7. donations' \in [CampaignId -> [Address -> Int \cup {None}]]
  <2> DEFINE f == [donations[id] EXCEPT ![d] = amount]
  <2>1. f \in [Address -> Int \cup {None}]
    BY <1>1 DEF TypeOK
  <2>2. donations' = [donations EXCEPT ![id] = f]
    BY DEF Donate
  <2> HIDE DEF f
  <2> QED BY <2>1, <2>2 DEF TypeOK
<1>8. donors' \in [CampaignId -> Seq(Address)]
  <2>1. AddDonor(donors[id], d) \in Seq(Address)
    BY <1>1, AppendFacts DEF AddDonor
  <2> QED BY <2>1 DEF Donate, TypeOK
<1>9. /\ UNCHANGED <<admin, count, requests, totalWithdrawals, initializations,
                     created, withdrawn>>
      /\ totalTx' \in Nat /\ totalDonations' \in Nat
  BY DEF Donate, TypeOK
<1> QED BY <1>3, <1>4, <1>6, <1>7, <1>8, <1>9 DEF TypeOK

LEMMA TypesWithdraw ==
    ASSUME TypeOK, NEW creator \in Address, NEW recipient \in Address,
           NEW id \in CampaignId, NEW amount \in WithdrawalAmounts,
           Withdraw(creator, id, recipient, amount)
    PROVE  TypeOK'
<1> DEFINE r == [recipient |-> recipient, amount |-> amount,
                 status |-> "Pending"]
<1>1. r \in WithdrawalRequest
  BY ConstantFacts DEF WithdrawalRequest, WithdrawalStatus
<1>2. requests' = [requests EXCEPT ![id] = r]
  BY DEF Withdraw
<1> HIDE DEF r
<1>3. requests' \in [CampaignId -> WithdrawalRequest \cup {None}]
  BY <1>1, <1>2 DEF TypeOK
<1> QED BY <1>3 DEF Withdraw, TypeOK, books

\* An open request and its campaign.
LEMMA RequestFacts ==
    ASSUME TypeOK, NEW id \in CampaignId
    PROVE  /\ requests[id] # None =>
                /\ requests[id] \in WithdrawalRequest
                /\ requests[id].amount \in Int
                /\ requests[id].status \in WithdrawalStatus
           /\ campaigns[id] # None =>
                /\ campaigns[id] \in Campaign
                /\ campaigns[id].raised \in Int /\ campaigns[id].goal \in Int
BY DEF TypeOK, WithdrawalRequest, Campaign

LEMMA TypesApprove ==
    ASSUME TypeOK, NEW caller \in Address, NEW id \in CampaignId,
           ApproveWithdrawal(caller, id)
    PROVE  TypeOK'
<1> DEFINE c == [campaigns[id] EXCEPT !.raised = @ - requests[id].amount]
           r == [requests[id] EXCEPT !.status = "Approved"]
<1>1. campaigns[id] # None /\ requests[id] # None
  BY DEF ApproveWithdrawal
<1>2. c \in Campaign
  BY <1>1, RequestFacts DEF Campaign
<1>3. r \in WithdrawalRequest
  BY <1>1, RequestFacts DEF WithdrawalRequest, WithdrawalStatus
<1>4. campaigns' = [campaigns EXCEPT ![id] = c]
      /\ requests' = [requests EXCEPT ![id] = r]
  BY DEF ApproveWithdrawal
<1> HIDE DEF c, r
<1>5. /\ campaigns' \in [CampaignId -> Campaign \cup {None}]
      /\ requests' \in [CampaignId -> WithdrawalRequest \cup {None}]
  BY <1>2, <1>3, <1>4 DEF TypeOK
<1>6. withdrawn' \in [CampaignId -> Int]
  <2>1. requests[id].amount \in Int
    BY <1>1, RequestFacts
  <2> QED BY <2>1 DEF ApproveWithdrawal, TypeOK
<1> QED BY <1>5, <1>6 DEF ApproveWithdrawal, TypeOK, counters

LEMMA TypesSubmit ==
    ASSUME TypeOK, NEW caller \in Address, NEW id \in CampaignId,
           SubmitTransaction(caller, id)
    PROVE  TypeOK'
<1> DEFINE r == [requests[id] EXCEPT !.status = "Submitted"]
<1>1. requests[id] # None /\ requests' = [requests EXCEPT ![id] = r]
  BY DEF SubmitTransaction
<1>2. r \in WithdrawalRequest
  BY <1>1, RequestFacts DEF WithdrawalRequest, WithdrawalStatus
<1> HIDE DEF r
<1>3. requests' \in [CampaignId -> WithdrawalRequest \cup {None}]
  BY <1>1, <1>2 DEF TypeOK
<1> QED BY <1>3 DEF SubmitTransaction, TypeOK, books, counters

LEMMA TypesNext == TypeOK /\ [Next]_vars => TypeOK'
<1> SUFFICES ASSUME TypeOK, [Next]_vars
             PROVE  TypeOK'
  OBVIOUS
<1>1. CASE UNCHANGED vars
  BY <1>1 DEF vars, books, counters, TypeOK
<1>2. CASE Next
  BY <1>2, TypesInitialize, TypesCreate, TypesDonate, TypesWithdraw,
     TypesApprove, TypesSubmit DEF Next
<1> QED BY <1>1, <1>2

\* Every stored value has its type, every recorded donation is worth something
\* after the fee, and no campaign id is beyond those ever created.
THEOREM PlatformTypes == Spec => []TypeOK
BY TypesInit, TypesNext, PTL DEF Spec

-----------------------------------------------------------------------------
(***************************************************************************)
(* The ledger.  For each id: nothing is stored beyond the ids created, an  *)
(* id given out names an active campaign, what was paid never exceeds what *)
(* was earned, and neither the balance nor a pending request exceeds what  *)
(* is left, although the balance wraps and an id may be given out twice.   *)
(***************************************************************************)
Left(id) == SumOfAmounts(history[id]) - withdrawn[id]

Ledger(id) ==
    /\ id > created => /\ campaigns[id] = None /\ requests[id] = None
                       /\ history[id] = << >> /\ withdrawn[id] = 0
    /\ id <= count => campaigns[id] # None /\ campaigns[id].active
    /\ withdrawn[id] \in Nat /\ Left(id) \in Nat
    /\ campaigns[id] # None =>
          /\ InI128(campaigns[id].raised)
          /\ campaigns[id].raised <= Left(id)
          /\ created = count => campaigns[id].raised = WrapI128(Left(id))
    /\ requests[id] # None /\ requests[id].status = "Pending" =>
          requests[id].amount > 0 /\ requests[id].amount <= Left(id)

LedgerInv == \A id \in CampaignId : Ledger(id)

LEMMA SumsType ==
    ASSUME TypeOK, NEW id \in CampaignId
    PROVE  /\ SumOfAmounts(history[id]) \in Int
           /\ withdrawn[id] \in Int /\ Left(id) \in Int
           /\ id \in Nat /\ created \in Nat /\ count \in Nat /\ count <= created
<1>1. history[id] \in Seq(DonationRecord) /\ withdrawn[id] \in Int
      /\ created \in Nat /\ count \in Nat /\ count <= created
  BY ConstantFacts DEF TypeOK
<1>2. SumOfAmounts(history[id]) \in Int
  <2> DEFINE h == history[id]
  <2>1. h \in Seq(DonationRecord)
    BY <1>1
  <2> HIDE DEF h
  <2>2. SumOfAmounts(h) \in Int
    BY <2>1, AmountsType, DOMAIN h \in SUBSET DOMAIN h
  <2> QED BY <2>2 DEF h
<1> QED BY <1>1, <1>2, CampaignIds DEF Left

LEMMA EmptyHistory == SumOfAmounts(<< >>) = 0
<1> DEFINE f == [i \in DOMAIN << >> |-> << >>[i].amount]
<1>1. DOMAIN << >> = {}
  OBVIOUS
<1>2. SumOfAmounts(<< >>) = SumFunctionOnSet(f, {})
  BY <1>1 DEF SumOfAmounts, SumFunction
<1> HIDE DEF f
<1> QED BY <1>2, SumEmpty

LEMMA LedgerInit == Init => LedgerInv
<1> SUFFICES ASSUME Init, NEW id \in CampaignId
             PROVE  Ledger(id)
  BY DEF LedgerInv
<1>1. /\ history[id] = << >> /\ withdrawn[id] = 0 /\ created = 0 /\ count = 0
      /\ campaigns[id] = None /\ requests[id] = None
      /\ id \in Nat /\ id >= 1
  BY CampaignIds DEF Init
<1>2. Left(id) = 0
  BY <1>1, EmptyHistory DEF Left
<1> QED BY <1>1, <1>2 DEF Ledger

\* A call that leaves an id's entries alone keeps what is said of it.
LEMMA LedgerKept ==
    ASSUME NEW id \in CampaignId, Ledger(id),
           campaigns'[id] = campaigns[id], history'[id] = history[id],
           withdrawn'[id] = withdrawn[id], requests'[id] = requests[id],
           created' = created, count' = count
    PROVE  Ledger(id)'
BY DEF Ledger, Left, InI128

LEMMA LedgerInitialize ==
    ASSUME TypeOK, LedgerInv, NEW caller \in Address, Initialize(caller)
    PROVE  LedgerInv'
<1> SUFFICES ASSUME NEW id \in CampaignId
             PROVE  Ledger(id)'
  BY DEF LedgerInv
<1>1. /\ Ledger(id) /\ UNCHANGED <<books, requests, created, withdrawn>>
      /\ count' = 0 /\ Left(id)' = Left(id)
  BY DEF LedgerInv, Initialize, books, Left
<1>2. id \in Nat /\ id >= 1
  BY CampaignIds
<1>3. created' = count' => campaigns[id] = None
  BY <1>1, <1>2 DEF Ledger
<1>4. ~(id <= count')
  BY <1>1, <1>2
<1> QED BY <1>1, <1>3, <1>4 DEF Ledger, books, InI128

LEMMA LedgerCreate ==
    ASSUME TypeOK, LedgerInv, NEW creator \in Address, NEW goal \in Goals,
           CreateCampaign(creator, goal)
    PROVE  LedgerInv'
<1> SUFFICES ASSUME NEW id \in CampaignId
             PROVE  Ledger(id)'
  BY DEF LedgerInv
<1> DEFINE c == [creator |-> creator, goal |-> goal, raised |-> 0,
                 active |-> TRUE]
<1>1. /\ campaigns' = [campaigns EXCEPT ![count + 1] = c]
      /\ count' = count + 1 /\ created' = created + 1
      /\ history' = history /\ withdrawn' = withdrawn /\ requests' = requests
  BY DEF CreateCampaign
<1>2. Ledger(id) /\ Left(id)' = Left(id)
  BY <1>1 DEF LedgerInv, Left
<1>3. /\ id \in Nat /\ created \in Nat /\ count \in Nat /\ count <= created
      /\ Left(id) \in Int /\ MaxI128 \in Nat
  BY SumsType, ConstantFacts
<1>4. c.raised = 0 /\ c.active
  OBVIOUS
<1>5. count + 1 \in CampaignId /\ campaigns'[count + 1] # None
  BY TypesCreate
<1> HIDE DEF c
<1>6. CASE id = count + 1
  <2>1. campaigns'[id] = c /\ campaigns'[id] # None
    BY <1>1, <1>5, <1>6 DEF TypeOK
  <2>2. ASSUME created' = count'
        PROVE  Left(id) = 0
    <3>1. id > created
      BY <1>1, <1>3, <1>6, <2>2
    <3> QED BY <1>2, <3>1, EmptyHistory DEF Ledger, Left
  <2>3. WrapI128(0) = 0 /\ InI128(0)
    BY <1>3, WrapTurns DEF InI128
  <2> QED BY <1>1, <1>2, <1>3, <1>4, <1>6, <2>1, <2>2, <2>3 DEF Ledger, InI128
<1>7. CASE id # count + 1
  <2>1. campaigns'[id] = campaigns[id]
    BY <1>1, <1>7 DEF TypeOK
  <2>2. id <= count' => id <= count
    BY <1>1, <1>3, <1>7
  <2>3. ASSUME id <= count'
        PROVE  campaigns[id] # None /\ campaigns[id].active
    BY <1>2, <2>2, <2>3 DEF Ledger
  <2> QED BY <1>1, <1>2, <1>3, <2>1, <2>3 DEF Ledger, InI128
<1> QED BY <1>6, <1>7

LEMMA LedgerDonate ==
    ASSUME TypeOK, LedgerInv, NEW d \in Address, NEW id \in CampaignId,
           NEW amount \in DonationAmounts, NEW asset \in Asset \cup {NoAsset},
           Donate(d, id, amount, asset)
    PROVE  LedgerInv'
<1> DEFINE r == [donor |-> d, amount |-> NetOf(amount), asset |-> asset]
           net == NetOf(amount)
           c == [campaigns[id] EXCEPT !.raised = PlusNet(@, amount)]
<1>1. /\ net \in Nat /\ net > 0 /\ r \in DonationRecord /\ r.amount = net
      /\ campaigns[id] \in Campaign /\ campaigns[id] # None
      /\ campaigns[id].raised \in Int /\ history[id] \in Seq(DonationRecord)
  BY DonateFacts
<1>2. /\ campaigns' = [campaigns EXCEPT ![id] = c]
      /\ history' = [history EXCEPT ![id] = Append(@, r)]
      /\ withdrawn' = withdrawn /\ requests' = requests
      /\ created' = created /\ count' = count
  BY DEF Donate
<1>3. /\ c \in Campaign /\ c.active = campaigns[id].active
      /\ c.raised = WrapI128(campaigns[id].raised + net)
  BY <1>1, WrapTurns DEF Campaign, PlusNet
<1>4. SumOfAmounts(Append(history[id], r)) = SumOfAmounts(history[id]) + net
  <2> DEFINE h == history[id]
  <2> HIDE DEF h, r, net
  <2>1. h \in Seq(DonationRecord)
    BY <1>1 DEF h
  <2>2. SumOfAmounts(Append(h, r)) = SumOfAmounts(h) + r.amount
    BY <1>1, <2>1, AmountsAppend, {} \in SUBSET DOMAIN h
  <2> QED BY <1>1, <2>2 DEF h
<1> HIDE DEF r, c, net
<1>5. ASSUME NEW x \in CampaignId, x # id
      PROVE  Ledger(x)'
  <2>1. Ledger(x) /\ campaigns'[x] = campaigns[x] /\ history'[x] = history[x]
    BY <1>2, <1>5 DEF LedgerInv, TypeOK
  <2> QED BY <1>2, <2>1, LedgerKept
<1>6. Ledger(id)'
  <2>1. /\ Ledger(id) /\ Left(id) \in Int /\ Left(id) \in Nat
        /\ SumOfAmounts(history[id]) \in Int /\ withdrawn[id] \in Int
        /\ id <= created /\ id \in Nat /\ created \in Nat
    BY <1>1, SumsType DEF LedgerInv, Ledger
  <2>2. /\ campaigns'[id] = c /\ campaigns'[id] # None
        /\ history'[id] = Append(history[id], r)
    BY <1>2, <1>3, ConstantFacts DEF TypeOK
  <2>3. Left(id)' = Left(id) + net
    BY <1>1, <1>2, <1>4, <2>1, <2>2 DEF Left
  <2>4. /\ campaigns[id].raised \in Int /\ campaigns[id].raised <= Left(id)
        /\ -MaxI128 - 1 <= campaigns[id].raised
        /\ created = count => campaigns[id].raised = WrapI128(Left(id))
    BY <1>1, <2>1 DEF Ledger, InI128
  <2>5. /\ InI128(c.raised) /\ c.raised <= Left(id) + net
    <3>1. /\ campaigns[id].raised + net \in Int /\ MaxI128 \in Nat
          /\ campaigns[id].raised + net >= -MaxI128 - 1
      BY <1>1, <2>4, ConstantFacts
    <3>2. /\ InI128(c.raised) /\ c.raised \in Int
          /\ c.raised <= campaigns[id].raised + net
      BY <1>3, <3>1, WrapTurns
    <3>3. net \in Int /\ Left(id) \in Int
      BY <1>1, <2>1
    <3> QED BY <2>4, <3>1, <3>2, <3>3
  <2>6. created = count => c.raised = WrapI128(Left(id) + net)
    <3> SUFFICES ASSUME created = count
                 PROVE  c.raised = WrapI128(Left(id) + net)
      OBVIOUS
    <3>1. c.raised = WrapI128(WrapI128(Left(id)) + net)
      BY <1>3, <2>4
    <3> QED BY <1>1, <2>1, <3>1, WrapPlus
  <2>7. ASSUME requests[id] # None, requests[id].status = "Pending"
        PROVE  requests[id].amount > 0 /\ requests[id].amount <= Left(id) + net
    <3>1. /\ requests[id].amount \in Int /\ requests[id].amount > 0
          /\ requests[id].amount <= Left(id)
      BY <2>1, <2>7, RequestFacts DEF Ledger
    <3> QED BY <1>1, <2>1, <3>1
  <2>8. withdrawn[id] \in Nat /\ Left(id) + net \in Nat /\ campaigns[id].active
    BY <1>1, <2>1 DEF Ledger, Donate
  <2>9. ~(id > created)
    BY <2>1
  <2> QED BY <1>2, <1>3, <2>1, <2>2, <2>3, <2>5, <2>6, <2>7, <2>8, <2>9
          DEF Ledger, InI128
<1> QED BY <1>5, <1>6 DEF LedgerInv

LEMMA LedgerWithdraw ==
    ASSUME TypeOK, LedgerInv, NEW creator \in Address,
           NEW recipient \in Address, NEW id \in CampaignId,
           NEW amount \in WithdrawalAmounts,
           Withdraw(creator, id, recipient, amount)
    PROVE  /\ LedgerInv'
           /\ amount \in Int /\ amount > 0 /\ amount <= Left(id)
<1> DEFINE r == [recipient |-> recipient, amount |-> amount,
                 status |-> "Pending"]
<1>1. /\ requests' = [requests EXCEPT ![id] = r]
      /\ UNCHANGED <<books, created, count, withdrawn>>
      /\ amount > 0 /\ amount <= campaigns[id].raised /\ campaigns[id] # None
      /\ r.amount = amount
  BY DEF Withdraw, Covers
<1> HIDE DEF r
<1>2. amount \in Int /\ campaigns[id].raised \in Int /\ Left(id) \in Int
  BY <1>1, ConstantFacts, SumsType, RequestFacts
<1>3. amount <= Left(id)
  <2>1. campaigns[id].raised <= Left(id)
    BY <1>1 DEF LedgerInv, Ledger
  <2> QED BY <1>1, <1>2, <2>1
<1>4. ASSUME NEW x \in CampaignId
      PROVE  Ledger(x)'
  <2>1. /\ Ledger(x) /\ campaigns'[x] = campaigns[x]
        /\ history'[x] = history[x]
        /\ withdrawn'[x] = withdrawn[x] /\ created' = created /\ count' = count
    BY <1>1 DEF LedgerInv, books
  <2>2. CASE x # id
    <3>1. requests'[x] = requests[x]
      BY <1>1, <2>2 DEF TypeOK
    <3> QED BY <2>1, <3>1, LedgerKept
  <2>3. CASE x = id
    <3>1. requests'[x] = r
      BY <1>1, <2>3 DEF TypeOK
    <3>2. ~(x > created)
      BY <1>1, <2>1, <2>3 DEF Ledger
    <3> QED BY <1>1, <1>3, <2>1, <2>3, <3>1, <3>2 DEF Ledger, Left, InI128
  <2> QED BY <2>2, <2>3
<1> QED BY <1>1, <1>2, <1>3, <1>4 DEF LedgerInv

LEMMA LedgerApprove ==
    ASSUME TypeOK, LedgerInv, NEW caller \in Address, NEW id \in CampaignId,
           ApproveWithdrawal(caller, id)
    PROVE  LedgerInv'
<1> DEFINE c == [campaigns[id] EXCEPT !.raised = @ - requests[id].amount]
           r == [requests[id] EXCEPT !.status = "Approved"]
           n == requests[id].amount
<1>1. /\ requests[id] # None /\ requests[id].status = "Pending"
      /\ campaigns[id] # None /\ n <= campaigns[id].raised
      /\ campaigns' = [campaigns EXCEPT ![id] = c]
      /\ requests' = [requests EXCEPT ![id] = r]
      /\ withdrawn' = [withdrawn EXCEPT ![id] = @ + n]
      /\ history' = history /\ created' = created /\ count' = count
  BY DEF ApproveWithdrawal, Covers
<1>2. /\ n \in Int /\ campaigns[id].raised \in Int /\ Left(id) \in Int
      /\ withdrawn[id] \in Int /\ SumOfAmounts(history[id]) \in Int
      /\ campaigns[id] \in Campaign /\ requests[id] \in WithdrawalRequest
      /\ MaxI128 \in Nat
  BY <1>1, SumsType, RequestFacts, ConstantFacts
<1>3. /\ c \in Campaign /\ c.raised = campaigns[id].raised - n
      /\ c.active = campaigns[id].active
      /\ r.status = "Approved" /\ r \in WithdrawalRequest
  BY <1>2 DEF Campaign, WithdrawalRequest, WithdrawalStatus
<1> HIDE DEF c, r, n
<1>4. ASSUME NEW x \in CampaignId, x # id
      PROVE  Ledger(x)'
  <2>1. /\ Ledger(x) /\ campaigns'[x] = campaigns[x]
        /\ requests'[x] = requests[x] /\ withdrawn'[x] = withdrawn[x]
        /\ history'[x] = history[x]
    BY <1>1, <1>4 DEF LedgerInv, TypeOK
  <2> QED BY <1>1, <2>1, LedgerKept
<1>5. Ledger(id)'
  <2>1. /\ Ledger(id) /\ ~(id > created)
    BY <1>1 DEF LedgerInv, Ledger
  <2>2. /\ n > 0 /\ n <= Left(id) /\ withdrawn[id] \in Nat /\ Left(id) \in Nat
        /\ campaigns[id].raised <= Left(id) /\ campaigns[id].raised <= MaxI128
        /\ created = count => campaigns[id].raised = WrapI128(Left(id))
        /\ id <= count => campaigns[id].active
    BY <1>1, <2>1 DEF Ledger, InI128, n
  <2>3. /\ campaigns'[id] = c /\ campaigns'[id] # None /\ requests'[id] = r
        /\ withdrawn'[id] = withdrawn[id] + n /\ history'[id] = history[id]
    BY <1>1, <1>3, ConstantFacts DEF TypeOK
  <2>4. Left(id)' = Left(id) - n
    BY <1>2, <2>3 DEF Left
  <2>5. /\ withdrawn[id] + n \in Nat /\ Left(id) - n \in Nat
        /\ InI128(c.raised) /\ c.raised <= Left(id) - n
    BY <1>1, <1>2, <1>3, <2>2 DEF InI128
  <2>6. created = count => c.raised = WrapI128(Left(id) - n)
    <3> SUFFICES ASSUME created = count
                 PROVE  c.raised = WrapI128(Left(id) - n)
      OBVIOUS
    <3>1. campaigns[id].raised = WrapI128(Left(id)) /\ 0 <= n
      BY <1>2, <2>2
    <3>2. WrapI128(Left(id) - n) = WrapI128(Left(id)) - n
      BY <1>1, <1>2, <3>1, WrapMinus
    <3> QED BY <1>3, <3>1, <3>2
  <2> QED BY <1>1, <1>3, <2>1, <2>2, <2>3, <2>4, <2>5, <2>6 DEF Ledger, InI128
<1> QED BY <1>4, <1>5 DEF LedgerInv

LEMMA LedgerSubmit ==
    ASSUME TypeOK, LedgerInv, NEW caller \in Address, NEW id \in CampaignId,
           SubmitTransaction(caller, id)
    PROVE  LedgerInv'
<1> DEFINE r == [requests[id] EXCEPT !.status = "Submitted"]
<1>1. /\ requests[id] # None /\ requests' = [requests EXCEPT ![id] = r]
      /\ UNCHANGED <<books, created, count, withdrawn>>
  BY DEF SubmitTransaction
<1>2. r.status = "Submitted"
  BY <1>1, RequestFacts DEF WithdrawalRequest
<1> HIDE DEF r
<1>3. ASSUME NEW x \in CampaignId
      PROVE  Ledger(x)'
  <2>1. /\ Ledger(x) /\ campaigns'[x] = campaigns[x]
        /\ history'[x] = history[x]
        /\ withdrawn'[x] = withdrawn[x] /\ created' = created /\ count' = count
    BY <1>1 DEF LedgerInv, books
  <2>2. CASE x # id
    <3>1. requests'[x] = requests[x]
      BY <1>1, <2>2 DEF TypeOK
    <3> QED BY <2>1, <3>1, LedgerKept
  <2>3. CASE x = id
    <3>1. requests'[x] = r
      BY <1>1, <2>3 DEF TypeOK
    <3>2. ~(x > created)
      BY <1>1, <2>1, <2>3 DEF Ledger
    <3> QED BY <1>2, <2>1, <2>3, <3>1, <3>2 DEF Ledger, Left, InI128
  <2> QED BY <2>2, <2>3
<1> QED BY <1>3 DEF LedgerInv

LEMMA LedgerNext == TypeOK /\ LedgerInv /\ [Next]_vars => LedgerInv'
<1> SUFFICES ASSUME TypeOK, LedgerInv, [Next]_vars
             PROVE  LedgerInv'
  OBVIOUS
<1>1. CASE UNCHANGED vars
  <2> SUFFICES ASSUME NEW id \in CampaignId
               PROVE  Ledger(id)'
    BY DEF LedgerInv
  <2> QED BY <1>1, LedgerKept DEF vars, books, LedgerInv
<1>2. CASE Next
  BY <1>2, LedgerInitialize, LedgerCreate, LedgerDonate, LedgerWithdraw,
     LedgerApprove, LedgerSubmit DEF Next
<1> QED BY <1>1, <1>2

LEMMA LedgerAlways == Spec => []LedgerInv
BY LedgerInit, LedgerNext, PlatformTypes, PTL DEF Spec

\* A campaign holds what its history recorded less what was approved for
\* withdrawal, in wrapping arithmetic, as long as no later initialize has given
\* its id out again.
THEOREM LedgerAlwaysBalances == Spec => []LedgerBalances
<1>1. LedgerInv => LedgerBalances
  BY DEF LedgerInv, Ledger, Left, LedgerBalances
<1> QED BY <1>1, LedgerAlways, PTL

\* A pending request can be approved: donations recorded after it was made
\* never take the balance below it, unless what was earned leaves i128.
THEOREM PendingStaysCovered == Spec => []PendingIsCovered
<1>1. ASSUME TypeOK, LedgerInv
      PROVE  PendingIsCovered
  <2> SUFFICES ASSUME NEW id \in CampaignId, created = count,
                      requests[id] # None, requests[id].status = "Pending",
                      SumOfAmounts(history[id]) <= MaxI128
               PROVE  campaigns[id].raised >= requests[id].amount
    BY DEF PendingIsCovered
  <2>1. /\ Ledger(id) /\ Left(id) \in Int /\ withdrawn[id] \in Int
        /\ SumOfAmounts(history[id]) \in Int /\ MaxI128 \in Nat
        /\ requests[id].amount \in Int
        /\ id \in Nat /\ created \in Nat /\ count \in Nat
    BY <1>1, SumsType, ConstantFacts, RequestFacts DEF LedgerInv
  <2>2. ~(id > created)
    BY <2>1 DEF Ledger
  <2>3. campaigns[id] # None
    BY <2>1, <2>2 DEF Ledger
  <2>4. /\ campaigns[id].raised = WrapI128(Left(id))
        /\ Left(id) \in Nat /\ withdrawn[id] \in Nat
        /\ requests[id].amount <= Left(id)
    BY <2>1, <2>3 DEF Ledger
  <2>5. Left(id) <= MaxI128
    BY <2>1, <2>4 DEF Left
  <2>6. InI128(Left(id))
    BY <2>1, <2>4, <2>5 DEF InI128
  <2>7. WrapI128(Left(id)) = Left(id)
    BY <2>1, <2>6, WrapTurns
  <2> QED BY <2>1, <2>4, <2>7
<1> QED BY <1>1, PlatformTypes, LedgerAlways, PTL

-----------------------------------------------------------------------------
(***************************************************************************)
(* The report of a campaign.                                               *)
(***************************************************************************)

LEMMA FullType == FullBps \in Nat /\ FullBps > 0
BY DEF FullBps

\* Progress below the goal, in basis points.
LEMMA ProgressBelowGoal ==
    ASSUME FullBps <= MaxU32, NEW raised \in Int, NEW goal \in Int,
           0 < raised, raised < goal, raised * FullBps <= MaxI128
    PROVE  /\ WrapU32(Quotient(WrapI128(raised * FullBps), goal))
                = (raised * FullBps) \div goal
           /\ (raised * FullBps) \div goal \in Int
           /\ 0 <= (raised * FullBps) \div goal
           /\ (raised * FullBps) \div goal < FullBps
<1> DEFINE n == raised * FullBps
           q == n \div goal
<1>1. /\ n \in Int /\ n >= 0 /\ n <= MaxI128 /\ n < goal * FullBps
      /\ MaxI128 \in Nat /\ MaxU32 \in Nat /\ FullBps \in Int
  <2>1. FullBps \in Int /\ FullBps > 0
    BY FullType
  <2> DEFINE f == FullBps
  <2>2. f \in Int /\ f > 0
    BY <2>1
  <2> HIDE DEF f
  <2>3. raised * f \in Int /\ goal * f \in Int /\ (goal - raised) * f > 0
        /\ raised * f > 0
    BY <2>2
  <2>4. (goal - raised) * f = goal * f - raised * f
    BY <2>2
  <2>5. raised * f < goal * f
    BY <2>3, <2>4
  <2>6. /\ raised * f \in Int /\ raised * f >= 0 /\ raised * f < goal * f
    BY <2>3, <2>5
  <2> QED BY <2>1, <2>6, ConstantFacts DEF f
<1>2. WrapI128(n) = n
  <2>1. InI128(n)
    BY <1>1 DEF InI128
  <2> HIDE DEF n
  <2> QED BY <1>1, <2>1, WrapTurns
<1>3. q \in Int /\ 0 <= q /\ q < FullBps
  <2> HIDE DEF n
  <2>1. /\ q \in Int /\ n = goal * q + (n % goal) /\ 0 <= n % goal
        /\ n % goal \in Int
    BY <1>1, QuotientFacts
  <2>2. 0 <= q
    BY <1>1, QuotientAtLeast
  <2> DEFINE m == n % goal
  <2> HIDE DEF q, m
  <2>3. ~(q >= FullBps)
    <3> SUFFICES ASSUME q >= FullBps
                 PROVE  FALSE
      OBVIOUS
    <3>1. FullBps * goal <= q * goal
      BY <1>1, <2>1, ProductMonotonic
    <3>2. q * goal = goal * q /\ q * goal \in Int
      BY <2>1
    <3> QED BY <1>1, <2>1, <3>1, <3>2 DEF m
  <2> QED BY <1>1, <2>1, <2>2, <2>3
<1>4. WrapU32(q) = q
  <2>1. /\ MaxU32 + 1 \in Int /\ MaxU32 + 1 > 0 /\ q \in Int /\ 0 <= q
        /\ q < MaxU32 + 1
    <3> HIDE DEF q
    <3> QED BY <1>1, <1>3
  <2> HIDE DEF q
  <2>2. q = (MaxU32 + 1) * 0 + q
    BY <2>1
  <2>3. q % (MaxU32 + 1) = q
    BY <2>1, <2>2, QuotientUnique
  <2> QED BY <2>3 DEF WrapU32
<1>5. Quotient(n, goal) = q
  BY <1>1 DEF Quotient
<1> QED BY <1>2, <1>3, <1>4, <1>5

\* What the report says of a campaign with a goal.
Bps(raised, goal) ==
    IF raised >= goal THEN FullBps
    ELSE IF raised <= 0 THEN 0 ELSE (raised * FullBps) \div goal

Remaining(raised, goal) ==
    IF raised >= goal THEN 0 ELSE IF raised <= 0 THEN goal ELSE goal - raised

LEMMA ProgressIs ==
    ASSUME FullBps <= MaxU32, NEW c, c.raised \in Int, c.goal \in Int,
           c.goal > 0, c.raised * FullBps <= MaxI128
    PROVE  /\ ProgressOf(c).bps = Bps(c.raised, c.goal)
           /\ ProgressOf(c).remaining = Remaining(c.raised, c.goal)
<1> DEFINE raised == c.raised
           goal == c.goal
           w == WrapU32(Quotient(WrapI128(raised * FullBps), goal))
           q == (raised * FullBps) \div goal
<1>a. /\ raised \in Int /\ goal \in Int /\ goal > 0
      /\ raised * FullBps <= MaxI128
  OBVIOUS
<1>1. ASSUME 0 < raised, raised < goal
      PROVE  w = q
  <2> HIDE DEF raised, goal
  <2> QED BY <1>a, <1>1, ProgressBelowGoal
<1>2. ProgressOf(c) =
        IF goal <= 0 THEN [bps |-> 0, remaining |-> 0]
        ELSE IF raised >= goal THEN [bps |-> FullBps, remaining |-> 0]
        ELSE IF raised <= 0 THEN [bps |-> 0, remaining |-> goal]
        ELSE [bps |-> w, remaining |-> goal - raised]
  BY DEF ProgressOf
<1>3. Bps(raised, goal) = IF raised >= goal THEN FullBps
                          ELSE IF raised <= 0 THEN 0 ELSE q
  BY DEF Bps
<1> HIDE DEF w, q
<1> SUFFICES /\ ProgressOf(c).bps = Bps(raised, goal)
             /\ ProgressOf(c).remaining = Remaining(raised, goal)
  OBVIOUS
<1> HIDE DEF raised, goal
<1>4. CASE raised >= goal
  BY <1>a, <1>2, <1>3, <1>4 DEF Remaining
<1>5. CASE ~(raised >= goal) /\ raised <= 0
  BY <1>a, <1>2, <1>3, <1>5 DEF Remaining
<1>6. CASE ~(raised >= goal) /\ ~(raised <= 0)
  BY <1>a, <1>1, <1>2, <1>3, <1>6 DEF Remaining
<1> QED BY <1>4, <1>5, <1>6

LEMMA BpsFacts ==
    ASSUME FullBps <= MaxU32, NEW raised \in Int, NEW goal \in Int,
           goal > 0, raised * FullBps <= MaxI128
    PROVE  /\ Bps(raised, goal) \in Int
           /\ 0 <= Bps(raised, goal) /\ Bps(raised, goal) <= FullBps
           /\ Bps(raised, goal) = FullBps <=> raised >= goal
           /\ Remaining(raised, goal) \in Int
           /\ 0 <= Remaining(raised, goal) /\ Remaining(raised, goal) <= goal
           /\ Remaining(raised, goal) = 0 <=> raised >= goal
<1> DEFINE q == (raised * FullBps) \div goal
<1>1. ASSUME 0 < raised, raised < goal
      PROVE  q \in Int /\ 0 <= q /\ q < FullBps
  BY <1>1, ProgressBelowGoal
<1>2. Bps(raised, goal) = IF raised >= goal THEN FullBps
                          ELSE IF raised <= 0 THEN 0 ELSE q
  BY DEF Bps
<1> HIDE DEF q
<1> QED BY <1>1, <1>2, FullType DEF Remaining

LEMMA BpsMonotonic ==
    ASSUME FullBps <= MaxU32, NEW raised \in Int, NEW later \in Int,
           NEW goal \in Int, goal > 0, raised <= later,
           later * FullBps <= MaxI128, raised * FullBps <= MaxI128
    PROVE  Bps(raised, goal) <= Bps(later, goal)
<1>1. /\ Bps(raised, goal) \in Int /\ 0 <= Bps(raised, goal)
      /\ Bps(later, goal) \in Int /\ 0 <= Bps(later, goal)
      /\ Bps(raised, goal) <= FullBps
  BY BpsFacts
<1>2. CASE later >= goal
  <2>1. Bps(later, goal) = FullBps
    BY <1>2 DEF Bps
  <2> QED BY <1>1, <2>1
<1>3. CASE raised <= 0
  <2>1. Bps(raised, goal) = 0
    BY <1>3 DEF Bps
  <2> QED BY <1>1, <2>1
<1>4. CASE 0 < raised /\ later < goal
  <2> DEFINE m == raised * FullBps
             n == later * FullBps
  <2>1. m \in Int /\ n \in Int /\ m <= n
    <3> DEFINE f == FullBps
    <3>1. f \in Int /\ 0 <= f
      BY FullType
    <3> HIDE DEF f
    <3>2. raised * f \in Int /\ later * f \in Int /\ raised * f <= later * f
      BY <3>1, ProductMonotonic
    <3> QED BY <3>2 DEF f
  <2>2. Bps(raised, goal) = m \div goal /\ Bps(later, goal) = n \div goal
    BY <1>4 DEF Bps
  <2> HIDE DEF m, n
  <2> DEFINE q == m \div goal
             r == m % goal
  <2>3. q \in Int /\ r \in Int /\ m = goal * q + r /\ 0 <= r
    BY <2>1, QuotientFacts
  <2>4. q <= n \div goal
    <3> HIDE DEF q, r
    <3>1. goal * q \in Int /\ q * goal = goal * q
      BY <2>3
    <3>2. q * goal <= n
      BY <2>1, <2>3, <3>1
    <3> QED BY <2>1, <2>3, <3>2, QuotientAtLeast
  <2> QED BY <2>2, <2>4
<1> QED BY <1>2, <1>3, <1>4

LEMMA Between ==
    ASSUME NEW n \in Int, NEW high \in Int, 0 <= n, n <= high
    PROVE  n \in 0 .. high
OBVIOUS

LEMMA ReportConsistent ==
    ASSUME FullBps <= MaxU32, NEW c \in Campaign,
           c.raised \in Int, c.goal \in Int,
           c.goal > 0, c.raised * FullBps <= MaxI128
    PROVE  ConsistentReport(c)
<1> DEFINE raised == c.raised
           goal == c.goal
           bps == ProgressOf(c).bps
           remaining == ProgressOf(c).remaining
<1>1. /\ raised \in Int /\ goal \in Int /\ goal > 0
      /\ raised * FullBps <= MaxI128
      /\ c.raised = raised /\ c.goal = goal
  OBVIOUS
<1> HIDE DEF raised, goal
<1>2. bps = Bps(raised, goal) /\ remaining = Remaining(raised, goal)
  <2>1. ProgressOf(c).bps = Bps(c.raised, c.goal)
        /\ ProgressOf(c).remaining = Remaining(c.raised, c.goal)
    BY ProgressIs
  <2> QED BY <2>1 DEF raised, goal
<1>3. /\ bps \in Int /\ 0 <= bps /\ bps <= FullBps
      /\ remaining \in Int /\ 0 <= remaining /\ remaining <= goal
      /\ bps = FullBps <=> remaining = 0
  BY <1>1, <1>2, BpsFacts
<1>4. ASSUME NEW more \in 1 .. goal, (raised + more) * FullBps <= MaxI128
      PROVE  bps <= ProgressOf([c EXCEPT !.raised = @ + more]).bps
  <2> DEFINE d == [c EXCEPT !.raised = @ + more]
             later == raised + more
  <2>1. /\ later \in Int /\ raised <= later /\ later * FullBps <= MaxI128
        /\ d.raised = later /\ d.goal = goal
    BY <1>1, <1>4 DEF Campaign
  <2> HIDE DEF d, later
  <2>2. ProgressOf(d).bps = Bps(later, goal)
    <3>1. d.raised \in Int /\ d.goal \in Int /\ d.goal > 0
          /\ d.raised * FullBps <= MaxI128
      BY <1>1, <2>1
    <3>2. ProgressOf(d).bps = Bps(d.raised, d.goal)
      BY <3>1, ProgressIs
    <3> QED BY <2>1, <3>2
  <2>3. bps <= ProgressOf(d).bps
    BY <1>1, <1>2, <2>1, <2>2, BpsMonotonic
  <2> QED BY <2>3 DEF d
<1> HIDE DEF bps, remaining
<1>5. bps \in 0 .. FullBps /\ remaining \in 0 .. goal
  BY <1>1, <1>3, Between
<1>6. \A more \in 1 .. goal : (raised + more) * FullBps <= MaxI128 =>
           bps <= ProgressOf([c EXCEPT !.raised = @ + more]).bps
  BY <1>4
<1>7. /\ ProgressOf(c).bps \in 0 .. FullBps
      /\ ProgressOf(c).bps = FullBps <=> ProgressOf(c).remaining = 0
      /\ ProgressOf(c).remaining \in 0 .. c.goal
  BY <1>3, <1>5, Zenon DEF goal, bps, remaining
<1>8. \A more \in 1 .. c.goal : (c.raised + more) * FullBps <= MaxI128 =>
           ProgressOf(c).bps <= ProgressOf([c EXCEPT !.raised = @ + more]).bps
  BY <1>6, Zenon DEF raised, goal, bps
<1> QED BY <1>7, <1>8, Zenon DEF ConsistentReport

\* The ids given out are the active campaigns.
LEMMA ActiveCounted ==
    ASSUME TypeOK, LedgerInv
    PROVE  ActiveCampaigns = count
<1>1. count \in Nat /\ count <= MaxCampaigns /\ MaxCampaigns \in Nat
  BY ConstantFacts DEF TypeOK
<1>2. \A id \in CampaignId : id <= count => campaigns[id] # None /\ campaigns[id].active
  BY DEF LedgerInv, Ledger
<1>3. {id \in CampaignId : id <= count /\ campaigns[id] # None
                                       /\ campaigns[id].active} = 1 .. count
  BY <1>1, <1>2 DEF CampaignId
<1> QED BY <1>1, <1>3, IntervalFinite DEF ActiveCampaigns

\* The report of a campaign is consistent as long as its products fit i128, on
\* a machine whose u32 holds 10000: full funding is reported exactly when
\* nothing remains to be raised, and more donations never lower the progress.
THEOREM ReportsAlwaysAgree ==
    ASSUME FullBps <= MaxU32
    PROVE  Spec => []ReportsAgree
<1>1. ASSUME TypeOK, LedgerInv
      PROVE  ReportsAgree
  <2>1. ASSUME NEW id \in CampaignId, campaigns[id] # None,
               campaigns[id].goal > 0, campaigns[id].raised * FullBps <= MaxI128
        PROVE  ConsistentReport(campaigns[id])
    <3>1. /\ campaigns[id] \in Campaign /\ campaigns[id].raised \in Int
          /\ campaigns[id].goal \in Int
      BY <1>1, <2>1, RequestFacts
    <3> QED BY <2>1, <3>1, ReportConsistent
  <2>2. ActiveCampaigns = count
    BY <1>1, ActiveCounted
  <2> QED BY <2>1, <2>2 DEF ReportsAgree
<1> QED BY <1>1, PlatformTypes, LedgerAlways, PTL

-----------------------------------------------------------------------------
(***************************************************************************)
(* The promise of Withdrawals: the entry of one id in each of its four     *)
(* variables, and one lemma per call.                                      *)
(***************************************************************************)
LEMMA PromiseEntries ==
    ASSUME NEW id \in CampaignId
    PROVE  /\ Earned[id] = SumOfAmounts(history[id])
           /\ Asked[id] =
                IF requests[id] = None \/ requests[id].status = "Submitted"
                THEN None
                ELSE [amount |-> requests[id].amount,
                      to |-> requests[id].recipient]
           /\ id \in Granted <=> /\ requests[id] # None
                                 /\ requests[id].status = "Approved"
           /\ DOMAIN Earned = CampaignId /\ DOMAIN Asked = CampaignId
           /\ Granted \subseteq CampaignId
BY DEF Earned, Asked, Granted

\* A call that leaves requests and histories alone changes only what is paid.
LEMMA PromiseSame ==
    /\ history' = history => Earned' = Earned
    /\ requests' = requests => Asked' = Asked /\ Granted' = Granted
BY DEF Earned, Asked, Granted

LEMMA PromiseInit == Init => Promise!Init
<1> SUFFICES ASSUME Init
             PROVE  Promise!Init
  OBVIOUS
<1>1. Earned = [id \in CampaignId |-> 0]
  BY EmptyHistory DEF Init, Earned
<1>2. Asked = [id \in CampaignId |-> None]
  BY DEF Init, Asked
<1>3. Granted = {}
  BY DEF Init, Granted
<1>4. withdrawn = [id \in CampaignId |-> 0]
  BY DEF Init
<1> QED BY <1>1, <1>2, <1>3, <1>4 DEF Promise!Init

LEMMA PromiseDonate ==
    ASSUME TypeOK, LedgerInv, NEW d \in Address, NEW id \in CampaignId,
           NEW amount \in DonationAmounts, NEW asset \in Asset \cup {NoAsset},
           Donate(d, id, amount, asset)
    PROVE  Promise!Earn(id)
<1> DEFINE r == [donor |-> d, amount |-> NetOf(amount), asset |-> asset]
           net == NetOf(amount)
<1>1. /\ net \in Int /\ net > 0 /\ r \in DonationRecord /\ r.amount = net
      /\ history[id] \in Seq(DonationRecord)
  BY DonateFacts
<1>2. /\ history' = [history EXCEPT ![id] = Append(@, r)]
      /\ withdrawn' = withdrawn /\ requests' = requests
  BY DEF Donate
<1>3. SumOfAmounts(Append(history[id], r)) = SumOfAmounts(history[id]) + net
  <2> DEFINE h == history[id]
  <2> HIDE DEF h, r, net
  <2>1. h \in Seq(DonationRecord)
    BY <1>1 DEF h
  <2>2. SumOfAmounts(Append(h, r)) = SumOfAmounts(h) + r.amount
    BY <1>1, <2>1, AmountsAppend, {} \in SUBSET DOMAIN h
  <2> QED BY <1>1, <2>2 DEF h
<1> HIDE DEF r, net
<1>4. history'[id] = Append(history[id], r)
  BY <1>2 DEF TypeOK
<1>5. Earned'[id] > Earned[id]
  <2>1. Earned'[id] = SumOfAmounts(history[id]) + net
    BY <1>3, <1>4 DEF Earned
  <2>2. Earned[id] = SumOfAmounts(history[id])
    BY PromiseEntries
  <2>3. SumOfAmounts(history[id]) \in Int
    BY SumsType
  <2> QED BY <1>1, <2>1, <2>2, <2>3
<1>6. Earned' = [Earned EXCEPT ![id] = Earned'[id]]
  <2>1. \A x \in CampaignId : x # id => Earned'[x] = Earned[x]
    <3>1. \A x \in CampaignId : x # id => history'[x] = history[x]
      BY <1>2 DEF TypeOK
    <3> QED BY <3>1 DEF Earned
  <2> QED BY <2>1 DEF Earned
<1>7. Asked' = Asked /\ Granted' = Granted
  BY <1>2, PromiseSame
<1> QED BY <1>2, <1>5, <1>6, <1>7 DEF Promise!Earn

\* What changing one request does to what is asked for and granted.
LEMMA PromiseRequest ==
    ASSUME TypeOK, NEW id \in CampaignId, NEW r,
           requests' = [requests EXCEPT ![id] = r], r # None
    PROVE  /\ requests'[id] = r
           /\ Asked' = [Asked EXCEPT ![id] =
                           IF r.status = "Submitted" THEN None
                           ELSE [amount |-> r.amount, to |-> r.recipient]]
           /\ Granted' = IF r.status = "Approved" THEN Granted \cup {id}
                         ELSE Granted \ {id}
<1>1. /\ requests'[id] = r
      /\ \A x \in CampaignId : x # id => requests'[x] = requests[x]
  BY DEF TypeOK
<1>2. \A x \in CampaignId : x # id => Asked'[x] = Asked[x]
  BY <1>1 DEF Asked
<1>3. Asked'[id] = IF r.status = "Submitted" THEN None
                   ELSE [amount |-> r.amount, to |-> r.recipient]
  BY <1>1 DEF Asked
<1>4. Asked' = [Asked EXCEPT ![id] = Asked'[id]]
  <2>1. /\ Asked = [x \in CampaignId |-> Asked[x]]
        /\ Asked' = [x \in CampaignId |-> Asked'[x]]
    BY DEF Asked
  <2> QED BY <1>2, <2>1
<1>5. \A x \in CampaignId : x # id => (x \in Granted' <=> x \in Granted)
  BY <1>1 DEF Granted
<1>6. id \in Granted' <=> r.status = "Approved"
  BY <1>1 DEF Granted
<1>7. Granted' \subseteq CampaignId /\ Granted \subseteq CampaignId
  BY DEF Granted
<1>8. Granted' = IF r.status = "Approved" THEN Granted \cup {id}
                 ELSE Granted \ {id}
  BY <1>5, <1>6, <1>7
<1> QED BY <1>1, <1>3, <1>4, <1>8

LEMMA PromiseWithdraw ==
    ASSUME TypeOK, LedgerInv, NEW creator \in Address,
           NEW recipient \in Address, NEW id \in CampaignId,
           NEW amount \in WithdrawalAmounts,
           Withdraw(creator, id, recipient, amount)
    PROVE  Promise!Ask(id, amount, recipient)
<1> DEFINE r == [recipient |-> recipient, amount |-> amount,
                 status |-> "Pending"]
<1>1. /\ requests' = [requests EXCEPT ![id] = r]
      /\ UNCHANGED <<books, withdrawn>>
      /\ requests[id] # None => requests[id].status = "Submitted"
  BY DEF Withdraw, IsSubmitted
<1>2. amount \in Int /\ amount > 0 /\ amount <= Left(id)
  BY LedgerWithdraw
<1>3. r \in WithdrawalRequest /\ r # None
  BY <1>2, ConstantFacts DEF WithdrawalRequest, WithdrawalStatus
<1>4. r.status = "Pending" /\ r.amount = amount /\ r.recipient = recipient
  OBVIOUS
<1> HIDE DEF r
<1>5. /\ Asked' = [Asked EXCEPT ![id] =
                      IF r.status = "Submitted" THEN None
                      ELSE [amount |-> r.amount, to |-> r.recipient]]
      /\ Granted' = IF r.status = "Approved" THEN Granted \cup {id}
                    ELSE Granted \ {id}
  BY <1>1, <1>3, PromiseRequest
<1>6. Asked' = [Asked EXCEPT ![id] = [amount |-> amount, to |-> recipient]]
  BY <1>4, <1>5
<1>7. Asked[id] = None /\ id \notin Granted
  BY <1>1, PromiseEntries
<1>8. Granted' = Granted
  BY <1>4, <1>5, <1>7
<1>9. Earned' = Earned /\ withdrawn' = withdrawn
  BY <1>1, PromiseSame DEF books
<1>10. 0 < amount /\ amount <= Earned[id] - withdrawn[id]
  BY <1>2, PromiseEntries DEF Left
<1> QED BY <1>6, <1>7, <1>8, <1>9, <1>10 DEF Promise!Ask

LEMMA PromiseApprove ==
    ASSUME TypeOK, LedgerInv, NEW caller \in Address, NEW id \in CampaignId,
           ApproveWithdrawal(caller, id)
    PROVE  Promise!Grant(id)
<1> DEFINE r == [requests[id] EXCEPT !.status = "Approved"]
           open == [amount |-> requests[id].amount,
                    to |-> requests[id].recipient]
<1>1. /\ requests[id] # None /\ requests[id].status = "Pending"
      /\ requests' = [requests EXCEPT ![id] = r]
      /\ withdrawn' = [withdrawn EXCEPT ![id] = @ + requests[id].amount]
      /\ history' = history
  BY DEF ApproveWithdrawal
<1>2. requests[id] \in WithdrawalRequest /\ requests[id].amount \in Int
      /\ requests[id].recipient \in Address
  BY <1>1, RequestFacts DEF WithdrawalRequest
<1>3. /\ r \in WithdrawalRequest /\ r # None /\ r.status = "Approved"
      /\ r.amount = requests[id].amount
      /\ r.recipient = requests[id].recipient
  BY <1>2, ConstantFacts DEF WithdrawalRequest, WithdrawalStatus
<1> HIDE DEF r
<1>4. Asked[id] = open /\ id \notin Granted
  BY <1>1, PromiseEntries
<1>5. open # None /\ open.amount = requests[id].amount
  <2>1. open \in [amount : Int, to : Address]
    BY <1>2
  <2> QED BY <2>1, ConstantFacts
<1>6. Asked' = [Asked EXCEPT ![id] = open]
      /\ Granted' = Granted \cup {id}
  <2>1. /\ Asked' = [Asked EXCEPT ![id] =
                        IF r.status = "Submitted" THEN None
                        ELSE [amount |-> r.amount, to |-> r.recipient]]
        /\ Granted' = IF r.status = "Approved" THEN Granted \cup {id}
                      ELSE Granted \ {id}
    BY <1>1, <1>3, PromiseRequest
  <2> QED BY <1>3, <2>1
<1>7. Asked' = Asked
  BY <1>4, <1>6 DEF Asked
<1>8. open.amount <= Earned[id] - withdrawn[id]
  BY <1>1, <1>5, PromiseEntries DEF LedgerInv, Ledger, Left
<1>9. withdrawn' = [withdrawn EXCEPT ![id] = @ + open.amount]
  BY <1>1, <1>5
<1>10. Earned' = Earned
  BY <1>1, PromiseSame
<1> HIDE DEF open
<1> QED BY <1>4, <1>5, <1>6, <1>7, <1>8, <1>9, <1>10 DEF Promise!Grant

LEMMA PromiseSubmit ==
    ASSUME TypeOK, NEW caller \in Address, NEW id \in CampaignId,
           SubmitTransaction(caller, id)
    PROVE  Promise!Confirm(id)
<1> DEFINE r == [requests[id] EXCEPT !.status = "Submitted"]
<1>1. /\ requests[id] # None /\ requests[id].status = "Approved"
      /\ requests' = [requests EXCEPT ![id] = r]
      /\ UNCHANGED <<books, withdrawn>>
  BY DEF SubmitTransaction
<1>2. r \in WithdrawalRequest /\ r # None /\ r.status = "Submitted"
  BY <1>1, RequestFacts, ConstantFacts DEF WithdrawalRequest, WithdrawalStatus
<1> HIDE DEF r
<1>3. id \in Granted
  BY <1>1, PromiseEntries
<1>4. Asked' = [Asked EXCEPT ![id] = None] /\ Granted' = Granted \ {id}
  BY <1>1, <1>2, PromiseRequest
<1>5. Earned' = Earned /\ withdrawn' = withdrawn
  BY <1>1, PromiseSame DEF books
<1> QED BY <1>3, <1>4, <1>5 DEF Promise!Confirm

LEMMA PromiseNext ==
    TypeOK /\ LedgerInv /\ [Next]_vars => [Promise!Next]_(Promise!view)
<1> SUFFICES ASSUME TypeOK, LedgerInv, [Next]_vars
             PROVE  Promise!Next \/ UNCHANGED Promise!view
  OBVIOUS
<1>1. ASSUME UNCHANGED <<history, requests, withdrawn>>
      PROVE  UNCHANGED Promise!view
  BY <1>1, PromiseSame DEF Promise!view
<1>2. CASE UNCHANGED vars
  BY <1>1, <1>2 DEF vars, books
<1>3. ASSUME NEW caller \in Address, Initialize(caller)
      PROVE  UNCHANGED Promise!view
  BY <1>1, <1>3 DEF Initialize, books
<1>4. ASSUME NEW creator \in Address, NEW goal \in Goals,
             CreateCampaign(creator, goal)
      PROVE  UNCHANGED Promise!view
  BY <1>1, <1>4 DEF CreateCampaign
<1>5. ASSUME NEW d \in Address, NEW id \in CampaignId,
             NEW amount \in DonationAmounts,
             NEW asset \in Asset \cup {NoAsset}, Donate(d, id, amount, asset)
      PROVE  Promise!Next
  BY <1>5, PromiseDonate DEF Promise!Next
<1>6. ASSUME NEW creator \in Address, NEW recipient \in Address,
             NEW id \in CampaignId, NEW amount \in WithdrawalAmounts,
             Withdraw(creator, id, recipient, amount)
      PROVE  Promise!Next
  BY <1>6, PromiseWithdraw DEF Promise!Next
<1>7. ASSUME NEW caller \in Address, NEW id \in CampaignId,
             ApproveWithdrawal(caller, id)
      PROVE  Promise!Next
  BY <1>7, PromiseApprove DEF Promise!Next
<1>8. ASSUME NEW caller \in Address, NEW id \in CampaignId,
             SubmitTransaction(caller, id)
      PROVE  Promise!Next
  BY <1>8, PromiseSubmit DEF Promise!Next
<1>9. CASE Next
  BY <1>3, <1>4, <1>5, <1>6, <1>7, <1>8, <1>9 DEF Next
<1> QED BY <1>2, <1>9

\* The contract implements the promise: every call is a step of Withdrawals or
\* leaves it unchanged, so a campaign never pays more than it earned, however
\* often its id was given out.
THEOREM PlatformKeepsPromise == Spec => KeepsPromise
BY PromiseInit, PromiseNext, PlatformTypes, LedgerAlways, PTL
   DEF Spec, KeepsPromise, Promise!Spec

-----------------------------------------------------------------------------
(***************************************************************************)
(* The per-asset totals.  What they add up are the records of one asset.   *)
(***************************************************************************)
RecordsOf(h, a) == {i \in DOMAIN h : h[i].asset = a}

AssetTotal(id, a) ==
    assetRaised[id][a] = WrapI128(AmountsAt(history[id], RecordsOf(history[id], a)))

LEMMA AssetTotals ==
    AssetTotalsMatchHistory <=> \A id \in CampaignId, a \in Asset : AssetTotal(id, a)
BY DEF AssetTotalsMatchHistory, AssetTotal, AmountsAt, RecordsOf

\* A new record joins those of its asset.
LEMMA RecordsAppend ==
    ASSUME NEW h \in Seq(DonationRecord), NEW r \in DonationRecord, NEW a
    PROVE  RecordsOf(Append(h, r), a) =
              IF r.asset = a THEN RecordsOf(h, a) \cup {Len(h) + 1}
              ELSE RecordsOf(h, a)
<1> DEFINE g == Append(h, r)
           n == Len(h) + 1
<1>1. /\ DOMAIN g = DOMAIN h \cup {n} /\ n \notin DOMAIN h /\ g[n] = r
      /\ \A i \in DOMAIN h : g[i] = h[i]
  BY AppendFacts
<1> HIDE DEF g, n
<1>2. RecordsOf(g, a) = IF r.asset = a THEN RecordsOf(h, a) \cup {n}
                        ELSE RecordsOf(h, a)
  BY <1>1 DEF RecordsOf
<1> QED BY <1>2 DEF g, n

LEMMA AssetsInit == Init => AssetTotalsMatchHistory
<1> SUFFICES ASSUME Init, NEW id \in CampaignId, NEW a \in Asset
             PROVE  AssetTotal(id, a)
  BY AssetTotals
<1>1. history[id] = << >> /\ assetRaised[id][a] = 0
  BY DEF Init
<1>2. RecordsOf(<< >>, a) = {}
  BY DEF RecordsOf
<1>3. AmountsAt(<< >>, {}) = 0
  BY SumEmpty DEF AmountsAt
<1>4. WrapI128(0) = 0
  BY WrapTurns, ConstantFacts DEF InI128
<1> QED BY <1>1, <1>2, <1>3, <1>4 DEF AssetTotal

LEMMA AssetsDonate ==
    ASSUME TypeOK, AssetTotalsMatchHistory,
           NEW d \in Address, NEW id \in CampaignId,
           NEW amount \in DonationAmounts, NEW asset \in Asset \cup {NoAsset},
           Donate(d, id, amount, asset)
    PROVE  AssetTotalsMatchHistory'
<1> DEFINE r == [donor |-> d, amount |-> NetOf(amount), asset |-> asset]
           net == NetOf(amount)
           h == history[id]
<1>1. /\ net \in Int /\ r \in DonationRecord /\ r.amount = net
      /\ h \in Seq(DonationRecord) /\ asset \in Asset /\ r.asset = asset
  BY DonateFacts
<1>2. /\ history' = [history EXCEPT ![id] = Append(h, r)]
      /\ assetRaised' = [assetRaised EXCEPT
                            ![id][asset] = WrapI128(@ + net)]
  BY DEF Donate, PlusNet
<1> HIDE DEF r, net
<1>3. /\ history'[id] = Append(h, r)
      /\ assetRaised'[id][asset] = WrapI128(assetRaised[id][asset] + net)
      /\ \A a \in Asset : a # asset => assetRaised'[id][a] = assetRaised[id][a]
      /\ \A x \in CampaignId : x # id => /\ history'[x] = history[x]
                                         /\ assetRaised'[x] = assetRaised[x]
  BY <1>1, <1>2 DEF TypeOK
<1> HIDE DEF h
<1>4. ASSUME NEW x \in CampaignId, NEW a \in Asset
      PROVE  AssetTotal(x, a)'
  <2>1. AssetTotal(x, a)
    BY AssetTotals
  <2>2. CASE x # id
    BY <1>3, <2>1, <2>2 DEF AssetTotal
  <2>3. CASE x = id
    <3> DEFINE S == RecordsOf(h, a)
               n == Len(h) + 1
               sum == AmountsAt(h, S)
    <3>1. S \in SUBSET DOMAIN h
      BY DEF RecordsOf
    <3>2. sum \in Int
      <4> HIDE DEF S
      <4> QED BY <1>1, <3>1, AmountsType
    <3>3. /\ AmountsAt(Append(h, r), S) = sum
          /\ AmountsAt(Append(h, r), S \cup {n}) = sum + net
      <4> HIDE DEF S
      <4> QED BY <1>1, <3>1, AmountsAppend
    <3>4. RecordsOf(Append(h, r), a) = IF asset = a THEN S \cup {n} ELSE S
      BY <1>1, RecordsAppend
    <3>5. assetRaised[id][a] = WrapI128(sum)
      BY <2>1, <2>3 DEF AssetTotal, h
    <3> HIDE DEF S, n, sum
    <3>6. CASE asset = a
      <4>1. assetRaised'[id][a] = WrapI128(WrapI128(sum) + net)
        BY <1>3, <3>5, <3>6
      <4>2. assetRaised'[id][a] = WrapI128(sum + net)
        BY <1>1, <3>2, <4>1, WrapPlus
      <4> QED BY <1>3, <2>3, <3>3, <3>4, <3>6, <4>2 DEF AssetTotal
    <3>7. CASE asset # a
      <4>1. assetRaised'[id][a] = WrapI128(sum)
        BY <1>3, <3>5, <3>7
      <4> QED BY <1>3, <2>3, <3>3, <3>4, <3>7, <4>1 DEF AssetTotal
    <3> QED BY <3>6, <3>7
  <2> QED BY <2>2, <2>3
<1>5. \A x \in CampaignId, a \in Asset : AssetTotal(x, a)'
  BY <1>4
<1> QED BY <1>5 DEF AssetTotalsMatchHistory, AssetTotal, AmountsAt, RecordsOf

\* Only a donation writes to the histories and what goes with them.
LEMMA OnlyDonationsRecord ==
    ASSUME [Next]_vars
    PROVE  \/ UNCHANGED <<assetRaised, history, donations, donors>>
                  /\ totalDonations' = totalDonations
           \/ \E d \in Address, id \in CampaignId, amount \in DonationAmounts,
                 asset \in Asset \cup {NoAsset} : Donate(d, id, amount, asset)
<1>1. CASE UNCHANGED vars
  BY <1>1 DEF vars, books, counters
<1>2. CASE Next
  BY <1>2 DEF Next, Initialize, CreateCampaign, Withdraw, ApproveWithdrawal,
     SubmitTransaction, books, counters
<1> QED BY <1>1, <1>2

\* The per-asset totals of a campaign are what its history records of each
\* asset, whatever was withdrawn and even if its id was given out twice.
THEOREM AssetTotalsAgree == Spec => []AssetTotalsMatchHistory
<1>1. ASSUME TypeOK, AssetTotalsMatchHistory, [Next]_vars
      PROVE  AssetTotalsMatchHistory'
  <2>1. CASE UNCHANGED <<assetRaised, history, donations, donors>>
    BY <1>1, <2>1 DEF AssetTotalsMatchHistory
  <2>2. CASE \E d \in Address, id \in CampaignId, amount \in DonationAmounts,
                asset \in Asset \cup {NoAsset} : Donate(d, id, amount, asset)
    BY <1>1, <2>2, AssetsDonate
  <2> QED BY <1>1, <2>1, <2>2, OnlyDonationsRecord
<1> QED BY <1>1, AssetsInit, PlatformTypes, PTL DEF Spec

-----------------------------------------------------------------------------
(***************************************************************************)
(* The donor list: the first records of a history's donors, and how many   *)
(* of them there are up to one of them, which is its place in the list.    *)
(***************************************************************************)
IsFirst(h, i) == \A j \in 1 .. i - 1 : h[j].donor # h[i].donor

Firsts(h) == {i \in DOMAIN h : IsFirst(h, i)}

Rank(h, i) == Cardinality({j \in Firsts(h) : j <= i})

Gave(h, d) == \E i \in DOMAIN h : h[i].donor = d

\* The invariant that carries the property: the list also names each donor of
\* the history, so a donor is appended exactly with a first record.
DonorBooks(id) ==
    LET h == history[id]
    IN  /\ Len(donors[id]) = Cardinality(Firsts(h))
        /\ \A i \in Firsts(h) : donors[id][Rank(h, i)] = h[i].donor
        /\ \A d \in Address : donations[id][d] # None <=> Gave(h, d)
        /\ \A d \in Address :
              (\E k \in DOMAIN donors[id] : donors[id][k] = d) <=> Gave(h, d)

DonorInv == \A id \in CampaignId : DonorBooks(id)

LEMMA DonorInvSuffices == DonorInv => DonorListMatchesHistory
BY DEF DonorInv, DonorBooks, DonorListMatchesHistory, Firsts, IsFirst, Rank, Gave

\* A first record has a place in the list.
LEMMA RankFacts ==
    ASSUME NEW h \in Seq(DonationRecord), NEW i \in Firsts(h)
    PROVE  /\ IsFiniteSet(Firsts(h)) /\ Cardinality(Firsts(h)) \in Nat
           /\ Rank(h, i) \in 1 .. Cardinality(Firsts(h))
<1> DEFINE F == Firsts(h)
           R == {j \in F : j <= i}
<1>1. DOMAIN h = 1 .. Len(h) /\ Len(h) \in Nat
  BY LenProperties
<1>2. IsFiniteSet(DOMAIN h)
  BY <1>1, IntervalFinite
<1>3. IsFiniteSet(F)
  BY <1>2, FS_Subset, F \in SUBSET DOMAIN h DEF Firsts
<1>4. R \in SUBSET F /\ i \in R
  BY <1>1 DEF Firsts
<1> HIDE DEF F, R
<1>5. IsFiniteSet(R) /\ Cardinality(R) <= Cardinality(F)
  BY <1>3, <1>4, FS_Subset
<1>6. Cardinality(R) \in Nat /\ Cardinality(F) \in Nat
  BY <1>3, <1>5, FS_CardinalityType
<1>7. Cardinality(R) # 0
  BY <1>4, <1>5, FS_EmptySet
<1>8. Rank(h, i) = Cardinality(R)
  BY DEF Rank, R, F
<1> QED BY <1>3, <1>5, <1>6, <1>7, <1>8 DEF F

\* What a new record changes about who gave, and who gave first.
LEMMA FirstsAppend ==
    ASSUME NEW h \in Seq(DonationRecord), NEW r \in DonationRecord
    PROVE  LET g == Append(h, r)
               n == Len(h) + 1
           IN  /\ Firsts(g) = IF Gave(h, r.donor) THEN Firsts(h)
                              ELSE Firsts(h) \cup {n}
               /\ \A i \in Firsts(h) : Rank(g, i) = Rank(h, i)
               /\ ~Gave(h, r.donor) =>
                     Rank(g, n) = Cardinality(Firsts(h)) + 1
               /\ \A d : Gave(g, d) <=> Gave(h, d) \/ r.donor = d
               /\ \A i \in Firsts(h) : g[i] = h[i]
               /\ g[n] = r
<1> DEFINE g == Append(h, r)
           n == Len(h) + 1
<1>1. /\ DOMAIN g = DOMAIN h \cup {n} /\ n \notin DOMAIN h /\ g[n] = r
      /\ \A i \in DOMAIN h : g[i] = h[i]
      /\ DOMAIN h = 1 .. Len(h) /\ Len(h) \in Nat
  BY AppendFacts
<1> HIDE DEF g
<1>2. \A i \in DOMAIN h : IsFirst(g, i) <=> IsFirst(h, i)
  <2> SUFFICES ASSUME NEW i \in DOMAIN h
               PROVE  IsFirst(g, i) <=> IsFirst(h, i)
    OBVIOUS
  <2>1. \A j \in 1 .. i - 1 : g[j] = h[j]
    BY <1>1
  <2> QED BY <1>1, <2>1 DEF IsFirst
<1>3. IsFirst(g, n) <=> ~Gave(h, r.donor)
  <2>1. 1 .. n - 1 = DOMAIN h
    BY <1>1
  <2> HIDE DEF n
  <2> QED BY <1>1, <2>1 DEF IsFirst, Gave
<1>4. Firsts(g) = IF Gave(h, r.donor) THEN Firsts(h) ELSE Firsts(h) \cup {n}
  <2> HIDE DEF n
  <2> QED BY <1>1, <1>2, <1>3 DEF Firsts
<1>5. /\ \A i \in Firsts(h) : i \in Nat /\ i < n /\ i \in DOMAIN h
      /\ n \in Nat /\ n \notin Firsts(h)
  BY <1>1 DEF Firsts
<1>6. \A i \in Firsts(h) : Rank(g, i) = Rank(h, i)
  <2> SUFFICES ASSUME NEW i \in Firsts(h)
               PROVE  Rank(g, i) = Rank(h, i)
    OBVIOUS
  <2>1. {j \in Firsts(g) : j <= i} = {j \in Firsts(h) : j <= i}
    <3> HIDE DEF n
    <3> QED BY <1>4, <1>5
  <2> QED BY <2>1 DEF Rank
<1>7. ~Gave(h, r.donor) => Rank(g, n) = Cardinality(Firsts(h)) + 1
  <2> SUFFICES ASSUME ~Gave(h, r.donor)
               PROVE  Rank(g, n) = Cardinality(Firsts(h)) + 1
    OBVIOUS
  <2>1. {j \in Firsts(g) : j <= n} = Firsts(h) \cup {n}
    <3> HIDE DEF n
    <3> QED BY <1>4, <1>5
  <2>2. IsFiniteSet(Firsts(h))
    <3>1. IsFiniteSet(DOMAIN h) /\ Firsts(h) \in SUBSET DOMAIN h
      BY <1>1, IntervalFinite DEF Firsts
    <3> QED BY <3>1, FS_Subset
  <2>3. Cardinality(Firsts(h) \cup {n}) = Cardinality(Firsts(h)) + 1
    BY <1>5, <2>2, FS_AddElement
  <2> QED BY <2>1, <2>3 DEF Rank
<1>8. \A d : Gave(g, d) <=> Gave(h, d) \/ r.donor = d
  <2> HIDE DEF n
  <2> QED BY <1>1 DEF Gave
<1>9. \A i \in Firsts(h) : g[i] = h[i]
  BY <1>1, <1>5
<1> QED BY <1>1, <1>4, <1>6, <1>7, <1>8, <1>9 DEF g

LEMMA DonorsInit == Init => DonorInv
<1> SUFFICES ASSUME Init, NEW id \in CampaignId
             PROVE  DonorBooks(id)
  BY DEF DonorInv
<1>1. /\ history[id] = << >> /\ donors[id] = << >>
      /\ \A d \in Address : donations[id][d] = None
  BY DEF Init
<1>2. Firsts(<< >>) = {} /\ \A d : ~Gave(<< >>, d)
  BY DEF Firsts, Gave
<1>3. Len(<< >>) = 0 /\ DOMAIN << >> = {} /\ Cardinality({}) = 0
  BY FS_EmptySet
<1> QED BY <1>1, <1>2, <1>3 DEF DonorBooks

LEMMA DonorsDonate ==
    ASSUME TypeOK, DonorInv, NEW d \in Address, NEW id \in CampaignId,
           NEW amount \in DonationAmounts, NEW asset \in Asset \cup {NoAsset},
           Donate(d, id, amount, asset)
    PROVE  DonorInv'
<1> DEFINE r == [donor |-> d, amount |-> NetOf(amount), asset |-> asset]
           h == history[id]
           list == donors[id]
           g == Append(h, r)
           n == Len(h) + 1
<1>1. /\ r \in DonationRecord /\ r.donor = d /\ h \in Seq(DonationRecord)
      /\ list \in Seq(Address) /\ amount # None
  BY DonateFacts, ConstantFacts
<1> HIDE DEF r
<1>2. /\ history'[id] = g /\ donors'[id] = AddDonor(list, d)
      /\ donations'[id][d] = amount
      /\ \A e \in Address : e # d => donations'[id][e] = donations[id][e]
      /\ \A x \in CampaignId : x # id =>
            /\ history'[x] = history[x] /\ donors'[x] = donors[x]
            /\ donations'[x] = donations[x]
  BY DEF Donate, TypeOK, r
<1>3. /\ Firsts(g) = IF Gave(h, d) THEN Firsts(h) ELSE Firsts(h) \cup {n}
      /\ \A i \in Firsts(h) : Rank(g, i) = Rank(h, i)
      /\ ~Gave(h, d) => Rank(g, n) = Cardinality(Firsts(h)) + 1
      /\ \A e : Gave(g, e) <=> Gave(h, e) \/ d = e
      /\ \A i \in Firsts(h) : g[i] = h[i]
      /\ g[n] = r
  BY <1>1, FirstsAppend
<1>4. /\ Len(list) = Cardinality(Firsts(h))
      /\ \A i \in Firsts(h) : list[Rank(h, i)] = h[i].donor
      /\ \A e \in Address : donations[id][e] # None <=> Gave(h, e)
      /\ \A e \in Address : (\E k \in DOMAIN list : list[k] = e) <=> Gave(h, e)
  BY DEF DonorInv, DonorBooks
<1>5. /\ \A i \in Firsts(h) : Rank(h, i) \in DOMAIN list
      /\ n \notin Firsts(h) /\ DOMAIN list = 1 .. Len(list) /\ Len(list) \in Nat
      /\ DOMAIN h = 1 .. Len(h) /\ Len(h) \in Nat
  <2>1. DOMAIN list = 1 .. Len(list) /\ Len(list) \in Nat
        /\ DOMAIN h = 1 .. Len(h) /\ Len(h) \in Nat
    BY <1>1, LenProperties
  <2>2. \A i \in Firsts(h) : Rank(h, i) \in 1 .. Cardinality(Firsts(h))
    BY <1>1, RankFacts
  <2>3. n \notin Firsts(h)
    BY <2>1 DEF Firsts
  <2> QED BY <1>4, <2>1, <2>2, <2>3
<1>6. ASSUME NEW x \in CampaignId, x # id
      PROVE  DonorBooks(x)'
  <2>1. DonorBooks(x)
    BY DEF DonorInv
  <2> QED BY <1>2, <1>6, <2>1 DEF DonorBooks
<1> HIDE DEF h, g, list, n
<1>7. \A e \in Address : donations'[id][e] # None <=> Gave(g, e)
  BY <1>1, <1>2, <1>3, <1>4
<1>8. CASE Gave(h, d)
  <2>1. AddDonor(list, d) = list
    BY <1>4, <1>8 DEF AddDonor
  <2>2. \A e \in Address :
           (\E k \in DOMAIN list : list[k] = e) <=> Gave(g, e)
    BY <1>3, <1>4, <1>8
  <2>3. \A i \in Firsts(g) : list[Rank(g, i)] = g[i].donor
    BY <1>3, <1>4, <1>8
  <2>4. Firsts(g) = Firsts(h)
    BY <1>3, <1>8
  <2>5. DonorBooks(id)'
    BY <1>2, <1>4, <1>7, <2>1, <2>2, <2>3, <2>4 DEF DonorBooks
  <2> QED BY <1>6, <2>5 DEF DonorInv
<1>9. CASE ~Gave(h, d)
  <2> DEFINE more == Append(list, d)
             m == Len(list) + 1
  <2>1. AddDonor(list, d) = more
    BY <1>4, <1>9 DEF AddDonor
  <2>2. /\ Len(more) = m /\ DOMAIN more = DOMAIN list \cup {m}
        /\ m \notin DOMAIN list /\ more[m] = d
        /\ \A k \in DOMAIN list : more[k] = list[k]
    BY <1>1, AppendFacts
  <2> HIDE DEF more
  <2>3. Cardinality(Firsts(g)) = m
    <3>1. IsFiniteSet(Firsts(h))
      <4>1. IsFiniteSet(DOMAIN h) /\ Firsts(h) \in SUBSET DOMAIN h
        BY <1>5, IntervalFinite DEF Firsts
      <4> QED BY <4>1, FS_Subset
    <3>2. Cardinality(Firsts(h) \cup {n}) = Cardinality(Firsts(h)) + 1
      BY <1>5, <3>1, FS_AddElement
    <3> QED BY <1>3, <1>4, <1>9, <3>2
  <2>4. ASSUME NEW i \in Firsts(g)
        PROVE  more[Rank(g, i)] = g[i].donor
    <3>1. CASE i = n
      <4>1. Rank(g, n) = m
        BY <1>3, <1>4, <1>9
      <4> QED BY <1>1, <1>3, <2>2, <3>1, <4>1
    <3>2. CASE i # n
      <4>1. i \in Firsts(h)
        BY <1>3, <2>4, <3>2
      <4>2. /\ Rank(g, i) = Rank(h, i) /\ g[i] = h[i]
            /\ list[Rank(h, i)] = h[i].donor /\ Rank(h, i) \in DOMAIN list
        BY <1>3, <1>4, <1>5, <4>1
      <4> QED BY <2>2, <4>2
    <3> QED BY <3>1, <3>2
  <2> HIDE DEF m
  <2>5. \A e \in Address :
           (\E k \in DOMAIN more : more[k] = e) <=> Gave(g, e)
    BY <1>3, <1>4, <2>2
  <2>6. DonorBooks(id)'
    BY <1>2, <1>7, <2>1, <2>2, <2>3, <2>4, <2>5 DEF DonorBooks
  <2> QED BY <1>6, <2>6 DEF DonorInv
<1> QED BY <1>8, <1>9

\* The donor list of a campaign holds each donor of its history exactly once,
\* in the order of their first donations, and a donor's entry is kept for
\* exactly those.
THEOREM DonorListAgrees == Spec => []DonorListMatchesHistory
<1>1. ASSUME TypeOK, DonorInv, [Next]_vars
      PROVE  DonorInv'
  <2>1. CASE UNCHANGED <<assetRaised, history, donations, donors>>
    BY <1>1, <2>1 DEF DonorInv, DonorBooks
  <2>2. CASE \E d \in Address, id \in CampaignId, amount \in DonationAmounts,
                asset \in Asset \cup {NoAsset} : Donate(d, id, amount, asset)
    BY <1>1, <2>2, DonorsDonate
  <2> QED BY <1>1, <2>1, <2>2, OnlyDonationsRecord
<1> QED BY <1>1, DonorsInit, DonorInvSuffices, PlatformTypes, PTL DEF Spec

-----------------------------------------------------------------------------
(***************************************************************************)
(* The pages of a history.  On a machine whose u32 holds the product of    *)
(* the largest page number and size asked for, a page is the stretch of    *)
(* the history from page * size on.                                        *)
(***************************************************************************)
PagesFit == (MaxDonations + 1) * (MaxDonations + 1) <= MaxU32

LEMMA PageStart ==
    ASSUME PagesFit, NEW page \in Nat, NEW size \in 1 .. MaxDonations + 1,
           page <= MaxDonations
    PROVE  /\ page * size \in Nat /\ (page + 1) * size = page * size + size
           /\ WrapU32(page * size) = page * size
           /\ WrapU32(page * size + size) = page * size + size
<1> DEFINE s == page * size
           m == MaxDonations + 1
           u == MaxU32 + 1
<1>1. /\ m \in Nat /\ MaxU32 \in Nat /\ u \in Int /\ u > 0
      /\ size \in Nat /\ 1 <= size /\ size <= m /\ page + 1 <= m
      /\ page \in Nat
  BY ConstantFacts
<1>2. s \in Nat
  BY <1>1
<1>3. (page + 1) * size = s + size
  BY <1>1
<1>4. s + size < u
  <2>1. m * m <= MaxU32
    BY DEF PagesFit
  <2> HIDE DEF m
  <2>2. (page + 1) * size <= m * size /\ m * size <= m * m
    BY <1>1, ProductMonotonic
  <2>3. m * size \in Int /\ m * m \in Int /\ (page + 1) * size \in Int
    BY <1>1
  <2> HIDE DEF s
  <2> QED BY <1>1, <1>2, <1>3, <2>1, <2>2, <2>3
<1>5. ASSUME NEW k \in Nat, k < u
      PROVE  WrapU32(k) = k
  <2>1. k = u * 0 + k
    BY <1>1
  <2> HIDE DEF u
  <2>2. k % u = k
    BY <1>1, <1>5, <2>1, QuotientUnique
  <2> QED BY <2>2 DEF WrapU32, u
<1> HIDE DEF s, u
<1>6. s < u /\ s + size \in Nat
  BY <1>1, <1>2, <1>4
<1>7. WrapU32(s) = s /\ WrapU32(s + size) = s + size
  BY <1>2, <1>4, <1>5, <1>6
<1> QED BY <1>2, <1>3, <1>7 DEF s

\* The length and the records of a page.
PageLength(length, start, size) ==
    IF start >= length THEN 0
    ELSE IF start + size > length THEN length - start ELSE size

LEMMA PageFacts ==
    ASSUME PagesFit, NEW h \in Seq(DonationRecord), Len(h) <= MaxDonations,
           NEW page \in Nat, page <= MaxDonations,
           NEW size \in 1 .. MaxDonations + 1
    PROVE  LET p == PageOf(h, page, size)
           IN  /\ Len(p) = PageLength(Len(h), page * size, size)
               /\ DOMAIN p = 1 .. Len(p)
               /\ \A k \in DOMAIN p : p[k] = h[page * size + k]
<1> DEFINE s == page * size
           p == PageOf(h, page, size)
           end == IF s + size > Len(h) THEN Len(h) ELSE s + size
           cut == SubSeq(h, s + 1, end)
<1>1. s \in Nat /\ WrapU32(s) = s /\ WrapU32(s + size) = s + size
  BY PageStart
<1>2. p = IF s >= Len(h) THEN << >> ELSE cut
  BY <1>1 DEF PageOf
<1>3. /\ Len(h) \in Nat /\ DOMAIN h = 1 .. Len(h) /\ size \in Nat /\ size >= 1
      /\ \A i \in 1 .. Len(h) : h[i] \in DonationRecord
  BY LenProperties, ElementOfSeq, ConstantFacts
<1> HIDE DEF s, p
<1>4. CASE s >= Len(h)
  <2>1. p = << >>
    BY <1>2, <1>4
  <2>2. Len(p) = 0 /\ DOMAIN p = {} /\ 1 .. 0 = {}
    BY <2>1
  <2>3. PageLength(Len(h), s, size) = 0
    BY <1>4 DEF PageLength
  <2> QED BY <2>2, <2>3 DEF s, p
<1>5. CASE ~(s >= Len(h))
  <2>1. /\ end \in Int /\ s + 1 \in Int /\ s + 1 <= end /\ end <= Len(h)
        /\ end - (s + 1) + 1 = PageLength(Len(h), s, size)
    BY <1>1, <1>3, <1>5 DEF PageLength
  <2>2. \A i \in s + 1 .. end : h[i] \in DonationRecord
    BY <1>1, <1>3, <2>1
  <2>3. p = cut
    BY <1>2, <1>5
  <2> HIDE DEF end
  <2>4. /\ cut \in Seq(DonationRecord)
        /\ Len(cut) = end - (s + 1) + 1
        /\ \A k \in 1 .. end - (s + 1) + 1 : cut[k] = h[(s + 1) + k - 1]
    BY <2>1, <2>2, SubSeqProperties
  <2> HIDE DEF cut
  <2>5. p \in Seq(DonationRecord) /\ Len(p) = PageLength(Len(h), s, size)
    BY <2>1, <2>3, <2>4
  <2>6. DOMAIN p = 1 .. Len(p)
    BY <2>5, LenProperties
  <2>7. \A k \in DOMAIN p : p[k] = h[s + k]
    <3> SUFFICES ASSUME NEW k \in DOMAIN p
                 PROVE  p[k] = h[s + k]
      OBVIOUS
    <3>1. k \in 1 .. end - (s + 1) + 1 /\ k \in Int
      BY <2>1, <2>5, <2>6
    <3>2. (s + 1) + k - 1 = s + k
      BY <1>1, <3>1
    <3> QED BY <2>3, <2>4, <3>1, <3>2
  <2> QED BY <2>5, <2>6, <2>7 DEF s, p
<1> QED BY <1>4, <1>5

\* The first pages together are as long as they reach into the history.
LEMMA PagesAddUp ==
    ASSUME PagesFit, NEW h \in Seq(DonationRecord), Len(h) <= MaxDonations,
           NEW size \in 1 .. MaxDonations + 1
    PROVE  SumFunction([page \in 0 .. Len(h) |-> Len(PageOf(h, page, size))])
              = Len(h)
<1> DEFINE L == Len(h)
           f == [page \in 0 .. L |-> Len(PageOf(h, page, size))]
           reach(n) == IF n > L THEN L ELSE n
           S == {p \in Nat : p <= L =>
                   SumFunctionOnSet(f, 0 .. p) = reach((p + 1) * size)}
<1>1. /\ L \in Nat /\ size \in Nat /\ size >= 1 /\ L <= MaxDonations
      /\ MaxDonations \in Nat
  BY LenProperties, ConstantFacts
<1>2. ASSUME NEW p \in Nat, p <= L
      PROVE  /\ f[p] = PageLength(L, p * size, size) /\ f[p] \in Int
             /\ p * size \in Nat /\ (p + 1) * size = p * size + size
  <2>1. p \in 0 .. L /\ p <= MaxDonations
    BY <1>1, <1>2
  <2>2. f[p] = Len(PageOf(h, p, size))
    BY <2>1
  <2>3. f[p] = PageLength(L, p * size, size)
    <3> HIDE DEF f
    <3> QED BY <2>1, <2>2, PageFacts
  <2>4. p * size \in Nat /\ (p + 1) * size = p * size + size
    BY <2>1, PageStart
  <2> DEFINE s == p * size
  <2> HIDE DEF f, s
  <2>5. PageLength(L, s, size) \in Int
    BY <1>1, <2>4 DEF PageLength, s
  <2> QED BY <2>3, <2>4, <2>5 DEF s
<1> HIDE DEF f, L
<1>3. 0 \in S
  <2>1. f[0] = PageLength(L, 0 * size, size) /\ f[0] \in Int
    BY <1>1, <1>2
  <2>2. 0 .. 0 = {0} /\ {0} \ {0} = {} /\ IsFiniteSet({0})
    <3>1. 0 .. 0 = {0} /\ {0} \ {0} = {}
      OBVIOUS
    <3>2. IsFiniteSet({0})
      BY FS_Singleton
    <3> QED BY <3>1, <3>2
  <2>3. SumFunctionOnSet(f, {0}) = f[0] + SumFunctionOnSet(f, {})
    <3>1. SumFunctionOnSet(f, {0}) = f[0] + SumFunctionOnSet(f, {0} \ {0})
      BY <2>1, <2>2, SumRemove
    <3> QED BY <2>2, <3>1
  <2>4. SumFunctionOnSet(f, {0}) = f[0]
    BY <2>1, <2>3, SumEmpty
  <2>5. f[0] = reach(size) /\ (0 + 1) * size = size
    BY <1>1, <2>1 DEF PageLength
  <2> QED BY <2>2, <2>4, <2>5
<1>4. ASSUME NEW p \in Nat, p \in S
      PROVE  p + 1 \in S
  <2> SUFFICES ASSUME p + 1 <= L
               PROVE  SumFunctionOnSet(f, 0 .. (p + 1))
                         = reach(((p + 1) + 1) * size)
    OBVIOUS
  <2> DEFINE e == (p + 1) * size
             T == 0 .. (p + 1)
  <2>1. SumFunctionOnSet(f, 0 .. p) = reach(e)
    BY <1>1, <1>4
  <2>2. /\ f[p + 1] = PageLength(L, e, size) /\ f[p + 1] \in Int /\ e \in Nat
        /\ ((p + 1) + 1) * size = e + size
    BY <1>2, p + 1 \in Nat
  <2>3. /\ IsFiniteSet(T) /\ p + 1 \in T /\ T \ {p + 1} = 0 .. p
    <3>1. IsFiniteSet(T)
      BY FS_Interval
    <3> QED BY <3>1
  <2>4. \A x \in T : f[x] \in Int
    <3> SUFFICES ASSUME NEW x \in T
                 PROVE  f[x] \in Int
      OBVIOUS
    <3>1. x \in Nat /\ x <= L
      BY <1>1
    <3> QED BY <1>2, <3>1
  <2>5. SumFunctionOnSet(f, T) = f[p + 1] + SumFunctionOnSet(f, 0 .. p)
    <3> HIDE DEF T
    <3>1. SumFunctionOnSet(f, T) = f[p + 1] + SumFunctionOnSet(f, T \ {p + 1})
      BY <2>3, <2>4, SumRemove
    <3> QED BY <2>3, <3>1
  <2> HIDE DEF e
  <2>6. PageLength(L, e, size) + reach(e) = reach(e + size)
    BY <1>1, <2>2 DEF PageLength
  <2> QED BY <2>1, <2>2, <2>5, <2>6
<1>5. L \in S
  <2> HIDE DEF S
  <2>1. \A n \in Nat : n \in S
    BY <1>3, <1>4, SetInduction
  <2> QED BY <1>1, <2>1
<1>6. (L + 1) * size >= L
  <2>1. 1 * (L + 1) <= size * (L + 1)
    BY <1>1, ProductMonotonic
  <2>2. size * (L + 1) = (L + 1) * size /\ (L + 1) * size \in Int
    BY <1>1
  <2> QED BY <1>1, <2>1, <2>2
<1>7. SumFunctionOnSet(f, 0 .. L) = L
  <2>1. SumFunctionOnSet(f, 0 .. L) = reach((L + 1) * size)
    BY <1>1, <1>5
  <2> DEFINE k == (L + 1) * size
  <2>2. k \in Int /\ k >= L
    BY <1>1, <1>6
  <2> HIDE DEF k
  <2>3. reach(k) = L
    BY <1>1, <2>2
  <2> QED BY <2>1, <2>3 DEF k
<1>8. DOMAIN f = 0 .. L
  BY DEF f
<1> QED BY <1>7, <1>8 DEF SumFunction, f, L

\* Each record is on the page its place divided by the size names.
LEMMA RecordOnPage ==
    ASSUME PagesFit, NEW h \in Seq(DonationRecord), Len(h) <= MaxDonations,
           NEW size \in 1 .. MaxDonations + 1, NEW i \in DOMAIN h
    PROVE  LET page == PageOf(h, (i - 1) \div size, size)
               slot == ((i - 1) % size) + 1
           IN  slot \in DOMAIN page /\ page[slot] = h[i]
<1> DEFINE L == Len(h)
           q == (i - 1) \div size
           r == (i - 1) % size
           p == PageOf(h, q, size)
<1>1. /\ L \in Nat /\ size \in Nat /\ size >= 1 /\ L <= MaxDonations
      /\ MaxDonations \in Nat /\ i \in Nat /\ 1 <= i /\ i <= L
  BY LenProperties, ConstantFacts
<1>2. /\ q \in Int /\ r \in Int /\ i - 1 = size * q + r /\ 0 <= r /\ r < size
      /\ 0 <= q
  <2> DEFINE n == i - 1
  <2>1. n \in Int /\ 0 <= n /\ size \in Int /\ size > 0
    BY <1>1
  <2> HIDE DEF n
  <2>2. /\ n \div size \in Int /\ n % size \in Int
        /\ n = size * (n \div size) + (n % size)
        /\ 0 <= n % size /\ n % size < size
    BY ONLY <2>1, QuotientFacts
  <2>3. 0 <= n \div size
    BY ONLY <2>1, QuotientAtLeast, 0 * size = 0
  <2> QED BY <2>2, <2>3 DEF n
<1>3. 0 <= q
  BY <1>2
<1> HIDE DEF q, r, p, L
<1>4. q * size \in Nat /\ i - 1 = q * size + r
  BY <1>1, <1>2, <1>3
<1>5. q <= q * size
  <2>1. 1 * q <= size * q
    BY <1>1, <1>2, <1>3, ProductMonotonic
  <2> QED BY <1>2, <1>4, <2>1
<1> DEFINE s == q * size
<1>6. s \in Nat /\ i - 1 = s + r /\ q <= s
  BY <1>4, <1>5
<1>7. q \in Nat /\ q <= MaxDonations
  <2> HIDE DEF s
  <2> QED BY <1>1, <1>2, <1>3, <1>6
<1>8. /\ Len(p) = PageLength(L, s, size)
      /\ DOMAIN p = 1 .. Len(p)
      /\ \A k \in DOMAIN p : p[k] = h[s + k]
  BY <1>7, PageFacts DEF L, p
<1> HIDE DEF s
<1>9. r + 1 \in 1 .. PageLength(L, s, size) /\ s + (r + 1) = i
  BY <1>1, <1>2, <1>6 DEF PageLength
<1>10. r + 1 \in DOMAIN p /\ p[r + 1] = h[i]
  BY <1>8, <1>9
<1> QED BY <1>10 DEF p, q, r

LEMMA HistoryPaged ==
    ASSUME PagesFit, NEW h \in Seq(DonationRecord), Len(h) <= MaxDonations,
           NEW size \in 1 .. MaxDonations + 1
    PROVE  /\ \A page \in 0 .. Len(h) : Len(PageOf(h, page, size)) <= size
           /\ SumFunction([page \in 0 .. Len(h) |-> Len(PageOf(h, page, size))])
                 = Len(h)
           /\ \A i \in DOMAIN h :
                 LET page == PageOf(h, (i - 1) \div size, size)
                     slot == ((i - 1) % size) + 1
                 IN  slot \in DOMAIN page /\ page[slot] = h[i]
<1>1. ASSUME NEW page \in 0 .. Len(h)
      PROVE  Len(PageOf(h, page, size)) <= size
  <2>1. /\ page \in Nat /\ page <= MaxDonations /\ Len(h) \in Nat
        /\ size \in Nat /\ size >= 1
    BY LenProperties, ConstantFacts
  <2>2. /\ Len(PageOf(h, page, size)) = PageLength(Len(h), page * size, size)
        /\ page * size \in Nat
    BY <2>1, PageFacts, PageStart
  <2> DEFINE s == page * size
  <2> HIDE DEF s
  <2>3. PageLength(Len(h), s, size) <= size
    BY <2>1, <2>2 DEF PageLength, s
  <2> QED BY <2>2, <2>3 DEF s
<1> QED BY <1>1, PagesAddUp, RecordOnPage

\* The counter of donations bounds every history.
HistoryBounded ==
    /\ totalDonations <= MaxDonations
    /\ \A id \in CampaignId : Len(history[id]) <= totalDonations

LEMMA HistoryBoundedAlways == Spec => []HistoryBounded
<1>1. Init => HistoryBounded
  BY ConstantFacts DEF Init, HistoryBounded
<1>2. ASSUME TypeOK, HistoryBounded, [Next]_vars
      PROVE  HistoryBounded'
  <2>1. CASE /\ UNCHANGED <<assetRaised, history, donations, donors>>
             /\ totalDonations' = totalDonations
    BY <1>2, <2>1 DEF HistoryBounded
  <2>2. ASSUME NEW d \in Address, NEW id \in CampaignId,
               NEW amount \in DonationAmounts,
               NEW asset \in Asset \cup {NoAsset}, Donate(d, id, amount, asset)
        PROVE  HistoryBounded'
    <3> DEFINE r == [donor |-> d, amount |-> NetOf(amount), asset |-> asset]
    <3>1. r \in DonationRecord
      BY <1>2, <2>2, DonateFacts
    <3>2. /\ history' = [history EXCEPT ![id] = Append(@, r)]
          /\ totalDonations < MaxDonations
          /\ totalDonations' = totalDonations + 1
          /\ totalDonations \in Nat /\ MaxDonations \in Nat
      BY <1>2, <2>2, ConstantFacts DEF Donate, TypeOK
    <3> HIDE DEF r
    <3>3. ASSUME NEW x \in CampaignId
          PROVE  Len(history'[x]) <= totalDonations + 1
      <4>1. history[x] \in Seq(DonationRecord)
            /\ Len(history[x]) <= totalDonations
            /\ history \in [CampaignId -> Seq(DonationRecord)]
        BY <1>2 DEF TypeOK, HistoryBounded
      <4>2. /\ Len(history[x]) \in Nat
            /\ Len(Append(history[x], r)) = Len(history[x]) + 1
        BY <3>1, <4>1, AppendFacts
      <4>3. history'[x] = history[x] \/ history'[x] = Append(history[x], r)
        BY <3>2, <4>1
      <4> QED BY <3>2, <4>1, <4>2, <4>3
    <3> QED BY <3>2, <3>3 DEF HistoryBounded
  <2> QED BY <1>2, <2>1, <2>2, OnlyDonationsRecord
<1> QED BY <1>1, <1>2, PlatformTypes, PTL DEF Spec

\* The pages of a history, read one after the other, are the history, as long
\* as the u32 that page and size are multiplied in holds the product: no record
\* is missed or shown twice at a page's edge.
THEOREM PagesAlwaysCover ==
    ASSUME PagesFit
    PROVE  Spec => []PagesCoverHistory
<1>1. ASSUME TypeOK, HistoryBounded
      PROVE  PagesCoverHistory
  <2> SUFFICES ASSUME NEW id \in CampaignId, NEW size \in 1 .. MaxDonations + 1
               PROVE  LET h == history[id]
                      IN  /\ \A page \in 0 .. Len(h) :
                                Len(PageOf(h, page, size)) <= size
                          /\ SumFunction([page \in 0 .. Len(h) |->
                                             Len(PageOf(h, page, size))])
                                = Len(h)
                          /\ \A i \in DOMAIN h :
                                LET page == PageOf(h, (i - 1) \div size, size)
                                    slot == ((i - 1) % size) + 1
                                IN  slot \in DOMAIN page /\ page[slot] = h[i]
    BY DEF PagesCoverHistory
  <2>1. history[id] \in Seq(DonationRecord) /\ Len(history[id]) <= MaxDonations
    <3>1. /\ history[id] \in Seq(DonationRecord)
          /\ Len(history[id]) <= totalDonations /\ totalDonations <= MaxDonations
          /\ totalDonations \in Nat /\ MaxDonations \in Nat
      BY <1>1, ConstantFacts DEF TypeOK, HistoryBounded
    <3>2. Len(history[id]) \in Nat
      BY <3>1, LenProperties
    <3> QED BY <3>1, <3>2
  <2> QED BY <2>1, HistoryPaged
<1> QED BY <1>1, PlatformTypes, HistoryBoundedAlways, PTL

=============================================================================
