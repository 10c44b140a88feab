--------------------------- MODULE CampaignProofs ---------------------------
(***************************************************************************)
(* Theorems about the campaign contract, for every set of accounts, tokens,*)
(* arguments and every width of the integers.                              *)
(***************************************************************************)
EXTENDS Campaign, SumFacts, SequenceTheorems

-----------------------------------------------------------------------------
(***************************************************************************)
(* Data: integers, sequences, asset lists.                                 *)
(***************************************************************************)

LEMMA ConstantTypes ==
    /\ MaxI128 \in Nat /\ MaxU64 \in Nat /\ REFUND_WINDOW \in Nat
    /\ MAX_MILESTONES \in Nat
    /\ MaxRaised \in Nat /\ MaxDeposited \in Nat /\ MaxTime \in Nat
    /\ MaxRaised <= MaxI128 /\ MaxTime <= MaxU64
    /\ None \notin CampaignData /\ None \notin DonorRecord
    /\ None \notin Token /\ Native \notin Token
    /\ IsFiniteSet(Address) /\ IsFiniteSet(Token)
BY NamesAssumption, BoundsAssumption

LEMMA ArgumentTypes ==
    /\ \A assets \in AssetLists : assets \in Seq(StellarAsset)
    /\ \A plan \in MilestonePlans : plan \in Seq(MilestoneData)
    /\ \A x \in GoalAmounts \cup MinDonations \cup DonationAmounts : x \in Int
    /\ \A x \in EndTimes \cup DepositAmounts : x \in Nat
BY ArgumentsAssumption

LEMMA IntegerHelpers ==
    ASSUME NEW n \in Int
    PROVE  /\ WrapI128(n) \in Int
           /\ WrapI128(n) <= MaxI128
           /\ AtLeastZero(n) \in Nat
           /\ Saturate(n) \in Int
           /\ WrapU64(n) \in Nat
<1>1. MaxI128 \in Nat /\ MaxU64 \in Nat
  BY ConstantTypes
<1>2. ASSUME NEW m \in Int, NEW u \in Nat, u > 0
      PROVE  m % u \in 0 .. u - 1
  BY <1>2
<1>3. U128 \in Nat /\ U128 > 0 /\ MaxU64 + 1 \in Nat /\ MaxU64 + 1 > 0
  BY <1>1 DEF U128
<1>4. (n + MaxI128 + 1) % U128 \in 0 .. U128 - 1
  BY <1>1, <1>2, <1>3
<1>5. n % (MaxU64 + 1) \in Nat
  BY <1>1, <1>2, <1>3
<1> QED BY <1>1, <1>4, <1>5 DEF WrapI128, AtLeastZero, Saturate, WrapU64, U128

\* A function on 1..n with values in S is a sequence over S.
LEMMA SequenceOf ==
    ASSUME NEW S, NEW n \in Nat, NEW f \in [1 .. n -> S]
    PROVE  f \in Seq(S)
BY SeqDef

\* A mapped sequence keeps its domain.
LEMMA MappedSequence ==
    ASSUME NEW S, NEW T, NEW s \in Seq(S), NEW m,
           DOMAIN m = DOMAIN s, m = [i \in DOMAIN s |-> m[i]],
           \A i \in DOMAIN s : m[i] \in T
    PROVE  m \in Seq(T)
<1>1. Len(s) \in Nat /\ DOMAIN s = 1 .. Len(s)
  BY LenProperties
<1>2. m \in [1 .. Len(s) -> T]
  BY <1>1
<1> QED BY <1>1, <1>2, SequenceOf

\* A set of naturals that is not empty has a least member.
LEMMA LeastNatural ==
    ASSUME NEW S, S \subseteq Nat, S # {}
    PROVE  \E k \in S : \A j \in S : k <= j
<1> DEFINE Less == OpToRel(<, Nat)
<1>1. IsWellFoundedOn(Less, Nat)
  BY NatLessThanWellFounded
<1>2. PICK k \in S : \A j \in S : ~(<<j, k>> \in Less)
  <2> HIDE DEF Less
  <2> QED BY <1>1, WFMin
<1>3. \A j \in S : ~(j < k)
  BY <1>2 DEF OpToRel
<1> QED BY <1>3

\* The asset selector names a token of the accepted list, or nothing.
LEMMA TokenForType ==
    ASSUME NEW asset \in AssetInfo, NEW assets \in Seq(StellarAsset)
    PROVE  /\ TokenFor(asset, assets) \in Token \cup {None}
           /\ TokenFor(asset, assets) # None =>
                 \E k \in DOMAIN assets :
                     assets[k].issuer = TokenFor(asset, assets)
<1>1. DOMAIN assets \subseteq Nat
      /\ \A k \in DOMAIN assets : assets[k].issuer \in Token \cup {None}
  <2>1. DOMAIN assets = 1 .. Len(assets) /\ Len(assets) \in Nat
    BY LenProperties
  <2>2. \A k \in DOMAIN assets : assets[k] \in StellarAsset
    BY <2>1, ElementOfSeq
  <2> QED BY <2>1, <2>2 DEF StellarAsset
<1>2. CASE asset = Native
  <2> DEFINE xlm == {k \in DOMAIN assets : assets[k].asset_code = "XLM"}
             first == CHOOSE k \in xlm : \A j \in xlm : k <= j
  <2>1. CASE xlm = {}
    BY <1>2, <2>1 DEF TokenFor
  <2>2. CASE xlm # {}
    <3>1. \E k \in xlm : \A j \in xlm : k <= j
      BY <1>1, <2>2, LeastNatural
    <3>2. first \in xlm
      <4> HIDE DEF xlm
      <4> QED BY <3>1
    <3>3. TokenFor(asset, assets) = assets[first].issuer
      BY <1>2, <2>2 DEF TokenFor
    <3>4. first \in DOMAIN assets
      BY <3>2
    <3> HIDE DEF first
    <3> QED BY <1>1, <3>3, <3>4
  <2> QED BY <2>1, <2>2
<1>3. CASE asset # Native
  <2>1. asset \in Token
    BY <1>3 DEF AssetInfo
  <2> QED BY <1>3, <2>1 DEF TokenFor
<1> QED BY <1>2, <1>3

\* The product of two naturals is a natural, and dividing keeps it one.
LEMMA NaturalProduct ==
    ASSUME NEW m \in Nat, NEW n \in Nat
    PROVE  m * n \in Nat
OBVIOUS

LEMMA NaturalQuotient ==
    ASSUME NEW m \in Nat, NEW n \in Nat, n > 0
    PROVE  m \div n \in Nat
OBVIOUS

LEMMA ComputeAssetReleaseType ==
    ASSUME NEW raised \in Int, NEW release \in Int, NEW total \in Nat
    PROVE  ComputeAssetRelease(raised, release, total) \in Nat
<1>1. CASE total = 0 \/ raised <= 0 \/ release <= 0 \/ ~InI128(raised * release)
  BY <1>1 DEF ComputeAssetRelease
<1>2. CASE total # 0 /\ ~(raised <= 0) /\ ~(release <= 0)
  <2>1. raised * release \in Nat /\ total > 0
    BY <1>2, NaturalProduct
  <2>2. (raised * release) \div total \in Nat
    BY <2>1, NaturalQuotient
  <2> QED BY <2>2 DEF ComputeAssetRelease
<1> QED BY <1>1, <1>2

LEMMA ProportionalAmountType ==
    ASSUME NEW raised \in Int, NEW release \in Int, NEW total \in Nat,
           raised = 0 \/ total > 0
    PROVE  ProportionalAmount(raised, release, total) \in Nat
<1>1. CASE raised = 0
  BY <1>1 DEF ProportionalAmount
<1>2. CASE raised # 0
  <2>1. MaxI128 \in Nat /\ U128 \in Nat /\ U128 > 0
    BY ConstantTypes DEF U128
  <2>2. (raised * release) % U128 \in Nat
    BY <2>1
  <2>3. ((raised * release) % U128) \div total \in Nat
    BY <1>2, <2>2, NaturalQuotient
  <2>4. AtLeastZero(WrapI128(((raised * release) % U128) \div total)) \in Nat
    BY <2>3, IntegerHelpers
  <2> QED BY <1>2, <2>4 DEF ProportionalAmount
<1> QED BY <1>1, <1>2

-----------------------------------------------------------------------------
(***************************************************************************)
(* The release loop of release_milestone_multi_asset.                      *)
(***************************************************************************)
IsPass(release, pass) ==
    pass = [k \in 0 .. Len(campaign.accepted_assets) |->
               IF k = 0
               THEN [raised |-> assetRaised, held |-> balance, paid |-> 0]
               ELSE PayListing(pass[k - 1],
                               campaign.accepted_assets[k].issuer, release)]

LoopPass(release) == CHOOSE pass : IsPass(release, pass)

PassUpTo(release, n, pass) ==
    pass = [k \in 0 .. n |->
               IF k = 0
               THEN [raised |-> assetRaised, held |-> balance, paid |-> 0]
               ELSE PayListing(pass[k - 1],
                               campaign.accepted_assets[k].issuer, release)]

LEMMA LoopIsPass ==
    ASSUME NEW release
    PROVE  ReleaseLoop(release)
              = LoopPass(release)[Len(campaign.accepted_assets)]
BY DEF ReleaseLoop, LoopPass, IsPass

LEMMA PassExists ==
    ASSUME NEW release, Len(campaign.accepted_assets) \in Nat
    PROVE  IsPass(release, LoopPass(release))
<1> DEFINE Q == {n \in Nat : \E p : PassUpTo(release, n, p)}
           start == [raised |-> assetRaised, held |-> balance, paid |-> 0]
           visit(acc, k) ==
               PayListing(acc, campaign.accepted_assets[k].issuer, release)
<1>1. 0 \in Q
  <2>1. PassUpTo(release, 0, [k \in 0 .. 0 |-> start])
    BY DEF PassUpTo
  <2> QED BY <2>1
<1>2. ASSUME NEW n \in Nat, n \in Q
      PROVE  n + 1 \in Q
  <2>1. PICK p : PassUpTo(release, n, p)
    BY <1>2
  <2> DEFINE q == [k \in 0 .. n + 1 |->
                      IF k = n + 1 THEN visit(p[n], n + 1) ELSE p[k]]
             r == [k \in 0 .. n + 1 |->
                      IF k = 0 THEN start ELSE visit(q[k - 1], k)]
             p0 == [k \in 0 .. n |->
                      IF k = 0 THEN start ELSE visit(p[k - 1], k)]
  <2>2. p = p0
    BY <2>1 DEF PassUpTo
  <2>3. \A k \in 0 .. n : p[k] = IF k = 0 THEN start ELSE visit(p[k - 1], k)
    <3> HIDE DEF start, visit
    <3> SUFFICES ASSUME NEW k \in 0 .. n
                 PROVE  p[k] = IF k = 0 THEN start ELSE visit(p[k - 1], k)
      OBVIOUS
    <3>1. p0[k] = IF k = 0 THEN start ELSE visit(p[k - 1], k)
      OBVIOUS
    <3> HIDE DEF p0
    <3> QED BY <2>2, <3>1
  <2>4. ASSUME NEW k \in 0 .. n + 1
        PROVE  q[k] = r[k]
    <3> HIDE DEF start, visit
    <3>1. CASE k = n + 1
      <4>1. q[n] = p[n] /\ k - 1 = n /\ k # 0
        BY <3>1
      <4> QED BY <3>1, <4>1
    <3>2. CASE k # n + 1
      <4>1. k \in 0 .. n
        BY <3>2
      <4>2. q[k] = p[k] /\ (k # 0 => q[k - 1] = p[k - 1])
        BY <4>1
      <4> QED BY <4>1, <4>2, <2>3
    <3> QED BY <3>1, <3>2
  <2>5. q = r
    <3> HIDE DEF start, visit
    <3> QED BY <2>4
  <2>6. PassUpTo(release, n + 1, q)
    <3> HIDE DEF q
    <3> QED BY <2>5 DEF PassUpTo
  <2> HIDE DEF q
  <2> QED BY <2>6
<1>3. Len(campaign.accepted_assets) \in Q
  <2> HIDE DEF Q
  <2> QED BY <1>1, <1>2, SetInduction
<1>4. PICK p : PassUpTo(release, Len(campaign.accepted_assets), p)
  BY <1>3
<1>5. IsPass(release, p)
  BY <1>4 DEF PassUpTo, IsPass
<1> QED BY <1>5 DEF LoopPass

\* What holds before the loop, and is led by the k-th visit from what holds
\* after k - 1 visits to what holds after k, holds of the books the loop leaves:
\* G[k] is a set of such books.
LEMMA LoopStages ==
    ASSUME NEW release, NEW G,
           Len(campaign.accepted_assets) \in Nat,
           [raised |-> assetRaised, held |-> balance, paid |-> 0] \in G[0],
           \A k \in 1 .. Len(campaign.accepted_assets) : \A acc \in G[k - 1] :
              PayListing(acc, campaign.accepted_assets[k].issuer, release)
                 \in G[k]
    PROVE  ReleaseLoop(release) \in G[Len(campaign.accepted_assets)]
<1> DEFINE n == Len(campaign.accepted_assets)
           pass == LoopPass(release)
           start == [raised |-> assetRaised, held |-> balance, paid |-> 0]
           visit(acc, k) ==
               PayListing(acc, campaign.accepted_assets[k].issuer, release)
           table == [k \in 0 .. n |->
                        IF k = 0 THEN start ELSE visit(pass[k - 1], k)]
           Q == {k \in Nat : k \in 0 .. n => pass[k] \in G[k]}
<1>1. pass = table
  <2>1. IsPass(release, pass)
    BY PassExists
  <2> HIDE DEF pass
  <2> QED BY <2>1 DEF IsPass
<1>2. \A k \in 0 .. n : pass[k] = IF k = 0 THEN start ELSE visit(pass[k - 1], k)
  <2> HIDE DEF start, visit, pass, n
  <2> SUFFICES ASSUME NEW k \in 0 .. n
               PROVE  pass[k] = IF k = 0 THEN start ELSE visit(pass[k - 1], k)
    OBVIOUS
  <2>1. table[k] = IF k = 0 THEN start ELSE visit(pass[k - 1], k)
    OBVIOUS
  <2> HIDE DEF table
  <2> QED BY <1>1, <2>1
<1>a. /\ start \in G[0]
      /\ \A k \in 1 .. n : \A acc \in G[k - 1] : visit(acc, k) \in G[k]
  OBVIOUS
<1>b. n \in Nat
  OBVIOUS
<1>3. 0 \in Q
  <2> HIDE DEF start, visit, pass, n
  <2> QED BY <1>2, <1>a
<1>4. ASSUME NEW k \in Nat, k \in Q
      PROVE  k + 1 \in Q
  <2> HIDE DEF start, visit, pass, n
  <2>1. ASSUME k + 1 \in 0 .. n
        PROVE  pass[k + 1] \in G[k + 1]
    <3>1. k \in 0 .. n /\ k + 1 \in 1 .. n /\ (k + 1) - 1 = k /\ k + 1 # 0
      BY <1>b, <2>1
    <3>2. pass[k] \in G[k]
      BY <1>4, <3>1
    <3>3. pass[k + 1] = visit(pass[k], k + 1)
      BY <1>2, <2>1, <3>1
    <3> QED BY <1>a, <3>1, <3>2, <3>3
  <2> QED BY <2>1
<1>5. n \in Q
  <2> HIDE DEF Q, n
  <2> QED BY <1>b, <1>3, <1>4, SetInduction
<1>6. pass[n] \in G[n]
  BY <1>5
<1> QED BY <1>6, LoopIsPass

\* The same with one set of books for all visits.
LEMMA LoopInduction ==
    ASSUME NEW release, NEW G,
           Len(campaign.accepted_assets) \in Nat,
           [raised |-> assetRaised, held |-> balance, paid |-> 0] \in G,
           \A acc \in G : \A k \in 1 .. Len(campaign.accepted_assets) :
              PayListing(acc, campaign.accepted_assets[k].issuer, release) \in G
    PROVE  ReleaseLoop(release) \in G
<1> DEFINE n == Len(campaign.accepted_assets)
           start == [raised |-> assetRaised, held |-> balance, paid |-> 0]
           visit(acc, k) ==
               PayListing(acc, campaign.accepted_assets[k].issuer, release)
           stages == [k \in 0 .. n |-> G]
<1>1. n \in Nat /\ start \in G /\ \A acc \in G : \A k \in 1 .. n : visit(acc, k) \in G
  OBVIOUS
<1>2. /\ start \in stages[0] /\ stages[n] = G
      /\ \A k \in 1 .. n : \A acc \in stages[k - 1] : visit(acc, k) \in stages[k]
  <2> HIDE DEF start, visit, n
  <2>1. \A k \in 0 .. n : stages[k] = G
    OBVIOUS
  <2>2. \A k \in 1 .. n : k - 1 \in 0 .. n /\ k \in 0 .. n
    BY <1>1
  <2> QED BY <1>1, <2>1, <2>2
<1> HIDE DEF stages
<1> QED BY <1>1, <1>2, LoopStages

-----------------------------------------------------------------------------
(***************************************************************************)
(* Type correctness.  Refunds divide by the amount raised, so the types    *)
(* need it to be positive once there is a donor (DonorsGave).              *)
(***************************************************************************)
DonorsGave ==
    /\ campaign = None => \A d \in Address : donors[d] = None
    /\ campaign # None => campaign.raised_amount \in Nat
    /\ \A d \in Address : donors[d] # None => campaign.raised_amount > 0

TypeInv == TypeOK /\ DonorsGave

\* What the types say of the stored campaign and its milestones.
LEMMA StoredTypes ==
    ASSUME TypeOK
    PROVE  /\ campaign # None =>
                /\ campaign \in CampaignData
                /\ campaign.accepted_assets \in Seq(StellarAsset)
                /\ Len(campaign.accepted_assets) \in Nat
                /\ DOMAIN campaign.accepted_assets
                      = 1 .. Len(campaign.accepted_assets)
                /\ \A k \in DOMAIN campaign.accepted_assets :
                      campaign.accepted_assets[k].issuer \in Token \cup {None}
           /\ Len(milestones) \in Nat
           /\ DOMAIN milestones = 1 .. Len(milestones)
           /\ \A i \in DOMAIN milestones : milestones[i] \in MilestoneData
<1>1. ASSUME campaign # None
      PROVE  /\ campaign \in CampaignData
             /\ campaign.accepted_assets \in Seq(StellarAsset)
  BY <1>1 DEF TypeOK, CampaignData
<1>2. ASSUME NEW assets \in Seq(StellarAsset)
      PROVE  /\ Len(assets) \in Nat /\ DOMAIN assets = 1 .. Len(assets)
             /\ \A k \in DOMAIN assets : assets[k].issuer \in Token \cup {None}
  <2>1. Len(assets) \in Nat /\ DOMAIN assets = 1 .. Len(assets)
    BY LenProperties
  <2>2. \A k \in DOMAIN assets : assets[k] \in StellarAsset
    BY <2>1, ElementOfSeq
  <2> QED BY <2>1, <2>2 DEF StellarAsset
<1>3. milestones \in Seq(MilestoneData)
  BY DEF TypeOK
<1>4. /\ Len(milestones) \in Nat /\ DOMAIN milestones = 1 .. Len(milestones)
      /\ \A i \in DOMAIN milestones : milestones[i] \in MilestoneData
  BY <1>3, LenProperties, ElementOfSeq
<1> QED BY <1>1, <1>2, <1>4

\* The books of the release loop: counters in range, payouts natural.
LoopBooks ==
    [raised : [Token -> 0 .. MaxI128], held : [Token -> Int], paid : Nat]

LEMMA PayListingType ==
    ASSUME NEW acc \in LoopBooks, NEW t \in Token \cup {None},
           NEW release \in Int, totalRaised \in Nat
    PROVE  PayListing(acc, t, release) \in LoopBooks
<1> DEFINE amount == IF t = None THEN 0
                     ELSE ComputeAssetRelease(acc.raised[t], release, totalRaised)
<1>1. CASE amount = 0
  BY <1>1 DEF PayListing
<1>2. CASE amount # 0
  <2>1. t \in Token /\ acc.raised[t] \in 0 .. MaxI128
    BY <1>2 DEF LoopBooks
  <2>a. acc.raised[t] \in Int /\ t # None
    BY <2>1, ConstantTypes
  <2>b. ComputeAssetRelease(acc.raised[t], release, totalRaised) \in Nat
    BY <2>a, ComputeAssetReleaseType
  <2>2. amount \in Nat
    BY <2>a, <2>b
  <2>3. PayListing(acc, t, release)
          = [raised |-> [acc.raised EXCEPT ![t] = AtLeastZero(@ - amount)],
             held   |-> [acc.held EXCEPT ![t] = @ - amount],
             paid   |-> acc.paid + amount]
    BY <1>2 DEF PayListing
  <2> HIDE DEF amount
  <2>4. AtLeastZero(acc.raised[t] - amount) \in 0 .. MaxI128
    BY <2>1, <2>2, ConstantTypes DEF AtLeastZero
  <2>5. [acc.raised EXCEPT ![t] = AtLeastZero(@ - amount)]
          \in [Token -> 0 .. MaxI128]
    BY <2>4 DEF LoopBooks
  <2>6. [acc.held EXCEPT ![t] = @ - amount] \in [Token -> Int]
    <3>1. acc.held \in [Token -> Int] /\ acc.held[t] - amount \in Int
      BY <2>1, <2>2 DEF LoopBooks
    <3> QED BY <3>1
  <2>7. acc.paid + amount \in Nat
    BY <2>2 DEF LoopBooks
  <2> QED BY <2>3, <2>5, <2>6, <2>7 DEF LoopBooks
<1> QED BY <1>1, <1>2

LEMMA ReleaseLoopType ==
    ASSUME TypeOK, campaign # None, NEW release \in Int
    PROVE  ReleaseLoop(release) \in LoopBooks
<1>1. [raised |-> assetRaised, held |-> balance, paid |-> 0] \in LoopBooks
  BY DEF TypeOK, LoopBooks
<1>2. totalRaised \in Nat
  BY ConstantTypes DEF TypeOK
<1>3. \A acc \in LoopBooks : \A k \in 1 .. Len(campaign.accepted_assets) :
         PayListing(acc, campaign.accepted_assets[k].issuer, release)
            \in LoopBooks
  BY <1>2, StoredTypes, PayListingType
<1>4. Len(campaign.accepted_assets) \in Nat
  BY StoredTypes
<1> QED BY <1>1, <1>3, <1>4, LoopInduction

LEMMA AssetInfoFinite == IsFiniteSet(AssetInfo)
BY ConstantTypes, FS_Singleton, FS_Union DEF AssetInfo

LEMMA TotalReleasedType ==
    ASSUME TypeOK
    PROVE  TotalReleased \in Int
<1> DEFINE amounts == [i \in DOMAIN milestones |-> milestones[i].released_amount]
<1>1. IsFiniteSet(DOMAIN milestones)
  BY StoredTypes, FS_Interval
<1>2. \A i \in DOMAIN milestones : amounts[i] \in Int
  BY StoredTypes DEF MilestoneData
<1>3. SumFunctionOnSet(amounts, DOMAIN milestones) \in Int
  <2> HIDE DEF amounts
  <2> QED BY <1>1, <1>2, SumInt
<1> QED BY <1>3 DEF TotalReleased, SumFunction

LEMMA RefundShareType ==
    ASSUME TypeOK, campaign # None, campaign.raised_amount > 0,
           NEW amount \in Int
    PROVE  RefundShare(amount) \in Nat
<1> DEFINE product == WrapI128(amount
                        * WrapI128(campaign.raised_amount - TotalReleased))
<1>1. campaign.raised_amount \in Int
  BY StoredTypes DEF CampaignData
<1>2. WrapI128(campaign.raised_amount - TotalReleased) \in Int
  BY <1>1, TotalReleasedType, IntegerHelpers
<1>3. product \in Int
  BY <1>2, IntegerHelpers
<1>4. RefundShare(amount) = IF amount > 0 /\ product > 0
                            THEN product \div campaign.raised_amount ELSE 0
  BY DEF RefundShare
<1> HIDE DEF product
<1>5. product > 0 => product \div campaign.raised_amount \in Nat
  BY <1>1, <1>3, NaturalQuotient
<1> QED BY <1>4, <1>5

LEMMA RefundInType ==
    ASSUME TypeInv, NEW d \in Address, donors[d] # None, NEW t \in Token
    PROVE  RefundIn(d, t) \in Nat
<1> DEFINE shares == [a \in AssetInfo |-> RefundShare(donors[d].contributions[a])]
           A == {a \in AssetInfo : TokenFor(a, campaign.accepted_assets) = t}
<1>1. campaign # None /\ campaign.raised_amount > 0
  BY DEF TypeInv, DonorsGave
<1>2. \A a \in AssetInfo : donors[d].contributions[a] \in Int
  BY DEF TypeInv, TypeOK, DonorRecord
<1>3. \A a \in AssetInfo : RefundShare(donors[d].contributions[a]) \in Nat
  BY <1>1, <1>2, RefundShareType DEF TypeInv
<1>4. \A a \in A : shares[a] \in Nat
  BY <1>3
<1>5. IsFiniteSet(A)
  BY AssetInfoFinite, FS_Subset
<1>6. SumFunctionOnSet(shares, A) \in Nat
  <2> HIDE DEF shares, A
  <2> QED BY <1>4, <1>5, SumNat
<1> QED BY <1>6 DEF RefundIn

LEMMA TypeInvInit == Init => TypeInv
<1> SUFFICES ASSUME Init PROVE TypeInv
  OBVIOUS
<1>1. << >> \in Seq(MilestoneData)
  BY EmptySeq
<1>2. TypeOK
  <2>1. /\ 0 \in 0 .. MaxI128 /\ 0 \in 0 .. MaxTime
    BY ConstantTypes
  <2> QED BY <1>1, <2>1 DEF Init, TypeOK
<1>3. DonorsGave
  BY DEF Init, DonorsGave
<1> QED BY <1>2, <1>3 DEF TypeInv

LEMMA TypeInvInitialize ==
    ASSUME TypeInv,
           NEW creator \in Address, NEW goal \in GoalAmounts,
           NEW end \in EndTimes, NEW assets \in AssetLists,
           NEW plan \in MilestonePlans, NEW minimum \in MinDonations,
           Initialize(creator, goal, end, assets, plan, minimum)
    PROVE  TypeInv'
<1>1. /\ goal \in Int /\ end \in Nat /\ minimum \in Int
      /\ assets \in Seq(StellarAsset) /\ plan \in Seq(MilestoneData)
  BY ArgumentTypes
<1>2. campaign' \in CampaignData /\ campaign'.raised_amount = 0
  BY <1>1 DEF Initialize, CampaignData, CampaignStatus
<1>3. \A d \in Address : donors[d] = None
  BY DEF TypeInv, DonorsGave, Initialize
<1>4. TypeOK'
  BY <1>1, <1>2 DEF TypeInv, TypeOK, Initialize
<1>5. DonorsGave'
  BY <1>2, <1>3, ConstantTypes DEF DonorsGave, Initialize
<1> QED BY <1>4, <1>5 DEF TypeInv

\* A donation is positive, and goes to a token of the accepted list.
LEMMA DonateFacts ==
    ASSUME TypeInv,
           NEW d \in Address, NEW amount \in DonationAmounts,
           NEW asset \in AssetInfo, Donate(d, amount, asset)
    PROVE  /\ amount \in Nat \ {0}
           /\ campaign \in CampaignData /\ campaign.raised_amount \in Nat
           /\ TokenFor(asset, campaign.accepted_assets) \in Token
           /\ \E k \in DOMAIN campaign.accepted_assets :
                 campaign.accepted_assets[k].issuer
                    = TokenFor(asset, campaign.accepted_assets)
<1>1. amount \in Int /\ amount > 0 /\ campaign # None
  BY ArgumentTypes DEF Donate
<1>2. /\ campaign \in CampaignData
      /\ campaign.accepted_assets \in Seq(StellarAsset)
  BY <1>1, StoredTypes DEF TypeInv
<1>3. TokenFor(asset, campaign.accepted_assets) # None
  BY DEF Donate
<1>4. campaign.raised_amount \in Nat
  BY <1>1 DEF TypeInv, DonorsGave
<1> QED BY <1>1, <1>2, <1>3, <1>4, TokenForType

LEMMA UnlockType ==
    ASSUME NEW plan \in Seq(MilestoneData), NEW raised
    PROVE  Unlock(plan, raised) \in Seq(MilestoneData)
<1> DEFINE m == Unlock(plan, raised)
<1>1. DOMAIN m = DOMAIN plan /\ m = [i \in DOMAIN plan |-> m[i]]
  BY DEF Unlock
<1>2. ASSUME NEW i \in DOMAIN plan
      PROVE  m[i] \in MilestoneData
  <2>1. plan[i] \in MilestoneData
    BY LenProperties, ElementOfSeq
  <2>2. [plan[i] EXCEPT !.status = "Unlocked"] \in MilestoneData
    BY <2>1 DEF MilestoneData, MilestoneStatus
  <2> QED BY <2>1, <2>2 DEF Unlock
<1> HIDE DEF m
<1>3. m \in Seq(MilestoneData)
  BY <1>1, <1>2, MappedSequence
<1> QED BY <1>3 DEF m

LEMMA TypeInvDonate ==
    ASSUME TypeInv,
           NEW d \in Address, NEW amount \in DonationAmounts,
           NEW asset \in AssetInfo, Donate(d, amount, asset)
    PROVE  TypeInv'
<1> DEFINE token  == TokenFor(asset, campaign.accepted_assets)
           raised == campaign.raised_amount + amount
           record == IF donors[d] = None THEN NewDonor ELSE donors[d]
<1>1. /\ amount \in Nat \ {0} /\ token \in Token
      /\ campaign \in CampaignData /\ raised \in Nat /\ raised > 0
      /\ campaign # None /\ campaign.raised_amount \in Nat
  <2>1. /\ amount \in Nat \ {0} /\ token \in Token
        /\ campaign \in CampaignData /\ campaign.raised_amount \in Nat
    BY DonateFacts
  <2>2. campaign # None
    BY DEF Donate
  <2> QED BY <2>1, <2>2
<1>a. /\ amount \in Nat /\ totalRaised \in Nat
      /\ donorAsset[d][token] \in Nat /\ assetRaised[token] \in Nat
  BY <1>1, ConstantTypes DEF TypeInv, TypeOK
<1>b. /\ InI128(totalRaised + amount)
      /\ InI128(donorAsset[d][token] + amount)
      /\ InI128(assetRaised[token] + amount)
      /\ totalRaised' = totalRaised + amount
  BY DEF Donate
<1>c. ASSUME NEW x \in Nat, InI128(x + amount)
      PROVE  x + amount \in 0 .. MaxI128
  BY <1>a, <1>c, ConstantTypes DEF InI128
<1>2. campaign' = [campaign EXCEPT
                     !.raised_amount = raised,
                     !.status = IF raised >= campaign.goal_amount
                                THEN "GoalReached" ELSE @]
  BY DEF Donate
<1>3. campaign' \in CampaignData /\ campaign'.raised_amount = raised
  <2> HIDE DEF raised, token, record
  <2>1. raised \in Int /\ campaign \in CampaignData
    BY <1>1
  <2> QED BY <1>2, <2>1 DEF CampaignData, CampaignStatus
<1>4. totalRaised' \in 0 .. MaxI128
  BY <1>a, <1>b, <1>c
<1>5. donorAsset' \in [Address -> [Token -> 0 .. MaxI128]]
  <2>1. donorAsset[d][token] + amount \in 0 .. MaxI128
    BY <1>a, <1>b, <1>c
  <2>2. donorAsset' = [donorAsset EXCEPT ![d][token] = @ + amount]
    BY DEF Donate
  <2> HIDE DEF token
  <2> QED BY <1>1, <2>1, <2>2 DEF TypeInv, TypeOK
<1>6. assetRaised' \in [Token -> 0 .. MaxI128]
  <2>1. assetRaised[token] + amount \in 0 .. MaxI128
    BY <1>a, <1>b, <1>c
  <2>2. assetRaised' = [assetRaised EXCEPT ![token] = @ + amount]
    BY DEF Donate
  <2> HIDE DEF token
  <2> QED BY <1>1, <2>1, <2>2 DEF TypeInv, TypeOK
<1>7. donors' \in [Address -> DonorRecord \cup {None}] /\ donors'[d] # None
  <2>1. record \in DonorRecord
    BY DEF TypeInv, TypeOK, NewDonor, DonorRecord
  <2>2. /\ record.total_donated + amount \in Int
        /\ record.contributions[asset] + amount \in Int
    BY <1>1, <2>1 DEF DonorRecord
  <2>3. ApplyDonation(record, amount, asset) \in DonorRecord
    <3> HIDE DEF record
    <3>1. /\ Saturate(record.total_donated + amount) \in Int
          /\ Saturate(record.contributions[asset] + amount) \in Int
      BY <2>2, IntegerHelpers
    <3> QED BY <2>1, <3>1 DEF ApplyDonation, DonorRecord
  <2>4. donors' = [donors EXCEPT ![d] = ApplyDonation(record, amount, asset)]
    BY DEF Donate
  <2> HIDE DEF record
  <2> QED BY <2>3, <2>4, ConstantTypes DEF TypeInv, TypeOK
<1>8. milestones' \in Seq(MilestoneData)
  BY UnlockType DEF Donate, TypeInv, TypeOK
<1>9. TypeOK'
  <2> HIDE DEF token, raised, record
  <2> QED BY <1>3, <1>4, <1>5, <1>6, <1>7, <1>8 DEF TypeOK, Donate, TypeInv
<1>10. DonorsGave'
  <2> HIDE DEF token, raised, record
  <2> QED BY <1>1, <1>3, ConstantTypes DEF DonorsGave
<1> QED BY <1>9, <1>10 DEF TypeInv

LEMMA TypeInvClaimRefund ==
    ASSUME TypeInv, NEW d \in Address, ClaimRefund(d)
    PROVE  TypeInv'
<1>1. donors[d] \in DonorRecord
  BY DEF ClaimRefund, TypeInv, TypeOK
<1>2. donors' \in [Address -> DonorRecord \cup {None}]
  BY <1>1 DEF ClaimRefund, TypeInv, TypeOK, DonorRecord
<1>3. \A e \in Address : donors'[e] # None => donors[e] # None
  BY DEF ClaimRefund, TypeInv, TypeOK
<1>4. balance' \in [Token -> Nat]
  <2>1. \A t \in Token : RefundIn(d, t) \in Nat
    BY RefundInType DEF ClaimRefund
  <2>2. \A t \in Token : balance[t] - RefundIn(d, t) \in Nat
    BY <2>1 DEF ClaimRefund, TypeInv, TypeOK
  <2>3. balance' = [t \in Token |-> balance[t] - RefundIn(d, t)]
    BY DEF ClaimRefund
  <2> QED BY <2>2, <2>3
<1>5. TypeOK'
  BY <1>2, <1>4 DEF TypeOK, TypeInv, ClaimRefund
<1>6. DonorsGave'
  BY <1>3 DEF DonorsGave, TypeInv, ClaimRefund
<1> QED BY <1>5, <1>6 DEF TypeInv

\* Both releases rewrite one milestone with values of the right type.
LEMMA MilestoneUpdateType ==
    ASSUME TypeOK, NEW i \in DOMAIN milestones, NEW m \in MilestoneData
    PROVE  [milestones EXCEPT ![i] = m] \in Seq(MilestoneData)
BY StoredTypes, ExceptSeq DEF TypeOK

LEMMA ListingsType ==
    ASSUME TypeOK, campaign # None, NEW t
    PROVE  Listings(t) \in Nat
<1>1. IsFiniteSet(DOMAIN campaign.accepted_assets)
  <2>1. /\ Len(campaign.accepted_assets) \in Int
        /\ DOMAIN campaign.accepted_assets = 1 .. Len(campaign.accepted_assets)
    BY StoredTypes
  <2>2. \A n \in Int : IsFiniteSet(1 .. n)
    BY FS_Interval, 1 \in Int
  <2>3. IsFiniteSet(1 .. Len(campaign.accepted_assets))
    BY <2>1, <2>2
  <2> QED BY <2>1, <2>3, Zenon
<1> QED BY <1>1, FS_Subset, FS_CardinalityType DEF Listings

LEMMA TypeInvReleaseMilestone ==
    ASSUME TypeInv, NEW caller \in Address, NEW i \in 1 .. MAX_MILESTONES,
           NEW recipient \in Recipients, ReleaseMilestone(caller, i, recipient)
    PROVE  TypeInv'
<1> DEFINE release   == milestones[i].target_amount
                          - milestones[i].released_amount
           amount(t) == ProportionalAmount(assetRaised[t], release, totalRaised)
           m == [milestones[i] EXCEPT
                   !.released_amount = milestones[i].target_amount,
                   !.status = "Released", !.released_to = recipient]
<1>1. i \in DOMAIN milestones /\ milestones[i] \in MilestoneData
  BY StoredTypes DEF ReleaseMilestone, TypeInv
<1>2. milestones' \in Seq(MilestoneData)
  <2>1. m \in MilestoneData
    BY <1>1 DEF MilestoneData, MilestoneStatus
  <2>2. milestones' = [milestones EXCEPT ![i] = m]
    BY <1>1 DEF ReleaseMilestone
  <2> QED BY <1>1, <2>1, <2>2, MilestoneUpdateType DEF TypeInv
<1>3. balance' \in [Token -> Nat]
  <2>1. CASE recipient = Contract
    BY <2>1 DEF ReleaseMilestone, TypeInv, TypeOK
  <2>2. CASE recipient # Contract
    <3>1. ASSUME NEW t \in Token, Listings(t) # 0
          PROVE  balance[t] - Listings(t) * amount(t) \in Nat
      <4>1. Listings(t) \in Nat /\ Listings(t) > 0
        BY <3>1, ListingsType DEF ReleaseMilestone, TypeInv
      <4>2. assetRaised[t] # 0 => totalRaised > 0
        BY <4>1, ConstantTypes DEF ReleaseMilestone, TypeInv, TypeOK
      <4>3. release \in Int
        BY <1>1 DEF MilestoneData
      <4>4. /\ assetRaised[t] \in Int /\ totalRaised \in Nat
            /\ assetRaised[t] = 0 \/ totalRaised > 0
        BY <4>2, ConstantTypes DEF TypeInv, TypeOK
      <4>5. amount(t) \in Nat
        BY <4>3, <4>4, ProportionalAmountType
      <4>6. Listings(t) * amount(t) <= balance[t]
        BY <2>2, <4>1 DEF ReleaseMilestone
      <4>7. Listings(t) * amount(t) \in Nat
        BY <4>1, <4>5, NaturalProduct
      <4>8. balance[t] \in Nat
        BY DEF TypeInv, TypeOK
      <4> QED BY <4>6, <4>7, <4>8
    <3>2. balance' = [t \in Token |-> IF Listings(t) = 0 THEN balance[t]
                                  ELSE balance[t] - Listings(t) * amount(t)]
      BY <2>2 DEF ReleaseMilestone
    <3>3. \A t \in Token : balance[t] \in Nat
      BY DEF TypeInv, TypeOK
    <3> HIDE DEF amount
    <3> QED BY <3>1, <3>2, <3>3
  <2> QED BY <2>1, <2>2
<1>4. TypeOK'
  BY <1>2, <1>3 DEF TypeOK, TypeInv, ReleaseMilestone
<1>5. DonorsGave'
  BY DEF DonorsGave, TypeInv, ReleaseMilestone
<1> QED BY <1>4, <1>5 DEF TypeInv

LEMMA TypeInvReleaseMultiAsset ==
    ASSUME TypeInv, NEW caller \in Address, NEW i \in 1 .. MAX_MILESTONES,
           NEW recipient \in Recipients,
           ReleaseMilestoneMultiAsset(caller, i, recipient)
    PROVE  TypeInv'
<1> DEFINE release == milestones[i].target_amount
                        - milestones[i].released_amount
           end == ReleaseLoop(release)
           m == [milestones[i] EXCEPT !.released_amount = @ + release,
                                      !.status = "Released"]
<1>1. i \in DOMAIN milestones /\ milestones[i] \in MilestoneData
  BY StoredTypes DEF ReleaseMilestoneMultiAsset, TypeInv
<1>2. release \in Int
  BY <1>1 DEF MilestoneData
<1>3. milestones' \in Seq(MilestoneData)
  <2>0. milestones[i].released_amount + release \in Int
    BY <1>1, <1>2 DEF MilestoneData
  <2>1. m \in MilestoneData
    <3> HIDE DEF release
    <3> QED BY <1>1, <2>0 DEF MilestoneData, MilestoneStatus
  <2>2. milestones' = [milestones EXCEPT ![i] = m]
    BY <1>1 DEF ReleaseMilestoneMultiAsset
  <2> QED BY <1>1, <2>1, <2>2, MilestoneUpdateType DEF TypeInv
<1>4. end \in LoopBooks
  BY <1>2, ReleaseLoopType DEF ReleaseMilestoneMultiAsset, TypeInv
<1>5. /\ balance' = end.held /\ assetRaised' = end.raised
      /\ totalRaised' = AtLeastZero(totalRaised - end.paid)
      /\ \A t \in Token : end.held[t] >= 0
  BY DEF ReleaseMilestoneMultiAsset
<1> HIDE DEF end
<1>6. balance' \in [Token -> Nat]
  <2>1. end.held \in [Token -> Int]
    BY <1>4 DEF LoopBooks
  <2>2. \A t \in Token : end.held[t] \in Nat
    BY <1>5, <2>1
  <2> QED BY <1>5, <2>1, <2>2
<1>7. assetRaised' \in [Token -> 0 .. MaxI128]
  BY <1>4, <1>5 DEF LoopBooks
<1>8. totalRaised' \in 0 .. MaxI128
  BY <1>4, <1>5, ConstantTypes DEF LoopBooks, AtLeastZero, TypeInv, TypeOK
<1>9. TypeOK'
  BY <1>3, <1>6, <1>7, <1>8 DEF TypeOK, TypeInv, ReleaseMilestoneMultiAsset
<1>10. DonorsGave'
  BY DEF DonorsGave, TypeInv, ReleaseMilestoneMultiAsset
<1> QED BY <1>9, <1>10 DEF TypeInv

\* The creator's and the admin's calls, deposits and the passing of time.
LEMMA TypeInvOthers ==
    ASSUME TypeInv,
           \/ \E caller \in Address : EndCampaign(caller) \/ CancelCampaign(caller)
           \/ \E caller \in Address, end \in EndTimes : ExtendDeadline(caller, end)
           \/ \E caller \in Address : Freeze(caller) \/ Unfreeze(caller)
           \/ \E caller, successor \in Address : SetAdmin(caller, successor)
           \/ \E caller \in Address, hash \in WasmHash : Upgrade(caller, hash)
           \/ \E t \in Token, amount \in DepositAmounts : Deposit(t, amount)
           \/ CloseLedger
           \/ UNCHANGED vars
    PROVE  TypeInv'
<1>1. ASSUME NEW caller \in Address,
             EndCampaign(caller) \/ CancelCampaign(caller)
      PROVE  TypeInv'
  <2>1. campaign \in CampaignData
    BY <1>1, StoredTypes DEF TypeInv, EndCampaign, CancelCampaign
  <2>2. /\ campaign' \in CampaignData
        /\ campaign'.raised_amount = campaign.raised_amount
    BY <1>1, <2>1 DEF EndCampaign, CancelCampaign, CampaignData, CampaignStatus
  <2>3. campaign # None /\ campaign' # None
    BY <1>1, <2>2, ConstantTypes DEF EndCampaign, CancelCampaign
  <2>4. UNCHANGED <<milestones, donors, donorAsset, totalRaised, assetRaised,
                    frozen, admin, wasm, now, balance, deposited>>
    BY <1>1 DEF EndCampaign, CancelCampaign
  <2> QED BY <2>2, <2>3, <2>4 DEF TypeInv, TypeOK, DonorsGave
<1>2. ASSUME NEW caller \in Address, NEW end \in EndTimes,
             ExtendDeadline(caller, end)
      PROVE  TypeInv'
  <2>1. campaign \in CampaignData /\ end \in Nat
    BY <1>2, StoredTypes, ArgumentTypes DEF TypeInv, ExtendDeadline
  <2>2. /\ campaign' \in CampaignData
        /\ campaign'.raised_amount = campaign.raised_amount
    BY <1>2, <2>1 DEF ExtendDeadline, CampaignData
  <2>3. campaign # None /\ campaign' # None
    BY <1>2, <2>2, ConstantTypes DEF ExtendDeadline
  <2> QED BY <1>2, <2>2, <2>3 DEF TypeInv, TypeOK, DonorsGave, ExtendDeadline
<1>3. ASSUME NEW caller \in Address, Freeze(caller) \/ Unfreeze(caller)
      PROVE  TypeInv'
  BY <1>3 DEF TypeInv, TypeOK, DonorsGave, Freeze, Unfreeze, SetFrozen, books
<1>4. ASSUME NEW caller \in Address, NEW successor \in Address,
             SetAdmin(caller, successor)
      PROVE  TypeInv'
  BY <1>4 DEF TypeInv, TypeOK, DonorsGave, SetAdmin, books
<1>5. ASSUME NEW caller \in Address, NEW hash \in WasmHash, Upgrade(caller, hash)
      PROVE  TypeInv'
  BY <1>5 DEF TypeInv, TypeOK, DonorsGave, Upgrade, books
<1>6. ASSUME NEW t \in Token, NEW amount \in DepositAmounts, Deposit(t, amount)
      PROVE  TypeInv'
  <2>1. amount \in Nat /\ balance[t] \in Nat /\ deposited[t] \in Nat
    BY ArgumentTypes DEF TypeInv, TypeOK
  <2>2. balance' \in [Token -> Nat] /\ deposited' \in [Token -> Nat]
    <3>1. balance \in [Token -> Nat] /\ deposited \in [Token -> Nat]
      BY DEF TypeInv, TypeOK
    <3>2. /\ balance' = [balance EXCEPT ![t] = @ + amount]
          /\ deposited' = [deposited EXCEPT ![t] = @ + amount]
      BY <1>6 DEF Deposit
    <3> QED BY <2>1, <3>1, <3>2
  <2> QED BY <1>6, <2>2 DEF TypeInv, TypeOK, DonorsGave, Deposit, books
<1>7. ASSUME CloseLedger
      PROVE  TypeInv'
  <2>1. now' \in 0 .. MaxTime
    BY <1>7, ConstantTypes DEF CloseLedger, TypeInv, TypeOK
  <2> QED BY <1>7, <2>1 DEF TypeInv, TypeOK, DonorsGave, CloseLedger, books
<1>8. ASSUME UNCHANGED vars
      PROVE  TypeInv'
  BY <1>8 DEF TypeInv, TypeOK, DonorsGave, vars, books
<1> QED BY <1>1, <1>2, <1>3, <1>4, <1>5, <1>6, <1>7, <1>8

LEMMA TypeInvNext == TypeInv /\ [Next]_vars => TypeInv'
<1> SUFFICES ASSUME TypeInv, [Next]_vars
             PROVE  TypeInv'
  OBVIOUS
<1>1. ASSUME NEW creator \in Address, NEW goal \in GoalAmounts,
             NEW end \in EndTimes, NEW assets \in AssetLists,
             NEW plan \in MilestonePlans, NEW minimum \in MinDonations,
             Initialize(creator, goal, end, assets, plan, minimum)
      PROVE  TypeInv'
  BY <1>1, TypeInvInitialize
<1>2. ASSUME NEW d \in Address, NEW amount \in DonationAmounts,
             NEW asset \in AssetInfo, Donate(d, amount, asset)
      PROVE  TypeInv'
  BY <1>2, TypeInvDonate
<1>3. ASSUME NEW d \in Address, ClaimRefund(d)
      PROVE  TypeInv'
  BY <1>3, TypeInvClaimRefund
<1>4. ASSUME NEW caller \in Address, NEW i \in 1 .. MAX_MILESTONES,
             NEW recipient \in Recipients,
             ReleaseMilestone(caller, i, recipient)
      PROVE  TypeInv'
  BY <1>4, TypeInvReleaseMilestone
<1>5. ASSUME NEW caller \in Address, NEW i \in 1 .. MAX_MILESTONES,
             NEW recipient \in Recipients,
             ReleaseMilestoneMultiAsset(caller, i, recipient)
      PROVE  TypeInv'
  BY <1>5, TypeInvReleaseMultiAsset
<1>6. CASE \/ \E caller \in Address : EndCampaign(caller) \/ CancelCampaign(caller)
           \/ \E caller \in Address, end \in EndTimes : ExtendDeadline(caller, end)
           \/ \E caller \in Address : Freeze(caller) \/ Unfreeze(caller)
           \/ \E caller, successor \in Address : SetAdmin(caller, successor)
           \/ \E caller \in Address, hash \in WasmHash : Upgrade(caller, hash)
           \/ \E t \in Token, amount \in DepositAmounts : Deposit(t, amount)
           \/ CloseLedger
           \/ UNCHANGED vars
  BY <1>6, TypeInvOthers
<1> QED BY <1>1, <1>2, <1>3, <1>4, <1>5, <1>6 DEF Next

\* Every stored value keeps its type and every counter stays in 0..i128::MAX,
\* through donate, the two releases and refunds, for every contract instance.
THEOREM TypeCorrect == Spec => []TypeOK
<1>1. Init => TypeInv
  BY TypeInvInit
<1>2. TypeInv /\ [Next]_vars => TypeInv'
  BY TypeInvNext
<1>3. TypeInv => TypeOK
  BY DEF TypeInv
<1> QED BY <1>1, <1>2, <1>3, PTL DEF Spec

THEOREM TypeInvAlways == Spec => []TypeInv
BY TypeInvInit, TypeInvNext, PTL DEF Spec

-----------------------------------------------------------------------------
(***************************************************************************)
(* What one step does to a campaign that exists: MilestoneStep and         *)
(* CampaignStep are all the ways its milestones and its record change.     *)
(***************************************************************************)
ReleasedRecord(m, r) ==
    [m EXCEPT !.released_amount = m.target_amount, !.status = "Released",
              !.released_to = r]

MilestoneStep ==
    \/ milestones' = milestones
    \/ /\ AcceptsDonations(campaign.status)
       /\ milestones' = Unlock(milestones, campaign'.raised_amount)
    \/ \E i \in DOMAIN milestones, r \in Recipients \cup {None} :
          /\ milestones[i].status = "Unlocked"
          /\ milestones' = [milestones EXCEPT
                               ![i] = ReleasedRecord(milestones[i], r)]

CampaignStep ==
    \/ /\ campaign' = campaign
       /\ donorAsset' = donorAsset
    \/ /\ AcceptsDonations(campaign.status)
       /\ campaign'.raised_amount \in Nat
       /\ campaign'.raised_amount > campaign.raised_amount
       /\ campaign' = [campaign EXCEPT
             !.raised_amount = campaign'.raised_amount,
             !.status = IF campaign'.raised_amount >= campaign.goal_amount
                        THEN "GoalReached" ELSE @]
       /\ milestones' = Unlock(milestones, campaign'.raised_amount)
    \/ /\ campaign' = [campaign EXCEPT !.status = campaign'.status]
       /\ campaign'.status \in {"Ended", "Cancelled"}
       /\ IsTerminal(campaign.status) => campaign'.status = "Cancelled"
       /\ donorAsset' = donorAsset
       /\ milestones' = milestones
    \/ /\ AcceptsDonations(campaign.status)
       /\ campaign'.end_time \in Nat
       /\ campaign' = [campaign EXCEPT !.end_time = campaign'.end_time]
       /\ donorAsset' = donorAsset
       /\ milestones' = milestones

\* A step either leaves the campaign record to one of these, or is a release,
\* which leaves the record alone.
LEMMA StepsDonate ==
    ASSUME TypeInv,
           NEW d \in Address, NEW amount \in DonationAmounts,
           NEW asset \in AssetInfo, Donate(d, amount, asset)
    PROVE  CampaignStep /\ MilestoneStep
<1> DEFINE raised == campaign.raised_amount + amount
<1>1. amount \in Nat \ {0} /\ campaign \in CampaignData
      /\ campaign.raised_amount \in Nat
  BY DonateFacts
<1>2. raised \in Nat /\ raised > campaign.raised_amount
  BY <1>1
<1>3. /\ AcceptsDonations(campaign.status)
      /\ milestones' = Unlock(milestones, raised)
      /\ campaign' = [campaign EXCEPT
                        !.raised_amount = raised,
                        !.status = IF raised >= campaign.goal_amount
                                   THEN "GoalReached" ELSE @]
  BY DEF Donate
<1> HIDE DEF raised
<1>4. campaign'.raised_amount = raised
  BY <1>1, <1>3 DEF CampaignData
<1> QED BY <1>2, <1>3, <1>4 DEF CampaignStep, MilestoneStep

LEMMA StepsRelease ==
    ASSUME TypeInv, NEW caller \in Address, NEW i \in 1 .. MAX_MILESTONES,
           NEW recipient \in Recipients,
           \/ ReleaseMilestone(caller, i, recipient)
           \/ ReleaseMilestoneMultiAsset(caller, i, recipient)
    PROVE  /\ campaign' = campaign /\ donorAsset' = donorAsset
           /\ MilestoneStep
<1>1. /\ campaign' = campaign /\ donorAsset' = donorAsset
      /\ i \in DOMAIN milestones /\ milestones[i].status = "Unlocked"
  BY DEF ReleaseMilestone, ReleaseMilestoneMultiAsset
<1>2. milestones[i] \in MilestoneData
  BY <1>1, StoredTypes DEF TypeInv
<1>3. CASE ReleaseMilestone(caller, i, recipient)
  <2>1. milestones' = [milestones EXCEPT
                          ![i] = ReleasedRecord(milestones[i], recipient)]
    BY <1>1, <1>3 DEF ReleaseMilestone, ReleasedRecord
  <2> QED BY <1>1, <2>1 DEF MilestoneStep
<1>4. CASE ReleaseMilestoneMultiAsset(caller, i, recipient)
  <2> DEFINE m == [milestones[i] EXCEPT
                     !.released_amount = @ + (milestones[i].target_amount
                                        - milestones[i].released_amount),
                     !.status = "Released"]
             r == milestones[i].released_to
  <2>1. milestones' = [milestones EXCEPT ![i] = m]
    BY <1>1, <1>4 DEF ReleaseMilestoneMultiAsset
  <2>2. milestones[i].released_amount + (milestones[i].target_amount
            - milestones[i].released_amount) = milestones[i].target_amount
    BY <1>2 DEF MilestoneData
  <2>3. m = ReleasedRecord(milestones[i], r)
    BY <1>2, <2>2 DEF ReleasedRecord, MilestoneData
  <2>4. r \in Recipients \cup {None}
    BY <1>2 DEF MilestoneData
  <2> HIDE DEF m, r
  <2> QED BY <1>1, <2>1, <2>3, <2>4 DEF MilestoneStep
<1> QED BY <1>1, <1>3, <1>4

LEMMA StepForms ==
    ASSUME TypeInv, [Next]_vars, campaign # None
    PROVE  CampaignStep /\ MilestoneStep
<1>1. campaign \in CampaignData
  BY StoredTypes DEF TypeInv
<1>2. ASSUME NEW creator \in Address, NEW goal \in GoalAmounts,
             NEW end \in EndTimes, NEW assets \in AssetLists,
             NEW plan \in MilestonePlans, NEW minimum \in MinDonations,
             Initialize(creator, goal, end, assets, plan, minimum)
      PROVE  FALSE
  BY <1>2 DEF Initialize
<1>3. ASSUME NEW d \in Address, NEW amount \in DonationAmounts,
             NEW asset \in AssetInfo, Donate(d, amount, asset)
      PROVE  CampaignStep /\ MilestoneStep
  BY <1>3, StepsDonate
<1>4. ASSUME NEW d \in Address, ClaimRefund(d)
      PROVE  CampaignStep /\ MilestoneStep
  BY <1>4 DEF ClaimRefund, CampaignStep, MilestoneStep
<1>5. ASSUME NEW caller \in Address, NEW i \in 1 .. MAX_MILESTONES,
             NEW recipient \in Recipients,
             \/ ReleaseMilestone(caller, i, recipient)
             \/ ReleaseMilestoneMultiAsset(caller, i, recipient)
      PROVE  CampaignStep /\ MilestoneStep
  <2>1. campaign' = campaign /\ donorAsset' = donorAsset /\ MilestoneStep
    BY <1>5, StepsRelease
  <2> QED BY <2>1 DEF CampaignStep
<1>6. ASSUME NEW caller \in Address, EndCampaign(caller) \/ CancelCampaign(caller)
      PROVE  CampaignStep /\ MilestoneStep
  <2>1. /\ campaign'.status \in {"Ended", "Cancelled"}
        /\ campaign' = [campaign EXCEPT !.status = campaign'.status]
        /\ IsTerminal(campaign.status) => campaign'.status = "Cancelled"
    BY <1>1, <1>6 DEF EndCampaign, CancelCampaign, CampaignData, IsTerminal
  <2>2. donorAsset' = donorAsset /\ milestones' = milestones
    BY <1>6 DEF EndCampaign, CancelCampaign
  <2> QED BY <2>1, <2>2 DEF CampaignStep, MilestoneStep
<1>7. ASSUME NEW caller \in Address, NEW end \in EndTimes,
             ExtendDeadline(caller, end)
      PROVE  CampaignStep /\ MilestoneStep
  <2>1. campaign' = [campaign EXCEPT !.end_time = end]
        /\ AcceptsDonations(campaign.status)
        /\ donorAsset' = donorAsset /\ milestones' = milestones
    BY <1>7 DEF ExtendDeadline, AcceptsDonations
  <2>2. campaign'.end_time = end /\ end \in Nat
    BY <1>1, <2>1, ArgumentTypes DEF CampaignData
  <2> QED BY <2>1, <2>2 DEF CampaignStep, MilestoneStep
<1>8. CASE \/ \E caller \in Address : Freeze(caller) \/ Unfreeze(caller)
           \/ \E caller, successor \in Address : SetAdmin(caller, successor)
           \/ \E caller \in Address, hash \in WasmHash : Upgrade(caller, hash)
           \/ \E t \in Token, amount \in DepositAmounts : Deposit(t, amount)
           \/ CloseLedger
           \/ UNCHANGED vars
  <2>1. UNCHANGED books
    BY <1>8 DEF Freeze, Unfreeze, SetFrozen, SetAdmin, Upgrade, Deposit,
                CloseLedger, vars
  <2> QED BY <2>1 DEF books, CampaignStep, MilestoneStep
<1> QED BY <1>2, <1>3, <1>4, <1>5, <1>6, <1>7, <1>8 DEF Next

\* A campaign never disappears, and keeps its creator, goal and asset list.
LEMMA CampaignKept ==
    ASSUME TypeInv, CampaignStep, campaign # None
    PROVE  /\ campaign' # None
           /\ campaign'.accepted_assets = campaign.accepted_assets
           /\ campaign'.creator = campaign.creator
           /\ campaign'.goal_amount = campaign.goal_amount
<1>1. campaign \in CampaignData
  BY StoredTypes DEF TypeInv
<1>2. CASE campaign' = campaign
  BY <1>2
<1>3. CASE /\ campaign'.raised_amount \in Nat
           /\ campaign' = [campaign EXCEPT
                 !.raised_amount = campaign'.raised_amount,
                 !.status = IF campaign'.raised_amount >= campaign.goal_amount
                            THEN "GoalReached" ELSE @]
  <2> DEFINE n == campaign'.raised_amount
             s == IF n >= campaign.goal_amount THEN "GoalReached"
                  ELSE campaign.status
  <2>1. n \in Int /\ s \in CampaignStatus
    BY <1>1, <1>3 DEF CampaignData, CampaignStatus
  <2>2. campaign' = [campaign EXCEPT !.raised_amount = n, !.status = s]
    BY <1>1, <1>3 DEF CampaignData
  <2> HIDE DEF n, s
  <2> QED BY <1>1, <2>1, <2>2, ConstantTypes DEF CampaignData
<1>4. CASE /\ campaign' = [campaign EXCEPT !.status = campaign'.status]
           /\ campaign'.status \in {"Ended", "Cancelled"}
  <2> DEFINE s == campaign'.status
  <2>1. s \in CampaignStatus /\ campaign' = [campaign EXCEPT !.status = s]
    BY <1>4 DEF CampaignStatus
  <2> HIDE DEF s
  <2> QED BY <1>1, <2>1, ConstantTypes DEF CampaignData
<1>5. CASE /\ campaign' = [campaign EXCEPT !.end_time = campaign'.end_time]
           /\ campaign'.end_time \in Nat
  <2> DEFINE s == campaign'.end_time
  <2>1. s \in Nat /\ campaign' = [campaign EXCEPT !.end_time = s]
    BY <1>5
  <2> HIDE DEF s
  <2> QED BY <1>1, <2>1, ConstantTypes DEF CampaignData
<1> QED BY <1>2, <1>3, <1>4, <1>5 DEF CampaignStep

\* Without a campaign, initialize is the only call that writes the books.
LEMMA StepsBefore ==
    ASSUME [Next]_vars, campaign = None
    PROVE  \/ \E creator \in Address, goal \in GoalAmounts, end \in EndTimes,
                 assets \in AssetLists, plan \in MilestonePlans,
                 minimum \in MinDonations :
                 Initialize(creator, goal, end, assets, plan, minimum)
           \/ /\ UNCHANGED books
              /\ \/ UNCHANGED <<balance, deposited>>
                 \/ \E t \in Token, amount \in DepositAmounts : Deposit(t, amount)
<1>1. CASE UNCHANGED vars
  BY <1>1 DEF vars
<1>2. CASE \/ \E caller \in Address : Freeze(caller) \/ Unfreeze(caller)
           \/ \E caller, successor \in Address : SetAdmin(caller, successor)
           \/ \E caller \in Address, hash \in WasmHash : Upgrade(caller, hash)
           \/ \E t \in Token, amount \in DepositAmounts : Deposit(t, amount)
           \/ CloseLedger
  BY <1>2 DEF Freeze, Unfreeze, SetFrozen, SetAdmin, Upgrade, Deposit, CloseLedger
<1> QED BY <1>1, <1>2 DEF Next, Donate, ClaimRefund, ReleaseMilestone,
             ReleaseMilestoneMultiAsset, EndCampaign, CancelCampaign, ExtendDeadline

\* What MilestoneStep says of each milestone.
LEMMA EachMilestone ==
    ASSUME TypeInv, MilestoneStep, NEW i \in DOMAIN milestones
    PROVE  /\ milestones[i] \in MilestoneData
           /\ \/ milestones'[i] = milestones[i]
              \/ /\ AcceptsDonations(campaign.status)
                 /\ milestones[i].status = "Locked"
                 /\ milestones'[i] = [milestones[i] EXCEPT !.status = "Unlocked"]
              \/ /\ milestones[i].status = "Unlocked"
                 /\ \E r \in Recipients \cup {None} :
                       milestones'[i] = ReleasedRecord(milestones[i], r)
<1>1. milestones[i] \in MilestoneData
  BY StoredTypes DEF TypeInv
<1>2. CASE milestones' = milestones
  BY <1>1, <1>2
<1>3. CASE /\ AcceptsDonations(campaign.status)
           /\ milestones' = Unlock(milestones, campaign'.raised_amount)
  BY <1>1, <1>3 DEF Unlock
<1>4. ASSUME NEW j \in DOMAIN milestones, NEW r \in Recipients \cup {None},
             milestones[j].status = "Unlocked",
             milestones' = [milestones EXCEPT
                               ![j] = ReleasedRecord(milestones[j], r)]
      PROVE  \/ milestones'[i] = milestones[i]
             \/ /\ milestones[i].status = "Unlocked"
                /\ \E q \in Recipients \cup {None} :
                      milestones'[i] = ReleasedRecord(milestones[i], q)
  BY <1>4
<1> QED BY <1>1, <1>2, <1>3, <1>4 DEF MilestoneStep

\* A milestone only goes from locked to unlocked to released, so it is paid at
\* most once, by either release function.
THEOREM MilestonesForward == Spec => MilestonesOnlyForward
<1>1. TypeInv /\ [Next]_vars =>
        (campaign # None => \A i \in DOMAIN milestones :
          LET before == milestones[i].status
              after  == milestones'[i].status
          IN  /\ \/ milestones'[i] = milestones[i]
                 \/ <<before, after>> \in {<<"Locked", "Unlocked">>,
                                           <<"Unlocked", "Released">>}
              /\ milestones'[i].target_amount = milestones[i].target_amount)
  <2> SUFFICES ASSUME TypeInv, [Next]_vars, campaign # None,
                      NEW i \in DOMAIN milestones
               PROVE  /\ \/ milestones'[i] = milestones[i]
                         \/ <<milestones[i].status, milestones'[i].status>>
                              \in {<<"Locked", "Unlocked">>,
                                   <<"Unlocked", "Released">>}
                      /\ milestones'[i].target_amount
                            = milestones[i].target_amount
    OBVIOUS
  <2>1. MilestoneStep
    BY StepForms
  <2>2. milestones[i] \in MilestoneData
    BY StoredTypes DEF TypeInv
  <2>3. CASE milestones'[i] = milestones[i]
    BY <2>3
  <2>4. CASE /\ milestones[i].status = "Locked"
             /\ milestones'[i] = [milestones[i] EXCEPT !.status = "Unlocked"]
    BY <2>2, <2>4 DEF MilestoneData
  <2>5. ASSUME milestones[i].status = "Unlocked",
               NEW r \in Recipients \cup {None},
               milestones'[i] = ReleasedRecord(milestones[i], r)
        PROVE  /\ <<milestones[i].status, milestones'[i].status>>
                     = <<"Unlocked", "Released">>
               /\ milestones'[i].target_amount = milestones[i].target_amount
    BY <2>2, <2>5 DEF MilestoneData, ReleasedRecord
  <2> QED BY <2>1, <2>3, <2>4, <2>5, EachMilestone
<1> QED BY <1>1, TypeInvAlways, PTL DEF Spec, MilestonesOnlyForward

\* An ended or cancelled campaign never reopens, takes no donation, keeps its
\* deadline and unlocks nothing; it can only still be cancelled.
THEOREM TerminalForever == Spec => TerminalIsFinal
<1>1. TypeInv /\ [Next]_vars =>
        (campaign # None /\ IsTerminal(campaign.status) =>
          /\ campaign' = [campaign EXCEPT !.status = campaign'.status]
          /\ campaign'.status \in {campaign.status, "Cancelled"}
          /\ donorAsset' = donorAsset
          /\ \A i \in DOMAIN milestones :
                milestones[i].status = "Locked"
                    => milestones'[i] = milestones[i])
  <2> SUFFICES ASSUME TypeInv, [Next]_vars, campaign # None,
                      IsTerminal(campaign.status)
               PROVE  /\ campaign' = [campaign EXCEPT !.status = campaign'.status]
                      /\ campaign'.status \in {campaign.status, "Cancelled"}
                      /\ donorAsset' = donorAsset
                      /\ \A i \in DOMAIN milestones :
                            milestones[i].status = "Locked"
                                => milestones'[i] = milestones[i]
    OBVIOUS
  <2>1. CampaignStep /\ MilestoneStep
    BY StepForms
  <2>2. ~AcceptsDonations(campaign.status)
    BY DEF IsTerminal, AcceptsDonations
  <2>3. campaign \in CampaignData
    BY StoredTypes DEF TypeInv
  <2>4. /\ campaign' = [campaign EXCEPT !.status = campaign'.status]
        /\ campaign'.status \in {campaign.status, "Cancelled"}
        /\ donorAsset' = donorAsset
    BY <2>1, <2>2, <2>3 DEF CampaignStep, CampaignData
  <2>5. ASSUME NEW i \in DOMAIN milestones, milestones[i].status = "Locked"
        PROVE  milestones'[i] = milestones[i]
    BY <2>1, <2>2, <2>5, EachMilestone
  <2> QED BY <2>4, <2>5
<1> QED BY <1>1, TypeInvAlways, PTL DEF Spec, TerminalIsFinal

-----------------------------------------------------------------------------
(***************************************************************************)
(* Progress: status and milestones follow the amount raised, when callers  *)
(* of initialize pass untouched milestones (FreshPlans).                   *)
(***************************************************************************)

\* Accepted plans have positive targets: the first is, and they increase.
LEMMA TargetsPositive ==
    ASSUME NEW plan \in Seq(MilestoneData), NEW goal, ValidMilestones(plan, goal)
    PROVE  \A i \in DOMAIN plan : plan[i].target_amount > 0
<1> DEFINE Q == {n \in Nat : n + 1 \in DOMAIN plan
                               => plan[n + 1].target_amount > 0}
<1>1. Len(plan) \in Nat /\ DOMAIN plan = 1 .. Len(plan)
  BY LenProperties
<1>2. \A i \in DOMAIN plan : plan[i].target_amount \in Int
  <2>1. \A i \in DOMAIN plan : plan[i] \in MilestoneData
    <3> HIDE DEF Q
    <3> QED BY <1>1, ElementOfSeq
  <2> QED BY <2>1 DEF MilestoneData
<1>3. /\ plan[1].target_amount > 0
      /\ \A i \in 2 .. Len(plan) :
            plan[i].target_amount > plan[i - 1].target_amount
  BY DEF ValidMilestones
<1>4. 0 \in Q
  BY <1>3
<1>5. ASSUME NEW n \in Nat, n \in Q
      PROVE  n + 1 \in Q
  <2>1. ASSUME (n + 1) + 1 \in DOMAIN plan
        PROVE  plan[(n + 1) + 1].target_amount > 0
    <3>1. /\ n + 1 \in DOMAIN plan /\ (n + 1) + 1 \in 2 .. Len(plan)
          /\ ((n + 1) + 1) - 1 = n + 1
      BY <1>1, <2>1
    <3>2. plan[n + 1].target_amount > 0
      BY <1>5, <3>1
    <3>3. plan[(n + 1) + 1].target_amount > plan[n + 1].target_amount
      BY <1>3, <3>1
    <3> QED BY <1>2, <2>1, <3>1, <3>2, <3>3
  <2> QED BY <2>1
<1>6. \A n \in Nat : n \in Q
  <2> HIDE DEF Q
  <2> QED BY <1>4, <1>5, SetInduction
<1>7. ASSUME NEW i \in DOMAIN plan
      PROVE  plan[i].target_amount > 0
  <2>1. i - 1 \in Nat /\ (i - 1) + 1 = i
    BY <1>1
  <2>2. i - 1 \in Q
    BY <1>6, <2>1
  <2> QED BY <2>1, <2>2
<1> QED BY <1>7

\* Without a campaign, initialize is the only step that makes one.
LEMMA OnlyInitializeStarts ==
    ASSUME [Next]_vars, campaign = None, campaign' # None
    PROVE  \E creator \in Address, goal \in GoalAmounts, end \in EndTimes,
              assets \in AssetLists, plan \in MilestonePlans,
              minimum \in MinDonations :
              Initialize(creator, goal, end, assets, plan, minimum)
BY DEF Next, Donate, ClaimRefund, ReleaseMilestone, ReleaseMilestoneMultiAsset,
       EndCampaign, CancelCampaign, ExtendDeadline, Freeze, Unfreeze, SetFrozen,
       SetAdmin, Upgrade, Deposit, CloseLedger, books, vars

\* ProgressMatchesRaised, and what a milestone has released: nothing, or its
\* whole target.
Progress ==
    campaign # None =>
        /\ campaign.status = "Active"
              => campaign.raised_amount < campaign.goal_amount
        /\ campaign.status = "GoalReached"
              => campaign.raised_amount >= campaign.goal_amount
        /\ \A i \in DOMAIN milestones :
              /\ milestones[i].status = "Locked"
                    <=> campaign.raised_amount < milestones[i].target_amount
              /\ milestones[i].released_amount =
                    IF milestones[i].status = "Released"
                    THEN milestones[i].target_amount ELSE 0

LEMMA ProgressInitialize ==
    ASSUME FreshPlans,
           NEW creator \in Address, NEW goal \in GoalAmounts,
           NEW end \in EndTimes, NEW assets \in AssetLists,
           NEW plan \in MilestonePlans, NEW minimum \in MinDonations,
           Initialize(creator, goal, end, assets, plan, minimum)
    PROVE  Progress'
<1>1. plan \in Seq(MilestoneData) /\ ValidMilestones(plan, goal) /\ goal > 0
  BY ArgumentTypes DEF Initialize
<1>2. \A i \in DOMAIN plan : plan[i].target_amount > 0
  BY <1>1, TargetsPositive
<1>3. ASSUME NEW i \in DOMAIN plan
      PROVE  plan[i].status = "Locked" /\ plan[i].released_amount = 0
  <2>1. plan[i] \in MilestoneData
    BY <1>1, LenProperties, ElementOfSeq
  <2>2. plan[i] = [plan[i] EXCEPT !.released_amount = 0, !.status = "Locked",
                                  !.released_to = None]
    BY DEF FreshPlans
  <2> DEFINE m == [plan[i] EXCEPT !.released_amount = 0, !.status = "Locked",
                                  !.released_to = None]
  <2>3. m.status = "Locked" /\ m.released_amount = 0
    BY <2>1 DEF MilestoneData
  <2> HIDE DEF m
  <2>4. plan[i] = m
    BY <2>2 DEF m
  <2> QED BY <2>3, <2>4
<1>4. /\ milestones' = plan /\ campaign'.raised_amount = 0
      /\ campaign'.status = "Active" /\ campaign'.goal_amount = goal
  BY DEF Initialize
<1> QED BY <1>1, <1>2, <1>3, <1>4 DEF Progress

\* The milestone conjunct, for one milestone.
LEMMA ProgressMilestone ==
    ASSUME TypeInv, Progress, CampaignStep, MilestoneStep,
           campaign # None, NEW i \in DOMAIN milestones
    PROVE  /\ milestones'[i].status = "Locked"
                 <=> campaign'.raised_amount < milestones'[i].target_amount
           /\ milestones'[i].released_amount =
                 IF milestones'[i].status = "Released"
                 THEN milestones'[i].target_amount ELSE 0
<1>1. milestones[i] \in MilestoneData /\ campaign \in CampaignData
  BY StoredTypes DEF TypeInv
<1>2. /\ milestones[i].status = "Locked"
            <=> campaign.raised_amount < milestones[i].target_amount
      /\ milestones[i].released_amount =
            IF milestones[i].status = "Released"
            THEN milestones[i].target_amount ELSE 0
  BY DEF Progress
<1>3. CASE milestones' = Unlock(milestones, campaign'.raised_amount)
           /\ campaign'.raised_amount \in Int
           /\ campaign'.raised_amount >= campaign.raised_amount
  <2>1. milestones'[i] = IF /\ milestones[i].status = "Locked"
                            /\ campaign'.raised_amount
                                 >= milestones[i].target_amount
                         THEN [milestones[i] EXCEPT !.status = "Unlocked"]
                         ELSE milestones[i]
    BY <1>3 DEF Unlock
  <2>2. /\ campaign.raised_amount \in Int /\ milestones[i].target_amount \in Int
    BY <1>1 DEF MilestoneData, CampaignData
  <2>3. CASE /\ milestones[i].status = "Locked"
             /\ campaign'.raised_amount >= milestones[i].target_amount
    <3>1. milestones'[i] = [milestones[i] EXCEPT !.status = "Unlocked"]
      BY <2>1, <2>3
    <3>2. /\ milestones'[i].status = "Unlocked"
          /\ milestones'[i].target_amount = milestones[i].target_amount
          /\ milestones'[i].released_amount = milestones[i].released_amount
      BY <1>1, <3>1 DEF MilestoneData
    <3> QED BY <1>2, <1>3, <2>2, <2>3, <3>2
  <2>4. CASE ~(/\ milestones[i].status = "Locked"
               /\ campaign'.raised_amount >= milestones[i].target_amount)
    <3>1. milestones'[i] = milestones[i]
      BY <2>1, <2>4
    <3> QED BY <1>2, <1>3, <2>2, <2>4, <3>1
  <2> QED BY <2>3, <2>4
<1>4. CASE campaign'.raised_amount = campaign.raised_amount
  <2>1. CASE milestones'[i] = milestones[i]
    BY <1>2, <1>4, <2>1
  <2>2. ASSUME milestones[i].status = "Unlocked",
               NEW r \in Recipients \cup {None},
               milestones'[i] = ReleasedRecord(milestones[i], r)
        PROVE  /\ milestones'[i].status = "Released"
               /\ milestones'[i].target_amount = milestones[i].target_amount
               /\ milestones'[i].released_amount = milestones[i].target_amount
    BY <1>1, <2>2 DEF MilestoneData, ReleasedRecord
  <2>3. CASE milestones' = Unlock(milestones, campaign'.raised_amount)
    <3>1. campaign'.raised_amount \in Int
          /\ campaign'.raised_amount >= campaign.raised_amount
      BY <1>1, <1>4 DEF CampaignData
    <3> QED BY <1>3, <2>3, <3>1
  <2>4. CASE \E j \in DOMAIN milestones, r \in Recipients \cup {None} :
               /\ milestones[j].status = "Unlocked"
               /\ milestones' = [milestones EXCEPT
                                    ![j] = ReleasedRecord(milestones[j], r)]
    <3>1. \/ milestones'[i] = milestones[i]
          \/ /\ milestones[i].status = "Unlocked"
             /\ \E r \in Recipients \cup {None} :
                   milestones'[i] = ReleasedRecord(milestones[i], r)
      BY <2>4
    <3> QED BY <1>2, <1>4, <2>1, <2>2, <3>1
  <2> QED BY <2>1, <2>3, <2>4 DEF MilestoneStep
<1>5. CASE campaign'.raised_amount # campaign.raised_amount
  <2>1. \/ campaign' = campaign
        \/ /\ milestones' = Unlock(milestones, campaign'.raised_amount)
           /\ campaign'.raised_amount \in Int
           /\ campaign'.raised_amount > campaign.raised_amount
        \/ campaign' = [campaign EXCEPT !.status = campaign'.status]
        \/ campaign' = [campaign EXCEPT !.end_time = campaign'.end_time]
    BY DEF CampaignStep
  <2>2. /\ [campaign EXCEPT !.status = campaign'.status].raised_amount
             = campaign.raised_amount
        /\ [campaign EXCEPT !.end_time = campaign'.end_time].raised_amount
             = campaign.raised_amount
    BY <1>1 DEF CampaignData
  <2>3. /\ milestones' = Unlock(milestones, campaign'.raised_amount)
        /\ campaign'.raised_amount \in Int
        /\ campaign'.raised_amount > campaign.raised_amount
    BY <1>5, <2>1, <2>2
  <2>4. campaign'.raised_amount >= campaign.raised_amount
    BY <1>1, <2>3 DEF CampaignData
  <2> QED BY <1>3, <2>3, <2>4
<1> QED BY <1>4, <1>5

LEMMA ProgressStatus ==
    ASSUME TypeInv, Progress, CampaignStep, campaign # None
    PROVE  /\ campaign'.status = "Active"
                 => campaign'.raised_amount < campaign'.goal_amount
           /\ campaign'.status = "GoalReached"
                 => campaign'.raised_amount >= campaign'.goal_amount
<1>1. campaign \in CampaignData
  BY StoredTypes DEF TypeInv
<1>2. /\ campaign.status = "Active"
            => campaign.raised_amount < campaign.goal_amount
      /\ campaign.status = "GoalReached"
            => campaign.raised_amount >= campaign.goal_amount
  BY DEF Progress
<1>3. CASE campaign' = campaign
  BY <1>2, <1>3
<1>4. CASE /\ AcceptsDonations(campaign.status)
           /\ campaign'.raised_amount \in Nat
           /\ campaign'.raised_amount > campaign.raised_amount
           /\ campaign' = [campaign EXCEPT
                 !.raised_amount = campaign'.raised_amount,
                 !.status = IF campaign'.raised_amount >= campaign.goal_amount
                            THEN "GoalReached" ELSE @]
  <2>1. /\ campaign'.status = IF campaign'.raised_amount >= campaign.goal_amount
                              THEN "GoalReached" ELSE campaign.status
        /\ campaign'.goal_amount = campaign.goal_amount
    BY <1>1, <1>4 DEF CampaignData
  <2>2. /\ campaign.raised_amount \in Int /\ campaign.goal_amount \in Int
    BY <1>1 DEF CampaignData
  <2> QED BY <1>2, <1>4, <2>1, <2>2
<1>5. CASE /\ campaign' = [campaign EXCEPT !.status = campaign'.status]
           /\ campaign'.status \in {"Ended", "Cancelled"}
  BY <1>5
<1>6. CASE campaign' = [campaign EXCEPT !.end_time = campaign'.end_time]
  <2>1. /\ campaign'.status = campaign.status
        /\ campaign'.raised_amount = campaign.raised_amount
        /\ campaign'.goal_amount = campaign.goal_amount
    BY <1>1, <1>6 DEF CampaignData
  <2> QED BY <1>2, <2>1
<1> QED BY <1>3, <1>4, <1>5, <1>6 DEF CampaignStep

LEMMA ProgressNext ==
    ASSUME FreshPlans, TypeInv, Progress, [Next]_vars
    PROVE  Progress'
<1>1. CASE campaign = None /\ campaign' # None
  BY <1>1, OnlyInitializeStarts, ProgressInitialize
<1>2. CASE campaign' = None
  BY <1>2 DEF Progress
<1>3. CASE campaign # None
  <2>1. CampaignStep /\ MilestoneStep
    BY <1>3, StepForms
  <2>2. DOMAIN milestones' = DOMAIN milestones
    BY <2>1 DEF MilestoneStep, Unlock
  <2>3. \A i \in DOMAIN milestones :
           /\ milestones'[i].status = "Locked"
                 <=> campaign'.raised_amount < milestones'[i].target_amount
           /\ milestones'[i].released_amount =
                 IF milestones'[i].status = "Released"
                 THEN milestones'[i].target_amount ELSE 0
    BY <1>3, <2>1, ProgressMilestone
  <2>4. /\ campaign'.status = "Active"
              => campaign'.raised_amount < campaign'.goal_amount
        /\ campaign'.status = "GoalReached"
              => campaign'.raised_amount >= campaign'.goal_amount
    BY <1>3, <2>1, ProgressStatus
  <2> QED BY <2>2, <2>3, <2>4 DEF Progress
<1> QED BY <1>1, <1>2, <1>3

LEMMA ProgressAlways ==
    ASSUME FreshPlans
    PROVE  Spec => []Progress
<1>1. Init => Progress
  BY DEF Init, Progress
<1>2. TypeInv /\ Progress /\ [Next]_vars => Progress'
  BY ProgressNext
<1> QED BY <1>1, <1>2, TypeInvAlways, PTL DEF Spec

\* The goal flag and every milestone follow the amount raised, if plans start
\* untouched.
THEOREM ProgressFollowsRaised ==
    ASSUME FreshPlans
    PROVE  Spec => []ProgressMatchesRaised
<1>1. Progress => ProgressMatchesRaised
  BY DEF Progress, ProgressMatchesRaised
<1> QED BY <1>1, ProgressAlways, PTL

-----------------------------------------------------------------------------
(***************************************************************************)
(* Records of donations.  The inductive invariant speaks of every account, *)
(* with an empty record for those that gave nothing, and bounds the amount *)
(* raised, so that no saturating addition of donate ever saturates.        *)
(***************************************************************************)
RecordOf(d) == IF donors[d] = None THEN NewDonor ELSE donors[d]

GivenBy == [d \in Address |-> RecordOf(d).total_donated]

\* The selectors under which a token can be given.
SelectorsOf(t) ==
    {a \in AssetInfo : TokenFor(a, campaign.accepted_assets) = t}

OwnRecords(d) ==
    /\ \A a \in AssetInfo : RecordOf(d).contributions[a] \in Nat
    /\ RecordOf(d).total_donated = SumFunctionOnSet(donorAsset[d], Token)
    /\ donors[d] # None => donors[d].total_donated > 0
    /\ \A t \in Token :
          donorAsset[d][t]
             = SumFunctionOnSet(RecordOf(d).contributions, SelectorsOf(t))

Records ==
    /\ \A d \in Address : OwnRecords(d)
    /\ campaign # None =>
          /\ campaign.raised_amount = SumFunctionOnSet(GivenBy, Address)
          /\ campaign.raised_amount <= MaxRaised
    /\ \A t \in Token : assetRaised[t] <= DonatedIn(t)

LEMMA SelectorsFinite ==
    ASSUME NEW t
    PROVE  SelectorsOf(t) \subseteq AssetInfo /\ IsFiniteSet(SelectorsOf(t))
BY AssetInfoFinite, FS_Subset DEF SelectorsOf

\* An empty record is a record.
LEMMA RecordType ==
    ASSUME TypeOK, NEW d \in Address
    PROVE  /\ RecordOf(d) \in DonorRecord
           /\ donorAsset[d] \in [Token -> Nat]
           /\ donors[d] = None => RecordOf(d).total_donated = 0
           /\ donors[d] # None => RecordOf(d) = donors[d]
<1>1. NewDonor \in DonorRecord /\ NewDonor.total_donated = 0
  BY DEF NewDonor, DonorRecord
<1>2. donors[d] \in DonorRecord \cup {None}
  BY DEF TypeOK
<1>3. donorAsset[d] \in [Token -> 0 .. MaxI128] /\ MaxI128 \in Nat
  BY ConstantTypes DEF TypeOK
<1> QED BY <1>1, <1>2, <1>3 DEF RecordOf

LEMMA DonatedIsSum ==
    ASSUME NEW t
    PROVE  DonatedIn(t) = SumFunctionOnSet([d \in Address |-> donorAsset[d][t]],
                                           Address)
BY DEF DonatedIn, SumFunction

LEMMA RecordsInit ==
    ASSUME Init PROVE Records
<1>1. /\ donors = [d \in Address |-> None] /\ campaign = None
      /\ donorAsset = [d \in Address |-> [t \in Token |-> 0]]
      /\ assetRaised = [t \in Token |-> 0]
  BY DEF Init
<1>2. IsFiniteSet(Address) /\ IsFiniteSet(Token)
  BY ConstantTypes
<1>3. ASSUME NEW d \in Address
      PROVE  OwnRecords(d)
  <2>1. RecordOf(d) = NewDonor /\ donors[d] = None
        /\ \A a \in AssetInfo : RecordOf(d).contributions[a] = 0
    BY <1>1 DEF RecordOf, NewDonor
  <2>2. RecordOf(d).total_donated = 0
    BY <2>1 DEF NewDonor
  <2>3. SumFunctionOnSet(donorAsset[d], Token) = 0
    BY <1>1, <1>2, SumZero
  <2>4. ASSUME NEW t \in Token
        PROVE  SumFunctionOnSet(RecordOf(d).contributions, SelectorsOf(t)) = 0
    BY <2>1, SelectorsFinite, SumZero
  <2>5. \A t \in Token : donorAsset[d][t] = 0
    BY <1>1
  <2> QED BY <2>1, <2>2, <2>3, <2>4, <2>5 DEF OwnRecords
<1>4. ASSUME NEW t \in Token
      PROVE  assetRaised[t] <= DonatedIn(t)
  <2> DEFINE f == [d \in Address |-> donorAsset[d][t]]
  <2>1. \A d \in Address : f[d] = 0
    BY <1>1
  <2> HIDE DEF f
  <2>2. SumFunctionOnSet(f, Address) = 0
    BY <1>2, <2>1, SumZero
  <2> QED BY <1>1, <2>2, DonatedIsSum DEF f
<1> QED BY <1>1, <1>3, <1>4 DEF Records

\* A contribution is within the donor's total, and that within the campaign's.
LEMMA ContributionsBounded ==
    ASSUME TypeInv, Records, campaign # None, NEW d \in Address
    PROVE  /\ RecordOf(d).total_donated \in Nat
           /\ RecordOf(d).total_donated <= campaign.raised_amount
           /\ \A t \in Token : donorAsset[d][t] <= RecordOf(d).total_donated
           /\ \A t \in Token : \A a \in SelectorsOf(t) :
                 RecordOf(d).contributions[a] <= donorAsset[d][t]
<1>1. OwnRecords(d) /\ donorAsset[d] \in [Token -> Nat]
  BY RecordType DEF TypeInv, Records
<1>2. IsFiniteSet(Address) /\ IsFiniteSet(Token)
  BY ConstantTypes
<1>3. /\ SumFunctionOnSet(donorAsset[d], Token) \in Nat
      /\ \A t \in Token : donorAsset[d][t] <= SumFunctionOnSet(donorAsset[d], Token)
  BY <1>1, <1>2, SumNat
<1>4. ASSUME NEW e \in Address
      PROVE  GivenBy[e] \in Nat
  <2>1. OwnRecords(e) /\ donorAsset[e] \in [Token -> Nat]
    BY RecordType DEF TypeInv, Records
  <2>2. SumFunctionOnSet(donorAsset[e], Token) \in Nat
    BY <1>2, <2>1, SumNat
  <2> QED BY <2>1, <2>2 DEF GivenBy, OwnRecords
<1>5. GivenBy[d] <= SumFunctionOnSet(GivenBy, Address)
  BY <1>2, <1>4, SumNat
<1>6. ASSUME NEW t \in Token, NEW a \in SelectorsOf(t)
      PROVE  RecordOf(d).contributions[a] <= donorAsset[d][t]
  <2>1. \A b \in SelectorsOf(t) : RecordOf(d).contributions[b] \in Nat
    BY <1>1, SelectorsFinite DEF OwnRecords
  <2>2. RecordOf(d).contributions[a]
           <= SumFunctionOnSet(RecordOf(d).contributions, SelectorsOf(t))
    BY <2>1, SelectorsFinite, SumNat
  <2> QED BY <1>1, <2>2 DEF OwnRecords
<1> QED BY <1>1, <1>3, <1>5, <1>6 DEF OwnRecords, Records, GivenBy

\* What a donation does to the donor's own record.
LEMMA RecordAfterDonation ==
    ASSUME TypeInv, Records,
           NEW d \in Address, NEW amount \in DonationAmounts,
           NEW asset \in AssetInfo, Donate(d, amount, asset)
    PROVE  /\ donors'[d] # None
           /\ RecordOf(d)'.total_donated = RecordOf(d).total_donated + amount
           /\ RecordOf(d)'.contributions
                = [RecordOf(d).contributions EXCEPT ![asset] = @ + amount]
           /\ RecordOf(d)'.refund_claimed = RecordOf(d).refund_claimed
           /\ \A e \in Address \ {d} : donors'[e] = donors[e]
<1> DEFINE record == RecordOf(d)
           t == TokenFor(asset, campaign.accepted_assets)
<1>1. /\ amount \in Nat \ {0} /\ t \in Token
      /\ campaign # None /\ campaign.raised_amount \in Nat
      /\ campaign.raised_amount + amount <= MaxRaised
      /\ donors' = [donors EXCEPT ![d] = ApplyDonation(record, amount, asset)]
  <2>1. /\ amount \in Nat \ {0} /\ t \in Token /\ campaign.raised_amount \in Nat
    BY DonateFacts
  <2> QED BY <2>1 DEF Donate, RecordOf
<1>2. record \in DonorRecord /\ OwnRecords(d)
  BY RecordType DEF TypeInv, Records
<1>3. asset \in SelectorsOf(t)
  BY DEF SelectorsOf
<1>4. /\ record.total_donated \in Nat
      /\ record.total_donated <= campaign.raised_amount
      /\ record.contributions[asset] \in Nat
      /\ record.contributions[asset] <= campaign.raised_amount
  <2>1. donorAsset[d][t] \in Nat
    BY <1>1, RecordType DEF TypeInv
  <2>2. record.contributions[asset] \in Nat
    BY <1>2 DEF OwnRecords
  <2>3. /\ record.total_donated \in Nat
        /\ record.total_donated <= campaign.raised_amount
        /\ donorAsset[d][t] <= record.total_donated
        /\ record.contributions[asset] <= donorAsset[d][t]
    BY <1>1, <1>3, ContributionsBounded
  <2> QED BY <1>1, <2>1, <2>2, <2>3
<1>5. /\ Saturate(record.total_donated + amount) = record.total_donated + amount
      /\ Saturate(record.contributions[asset] + amount)
            = record.contributions[asset] + amount
  BY <1>1, <1>4, ConstantTypes DEF Saturate
<1> HIDE DEF record, t
<1>6. ApplyDonation(record, amount, asset)
        = [record EXCEPT !.total_donated = record.total_donated + amount,
                         !.contributions[asset] = record.contributions[asset] + amount]
  BY <1>5 DEF ApplyDonation
<1>7. /\ donors'[d] = ApplyDonation(record, amount, asset)
      /\ \A e \in Address \ {d} : donors'[e] = donors[e]
  BY <1>1 DEF TypeInv, TypeOK
<1>8. /\ ApplyDonation(record, amount, asset) \in DonorRecord
      /\ ApplyDonation(record, amount, asset).total_donated
            = record.total_donated + amount
      /\ ApplyDonation(record, amount, asset).contributions
            = [record.contributions EXCEPT ![asset] = @ + amount]
      /\ ApplyDonation(record, amount, asset).refund_claimed
            = record.refund_claimed
  <2> DEFINE k == [record.contributions EXCEPT ![asset] = @ + amount]
             n == record.total_donated + amount
  <2>1. ApplyDonation(record, amount, asset)
          = [record EXCEPT !.total_donated = n, !.contributions = k]
    BY <1>2, <1>6 DEF DonorRecord
  <2>2. k \in [AssetInfo -> Int] /\ n \in Int
    BY <1>1, <1>2, <1>4 DEF DonorRecord
  <2> HIDE DEF k, n
  <2>3. /\ [record EXCEPT !.total_donated = n, !.contributions = k] \in DonorRecord
        /\ [record EXCEPT !.total_donated = n, !.contributions = k].total_donated = n
        /\ [record EXCEPT !.total_donated = n, !.contributions = k].contributions = k
        /\ [record EXCEPT !.total_donated = n, !.contributions = k].refund_claimed
              = record.refund_claimed
    BY <1>2, <2>2 DEF DonorRecord
  <2> QED BY <2>1, <2>3 DEF k, n
<1>9. donors'[d] # None
  BY <1>7, <1>8, ConstantTypes
<1>10. RecordOf(d)' = ApplyDonation(record, amount, asset)
  BY <1>7, <1>9 DEF RecordOf
<1> QED BY <1>7, <1>8, <1>9, <1>10 DEF record

LEMMA RecordsDonate ==
    ASSUME TypeInv, Records,
           NEW d \in Address, NEW amount \in DonationAmounts,
           NEW asset \in AssetInfo, Donate(d, amount, asset)
    PROVE  Records'
<1> DEFINE token == TokenFor(asset, campaign.accepted_assets)
<1>1. /\ amount \in Nat \ {0} /\ token \in Token
      /\ campaign \in CampaignData /\ campaign # None
      /\ campaign.raised_amount \in Nat
      /\ campaign.raised_amount + amount <= MaxRaised
      /\ donorAsset' = [donorAsset EXCEPT ![d][token] = @ + amount]
      /\ assetRaised' = [assetRaised EXCEPT ![token] = @ + amount]
  <2>1. /\ amount \in Nat \ {0} /\ token \in Token
        /\ campaign \in CampaignData /\ campaign.raised_amount \in Nat
    BY DonateFacts
  <2> QED BY <2>1 DEF Donate
<1>2. /\ campaign'.raised_amount = campaign.raised_amount + amount
      /\ campaign'.accepted_assets = campaign.accepted_assets
  BY <1>1 DEF Donate, CampaignData
<1>3. \A t : SelectorsOf(t)' = SelectorsOf(t)
  BY <1>2 DEF SelectorsOf
<1>4. /\ donors'[d] # None
      /\ RecordOf(d)'.total_donated = RecordOf(d).total_donated + amount
      /\ RecordOf(d)'.contributions
           = [RecordOf(d).contributions EXCEPT ![asset] = @ + amount]
      /\ \A e \in Address \ {d} : donors'[e] = donors[e]
  BY RecordAfterDonation
<1>5. \A e \in Address \ {d} : RecordOf(e)' = RecordOf(e)
  BY <1>4 DEF RecordOf
<1>6. /\ donorAsset \in [Address -> [Token -> 0 .. MaxI128]]
      /\ donorAsset[d] \in [Token -> Nat]
      /\ assetRaised \in [Token -> 0 .. MaxI128] /\ MaxI128 \in Nat
      /\ \A e \in Address : RecordOf(e) \in DonorRecord
      /\ \A e \in Address : OwnRecords(e)
      /\ \A e \in Address : RecordOf(e).total_donated \in Nat
  BY <1>1, RecordType, ConstantTypes, ContributionsBounded
     DEF TypeInv, TypeOK, Records
<1>7. /\ \A e \in Address \ {d} : donorAsset'[e] = donorAsset[e]
      /\ donorAsset'[d] = [donorAsset[d] EXCEPT ![token] = @ + amount]
      /\ assetRaised'[token] = assetRaised[token] + amount
      /\ \A t \in Token \ {token} : assetRaised'[t] = assetRaised[t]
  BY <1>1, <1>6
<1>a. IsFiniteSet(Address) /\ IsFiniteSet(Token)
  BY ConstantTypes
<1> HIDE DEF token
<1>8. ASSUME NEW e \in Address
      PROVE  OwnRecords(e)'
  <2>1. CASE e # d
    <3>1. RecordOf(e)' = RecordOf(e) /\ donors'[e] = donors[e]
          /\ donorAsset'[e] = donorAsset[e]
      BY <1>4, <1>5, <1>7, <2>1
    <3> QED BY <1>3, <1>6, <3>1 DEF OwnRecords
  <2>2. CASE e = d
    <3> DEFINE c  == RecordOf(d).contributions
               c1 == RecordOf(d)'.contributions
    <3>1. /\ c \in [AssetInfo -> Int] /\ \A a \in AssetInfo : c[a] \in Nat
          /\ RecordOf(d).total_donated = SumFunctionOnSet(donorAsset[d], Token)
          /\ \A t \in Token :
                donorAsset[d][t] = SumFunctionOnSet(c, SelectorsOf(t))
      BY <1>6 DEF OwnRecords, DonorRecord
    <3>2. /\ c1[asset] = c[asset] + amount
          /\ \A a \in AssetInfo \ {asset} : c1[a] = c[a]
          /\ \A a \in AssetInfo : c1[a] \in Nat
      BY <1>1, <1>4, <3>1
    <3>3. /\ donorAsset'[d][token] = donorAsset[d][token] + amount
          /\ \A t \in Token \ {token} : donorAsset'[d][t] = donorAsset[d][t]
          /\ \A t \in Token : donorAsset'[d][t] \in Nat
      BY <1>1, <1>6, <1>7
    <3> HIDE DEF c, c1
    <3>4. SumFunctionOnSet(donorAsset'[d], Token)
            = SumFunctionOnSet(donorAsset[d], Token) + donorAsset'[d][token]
                - donorAsset[d][token]
      <4>1. \A t \in Token : donorAsset[d][t] \in Int /\ donorAsset'[d][t] \in Int
        BY <1>6, <3>3
      <4> DEFINE f == donorAsset[d]
                 g == donorAsset'[d]
      <4>2. /\ \A t \in Token : f[t] \in Int /\ g[t] \in Int
            /\ \A t \in Token \ {token} : g[t] = f[t]
            /\ token \in Token
        BY <1>1, <3>3, <4>1
      <4> HIDE DEF f, g
      <4>3. SumFunctionOnSet(g, Token)
              = SumFunctionOnSet(f, Token) + g[token] - f[token]
        BY <1>a, <4>2, SumChange
      <4> QED BY <4>3 DEF f, g
    <3>5. RecordOf(d)'.total_donated = SumFunctionOnSet(donorAsset'[d], Token)
      <4>1. SumFunctionOnSet(donorAsset[d], Token) \in Int
            /\ donorAsset[d][token] \in Int /\ amount \in Int
        BY <1>1, <1>6, <1>a, SumInt
      <4>2. SumFunctionOnSet(donorAsset'[d], Token)
              = SumFunctionOnSet(donorAsset[d], Token) + amount
        BY <3>3, <3>4, <4>1
      <4> QED BY <1>4, <3>1, <4>2
    <3>6. ASSUME NEW t \in Token
          PROVE  donorAsset'[d][t] = SumFunctionOnSet(c1, SelectorsOf(t))
      <4>1. IsFiniteSet(SelectorsOf(t)) /\ SelectorsOf(t) \subseteq AssetInfo
        BY SelectorsFinite
      <4>2. CASE t = token
        <5>1. asset \in SelectorsOf(t)
          BY <4>2 DEF SelectorsOf, token
        <5>2. SumFunctionOnSet(c1, SelectorsOf(t))
                = SumFunctionOnSet(c, SelectorsOf(t)) + c1[asset] - c[asset]
          BY <3>1, <3>2, <4>1, <5>1, SumChange
        <5>3. donorAsset[d][t] \in Int /\ c[asset] \in Int /\ amount \in Int
          BY <1>1, <1>6, <3>1
        <5> QED BY <3>1, <3>2, <3>3, <4>2, <5>2, <5>3
      <4>3. CASE t # token
        <5>1. asset \notin SelectorsOf(t)
          BY <4>3 DEF SelectorsOf, token
        <5>2. SumFunctionOnSet(c1, SelectorsOf(t))
                = SumFunctionOnSet(c, SelectorsOf(t))
          BY <3>2, <4>1, <5>1, SumAgree
        <5> QED BY <3>1, <3>3, <4>3, <5>2
      <4> QED BY <4>2, <4>3
    <3>7. donors'[d].total_donated > 0
      <4>1. RecordOf(d)' = donors'[d]
        BY <1>4 DEF RecordOf
      <4>2. RecordOf(d).total_donated \in Nat
        BY <1>6
      <4>3. RecordOf(d)'.total_donated > 0
        BY <1>1, <1>4, <4>2
      <4> QED BY <4>1, <4>3
    <3> QED BY <1>3, <2>2, <3>2, <3>5, <3>6, <3>7 DEF OwnRecords, c1
  <2> QED BY <2>1, <2>2
<1>9. campaign'.raised_amount = SumFunctionOnSet(GivenBy', Address)
  <2>1. /\ GivenBy'[d] = GivenBy[d] + amount
        /\ \A e \in Address \ {d} : GivenBy'[e] = GivenBy[e]
        /\ \A e \in Address : GivenBy[e] \in Nat
    BY <1>4, <1>5, <1>6 DEF GivenBy
  <2>2. \A e \in Address : GivenBy[e] \in Int /\ GivenBy'[e] \in Int
    BY <1>1, <2>1
  <2>3. SumFunctionOnSet(GivenBy', Address)
          = SumFunctionOnSet(GivenBy, Address) + GivenBy'[d] - GivenBy[d]
    BY <1>a, <2>1, <2>2, SumChange
  <2>4. campaign.raised_amount = SumFunctionOnSet(GivenBy, Address)
    BY <1>1 DEF Records
  <2> QED BY <1>1, <1>2, <2>1, <2>3, <2>4
<1>10. ASSUME NEW t \in Token
       PROVE  assetRaised'[t] <= DonatedIn(t)'
  <2> DEFINE f == [e \in Address |-> donorAsset[e][t]]
             g == [e \in Address |-> donorAsset'[e][t]]
  <2>1. /\ \A e \in Address \ {d} : g[e] = f[e]
        /\ g[d] = f[d] + (IF t = token THEN amount ELSE 0)
        /\ \A e \in Address : f[e] \in Int /\ g[e] \in Int
    BY <1>1, <1>6, <1>7
  <2>2. DonatedIn(t) = SumFunctionOnSet(f, Address)
        /\ DonatedIn(t)' = SumFunctionOnSet(g, Address)
    BY DEF DonatedIn, SumFunction
  <2> HIDE DEF f, g
  <2>3. SumFunctionOnSet(g, Address)
          = SumFunctionOnSet(f, Address) + g[d] - f[d]
    BY <1>a, <2>1, SumChange
  <2>4. SumFunctionOnSet(f, Address) \in Int /\ f[d] \in Int
        /\ assetRaised[t] \in Int /\ amount \in Int
    BY <1>1, <1>6, <1>a, <2>1, SumInt
  <2>5. assetRaised[t] <= DonatedIn(t)
    BY DEF Records
  <2>6. assetRaised'[t] = assetRaised[t] + (IF t = token THEN amount ELSE 0)
    BY <1>7, <2>4
  <2> QED BY <2>1, <2>2, <2>3, <2>4, <2>5, <2>6
<1> QED BY <1>1, <1>2, <1>8, <1>9, <1>10 DEF Records

\* Before initialize there is nothing to rewrite: the selectors of a token may
\* change with the accepted list, but every contribution is 0.
LEMMA RecordsInitialize ==
    ASSUME TypeInv, Records,
           NEW creator \in Address, NEW goal \in GoalAmounts,
           NEW end \in EndTimes, NEW assets \in AssetLists,
           NEW plan \in MilestonePlans, NEW minimum \in MinDonations,
           Initialize(creator, goal, end, assets, plan, minimum)
    PROVE  Records'
<1>1. /\ campaign = None /\ campaign'.raised_amount = 0
      /\ donors' = donors /\ donorAsset' = donorAsset
      /\ assetRaised' = assetRaised
  BY DEF Initialize
<1>2. \A d \in Address : donors[d] = None
  BY <1>1 DEF TypeInv, DonorsGave
<1>3. IsFiniteSet(Address) /\ 0 <= MaxRaised
  BY ConstantTypes
<1>4. ASSUME NEW d \in Address
      PROVE  OwnRecords(d)' /\ GivenBy'[d] = 0
  <2>1. RecordOf(d) = NewDonor /\ RecordOf(d)' = NewDonor /\ donors'[d] = None
        /\ \A a \in AssetInfo : NewDonor.contributions[a] = 0
    BY <1>1, <1>2 DEF RecordOf, NewDonor
  <2>2. NewDonor.total_donated = 0
    BY DEF NewDonor
  <2>3. SumFunctionOnSet(donorAsset[d], Token) = 0
    BY <2>1, <2>2 DEF Records, OwnRecords
  <2>4. \A s : s \subseteq AssetInfo /\ IsFiniteSet(s)
                  => SumFunctionOnSet(NewDonor.contributions, s) = 0
    BY <2>1, SumZero
  <2>5. \A t : SelectorsOf(t)' \subseteq AssetInfo
    BY DEF SelectorsOf
  <2>6. \A t : IsFiniteSet(SelectorsOf(t)')
    BY <2>5, AssetInfoFinite, FS_Subset
  <2>7. ASSUME NEW t \in Token
        PROVE  donorAsset'[d][t]
                 = SumFunctionOnSet(NewDonor.contributions, SelectorsOf(t)')
    <3>1. donorAsset[d][t]
            = SumFunctionOnSet(NewDonor.contributions, SelectorsOf(t))
      BY <2>1 DEF Records, OwnRecords
    <3> QED BY <1>1, <2>4, <2>5, <2>6, <3>1, SelectorsFinite
  <2>8. OwnRecords(d)'
    BY <1>1, <2>1, <2>2, <2>3, <2>7 DEF OwnRecords
  <2> QED BY <2>1, <2>2, <2>8 DEF GivenBy
<1>5. SumFunctionOnSet(GivenBy', Address) = 0
  BY <1>3, <1>4, SumZero
<1>6. \A t \in Token : assetRaised'[t] <= DonatedIn(t)'
  BY <1>1 DEF Records, DonatedIn
<1> QED BY <1>1, <1>3, <1>4, <1>5, <1>6 DEF Records

\* A step that keeps the amounts, and lowers counters at most, keeps Records.
LEMMA RecordsKept ==
    ASSUME TypeInv, Records, campaign # None, campaign' # None,
           campaign'.raised_amount = campaign.raised_amount,
           campaign'.accepted_assets = campaign.accepted_assets,
           donorAsset' = donorAsset,
           \A d \in Address :
              /\ donors'[d] = None <=> donors[d] = None
              /\ RecordOf(d)'.total_donated = RecordOf(d).total_donated
              /\ RecordOf(d)'.contributions = RecordOf(d).contributions,
           \A t \in Token : /\ assetRaised'[t] \in Int
                            /\ assetRaised'[t] <= assetRaised[t]
    PROVE  Records'
<1>1. \A t : SelectorsOf(t)' = SelectorsOf(t)
  BY DEF SelectorsOf
<1>2. GivenBy' = GivenBy
  BY DEF GivenBy
<1>3. ASSUME NEW d \in Address
      PROVE  OwnRecords(d)'
  <2>1. OwnRecords(d)
    BY DEF Records
  <2>2. donors[d] # None => /\ donors[d].total_donated = RecordOf(d).total_donated
                            /\ donors'[d].total_donated = RecordOf(d)'.total_donated
    BY DEF RecordOf
  <2> QED BY <1>1, <2>1, <2>2 DEF OwnRecords
<1>4. ASSUME NEW t \in Token
      PROVE  assetRaised'[t] <= DonatedIn(t)'
  <2>1. /\ DonatedIn(t)' = DonatedIn(t) /\ assetRaised[t] <= DonatedIn(t)
    BY DEF Records, DonatedIn
  <2>2. IsFiniteSet(Address) /\ \A d \in Address : donorAsset[d][t] \in Int
    BY ConstantTypes DEF TypeInv, TypeOK
  <2> DEFINE f == [d \in Address |-> donorAsset[d][t]]
  <2>3. \A d \in Address : f[d] \in Int
    BY <2>2
  <2> HIDE DEF f
  <2>4. SumFunctionOnSet(f, Address) \in Int
    BY <2>2, <2>3, SumInt
  <2>5. DonatedIn(t) \in Int
    BY <2>4, DonatedIsSum DEF f
  <2>6. assetRaised[t] \in Int
    BY ConstantTypes DEF TypeInv, TypeOK
  <2> QED BY <2>1, <2>5, <2>6
<1> QED BY <1>1, <1>2, <1>3, <1>4 DEF Records

\* What a refund does to the donors.
LEMMA RecordsAfterRefund ==
    ASSUME TypeInv, NEW d \in Address, ClaimRefund(d)
    PROVE  /\ \A e \in Address :
                 /\ donors'[e] = None <=> donors[e] = None
                 /\ RecordOf(e)'.total_donated = RecordOf(e).total_donated
                 /\ RecordOf(e)'.contributions = RecordOf(e).contributions
           /\ \A e \in Address \ {d} : donors'[e] = donors[e]
           /\ donors'[d] # None /\ donors'[d].refund_claimed
<1>1. donors[d] \in DonorRecord /\ donors[d] # None
      /\ donors' = [donors EXCEPT ![d].refund_claimed = TRUE]
      /\ donors \in [Address -> DonorRecord \cup {None}]
  BY DEF ClaimRefund, TypeInv, TypeOK
<1> DEFINE r == [donors[d] EXCEPT !.refund_claimed = TRUE]
<1>2. donors'[d] = r /\ \A e \in Address \ {d} : donors'[e] = donors[e]
  BY <1>1
<1>3. /\ r \in DonorRecord /\ r.total_donated = donors[d].total_donated
      /\ r.contributions = donors[d].contributions /\ r.refund_claimed
  BY <1>1 DEF DonorRecord
<1> HIDE DEF r
<1>4. r # None
  BY <1>3, ConstantTypes
<1> QED BY <1>1, <1>2, <1>3, <1>4 DEF RecordOf

\* The release loop never raises a token's counter.
LEMMA LoopLowersCounters ==
    ASSUME TypeOK, campaign # None, NEW release \in Int
    PROVE  \A t \in Token : ReleaseLoop(release).raised[t] <= assetRaised[t]
<1> DEFINE G == {acc \in LoopBooks :
                    \A t \in Token : acc.raised[t] <= assetRaised[t]}
           start == [raised |-> assetRaised, held |-> balance, paid |-> 0]
<1>1. start \in G
  <2>1. start \in LoopBooks
    BY DEF TypeOK, LoopBooks
  <2>2. \A t \in Token : assetRaised[t] <= assetRaised[t]
    BY ConstantTypes DEF TypeOK
  <2> QED BY <2>1, <2>2
<1>2. ASSUME NEW acc \in G, NEW k \in 1 .. Len(campaign.accepted_assets)
      PROVE  PayListing(acc, campaign.accepted_assets[k].issuer, release) \in G
  <2> DEFINE t == campaign.accepted_assets[k].issuer
             amount == IF t = None THEN 0
                       ELSE ComputeAssetRelease(acc.raised[t], release, totalRaised)
  <2>1. t \in Token \cup {None} /\ totalRaised \in Nat /\ acc \in LoopBooks
    BY StoredTypes, ConstantTypes DEF TypeOK
  <2>2. PayListing(acc, t, release) \in LoopBooks
    BY <2>1, PayListingType
  <2>3. CASE amount = 0
    BY <2>2, <2>3 DEF PayListing
  <2>4. CASE amount # 0
    <3>1. t \in Token /\ t # None /\ acc.raised[t] \in Nat
      BY <2>1, <2>4, ConstantTypes DEF LoopBooks
    <3>2. amount \in Nat
      <4> HIDE DEF t
      <4>1. acc.raised[t] \in Int
        BY <3>1
      <4>2. ComputeAssetRelease(acc.raised[t], release, totalRaised) \in Nat
        BY <2>1, <4>1, ComputeAssetReleaseType
      <4> QED BY <3>1, <4>2
    <3>3. PayListing(acc, t, release).raised
            = [acc.raised EXCEPT ![t] = AtLeastZero(@ - amount)]
      BY <2>4 DEF PayListing
    <3> HIDE DEF amount, t
    <3>4. AtLeastZero(acc.raised[t] - amount) <= acc.raised[t]
      BY <3>1, <3>2 DEF AtLeastZero
    <3>5. AtLeastZero(acc.raised[t] - amount) \in Int
      BY <3>1, <3>2 DEF AtLeastZero
    <3>6. \A u \in Token : /\ acc.raised[u] \in Int /\ assetRaised[u] \in Int
                           /\ acc.raised[u] <= assetRaised[u]
      BY <2>1, ConstantTypes DEF LoopBooks, TypeOK
    <3>7. ASSUME NEW u \in Token
          PROVE  PayListing(acc, t, release).raised[u] <= assetRaised[u]
      <4>1. acc.raised \in [Token -> 0 .. MaxI128]
        BY <2>1 DEF LoopBooks
      <4>2. CASE u = t
        <5>1. PayListing(acc, t, release).raised[u]
                = AtLeastZero(acc.raised[t] - amount)
          BY <3>1, <3>3, <4>1, <4>2
        <5> QED BY <3>1, <3>4, <3>5, <3>6, <4>2, <5>1
      <4>3. CASE u # t
        BY <3>3, <3>6, <4>1, <4>3
      <4> QED BY <4>2, <4>3
    <3> QED BY <2>2, <3>7 DEF t
  <2> QED BY <2>3, <2>4
<1>3. Len(campaign.accepted_assets) \in Nat
  BY StoredTypes
<1>4. ReleaseLoop(release) \in G
  <2> HIDE DEF G
  <2> QED BY <1>1, <1>2, <1>3, LoopInduction
<1> QED BY <1>4

LEMMA RecordsNext ==
    ASSUME TypeInv, Records, [Next]_vars
    PROVE  Records'
<1>a. TypeInv'
  BY TypeInvNext
<1>1. ASSUME NEW creator \in Address, NEW goal \in GoalAmounts,
             NEW end \in EndTimes, NEW assets \in AssetLists,
             NEW plan \in MilestonePlans, NEW minimum \in MinDonations,
             Initialize(creator, goal, end, assets, plan, minimum)
      PROVE  Records'
  BY <1>1, RecordsInitialize
<1>2. ASSUME NEW d \in Address, NEW amount \in DonationAmounts,
             NEW asset \in AssetInfo, Donate(d, amount, asset)
      PROVE  Records'
  BY <1>2, RecordsDonate
<1>b. \A t \in Token : assetRaised[t] \in Int /\ assetRaised'[t] \in Int
  BY <1>a, ConstantTypes DEF TypeInv, TypeOK
<1>c. campaign # None => campaign \in CampaignData
  BY StoredTypes DEF TypeInv
<1>d. donors' = donors =>
        \A d \in Address :
              /\ donors'[d] = None <=> donors[d] = None
              /\ RecordOf(d)'.total_donated = RecordOf(d).total_donated
              /\ RecordOf(d)'.contributions = RecordOf(d).contributions
  BY DEF RecordOf
<1>3. ASSUME NEW d \in Address, ClaimRefund(d)
      PROVE  Records'
  <2>1. /\ campaign # None /\ campaign' = campaign /\ donorAsset' = donorAsset
        /\ assetRaised' = assetRaised
    BY <1>3 DEF ClaimRefund
  <2>2. \A t \in Token : assetRaised'[t] <= assetRaised[t]
    BY <1>b, <2>1
  <2> QED BY <1>3, <1>b, <2>1, <2>2, RecordsAfterRefund, RecordsKept
<1>4. ASSUME NEW caller \in Address, NEW i \in 1 .. MAX_MILESTONES,
             NEW recipient \in Recipients,
             ReleaseMilestone(caller, i, recipient)
      PROVE  Records'
  <2>1. /\ campaign # None /\ campaign' = campaign /\ donorAsset' = donorAsset
        /\ assetRaised' = assetRaised /\ donors' = donors
    BY <1>4 DEF ReleaseMilestone
  <2>2. \A t \in Token : assetRaised'[t] <= assetRaised[t]
    BY <1>b, <2>1
  <2> QED BY <1>b, <1>d, <2>1, <2>2, RecordsKept
<1>5. ASSUME NEW caller \in Address, NEW i \in 1 .. MAX_MILESTONES,
             NEW recipient \in Recipients,
             ReleaseMilestoneMultiAsset(caller, i, recipient)
      PROVE  Records'
  <2> DEFINE release == milestones[i].target_amount
                          - milestones[i].released_amount
  <2>1. /\ campaign # None /\ campaign' = campaign /\ donorAsset' = donorAsset
        /\ donors' = donors /\ i \in DOMAIN milestones
        /\ assetRaised' = ReleaseLoop(release).raised
    BY <1>5 DEF ReleaseMilestoneMultiAsset
  <2>2. release \in Int
    BY <2>1, StoredTypes DEF TypeInv, MilestoneData
  <2>3. \A t \in Token : assetRaised'[t] <= assetRaised[t]
    BY <2>1, <2>2, LoopLowersCounters DEF TypeInv
  <2> QED BY <1>b, <1>d, <2>1, <2>3, RecordsKept
<1>6. ASSUME NEW caller \in Address,
             \/ EndCampaign(caller) \/ CancelCampaign(caller)
             \/ \E end \in EndTimes : ExtendDeadline(caller, end)
      PROVE  Records'
  <2>1. /\ campaign # None /\ donorAsset' = donorAsset
        /\ assetRaised' = assetRaised /\ donors' = donors
        /\ campaign' \in {[campaign EXCEPT !.status = campaign'.status],
                          [campaign EXCEPT !.end_time = campaign'.end_time]}
    <3>1. CASE EndCampaign(caller) \/ CancelCampaign(caller)
      <4>1. PICK s : campaign' = [campaign EXCEPT !.status = s]
        BY <3>1 DEF EndCampaign, CancelCampaign
      <4>2. campaign # None
        BY <3>1 DEF EndCampaign, CancelCampaign
      <4>3. campaign'.status = s
        BY <1>c, <4>1, <4>2 DEF CampaignData
      <4> QED BY <3>1, <4>1, <4>2, <4>3 DEF EndCampaign, CancelCampaign
    <3>2. ASSUME NEW end \in EndTimes, ExtendDeadline(caller, end)
          PROVE  /\ campaign # None /\ donorAsset' = donorAsset
                 /\ assetRaised' = assetRaised /\ donors' = donors
                 /\ campaign' \in {[campaign EXCEPT !.status = campaign'.status],
                                   [campaign EXCEPT !.end_time = campaign'.end_time]}
      <4>1. campaign # None /\ campaign' = [campaign EXCEPT !.end_time = end]
        BY <3>2 DEF ExtendDeadline
      <4>2. campaign'.end_time = end
        BY <1>c, <4>1 DEF CampaignData
      <4> QED BY <3>2, <4>1, <4>2 DEF ExtendDeadline
    <3> QED BY <1>6, <3>1, <3>2
  <2>2. /\ campaign'.raised_amount = campaign.raised_amount
        /\ campaign'.accepted_assets = campaign.accepted_assets
    BY <1>c, <2>1 DEF CampaignData
  <2>3. \A t \in Token : assetRaised'[t] <= assetRaised[t]
    BY <1>b, <2>1
  <2>4. campaign' # None
    <3>1. campaign' \in CampaignData
      <4>1. campaign' \in CampaignData \cup {None}
        BY <1>a DEF TypeInv, TypeOK
      <4>2. CASE EndCampaign(caller) \/ CancelCampaign(caller)
        BY <1>c, <4>2 DEF EndCampaign, CancelCampaign, CampaignData, CampaignStatus
      <4>3. ASSUME NEW end \in EndTimes, ExtendDeadline(caller, end)
            PROVE  campaign' \in CampaignData
        BY <1>c, <4>3, ArgumentTypes DEF ExtendDeadline, CampaignData
      <4> QED BY <1>6, <4>2, <4>3
    <3> QED BY <3>1, ConstantTypes
  <2> QED BY <1>b, <1>d, <2>1, <2>2, <2>3, <2>4, RecordsKept
<1>7. CASE UNCHANGED books
  <2>1. /\ campaign' = campaign /\ donors' = donors /\ donorAsset' = donorAsset
        /\ assetRaised' = assetRaised
    BY <1>7 DEF books
  <2>2. \A d \in Address : RecordOf(d)' = RecordOf(d)
    BY <2>1 DEF RecordOf
  <2>3. /\ \A t : SelectorsOf(t)' = SelectorsOf(t) /\ DonatedIn(t)' = DonatedIn(t)
        /\ GivenBy' = GivenBy
    BY <2>1 DEF SelectorsOf, DonatedIn, GivenBy, RecordOf
  <2>4. \A d \in Address : OwnRecords(d)'
    BY <2>1, <2>2, <2>3 DEF OwnRecords, Records
  <2> QED BY <2>1, <2>3, <2>4 DEF Records
<1>8. CASE \/ \E caller \in Address : Freeze(caller) \/ Unfreeze(caller)
           \/ \E caller, successor \in Address : SetAdmin(caller, successor)
           \/ \E caller \in Address, hash \in WasmHash : Upgrade(caller, hash)
           \/ \E t \in Token, amount \in DepositAmounts : Deposit(t, amount)
           \/ CloseLedger
           \/ UNCHANGED vars
  BY <1>7, <1>8 DEF Freeze, Unfreeze, SetFrozen, SetAdmin, Upgrade, Deposit,
                    CloseLedger, vars
<1> QED BY <1>1, <1>2, <1>3, <1>4, <1>5, <1>6, <1>8 DEF Next

LEMMA RecordsAlways == Spec => []Records
BY RecordsInit, RecordsNext, TypeInvAlways, PTL DEF Spec

\* The campaign's four records of donations agree in every reachable state:
\* the saturating additions of the donor's record, the checked ones of the
\* entries and the total of the campaign never drift apart, and a release only
\* lowers a token's counter.
THEOREM DonationRecordsAgree == Spec => []ContributionsReconcile
<1>1. ASSUME TypeInv, Records
      PROVE  ContributionsReconcile
  <2> DEFINE recorded == {d \in Address : donors[d] # None}
             totals == [d \in recorded |-> donors[d].total_donated]
             given(d, t) == SumFunctionOnSet(donors[d].contributions,
                              {a \in AssetInfo :
                                 TokenFor(a, campaign.accepted_assets) = t})
  <2>1. TypeOK /\ IsFiniteSet(Address)
    BY <1>1, ConstantTypes DEF TypeInv
  <2>2. ASSUME campaign # None
        PROVE  campaign.raised_amount = SumFunction(totals)
    <3>1. \A d \in Address : GivenBy[d] \in Int
      BY <1>1, <2>1, <2>2, ContributionsBounded DEF GivenBy
    <3>2. /\ \A d \in recorded : totals[d] = GivenBy[d]
          /\ \A d \in Address \ recorded : GivenBy[d] = 0
      BY <2>1, RecordType DEF GivenBy
    <3>3. DOMAIN totals = recorded /\ recorded \subseteq Address
      OBVIOUS
    <3> HIDE DEF totals, recorded
    <3>4. SumFunctionOnSet(GivenBy, Address) = SumFunctionOnSet(totals, recorded)
      BY <2>1, <3>1, <3>2, <3>3, SumSupport
    <3> QED BY <1>1, <2>2, <3>3, <3>4 DEF SumFunction, Records
  <2>3. ASSUME NEW d \in recorded
        PROVE  /\ donors[d].total_donated = SumFunction(donorAsset[d])
               /\ \A t \in Token : donorAsset[d][t] = given(d, t)
    <3>1. OwnRecords(d) /\ RecordOf(d) = donors[d]
      BY <1>1, <2>1, RecordType DEF Records
    <3>2. DOMAIN donorAsset[d] = Token
      BY <2>1 DEF TypeOK
    <3> QED BY <3>1, <3>2 DEF OwnRecords, SumFunction, SelectorsOf
  <2> QED BY <1>1, <2>2, <2>3 DEF ContributionsReconcile, Records
<1> QED BY <1>1, TypeInvAlways, RecordsAlways, PTL

=============================================================================
