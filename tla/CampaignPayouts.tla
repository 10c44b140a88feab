-------------------------- MODULE CampaignPayouts --------------------------
(***************************************************************************)
(* Theorems about what leaves the campaign contract: the counters its      *)
(* releases are computed from, its refunds, what it pays out in all, and   *)
(* the promise of Escrow it implements.  They hold for milestone plans     *)
(* that nothing has touched (FreshPlans); most of those about amounts also *)
(* need that products of two amounts fit i128 (ProductsFit).               *)
(***************************************************************************)
EXTENDS CampaignProofs

-----------------------------------------------------------------------------
(***************************************************************************)
(* Counters.  The global counter is the sum of the token counters as long  *)
(* as no product of two amounts leaves i128: with an i128 of 127 bits, for *)
(* campaigns that raise up to about 10^18 units.                           *)
(***************************************************************************)
ProductsFit ==
    /\ MAX_MILESTONES > 0
    /\ MAX_MILESTONES * (MaxRaised * MaxRaised) <= MaxI128

LEMMA SquaresFit ==
    ASSUME ProductsFit
    PROVE  MaxRaised * MaxRaised <= MaxI128
<1> DEFINE q == MaxRaised * MaxRaised
<1>1. q \in Nat /\ MAX_MILESTONES \in Int /\ MAX_MILESTONES >= 1
      /\ MAX_MILESTONES * q <= MaxI128 /\ MaxI128 \in Int
  BY ConstantTypes DEF ProductsFit
<1> HIDE DEF q
<1>2. 1 * q <= MAX_MILESTONES * q
  BY <1>1, ProductMonotonic
<1>3. q <= MAX_MILESTONES * q
  BY <1>1, <1>2
<1>4. q <= MaxI128
  BY <1>1, <1>3
<1> QED BY <1>4 DEF q

\* The plan in force: positive targets, not too many of them.
PlanKept ==
    /\ campaign = None => milestones = << >>
    /\ Len(milestones) <= MAX_MILESTONES
    /\ \A i \in DOMAIN milestones : milestones[i].target_amount > 0

LEMMA PlanKeptAlways == Spec => []PlanKept
<1>1. Init => PlanKept
  BY ConstantTypes DEF Init, PlanKept
<1>2. ASSUME TypeInv, PlanKept, [Next]_vars
      PROVE  PlanKept'
  <2>1. ASSUME NEW creator \in Address, NEW goal \in GoalAmounts,
               NEW end \in EndTimes, NEW assets \in AssetLists,
               NEW plan \in MilestonePlans, NEW minimum \in MinDonations,
               Initialize(creator, goal, end, assets, plan, minimum),
               TypeOK'
        PROVE  PlanKept'
    <3>1. /\ milestones' = plan /\ plan \in Seq(MilestoneData)
          /\ ValidMilestones(plan, goal)
      BY <2>1, ArgumentTypes DEF Initialize
    <3>2. \A i \in DOMAIN plan : plan[i].target_amount > 0
      BY <3>1, TargetsPositive
    <3>3. Len(plan) <= MAX_MILESTONES
      BY <3>1, ConstantTypes, LenProperties DEF ValidMilestones
    <3>4. campaign' # None
      <4> DEFINE c == [creator |-> creator, goal_amount |-> goal,
                       raised_amount |-> 0, end_time |-> end,
                       status |-> "Active", accepted_assets |-> assets,
                       min_donation_amount |-> minimum]
      <4>1. c \in CampaignData
        BY ArgumentTypes DEF CampaignData, CampaignStatus
      <4> QED BY <2>1, <4>1, ConstantTypes DEF Initialize
    <3> QED BY <3>1, <3>2, <3>3, <3>4 DEF PlanKept
  <2>2. CASE UNCHANGED books
    BY <1>2, <2>2 DEF PlanKept, books
  <2>3. CASE campaign # None
    <3>1. CampaignStep /\ MilestoneStep
      BY <1>2, <2>3, StepForms
    <3>2. campaign' # None
      BY <1>2, <2>3, <3>1, CampaignKept
    <3>3. DOMAIN milestones' = DOMAIN milestones
      BY <3>1 DEF MilestoneStep, Unlock
    <3>4. \A i \in DOMAIN milestones :
             milestones'[i].target_amount = milestones[i].target_amount
      <4> SUFFICES ASSUME NEW i \in DOMAIN milestones
                   PROVE  milestones'[i].target_amount = milestones[i].target_amount
        OBVIOUS
      <4>1. milestones[i] \in MilestoneData
        BY <1>2, StoredTypes DEF TypeInv
      <4>2. ASSUME NEW r, milestones'[i] = ReleasedRecord(milestones[i], r)
            PROVE  milestones'[i].target_amount = milestones[i].target_amount
        BY <4>1, <4>2 DEF MilestoneData, ReleasedRecord
      <4>3. CASE milestones'[i] = [milestones[i] EXCEPT !.status = "Unlocked"]
        BY <4>1, <4>3 DEF MilestoneData
      <4> QED BY <1>2, <3>1, <4>2, <4>3, EachMilestone
    <3>5. Len(milestones') = Len(milestones)
      <4>1. TypeOK'
        BY <1>2, TypeInvNext DEF TypeInv
      <4>2. /\ Len(milestones) \in Nat /\ DOMAIN milestones = 1 .. Len(milestones)
            /\ Len(milestones') \in Nat
            /\ DOMAIN milestones' = 1 .. Len(milestones')
        <5>1. milestones \in Seq(MilestoneData) /\ milestones' \in Seq(MilestoneData)
          BY <1>2, <4>1 DEF TypeInv, TypeOK
        <5> QED BY <5>1, LenProperties
      <4>3. 1 .. Len(milestones) = 1 .. Len(milestones')
        BY <3>3, <4>2
      <4> HIDE <3>1, <3>3
      <4>4. \A m, n \in Nat : 1 .. m = 1 .. n => m = n
        <5> SUFFICES ASSUME NEW m \in Nat, NEW n \in Nat, 1 .. m = 1 .. n, m < n
                     PROVE  FALSE
          OBVIOUS
        <5>1. n \in 1 .. n /\ n \notin 1 .. m
          OBVIOUS
        <5> QED BY <5>1
      <4> QED BY <4>2, <4>3, <4>4
    <3> QED BY <1>2, <3>2, <3>3, <3>4, <3>5 DEF PlanKept
  <2>4. TypeOK'
    BY <1>2, TypeInvNext DEF TypeInv
  <2> QED BY <1>2, <2>1, <2>2, <2>3, <2>4, StepsBefore
<1> QED BY <1>1, <1>2, TypeInvAlways, PTL DEF Spec

\* No token's counter, and nothing ever donated in it, exceeds the total.
LEMMA DonatedBounded ==
    ASSUME TypeInv, Records, campaign # None, NEW t \in Token
    PROVE  /\ DonatedIn(t) \in Nat
           /\ DonatedIn(t) <= campaign.raised_amount
           /\ assetRaised[t] \in Nat /\ assetRaised[t] <= MaxRaised
<1> DEFINE f == [d \in Address |-> donorAsset[d][t]]
<1>1. \A d \in Address : f[d] \in Nat /\ GivenBy[d] \in Nat /\ f[d] <= GivenBy[d]
  BY RecordType, ContributionsBounded DEF TypeInv, GivenBy
<1>2. DonatedIn(t) = SumFunctionOnSet(f, Address) /\ IsFiniteSet(Address)
  BY DonatedIsSum, ConstantTypes
<1>3. /\ campaign.raised_amount = SumFunctionOnSet(GivenBy, Address)
      /\ campaign.raised_amount <= MaxRaised /\ MaxRaised \in Nat
      /\ campaign.raised_amount \in Nat
      /\ assetRaised[t] <= DonatedIn(t) /\ assetRaised[t] \in Nat
  BY ConstantTypes DEF Records, TypeInv, TypeOK, DonorsGave
<1> HIDE DEF f
<1>4. SumFunctionOnSet(f, Address) \in Nat
  BY <1>1, <1>2, SumNat
<1>5. SumFunctionOnSet(f, Address) <= SumFunctionOnSet(GivenBy, Address)
  BY <1>1, <1>2, SumAtMost
<1> QED BY <1>2, <1>3, <1>4, <1>5

\* What a step has to release: an unlocked milestone has released nothing yet,
\* and its target has been raised.
LEMMA UnlockedRelease ==
    ASSUME TypeInv, Records, Progress, PlanKept, campaign # None,
           NEW i \in DOMAIN milestones, milestones[i].status = "Unlocked"
    PROVE  /\ milestones[i].released_amount = 0
           /\ milestones[i].target_amount \in 1 .. MaxRaised
<1>1. milestones[i] \in MilestoneData
  BY StoredTypes DEF TypeInv
<1>2. /\ campaign.raised_amount \in Nat /\ campaign.raised_amount <= MaxRaised
      /\ MaxRaised \in Nat
  BY ConstantTypes DEF TypeInv, DonorsGave, Records
<1>3. /\ ~(campaign.raised_amount < milestones[i].target_amount)
      /\ milestones[i].released_amount = 0
  BY DEF Progress
<1>4. milestones[i].target_amount > 0 /\ milestones[i].target_amount \in Int
  BY <1>1 DEF PlanKept, MilestoneData
<1> QED BY <1>2, <1>3, <1>4

\* What a visit of the release loop takes out for token t.
VisitAmount(acc, t, release) ==
    IF t = None THEN 0
    ELSE ComputeAssetRelease(acc.raised[t], release, totalRaised)

LEMMA VisitEffect ==
    ASSUME NEW acc \in LoopBooks, NEW t \in Token \cup {None},
           NEW release \in Int, totalRaised \in Nat
    PROVE  LET amount == VisitAmount(acc, t, release)
               after  == PayListing(acc, t, release)
           IN  /\ after \in LoopBooks
               /\ amount \in Nat /\ after.paid = acc.paid + amount
               /\ t = None => amount = 0
               /\ t \in Token =>
                     /\ after.raised[t] = AtLeastZero(acc.raised[t] - amount)
                     /\ after.held[t] = acc.held[t] - amount
               /\ \A u \in Token \ {t} : /\ after.raised[u] = acc.raised[u]
                                         /\ after.held[u] = acc.held[u]
<1> DEFINE amount == VisitAmount(acc, t, release)
           after  == PayListing(acc, t, release)
<1>1. after \in LoopBooks
  BY PayListingType
<1>2. None \notin Token /\ (t = None => amount = 0)
  BY ConstantTypes DEF VisitAmount
<1>3. /\ acc.raised \in [Token -> 0 .. MaxI128] /\ acc.held \in [Token -> Int]
      /\ acc.paid \in Nat /\ MaxI128 \in Nat
  BY ConstantTypes DEF LoopBooks
<1>4. amount \in Nat
  <2>1. CASE t # None
    <3>1. acc.raised[t] \in Int
      BY <1>3, <2>1
    <3> QED BY <2>1, <3>1, ComputeAssetReleaseType DEF VisitAmount
  <2> QED BY <1>2, <2>1
<1>5. after = IF amount = 0 THEN acc
              ELSE [raised |-> [acc.raised EXCEPT ![t] = AtLeastZero(@ - amount)],
                    held   |-> [acc.held EXCEPT ![t] = @ - amount],
                    paid   |-> acc.paid + amount]
  BY DEF PayListing, VisitAmount
<1> HIDE DEF amount, after
<1>6. CASE amount = 0
  <2>1. \A u \in Token : AtLeastZero(acc.raised[u] - 0) = acc.raised[u]
                         /\ acc.held[u] - 0 = acc.held[u]
    BY <1>3 DEF AtLeastZero
  <2> QED BY <1>1, <1>2, <1>3, <1>4, <1>5, <1>6, <2>1 DEF amount, after
<1>7. CASE amount # 0
  <2>1. t \in Token
    BY <1>2, <1>7
  <2>2. /\ after.raised = [acc.raised EXCEPT ![t] = AtLeastZero(@ - amount)]
        /\ after.held = [acc.held EXCEPT ![t] = @ - amount]
        /\ after.paid = acc.paid + amount
    BY <1>5, <1>7
  <2> QED BY <1>1, <1>2, <1>3, <1>4, <2>1, <2>2 DEF amount, after
<1> QED BY <1>6, <1>7

\* A visit takes what the token counts at most, until a release larger than
\* the total empties it.
LEMMA VisitBounds ==
    ASSUME NEW raised \in Nat, NEW release \in Int, NEW total \in Nat, total > 0
    PROVE  /\ release <= total
                 => ComputeAssetRelease(raised, release, total) <= raised
           /\ release > 0 /\ InI128(raised * release)
                 => ComputeAssetRelease(raised, release, total)
                      = (raised * release) \div total
           /\ release > total /\ InI128(raised * release)
                 => ComputeAssetRelease(raised, release, total) >= raised
           /\ ComputeAssetRelease(raised, release, total) * total
                 <= raised * (IF release > 0 THEN release ELSE 0)
<1> DEFINE amount == ComputeAssetRelease(raised, release, total)
           product == raised * release
<1>1. product \in Int
  OBVIOUS
<1>2. CASE raised = 0
  <2>1. amount = 0 /\ product = 0
    BY <1>2 DEF ComputeAssetRelease
  <2>2. 0 \div total = 0
    BY QuotientUnique
  <2> QED BY <1>2, <2>1, <2>2
<1>3. CASE release <= 0
  <2>1. amount = 0
    BY <1>3 DEF ComputeAssetRelease
  <2> QED BY <1>3, <2>1
<1>4. CASE raised # 0 /\ release > 0
  <2>1. amount = IF InI128(product) THEN product \div total ELSE 0
    BY <1>4 DEF ComputeAssetRelease
  <2>2. /\ product \div total \in Int
        /\ (product \div total) * total <= product
    <3>1. product = total * (product \div total) + (product % total)
          /\ product \div total \in Int /\ 0 <= product % total
          /\ product % total \in Int
      BY <1>1, QuotientFacts
    <3> HIDE DEF product
    <3> QED BY <1>1, <3>1
  <2>3. product >= 0
    BY <1>4
  <2>4. release <= total => product <= raised * total
    BY ProductMonotonic
  <2>5. release > total => raised * total <= product
    BY ProductMonotonic
  <2>6. /\ release <= total => product \div total <= raised
        /\ release > total => raised <= product \div total
    <3> HIDE DEF product
    <3> QED BY <1>1, <2>4, <2>5, QuotientAtMost, QuotientAtLeast
  <2> HIDE DEF amount, product
  <2>7. /\ release <= total => amount <= raised
        /\ InI128(product) => amount = product \div total
        /\ release > total /\ InI128(product) => amount >= raised
        /\ amount * total <= product
    BY <1>1, <2>1, <2>2, <2>3, <2>6
  <2> QED BY <1>4, <2>7 DEF amount, product
<1> QED BY <1>2, <1>3, <1>4

\* The global counter is the sum of the token counters, and a token with a
\* counter is listed, so the release loop visits it.
Balanced ==
    /\ totalRaised = SumFunctionOnSet(assetRaised, Token)
    /\ \A t \in Token : assetRaised[t] > 0 =>
          /\ campaign # None
          /\ \E k \in DOMAIN campaign.accepted_assets :
                campaign.accepted_assets[k].issuer = t

LEMMA BalancedDonate ==
    ASSUME TypeInv, Balanced,
           NEW d \in Address, NEW amount \in DonationAmounts,
           NEW asset \in AssetInfo, Donate(d, amount, asset),
           campaign' # None, campaign'.accepted_assets = campaign.accepted_assets
    PROVE  Balanced'
<1> DEFINE token == TokenFor(asset, campaign.accepted_assets)
<1>1. /\ amount \in Nat \ {0} /\ token \in Token
      /\ \E k \in DOMAIN campaign.accepted_assets :
            campaign.accepted_assets[k].issuer = token
  BY DonateFacts
<1>2. /\ assetRaised' = [assetRaised EXCEPT ![token] = @ + amount]
      /\ totalRaised' = totalRaised + amount
  BY DEF Donate
<1> HIDE DEF token
<1>3. /\ IsFiniteSet(Token)
      /\ \A t \in Token : assetRaised[t] \in Int
      /\ assetRaised \in [Token -> 0 .. MaxI128] /\ totalRaised \in Int
  BY ConstantTypes DEF TypeInv, TypeOK
<1>4. /\ assetRaised'[token] = assetRaised[token] + amount
      /\ \A t \in Token \ {token} : assetRaised'[t] = assetRaised[t]
      /\ \A t \in Token : assetRaised'[t] \in Int
  BY <1>1, <1>2, <1>3
<1>5. SumFunctionOnSet(assetRaised', Token)
        = SumFunctionOnSet(assetRaised, Token) + assetRaised'[token]
            - assetRaised[token]
  BY <1>1, <1>3, <1>4, SumChange
<1>6. SumFunctionOnSet(assetRaised, Token) = totalRaised
  BY DEF Balanced
<1>7. totalRaised' = SumFunctionOnSet(assetRaised', Token)
  BY <1>1, <1>2, <1>3, <1>4, <1>5, <1>6
<1> QED BY <1>1, <1>4, <1>7 DEF Balanced

\* The release loop: up to the total every token keeps its part, beyond it
\* every token is emptied and the payouts cover the total.
LEMMA BalancedLoop ==
    ASSUME TypeInv, Records, Balanced, ProductsFit, campaign # None,
           totalRaised # 0, NEW release \in 1 .. MaxRaised
    PROVE  AtLeastZero(totalRaised - ReleaseLoop(release).paid)
              = SumFunctionOnSet(ReleaseLoop(release).raised, Token)
<1> DEFINE n == Len(campaign.accepted_assets)
           issuer(k) == campaign.accepted_assets[k].issuer
           Lowered(acc) == /\ acc \in LoopBooks
                           /\ \A t \in Token : acc.raised[t] <= assetRaised[t]
           Sum(acc) == acc.paid + SumFunctionOnSet(acc.raised, Token)
           Within(acc) == Lowered(acc) /\ Sum(acc) = totalRaised
           Beyond(acc, k) == /\ Lowered(acc) /\ Sum(acc) >= totalRaised
                             /\ \A j \in 1 .. k : issuer(j) # None
                                   => acc.raised[issuer(j)] = 0
           start == [raised |-> assetRaised, held |-> balance, paid |-> 0]
           visit(acc, k) == PayListing(acc, issuer(k), release)
           end == ReleaseLoop(release)
<1>1. /\ IsFiniteSet(Token) /\ n \in Nat /\ release \in Int /\ release > 0
      /\ totalRaised \in Nat /\ totalRaised > 0
      /\ \A t \in Token : /\ assetRaised[t] \in Nat
                          /\ assetRaised[t] <= MaxRaised
      /\ \A k \in 1 .. n : issuer(k) \in Token \cup {None}
      /\ DOMAIN campaign.accepted_assets = 1 .. n
      /\ None \notin Token
  BY ConstantTypes, StoredTypes, DonatedBounded DEF TypeInv, TypeOK
<1>2. Lowered(start) /\ Sum(start) = totalRaised
  <2>1. start \in LoopBooks
    BY DEF LoopBooks, TypeInv, TypeOK
  <2> QED BY <1>1, <2>1 DEF Balanced
<1>3. ASSUME NEW acc, Lowered(acc), NEW k \in 1 .. n
      PROVE  LET t == issuer(k)
                 amount == VisitAmount(acc, t, release)
             IN  /\ Lowered(visit(acc, k))
                 /\ t = None => visit(acc, k).raised = acc.raised /\ amount = 0
                 /\ t # None => /\ visit(acc, k).raised[t]
                                     = AtLeastZero(acc.raised[t] - amount)
                                /\ acc.raised[t] \in Nat
                                /\ InI128(acc.raised[t] * release)
                 /\ amount \in Nat
                 /\ Sum(visit(acc, k)) >= Sum(acc)
                 /\ t # None /\ amount <= acc.raised[t]
                       => Sum(visit(acc, k)) = Sum(acc)
                 /\ t = None => Sum(visit(acc, k)) = Sum(acc)
                 /\ \A u \in Token \ {t} : visit(acc, k).raised[u] = acc.raised[u]
  <2> DEFINE t == issuer(k)
             amount == VisitAmount(acc, t, release)
             after == visit(acc, k)
             f == acc.raised
             g == after.raised
  <2>1. t \in Token \cup {None} /\ acc \in LoopBooks
    BY <1>1, <1>3
  <2>2. /\ after \in LoopBooks
        /\ amount \in Nat /\ after.paid = acc.paid + amount
        /\ t = None => amount = 0
        /\ t \in Token => g[t] = AtLeastZero(f[t] - amount)
        /\ \A u \in Token \ {t} : g[u] = f[u]
    <3>1. after = PayListing(acc, t, release) /\ totalRaised \in Nat
          /\ release \in Int
      BY <1>1
    <3> HIDE DEF t, after
    <3> QED BY ONLY <2>1, <3>1, VisitEffect DEF amount, f, g
  <2>3. /\ f \in [Token -> 0 .. MaxI128] /\ g \in [Token -> 0 .. MaxI128]
        /\ acc.paid \in Nat /\ after.paid \in Nat /\ MaxI128 \in Nat
    BY <2>1, <2>2, ConstantTypes DEF LoopBooks
  <2>4. \A u \in Token : f[u] <= assetRaised[u]
    BY <1>3
  <2> HIDE DEF t, amount, after, f, g
  <2>5. \A u \in Token : f[u] \in Int /\ g[u] \in Int /\ f[u] \in Nat
    BY <2>3
  <2>6. /\ SumFunctionOnSet(f, Token) \in Int
        /\ SumFunctionOnSet(g, Token) \in Int
    BY <1>1, <2>5, SumInt
  <2>7. CASE t = None
    <3>1. \A u \in Token : g[u] = f[u]
      BY <1>1, <2>2, <2>7
    <3>2. g = f
      BY <2>3, <3>1
    <3> QED BY <1>1, <2>2, <2>3, <2>4, <2>6, <2>7, <3>1, <3>2
            DEF t, amount, after, f, g
  <2>8. CASE t \in Token
    <3>1. SumFunctionOnSet(g, Token) = SumFunctionOnSet(f, Token) + g[t] - f[t]
      BY <1>1, <2>2, <2>5, <2>8, SumChange
    <3>2. /\ g[t] = AtLeastZero(f[t] - amount) /\ f[t] \in Nat
          /\ g[t] >= f[t] - amount /\ g[t] <= f[t]
          /\ amount <= f[t] => g[t] = f[t] - amount
      BY <2>2, <2>5, <2>8 DEF AtLeastZero
    <3>3. \A u \in Token : g[u] <= assetRaised[u]
      BY <1>1, <2>2, <2>4, <2>5, <2>8, <3>2
    <3>4. InI128(f[t] * release)
      <4>1. f[t] \in Nat /\ f[t] <= MaxRaised /\ MaxRaised \in Nat
            /\ release <= MaxRaised /\ release \in Nat
        BY <1>1, <2>4, <2>8, <3>2, ConstantTypes
      <4>2. f[t] * release <= MaxRaised * release
            /\ MaxRaised * release <= MaxRaised * MaxRaised
        BY <4>1, ProductMonotonic
      <4>3. f[t] * release \in Nat /\ MaxRaised * release \in Int
            /\ MaxRaised * MaxRaised \in Int
        BY <4>1
      <4>4. MaxRaised * MaxRaised <= MaxI128
        BY SquaresFit
      <4> QED BY <2>3, <4>2, <4>3, <4>4 DEF InI128
    <3>5. /\ after.paid + SumFunctionOnSet(g, Token)
               >= acc.paid + SumFunctionOnSet(f, Token)
          /\ amount <= f[t] => after.paid + SumFunctionOnSet(g, Token)
                                  = acc.paid + SumFunctionOnSet(f, Token)
      <4> DEFINE F == SumFunctionOnSet(f, Token)
                 H == SumFunctionOnSet(g, Token)
      <4>1. /\ F \in Int /\ H = F + g[t] - f[t] /\ f[t] \in Int /\ g[t] \in Int
            /\ amount \in Int /\ acc.paid \in Int
            /\ after.paid = acc.paid + amount
        BY <2>2, <2>3, <2>5, <2>6, <2>8, <3>1
      <4> HIDE DEF F, H
      <4>2. after.paid + H >= acc.paid + F
            /\ (amount <= f[t] => after.paid + H = acc.paid + F)
        <5> DEFINE y == f[t]
                   z == g[t]
                   p == acc.paid
                   q == after.paid
        <5>1. /\ F \in Int /\ y \in Int /\ z \in Int /\ amount \in Int /\ p \in Int
              /\ H = F + z - y /\ q = p + amount /\ z >= y - amount
              /\ amount <= y => z = y - amount
          BY ONLY <3>2, <4>1
        <5> HIDE DEF y, z, p, q
        <5>2. q + H >= p + F /\ (amount <= y => q + H = p + F)
          BY ONLY <5>1
        <5> QED BY <5>2 DEF y, z, p, q
      <4> QED BY <4>2 DEF F, H
    <3> QED BY <1>1, <2>2, <2>8, <3>2, <3>3, <3>4, <3>5
            DEF t, amount, after, f, g
  <2> QED BY <2>1, <2>7, <2>8 DEF t
<1>4. CASE release <= totalRaised
  <2> DEFINE G == {acc \in LoopBooks : Within(acc)}
  <2>1. start \in G
    BY <1>2
  <2>2. ASSUME NEW acc \in G, NEW k \in 1 .. n
        PROVE  visit(acc, k) \in G
    <3> DEFINE t == issuer(k)
               amount == VisitAmount(acc, t, release)
    <3> HIDE DEF visit, Sum, Lowered
    <3>0. Lowered(acc) /\ Sum(acc) = totalRaised
      OBVIOUS
    <3>1. t # None => amount <= acc.raised[t]
      <4>1. ASSUME t # None
            PROVE  ComputeAssetRelease(acc.raised[t], release, totalRaised)
                     <= acc.raised[t]
        BY <1>1, <1>3, <1>4, <3>0, <4>1, VisitBounds
      <4> QED BY <4>1 DEF VisitAmount
    <3>2. Sum(visit(acc, k)) = Sum(acc) /\ Lowered(visit(acc, k))
      BY <1>3, <3>0, <3>1
    <3> QED BY <3>0, <3>2 DEF Lowered
  <2>3. end \in G
    <3> HIDE DEF G, n
    <3> QED BY <1>1, <2>1, <2>2, LoopInduction DEF n
  <2>4. Sum(end) = totalRaised /\ Lowered(end)
    BY <2>3
  <2> HIDE DEF end
  <2>5. /\ \A t \in Token : end.raised[t] \in Nat /\ end.paid \in Nat
        /\ end.paid \in Nat
    BY <2>4, ConstantTypes DEF LoopBooks
  <2>6. SumFunctionOnSet(end.raised, Token) \in Nat
    BY <1>1, <2>5, SumNat
  <2> QED BY <1>1, <2>4, <2>5, <2>6 DEF AtLeastZero, end
<1>5. CASE release > totalRaised
  <2> DEFINE G == [k \in 0 .. n |-> {acc \in LoopBooks : Beyond(acc, k)}]
  <2>1. start \in G[0]
    BY <1>1, <1>2
  <2>2. ASSUME NEW k \in 1 .. n, NEW acc \in G[k - 1]
        PROVE  visit(acc, k) \in G[k]
    <3> DEFINE t == issuer(k)
               amount == VisitAmount(acc, t, release)
    <3>a. k - 1 \in 0 .. n /\ k \in 0 .. n
      BY <1>1
    <3>b. Beyond(acc, k - 1)
      BY <3>a
    <3> HIDE DEF visit, Sum, Lowered
    <3>0. /\ Lowered(acc) /\ Sum(acc) >= totalRaised
          /\ \A j \in 1 .. k - 1 : issuer(j) # None => acc.raised[issuer(j)] = 0
      BY <3>b
    <3>1. t # None => visit(acc, k).raised[t] = 0
      <4>1. ASSUME t # None
            PROVE  acc.raised[t] \in Nat /\ amount \in Nat /\ amount >= acc.raised[t]
                   /\ visit(acc, k).raised[t] = AtLeastZero(acc.raised[t] - amount)
        <5>1. ComputeAssetRelease(acc.raised[t], release, totalRaised)
                 >= acc.raised[t]
          <6>1. acc.raised[t] \in Nat /\ InI128(acc.raised[t] * release)
            BY <1>3, <3>0, <4>1
          <6> HIDE DEF t, amount
          <6> QED BY <1>1, <1>5, <6>1, VisitBounds
        <5> QED BY <1>3, <3>0, <4>1, <5>1 DEF VisitAmount
      <4> HIDE DEF t, amount
      <4> QED BY <4>1 DEF AtLeastZero
    <3>2. /\ Sum(visit(acc, k)) >= Sum(acc) /\ Lowered(visit(acc, k))
          /\ \A u \in Token \ {t} : visit(acc, k).raised[u] = acc.raised[u]
          /\ t = None => visit(acc, k).raised = acc.raised
      BY <1>3, <3>0
    <3>3. Sum(visit(acc, k)) >= totalRaised
      <4>1. Sum(acc) \in Int /\ Sum(visit(acc, k)) \in Int
        <5>1. \A b : Lowered(b) => Sum(b) \in Int
          <6> SUFFICES ASSUME NEW b, Lowered(b) PROVE Sum(b) \in Int
            OBVIOUS
          <6>1. b.paid \in Int /\ \A u \in Token : b.raised[u] \in Int
            BY ConstantTypes DEF Lowered, LoopBooks
          <6>2. SumFunctionOnSet(b.raised, Token) \in Int
            BY <1>1, <6>1, SumInt
          <6> QED BY <6>1, <6>2 DEF Sum
        <5> QED BY <3>0, <3>2, <5>1
      <4> QED BY <1>1, <3>0, <3>2, <4>1
    <3>4. ASSUME NEW j \in 1 .. k, issuer(j) # None
          PROVE  visit(acc, k).raised[issuer(j)] = 0
      <4>1. CASE issuer(j) = t
        BY <3>1, <3>4, <4>1
      <4>2. CASE issuer(j) # t
        <5>1. j \in 1 .. k - 1
          BY <1>1, <4>2
        <5>2. issuer(j) \in Token
          BY <1>1, <3>4, <5>1
        <5> QED BY <3>0, <3>2, <3>4, <4>2, <5>1, <5>2
      <4> QED BY <4>1, <4>2
    <3>5. Beyond(visit(acc, k), k)
      BY <3>2, <3>3, <3>4
    <3> QED BY <3>a, <3>2, <3>5 DEF Lowered
  <2>3. end \in G[n]
    <3> HIDE DEF G, n
    <3> QED BY <1>1, <2>1, <2>2, LoopStages DEF n
  <2>4. Beyond(end, n)
    BY <1>1, <2>3
  <2> HIDE DEF end
  <2>5. ASSUME NEW t \in Token
        PROVE  end.raised[t] = 0
    <3>1. end.raised[t] \in Nat /\ end.raised[t] <= assetRaised[t]
      BY <2>4, ConstantTypes DEF LoopBooks
    <3>2. CASE assetRaised[t] = 0
      BY <3>1, <3>2
    <3>3. CASE assetRaised[t] # 0
      <4>1. assetRaised[t] > 0
        BY <1>1, <3>3
      <4>2. PICK k \in 1 .. n : issuer(k) = t
        BY <1>1, <4>1 DEF Balanced
      <4> QED BY <1>1, <2>4, <4>2
    <3> QED BY <3>2, <3>3
  <2>6. SumFunctionOnSet(end.raised, Token) = 0
    BY <1>1, <2>5, SumZero
  <2>7. end.paid \in Nat
    BY <2>4 DEF LoopBooks
  <2> QED BY <1>1, <2>4, <2>6, <2>7 DEF AtLeastZero, end
<1> QED BY <1>1, <1>4, <1>5

LEMMA BalancedNext ==
    ASSUME ProductsFit, TypeInv, Records, Progress, PlanKept,
           Balanced, [Next]_vars
    PROVE  Balanced'
<1>1. CASE campaign = None
  <2>1. totalRaised' = totalRaised /\ assetRaised' = assetRaised
    BY <1>1, StepsBefore DEF Initialize, books
  <2>2. \A t \in Token : ~(assetRaised[t] > 0)
    BY <1>1 DEF Balanced
  <2> QED BY <2>1, <2>2 DEF Balanced
<1>2. CASE campaign # None
  <2>1. /\ campaign' # None
        /\ campaign'.accepted_assets = campaign.accepted_assets
    BY <1>2, StepForms, CampaignKept
  <2>2. ASSUME NEW d \in Address, NEW amount \in DonationAmounts,
               NEW asset \in AssetInfo, Donate(d, amount, asset)
        PROVE  Balanced'
    BY <2>1, <2>2, BalancedDonate
  <2>3. ASSUME NEW caller \in Address, NEW i \in 1 .. MAX_MILESTONES,
               NEW recipient \in Recipients,
               ReleaseMilestoneMultiAsset(caller, i, recipient)
        PROVE  Balanced'
    <3> DEFINE release == milestones[i].target_amount
                            - milestones[i].released_amount
    <3>1. /\ i \in DOMAIN milestones /\ milestones[i].status = "Unlocked"
          /\ totalRaised # 0
          /\ assetRaised' = ReleaseLoop(release).raised
          /\ totalRaised' = AtLeastZero(totalRaised - ReleaseLoop(release).paid)
      BY <2>3 DEF ReleaseMilestoneMultiAsset
    <3>2. release \in 1 .. MaxRaised
      <4>1. /\ milestones[i].released_amount = 0
            /\ milestones[i].target_amount \in 1 .. MaxRaised
        BY <1>2, <3>1, UnlockedRelease
      <4> QED BY <4>1, ConstantTypes
    <3>3. release \in Int
      BY <3>2, ConstantTypes
    <3> HIDE DEF release
    <3>4. totalRaised' = SumFunctionOnSet(assetRaised', Token)
      BY <1>2, <3>1, <3>2, BalancedLoop
    <3>5. ASSUME NEW t \in Token, assetRaised'[t] > 0
          PROVE  assetRaised[t] > 0
      <4>1. assetRaised'[t] <= assetRaised[t]
        BY <1>2, <3>1, <3>3, LoopLowersCounters DEF TypeInv
      <4>2. assetRaised[t] \in Int /\ assetRaised'[t] \in Int
        BY ConstantTypes, TypeInvNext DEF TypeInv, TypeOK
      <4> QED BY <3>5, <4>1, <4>2
    <3> QED BY <1>2, <2>1, <3>4, <3>5 DEF Balanced
  <2>4. CASE totalRaised' = totalRaised /\ assetRaised' = assetRaised
    BY <1>2, <2>1, <2>4 DEF Balanced
  <2>5. CASE UNCHANGED books
    BY <2>4, <2>5 DEF books
  <2>6. CASE \/ \E caller \in Address : Freeze(caller) \/ Unfreeze(caller)
             \/ \E caller, successor \in Address : SetAdmin(caller, successor)
             \/ \E caller \in Address, hash \in WasmHash : Upgrade(caller, hash)
             \/ \E t \in Token, amount \in DepositAmounts : Deposit(t, amount)
             \/ CloseLedger
             \/ UNCHANGED vars
    BY <2>5, <2>6 DEF Freeze, Unfreeze, SetFrozen, SetAdmin, Upgrade, Deposit,
                      CloseLedger, vars
  <2>7. CASE \/ \E d \in Address : ClaimRefund(d)
             \/ \E caller \in Address, i \in 1 .. MAX_MILESTONES,
                   recipient \in Recipients :
                   ReleaseMilestone(caller, i, recipient)
             \/ \E caller \in Address : EndCampaign(caller) \/ CancelCampaign(caller)
             \/ \E caller \in Address, end \in EndTimes :
                   ExtendDeadline(caller, end)
    BY <2>4, <2>7 DEF ClaimRefund, ReleaseMilestone, EndCampaign, CancelCampaign,
                      ExtendDeadline
  <2>8. ASSUME NEW creator \in Address, NEW goal \in GoalAmounts,
               NEW end \in EndTimes, NEW assets \in AssetLists,
               NEW plan \in MilestonePlans, NEW minimum \in MinDonations,
               Initialize(creator, goal, end, assets, plan, minimum)
        PROVE  FALSE
    BY <1>2, <2>8 DEF Initialize
  <2> QED BY <2>2, <2>3, <2>6, <2>7, <2>8 DEF Next
<1> QED BY <1>1, <1>2

LEMMA BalancedAlways ==
    ASSUME FreshPlans, ProductsFit
    PROVE  Spec => []Balanced
<1>1. Init => Balanced
  <2> SUFFICES ASSUME Init PROVE Balanced
    OBVIOUS
  <2>1. totalRaised = 0 /\ \A t \in Token : assetRaised[t] = 0
    BY DEF Init
  <2>2. SumFunctionOnSet(assetRaised, Token) = 0
    BY <2>1, SumZero, ConstantTypes
  <2> QED BY <2>1, <2>2 DEF Balanced
<1>2. TypeInv /\ Records /\ Progress /\ PlanKept /\ Balanced
        /\ [Next]_vars => Balanced'
  BY BalancedNext
<1>3. Spec => []Progress
  BY ProgressAlways
<1> QED BY <1>1, <1>2, <1>3, TypeInvAlways, RecordsAlways, PlanKeptAlways, PTL
        DEF Spec

\* The contract's global counter and its counters by token never drift apart:
\* every release lowers both by the same amount, or empties both.
THEOREM CountersBalance ==
    ASSUME FreshPlans, ProductsFit
    PROVE  Spec => []BooksBalance
<1>1. ASSUME TypeInv, Balanced
      PROVE  BooksBalance
  <2>1. DOMAIN assetRaised = Token
    BY <1>1 DEF TypeInv, TypeOK
  <2> QED BY <1>1, <2>1 DEF BooksBalance, Balanced, SumFunction
<1>2. Spec => []Balanced
  BY BalancedAlways
<1> QED BY <1>1, <1>2, TypeInvAlways, PTL

-----------------------------------------------------------------------------
(***************************************************************************)
(* Refunds.                                                                *)
(***************************************************************************)

\* Wrapping leaves alone what fits, and never raises a natural.
LEMMA WrapFacts ==
    ASSUME NEW n \in Int
    PROVE  /\ InI128(n) => WrapI128(n) = n
           /\ n >= 0 => WrapI128(n) <= n
<1> DEFINE m == n + MaxI128 + 1
<1>1. /\ MaxI128 \in Nat /\ U128 = 2 * (MaxI128 + 1) /\ U128 \in Int /\ U128 > 0
      /\ m \in Int
  BY ConstantTypes DEF U128
<1>2. ASSUME InI128(n)
      PROVE  m % U128 = m
  <2>1. 0 <= m /\ m < U128 /\ m = U128 * 0 + m
    BY <1>1, <1>2 DEF InI128
  <2> HIDE DEF m
  <2> QED BY <1>1, <2>1, QuotientUnique
<1>3. ASSUME n >= 0
      PROVE  m % U128 <= m /\ m % U128 \in Int
  <2>1. m >= 0
    BY <1>1, <1>3
  <2> HIDE DEF m
  <2>2. /\ m = U128 * (m \div U128) + (m % U128) /\ m \div U128 \in Int
        /\ m % U128 \in Int
    BY <1>1, QuotientFacts
  <2>3. 0 <= m \div U128
    BY <1>1, <2>1, QuotientAtLeast
  <2>4. U128 * (m \div U128) >= 0
    BY <1>1, <2>2, <2>3
  <2>5. U128 * (m \div U128) \in Int
    BY <1>1, <2>2
  <2> QED BY <1>1, <2>2, <2>4, <2>5
<1> QED BY <1>1, <1>2, <1>3 DEF WrapI128

ReleasedOf == [i \in DOMAIN milestones |-> milestones[i].released_amount]

\* All milestones together have released a natural amount that products with
\* it leave within i128.
LEMMA TotalReleasedBounds ==
    ASSUME TypeInv, Records, Progress, PlanKept, campaign # None
    PROVE  /\ TotalReleased \in Nat
           /\ TotalReleased <= MAX_MILESTONES * MaxRaised
           /\ TotalReleased = SumFunctionOnSet(ReleasedOf, DOMAIN milestones)
<1>1. /\ Len(milestones) \in Nat /\ DOMAIN milestones = 1 .. Len(milestones)
      /\ \A i \in DOMAIN milestones : milestones[i] \in MilestoneData
      /\ Len(milestones) <= MAX_MILESTONES
      /\ MaxRaised \in Nat /\ MAX_MILESTONES \in Nat
      /\ campaign.raised_amount \in Nat /\ campaign.raised_amount <= MaxRaised
  BY StoredTypes, ConstantTypes DEF TypeInv, DonorsGave, Records, PlanKept
<1>2. ASSUME NEW i \in DOMAIN milestones
      PROVE  ReleasedOf[i] \in Nat /\ ReleasedOf[i] <= MaxRaised
  <2>1. milestones[i].target_amount \in Int /\ milestones[i].target_amount > 0
    BY <1>1 DEF PlanKept, MilestoneData
  <2>2. /\ milestones[i].status = "Locked"
              <=> campaign.raised_amount < milestones[i].target_amount
        /\ milestones[i].released_amount =
              IF milestones[i].status = "Released"
              THEN milestones[i].target_amount ELSE 0
    BY DEF Progress
  <2>3. ReleasedOf[i] = milestones[i].released_amount
    BY DEF ReleasedOf
  <2> QED BY <1>1, <2>1, <2>2, <2>3
<1>3. /\ IsFiniteSet(DOMAIN milestones)
      /\ Cardinality(DOMAIN milestones) = Len(milestones)
  <2>1. \A n \in Nat : IsFiniteSet(1 .. n) /\ Cardinality(1 .. n) = n
    <3> SUFFICES ASSUME NEW n \in Nat
                 PROVE  IsFiniteSet(1 .. n) /\ Cardinality(1 .. n) = n
      OBVIOUS
    <3>1. /\ IsFiniteSet(1 .. n)
          /\ Cardinality(1 .. n) = IF 1 > n THEN 0 ELSE n - 1 + 1
      BY FS_Interval, 1 \in Int, n \in Int
    <3> QED BY <3>1
  <2> QED BY <1>1, <2>1
<1>4. TotalReleased = SumFunctionOnSet(ReleasedOf, DOMAIN milestones)
  BY DEF TotalReleased, SumFunction, ReleasedOf
<1>5. TotalReleased \in Nat
  BY <1>2, <1>3, <1>4, SumNat
<1>6. SumFunctionOnSet(ReleasedOf, DOMAIN milestones)
        <= Cardinality(DOMAIN milestones) * MaxRaised
  <2> DEFINE D == DOMAIN milestones
             r == ReleasedOf
  <2>1. /\ IsFiniteSet(D) /\ MaxRaised \in Int
        /\ \A i \in D : r[i] \in Int /\ r[i] <= MaxRaised
    BY <1>1, <1>2, <1>3
  <2> HIDE DEF D, r
  <2>2. SumFunctionOnSet(r, D) <= Cardinality(D) * MaxRaised
    BY ONLY <2>1, SumBounded
  <2> QED BY <2>2 DEF D, r
<1>7. Len(milestones) * MaxRaised <= MAX_MILESTONES * MaxRaised
  BY <1>1, ProductMonotonic
<1>8. Len(milestones) * MaxRaised \in Int /\ MAX_MILESTONES * MaxRaised \in Int
  BY <1>1
<1>9. TotalReleased <= MAX_MILESTONES * MaxRaised
  BY <1>3, <1>4, <1>5, <1>6, <1>7, <1>8
<1> QED BY <1>4, <1>5, <1>9

\* What is left to refund of a campaign: nothing once more was released.
Left == IF campaign.raised_amount > TotalReleased
        THEN campaign.raised_amount - TotalReleased ELSE 0

\* A refund is at most the contribution, and at most its part of what is left:
\* when the product is exact.
LEMMA ExactRefundShare ==
    ASSUME ProductsFit, TypeInv, Records, Progress, PlanKept,
           campaign # None, NEW amount \in Nat, amount <= campaign.raised_amount
    PROVE  /\ RefundShare(amount) \in Nat
           /\ RefundShare(amount) <= amount
           /\ RefundShare(amount) * campaign.raised_amount <= amount * Left
<1> DEFINE raised == campaign.raised_amount
           left == raised - TotalReleased
           product == amount * left
           most == MAX_MILESTONES * (MaxRaised * MaxRaised)
<1>1. /\ raised \in Nat /\ raised <= MaxRaised /\ MaxRaised \in Nat
      /\ MaxI128 \in Nat /\ MAX_MILESTONES \in Nat /\ MAX_MILESTONES > 0
      /\ TotalReleased \in Nat
      /\ TotalReleased <= MAX_MILESTONES * MaxRaised
      /\ left \in Int /\ MAX_MILESTONES * MaxRaised \in Nat
  <2>1. /\ raised \in Nat /\ raised <= MaxRaised /\ MaxRaised \in Nat
        /\ MaxI128 \in Nat /\ MAX_MILESTONES \in Nat /\ MAX_MILESTONES > 0
    BY ConstantTypes DEF ProductsFit, TypeInv, DonorsGave, Records
  <2>2. TotalReleased \in Nat /\ TotalReleased <= MAX_MILESTONES * MaxRaised
    BY TotalReleasedBounds
  <2>3. MAX_MILESTONES * MaxRaised \in Nat
    BY <2>1
  <2> QED BY <2>1, <2>2, <2>3
<1>2. most <= MaxI128 /\ most \in Nat /\ product \in Int
  BY <1>1 DEF ProductsFit
<1>3. /\ -(MAX_MILESTONES * MaxRaised) <= left /\ left <= MaxRaised
  BY <1>1
<1>4. MAX_MILESTONES * MaxRaised <= most
  <2>1. CASE MaxRaised = 0
    BY <1>1, <2>1
  <2>2. CASE MaxRaised >= 1
    <3>1. MaxRaised * 1 <= MaxRaised * MaxRaised
      BY <1>1, <2>2, ProductMonotonic
    <3>2. MAX_MILESTONES * (MaxRaised * 1) <= MAX_MILESTONES * (MaxRaised * MaxRaised)
      BY <1>1, <3>1, ProductMonotonic
    <3> QED BY <1>1, <3>2
  <2> QED BY <1>1, <2>1, <2>2
<1>5. MaxRaised <= MAX_MILESTONES * MaxRaised
  <2>1. 1 * MaxRaised <= MAX_MILESTONES * MaxRaised
    BY <1>1, ProductMonotonic
  <2> QED BY <1>1, <2>1
<1>6. InI128(left)
  <2> HIDE DEF left, most
  <2> QED BY <1>1, <1>2, <1>3, <1>4, <1>5 DEF InI128
<1>7. -most <= product /\ product <= most
  <2> DEFINE bound == MAX_MILESTONES * MaxRaised
  <2>1. -bound <= left /\ left <= bound /\ bound \in Nat
    BY <1>1, <1>3, <1>5
  <2> HIDE DEF left, bound
  <2>2. amount * left <= amount * bound /\ amount * (-bound) <= amount * left
    BY <1>1, <2>1, ProductMonotonic
  <2>3. amount * bound <= MaxRaised * bound
    BY <1>1, <2>1, ProductMonotonic
  <2>4. amount * (-bound) = -(amount * bound)
    BY <2>1
  <2>5. MaxRaised * bound = most
    <3>1. \A x, y \in Nat : x * (y * x) = y * (x * x)
      OBVIOUS
    <3> QED BY <1>1, <3>1 DEF bound
  <2>6. amount * left \in Int /\ amount * bound \in Int /\ MaxRaised * bound \in Int
    BY <1>1, <2>1
  <2> QED BY <2>2, <2>3, <2>4, <2>5, <2>6
<1>8. InI128(product)
  <2> HIDE DEF product, most
  <2> QED BY <1>1, <1>2, <1>7 DEF InI128
<1>9. RefundShare(amount) = IF amount > 0 /\ product > 0
                            THEN product \div raised ELSE 0
  <2>1. WrapI128(left) = left
    BY <1>1, <1>6, WrapFacts
  <2>2. WrapI128(product) = product
    BY <1>2, <1>8, WrapFacts
  <2>3. WrapI128(amount * WrapI128(left)) = product
    BY <2>1, <2>2
  <2> QED BY <2>3 DEF RefundShare
<1>10. Left \in Nat /\ (left > 0 => Left = left)
  BY <1>1 DEF Left
<1>11. CASE ~(amount > 0 /\ product > 0)
  <2>1. RefundShare(amount) = 0 /\ 0 * raised = 0 /\ amount * Left >= 0
    BY <1>1, <1>9, <1>10, <1>11
  <2> QED BY <1>1, <2>1
<1>12. CASE amount > 0 /\ product > 0
  <2>1. left > 0 /\ raised >= left /\ raised > 0
    <3>1. left > 0
      <4>1. CASE left <= 0
        <5>1. amount * left <= amount * 0
          BY <1>1, <4>1, ProductMonotonic
        <5> QED BY <1>2, <1>12, <5>1
      <4> QED BY <1>1, <4>1
    <3> QED BY <1>1, <3>1
  <2>2. RefundShare(amount) = product \div raised
    BY <1>9, <1>12
  <2>3. product <= amount * raised
    BY <1>1, <2>1, ProductMonotonic
  <2> HIDE DEF product
  <2>4. product \div raised \in Int
        /\ product = raised * (product \div raised) + (product % raised)
        /\ 0 <= product % raised /\ product % raised \in Int
    BY <1>1, <1>2, <2>1, QuotientFacts
  <2>5. 0 <= product \div raised /\ product \div raised <= amount
    BY <1>1, <1>2, <1>12, <2>1, <2>3, QuotientAtLeast, QuotientAtMost
  <2>6. (product \div raised) * raised <= product
    BY <1>1, <1>2, <2>4
  <2>7. product = amount * Left
    BY <1>10, <2>1 DEF product
  <2> QED BY <2>2, <2>4, <2>5, <2>6, <2>7
<1> QED BY <1>11, <1>12

\* And when it may wrap, but nothing negative is multiplied.
LEMMA WrappedRefundShare ==
    ASSUME TypeInv, Records, Progress, PlanKept, campaign # None,
           TotalReleased <= campaign.raised_amount,
           NEW amount \in Nat, amount <= campaign.raised_amount
    PROVE  /\ RefundShare(amount) \in Nat
           /\ RefundShare(amount) <= amount
           /\ RefundShare(amount) * campaign.raised_amount <= amount * Left
<1> DEFINE raised == campaign.raised_amount
           left == raised - TotalReleased
           product == amount * left
           wrapped == WrapI128(product)
<1>1. /\ raised \in Nat /\ raised <= MaxRaised /\ MaxRaised \in Nat
      /\ MaxI128 \in Nat /\ MaxRaised <= MaxI128
      /\ TotalReleased \in Nat /\ left \in Nat /\ left <= raised
  <2>1. /\ raised \in Nat /\ raised <= MaxRaised /\ MaxRaised \in Nat
        /\ MaxI128 \in Nat /\ MaxRaised <= MaxI128
    BY ConstantTypes DEF TypeInv, DonorsGave, Records
  <2>2. TotalReleased \in Nat
    BY TotalReleasedBounds
  <2> QED BY <2>1, <2>2
<1>2. WrapI128(left) = left
  <2>1. InI128(left)
    <3> HIDE DEF left
    <3> QED BY <1>1 DEF InI128
  <2> QED BY <1>1, <2>1, WrapFacts
<1>3. Left = left
  BY <1>1 DEF Left
<1>4. product \in Nat
  <2> HIDE DEF left
  <2> QED BY <1>1
<1>5. wrapped \in Int /\ wrapped <= product
  <2> HIDE DEF product
  <2> QED BY <1>4, WrapFacts, IntegerHelpers
<1>6. RefundShare(amount) = IF amount > 0 /\ wrapped > 0
                            THEN wrapped \div raised ELSE 0
  BY <1>2 DEF RefundShare
<1>7. product <= amount * raised
  BY <1>1, ProductMonotonic
<1> HIDE DEF wrapped
<1>8. CASE ~(amount > 0 /\ wrapped > 0)
  <2>1. RefundShare(amount) = 0 /\ 0 * raised = 0 /\ amount * Left >= 0
    BY <1>1, <1>3, <1>4, <1>6, <1>8
  <2> QED BY <1>1, <2>1
<1>9. CASE amount > 0 /\ wrapped > 0
  <2>1. raised > 0 /\ RefundShare(amount) = wrapped \div raised
    BY <1>1, <1>6, <1>9
  <2>2. amount * Left = product
    BY <1>3
  <2> HIDE DEF product
  <2>3. /\ wrapped \div raised \in Int
        /\ wrapped = raised * (wrapped \div raised) + (wrapped % raised)
        /\ 0 <= wrapped % raised /\ wrapped % raised \in Int
    <3>1. raised \in Int /\ raised > 0 /\ wrapped \in Int
      BY <1>1, <1>5, <2>1
    <3> HIDE DEF raised
    <3> QED BY ONLY <3>1, QuotientFacts
  <2>4. wrapped <= amount * raised /\ amount * raised \in Int
    BY <1>1, <1>4, <1>5, <1>7
  <2>5. 0 <= wrapped \div raised /\ wrapped \div raised <= amount
    BY <1>1, <1>5, <1>9, <2>1, <2>4, QuotientAtLeast, QuotientAtMost
  <2>6. (wrapped \div raised) * raised <= wrapped
    BY <1>1, <1>5, <2>3
  <2>7. (wrapped \div raised) * raised \in Int /\ (wrapped \div raised) * raised <= product
    BY <1>1, <1>4, <1>5, <2>3, <2>6
  <2> QED BY <2>1, <2>2, <2>3, <2>5, <2>7
<1> QED BY <1>8, <1>9

\* When a refund cannot wrap to something larger.
RefundsFit == ProductsFit \/ TotalReleased <= campaign.raised_amount

LEMMA RefundShareBounds ==
    ASSUME RefundsFit, TypeInv, Records, Progress, PlanKept,
           campaign # None, NEW amount \in Nat, amount <= campaign.raised_amount
    PROVE  /\ RefundShare(amount) \in Nat
           /\ RefundShare(amount) <= amount
           /\ RefundShare(amount) * campaign.raised_amount <= amount * Left
<1>1. CASE ProductsFit
  BY <1>1, ExactRefundShare
<1>2. CASE TotalReleased <= campaign.raised_amount
  BY <1>2, WrappedRefundShare
<1> QED BY <1>1, <1>2 DEF RefundsFit

\* What a refund transfers in one token.
LEMMA RefundInBounds ==
    ASSUME RefundsFit, TypeInv, Records, Progress, PlanKept,
           campaign # None, NEW d \in Address, donors[d] # None, NEW t \in Token
    PROVE  /\ RefundIn(d, t) \in Nat
           /\ RefundIn(d, t) <= donorAsset[d][t]
           /\ RefundIn(d, t) * campaign.raised_amount <= donorAsset[d][t] * Left
<1> DEFINE c == donors[d].contributions
           f == [a \in AssetInfo |-> RefundShare(donors[d].contributions[a])]
           S == SelectorsOf(t)
<1>1. /\ OwnRecords(d) /\ RecordOf(d) = donors[d]
      /\ RecordOf(d).total_donated <= campaign.raised_amount
      /\ RecordOf(d).total_donated \in Nat
      /\ donorAsset[d][t] <= RecordOf(d).total_donated
      /\ donorAsset[d] \in [Token -> Nat]
      /\ \A a \in S : RecordOf(d).contributions[a] <= donorAsset[d][t]
  BY RecordType, ContributionsBounded DEF TypeInv, Records
<1>2. S \subseteq AssetInfo /\ IsFiniteSet(S)
  BY SelectorsFinite
<1>3. /\ campaign.raised_amount \in Nat /\ TotalReleased \in Nat
  BY TotalReleasedBounds DEF TypeInv, DonorsGave
<1>4. Left \in Nat
  BY <1>3 DEF Left
<1>5. /\ donorAsset[d][t] = SumFunctionOnSet(c, S)
      /\ \A a \in S : c[a] \in Nat /\ c[a] <= campaign.raised_amount
  <2>1. donorAsset[d][t] = SumFunctionOnSet(c, S)
        /\ \A a \in AssetInfo : c[a] \in Nat
    BY <1>1 DEF OwnRecords
  <2>2. \A a \in S : c[a] <= donorAsset[d][t]
    BY <1>1
  <2>3. donorAsset[d][t] \in Nat
    BY <1>1
  <2> HIDE DEF c, S
  <2> QED BY <1>1, <1>2, <1>3, <2>1, <2>2, <2>3
<1>6. RefundIn(d, t) = SumFunctionOnSet(f, S)
  BY DEF RefundIn, SelectorsOf
<1>7. ASSUME NEW a \in S
      PROVE  /\ f[a] \in Nat /\ f[a] <= c[a]
             /\ f[a] * campaign.raised_amount <= c[a] * Left
  <2>1. f[a] = RefundShare(c[a])
    BY <1>2
  <2> HIDE DEF f, c, S
  <2>2. c[a] \in Nat /\ c[a] <= campaign.raised_amount
    BY <1>5
  <2> QED BY <2>1, <2>2, RefundShareBounds
<1> HIDE DEF f, c, S
<1>8. SumFunctionOnSet(f, S) \in Nat
  BY <1>2, <1>7, SumNat
<1>9. SumFunctionOnSet(f, S) <= SumFunctionOnSet(c, S)
  BY <1>2, <1>5, <1>7, SumAtMost
<1>10. SumFunctionOnSet(f, S) * campaign.raised_amount
         <= SumFunctionOnSet(c, S) * Left
  <2>1. \A a \in S : /\ c[a] \in Int /\ f[a] \in Int
                     /\ f[a] * campaign.raised_amount <= c[a] * Left
    BY <1>5, <1>7
  <2>2. campaign.raised_amount \in Int /\ Left \in Int
    BY <1>3, <1>4
  <2> QED BY ONLY <1>2, <2>1, <2>2, SumScaled
<1> QED BY <1>5, <1>6, <1>8, <1>9, <1>10

\* Claims: only claim_refund sets the flag, of its caller.
LEMMA ClaimsChange ==
    ASSUME TypeInv, Records, [Next]_vars,
           NEW d \in Address, HasClaimed(d)' # HasClaimed(d)
    PROVE  ClaimRefund(d)
<1>1. ASSUME NEW e \in Address, ClaimRefund(e), e # d
      PROVE  HasClaimed(d)' = HasClaimed(d)
  <2>1. donors'[d] = donors[d]
    BY <1>1, RecordsAfterRefund
  <2> QED BY <2>1 DEF HasClaimed
<1>2. ASSUME NEW e \in Address, NEW amount \in DonationAmounts,
             NEW asset \in AssetInfo, Donate(e, amount, asset)
      PROVE  HasClaimed(d)' = HasClaimed(d)
  <2>1. /\ donors'[e] # None /\ RecordOf(e)'.refund_claimed = RecordOf(e).refund_claimed
        /\ \A x \in Address \ {e} : donors'[x] = donors[x]
    BY <1>2, RecordAfterDonation
  <2>2. CASE e # d
    BY <2>1, <2>2 DEF HasClaimed
  <2>3. CASE e = d
    <3>1. RecordOf(d)' = donors'[d]
      BY <2>1, <2>3 DEF RecordOf
    <3>2. HasClaimed(d)' = RecordOf(d).refund_claimed
      <4>1. RecordOf(d).refund_claimed \in BOOLEAN
        BY RecordType DEF TypeInv, DonorRecord
      <4>2. donors'[d].refund_claimed = RecordOf(d).refund_claimed
        BY <2>1, <2>3, <3>1
      <4> QED BY <2>1, <2>3, <4>1, <4>2, Zenon DEF HasClaimed
    <3>3. CASE donors[d] = None
      <4>1. RecordOf(d).refund_claimed = FALSE
        BY <3>3 DEF RecordOf, NewDonor
      <4> QED BY <3>2, <3>3, <4>1 DEF HasClaimed
    <3>4. CASE donors[d] # None
      <4>1. RecordOf(d) = donors[d] /\ donors[d].refund_claimed \in BOOLEAN
        BY <3>4 DEF RecordOf, TypeInv, TypeOK, DonorRecord
      <4> QED BY <3>2, <3>4, <4>1 DEF HasClaimed
    <3> QED BY <3>3, <3>4
  <2> QED BY <2>2, <2>3
<1>3. CASE donors' = donors
  BY <1>3 DEF HasClaimed
<1>4. CASE UNCHANGED books
  BY <1>3, <1>4 DEF books
<1>5. CASE \/ \E caller \in Address : Freeze(caller) \/ Unfreeze(caller)
           \/ \E caller, successor \in Address : SetAdmin(caller, successor)
           \/ \E caller \in Address, hash \in WasmHash : Upgrade(caller, hash)
           \/ \E t \in Token, amount \in DepositAmounts : Deposit(t, amount)
           \/ CloseLedger
           \/ UNCHANGED vars
  BY <1>4, <1>5 DEF Freeze, Unfreeze, SetFrozen, SetAdmin, Upgrade, Deposit,
                    CloseLedger, vars
<1>6. CASE \/ \E creator \in Address, goal \in GoalAmounts, end \in EndTimes,
                 assets \in AssetLists, plan \in MilestonePlans,
                 minimum \in MinDonations :
                 Initialize(creator, goal, end, assets, plan, minimum)
           \/ \E caller \in Address, i \in 1 .. MAX_MILESTONES,
                 recipient \in Recipients :
                 \/ ReleaseMilestone(caller, i, recipient)
                 \/ ReleaseMilestoneMultiAsset(caller, i, recipient)
           \/ \E caller \in Address : EndCampaign(caller) \/ CancelCampaign(caller)
           \/ \E caller \in Address, end \in EndTimes :
                 ExtendDeadline(caller, end)
  <2>1. donors' = donors
    <3>1. ASSUME NEW caller \in Address, NEW i \in 1 .. MAX_MILESTONES,
                 NEW recipient \in Recipients,
                 \/ ReleaseMilestone(caller, i, recipient)
                 \/ ReleaseMilestoneMultiAsset(caller, i, recipient)
          PROVE  donors' = donors
      BY <3>1 DEF ReleaseMilestone, ReleaseMilestoneMultiAsset
    <3>2. ASSUME NEW creator \in Address, NEW goal \in GoalAmounts,
                 NEW end \in EndTimes, NEW assets \in AssetLists,
                 NEW plan \in MilestonePlans, NEW minimum \in MinDonations,
                 Initialize(creator, goal, end, assets, plan, minimum)
          PROVE  donors' = donors
      BY <3>2 DEF Initialize
    <3>3. ASSUME NEW caller \in Address,
                 \/ EndCampaign(caller) \/ CancelCampaign(caller)
                 \/ \E end \in EndTimes : ExtendDeadline(caller, end)
          PROVE  donors' = donors
      BY <3>3 DEF EndCampaign, CancelCampaign, ExtendDeadline
    <3> QED BY <1>6, <3>1, <3>2, <3>3
  <2> QED BY <1>3, <2>1
<1> QED BY <1>1, <1>2, <1>5, <1>6 DEF Next

\* A refund goes once to a donor that the view called eligible, and pays no
\* more in any token than the donor gave in it, although the refund multiplies
\* with wrapping arithmetic and the contributions sit in another entry.
THEOREM RefundsOnceAndBounded ==
    ASSUME FreshPlans, ProductsFit
    PROVE  Spec => RefundOnceWithinDonation
<1>1. ASSUME TypeInv, Records, Progress, PlanKept, [Next]_vars,
             NEW d \in Address
      PROVE  /\ HasClaimed(d) => HasClaimed(d)'
             /\ ~HasClaimed(d) /\ HasClaimed(d)' =>
                   /\ IsRefundEligible(d) /\ ~IsRefundEligible(d)'
                   /\ \A t \in Token :
                         balance[t] - balance'[t] \in 0 .. donorAsset[d][t]
                   /\ \A e \in Address \ {d} : donors'[e] = donors[e]
  <2>1. HasClaimed(d) \in BOOLEAN /\ HasClaimed(d)' \in BOOLEAN
    <3>1. TypeOK'
      BY <1>1, TypeInvNext DEF TypeInv
    <3> QED BY <1>1, <3>1 DEF HasClaimed, TypeInv, TypeOK, DonorRecord
  <2>2. CASE HasClaimed(d)' = HasClaimed(d)
    BY <2>2
  <2>3. CASE HasClaimed(d)' # HasClaimed(d)
    <3>1. ClaimRefund(d)
      BY <1>1, <2>3, ClaimsChange
    <3>2. /\ donors'[d] # None /\ donors'[d].refund_claimed
          /\ \A e \in Address \ {d} : donors'[e] = donors[e]
      BY <1>1, <3>1, RecordsAfterRefund
    <3>3. HasClaimed(d)' /\ ~IsRefundEligible(d)'
      BY <3>2 DEF HasClaimed, IsRefundEligible
    <3>4. IsRefundEligible(d)
      BY <3>1 DEF ClaimRefund, IsRefundEligible, IsTerminal
    <3>5. ASSUME NEW t \in Token
          PROVE  balance[t] - balance'[t] \in 0 .. donorAsset[d][t]
      <4>1. /\ campaign # None /\ donors[d] # None
            /\ balance'[t] = balance[t] - RefundIn(d, t)
        BY <3>1 DEF ClaimRefund
      <4>2. RefundIn(d, t) \in Nat /\ RefundIn(d, t) <= donorAsset[d][t]
        BY <1>1, <4>1, RefundInBounds DEF RefundsFit
      <4>3. balance[t] \in Nat /\ donorAsset[d][t] \in Nat
        BY <1>1, RecordType DEF TypeInv, TypeOK
      <4> QED BY <4>1, <4>2, <4>3
    <3> QED BY <2>1, <2>3, <3>2, <3>3, <3>4, <3>5
  <2> QED BY <2>2, <2>3
<1>2. TypeInv /\ Records /\ Progress /\ PlanKept /\ [Next]_vars
        => \A d \in Address :
             /\ HasClaimed(d) => HasClaimed(d)'
             /\ ~HasClaimed(d) /\ HasClaimed(d)' =>
                   /\ IsRefundEligible(d) /\ ~IsRefundEligible(d)'
                   /\ \A t \in Token :
                         balance[t] - balance'[t] \in 0 .. donorAsset[d][t]
                   /\ \A e \in Address \ {d} : donors'[e] = donors[e]
  BY <1>1
<1>3. Spec => []Progress
  BY ProgressAlways
<1> QED BY <1>2, <1>3, TypeInvAlways, RecordsAlways, PlanKeptAlways, PTL
        DEF Spec, RefundOnceWithinDonation

\* Whatever the size of the amounts, and although the products of a refund may
\* wrap, it never exceeds the gift before the milestones have released more than
\* was raised.  After that only ProductsFit keeps it within the gift.
THEOREM WrappedRefundsBounded ==
    ASSUME FreshPlans
    PROVE  Spec => WrappedRefundsStayWithin
<1>1. ASSUME TypeInv, Records, Progress, PlanKept, [Next]_vars,
             NEW d \in Address, ~HasClaimed(d), HasClaimed(d)',
             TotalReleased <= campaign.raised_amount
      PROVE  /\ IsRefundEligible(d) /\ ~IsRefundEligible(d)'
             /\ \A t \in Token :
                   balance[t] - balance'[t] \in 0 .. donorAsset[d][t]
  <2>1. ClaimRefund(d)
    BY <1>1, ClaimsChange
  <2>2. donors'[d].refund_claimed
    BY <1>1, <2>1, RecordsAfterRefund
  <2>3. IsRefundEligible(d) /\ ~IsRefundEligible(d)'
    BY <2>1, <2>2 DEF ClaimRefund, IsRefundEligible, IsTerminal
  <2>4. ASSUME NEW t \in Token
        PROVE  balance[t] - balance'[t] \in 0 .. donorAsset[d][t]
    <3>1. /\ campaign # None /\ donors[d] # None
          /\ balance'[t] = balance[t] - RefundIn(d, t)
      BY <2>1 DEF ClaimRefund
    <3>2. RefundIn(d, t) \in Nat /\ RefundIn(d, t) <= donorAsset[d][t]
      BY <1>1, <3>1, RefundInBounds DEF RefundsFit
    <3>3. balance[t] \in Nat /\ donorAsset[d][t] \in Nat
      BY <1>1, RecordType DEF TypeInv, TypeOK
    <3> QED BY <3>1, <3>2, <3>3
  <2> QED BY <2>3, <2>4
<1>2. TypeInv /\ Records /\ Progress /\ PlanKept /\ [Next]_vars
        => \A d \in Address :
             /\ ~HasClaimed(d) /\ HasClaimed(d)'
             /\ TotalReleased <= campaign.raised_amount
             => /\ IsRefundEligible(d) /\ ~IsRefundEligible(d)'
                /\ \A t \in Token :
                      balance[t] - balance'[t] \in 0 .. donorAsset[d][t]
  BY <1>1
<1>3. Spec => []Progress
  BY ProgressAlways
<1> QED BY <1>2, <1>3, TypeInvAlways, RecordsAlways, PlanKeptAlways, PTL
        DEF Spec, WrappedRefundsStayWithin

-----------------------------------------------------------------------------
(***************************************************************************)
(* Payouts.  What left the contract is what it received less what it       *)
(* holds; a release takes its milestone's target at most, a refund its     *)
(* donor's total at most.                                                  *)
(***************************************************************************)
RefundedTo ==
    [d \in Address |-> IF HasClaimed(d) THEN donors[d].total_donated ELSE 0]

Outgoing == SumFunctionOnSet(deposited, Token) - SumFunctionOnSet(balance, Token)

Accounted ==
    /\ \A t \in Token : balance[t] <= deposited[t]
    /\ campaign = None => balance = deposited
    /\ campaign # None /\ DistinctListings =>
          Outgoing <= TotalReleased + SumFunctionOnSet(RefundedTo, Address)

LEMMA FundsType ==
    ASSUME TypeOK
    PROVE  /\ IsFiniteSet(Token)
           /\ \A t \in Token : balance[t] \in Nat /\ deposited[t] \in Nat
           /\ SumFunctionOnSet(deposited, Token) \in Int
           /\ SumFunctionOnSet(balance, Token) \in Int
           /\ Outgoing \in Int
<1>1. /\ IsFiniteSet(Token)
      /\ \A t \in Token : balance[t] \in Nat /\ deposited[t] \in Nat
  BY ConstantTypes DEF TypeOK
<1>2. /\ SumFunctionOnSet(deposited, Token) \in Int
      /\ SumFunctionOnSet(balance, Token) \in Int
  BY <1>1, SumNat
<1> QED BY <1>1, <1>2 DEF Outgoing

LEMMA RefundedType ==
    ASSUME TypeInv, Records, campaign # None
    PROVE  /\ IsFiniteSet(Address)
           /\ \A d \in Address : RefundedTo[d] \in Nat
           /\ SumFunctionOnSet(RefundedTo, Address) \in Nat
<1>1. IsFiniteSet(Address)
  BY ConstantTypes
<1>2. ASSUME NEW d \in Address
      PROVE  RefundedTo[d] \in Nat
  <2>1. /\ RecordOf(d).total_donated \in Nat
        /\ donors[d] # None => RecordOf(d) = donors[d]
    BY ContributionsBounded, RecordType DEF TypeInv
  <2> QED BY <2>1 DEF RefundedTo, HasClaimed
<1>3. SumFunctionOnSet(RefundedTo, Address) \in Nat
  BY <1>1, <1>2, SumNat
<1> QED BY <1>1, <1>2, <1>3

\* A token listed once is listed at one position.
LEMMA OneListing ==
    ASSUME TypeOK, campaign # None, DistinctListings, NEW t \in Token,
           NEW j \in DOMAIN campaign.accepted_assets,
           NEW k \in DOMAIN campaign.accepted_assets,
           campaign.accepted_assets[j].issuer = t,
           campaign.accepted_assets[k].issuer = t
    PROVE  j = k
<1> DEFINE S == {i \in DOMAIN campaign.accepted_assets :
                    campaign.accepted_assets[i].issuer = t}
<1>1. IsFiniteSet(DOMAIN campaign.accepted_assets)
  <2>1. /\ Len(campaign.accepted_assets) \in Int
        /\ DOMAIN campaign.accepted_assets = 1 .. Len(campaign.accepted_assets)
    BY StoredTypes
  <2>2. \A n \in Int : IsFiniteSet(1 .. n)
    BY FS_Interval, 1 \in Int
  <2>3. IsFiniteSet(1 .. Len(campaign.accepted_assets))
    BY <2>1, <2>2
  <2> QED BY <2>1, <2>3, Zenon
<1>2. IsFiniteSet(S) /\ Cardinality(S) <= 1 /\ j \in S /\ k \in S
  BY <1>1, FS_Subset DEF DistinctListings, Listings
<1> HIDE DEF S
<1> SUFFICES ASSUME j # k PROVE FALSE
  OBVIOUS
<1>3. IsFiniteSet(S \ {j}) /\ Cardinality(S \ {j}) = Cardinality(S) - 1
  BY <1>2, FS_RemoveElement
<1>4. Cardinality(S) \in Nat /\ Cardinality(S \ {j}) \in Nat
  BY <1>2, <1>3, FS_CardinalityType
<1>5. Cardinality(S \ {j}) = 0
  BY <1>2, <1>3, <1>4
<1>6. S \ {j} = {}
  BY <1>3, <1>5, FS_EmptySet
<1> QED BY <1>2, <1>6

\* release_milestone's u128 arithmetic rounds down and never wraps upwards.
LEMMA ProportionalBound ==
    ASSUME NEW raised \in Nat, NEW release \in Nat, NEW total \in Nat,
           total > 0 \/ raised = 0
    PROVE  /\ ProportionalAmount(raised, release, total) \in Nat
           /\ ProportionalAmount(raised, release, total) * total
                <= raised * release
<1> DEFINE m == raised * release
           r == m % U128
           q == r \div total
<1>1. m \in Nat /\ U128 \in Nat /\ U128 > 0
  BY ConstantTypes DEF U128
<1>2. CASE raised = 0
  <2>1. ProportionalAmount(raised, release, total) = 0 /\ m = 0
    BY <1>2 DEF ProportionalAmount
  <2> QED BY <2>1
<1>3. CASE raised # 0
  <2>1. ProportionalAmount(raised, release, total) = AtLeastZero(WrapI128(q))
    BY <1>3 DEF ProportionalAmount
  <2> HIDE DEF m
  <2>2. r \in Nat /\ r <= m
    <3>1. /\ m = U128 * (m \div U128) + (m % U128) /\ m \div U128 \in Int
          /\ m % U128 \in Int /\ 0 <= m % U128
      BY <1>1, QuotientFacts
    <3>2. 0 <= m \div U128
      BY <1>1, QuotientAtLeast
    <3>3. U128 * (m \div U128) >= 0 /\ U128 * (m \div U128) \in Int
      BY <1>1, <3>1, <3>2
    <3> QED BY <1>1, <3>1, <3>3
  <2> HIDE DEF r
  <2>3. q \in Int /\ q >= 0 /\ q * total <= r
    <3>1. /\ r = total * (r \div total) + (r % total) /\ r \div total \in Int
          /\ r % total \in Int /\ 0 <= r % total
      BY <1>3, <2>2, QuotientFacts
    <3>2. 0 <= r \div total
      BY <1>3, <2>2, QuotientAtLeast
    <3> QED BY <2>2, <3>1, <3>2
  <2> HIDE DEF q
  <2>4. WrapI128(q) <= q /\ WrapI128(q) \in Int
    BY <2>3, WrapFacts, IntegerHelpers
  <2>5. AtLeastZero(WrapI128(q)) <= q /\ AtLeastZero(WrapI128(q)) \in Nat
    BY <2>3, <2>4 DEF AtLeastZero
  <2>6. AtLeastZero(WrapI128(q)) * total <= q * total
    BY <2>3, <2>5, ProductMonotonic
  <2>7. AtLeastZero(WrapI128(q)) * total \in Int /\ q * total \in Int
    BY <2>3, <2>5
  <2> QED BY <1>1, <2>1, <2>2, <2>3, <2>5, <2>6, <2>7 DEF m
<1> QED BY <1>2, <1>3

\* Shares of the tokens' counters, each rounded down, add up to the release.
LEMMA SharesWithinRelease ==
    ASSUME TypeInv, Balanced, totalRaised > 0, NEW release \in Nat, NEW share,
           \A t \in Token : /\ share[t] \in Nat
                            /\ share[t] * totalRaised <= assetRaised[t] * release
    PROVE  SumFunctionOnSet(share, Token) \in Nat
           /\ SumFunctionOnSet(share, Token) <= release
<1>1. /\ IsFiniteSet(Token) /\ totalRaised \in Nat
      /\ \A t \in Token : assetRaised[t] \in Int /\ share[t] \in Int
      /\ totalRaised = SumFunctionOnSet(assetRaised, Token)
  BY ConstantTypes DEF TypeInv, TypeOK, Balanced
<1>2. SumFunctionOnSet(share, Token) \in Nat
  BY <1>1, SumNat
<1>3. SumFunctionOnSet(share, Token) * totalRaised <= totalRaised * release
  BY <1>1, SumScaled
<1>4. \A a, b, n \in Nat : n > 0 /\ a * n <= n * b => a <= b
  <2> SUFFICES ASSUME NEW a \in Nat, NEW b \in Nat, NEW n \in Nat, n > 0,
                      a * n <= n * b, b + 1 <= a
               PROVE  FALSE
    OBVIOUS
  <2>1. (b + 1) * n <= a * n
    BY ProductMonotonic
  <2>2. (b + 1) * n = n * b + n
    OBVIOUS
  <2>3. (b + 1) * n \in Int /\ a * n \in Int /\ n * b \in Int
    OBVIOUS
  <2> QED BY <2>1, <2>2, <2>3
<1> QED BY <1>1, <1>2, <1>3, <1>4

\* Unlocking releases nothing; releasing a milestone releases its target.
LEMMA TotalReleasedChange ==
    ASSUME TypeInv, Records, Progress, PlanKept, campaign # None
    PROVE  /\ milestones' = milestones => TotalReleased' = TotalReleased
           /\ \A raised : milestones' = Unlock(milestones, raised)
                 => TotalReleased' = TotalReleased
           /\ \A r : \A i \in DOMAIN milestones :
                 /\ milestones[i].status = "Unlocked"
                 /\ milestones' = [milestones EXCEPT
                                      ![i] = ReleasedRecord(milestones[i], r)]
                 => TotalReleased' = TotalReleased + milestones[i].target_amount
<1>1. /\ TotalReleased \in Nat
      /\ TotalReleased = SumFunctionOnSet(ReleasedOf, DOMAIN milestones)
      /\ IsFiniteSet(DOMAIN milestones)
      /\ \A i \in DOMAIN milestones : /\ milestones[i] \in MilestoneData
                                      /\ ReleasedOf[i] \in Int
  <2>1. /\ TotalReleased \in Nat
        /\ TotalReleased = SumFunctionOnSet(ReleasedOf, DOMAIN milestones)
    BY TotalReleasedBounds
  <2>2. \A i \in DOMAIN milestones : milestones[i] \in MilestoneData
    BY StoredTypes DEF TypeInv
  <2>3. IsFiniteSet(DOMAIN milestones)
    <3>1. \A n \in Nat : IsFiniteSet(1 .. n)
      BY FS_Interval, 1 \in Int
    <3> QED BY <3>1, StoredTypes DEF TypeInv
  <2> QED BY <2>1, <2>2, <2>3 DEF ReleasedOf, MilestoneData
<1>2. TotalReleased' = SumFunctionOnSet(ReleasedOf', DOMAIN milestones')
  BY DEF TotalReleased, SumFunction, ReleasedOf
<1>3. ASSUME milestones' = milestones
      PROVE  TotalReleased' = TotalReleased
  <2>1. ReleasedOf' = ReleasedOf
    BY <1>3 DEF ReleasedOf
  <2> QED BY <1>1, <1>2, <1>3, <2>1
<1>4. ASSUME NEW raised, milestones' = Unlock(milestones, raised)
      PROVE  TotalReleased' = TotalReleased
  <2>1. DOMAIN milestones' = DOMAIN milestones
    BY <1>4 DEF Unlock
  <2>2. ASSUME NEW i \in DOMAIN milestones
        PROVE  milestones'[i].released_amount = milestones[i].released_amount
    <3>1. \/ milestones'[i] = milestones[i]
          \/ milestones'[i] = [milestones[i] EXCEPT !.status = "Unlocked"]
      BY <1>4 DEF Unlock
    <3> QED BY <1>1, <3>1 DEF MilestoneData
  <2>3. ReleasedOf' = ReleasedOf
    BY <2>1, <2>2 DEF ReleasedOf
  <2> QED BY <1>1, <1>2, <2>1, <2>3
<1>5. ASSUME NEW i \in DOMAIN milestones, NEW r,
             milestones[i].status = "Unlocked",
             milestones' = [milestones EXCEPT
                               ![i] = ReleasedRecord(milestones[i], r)]
      PROVE  TotalReleased' = TotalReleased + milestones[i].target_amount
  <2>1. DOMAIN milestones' = DOMAIN milestones
        /\ milestones'[i] = ReleasedRecord(milestones[i], r)
        /\ \A j \in DOMAIN milestones \ {i} : milestones'[j] = milestones[j]
    BY <1>5
  <2>2. /\ milestones[i].released_amount = 0
        /\ milestones[i].target_amount \in Int
    BY <1>1, <1>5, UnlockedRelease DEF MilestoneData
  <2>3. milestones'[i].released_amount = milestones[i].target_amount
    BY <1>1, <2>1 DEF MilestoneData, ReleasedRecord
  <2>4. /\ ReleasedOf[i] = 0 /\ ReleasedOf'[i] = milestones[i].target_amount
        /\ \A j \in DOMAIN milestones \ {i} : ReleasedOf'[j] = ReleasedOf[j]
    BY <2>1, <2>2, <2>3 DEF ReleasedOf
  <2>5. \A j \in DOMAIN milestones : ReleasedOf'[j] \in Int
    BY <1>1, <2>2, <2>4
  <2>6. SumFunctionOnSet(ReleasedOf', DOMAIN milestones)
          = SumFunctionOnSet(ReleasedOf, DOMAIN milestones) + ReleasedOf'[i]
              - ReleasedOf[i]
    BY <1>1, <2>4, <2>5, SumChange
  <2> QED BY <1>1, <1>2, <2>1, <2>2, <2>4, <2>6
<1> QED BY <1>3, <1>4, <1>5

\* release_milestone pays at most its milestone's target.
LEMMA ReleasePays ==
    ASSUME TypeInv, Records, Progress, PlanKept, Balanced,
           DistinctListings, NEW caller \in Address, NEW i \in DOMAIN milestones,
           NEW recipient \in Recipients, ReleaseMilestone(caller, i, recipient)
    PROVE  /\ \A t \in Token : balance'[t] <= balance[t]
           /\ Outgoing' <= Outgoing + milestones[i].target_amount
<1> DEFINE release == milestones[i].target_amount - milestones[i].released_amount
           amount(t) == ProportionalAmount(assetRaised[t], release, totalRaised)
           paid == [t \in Token |-> IF recipient = Contract \/ Listings(t) = 0
                                    THEN 0 ELSE amount(t)]
<1>1. /\ campaign # None /\ milestones[i].status = "Unlocked"
      /\ \A t \in Token : Listings(t) > 0 /\ assetRaised[t] # 0 => totalRaised # 0
      /\ balance' = IF recipient = Contract THEN balance
                    ELSE [t \in Token |-> IF Listings(t) = 0 THEN balance[t]
                                  ELSE balance[t] - Listings(t) * amount(t)]
      /\ deposited' = deposited
  BY DEF ReleaseMilestone
<1>2. release \in Nat /\ release = milestones[i].target_amount
  <2>1. /\ milestones[i].released_amount = 0
        /\ milestones[i].target_amount \in 1 .. MaxRaised
    BY <1>1, UnlockedRelease
  <2> QED BY <2>1, ConstantTypes
<1> HIDE DEF release
<1>3. ASSUME NEW t \in Token, Listings(t) # 0
      PROVE  /\ Listings(t) = 1 /\ amount(t) \in Nat
             /\ amount(t) * totalRaised <= assetRaised[t] * release
             /\ totalRaised = 0 => amount(t) = 0
  <2>1. Listings(t) = 1
    BY <1>1, <1>3, ListingsType DEF TypeInv, DistinctListings
  <2>2. /\ assetRaised[t] \in Nat /\ totalRaised \in Nat
        /\ totalRaised > 0 \/ assetRaised[t] = 0
    BY <1>1, <2>1, ConstantTypes DEF TypeInv, TypeOK
  <2>3. totalRaised = 0 => amount(t) = 0
    BY <2>2 DEF ProportionalAmount
  <2> QED BY <1>2, <2>1, <2>2, <2>3, ProportionalBound
<1>4. ASSUME NEW t \in Token
      PROVE  /\ paid[t] \in Nat
             /\ paid[t] * totalRaised <= assetRaised[t] * release
             /\ totalRaised = 0 => paid[t] = 0
  <2>1. assetRaised[t] \in Nat /\ totalRaised \in Nat
    BY ConstantTypes DEF TypeInv, TypeOK
  <2>2. assetRaised[t] * release \in Nat /\ 0 * totalRaised = 0
    BY <1>2, <2>1
  <2> HIDE DEF amount
  <2> QED BY <1>3, <2>2
<1>5. balance' = [t \in Token |-> balance[t] - paid[t]]
  <2>1. /\ balance \in [Token -> Nat]
        /\ \A t \in Token : balance[t] \in Nat
    BY DEF TypeInv, TypeOK
  <2>2. CASE recipient = Contract
    <3>1. /\ balance' = balance
          /\ \A t \in Token : paid[t] = 0
      BY <1>1, <2>2
    <3> HIDE DEF paid
    <3>2. \A t \in Token : balance[t] - paid[t] = balance[t]
      BY <2>1, <3>1
    <3>3. balance = [t \in Token |-> balance[t]]
      BY <2>1
    <3> QED BY <3>1, <3>2, <3>3
  <2>3. CASE recipient # Contract
    <3>1. \A t \in Token : (IF Listings(t) = 0 THEN balance[t]
                            ELSE balance[t] - Listings(t) * amount(t))
                              = balance[t] - paid[t]
      <4> SUFFICES ASSUME NEW t \in Token
                   PROVE  (IF Listings(t) = 0 THEN balance[t]
                            ELSE balance[t] - Listings(t) * amount(t))
                              = balance[t] - paid[t]
        OBVIOUS
      <4>1. paid[t] = IF Listings(t) = 0 THEN 0 ELSE amount(t)
        BY <2>3
      <4> HIDE DEF amount, paid
      <4> QED BY <1>3, <2>1, <4>1
    <3>2. balance' = [t \in Token |-> IF Listings(t) = 0 THEN balance[t]
                                  ELSE balance[t] - Listings(t) * amount(t)]
      BY <1>1, <2>3
    <3> HIDE DEF amount, paid
    <3> QED BY <3>1, <3>2
  <2> QED BY <2>2, <2>3
<1> HIDE DEF paid, amount
<1>6. SumFunctionOnSet(paid, Token) \in Nat
      /\ SumFunctionOnSet(paid, Token) <= release
  <2>1. CASE totalRaised = 0
    BY <1>2, <1>4, <2>1, FundsType, SumZero DEF TypeInv
  <2>2. CASE totalRaised > 0
    BY <1>2, <1>4, <2>2, SharesWithinRelease
  <2> QED BY <2>1, <2>2, ConstantTypes DEF TypeInv, TypeOK
<1>7. \A t \in Token : /\ balance[t] \in Int /\ balance'[t] \in Int
                       /\ balance[t] = balance'[t] + paid[t] /\ paid[t] \in Int
                       /\ balance'[t] <= balance[t]
  BY <1>4, <1>5, FundsType DEF TypeInv
<1>8. SumFunctionOnSet(balance, Token)
        = SumFunctionOnSet(balance', Token) + SumFunctionOnSet(paid, Token)
  BY <1>7, FundsType, SumPlus DEF TypeInv
<1>9. /\ SumFunctionOnSet(deposited, Token) \in Int
      /\ SumFunctionOnSet(balance', Token) \in Int
  BY <1>7, FundsType, SumInt DEF TypeInv
<1>10. Outgoing' = SumFunctionOnSet(deposited, Token)
                     - SumFunctionOnSet(balance', Token)
  BY <1>1 DEF Outgoing
<1> QED BY <1>2, <1>6, <1>7, <1>8, <1>9, <1>10 DEF Outgoing

\* So does release_milestone_multi_asset's loop: it visits a token once, with
\* the counter it had before, so the payouts are shares of the release.
LEMMA LoopPays ==
    ASSUME TypeInv, Balanced, campaign # None, DistinctListings,
           totalRaised # 0, NEW release \in Nat
    PROVE  /\ ReleaseLoop(release) \in LoopBooks
           /\ \A t \in Token : ReleaseLoop(release).held[t] <= balance[t]
           /\ SumFunctionOnSet(balance, Token)
                - SumFunctionOnSet(ReleaseLoop(release).held, Token) <= release
<1> DEFINE n == Len(campaign.accepted_assets)
           issuer(k) == campaign.accepted_assets[k].issuer
           Taken(acc) == [t \in Token |-> balance[t] - acc.held[t]]
           Stage(acc, k) ==
              \A t \in Token :
                 \/ /\ acc.held[t] = balance[t]
                    /\ acc.raised[t] = assetRaised[t]
                 \/ /\ \E j \in 1 .. k : issuer(j) = t
                    /\ acc.held[t] <= balance[t]
                    /\ (balance[t] - acc.held[t]) * totalRaised
                          <= assetRaised[t] * release
           G == [k \in 0 .. n |-> {acc \in LoopBooks : Stage(acc, k)}]
           start == [raised |-> assetRaised, held |-> balance, paid |-> 0]
           visit(acc, k) == PayListing(acc, issuer(k), release)
           end == ReleaseLoop(release)
<1>1. /\ n \in Nat /\ totalRaised \in Nat /\ totalRaised > 0
      /\ \A t \in Token : assetRaised[t] \in Nat /\ balance[t] \in Nat
      /\ \A k \in 1 .. n : issuer(k) \in Token \cup {None}
      /\ DOMAIN campaign.accepted_assets = 1 .. n
      /\ None \notin Token
  BY ConstantTypes, StoredTypes DEF TypeInv, TypeOK
<1>2. start \in G[0]
  <2>1. start \in LoopBooks
    BY DEF LoopBooks, TypeInv, TypeOK
  <2> QED BY <1>1, <2>1
<1>3. ASSUME NEW k \in 1 .. n, NEW acc \in G[k - 1]
      PROVE  visit(acc, k) \in G[k]
  <2> DEFINE t == issuer(k)
             amount == VisitAmount(acc, t, release)
             after == visit(acc, k)
  <2>1. k - 1 \in 0 .. n /\ k \in 0 .. n
    BY <1>1
  <2>2. acc \in LoopBooks /\ Stage(acc, k - 1)
    BY <2>1
  <2>a. t \in Token \cup {None} /\ release \in Int
    BY <1>1
  <2>3. /\ after \in LoopBooks /\ amount \in Nat
        /\ t = None => amount = 0
        /\ t \in Token => /\ after.raised[t] = AtLeastZero(acc.raised[t] - amount)
                          /\ after.held[t] = acc.held[t] - amount
        /\ \A u \in Token \ {t} : /\ after.raised[u] = acc.raised[u]
                                  /\ after.held[u] = acc.held[u]
    <3>1. after = PayListing(acc, t, release) /\ totalRaised \in Nat
      BY <1>1
    <3> HIDE DEF t, after, Stage, G
    <3> QED BY ONLY <2>2, <2>a, <3>1, VisitEffect DEF amount
  <2>4. ASSUME NEW u \in Token \ {t}
        PROVE  \/ /\ after.held[u] = balance[u]
                  /\ after.raised[u] = assetRaised[u]
               \/ /\ \E j \in 1 .. k : issuer(j) = u
                  /\ after.held[u] <= balance[u]
                  /\ (balance[u] - after.held[u]) * totalRaised
                        <= assetRaised[u] * release
    <3> HIDE DEF after, visit, t
    <3>1. after.raised[u] = acc.raised[u] /\ after.held[u] = acc.held[u]
      BY <2>3
    <3>2. \A j \in 1 .. k - 1 : j \in 1 .. k
      BY <1>1
    <3> HIDE DEF issuer
    <3> QED BY <2>2, <3>1, <3>2
  <2>5. ASSUME t \in Token
        PROVE  /\ \E j \in 1 .. k : issuer(j) = t
               /\ after.held[t] <= balance[t]
               /\ (balance[t] - after.held[t]) * totalRaised
                     <= assetRaised[t] * release
    <3>1. k \in 1 .. k
      BY <1>1
    <3>2. ~(\E j \in 1 .. k - 1 : issuer(j) = t)
      <4> SUFFICES ASSUME NEW j \in 1 .. k - 1, issuer(j) = t PROVE FALSE
        OBVIOUS
      <4>1. j \in 1 .. n /\ j # k
        BY <1>1
      <4> QED BY <1>1, <2>5, <4>1, OneListing DEF TypeInv
    <3>3. acc.held[t] = balance[t] /\ acc.raised[t] = assetRaised[t]
      BY <2>2, <2>5, <3>2
    <3>4. amount * totalRaised <= assetRaised[t] * release
      <4>1. amount = ComputeAssetRelease(assetRaised[t], release, totalRaised)
        BY <1>1, <2>5, <3>3 DEF VisitAmount
      <4>2. assetRaised[t] \in Nat /\ release \in Int
        BY <1>1, <2>5
      <4> HIDE DEF t, amount
      <4>3. amount * totalRaised
              <= assetRaised[t] * (IF release > 0 THEN release ELSE 0)
        BY <1>1, <4>1, <4>2, VisitBounds
      <4>4. (IF release > 0 THEN release ELSE 0) = release
        OBVIOUS
      <4> QED BY <4>3, <4>4
    <3>5. issuer(k) = t
      OBVIOUS
    <3> HIDE DEF t, amount, after, issuer
    <3>6. /\ after.held[t] = balance[t] - amount /\ balance[t] \in Nat
          /\ amount \in Nat
      BY <1>1, <2>3, <2>5, <3>3
    <3>7. balance[t] - after.held[t] = amount /\ after.held[t] <= balance[t]
      BY <3>6
    <3> QED BY <3>1, <3>4, <3>5, <3>7
  <2>6. Stage(after, k)
    <3> HIDE DEF after, visit
    <3> QED BY <2>4, <2>5
  <2> HIDE DEF Stage, visit
  <2> QED BY <2>1, <2>3, <2>6
<1>4. end \in G[n]
  <2> HIDE DEF G, n
  <2> QED BY <1>1, <1>2, <1>3, LoopStages DEF n
<1>5. end \in LoopBooks /\ Stage(end, n)
  BY <1>1, <1>4
<1> DEFINE share == Taken(end)
<1>6. ASSUME NEW t \in Token
      PROVE  /\ end.held[t] \in Int /\ end.held[t] <= balance[t]
             /\ share[t] = balance[t] - end.held[t]
             /\ share[t] * totalRaised <= assetRaised[t] * release
  <2> HIDE DEF end, issuer
  <2>1. end.held[t] \in Int
    BY <1>5 DEF LoopBooks
  <2>2. assetRaised[t] * release >= 0 /\ 0 * totalRaised = 0
    BY <1>1
  <2>3. share[t] = balance[t] - end.held[t]
    OBVIOUS
  <2>4. CASE end.held[t] = balance[t]
    <3>1. share[t] = 0
      BY <1>1, <2>3, <2>4
    <3> QED BY <1>1, <2>1, <2>2, <2>3, <2>4, <3>1
  <2>5. CASE end.held[t] # balance[t]
    BY <1>5, <2>1, <2>3, <2>5
  <2> QED BY <2>4, <2>5
<1> HIDE DEF end, share
<1>7. \A t \in Token : share[t] \in Nat
  BY <1>1, <1>6
<1>8. SumFunctionOnSet(share, Token) <= release
  BY <1>1, <1>6, <1>7, SharesWithinRelease
<1>9. SumFunctionOnSet(balance, Token)
        = SumFunctionOnSet(end.held, Token) + SumFunctionOnSet(share, Token)
  <2>1. IsFiniteSet(Token)
    BY ConstantTypes
  <2>2. \A t \in Token : /\ end.held[t] \in Int /\ share[t] \in Int
                         /\ balance[t] = end.held[t] + share[t]
    BY <1>1, <1>6, <1>7
  <2> QED BY <2>1, <2>2, SumPlus
<1>10. /\ SumFunctionOnSet(end.held, Token) \in Int
       /\ SumFunctionOnSet(share, Token) \in Int
  BY <1>6, <1>7, ConstantTypes, SumInt
<1>11. SumFunctionOnSet(balance, Token) - SumFunctionOnSet(end.held, Token)
         <= release
  BY <1>8, <1>9, <1>10
<1> QED BY <1>5, <1>6, <1>11 DEF end

\* A refund takes its donor's total at most, and records it.
LEMMA RefundPays ==
    ASSUME ProductsFit, TypeInv, Records, Progress, PlanKept,
           NEW d \in Address, ClaimRefund(d)
    PROVE  /\ \A t \in Token : balance'[t] <= balance[t]
           /\ Outgoing' - Outgoing
                <= SumFunctionOnSet(RefundedTo', Address)
                     - SumFunctionOnSet(RefundedTo, Address)
<1> DEFINE paid == [t \in Token |-> RefundIn(d, t)]
           given == donorAsset[d]
<1>1. /\ campaign # None /\ donors[d] # None /\ ~donors[d].refund_claimed
      /\ balance' = [t \in Token |-> balance[t] - RefundIn(d, t)]
      /\ deposited' = deposited
  BY DEF ClaimRefund
<1>2. ASSUME NEW t \in Token
      PROVE  /\ paid[t] \in Nat /\ given[t] \in Nat /\ paid[t] <= given[t]
             /\ balance[t] \in Nat /\ balance'[t] = balance[t] - paid[t]
  BY <1>1, FundsType, RecordType, RefundInBounds DEF TypeInv, RefundsFit
<1>3. /\ RecordOf(d).total_donated = SumFunctionOnSet(given, Token)
      /\ RecordOf(d) = donors[d]
  BY <1>1, RecordType DEF Records, OwnRecords, TypeInv
<1>4. IsFiniteSet(Token) /\ IsFiniteSet(Address)
  BY ConstantTypes
<1> HIDE DEF paid, given
<1>5. SumFunctionOnSet(paid, Token) <= SumFunctionOnSet(given, Token)
  BY <1>2, <1>4, SumAtMost
<1>6. \A t \in Token : /\ balance'[t] \in Int /\ paid[t] \in Int
                       /\ balance[t] \in Int
                       /\ balance[t] = balance'[t] + paid[t]
                       /\ balance'[t] <= balance[t]
  BY <1>2
<1>7. SumFunctionOnSet(balance, Token)
        = SumFunctionOnSet(balance', Token) + SumFunctionOnSet(paid, Token)
  BY <1>4, <1>6, SumPlus
<1>8. /\ SumFunctionOnSet(balance', Token) \in Int
      /\ SumFunctionOnSet(paid, Token) \in Int
      /\ SumFunctionOnSet(given, Token) \in Int
      /\ SumFunctionOnSet(deposited, Token) \in Int
  BY <1>2, <1>4, <1>6, FundsType, SumInt DEF TypeInv
<1>9. Outgoing' = SumFunctionOnSet(deposited, Token)
                    - SumFunctionOnSet(balance', Token)
  BY <1>1 DEF Outgoing
<1>10. Outgoing' - Outgoing <= donors[d].total_donated
  BY <1>3, <1>5, <1>7, <1>8, <1>9 DEF Outgoing
<1>11. /\ RefundedTo[d] = 0 /\ RefundedTo'[d] = donors[d].total_donated
       /\ \A e \in Address \ {d} : RefundedTo'[e] = RefundedTo[e]
  <2>1. /\ donors'[d] # None /\ donors'[d].refund_claimed
        /\ RecordOf(d)'.total_donated = RecordOf(d).total_donated
        /\ \A e \in Address \ {d} : donors'[e] = donors[e]
    BY RecordsAfterRefund
  <2>2. RecordOf(d)' = donors'[d]
    BY <2>1 DEF RecordOf
  <2>3. donors'[d].total_donated = donors[d].total_donated
    BY <1>3, <2>1, <2>2
  <2>4. ~HasClaimed(d) /\ HasClaimed(d)'
        /\ \A e \in Address \ {d} : HasClaimed(e)' = HasClaimed(e)
    BY <1>1, <2>1 DEF HasClaimed
  <2> QED BY <2>1, <2>3, <2>4 DEF RefundedTo
<1>12. \A e \in Address : RefundedTo[e] \in Int /\ RefundedTo'[e] \in Int
  <2>1. \A e \in Address : RefundedTo[e] \in Int
    BY <1>1, RefundedType
  <2>2. donors[d].total_donated \in Int
    BY <1>3, <1>8
  <2> QED BY <1>11, <2>1, <2>2
<1>13. SumFunctionOnSet(RefundedTo', Address)
         = SumFunctionOnSet(RefundedTo, Address) + RefundedTo'[d] - RefundedTo[d]
  BY <1>4, <1>11, <1>12, SumChange
<1>14. SumFunctionOnSet(RefundedTo, Address) \in Int
       /\ donors[d].total_donated \in Int
  BY <1>3, <1>4, <1>8, <1>12, SumInt
<1>15. SumFunctionOnSet(RefundedTo', Address)
          - SumFunctionOnSet(RefundedTo, Address) = donors[d].total_donated
  BY <1>11, <1>13, <1>14
<1> QED BY <1>6, <1>10, <1>15

\* A donation only adds to what a donor that had claimed is said to have given;
\* no campaign takes one after a claim, which is not needed here.
LEMMA DonationRefunded ==
    ASSUME TypeInv, Records,
           NEW d \in Address, NEW amount \in DonationAmounts,
           NEW asset \in AssetInfo, Donate(d, amount, asset)
    PROVE  SumFunctionOnSet(RefundedTo, Address)
              <= SumFunctionOnSet(RefundedTo', Address)
<1>1. campaign # None /\ amount \in Nat
  BY DonateFacts DEF Donate
<1>2. /\ donors'[d] # None
      /\ RecordOf(d)'.total_donated = RecordOf(d).total_donated + amount
      /\ RecordOf(d)'.refund_claimed = RecordOf(d).refund_claimed
      /\ \A e \in Address \ {d} : donors'[e] = donors[e]
  BY RecordAfterDonation
<1>3. /\ RecordOf(d).total_donated \in Nat
      /\ donors[d] # None => RecordOf(d) = donors[d]
      /\ RecordOf(d)' = donors'[d]
  BY <1>1, <1>2, ContributionsBounded, RecordType DEF TypeInv, RecordOf
<1>4. \A e \in Address \ {d} : RefundedTo'[e] = RefundedTo[e]
  BY <1>2 DEF RefundedTo, HasClaimed
<1>5. /\ RefundedTo'[d] \in Int /\ RefundedTo[d] \in Int
      /\ RefundedTo[d] <= RefundedTo'[d]
  <2>1. CASE HasClaimed(d)
    <3>1. HasClaimed(d)' /\ donors[d].total_donated \in Nat
          /\ donors'[d].total_donated = donors[d].total_donated + amount
      BY <1>2, <1>3, <2>1 DEF HasClaimed
    <3>2. RefundedTo[d] = donors[d].total_donated
          /\ RefundedTo'[d] = donors'[d].total_donated
      BY <2>1, <3>1 DEF RefundedTo
    <3> QED BY <1>1, <3>1, <3>2
  <2>2. CASE ~HasClaimed(d)
    <3>1. RefundedTo[d] = 0
      BY <2>2 DEF RefundedTo
    <3>2. donors'[d].total_donated \in Nat
      BY <1>1, <1>2, <1>3
    <3>3. RefundedTo'[d] \in Nat
      BY <3>2 DEF RefundedTo
    <3> QED BY <3>1, <3>3
  <2> QED BY <2>1, <2>2
<1>6. IsFiniteSet(Address) /\ \A e \in Address : RefundedTo[e] \in Int
  BY <1>1, RefundedType
<1>7. \A e \in Address : /\ RefundedTo[e] \in Int /\ RefundedTo'[e] \in Int
                         /\ RefundedTo[e] <= RefundedTo'[e]
  BY <1>4, <1>5, <1>6
<1> QED BY <1>6, <1>7, SumAtMost

\* However its assets are listed, a release never adds to what is held.
LEMMA ReleaseLowers ==
    ASSUME TypeInv, campaign # None, NEW caller \in Address,
           NEW i \in DOMAIN milestones,
           milestones[i].target_amount \in Nat, milestones[i].released_amount = 0,
           NEW recipient \in Recipients, ReleaseMilestone(caller, i, recipient)
    PROVE  \A t \in Token : balance'[t] <= balance[t]
<1> DEFINE release == milestones[i].target_amount - milestones[i].released_amount
           amount(t) == ProportionalAmount(assetRaised[t], release, totalRaised)
<1>1. /\ \A t \in Token : Listings(t) > 0 /\ assetRaised[t] # 0 => totalRaised # 0
      /\ balance' = IF recipient = Contract THEN balance
                    ELSE [t \in Token |-> IF Listings(t) = 0 THEN balance[t]
                                  ELSE balance[t] - Listings(t) * amount(t)]
  BY DEF ReleaseMilestone
<1>2. \A t \in Token : balance[t] \in Nat
  BY DEF TypeInv, TypeOK
<1>3. CASE recipient = Contract
  BY <1>1, <1>2, <1>3
<1>4. CASE recipient # Contract
  <2> SUFFICES ASSUME NEW t \in Token
               PROVE  balance'[t] <= balance[t]
    OBVIOUS
  <2>1. release \in Nat
    OBVIOUS
  <2> HIDE DEF release
  <2>2. balance'[t] = IF Listings(t) = 0 THEN balance[t]
                      ELSE balance[t] - Listings(t) * amount(t)
    BY <1>1, <1>4
  <2>3. CASE Listings(t) # 0
    <3>1. Listings(t) \in Nat
      BY ListingsType DEF TypeInv
    <3>2. /\ assetRaised[t] \in Nat /\ totalRaised \in Nat
          /\ totalRaised > 0 \/ assetRaised[t] = 0
      BY <1>1, <2>3, <3>1, ConstantTypes DEF TypeInv, TypeOK
    <3>3. amount(t) \in Nat
      BY <2>1, <3>2, ProportionalBound
    <3> HIDE DEF amount
    <3>4. Listings(t) * amount(t) \in Nat
      BY <3>1, <3>3, NaturalProduct
    <3> QED BY <1>2, <2>2, <2>3, <3>4
  <2> QED BY <1>2, <2>2, <2>3
<1> QED BY <1>3, <1>4

LEMMA LoopLowersHeld ==
    ASSUME TypeOK, campaign # None, NEW release \in Int
    PROVE  \A t \in Token : ReleaseLoop(release).held[t] <= balance[t]
<1> DEFINE G == {acc \in LoopBooks : \A t \in Token : acc.held[t] <= balance[t]}
           start == [raised |-> assetRaised, held |-> balance, paid |-> 0]
           issuer(k) == campaign.accepted_assets[k].issuer
<1>1. start \in G
  <2>1. start \in LoopBooks
    BY DEF TypeOK, LoopBooks
  <2>2. \A t \in Token : balance[t] <= balance[t]
    BY DEF TypeOK
  <2> QED BY <2>1, <2>2
<1>2. ASSUME NEW acc \in G, NEW k \in 1 .. Len(campaign.accepted_assets)
      PROVE  PayListing(acc, issuer(k), release) \in G
  <2> DEFINE t == issuer(k)
             amount == VisitAmount(acc, t, release)
             after == PayListing(acc, t, release)
  <2>1. t \in Token \cup {None} /\ totalRaised \in Nat /\ acc \in LoopBooks
    BY StoredTypes, ConstantTypes DEF TypeOK
  <2>2. /\ after \in LoopBooks /\ amount \in Nat
        /\ t \in Token => after.held[t] = acc.held[t] - amount
        /\ \A u \in Token \ {t} : after.held[u] = acc.held[u]
    <3> HIDE DEF t
    <3> QED BY ONLY <2>1, VisitEffect, release \in Int DEF amount, after
  <2>3. \A u \in Token : /\ acc.held[u] \in Int /\ acc.held[u] <= balance[u]
                         /\ balance[u] \in Int
    BY <2>1 DEF LoopBooks, TypeOK
  <2> HIDE DEF t, amount, after
  <2>4. \A u \in Token : after.held[u] <= balance[u]
    <3> SUFFICES ASSUME NEW u \in Token PROVE after.held[u] <= balance[u]
      OBVIOUS
    <3>1. CASE u = t
      BY <2>2, <2>3, <3>1
    <3>2. CASE u # t
      BY <2>2, <2>3, <3>2
    <3> QED BY <3>1, <3>2
  <2>5. after \in G
    BY <2>2, <2>4
  <2> QED BY <2>5 DEF t, after
<1>3. Len(campaign.accepted_assets) \in Nat
  BY StoredTypes
<1>4. ReleaseLoop(release) \in G
  <2> HIDE DEF G
  <2> QED BY <1>1, <1>2, <1>3, LoopInduction
<1> QED BY <1>4

\* A deposit is received and held.
LEMMA DepositAccounted ==
    ASSUME TypeInv, \A t \in Token : balance[t] <= deposited[t],
           NEW u \in Token, NEW amount \in DepositAmounts, Deposit(u, amount)
    PROVE  /\ Outgoing' = Outgoing
           /\ \A t \in Token : balance'[t] <= deposited'[t]
           /\ balance = deposited => balance' = deposited'
<1>1. /\ amount \in Nat
      /\ balance' = [balance EXCEPT ![u] = @ + amount]
      /\ deposited' = [deposited EXCEPT ![u] = @ + amount]
  BY ArgumentTypes DEF Deposit
<1>2. /\ IsFiniteSet(Token)
      /\ balance \in [Token -> Nat] /\ deposited \in [Token -> Nat]
      /\ SumFunctionOnSet(deposited, Token) \in Int
      /\ SumFunctionOnSet(balance, Token) \in Int
  BY FundsType DEF TypeInv, TypeOK
<1>3. /\ \A t \in Token : /\ balance[t] \in Int /\ deposited[t] \in Int
                          /\ balance'[t] \in Int /\ deposited'[t] \in Int
      /\ balance'[u] = balance[u] + amount
      /\ deposited'[u] = deposited[u] + amount
      /\ \A t \in Token \ {u} : /\ balance'[t] = balance[t]
                                /\ deposited'[t] = deposited[t]
  BY <1>1, <1>2
<1>4. /\ SumFunctionOnSet(balance', Token)
           = SumFunctionOnSet(balance, Token) + balance'[u] - balance[u]
      /\ SumFunctionOnSet(deposited', Token)
           = SumFunctionOnSet(deposited, Token) + deposited'[u] - deposited[u]
  BY <1>2, <1>3, SumChange
<1>5. /\ SumFunctionOnSet(balance', Token)
           = SumFunctionOnSet(balance, Token) + amount
      /\ SumFunctionOnSet(deposited', Token)
           = SumFunctionOnSet(deposited, Token) + amount
  BY <1>1, <1>2, <1>3, <1>4
<1>6. Outgoing' = Outgoing
  <2>1. Outgoing' = SumFunctionOnSet(deposited', Token)
                      - SumFunctionOnSet(balance', Token)
    BY DEF Outgoing
  <2> QED BY <1>1, <1>2, <1>5, <2>1 DEF Outgoing
<1>7. \A t \in Token : balance'[t] <= deposited'[t]
  BY <1>1, <1>3
<1> QED BY <1>1, <1>6, <1>7

\* Nothing was paid out and nobody refunded when the campaign starts.
LEMMA AccountedInitialize ==
    ASSUME FreshPlans, TypeInv, Accounted,
           NEW creator \in Address, NEW goal \in GoalAmounts,
           NEW end \in EndTimes, NEW assets \in AssetLists,
           NEW plan \in MilestonePlans, NEW minimum \in MinDonations,
           Initialize(creator, goal, end, assets, plan, minimum)
    PROVE  Outgoing' <= TotalReleased' + SumFunctionOnSet(RefundedTo', Address)
<1>1. /\ campaign = None /\ milestones' = plan /\ donors' = donors
      /\ balance' = balance /\ deposited' = deposited
      /\ balance = deposited
  BY DEF Initialize, Accounted
<1>2. Outgoing' = 0
  <2>1. Outgoing' = SumFunctionOnSet(deposited, Token)
                      - SumFunctionOnSet(balance, Token)
    BY <1>1 DEF Outgoing
  <2> QED BY <1>1, <2>1, FundsType DEF TypeInv
<1>3. SumFunctionOnSet(RefundedTo', Address) = 0
  <2>1. \A d \in Address : donors'[d] = None
    BY <1>1 DEF TypeInv, DonorsGave
  <2>2. \A d \in Address : RefundedTo'[d] = 0
    BY <2>1 DEF RefundedTo, HasClaimed
  <2> QED BY <2>2, ConstantTypes, SumZero
<1>4. TotalReleased' = 0
  <2>1. plan \in Seq(MilestoneData)
    BY ArgumentTypes
  <2>2. IsFiniteSet(DOMAIN plan)
    <3>1. \A n \in Nat : IsFiniteSet(1 .. n)
      BY FS_Interval, 1 \in Int
    <3> QED BY <2>1, <3>1, LenProperties
  <2>3. ASSUME NEW i \in DOMAIN plan
        PROVE  plan[i].released_amount = 0
    <3>1. plan[i] \in MilestoneData
      BY <2>1, LenProperties, ElementOfSeq
    <3> DEFINE m == [plan[i] EXCEPT !.released_amount = 0, !.status = "Locked",
                                    !.released_to = None]
    <3>2. m.released_amount = 0
      BY <3>1 DEF MilestoneData
    <3>3. plan[i] = m
      BY DEF FreshPlans
    <3> HIDE DEF m
    <3> QED BY <3>2, <3>3
  <2> DEFINE f == [i \in DOMAIN plan |-> plan[i].released_amount]
  <2>4. (\A i \in DOMAIN plan : f[i] = 0) /\ DOMAIN f = DOMAIN plan
    BY <2>3
  <2>5. TotalReleased' = SumFunction(f)
    BY <1>1 DEF TotalReleased
  <2> HIDE DEF f
  <2>6. SumFunctionOnSet(f, DOMAIN plan) = 0
    BY <2>2, <2>4, SumZero
  <2> QED BY <2>4, <2>5, <2>6 DEF SumFunction
<1> QED BY <1>2, <1>3, <1>4

LEMMA AccountedNext ==
    ASSUME FreshPlans, ProductsFit, TypeInv, Records, Progress,
           PlanKept, Balanced, Accounted, [Next]_vars
    PROVE  Accounted'
<1>1. ASSUME NEW creator \in Address, NEW goal \in GoalAmounts,
             NEW end \in EndTimes, NEW assets \in AssetLists,
             NEW plan \in MilestonePlans, NEW minimum \in MinDonations,
             Initialize(creator, goal, end, assets, plan, minimum)
      PROVE  Accounted'
  <2>1. /\ campaign = None /\ balance' = balance /\ deposited' = deposited
    BY <1>1 DEF Initialize
  <2> QED BY <1>1, <2>1, AccountedInitialize DEF Accounted
<1>2. ASSUME NEW t \in Token, NEW amount \in DepositAmounts, Deposit(t, amount)
      PROVE  Accounted'
  <2>1. UNCHANGED books
    BY <1>2 DEF Deposit
  <2>2. /\ Outgoing' = Outgoing
        /\ \A u \in Token : balance'[u] <= deposited'[u]
        /\ balance = deposited => balance' = deposited'
    BY <1>2, DepositAccounted DEF Accounted
  <2>3. /\ campaign' = campaign /\ milestones' = milestones /\ donors' = donors
    BY <2>1 DEF books
  <2>4. RefundedTo' = RefundedTo /\ ReleasedOf' = ReleasedOf
        /\ DistinctListings' = DistinctListings
    BY <2>3 DEF RefundedTo, HasClaimed, ReleasedOf, DistinctListings, Listings
  <2>5. campaign # None => TotalReleased' = TotalReleased
    BY <2>3, TotalReleasedChange
  <2> QED BY <2>2, <2>3, <2>4, <2>5 DEF Accounted
<1>3. CASE campaign = None /\ UNCHANGED books /\ UNCHANGED <<balance, deposited>>
  BY <1>3 DEF Accounted, books
<1>4. CASE campaign # None
  <2> DEFINE Refunded == SumFunctionOnSet(RefundedTo, Address)
  <2>1. campaign' # None /\ (DistinctListings' <=> DistinctListings)
    <3>1. campaign' # None /\ campaign'.accepted_assets = campaign.accepted_assets
      BY <1>4, StepForms, CampaignKept
    <3> QED BY <3>1 DEF DistinctListings, Listings
  <2>2. /\ TotalReleased \in Nat /\ Refunded \in Nat /\ Outgoing \in Int
        /\ \A t \in Token : balance[t] \in Int /\ deposited[t] \in Int
    BY <1>4, TotalReleasedBounds, RefundedType, FundsType DEF TypeInv
  <2>3. /\ \A t \in Token : balance[t] <= deposited[t]
        /\ DistinctListings => Outgoing <= TotalReleased + Refunded
    BY <1>4 DEF Accounted
  <2>a. TypeOK'
    BY TypeInvNext DEF TypeInv
  <2>b. /\ \A t \in Token : balance'[t] \in Int /\ deposited'[t] \in Int
        /\ Outgoing' \in Int
    <3>1. /\ IsFiniteSet(Token)
          /\ \A t \in Token : balance'[t] \in Int /\ deposited'[t] \in Int
      BY <2>a, ConstantTypes DEF TypeOK
    <3>2. /\ SumFunctionOnSet(deposited', Token) \in Int
          /\ SumFunctionOnSet(balance', Token) \in Int
      BY <3>1, SumInt
    <3> QED BY <3>1, <3>2 DEF Outgoing
  <2>c. ASSUME NEW d \in Address, NEW amount \in DonationAmounts,
               NEW asset \in AssetInfo, Donate(d, amount, asset)
        PROVE  Accounted'
    <3>1. balance' = balance /\ deposited' = deposited
          /\ milestones' = Unlock(milestones, campaign.raised_amount + amount)
      BY <2>c DEF Donate
    <3>2. TotalReleased' = TotalReleased /\ Outgoing' = Outgoing
      BY <1>4, <3>1, TotalReleasedChange DEF Outgoing
    <3>3. Refunded <= Refunded'
      BY <2>c, DonationRefunded
    <3>4. Refunded' \in Int
      <4>1. IsFiniteSet(Address)
        BY ConstantTypes
      <4>2. /\ donors \in [Address -> DonorRecord \cup {None}]
            /\ donors' \in [Address -> DonorRecord \cup {None}]
        BY <2>a DEF TypeInv, TypeOK
      <4>3. \A e \in Address : RefundedTo'[e] \in Int
        BY <4>2 DEF RefundedTo, HasClaimed, DonorRecord
      <4> QED BY <4>1, <4>3, SumInt
    <3> DEFINE before == SumFunctionOnSet(RefundedTo, Address)
               after == SumFunctionOnSet(RefundedTo', Address)
    <3>a. /\ before = Refunded /\ after = Refunded'
          /\ before \in Nat /\ after \in Int /\ before <= after
      BY <2>2, <3>3, <3>4
    <3>b. DistinctListings => Outgoing <= TotalReleased + before
      BY <2>3
    <3> HIDE DEF before, after
    <3>c. DistinctListings => Outgoing <= TotalReleased + after
      <4> HIDE DEF Refunded
      <4>1. TotalReleased \in Int /\ Outgoing \in Int
        BY <2>2
      <4>2. before \in Int /\ after \in Int /\ before <= after
        BY <3>a
      <4>3. TotalReleased + before <= TotalReleased + after
        BY <4>1, <4>2
      <4>4. ASSUME DistinctListings
            PROVE  Outgoing <= TotalReleased + after
        <5>1. Outgoing <= TotalReleased + before
          BY <4>4, <3>b
        <5> QED BY <4>1, <4>2, <4>3, <5>1
      <4> QED BY <4>4
    <3>5. DistinctListings => Outgoing' <= TotalReleased' + Refunded'
      <4> HIDE DEF Refunded
      <4> QED BY <3>2, <3>a, <3>c
    <3> QED BY <2>1, <2>3, <3>1, <3>5 DEF Accounted, Refunded
  <2>d. ASSUME NEW d \in Address, ClaimRefund(d)
        PROVE  Accounted'
    <3>1. /\ milestones' = milestones /\ deposited' = deposited
      BY <2>d DEF ClaimRefund
    <3>2. TotalReleased' = TotalReleased
      BY <1>4, <3>1, TotalReleasedChange
    <3>3. /\ \A t \in Token : balance'[t] <= balance[t]
          /\ Outgoing' - Outgoing <= Refunded' - Refunded
      BY <2>d, RefundPays
    <3>4. Refunded' \in Int
      <4>1. IsFiniteSet(Address)
        BY ConstantTypes
      <4>2. donors' \in [Address -> DonorRecord \cup {None}]
        BY <2>a DEF TypeOK
      <4>3. \A e \in Address : RefundedTo'[e] \in Int
        BY <4>2 DEF RefundedTo, HasClaimed, DonorRecord
      <4> QED BY <4>1, <4>3, SumInt
    <3> HIDE DEF Refunded
    <3>5. DistinctListings => Outgoing' <= TotalReleased' + Refunded'
      BY <2>2, <2>3, <2>b, <3>2, <3>3, <3>4
    <3>6. \A t \in Token : balance'[t] <= deposited'[t]
      BY <2>2, <2>3, <2>b, <3>1, <3>3
    <3> QED BY <2>1, <3>5, <3>6 DEF Accounted, Refunded
  <2>e. ASSUME NEW caller \in Address, NEW i \in 1 .. MAX_MILESTONES,
               NEW recipient \in Recipients,
               \/ ReleaseMilestone(caller, i, recipient)
               \/ ReleaseMilestoneMultiAsset(caller, i, recipient)
        PROVE  Accounted'
    <3> DEFINE release == milestones[i].target_amount
                            - milestones[i].released_amount
    <3>1. /\ i \in DOMAIN milestones /\ milestones[i].status = "Unlocked"
          /\ donors' = donors /\ deposited' = deposited
      BY <2>e DEF ReleaseMilestone, ReleaseMilestoneMultiAsset
    <3>2. milestones[i].target_amount \in Nat /\ milestones[i].released_amount = 0
      BY <1>4, <3>1, UnlockedRelease, ConstantTypes
    <3>3. Refunded' = Refunded
      <4>1. RefundedTo' = RefundedTo
        BY <3>1 DEF RefundedTo, HasClaimed
      <4> QED BY <4>1
    <3>4. TotalReleased' = TotalReleased + milestones[i].target_amount
      <4>1. milestones[i] \in MilestoneData
        BY <3>1, StoredTypes DEF TypeInv
      <4>2. CASE ReleaseMilestone(caller, i, recipient)
        <5>1. milestones' = [milestones EXCEPT
                                ![i] = ReleasedRecord(milestones[i], recipient)]
          BY <3>1, <4>2 DEF ReleaseMilestone, ReleasedRecord
        <5> QED BY <1>4, <3>1, <5>1, TotalReleasedChange
      <4>3. CASE ReleaseMilestoneMultiAsset(caller, i, recipient)
        <5> DEFINE r == milestones[i].released_to
                   m == [milestones[i] EXCEPT !.released_amount = @ + release,
                                              !.status = "Released"]
        <5>1. milestones' = [milestones EXCEPT ![i] = m]
          BY <3>1, <4>3 DEF ReleaseMilestoneMultiAsset
        <5>2. milestones[i].released_amount + release
                 = milestones[i].target_amount
          BY <3>2
        <5>3. m = ReleasedRecord(milestones[i], r)
          <6> HIDE DEF release
          <6> QED BY <4>1, <5>2 DEF ReleasedRecord, MilestoneData
        <5> HIDE DEF m, r
        <5> QED BY <1>4, <3>1, <5>1, <5>3, TotalReleasedChange
      <4> QED BY <2>e, <4>2, <4>3
    <3>5. DistinctListings =>
             /\ \A t \in Token : balance'[t] <= balance[t]
             /\ Outgoing' <= Outgoing + milestones[i].target_amount
      <4> SUFFICES ASSUME DistinctListings
                   PROVE  /\ \A t \in Token : balance'[t] <= balance[t]
                          /\ Outgoing' <= Outgoing + milestones[i].target_amount
        OBVIOUS
      <4>1. CASE ReleaseMilestone(caller, i, recipient)
        BY <3>1, <4>1, ReleasePays
      <4>2. CASE ReleaseMilestoneMultiAsset(caller, i, recipient)
        <5>1. balance' = ReleaseLoop(release).held /\ totalRaised # 0
          BY <4>2 DEF ReleaseMilestoneMultiAsset
        <5>2. release \in Nat /\ release = milestones[i].target_amount
          BY <3>2
        <5> HIDE DEF release
        <5>3. /\ \A t \in Token : balance'[t] <= balance[t]
              /\ SumFunctionOnSet(balance, Token)
                   - SumFunctionOnSet(balance', Token) <= release
          BY <1>4, <5>1, <5>2, LoopPays
        <5>4. /\ SumFunctionOnSet(balance', Token) \in Int
              /\ SumFunctionOnSet(balance, Token) \in Int
              /\ SumFunctionOnSet(deposited, Token) \in Int
          BY <2>2, <2>b, ConstantTypes, SumInt
        <5>5. Outgoing' = SumFunctionOnSet(deposited, Token)
                            - SumFunctionOnSet(balance', Token)
          BY <3>1 DEF Outgoing
        <5> QED BY <5>2, <5>3, <5>4, <5>5 DEF Outgoing
      <4> QED BY <2>e, <4>1, <4>2
    <3>6. \A t \in Token : balance'[t] <= balance[t]
      <4>1. CASE ReleaseMilestone(caller, i, recipient)
        BY <1>4, <3>1, <3>2, <4>1, ReleaseLowers
      <4>2. CASE ReleaseMilestoneMultiAsset(caller, i, recipient)
        <5>1. balance' = ReleaseLoop(release).held
          BY <4>2 DEF ReleaseMilestoneMultiAsset
        <5>2. release \in Int
          BY <3>2
        <5> HIDE DEF release
        <5> QED BY <1>4, <5>1, <5>2, LoopLowersHeld DEF TypeInv
      <4> QED BY <2>e, <4>1, <4>2
    <3> HIDE DEF Refunded
    <3>7. DistinctListings => Outgoing' <= TotalReleased' + Refunded'
      BY <2>2, <2>3, <2>b, <3>2, <3>3, <3>4, <3>5
    <3>8. \A t \in Token : balance'[t] <= deposited'[t]
      BY <2>2, <2>3, <2>b, <3>1, <3>6
    <3> QED BY <2>1, <3>7, <3>8 DEF Accounted, Refunded
  <2>f. CASE /\ milestones' = milestones /\ donors' = donors
             /\ balance' = balance /\ deposited' = deposited
    <3>1. TotalReleased' = TotalReleased
      BY <1>4, <2>f, TotalReleasedChange
    <3>2. RefundedTo' = RefundedTo /\ Outgoing' = Outgoing
      BY <2>f DEF RefundedTo, HasClaimed, Outgoing
    <3> QED BY <2>1, <2>3, <2>f, <3>1, <3>2 DEF Accounted
  <2>g. CASE \/ \E caller \in Address : Freeze(caller) \/ Unfreeze(caller)
             \/ \E caller, successor \in Address : SetAdmin(caller, successor)
             \/ \E caller \in Address, hash \in WasmHash : Upgrade(caller, hash)
             \/ CloseLedger
             \/ UNCHANGED vars
    BY <2>f, <2>g DEF Freeze, Unfreeze, SetFrozen, SetAdmin, Upgrade,
                      CloseLedger, vars, books
  <2>h. CASE \/ \E caller \in Address : EndCampaign(caller) \/ CancelCampaign(caller)
             \/ \E caller \in Address, end \in EndTimes :
                   ExtendDeadline(caller, end)
    BY <2>f, <2>h DEF EndCampaign, CancelCampaign, ExtendDeadline
  <2> QED BY <1>1, <1>2, <2>c, <2>d, <2>e, <2>g, <2>h DEF Next
<1> QED BY <1>1, <1>2, <1>3, <1>4, StepsBefore

LEMMA AccountedAlways ==
    ASSUME FreshPlans, ProductsFit
    PROVE  Spec => []Accounted
<1>1. Init => Accounted
  BY DEF Init, Accounted
<1>2. TypeInv /\ Records /\ Progress /\ PlanKept /\ Balanced
        /\ Accounted /\ [Next]_vars => Accounted'
  BY AccountedNext
<1>3. Spec => []Progress
  BY ProgressAlways
<1>4. Spec => []Balanced
  BY BalancedAlways
<1> QED BY <1>1, <1>2, <1>3, <1>4, TypeInvAlways, RecordsAlways,
           PlanKeptAlways, PTL DEF Spec

\* The contract never pays out more than its milestones say was released plus
\* what its refunded donors had given, whatever the order of the calls.
THEOREM PayoutsWithinBooks ==
    ASSUME FreshPlans, ProductsFit
    PROVE  Spec => []PayoutsAccounted
<1>1. ASSUME TypeInv, Records, Accounted
      PROVE  PayoutsAccounted
  <2> SUFFICES ASSUME campaign # None, DistinctListings
               PROVE  SumFunction([t \in Token |-> deposited[t] - balance[t]])
                        <= TotalReleased
                             + SumFunction([d \in {e \in Address : HasClaimed(e)}
                                               |-> donors[d].total_donated])
    BY DEF PayoutsAccounted
  <2> DEFINE out == [t \in Token |-> deposited[t] - balance[t]]
             claimed == {e \in Address : HasClaimed(e)}
             back == [d \in claimed |-> donors[d].total_donated]
  <2>1. SumFunction(out) = Outgoing
    <3>1. \A t \in Token : /\ out[t] \in Int /\ balance[t] \in Int
                           /\ deposited[t] = out[t] + balance[t]
      BY <1>1, FundsType DEF TypeInv
    <3>2. DOMAIN out = Token /\ IsFiniteSet(Token)
      BY ConstantTypes
    <3> HIDE DEF out
    <3>3. SumFunctionOnSet(deposited, Token)
            = SumFunctionOnSet(out, Token) + SumFunctionOnSet(balance, Token)
      BY <3>1, <3>2, SumPlus
    <3>4. /\ SumFunctionOnSet(out, Token) \in Int
          /\ SumFunctionOnSet(balance, Token) \in Int
      BY <3>1, <3>2, SumInt
    <3> QED BY <3>2, <3>3, <3>4 DEF Outgoing, SumFunction
  <2>2. SumFunction(back) = SumFunctionOnSet(RefundedTo, Address)
    <3>1. /\ \A d \in claimed : back[d] = RefundedTo[d]
          /\ \A d \in Address \ claimed : RefundedTo[d] = 0
          /\ claimed \subseteq Address /\ DOMAIN back = claimed
      BY DEF RefundedTo
    <3>2. IsFiniteSet(Address) /\ \A d \in Address : RefundedTo[d] \in Int
      BY <1>1, RefundedType
    <3> HIDE DEF back, claimed
    <3>3. SumFunctionOnSet(RefundedTo, Address) = SumFunctionOnSet(back, claimed)
      BY <3>1, <3>2, SumSupport
    <3> QED BY <3>1, <3>3 DEF SumFunction
  <2> HIDE DEF out, back
  <2>3. Outgoing <= TotalReleased + SumFunctionOnSet(RefundedTo, Address)
    BY <1>1 DEF Accounted
  <2>4. SumFunction(out) <= TotalReleased + SumFunction(back)
    BY <2>1, <2>2, <2>3
  <2> QED BY <2>4 DEF out, back
<1>2. Spec => []Accounted
  BY AccountedAlways
<1> QED BY <1>1, <1>2, TypeInvAlways, RecordsAlways, PTL

\* With one token, distinct listings and every donation paid in, the balance
\* covers the refunds of all donors together until the first of them is paid:
\* what milestones took out is what their refunds leave out.
THEOREM RefundsCovered ==
    ASSUME FreshPlans, ProductsFit
    PROVE  Spec => []SingleTokenSolvent
<1>1. ASSUME TypeInv, Records, Progress, PlanKept, Accounted,
             NEW t \in Token, campaign # None, DistinctListings,
             \A u \in Token \ {t} : DonatedIn(u) = 0,
             deposited[t] >= DonatedIn(t),
             \A d \in Address : ~HasClaimed(d)
      PROVE  SumFunction([d \in {e \in Address : donors[e] # None}
                             |-> RefundIn(d, t)]) <= balance[t]
  <2> DEFINE recorded == {e \in Address : donors[e] # None}
             refund == [d \in recorded |-> RefundIn(d, t)]
             given == [d \in Address |-> donorAsset[d][t]]
             raised == campaign.raised_amount
  <2>1. /\ IsFiniteSet(Address) /\ IsFiniteSet(Token)
        /\ raised \in Nat /\ TotalReleased \in Nat
        /\ recorded \subseteq Address /\ IsFiniteSet(recorded)
        /\ DOMAIN refund = recorded
    <3>1. IsFiniteSet(Address) /\ IsFiniteSet(Token)
      BY ConstantTypes
    <3>2. raised \in Nat /\ TotalReleased \in Nat
      BY <1>1, TotalReleasedBounds DEF TypeInv, DonorsGave
    <3> QED BY <3>1, <3>2, FS_Subset
  <2>2. /\ \A u \in Token : /\ deposited[u] \in Int /\ balance[u] \in Int
                            /\ balance[u] <= deposited[u] /\ balance[u] >= 0
        /\ Outgoing \in Int
    BY <1>1, FundsType DEF TypeInv, Accounted
  \* All that was raised was given in t.
  <2>3. /\ raised = DonatedIn(t)
        /\ DonatedIn(t) = SumFunctionOnSet(given, Address)
        /\ \A d \in Address : given[d] \in Nat
    <3>1. ASSUME NEW d \in Address
          PROVE  GivenBy[d] = given[d] /\ given[d] \in Nat
      <4>1. /\ donorAsset[d] \in [Token -> Nat]
            /\ GivenBy[d] = SumFunctionOnSet(donorAsset[d], Token)
        BY <1>1, RecordType DEF TypeInv, Records, OwnRecords, GivenBy
      <4>2. ASSUME NEW u \in Token \ {t}
            PROVE  donorAsset[d][u] = 0
        <5> DEFINE f == [e \in Address |-> donorAsset[e][u]]
        <5>1. \A e \in Address : f[e] \in Nat
          BY <1>1, RecordType DEF TypeInv
        <5>2. SumFunctionOnSet(f, Address) = 0
          BY <1>1, DonatedIsSum
        <5>3. f[d] = donorAsset[d][u]
          OBVIOUS
        <5> HIDE DEF f
        <5>4. f[d] <= 0 /\ f[d] \in Nat
          BY <2>1, <5>1, <5>2, SumNat
        <5> QED BY <5>3, <5>4
      <4> DEFINE g == donorAsset[d]
      <4>3. /\ \A u \in Token : g[u] \in Int
            /\ \A u \in Token \ {t} : g[u] = 0
            /\ {t} \subseteq Token
        BY <4>1, <4>2
      <4> HIDE DEF g
      <4>4. SumFunctionOnSet(g, Token) = SumFunctionOnSet(g, {t})
        BY <2>1, <4>3, SumSupport
      <4>5. SumFunctionOnSet(g, {t}) = g[t]
        <5>1. IsFiniteSet({t}) /\ {t} \ {t} = {} /\ t \in {t}
          BY FS_Singleton
        <5>2. SumFunctionOnSet(g, {t}) = g[t] + SumFunctionOnSet(g, {t} \ {t})
          BY <4>3, <5>1, SumRemove
        <5> QED BY <4>3, <5>1, <5>2, SumEmpty
      <4> QED BY <4>1, <4>4, <4>5 DEF g
    <3> HIDE DEF given
    <3>2. SumFunctionOnSet(GivenBy, Address) = SumFunctionOnSet(given, Address)
      BY <2>1, <3>1, SumAgree
    <3> QED BY <1>1, <3>1, <3>2, DonatedIsSum DEF given, Records
  \* What left the contract in t was released.
  <2>4. DonatedIn(t) - TotalReleased <= balance[t]
    <3>1. SumFunctionOnSet(RefundedTo, Address) = 0
      BY <1>1, <2>1, SumZero DEF RefundedTo
    <3>2. Outgoing <= TotalReleased
      BY <1>1, <2>1, <2>2, <3>1 DEF Accounted
    <3>3. deposited[t] - balance[t] <= Outgoing
      <4> DEFINE out == [u \in Token |-> deposited[u] - balance[u]]
      <4>1. \A u \in Token : /\ out[u] \in Nat /\ out[u] \in Int
                             /\ balance[u] \in Int
                             /\ deposited[u] = out[u] + balance[u]
        BY <2>2
      <4>2. out[t] = deposited[t] - balance[t]
        OBVIOUS
      <4> HIDE DEF out
      <4>3. SumFunctionOnSet(deposited, Token)
              = SumFunctionOnSet(out, Token) + SumFunctionOnSet(balance, Token)
        BY <2>1, <4>1, SumPlus
      <4>4. /\ SumFunctionOnSet(out, Token) \in Nat
            /\ SumFunctionOnSet(balance, Token) \in Int
            /\ out[t] <= SumFunctionOnSet(out, Token)
        BY <2>1, <4>1, SumNat, SumInt
      <4> QED BY <4>1, <4>2, <4>3, <4>4 DEF Outgoing
    <3>4. DonatedIn(t) \in Int
      BY <2>1, <2>3
    <3> QED BY <1>1, <2>1, <2>2, <3>2, <3>3, <3>4
  \* The refunds together are at most what is left.
  <2>5. SumFunctionOnSet(refund, recorded) * raised <= raised * Left
    <3>1. Left \in Nat
      BY <2>1 DEF Left
    <3>2. \A d \in recorded :
             /\ refund[d] \in Int /\ given[d] \in Int
             /\ refund[d] * raised <= given[d] * Left
      <4> SUFFICES ASSUME NEW d \in recorded
                   PROVE  /\ refund[d] \in Int /\ given[d] \in Int
                          /\ refund[d] * raised <= given[d] * Left
        OBVIOUS
      <4>1. /\ RefundIn(d, t) \in Nat
            /\ RefundIn(d, t) * raised <= donorAsset[d][t] * Left
        BY <1>1, RefundInBounds DEF RefundsFit
      <4>2. given[d] \in Nat /\ given[d] = donorAsset[d][t]
            /\ refund[d] = RefundIn(d, t)
        BY <2>3
      <4> QED BY <4>1, <4>2
    <3>3. \A d \in Address \ recorded : given[d] = 0
      <4> SUFFICES ASSUME NEW d \in Address \ recorded PROVE given[d] = 0
        OBVIOUS
      <4>1. /\ RecordOf(d).total_donated = 0
            /\ donorAsset[d][t] <= RecordOf(d).total_donated
        BY <1>1, RecordType, ContributionsBounded DEF TypeInv
      <4>2. given[d] = donorAsset[d][t] /\ given[d] \in Nat
        BY <2>3
      <4> QED BY <4>1, <4>2
    <3> HIDE DEF refund, given, recorded, raised
    <3>4. SumFunctionOnSet(refund, recorded) * raised
            <= SumFunctionOnSet(given, recorded) * Left
      BY <2>1, <3>1, <3>2, SumScaled
    <3>5. SumFunctionOnSet(given, Address) = SumFunctionOnSet(given, recorded)
      BY <2>1, <2>3, <3>3, SumSupport
    <3> QED BY <2>3, <3>4, <3>5
  <2>6. SumFunctionOnSet(refund, recorded) \in Nat
    <3>1. \A d \in recorded : refund[d] \in Nat
      BY <1>1, RefundInBounds DEF RefundsFit
    <3> HIDE DEF refund, recorded
    <3> QED BY <2>1, <3>1, SumNat
  <2>7. CASE recorded = {}
    <3>1. SumFunctionOnSet(refund, recorded) = 0
      <4> HIDE DEF refund, recorded
      <4> QED BY <2>7, SumEmpty
    <3> HIDE DEF refund, recorded
    <3> QED BY <2>1, <2>2, <3>1 DEF SumFunction, refund, recorded
  <2>8. CASE recorded # {}
    <3>1. raised > 0
      BY <1>1, <2>8 DEF TypeInv, DonorsGave
    <3>2. Left \in Nat /\ Left <= balance[t]
      BY <2>1, <2>2, <2>3, <2>4 DEF Left
    <3> HIDE DEF refund, recorded, raised
    <3>3. SumFunctionOnSet(refund, recorded) <= Left
      <4>1. \A a, b, n \in Nat : n > 0 /\ a * n <= n * b => a <= b
        <5> SUFFICES ASSUME NEW a \in Nat, NEW b \in Nat, NEW n \in Nat, n > 0,
                            a * n <= n * b, b + 1 <= a
                     PROVE  FALSE
          OBVIOUS
        <5>1. (b + 1) * n <= a * n
          BY ProductMonotonic
        <5>2. (b + 1) * n = n * b + n
          OBVIOUS
        <5>3. (b + 1) * n \in Int /\ a * n \in Int /\ n * b \in Int
          OBVIOUS
        <5> QED BY <5>1, <5>2, <5>3
      <4> QED BY <2>1, <2>5, <2>6, <3>1, <3>2, <4>1
    <3>4. SumFunction(refund) <= balance[t]
      BY <2>1, <2>2, <2>6, <3>2, <3>3 DEF SumFunction
    <3> QED BY <3>4 DEF refund, recorded
  <2> QED BY <2>7, <2>8
<1>2. TypeInv /\ Records /\ Progress /\ PlanKept /\ Accounted
        => SingleTokenSolvent
  BY <1>1 DEF SingleTokenSolvent
<1>3. Spec => []Progress
  BY ProgressAlways
<1>4. Spec => []Accounted
  BY AccountedAlways
<1> QED BY <1>2, <1>3, <1>4, TypeInvAlways, RecordsAlways, PlanKeptAlways, PTL

-----------------------------------------------------------------------------
(***************************************************************************)
(* The promise.  Every call is the step of Escrow with the same meaning, or*)
(* leaves the five parts of the abstract state alone.                      *)
(***************************************************************************)
LEMMA SamePledges == Promise!Pledges = SumFunctionOnSet(Pledged, Address)
<1>1. DOMAIN Pledged = Address
  BY DEF Pledged
<1> QED BY <1>1 DEF Promise!Pledges, SumFunctionOnSet, Promise!SumFunction,
       Promise!SumFunctionOnSet, FoldFunctionOnSet, MapThenFoldSet,
       Promise!FoldFunctionOnSet, Promise!MapThenFoldSet

\* The pledges are the donors' own totals, so they add up to the amount raised.
LEMMA PledgesRaised ==
    ASSUME TypeInv, Records, campaign # None
    PROVE  Promise!Pledges = campaign.raised_amount
<1>1. \A d \in Address : Pledged[d] = RecordOf(d).total_donated
  BY RecordType DEF Pledged, TypeInv
<1>2. Pledged = GivenBy
  BY <1>1 DEF Pledged, GivenBy
<1> QED BY <1>2, SamePledges DEF Records

LEMMA PhaseFacts ==
    /\ Phase = "none" <=> campaign = None
    /\ campaign # None =>
          /\ campaign.status = "Ended" => Phase = "ended"
          /\ campaign.status = "Cancelled" => Phase = "cancelled"
          /\ ~IsTerminal(campaign.status) => Phase = "open"
BY DEF Phase, IsTerminal

\* What the pledges, the steps and the paid-back donors depend on.
LEMMA PromiseParts ==
    /\ campaign' = campaign => Phase' = Phase
    /\ milestones' = milestones
          => Targets' = Targets /\ ReleasedSteps' = ReleasedSteps
    /\ donors' = donors => Pledged' = Pledged /\ Returned' = Returned
BY DEF Phase, Targets, ReleasedSteps, Pledged, Returned, HasClaimed

LEMMA PromiseInit == Init => Promise!Init
<1> SUFFICES ASSUME Init
             PROVE  Promise!Init
  OBVIOUS
<1>1. Phase = "none" /\ Targets = << >> /\ ReleasedSteps = {}
  BY DEF Init, Phase, Targets, ReleasedSteps
<1>2. Pledged = [d \in Address |-> 0] /\ Returned = {}
  BY DEF Init, Pledged, Returned, HasClaimed
<1> QED BY <1>1, <1>2 DEF Promise!Init

LEMMA PromiseOpen ==
    ASSUME FreshPlans, TypeInv, PlanKept,
           NEW creator \in Address, NEW goal \in GoalAmounts,
           NEW end \in EndTimes, NEW assets \in AssetLists,
           NEW plan \in MilestonePlans, NEW minimum \in MinDonations,
           Initialize(creator, goal, end, assets, plan, minimum)
    PROVE  Promise!Open
<1>1. /\ campaign = None /\ milestones = << >>
      /\ campaign'.status = "Active" /\ campaign' \in CampaignData
      /\ donors' = donors /\ milestones' = plan
  BY ArgumentTypes DEF Initialize, PlanKept, CampaignData, CampaignStatus
<1>2. Phase = "none" /\ ReleasedSteps = {}
  BY <1>1, PhaseFacts DEF ReleasedSteps
<1>3. Phase' = "open"
  BY <1>1, ConstantTypes DEF Phase
<1>4. ReleasedSteps' = {}
  <2>1. ASSUME NEW i \in DOMAIN plan
        PROVE  plan[i].status # "Released"
    <3>1. plan[i] \in MilestoneData
      BY ArgumentTypes, LenProperties, ElementOfSeq
    <3> DEFINE m == [plan[i] EXCEPT !.released_amount = 0, !.status = "Locked",
                                    !.released_to = None]
    <3>2. m.status = "Locked"
      BY <3>1 DEF MilestoneData
    <3>3. plan[i] = m
      BY DEF FreshPlans
    <3> HIDE DEF m
    <3> QED BY <3>2, <3>3
  <2> QED BY <1>1, <2>1 DEF ReleasedSteps
<1> QED BY <1>1, <1>2, <1>3, <1>4, PromiseParts DEF Promise!Open

LEMMA PromisePledge ==
    ASSUME TypeInv, Records, Progress,
           NEW d \in Address, NEW amount \in DonationAmounts,
           NEW asset \in AssetInfo, Donate(d, amount, asset)
    PROVE  Promise!Pledge(d, amount)
<1>2. /\ campaign # None /\ AcceptsDonations(campaign.status)
      /\ amount \in Nat \ {0}
      /\ milestones' = Unlock(milestones, campaign.raised_amount + amount)
  BY DonateFacts DEF Donate
<1>3. Phase = "open" /\ Phase' = "open"
  <2>1. campaign \in CampaignData
    BY DonateFacts
  <2>2. campaign'.status \in {"Active", "GoalReached"}
    BY <1>2, <2>1 DEF Donate, AcceptsDonations, CampaignData
  <2>3. campaign' # None
    <3>1. CampaignStep /\ MilestoneStep
      BY <1>2, StepsDonate
    <3> QED BY <1>2, <3>1, CampaignKept
  <2> QED BY <1>2, <2>2, <2>3 DEF Phase, AcceptsDonations
<1>4. Targets' = Targets /\ ReleasedSteps' = ReleasedSteps
  <2>1. \A i \in DOMAIN milestones :
           /\ milestones'[i].target_amount = milestones[i].target_amount
           /\ milestones'[i].status = "Released"
                 <=> milestones[i].status = "Released"
    BY <1>2, StoredTypes DEF Unlock, TypeInv, MilestoneData
  <2>2. DOMAIN milestones' = DOMAIN milestones
    BY <1>2 DEF Unlock
  <2> QED BY <2>1, <2>2 DEF Targets, ReleasedSteps
<1>5. Pledged' = [Pledged EXCEPT ![d] = @ + amount]
  <2>1. /\ donors'[d] # None
        /\ RecordOf(d)'.total_donated = RecordOf(d).total_donated + amount
        /\ \A e \in Address \ {d} : donors'[e] = donors[e]
    BY RecordAfterDonation
  <2>2. \A e \in Address : Pledged[e] = RecordOf(e).total_donated
    BY RecordType DEF Pledged, TypeInv
  <2>3. Pledged'[d] = Pledged[d] + amount
    BY <2>1, <2>2 DEF Pledged, RecordOf
  <2>4. \A e \in Address \ {d} : Pledged'[e] = Pledged[e]
    BY <2>1 DEF Pledged
  <2> QED BY <2>3, <2>4 DEF Pledged
<1>6. Returned' = Returned
  <2>1. \A e \in Address : HasClaimed(e)' = HasClaimed(e)
    <3>1. TypeInv /\ Records /\ [Next]_vars
      BY DEF Next
    <3>2. donors'[d] # None
      BY RecordAfterDonation
    <3>3. ASSUME NEW e \in Address, ClaimRefund(e)
          PROVE  FALSE
      BY <1>2, <3>3 DEF ClaimRefund, IsTerminal, AcceptsDonations
    <3> QED BY <3>1, <3>3, ClaimsChange
  <2> QED BY <2>1 DEF Returned
<1> QED BY <1>2, <1>3, <1>4, <1>5, <1>6 DEF Promise!Pledge

LEMMA PromiseReturn ==
    ASSUME TypeInv, Records, NEW d \in Address, ClaimRefund(d)
    PROVE  Promise!Return(d)
<1>1. /\ campaign # None /\ donors[d] # None /\ ~donors[d].refund_claimed
      /\ campaign' = campaign /\ milestones' = milestones
      /\ campaign.status \in {"Ended", "Cancelled"}
      /\ campaign.status = "Ended" => ~AnyReleased
  BY DEF ClaimRefund, IsTerminal
<1>2. Phase = "cancelled" \/ (Phase = "ended" /\ ReleasedSteps = {})
  BY <1>1, PhaseFacts DEF AnyReleased, ReleasedSteps
<1>3. d \notin Returned /\ Pledged[d] > 0
  BY <1>1 DEF Returned, HasClaimed, Pledged, Records, OwnRecords
<1>4. /\ donors'[d] # None /\ donors'[d].refund_claimed
      /\ donors'[d].total_donated = donors[d].total_donated
      /\ \A e \in Address \ {d} : donors'[e] = donors[e]
  <2>1. donors' = [donors EXCEPT ![d].refund_claimed = TRUE]
        /\ donors[d] \in DonorRecord /\ donors \in [Address -> DonorRecord \cup {None}]
    BY <1>1 DEF ClaimRefund, TypeInv, TypeOK
  <2> DEFINE r == [donors[d] EXCEPT !.refund_claimed = TRUE]
  <2>2. /\ r \in DonorRecord /\ r.refund_claimed
        /\ r.total_donated = donors[d].total_donated
    BY <2>1 DEF DonorRecord
  <2>3. donors' = [donors EXCEPT ![d] = r]
    BY <2>1
  <2> HIDE DEF r
  <2> QED BY <2>1, <2>2, <2>3, ConstantTypes
<1>5. Pledged' = Pledged
  BY <1>1, <1>4 DEF Pledged
<1>6. Returned' = Returned \cup {d}
  <2>1. HasClaimed(d)'
    BY <1>4 DEF HasClaimed
  <2>2. \A e \in Address \ {d} : HasClaimed(e)' <=> HasClaimed(e)
    BY <1>4 DEF HasClaimed
  <2> QED BY <2>1, <2>2 DEF Returned
<1> QED BY <1>1, <1>2, <1>3, <1>5, <1>6, PromiseParts DEF Promise!Return

LEMMA PromiseRelease ==
    ASSUME TypeInv, Records, Progress,
           NEW caller \in Address, NEW i \in 1 .. MAX_MILESTONES,
           NEW recipient \in Recipients,
           \/ ReleaseMilestone(caller, i, recipient)
           \/ ReleaseMilestoneMultiAsset(caller, i, recipient)
    PROVE  i \in DOMAIN Targets /\ Promise!Release(i)
<1>1. /\ campaign # None /\ i \in DOMAIN milestones
      /\ milestones[i].status = "Unlocked"
      /\ campaign' = campaign /\ donors' = donors
  BY DEF ReleaseMilestone, ReleaseMilestoneMultiAsset
<1>2. i \in DOMAIN Targets /\ i \notin ReleasedSteps /\ Phase # "none"
  BY <1>1, PhaseFacts DEF Targets, ReleasedSteps
<1>3. Targets[i] <= Promise!Pledges
  <2>1. ~(campaign.raised_amount < milestones[i].target_amount)
    BY <1>1 DEF Progress
  <2>2. campaign.raised_amount \in Int /\ milestones[i].target_amount \in Int
    BY <1>1, StoredTypes DEF TypeInv, CampaignData, MilestoneData
  <2>3. Targets[i] = milestones[i].target_amount
    BY <1>1 DEF Targets
  <2> QED BY <1>1, <2>1, <2>2, <2>3, PledgesRaised
<1>4. /\ DOMAIN milestones' = DOMAIN milestones
      /\ milestones'[i].status = "Released"
      /\ milestones'[i].target_amount = milestones[i].target_amount
      /\ \A j \in DOMAIN milestones : j # i => milestones'[j] = milestones[j]
  <2>1. milestones[i] \in MilestoneData
    BY <1>1, StoredTypes DEF TypeInv
  <2>2. CASE ReleaseMilestone(caller, i, recipient)
    <3> DEFINE m == ReleasedRecord(milestones[i], recipient)
    <3>1. milestones' = [milestones EXCEPT ![i] = m]
      BY <1>1, <2>2 DEF ReleaseMilestone, ReleasedRecord
    <3>2. m.status = "Released" /\ m.target_amount = milestones[i].target_amount
      BY <2>1 DEF ReleasedRecord, MilestoneData
    <3> HIDE DEF m
    <3> QED BY <1>1, <3>1, <3>2
  <2>3. CASE ReleaseMilestoneMultiAsset(caller, i, recipient)
    <3> DEFINE m == [milestones[i] EXCEPT
                        !.released_amount = @ + (milestones[i].target_amount
                                            - milestones[i].released_amount),
                        !.status = "Released"]
    <3>1. milestones' = [milestones EXCEPT ![i] = m]
      BY <1>1, <2>3 DEF ReleaseMilestoneMultiAsset
    <3>2. m.status = "Released" /\ m.target_amount = milestones[i].target_amount
      BY <2>1 DEF MilestoneData
    <3> HIDE DEF m
    <3> QED BY <1>1, <3>1, <3>2
  <2> QED BY <2>2, <2>3
<1>5. Targets' = Targets /\ ReleasedSteps' = ReleasedSteps \cup {i}
  BY <1>1, <1>4 DEF Targets, ReleasedSteps
<1> QED BY <1>1, <1>2, <1>3, <1>5, PromiseParts DEF Promise!Release

LEMMA PromiseClose ==
    ASSUME TypeInv, NEW caller \in Address, campaign # None,
           \/ EndCampaign(caller)
           \/ CancelCampaign(caller)
    PROVE  Promise!Close
<1>1. /\ campaign \in CampaignData
      /\ milestones' = milestones /\ donors' = donors
  BY StoredTypes DEF TypeInv, EndCampaign, CancelCampaign
<1>2. \/ ~IsTerminal(campaign.status) /\ campaign'.status \in {"Ended", "Cancelled"}
      \/ campaign.status = "Ended" /\ campaign'.status = "Cancelled"
  BY <1>1 DEF EndCampaign, CancelCampaign, CampaignData, CampaignStatus, IsTerminal
<1>3. campaign' # None
  <2>1. CampaignStep
    <3>1. TypeInv /\ [Next]_vars
      BY DEF Next
    <3> QED BY <3>1, StepForms
  <2> QED BY <2>1, CampaignKept
<1>4. \/ Phase = "open" /\ Phase' \in {"ended", "cancelled"}
      \/ Phase = "ended" /\ Phase' = "cancelled"
  BY <1>2, <1>3 DEF Phase, IsTerminal
<1> QED BY <1>1, <1>4, PromiseParts DEF Promise!Close

LEMMA PromiseNext ==
    ASSUME FreshPlans, TypeInv, Records, Progress, PlanKept,
           [Next]_vars
    PROVE  [Promise!Next]_(Promise!view)
<1>1. ASSUME NEW creator \in Address, NEW goal \in GoalAmounts,
             NEW end \in EndTimes, NEW assets \in AssetLists,
             NEW plan \in MilestonePlans, NEW minimum \in MinDonations,
             Initialize(creator, goal, end, assets, plan, minimum)
      PROVE  Promise!Next
  BY <1>1, PromiseOpen DEF Promise!Next
<1>2. ASSUME NEW d \in Address, NEW amount \in DonationAmounts,
             NEW asset \in AssetInfo, Donate(d, amount, asset)
      PROVE  Promise!Next
  BY <1>2, PromisePledge DEF Promise!Next
<1>3. ASSUME NEW d \in Address, ClaimRefund(d)
      PROVE  Promise!Next
  BY <1>3, PromiseReturn DEF Promise!Next
<1>4. ASSUME NEW caller \in Address, NEW i \in 1 .. MAX_MILESTONES,
             NEW recipient \in Recipients,
             \/ ReleaseMilestone(caller, i, recipient)
             \/ ReleaseMilestoneMultiAsset(caller, i, recipient)
      PROVE  Promise!Next
  BY <1>4, PromiseRelease DEF Promise!Next
<1>5. ASSUME NEW caller \in Address, EndCampaign(caller) \/ CancelCampaign(caller)
      PROVE  Promise!Next
  <2>1. campaign # None
    BY <1>5 DEF EndCampaign, CancelCampaign
  <2> QED BY <1>5, <2>1, PromiseClose DEF Promise!Next
<1>6. ASSUME NEW caller \in Address, NEW end \in EndTimes,
             ExtendDeadline(caller, end)
      PROVE  UNCHANGED Promise!view
  <2>1. /\ campaign # None /\ milestones' = milestones /\ donors' = donors
        /\ campaign' = [campaign EXCEPT !.end_time = end]
    BY <1>6 DEF ExtendDeadline
  <2>2. campaign \in CampaignData
    BY <2>1, StoredTypes DEF TypeInv
  <2>3. campaign' # None
    BY <1>6, <2>1, CampaignKept, StepForms DEF Next
  <2>4. campaign'.status = campaign.status
    BY <2>1, <2>2 DEF CampaignData
  <2>5. Phase' = Phase
    BY <2>1, <2>3, <2>4 DEF Phase
  <2> QED BY <2>1, <2>5, PromiseParts DEF Promise!view
<1>7. CASE \/ \E caller \in Address : Freeze(caller) \/ Unfreeze(caller)
           \/ \E caller, successor \in Address : SetAdmin(caller, successor)
           \/ \E caller \in Address, hash \in WasmHash : Upgrade(caller, hash)
           \/ \E t \in Token, amount \in DepositAmounts : Deposit(t, amount)
           \/ CloseLedger
           \/ UNCHANGED vars
  <2>1. UNCHANGED books
    BY <1>7 DEF Freeze, Unfreeze, SetFrozen, SetAdmin, Upgrade, Deposit,
                CloseLedger, vars
  <2> QED BY <2>1, PromiseParts DEF books, Promise!view
<1> QED BY <1>1, <1>2, <1>3, <1>4, <1>5, <1>6, <1>7 DEF Next

\* The contract implements the promise of Escrow: pledges only while it is
\* open, milestones released once and only when the pledges reach them, donors
\* paid back once, only after the close, and after a regular end only if no
\* milestone was released.
THEOREM CampaignKeepsPromise ==
    ASSUME FreshPlans
    PROVE  Spec => KeepsPromise
<1>1. Init => Promise!Init
  BY PromiseInit
<1>2. TypeInv /\ Records /\ Progress /\ PlanKept /\ [Next]_vars
        => [Promise!Next]_(Promise!view)
  BY PromiseNext
<1>3. Spec => []Progress
  BY ProgressAlways
<1> QED BY <1>1, <1>2, <1>3, TypeInvAlways, RecordsAlways, PlanKeptAlways,
           PTL DEF Spec, KeepsPromise, Promise!Spec

=============================================================================
