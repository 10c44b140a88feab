---------------------------- MODULE StorageProofs ----------------------------
(***************************************************************************)
(* Theorems about one invocation of the campaign contract and the token    *)
(* calls in it, for every set of donors and tokens, every list of assets   *)
(* (repeated ones included), every targets and every length of an entry's  *)
(* life: no listing and no contribution is paid twice, the lock is held    *)
(* exactly while a call is in progress, the books agree between calls, and *)
(* a recent donor's refund finds its entries.                              *)
(***************************************************************************)
EXTENDS CampaignStorage, SumFacts

-----------------------------------------------------------------------------
(***************************************************************************)
(* The inductive invariant.  The lock admits one paying call at a time, so *)
(* the stack is empty or holds one frame; the frame remembers a world in   *)
(* which no call was in progress, for a panic to go back to.               *)
(***************************************************************************)
Subject == Milestone \cup Donor

Distinct(s) == \A j, k \in 1 .. Len(s) : s[j] = s[k] => j = k

\* What a donor gave: assets in some order, each once.
ContributionLists == {c \in Seq(AssetInfo) : Distinct(c)}

WellFormed(w) ==
    /\ DOMAIN w = {"lock", "open", "status", "total", "given", "raised",
                   "record", "claimed", "life", "payments"}
    /\ w.lock \in BOOLEAN
    /\ w.status \in [Milestone -> {"Locked", "Unlocked", "Released"}]
    /\ w.record \in [Donor -> ContributionLists]
    /\ w.life \in [Entry -> Nat \cup {None}]
    /\ w.payments \in [Payment -> {0, 1}]

\* A milestone that is released, a donor who has claimed.
Settled(w, s) ==
    \/ s \in Milestone /\ w.status[s] = "Released"
    \/ s \in Donor /\ s \in w.claimed

Unpaid(w, s) == \A p \in Payment : p[1] = s => w.payments[p] = 0

Idle(w) ==
    /\ WellFormed(w)
    /\ ~w.lock
    /\ \A s \in Subject : Settled(w, s) \/ Unpaid(w, s)

\* Entries that a recent donor's refund reads last at least as much longer as
\* the donation is more recent than the threshold.
Recent(w, ages) ==
    \A d \in Donor : ages[d] < PERSISTENT_BUMP_THRESHOLD =>
        \A e \in RefundEntries(d) :
            /\ w.life[e] \in Nat
            /\ w.life[e] + ages[d] >= PERSISTENT_BUMP_THRESHOLD

FrameOk(f, ages) ==
    /\ DOMAIN f = {"call", "subject", "items", "at", "calling", "read", "due",
                   "out", "total", "before"}
    /\ \/ f.call = "refund" /\ f.subject \in Donor
       \/ f.call \in {"release", "multi"} /\ f.subject \in Milestone
    /\ Len(f.items) \in Nat /\ Distinct(f.items)
    /\ \A k \in 1 .. Len(f.items) : <<f.subject, f.items[k]>> \in Payment
    /\ f.at \in 0 .. Len(f.items)
    /\ f.calling \in BOOLEAN /\ (f.calling => f.at # 0)
    /\ Idle(f.before)
    /\ Recent(f.before, ages)

\* The items of a frame that have not been paid yet.
Pending(f) ==
    {k \in 1 .. Len(f.items) : k > f.at \/ (f.calling /\ k = f.at)}

Busy(w, f, ages) ==
    /\ WellFormed(w)
    /\ w.lock
    /\ FrameOk(f, ages)
    /\ \A s \in Subject \ {f.subject} : Settled(w, s) \/ Unpaid(w, s)
    /\ \A k \in Pending(f) : w.payments[<<f.subject, f.items[k]>>] = 0
    /\ f.call # "release" => Settled(w, f.subject)

Inv ==
    /\ since \in [Donor -> Nat]
    /\ Recent(world, since)
    /\ \/ stack = << >> /\ Idle(world)
       \/ \E f : stack = <<f>> /\ Busy(world, f, since)

-----------------------------------------------------------------------------
(***************************************************************************)
(* Entries and their lives.                                                *)
(***************************************************************************)

\* A donation touches every entry its donor's refund will read.
LEMMA RefundReadsDonated ==
    ASSUME NEW d \in Donor, NEW t \in Token
    PROVE  /\ RefundEntries(d) \subseteq DonateEntries(d, t)
           /\ RefundEntries(d) \subseteq Entry
BY DEF RefundEntries, DonateEntries, Entry

\* An access never shortens a life.
LEMMA BumpProlongs ==
    ASSUME NEW life \in [Entry -> Nat \cup {None}], NEW entries
    PROVE  /\ Bump(life, entries) \in [Entry -> Nat \cup {None}]
           /\ \A e \in Entry : life[e] \in Nat =>
                 Bump(life, entries)[e] \in Nat /\ Bump(life, entries)[e] >= life[e]
<1>1. PERSISTENT_BUMP_AMOUNT \in Nat /\ PERSISTENT_BUMP_THRESHOLD \in Nat
      /\ PERSISTENT_BUMP_THRESHOLD <= PERSISTENT_BUMP_AMOUNT
  BY StorageAssumption
<1> QED BY <1>1 DEF Bump

\* What a call writes lasts for the threshold at least.
LEMMA WriteProlongs ==
    ASSUME NEW life \in [Entry -> Nat \cup {None}], NEW entries
    PROVE  /\ Write(life, entries) \in [Entry -> Nat \cup {None}]
           /\ \A e \in Entry : life[e] \in Nat =>
                 Write(life, entries)[e] \in Nat /\ Write(life, entries)[e] >= life[e]
           /\ \A e \in Entry \cap entries :
                 /\ Write(life, entries)[e] \in Nat
                 /\ Write(life, entries)[e] >= PERSISTENT_BUMP_THRESHOLD
<1> DEFINE new == [e \in Entry |-> IF e \in entries /\ life[e] = None
                                   THEN MinimumLife ELSE life[e]]
<1>1. /\ PERSISTENT_BUMP_AMOUNT \in Nat /\ PERSISTENT_BUMP_THRESHOLD \in Nat
      /\ PERSISTENT_BUMP_THRESHOLD <= PERSISTENT_BUMP_AMOUNT
      /\ MinimumLife \in Nat /\ None \notin Nat
  BY StorageAssumption
<1>2. new \in [Entry -> Nat \cup {None}]
  BY <1>1
<1>3. /\ \A e \in Entry : life[e] \in Nat => new[e] = life[e]
      /\ \A e \in Entry \cap entries : new[e] \in Nat
  BY <1>1
<1>4. Write(life, entries) = Bump(new, entries)
  BY DEF Write
<1> HIDE DEF new
<1>5. \A e \in Entry \cap entries :
         Bump(new, entries)[e] \in Nat
         /\ Bump(new, entries)[e] >= PERSISTENT_BUMP_THRESHOLD
  BY <1>1, <1>2, <1>3 DEF Bump
<1> QED BY <1>2, <1>3, <1>4, <1>5, BumpProlongs

\* A world whose lives are not shorter is recent if it was.
LEMMA RecentLasts ==
    ASSUME NEW ages \in [Donor -> Nat], NEW w, NEW v, WellFormed(v), Recent(w, ages),
           \A e \in Entry : w.life[e] \in Nat =>
               v.life[e] \in Nat /\ v.life[e] >= w.life[e]
    PROVE  Recent(v, ages)
<1> SUFFICES ASSUME NEW d \in Donor, ages[d] < PERSISTENT_BUMP_THRESHOLD,
                    NEW e \in RefundEntries(d)
             PROVE  /\ v.life[e] \in Nat
                    /\ v.life[e] + ages[d] >= PERSISTENT_BUMP_THRESHOLD
  BY DEF Recent
<1>1. e \in Entry
  BY DEF RefundEntries, Entry
<1>2. w.life[e] \in Nat /\ w.life[e] + ages[d] >= PERSISTENT_BUMP_THRESHOLD
  BY DEF Recent
<1>3. ages[d] \in Nat /\ PERSISTENT_BUMP_THRESHOLD \in Nat
  BY StorageAssumption
<1> QED BY <1>1, <1>2, <1>3

-----------------------------------------------------------------------------
(***************************************************************************)
(* The invariant holds at first, and every step keeps it.                  *)
(***************************************************************************)

\* An asset selector resolves to a listed token, if to anything.
LEMMA TokenForType ==
    ASSUME NEW asset \in AssetInfo, TokenFor(asset) # None
    PROVE  TokenFor(asset) \in Token /\ TokenFor(asset) \in Range(Issuers)
<1>1. Range(Issuers) \subseteq Token \cup {None}
  BY StorageAssumption DEF Range
<1> QED BY <1>1, StorageAssumption DEF TokenFor, AssetInfo

\* A donation in an asset given before adds no contribution.
LEMMA ApplyDonationType ==
    ASSUME NEW c \in ContributionLists, NEW asset \in AssetInfo
    PROVE  ApplyDonation(c, asset) \in ContributionLists
<1>1. c \in Seq(AssetInfo) /\ Distinct(c)
  BY DEF ContributionLists
<1>2. CASE asset \in Range(c)
  BY <1>2 DEF ApplyDonation
<1>3. CASE asset \notin Range(c)
  <2>1. /\ Append(c, asset) \in Seq(AssetInfo)
        /\ Len(Append(c, asset)) = Len(c) + 1 /\ Len(c) \in Nat
        /\ \A k \in 1 .. Len(c) : Append(c, asset)[k] = c[k]
        /\ Append(c, asset)[Len(c) + 1] = asset
    BY <1>1
  <2>2. \A k \in 1 .. Len(c) : c[k] # asset
    BY <1>1, <1>3 DEF Range
  <2>3. ASSUME NEW j \in 1 .. Len(c) + 1, NEW k \in 1 .. Len(c) + 1,
               Append(c, asset)[j] = Append(c, asset)[k]
        PROVE  j = k
    <3>1. CASE j \in 1 .. Len(c) /\ k \in 1 .. Len(c)
      BY <1>1, <2>1, <2>3, <3>1 DEF Distinct
    <3>2. CASE ~(j \in 1 .. Len(c) /\ k \in 1 .. Len(c))
      BY <2>1, <2>2, <2>3, <3>2
    <3> QED BY <3>1, <3>2
  <2>4. Distinct(Append(c, asset))
    BY <2>1, <2>3 DEF Distinct
  <2> QED BY <1>3, <2>1, <2>4 DEF ApplyDonation, ContributionLists
<1> QED BY <1>2, <1>3

LEMMA InvInit == Init => Inv
<1> SUFFICES ASSUME Init PROVE Inv
  OBVIOUS
<1> DEFINE none == [e \in Entry |-> None]
<1>1. none \in [Entry -> Nat \cup {None}]
  OBVIOUS
<1>2. world.life \in [Entry -> Nat \cup {None}]
  <2> HIDE DEF none
  <2>1. \A entries : Write(none, entries) \in [Entry -> Nat \cup {None}]
    BY <1>1, WriteProlongs
  <2> QED BY <2>1 DEF Init, none
<1>3. /\ DOMAIN world = {"lock", "open", "status", "total", "given", "raised",
                         "record", "claimed", "life", "payments"}
      /\ world.lock = FALSE
      /\ world.status = [i \in Milestone |-> "Locked"]
      /\ world.record = [d \in Donor |-> << >>]
      /\ world.payments = [p \in Payment |-> 0]
  BY DEF Init
<1>4. WellFormed(world)
  <2>1. << >> \in ContributionLists
    BY DEF ContributionLists, Distinct
  <2>2. world.record \in [Donor -> ContributionLists]
    BY <1>3, <2>1
  <2>3. world.payments \in [Payment -> {0, 1}]
    BY <1>3
  <2>4. world.status \in [Milestone -> {"Locked", "Unlocked", "Released"}]
    BY <1>3
  <2> QED BY <1>2, <1>3, <2>2, <2>3, <2>4 DEF WellFormed
<1>5. Idle(world)
  BY <1>3, <1>4 DEF Idle, Unpaid
<1>6. since \in [Donor -> Nat] /\ Recent(world, since)
  BY StorageAssumption DEF Init, Recent
<1> QED BY <1>5, <1>6 DEF Inv, Init

\* A call that takes the lock finds no other in progress.
LEMMA FreeMeansIdle ==
    ASSUME Inv, Free(world.lock)
    PROVE  stack = << >> /\ Idle(world)
BY DEF Inv, Free, Busy

LEMMA InvDonate ==
    ASSUME Inv, NEW d \in Donor, NEW amount \in DonationAmounts,
           NEW asset \in AssetInfo, Donate(d, amount, asset)
    PROVE  Inv'
<1> DEFINE t == TokenFor(asset)
<1>0. t \in Token
  BY TokenForType DEF Donate
<1>1. stack = << >> /\ Idle(world)
  BY FreeMeansIdle DEF Donate
<1>2. WellFormed(world)
  BY <1>1 DEF Idle
<1> HIDE DEF t
<1>3. /\ DOMAIN world' = DOMAIN world
      /\ world'.lock = FALSE
      /\ world'.status = [i \in Milestone |->
            IF world.status[i] = "Locked" /\ world.given + amount >= Targets[i]
            THEN "Unlocked" ELSE world.status[i]]
      /\ world'.record = [world.record EXCEPT ![d] = ApplyDonation(@, asset)]
      /\ world'.claimed = world.claimed
      /\ world'.life = Write(world.life, DonateEntries(d, t))
      /\ world'.payments = world.payments
  BY <1>2 DEF Donate, Unlock, Lock, WellFormed, t
<1>4. world.life \in [Entry -> Nat \cup {None}]
  BY <1>2 DEF WellFormed
<1>5. WellFormed(world')
  <2>1. world'.life \in [Entry -> Nat \cup {None}]
    BY <1>3, <1>4, WriteProlongs
  <2>2. world'.status \in [Milestone -> {"Locked", "Unlocked", "Released"}]
    BY <1>2, <1>3 DEF WellFormed
  <2>3. world'.record \in [Donor -> ContributionLists]
    BY <1>2, <1>3, ApplyDonationType DEF WellFormed
  <2>4. DOMAIN world' = DOMAIN world /\ world'.lock \in BOOLEAN
        /\ world'.payments = world.payments
    BY <1>3
  <2> QED BY <1>2, <2>1, <2>2, <2>3, <2>4 DEF WellFormed
<1>6. Idle(world')
  <2>1. \A i \in Milestone : world.status[i] = "Released" => world'.status[i] = "Released"
    BY <1>3
  <2> QED BY <1>1, <1>3, <1>5, <2>1 DEF Idle, Settled, Unpaid
<1>7. since' \in [Donor -> Nat] /\ since' = [since EXCEPT ![d] = 0]
  BY DEF Inv, Donate
<1>8. Recent(world', since')
  <2> SUFFICES ASSUME NEW x \in Donor, since'[x] < PERSISTENT_BUMP_THRESHOLD,
                      NEW e \in RefundEntries(x)
               PROVE  /\ world'.life[e] \in Nat
                      /\ world'.life[e] + since'[x] >= PERSISTENT_BUMP_THRESHOLD
    BY DEF Recent
  <2>1. e \in Entry
    BY <1>0, RefundReadsDonated
  <2>2. PERSISTENT_BUMP_THRESHOLD \in Nat
    BY StorageAssumption
  <2>3. CASE x = d
    <3>1. e \in Entry \cap DonateEntries(d, t)
      BY <1>0, <2>1, <2>3, RefundReadsDonated
    <3>2. world'.life[e] \in Nat /\ world'.life[e] >= PERSISTENT_BUMP_THRESHOLD
      BY <1>3, <1>4, <3>1, WriteProlongs
    <3> QED BY <1>7, <2>2, <2>3, <3>2
  <2>4. CASE x # d
    <3>1. since'[x] = since[x]
      BY <1>7, <2>4 DEF Inv
    <3>2. /\ world.life[e] \in Nat
          /\ world.life[e] + since[x] >= PERSISTENT_BUMP_THRESHOLD
      BY <3>1 DEF Inv, Recent
    <3>3. world'.life[e] \in Nat /\ world'.life[e] >= world.life[e]
      BY <1>3, <1>4, <2>1, <3>2, WriteProlongs
    <3>4. since[x] \in Nat
      BY DEF Inv
    <3> QED BY <2>2, <3>1, <3>2, <3>3, <3>4
  <2> QED BY <2>3, <2>4
<1> QED BY <1>1, <1>6, <1>7, <1>8 DEF Inv, Donate

\* What only touches lives and the campaign's status changes neither predicate.
LEMMA SameBooks ==
    ASSUME NEW w, NEW v, NEW ages, WellFormed(v),
           v.lock = w.lock, v.status = w.status, v.claimed = w.claimed,
           v.payments = w.payments
    PROVE  /\ Idle(w) => Idle(v)
           /\ \A f : Busy(w, f, ages) => Busy(v, f, ages)
<1>1. \A s : Settled(v, s) <=> Settled(w, s)
  BY DEF Settled
<1>2. \A s : Unpaid(v, s) <=> Unpaid(w, s)
  BY DEF Unpaid
<1> QED BY <1>1, <1>2 DEF Idle, Busy

LEMMA InvWellFormed == ASSUME Inv PROVE WellFormed(world)
BY DEF Inv, Idle, Busy

\* Another life for the entries of a well-formed world.
LEMMA NewLives ==
    ASSUME NEW w, NEW v, WellFormed(w), DOMAIN v = DOMAIN w,
           v.lock = w.lock, v.status = w.status, v.record = w.record,
           v.payments = w.payments, v.life \in [Entry -> Nat \cup {None}]
    PROVE  WellFormed(v)
BY DEF WellFormed

LEMMA InvEndCampaign ==
    ASSUME Inv, EndCampaign PROVE Inv'
<1>1. WellFormed(world)
  BY InvWellFormed
<1>2. /\ DOMAIN world' = DOMAIN world
      /\ world'.lock = world.lock /\ world'.status = world.status
      /\ world'.record = world.record /\ world'.claimed = world.claimed
      /\ world'.payments = world.payments
      /\ world'.life = Bump(world.life, {<<"CampaignData">>})
  BY <1>1 DEF EndCampaign, WellFormed
<1>3. world.life \in [Entry -> Nat \cup {None}]
  BY <1>1 DEF WellFormed
<1>4. WellFormed(world')
  <2>1. world'.life \in [Entry -> Nat \cup {None}]
    BY <1>2, <1>3, BumpProlongs
  <2> QED BY <1>1, <1>2, <2>1, NewLives
<1>5. Recent(world', since)
  <2>1. \A e \in Entry : world.life[e] \in Nat =>
            world'.life[e] \in Nat /\ world'.life[e] >= world.life[e]
    BY <1>2, <1>3, BumpProlongs
  <2>2. since \in [Donor -> Nat] /\ Recent(world, since)
    BY DEF Inv
  <2> QED BY <1>4, <2>1, <2>2, RecentLasts
<1>6. /\ Idle(world) => Idle(world')
      /\ \A f : Busy(world, f, since) => Busy(world', f, since)
  BY <1>2, <1>4, SameBooks
<1> QED BY <1>5, <1>6 DEF Inv, EndCampaign

LEMMA InvCloseLedger ==
    ASSUME Inv, CloseLedger PROVE Inv'
<1>1. WellFormed(world) /\ stack = << >> /\ Idle(world)
  BY InvWellFormed DEF CloseLedger, Inv
<1>2. /\ DOMAIN world' = DOMAIN world
      /\ world'.lock = world.lock /\ world'.status = world.status
      /\ world'.record = world.record /\ world'.claimed = world.claimed
      /\ world'.payments = world.payments
      /\ world'.life = [e \in Entry |-> IF world.life[e] = None THEN None
                                        ELSE AtLeastZero(world.life[e] - 1)]
  BY <1>1 DEF CloseLedger, WellFormed
<1>3. world.life \in [Entry -> Nat \cup {None}]
  BY <1>1 DEF WellFormed
<1>4. None \notin Nat /\ PERSISTENT_BUMP_THRESHOLD \in Nat
  BY StorageAssumption
<1>5. world'.life \in [Entry -> Nat \cup {None}]
  BY <1>2, <1>3, <1>4 DEF AtLeastZero
<1>6. Idle(world')
  <2>1. WellFormed(world')
    BY <1>1, <1>2, <1>5, NewLives
  <2> QED BY <1>1, <1>2, <2>1, SameBooks
<1>7. since' = [d \in Donor |-> Least(since[d] + 1, PERSISTENT_BUMP_THRESHOLD)]
      /\ since \in [Donor -> Nat]
  BY DEF CloseLedger, Inv
<1>8. since' \in [Donor -> Nat]
  BY <1>4, <1>7 DEF Least
<1>9. Recent(world', since')
  <2> SUFFICES ASSUME NEW d \in Donor, since'[d] < PERSISTENT_BUMP_THRESHOLD,
                      NEW e \in RefundEntries(d)
               PROVE  /\ world'.life[e] \in Nat
                      /\ world'.life[e] + since'[d] >= PERSISTENT_BUMP_THRESHOLD
    BY DEF Recent
  <2>1. since[d] \in Nat /\ since'[d] = since[d] + 1
        /\ since[d] < PERSISTENT_BUMP_THRESHOLD
    BY <1>4, <1>7 DEF Least
  <2>2. /\ world.life[e] \in Nat
        /\ world.life[e] + since[d] >= PERSISTENT_BUMP_THRESHOLD
    BY <2>1 DEF Inv, Recent
  <2>3. e \in Entry
    BY DEF RefundEntries, Entry
  <2>4. world'.life[e] = AtLeastZero(world.life[e] - 1)
    BY <1>2, <1>4, <2>2, <2>3
  <2> QED BY <1>4, <2>1, <2>2, <2>4 DEF AtLeastZero
<1> QED BY <1>1, <1>6, <1>8, <1>9 DEF Inv, CloseLedger

LEMMA InvRestore ==
    ASSUME Inv, NEW e \in Entry, Restore(e) PROVE Inv'
<1>1. WellFormed(world) /\ stack = << >> /\ Idle(world)
  BY InvWellFormed DEF Restore, Inv
<1>2. /\ DOMAIN world' = DOMAIN world
      /\ world'.lock = world.lock /\ world'.status = world.status
      /\ world'.record = world.record /\ world'.claimed = world.claimed
      /\ world'.payments = world.payments
      /\ world'.life = [world.life EXCEPT ![e] = MinimumLife]
  BY <1>1 DEF Restore, WellFormed
<1>3. world.life \in [Entry -> Nat \cup {None}] /\ world.life[e] = 0
      /\ MinimumLife \in Nat
  BY <1>1, StorageAssumption DEF WellFormed, Restore
<1>4. WellFormed(world')
  <2>1. world'.life \in [Entry -> Nat \cup {None}]
    BY <1>2, <1>3
  <2> QED BY <1>1, <1>2, <2>1, NewLives
<1>5. Idle(world')
  BY <1>1, <1>2, <1>4, SameBooks
<1>6. Recent(world', since)
  <2>1. \A x \in Entry : world.life[x] \in Nat =>
            world'.life[x] \in Nat /\ world'.life[x] >= world.life[x]
    BY <1>2, <1>3
  <2>2. since \in [Donor -> Nat] /\ Recent(world, since)
    BY DEF Inv
  <2> QED BY <1>4, <2>1, <2>2, RecentLasts
<1> QED BY <1>1, <1>5, <1>6 DEF Inv, Restore

\* The frame of a call that begins when none is in progress.
LEMMA FirstFrame ==
    ASSUME Inv, Idle(world), NEW call, NEW subject, NEW items,
           Len(items) \in Nat, Distinct(items),
           \A k \in 1 .. Len(items) : <<subject, items[k]>> \in Payment,
           \/ call = "refund" /\ subject \in Donor
           \/ call \in {"release", "multi"} /\ subject \in Milestone,
           Unpaid(world, subject),
           stack' = <<Frame(call, subject, items)>>, since' = since,
           WellFormed(world'), world'.lock, world'.payments = world.payments,
           \A s \in Subject : Settled(world, s) => Settled(world', s),
           call # "release" => Settled(world', subject),
           Recent(world', since)
    PROVE  Inv'
<1> DEFINE f == Frame(call, subject, items)
<1>1. /\ DOMAIN f = {"call", "subject", "items", "at", "calling", "read", "due",
                     "out", "total", "before"}
      /\ f.call = call /\ f.subject = subject /\ f.items = items
      /\ f.at = 0 /\ f.calling = FALSE /\ f.before = world
  BY DEF Frame
<1>2. since \in [Donor -> Nat] /\ Recent(world, since)
  BY DEF Inv
<1> HIDE DEF f
<1>3. FrameOk(f, since)
  <2>1. f.at \in 0 .. Len(f.items)
    BY <1>1
  <2>2. f.calling \in BOOLEAN /\ ~f.calling
    <3>1. f.calling = FALSE
      BY <1>1
    <3> QED BY <3>1
  <2> QED BY <1>1, <1>2, <2>1, <2>2 DEF FrameOk
<1>4. \A s : Unpaid(world, s) => Unpaid(world', s)
  BY DEF Unpaid
<1>5. Busy(world', f, since)
  <2>1. \A s \in Subject : Settled(world', s) \/ Unpaid(world', s)
    BY <1>4 DEF Idle
  <2>2. Unpaid(world', f.subject)
    BY <1>1, <1>4
  <2>3. f.call # "release" => Settled(world', f.subject)
    BY <1>1
  <2>4. \A k \in Pending(f) : world'.payments[<<f.subject, f.items[k]>>] = 0
    <3>1. \A k \in Pending(f) : <<f.subject, f.items[k]>> \in Payment
      BY <1>3 DEF Pending, FrameOk
    <3>2. \A x : <<f.subject, x>>[1] = f.subject
      OBVIOUS
    <3> QED BY <2>2, <3>1, <3>2 DEF Unpaid
  <2> QED BY <1>3, <2>1, <2>3, <2>4 DEF Busy
<1> QED BY <1>2, <1>5 DEF Inv, f

\* Taking the lock and touching some entries, the rest as it was.
LEMMA StartedWorld ==
    ASSUME Inv, NEW v, NEW entries, WellFormed(world),
           DOMAIN v = DOMAIN world, v.lock = TRUE,
           v.status \in [Milestone -> {"Locked", "Unlocked", "Released"}],
           v.record = world.record, v.payments = world.payments,
           v.life = Bump(world.life, entries)
    PROVE  WellFormed(v) /\ Recent(v, since)
<1>1. world.life \in [Entry -> Nat \cup {None}]
  BY DEF WellFormed
<1>2. v.life \in [Entry -> Nat \cup {None}]
      /\ \A e \in Entry : world.life[e] \in Nat =>
            v.life[e] \in Nat /\ v.life[e] >= world.life[e]
  BY <1>1, BumpProlongs
<1>3. WellFormed(v)
  BY <1>2 DEF WellFormed
<1>4. since \in [Donor -> Nat] /\ Recent(world, since)
  BY DEF Inv
<1> QED BY <1>2, <1>3, <1>4, RecentLasts

LEMMA InvStartRefund ==
    ASSUME Inv, NEW d \in Donor, StartRefund(d) PROVE Inv'
<1>1. stack = << >> /\ Idle(world) /\ WellFormed(world)
  BY FreeMeansIdle DEF StartRefund, Idle
<1>2. /\ DOMAIN world' = DOMAIN world
      /\ world'.lock = TRUE
      /\ world'.status = world.status
      /\ world'.record = world.record
      /\ world'.claimed = world.claimed \cup {d}
      /\ world'.payments = world.payments
      /\ world'.life = Bump(world.life, RefundEntries(d))
  BY <1>1 DEF StartRefund, Lock, WellFormed
<1>3. WellFormed(world') /\ Recent(world', since)
  <2>1. world'.status \in [Milestone -> {"Locked", "Unlocked", "Released"}]
    BY <1>1, <1>2 DEF WellFormed
  <2> QED BY <1>1, <1>2, <2>1, StartedWorld
<1>4. Unpaid(world, d)
  <2>1. ~Settled(world, d)
    BY StorageAssumption DEF StartRefund, Settled
  <2> QED BY <1>1, <2>1 DEF Idle, Subject
<1>5. /\ \A s \in Subject : Settled(world, s) => Settled(world', s)
      /\ Settled(world', d)
  BY <1>2 DEF Settled
<1>6. stack' = <<Frame("refund", d, world.record[d])>> /\ since' = since
  BY <1>1 DEF StartRefund
<1>7. /\ Len(world.record[d]) \in Nat /\ Distinct(world.record[d])
      /\ \A k \in 1 .. Len(world.record[d]) : <<d, world.record[d][k]>> \in Payment
  <2>1. world.record[d] \in Seq(AssetInfo) /\ Distinct(world.record[d])
    BY <1>1 DEF WellFormed, ContributionLists
  <2>2. \A k \in 1 .. Len(world.record[d]) : world.record[d][k] \in AssetInfo
    BY <2>1
  <2> QED BY <2>1, <2>2 DEF Payment
<1> QED BY <1>1, <1>2, <1>3, <1>4, <1>5, <1>6, <1>7, FirstFrame

\* The listings are walked in order, each by its own position.
LEMMA ListingsType ==
    /\ Len(EveryListing) = Len(Issuers) /\ Len(Issuers) \in Nat
    /\ \A k \in 1 .. Len(Issuers) : EveryListing[k] = k
    /\ Distinct(EveryListing)
    /\ \A i \in Milestone, k \in 1 .. Len(EveryListing) :
          <<i, EveryListing[k]>> \in Payment
<1>1. DOMAIN Issuers = 1 .. Len(Issuers) /\ Len(Issuers) \in Nat
  BY StorageAssumption
<1>2. EveryListing \in Seq(Nat) /\ Len(EveryListing) = Len(Issuers)
  BY <1>1 DEF EveryListing
<1>3. \A k \in 1 .. Len(Issuers) : EveryListing[k] = k
  BY <1>1 DEF EveryListing
<1> QED BY <1>1, <1>2, <1>3 DEF Distinct, Payment

LEMMA InvStartRelease ==
    ASSUME Inv, NEW i \in Milestone, StartRelease(i) PROVE Inv'
<1>1. stack = << >> /\ Idle(world) /\ WellFormed(world)
  BY FreeMeansIdle DEF StartRelease, Idle
<1>2. /\ DOMAIN world' = DOMAIN world
      /\ world'.lock = TRUE
      /\ world'.status = world.status
      /\ world'.record = world.record
      /\ world'.claimed = world.claimed
      /\ world'.payments = world.payments
      /\ world'.life = Bump(world.life, ReleaseEntries(i))
  BY <1>1 DEF StartRelease, Lock, WellFormed
<1>3. WellFormed(world') /\ Recent(world', since)
  <2>1. world'.status \in [Milestone -> {"Locked", "Unlocked", "Released"}]
    BY <1>1, <1>2 DEF WellFormed
  <2> QED BY <1>1, <1>2, <2>1, StartedWorld
<1>4. Unpaid(world, i)
  <2>1. ~Settled(world, i)
    BY StorageAssumption DEF StartRelease, Settled
  <2> QED BY <1>1, <2>1 DEF Idle, Subject
<1>5. \A s \in Subject : Settled(world, s) => Settled(world', s)
  BY <1>2 DEF Settled
<1>6. stack' = <<Frame("release", i, EveryListing)>> /\ since' = since
  BY <1>1 DEF StartRelease
<1> QED BY <1>1, <1>2, <1>3, <1>4, <1>5, <1>6, ListingsType, FirstFrame

LEMMA InvStartReleaseMultiAsset ==
    ASSUME Inv, NEW i \in Milestone, StartReleaseMultiAsset(i) PROVE Inv'
<1>1. stack = << >> /\ Idle(world) /\ WellFormed(world)
  BY FreeMeansIdle DEF StartReleaseMultiAsset, Idle
<1>2. /\ DOMAIN world' = DOMAIN world
      /\ world'.lock = TRUE
      /\ world'.status = [world.status EXCEPT ![i] = "Released"]
      /\ world'.record = world.record
      /\ world'.claimed = world.claimed
      /\ world'.payments = world.payments
      /\ world'.life = Bump(world.life, MultiAssetEntries(i))
  BY <1>1 DEF StartReleaseMultiAsset, Lock, WellFormed
<1>3. WellFormed(world') /\ Recent(world', since)
  <2>1. world'.status \in [Milestone -> {"Locked", "Unlocked", "Released"}]
    BY <1>1, <1>2 DEF WellFormed
  <2> QED BY <1>1, <1>2, <2>1, StartedWorld
<1>4. Unpaid(world, i)
  <2>1. ~Settled(world, i)
    BY StorageAssumption DEF StartReleaseMultiAsset, Settled
  <2> QED BY <1>1, <2>1 DEF Idle, Subject
<1>5. /\ \A s \in Subject : Settled(world, s) => Settled(world', s)
      /\ Settled(world', i)
  BY <1>1, <1>2 DEF Settled, WellFormed
<1>6. stack' = <<Frame("multi", i, EveryListing)>> /\ since' = since
  BY <1>1 DEF StartReleaseMultiAsset
<1> QED BY <1>1, <1>2, <1>3, <1>4, <1>5, <1>6, ListingsType, FirstFrame

-----------------------------------------------------------------------------
\* The steps of the call in progress: the stack holds its frame and no other.
LEMMA OnlyFrame ==
    ASSUME Inv, stack # << >>
    PROVE  /\ Len(stack) = 1 /\ stack = <<Top>>
           /\ Busy(world, Top, since)
           /\ \A f : WithTop(f) = <<f>>
           /\ Popped = << >>
<1>1. PICK f : stack = <<f>> /\ Busy(world, f, since)
  BY DEF Inv
<1>2. Len(stack) = 1 /\ Top = f
  BY <1>1 DEF Top
<1>3. \A g : WithTop(g) = <<g>>
  BY <1>1, <1>2 DEF WithTop
<1>4. Popped = << >>
  BY <1>1, <1>2 DEF Popped
<1> QED BY <1>1, <1>2, <1>3, <1>4

LEMMA InvNextItem ==
    ASSUME Inv, NextItem PROVE Inv'
<1>1. Busy(world, Top, since) /\ FrameOk(Top, since)
  BY OnlyFrame DEF NextItem, Busy
<1> DEFINE read == RaisedIn(TokenOf(Top, Top.items[Top.at + 1]))
<1>2. PICK due \in Dues(read) :
         stack' = WithTop([Top EXCEPT !.at = @ + 1, !.calling = due > 0,
                                      !.read = read, !.due = due])
  BY DEF NextItem
<1> HIDE DEF read
<1> DEFINE f == [Top EXCEPT !.at = @ + 1, !.calling = due > 0,
                            !.read = read, !.due = due]
<1>3. stack' = <<f>>
  BY <1>2, OnlyFrame DEF NextItem
<1>4. /\ DOMAIN f = DOMAIN Top
      /\ f.call = Top.call /\ f.subject = Top.subject /\ f.before = Top.before
      /\ f.items = Top.items /\ f.at = Top.at + 1
      /\ f.calling = (due > 0)
  BY <1>1 DEF FrameOk
<1> HIDE DEF f
<1>5. f.calling \in BOOLEAN
  BY <1>4
<1>6. /\ Top.at \in Nat /\ Top.at < Len(Top.items) /\ ~Top.calling
      /\ Len(Top.items) \in Nat
  BY <1>1 DEF NextItem, FrameOk
<1>7. FrameOk(f, since)
  <2>1. f.at \in 0 .. Len(f.items) /\ f.at # 0
    BY <1>4, <1>6
  <2> QED BY <1>1, <1>4, <1>5, <2>1 DEF FrameOk
<1>8. Pending(f) \subseteq Pending(Top)
  BY <1>4, <1>6 DEF Pending
<1>9. Busy(world, f, since)
  BY <1>1, <1>4, <1>7, <1>8 DEF Busy
<1> QED BY <1>3, <1>9 DEF Inv, NextItem

LEMMA InvTokenReturns ==
    ASSUME Inv, TokenReturns PROVE Inv'
<1> DEFINE item == Top.items[Top.at]
           p == <<Top.subject, item>>
           f == [Top EXCEPT !.calling = FALSE, !.out = @ + Top.due]
<1>1. Busy(world, Top, since) /\ FrameOk(Top, since) /\ WellFormed(world)
  BY OnlyFrame DEF TokenReturns, Busy
<1>2. stack' = <<f>> /\ since' = since
  BY OnlyFrame DEF TokenReturns
<1>3. /\ Top.at \in 1 .. Len(Top.items) /\ Top.at \in Pending(Top)
      /\ p \in Payment /\ Top.subject \in Subject
  BY <1>1 DEF TokenReturns, FrameOk, Subject, Pending
<1>4. /\ DOMAIN world' = DOMAIN world
      /\ world'.lock = world.lock /\ world'.status = world.status
      /\ world'.record = world.record /\ world'.claimed = world.claimed
      /\ world'.life = world.life
      /\ world'.payments = [world.payments EXCEPT ![p] = @ + 1]
  BY <1>1 DEF TokenReturns, WellFormed
<1>5. world.payments \in [Payment -> {0, 1}] /\ world.payments[p] = 0
  BY <1>1, <1>3 DEF WellFormed, Busy
<1>6. world'.payments \in [Payment -> {0, 1}]
  <2> HIDE DEF p
  <2> QED BY <1>3, <1>4, <1>5
<1>7. WellFormed(world')
  BY <1>1, <1>4, <1>6 DEF WellFormed
<1>8. \A q \in Payment : q # p => world'.payments[q] = world.payments[q]
  <2> HIDE DEF p
  <2> QED BY <1>4, <1>5
<1>9. Recent(world', since)
  <2>1. since \in [Donor -> Nat] /\ Recent(world, since)
    BY DEF Inv
  <2> QED BY <1>4, <2>1 DEF Recent
<1>10. /\ DOMAIN f = DOMAIN Top
       /\ f.call = Top.call /\ f.subject = Top.subject /\ f.before = Top.before
       /\ f.items = Top.items /\ f.at = Top.at /\ f.calling = FALSE
  BY <1>1 DEF FrameOk
<1> HIDE DEF f
<1>11. FrameOk(f, since)
  BY <1>1, <1>10 DEF FrameOk
<1>12. Busy(world', f, since)
  <2>1. \A s : Settled(world', s) <=> Settled(world, s)
    BY <1>4 DEF Settled
  <2>2. \A s \in Subject \ {f.subject} : Settled(world', s) \/ Unpaid(world', s)
    <3> SUFFICES ASSUME NEW s \in Subject, s # Top.subject, ~Settled(world', s)
                 PROVE  Unpaid(world', s)
      BY <1>10
    <3>1. Unpaid(world, s)
      BY <1>1, <2>1 DEF Busy
    <3>2. \A q \in Payment : q[1] = s => q # p
      OBVIOUS
    <3> QED BY <1>8, <3>1, <3>2 DEF Unpaid
  <2>3. \A k \in Pending(f) : world'.payments[<<f.subject, f.items[k]>>] = 0
    <3> SUFFICES ASSUME NEW k \in Pending(f)
                 PROVE  world'.payments[<<Top.subject, Top.items[k]>>] = 0
      BY <1>10
    <3>1. k \in Pending(Top) /\ k # Top.at /\ k \in 1 .. Len(Top.items)
      BY <1>1, <1>10 DEF Pending, FrameOk
    <3>2. Top.items[k] # item /\ <<Top.subject, Top.items[k]>> \in Payment
      BY <1>1, <1>3, <3>1 DEF FrameOk, Distinct
    <3>3. world.payments[<<Top.subject, Top.items[k]>>] = 0
      BY <1>1, <3>1 DEF Busy
    <3> QED BY <1>8, <3>2, <3>3
  <2>4. world'.lock /\ (f.call # "release" => Settled(world', f.subject))
    BY <1>1, <1>4, <1>10, <2>1 DEF Busy
  <2> QED BY <1>7, <1>11, <2>2, <2>3, <2>4 DEF Busy
<1> QED BY <1>2, <1>9, <1>12 DEF Inv

LEMMA InvFinish ==
    ASSUME Inv, Finish PROVE Inv'
<1>1. Busy(world, Top, since) /\ FrameOk(Top, since) /\ WellFormed(world)
  BY OnlyFrame DEF Finish, Busy
<1>2. stack' = << >> /\ since' = since
  BY OnlyFrame DEF Finish
<1>3. /\ DOMAIN world' = DOMAIN world
      /\ world'.lock = FALSE
      /\ world'.status = IF Top.call = "release"
                         THEN [world.status EXCEPT ![Top.subject] = "Released"]
                         ELSE world.status
      /\ world'.record = world.record /\ world'.claimed = world.claimed
      /\ world'.life = world.life /\ world'.payments = world.payments
  <2>1. CASE Top.call = "release"
    BY <1>1, <2>1 DEF Finish, Unlock, WellFormed
  <2>2. CASE Top.call = "multi"
    BY <1>1, <2>2 DEF Finish, Unlock, WellFormed
  <2>3. CASE Top.call = "refund"
    BY <1>1, <2>3 DEF Finish, Unlock, WellFormed
  <2> QED BY <1>1, <2>1, <2>2, <2>3 DEF FrameOk
<1>4. world'.status \in [Milestone -> {"Locked", "Unlocked", "Released"}]
  <2>1. world.status \in [Milestone -> {"Locked", "Unlocked", "Released"}]
    BY <1>1 DEF WellFormed
  <2> QED BY <1>3, <2>1
<1>5. WellFormed(world')
  BY <1>1, <1>3, <1>4 DEF WellFormed
<1>6. \A s \in Subject : Settled(world, s) => Settled(world', s)
  BY <1>1, <1>3 DEF Settled, WellFormed
<1>7. Settled(world', Top.subject)
  <2>1. CASE Top.call = "release"
    <3>1. Top.subject \in Milestone
      BY <1>1, <2>1 DEF FrameOk
    <3> QED BY <1>1, <1>3, <2>1, <3>1 DEF Settled, WellFormed
  <2>2. CASE Top.call # "release"
    BY <1>1, <1>6, <2>2 DEF Busy, FrameOk, Subject
  <2> QED BY <2>1, <2>2
<1>8. \A s : Unpaid(world, s) => Unpaid(world', s)
  BY <1>3 DEF Unpaid
<1>9. Idle(world')
  BY <1>1, <1>3, <1>5, <1>6, <1>7, <1>8 DEF Idle, Busy
<1>10. Recent(world', since) /\ since \in [Donor -> Nat]
  BY <1>3 DEF Inv, Recent
<1> QED BY <1>2, <1>9, <1>10 DEF Inv

LEMMA InvPanic ==
    ASSUME Inv, Panic PROVE Inv'
<1>1. FrameOk(Top, since)
  BY OnlyFrame DEF Panic, Busy
<1>2. stack' = << >> /\ world' = Top.before /\ since' = since
  BY OnlyFrame DEF Panic
<1>3. since \in [Donor -> Nat]
  BY DEF Inv
<1> QED BY <1>1, <1>2, <1>3 DEF Inv, FrameOk

LEMMA InvNext ==
    ASSUME Inv, [Next]_vars PROVE Inv'
<1>1. CASE UNCHANGED vars
  BY <1>1 DEF vars, Inv
<1>2. CASE Next
  BY <1>2, InvDonate, InvEndCampaign, InvStartRefund, InvStartRelease,
     InvStartReleaseMultiAsset, InvNextItem, InvTokenReturns, InvFinish,
     InvPanic, InvCloseLedger, InvRestore DEF Next
<1> QED BY <1>1, <1>2

LEMMA InvAlways == Spec => []Inv
BY InvInit, InvNext, PTL DEF Spec

-----------------------------------------------------------------------------
(***************************************************************************)
(* The books.  A release of several assets pays the tokens one by one and  *)
(* writes the total last, so that total and books differ while it runs.    *)
(* Two cases keep them together at the end: a target within the total      *)
(* takes no token below zero and what is out is what is missing; a target  *)
(* above it empties every token and the total with them.                   *)
(***************************************************************************)
Raised(w) == SumFunctionOnSet(w.raised, Token)

\* Only listed tokens were ever given.
BooksType(w) ==
    /\ w.total \in Nat
    /\ w.raised \in [Token -> Nat]
    /\ \A t \in Token \ Range(Issuers) : w.raised[t] = 0

Balanced(w) == BooksType(w) /\ w.total = Raised(w)

Within(w, f) == Targets[f.subject] <= w.total

Spent(w, f) ==
    IF Within(w, f) THEN w.total = Raised(w) + f.out
    ELSE /\ Raised(w) + f.out >= w.total
         /\ \A k \in 1 .. f.at : \/ (f.calling /\ k = f.at)
                                  \/ Issuers[k] = None
                                  \/ w.raised[Issuers[k]] = 0

InWork(w, f) ==
    f.calling => /\ Issuers[f.at] \in Token
                 /\ f.read = w.raised[Issuers[f.at]]
                 /\ f.due = Share(f.read, Targets[f.subject], w.total)

BookFrame(w, f) ==
    /\ BooksType(w)
    /\ Balanced(f.before)
    /\ f.total = w.total
    /\ IF f.call = "multi"
       THEN /\ f.items = EveryListing
            /\ w.total > 0 /\ f.out \in Nat /\ Spent(w, f) /\ InWork(w, f)
       ELSE Balanced(w)

Books == IF stack = << >> THEN Balanced(world) ELSE BookFrame(world, Top)

\* A sum of naturals is one, and nothing adds up to nothing.
LEMMA SumOfNaturals ==
    ASSUME NEW f \in [Token -> Nat]
    PROVE  /\ SumFunctionOnSet(f, Token) \in Nat
           /\ (\A t \in Token : f[t] = 0) => SumFunctionOnSet(f, Token) = 0
<1> DEFINE zero == [t \in Token |-> 0]
           Q == {s \in SUBSET Token : SumFunctionOnSet(zero, s) = 0}
<1>1. IsFiniteSet(Token)
  BY StorageAssumption
<1>2. {} \in Q
  BY SumEmpty
<1>3. ASSUME NEW s \in SUBSET Token, s # {}, \A y \in s : s \ {y} \in Q
      PROVE  s \in Q
  <2>1. PICK y \in s : TRUE
    BY <1>3
  <2>2. IsFiniteSet(s) /\ \A x \in s : zero[x] \in Int
    BY <1>1, FS_Subset
  <2>3. SumFunctionOnSet(zero, s) = zero[y] + SumFunctionOnSet(zero, s \ {y})
    <3> HIDE DEF zero
    <3> QED BY <2>2, SumRemove
  <2> QED BY <1>3, <2>3
<1>4. Token \in Q
  <2> HIDE DEF Q
  <2> QED BY <1>1, <1>2, <1>3, SubsetInduction
<1>5. SumFunctionOnSet(zero, Token) = 0
  BY <1>4
<1>6. \A t \in Token : f[t] \in Int /\ zero[t] \in Int /\ zero[t] <= f[t]
  OBVIOUS
<1>7. (\A t \in Token : f[t] = 0) => \A t \in Token : f[t] = zero[t]
  OBVIOUS
<1> HIDE DEF zero
<1>8. SumFunctionOnSet(f, Token) \in Int /\ 0 <= SumFunctionOnSet(f, Token)
  BY <1>1, <1>5, <1>6, SumInt, SumAtMost
<1> QED BY <1>1, <1>5, <1>7, <1>8, SumAgree

\* One token's entry changes the sum by as much.
LEMMA SumOfChange ==
    ASSUME NEW f \in [Token -> Nat], NEW g \in [Token -> Nat], NEW t \in Token,
           \A u \in Token \ {t} : g[u] = f[u]
    PROVE  SumFunctionOnSet(g, Token) = SumFunctionOnSet(f, Token) + g[t] - f[t]
<1>1. IsFiniteSet(Token) /\ \A u \in Token : f[u] \in Int /\ g[u] \in Int
  BY StorageAssumption
<1> QED BY <1>1, SumChange

\* What is due of a token: at most its book if the target is within the total,
\* at least its book otherwise.
LEMMA ShareBounds ==
    ASSUME NEW r \in Nat, NEW target \in Nat, NEW n \in Nat, n > 0
    PROVE  /\ Share(r, target, n) \in Nat
           /\ target <= n => Share(r, target, n) <= r
           /\ target >= n => Share(r, target, n) >= r
<1> DEFINE p == r * target
           q == p \div n
<1>1. p \in Nat
  OBVIOUS
<1>2. Share(r, target, n) = q
  BY DEF Share
<1>3. q \in Nat /\ n * q <= p /\ p < n * (q + 1)
  <2> HIDE DEF p
  <2> QED BY <1>1
<1>4. target <= n => p <= r * n
  OBVIOUS
<1>5. target >= n => p >= r * n
  OBVIOUS
<1> HIDE DEF p, q
<1>6. q > r => n * q >= n * (r + 1)
  BY <1>3
<1>7. q < r => n * (q + 1) <= n * r
  BY <1>3
<1>8. n * (r + 1) = n * r + n /\ n * r = r * n /\ n * r \in Nat
  OBVIOUS
<1> QED BY <1>1, <1>2, <1>3, <1>4, <1>5, <1>6, <1>7, <1>8

LEMMA BooksInit == Init => Books
<1> SUFFICES ASSUME Init PROVE Books
  OBVIOUS
<1>1. world.total = 0 /\ world.raised = [t \in Token |-> 0] /\ stack = << >>
  BY DEF Init
<1>2. world.raised \in [Token -> Nat] /\ \A t \in Token : world.raised[t] = 0
  BY <1>1
<1> QED BY <1>1, <1>2, SumOfNaturals DEF Books, Balanced, BooksType, Raised

LEMMA BooksDonate ==
    ASSUME Inv, Books, NEW d \in Donor, NEW amount \in DonationAmounts,
           NEW asset \in AssetInfo, Donate(d, amount, asset)
    PROVE  Books'
<1> DEFINE t == TokenFor(asset)
<1>0. t \in Token /\ t \in Range(Issuers)
  BY TokenForType DEF Donate
<1>1. stack = << >> /\ stack' = << >> /\ WellFormed(world)
  BY FreeMeansIdle DEF Donate, Idle
<1>2. world'.total = world.total + amount
      /\ world'.raised = [world.raised EXCEPT ![t] = @ + amount]
  BY <1>1 DEF Donate, Unlock, Lock, WellFormed
<1> HIDE DEF t
<1>3. Balanced(world) /\ amount \in Nat
  BY <1>1, StorageAssumption DEF Books
<1>4. /\ world.raised \in [Token -> Nat] /\ world'.raised \in [Token -> Nat]
      /\ world'.raised[t] = world.raised[t] + amount
      /\ \A u \in Token \ {t} : world'.raised[u] = world.raised[u]
  BY <1>0, <1>2, <1>3 DEF Balanced, BooksType
<1>5. Raised(world') = Raised(world) + world'.raised[t] - world.raised[t]
  BY <1>0, <1>4, SumOfChange DEF Raised
<1>6. Balanced(world')
  BY <1>0, <1>2, <1>3, <1>4, <1>5, SumOfNaturals DEF Balanced, BooksType, Raised
<1> QED BY <1>1, <1>6 DEF Books

\* Steps that leave the total, the books and the frames alone.
LEMMA BooksSame ==
    ASSUME Books, UNCHANGED stack,
           world'.total = world.total, world'.raised = world.raised
    PROVE  Books'
<1>1. Balanced(world) => Balanced(world')
  BY DEF Balanced, BooksType, Raised
<1>2. BookFrame(world, Top) => BookFrame(world', Top)
  BY <1>1 DEF BookFrame, BooksType, Spent, Within, Raised, InWork
<1>3. Top' = Top
  BY DEF Top
<1> QED BY <1>1, <1>2, <1>3 DEF Books

LEMMA BooksQuiet ==
    ASSUME Inv, Books,
           EndCampaign \/ CloseLedger \/ \E e \in Entry : Restore(e)
    PROVE  Books'
<1>1. WellFormed(world)
  BY InvWellFormed
<1>2. UNCHANGED stack /\ world'.total = world.total /\ world'.raised = world.raised
  BY <1>1 DEF EndCampaign, CloseLedger, Restore, WellFormed
<1> QED BY <1>2, BooksSame

LEMMA BooksFirstFrame ==
    ASSUME Books, stack = << >>, NEW call, NEW subject, NEW items,
           stack' = <<Frame(call, subject, items)>>,
           world'.total = world.total, world'.raised = world.raised,
           call = "multi" => /\ world.total # 0
                             /\ items = EveryListing
                             /\ Targets[subject] \in Nat
    PROVE  Books'
<1> DEFINE f == Frame(call, subject, items)
<1>1. /\ f.call = call /\ f.subject = subject /\ f.items = items
      /\ f.at = 0 /\ f.calling = FALSE /\ f.before = world
      /\ f.total = world.total /\ f.out = 0
  BY DEF Frame
<1>2. Balanced(world) /\ Balanced(world')
  BY DEF Books, Balanced, BooksType, Raised
<1>3. stack' # << >> /\ Top' = f
  BY DEF Top
<1> HIDE DEF f
<1>4. ASSUME call = "multi" PROVE Spent(world', f)
  <2>1. world'.total = Raised(world') + f.out
    BY <1>1, <1>2, SumOfNaturals DEF Balanced, BooksType, Raised
  <2>2. Raised(world') \in Nat
    BY <1>2, SumOfNaturals DEF Balanced, BooksType, Raised
  <2> QED BY <1>1, <1>4, <2>1, <2>2 DEF Spent
<1>5. call = "multi" => world'.total > 0
  BY <1>2 DEF Balanced, BooksType
<1> QED BY <1>1, <1>2, <1>3, <1>4, <1>5 DEF Books, BookFrame, InWork, Balanced

LEMMA TargetType == \A i \in Milestone : Targets[i] \in Nat
BY StorageAssumption DEF Milestone

LEMMA BooksStart ==
    ASSUME Inv, Books,
           \/ \E d \in Donor : StartRefund(d)
           \/ \E i \in Milestone : StartRelease(i) \/ StartReleaseMultiAsset(i)
    PROVE  Books'
<1>1. WellFormed(world) /\ stack = << >>
  BY FreeMeansIdle, InvWellFormed
     DEF StartRefund, StartRelease, StartReleaseMultiAsset
<1>2. world'.total = world.total /\ world'.raised = world.raised
  BY <1>1 DEF StartRefund, StartRelease, StartReleaseMultiAsset, Lock, WellFormed
<1>3. CASE \E d \in Donor : StartRefund(d)
  <2>1. PICK d \in Donor : StartRefund(d)
    BY <1>3
  <2>2. stack' = <<Frame("refund", d, world.record[d])>>
    <3>1. stack' = Append(stack, Frame("refund", d, world.record[d]))
      BY <2>1 DEF StartRefund
    <3> QED BY <1>1, <3>1
  <2> QED BY <1>1, <1>2, <2>2, BooksFirstFrame
<1>4. CASE \E i \in Milestone : StartRelease(i)
  <2>1. PICK i \in Milestone : stack' = <<Frame("release", i, EveryListing)>>
    BY <1>1, <1>4 DEF StartRelease
  <2> QED BY <1>1, <1>2, <2>1, BooksFirstFrame
<1>5. CASE \E i \in Milestone : StartReleaseMultiAsset(i)
  <2>1. PICK i \in Milestone : StartReleaseMultiAsset(i)
    BY <1>5
  <2>2. stack' = <<Frame("multi", i, EveryListing)>> /\ world.total # 0
    <3>1. stack' = Append(stack, Frame("multi", i, EveryListing)) /\ world.total # 0
      BY <2>1 DEF StartReleaseMultiAsset
    <3> QED BY <1>1, <3>1
  <2>3. Targets[i] \in Nat
    BY TargetType
  <2> QED BY <1>1, <1>2, <2>2, <2>3, BooksFirstFrame
<1> QED BY <1>3, <1>4, <1>5

LEMMA BooksNextItem ==
    ASSUME Inv, Books, NextItem PROVE Books'
<1>1. /\ stack # << >> /\ FrameOk(Top, since) /\ BookFrame(world, Top)
      /\ ~Top.calling /\ Top.at < Len(Top.items)
  BY OnlyFrame DEF NextItem, Busy, Books
<1> DEFINE t == TokenOf(Top, Top.items[Top.at + 1])
           read == RaisedIn(t)
<1>2. PICK due \in Dues(read) :
         /\ stack' = WithTop([Top EXCEPT !.at = @ + 1, !.calling = due > 0,
                                         !.read = read, !.due = due])
         /\ world' = world
  BY DEF NextItem
<1> HIDE DEF read, t
<1> DEFINE f == [Top EXCEPT !.at = @ + 1, !.calling = due > 0,
                            !.read = read, !.due = due]
<1>3. stack' = <<f>>
  BY <1>1, <1>2, OnlyFrame
<1>4. stack' # << >> /\ Top' = f
  BY <1>3 DEF Top
<1>5. /\ f.call = Top.call /\ f.subject = Top.subject /\ f.before = Top.before
      /\ f.items = Top.items /\ f.at = Top.at + 1
      /\ f.total = Top.total /\ f.out = Top.out
      /\ (f.calling => due > 0) /\ (due > 0 => f.calling)
      /\ f.read = read /\ f.due = due
  BY <1>1 DEF FrameOk
<1> HIDE DEF f
<1>6. ASSUME Top.call = "multi" PROVE Spent(world, f) /\ InWork(world, f)
  <2>1. Targets[Top.subject] \in Nat /\ Top.at \in Nat
    BY <1>1, <1>6, TargetType DEF FrameOk
  <2>2. /\ world.raised \in [Token -> Nat] /\ world.total \in Nat
        /\ world.total > 0 /\ Top.total = world.total /\ Spent(world, Top)
    BY <1>1, <1>6 DEF BookFrame, BooksType
  <2>3. Top.at + 1 \in 1 .. Len(Issuers) /\ t = Issuers[Top.at + 1]
    <3>1. Top.items = EveryListing
      BY <1>1, <1>6 DEF BookFrame
    <3>2. Top.at + 1 \in 1 .. Len(Issuers)
      BY <1>1, <2>1, <3>1, ListingsType
    <3>3. EveryListing[Top.at + 1] = Top.at + 1
      BY <3>2, ListingsType
    <3> QED BY <1>6, <3>1, <3>2, <3>3 DEF t, TokenOf
  <2>4. t \in Token \cup {None}
    BY <2>3, StorageAssumption
  <2>5. /\ read \in Nat
        /\ t = None => read = 0
        /\ t # None => t \in Token /\ read = world.raised[t]
    BY <2>2, <2>4 DEF read, RaisedIn
  <2>6. due = Share(read, Targets[Top.subject], world.total)
    BY <1>2, <1>6, <2>2 DEF Dues
  <2>7. /\ due \in Nat
        /\ read = 0 => due = 0
        /\ ~Within(world, Top) => due >= read
    <3>1. ~Within(world, Top) => Targets[Top.subject] >= world.total
      BY <2>1, <2>2 DEF Within
    <3>2. Share(0, Targets[Top.subject], world.total) = 0
      BY <2>1, <2>2 DEF Share
    <3> QED BY <2>1, <2>2, <2>5, <2>6, <3>1, <3>2, ShareBounds
  <2>8. InWork(world, f)
    <3> SUFFICES ASSUME f.calling
                 PROVE  /\ Issuers[f.at] \in Token
                        /\ f.read = world.raised[Issuers[f.at]]
                        /\ f.due = Share(f.read, Targets[f.subject], world.total)
      BY DEF InWork
    <3>1. read # 0
      BY <1>5, <2>5, <2>7
    <3>2. t # None /\ Issuers[f.at] = t
      BY <1>5, <2>3, <2>5, <3>1
    <3> QED BY <1>5, <2>5, <2>6, <3>2
  <2>9. CASE Within(world, Top)
    BY <1>5, <2>2, <2>8, <2>9 DEF Spent, Within
  <2>10. CASE ~Within(world, Top)
    <3>1. ASSUME NEW k \in 1 .. f.at
          PROVE  \/ (f.calling /\ k = f.at)
                 \/ Issuers[k] = None
                 \/ world.raised[Issuers[k]] = 0
      <4>1. CASE k = f.at
        <5>1. Issuers[k] = t
          BY <1>5, <2>3, <4>1
        <5>2. t # None /\ read # 0 => due > 0
          BY <2>5, <2>7, <2>10
        <5> QED BY <1>5, <2>5, <4>1, <5>1, <5>2
      <4>2. CASE k # f.at
        <5>1. k \in 1 .. Top.at
          BY <1>5, <2>1, <4>2
        <5> QED BY <1>1, <2>2, <2>10, <5>1 DEF Spent
      <4> QED BY <4>1, <4>2
    <3>2. /\ Raised(world) + f.out >= world.total
          /\ ~Within(world, f)
      BY <1>5, <2>2, <2>10 DEF Spent, Within
    <3> QED BY <2>8, <3>1, <3>2 DEF Spent
  <2> QED BY <2>8, <2>9, <2>10
<1>7. BookFrame(world, f)
  BY <1>1, <1>5, <1>6 DEF BookFrame
<1> QED BY <1>2, <1>4, <1>7 DEF Books

LEMMA BooksTokenReturns ==
    ASSUME Inv, Books, TokenReturns PROVE Books'
<1> DEFINE t == Issuers[Top.items[Top.at]]
           f == [Top EXCEPT !.calling = FALSE, !.out = @ + Top.due]
<1>1. /\ stack # << >> /\ FrameOk(Top, since) /\ BookFrame(world, Top)
      /\ WellFormed(world) /\ Top.calling
  BY OnlyFrame DEF TokenReturns, Busy, Books
<1>2. stack' = <<f>>
  BY OnlyFrame DEF TokenReturns
<1>3. stack' # << >> /\ Top' = f
  BY <1>2 DEF Top
<1>4. /\ f.call = Top.call /\ f.subject = Top.subject /\ f.before = Top.before
      /\ f.items = Top.items /\ f.at = Top.at /\ f.total = Top.total
      /\ f.out = Top.out + Top.due /\ f.calling = FALSE
  BY <1>1 DEF FrameOk
<1> HIDE DEF f
<1>5. CASE Top.call # "multi"
  <2>1. world'.total = world.total /\ world'.raised = world.raised
    BY <1>1, <1>5 DEF TokenReturns, WellFormed
  <2>2. Balanced(world')
    BY <1>1, <1>5, <2>1 DEF BookFrame, Balanced, BooksType, Raised
  <2>3. BookFrame(world', f)
    BY <1>1, <1>4, <1>5, <2>1, <2>2 DEF BookFrame, Balanced
  <2> QED BY <1>3, <2>3 DEF Books
<1>6. CASE Top.call = "multi"
  <2>1. /\ Top.items = EveryListing /\ Top.at \in 1 .. Len(Issuers)
        /\ Targets[Top.subject] \in Nat
    BY <1>1, <1>6, TargetType, ListingsType DEF FrameOk, BookFrame
  <2>2. /\ world.total \in Nat /\ world.raised \in [Token -> Nat]
        /\ \A u \in Token \ Range(Issuers) : world.raised[u] = 0
        /\ world.total > 0 /\ Top.total = world.total /\ Top.out \in Nat
        /\ Spent(world, Top) /\ InWork(world, Top)
    BY <1>1, <1>6 DEF BookFrame, BooksType
  <2>3. t = Issuers[Top.at]
    BY <2>1, ListingsType
  <2>4. /\ t \in Token /\ Top.read = world.raised[t]
        /\ Top.due = Share(world.raised[t], Targets[Top.subject], world.total)
    BY <1>1, <2>2, <2>3 DEF InWork
  <2>5. /\ world'.total = world.total
        /\ world'.raised = [world.raised EXCEPT ![t] = AtLeastZero(Top.read - Top.due)]
    BY <1>1, <1>6 DEF TokenReturns, WellFormed
  <2> HIDE DEF t
  <2>6. /\ world.raised[t] \in Nat /\ Top.due \in Nat
        /\ Within(world, Top) => Top.due <= world.raised[t]
        /\ ~Within(world, Top) => Top.due >= world.raised[t]
    <3> DEFINE r == world.raised[t]
               target == Targets[Top.subject]
               n == world.total
    <3>1. /\ Within(world, Top) => target <= n
          /\ ~Within(world, Top) => target >= n
      BY <2>1, <2>2 DEF Within
    <3>2. r \in Nat /\ target \in Nat /\ n \in Nat /\ n > 0
          /\ Top.due = Share(r, target, n)
      BY <2>1, <2>2, <2>4
    <3> HIDE DEF r, target, n
    <3>3. /\ Share(r, target, n) \in Nat
          /\ target <= n => Share(r, target, n) <= r
          /\ target >= n => Share(r, target, n) >= r
      BY <3>2, ShareBounds
    <3>4. /\ r \in Nat /\ Top.due \in Nat
          /\ Within(world, Top) => Top.due <= r
          /\ ~Within(world, Top) => Top.due >= r
      BY <3>1, <3>2, <3>3
    <3> QED BY <3>4 DEF r
  <2>7. /\ world'.raised[t] \in Nat
        /\ Within(world, Top) => world'.raised[t] = world.raised[t] - Top.due
        /\ ~Within(world, Top) => world'.raised[t] = 0
    BY <2>2, <2>4, <2>5, <2>6 DEF AtLeastZero
  <2>8. /\ world'.raised \in [Token -> Nat]
        /\ \A u \in Token \ {t} : world'.raised[u] = world.raised[u]
        /\ \A u \in Token \ Range(Issuers) : world'.raised[u] = 0
    <3>1. t \in Range(Issuers)
      BY <2>1, <2>3, StorageAssumption DEF Range
    <3> QED BY <2>2, <2>4, <2>5, <2>7, <3>1
  <2>9. Raised(world') = Raised(world) + world'.raised[t] - world.raised[t]
    BY <2>2, <2>4, <2>8, SumOfChange DEF Raised
  <2>10. Raised(world) \in Nat /\ f.out \in Nat
    BY <1>4, <2>2, <2>6, SumOfNaturals DEF Raised
  <2>11. Spent(world', f)
    <3>1. Within(world', f) <=> Within(world, Top)
      BY <1>4, <2>5 DEF Within
    <3>2. CASE Within(world, Top)
      BY <1>4, <2>2, <2>5, <2>6, <2>7, <2>9, <2>10, <3>1, <3>2 DEF Spent
    <3>3. CASE ~Within(world, Top)
      <4>1. Raised(world') + f.out >= world'.total
        BY <1>4, <2>2, <2>5, <2>6, <2>7, <2>9, <2>10, <3>3 DEF Spent
      <4>2. ASSUME NEW k \in 1 .. f.at
            PROVE  Issuers[k] = None \/ world'.raised[Issuers[k]] = 0
        <5>1. CASE Issuers[k] = t
          BY <2>7, <3>3, <5>1
        <5>2. CASE Issuers[k] # t
          <6>1. k # Top.at /\ k \in 1 .. Top.at
            BY <1>4, <2>3, <5>2
          <6>2. Issuers[k] = None \/ world.raised[Issuers[k]] = 0
            BY <2>2, <3>3, <6>1 DEF Spent
          <6>3. Issuers[k] \in Token \cup {None}
            BY <2>1, <6>1, StorageAssumption
          <6> QED BY <2>8, <5>2, <6>2, <6>3
        <5> QED BY <5>1, <5>2
      <4> QED BY <3>1, <3>3, <4>1, <4>2 DEF Spent
    <3> QED BY <3>2, <3>3
  <2>12. BookFrame(world', f)
    BY <1>1, <1>4, <1>6, <2>1, <2>2, <2>5, <2>8, <2>10, <2>11
       DEF BookFrame, BooksType, InWork
  <2> QED BY <1>3, <2>12 DEF Books
<1> QED BY <1>5, <1>6

LEMMA BooksFinish ==
    ASSUME Inv, Books, Finish PROVE Books'
<1>1. /\ stack # << >> /\ FrameOk(Top, since) /\ BookFrame(world, Top)
      /\ WellFormed(world) /\ ~Top.calling /\ Top.at = Len(Top.items)
  BY OnlyFrame DEF Finish, Busy, Books
<1>2. stack' = << >>
  BY OnlyFrame DEF Finish
<1>3. CASE Top.call # "multi"
  <2>1. world'.total = world.total /\ world'.raised = world.raised
    BY <1>1, <1>3 DEF Finish, Unlock, WellFormed, FrameOk
  <2> QED BY <1>1, <1>2, <1>3, <2>1 DEF Books, BookFrame, Balanced, BooksType, Raised
<1>4. CASE Top.call = "multi"
  <2>1. /\ world'.total = AtLeastZero(Top.total - Top.out)
        /\ world'.raised = world.raised
    BY <1>1, <1>4 DEF Finish, Unlock, WellFormed
  <2>2. /\ world.total \in Nat /\ world.raised \in [Token -> Nat]
        /\ \A t \in Token \ Range(Issuers) : world.raised[t] = 0
        /\ Top.total = world.total /\ Top.out \in Nat /\ Spent(world, Top)
        /\ Top.items = EveryListing
    BY <1>1, <1>4 DEF BookFrame, BooksType
  <2>3. Raised(world) \in Nat
    BY <2>2, SumOfNaturals DEF Raised
  <2>4. CASE Within(world, Top)
    <3>1. world'.total = Raised(world)
      BY <2>1, <2>2, <2>3, <2>4 DEF Spent, AtLeastZero
    <3> QED BY <1>2, <2>1, <2>2, <2>3, <3>1 DEF Books, Balanced, BooksType, Raised
  <2>5. CASE ~Within(world, Top)
    <3>1. ASSUME NEW t \in Token PROVE world.raised[t] = 0
      <4>1. CASE t \notin Range(Issuers)
        BY <2>2, <4>1
      <4>2. CASE t \in Range(Issuers)
        <5>1. PICK k \in 1 .. Len(Issuers) : Issuers[k] = t
          BY <4>2, StorageAssumption DEF Range
        <5>2. k \in 1 .. Top.at
          BY <1>1, <2>2, ListingsType
        <5>3. t # None
          BY StorageAssumption
        <5> QED BY <1>1, <2>2, <2>5, <5>1, <5>2, <5>3 DEF Spent
      <4> QED BY <4>1, <4>2
    <3>2. Raised(world) = 0
      BY <2>2, <3>1, SumOfNaturals DEF Raised
    <3>3. world'.total = 0
      BY <2>1, <2>2, <2>5, <3>2 DEF Spent, AtLeastZero
    <3> QED BY <1>2, <2>1, <2>2, <3>2, <3>3 DEF Books, Balanced, BooksType, Raised
  <2> QED BY <2>4, <2>5
<1> QED BY <1>3, <1>4

LEMMA BooksPanic ==
    ASSUME Inv, Books, Panic PROVE Books'
<1>1. stack' = << >> /\ world' = Top.before /\ BookFrame(world, Top)
  BY OnlyFrame DEF Panic, Books
<1> QED BY <1>1 DEF Books, BookFrame

LEMMA BooksNext ==
    ASSUME Inv, Books, [Next]_vars PROVE Books'
<1>1. CASE UNCHANGED vars
  BY <1>1, BooksSame DEF vars
<1>2. CASE Next
  BY <1>2, BooksDonate, BooksQuiet, BooksStart, BooksNextItem, BooksTokenReturns,
     BooksFinish, BooksPanic DEF Next
<1> QED BY <1>1, <1>2

-----------------------------------------------------------------------------
(***************************************************************************)
(* The theorems.                                                           *)
(***************************************************************************)

\* release_milestone and release_milestone_multi_asset between them pay each
\* milestone at most once per listing, and claim_refund each donor at most once
\* per contribution, whatever the tokens call back and whatever is listed twice.
THEOREM NothingPaidTwice == Spec => []PaidOnce
<1>1. Inv => PaidOnce
  <2> SUFFICES ASSUME Inv PROVE PaidOnce
    OBVIOUS
  <2>1. world.payments \in [Payment -> {0, 1}]
    BY InvWellFormed DEF WellFormed
  <2> QED BY <2>1 DEF PaidOnce
<1> QED BY <1>1, InvAlways, PTL

\* The lock of storage.rs is held exactly while a paying call is in progress.
THEOREM LockFollowsCalls == Spec => []LockedWhileBusy
<1>1. ASSUME Inv
      PROVE  LockedWhileBusy
  <2>1. CASE stack = << >> /\ Idle(world)
    BY <2>1 DEF Idle, LockedWhileBusy
  <2>2. ASSUME NEW f, stack = <<f>>, Busy(world, f, since)
        PROVE  LockedWhileBusy
    <3>1. world.lock /\ stack # << >>
      BY <2>2 DEF Busy
    <3> QED BY <3>1 DEF LockedWhileBusy
  <2> QED BY <1>1, <2>1, <2>2 DEF Inv
<1> QED BY <1>1, InvAlways, PTL

\* A recent donor's refund finds every entry it reads.
THEOREM RecentDonorFindsEntries == Spec => []RecentDonorNeedsNoRestore
<1>1. Inv => RecentDonorNeedsNoRestore
  <2> SUFFICES ASSUME Inv, NEW d \in Donor, since[d] < PERSISTENT_BUMP_THRESHOLD,
                      NEW e \in RefundEntries(d)
               PROVE  world.life[e] # 0
    BY DEF RecentDonorNeedsNoRestore, Present
  <2>1. since[d] \in Nat /\ PERSISTENT_BUMP_THRESHOLD \in Nat
    BY StorageAssumption DEF Inv
  <2>2. world.life[e] \in Nat
        /\ world.life[e] + since[d] >= PERSISTENT_BUMP_THRESHOLD
    BY DEF Inv, Recent
  <2> QED BY <2>1, <2>2
<1> QED BY <1>1, InvAlways, PTL

\* Between calls the total raised is the sum of the tokens' books, whichever
\* releases, refunds and panics came before.
THEOREM BooksAgree == Spec => []BooksAgreeAtRest
<1>1. Books => BooksAgreeAtRest
  <2>1. \A f \in [Token -> Nat] : SumFunction(f) = SumFunctionOnSet(f, Token)
    BY DEF SumFunction, SumFunctionOnSet
  <2> QED BY <2>1 DEF Books, Balanced, BooksType, Raised, BooksAgreeAtRest
<1> QED BY <1>1, BooksInit, BooksNext, InvAlways, PTL DEF Spec

=============================================================================
