---------------------------- MODULE FactoryProofs ----------------------------
(***************************************************************************)
(* Theorems about the factory, for every set of accounts, tokens, salts,   *)
(* code hashes and fees.                                                   *)
(***************************************************************************)
EXTENDS Factory, SumFacts, SequenceTheorems

-----------------------------------------------------------------------------
(***************************************************************************)
(* The inductive invariant: before initialize nothing can have happened,   *)
(* because a deployment needs a code hash and only an admin sets one.      *)
(***************************************************************************)
Entry == Address \X ContractAddress

Inv ==
    /\ admin \in Address \cup {None}
    /\ wasmHash \in WasmHash \cup {None}
    /\ count \in Nat
    /\ registry \in Seq(Entry)
    /\ contracts \in [ContractAddress -> Contract \cup {None}]
    /\ count = Len(registry)
    /\ admin = None => wasmHash = None /\ registry = << >>
    /\ {registry[i][2] : i \in DOMAIN registry}
          = {address \in ContractAddress : contracts[address] # None}
    /\ \A i, j \in DOMAIN registry : registry[i][2] = registry[j][2] => i = j

LEMMA InvInit == Init => Inv
BY FactoryAssumption DEF Init, Inv

\* What a deployment does to the registry and the ledger.
LEMMA Deployed ==
    ASSUME Inv, NEW creator \in Address, NEW t \in Token \cup Mute,
           NEW params \in [creator : Address, salt : Salt],
           DeployCampaign(creator, t, params)
    PROVE  \E address \in ContractAddress :
              /\ contracts[address] = None
              /\ registry' = Append(registry, <<creator, address>>)
              /\ contracts' = [contracts EXCEPT ![address] = [creator |-> None]]
              /\ UNCHANGED <<admin, treasury, wasmHash>>
              /\ wasmHash # None
              /\ count' = count + 1
<1>1. <<params.creator, params.salt>> \in ContractAddress
  BY DEF ContractAddress
<1> QED BY <1>1 DEF DeployCampaign, IsTaken, Counted

LEMMA InvDeploy ==
    ASSUME Inv, NEW creator \in Address, NEW t \in Token \cup Mute,
           NEW params \in [creator : Address, salt : Salt],
           DeployCampaign(creator, t, params)
    PROVE  Inv'
<1>1. PICK address \in ContractAddress :
              /\ contracts[address] = None
              /\ registry' = Append(registry, <<creator, address>>)
              /\ contracts' = [contracts EXCEPT ![address] = [creator |-> None]]
              /\ UNCHANGED <<admin, treasury, wasmHash>>
              /\ wasmHash # None
              /\ count' = count + 1
  BY Deployed
<1> DEFINE n == Len(registry)
<1>2. /\ registry \in Seq(Entry) /\ n \in Nat /\ DOMAIN registry = 1 .. n
      /\ contracts \in [ContractAddress -> Contract \cup {None}]
  BY DEF Inv
<1>3. /\ registry' \in Seq(Entry) /\ Len(registry') = n + 1
      /\ DOMAIN registry' = 1 .. n + 1
      /\ registry'[n + 1] = <<creator, address>>
      /\ \A i \in 1 .. n : registry'[i] = registry[i]
  BY <1>1, <1>2 DEF Entry
<1>4. [creator |-> None] # None /\ [creator |-> None] \in Contract
  BY FactoryAssumption DEF Contract
<1>5. contracts' \in [ContractAddress -> Contract \cup {None}]
      /\ \A a \in ContractAddress : contracts'[a] =
            IF a = address THEN [creator |-> None] ELSE contracts[a]
  BY <1>1, <1>2, <1>4
<1>6. \A i \in 1 .. n : /\ registry[i][2] \in ContractAddress
                        /\ contracts[registry[i][2]] # None
  BY <1>2 DEF Inv
<1>7. \A a \in ContractAddress : contracts[a] # None => \E i \in 1 .. n : registry[i][2] = a
  BY <1>2 DEF Inv
<1>8. {registry'[i][2] : i \in DOMAIN registry'}
         = {a \in ContractAddress : contracts'[a] # None}
  <2>1. ASSUME NEW i \in 1 .. n + 1
        PROVE  registry'[i][2] \in ContractAddress /\ contracts'[registry'[i][2]] # None
    <3>1. CASE i = n + 1
      BY <1>3, <1>4, <1>5, <3>1
    <3>2. CASE i # n + 1
      BY <1>2, <1>3, <1>4, <1>5, <1>6, <3>2
    <3> QED BY <3>1, <3>2
  <2>2. ASSUME NEW a \in ContractAddress, contracts'[a] # None
        PROVE  \E i \in 1 .. n + 1 : registry'[i][2] = a
    <3>1. CASE a = address
      BY <1>2, <1>3, <3>1
    <3>2. CASE a # address
      BY <1>2, <1>3, <1>5, <1>7, <2>2, <3>2
    <3> QED BY <3>1, <3>2
  <2> QED BY <1>3, <2>1, <2>2
<1>9. \A i, j \in DOMAIN registry' : registry'[i][2] = registry'[j][2] => i = j
  <2>1. \A i, j \in 1 .. n : registry[i][2] = registry[j][2] => i = j
    BY <1>2 DEF Inv
  <2>2. \A i \in 1 .. n : registry'[i][2] # address
    BY <1>1, <1>3, <1>6
  <2> QED BY <1>2, <1>3, <2>1, <2>2
<1>10. count' = Len(registry') /\ count' \in Nat /\ admin' # None
       /\ admin' \in Address \cup {None} /\ wasmHash' \in WasmHash \cup {None}
  BY <1>1, <1>3 DEF Inv
<1> QED BY <1>3, <1>5, <1>8, <1>9, <1>10 DEF Inv

LEMMA InvInitializeCampaign ==
    ASSUME Inv, NEW address \in ContractAddress, NEW creator \in Address,
           InitializeCampaign(address, creator)
    PROVE  Inv'
<1>1. /\ contracts \in [ContractAddress -> Contract \cup {None}]
      /\ contracts[address] \in Contract
      /\ contracts' = [contracts EXCEPT ![address].creator = creator]
      /\ UNCHANGED <<admin, wasmHash, count, registry>>
  BY DEF Inv, InitializeCampaign
<1>2. [contracts[address] EXCEPT !.creator = creator] \in Contract
      /\ None \notin Contract
  BY <1>1, FactoryAssumption DEF Contract
<1>3. contracts' \in [ContractAddress -> Contract \cup {None}]
      /\ \A a \in ContractAddress : contracts'[a] # None <=> contracts[a] # None
  BY <1>1, <1>2
<1> QED BY <1>1, <1>3 DEF Inv

LEMMA InvNext ==
    ASSUME Inv, [Next]_vars PROVE Inv'
<1>1. ASSUME NEW caller \in Address, NEW receiver \in Address,
             Initialize(caller, receiver)
      PROVE  Inv'
  BY <1>1 DEF Initialize, NotInitialized, Inv
<1>2. ASSUME NEW caller \in Address, NEW hash \in WasmHash,
             UpdateWasmHash(caller, hash)
      PROVE  Inv'
  BY <1>2 DEF UpdateWasmHash, Inv
<1>3. ASSUME NEW caller \in Address, NEW amount \in DeploymentFees,
             SetDeploymentFee(caller, amount)
      PROVE  Inv'
  BY <1>3 DEF SetDeploymentFee, Inv
<1>4. CASE UNCHANGED vars
  BY <1>4 DEF vars, Inv
<1> QED BY <1>1, <1>2, <1>3, <1>4, InvDeploy, InvInitializeCampaign DEF Next

LEMMA InvAlways == Spec => []Inv
BY InvInit, InvNext, PTL DEF Spec

-----------------------------------------------------------------------------
(***************************************************************************)
(* The theorems.                                                           *)
(***************************************************************************)

\* Appending leaves a prefix, and a sequence is one of itself.
LEMMA AppendKeepsPrefix ==
    ASSUME NEW S, NEW s \in Seq(S), NEW e \in S
    PROVE  IsPrefix(s, s) /\ IsPrefix(s, Append(s, e))
<1>1. SubSeq(s, 1, Len(s)) = SubSeq(Append(s, e), 1, Len(s))
  OBVIOUS
<1> QED BY <1>1 DEF IsPrefix

\* No call of factory/src/lib.rs shortens or rewrites the registry, changes a
\* campaign's creator, or replaces the admin or the treasury.
THEOREM HistoryIsKept == Spec => FactoryKeepsHistory
<1> DEFINE Kept ==
       /\ IsPrefix(registry, registry')
       /\ \A address \in ContractAddress :
             contracts[address] # None /\ contracts[address].creator # None
                 => contracts'[address] = contracts[address]
       /\ admin # None => admin' = admin /\ treasury' = treasury
<1>1. ASSUME Inv, [Next]_vars PROVE [Kept]_vars
  <2>1. registry \in Seq(Entry)
        /\ contracts \in [ContractAddress -> Contract \cup {None}]
    BY <1>1 DEF Inv
  <2>2. ASSUME NEW caller \in Address, NEW receiver \in Address,
               Initialize(caller, receiver)
        PROVE  Kept
    <3>1. registry = << >> /\ registry' = << >> /\ contracts' = contracts
          /\ admin = None
      BY <1>1, <2>2 DEF Initialize, NotInitialized, Inv
    <3> QED BY <3>1 DEF IsPrefix
  <2>3. ASSUME UNCHANGED <<registry, contracts, admin, treasury>>
        PROVE  Kept
    <3>1. Len(registry) \in Nat
      BY <2>1
    <3> QED BY <2>3, <3>1 DEF IsPrefix
  <2>4. ASSUME NEW creator \in Address, NEW t \in Token \cup Mute,
               NEW params \in [creator : Address, salt : Salt],
               DeployCampaign(creator, t, params)
        PROVE  Kept
    <3>1. PICK address \in ContractAddress :
              /\ contracts[address] = None
              /\ registry' = Append(registry, <<creator, address>>)
              /\ contracts' = [contracts EXCEPT ![address] = [creator |-> None]]
              /\ UNCHANGED <<admin, treasury, wasmHash>>
      BY <1>1, <2>4, Deployed
    <3>2. <<creator, address>> \in Entry
      BY DEF Entry
    <3>3. IsPrefix(registry, registry')
      BY <2>1, <3>1, <3>2, AppendKeepsPrefix
    <3> QED BY <2>1, <3>1, <3>3
  <2>5. ASSUME NEW address \in ContractAddress, NEW creator \in Address,
               InitializeCampaign(address, creator)
        PROVE  Kept
    <3>1. /\ contracts[address].creator = None
          /\ contracts' = [contracts EXCEPT ![address].creator = creator]
          /\ UNCHANGED <<registry, admin, treasury>>
      BY <2>5 DEF InitializeCampaign
    <3>2. IsPrefix(registry, registry')
      <4>1. Len(registry) \in Nat
        BY <2>1
      <4> QED BY <3>1, <4>1 DEF IsPrefix
    <3> QED BY <2>1, <3>1, <3>2
  <2>6. \A caller \in Address, hash \in WasmHash :
           UpdateWasmHash(caller, hash) => Kept
    BY <2>3 DEF UpdateWasmHash
  <2>7. \A caller \in Address, amount \in DeploymentFees :
           SetDeploymentFee(caller, amount) => Kept
    BY <2>3 DEF SetDeploymentFee
  <2> HIDE DEF Kept
  <2> QED BY <1>1, <2>2, <2>4, <2>5, <2>6, <2>7 DEF Next
<1>2. FactoryKeepsHistory <=> [][Kept]_vars
  BY DEF FactoryKeepsHistory
<1> HIDE DEF Kept
<1> QED BY <1>1, <1>2, InvInit, InvNext, PTL DEF Spec

-----------------------------------------------------------------------------
(***************************************************************************)
(* The view by creator: the loop of get_campaigns_by_creator as the table  *)
(* of its result after each entry.                                         *)
(***************************************************************************)
Pushed(acc, creator, i) ==
    IF registry[i][1] = creator THEN Append(acc, registry[i][2]) ELSE acc

LoopUpTo(creator, n, h) ==
    h = [i \in 0 .. n |->
            IF i = 0 THEN << >> ELSE Pushed(h[i - 1], creator, i)]

LoopResult(creator) == CHOOSE h : LoopUpTo(creator, Len(registry), h)

LEMMA ViewIsLoop ==
    ASSUME NEW creator
    PROVE  CampaignsByCreator(creator) = LoopResult(creator)[Len(registry)]
BY DEF CampaignsByCreator, LoopResult, LoopUpTo, Pushed

LEMMA LoopExists ==
    ASSUME NEW creator, Len(registry) \in Nat
    PROVE  LoopUpTo(creator, Len(registry), LoopResult(creator))
<1> DEFINE Q == {n \in Nat : \E h : LoopUpTo(creator, n, h)}
           step(h, i) == IF i = 0 THEN << >> ELSE Pushed(h[i - 1], creator, i)
<1>1. 0 \in Q
  <2>1. LoopUpTo(creator, 0, [i \in 0 .. 0 |-> << >>])
    BY DEF LoopUpTo
  <2> QED BY <2>1
<1>2. ASSUME NEW n \in Nat, n \in Q
      PROVE  n + 1 \in Q
  <2>1. PICK h : LoopUpTo(creator, n, h)
    BY <1>2
  <2> DEFINE h0 == [i \in 0 .. n |-> step(h, i)]
             g == [i \in 0 .. n + 1 |->
                      IF i = n + 1 THEN Pushed(h[n], creator, n + 1) ELSE h[i]]
             g0 == [i \in 0 .. n + 1 |-> step(g, i)]
  <2>2. h = h0
    BY <2>1 DEF LoopUpTo
  <2>3. \A i \in 0 .. n : h[i] = step(h, i)
    <3> HIDE DEF step
    <3> SUFFICES ASSUME NEW i \in 0 .. n
                 PROVE  h[i] = step(h, i)
      OBVIOUS
    <3>1. h0[i] = step(h, i)
      OBVIOUS
    <3> HIDE DEF h0
    <3> QED BY <2>2, <3>1
  <2>4. ASSUME NEW i \in 0 .. n + 1
        PROVE  g[i] = step(g, i)
    <3>1. CASE i = n + 1
      <4>1. g[n] = h[n] /\ i - 1 = n /\ i # 0
        BY <3>1
      <4>2. g[i] = Pushed(h[n], creator, n + 1)
        BY <3>1
      <4> HIDE DEF g
      <4> QED BY <3>1, <4>1, <4>2
    <3>2. CASE i # n + 1
      <4>1. i \in 0 .. n
        BY <3>2
      <4>2. g[i] = h[i] /\ (i # 0 => g[i - 1] = h[i - 1])
        BY <4>1
      <4> HIDE DEF g
      <4> QED BY <4>1, <4>2, <2>3
    <3> QED BY <3>1, <3>2
  <2>5. g = g0
    <3> HIDE DEF step
    <3> QED BY <2>4
  <2>6. LoopUpTo(creator, n + 1, g)
    <3> HIDE DEF g
    <3> QED BY <2>5 DEF LoopUpTo
  <2> HIDE DEF g
  <2> QED BY <2>6
<1>3. Len(registry) \in Q
  <2> HIDE DEF Q
  <2> QED BY <1>1, <1>2, SetInduction
<1> QED BY <1>3 DEF LoopResult

\* The view lists what the creator's entries name, and nothing else.
LEMMA ViewLists ==
    ASSUME Inv, NEW creator \in Address, NEW address \in ContractAddress
    PROVE  Contains(CampaignsByCreator(creator), address)
              <=> \E i \in DOMAIN registry : registry[i] = <<creator, address>>
<1> DEFINE n == Len(registry)
           h == LoopResult(creator)
           Named(i) == \E k \in 1 .. i : registry[k] = <<creator, address>>
           Q == {i \in Nat : i <= n =>
                   /\ h[i] \in Seq(ContractAddress)
                   /\ Contains(h[i], address) <=> Named(i)}
<1>1. /\ registry \in Seq(Entry) /\ n \in Nat /\ DOMAIN registry = 1 .. n
      /\ \A i \in 1 .. n : registry[i] \in Entry
  BY LenProperties, ElementOfSeq DEF Inv
<1>2. \A i \in 0 .. n : h[i] = IF i = 0 THEN << >>
                              ELSE Pushed(h[i - 1], creator, i)
  <2> DEFINE h0 == [i \in 0 .. n |->
                       IF i = 0 THEN << >> ELSE Pushed(h[i - 1], creator, i)]
  <2>1. LoopUpTo(creator, n, h)
    BY <1>1, LoopExists
  <2>2. h = h0
    <3> HIDE DEF h
    <3> QED BY <2>1 DEF LoopUpTo
  <2> HIDE DEF h
  <2> SUFFICES ASSUME NEW i \in 0 .. n
               PROVE  h[i] = IF i = 0 THEN << >>
                             ELSE Pushed(h[i - 1], creator, i)
    OBVIOUS
  <2>3. h0[i] = IF i = 0 THEN << >> ELSE Pushed(h[i - 1], creator, i)
    OBVIOUS
  <2> HIDE DEF h0
  <2> QED BY <2>2, <2>3
<1> HIDE DEF h
<1>3. 0 \in Q
  <2>1. h[0] = << >>
    BY <1>1, <1>2
  <2>2. ~Contains(<< >>, address) /\ ~Named(0) /\ << >> \in Seq(ContractAddress)
    BY DEF Contains
  <2> HIDE DEF Named
  <2> QED BY <2>1, <2>2
<1>4. ASSUME NEW i \in Nat, i \in Q
      PROVE  i + 1 \in Q
  <2> SUFFICES ASSUME i + 1 <= n
               PROVE  /\ h[i + 1] \in Seq(ContractAddress)
                      /\ Contains(h[i + 1], address) <=> Named(i + 1)
    OBVIOUS
  <2> DEFINE acc == h[i]
             new == registry[i + 1]
  <2>1. i <= n /\ i + 1 \in 1 .. n /\ i + 1 \in 0 .. n /\ i + 1 # 0
        /\ (i + 1) - 1 = i
    BY <1>1
  <2>2. acc \in Seq(ContractAddress) /\ (Contains(acc, address) <=> Named(i))
    BY <1>4, <2>1
  <2>3. h[i + 1] = IF new[1] = creator THEN Append(acc, new[2]) ELSE acc
    BY <1>2, <2>1 DEF Pushed
  <2>4. new[1] \in Address /\ new[2] \in ContractAddress
        /\ new = <<new[1], new[2]>>
    BY <1>1, <2>1 DEF Entry
  <2>5. Named(i + 1) <=> Named(i) \/ new = <<creator, address>>
    <3>1. 1 .. i + 1 = (1 .. i) \cup {i + 1}
      BY <2>1
    <3> QED BY <3>1
  <2>6. new = <<creator, address>> <=> new[1] = creator /\ new[2] = address
    BY <2>4
  <2> HIDE DEF acc, new, Named
  <2>7. CASE new[1] = creator
    <3> DEFINE e == new[2]
               m == Append(acc, e)
    <3>1. /\ m \in Seq(ContractAddress) /\ Len(m) = Len(acc) + 1
          /\ \A k \in 1 .. Len(acc) : m[k] = acc[k]
          /\ m[Len(acc) + 1] = e /\ Len(acc) \in Nat
      <4>1. e \in ContractAddress
        BY <2>4
      <4> HIDE DEF e
      <4> QED BY <2>2, <4>1, AppendProperties, LenProperties
    <3>2. h[i + 1] = m
      BY <2>3, <2>7
    <3> HIDE DEF m, e
    <3>3. Contains(m, address) <=> Contains(acc, address) \/ e = address
      <4>1. 1 .. Len(m) = (1 .. Len(acc)) \cup {Len(acc) + 1}
        BY <3>1
      <4> QED BY <3>1, <4>1 DEF Contains
    <3> QED BY <2>2, <2>5, <2>6, <2>7, <3>1, <3>2, <3>3 DEF e
  <2>8. CASE new[1] # creator
    BY <2>2, <2>3, <2>5, <2>6, <2>8
  <2> QED BY <2>7, <2>8
<1>5. n \in Q
  <2> HIDE DEF Q
  <2> QED BY <1>1, <1>3, <1>4, SetInduction
<1>6. Contains(h[n], address) <=> Named(n)
  BY <1>1, <1>5
<1>7. CampaignsByCreator(creator) = h[n]
  BY ViewIsLoop DEF h
<1> QED BY <1>1, <1>6, <1>7

\* The counter, the registry, the deployed contracts and the view by creator
\* tell the same story: each deployed contract is registered once, for exactly
\* one creator, and nothing else is.
THEOREM RegistryIsExact == Spec => []RegistryMatchesDeployments
<1>1. Inv => DeploymentsRegistered
  BY DEF Inv, DeploymentsRegistered, IsInjective
<1>2. ASSUME Inv, NEW address \in ContractAddress, contracts[address] # None
      PROVE  Cardinality({c \in Address :
                 Contains(CampaignsByCreator(c), address)}) = 1
  <2>1. PICK i \in DOMAIN registry : registry[i][2] = address
    BY <1>2 DEF Inv
  <2>2. registry[i] \in Entry
    BY <1>2, <2>1, LenProperties, ElementOfSeq DEF Inv
  <2>3. PICK c0 \in Address : registry[i] = <<c0, address>>
    BY <2>1, <2>2 DEF Entry
  <2>4. ASSUME NEW c \in Address
        PROVE  Contains(CampaignsByCreator(c), address) <=> c = c0
    <3>1. ASSUME NEW j \in DOMAIN registry, registry[j] = <<c, address>>
          PROVE  c = c0
      <4>1. j = i
        BY <1>2, <2>1, <3>1 DEF Inv
      <4> QED BY <2>3, <3>1, <4>1
    <3> QED BY <1>2, <2>1, <2>3, <3>1, ViewLists
  <2>5. {c \in Address : Contains(CampaignsByCreator(c), address)} = {c0}
    BY <2>4
  <2> QED BY <2>5, FS_Singleton
<1>3. Inv => RegistryMatchesDeployments
  BY <1>1, <1>2 DEF RegistryMatchesDeployments
<1> QED BY <1>3, InvAlways, PTL

-----------------------------------------------------------------------------
(***************************************************************************)
(* The fees.  PaidIn(t) is what every account but the treasury lost of t.  *)
(***************************************************************************)
Others == Address \ {treasury}

PaidIn(t) == [a \in Others |-> Funds - balance[t][a]]

\* Before initialize nothing was paid; afterwards the treasury gained what was
\* charged, and the others lost it.
Money ==
    /\ treasury \in Address \cup {None}
    /\ treasury = None <=> admin = None
    /\ fee \in Int
    /\ charged \in [Token -> Int]
    /\ balance \in [Token -> [Address -> Int]]
    /\ treasury = None =>
          \A t \in Token : /\ charged[t] = 0
                           /\ \A a \in Address : balance[t][a] = Funds
    /\ treasury # None =>
          \A t \in Token :
              /\ charged[t] = balance[t][treasury] - Funds
              /\ charged[t] = SumFunctionOnSet(PaidIn(t), Others)

LEMMA FeesAreSums ==
    FeesReachTreasury <=>
       (treasury # None =>
           \A t \in Token :
               /\ charged[t] = balance[t][treasury] - Funds
               /\ charged[t] = SumFunctionOnSet(PaidIn(t), Others))
<1>1. ASSUME NEW t \in Token
      PROVE  SumFunction([a \in Address \ {treasury} |-> Funds - balance[t][a]])
                = SumFunctionOnSet(PaidIn(t), Others)
  <2>1. [a \in Address \ {treasury} |-> Funds - balance[t][a]] = PaidIn(t)
    BY DEF PaidIn, Others
  <2>2. DOMAIN PaidIn(t) = Others
    BY DEF PaidIn
  <2>3. SumFunction(PaidIn(t)) = SumFunctionOnSet(PaidIn(t), Others)
    BY <2>2 DEF SumFunction
  <2> QED BY <2>1, <2>3
<1> QED BY <1>1 DEF FeesReachTreasury

LEMMA OthersFinite == IsFiniteSet(Others)
BY FactoryAssumption, FS_RemoveElement DEF Others

LEMMA MoneyInit == Init => Money
BY FactoryAssumption DEF Init, Money

LEMMA MoneyInitialize ==
    ASSUME Money, NEW caller \in Address, NEW receiver \in Address,
           Initialize(caller, receiver)
    PROVE  Money'
<1>1. /\ treasury = None /\ treasury' = receiver /\ admin' = caller
      /\ fee' = 0 /\ balance' = balance /\ charged' = charged
      /\ \A t \in Token, a \in Address : balance[t][a] = Funds
      /\ \A t \in Token : charged[t] = 0
      /\ balance \in [Token -> [Address -> Int]] /\ charged \in [Token -> Int]
      /\ receiver # None /\ caller # None /\ Funds \in Int
  BY FactoryAssumption DEF Money, Initialize, NotInitialized
<1>2. IsFiniteSet(Others')
  <2>1. IsFiniteSet(Address \ {receiver})
    BY FactoryAssumption, FS_RemoveElement
  <2> QED BY <1>1, <2>1 DEF Others
<1>3. ASSUME NEW t \in Token
      PROVE  /\ balance'[t][treasury'] - Funds = 0
             /\ SumFunctionOnSet(PaidIn(t)', Others') = 0
  <2>1. \A a \in Others' : PaidIn(t)'[a] = 0
    BY <1>1 DEF PaidIn, Others
  <2>2. SumFunctionOnSet(PaidIn(t)', Others') = 0
    BY <1>2, <2>1, SumZero
  <2> QED BY <1>1, <2>2
<1> QED BY <1>1, <1>3 DEF Money

\* A call that leaves the money alone.
LEMMA MoneyKept ==
    ASSUME Money, treasury' = treasury, admin' = admin, fee' \in Int,
           charged' = charged, balance' = balance
    PROVE  Money'
BY DEF Money, PaidIn, Others

\* A transfer between two accounts of a token.
LEMMA MoneyCollect ==
    ASSUME Money, treasury # None, NEW from \in Others, NEW t \in Token,
           treasury' = treasury, admin' = admin, fee' = fee,
           balance' = Collect(from, t, fee),
           charged' = [x \in Token |-> charged[x] + IF x = t THEN fee ELSE 0]
    PROVE  Money'
<1>1. /\ treasury \in Address /\ fee \in Int /\ Funds \in Int
      /\ charged \in [Token -> Int]
      /\ balance \in [Token -> [Address -> Int]]
      /\ from \in Address /\ from # treasury
  BY FactoryAssumption DEF Money, Others
<1>2. /\ balance' \in [Token -> [Address -> Int]]
      /\ balance'[t][from] = balance[t][from] - fee
      /\ balance'[t][treasury] = balance[t][treasury] + fee
      /\ \A a \in Address \ {from, treasury} : balance'[t][a] = balance[t][a]
      /\ \A x \in Token \ {t} : balance'[x] = balance[x]
  <2> DEFINE debited == [balance[t] EXCEPT ![from] = @ - fee]
             row == [debited EXCEPT ![treasury] = @ + fee]
  <2>1. balance' = [balance EXCEPT ![t] = row]
    BY <1>1 DEF Collect
  <2>2. /\ row \in [Address -> Int]
        /\ row[from] = balance[t][from] - fee
        /\ row[treasury] = balance[t][treasury] + fee
        /\ \A a \in Address \ {from, treasury} : row[a] = balance[t][a]
    BY <1>1
  <2> HIDE DEF row
  <2> QED BY <1>1, <2>1, <2>2
<1>3. Others' = Others
  BY DEF Others
<1>4. /\ charged' \in [Token -> Int]
      /\ charged'[t] = charged[t] + fee
      /\ \A x \in Token \ {t} : charged'[x] = charged[x]
  BY <1>1
<1>5. ASSUME NEW x \in Token, x # t
      PROVE  /\ charged'[x] = balance'[x][treasury'] - Funds
             /\ charged'[x] = SumFunctionOnSet(PaidIn(x)', Others')
  <2>1. PaidIn(x)' = PaidIn(x)
    BY <1>2, <1>3, <1>5 DEF PaidIn
  <2>2. /\ charged[x] = balance[x][treasury] - Funds
        /\ charged[x] = SumFunctionOnSet(PaidIn(x), Others)
    BY DEF Money
  <2> QED BY <1>2, <1>3, <1>4, <1>5, <2>1, <2>2
<1>6. /\ charged'[t] = balance'[t][treasury'] - Funds
      /\ charged'[t] = SumFunctionOnSet(PaidIn(t)', Others')
  <2> DEFINE f == PaidIn(t)
             g == PaidIn(t)'
             sum == SumFunctionOnSet(f, Others)
  <2>1. /\ \A a \in Others : f[a] \in Int /\ g[a] \in Int
        /\ g[from] = f[from] + fee
        /\ \A a \in Others \ {from} : g[a] = f[a]
    BY <1>1, <1>2, <1>3 DEF PaidIn, Others
  <2> HIDE DEF f, g
  <2>2. /\ SumFunctionOnSet(g, Others) = sum + g[from] - f[from]
        /\ sum \in Int
    BY <2>1, OthersFinite, SumChange, SumInt
  <2>3. charged[t] = balance[t][treasury] - Funds /\ charged[t] = sum
    BY DEF Money, f
  <2> HIDE DEF sum
  <2>4. SumFunctionOnSet(g, Others) = charged[t] + fee
    BY <1>1, <2>1, <2>2, <2>3
  <2>5. balance[t][treasury] \in Int
    BY <1>1
  <2> QED BY <1>1, <1>2, <1>3, <1>4, <2>3, <2>4, <2>5 DEF g
<1> QED BY <1>1, <1>2, <1>4, <1>5, <1>6 DEF Money

\* A transfer of the treasury to itself, or by a contract that moves nothing.
LEMMA CollectNothing ==
    ASSUME Money, treasury # None, NEW from \in Address, NEW t,
           from = treasury \/ t \notin Token
    PROVE  Collect(from, t, fee) = balance
<1>1. CASE t \notin Token
  BY <1>1 DEF Collect
<1>2. CASE t \in Token /\ from = treasury
  <2>1. fee \in Int /\ balance \in [Token -> [Address -> Int]]
    BY DEF Money
  <2> DEFINE row == [balance[t] EXCEPT ![from] = @ - fee]
             back == [row EXCEPT ![from] = @ + fee]
  <2>2. Collect(from, t, fee) = [balance EXCEPT ![t] = back]
    BY <1>2, <2>1 DEF Collect
  <2>3. back = balance[t]
    <3>1. back = [balance[t] EXCEPT ![from] = balance[t][from] - fee + fee]
      BY <1>2, <2>1
    <3>2. balance[t][from] - fee + fee = balance[t][from]
      BY <1>2, <2>1
    <3>3. balance[t] \in [Address -> Int]
      BY <1>2, <2>1
    <3> QED BY <3>1, <3>2, <3>3
  <2> HIDE DEF back
  <2> QED BY <1>2, <2>1, <2>2, <2>3
<1> QED BY <1>1, <1>2

LEMMA MoneyNext ==
    ASSUME Inv, Money, [Next]_vars
    PROVE  Money'
<1>1. ASSUME NEW caller \in Address, NEW receiver \in Address,
             Initialize(caller, receiver)
      PROVE  Money'
  BY <1>1, MoneyInitialize
<1>2. ASSUME NEW caller \in Address, NEW hash \in WasmHash,
             UpdateWasmHash(caller, hash)
      PROVE  Money'
  BY <1>2, MoneyKept DEF UpdateWasmHash, Money
<1>3. ASSUME NEW caller \in Address, NEW amount \in DeploymentFees,
             SetDeploymentFee(caller, amount)
      PROVE  Money'
  BY <1>3, MoneyKept, FactoryAssumption DEF SetDeploymentFee
<1>4. ASSUME NEW creator \in Address, NEW t \in Token \cup Mute,
             NEW params \in [creator : Address, salt : Salt],
             DeployCampaign(creator, t, params)
      PROVE  Money'
  <2>1. treasury' = treasury /\ admin' = admin /\ fee' = fee /\ fee \in Int
        /\ treasury # None
    BY <1>4 DEF DeployCampaign, Inv, Money
  <2>2. charged \in [Token -> Int] /\ treasury \in Address /\ Token \cap Mute = {}
    BY <2>1, FactoryAssumption DEF Money
  <2> DEFINE owed == IF Charges /\ creator # treasury THEN fee ELSE 0
  <2>3. /\ balance' = IF Charges THEN Collect(creator, t, fee) ELSE balance
        /\ charged' = [x \in Token |-> charged[x] + IF x = t THEN owed ELSE 0]
    BY <1>4 DEF DeployCampaign
  <2>4. CASE Charges /\ creator # treasury /\ t \in Token
    <3>1. creator \in Others /\ owed = fee
      BY <2>4 DEF Others
    <3> HIDE DEF owed
    <3> QED BY <2>1, <2>3, <2>4, <3>1, MoneyCollect
  <2>5. CASE ~(Charges /\ creator # treasury /\ t \in Token)
    <3>1. balance' = balance
      BY <2>1, <2>3, <2>5, CollectNothing
    <3>2. charged' = charged
      <4>1. \A x \in Token : charged[x] + (IF x = t THEN owed ELSE 0) = charged[x]
        BY <2>2, <2>5
      <4> HIDE DEF owed
      <4> QED BY <2>2, <2>3, <4>1
    <3> QED BY <2>1, <3>1, <3>2, MoneyKept
  <2> QED BY <2>4, <2>5
<1>5. ASSUME NEW address \in ContractAddress, NEW creator \in Address,
             InitializeCampaign(address, creator)
      PROVE  Money'
  BY <1>5, MoneyKept DEF InitializeCampaign, Money
<1>6. CASE UNCHANGED vars
  BY <1>6, MoneyKept DEF vars, Money
<1> QED BY <1>1, <1>2, <1>3, <1>4, <1>5, <1>6 DEF Next

\* Of every contract that moves what it is told to, the treasury gained the fees
\* of the deployments that named it, each once, and the other accounts paid them.
THEOREM FeesAreCollected == Spec => []FeesReachTreasury
<1>1. Money => FeesReachTreasury
  BY FeesAreSums DEF Money
<1> QED BY <1>1, MoneyInit, MoneyNext, InvAlways, PTL DEF Spec

=============================================================================
