------------------------------ MODULE Factory ------------------------------
(***************************************************************************)
(* The factory contract of factory/src: it deploys campaign contracts,     *)
(* charges for it, and keeps a registry of what it deployed.               *)
(*                                                                         *)
(* A call commits as a whole or panics and leaves no trace: an action is   *)
(* one successful call.  The host derives the address of a new contract    *)
(* from an account and a salt, so the pair stands for it, and refuses an   *)
(* address in use.  Token balances and the deployed contracts are outside  *)
(* the factory; of a deployed campaign only its creator is kept, set by    *)
(* whoever initializes it first.                                           *)
(*                                                                         *)
(* The caller names the contract that is asked to transfer the fee, and    *)
(* the factory accepts whatever has a function of that name: a token that  *)
(* keeps a ledger, of which the native one is only one, or a contract that *)
(* answers and moves nothing.                                              *)
(***************************************************************************)
EXTENDS Integers, Sequences, FiniteSets, Functions, SequencesExt

CONSTANTS
    Address,             \* creators, admins, treasuries
    Token,               \* the contracts that move what they are told to
    Mute,                \* those that take a transfer and move nothing
    WasmHash,            \* code hashes
    Uploaded,            \* those whose code is on the ledger
    Salt,
    None,                \* an absent storage entry
    DeploymentFees,      \* arguments of set_deployment_fee
    Funds,               \* what every account holds at first of every token
    MaxDeployments       \* bound of the exploration

ContractAddress == Address \X Salt

Contract == [creator : Address \cup {None}]

ASSUME FactoryAssumption ==
    /\ None \notin Address \cup WasmHash \cup Contract
    /\ Uploaded \subseteq WasmHash
    /\ DeploymentFees \subseteq Int
    /\ Funds \in Nat /\ MaxDeployments \in Nat
    /\ IsFiniteSet(Address)
    /\ Token \cap Mute = {}

VARIABLES
    admin,               \* DataKey::Admin
    treasury,            \* DataKey::Treasury
    count,               \* DataKey::Count
    wasmHash,            \* DataKey::CampaignWasmHash
    fee,                 \* DataKey::DeploymentFee
    registry,            \* DataKey::Campaigns
    contracts,           \* the deployed contracts, by address
    balance,             \* by token and account
    charged              \* history, by token: the fees of the deployments
                         \* that named it, without those the treasury owes
                         \* itself

vars == <<admin, treasury, count, wasmHash, fee, registry, contracts, balance,
          charged>>

-----------------------------------------------------------------------------
(***************************************************************************)
(* Faulty variants, named F_..., which the specification does not use.     *)
(***************************************************************************)
F_NotInitialized == TRUE

F_Counted(n) == n

F_Collect(from, t, amount) ==
    IF t \in Token THEN [balance EXCEPT ![t][treasury] = @ + amount]
    ELSE balance

-----------------------------------------------------------------------------
NotInitialized == admin = None

\* A fee that is not positive is not charged.
Charges == fee > 0

\* The host refuses to deploy to an address in use.
IsTaken(address) == contracts[address] # None

Counted(n) == n + 1

\* A transfer of the fee; an account may pay itself.
Collect(from, t, amount) ==
    LET debited == [balance EXCEPT ![t][from] = @ - amount]
    IN  IF t \in Token THEN [debited EXCEPT ![t][treasury] = @ + amount]
        ELSE balance

CampaignsByCreator(creator) ==
    LET result[i \in 0 .. Len(registry)] ==
            IF i = 0 THEN << >>
            ELSE IF registry[i][1] = creator
                 THEN Append(result[i - 1], registry[i][2])
            ELSE result[i - 1]
    IN  result[Len(registry)]

-----------------------------------------------------------------------------
Init ==
    /\ admin = None
    /\ treasury = None
    /\ count = 0
    /\ wasmHash = None
    /\ fee = 0
    /\ registry = << >>
    /\ contracts = [address \in ContractAddress |-> None]
    /\ balance = [t \in Token |-> [a \in Address |-> Funds]]
    /\ charged = [t \in Token |-> 0]

Initialize(caller, receiver) ==
    /\ NotInitialized
    /\ admin' = caller
    /\ treasury' = receiver
    /\ count' = 0
    /\ fee' = 0
    /\ registry' = << >>
    /\ UNCHANGED <<wasmHash, contracts, balance, charged>>

UpdateWasmHash(caller, hash) ==
    /\ admin # None
    /\ caller = admin
    /\ wasmHash' = hash
    /\ UNCHANGED <<admin, treasury, count, fee, registry, contracts, balance,
                   charged>>

SetDeploymentFee(caller, amount) ==
    /\ admin # None
    /\ caller = admin
    /\ fee' = amount
    /\ UNCHANGED <<admin, treasury, count, wasmHash, registry, contracts,
                   balance, charged>>

\* The creator names the contract asked for the fee, and the account the new
\* contract's address is derived from, which has to agree as well.
DeployCampaign(creator, xlmToken, params) ==
    LET address == <<params.creator, params.salt>>
    IN  /\ Len(registry) < MaxDeployments
        /\ wasmHash # None
        /\ wasmHash \in Uploaded
        /\ Charges /\ xlmToken \in Token => fee <= balance[xlmToken][creator]
        /\ ~IsTaken(address)
        /\ balance' = IF Charges THEN Collect(creator, xlmToken, fee)
                      ELSE balance
        /\ contracts' = [contracts EXCEPT
                            ![address] = [creator |-> None]]
        /\ registry' = Append(registry, <<creator, address>>)
        /\ count' = Counted(count)
        /\ LET owed == IF Charges /\ creator # treasury THEN fee ELSE 0
           IN  charged' = [t \in Token |-> charged[t] +
                              IF t = xlmToken THEN owed ELSE 0]
        /\ UNCHANGED <<admin, treasury, wasmHash, fee>>

\* The campaign contract's own initialize: whoever comes first is its creator.
InitializeCampaign(address, creator) ==
    /\ contracts[address] # None
    /\ contracts[address].creator = None
    /\ contracts' = [contracts EXCEPT ![address].creator = creator]
    /\ UNCHANGED <<admin, treasury, count, wasmHash, fee, registry, balance,
                   charged>>

Next ==
    \/ \E caller, receiver \in Address : Initialize(caller, receiver)
    \/ \E caller \in Address, hash \in WasmHash : UpdateWasmHash(caller, hash)
    \/ \E caller \in Address, amount \in DeploymentFees :
          SetDeploymentFee(caller, amount)
    \/ \E creator \in Address, xlmToken \in Token \cup Mute,
          params \in [creator : Address, salt : Salt] :
          DeployCampaign(creator, xlmToken, params)
    \/ \E address \in ContractAddress, creator \in Address :
          InitializeCampaign(address, creator)

Spec == Init /\ [][Next]_vars

-----------------------------------------------------------------------------
(***************************************************************************)
(* Properties.                                                             *)
(***************************************************************************)

\* The counter, the registry and the contracts on the ledger tell the same
\* story: each deployed contract is registered once, and nothing else is.
DeploymentsRegistered ==
    /\ count = Len(registry)
    /\ IsInjective([i \in DOMAIN registry |-> registry[i][2]])
    /\ {registry[i][2] : i \in DOMAIN registry}
          = {address \in ContractAddress : contracts[address] # None}

\* So does the view by creator: each deployed contract is listed for one of them.
RegistryMatchesDeployments ==
    /\ DeploymentsRegistered
    /\ \A address \in ContractAddress :
          contracts[address] # None =>
              Cardinality({c \in Address :
                  Contains(CampaignsByCreator(c), address)}) = 1

\* Of each token the treasury gained the fees in force at the deployments that
\* named it, once each, and the other accounts lost as much between them.  That
\* the token is the native one, as the comments of deploy_campaign have it, the
\* code does not see to: a deployment that names another contract pays in that
\* one, or pays nothing.
FeesReachTreasury ==
    treasury # None =>
        \A t \in Token :
            /\ charged[t] = balance[t][treasury] - Funds
            /\ charged[t] = SumFunction([a \in Address \ {treasury} |->
                                Funds - balance[t][a]])

\* The registry only grows, a campaign keeps its creator, and admin and treasury
\* are set once.
FactoryKeepsHistory ==
    [][/\ IsPrefix(registry, registry')
       /\ \A address \in ContractAddress :
             contracts[address] # None /\ contracts[address].creator # None
                 => contracts'[address] = contracts[address]
       /\ admin # None => admin' = admin /\ treasury' = treasury]_vars

=============================================================================
