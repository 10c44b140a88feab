# StellarAid in TLA+

A verification project for the StellarAid contracts: TLA+ modules translated from
the Rust sources, TLC configurations that check them on small instances, and
theorems that TLAPS checks for every instance.

Run from this directory:

    tlc -workers 2 -config MCCampaignTwoTokens.cfg MCCampaign.tla
    tlapm CampaignProofs.tla

## 1. The system

| Part | Source | State | Operations | Talks to |
|---|---|---|---|---|
| Campaign contract | `campaign/src/lib.rs`, `contract.rs`, `release_milestone.rs`, `multi_asset_release.rs`, `types.rs` | campaign record, milestones, donor records, donation per donor and token, total raised, raised per token, freeze flag, admin, code | initialize, donate, claim_refund, release_milestone, release_milestone_multi_asset, end, cancel, extend_deadline, set_admin, freeze, unfreeze, upgrade | token contracts (balance, transfer), deployer |
| Campaign storage | `campaign/src/storage.rs` | ledger entries and their lifetimes, the re-entrancy lock | typed getters and setters, lifetime bumps, acquire and release | every campaign operation |
| Campaign views | `views.rs`, `get_milestone.rs`, `get_all_milestones.rs` | none | copies of stored entries with derived fields | storage |
| Events, errors | `event.rs`, `errors.rs` | none | publishing | indexers outside the repository |
| Platform contract | `crates/contracts/core/src/lib.rs` | admin, campaign counter, campaigns, per-asset totals, histories, donor lists, last donations, withdrawal requests, three counters | initialize, create_campaign, donate, withdraw, approve_withdrawal, submit_transaction, views and reports | none: no token moves on chain |
| Factory | `factory/src/lib.rs` | admin, treasury, fee, code hash, registry, counter | initialize, update_wasm_hash, set_deployment_fee, deploy_campaign | token (fee), deployer, new campaigns |
| Polling worker | `crates/tools/src/polling_scheduler.rs`, `retry.rs`, `worker_logger.rs`, `payment_*.rs`, `campaign_totals.rs` | consecutive errors, attempts, totals | poll, log, retry a fetch, match, add to a total | payment API |
| Poll configuration, unmatched payments | `poll_config.rs`, `failed_match_handler.rs` | an interval, retry counts | back off, reset, record a retry | nothing calls them |
| Streaming | `streaming_processor.rs` | buffer, statistics, an aggregator's figures | process a slice or an iterator, load a file, aggregate | the caller's closure, files |
| Keys and vault | `key_manager.rs`, `keypair_manager.rs`, `encrypted_vault.rs`, commands of `main.rs` | vault in memory, vault file, .env | store, load, save, encrypt, generate, show, validate | the operator |
| Signing | `signing_request.rs`, `response_handler.rs`, commands of `main.rs` | documents in files | build, export, server-sign, parse, save, submit | wallets, the operator |
| Certificates | `certificate_pdf.rs` | the output file, a call's progress | generate in one pass, in chunks, streaming | files, the clock |
| Withdrawal checks | `withdrawal_limits.rs`, `withdrawal_audit.rs` | a list | validate, record | nothing calls them |
| Rest of the tools | `main.rs`, `secure_vault.rs`, `asset_issuing.rs`, `blockchain_verification.rs`, `environment_config.rs`, `security_tests.rs` | none that lasts | input and output | files, other programs |
| Common types, token bridge | `common/src/lib.rs`, `token-bridge/src/lib.rs` | none | - | - |

What is hard here:

* **Order of calls.** A contract call commits as a whole, so there are no threads;
  but donors, creator and admin call in any order, and two release functions with
  different bookkeeping, refunds and status changes work on the same entries.
* **Redundant records.** One donation is stored in five places (campaign, global total,
  token total, donor record, donor-and-token entry); one release changes some of them.
* **Arithmetic.** Checked, saturating, wrapping, u128 and i128 arithmetic are mixed;
  shares are rounded down one token at a time.
* **Time.** The refund window, the deadline and the status are separate.
* **Call-backs and lifetimes.** A campaign calls token contracts in the middle of a
  payment, and the entries it reads expire when nothing prolongs them.
* **Failing halfway.** The tools write files that can be cut short, run loops whose
  every step can fail, and reuse objects after a failed call.
* **Hands in between.** Requests, answers, ciphertexts and environment files are carried
  from one process to the next by an operator who may take the wrong one.
* **Money outside.** What the contract holds depends on transfers it does not make
  itself: `donate` records a donation and moves no token.

What makes the parts correct:

* campaign: the records agree; no milestone is paid twice; nobody is refunded
  twice or above what was given; what leaves the contract is accounted for; a closed
  campaign stays closed.
* platform contract: the records of a donation agree; a withdrawal follows its course,
  is paid once and stays covered; reports describe what is stored.
* factory: registry, counter and deployments agree; of each token the treasury gets
  the fees of the deployments that named it, once.
* worker: repeated failures reach the alert; the polls go on; totals are what
  was counted, and no more than was delivered.
* streaming: Ok means every record; an object stays usable, or refuses for good.
* keys and vault: what was saved comes back; no pair is made of two halves.
* signing: what is submitted answers a request that was built.
* certificates: the report describes the file; a whole document is not lost.

## 2. Modules

| Module | Models | Extends |
|---|---|---|
| `Escrow` | abstract: what a campaign promises donors and beneficiaries | community `Functions` |
| `Campaign` | the campaign contract, with the storage entries behind it; an instance of `Escrow` | community `Functions` |
| `SumFacts` | lemmas on sums over finite sets, quotients and products | proof libraries |
| `CampaignProofs` | theorems about `Campaign`: types, progress, records of donations | `Campaign`, `SumFacts` |
| `CampaignPayouts` | theorems about `Campaign`: counters, refunds, payouts, the step to `Escrow` | `CampaignProofs` |
| `CampaignStorage` | what `Campaign` takes for granted: one invocation in steps, the lock, call-backs, panics, lifetimes | community `Functions` |
| `StorageProofs` | theorems about `CampaignStorage` | `CampaignStorage`, `SumFacts` |
| `Withdrawals` | abstract: what the platform promises about a withdrawal | - |
| `StellarAid` | the platform contract; an instance of `Withdrawals` | community `Functions` |
| `StellarAidProofs` | theorems about `StellarAid` | `StellarAid`, `SumFacts` |
| `Factory` | the factory contract and the first call to what it deploys | community `Functions`, `SequencesExt` |
| `FactoryProofs` | theorems about `Factory` | `Factory`, `SumFacts` |
| `Worker` | the polling loop, logger, `with_retry`, matching, totals | community `Functions` |
| `WorkerProofs` | theorems about `Worker` | `Worker`, `SumFacts` |
| `Streaming` | processor, loader, aggregator | community `FiniteSetsExt`, `Functions` |
| `Vault` | key manager, keypairs, encrypted vault, their commands, .env and the vault file | - |
| `Signing` | requests, wallet answers, their commands and the files between them | - |
| `Certificates` | the certificate generator and its output file | community `Functions` |
| `ToolProofs` | theorems about `Signing`, `Vault`, `Certificates` and `Streaming` | those four, `SumFacts` |
| `MC...` | small instances of the module of that name | that module |

`ToolProofs` states theorems about four components that share no state. They have no name in
common (`vaultFile` beside `file`, `Absent` and `Nothing` beside `Idle`, `VaultSpec`,
`CertificatesSpec` and `StreamingSpec` beside `Spec`), so that it can extend all of them.

### Campaign

An action is one successful invocation; its guards are the conditions under which the
code does not panic. A panic rolls the whole invocation back and therefore is a step that
does not exist. `require_auth` is the requirement that the caller is the account
the code names; who calls, with which of the small argument sets, is arbitrary.

| State | Entry | Notes |
|---|---|---|
| `campaign` | `DataKey::CampaignData` | title and other fields nothing reads are left out; `milestone_count` is `Len(milestones)` |
| `milestones` | `DataKey::MilestoneData(i)` | counted from 1; `released_to` stands for `released_at` too, only `release_milestone` writes them; fields nothing writes are left out |
| `donors` | `DataKey::DonorData` | the contributions vector holds an asset once and is a function; the donation count and the last donation's time are never read and left out |
| `donorAsset`, `totalRaised`, `assetRaised`, `frozen`, `admin` | the keys of these names | an absent counter reads as 0, as in the getters |
| `balance` | what the contract holds | external: transfers out subtract, `Deposit` adds |
| `deposited`, `now`, `wasm` | history of deposits, ledger time, running code | |

`ReleaseLoop` is the loop of `release_milestone_multi_asset` over the accepted list,
reading a token's books again for every listing. `ReleaseMilestone` does not change them
between listings, so its loop is a multiplication by `Listings(t)`.

Integers: checked operations are guards (`InI128`); plain ones wrap (`WrapI128`,
`WrapU64`) because no release profile of the repository turns overflow checks on
(only the fuzzing crate has a profile); `saturating_add` saturates. In
`release_milestone` the u128 product and its cast to i128 are modelled by what they do.

Assumptions about the host, which is not in the repository: an invocation is atomic,
ledger time never goes back, a token transfer moves exactly the amount and fails
without the balance, and extending the lifetime of an entry that does not exist
(`is_frozen`, `storage.rs:293`, before the first freeze) has no effect. The
repository's tests presume the last one; on a host that traps there no donation
would succeed before the first freeze.

### Escrow, and how Campaign keeps it

`Escrow` knows pledges, targets, released steps and donors paid back: `Open`, `Pledge`,
`Close`, `Release`, `Return`. It has no tokens, no time, no administrators and no second
release function. `Campaign` instantiates it as `Promise`: an open campaign is one that
is Active or GoalReached, a pledge is a donor's total in all tokens, a step is
released when its milestone says so, a donor is paid back when the refund is claimed.
`KeepsPromise == Promise!Spec` is a PROPERTY of `campaign_two_tokens`. Deposits, freezing,
extending, upgrades and the administrator's changes are stutters. The two
release functions have different guards; both are `Release`. `Escrow` lets an ended campaign
be cancelled and a closed one release, since the code does.

### CampaignStorage

`Campaign` takes an invocation to be one step and its entries to be there. Here an
invocation that pays is a frame on `stack`; while a token runs (`calling`), any call of the
contract may start above it, which is what a token calling back can do. A frame walks its
items as the code's loops do: a release the accepted listings, duplicates and listings without
an issuer included, a refund the donor's contributions, of which `Native` and the address of
the native token are two although they mean one token. It keeps what the code holds in local
variables over the token call: `total` and `read` for `release_milestone_multi_asset`,
which writes them back; a token listed twice is read again as the first payment left it. `Panic` restores the world
of the frame's start (`before`). `lock` is the temporary entry of `storage.rs:255-275`.

`life` counts the ledgers an entry still has: `extend_ttl` prolongs below a threshold,
`CloseLedger` lets them pass, an entry at 0 is archived and every call that touches it traps
until someone restores it, which is the host's rule. `DonateEntries`, `RefundEntries`,
`ReleaseEntries` and `MultiAssetEntries` are what the four calls read, call by call through
the getters. Deadlines, freezing, cancellation and what a refund is worth are in `Campaign`
and left out here; so are the instance entries, which the host keeps alive with the contract.

### StellarAid

The state is one variable per storage key, each a function of the campaign id. The
actions are the six entry points that write. `PageOf`, `ProgressOf` and
`ActiveCampaigns` are the views. `created` and `withdrawn` are history
variables that only the properties read. A campaign's title, deadline and memo are
stored and never read, and left out. The bound `MaxCampaigns` limits campaigns ever
created, which also bounds the ids.

### Withdrawals, and how StellarAid keeps it

`Withdrawals` has what a campaign earned, what it paid, the open request and whether it was
granted. A submitted request is no request any more; approving is granting, submitting
is confirming. `KeepsPromise` is a PROPERTY of `platform_ledger`. It holds over the
second `initialize`, which gives ids out again but leaves histories and requests.

### Factory

One variable per storage key, and three for what is outside: `contracts` (the deployed
campaigns, by address), `balance` (tokens), `charged` (history of the fees, by token
named). The host
derives the address of a contract from an account and a salt; the pair stands for
it. `DeployCampaign` is the whole call: fee, deployer, registry and counter.
`InitializeCampaign` is the part of `Campaign`'s `Initialize` the factory's documentation
speaks of: who becomes the creator. That the host refuses an address in use, an unknown
code hash and an uncovered transfer are assumptions about it. The fee is asked of the contract
the caller names, as in the code, which checks nothing about it: one of `Token`, which moves
what it is told, or one of `Mute`, which moves nothing.
`FeesReachTreasury` therefore speaks of each token and of the deployments that named
it, and says nothing of the native token, in which the comments want the fee (see section 3).

### Worker

`pc` is where the loop's thread is: `fetch`, `delay` (between attempts of `with_retry`),
`match`, `failed`, `sleep`. `run_polling_loop` takes its task as a closure and
the repository has none, so the task is the model's: fetch with `with_retry`, filter, match and
count. Every step is the code's: `ErrorsAfter` is `WorkerLogger::log`,
`HealthStatus` its three answers, `MoreAttempts` and `NextAttempt` those of `with_retry`,
`Increment` that of `CampaignTotals`. The loop sleeps a constant; `PollConfig` and
`UnmatchedPayment` have no caller and no part in it. Payments are model values with their
fields as functions; the network decides what a fetch returns, whether it fails and how
often it delivers a payment. Nothing remembers what was counted, so a payment may
count as often as it is delivered.

### Streaming

One processor serves call after call. `call` is the call in progress with the records
left, `buffer`, `current`, `total`, `batches` and `peak` are the object's fields, `sums` the
aggregator's. Memory is counted in records. Each chunk is a step that the closure may accept
or reject; a batch size of 0 panics in `process_stream` and `flush_interval` 0 divides
by zero.

### Vault

`vault` is the `EncryptedVault` of one running program, `vaultFile` the lines of the vault file,
`env` the variables of the .env file the tool reads. Library calls are actions on `vault`;
commands of `main.rs` are processes of their own that start from `EnvVault`. A secret is
known by its half of a keypair, a ciphertext by the master key and the plaintext: it opens
under that key only. `Wide(k)` is a secret with a character of several bytes typed into either
end: validation looks at the first letter and the number of bytes and lets it in, `Displayed`
panics on it as on a short string. It comes with the keypairs only; where a string is stored
alone, and never displayed, `Secret(k)` stands for it. `Display` is a program that displays what
it loads from its own vault, `Show` the commands, whose vault is that of the environment and
never has the names they load. `TornLines` is what an interrupted save leaves: some lines in the order
they are written, the last one possibly cut. The program using the library and the operator
are modelled from what the library and the commands offer.

### Signing

`files` holds JSON documents as records; a parser is a set of required field names, so a
file may be taken for several kinds of document, as serde does. `exported` and
`responses` are what the wallet gets and answers, `submitted` what `submit` accepts: the command
prints it and a note of what a submission would do, and sends nothing yet. The id of
a request is what the clock of the machine shows, in milliseconds, and the clock may be set
(`SetClock`), so that two requests may share one. The wallet (external) signs what it was given, or
answers with an empty transaction.

### Certificates

`job` is the call in progress with the chunks done and the buffer; `file` the document in
the output file as a sequence of header, certificates and end mark. `TimedOut` is the check
of the clock before a chunk. `WriteFails`, `StreamFails` and `Crash` leave a prefix of what
was being written: of the whole document in the batch modes, of a chunk or the end mark when
streaming. `StreamFails` may leave all of it, since the flush after it can fail; `HeaderFails` and a
crash at the start leave a file without its header. A certificate is its number of attachments, from which its pages follow.

## 3. What is checked

Definitions named `F_...` are faulty variants of helpers, used by no specification:
each stands for a slip the code could contain and makes a property fail.

| Run | Instance | Result |
|---|---|---|
| `campaign_two_tokens` | two accounts, two tokens, milestones at 2 and 3, goal 3, end at 1 or 2 and movable between them, donations 1 and 2 up to 4 in all, deposits of 3 per token, ledger time 0 to 2 | passes, about 814 000 states |
| `campaign_one_token` | i128 of 5 bits, u64 of 2 bits; lists with a duplicate, with an entry without issuer, and two that are rejected; plans of three milestones and three rejected ones; minimum donation 2; refunds to the window's last second; the contract as recipient | passes, about 403 000 states |
| `cancelled_refunds` | as the first, one end, donations of 3 up to 6 | `RefundsPayable` fails |
| `campaign_storage` | two donors, two tokens of which the first is listed twice and is what `Native` means, two milestones at 2 and 4, donations of 2 and 4 up to 4; lives of 3 ledgers, bumped below 2, new entries with 1 | passes, about 1 444 000 states |
| `platform_ledger` | two users, two assets, two campaigns, three donations, two requests, one initialize at any point | passes, about 246 000 states |
| `factory` | two accounts and salts, two tokens and a contract that moves nothing, three deployments, fees -1, 1 and 2 of 2 held, one uploaded code hash and one missing | passes, about 152 000 states |
| `worker` | four payments (one twice), one campaign, two assets, two attempts per fetch | passes, about 5 700 states, with fairness |
| `worker_alerts` | the same | `AlertsOnConsecutiveFailures` fails |
| `streaming` | batches of 2, 1 and 0, limits 3 and 1, flush interval 0, 1 and 3; up to four calls of up to 4 records; up to three values | passes, about 252 000 states |
| `vault` | two keypairs and the same mistyped, two passwords, one hex key, every sequence of five operations | passes, about 846 000 states |
| `signing` | two transactions, two files, one signer, two networks, a clock set to and fro between two milliseconds | passes, about 131 000 states |
| `certificates` | five lists of up to five certificates, chunks of 0, 1, 2 and 4, three calls | passes, about 4 000 states |

Properties of `Campaign`:

* `ProgressMatchesRaised`: status and milestones follow the amount raised; what a release
  records as released is another matter, see below.
* `BooksBalance`: the global counter is the sum of the token counters, through
  releases that round and clamp each.
* `ContributionsReconcile`: the four records of donations agree.
* `PayoutsAccounted`: no more leaves the contract than milestones released plus what
  refunded donors gave, in any mix of both release functions and refunds.
* `RefundOnceWithinDonation`: a refund goes to a donor the view calls eligible, who is
  not afterwards, and exceeds the donor's gift in no token.
* `WrappedRefundsStayWithin`: so it is where the product of gift and remainder wraps, until
  more was released than raised.
* `TerminalIsFinal`, `MilestonesOnlyForward`: what no step may do.
* `KeepsPromise`: every call is a step of `Escrow`, or changes nothing in it.
* `SingleTokenSolvent`: with one token and all donations paid in, the refunds of all
  donors together are covered, whatever was released before.

Properties of `StellarAid`:

* `LedgerBalances`, `AssetTotalsMatchHistory`, `DonorListMatchesHistory`: the entries
  written by donations and approvals agree.
* `PendingIsCovered`: a pending request can still be paid. Withdrawals reserve
  nothing; that one request at a time exists per campaign is what keeps it so.
* `KeepsPromise`: every call is a step of `Withdrawals`, or changes nothing in it: a request
  is granted once, paid once and never replaced early.
* `PagesCoverHistory`: the pages of a history are the history.
* `ReportsAgree`: progress and remainder agree and progress is monotone in the
  amount raised, where the products fit i128.

Properties of `Factory`:

* `RegistryMatchesDeployments`: counter, registry, ledger and the view by creator tell of
  the same deployments.
* `FeesReachTreasury`: of each token, the fees in force at the deployments that named it
  reached the treasury once.
* `FactoryKeepsHistory`: the registry only grows; admin, treasury and a campaign's
  creator are set once.

Properties of `CampaignStorage`:

* `PaidOnce`: no milestone is paid twice for one listing and no donor for one contribution,
  whatever a token calls back. In a token listed twice both listings are paid.
  `release_milestone` writes its status after its transfers; the lock is what protects it.
* `BooksAgreeAtRest`: between calls the total is the sum of the books, although a release
  writes back what it read before calling tokens.
* `LockedWhileBusy`: the lock is held exactly while a paying call is in progress,
  panics included.
* `RecentDonorNeedsNoRestore`: a donation prolongs everything the donor's refund reads.

Properties of `Worker`:

* `HealthyAtEveryPoll`: no poll ever starts with an error counted: the warning after a
  failure sets the count back. This is what keeps the alert from ever being given.
* `TotalsMatchDeliveries`: totals are what the counted deliveries were worth, per asset and
  in all; a payment is counted no more often than delivered. It does not say once: nothing in
  the code remembers a payment.
* `PollsForever`: a poll ends again and again, whatever fails.

Properties of `Streaming`:

* `OkMeansEveryRecord`: Ok means each record was handed over, Err whole batches only.
* `OverLimitIsForever`: rejected chunks pile up to one batch above the limit; from then on
  the object never accepts a batch again.
* `AggregatesEverything`: an aggregator's figures are those of all it was given, over calls.

Properties of `Vault`:

* `SavedVaultComesBack`: a load returns what a completed save wrote, also with
  secrets under several passwords.
* `PairsStayTogether`: a pair that opens, in the vault in memory or from the file, under any
  password, has the halves of one key, unless a store of two keys failed after the first. An
  earlier form looked at the vault in memory under its own key only. It held in every behaviour
  of five operations and is false after seven: a failed store leaves a mixed pair that the
  vault itself does not open, and a save and a load under another password bring it out.
* `OnlyOddSecretsPanic`: displaying a keypair panics on what `generate` made and on a stored
  secret with a character of several bytes where it is cut, and on nothing else: no short string
  gets into a vault, however it is stored, saved, cut short, loaded or pasted.

Properties of `Signing`:

* `SubmittedAnswersARequest`: what `submit` accepts has the id of a request that was built and
  the wallet's signature of its transaction, or no transaction; whatever file is named, and
  provided the wallet signs what it was given.

Properties of `Certificates`:

* `ReportMatchesFile`: success means the whole document with the reported pages; a
  streaming timeout means exactly the reported part.
* `WholeDocumentStays`: timeouts and crashes of the batch modes cost nothing of an
  earlier document.

Disagreements between text and code that runs show:

* `types.rs:137` says refunds are available after cancellation; with two tokens a refund
  can fail although every donation was paid in.
* `polling_scheduler.rs:9` promises alerts on consecutive failures; the loop's own warning
  about the first failure resets the count, and no number of failures gives an alert.

Read while modelling, not turned into runs. In the contracts:

* `types.rs:378` defines `released_amount` as the step from the previous target; both
  releases record, and pay for, the whole cumulative target. Two milestones at 2 and 3
  claim 5 of 3 raised; `release_milestone` stops at an insufficient balance,
  `release_milestone_multi_asset` pays by a shrinking base. `ProgressMatchesRaised` says
  nothing of the amount.
* `factory/src/lib.rs:88`, `:110` and `:116` say the deployment fee is paid in XLM, the native
  token; the code asks whatever contract the caller names and compares it with nothing. A deployment
  that names another token is paid in that one, one that names a contract which moves nothing is
  free.
* `types.rs:323` promises that donations after the deadline are rejected; `donate` does
  not look at it.
* `lib.rs:135` says a frozen contract blocks every state change; four operations do
  not look at the flag.
* the status diagram at `types.rs:118` has no edge from ended to cancelled, which
  `cancel_campaign` takes; `release_milestone_multi_asset` does not require the previous
  milestone to be released, `release_milestone` does; `extend_deadline` accepts an earlier
  deadline.
* `core/src/lib.rs:584` says the count is of campaigns ever created; a second initialize
  resets it. `core/src/lib.rs:138` bounds progress; the product before the division wraps. A
  page number whose product with the page size wraps returns an early page
  (`core/src/lib.rs:368`).
* `factory/src/lib.rs:26` says the parameters of a deployment are forwarded to the campaign;
  they are not, and whoever initializes the campaign first becomes its creator.

In the tools:

* `keypair_manager.rs:18` says that a keypair is generated; both halves are empty strings, and
  `keypair generate-master` and `generate-distribution` panic at displaying them. `OnlyOddSecretsPanic`
  therefore excepts them.
* `payment_fetcher.rs:26` speaks of payments directed to the account; the filter keeps those
  not sent by it, so a payment to somebody else is counted too (`stray` in the instance).
* `PollConfig` is not used by the loop, and its `reset` turns a high- or low-frequency
  configuration into the default. Nothing keeps unmatched payments or tries them again.
* `load_json_array` calls what `serde_json` does not offer and does not compile; a test
  (`streaming_processor.rs`, near line 520) expects a positive peak, which is
  measured after the buffer was emptied and stays 0.
* `signing_request.rs` imports two names twice at its first lines, which the compiler
  rejects; it is modelled as meant.
* `response validate` refuses every file that `response save` writes: one reads camel
  case, the other writes snake case. `save` and `submit` do not validate, and `submit` never
  changes a status. `build-campaign` panics with exactly the four arguments it asks for.
* `keypair show` and `validate` find nothing, since the
  environment never provides the names they load. The test keys have 55 characters,
  validation demands 56.
* `VAULT_MASTER_KEY` is read as a password, so a vault made with a hex key cannot be reopened
  from the environment; `export_to_env_vars` writes names that `from_env` does not read.
* `certificate_pdf.rs:8` bounds the pages of a chunk; the code bounds certificates.

### Bounds, and why they suffice

* Two accounts: a donor and another one, a creator who donates, an admin who hands over.
  The code compares accounts and never counts them.
* Two ends in `campaign_two_tokens`: a donation, a release and a refund see the deadline moved in
  either direction.
* Two tokens are what the proportional split needs to round differently; one token with
  duplicate listings is what the release loop needs.
* Two or three milestones: previous and next, and one beyond the next.
* `MaxRaised` goes beyond the goal, so a campaign can be over-funded. `MaxDeposited`
  lets the balance be below, at and above what was donated.
* Narrow integers make overflow, saturation and the wrapped refund window occur.
* Three deployments let one creator deploy twice and in another's name.
* Three donations are the least where a returning donor follows another one; two
  requests are the least where one replaces another.
* Two tokens that both call back, and calls above calls without a limit of depth: the lock
  refuses all but `end_campaign`, so the stack stays short by itself.
* A life of 3 with a threshold of 2 has entries above, at and below the threshold, and expired.
* Three failures are what an alert takes, so `streak` is counted to 3. One delivery more than
  once is a duplicate.
* A limit above a batch and one equal to it, with a rest that does not fill one, covers the
  processor's branches; four calls let a failed call be followed by three more.
* Five operations on the vault are enough to save under one password, load under another,
  store a second pair and save cut short; the theorems cover any number.
* Two milliseconds, and a clock that is set back, give two requests one id or two.
* Three calls of the generator: a whole document, a call that fails on it, one more.

The bounds that guard actions: `MaxRaised`, `MaxDeposited`, `MaxTime` (`Campaign`), `MaxRaised`
(`CampaignStorage`), `MaxCampaigns`, `MaxDonations`, `MaxRequests`, `MaxInitializations`
(`StellarAid`), `MaxDeployments` (`Factory`), `MaxDeliveries` (`Worker`), `MaxCalls` and `MaxFed`
(`Streaming`), `MaxOps` (`Vault`), `MaxClock`, `MaxRequests`, `MaxResponses` (`Signing`) and
`MaxGenerated` (`Certificates`). Symmetry is used where actions and properties treat accounts,
tokens, keys, files or assets alike, in passing runs without liveness.

### Fairness and deadlock

`Worker` states `WF_vars(Work)`: the loop is one thread that never waits for anything but a
delay or a call of the operation (`loop`, `sleep`, `with_retry`), so a step it can take is
taken. This assumes that a fetch returns; it does not assume that one ever succeeds, nor that a
campaign ever appears.

No other specification states fairness and no liveness is claimed for them: every step is a
call somebody may or may not make, and nothing in the contracts or commands schedules
one. Deadlock is checked where the system should never be stuck: in `CampaignStorage` (no lock
left behind, no archived entry that cannot be restored), `Worker` and `Signing`. The other
runs stop when their bounds are used up, so it is not checked there.

## 4. What is proved

Every safety property that a passing run checks, invariants and action properties of all ten
components, is also a
theorem, for every value of the constants that satisfies the assumptions of its module and
the hypotheses named below; so are both refinements. A theorem is about the same definition
the run names. What the assumptions say is common to all: `None` is not a value it stands for,
names of different kinds are different, the sets whose members are summed over are finite,
arguments are integers, bounds and widths are naturals. `Certificates` assumes lists and
chunk sizes of naturals, `Streaming` configurations of naturals and inputs of integers (the
aggregator's floats are taken as exact numbers). `Vault` and `Signing` assume nothing: keys,
passwords and documents are any values.

Hypotheses, each an operator a theorem names in an ASSUME:

| Hypothesis | Says | Why it is there |
|---|---|---|
| `FreshPlans` | the milestones passed to `initialize` are locked, with nothing released | the code checks targets only; a plan that claims releases is accepted and believed |
| `ProductsFit` | `MAX_MILESTONES * MaxRaised^2` fits i128 | shares are products of two amounts. With 127 bits and 5 milestones it admits campaigns up to 5 * 10^18 units. Without it `BooksBalance` and `RefundOnceWithinDonation` are false, see below |
| `FullBps <= MaxU32` | a u32 holds 10000 | true of the code's u32 and of the instance's; the width is a constant of the module |
| `PagesFit` | `(MaxDonations + 1)^2` fits u32 | the first index of a page is a wrapping product; beyond it an early page is returned |

The instance of `campaign_two_tokens` meets `FreshPlans` and `ProductsFit` (2 * 4 * 4 within
127), that of `platform_ledger` meets `PagesFit`. `campaign_one_token` does not meet `ProductsFit`
(3 * 25 is more than 15): there TLC sees what wrapping does to refunds, and
`SingleTokenSolvent` holds in that instance as well.

`FreshPlans` is what a caller of `initialize` is expected to pass, and what all instances do.

Why `BooksBalance` needs `ProductsFit`: a release asks for the whole cumulative target, so it may
be above the total, and a token is then charged more than its counter holds, which is clamped at
0. The total is lowered by what was paid, and that comes out even only if every token was
charged. A token whose product overflows is passed over. TLC finds it with an i128 that ends
at 35, milestones at 3 and 10 and donations of 3, 3 and (after the first release) 4 in another
token: the second release pays 4 of the first token's 3, passes over the second, and leaves a
total of 3 beside a counter of 4.

Why `RefundOnceWithinDonation` needs it: released cumulative targets may add up to more than was
raised, what is left is then negative, and a negative product can wrap to a positive one. With an
i128 that ends at 31, five milestones at 3 to 7, donations of 5 and 2, a deposit of 31 and all
milestones released, TLC finds a refund of 4 to the donor of 2. As long as no more was released than
raised nothing negative is multiplied and wrapping only lowers a refund: that is
`WrappedRefundsStayWithin`, checked by `campaign_one_token` and proved without `ProductsFit`.

Theorems of `CampaignProofs` and `CampaignPayouts`:

| Theorem | Statement | Hypotheses | Argument |
|---|---|---|---|
| `TypeCorrect` | `Spec => []TypeOK` | | `TypeInv`, inductive |
| `MilestonesForward` | `Spec => MilestonesOnlyForward` | | `TypeInv`, one case per action |
| `TerminalForever` | `Spec => TerminalIsFinal` | | `TypeInv`, one case per action |
| `ProgressFollowsRaised` | `Spec => []ProgressMatchesRaised` | `FreshPlans` | inductive with `TypeInv` |
| `DonationRecordsAgree` | `Spec => []ContributionsReconcile` | | `Records`, inductive |
| `CountersBalance` | `Spec => []BooksBalance` | `FreshPlans`, `ProductsFit` | `Balanced`, inductive |
| `RefundsOnceAndBounded` | `Spec => RefundOnceWithinDonation` | `FreshPlans`, `ProductsFit` | `Records`, `PlanKept`, one case per action |
| `WrappedRefundsBounded` | `Spec => WrappedRefundsStayWithin` | `FreshPlans` | as above; a natural that wraps gets smaller |
| `PayoutsWithinBooks` | `Spec => []PayoutsAccounted` | `FreshPlans`, `ProductsFit` | `Accounted`, inductive |
| `RefundsCovered` | `Spec => []SingleTokenSolvent` | `FreshPlans`, `ProductsFit` | from `Accounted` and `Records` |
| `CampaignKeepsPromise` | `Spec => KeepsPromise` | `FreshPlans` | every step maps to a step of `Escrow` or a stutter |

`TypeOK` says more than types: the counters stay within 0 and the largest i128, and no
balance is negative. It is not inductive as it stands. A refund divides by the amount
raised, so that what it subtracts from the balance is an integer only if that amount is
positive. The strengthening `TypeInv` adds `DonorsGave`: nobody is on record before
`initialize`, the amount raised is never negative, and it is positive as soon as some donor
is on record. The release loop is a recursive function over the accepted list.
`LoopInduction` shows, by induction on the position, that every state of the loop stays
in the set of well-formed books, and hence that the clamped counters stay in range; the
same induction later shows what the loop has paid so far, and from which counters.

`Records` is what ties the places a donation is stored in: a donor's record in all tokens and
by token, with the several selectors a token can be given under, the campaign's total as a sum
over donors, and each token's counter at most what was donated in it. It needs no hypothesis,
because a saturated record would need a total that the checked ones had refused.
`Balanced` is `BooksBalance` with one fact more: a token's counter is positive only if the
accepted list names it, so that a loop over the list reaches all the money there is. With the
target within the total, the shares rounded down are paid and what is lowered in
both counters is the same; with the target above it, every token is emptied and so is the total.
`Accounted` bounds what left the contract by released milestones and refunded donors' totals.
A refund pays each token in proportion, so that the sum of its payments is at most the donor's
total; a release pays at most its target, and if the list names a token twice the contract
can pay more, hence `DistinctListings` in the property.

The step to `Escrow` is proved per action through the mapping's five named functions
(`Phase`, `Targets`, `Pledged`, `ReleasedSteps`, `Returned`). What it takes beyond the mapping is
that pledges are those of `Records`, that `ProgressMatchesRaised` ties a release to the amount
pledged, and that after a regular end with a release nobody is refunded.

`SumFacts` states what is needed about sums of a function over a finite set
(`SumFunctionOnSet` of the community modules): a sum of integers is an integer, removing
one element subtracts its value, changing one value changes the sum by the difference,
smaller terms have a smaller sum, and disjoint sets add. They rest on set induction from the library,
instantiated on first-order statements.

Theorems of `StorageProofs`:

| Theorem | Statement | Argument |
|---|---|---|
| `NothingPaidTwice` | `Spec => []PaidOnce` | `Inv`, inductive |
| `LockFollowsCalls` | `Spec => []LockedWhileBusy` | `Inv` |
| `RecentDonorFindsEntries` | `Spec => []RecentDonorNeedsNoRestore` | `Inv` |
| `BooksAgree` | `Spec => []BooksAgreeAtRest` | `Books`, inductive with `Inv` |

`PaidOnce` says nothing of what a call in progress still has to pay, which could be the second
payment of an item (a listing of a release, a contribution of a refund). `Inv` adds that the stack holds at most one frame (a call that pays takes the lock, and
none can take it above another), what a frame still has to pay and has not paid yet, that
everybody else is either settled or unpaid, and that the world a panic goes back to was one
without a call in progress. `Recent` says by how much the entries of a donor outlast
the donation. `Books` is about a release that pays several tokens and writes the total
last: with the target within the total, what is missing from the books is what is out; with
the target above the total, which earlier releases can bring about, every book visited is
empty and so is the total in the end. Division is rounded down, and `ShareBounds` is
the fact about it that both cases use.

Theorems of `StellarAidProofs`:

| Theorem | Statement | Hypothesis | Argument |
|---|---|---|---|
| `PlatformTypes` | `Spec => []TypeOK` | | inductive |
| `LedgerAlwaysBalances` | `Spec => []LedgerBalances` | | `LedgerInv`, inductive |
| `PendingStaysCovered` | `Spec => []PendingIsCovered` | | `LedgerInv` |
| `ReportsAlwaysAgree` | `Spec => []ReportsAgree` | `FullBps <= MaxU32` | `LedgerInv`, bounds of a quotient |
| `PlatformKeepsPromise` | `Spec => KeepsPromise` | | every step maps to a step of `Withdrawals` or a stutter |
| `AssetTotalsAgree` | `Spec => []AssetTotalsMatchHistory` | | inductive with `TypeOK` |
| `DonorListAgrees` | `Spec => []DonorListMatchesHistory` | | `DonorInv`, inductive |
| `PagesAlwaysCover` | `Spec => []PagesCoverHistory` | `PagesFit` | `HistoryBounded`, inductive |

The amount raised is a wrapping sum and `initialize` may be called again, which gives ids
out twice and starts a balance at zero below an old history. `LedgerInv` therefore bounds the
balance by what the history leaves (`Left`) at any time, equates it with the wrapped
difference only while no id was given out again, and keeps a pending request within `Left`: an
amount is approved only if the balance covers it, so what was paid never exceeds what was
earned even where the balance wrapped. `DonorInv` gives the place of each donor in the list: the
number of first donations up to the donor's own. `PagesCoverHistory` is arithmetic: a record's
page and place are quotient and remainder by the page size, and none is on two.

Theorems of `FactoryProofs` and `WorkerProofs`:

| Theorem | Statement | Argument |
|---|---|---|
| `HistoryIsKept` | `Spec => FactoryKeepsHistory` | `Inv`, one case per action |
| `RegistryIsExact` | `Spec => []RegistryMatchesDeployments` | `Inv`, inductive |
| `FeesAreCollected` | `Spec => []FeesReachTreasury` | `Money`, inductive with `Inv` |
| `HealthyAlways` | `Spec => []HealthyAtEveryPoll` | `NoErrors`, inductive |
| `TotalsFollowDeliveries` | `Spec => []TotalsMatchDeliveries` | `Types`, `Delivered`, `Sums`, inductive |

`initialize` of the factory empties the registry; that this rewrites nothing needs that
nothing was deployed before, hence the part of the factory's `Inv` about an absent
admin: without one there is no code hash, and without a hash no deployment. The view by creator
is the code's loop, a recursive function over the registry's positions; it is shown to hold
exactly the addresses the registry has for that creator. `Money` follows each fee from the account
that pays to the treasury as two sums, one over tokens and one over tokens and accounts; a
treasury that deploys for itself pays itself, and then neither sum changes.

For the worker, `Delivered` counts a delivery at most once among those counted and those in the
batch at hand, and `Sums` gives each total as a sum over the payments counted for it.

Theorems of `ToolProofs`:

| Theorem | Statement | Argument |
|---|---|---|
| `SubmittedAreAnswers` | `Spec => []SubmittedAnswersARequest` | `SigningInv`, inductive |
| `SavedVaultsComeBack` | `VaultSpec => []SavedVaultComesBack` | `VaultInv`, inductive |
| `PanicsComeFromOddSecrets` | `VaultSpec => OnlyOddSecretsPanic` | `VaultInv`: what can be displayed is long enough |
| `OnlyFailedStoresMixPairs` | `VaultSpec => PairsStayTogether` | `VaultInv`, one lemma per kind of step |
| `ReportsMatchFiles` | `CertificatesSpec => []ReportMatchesFile` | `CertificatesInv`, inductive |
| `WholeDocumentsStay` | `CertificatesSpec => []WholeDocumentStays` | `CertificatesInv` |
| `AggregatorNeverForgets` | `StreamingSpec => []AggregatesEverything` | `StreamingInv`, inductive |
| `CallsHandOverEveryRecord` | `StreamingSpec => OkMeansEveryRecord` | `StreamingInv` |
| `OverTheLimitForever` | `StreamingSpec => OverLimitIsForever` | `StreamingInv` |

For signing, `SigningInv` says for each document what it says of a request whichever parser reads
it, and that the documents of one kind lack a field of every other kind. That is what keeps an
unsigned request, or the server's own signature, from being read as a wallet's answer.

For the vault, `VaultInv` says that vaults are records of two maps, that the file of a completed
save is its lines, and that no ciphertext in the vault, the file or .env hides a short string
(`LongEnough`), so that of what was stored only a wide secret panics.
A file has one line per name and kind, so what loads is what was written (`LoadLines`); under
another password a secret opens only if it was encrypted under that one, which a save does not
change. `PairsStayTogether` is about steps. What loads as a pair depends on the master key, on
one public and on one secret entry (`LoadPairIs`), so it is enough to see what each step does to
those: a store that succeeds replaces both by the halves of one key and leaves the other pair's
entries alone (`OnlyNewPairs`), whichever password is tried later. In a file cut short the
public lines come first: a pair that loads from it has its secret line whole, hence all public lines
whole, hence loads from the vault that was being saved (`TornPair`).

For certificates, `CertificatesInv` follows the call in progress: with the chunks done, pages
counted, buffer and, when streaming, file are exactly those of the certificates up to the last
chunk's end (`DoneTo`). The last chunk ends at the list's end because the number of chunks is a
quotient rounded up (`ChunkEnds`, `LastChunk`), which holds for every list and chunk size; the
pages of chunks add because sums over disjoint sets do (`SumUnion` of `SumFacts`).

For streaming, `StreamingInv` says that what a call has accepted and what it has left add up to what
it was given, that whole batches were accepted while anything is left, and that buffer and statistics
agree. The aggregator's recursion over the records of a call is a table by position;
`RunExists` shows that the table has a value for every position, and `SummarizesCall` that each is
the summary of everything given so far, earlier calls included.

Model-checked only:

* the liveness of `Worker` (`PollsForever`), which is out of reach of the prover
  here, as is anything about ENABLED;
* the two disagreements that runs of section 3 show, which are counterexamples;
* what a recursive definition computes for every input, beyond what follows by induction over
  positions or over a set: `CampaignsByCreator`, the release loop and
  `AggregatedAll` are proved that way.

## 5. Plan

The models are complete but for the parts in section 6, and no safety property is left
that only a run checks. Open is
how much of `PayoutsAccounted` and `SingleTokenSolvent` is true of amounts whose products wrap; for
refunds `WrappedRefundsStayWithin` says it.

## 6. Not modelled

* Events, error codes and the views that copy entries out: nothing reads them back.
* The common types and the token bridge, which has a greeting only.
* `blockchain_verification.rs`: a simulation whose answers are constants.
* `poll_config.rs`, `failed_match_handler.rs`: an interval that is backed off and reset, and a
  count of retries. The polling loop sleeps a constant and nothing retries a match: no code
  calls either, and a property of them would be about a caller made up for the model.
* `withdrawal_limits.rs`, `withdrawal_audit.rs`: a check of its arguments without state and a
  list that is appended to, called by nothing.
* `secure_vault.rs`, `asset_issuing.rs`, `environment_config.rs`, `security_tests.rs` and the
  commands that go with them: each reads the environment once and prints it, returns it or
  writes it out.
* Encryption itself: a ciphertext is the pair of key and plaintext.
* `upgrade` and `deploy` beyond the code hash: what other code would do.
