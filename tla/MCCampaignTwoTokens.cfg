SPECIFICATION Spec
CONSTANTS
  a1 = a1
  a2 = a2
  t1 = t1
  t2 = t2
  Address <- Accounts
  Contract = Contract
  Token = {t1, t2}
  WasmHash = {w1}
  Native = Native
  None = None
  AssetLists <- TwoTokens
  MilestonePlans <- TwoSteps
  GoalAmounts = {3}
  EndTimes = {1, 2}
  MinDonations = {0}
  DonationAmounts = {1, 2}
  DepositAmounts = {3}
  Recipients = {beneficiary}
  ValidCode <- Codes
  MAX_MILESTONES = 2
  REFUND_WINDOW = 0
  MaxI128 = 127
  MaxU64 = 127
  MaxRaised = 4
  MaxDeposited = 3
  MaxTime = 2
SYMMETRY Symmetry
INVARIANT ProgressMatchesRaised BooksBalance ContributionsReconcile PayoutsAccounted
PROPERTY RefundOnceWithinDonation TerminalIsFinal MilestonesOnlyForward KeepsPromise
CHECK_DEADLOCK FALSE
