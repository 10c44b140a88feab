SPECIFICATION Spec
CONSTANTS
  a1 = a1
  a2 = a2
  t1 = t1
  t2 = t2
  Address <- Accounts
  Contract = Contract
  Token = {t1}
  WasmHash = {w1}
  Native = Native
  None = None
  AssetLists <- OneToken
  MilestonePlans <- ThreeSteps
  GoalAmounts = {0, 4}
  EndTimes = {1, 3}
  MinDonations = {2}
  DonationAmounts = {0, 1, 2, 3}
  DepositAmounts = {6}
  Recipients = {beneficiary, Contract}
  ValidCode <- Codes
  MAX_MILESTONES = 3
  REFUND_WINDOW = 1
  MaxI128 = 15
  MaxU64 = 3
  MaxRaised = 5
  MaxDeposited = 6
  MaxTime = 1
SYMMETRY Symmetry
INVARIANT TypeOK SingleTokenSolvent
PROPERTY WrappedRefundsStayWithin
CHECK_DEADLOCK FALSE
