SPECIFICATION Spec
CONSTANTS
  u1 = u1
  u2 = u2
  xlm = xlm
  usdc = usdc
  Address <- Users
  Asset <- Assets
  NoAsset = NoAsset
  None = None
  Goals = {4}
  DonationAmounts = {1, 2, 4}
  WithdrawalAmounts = {0, 2}
  BASE_FEE = 1
  MaxI128 = 65000
  MaxU32 = 65535
  MaxCampaigns = 2
  MaxDonations = 3
  MaxRequests = 2
  MaxInitializations = 1
SYMMETRY Symmetry
INVARIANT TypeOK LedgerBalances AssetTotalsMatchHistory DonorListMatchesHistory PendingIsCovered PagesCoverHistory ReportsAgree
PROPERTY KeepsPromise
CHECK_DEADLOCK FALSE
