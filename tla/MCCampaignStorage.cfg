SPECIFICATION Spec
CONSTANTS
  Donor = {a1, a2}
  t1 = t1
  t2 = t2
  Token <- Tokens
  Native = Native
  Issuers <- Listings
  NativeToken = t1
  Targets <- TwoSteps
  DonationAmounts = {2, 4}
  None = None
  PERSISTENT_BUMP_THRESHOLD = 2
  PERSISTENT_BUMP_AMOUNT = 3
  MinimumLife = 1
  MaxRaised = 4
SYMMETRY Symmetry
INVARIANT PaidOnce BooksAgreeAtRest LockedWhileBusy RecentDonorNeedsNoRestore
