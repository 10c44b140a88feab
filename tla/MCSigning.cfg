SPECIFICATION Spec
CONSTANTS
  Xdrs = {x1, x2}
  Paths = {f1, f2}
  Signers = {a1}
  Networks = {"testnet", "other"}
  None = None
  Second = 2
  MaxClock = 1
  MaxRequests = 2
  MaxResponses = 1
SYMMETRY Symmetric
INVARIANT SubmittedAnswersARequest
