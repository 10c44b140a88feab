SPECIFICATION Spec
CONSTANTS
  a1 = a1
  a2 = a2
  xlm = xlm
  usdc = usdc
  s1 = s1
  s2 = s2
  Address <- Accounts
  Token <- Tokens
  Mute = {mute}
  Salt <- Salts
  WasmHash = {code, missing}
  Uploaded = {code}
  None = None
  DeploymentFees <- FeeArguments
  Funds = 2
  MaxDeployments = 3
SYMMETRY Symmetry
INVARIANT RegistryMatchesDeployments FeesReachTreasury
PROPERTY FactoryKeepsHistory
CHECK_DEADLOCK FALSE
