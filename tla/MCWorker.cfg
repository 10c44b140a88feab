SPECIFICATION Spec
CONSTANTS
  gift = gift
  stray = stray
  bare = bare
  own = own
  c1 = c1
  xlm = xlm
  usdc = usdc
  we = we
  they = they
  Payment <- Payments
  Campaign = {c1}
  Asset = {xlm, usdc}
  Account = {we, they}
  account = we
  None = None
  Complete <- Payments
  MemoOf <- Memo
  AssetOf <- AssetCode
  AmountOf <- Worth
  From <- Sender
  To <- Receiver
  max_attempts = 2
  MaxDeliveries <- Times
INVARIANT HealthyAtEveryPoll TotalsMatchDeliveries
PROPERTY PollsForever
