CONSTANTS
  o1 = o1
  Orders = {o1}
  Enabled = {"toss", "upbit_krw"}
  NoOrder = NoOrder
  Timeout = 1
  Lead = 3
  Lifetimes = {4}
  RetryAfter = 1
  Accounts = {p, q}
  p = p
  q = q
  NoAccount = NoAccount
  Cooldown = 1
  Connected = {"toss", "cotrader", "admin"}
  Working = {"toss", "cotrader", "admin"}
  AccountReads = 1
  MaxLookups <- OneAtUpbit
  MaxRestarts = 1
SPECIFICATION FairSpec
INVARIANTS
  LoopOK
  TokenIsGood
  OneAccount
PROPERTIES
  ImplementsPlacement
  EverySourceIsRead
