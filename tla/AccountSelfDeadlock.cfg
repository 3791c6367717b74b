SPECIFICATION MCSpec
CONSTANTS
  Subjects = {"account"}
  Callers = {t1, t2}
  Null = Null
  Threads = {t1, t2, t3}
  Wallets = {1, 2, 3}
  Keys = {k1}
  Amounts = {1}
  InitialBalances = {1}
  MaxCalls = 1
  Accounts = {1, 2}
  Spellings = {lower, upper}
  AccountAmounts = {1}
  AccountCalls = 2
  AccountKeys = {k1, k2}
  Ids = {1}
  Objects = {o1}
  Balances = {0}
  TransferIds = {}
  PointAccounts = {q1}
  MaxOperations = 2
PROPERTY EveryBankCallReturns
CHECK_DEADLOCK FALSE
