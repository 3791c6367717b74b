SPECIFICATION MCSpec
CONSTANTS
  Subjects = {"wallet", "account", "transfer", "rows", "points"}
  Callers = {t1, t2}
  Null = Null
  Threads = {t1, t2, t3}
  Wallets = {1, 2, 3}
  Keys = {k1}
  Amounts = {1}
  InitialBalances = {1}
  MaxCalls = 1
  Accounts = {1, 2}
  Spellings = {lower}
  AccountAmounts <- UncheckedAmounts
  AccountCalls = 2
  AccountKeys = {k1}
  Ids = {1, 2}
  Objects = {o1, o2, o3}
  Balances = {0, 1}
  TransferIds = {x1, x2, x3}
  PointAccounts = {q1, q2}
  MaxOperations = 4
INVARIANT BankTypes
INVARIANT MovesRecorded
PROPERTY BanksImplementBank
PROPERTY EveryBankCallReturns
CHECK_DEADLOCK FALSE
