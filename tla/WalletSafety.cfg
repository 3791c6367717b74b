SPECIFICATION Spec
CONSTANTS
  Null = Null
  Threads = {t1, t2}
  Wallets = {1, 2}
  Keys = {k1}
  Amounts = {1, 2}
  InitialBalances = {2}
  MaxCalls = 2
INVARIANT TypeOK
INVARIANT LocksHeld
INVARIANT NoOverdraft
INVARIANT DebitedOnce
PROPERTY ImplementsBank
CHECK_DEADLOCK FALSE
