SPECIFICATION MCSpec
CONSTANTS
  Subjects = {"memory", "rows"}
  Null = Null
  SkuIds = {i1}
  Skus = {o1, o2}
  MaxStock = 3
  Stocks = {0, 3}
  RETRIES = 2
  Threads = {t1, t2, t3}
  RowSkus = {s1}
INVARIANT SaleTypes
INVARIANT SoldIsRecorded
PROPERTY SalesImplementSale
PROPERTY RefusedForReason
PROPERTY PurchasesEnd
CHECK_DEADLOCK FALSE
