SPECIFICATION MCSpec
CONSTANTS
  Subjects = {"merchants"}
  Nobody = Nobody
  Seats = {s1, s2}
  Customers = {c1, c2}
  Reservations = {r1, r2, r3}
  TTL = 1
  MaxTime = 4
  Books = {b1, b2, b3}
  Members = {m1, m2, m3}
  Limit = 2
  Deltas = {1}
  MaxCopies = 2
  Agents = {a1, a2}
  Tickets = {1, 2, 3}
  Priorities = {1, 2}
  MaxCapacity = 2
  Products = {p1, p2}
  StockHolds = {h1, h2, h3}
  MaxStock = 3
  Coupons = {o1, o2}
  MaxRedemptions = 3
  Merchants = {e1, e2}
  Chargers = {t1, t2}
  Cents = {1, 2, 4}
  Promos = {q1}
  Users = {u1, u2}
  Redeemers = {t1, t2}
  Limits = {1, 2}
  Durations = {1, 2}
  PromoTime = 5
  Clients = {g1}
  Quotas = {1, 2}
  Windows = {1, 2}
  QuotaTime = 6
  Callers = {x1, x2}
  CAP = 2
  LimiterTime = 4
  MaxCalls = 6
PROPERTY RefusedOnlyBeyondCap
CHECK_DEADLOCK FALSE
