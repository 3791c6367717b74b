SPECIFICATION MCSpec
CONSTANTS
  Subjects = {"subscriptions"}
  Null = Null
  Pollers = {p1}
  MaxNotes = 3
  MaxTime = 2
  Deliveries = {d1, d2}
  MAX_RETRIES = 2
  MaxEntries = 3
  RetryTime = 3
  RowNotes = {n1, n2}
  RowTime = 3
  MaxSchedules = 3
  RowRetries = 1
  DeliveryTime = 2
  MaxJobs = 3
  JobTime = 1
  Users = {u1}
  Subscriptions = {s1, s2, s3}
INVARIANT OneActivePerUser
CHECK_DEADLOCK FALSE
