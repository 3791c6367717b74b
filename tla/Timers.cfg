SPECIFICATION MCSpec
CONSTANTS
  Subjects = {"notifications", "retries", "notification rows", "retry rows", "jobs", "subscriptions"}
  Null = Null
  Pollers = {p1, p2}
  MaxNotes = 3
  MaxTime = 2
  Deliveries = {d1, d2}
  MAX_RETRIES = 2
  MaxEntries = 3
  RetryTime = 3
  RowNotes = {n1, n2}
  RowTime = 3
  MaxSchedules = 3
  RowRetries = 1
  DeliveryTime = 2
  MaxJobs = 3
  JobTime = 1
  Users = {u1, u2}
  Subscriptions = {s1, s2, s3}
INVARIANT TimerTypes
INVARIANT IndexHoldsLive
PROPERTY ScheduledIsQueued
PROPERTY HandedOutOnce
PROPERTY AttemptedWhenDue
PROPERTY RunsOnceUnderLock
PROPERTY PollsEnd
PROPERTY AcceptedIsDone
CHECK_DEADLOCK FALSE
