-------------------------------- MODULE RetryRows --------------------------------
(***************************************************************************)
(* src/kata-018-focused/postgres_service.py: deliveries as rows.  poll_due *)
(* is one transaction: it locks the next due delivery, marks it failed and *)
(* goes round again when its attempts are used up, and commits with the    *)
(* first that is not.  Others see what it wrote at the commit; the rows it *)
(* has marked stay locked until then.                                      *)
(***************************************************************************)
EXTENDS Externals

CONSTANTS
  Deliveries, Workers, MAX_RETRIES,
  MaxSchedules,  \* bound on the calls of schedule
  MaxTime,       \* bound on the clock and on the times to attempt at
  Null

VARIABLES
  delivery,  \* delivery[d]: its row, or Null
  lock,      \* lock[d]: the worker whose transaction locked the row, or Null
  failing,   \* failing[w]: the deliveries its open transaction has marked failed
  clock, now, seen,
  schedules  \* how often schedule was called

retryRowVars == <<delivery, lock, failing, clock, now, seen, schedules>>

Rows == [at : 1 .. MaxTime, attempts : 0 .. MAX_RETRIES, status : {"pending", "running", "failed"}]
Table == [Deliveries -> Rows \cup {Null}]

TypeOK ==
  /\ delivery \in Table
  /\ lock \in [Deliveries -> Workers \cup {Null}]
  /\ failing \in [Workers -> SUBSET Deliveries]
  /\ clock \in 1 .. MaxTime
  /\ now \in [Workers -> (1 .. MaxTime) \cup {Null}]
  /\ seen \in [Workers -> Table \cup {Null}]
  /\ schedules \in 0 .. MaxSchedules

Init ==
  /\ delivery = [d \in Deliveries |-> Null]
  /\ lock = [d \in Deliveries |-> Null]
  /\ failing = [w \in Workers |-> {}]
  /\ clock = 1
  /\ now = [w \in Workers |-> Null]
  /\ seen = [w \in Workers |-> Null]
  /\ schedules = 0

\* The upsert waits for the row, and keeps the attempts of one that is there.  The
\* time is compared with one the caller read before, and may have passed.
Schedule(d, t) ==
  /\ schedules < MaxSchedules
  /\ lock[d] = Null
  /\ delivery' = [delivery EXCEPT ![d] =
       [at |-> t, attempts |-> IF @ = Null THEN 0 ELSE @.attempts, status |-> "pending"]]
  /\ schedules' = schedules + 1
  /\ UNCHANGED <<lock, failing, clock, now, seen>>

CallPoll(w) ==
  /\ now[w] = Null
  /\ now' = [now EXCEPT ![w] = clock]
  /\ UNCHANGED <<delivery, lock, failing, clock, seen, schedules>>

Snapshot(w) ==
  /\ now[w] # Null /\ seen[w] = Null
  /\ seen' = [seen EXCEPT ![w] = delivery]
  /\ UNCHANGED <<delivery, lock, failing, clock, now, schedules>>

Due(table, t) ==
  {d \in Deliveries : table[d] # Null /\ table[d].status = "pending" /\ table[d].at <= t}

\* A row the transaction has marked is locked, and matches its own SELECT no more.
Found(w) ==
  FirstLockable(Due(seen[w], now[w]), Due(delivery, now[w]),
                {d \in Deliveries : lock[d] = Null},
                [d \in Deliveries |-> IF seen[w][d] = Null THEN 0 ELSE seen[w][d].at])

Held(w) == {d \in Deliveries : lock[d] = w} \ failing[w]

LockDelivery(w) ==
  /\ seen[w] # Null /\ Held(w) = {}
  /\ \E d \in Found(w) : lock' = [lock EXCEPT ![d] = w]
  /\ UNCHANGED <<delivery, failing, clock, now, seen, schedules>>

Exhausted(d) == delivery[d].attempts = MAX_RETRIES

FailDelivery(w) ==
  /\ \E d \in Held(w) :
       /\ Exhausted(d)
       /\ failing' = [failing EXCEPT ![w] = @ \cup {d}]
  /\ seen' = [seen EXCEPT ![w] = Null]
  /\ UNCHANGED <<delivery, lock, clock, now, schedules>>

\* The transaction ends, and its locks with it.
Finish(w) ==
  /\ now' = [now EXCEPT ![w] = Null]
  /\ seen' = [seen EXCEPT ![w] = Null]
  /\ failing' = [failing EXCEPT ![w] = {}]
  /\ lock' = [d \in Deliveries |-> IF lock[d] = w THEN Null ELSE lock[d]]
  /\ UNCHANGED <<clock, schedules>>

Failed(w) ==
  [d \in Deliveries |-> IF d \in failing[w] THEN [delivery[d] EXCEPT !.status = "failed"]
                        ELSE delivery[d]]

PollDelivers(w) ==
  /\ \E d \in Held(w) :
       /\ ~Exhausted(d)
       /\ delivery' = [Failed(w) EXCEPT ![d].attempts = @ + 1, ![d].status = "running"]
  /\ Finish(w)

PollNone(w) ==
  /\ seen[w] # Null /\ Held(w) = {} /\ Found(w) = {}
  /\ delivery' = Failed(w)
  /\ Finish(w)

LoseConnection(w) ==
  /\ now[w] # Null
  /\ Finish(w)
  /\ UNCHANGED delivery

PollDue(w) == Snapshot(w) \/ LockDelivery(w) \/ FailDelivery(w) \/ PollDelivers(w) \/ PollNone(w)

Tick ==
  /\ clock < MaxTime
  /\ clock' = clock + 1
  /\ UNCHANGED <<delivery, lock, failing, now, seen, schedules>>

Next ==
  \/ Tick
  \/ \E d \in Deliveries, t \in 1 .. MaxTime : Schedule(d, t)
  \/ \E w \in Workers : CallPoll(w) \/ PollDue(w) \/ LoseConnection(w)

\* A connection inside poll_due sends its next statement; none of them waits.
Spec == Init /\ [][Next]_retryRowVars /\ \A w \in Workers : WF_retryRowVars(PollDue(w))

--------------------------------------------------------------------------------
\* A delivery is handed out once each time it is scheduled, at its latest time and
\* never beyond MAX_RETRIES; one whose attempts are used up is only failed.
AttemptedWhenDue ==
  [][\A d \in Deliveries : delivery[d] # Null =>
       /\ delivery'[d].attempts # delivery[d].attempts =>
            /\ delivery[d].status = "pending" /\ delivery[d].at <= clock
            /\ delivery'[d] = [delivery[d] EXCEPT !.attempts = @ + 1, !.status = "running"]
            /\ delivery'[d].attempts <= MAX_RETRIES
       /\ delivery'[d].status = "failed" /\ delivery[d].status # "failed" =>
            delivery[d].status = "pending" /\ delivery[d].attempts = MAX_RETRIES]_retryRowVars

\* poll_due ends, whatever others lock or schedule meanwhile.
PollEnds == \A w \in Workers : now[w] # Null ~> now[w] = Null
================================================================================
