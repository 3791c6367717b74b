------------------------------- MODULE RetryQueue -------------------------------
(***************************************************************************)
(* src/kata-018-focused, in memory: deliveries to attempt at a time.       *)
(* schedule changes the delivery and pushes an entry with the new time;    *)
(* older entries stay in the heap and are recognised, when they are        *)
(* popped, by a time that is no longer the delivery's.  The heap's keys    *)
(* are frozen and distinct, so it is the set of its entries.  Every method *)
(* is one section under the lock; poll_due reads the clock before it.      *)
(***************************************************************************)
EXTENDS Integers, FiniteSets

CONSTANTS
  Deliveries,
  Workers,      \* threads that call poll_due
  MAX_RETRIES,
  MaxEntries,   \* bound on the calls of schedule
  MaxTime,      \* bound on the clock and the times to attempt at
  Null

VARIABLES
  delivery,  \* next_attempt_at, attempts and status of each
  entries,   \* _ordered_deliveries: records of time, count and id
  count,     \* _disambiguation_count
  clock,
  now        \* now[w]: the time read by worker w inside poll_due, or Null

retryVars == <<delivery, entries, count, clock, now>>

TypeOK ==
  /\ delivery \in [Deliveries -> [at : 0 .. MaxTime, attempts : 0 .. MAX_RETRIES,
                                  status : {"none", "pending", "failed", "canceled"}]]
  /\ entries \in SUBSET [at : 1 .. MaxTime, count : 0 .. MaxEntries - 1, id : Deliveries]
  /\ count \in 0 .. MaxEntries
  /\ clock \in 1 .. MaxTime
  /\ now \in [Workers -> (1 .. MaxTime) \cup {Null}]

Init ==
  /\ delivery = [d \in Deliveries |-> [at |-> 0, attempts |-> 0, status |-> "none"]]
  /\ entries = {}
  /\ count = 0
  /\ clock = 1
  /\ now = [w \in Workers |-> Null]

Before(x, y) == x.at < y.at \/ (x.at = y.at /\ x.count < y.count)

\* The time is compared with one read before the lock is taken, and may have passed.
\* A delivery that is scheduled again keeps its attempts, whatever its status.
Schedule(d, t) ==
  /\ count < MaxEntries
  /\ delivery' = [delivery EXCEPT ![d].at = t, ![d].status = "pending"]
  /\ entries' = entries \cup {[at |-> t, count |-> count, id |-> d]}
  /\ count' = count + 1
  /\ UNCHANGED <<clock, now>>

Cancel(d) ==
  /\ delivery[d].status \in {"pending", "canceled"}
  /\ delivery' = [delivery EXCEPT ![d].status = "canceled"]
  /\ UNCHANGED <<entries, count, clock, now>>

CallPoll(w) ==
  /\ now[w] = Null
  /\ now' = [now EXCEPT ![w] = clock]
  /\ UNCHANGED <<delivery, entries, count, clock>>

\* Mutant: the entry's time is not compared with the delivery's.
Current_AnyTime(e) == delivery[e.id].status = "pending"

Current(e) == delivery[e.id].status = "pending" /\ delivery[e.id].at = e.at

\* increment_attempts raises ValueError.
Exhausted(d) == delivery[d].attempts = MAX_RETRIES

\* The loop of poll_due over the due entries, in the order of the heap: it skips
\* those that are not current, fails those that are exhausted, and returns at the
\* first that is neither.  What comes before that entry leaves the heap; an entry
\* that is not due is pushed back.
Due(w) == {e \in entries : e.at <= now[w]}

Deliverable(w) == {e \in Due(w) : Current(e) /\ ~Exhausted(e.id)}

PollEntries(popped, w) ==
  /\ entries' = entries \ popped
  /\ now' = [now EXCEPT ![w] = Null]
  /\ UNCHANGED <<count, clock>>

Fail(popped, d) == \E e \in popped : e.id = d /\ Current(e) /\ Exhausted(d)

PollDelivers(w, e) ==
  LET popped == {x \in Due(w) : Before(x, e)} IN
  /\ now[w] # Null
  /\ e \in Deliverable(w) /\ \A x \in Deliverable(w) \ {e} : Before(e, x)
  /\ delivery' = [d \in Deliveries |->
       [delivery[d] EXCEPT !.status = IF Fail(popped, d) THEN "failed" ELSE @,
                           !.attempts = IF d = e.id THEN @ + 1 ELSE @]]
  /\ PollEntries(popped \cup {e}, w)

PollNone(w) ==
  /\ now[w] # Null
  /\ Deliverable(w) = {}
  /\ delivery' = [d \in Deliveries |->
       [delivery[d] EXCEPT !.status = IF Fail(Due(w), d) THEN "failed" ELSE @]]
  /\ PollEntries(Due(w), w)

Tick ==
  /\ clock < MaxTime
  /\ clock' = clock + 1
  /\ UNCHANGED <<delivery, entries, count, now>>

Next ==
  \/ \E d \in Deliveries : Cancel(d) \/ \E t \in 1 .. MaxTime : Schedule(d, t)
  \/ \E w \in Workers : CallPoll(w) \/ PollNone(w) \/ \E e \in entries : PollDelivers(w, e)
  \/ Tick

Spec == Init /\ [][Next]_retryVars

--------------------------------------------------------------------------------
\* No schedule is lost: a pending delivery that was not attempted yet has an entry
\* with its time, whatever stale entries were popped and canceled or revived.
ScheduledIsQueued ==
  \A d \in Deliveries : delivery[d].status = "pending" /\ delivery[d].attempts = 0 =>
    \E e \in entries : e.id = d /\ e.at = delivery[d].at

\* A delivery that was put off is not attempted at its earlier time, one that was
\* canceled not at all, and none more often than MAX_RETRIES.
AttemptedWhenDue ==
  [][\A d \in Deliveries : delivery'[d].attempts # delivery[d].attempts =>
       /\ delivery[d].status = "pending" /\ delivery[d].at <= clock
       /\ delivery'[d].attempts = delivery[d].attempts + 1
       /\ delivery[d].attempts < MAX_RETRIES]_retryVars

================================================================================
