----------------------------- MODULE MCTimers_proofs -----------------------------
(***************************************************************************)
(* Theorems about MCTimers and the six services whose behaviours are its   *)
(* own, for any pollers, times, bounds, notifications, deliveries, jobs,   *)
(* users and subscriptions.                                                *)
(***************************************************************************)
EXTENDS MCTimers, Naturals, WellFoundedInduction, TLAPS

--------------------------------------------------------------------------------
(* Notifications in memory.  What a poller has popped is due by the time   *)
(* it asks about and comes before all that is left in the heap, since the  *)
(* heap grows only while no poller holds the lock.                         *)

\* A poll asks about a time that has come.
AskedByNow == \A p \in Pollers : now[p] # Null => now[p] <= clock

\* What has been popped was the first entry, is due, and was not handed out; it may
\* have been canceled.
PoppedFirst ==
  \A p \in Pollers : candidate[p] # Null =>
    /\ now[p] # Null /\ due[candidate[p]] <= now[p]
    /\ status[candidate[p]] \in {"pending", "canceled"}
    /\ \A m \in queue : Before(candidate[p], m)

\* One poller is inside the lock.
OnePolls == \A p, q \in Pollers : candidate[p] # Null /\ candidate[q] # Null => p = q

\* What is in the heap was scheduled and is not handed out.
QueuedIsWaiting == \A n \in queue : status[n] \in {"pending", "canceled"}

NoteInv == TypeOK /\ AskedByNow /\ PoppedFirst /\ OnePolls /\ QueuedIsWaiting

LEMMA NoteInit == Init => NoteInv
  BY NotificationAssumption
  DEF Init, NoteInv, TypeOK, AskedByNow, PoppedFirst, OnePolls, QueuedIsWaiting, Notes

\* Entries are pushed and canceled, and polls begin, without touching what is popped.
LEMMA NotesArrive ==
  ASSUME NoteInv,
         \/ \E d \in 1 .. MaxTime : ScheduleNotification(d)
         \/ \E n \in Notes : Cancel(n)
         \/ \E p \in Pollers : CallPoll(p)
         \/ Tick
  PROVE  NoteInv'
<1> USE NotificationAssumption DEF NoteInv
<1>1. ASSUME NEW d \in 1 .. MaxTime, ScheduleNotification(d) PROVE NoteInv'
  <2> PICK n \in Notes :
        /\ LockFree
        /\ status[n] = "none"
        /\ status' = [status EXCEPT ![n] = "pending"]
        /\ due' = [due EXCEPT ![n] = d]
        /\ queue' = queue \cup {n}
        /\ UNCHANGED <<clock, now, candidate>>
    BY <1>1 DEF ScheduleNotification
  <2>1. TypeOK'
    BY DEF TypeOK
  <2>2. AskedByNow' /\ PoppedFirst' /\ OnePolls'
    BY DEF AskedByNow, PoppedFirst, OnePolls, LockFree
  <2>3. QueuedIsWaiting'
    BY DEF QueuedIsWaiting, TypeOK
  <2> QED
    BY <2>1, <2>2, <2>3
<1>2. ASSUME NEW n \in Notes, Cancel(n) PROVE NoteInv'
  <2>1. TypeOK' /\ AskedByNow' /\ OnePolls'
    BY <1>2 DEF Cancel, TypeOK, AskedByNow, OnePolls
  <2>2. PoppedFirst'
    BY <1>2 DEF Cancel, TypeOK, PoppedFirst, Before
  <2>3. QueuedIsWaiting'
    BY <1>2 DEF Cancel, TypeOK, QueuedIsWaiting
  <2> QED
    BY <2>1, <2>2, <2>3
<1>3. ASSUME NEW p \in Pollers, CallPoll(p) PROVE NoteInv'
  <2>1. TypeOK' /\ AskedByNow' /\ OnePolls' /\ QueuedIsWaiting'
    BY <1>3 DEF CallPoll, TypeOK, AskedByNow, OnePolls, QueuedIsWaiting
  <2>2. PoppedFirst'
    BY <1>3 DEF CallPoll, TypeOK, PoppedFirst, Before
  <2> QED
    BY <2>1, <2>2
<1>4. ASSUME Tick PROVE NoteInv'
  BY <1>4 DEF Tick, TypeOK, AskedByNow, PoppedFirst, OnePolls, QueuedIsWaiting, Before
<1> QED
  BY <1>1, <1>2, <1>3, <1>4

\* A step inside the lock pops the first entry, hands out what was popped, or drops it.
LEMMA NotesPolled ==
  ASSUME NoteInv, NEW p \in Pollers, InCall(p)
  PROVE  NoteInv'
<1> USE NotificationAssumption DEF NoteInv
<1>1. CASE ReturnNothing(p)
  BY <1>1
  DEF ReturnNothing, LockFree, TypeOK, AskedByNow, PoppedFirst, OnePolls, QueuedIsWaiting, Before
<1>2. CASE PopFirst(p) \/ PopAnother(p)
  <2> PICK n \in Notes :
        /\ \A q \in Pollers : q # p => candidate[q] = Null
        /\ now[p] # Null
        /\ IsFirst(n) /\ due[n] <= now[p]
        /\ candidate' = [candidate EXCEPT ![p] = n]
        /\ queue' = queue \ {n}
        /\ UNCHANGED <<status, due, clock, now>>
    BY <1>2 DEF PopFirst, PopAnother, LockFree, OnePolls, PoppedFirst
  <2>1. TypeOK' /\ AskedByNow' /\ OnePolls' /\ QueuedIsWaiting'
    BY DEF TypeOK, AskedByNow, OnePolls, QueuedIsWaiting
  <2>2. PoppedFirst'
    BY DEF TypeOK, PoppedFirst, QueuedIsWaiting, IsFirst, Before
  <2> QED
    BY <2>1, <2>2
<1>3. CASE ClaimRunning(p)
  <2>1. TypeOK' /\ AskedByNow' /\ OnePolls'
    BY <1>3 DEF ClaimRunning, TypeOK, AskedByNow, OnePolls
  <2>2. PoppedFirst'
    BY <1>3 DEF ClaimRunning, TypeOK, PoppedFirst, OnePolls
  <2>3. candidate[p] \in Notes /\ candidate[p] \notin queue
    BY <1>3 DEF ClaimRunning, TypeOK, PoppedFirst, Before, Notes
  <2>4. QueuedIsWaiting'
    BY <1>3, <2>3 DEF ClaimRunning, TypeOK, QueuedIsWaiting
  <2> QED
    BY <2>1, <2>2, <2>4
<1>4. CASE GiveUp(p)
  <2>1. TypeOK' /\ AskedByNow' /\ OnePolls' /\ QueuedIsWaiting'
    BY <1>4 DEF GiveUp, TypeOK, AskedByNow, OnePolls, QueuedIsWaiting
  <2>2. PoppedFirst'
    BY <1>4 DEF GiveUp, TypeOK, PoppedFirst, OnePolls
  <2> QED
    BY <2>1, <2>2
<1> QED
  BY <1>1, <1>2, <1>3, <1>4 DEF InCall

LEMMA NoteStep == NoteInv /\ [Next]_noteVars => NoteInv'
<1> SUFFICES ASSUME NoteInv, [Next]_noteVars PROVE NoteInv'
  OBVIOUS
<1>1. CASE Next
  BY <1>1, NotesArrive, NotesPolled DEF Next
<1>2. CASE UNCHANGED noteVars
  BY <1>2 DEF noteVars, NoteInv, TypeOK, AskedByNow, PoppedFirst, OnePolls, QueuedIsWaiting, Before
<1> QED
  BY <1>1, <1>2

\* What the two action properties say of a step.
HandedOutInTurn ==
  \A n \in Notes :
    /\ status[n] \in {"canceled", "running"} => status'[n] = status[n]
    /\ status[n] = "pending" /\ status'[n] = "running" =>
         due[n] <= clock /\ \A m \in queue : status[m] = "pending" => Before(n, m)

DroppedByGivingUp ==
  \A n \in queue :
    n \notin queue' /\ status[n] = "pending" =>
      \E p \in Pollers :
        \/ candidate'[p] = n
        \/ candidate[p] # Null /\ status[candidate[p]] = "canceled" /\ due[n] > now[p]

LEMMA NoteSteps == NoteInv /\ [Next]_noteVars => [HandedOutInTurn /\ DroppedByGivingUp]_noteVars
<1> SUFFICES ASSUME NoteInv, Next PROVE HandedOutInTurn /\ DroppedByGivingUp
  OBVIOUS
<1> USE NotificationAssumption DEF NoteInv
<1>1. ASSUME NEW d \in 1 .. MaxTime, ScheduleNotification(d) PROVE HandedOutInTurn /\ DroppedByGivingUp
  BY <1>1 DEF ScheduleNotification, TypeOK, HandedOutInTurn, DroppedByGivingUp
<1>2. ASSUME NEW n \in Notes, Cancel(n) PROVE HandedOutInTurn /\ DroppedByGivingUp
  BY <1>2 DEF Cancel, TypeOK, HandedOutInTurn, DroppedByGivingUp
<1>3. ASSUME NEW p \in Pollers, CallPoll(p) \/ ReturnNothing(p) PROVE HandedOutInTurn /\ DroppedByGivingUp
  BY <1>3 DEF CallPoll, ReturnNothing, HandedOutInTurn, DroppedByGivingUp
<1>4. ASSUME NEW p \in Pollers, PopFirst(p) \/ PopAnother(p) PROVE HandedOutInTurn /\ DroppedByGivingUp
  BY <1>4 DEF PopFirst, PopAnother, TypeOK, HandedOutInTurn, DroppedByGivingUp
<1>5. ASSUME NEW p \in Pollers, ClaimRunning(p) PROVE HandedOutInTurn /\ DroppedByGivingUp
  <2>1. candidate[p] \in Notes /\ due[candidate[p]] <= clock
    BY <1>5 DEF ClaimRunning, TypeOK, PoppedFirst, AskedByNow
  <2> QED
    BY <1>5, <2>1 DEF ClaimRunning, TypeOK, PoppedFirst, HandedOutInTurn, DroppedByGivingUp
<1>6. ASSUME NEW p \in Pollers, GiveUp(p) PROVE HandedOutInTurn /\ DroppedByGivingUp
  <2>1. HandedOutInTurn
    BY <1>6 DEF GiveUp, HandedOutInTurn
  <2>2. candidate[p] # Null /\ status[candidate[p]] = "canceled"
    BY <1>6 DEF GiveUp, PoppedFirst
  <2>3. \A n \in queue \ queue' : due[n] > now[p]
    BY <1>6 DEF GiveUp, NoneDue, TypeOK
  <2> QED
    BY <2>1, <2>2, <2>3 DEF DroppedByGivingUp
<1>7. CASE Tick
  BY <1>7 DEF Tick, HandedOutInTurn, DroppedByGivingUp
<1> QED
  BY <1>1, <1>2, <1>3, <1>4, <1>5, <1>6, <1>7 DEF Next, InCall

--------------------------------------------------------------------------------
(* Retries in memory.  ScheduledIsQueued is inductive with the types: an   *)
(* entry with the time of its delivery is popped only to be attempted, or  *)
(* to fail a delivery whose attempts are used up.                          *)

RetriesAskedByNow == \A w \in Pollers : retryNow[w] # Null => retryNow[w] <= retryClock

DeliveryRecords ==
  [at : 0 .. RetryTime, attempts : 0 .. MAX_RETRIES,
   status : {"none", "pending", "failed", "canceled"}]

RetryInv == Retry!TypeOK /\ Retry!ScheduledIsQueued /\ RetriesAskedByNow

LEMMA RetryInit == Retry!Init => RetryInv
  BY RetryAssumption, NotificationAssumption
  DEF Retry!Init, RetryInv, Retry!TypeOK, Retry!ScheduledIsQueued, RetriesAskedByNow

\* The entry that a pending delivery was scheduled with.
LEMMA EntryOfScheduled ==
  ASSUME Retry!ScheduledIsQueued, NEW d \in Deliveries,
         delivery[d].status = "pending", delivery[d].attempts = 0
  PROVE  \E e \in entries : e.id = d /\ e.at = delivery[d].at /\ Retry!Current(e)
  BY DEF Retry!ScheduledIsQueued, Retry!Current

LEMMA RetriesArrive ==
  ASSUME RetryInv,
         \/ \E d \in Deliveries, t \in 1 .. RetryTime : Retry!Schedule(d, t)
         \/ \E d \in Deliveries : Retry!Cancel(d)
         \/ \E w \in Pollers : Retry!CallPoll(w)
         \/ Retry!Tick
  PROVE  RetryInv'
<1> USE RetryAssumption, NotificationAssumption DEF RetryInv
<1>1. ASSUME NEW d \in Deliveries, NEW t \in 1 .. RetryTime, Retry!Schedule(d, t) PROVE RetryInv'
  <2>1. Retry!TypeOK' /\ RetriesAskedByNow'
    BY <1>1 DEF Retry!Schedule, Retry!TypeOK, RetriesAskedByNow
  <2>2. ASSUME NEW x \in Deliveries, delivery'[x].status = "pending", delivery'[x].attempts = 0
        PROVE  \E e \in entries' : e.id = x /\ e.at = delivery'[x].at
    <3>1. CASE x = d
      <4>1. [at |-> t, count |-> count, id |-> d] \in entries'
        BY <1>1 DEF Retry!Schedule
      <4> QED
        BY <3>1, <4>1, <1>1 DEF Retry!Schedule, Retry!TypeOK
    <3>2. CASE x # d
      BY <3>2, <2>2, <1>1 DEF Retry!Schedule, Retry!TypeOK, Retry!ScheduledIsQueued
    <3> QED
      BY <3>1, <3>2
  <2> QED
    BY <2>1, <2>2 DEF Retry!ScheduledIsQueued
<1>2. ASSUME NEW d \in Deliveries, Retry!Cancel(d) PROVE RetryInv'
  BY <1>2 DEF Retry!Cancel, Retry!TypeOK, Retry!ScheduledIsQueued, RetriesAskedByNow
<1>3. ASSUME NEW w \in Pollers, Retry!CallPoll(w) PROVE RetryInv'
  BY <1>3 DEF Retry!CallPoll, Retry!TypeOK, Retry!ScheduledIsQueued, RetriesAskedByNow
<1>4. CASE Retry!Tick
  BY <1>4 DEF Retry!Tick, Retry!TypeOK, Retry!ScheduledIsQueued, RetriesAskedByNow
<1> QED
  BY <1>1, <1>2, <1>3, <1>4

LEMMA RetriesDelivered ==
  ASSUME RetryInv, NEW w \in Pollers, NEW e \in entries, Retry!PollDelivers(w, e)
  PROVE  RetryInv'
<1> DEFINE popped == {x \in Retry!Due(w) : Retry!Before(x, e)}
<1> USE RetryAssumption, NotificationAssumption DEF RetryInv
<1>1. /\ delivery' = [d \in Deliveries |->
            [delivery[d] EXCEPT !.status = IF Retry!Fail(popped, d) THEN "failed" ELSE @,
                                !.attempts = IF d = e.id THEN @ + 1 ELSE @]]
      /\ entries' = entries \ (popped \cup {e})
      /\ retryNow' = [retryNow EXCEPT ![w] = Null]
      /\ UNCHANGED <<count, retryClock>>
  BY DEF Retry!PollDelivers, Retry!PollEntries
<1>2. /\ e.id \in Deliveries
      /\ delivery[e.id].attempts \in 0 .. MAX_RETRIES /\ delivery[e.id].attempts # MAX_RETRIES
  BY DEF Retry!PollDelivers, Retry!Deliverable, Retry!Exhausted, Retry!TypeOK
<1> HIDE DEF popped
<1>3. delivery' \in [Deliveries -> DeliveryRecords]
  <2>1. ASSUME NEW d \in Deliveries PROVE delivery'[d] \in DeliveryRecords
    <3>1. delivery[d] \in DeliveryRecords
      BY DEF Retry!TypeOK, DeliveryRecords
    <3>2. CASE d = e.id
      <4>1. delivery[d].attempts + 1 \in 0 .. MAX_RETRIES
        BY <1>2, <3>2
      <4> QED
        BY <1>1, <3>1, <3>2, <4>1 DEF DeliveryRecords
    <3>3. CASE d # e.id
      BY <1>1, <3>1, <3>3 DEF DeliveryRecords
    <3> QED
      BY <3>2, <3>3
  <2> QED
    BY <1>1, <2>1
<1>4. Retry!TypeOK' /\ RetriesAskedByNow'
  BY <1>1, <1>3 DEF Retry!TypeOK, RetriesAskedByNow, DeliveryRecords
<1>5. ASSUME NEW d \in Deliveries, delivery'[d].status = "pending", delivery'[d].attempts = 0
      PROVE  \E x \in entries' : x.id = d /\ x.at = delivery'[d].at
  <2>1. d # e.id
    <3> SUFFICES ASSUME d = e.id PROVE FALSE
      OBVIOUS
    <3>1. delivery'[d].attempts = delivery[d].attempts + 1
      BY <1>1, <1>2 DEF Retry!TypeOK
    <3> QED
      BY <1>2, <1>5, <3>1
  <2>2. /\ ~Retry!Fail(popped, d)
        /\ delivery[d].status = "pending" /\ delivery[d].attempts = 0
        /\ delivery'[d].at = delivery[d].at
    BY <1>1, <1>5, <2>1 DEF Retry!TypeOK
  <2> PICK x \in entries : x.id = d /\ x.at = delivery[d].at /\ Retry!Current(x)
    BY <2>2, EntryOfScheduled
  <2>3. x \notin popped
    <3> SUFFICES ASSUME x \in popped PROVE FALSE
      OBVIOUS
    <3>1. x \in Retry!Due(w) /\ Retry!Before(x, e)
      BY DEF popped
    <3>2. ~Retry!Exhausted(d)
      BY <2>2 DEF Retry!Fail
    <3>3. x \in Retry!Deliverable(w) /\ x # e
      BY <3>1, <3>2, <2>1 DEF Retry!Deliverable
    <3>4. Retry!Before(e, x)
      BY <3>3 DEF Retry!PollDelivers
    <3>5. x.at \in Int /\ e.at \in Int /\ x.count \in Int /\ e.count \in Int
      BY DEF Retry!TypeOK
    <3> QED
      BY <3>1, <3>4, <3>5 DEF Retry!Before
  <2> QED
    BY <1>1, <2>1, <2>2, <2>3
<1> QED
  BY <1>4, <1>5 DEF Retry!ScheduledIsQueued

LEMMA RetriesNotDelivered ==
  ASSUME RetryInv, NEW w \in Pollers, Retry!PollNone(w)
  PROVE  RetryInv'
<1> USE RetryAssumption, NotificationAssumption DEF RetryInv
<1>1. /\ delivery' = [d \in Deliveries |->
            [delivery[d] EXCEPT !.status = IF Retry!Fail(Retry!Due(w), d) THEN "failed" ELSE @]]
      /\ entries' = entries \ Retry!Due(w)
      /\ retryNow' = [retryNow EXCEPT ![w] = Null]
      /\ UNCHANGED <<count, retryClock>>
  BY DEF Retry!PollNone, Retry!PollEntries
<1>2. Retry!TypeOK' /\ RetriesAskedByNow'
  BY <1>1 DEF Retry!TypeOK, RetriesAskedByNow
<1>3. ASSUME NEW d \in Deliveries, delivery'[d].status = "pending", delivery'[d].attempts = 0
      PROVE  \E x \in entries' : x.id = d /\ x.at = delivery'[d].at
  <2>1. /\ ~Retry!Fail(Retry!Due(w), d)
        /\ delivery[d].status = "pending" /\ delivery[d].attempts = 0
        /\ delivery'[d].at = delivery[d].at
    BY <1>1, <1>3 DEF Retry!TypeOK
  <2> PICK x \in entries : x.id = d /\ x.at = delivery[d].at /\ Retry!Current(x)
    BY <2>1, EntryOfScheduled
  <2>2. x \notin Retry!Due(w)
    BY <2>1 DEF Retry!Fail, Retry!PollNone, Retry!Deliverable
  <2> QED
    BY <1>1, <2>1, <2>2
<1> QED
  BY <1>2, <1>3 DEF Retry!ScheduledIsQueued

LEMMA RetryStep == RetryInv /\ [Retry!Next]_mcRetryVars => RetryInv'
<1> SUFFICES ASSUME RetryInv, [Retry!Next]_mcRetryVars PROVE RetryInv'
  OBVIOUS
<1>1. CASE Retry!Next
  BY <1>1, RetriesArrive, RetriesDelivered, RetriesNotDelivered DEF Retry!Next
<1>2. CASE UNCHANGED mcRetryVars
  BY <1>2 DEF mcRetryVars, RetryInv, Retry!TypeOK, Retry!ScheduledIsQueued, RetriesAskedByNow
<1> QED
  BY <1>1, <1>2

RetriedWhenDue ==
  \A d \in Deliveries : delivery'[d].attempts # delivery[d].attempts =>
    /\ delivery[d].status = "pending" /\ delivery[d].at <= retryClock
    /\ delivery'[d].attempts = delivery[d].attempts + 1
    /\ delivery[d].attempts < MAX_RETRIES

LEMMA RetrySteps == RetryInv /\ [Retry!Next]_mcRetryVars => [RetriedWhenDue]_mcRetryVars
<1> SUFFICES ASSUME RetryInv, Retry!Next PROVE RetriedWhenDue
  OBVIOUS
<1> USE RetryAssumption, NotificationAssumption DEF RetryInv
<1>1. ASSUME NEW d \in Deliveries,
             Retry!Cancel(d) \/ \E t \in 1 .. RetryTime : Retry!Schedule(d, t)
      PROVE  RetriedWhenDue
  <2>1. ASSUME Retry!Cancel(d), NEW x \in Deliveries
        PROVE  delivery'[x].attempts = delivery[x].attempts
    BY <2>1 DEF Retry!Cancel, Retry!TypeOK
  <2>2. ASSUME NEW t \in 1 .. RetryTime, Retry!Schedule(d, t), NEW x \in Deliveries
        PROVE  delivery'[x].attempts = delivery[x].attempts
    BY <2>2 DEF Retry!Schedule, Retry!TypeOK
  <2> QED
    BY <1>1, <2>1, <2>2 DEF RetriedWhenDue
<1>2. ASSUME NEW w \in Pollers, Retry!CallPoll(w) \/ Retry!PollNone(w) PROVE RetriedWhenDue
  BY <1>2 DEF Retry!CallPoll, Retry!PollNone, Retry!TypeOK, RetriedWhenDue
<1>3. ASSUME NEW w \in Pollers, NEW e \in entries, Retry!PollDelivers(w, e) PROVE RetriedWhenDue
  <2>1. /\ e.id \in Deliveries
        /\ delivery[e.id].status = "pending" /\ delivery[e.id].at <= retryClock
        /\ delivery[e.id].attempts \in 0 .. MAX_RETRIES /\ delivery[e.id].attempts # MAX_RETRIES
    <3>1. e.id \in Deliveries /\ delivery[e.id].attempts \in 0 .. MAX_RETRIES
      BY DEF Retry!TypeOK
    <3>2. Retry!Current(e) /\ ~Retry!Exhausted(e.id) /\ e.at <= retryNow[w] /\ retryNow[w] # Null
      BY <1>3 DEF Retry!PollDelivers, Retry!Deliverable, Retry!Due
    <3>3. e.at \in Int /\ retryNow[w] \in Int /\ retryClock \in Int
      BY <3>2 DEF Retry!TypeOK
    <3>4. retryNow[w] <= retryClock
      BY <3>2 DEF RetriesAskedByNow
    <3> QED
      BY <3>1, <3>2, <3>3, <3>4 DEF Retry!Current, Retry!Exhausted
  <2>2. \A d \in Deliveries : delivery'[d].attempts =
          IF d = e.id THEN delivery[d].attempts + 1 ELSE delivery[d].attempts
    BY <1>3 DEF Retry!PollDelivers, Retry!TypeOK
  <2> QED
    BY <2>1, <2>2 DEF RetriedWhenDue
<1>4. CASE Retry!Tick
  BY <1>4 DEF Retry!Tick, RetriedWhenDue
<1> QED
  BY <1>1, <1>2, <1>3, <1>4 DEF Retry!Next

--------------------------------------------------------------------------------
(* Notifications in rows.  What a transaction has locked keeps the status  *)
(* that made it lock it until its commit: nobody else writes the row.      *)

RowsAskedByNow == \A p \in Pollers : rowNow[p] # Null => rowNow[p] <= rowClock

\* A snapshot belongs to a poll, and a connection does one thing at a time.
OneCall ==
  \A p \in Pollers :
    /\ rowSeen[p] # Null => rowNow[p] # Null
    /\ rowNow[p] # Null => canceling[p] = Null

CancelsLocked == \A p \in Pollers : canceling[p] # Null => rowLock[canceling[p]] = p

\* A locked row is canceled by the connection that locked it, or due and pending for the
\* poll that did.
LockedMatches ==
  \A n \in RowNotes : rowLock[n] # Null =>
    \/ canceling[rowLock[n]] = n /\ rowStatus[n] \in {"pending", "canceled"}
    \/ /\ canceling[rowLock[n]] = Null /\ rowNow[rowLock[n]] # Null
       /\ rowStatus[n] = "pending" /\ rowDue[n] <= rowNow[rowLock[n]]

NoteRowInv ==
  NoteRows!TypeOK /\ RowsAskedByNow /\ OneCall /\ CancelsLocked /\ LockedMatches

LEMMA NoteRowInit == NoteRows!Init => NoteRowInv
  BY NoteRowAssumption, NotificationAssumption
  DEF NoteRows!Init, NoteRowInv, NoteRows!TypeOK, RowsAskedByNow, OneCall, CancelsLocked,
      LockedMatches

\* A transaction that ends gives up what it locked, and no other lock.
LEMMA FinishSound ==
  ASSUME NoteRowInv, NEW p \in Pollers, NoteRows!Finish(p),
         rowStatus' \in [RowNotes -> {"none", "pending", "running", "canceled"}],
         \A n \in RowNotes : rowLock[n] # p => rowStatus'[n] = rowStatus[n]
  PROVE  NoteRowInv'
<1> USE NoteRowAssumption, NotificationAssumption DEF NoteRowInv
<1>1. NoteRows!TypeOK'
  BY DEF NoteRows!Finish, NoteRows!TypeOK
<1>2. RowsAskedByNow' /\ OneCall'
  BY DEF NoteRows!Finish, NoteRows!TypeOK, RowsAskedByNow, OneCall
<1>3. CancelsLocked'
  BY DEF NoteRows!Finish, NoteRows!TypeOK, CancelsLocked
<1>4. ASSUME NEW n \in RowNotes, rowLock'[n] # Null
      PROVE  \/ canceling'[rowLock'[n]] = n /\ rowStatus'[n] \in {"pending", "canceled"}
             \/ /\ canceling'[rowLock'[n]] = Null /\ rowNow'[rowLock'[n]] # Null
                /\ rowStatus'[n] = "pending" /\ rowDue'[n] <= rowNow'[rowLock'[n]]
  <2>1. rowLock'[n] = rowLock[n] /\ rowLock[n] # p /\ rowLock[n] \in Pollers
    BY <1>4 DEF NoteRows!Finish, NoteRows!TypeOK
  <2>2. /\ canceling'[rowLock[n]] = canceling[rowLock[n]]
        /\ rowNow'[rowLock[n]] = rowNow[rowLock[n]]
        /\ rowStatus'[n] = rowStatus[n] /\ rowDue' = rowDue
    BY <2>1 DEF NoteRows!Finish, NoteRows!TypeOK
  <2> QED
    BY <1>4, <2>1, <2>2 DEF LockedMatches
<1> QED
  BY <1>1, <1>2, <1>3, <1>4 DEF LockedMatches

\* Rows are entered and locked, and calls begin.
LEMMA NoteRowsArrive ==
  ASSUME NoteRowInv,
         \/ \E n \in RowNotes, t \in 1 .. RowTime : NoteRows!ScheduleNotification(n, t)
         \/ \E p \in Pollers, n \in RowNotes : NoteRows!UpdateCanceled(p, n)
         \/ \E p \in Pollers :
              NoteRows!CallPoll(p) \/ NoteRows!Snapshot(p) \/ NoteRows!LockNext(p)
         \/ NoteRows!Tick
  PROVE  NoteRowInv'
<1> USE NoteRowAssumption, NotificationAssumption DEF NoteRowInv
<1>1. ASSUME NEW n \in RowNotes, NEW t \in 1 .. RowTime, NoteRows!ScheduleNotification(n, t)
      PROVE  NoteRowInv'
  <2>1. NoteRows!TypeOK' /\ RowsAskedByNow' /\ OneCall' /\ CancelsLocked'
    BY <1>1 DEF NoteRows!ScheduleNotification, NoteRows!TypeOK, RowsAskedByNow, OneCall,
                CancelsLocked
  <2>2. rowLock[n] = Null
    BY <1>1 DEF NoteRows!ScheduleNotification, LockedMatches
  <2>3. LockedMatches'
    BY <1>1, <2>2 DEF NoteRows!ScheduleNotification, NoteRows!TypeOK, LockedMatches
  <2> QED
    BY <2>1, <2>3
<1>2. ASSUME NEW p \in Pollers, NEW n \in RowNotes, NoteRows!UpdateCanceled(p, n)
      PROVE  NoteRowInv'
  <2>1. NoteRows!TypeOK' /\ RowsAskedByNow' /\ OneCall' /\ CancelsLocked'
    BY <1>2 DEF NoteRows!UpdateCanceled, NoteRows!Idle, NoteRows!TypeOK, RowsAskedByNow, OneCall,
                CancelsLocked
  <2>2. \A m \in RowNotes : rowLock[m] # p
    BY <1>2 DEF NoteRows!UpdateCanceled, NoteRows!Idle, LockedMatches
  <2>3. LockedMatches'
    BY <1>2, <2>2 DEF NoteRows!UpdateCanceled, NoteRows!TypeOK, LockedMatches
  <2> QED
    BY <2>1, <2>3
<1>3. ASSUME NEW p \in Pollers, NoteRows!CallPoll(p) PROVE NoteRowInv'
  <2>1. NoteRows!TypeOK' /\ RowsAskedByNow' /\ OneCall' /\ CancelsLocked'
    BY <1>3 DEF NoteRows!CallPoll, NoteRows!Idle, NoteRows!TypeOK, RowsAskedByNow, OneCall,
                CancelsLocked
  <2>2. \A m \in RowNotes : rowLock[m] # p
    BY <1>3 DEF NoteRows!CallPoll, NoteRows!Idle, LockedMatches
  <2>3. LockedMatches'
    BY <1>3, <2>2 DEF NoteRows!CallPoll, NoteRows!TypeOK, LockedMatches
  <2> QED
    BY <2>1, <2>3
<1>4. ASSUME NEW p \in Pollers, NoteRows!Snapshot(p) PROVE NoteRowInv'
  <2>1. NoteRows!DuePending(rowNow[p]) \in SUBSET RowNotes
    BY DEF NoteRows!DuePending
  <2>2. NoteRows!TypeOK' /\ RowsAskedByNow' /\ OneCall' /\ CancelsLocked' /\ LockedMatches'
    BY <1>4, <2>1 DEF NoteRows!Snapshot, NoteRows!TypeOK, RowsAskedByNow, OneCall, CancelsLocked,
                      LockedMatches
  <2> QED
    BY <2>2
<1>5. ASSUME NEW p \in Pollers, NoteRows!LockNext(p) PROVE NoteRowInv'
  <2> PICK n \in NoteRows!Found(p) : rowLock' = [rowLock EXCEPT ![n] = p]
    BY <1>5 DEF NoteRows!LockNext
  <2>1. n \in RowNotes /\ rowStatus[n] = "pending" /\ rowDue[n] <= rowNow[p] /\ rowLock[n] = Null
    BY DEF NoteRows!Found, NoteRows!FirstLockable, NoteRows!Lockable, NoteRows!DuePending
  <2>2. rowNow[p] # Null /\ canceling[p] = Null
    BY <1>5 DEF NoteRows!LockNext, OneCall
  <2>3. NoteRows!TypeOK' /\ RowsAskedByNow' /\ OneCall'
    BY <1>5, <2>1 DEF NoteRows!LockNext, NoteRows!TypeOK, RowsAskedByNow, OneCall
  <2>4. CancelsLocked' /\ LockedMatches'
    BY <1>5, <2>1, <2>2 DEF NoteRows!LockNext, NoteRows!TypeOK, CancelsLocked, LockedMatches
  <2> QED
    BY <2>3, <2>4
<1>6. CASE NoteRows!Tick
  BY <1>6 DEF NoteRows!Tick, NoteRows!TypeOK, RowsAskedByNow, OneCall, CancelsLocked, LockedMatches
<1> QED
  BY <1>1, <1>2, <1>3, <1>4, <1>5, <1>6

LEMMA NoteRowsEnd ==
  ASSUME NoteRowInv, NEW p \in Pollers,
         \/ NoteRows!CommitCanceled(p) \/ NoteRows!ReturnNothing(p)
         \/ NoteRows!CommitRunning(p) \/ NoteRows!LoseConnection(p)
  PROVE  NoteRowInv'
<1> USE NoteRowAssumption DEF NoteRowInv
<1>1. CASE NoteRows!CommitCanceled(p)
  <2>1. canceling[p] \in RowNotes /\ rowLock[canceling[p]] = p
    BY <1>1 DEF NoteRows!CommitCanceled, NoteRows!TypeOK, CancelsLocked
  <2> QED
    BY <1>1, <2>1, FinishSound DEF NoteRows!CommitCanceled, NoteRows!TypeOK
<1>2. CASE NoteRows!ReturnNothing(p) \/ NoteRows!LoseConnection(p)
  BY <1>2, FinishSound DEF NoteRows!ReturnNothing, NoteRows!LoseConnection, NoteRows!TypeOK
<1>3. CASE NoteRows!CommitRunning(p)
  BY <1>3, FinishSound DEF NoteRows!CommitRunning, NoteRows!Held, NoteRows!TypeOK
<1> QED
  BY <1>1, <1>2, <1>3

LEMMA NoteRowStep == NoteRowInv /\ [NoteRows!Next]_mcNoteRowVars => NoteRowInv'
<1> SUFFICES ASSUME NoteRowInv, [NoteRows!Next]_mcNoteRowVars PROVE NoteRowInv'
  OBVIOUS
<1>1. CASE NoteRows!Next
  BY <1>1, NoteRowsArrive, NoteRowsEnd DEF NoteRows!Next, NoteRows!GetNextDue
<1>2. CASE UNCHANGED mcNoteRowVars
  BY <1>2 DEF mcNoteRowVars, NoteRowInv, NoteRows!TypeOK, RowsAskedByNow, OneCall, CancelsLocked,
              LockedMatches
<1> QED
  BY <1>1, <1>2

RowsHandedOut ==
  \A n \in RowNotes :
    /\ rowStatus[n] \in {"running", "canceled"} => rowStatus'[n] = rowStatus[n]
    /\ rowStatus'[n] = "running" /\ rowStatus[n] # "running" =>
         rowStatus[n] = "pending" /\ rowDue[n] <= rowClock

LEMMA NoteRowSteps == NoteRowInv /\ [NoteRows!Next]_mcNoteRowVars => [RowsHandedOut]_mcNoteRowVars
<1> SUFFICES ASSUME NoteRowInv, NoteRows!Next PROVE RowsHandedOut
  OBVIOUS
<1> USE NoteRowAssumption, NotificationAssumption DEF NoteRowInv
<1>1. ASSUME NEW n \in RowNotes, NEW t \in 1 .. RowTime, NoteRows!ScheduleNotification(n, t)
      PROVE  RowsHandedOut
  BY <1>1 DEF NoteRows!ScheduleNotification, NoteRows!TypeOK, RowsHandedOut
<1>2. ASSUME rowStatus' = rowStatus PROVE RowsHandedOut
  BY <1>2 DEF RowsHandedOut
<1>3. ASSUME NEW p \in Pollers, NoteRows!CommitCanceled(p) PROVE RowsHandedOut
  <2>1. canceling[p] \in RowNotes /\ rowLock[canceling[p]] = p
    BY <1>3 DEF NoteRows!CommitCanceled, NoteRows!TypeOK, CancelsLocked
  <2>2. rowStatus[canceling[p]] \in {"pending", "canceled"}
    BY <1>3, <2>1 DEF NoteRows!CommitCanceled, LockedMatches
  <2> QED
    BY <1>3, <2>1, <2>2 DEF NoteRows!CommitCanceled, NoteRows!TypeOK, RowsHandedOut
<1>4. ASSUME NEW p \in Pollers, NoteRows!CommitRunning(p) PROVE RowsHandedOut
  <2>1. rowNow[p] # Null /\ canceling[p] = Null /\ rowNow[p] <= rowClock
    BY <1>4 DEF NoteRows!CommitRunning, OneCall, RowsAskedByNow
  <2>2. rowNow[p] \in Int /\ rowClock \in Int
    BY <2>1 DEF NoteRows!TypeOK
  <2>3. ASSUME NEW n \in RowNotes, rowLock[n] = p
        PROVE  rowStatus[n] = "pending" /\ rowDue[n] <= rowClock
    <3>1. rowStatus[n] = "pending" /\ rowDue[n] <= rowNow[p] /\ rowDue[n] \in Int
      BY <2>1, <2>3 DEF LockedMatches, NoteRows!TypeOK
    <3> QED
      BY <2>1, <2>2, <3>1
  <2> QED
    BY <1>4, <2>3 DEF NoteRows!CommitRunning, NoteRows!Held, RowsHandedOut
<1>5. ASSUME NEW p \in Pollers,
             \/ NoteRows!CallPoll(p) \/ NoteRows!Snapshot(p) \/ NoteRows!LockNext(p)
             \/ NoteRows!ReturnNothing(p) \/ NoteRows!LoseConnection(p)
             \/ \E n \in RowNotes : NoteRows!UpdateCanceled(p, n)
      PROVE  rowStatus' = rowStatus
  BY <1>5 DEF NoteRows!CallPoll, NoteRows!Snapshot, NoteRows!LockNext, NoteRows!ReturnNothing,
              NoteRows!LoseConnection, NoteRows!UpdateCanceled
<1>6. NoteRows!Tick => rowStatus' = rowStatus
  BY DEF NoteRows!Tick
<1> QED
  BY <1>1, <1>2, <1>3, <1>4, <1>5, <1>6 DEF NoteRows!Next, NoteRows!GetNextDue

--------------------------------------------------------------------------------
(* Retries in rows.  A row that a poll has locked is due and pending until *)
(* the poll commits, and what it has marked failed is used up.             *)

DeliveriesAskedByNow == \A w \in Pollers : deliveryNow[w] # Null => deliveryNow[w] <= deliveryClock

SnapshotOfPoll == \A w \in Pollers : deliverySeen[w] # Null => deliveryNow[w] # Null

LockedIsDue ==
  \A d \in Deliveries : deliveryLock[d] # Null =>
    /\ deliveryNow[deliveryLock[d]] # Null
    /\ rowDelivery[d] # Null /\ rowDelivery[d].status = "pending"
    /\ rowDelivery[d].at <= deliveryNow[deliveryLock[d]]

FailingIsUsedUp ==
  \A w \in Pollers : \A d \in failing[w] :
    deliveryLock[d] = w /\ rowDelivery[d].attempts = RowRetries

RetryRowInv ==
  RetryRows!TypeOK /\ DeliveriesAskedByNow /\ SnapshotOfPoll /\ LockedIsDue /\ FailingIsUsedUp

LEMMA RetryRowInit == RetryRows!Init => RetryRowInv
  BY RetryRowAssumption, NoteRowAssumption, NotificationAssumption
  DEF RetryRows!Init, RetryRowInv, RetryRows!TypeOK, RetryRows!Table, DeliveriesAskedByNow,
      SnapshotOfPoll, LockedIsDue, FailingIsUsedUp

\* A transaction that ends gives up what it locked and marked, and writes no row that
\* another has locked.
LEMMA PollFinishes ==
  ASSUME RetryRowInv, NEW w \in Pollers, RetryRows!Finish(w),
         rowDelivery' \in RetryRows!Table,
         \A d \in Deliveries : deliveryLock[d] # w => rowDelivery'[d] = rowDelivery[d]
  PROVE  RetryRowInv'
<1> USE RetryRowAssumption, NoteRowAssumption, NotificationAssumption DEF RetryRowInv
<1>1. RetryRows!TypeOK'
  BY DEF RetryRows!Finish, RetryRows!TypeOK
<1>2. DeliveriesAskedByNow' /\ SnapshotOfPoll'
  BY DEF RetryRows!Finish, RetryRows!TypeOK, DeliveriesAskedByNow, SnapshotOfPoll
<1>3. ASSUME NEW d \in Deliveries, deliveryLock'[d] # Null
      PROVE  /\ deliveryLock'[d] = deliveryLock[d] /\ deliveryLock[d] # w
             /\ deliveryNow'[deliveryLock[d]] = deliveryNow[deliveryLock[d]]
             /\ rowDelivery'[d] = rowDelivery[d]
  BY <1>3 DEF RetryRows!Finish, RetryRows!TypeOK
<1>4. LockedIsDue'
  BY <1>3 DEF LockedIsDue
<1>5. ASSUME NEW v \in Pollers, NEW d \in failing'[v]
      PROVE  deliveryLock'[d] = v /\ rowDelivery'[d].attempts = RowRetries
  <2>1. v # w /\ failing'[v] = failing[v] /\ d \in Deliveries
    BY <1>5 DEF RetryRows!Finish, RetryRows!TypeOK
  <2>2. deliveryLock[d] = v /\ rowDelivery[d].attempts = RowRetries
    BY <2>1 DEF FailingIsUsedUp
  <2> QED
    BY <2>1, <2>2 DEF RetryRows!Finish, RetryRows!TypeOK
<1> QED
  BY <1>1, <1>2, <1>4, <1>5 DEF FailingIsUsedUp

\* Deliveries are scheduled and locked, calls begin, and rows are marked failed.
LEMMA RetryRowsArrive ==
  ASSUME RetryRowInv,
         \/ \E d \in Deliveries, t \in 1 .. DeliveryTime : RetryRows!Schedule(d, t)
         \/ \E w \in Pollers :
              \/ RetryRows!CallPoll(w) \/ RetryRows!Snapshot(w)
              \/ RetryRows!LockDelivery(w) \/ RetryRows!FailDelivery(w)
         \/ RetryRows!Tick
  PROVE  RetryRowInv'
<1> USE RetryRowAssumption, NoteRowAssumption, NotificationAssumption DEF RetryRowInv
<1>1. ASSUME NEW d \in Deliveries, NEW t \in 1 .. DeliveryTime, RetryRows!Schedule(d, t)
      PROVE  RetryRowInv'
  <2> DEFINE row == [at |-> t, attempts |-> IF rowDelivery[d] = Null THEN 0 ELSE rowDelivery[d].attempts,
                     status |-> "pending"]
  <2>1. row \in RetryRows!Rows
    BY DEF RetryRows!TypeOK, RetryRows!Table, RetryRows!Rows
  <2>2. rowDelivery' = [rowDelivery EXCEPT ![d] = row]
    BY <1>1 DEF RetryRows!Schedule
  <2> HIDE DEF row
  <2>3. RetryRows!TypeOK' /\ DeliveriesAskedByNow' /\ SnapshotOfPoll'
    BY <1>1, <2>1, <2>2
    DEF RetryRows!Schedule, RetryRows!TypeOK, RetryRows!Table, DeliveriesAskedByNow, SnapshotOfPoll
  <2>4. LockedIsDue'
    BY <1>1, <2>2 DEF RetryRows!Schedule, RetryRows!TypeOK, RetryRows!Table, LockedIsDue
  <2>5. FailingIsUsedUp'
    BY <1>1, <2>2 DEF RetryRows!Schedule, RetryRows!TypeOK, RetryRows!Table, FailingIsUsedUp
  <2> QED
    BY <2>3, <2>4, <2>5
<1>2. ASSUME NEW w \in Pollers, RetryRows!CallPoll(w) PROVE RetryRowInv'
  BY <1>2 DEF RetryRows!CallPoll, RetryRows!TypeOK, DeliveriesAskedByNow, SnapshotOfPoll,
              LockedIsDue, FailingIsUsedUp
<1>3. ASSUME NEW w \in Pollers, RetryRows!Snapshot(w) PROVE RetryRowInv'
  BY <1>3 DEF RetryRows!Snapshot, RetryRows!TypeOK, DeliveriesAskedByNow, SnapshotOfPoll,
              LockedIsDue, FailingIsUsedUp
<1>4. ASSUME NEW w \in Pollers, RetryRows!LockDelivery(w) PROVE RetryRowInv'
  <2> PICK d \in RetryRows!Found(w) : deliveryLock' = [deliveryLock EXCEPT ![d] = w]
    BY <1>4 DEF RetryRows!LockDelivery
  <2>1. /\ d \in Deliveries /\ deliveryLock[d] = Null
        /\ rowDelivery[d] # Null /\ rowDelivery[d].status = "pending"
        /\ rowDelivery[d].at <= deliveryNow[w]
    BY DEF RetryRows!Found, RetryRows!FirstLockable, RetryRows!Lockable, RetryRows!Due
  <2>2. deliveryNow[w] # Null
    BY <1>4 DEF RetryRows!LockDelivery, SnapshotOfPoll
  <2>3. RetryRows!TypeOK' /\ DeliveriesAskedByNow' /\ SnapshotOfPoll'
    BY <1>4, <2>1 DEF RetryRows!LockDelivery, RetryRows!TypeOK, DeliveriesAskedByNow, SnapshotOfPoll
  <2>4. LockedIsDue'
    BY <1>4, <2>1, <2>2 DEF RetryRows!LockDelivery, RetryRows!TypeOK, LockedIsDue
  <2>5. FailingIsUsedUp'
    BY <1>4, <2>1 DEF RetryRows!LockDelivery, RetryRows!TypeOK, FailingIsUsedUp
  <2> QED
    BY <2>3, <2>4, <2>5
<1>5. ASSUME NEW w \in Pollers, RetryRows!FailDelivery(w) PROVE RetryRowInv'
  <2> PICK d \in RetryRows!Held(w) :
        /\ RetryRows!Exhausted(d)
        /\ failing' = [failing EXCEPT ![w] = @ \cup {d}]
    BY <1>5 DEF RetryRows!FailDelivery
  <2>1. d \in Deliveries /\ deliveryLock[d] = w /\ rowDelivery[d].attempts = RowRetries
    BY DEF RetryRows!Held, RetryRows!Exhausted
  <2>2. RetryRows!TypeOK' /\ DeliveriesAskedByNow' /\ SnapshotOfPoll' /\ LockedIsDue'
    BY <1>5, <2>1 DEF RetryRows!FailDelivery, RetryRows!TypeOK, DeliveriesAskedByNow,
                      SnapshotOfPoll, LockedIsDue
  <2>3. FailingIsUsedUp'
    BY <1>5, <2>1 DEF RetryRows!FailDelivery, RetryRows!TypeOK, FailingIsUsedUp
  <2> QED
    BY <2>2, <2>3
<1>6. CASE RetryRows!Tick
  BY <1>6 DEF RetryRows!Tick, RetryRows!TypeOK, DeliveriesAskedByNow, SnapshotOfPoll, LockedIsDue,
              FailingIsUsedUp
<1> QED
  BY <1>1, <1>2, <1>3, <1>4, <1>5, <1>6

\* What a commit writes: the rows it has marked are failed, and others are as they were.
LEMMA FailedRows ==
  ASSUME RetryRowInv, NEW w \in Pollers
  PROVE  /\ RetryRows!Failed(w) \in RetryRows!Table
         /\ \A d \in Deliveries :
              IF d \in failing[w]
              THEN /\ deliveryLock[d] = w /\ rowDelivery[d] # Null
                   /\ rowDelivery[d].status = "pending" /\ rowDelivery[d].attempts = RowRetries
                   /\ RetryRows!Failed(w)[d] = [rowDelivery[d] EXCEPT !.status = "failed"]
              ELSE RetryRows!Failed(w)[d] = rowDelivery[d]
<1> USE RetryRowAssumption, NoteRowAssumption DEF RetryRowInv
<1>1. ASSUME NEW d \in Deliveries, d \in failing[w]
      PROVE  /\ deliveryLock[d] = w /\ rowDelivery[d] # Null
             /\ rowDelivery[d].status = "pending" /\ rowDelivery[d].attempts = RowRetries
             /\ RetryRows!Failed(w)[d] = [rowDelivery[d] EXCEPT !.status = "failed"]
             /\ RetryRows!Failed(w)[d] \in RetryRows!Rows
  <2>1. deliveryLock[d] = w /\ rowDelivery[d].attempts = RowRetries
    BY <1>1 DEF FailingIsUsedUp
  <2>2. rowDelivery[d] # Null /\ rowDelivery[d].status = "pending"
    BY <2>1 DEF LockedIsDue
  <2>3. RetryRows!Failed(w)[d] = [rowDelivery[d] EXCEPT !.status = "failed"]
    BY <1>1 DEF RetryRows!Failed
  <2>4. rowDelivery[d] \in RetryRows!Rows
    BY <2>2 DEF RetryRows!TypeOK, RetryRows!Table
  <2> QED
    BY <2>1, <2>2, <2>3, <2>4 DEF RetryRows!Rows
<1>2. ASSUME NEW d \in Deliveries, d \notin failing[w]
      PROVE  RetryRows!Failed(w)[d] = rowDelivery[d] /\ rowDelivery[d] \in RetryRows!Rows \cup {Null}
  BY <1>2 DEF RetryRows!Failed, RetryRows!TypeOK, RetryRows!Table
<1>3. RetryRows!Failed(w) = [d \in Deliveries |-> RetryRows!Failed(w)[d]]
  BY DEF RetryRows!Failed
<1> QED
  BY <1>1, <1>2, <1>3 DEF RetryRows!Table

\* A commit that attempts the delivery d, which the poll held, and fails those it marked.
Delivered(w, d) ==
  /\ d \notin failing[w] /\ deliveryLock[d] = w /\ rowDelivery[d] # Null
  /\ rowDelivery[d].status = "pending" /\ rowDelivery[d].at <= deliveryClock
  /\ rowDelivery[d].attempts + 1 \in 0 .. RowRetries
  /\ rowDelivery'[d] = [rowDelivery[d] EXCEPT !.attempts = @ + 1, !.status = "running"]
  /\ \A x \in Deliveries : x # d => rowDelivery'[x] = RetryRows!Failed(w)[x]
  /\ rowDelivery' \in RetryRows!Table

LEMMA DeliveredRow ==
  ASSUME RetryRowInv, NEW w \in Pollers, RetryRows!PollDelivers(w)
  PROVE  \E d \in Deliveries : Delivered(w, d)
<1> USE RetryRowAssumption, NoteRowAssumption DEF RetryRowInv
<1> PICK d \in RetryRows!Held(w) :
      /\ ~RetryRows!Exhausted(d)
      /\ rowDelivery' = [RetryRows!Failed(w) EXCEPT ![d].attempts = @ + 1, ![d].status = "running"]
  BY DEF RetryRows!PollDelivers
<1>1. d \in Deliveries \ failing[w] /\ deliveryLock[d] = w
  BY DEF RetryRows!Held
<1>2. /\ deliveryNow[w] # Null /\ rowDelivery[d] # Null
      /\ rowDelivery[d].status = "pending" /\ rowDelivery[d].at <= deliveryNow[w]
  BY <1>1 DEF LockedIsDue
<1>3. rowDelivery[d] \in RetryRows!Rows
  BY <1>1, <1>2 DEF RetryRows!TypeOK, RetryRows!Table
<1>4. rowDelivery[d].at <= deliveryClock
  <2>1. deliveryNow[w] <= deliveryClock /\ deliveryNow[w] \in Int /\ deliveryClock \in Int
    BY <1>2 DEF DeliveriesAskedByNow, RetryRows!TypeOK
  <2>2. rowDelivery[d].at \in Int
    BY <1>3 DEF RetryRows!Rows
  <2> QED
    BY <1>2, <2>1, <2>2
<1>5. rowDelivery[d].attempts + 1 \in 0 .. RowRetries
  <2>1. rowDelivery[d].attempts \in 0 .. RowRetries /\ rowDelivery[d].attempts # RowRetries
    BY <1>3 DEF RetryRows!Rows, RetryRows!Exhausted
  <2> QED
    BY <2>1
<1>6. /\ RetryRows!Failed(w) \in RetryRows!Table
      /\ RetryRows!Failed(w)[d] = rowDelivery[d]
  BY <1>1, FailedRows
<1> DEFINE old == RetryRows!Failed(w)
<1>7. old \in RetryRows!Table /\ old[d] = rowDelivery[d]
  BY <1>6
<1>8. rowDelivery' = [old EXCEPT ![d].attempts = @ + 1, ![d].status = "running"]
  OBVIOUS
<1> HIDE DEF old
<1>9. /\ rowDelivery'[d] = [rowDelivery[d] EXCEPT !.attempts = @ + 1, !.status = "running"]
      /\ \A x \in Deliveries : x # d => rowDelivery'[x] = old[x]
  BY <1>1, <1>7, <1>8, <1>3 DEF RetryRows!Table, RetryRows!Rows
<1>10. rowDelivery'[d] \in RetryRows!Rows
  <2> DEFINE row == rowDelivery[d]
  <2>1. row \in RetryRows!Rows /\ row.attempts + 1 \in 0 .. RowRetries
    BY <1>3, <1>5
  <2> HIDE DEF row
  <2>2. [row EXCEPT !.attempts = @ + 1, !.status = "running"] \in RetryRows!Rows
    BY <2>1 DEF RetryRows!Rows
  <2> QED
    BY <1>9, <2>2 DEF row
<1>11. rowDelivery' \in RetryRows!Table
  BY <1>1, <1>7, <1>8, <1>9, <1>10 DEF RetryRows!Table
<1> QED
  BY <1>1, <1>2, <1>4, <1>5, <1>9, <1>11 DEF old, Delivered

LEMMA RetryRowsEnd ==
  ASSUME RetryRowInv, NEW w \in Pollers,
         RetryRows!PollDelivers(w) \/ RetryRows!PollNone(w) \/ RetryRows!LoseConnection(w)
  PROVE  RetryRowInv'
<1>1. CASE RetryRows!PollDelivers(w)
  <2>1. RetryRows!Finish(w)
    BY <1>1 DEF RetryRows!PollDelivers
  <2> PICK x \in Deliveries : Delivered(w, x)
    BY <1>1, DeliveredRow
  <2>2. rowDelivery' \in RetryRows!Table
    BY DEF Delivered
  <2>3. ASSUME NEW d \in Deliveries, deliveryLock[d] # w PROVE rowDelivery'[d] = rowDelivery[d]
    <3>1. d # x /\ rowDelivery'[d] = RetryRows!Failed(w)[d]
      BY <2>3 DEF Delivered
    <3> QED
      BY <2>3, <3>1, FailedRows
  <2> QED
    BY <2>1, <2>2, <2>3, PollFinishes
<1>2. CASE RetryRows!PollNone(w)
  BY <1>2, FailedRows, PollFinishes DEF RetryRows!PollNone
<1>3. CASE RetryRows!LoseConnection(w)
  BY <1>3, PollFinishes DEF RetryRows!LoseConnection, RetryRowInv, RetryRows!TypeOK
<1> QED
  BY <1>1, <1>2, <1>3

LEMMA RetryRowStep == RetryRowInv /\ [RetryRows!Next]_mcRetryRowVars => RetryRowInv'
<1> SUFFICES ASSUME RetryRowInv, [RetryRows!Next]_mcRetryRowVars PROVE RetryRowInv'
  OBVIOUS
<1>1. CASE RetryRows!Next
  BY <1>1, RetryRowsArrive, RetryRowsEnd DEF RetryRows!Next, RetryRows!PollDue
<1>2. CASE UNCHANGED mcRetryRowVars
  BY <1>2 DEF mcRetryRowVars, RetryRowInv, RetryRows!TypeOK, DeliveriesAskedByNow, SnapshotOfPoll,
              LockedIsDue, FailingIsUsedUp
<1> QED
  BY <1>1, <1>2

AttemptedOrFailed(d) ==
  rowDelivery[d] # Null =>
    /\ rowDelivery'[d].attempts # rowDelivery[d].attempts =>
         /\ rowDelivery[d].status = "pending" /\ rowDelivery[d].at <= deliveryClock
         /\ rowDelivery'[d] = [rowDelivery[d] EXCEPT !.attempts = @ + 1, !.status = "running"]
         /\ rowDelivery'[d].attempts <= RowRetries
    /\ rowDelivery'[d].status = "failed" /\ rowDelivery[d].status # "failed" =>
         rowDelivery[d].status = "pending" /\ rowDelivery[d].attempts = RowRetries

\* A row that a poll has not delivered is as it was, or is failed.
LEMMA FailedOnlyUsedUp ==
  ASSUME RetryRowInv, NEW w \in Pollers, NEW d \in Deliveries,
         rowDelivery'[d] = RetryRows!Failed(w)[d]
  PROVE  AttemptedOrFailed(d)
<1> SUFFICES ASSUME rowDelivery[d] # Null PROVE AttemptedOrFailed(d)
  BY DEF AttemptedOrFailed
<1>1. rowDelivery[d] \in RetryRows!Rows
  BY DEF RetryRowInv, RetryRows!TypeOK, RetryRows!Table
<1>2. CASE d \in failing[w]
  <2>1. /\ rowDelivery[d].status = "pending" /\ rowDelivery[d].attempts = RowRetries
        /\ rowDelivery'[d] = [rowDelivery[d] EXCEPT !.status = "failed"]
    BY <1>2, FailedRows
  <2>2. rowDelivery'[d].attempts = rowDelivery[d].attempts
    BY <1>1, <2>1 DEF RetryRows!Rows
  <2> QED
    BY <2>1, <2>2 DEF AttemptedOrFailed
<1>3. CASE d \notin failing[w]
  BY <1>3, FailedRows DEF AttemptedOrFailed
<1> QED
  BY <1>2, <1>3

LEMMA RetryRowSteps ==
  RetryRowInv /\ [RetryRows!Next]_mcRetryRowVars =>
    [\A d \in Deliveries : AttemptedOrFailed(d)]_mcRetryRowVars
<1> SUFFICES ASSUME RetryRowInv, RetryRows!Next, NEW d \in Deliveries PROVE AttemptedOrFailed(d)
  OBVIOUS
<1> USE RetryRowAssumption, NoteRowAssumption
<1>1. ASSUME NEW x \in Deliveries, NEW t \in 1 .. DeliveryTime, RetryRows!Schedule(x, t)
      PROVE  AttemptedOrFailed(d)
  BY <1>1 DEF RetryRows!Schedule, RetryRowInv, RetryRows!TypeOK, RetryRows!Table, AttemptedOrFailed
<1>2. ASSUME rowDelivery' = rowDelivery PROVE AttemptedOrFailed(d)
  BY <1>2 DEF AttemptedOrFailed
<1>3. ASSUME NEW w \in Pollers, RetryRows!PollDelivers(w) PROVE AttemptedOrFailed(d)
  <2> PICK x \in Deliveries : Delivered(w, x)
    BY <1>3, DeliveredRow
  <2>1. CASE d = x
    <3>1. rowDelivery[x] \in RetryRows!Rows
      BY DEF RetryRowInv, RetryRows!TypeOK, RetryRows!Table, Delivered
    <3>2. rowDelivery'[x].attempts <= RowRetries /\ rowDelivery'[x].status = "running"
      BY <3>1 DEF RetryRows!Rows, Delivered
    <3> QED
      BY <2>1, <3>2 DEF AttemptedOrFailed, Delivered
  <2>2. CASE d # x
    BY <2>2, FailedOnlyUsedUp DEF Delivered
  <2> QED
    BY <2>1, <2>2
<1>4. ASSUME NEW w \in Pollers, RetryRows!PollNone(w) PROVE AttemptedOrFailed(d)
  BY <1>4, FailedOnlyUsedUp DEF RetryRows!PollNone
<1>5. ASSUME NEW w \in Pollers,
             \/ RetryRows!CallPoll(w) \/ RetryRows!Snapshot(w) \/ RetryRows!LockDelivery(w)
             \/ RetryRows!FailDelivery(w) \/ RetryRows!LoseConnection(w)
      PROVE  rowDelivery' = rowDelivery
  BY <1>5 DEF RetryRows!CallPoll, RetryRows!Snapshot, RetryRows!LockDelivery,
              RetryRows!FailDelivery, RetryRows!LoseConnection
<1>6. RetryRows!Tick => rowDelivery' = rowDelivery
  BY DEF RetryRows!Tick
<1> QED
  BY <1>1, <1>2, <1>3, <1>4, <1>5, <1>6 DEF RetryRows!Next, RetryRows!PollDue

--------------------------------------------------------------------------------
(* Jobs.  What RunningUnderLock says of the locks is inductive with the    *)
(* types: a job starts under a lock that is free, and its status is looked *)
(* at again there.                                                         *)
JobInv == Job!TypeOK /\ Job!RunningUnderLock

\* Of the jobs that a thread has yet to look at or execute one is the first.
LEMMA FirstJob ==
  ASSUME NEW S \in SUBSET Job!Jobs, S # {}
  PROVE  Job!Min(S) \in S
<1>1. S \subseteq Nat
  BY JobAssumption DEF Job!Jobs
<1>2. IsWellFoundedOn({p \in Nat \X Nat : p[1] < p[2]}, Nat)
  BY NatLessThanWellFounded, Zenon DEF OpToRel
<1>3. \E x \in S : \A y \in S : <<y, x>> \notin {p \in Nat \X Nat : p[1] < p[2]}
  BY <1>1, <1>2, WFMin
<1>4. \E x \in S : \A y \in S : ~(y < x)
  BY <1>1, <1>3
<1>5. \E x \in S : \A y \in S : x <= y
  BY <1>1, <1>4
<1> QED
  BY <1>5 DEF Job!Min

LEMMA JobInit == Job!Init => JobInv
<1> SUFFICES ASSUME Job!Init PROVE JobInv
  OBVIOUS
<1>1. Job!TypeOK
  BY JobAssumption DEF Job!Init, Job!TypeOK
<1>2. Job!RunningUnderLock
  BY DEF Job!Init, Job!RunningUnderLock
<1> QED
  BY <1>1, <1>2 DEF JobInv

LEMMA JobTypes ==
  ASSUME JobInv, [Job!Next]_mcJobVars
  PROVE  Job!TypeOK'
<1> USE DEF JobInv, Job!TypeOK
<1>1. ASSUME NEW at \in 1 .. JobTime, Job!ScheduleJob(at) PROVE Job!TypeOK'
  BY <1>1, JobAssumption DEF Job!ScheduleJob, Job!Jobs
<1>2. ASSUME NEW j \in Job!Jobs, Job!CancelJob(j) PROVE Job!TypeOK'
  BY <1>2 DEF Job!CancelJob
<1>3. ASSUME NEW t \in Pollers, Job!CallProcess(t) PROVE Job!TypeOK'
  BY <1>3 DEF Job!CallProcess, Job!Scheduled
<1>4. ASSUME NEW t \in Pollers, Job!LookAtJob(t) PROVE Job!TypeOK'
  <2>1. Job!Min(todo[t]) \in Job!Jobs
    BY <1>4, FirstJob DEF Job!LookAtJob
  <2> QED
    BY <1>4, <2>1 DEF Job!LookAtJob
<1>5. ASSUME NEW t \in Pollers, Job!StartJob(t) \/ Job!SkipJob(t) PROVE Job!TypeOK'
  BY <1>5 DEF Job!StartJob, Job!SkipJob
<1>6. ASSUME NEW t \in Pollers, Job!FinishJob(t) \/ Job!RaiseFromJob(t) PROVE Job!TypeOK'
  BY <1>6 DEF Job!FinishJob, Job!RaiseFromJob
<1>7. CASE Job!Tick
  <2>1. jobClock' \in 1 .. JobTime
    BY <1>7, JobAssumption DEF Job!Tick
  <2> QED
    BY <1>7, <2>1 DEF Job!Tick
<1>8. CASE UNCHANGED mcJobVars
  BY <1>8 DEF mcJobVars
<1> QED
  BY <1>1, <1>2, <1>3, <1>4, <1>5, <1>6, <1>7, <1>8 DEF Job!Next, Job!InCall

LEMMA JobLocks ==
  ASSUME JobInv, [Job!Next]_mcJobVars
  PROVE  Job!RunningUnderLock'
<1> USE DEF JobInv, Job!TypeOK, Job!RunningUnderLock, Job!LockFree
<1>1. ASSUME NEW at \in 1 .. JobTime, Job!ScheduleJob(at) PROVE Job!RunningUnderLock'
  BY <1>1 DEF Job!ScheduleJob, Job!Scheduled
<1>2. ASSUME NEW j \in Job!Jobs, Job!CancelJob(j) PROVE Job!RunningUnderLock'
  BY <1>2 DEF Job!CancelJob
<1>3. ASSUME UNCHANGED <<jobStatus, body, running>> PROVE Job!RunningUnderLock'
  BY <1>3
<1>4. ASSUME NEW t \in Pollers, Job!StartJob(t) PROVE Job!RunningUnderLock'
  <2>1. PICK j \in Job!Jobs : /\ running[t] = Null /\ \A u \in Pollers : running[u] # j
                              /\ jobStatus' = [jobStatus EXCEPT ![j] = "RUNNING"]
                              /\ running' = [running EXCEPT ![t] = j] /\ body' = body
    BY <1>4 DEF Job!StartJob, Job!CanExecute
  <2> QED
    BY <2>1, JobAssumption DEF Job!Jobs
<1>5. ASSUME NEW t \in Pollers, Job!FinishJob(t) PROVE Job!RunningUnderLock'
  BY <1>5 DEF Job!FinishJob
<1>6. ASSUME NEW t \in Pollers, Job!RaiseFromJob(t) PROVE Job!RunningUnderLock'
  BY <1>6 DEF Job!RaiseFromJob
<1> QED
  BY <1>1, <1>2, <1>3, <1>4, <1>5, <1>6
  DEF Job!Next, Job!InCall, Job!CallProcess, Job!LookAtJob, Job!SkipJob, Job!Tick, mcJobVars

LEMMA JobStep == JobInv /\ [Job!Next]_mcJobVars => JobInv'
  BY JobTypes, JobLocks DEF JobInv

\* What became of a job is final.
LEMMA JobsAdvance ==
  ASSUME JobInv, [Job!Next]_mcJobVars, NEW j \in Job!Jobs, jobStatus'[j] # jobStatus[j]
  PROVE  \/ jobStatus[j] \in {"NONE", "PENDING"}
         \/ jobStatus[j] = "RUNNING" /\ jobStatus'[j] \in {"SUCCEEDED", "FAILED"}
<1> USE DEF JobInv, Job!TypeOK
<1>1. ASSUME NEW at \in 1 .. JobTime, Job!ScheduleJob(at) PROVE jobStatus[j] = "NONE"
  BY <1>1 DEF Job!ScheduleJob, Job!Scheduled
<1>2. ASSUME NEW i \in Job!Jobs, Job!CancelJob(i) PROVE jobStatus[j] = "PENDING"
  BY <1>2 DEF Job!CancelJob
<1>3. ASSUME NEW t \in Pollers, Job!StartJob(t) PROVE jobStatus[j] = "PENDING"
  BY <1>3 DEF Job!StartJob
<1>4. ASSUME NEW t \in Pollers, Job!FinishJob(t)
      PROVE  jobStatus[j] = "RUNNING" /\ jobStatus'[j] \in {"SUCCEEDED", "FAILED"}
  BY <1>4 DEF Job!FinishJob, Job!RunningUnderLock
<1> QED
  BY <1>1, <1>2, <1>3, <1>4
  DEF Job!Next, Job!InCall, Job!CallProcess, Job!LookAtJob, Job!SkipJob, Job!RaiseFromJob, Job!Tick, mcJobVars

--------------------------------------------------------------------------------
(* Subscriptions.  That the index holds live ones is inductive with one    *)
(* fact more: a cancel that is on its way is of a subscription that        *)
(* exists, so none is on its way for an id that is yet to be made.         *)

\* A cancel that has passed its checks is of a subscription that exists.
CancelsExisting == \A t \in Pollers : cancelling[t] # Null => owner[cancelling[t]] # Null

SubsInv == Sub!TypeOK /\ Sub!IndexHoldsLive /\ CancelsExisting

LEMMA SubsInit == Sub!Init => SubsInv
  BY SubscriptionAssumption DEF Sub!Init, SubsInv, Sub!TypeOK, Sub!IndexHoldsLive, CancelsExisting

\* A new subscription is in no index and in no cancel before it is entered.
LEMMA CreateSound ==
  ASSUME SubsInv, NEW t \in Pollers, NEW u \in Users, NEW s \in Subscriptions,
         Sub!CreateSubscription(t, u, s)
  PROVE  SubsInv'
<1>0. u # Null /\ s # Null
  BY SubscriptionAssumption
<1>1. Sub!TypeOK'
  BY DEF SubsInv, Sub!TypeOK, Sub!CreateSubscription
<1>2. Sub!IndexHoldsLive'
  <2> SUFFICES ASSUME NEW v \in Users, active'[v] # Null
               PROVE  /\ owner'[active'[v]] = v
                      /\ subStatus'[active'[v]] = "active"
                      /\ \A p \in Pollers : cancelling'[p] # active'[v]
    BY DEF Sub!IndexHoldsLive
  <2>1. CASE v = u
    <3>1. active'[v] = s /\ owner'[s] = u /\ subStatus'[s] = "active"
      BY <2>1 DEF Sub!CreateSubscription, SubsInv, Sub!TypeOK
    <3>2. \A p \in Pollers : cancelling[p] # s
      BY <1>0 DEF Sub!CreateSubscription, SubsInv, CancelsExisting
    <3> QED
      BY <2>1, <3>1, <3>2 DEF Sub!CreateSubscription
  <2>2. CASE v # u
    <3>1. active'[v] = active[v] /\ active[v] \in Subscriptions
      BY <2>2 DEF Sub!CreateSubscription, SubsInv, Sub!TypeOK
    <3>2. owner[active[v]] = v /\ v # Null
      BY <3>1, SubscriptionAssumption DEF SubsInv, Sub!IndexHoldsLive
    <3>3. active[v] # s
      BY <3>2 DEF Sub!CreateSubscription
    <3> QED
      BY <3>1, <3>2, <3>3 DEF Sub!CreateSubscription, SubsInv, Sub!TypeOK, Sub!IndexHoldsLive
  <2> QED
    BY <2>1, <2>2
<1>3. CancelsExisting'
  BY <1>0 DEF Sub!CreateSubscription, SubsInv, Sub!TypeOK, CancelsExisting
<1> QED
  BY <1>1, <1>2, <1>3 DEF SubsInv

\* Whoever cancels s clears the index of the owner of s, so no index holds s then.
LEMMA CancelIndexSound ==
  ASSUME SubsInv, NEW t \in Pollers, NEW u \in Users, NEW s \in Subscriptions,
         Sub!CancelIndex(t, s, u)
  PROVE  SubsInv'
<1>1. Sub!TypeOK'
  BY DEF SubsInv, Sub!TypeOK, Sub!CancelIndex
<1>2. owner[s] = u
  BY DEF Sub!CancelIndex, SubsInv, Sub!IndexHoldsLive
<1>3. Sub!IndexHoldsLive'
  <2> SUFFICES ASSUME NEW v \in Users, active'[v] # Null
               PROVE  /\ owner'[active'[v]] = v
                      /\ subStatus'[active'[v]] = "active"
                      /\ \A p \in Pollers : cancelling'[p] # active'[v]
    BY DEF Sub!IndexHoldsLive
  <2>1. v # u /\ active'[v] = active[v]
    BY DEF Sub!CancelIndex, SubsInv, Sub!TypeOK
  <2>2. owner[active[v]] = v /\ active[v] # s
    BY <1>2, <2>1 DEF SubsInv, Sub!IndexHoldsLive
  <2> QED
    BY <2>1, <2>2 DEF Sub!CancelIndex, SubsInv, Sub!TypeOK, Sub!IndexHoldsLive
<1>4. CancelsExisting'
  BY DEF Sub!CancelIndex, SubsInv, Sub!TypeOK, CancelsExisting
<1> QED
  BY <1>1, <1>3, <1>4 DEF SubsInv

LEMMA CancelStatusSound ==
  ASSUME SubsInv, NEW t \in Pollers, Sub!CancelStatus(t)
  PROVE  SubsInv'
<1>1. cancelling[t] \in Subscriptions
  BY DEF Sub!CancelStatus, Sub!Idle, SubsInv, Sub!TypeOK
<1>2. Sub!TypeOK'
  BY <1>1 DEF SubsInv, Sub!TypeOK, Sub!CancelStatus
<1>3. Sub!IndexHoldsLive'
  <2> SUFFICES ASSUME NEW v \in Users, active[v] # Null
               PROVE  /\ owner[active[v]] = v
                      /\ subStatus'[active[v]] = "active"
                      /\ \A p \in Pollers : cancelling'[p] # active[v]
    BY DEF Sub!IndexHoldsLive, Sub!CancelStatus
  <2>1. active[v] # cancelling[t] /\ active[v] \in Subscriptions
    BY DEF SubsInv, Sub!TypeOK, Sub!IndexHoldsLive
  <2> QED
    BY <2>1 DEF Sub!CancelStatus, SubsInv, Sub!TypeOK, Sub!IndexHoldsLive
<1>4. CancelsExisting'
  BY DEF Sub!CancelStatus, SubsInv, Sub!TypeOK, CancelsExisting
<1> QED
  BY <1>2, <1>3, <1>4 DEF SubsInv

LEMMA SubsStep == SubsInv /\ [Sub!Next]_mcSubVars => SubsInv'
<1> SUFFICES ASSUME SubsInv, [Sub!Next]_mcSubVars PROVE SubsInv'
  OBVIOUS
<1>1. ASSUME NEW t \in Pollers, NEW u \in Users, NEW s \in Subscriptions,
             Sub!CreateSubscription(t, u, s)
      PROVE  SubsInv'
  BY <1>1, CreateSound
<1>2. ASSUME NEW t \in Pollers, NEW u \in Users, NEW s \in Subscriptions, Sub!CancelIndex(t, s, u)
      PROVE  SubsInv'
  BY <1>2, CancelIndexSound
<1>3. ASSUME NEW t \in Pollers, Sub!CancelStatus(t) PROVE SubsInv'
  BY <1>3, CancelStatusSound
<1>4. CASE UNCHANGED mcSubVars
  BY <1>4 DEF mcSubVars, SubsInv, Sub!TypeOK, Sub!IndexHoldsLive, CancelsExisting
<1> QED
  BY <1>1, <1>2, <1>3, <1>4 DEF Sub!Next

--------------------------------------------------------------------------------
(* The four together: a behaviour of MCTimers is one of one of them.       *)

TimersInv == NoteInv /\ RetryInv /\ NoteRowInv /\ RetryRowInv /\ JobInv /\ SubsInv

LEMMA StepsOfTimers ==
  [MCNext]_timersVars =>
    /\ [Next]_noteVars /\ [Retry!Next]_mcRetryVars
    /\ [NoteRows!Next]_mcNoteRowVars /\ [RetryRows!Next]_mcRetryRowVars
    /\ [Job!Next]_mcJobVars /\ [Sub!Next]_mcSubVars
  BY DEF MCNext, timersVars

LEMMA TimersInit == MCInit => TimersInv
  BY NoteInit, RetryInit, NoteRowInit, RetryRowInit, JobInit, SubsInit DEF MCInit, TimersInv

LEMMA TimersStep == TimersInv /\ [MCNext]_timersVars => TimersInv'
  BY StepsOfTimers, NoteStep, RetryStep, NoteRowStep, RetryRowStep, JobStep, SubsStep DEF TimersInv

LEMMA TimersSound == MCSpec => []TimersInv
  BY TimersInit, TimersStep, PTL DEF MCSpec, timersVars

\* The variables of all four keep their types: no delivery is attempted beyond its
\* retries, and no transaction is of a connection that does not exist.
THEOREM TimerTypesCorrect == MCSpec => []TimerTypes
<1>1. TimersInv => TimerTypes
  BY DEF TimersInv, NoteInv, RetryInv, NoteRowInv, RetryRowInv, JobInv, SubsInv, TimerTypes
<1> QED
  BY <1>1, TimersSound, PTL

\* Nothing that was scheduled leaves a heap before it is handed out or failed, except a
\* notification that a poll pops behind canceled ones before it is due.
THEOREM NothingScheduledIsLost == MCSpec => ScheduledIsQueued
<1>1. TimersInv => Retry!ScheduledIsQueued
  BY DEF TimersInv, RetryInv
<1>2. TimersInv /\ [MCNext]_timersVars => [DroppedByGivingUp]_noteVars
  BY StepsOfTimers, NoteSteps DEF TimersInv
<1> QED
  BY <1>1, <1>2, TimersSound, PTL
  DEF MCSpec, timersVars, ScheduledIsQueued, DroppedBehindCanceled, DroppedByGivingUp

\* A notification is handed out once and when it is due, in memory in the order of the
\* heap, and neither it nor a cancel is taken back, whoever polls and cancels at once.
THEOREM NotificationsHandedOutOnce == MCSpec => HandedOutOnce
<1>1. TimersInv /\ [MCNext]_timersVars => [HandedOutInTurn]_noteVars
  BY StepsOfTimers, NoteSteps DEF TimersInv
<1>2. TimersInv /\ [MCNext]_timersVars => [RowsHandedOut]_mcNoteRowVars
  BY StepsOfTimers, NoteRowSteps DEF TimersInv
<1> QED
  BY <1>1, <1>2, TimersSound, PTL
  DEF MCSpec, timersVars, HandedOutOnce, DeliveredOnceAndDue, NoteRows!DeliveredOnceAndDue,
      HandedOutInTurn, RowsHandedOut, mcNoteRowVars, NoteRows!noteRowVars

\* A delivery is attempted only while it is pending and at its latest time, once for
\* each attempt counted and never beyond its retries; one that is failed is used up.
THEOREM RetriesAttemptedWhenDue == MCSpec => AttemptedWhenDue
<1>1. TimersInv /\ [MCNext]_timersVars => [RetriedWhenDue]_mcRetryVars
  BY StepsOfTimers, RetrySteps DEF TimersInv
<1>2. TimersInv /\ [MCNext]_timersVars => [\A d \in Deliveries : AttemptedOrFailed(d)]_mcRetryRowVars
  BY StepsOfTimers, RetryRowSteps DEF TimersInv
<1> QED
  BY <1>1, <1>2, TimersSound, PTL
  DEF MCSpec, timersVars, AttemptedWhenDue, Retry!AttemptedWhenDue, RetryRows!AttemptedWhenDue,
      RetriedWhenDue, AttemptedOrFailed, mcRetryVars, mcRetryRowVars, Retry!retryVars,
      RetryRows!retryRowVars

\* What the index holds for a user is an active subscription of that user which no
\* cancel is about to write, whatever runs between the two sections of a cancel.
THEOREM CancelsKeepIndex == MCSpec => []IndexHoldsLive
<1>1. TimersInv => IndexHoldsLive
  BY DEF TimersInv, SubsInv, IndexHoldsLive
<1> QED
  BY <1>1, TimersSound, PTL

\* A job is executed by one thread at a time, under its lock; it runs once, never after a
\* cancel, and what became of it is final, though overlapping calls of process_due_jobs
\* find the same jobs due; only a body that raised leaves it RUNNING.
THEOREM JobsRunOnce == MCSpec => RunsOnceUnderLock
<1> DEFINE Advance ==
      \A j \in Job!Jobs : jobStatus'[j] # jobStatus[j] =>
        \/ jobStatus[j] \in {"NONE", "PENDING"}
        \/ jobStatus[j] = "RUNNING" /\ jobStatus'[j] \in {"SUCCEEDED", "FAILED"}
<1>1. TimersInv /\ [MCNext]_timersVars => [Advance]_mcJobVars
  BY StepsOfTimers, JobsAdvance DEF TimersInv
<1>2. TimersInv => Job!RunningUnderLock
  BY DEF TimersInv, JobInv
<1> QED
  BY <1>1, <1>2, TimersSound, PTL
  DEF MCSpec, timersVars, RunsOnceUnderLock, Job!RunsOnce, mcJobVars, Job!jobVars
===================================================================================
