--------------------------------- MODULE MCTimers ---------------------------------
(***************************************************************************)
(* Instances of the services that hand out or execute entries at their     *)
(* time, in memory (ScheduledNotificationService, RetryQueue, JobManager)  *)
(* and over rows (NotificationRows, RetryRows), and of the other service   *)
(* in which a cancel meets calls at work on the same thing                 *)
(* (SubscriptionService).  They share no state, so a behaviour runs one of *)
(* them, its subject; the others stay as they began.                       *)
(***************************************************************************)
EXTENDS ScheduledNotificationService, TLC

CONSTANTS
  Subjects,  \* of "notifications", "retries", "notification rows", "retry rows",
             \* "jobs" and "subscriptions"
  Deliveries, MAX_RETRIES, MaxEntries, RetryTime,
  RowNotes, RowTime, MaxSchedules, RowRetries, DeliveryTime,
  MaxJobs, JobTime,
  Users, Subscriptions

VARIABLES
  subject,
  delivery, entries, count, retryClock, retryNow,
  rowStatus, rowDue, rowLock, rowClock, rowNow, rowSeen, canceling,
  rowDelivery, deliveryLock, failing, deliveryClock, deliveryNow, deliverySeen, schedules,
  jobStatus, runAt, body, jobClock, todo, jobsDue, running,
  owner, subStatus, active, cancelling

Retry == INSTANCE RetryQueue WITH
  Workers <- Pollers, MaxTime <- RetryTime, clock <- retryClock, now <- retryNow

NoteRows == INSTANCE NotificationRows WITH
  Notes <- RowNotes, MaxTime <- RowTime,
  status <- rowStatus, due <- rowDue, lock <- rowLock, clock <- rowClock, now <- rowNow,
  seen <- rowSeen

RetryRows == INSTANCE RetryRows WITH
  Workers <- Pollers, MaxTime <- DeliveryTime, MAX_RETRIES <- RowRetries,
  delivery <- rowDelivery, lock <- deliveryLock, clock <- deliveryClock, now <- deliveryNow,
  seen <- deliverySeen

Job == INSTANCE JobManager WITH
  Threads <- Pollers, MaxTime <- JobTime, status <- jobStatus, clock <- jobClock, due <- jobsDue

Sub == INSTANCE SubscriptionService WITH Threads <- Pollers, status <- subStatus

\* The clocks start at 1, and Null is no poller, no row and no time.
ASSUME RetryAssumption == MAX_RETRIES \in Nat /\ MaxEntries \in Nat /\ RetryTime \in Nat \ {0}
ASSUME NoteRowAssumption == RowTime \in Nat \ {0} /\ Null \notin RowNotes /\ Null \notin Pollers
ASSUME RetryRowAssumption ==
  /\ RowRetries \in Nat /\ MaxSchedules \in Nat /\ DeliveryTime \in Nat \ {0}
  /\ Null \notin RetryRows!Rows
ASSUME JobAssumption == MaxJobs \in Nat /\ JobTime \in Nat \ {0} /\ Null \notin 1 .. MaxJobs
ASSUME SubscriptionAssumption == Null \notin Users /\ Null \notin Subscriptions

mcRetryVars == <<delivery, entries, count, retryClock, retryNow>>
mcNoteRowVars == <<rowStatus, rowDue, rowLock, rowClock, rowNow, rowSeen, canceling>>
mcRetryRowVars ==
  <<rowDelivery, deliveryLock, failing, deliveryClock, deliveryNow, deliverySeen, schedules>>
mcJobVars == <<jobStatus, runAt, body, jobClock, todo, jobsDue, running>>
mcSubVars == <<owner, subStatus, active, cancelling>>

MCInit ==
  /\ subject \in Subjects
  /\ Init /\ Retry!Init /\ NoteRows!Init /\ RetryRows!Init /\ Job!Init /\ Sub!Init
  /\ subject = "jobs" \/ body = [j \in Job!Jobs |-> "succeeds"]

MCNext ==
  /\ UNCHANGED subject
  /\ \/ /\ subject = "notifications" /\ Next
        /\ UNCHANGED <<mcRetryVars, mcNoteRowVars, mcRetryRowVars, mcJobVars, mcSubVars>>
     \/ /\ subject = "retries" /\ Retry!Next
        /\ UNCHANGED <<noteVars, mcNoteRowVars, mcRetryRowVars, mcJobVars, mcSubVars>>
     \/ /\ subject = "notification rows" /\ NoteRows!Next
        /\ UNCHANGED <<noteVars, mcRetryVars, mcRetryRowVars, mcJobVars, mcSubVars>>
     \/ /\ subject = "retry rows" /\ RetryRows!Next
        /\ UNCHANGED <<noteVars, mcRetryVars, mcNoteRowVars, mcJobVars, mcSubVars>>
     \/ /\ subject = "jobs" /\ Job!Next
        /\ UNCHANGED <<noteVars, mcRetryVars, mcNoteRowVars, mcRetryRowVars, mcSubVars>>
     \/ /\ subject = "subscriptions" /\ Sub!Next
        /\ UNCHANGED <<noteVars, mcRetryVars, mcNoteRowVars, mcRetryRowVars, mcJobVars>>

timersVars ==
  <<subject, noteVars, mcRetryVars, mcNoteRowVars, mcRetryRowVars, mcJobVars, mcSubVars>>

MCSpec ==
  /\ MCInit /\ [][MCNext]_timersVars
  /\ \A p \in Pollers :
       /\ WF_noteVars(InCall(p))
       /\ WF_mcNoteRowVars(NoteRows!GetNextDue(p))
       /\ WF_mcRetryRowVars(RetryRows!PollDue(p))
       /\ WF_mcJobVars(Job!InCall(p))
       /\ WF_mcSubVars(Sub!CancelStatus(p))

--------------------------------------------------------------------------------
\* The types of the six.
TimerTypes ==
  /\ TypeOK /\ Retry!TypeOK /\ NoteRows!TypeOK /\ RetryRows!TypeOK /\ Job!TypeOK /\ Sub!TypeOK

\* Nothing that was scheduled is lost before it is handed out: no retry, and a
\* notification in the one way only that get_next_due loses it, behind a canceled one.
ScheduledIsQueued == []Retry!ScheduledIsQueued /\ DroppedBehindCanceled

\* A notification is handed out at most once, when it is due, and never after a cancel
\* of it has come back.
HandedOutOnce == DeliveredOnceAndDue /\ NoteRows!DeliveredOnceAndDue

\* A retry is attempted at its latest time, never once it is canceled, and at most
\* MAX_RETRIES times; in the rows once for each time it is scheduled.
AttemptedWhenDue == Retry!AttemptedWhenDue /\ RetryRows!AttemptedWhenDue

\* A poll goes round behind canceled and exhausted entries, and ends.
PollsEnd == PollLoopEnds /\ NoteRows!PollEnds /\ RetryRows!PollEnds

\* A job is executed by one thread, under its lock, once, and never after it was
\* canceled; one that nobody executes shows as RUNNING only when its body raised.
RunsOnceUnderLock == []Job!RunningUnderLock /\ Job!RunsOnce

\* The index holds for each user a live subscription, and no cancel that has passed its
\* checks is still to write it.
IndexHoldsLive == Sub!IndexHoldsLive

\* What was accepted is done: a cancelled subscription becomes cancelled, and every
\* call of process_due_jobs ends, also behind the lock of a job that raises.
AcceptedIsDone == Sub!CancelTakesEffect /\ Job!EveryCallEnds

\* feedback/kata-010.md:3, "one-active-subscription-per-user invariant": with no
\* cancel under way, no user has two active subscriptions.
OneActivePerUser == Sub!OneActivePerUser
===================================================================================
