---------------------- MODULE ScheduledNotificationService ----------------------
(***************************************************************************)
(* src/kata-013-focused, in memory: notifications wait in a heap ordered   *)
(* by due time and order of arrival.  get_next_due pops under the service  *)
(* lock and claims each candidate under its own status lock;               *)
(* cancelling takes only that lock and leaves the entry in the heap.  The  *)
(* heap's keys are frozen and distinct, so it is the set of its entries.   *)
(***************************************************************************)
EXTENDS Integers

CONSTANTS
  Pollers,    \* threads that call get_next_due
  MaxNotes,   \* bound on the notifications scheduled
  MaxTime,    \* bound on the clock
  Null

ASSUME NotificationAssumption == MaxNotes \in Nat /\ MaxTime \in Nat \ {0} /\ Null \notin Int

Notes == 1 .. MaxNotes   \* named by their tiebreak counter

VARIABLES
  status, due,  \* status and due_at of each notification
  queue,        \* _ordered_scheduled_notifications
  clock,
  now,          \* now[p]: the time poller p asks about, Null outside a call
  candidate     \* candidate[p]: what p, holding the lock, has popped, or Null

noteVars == <<status, due, queue, clock, now, candidate>>

TypeOK ==
  /\ status \in [Notes -> {"none", "pending", "canceled", "running"}]
  /\ due \in [Notes -> 0 .. MaxTime]
  /\ queue \in SUBSET Notes
  /\ clock \in 1 .. MaxTime
  /\ now \in [Pollers -> (1 .. MaxTime) \cup {Null}]
  /\ candidate \in [Pollers -> Notes \cup {Null}]

Init ==
  /\ status = [n \in Notes |-> "none"]
  /\ due = [n \in Notes |-> 0]
  /\ queue = {}
  /\ clock = 1
  /\ now = [p \in Pollers |-> Null]
  /\ candidate = [p \in Pollers |-> Null]

LockFree == \A p \in Pollers : candidate[p] = Null

Before(m, n) == due[m] < due[n] \/ (due[m] = due[n] /\ m < n)

\* The entry that heappop takes.
IsFirst(n) == n \in queue /\ \A m \in queue \ {n} : Before(n, m)

--------------------------------------------------------------------------------
\* Mutant: the entry is numbered from zero, the notifications from one.
ScheduleNotification_Shifted(d) ==
  \E n \in Notes :
    /\ LockFree
    /\ status[n] = "none" /\ \A m \in Notes : m < n => status[m] # "none"
    /\ status' = [status EXCEPT ![n] = "pending"]
    /\ due' = [due EXCEPT ![n] = d]
    /\ queue' = queue \cup {n - 1}
    /\ UNCHANGED <<clock, now, candidate>>

\* due_at is compared with a time read before the lock is taken, so it may have
\* passed when the entry is pushed.
ScheduleNotification(d) ==
  \E n \in Notes :
    /\ LockFree
    /\ status[n] = "none" /\ \A m \in Notes : m < n => status[m] # "none"
    /\ status' = [status EXCEPT ![n] = "pending"]
    /\ due' = [due EXCEPT ![n] = d]
    /\ queue' = queue \cup {n}
    /\ UNCHANGED <<clock, now, candidate>>

\* The service lock is given back before, so this may run inside get_next_due.
Cancel(n) ==
  /\ status[n] \in {"pending", "canceled"}
  /\ status' = [status EXCEPT ![n] = "canceled"]
  /\ UNCHANGED <<due, queue, clock, now, candidate>>

CallPoll(p) ==
  /\ now[p] = Null
  /\ now' = [now EXCEPT ![p] = clock]
  /\ UNCHANGED <<status, due, queue, clock, candidate>>

NoneDue(p) == \A n \in Notes : IsFirst(n) => due[n] > now[p]

\* Mutant: the first entry is popped before its time is compared.
ReturnNothing_Pops(p) ==
  /\ now[p] # Null /\ candidate[p] = Null /\ LockFree
  /\ NoneDue(p)
  /\ queue' = queue \ {n \in queue : IsFirst(n)}
  /\ now' = [now EXCEPT ![p] = Null]
  /\ UNCHANGED <<status, due, clock, candidate>>

ReturnNothing(p) ==
  /\ now[p] # Null /\ candidate[p] = Null /\ LockFree
  /\ NoneDue(p)
  /\ now' = [now EXCEPT ![p] = Null]
  /\ UNCHANGED <<status, due, queue, clock, candidate>>

PopFirst(p) ==
  \E n \in Notes :
    /\ now[p] # Null /\ LockFree
    /\ IsFirst(n) /\ due[n] <= now[p]
    /\ candidate' = [candidate EXCEPT ![p] = n]
    /\ queue' = queue \ {n}
    /\ UNCHANGED <<status, due, clock, now>>

\* try_claim_running succeeds: the candidate is returned.
ClaimRunning(p) ==
  /\ candidate[p] # Null
  /\ status[candidate[p]] = "pending"
  /\ status' = [status EXCEPT ![candidate[p]] = "running"]
  /\ candidate' = [candidate EXCEPT ![p] = Null]
  /\ now' = [now EXCEPT ![p] = Null]
  /\ UNCHANGED <<due, queue, clock>>

\* Mutant: the entry that could not be claimed goes back into the heap.
PopAnother_PutsBack(p) ==
  \E n \in Notes :
    /\ candidate[p] # Null /\ status[candidate[p]] # "pending"
    /\ IsFirst(n) /\ due[n] <= now[p]
    /\ candidate' = [candidate EXCEPT ![p] = n]
    /\ queue' = (queue \ {n}) \cup {candidate[p]}
    /\ UNCHANGED <<status, due, clock, now>>

\* It was canceled: the next entry is popped.
PopAnother(p) ==
  \E n \in Notes :
    /\ candidate[p] # Null /\ status[candidate[p]] # "pending"
    /\ IsFirst(n) /\ due[n] <= now[p]
    /\ candidate' = [candidate EXCEPT ![p] = n]
    /\ queue' = queue \ {n}
    /\ UNCHANGED <<status, due, clock, now>>

\* The next entry is not due yet, or there is none.  One that is not due has been
\* popped all the same, and stays out of the heap.
GiveUp(p) ==
  /\ candidate[p] # Null /\ status[candidate[p]] # "pending"
  /\ NoneDue(p)
  /\ queue' = queue \ {n \in queue : IsFirst(n)}
  /\ candidate' = [candidate EXCEPT ![p] = Null]
  /\ now' = [now EXCEPT ![p] = Null]
  /\ UNCHANGED <<status, due, clock>>

Tick ==
  /\ clock < MaxTime
  /\ clock' = clock + 1
  /\ UNCHANGED <<status, due, queue, now, candidate>>

InCall(p) == ReturnNothing(p) \/ PopFirst(p) \/ ClaimRunning(p) \/ PopAnother(p) \/ GiveUp(p)

Next ==
  \/ \E d \in 1 .. MaxTime : ScheduleNotification(d)
  \/ \E n \in Notes : Cancel(n)
  \/ \E p \in Pollers : CallPoll(p) \/ InCall(p)
  \/ Tick

Spec == Init /\ [][Next]_noteVars /\ \A p \in Pollers : WF_noteVars(InCall(p))

--------------------------------------------------------------------------------
\* A notification is handed out once and only while it may be: not after it was
\* canceled, never again after it was handed out, and not before it is due, also
\* when its entry was reached by skipping canceled ones.
DeliveredOnceAndDue ==
  [][\A n \in Notes :
       /\ status[n] \in {"canceled", "running"} => status'[n] = status[n]
       /\ status[n] = "pending" /\ status'[n] = "running" =>
            due[n] <= clock /\ \A m \in queue : status[m] = "pending" => Before(n, m)]_noteVars

\* The loop over canceled entries ends, whatever is canceled meanwhile.
PollLoopEnds ==
  \A p \in Pollers : (candidate[p] # Null) ~> (candidate[p] = Null)

\* Only giving up behind a canceled entry takes a pending notification out of the
\* heap without handing it out.
DroppedBehindCanceled ==
  [][\A n \in queue :
       n \notin queue' /\ status[n] = "pending" =>
         \E p \in Pollers :
           \/ candidate'[p] = n
           \/ candidate[p] # Null /\ status[candidate[p]] = "canceled" /\ due[n] > now[p]]_noteVars

================================================================================
