----------------------------- MODULE NotificationRows -----------------------------
(***************************************************************************)
(* src/kata-013-focused/postgres_service.py: notifications as rows, handed *)
(* out by a transaction that locks the earliest due one and marks it, and  *)
(* canceled by another whose conditional UPDATE waits for the row.  Others *)
(* see what a transaction wrote at its commit.                             *)
(***************************************************************************)
EXTENDS Externals

CONSTANTS
  Notes,    \* the notifications that may be scheduled
  Pollers,  \* connections
  MaxTime,  \* bound on the clock and on due_at
  Null

VARIABLES
  status, due,  \* status[n] is "none" while it has no row
  lock,         \* lock[n]: the connection whose transaction locked the row, or Null
  clock,
  now, seen,    \* of a connection inside get_next_due: its time and its snapshot
  canceling     \* of a connection inside cancel_notification: the row it updated

noteRowVars == <<status, due, lock, clock, now, seen, canceling>>

TypeOK ==
  /\ status \in [Notes -> {"none", "pending", "running", "canceled"}]
  /\ due \in [Notes -> 0 .. MaxTime]
  /\ lock \in [Notes -> Pollers \cup {Null}]
  /\ clock \in 1 .. MaxTime
  /\ now \in [Pollers -> (1 .. MaxTime) \cup {Null}]
  /\ seen \in [Pollers -> (SUBSET Notes) \cup {Null}]
  /\ canceling \in [Pollers -> Notes \cup {Null}]

Init ==
  /\ status = [n \in Notes |-> "none"]
  /\ due = [n \in Notes |-> 0]
  /\ lock = [n \in Notes |-> Null]
  /\ clock = 1
  /\ now = [p \in Pollers |-> Null]
  /\ seen = [p \in Pollers |-> Null]
  /\ canceling = [p \in Pollers |-> Null]

Idle(p) == now[p] = Null /\ canceling[p] = Null

\* CHECK (due_at > created_at).
ScheduleNotification(n, t) ==
  /\ status[n] = "none" /\ clock < t
  /\ status' = [status EXCEPT ![n] = "pending"]
  /\ due' = [due EXCEPT ![n] = t]
  /\ UNCHANGED <<lock, clock, now, seen, canceling>>

\* Mutant: the UPDATE has no condition on the status.
UpdateCanceled_AnyStatus(p, n) ==
  /\ Idle(p)
  /\ lock[n] = Null /\ status[n] # "none"
  /\ lock' = [lock EXCEPT ![n] = p]
  /\ canceling' = [canceling EXCEPT ![p] = n]
  /\ UNCHANGED <<status, due, clock, now, seen>>

\* A row in another status is not updated: the call raises, and changes nothing.
UpdateCanceled(p, n) ==
  /\ Idle(p)
  /\ lock[n] = Null /\ status[n] \in {"pending", "canceled"}
  /\ lock' = [lock EXCEPT ![n] = p]
  /\ canceling' = [canceling EXCEPT ![p] = n]
  /\ UNCHANGED <<status, due, clock, now, seen>>

\* The transaction ends, and its lock with it.
Finish(p) ==
  /\ now' = [now EXCEPT ![p] = Null]
  /\ seen' = [seen EXCEPT ![p] = Null]
  /\ canceling' = [canceling EXCEPT ![p] = Null]
  /\ lock' = [n \in Notes |-> IF lock[n] = p THEN Null ELSE lock[n]]
  /\ UNCHANGED <<due, clock>>

CommitCanceled(p) ==
  /\ canceling[p] # Null
  /\ status' = [status EXCEPT ![canceling[p]] = "canceled"]
  /\ Finish(p)

CallPoll(p) ==
  /\ Idle(p)
  /\ now' = [now EXCEPT ![p] = clock]
  /\ UNCHANGED <<status, due, lock, clock, seen, canceling>>

DuePending(t) == {n \in Notes : status[n] = "pending" /\ due[n] <= t}

Snapshot(p) ==
  /\ now[p] # Null /\ seen[p] = Null
  /\ seen' = [seen EXCEPT ![p] = DuePending(now[p])]
  /\ UNCHANGED <<status, due, lock, clock, now, canceling>>

Found(p) ==
  FirstLockable(seen[p], DuePending(now[p]), {n \in Notes : lock[n] = Null}, due)

Held(p) == {n \in Notes : lock[n] = p}

LockNext(p) ==
  /\ seen[p] # Null /\ Held(p) = {}
  /\ \E n \in Found(p) : lock' = [lock EXCEPT ![n] = p]
  /\ UNCHANGED <<status, due, clock, now, seen, canceling>>

ReturnNothing(p) ==
  /\ seen[p] # Null /\ Held(p) = {} /\ Found(p) = {}
  /\ Finish(p)
  /\ UNCHANGED status

CommitRunning(p) ==
  /\ seen[p] # Null /\ Held(p) # {}
  /\ status' = [n \in Notes |-> IF n \in Held(p) THEN "running" ELSE status[n]]
  /\ Finish(p)

LoseConnection(p) ==
  /\ ~Idle(p)
  /\ Finish(p)
  /\ UNCHANGED status

GetNextDue(p) == Snapshot(p) \/ LockNext(p) \/ ReturnNothing(p) \/ CommitRunning(p)

Tick ==
  /\ clock < MaxTime
  /\ clock' = clock + 1
  /\ UNCHANGED <<status, due, lock, now, seen, canceling>>

Next ==
  \/ Tick
  \/ \E n \in Notes, t \in 1 .. MaxTime : ScheduleNotification(n, t)
  \/ \E p \in Pollers :
       \/ CallPoll(p) \/ GetNextDue(p) \/ CommitCanceled(p) \/ LoseConnection(p)
       \/ \E n \in Notes : UpdateCanceled(p, n)

\* A connection inside get_next_due sends its next statement; none of them waits.
Spec == Init /\ [][Next]_noteRowVars /\ \A p \in Pollers : WF_noteRowVars(GetNextDue(p))

--------------------------------------------------------------------------------
\* A notification is handed out once, when it is due, and never once it is canceled;
\* one that is handed out is not canceled behind its back.
DeliveredOnceAndDue ==
  [][\A n \in Notes :
       /\ status[n] \in {"running", "canceled"} => status'[n] = status[n]
       /\ status'[n] = "running" /\ status[n] # "running" => status[n] = "pending" /\ due[n] <= clock
    ]_noteRowVars

\* get_next_due ends, whatever others lock meanwhile.
PollEnds == \A p \in Pollers : now[p] # Null ~> now[p] = Null
===================================================================================
