------------------------------- MODULE JobManager -------------------------------
(***************************************************************************)
(* src/kata-012: scheduled jobs, each with a lock that execute and cancel  *)
(* take.  process_due_jobs copies the jobs under the service lock, then    *)
(* looks which are due without any lock, then executes those one by one;   *)
(* several threads may be doing so at once.  Job numbers give the order in *)
(* which jobs were scheduled, which is the order of the dictionary.        *)
(***************************************************************************)
EXTENDS Integers, FiniteSetsExt

CONSTANTS
  Threads,  \* callers of process_due_jobs
  MaxJobs,  \* bound on the jobs scheduled
  MaxTime,  \* bound on the clock
  Null

Jobs == 1 .. MaxJobs
Outcomes == {"succeeds", "fails", "raises"}

VARIABLES
  status, runAt, body,  \* of each job; body is what executing it will do
  clock,
  todo,     \* todo[t]: jobs that t has copied and not looked at yet
  due,      \* due[t]: jobs that t has found due and not executed yet
  running   \* running[t]: the job that t executes, holding its lock, or Null

jobVars == <<status, runAt, body, clock, todo, due, running>>

TypeOK ==
  /\ status \in [Jobs -> {"NONE", "PENDING", "RUNNING", "CANCELED", "FAILED", "SUCCEEDED"}]
  /\ runAt \in [Jobs -> 0 .. MaxTime]
  /\ body \in [Jobs -> Outcomes]
  /\ clock \in 1 .. MaxTime
  /\ todo \in [Threads -> SUBSET Jobs]
  /\ due \in [Threads -> SUBSET Jobs]
  /\ running \in [Threads -> Jobs \cup {Null}]

Init ==
  /\ status = [j \in Jobs |-> "NONE"]
  /\ runAt = [j \in Jobs |-> 0]
  /\ body \in [Jobs -> Outcomes]
  /\ clock = 1
  /\ todo = [t \in Threads |-> {}]
  /\ due = [t \in Threads |-> {}]
  /\ running = [t \in Threads |-> Null]

Scheduled == {j \in Jobs : status[j] # "NONE"}
Idle(t) == todo[t] = {} /\ due[t] = {}
LockFree(j) == \A t \in Threads : running[t] # j

\* run_at is compared with a clock read earlier, and may have passed.
ScheduleJob(at) ==
  \E j \in Jobs \ Scheduled :
    /\ \A i \in Jobs : i < j => i \in Scheduled
    /\ status' = [status EXCEPT ![j] = "PENDING"]
    /\ runAt' = [runAt EXCEPT ![j] = at]
    /\ UNCHANGED <<body, clock, todo, due, running>>

CancelJob(j) ==
  /\ LockFree(j)
  /\ status[j] \in {"PENDING", "CANCELED"}
  /\ status' = [status EXCEPT ![j] = "CANCELED"]
  /\ UNCHANGED <<runAt, body, clock, todo, due, running>>

--------------------------------------------------------------------------------
\* process_due_jobs: _get_job_values, is_due of each, execute of those.
CallProcess(t) ==
  /\ Idle(t) /\ Scheduled # {}
  /\ todo' = [todo EXCEPT ![t] = Scheduled]
  /\ UNCHANGED <<status, runAt, body, clock, due, running>>

IsDue(j) == status[j] = "PENDING" /\ clock >= runAt[j]

LookAtJob(t) ==
  /\ todo[t] # {}
  /\ LET j == Min(todo[t]) IN
       /\ todo' = [todo EXCEPT ![t] = @ \ {j}]
       /\ due' = [due EXCEPT ![t] = IF IsDue(j) THEN @ \cup {j} ELSE @]
  /\ UNCHANGED <<status, runAt, body, clock, running>>

CanExecute(t, j) ==
  /\ todo[t] = {} /\ due[t] # {} /\ running[t] = Null
  /\ j = Min(due[t])
  /\ LockFree(j)

\* Mutant: the status is not looked at again under the lock.
StartJob_NoCheck(t) ==
  \E j \in due[t] :
    /\ CanExecute(t, j)
    /\ status' = [status EXCEPT ![j] = "RUNNING"]
    /\ running' = [running EXCEPT ![t] = j]
    /\ UNCHANGED <<runAt, body, clock, todo, due>>

StartJob(t) ==
  \E j \in due[t] :
    /\ CanExecute(t, j)
    /\ status[j] = "PENDING"
    /\ status' = [status EXCEPT ![j] = "RUNNING"]
    /\ running' = [running EXCEPT ![t] = j]
    /\ UNCHANGED <<runAt, body, clock, todo, due>>

\* Another call executed or canceled it since it was found due.
SkipJob(t) ==
  \E j \in due[t] :
    /\ CanExecute(t, j)
    /\ status[j] # "PENDING"
    /\ due' = [due EXCEPT ![t] = @ \ {j}]
    /\ UNCHANGED <<status, runAt, body, clock, todo, running>>

FinishJob(t) ==
  LET j == running[t] IN
  /\ j # Null /\ body[j] # "raises"
  /\ status' = [status EXCEPT ![j] = IF body[j] = "succeeds" THEN "SUCCEEDED" ELSE "FAILED"]
  /\ running' = [running EXCEPT ![t] = Null]
  /\ due' = [due EXCEPT ![t] = @ \ {j}]
  /\ UNCHANGED <<runAt, body, clock, todo>>

\* Mutant: the lock is not given back.
RaiseFromJob_KeepsLock(t) ==
  LET j == running[t] IN
  /\ j # Null /\ body[j] = "raises" /\ due[t] # {}
  /\ due' = [due EXCEPT ![t] = {}]
  /\ UNCHANGED <<status, runAt, body, clock, todo, running>>

\* Executing the body, or looking up the expected outcome in it, raises: the lock
\* is given back, the job stays RUNNING, and the exception ends process_due_jobs.
RaiseFromJob(t) ==
  LET j == running[t] IN
  /\ j # Null /\ body[j] = "raises"
  /\ running' = [running EXCEPT ![t] = Null]
  /\ due' = [due EXCEPT ![t] = {}]
  /\ UNCHANGED <<status, runAt, body, clock, todo>>

Tick ==
  /\ clock < MaxTime
  /\ clock' = clock + 1
  /\ UNCHANGED <<status, runAt, body, todo, due, running>>

InCall(t) == LookAtJob(t) \/ StartJob(t) \/ SkipJob(t) \/ FinishJob(t) \/ RaiseFromJob(t)

Next ==
  \/ \E at \in 1 .. MaxTime : ScheduleJob(at)
  \/ \E j \in Jobs : CancelJob(j)
  \/ \E t \in Threads : CallProcess(t) \/ InCall(t)
  \/ Tick

Spec == Init /\ [][Next]_jobVars /\ \A t \in Threads : WF_jobVars(InCall(t))

--------------------------------------------------------------------------------
\* A job that is being executed is executed by one thread, under the job's lock; a
\* job left RUNNING by nobody is one whose body raised.
RunningUnderLock ==
  /\ \A t \in Threads : running[t] # Null => status[running[t]] = "RUNNING"
  /\ \A t, u \in Threads : running[t] # Null /\ running[t] = running[u] => t = u
  /\ \A j \in Jobs : status[j] = "RUNNING" /\ LockFree(j) => body[j] = "raises"

\* A job runs once and never after it was canceled, although calls that overlap
\* find the same jobs due, and what became of it is final.
RunsOnce ==
  [][\A j \in Jobs : status'[j] # status[j] =>
       \/ status[j] \in {"NONE", "PENDING"}
       \/ status[j] = "RUNNING" /\ status'[j] \in {"SUCCEEDED", "FAILED"}]_jobVars

\* Every call of process_due_jobs returns or raises, also when it waits for the
\* lock of a job whose body raises.
EveryCallEnds == \A t \in Threads : (~Idle(t)) ~> Idle(t)

================================================================================
