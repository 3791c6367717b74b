---------------------------- MODULE RateLimiterService ----------------------------
(***************************************************************************)
(* src/kata-017-focused: a bucket of tokens per client.  A call reads the  *)
(* clock before it takes the bucket's lock, so the times at the bucket may *)
(* turn back.  The port to PostgreSQL does the same under the row lock its *)
(* upsert takes; but the time that it reads itself when the caller passes  *)
(* none is naive, and subtracting the row's aware one from it raises with  *)
(* the transaction open.  In memory all times are of one kind.  A tick is  *)
(* the time of one token, so tokens are whole.                             *)
(***************************************************************************)
EXTENDS Integers, FiniteSets

CONSTANTS
  Callers,  \* threads, all of one client
  CAP,      \* BUCKET_CAP_REQUEST
  MaxTime,  \* bound on the clock
  MaxCalls, \* bound on the calls
  Null

VARIABLES
  tokens, last,  \* available_tokens and last_computed_time; last is Null before the bucket
  clock,
  now,           \* now[p]: the time a caller inside allow_request read, or Null
  naive,         \* rows: the callers inside whose time is naive
  holder,        \* rows: the connection whose open transaction holds the row lock, or Null
  inserted,      \* rows: its upsert made the row
  calls,
  allowed,       \* history: allowed[t]: how many calls with the time t were allowed
  stale          \* history: the ticks that refused calls have turned the bucket's time back

limiterVars == <<tokens, last, clock, now, naive, holder, inserted, calls, allowed, stale>>
rowVars == <<naive, holder, inserted>>

TypeOK ==
  /\ tokens \in 0 .. CAP
  /\ last \in (1 .. MaxTime) \cup {Null}
  /\ clock \in 1 .. MaxTime
  /\ now \in [Callers -> (1 .. MaxTime) \cup {Null}]
  /\ naive \subseteq Callers
  /\ holder \in Callers \cup {Null} /\ inserted \in BOOLEAN
  /\ calls \in 0 .. MaxCalls
  /\ allowed \in [1 .. MaxTime -> 0 .. MaxCalls]
  /\ stale \in Nat

Init ==
  /\ tokens = 0 /\ last = Null
  /\ clock = 1
  /\ now = [p \in Callers |-> Null]
  /\ naive = {} /\ holder = Null /\ inserted = FALSE
  /\ calls = 0 /\ allowed = [t \in 1 .. MaxTime |-> 0] /\ stale = 0

Enter(p) ==
  /\ now[p] = Null /\ calls < MaxCalls
  /\ now' = [now EXCEPT ![p] = clock]
  /\ calls' = calls + 1
  /\ UNCHANGED <<tokens, last, clock, holder, inserted, allowed, stale>>

CallAllow(p) == Enter(p) /\ UNCHANGED naive

\* The service makes the bucket for the first caller that finds none.
MakeBucket(p) ==
  /\ now[p] # Null /\ last = Null
  /\ tokens' = CAP /\ last' = now[p]
  /\ UNCHANGED <<clock, now, rowVars, calls, allowed, stale>>

\* Mutant: the bucket overflows.
Refill_Uncapped(t) == tokens + (t - last)

Refill(t) == IF tokens + (t - last) < CAP THEN tokens + (t - last) ELSE CAP

\* The body of allow_request under the bucket's or the row's lock.
Take(p) ==
  /\ LET left == Refill(now[p]) - 1 IN
       IF left < 0
       THEN /\ tokens' = 0 /\ UNCHANGED allowed
            /\ stale' = stale + (IF now[p] < last THEN last - now[p] ELSE 0)
       ELSE tokens' = left /\ allowed' = [allowed EXCEPT ![now[p]] = @ + 1] /\ UNCHANGED stale
  /\ last' = now[p]
  /\ now' = [now EXCEPT ![p] = Null]
  /\ UNCHANGED <<clock, calls>>

AllowRequest(p) ==
  /\ now[p] # Null /\ last # Null
  /\ Take(p)
  /\ UNCHANGED rowVars

--------------------------------------------------------------------------------
(* postgres_service.py: a transaction of two statements.                   *)

\* allow_request without a time: datetime.now() has no time zone.
CallNaive(p) == Enter(p) /\ naive' = naive \cup {p}

UpsertBucket(p) ==
  /\ now[p] # Null /\ holder = Null
  /\ holder' = p
  /\ inserted' = (last = Null)
  /\ IF last = Null THEN tokens' = CAP /\ last' = now[p] ELSE UNCHANGED <<tokens, last>>
  /\ UNCHANGED <<clock, now, naive, calls, allowed, stale>>

\* With the row locked by this call's upsert, or since a call on the same connection
\* that raised: then the upsert has found the transaction's own row and changed nothing.
\* The commit ends all of the transaction.
UpdateBucket(p) ==
  /\ holder = p /\ now[p] # Null
  /\ p \notin naive
  /\ Take(p)
  /\ holder' = Null /\ inserted' = FALSE
  /\ UNCHANGED naive

\* The subtraction raises, and nothing is rolled back: the call is over, the transaction
\* and what it has inserted and locked are not.
RaiseTypeError(p) ==
  /\ holder = p /\ now[p] # Null
  /\ p \in naive
  /\ now' = [now EXCEPT ![p] = Null]
  /\ naive' = naive \ {p}
  /\ UNCHANGED <<tokens, last, clock, holder, inserted, calls, allowed, stale>>

\* The connection is lost or closed, in a call or with a transaction left open: a row of
\* its own goes with it.
LoseConnection(p) ==
  /\ now[p] # Null \/ holder = p
  /\ now' = [now EXCEPT ![p] = Null]
  /\ naive' = naive \ {p}
  /\ IF holder = p THEN holder' = Null /\ inserted' = FALSE ELSE UNCHANGED <<holder, inserted>>
  /\ IF holder = p /\ inserted THEN tokens' = 0 /\ last' = Null ELSE UNCHANGED <<tokens, last>>
  /\ UNCHANGED <<clock, calls, allowed, stale>>

--------------------------------------------------------------------------------
Tick ==
  /\ clock < MaxTime
  /\ clock' = clock + 1
  /\ UNCHANGED <<tokens, last, now, rowVars, calls, allowed, stale>>

Next == Tick \/ \E p \in Callers : CallAllow(p) \/ MakeBucket(p) \/ AllowRequest(p)

RowsNext ==
  \/ Tick
  \/ \E p \in Callers :
       CallAllow(p) \/ CallNaive(p) \/ UpsertBucket(p) \/ UpdateBucket(p) \/ RaiseTypeError(p) \/ LoseConnection(p)

Spec == Init /\ [][Next]_limiterVars

--------------------------------------------------------------------------------
\* The calls let through with times from b to e, counted within each time.
AllowedIn(b, e) == {k \in (1 .. MaxTime) \X (1 .. MaxCalls) : k[1] \in b .. e /\ k[2] <= allowed[k[1]]}

\* The calls let through with times in any stretch, wherever it begins, are at most a
\* full bucket and one for each tick of it, but for the one leak there is: a call that
\* is refused with a time before the bucket's leaves that much time to be counted again.
RateHolds ==
  \A b, e \in 1 .. MaxTime : b <= e =>
    Cardinality(AllowedIn(b, e)) <= CAP + (e - b) + stale
===================================================================================
