-------------------------------- MODULE CaseRows --------------------------------
(***************************************************************************)
(* src/kata-023-focused/postgres_service.py: support cases as rows.  A     *)
(* claim is a transaction of two statements: a SELECT that locks the case  *)
(* it finds, which is its snapshot and then its lock, and an UPDATE, which *)
(* others see at the commit.  A connection may be lost between them.       *)
(***************************************************************************)
EXTENDS Externals, TLAPS

CONSTANTS
  Cases, Workers, Priorities,
  TTL,      \* CLAIM_TTL_IN_SECONDS
  MaxTime,  \* bound on the clock
  Null

VARIABLES
  case,   \* case[c]: its row, or Null
  lock,   \* lock[c]: the worker whose transaction locked the row, or Null
  clock,
  now,    \* now[w]: the time w read when it called, or Null
  seen    \* seen[w]: the snapshot of its SELECT, or Null

caseRowVars == <<case, lock, clock, now, seen>>

\* A claimed_at that is NULL is 0, before every other: NULLS FIRST.
Rows == [priority : Priorities, claimedAt : 0 .. MaxTime, worker : Workers \cup {Null}]
Table == [Cases -> Rows \cup {Null}]

TypeOK ==
  /\ case \in Table
  /\ lock \in [Cases -> Workers \cup {Null}]
  /\ clock \in 1 .. MaxTime
  /\ now \in [Workers -> (1 .. MaxTime) \cup {Null}]
  /\ seen \in [Workers -> Table \cup {Null}]

Init ==
  /\ case = [c \in Cases |-> Null]
  /\ lock = [c \in Cases |-> Null]
  /\ clock = 1
  /\ now = [w \in Workers |-> Null]
  /\ seen = [w \in Workers |-> Null]

AddCase(c, p) ==
  /\ case[c] = Null
  /\ case' = [case EXCEPT ![c] = [priority |-> p, claimedAt |-> 0, worker |-> Null]]
  /\ UNCHANGED <<lock, clock, now, seen>>

CallClaim(w) ==
  /\ now[w] = Null
  /\ now' = [now EXCEPT ![w] = clock]
  /\ UNCHANGED <<case, lock, clock, seen>>

\* Nothing sets another status than unclaimed and claimed.
Claimable(table, t) ==
  {c \in Cases : table[c] # Null /\ (table[c].claimedAt = 0 \/ t - TTL > table[c].claimedAt)}

Rank(table) ==
  [c \in Cases |-> IF table[c] = Null THEN 0
                   ELSE table[c].priority * (MaxTime + 1) + table[c].claimedAt]

Snapshot(w) ==
  /\ now[w] # Null /\ seen[w] = Null
  /\ seen' = [seen EXCEPT ![w] = case]
  /\ UNCHANGED <<case, lock, clock, now>>

Found(w) ==
  FirstLockable(Claimable(seen[w], now[w]), Claimable(case, now[w]),
                {c \in Cases : lock[c] = Null}, Rank(seen[w]))

Holding(w) == \E c \in Cases : lock[c] = w

LockCase(w) ==
  /\ seen[w] # Null /\ ~Holding(w)
  /\ \E c \in Found(w) : lock' = [lock EXCEPT ![c] = w]
  /\ UNCHANGED <<case, clock, now, seen>>

\* The transaction ends, and its lock with it.
Finish(w) ==
  /\ now' = [now EXCEPT ![w] = Null]
  /\ seen' = [seen EXCEPT ![w] = Null]
  /\ lock' = [c \in Cases |-> IF lock[c] = w THEN Null ELSE lock[c]]
  /\ UNCHANGED clock

ClaimNone(w) ==
  /\ seen[w] # Null /\ ~Holding(w) /\ Found(w) = {}
  /\ Finish(w)
  /\ UNCHANGED case

ClaimNext(w) ==
  /\ Holding(w)
  /\ case' = [c \in Cases |-> IF lock[c] = w
                              THEN [case[c] EXCEPT !.claimedAt = now[w], !.worker = w]
                              ELSE case[c]]
  /\ Finish(w)

LoseConnection(w) ==
  /\ now[w] # Null
  /\ Finish(w)
  /\ UNCHANGED case

Tick ==
  /\ clock < MaxTime
  /\ clock' = clock + 1
  /\ UNCHANGED <<case, lock, now, seen>>

Next ==
  \/ Tick
  \/ \E c \in Cases, p \in Priorities : AddCase(c, p)
  \/ \E w \in Workers :
       \/ CallClaim(w) \/ Snapshot(w) \/ LockCase(w)
       \/ ClaimNone(w) \/ ClaimNext(w) \/ LoseConnection(w)

Spec == Init /\ [][Next]_caseRowVars

--------------------------------------------------------------------------------
\* A case leased to a worker is not leased again before a clock reading beyond the
\* lease, though two workers may have it in their snapshots.
LeaseRespected ==
  [][\A c \in Cases :
       case[c] # Null /\ case'[c] # case[c] /\ case[c].claimedAt # 0 =>
         case'[c].claimedAt > case[c].claimedAt + TTL]_caseRowVars

\* A worker has one case locked at most, and a locked case is what the worker found:
\* nobody has written it since the worker could claim it.
LockedIsClaimable ==
  \A w \in Workers : \A c, d \in Cases :
    /\ lock[c] = w => c \in Claimable(case, now[w])
    /\ lock[c] = w /\ lock[d] = w => c = d

--------------------------------------------------------------------------------
(* Theorems, for every set of cases, workers and priorities and every      *)
(* lease.  A worker writes a case long after it chose it, from an older    *)
(* snapshot still; the invariant is that what it has locked is claimable   *)
(* at the time it read, as the row is now.                                 *)
ConstantsSound ==
  /\ TTL \in Nat
  /\ MaxTime \in Nat \ {0}
  /\ Null \notin Workers

\* A transaction runs at the time its worker read.
InCall ==
  \A w \in Workers : seen[w] # Null \/ Holding(w) => now[w] # Null

IInv == TypeOK /\ LockedIsClaimable /\ InCall

LEMMA InitSound == ASSUME ConstantsSound PROVE Init => IInv
  BY DEF ConstantsSound, Init, IInv, TypeOK, Table, LockedIsClaimable, InCall, Holding

\* A worker writes the case it holds, and the time at which it could claim it.
LEMMA ClaimWrites ==
  ASSUME ConstantsSound, IInv, NEW w \in Workers, ClaimNext(w), NEW c \in Cases
  PROVE  /\ lock[c] # w => case'[c] = case[c]
         /\ lock[c] = w => /\ case[c] \in Rows /\ now[w] \in 1 .. MaxTime
                           /\ case'[c] \in Rows /\ case'[c].claimedAt = now[w]
<1>1. now[w] \in 1 .. MaxTime
  BY DEF ClaimNext, IInv, TypeOK, InCall
<1>2. ASSUME lock[c] = w PROVE case[c] \in Rows
  BY <1>2 DEF IInv, TypeOK, Table, LockedIsClaimable, Claimable
<1>3. ASSUME lock[c] = w PROVE case'[c] \in Rows /\ case'[c].claimedAt = now[w]
  <2> DEFINE timed == [case[c] EXCEPT !.claimedAt = now[w]]
  <2>1. case'[c] = [timed EXCEPT !.worker = w]
    BY <1>3 DEF ClaimNext
  <2>2. now[w] \in 0 .. MaxTime
    BY <1>1 DEF ConstantsSound
  <2>3. timed \in Rows /\ timed.claimedAt = now[w]
    BY <1>2, <1>3, <2>2 DEF Rows
  <2> HIDE DEF timed
  <2> QED
    BY <2>1, <2>3 DEF Rows
<1>4. lock[c] # w => case'[c] = case[c]
  BY DEF ClaimNext
<1> QED
  BY <1>1, <1>2, <1>3, <1>4

LEMMA TypesKept ==
  ASSUME ConstantsSound, IInv, [Next]_caseRowVars
  PROVE  TypeOK'
<1> USE DEF IInv, TypeOK, ConstantsSound
<1>1. CASE Tick
  BY <1>1 DEF Tick
<1>2. ASSUME NEW c \in Cases, NEW p \in Priorities, AddCase(c, p) PROVE TypeOK'
  <2>1. [priority |-> p, claimedAt |-> 0, worker |-> Null] \in Rows
    BY DEF Rows
  <2> QED
    BY <1>2, <2>1 DEF AddCase, Table
<1>3. ASSUME NEW w \in Workers, CallClaim(w) \/ Snapshot(w) PROVE TypeOK'
  BY <1>3 DEF CallClaim, Snapshot
<1>4. ASSUME NEW w \in Workers, LockCase(w) PROVE TypeOK'
  BY <1>4 DEF LockCase, Found, FirstLockable, Lockable
<1>5. ASSUME NEW w \in Workers, Finish(w), case' \in Table PROVE TypeOK'
  BY <1>5 DEF Finish
<1>6. ASSUME NEW w \in Workers, ClaimNext(w) PROVE case' \in Table
  <2>1. \A c \in Cases : case'[c] \in Rows \cup {Null}
    BY <1>6, ClaimWrites DEF Table
  <2> QED
    BY <1>6, <2>1 DEF ClaimNext, Table
<1>7. CASE UNCHANGED caseRowVars
  BY <1>7 DEF caseRowVars
<1> QED
  BY <1>1, <1>2, <1>3, <1>4, <1>5, <1>6, <1>7
  DEF Next, ClaimNone, ClaimNext, LoseConnection

LEMMA LocksKept ==
  ASSUME ConstantsSound, IInv, [Next]_caseRowVars
  PROVE  LockedIsClaimable' /\ InCall'
<1> USE DEF IInv, TypeOK, ConstantsSound
<1> DEFINE Goal == LockedIsClaimable' /\ InCall'
<1>1. CASE Tick
  BY <1>1 DEF Tick, LockedIsClaimable, Claimable, InCall, Holding
<1>2. ASSUME NEW c \in Cases, NEW p \in Priorities, AddCase(c, p) PROVE Goal
  BY <1>2 DEF AddCase, LockedIsClaimable, Claimable, InCall, Holding
<1>3. ASSUME NEW w \in Workers, CallClaim(w) PROVE Goal
  BY <1>3 DEF CallClaim, LockedIsClaimable, Claimable, InCall, Holding
<1>4. ASSUME NEW w \in Workers, Snapshot(w) PROVE Goal
  BY <1>4 DEF Snapshot, LockedIsClaimable, Claimable, InCall, Holding
<1>5. ASSUME NEW w \in Workers, LockCase(w) PROVE Goal
  <2>1. PICK c \in Cases : c \in Claimable(case, now[w]) /\ lock' = [lock EXCEPT ![c] = w]
    BY <1>5 DEF LockCase, Found, FirstLockable, Lockable, Claimable
  <2>2. \A d \in Cases : lock[d] # w
    BY <1>5 DEF LockCase, Holding
  <2> QED
    BY <1>5, <2>1, <2>2 DEF LockCase, LockedIsClaimable, Claimable, InCall, Holding
\* Whoever goes on holds the case it held, which the others have not written.
<1>6. ASSUME NEW w \in Workers, Finish(w), \A c \in Cases : lock[c] # w => case'[c] = case[c]
      PROVE  Goal
  <2>1. ASSUME NEW v \in Workers, NEW c \in Cases, lock'[c] = v
        PROVE  v # w /\ lock[c] = v /\ now'[v] = now[v] /\ case'[c] = case[c]
    BY <1>6, <2>1 DEF Finish
  <2>2. LockedIsClaimable'
    BY <2>1 DEF LockedIsClaimable, Claimable
  <2>3. InCall'
    BY <1>6, <2>1 DEF Finish, InCall, Holding
  <2> QED
    BY <2>2, <2>3
<1>7. ASSUME NEW w \in Workers, ClaimNext(w) PROVE \A c \in Cases : lock[c] # w => case'[c] = case[c]
  BY <1>7, ClaimWrites
<1>8. CASE UNCHANGED caseRowVars
  BY <1>8 DEF caseRowVars, LockedIsClaimable, Claimable, InCall, Holding
<1> QED
  BY <1>1, <1>2, <1>3, <1>4, <1>5, <1>6, <1>7, <1>8
  DEF Next, ClaimNone, ClaimNext, LoseConnection

LEMMA NextSound == ASSUME ConstantsSound PROVE IInv /\ [Next]_caseRowVars => IInv'
  BY TypesKept, LocksKept DEF IInv

\* A locked case stays claimable by whoever locked it, until it is written.
THEOREM LocksAreClaims == ASSUME ConstantsSound PROVE Spec => []LockedIsClaimable
<1>1. IInv => LockedIsClaimable
  BY DEF IInv
<1> QED
  BY <1>1, InitSound, NextSound, PTL DEF Spec

\* A lease runs to its end, however old the snapshots of the workers are and whatever
\* connections are lost.
THEOREM LeasesRunOut == ASSUME ConstantsSound PROVE Spec => LeaseRespected
<1> DEFINE Respected ==
      \A c \in Cases : case[c] # Null /\ case'[c] # case[c] /\ case[c].claimedAt # 0 =>
        case'[c].claimedAt > case[c].claimedAt + TTL
<1>1. ASSUME ConstantsSound, IInv, NEW w \in Workers, ClaimNext(w) PROVE Respected
  <2> SUFFICES ASSUME NEW c \in Cases, case'[c] # case[c], case[c].claimedAt # 0
               PROVE  case'[c].claimedAt > case[c].claimedAt + TTL
    OBVIOUS
  <2>1. lock[c] = w
    BY <1>1, ClaimWrites
  <2>2. case[c] \in Rows /\ now[w] \in 1 .. MaxTime /\ case'[c].claimedAt = now[w]
    BY <1>1, <2>1, ClaimWrites
  <2>3. case[c].claimedAt \in Nat /\ now[w] \in Nat
    BY <1>1, <2>2 DEF Rows, ConstantsSound
  <2>4. now[w] - TTL > case[c].claimedAt
    BY <1>1, <2>1 DEF IInv, LockedIsClaimable, Claimable
  <2> QED
    BY <1>1, <2>2, <2>3, <2>4 DEF ConstantsSound
<1>2. ASSUME NEW c \in Cases, NEW p \in Priorities, AddCase(c, p), TypeOK PROVE Respected
  BY <1>2 DEF AddCase, TypeOK, Table
<1>3. ConstantsSound /\ IInv /\ [Next]_caseRowVars => [Respected]_caseRowVars
  BY <1>1, <1>2 DEF Next, IInv, caseRowVars, Tick, CallClaim, Snapshot, LockCase, ClaimNone, LoseConnection
<1> QED
  BY <1>3, InitSound, NextSound, PTL DEF Spec, LeaseRespected
================================================================================
