------------------------------ MODULE CaseService ------------------------------
(***************************************************************************)
(* src/kata-023-focused: support cases in a heap ordered by status, claim  *)
(* time and priority.  Workers claim the next case under a lease of TTL    *)
(* and complete it; completing changes the key of a case inside the heap.  *)
(* The clock is read before the lock, everything else is one section.      *)
(***************************************************************************)
EXTENDS Externals, FiniteSets

CONSTANTS
  Workers,
  Cases,       \* case ids, in the order of strings
  Priorities,  \* CasePriority: 1 is HIGH
  TTL,         \* CLAIM_TTL_IN_SECONDS
  MaxTime,     \* bound on the clock
  Null         \* no worker, no reading of the clock

\* CaseStatus; 0 is a case that has not been added.
COMPLETED == 1
UNCLAIMED == 2
CLAIMED == 3

VARIABLES
  case,   \* case[c]: its status, claimed_at (0 for datetime.min), priority, worker_id
  heap,   \* _ordered_by_status_and_priority
  clock,
  now     \* now[w]: what a worker inside claim_next_case read, or Null

caseVars == <<case, heap, clock, now>>

InHeap == {heap[i] : i \in DOMAIN heap}

TypeOK ==
  /\ case \in [Cases -> [status : 0 .. 3, claimedAt : 0 .. MaxTime,
                         priority : Priorities \cup {0}, worker : Workers \cup {Null}]]
  /\ heap \in Seq(Cases)
  /\ clock \in 1 .. MaxTime
  /\ now \in [Workers -> (1 .. MaxTime) \cup {Null}]

Init ==
  /\ case = [c \in Cases |-> [status |-> 0, claimedAt |-> 0, priority |-> 0, worker |-> Null]]
  /\ heap = <<>>
  /\ clock = 1
  /\ now = [w \in Workers |-> Null]

\* The order dataclass(order=True) gives Case; ids are unique, so created_at
\* never decides.
CaseOrder(f) ==
  {p \in Cases \X Cases :
     LET a == p[1]  b == p[2]  x == f[a]  y == f[b] IN
     \/ x.status < y.status
     \/ x.status = y.status /\ x.claimedAt < y.claimedAt
     \/ x.status = y.status /\ x.claimedAt = y.claimedAt /\ x.priority < y.priority
     \/ x.status = y.status /\ x.claimedAt = y.claimedAt /\ x.priority = y.priority /\ a < b}

PushCase(h, f, c) == HeapPush(h, c, CaseOrder(f))
PopCase(h) == HeapPop(h, CaseOrder(case))

--------------------------------------------------------------------------------

AddCase(c, p) ==
  /\ case[c].status = 0
  /\ case' = [case EXCEPT ![c] = [status |-> UNCLAIMED, claimedAt |-> 0,
                                  priority |-> p, worker |-> Null]]
  /\ heap' = PushCase(heap, case', c)
  /\ UNCHANGED <<clock, now>>

\* mark_case_completed, by the worker that claimed the case last.
MarkCompleted(c, w) ==
  /\ case[c].status \in {COMPLETED, CLAIMED}
  /\ case[c].worker = w
  /\ case' = [case EXCEPT ![c].status = COMPLETED]
  /\ UNCHANGED <<heap, clock, now>>

--------------------------------------------------------------------------------
\* claim_next_case.
CallClaim(w) ==
  /\ now[w] = Null
  /\ now' = [now EXCEPT ![w] = clock]
  /\ UNCHANGED <<case, heap, clock>>

\* What is left when the loop has dropped the completed cases it pops.
Uncompleted == PopWhile(heap, {c \in Cases : case[c].status = COMPLETED}, CaseOrder(case))

Claimable(c, t) ==
  \/ case[c].status = UNCLAIMED
  \/ case[c].claimedAt + TTL < t     \* claim_should_be_leased

Return(w) ==
  /\ now[w] # Null
  /\ now' = [now EXCEPT ![w] = Null]
  /\ UNCHANGED clock

\* Mutant: the pushed case is compared by the fields it had before the claim.
ClaimNext_StaleKey(w) ==
  LET h == Uncompleted  c == h[1] IN
  /\ Return(w)
  /\ h # <<>> /\ Claimable(c, now[w])
  /\ case' = [case EXCEPT ![c].status = CLAIMED, ![c].worker = w, ![c].claimedAt = now[w]]
  /\ heap' = PushCase(PopCase(h), case, c)

ClaimNext(w) ==
  LET h == Uncompleted  c == h[1] IN
  /\ Return(w)
  /\ h # <<>> /\ Claimable(c, now[w])
  /\ case' = [case EXCEPT ![c].status = CLAIMED, ![c].worker = w, ![c].claimedAt = now[w]]
  /\ heap' = PushCase(PopCase(h), case', c)

\* Mutant: the case that cannot be taken over is not pushed back.
ClaimNone_Dropped(w) ==
  LET h == Uncompleted IN
  /\ Return(w)
  /\ h # <<>> => ~Claimable(h[1], now[w])
  /\ heap' = IF h = <<>> THEN h ELSE PopCase(h)
  /\ UNCHANGED case

\* Empty, or the next case is still leased: None is returned.
ClaimNone(w) ==
  LET h == Uncompleted IN
  /\ Return(w)
  /\ h # <<>> => ~Claimable(h[1], now[w])
  /\ heap' = IF h = <<>> THEN h ELSE PushCase(PopCase(h), case, h[1])
  /\ UNCHANGED case

Tick ==
  /\ clock < MaxTime
  /\ clock' = clock + 1
  /\ UNCHANGED <<case, heap, now>>

Next ==
  \/ \E c \in Cases : (\E p \in Priorities : AddCase(c, p)) \/ (\E w \in Workers : MarkCompleted(c, w))
  \/ \E w \in Workers : CallClaim(w) \/ ClaimNext(w) \/ ClaimNone(w)
  \/ Tick

Spec == Init /\ [][Next]_caseVars

--------------------------------------------------------------------------------
\* A case stays in the pool, once, until it is completed.
OpenQueuedOnce ==
  /\ \A c \in Cases : case[c].status \in {UNCLAIMED, CLAIMED} => c \in InHeap
  /\ Cardinality(InHeap) = Len(heap)

\* No double processing: a case changes hands only when the reading of the clock
\* that takes it over lies past the lease, and a completed case changes no more.
LeaseRespected ==
  [][\A c \in Cases :
       /\ case[c].status = CLAIMED /\ case'[c].claimedAt # case[c].claimedAt =>
            case'[c].claimedAt > case[c].claimedAt + TTL
       /\ case[c].status = CLAIMED /\ case'[c].claimedAt = case[c].claimedAt =>
            case'[c].worker = case[c].worker
       /\ case[c].status = COMPLETED => case'[c] = case[c]]_caseVars

\* Where no completed case is on the path, the heap is in order: only completing
\* a case in place puts it out of order, never a claim.
OnlyCompletionsDisturb ==
  \A i \in DOMAIN heap : \A a \in Ancestors(i) :
    Less(heap[i], heap[a], CaseOrder(case)) =>
      \E d \in {i} \cup {x \in Ancestors(i) : x > a} : case[heap[d]].status = COMPLETED

\* main.py:101 returns None because there are "no more cases unclaimed or
\* leased-claimed to take": then no case is claimable at that reading of the clock.
NoneMeansNoneClaimable ==
  [][\A w \in Workers : ClaimNone(w) =>
       \A c \in Cases : case[c].status \in {UNCLAIMED, CLAIMED} => ~Claimable(c, now[w])]_caseVars
================================================================================
