--------------------------- MODULE CardStatusService ---------------------------
(***************************************************************************)
(* src/kata-022-focused: freezing and unfreezing a card puts an event on   *)
(* an outbox heap; workers claim the next event under a lease of TTL and   *)
(* mark it delivered.  Every method is one section under the service lock, *)
(* except that claim_next_event reads the clock before it takes the lock.  *)
(* mark_delivered changes an event's key while the event is in the heap.   *)
(***************************************************************************)
EXTENDS Externals, FiniteSets

CONSTANTS
  Cards, Workers,
  Events,    \* event ids uuid4 may hand out, ordered as UUIDs are
  TTL,       \* CLAIM_TTL_IN_SECONDS
  MaxTime,   \* bound on the clock
  Null

ASSUME CardAssumption == Events \subseteq Nat /\ TTL \in Nat /\ MaxTime \in Nat \ {0}

\* EventStatus, with enum.auto's numbers; 0 is an event not yet created.
DELIVERED == 1
NOT_DELIVERED == 2
CLAIMED == 3

VARIABLES
  cards,      \* _cards_by_id: "absent" or the status
  status,     \* status and claimed_at of each event; claimed_at is 0 for
  claimedAt,  \* datetime.min
  heap,       \* _ordered_events
  clock,
  now         \* now[w]: what a worker inside claim_next_event read, or Null

cardVars == <<cards, status, claimedAt, heap, clock, now>>

InHeap == {heap[i] : i \in DOMAIN heap}

TypeOK ==
  /\ cards \in [Cards -> {"absent", "frozen", "unfrozen"}]
  /\ status \in [Events -> 0 .. 3]
  /\ claimedAt \in [Events -> 0 .. MaxTime]
  /\ heap \in Seq(Events)
  /\ clock \in 1 .. MaxTime
  /\ now \in [Workers -> (1 .. MaxTime) \cup {Null}]

Init ==
  /\ cards = [c \in Cards |-> "absent"]
  /\ status = [e \in Events |-> 0]
  /\ claimedAt = [e \in Events |-> 0]
  /\ heap = <<>>
  /\ clock = 1
  /\ now = [w \in Workers |-> Null]

\* The order dataclass(order=True) gives Event, for the given fields.
EventOrder(st, cl) ==
  {p \in Events \X Events :
     LET a == p[1]  b == p[2] IN
     \/ st[a] < st[b]
     \/ st[a] = st[b] /\ cl[a] < cl[b]
     \/ st[a] = st[b] /\ cl[a] = cl[b] /\ a < b}

PushEvent(h, st, cl, e) == HeapPush(h, e, EventOrder(st, cl))
PopEvent(h) == HeapPop(h, EventOrder(status, claimedAt))

--------------------------------------------------------------------------------
AddCard(c, s) ==
  /\ cards[c] = "absent"
  /\ cards' = [cards EXCEPT ![c] = s]
  /\ UNCHANGED <<status, claimedAt, heap, clock, now>>

\* freeze_card and unfreeze_card.
SetCard(c, s, e) ==
  /\ cards[c] # "absent"
  /\ status[e] = 0
  /\ cards' = [cards EXCEPT ![c] = s]
  /\ status' = [status EXCEPT ![e] = NOT_DELIVERED]
  /\ heap' = PushEvent(heap, status', claimedAt, e)
  /\ UNCHANGED <<claimedAt, clock, now>>

\* Mutant: the event moves to the next status instead.
MarkDelivered_Advances(e) ==
  /\ status[e] # 0
  /\ status' = [status EXCEPT ![e] = @ + 1]
  /\ UNCHANGED <<cards, claimedAt, heap, clock, now>>

MarkDelivered(e) ==
  /\ status[e] # 0
  /\ status' = [status EXCEPT ![e] = DELIVERED]
  /\ UNCHANGED <<cards, claimedAt, heap, clock, now>>

--------------------------------------------------------------------------------
\* claim_next_event.
CallClaim(w) ==
  /\ now[w] = Null
  /\ now' = [now EXCEPT ![w] = clock]
  /\ UNCHANGED <<cards, status, claimedAt, heap, clock>>

\* What is left when the loop has dropped the delivered events it pops.
Undelivered ==
  PopWhile(heap, {e \in Events : status[e] = DELIVERED}, EventOrder(status, claimedAt))

\* claim_is_not_expired
NotExpired(e, t) == claimedAt[e] + TTL >= t

\* Mutant: the lease ends one tick early.
Claimable_Early(e, t) == status[e] = NOT_DELIVERED \/ claimedAt[e] + TTL <= t

Claimable(e, t) == status[e] = NOT_DELIVERED \/ ~NotExpired(e, t)

Return(w) ==
  /\ now[w] # Null
  /\ now' = [now EXCEPT ![w] = Null]
  /\ UNCHANGED <<cards, clock>>

\* The next event is fresh or its lease has run out: it is leased to the caller.
ClaimNext(w) ==
  LET h == Undelivered  e == h[1] IN
  /\ Return(w)
  /\ h # <<>> /\ Claimable(e, now[w])
  /\ claimedAt' = [claimedAt EXCEPT ![e] = now[w]]
  /\ status' = [status EXCEPT ![e] = CLAIMED]
  /\ heap' = PushEvent(PopEvent(h),
                       status', claimedAt', e)

\* The queue is empty, or the next event is still leased: None is returned.
ClaimNone(w) ==
  LET h == Undelivered IN
  /\ Return(w)
  /\ h # <<>> => ~Claimable(h[1], now[w])
  /\ heap' = IF h = <<>> THEN h
             ELSE PushEvent(PopEvent(h),
                            status, claimedAt, h[1])
  /\ UNCHANGED <<status, claimedAt>>

Tick ==
  /\ clock < MaxTime
  /\ clock' = clock + 1
  /\ UNCHANGED <<cards, status, claimedAt, heap, now>>

Next ==
  \/ \E c \in Cards, s \in {"frozen", "unfrozen"} :
       AddCard(c, s) \/ \E e \in Events : SetCard(c, s, e)
  \/ \E e \in Events : MarkDelivered(e)
  \/ \E w \in Workers : CallClaim(w) \/ ClaimNext(w) \/ ClaimNone(w)
  \/ Tick

Spec == Init /\ [][Next]_cardVars

--------------------------------------------------------------------------------
\* No event is lost and none is queued twice: what is not delivered yet is in the
\* heap, through every pop and push of claims that succeed, fail or drop others.
PendingQueuedOnce ==
  /\ \A e \in Events : status[e] \in {NOT_DELIVERED, CLAIMED} => e \in InHeap
  /\ Cardinality(InHeap) = Len(heap)

\* An event leased to a worker is not leased again by a clock reading that falls
\* within the lease, and a delivered event is not leased again at all.
LeaseRespected ==
  [][\A e \in Events :
       /\ status[e] = DELIVERED => status'[e] = DELIVERED
       /\ status[e] = CLAIMED /\ claimedAt'[e] # claimedAt[e] => claimedAt'[e] > claimedAt[e] + TTL
    ]_cardVars

\* Where the heap is out of order, an event delivered in place is the reason: an
\* event that comes before one above it has a delivered event on the path between.
OnlyDeliveriesDisturb ==
  \A i \in DOMAIN heap : \A a \in Ancestors(i) :
    Less(heap[i], heap[a], EventOrder(status, claimedAt)) =>
      \E d \in {i} \cup {x \in Ancestors(i) : x > a} : status[heap[d]] = DELIVERED
================================================================================
