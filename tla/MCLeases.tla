--------------------------------- MODULE MCLeases ---------------------------------
(***************************************************************************)
(* Instances of the services that lease entries to workers, from a heap    *)
(* (CardStatusService, CaseService) and from rows (CardStatusRows and      *)
(* CaseRows), and of the algorithms, heapq's among them.  They share no    *)
(* state, so a behaviour runs one of them, its subject.  The services with a heap    *)
(* have one of two shapes: wide, with two workers on three entries of one  *)
(* priority, or deep, with one worker in a call at a time and less time on *)
(* four entries, the least that give the heap an inner path.               *)
(***************************************************************************)
EXTENDS CardStatusService, TLC

CONSTANTS
  Subjects,  \* what a run explores, of "card", "case", "heapq", "card rows", "case rows",
             \* "paths", "triage" and "filter"
  Shapes,    \* of "wide" and "deep"
  Cases, Priorities, Items, MaxSize,
  RowEvents, RowCases, RowTime,
  Currencies, Weights, MaxEdges, TicketIds, TicketPriorities,
  NUMBER_OF_BITS, NUMBER_OF_HASHES, CardNumbers,
  w1, w2

ASSUME RowAssumption == RowTime \in Nat \ {0} /\ Null \notin Workers
ASSUME CaseAssumption == Cases \subseteq Nat /\ Priorities \subseteq Nat
ASSUME AlgorithmsAssumption ==
  /\ Items \subseteq Int /\ TicketIds \subseteq Int /\ TicketPriorities \subseteq Int
  /\ Currencies \subseteq Int /\ Weights \subseteq Int
  /\ NUMBER_OF_BITS \in Nat \ {0} /\ NUMBER_OF_HASHES \in Nat
  /\ CardNumbers \subseteq Int \X Int

VARIABLES
  subject, shape,
  caseRecords, caseHeap, caseClock, caseNow,
  refHeap, refBag, refPopped,
  cardRow, of, eventRow, eventLock, eventClock, eventNow, eventSeen,
  caseRow, caseLock, caseRowClock, caseRowNow, caseSeen,
  edges, priorityOf, resolved, ticketHeap, handed, hashedBits, blocked

PathWeights == {-2, 1, 3}
HashPairs == {<<0, 1>>, <<8, 8>>, <<5, 7>>, <<3, 0>>}

TwoWorkers == {w1, w2}
Symmetry ==
  {w @@ e @@ c : w \in Permutations(Workers), e \in Permutations(RowEvents),
                 c \in Permutations(RowCases)}

Case == INSTANCE CaseService WITH
  case <- caseRecords, heap <- caseHeap, clock <- caseClock, now <- caseNow

CardRows == INSTANCE CardStatusRows WITH
  Events <- RowEvents, MaxTime <- RowTime,
  card <- cardRow, event <- eventRow, lock <- eventLock, clock <- eventClock, now <- eventNow,
  seen <- eventSeen

CaseRows == INSTANCE CaseRows WITH
  Cases <- RowCases, MaxTime <- RowTime,
  case <- caseRow, lock <- caseLock, clock <- caseRowClock, now <- caseRowNow, seen <- caseSeen

Alg == INSTANCE Algorithms WITH heap <- refHeap, bag <- refBag, popped <- refPopped

mcCaseVars == <<caseRecords, caseHeap, caseClock, caseNow>>
mcRefVars == <<refHeap, refBag, refPopped>>
mcCardRowVars == <<cardRow, of, eventRow, eventLock, eventClock, eventNow, eventSeen>>
mcCaseRowVars == <<caseRow, caseLock, caseRowClock, caseRowNow, caseSeen>>
mcTriageVars == <<priorityOf, resolved, ticketHeap, handed>>
mcFilterVars == <<hashedBits, blocked>>
mcAlgVars == <<mcRefVars, edges, mcTriageVars, mcFilterVars>>

InShape ==
  IF shape = "wide"
  THEN /\ \A e \in Events : e > 3 => status[e] = 0
       /\ \A c \in Cases : caseRecords[c].priority <= IF c > 3 THEN 0 ELSE 1
  ELSE /\ clock <= 2 /\ caseClock = 1
       /\ \A c \in Cards : cards[c] # "unfrozen"
       /\ Cardinality({w \in Workers : now[w] # Null}) <= 1
       /\ Cardinality({w \in Workers : caseNow[w] # Null \/ \E c \in Cases : caseRecords[c].worker = w}) <= 1

MCInit ==
  /\ subject \in Subjects /\ shape \in Shapes
  /\ Init /\ Case!Init /\ CardRows!Init /\ CaseRows!Init /\ Alg!Init
  /\ subject \in {"card", "case"} \/ shape = "wide"
  /\ subject = "card rows" \/ \A c \in Cards : cardRow[c] = "frozen"

MCNext ==
  /\ UNCHANGED <<subject, shape>>
  /\ \/ /\ subject = "card" /\ Next
        /\ UNCHANGED <<mcCaseVars, mcCardRowVars, mcCaseRowVars, mcAlgVars>>
     \/ /\ subject = "case" /\ Case!Next
        /\ UNCHANGED <<cardVars, mcCardRowVars, mcCaseRowVars, mcAlgVars>>
     \/ /\ subject = "card rows" /\ CardRows!Next
        /\ UNCHANGED <<cardVars, mcCaseVars, mcCaseRowVars, mcAlgVars>>
     \/ /\ subject = "case rows" /\ CaseRows!Next
        /\ UNCHANGED <<cardVars, mcCaseVars, mcCardRowVars, mcAlgVars>>
     \/ /\ \/ subject = "heapq" /\ Alg!HeapNext /\ UNCHANGED <<edges, mcTriageVars, mcFilterVars>>
           \/ subject = "paths" /\ Alg!PathNext /\ UNCHANGED <<mcRefVars, mcTriageVars, mcFilterVars>>
           \/ subject = "triage" /\ Alg!TriageNext /\ UNCHANGED <<mcRefVars, edges, mcFilterVars>>
           \/ subject = "filter" /\ Alg!FilterNext /\ UNCHANGED <<mcRefVars, edges, mcTriageVars>>
        /\ UNCHANGED <<cardVars, mcCaseVars, mcCardRowVars, mcCaseRowVars>>
  /\ InShape'

MCSpec ==
  /\ MCInit
  /\ [][MCNext]_<<subject, shape, cardVars, mcCaseVars, mcCardRowVars, mcCaseRowVars,
                 mcAlgVars>>

--------------------------------------------------------------------------------
\* The types of the four services, and what a row lock stands for in two of them.
LeaseTypes ==
  /\ TypeOK /\ Case!TypeOK /\ CardRows!TypeOK /\ CaseRows!TypeOK
  /\ CardRows!Claims!LockedIsClaimable /\ CaseRows!LockedIsClaimable

\* No event and no case is lost while it is open, or queued twice.
QueuedOnce == PendingQueuedOnce /\ Case!OpenQueuedOnce

\* An entry changes hands only by a reading of the clock past its lease, and one
\* that is done changes hands no more.
LeasesRespected ==
  /\ LeaseRespected /\ Case!LeaseRespected
  /\ CardRows!Claims!LeaseRespected /\ CaseRows!LeaseRespected

\* Only a key written in place puts the heap out of order, never a claim.
OnlyDoneDisturbs == OnlyDeliveriesDisturb /\ Case!OnlyCompletionsDisturb

\* heapq's algorithms, as modelled, are a bag from which the smallest is taken; and
\* with keys that do not change, tickets leave the heap by urgency, whatever is
\* resolved inside it.
HeapIsPriorityQueue == [](Alg!SameItems /\ Alg!PopsSmallest) /\ Alg!MostUrgentFirst

\* The two searches for paths, the list of tickets and the filter agree with what they
\* are said to find.
AlgorithmsAgree ==
  /\ Alg!PathsAreCheapest /\ Alg!NegativePathsAreCheapest
  /\ Alg!PendingListed /\ Alg!NoFalseNegatives

\* kata-023-focused/main.py:101 returns None because there are "no more cases
\* unclaimed or leased-claimed to take".
CaseNoneMeansNone == Case!NoneMeansNoneClaimable
===================================================================================
