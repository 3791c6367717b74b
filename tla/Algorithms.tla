-------------------------------- MODULE Algorithms --------------------------------
(***************************************************************************)
(* The three katas that are about an algorithm: cheapest paths between     *)
(* currencies (src/kata-021-grafos), tickets by priority                   *)
(* (src/kata-019-algorithms) and a Bloom filter of blocked cards           *)
(* (src/kata-020-bloomfilter); and heapq, which four katas lean on.  None  *)
(* of them locks anything.  A dict that has no entry for a node stands for *)
(* the distance infinity.                                                  *)
(***************************************************************************)
EXTENDS Externals, SequencesExt, TLC

CONSTANTS
  Items, MaxSize,    \* numbers to push, and a bound on the size of the heap
  Currencies,        \* numbers, ordered as their names are
  Weights, MaxEdges, \* MaxEdges: bound on the conversions that are added
  TicketIds,         \* numbers, ordered as the ids are
  TicketPriorities,
  NUMBER_OF_BITS, NUMBER_OF_HASHES,
  CardNumbers        \* pairs of hashes, which is all the filter knows of a card

VARIABLES
  heap, bag,       \* a list that only heapq touches, and how often each item is to be in it
  popped,          \* the item that the last step has popped, as a set
  edges,           \* the conversions, in the order in which they were added
  priorityOf,      \* _tickets_by_id: the priority of every ticket that was added
  resolved,        \* the tickets whose status is RESOLVED
  ticketHeap,      \* _ordered_tickets_by_priority_desc
  handed,          \* the tickets that get_most_urgent has returned, in order
  hashedBits,      \* _hashed_bits: the bits set in each byte
  blocked          \* history: the cards that were added

heapVars == <<heap, bag, popped>>
pathVars == <<edges>>
triageVars == <<priorityOf, resolved, ticketHeap, handed>>
filterVars == <<hashedBits, blocked>>

Init ==
  /\ heap = <<>> /\ bag = [x \in Items |-> 0] /\ popped = {}
  /\ edges = <<>>
  /\ priorityOf = <<>> /\ resolved = {} /\ ticketHeap = <<>> /\ handed = <<>>
  /\ hashedBits = [i \in 0 .. ((NUMBER_OF_BITS + 7) \div 8) - 1 |-> {}]
  /\ blocked = {}

--------------------------------------------------------------------------------
(* heapq under an order that is fixed, as its documentation asks.          *)
Fixed == {p \in Items \X Items : p[1] < p[2]}

Push(x) ==
  /\ Len(heap) < MaxSize
  /\ heap' = HeapPush(heap, x, Fixed)
  /\ bag' = [bag EXCEPT ![x] = @ + 1]
  /\ popped' = {}

Pop ==
  /\ heap # <<>>
  /\ popped' = {heap[1]}
  /\ heap' = HeapPop(heap, Fixed)
  /\ bag' = [bag EXCEPT ![heap[1]] = @ - 1]

HeapNext == Pop \/ \E x \in Items : Push(x)

--------------------------------------------------------------------------------
(* Cheapest paths.  A search is the record of its two dictionaries.        *)
AddConversion(a, b, w) ==
  /\ Len(edges) < MaxEdges
  /\ edges' = Append(edges, [source |-> a, target |-> b, weight |-> w])

PathNext == \E a, b \in Currencies, w \in Weights : AddConversion(a, b, w)

\* d[k] = v, for a dict d.
Put(d, k, v) == [x \in DOMAIN d \cup {k} |-> IF x = k THEN v ELSE d[x]]

Start(a) == [dist |-> Put(<<>>, a, 0), via |-> <<>>]

Cheaper(s, n, d) == n \notin DOMAIN s.dist \/ d < s.dist[n]

Reach(s, e, d) == [dist |-> Put(s.dist, e.target, d), via |-> Put(s.via, e.target, e.source)]

\* One of the neighbours of a node that was popped: if it is reached more cheaply, it is
\* pushed.  The first search is the record of its dictionaries and its heap; entries are
\* equal only if they are the same, so the heap is a set.
ExpandEdge(r, entry, e) ==
  LET d == entry.weight + e.weight IN
  IF e.source = entry.node /\ Cheaper(r.search, e.target, d)
  THEN [search |-> Reach(r.search, e, d), open |-> r.open \cup {[weight |-> d, node |-> e.target]}]
  ELSE r

First(open) ==
  CHOOSE e \in open : \A f \in open :
    e.weight < f.weight \/ (e.weight = f.weight /\ e.node <= f.node)

\* Mutant: the search stops when it first sees the target, not when it pops it.
Done_Eager(r, to) == r.open = {} \/ to \in DOMAIN r.search.dist

\* The loop ends at an empty heap, or when it pops the target.
Done(r, to) == r.open = {} \/ First(r.open).node = to

\* An entry that was pushed before a cheaper one for its node is passed over.
PopEntry(r) ==
  LET entry == First(r.open)
      rest == [r EXCEPT !.open = @ \ {entry}]
      expanded[i \in 0 .. Len(edges)] ==
        IF i = 0 THEN rest ELSE ExpandEdge(expanded[i - 1], entry, edges[i])
  IN  IF entry.weight > r.search.dist[entry.node] THEN rest ELSE expanded[Len(edges)]

\* Without negative weights a node is popped once that is not passed over, so every
\* edge is pushed once at most: that bounds the loop.
Dijkstra(a, to) ==
  LET loop[k \in 0 .. Len(edges) + 1] ==
        IF k = 0 THEN [search |-> Start(a), open |-> {[weight |-> 0, node |-> a]}]
        ELSE LET r == loop[k - 1] IN IF Done(r, to) THEN r ELSE PopEntry(r)
  IN  loop[Len(edges) + 1].search

RelaxEdge(s, e) ==
  IF e.source \in DOMAIN s.dist /\ Cheaper(s, e.target, s.dist[e.source] + e.weight)
  THEN Reach(s, e, s.dist[e.source] + e.weight)
  ELSE s

\* One _pass over the edges, in their order, on dictionaries that change on the way.
Pass(s) ==
  LET passed[i \in 0 .. Len(edges)] == IF i = 0 THEN s ELSE RelaxEdge(passed[i - 1], edges[i])
  IN  passed[Len(edges)]

\* Leaving the loop early changes nothing: a pass that changes nothing repeats itself.
Relax(s, n) ==
  LET relaxed[k \in 0 .. n] == IF k = 0 THEN s ELSE Pass(relaxed[k - 1]) IN relaxed[n]

\* The path, back from b; a node enters it once, which bounds the loop.
Walk(via, a, b) ==
  LET back == [p \in Seq(DOMAIN via \cup {a}) \ {<<>>} |-> IF p[1] = a THEN p ELSE <<via[p[1]]>> \o p]
      n == Cardinality(DOMAIN via)
  IN  Iterate(back, <<b>>, n)[n]

Answer(s, a, b) ==
  IF b \notin DOMAIN s.via THEN [kind |-> "infinite"]
  ELSE [kind |-> "path", weight |-> s.dist[b], path |-> Walk(s.via, a, b)]

Sources == {edges[i].source : i \in DOMAIN edges}
Nodes == Sources \cup {edges[i].target : i \in DOMAIN edges}

CheapestPath(a, b) ==
  IF a \notin Sources THEN [kind |-> "unknown"]
  ELSE Answer(Dijkstra(a, b), a, b)

CheapestPathWithNegative(a, b) ==
  LET s == Relax(Start(a), Cardinality(Nodes) - 1) IN
  CASE a \notin Nodes -> [kind |-> "unknown"]
    [] a \in Nodes /\ Pass(s) # s -> [kind |-> "loop"]
    [] OTHER -> Answer(s, a, b)

--------------------------------------------------------------------------------
(* Tickets: the heap is ordered by the negated priority, then by the id.   *)
Urgent ==
  {p \in (DOMAIN priorityOf) \X (DOMAIN priorityOf) :
     LET a == p[1]  b == p[2] IN
     priorityOf[a] > priorityOf[b] \/ (priorityOf[a] = priorityOf[b] /\ a < b)}

AddTicket(t, p) ==
  /\ t \notin DOMAIN priorityOf
  /\ priorityOf' = Put(priorityOf, t, p)
  /\ ticketHeap' = HeapPush(ticketHeap, t, Urgent')
  /\ UNCHANGED <<resolved, handed>>

\* The heap without the resolved tickets on top of it.
SkipResolved(h) == PopWhile(h, resolved, Urgent)

GetMostUrgent ==
  LET h == SkipResolved(ticketHeap) IN
  /\ ticketHeap # <<>>
  /\ ticketHeap' = IF h = <<>> THEN h ELSE HeapPop(h, Urgent)
  /\ handed' = handed \o SubSeq(h, 1, IF h = <<>> THEN 0 ELSE 1)
  /\ UNCHANGED <<priorityOf, resolved>>

ResolveTicket(t) ==
  /\ t \in DOMAIN priorityOf
  /\ resolved' = resolved \cup {t}
  /\ UNCHANGED <<priorityOf, ticketHeap, handed>>

\* What is popped from a copy of the heap is listed if it is pending.
ListPending ==
  LET pop == [r \in [heap : Seq(DOMAIN priorityOf), list : Seq(DOMAIN priorityOf)] |->
                IF r.heap = <<>> THEN r
                ELSE [heap |-> HeapPop(r.heap, Urgent),
                      list |-> IF r.heap[1] \in resolved THEN r.list ELSE Append(r.list, r.heap[1])]]
      n == Len(ticketHeap)
  IN  Iterate(pop, [heap |-> ticketHeap, list |-> <<>>], n)[n].list

TriageNext ==
  \/ \E t \in TicketIds : ResolveTicket(t) \/ \E p \in TicketPriorities : AddTicket(t, p)
  \/ GetMostUrgent

--------------------------------------------------------------------------------
(* The Bloom filter.                                                       *)
Hashes(c) == {(c[1] + i * c[2]) % NUMBER_OF_BITS : i \in 0 .. NUMBER_OF_HASHES - 1}

Add(c) ==
  /\ hashedBits' = [byte \in DOMAIN hashedBits |->
       hashedBits[byte] \cup {h % 8 : h \in {x \in Hashes(c) : x \div 8 = byte}}]
  /\ blocked' = blocked \cup {c}

MightBeBlocked(c) == \A h \in Hashes(c) : h % 8 \in hashedBits[h \div 8]

FilterNext == \E c \in CardNumbers : Add(c)

--------------------------------------------------------------------------------
Next ==
  \/ HeapNext /\ UNCHANGED <<pathVars, triageVars, filterVars>>
  \/ PathNext /\ UNCHANGED <<heapVars, triageVars, filterVars>>
  \/ TriageNext /\ UNCHANGED <<heapVars, pathVars, filterVars>>
  \/ FilterNext /\ UNCHANGED <<heapVars, pathVars, triageVars>>

Spec == Init /\ [][Next]_<<heapVars, pathVars, triageVars, filterVars>>

--------------------------------------------------------------------------------
\* The list holds what was pushed and not popped, each as often as it was pushed.
SameItems ==
  /\ heap \in Seq(Items)
  /\ \A x \in Items : bag[x] = Cardinality({i \in DOMAIN heap : heap[i] = x})

\* Every pop takes a smallest item, and leaves a heap.
PopsSmallest == IsHeap(heap, Fixed) /\ \A m \in popped, x \in Range(heap) : m <= x

--------------------------------------------------------------------------------
(* What a path is: no node twice, and between neighbours the best edge.    *)
Between(a, b) == {edges[i].weight : i \in {j \in DOMAIN edges : edges[j].source = a /\ edges[j].target = b}}

IsPath(p) == IsInjective(p) /\ \A i \in 1 .. Len(p) - 1 : Between(p[i], p[i + 1]) # {}

Cost(p) ==
  LET cost[i \in 1 .. Len(p)] == IF i = 1 THEN 0 ELSE cost[i - 1] + Min(Between(p[i - 1], p[i]))
  IN  cost[Len(p)]

SimplePaths == {p \in UNION {[1 .. n -> Nodes] : n \in 1 .. Cardinality(Nodes)} : IsPath(p)}

Paths(a, b) == {p \in SimplePaths : p[1] = a /\ p[Len(p)] = b}

\* A cycle is a path whose end is joined to its beginning.
LoopReachable(a) ==
  \E p \in SimplePaths :
    LET back == Between(p[Len(p)], p[1]) IN
    Paths(a, p[1]) # {} /\ back # {} /\ Cost(p) + Min(back) < 0

IsCheapest(answer, a, b) ==
  IF a = b \/ Paths(a, b) = {} THEN answer.kind = "infinite"
  ELSE /\ answer.kind = "path" /\ answer.path \in Paths(a, b)
       /\ answer.weight = Cost(answer.path)
       /\ \A p \in Paths(a, b) : answer.weight <= Cost(p)

\* Without negative weights Dijkstra's search returns a path of the least weight there
\* is, and says infinity when there is none (also from a currency to itself).
PathsAreCheapest ==
  (\A i \in DOMAIN edges : edges[i].weight >= 0) =>
    \A a \in Sources, b \in Currencies : IsCheapest(CheapestPath(a, b), a, b)

\* With negative weights the other search does, or says that the source reaches a loop
\* of negative weight, and says so of no other.
NegativePathsAreCheapest ==
  \A a \in Nodes, b \in Currencies :
    LET answer == CheapestPathWithNegative(a, b) IN
    /\ (answer.kind = "loop") <=> LoopReachable(a)
    /\ answer.kind # "loop" => IsCheapest(answer, a, b)

Pending == DOMAIN priorityOf \ (resolved \cup Range(handed))

\* What is listed is every pending ticket that was not handed out, once, and the most
\* urgent first, whatever was resolved inside the heap.
PendingListed ==
  /\ Range(ListPending) = Pending
  /\ \A i, j \in DOMAIN ListPending : i < j => Less(ListPending[i], ListPending[j], Urgent)

\* No ticket is handed out twice, resolved, or before a pending one more urgent.
MostUrgentFirst ==
  [][handed' # handed =>
       \E t \in Pending : handed' = Append(handed, t) /\ \A u \in Pending : ~Less(u, t, Urgent)]_triageVars

\* The filter has room for every hash, and never clears a card that was added.
NoFalseNegatives ==
  /\ \A c \in CardNumbers : \A h \in Hashes(c) : h \div 8 \in DOMAIN hashedBits
  /\ \A c \in blocked : MightBeBlocked(c)
================================================================================
