------------------------------- MODULE Externals -------------------------------
(***************************************************************************)
(* What the katas lean on and do not hold themselves, modelled from how    *)
(* they use it: heapq of the Python library, and the row locks of          *)
(* PostgreSQL.                                                             *)
(***************************************************************************)
EXTENDS Integers, Sequences, FiniteSetsExt

--------------------------------------------------------------------------------
(* heapq.heappush and heapq.heappop, on a list (a sequence, h[1] the root) *)
(* and an order that may have changed since the elements were pushed, the  *)
(* set of pairs whose first comes before the second.  Nothing here assumes *)
(* that h is a heap; the algorithms do what they do.                       *)

\* What a loop goes through that begins with x and steps by f, n times.
Iterate(f, x, n) == LET g[k \in 0 .. n] == IF k = 0 THEN x ELSE f[g[k - 1]] IN g

\* The place above the root is 0.
Parent(i) == i \div 2

Ancestors(i) ==
  LET up == Iterate([j \in 0 .. i |-> Parent(j)], i, i) IN {up[k] : k \in 1 .. i} \ {0}

\* x.__lt__(y), all that heapq asks about items.
Less(x, y, before) == <<x, y>> \in before

\* Mutant: always the left child.
SmallerChild_Left(h, i, before) == IF 2 * i > Len(h) THEN i ELSE 2 * i

\* The child that heappop moves up: the smaller one, the right one on ties.
SmallerChild(h, i, before) ==
  IF 2 * i > Len(h) THEN i
  ELSE IF 2 * i < Len(h) /\ ~Less(h[2 * i], h[2 * i + 1], before) THEN 2 * i + 1
  ELSE 2 * i

\* _siftdown: the item at pos passes the ancestors it comes before, up to the
\* first one it does not; each of those moves one place down.
SiftDown(h, pos, before) ==
  LET item == h[pos]
      stays == {a \in Ancestors(pos) : ~Less(item, h[a], before)}
      passed == {a \in Ancestors(pos) : \A s \in stays : s < a}
      place == Min(passed \cup {pos})
  IN  [i \in 1 .. Len(h) |->
         CASE i = place -> item
           [] i # place /\ i \in passed \cup {pos} -> h[Parent(i)]
           [] OTHER -> h[i]]

\* _siftup: the smaller children move up along one path to a leaf, the item of the
\* root goes to the leaf and is sifted back from there.
SiftUp(h, before) ==
  LET path == Iterate([i \in 1 .. Len(h) |-> SmallerChild(h, i, before)], 1, Len(h))
      leaf == path[Len(h)]
      onPath == {path[k] : k \in 0 .. Len(h)}
  IN  SiftDown([i \in 1 .. Len(h) |->
                  CASE i = leaf -> h[1]
                    [] i # leaf /\ i \in onPath -> h[SmallerChild(h, i, before)]
                    [] OTHER -> h[i]],
               leaf, before)

HeapPush(h, x, before) == SiftDown(Append(h, x), Len(h) + 1, before)

\* What heappop leaves behind; what it returns is h[1].
HeapPop(h, before) ==
  LET rest == SubSeq(h, 1, Len(h) - 1)
  IN  IF rest = <<>> THEN rest ELSE SiftUp([rest EXCEPT ![1] = h[Len(h)]], before)

\* What a loop that pops leaves of h when it stops at the first item not in gone.
PopWhile(h, gone, before) ==
  LET pop == [g \in Seq({h[i] : i \in DOMAIN h}) |->
                IF g # <<>> /\ g[1] \in gone THEN HeapPop(g, before) ELSE g]
  IN  Iterate(pop, h, Len(h))[Len(h)]

IsHeap(h, before) == \A i \in 2 .. Len(h) : ~Less(h[i], h[Parent(i)], before)

--------------------------------------------------------------------------------
(* What PostgreSQL does at READ COMMITTED for                              *)
(*   SELECT ... WHERE ... ORDER BY ... LIMIT 1 FOR UPDATE SKIP LOCKED      *)
(* as the postgres_service.py of four katas send it.  The statement sorts  *)
(* the rows that match in its snapshot, passes those another transaction   *)
(* has locked, and tests the WHERE again on a row that was committed to    *)
(* since the snapshot; it locks the first row that is left.                *)

\* matched: the rows that matched in the snapshot, in the order of rank; matching:
\* those that match now.  Rows of equal rank may come in any order.
Lockable(matched, matching, free) == matched \cap matching \cap free

FirstLockable(matched, matching, free, rank) ==
  LET rows == Lockable(matched, matching, free)
  IN  {r \in rows : \A s \in rows : rank[r] <= rank[s]}
================================================================================
