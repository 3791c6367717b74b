----------------------------- MODULE MCLeases_proofs -----------------------------
(***************************************************************************)
(* Theorems about MCLeases: the four services that lease entries to        *)
(* workers, for any workers, entries, lease and clock, heapq by itself,    *)
(* and the algorithms, of which Paths_proofs has the searches.  Those      *)
(* about heaps rest on what heapq's sifts do to a list of any length,      *)
(* which comes first: under any order they rearrange it, and under one     *)
(* that sorts they put it in order.                                        *)
(***************************************************************************)
EXTENDS Paths_proofs

--------------------------------------------------------------------------------
(* The places of a heap.                                                   *)

LEMMA ParentIs ==
  ASSUME NEW i \in Nat
  PROVE  /\ Parent(i) \in Nat
         /\ i > 0 => Parent(i) < i
         /\ i > 1 => Parent(i) >= 1
         /\ Parent(0) = 0
  BY DEF Parent

LEMMA ParentOfChildren ==
  ASSUME NEW i \in Nat
  PROVE  Parent(2 * i) = i /\ Parent(2 * i + 1) = i
  BY DEF Parent

\* The places above a place are a chain from it to the root.
LEMMA Chain ==
  ASSUME NEW i \in Nat, i >= 1
  PROVE  /\ Ancestors(i) \subseteq 1 .. i - 1
         /\ \A a \in Ancestors(i) \cup {i} : a > 1 => Parent(a) \in Ancestors(i)
         /\ \A a, b \in Ancestors(i) \cup {i} : a < b => a <= Parent(b)
<1> DEFINE f == [j \in 0 .. i |-> Parent(j)]
           m == [j \in 0 .. i |-> j]
           S == 0 .. i
           up == Iterate(f, i, i)
<1>1. f \in [S -> S] /\ m \in [S -> Nat] /\ i \in S /\ m[i] <= i
  <2>1. \A j \in 0 .. i : Parent(j) \in 0 .. i
    BY ParentIs
  <2> QED
    BY <2>1
<1>2. up \in [0 .. i -> S] /\ Orbit(up, f, i, i)
  <2> HIDE DEF f, S
  <2> QED
    BY <1>1, IterateOrbit
<1>3. \A s \in S : f[s] = s \/ m[f[s]] < m[s]
  <2>1. \A j \in 0 .. i : Parent(j) \in 0 .. i /\ (j > 0 => Parent(j) < j) /\ Parent(0) = 0
    BY ParentIs
  <2> QED
    BY <2>1
<1>4. /\ \A a, b \in 0 .. i : a <= b => m[up[b]] <= m[up[a]]
      /\ f[up[i]] = up[i]
  <2> HIDE DEF up, f, m, S
  <2>1. Falling(S, f, m, i, i, up)
    BY <1>1, <1>2, <1>3 DEF Falling
  <2> QED
    BY <1>1, <2>1, OrbitFalls
<1>5. \A k \in 0 .. i : up[k] \in 0 .. i
  BY <1>2
<1>6. \A a, b \in 0 .. i : a <= b => up[b] <= up[a]
  BY <1>4, <1>5
<1>7. up[i] = 0
  <2>1. up[i] \in 0 .. i
    BY <1>5
  <2>2. f[up[i]] = Parent(up[i])
    BY <2>1
  <2> HIDE DEF up, f
  <2> QED
    BY <1>4, <2>1, <2>2, ParentIs
<1>8. up[0] = i /\ \A k \in 1 .. i : up[k] = Parent(up[k - 1])
  <2>1. \A k \in 1 .. i : k - 1 \in 0 .. i /\ up[k - 1] \in 0 .. i
    BY <1>5
  <2> QED
    BY <1>2, <2>1 DEF Orbit
<1>9. \A k \in 0 .. i : k + 1 <= i => k + 1 \in 1 .. i /\ up[k + 1] = Parent(up[k])
  <2>1. \A k \in 0 .. i : k + 1 <= i => k + 1 \in 1 .. i /\ (k + 1) - 1 = k
    OBVIOUS
  <2> QED
    BY <1>8, <2>1
<1>10. Ancestors(i) = {up[k] : k \in 1 .. i} \ {0}
  BY DEF Ancestors
<1> HIDE DEF up
<1>11. \A a : a \in Ancestors(i) => \E k \in 1 .. i : a = up[k] /\ a # 0
  BY <1>10
<1>12. \A k \in 1 .. i : up[k] # 0 => up[k] \in Ancestors(i)
  BY <1>10
<1>13. \A a \in Ancestors(i) \cup {i} : \E k \in 0 .. i : a = up[k] /\ a # 0
  BY <1>8, <1>11
<1>14. ASSUME NEW a \in Ancestors(i) PROVE a \in 1 .. i - 1
  <2>1. PICK k \in 1 .. i : a = up[k] /\ a # 0
    BY <1>11
  <2>2. up[k] <= up[1] /\ up[1] = Parent(i) /\ up[k] \in Nat
    BY <1>5, <1>6, <1>8
  <2> QED
    BY <2>1, <2>2, ParentIs
<1>15. ASSUME NEW a \in Ancestors(i) \cup {i}, a > 1 PROVE Parent(a) \in Ancestors(i)
  <2>1. PICK k \in 0 .. i : a = up[k]
    BY <1>13
  <2>2. k # i
    BY <1>7, <1>15, <2>1
  <2>3. k + 1 \in 1 .. i /\ up[k + 1] = Parent(a)
    BY <1>9, <2>1, <2>2
  <2>4. a \in Nat
    BY <1>5, <2>1
  <2>5. Parent(a) \in Nat /\ Parent(a) >= 1
    BY <1>15, <2>4, ParentIs
  <2> QED
    BY <1>12, <2>3, <2>5
<1>16. ASSUME NEW a \in Ancestors(i) \cup {i}, NEW b \in Ancestors(i) \cup {i}, a < b
       PROVE  a <= Parent(b)
  <2>1. PICK k \in 0 .. i : a = up[k]
    BY <1>13
  <2>2. PICK l \in 0 .. i : b = up[l]
    BY <1>13
  <2>3. ~(k <= l)
    BY <1>5, <1>6, <1>16, <2>1, <2>2
  <2>4. l + 1 <= k /\ l + 1 <= i /\ l + 1 \in 0 .. i
    BY <2>3
  <2>5. up[l + 1] = Parent(b) /\ up[k] <= up[l + 1]
    BY <1>6, <1>9, <2>2, <2>4
  <2> QED
    BY <2>1, <2>5
<1> QED
  BY <1>14, <1>15, <1>16

\* Least is what Min returns.
LEMMA Least ==
  ASSUME NEW S, S \subseteq Nat, S # {}
  PROVE  Min(S) \in S /\ \A y \in S : Min(S) <= y
<1>1. IsWellFoundedOn({p \in Nat \X Nat : p[1] < p[2]}, Nat)
  BY NatLessThanWellFounded, Zenon DEF OpToRel
<1>2. \E x \in S : \A y \in S : <<y, x>> \notin {p \in Nat \X Nat : p[1] < p[2]}
  BY <1>1, WFMin
<1>3. \E x \in S : \A y \in S : ~(y < x)
  BY <1>2
<1>4. \E x \in S : \A y \in S : x <= y
  BY <1>3
<1> QED
  BY <1>4 DEF Min
--------------------------------------------------------------------------------
(* Both sifts rearrange the list, whatever the order and whether or not    *)
(* the list is a heap: at place i of the result is what was at place p[i]. *)

Rearrangements(n) == {p \in [1 .. n -> 1 .. n] : \A i, j \in 1 .. n : p[i] = p[j] => i = j}

Rearranged(h, p) == [i \in 1 .. Len(h) |-> h[p[i]]]

\* The items between the place and the position go to the place of their child, the
\* moved item to the place.
LEMMA SiftDownRearranges ==
  ASSUME NEW h, Len(h) \in Nat, NEW pos \in 1 .. Len(h), NEW before
  PROVE  \E p \in Rearrangements(Len(h)) : SiftDown(h, pos, before) = Rearranged(h, p)
<1> DEFINE n == Len(h)
           above == Ancestors(pos)
           stays == {a \in above : ~Less(h[pos], h[a], before)}
           passed == {a \in above : \A s \in stays : s < a}
           moved == passed \cup {pos}
           place == Min(moved)
           p == [i \in 1 .. n |-> IF i = place THEN pos ELSE IF i \in moved THEN Parent(i) ELSE i]
<1>1. /\ above \subseteq 1 .. pos - 1
      /\ \A a \in above \cup {pos} : a > 1 => Parent(a) \in above
      /\ \A a, b \in above \cup {pos} : a < b => a <= Parent(b)
  BY Chain
<1>2. pos \in Nat /\ pos >= 1 /\ pos <= n /\ n \in Nat
  OBVIOUS
<1>3. moved \subseteq 1 .. pos /\ passed \subseteq above /\ stays \subseteq above
  BY <1>1, <1>2
<1>4. place \in moved /\ \A a \in moved : place <= a
  <2>1. moved \subseteq Nat /\ moved # {}
    BY <1>3
  <2> HIDE DEF moved
  <2> QED
    BY <2>1, Least
<1>5. place \in 1 .. pos
  BY <1>3, <1>4
<1>6. SiftDown(h, pos, before) =
        [i \in 1 .. n |-> CASE i = place -> h[pos]
                            [] i # place /\ i \in moved -> h[Parent(i)]
                            [] OTHER -> h[i]]
  BY DEF SiftDown
<1>7. \A a \in above : (\A s \in stays : s < a) => a \in passed
  OBVIOUS
<1>8. \A a \in passed : \A s \in stays : s < a
  OBVIOUS
<1> HIDE DEF above, stays, passed, place
<1>9. ASSUME NEW i \in moved, i # place
      PROVE  Parent(i) \in passed /\ Parent(i) \in 1 .. pos - 1 /\ Parent(i) < i
  <2>1. i \in 1 .. pos /\ place < i
    BY <1>3, <1>4, <1>5, <1>9
  <2>2. i > 1 /\ i \in above \cup {pos} /\ place \in above \cup {pos}
    BY <1>3, <1>4, <1>5, <2>1
  <2>3. Parent(i) \in above /\ place <= Parent(i)
    BY <1>1, <2>1, <2>2
  <2>4. place \in passed
    BY <1>4, <2>1
  <2>5. \A s \in stays : s < Parent(i)
    <3> SUFFICES ASSUME NEW s \in stays PROVE s < Parent(i)
      OBVIOUS
    <3>1. s < place /\ s \in 1 .. pos - 1 /\ Parent(i) \in 1 .. pos - 1
      BY <1>1, <1>3, <1>8, <2>3, <2>4
    <3> QED
      BY <1>5, <2>3, <3>1
  <2>6. Parent(i) < i
    BY <2>1, <2>2, ParentIs
  <2> QED
    BY <1>1, <1>7, <2>3, <2>5, <2>6
<1>10. pos \in moved /\ pos \notin passed
  BY <1>1, <1>2, <1>3
<1>11. ASSUME NEW i \in 1 .. n
       PROVE  /\ i = place => p[i] = pos
              /\ i # place /\ i \in moved => p[i] = Parent(i)
              /\ i \notin moved => p[i] = i
  BY <1>4
<1>12. \A i \in 1 .. n : p[i] \in 1 .. n
  <2> SUFFICES ASSUME NEW i \in 1 .. n PROVE p[i] \in 1 .. n
    OBVIOUS
  <2>1. ASSUME i # place, i \in moved PROVE Parent(i) \in 1 .. n
    BY <1>2, <1>9, <2>1
  <2> HIDE DEF p
  <2> QED
    BY <1>11, <2>1
<1>13. ASSUME NEW i \in moved, NEW j \in moved, i # place, j # place, i < j PROVE Parent(i) # Parent(j)
  <2>1. i <= Parent(j)
    BY <1>1, <1>3, <1>13
  <2>2. Parent(i) < i /\ i \in Nat /\ Parent(i) \in Nat
    BY <1>3, <1>9, <1>13
  <2> QED
    BY <2>1, <2>2
<1>14. ASSUME NEW i \in moved, NEW j \in moved, i # place, j # place, Parent(i) = Parent(j) PROVE i = j
  <2>1. i \in Nat /\ j \in Nat
    BY <1>3
  <2>2. ~(i < j) /\ ~(j < i)
    BY <1>13, <1>14
  <2> QED
    BY <2>1, <2>2
<1>15. ASSUME NEW i \in 1 .. n, NEW j \in 1 .. n, p[i] = p[j] PROVE i = j
  <2> HIDE DEF p, moved
  <2>1. CASE i \in moved /\ j \in moved
    BY <1>9, <1>10, <1>11, <1>14, <1>15, <2>1
  <2>2. ASSUME NEW a \in 1 .. n, NEW b \in 1 .. n, a \in moved, b \notin moved PROVE p[a] # p[b]
    <3>1. p[b] = b
      BY <1>11, <2>2
    <3>2. p[a] \in moved
      BY <1>9, <1>10, <1>11, <2>2 DEF moved
    <3> QED
      BY <2>2, <3>1, <3>2
  <2> QED
    BY <1>11, <1>15, <2>1, <2>2
<1>16. p \in Rearrangements(n)
  <2> HIDE DEF n, moved
  <2> QED
    BY <1>12, <1>15 DEF Rearrangements
<1>17. SiftDown(h, pos, before) = Rearranged(h, p)
  <2>1. \A i \in 1 .. n : h[p[i]] = CASE i = place -> h[pos]
                                      [] i # place /\ i \in moved -> h[Parent(i)]
                                      [] OTHER -> h[i]
    OBVIOUS
  <2> QED
    BY <1>6, <2>1 DEF Rearranged
<1> QED
  BY <1>16, <1>17

LEMMA SmallerChildIs ==
  ASSUME NEW h, Len(h) \in Nat, NEW i \in 1 .. Len(h), NEW before
  PROVE  /\ SmallerChild(h, i, before) \in 1 .. Len(h)
         /\ \/ SmallerChild(h, i, before) = i
            \/ /\ i < SmallerChild(h, i, before)
               /\ Parent(SmallerChild(h, i, before)) = i
<1>1. SmallerChild(h, i, before) \in {i, 2 * i, 2 * i + 1}
  BY DEF SmallerChild
<1>2. SmallerChild(h, i, before) = i \/ SmallerChild(h, i, before) <= Len(h)
  BY DEF SmallerChild
<1>3. i < 2 * i /\ i < 2 * i + 1 /\ i \in Nat
  OBVIOUS
<1> DEFINE c == SmallerChild(h, i, before)
           left == 2 * i
           right == 2 * i + 1
<1>4. Parent(left) = i /\ Parent(right) = i
  BY <1>3, ParentOfChildren
<1>5. c \in {i, left, right} /\ (c = i \/ c <= Len(h)) /\ i < left /\ i < right /\ left \in Nat /\ right \in Nat
  BY <1>1, <1>2, <1>3
<1> HIDE DEF c, left, right
<1>6. c \in 1 .. Len(h) /\ (c = i \/ (i < c /\ Parent(c) = i))
  BY <1>4, <1>5
<1> QED
  BY <1>6 DEF c

\* heappop goes down from the root by the smaller children to a leaf, and the items of
\* that path move up by one.
Raised(h, leaf, before) ==
  [i \in 1 .. Len(h) |-> IF i = leaf THEN h[1]
                         ELSE IF i \in Ancestors(leaf) THEN h[SmallerChild(h, i, before)]
                         ELSE h[i]]

Descends(h, leaf, before) ==
  /\ leaf \in 1 .. Len(h) /\ SmallerChild(h, leaf, before) = leaf
  /\ 1 \in Ancestors(leaf) \cup {leaf}
  /\ \A a \in Ancestors(leaf) : SmallerChild(h, a, before) \in (Ancestors(leaf) \cup {leaf}) \ {a}
  /\ SiftUp(h, before) = SiftDown(Raised(h, leaf, before), leaf, before)

LEMMA SiftUpDescends ==
  ASSUME NEW h, Len(h) \in Nat, Len(h) >= 1, NEW before
  PROVE  \E leaf : Descends(h, leaf, before)
<1> DEFINE n == Len(h)
           S == 1 .. n
           f == [i \in 1 .. n |-> SmallerChild(h, i, before)]
           m == [i \in 1 .. n |-> n - i]
           path == Iterate(f, 1, n)
           leaf == path[n]
           onPath == {path[k] : k \in 0 .. n}
           P == Ancestors(leaf) \cup {leaf}
           raised == [i \in 1 .. n |-> CASE i = leaf -> h[1]
                                         [] i # leaf /\ i \in onPath -> h[SmallerChild(h, i, before)]
                                         [] OTHER -> h[i]]
<1>1. SiftUp(h, before) = SiftDown(raised, leaf, before)
  BY DEF SiftUp
<1>2. \A i \in S : f[i] \in S /\ (f[i] = i \/ (i < f[i] /\ Parent(f[i]) = i))
  <2> SUFFICES ASSUME NEW i \in S PROVE f[i] \in S /\ (f[i] = i \/ (i < f[i] /\ Parent(f[i]) = i))
    OBVIOUS
  <2>1. f[i] = SmallerChild(h, i, before)
    OBVIOUS
  <2> HIDE DEF f
  <2> QED
    BY <2>1, SmallerChildIs
<1>3. /\ f \in [S -> S] /\ m \in [S -> Nat] /\ \A i \in S : m[i] = n - i
      /\ 1 \in S /\ n \in Nat
      /\ \A i \in S : f[i] = SmallerChild(h, i, before)
  BY <1>2
<1>4. \A i \in 1 .. n : raised[i] = CASE i = leaf -> h[1]
                                      [] i # leaf /\ i \in onPath -> h[SmallerChild(h, i, before)]
                                      [] OTHER -> h[i]
  OBVIOUS
<1>5. raised = [i \in 1 .. n |-> raised[i]]
  OBVIOUS
<1>6. m[1] <= n
  BY <1>3
<1> HIDE DEF f, m, raised
<1>7. path \in [0 .. n -> S] /\ Orbit(path, f, 1, n)
  <2> HIDE DEF S, n
  <2> QED
    BY <1>3, IterateOrbit
<1> HIDE DEF path
<1>8. /\ \A k \in 0 .. n : f[path[k]] = path[k] => leaf = path[k]
      /\ f[leaf] = leaf
  <2>1. \A i \in S : f[i] = i \/ m[f[i]] < m[i]
    BY <1>2, <1>3
  <2>2. Falling(S, f, m, 1, n, path)
    BY <1>3, <1>7, <2>1 DEF Falling
  <2>3. \A k \in 0 .. n : k <= n /\ n \in 0 .. n
    OBVIOUS
  <2> HIDE DEF S, n
  <2> QED
    BY <1>6, <2>2, <2>3, OrbitFalls
<1>9. leaf \in onPath /\ 1 \in onPath /\ onPath \subseteq S
  <2>1. path[0] = 1 /\ 0 \in 0 .. n /\ n \in 0 .. n
    BY <1>7 DEF Orbit
  <2> QED
    BY <1>7, <2>1
<1>10. ASSUME NEW i \in onPath PROVE f[i] \in onPath /\ (i # leaf => f[i] # i)
  <2>1. PICK k \in 0 .. n : i = path[k]
    OBVIOUS
  <2>2. CASE k = n
    BY <1>8, <1>9, <2>1, <2>2
  <2>3. CASE k # n
    <3>1. k + 1 \in 1 .. n /\ k + 1 \in 0 .. n /\ (k + 1) - 1 = k
      BY <2>3
    <3>2. path[k + 1] = f[i]
      BY <1>7, <2>1, <3>1 DEF Orbit
    <3> QED
      BY <1>8, <2>1, <3>1, <3>2
  <2> QED
    BY <2>2, <2>3
\* A place of the path below the root is the smaller child of another.
<1>11. ASSUME NEW b \in onPath, b # 1 PROVE \E i \in onPath : i < b /\ b = f[i]
  <2> DEFINE K == {k \in 0 .. n : path[k] = b}
             k == Min(K)
  <2>1. K \subseteq Nat /\ K # {}
    OBVIOUS
  <2>2. k \in K /\ \A j \in K : k <= j
    <3> HIDE DEF K
    <3> QED
      BY <2>1, Least
  <2> HIDE DEF k
  <2>3. k \in 0 .. n /\ path[k] = b /\ k # 0
    BY <1>7, <1>11, <2>2 DEF Orbit
  <2>4. k \in 1 .. n /\ k - 1 \in 0 .. n /\ ~(k <= k - 1)
    BY <2>3
  <2>5. path[k - 1] # b
    BY <2>2, <2>4
  <2>6. b = f[path[k - 1]]
    BY <1>7, <2>3, <2>4 DEF Orbit
  <2>7. path[k - 1] \in onPath
    BY <2>4
  <2> HIDE DEF onPath
  <2> QED
    BY <1>2, <1>9, <2>5, <2>6, <2>7
<1> HIDE DEF leaf, onPath
<1>12. /\ Ancestors(leaf) \subseteq 1 .. leaf - 1
       /\ \A a \in P : a > 1 => Parent(a) \in Ancestors(leaf)
       /\ \A a, b \in P : a < b => a <= Parent(b)
       /\ leaf \in S
  <2>1. leaf \in Nat /\ leaf >= 1 /\ leaf \in S
    BY <1>9
  <2> QED
    BY <2>1, Chain
<1>13. P \subseteq S /\ \A a \in S : a \in Nat
  BY <1>12
<1> HIDE DEF S
<1>14. onPath \subseteq P
  <2> SUFFICES ASSUME onPath \ P # {} PROVE FALSE
    OBVIOUS
  <2> DEFINE D == {d \in Nat : n - d \in onPath \ P}
             i == n - Min(D)
  <2>1. \A j \in onPath : j \in Nat /\ n - j \in Nat /\ n - (n - j) = j
    BY <1>9, <1>3 DEF S
  <2>2. PICK j \in onPath : j \notin P
    OBVIOUS
  <2>3. D \subseteq Nat /\ D # {}
    BY <2>1, <2>2
  <2>4. Min(D) \in D /\ \A d \in D : Min(D) <= d
    <3> HIDE DEF D
    <3> QED
      BY <2>3, Least
  <2>5. i \in onPath /\ i \notin P /\ i \in Nat
    BY <2>1, <2>4
  <2>6. f[i] \in onPath /\ i < f[i] /\ Parent(f[i]) = i /\ f[i] \in Nat
    BY <1>2, <1>9, <1>10, <1>13, <2>5
  <2>7. f[i] \in P
    <3> SUFFICES ASSUME f[i] \notin P PROVE FALSE
      OBVIOUS
    <3>1. n - f[i] \in D
      BY <2>1, <2>6
    <3>2. Min(D) <= n - f[i] /\ Min(D) \in Nat
      BY <2>4, <3>1
    <3> HIDE DEF D
    <3> QED
      BY <1>3, <2>6, <3>2
  <2>8. i \in Ancestors(leaf)
    <3>1. f[i] > 1
      BY <1>9, <2>5, <2>6 DEF S
    <3> HIDE DEF i
    <3> QED
      BY <1>12, <2>6, <2>7, <3>1
  <2> QED
    BY <2>5, <2>8
<1>15. P \subseteq onPath
  <2> SUFFICES ASSUME NEW a \in P, a \notin onPath PROVE FALSE
    OBVIOUS
  <2> DEFINE B == {b \in onPath : b > a}
             b == Min(B)
  <2>1. a \in Nat /\ a >= 1 /\ leaf > a /\ leaf \in onPath
    BY <1>9, <1>12, <1>13 DEF S
  <2>2. B \subseteq Nat /\ B # {}
    BY <1>9, <1>13, <2>1
  <2>3. b \in B /\ \A d \in B : b <= d
    <3> HIDE DEF B
    <3> QED
      BY <2>2, Least
  <2> HIDE DEF b
  <2>4. b \in onPath /\ b > a /\ b \in Nat /\ b # 1
    BY <2>1, <2>2, <2>3
  <2>5. PICK i \in onPath : i < b /\ b = f[i]
    BY <1>11, <2>4
  <2>6. i \in Nat /\ Parent(b) = i
    BY <1>2, <1>9, <1>13, <2>5
  <2>7. a <= i
    BY <1>12, <1>14, <2>1, <2>4, <2>6
  <2>8. ~(i > a)
    BY <2>3, <2>4, <2>5, <2>6
  <2> QED
    BY <2>1, <2>6, <2>7, <2>8
<1>16. onPath = P
  BY <1>14, <1>15
<1>17. \A i \in S : i \in P \ {leaf} <=> i \in Ancestors(leaf)
  BY <1>12 DEF S
<1>18. raised = Raised(h, leaf, before)
  <2>1. \A i \in 1 .. n : raised[i] = IF i = leaf THEN h[1]
                                      ELSE IF i \in Ancestors(leaf) THEN h[SmallerChild(h, i, before)]
                                      ELSE h[i]
    <3> HIDE DEF P
    <3> QED
      BY <1>4, <1>16, <1>17 DEF S
  <2> QED
    BY <1>5, <2>1 DEF Raised
<1>19. \A a \in Ancestors(leaf) : SmallerChild(h, a, before) \in P \ {a}
  <2> SUFFICES ASSUME NEW a \in Ancestors(leaf) PROVE SmallerChild(h, a, before) \in P \ {a}
    OBVIOUS
  <2>1. a \in onPath /\ a # leaf /\ a \in S
    BY <1>9, <1>12, <1>16, <1>17
  <2> QED
    BY <1>3, <1>10, <1>16, <2>1
<1>20. Descends(h, leaf, before)
  <2>1. SmallerChild(h, leaf, before) = leaf
    BY <1>3, <1>8, <1>12
  <2> QED
    BY <1>1, <1>9, <1>12, <1>16, <1>18, <1>19, <2>1 DEF Descends, S
<1> QED
  BY <1>20

\* The items of the path to the leaf move up by one, and the item of the root is the
\* leaf's.
LEMMA SiftUpRearranges ==
  ASSUME NEW h, Len(h) \in Nat, Len(h) >= 1, NEW before
  PROVE  \E p \in Rearrangements(Len(h)) : SiftUp(h, before) = Rearranged(h, p)
<1>1. PICK leaf : Descends(h, leaf, before)
  BY SiftUpDescends
<1> DEFINE n == Len(h)
           above == Ancestors(leaf)
           P == above \cup {leaf}
           c(i) == SmallerChild(h, i, before)
           q == [i \in 1 .. n |-> IF i = leaf THEN 1 ELSE IF i \in above THEN c(i) ELSE i]
           raised == Raised(h, leaf, before)
<1>2. /\ leaf \in 1 .. n /\ 1 \in P /\ SiftUp(h, before) = SiftDown(raised, leaf, before)
      /\ \A a \in above : c(a) \in P \ {a}
  BY <1>1 DEF Descends
<1>3. above \subseteq 1 .. leaf - 1 /\ P \subseteq 1 .. n /\ leaf \notin above
  <2>1. leaf \in Nat /\ leaf >= 1
    BY <1>2
  <2>2. above \subseteq 1 .. leaf - 1
    BY <2>1, Chain
  <2> QED
    BY <1>2, <2>2
<1>4. \A a \in above : c(a) \in 1 .. n /\ Parent(c(a)) = a /\ c(a) # 1
  <2> SUFFICES ASSUME NEW a \in above PROVE c(a) \in 1 .. n /\ Parent(c(a)) = a /\ c(a) # 1
    OBVIOUS
  <2>1. a \in 1 .. n /\ c(a) # a
    BY <1>2, <1>3
  <2>2. c(a) \in 1 .. n /\ Parent(c(a)) = a /\ a < c(a)
    BY <2>1, SmallerChildIs
  <2> HIDE DEF c
  <2> QED
    BY <2>1, <2>2
<1>5. \A i \in 1 .. n : raised[i] = h[q[i]]
  BY DEF Raised
<1>6. Len(raised) = n
  BY DEF Raised
<1> HIDE DEF c, raised
<1>7. ASSUME NEW i \in 1 .. n
      PROVE  /\ i = leaf => q[i] = 1
             /\ i \in above => q[i] = c(i)
             /\ i \notin P => q[i] = i
  BY <1>3
<1>8. q \in Rearrangements(n)
  <2>1. \A i \in 1 .. n : q[i] \in 1 .. n
    BY <1>2, <1>3, <1>4
  <2>2. ASSUME NEW i \in 1 .. n, NEW j \in 1 .. n, q[i] = q[j] PROVE i = j
    <3> HIDE DEF q, above
    <3>1. CASE i \in P /\ j \in P
      BY <1>4, <1>7, <2>2, <3>1
    <3>2. ASSUME NEW a \in 1 .. n, NEW b \in 1 .. n, a \in P, b \notin P PROVE q[a] # q[b]
      BY <1>2, <1>7, <3>2
    <3> QED
      BY <1>7, <2>2, <3>1, <3>2
  <2> HIDE DEF n
  <2> QED
    BY <2>1, <2>2 DEF Rearrangements
<1>9. PICK p \in Rearrangements(n) : SiftDown(raised, leaf, before) = Rearranged(raised, p)
  <2>1. leaf \in 1 .. Len(raised)
    BY <1>2, <1>6
  <2> HIDE DEF n
  <2> QED
    BY <1>6, <2>1, SiftDownRearranges
<1> DEFINE r == [i \in 1 .. n |-> q[p[i]]]
<1> HIDE DEF q
<1>10. r \in Rearrangements(n)
  BY <1>8 DEF Rearrangements
<1>11. Rearranged(raised, p) = Rearranged(h, r)
  <2>1. \A i \in 1 .. n : p[i] \in 1 .. n
    BY DEF Rearrangements
  <2> QED
    BY <1>5, <1>6, <2>1 DEF Rearranged
<1> QED
  BY <1>2, <1>9, <1>10, <1>11

--------------------------------------------------------------------------------
(* Hence heappush adds its item and heappop takes the first one, and what  *)
(* else is in the list stays in it, once.                                  *)

Distinct(h) == \A i, j \in 1 .. Len(h) : h[i] = h[j] => i = j

\* A rearrangement leaves no place out.
LEMMA OntoPlaces ==
  ASSUME NEW n \in Nat, NEW p \in Rearrangements(n), NEW j \in 1 .. n
  PROVE  \E i \in 1 .. n : p[i] = j
<1> DEFINE S == 1 .. n
<1>1. IsFiniteSet(S)
  BY FS_Interval
<1>2. p \in Injection(S, S)
  BY DEF Rearrangements, Injection, IsInjective
<1>3. p \in Surjection(S, S)
  <2> HIDE DEF S
  <2> QED
    BY <1>1, <1>2, FS_Injection
<1> QED
  BY <1>3 DEF Surjection

\* What a rearrangement keeps of a list.
LEMMA RearrangedList ==
  ASSUME NEW T, NEW h \in Seq(T), NEW p \in Rearrangements(Len(h))
  PROVE  /\ Rearranged(h, p) \in Seq(T)
         /\ Len(Rearranged(h, p)) = Len(h)
         /\ Elements(Rearranged(h, p)) = Elements(h)
         /\ Distinct(h) => Distinct(Rearranged(h, p))
<1> DEFINE g == Rearranged(h, p)
           n == Len(h)
<1>1. n \in Nat /\ \A i \in 1 .. n : p[i] \in 1 .. n /\ h[i] \in T
  BY DEF Rearrangements
<1>2. g = [i \in 1 .. n |-> h[p[i]]]
  BY DEF Rearranged
<1>3. g \in Seq(T) /\ Len(g) = n /\ \A i \in 1 .. n : g[i] = h[p[i]]
  BY <1>1, <1>2
<1> HIDE DEF g
<1>4. \A j \in 1 .. n : \E i \in 1 .. n : p[i] = j
  <2>1. n \in Nat /\ p \in Rearrangements(n)
    OBVIOUS
  <2> HIDE DEF n
  <2> QED
    BY <2>1, OntoPlaces
<1>5. \A x : x \in Elements(g) <=> x \in Elements(h)
  <2>1. \A x : x \in Elements(g) => x \in Elements(h)
    BY <1>1, <1>3, InElements
  <2>2. ASSUME NEW x, x \in Elements(h) PROVE x \in Elements(g)
    <3>1. PICK j \in 1 .. n : h[j] = x
      BY <2>2, InElements
    <3>2. PICK i \in 1 .. n : p[i] = j
      BY <1>4
    <3>3. i \in 1 .. Len(g) /\ g[i] = x
      BY <1>3, <3>1, <3>2
    <3> QED
      BY <3>3, InElements
  <2> QED
    BY <2>1, <2>2
<1>6. Distinct(h) => Distinct(g)
  BY <1>1, <1>3 DEF Distinct, Rearrangements
<1> QED
  BY <1>3, <1>5, <1>6 DEF g

LEMMA PushList ==
  ASSUME NEW T, NEW h \in Seq(T), NEW x \in T, NEW before
  PROVE  /\ HeapPush(h, x, before) \in Seq(T)
         /\ Elements(HeapPush(h, x, before)) = Elements(h) \cup {x}
         /\ Distinct(h) /\ x \notin Elements(h) => Distinct(HeapPush(h, x, before))
<1> DEFINE a == Append(h, x)
           n == Len(h)
<1>1. n \in Nat /\ a \in Seq(T) /\ Len(a) = n + 1 /\ a[n + 1] = x /\ \A i \in 1 .. n : a[i] = h[i]
  OBVIOUS
<1> HIDE DEF a
<1>2. \A y : y \in Elements(a) <=> y \in Elements(h) \cup {x}
  <2>1. \A i : i \in 1 .. n + 1 <=> i \in 1 .. n \/ i = n + 1
    BY <1>1
  <2> QED
    BY <1>1, <2>1, InElements
<1>3. Distinct(h) /\ x \notin Elements(h) => Distinct(a)
  <2>1. \A i : i \in 1 .. n + 1 <=> i \in 1 .. n \/ i = n + 1
    BY <1>1
  <2> QED
    BY <1>1, <2>1, InElements DEF Distinct
<1>4. n + 1 \in 1 .. Len(a) /\ Len(a) \in Nat
  BY <1>1
<1>5. PICK p \in Rearrangements(Len(a)) : SiftDown(a, n + 1, before) = Rearranged(a, p)
  BY <1>4, SiftDownRearranges
<1>6. HeapPush(h, x, before) = Rearranged(a, p)
  BY <1>5 DEF HeapPush, a
<1> QED
  BY <1>1, <1>2, <1>3, <1>6, RearrangedList

\* All of a list but its last item.
LEMMA Front ==
  ASSUME NEW T, NEW h \in Seq(T), h # <<>>
  PROVE  LET rest == SubSeq(h, 1, Len(h) - 1) IN
         rest \in Seq(T) /\ Len(rest) = Len(h) - 1 /\ \A i \in 1 .. Len(h) - 1 : rest[i] = h[i]
<1> DEFINE last == Len(h) - 1
           front == SubSeq(h, 1, last)
<1>1. last \in Int /\ last \in Nat /\ \A i \in 1 .. last : h[i] \in T
  OBVIOUS
<1>2. /\ front \in Seq(T)
      /\ Len(front) = IF 1 <= last THEN last - 1 + 1 ELSE 0
      /\ \A i \in 1 .. last - 1 + 1 : front[i] = h[1 + i - 1]
  <2> HIDE DEF last
  <2> QED
    BY <1>1, SubSeqProperties
<1> HIDE DEF front, last
<1>3. \A i \in 1 .. last : 1 + i - 1 = i /\ i \in 1 .. last - 1 + 1
  BY <1>1
<1>4. Len(front) = last
  BY <1>1, <1>2
<1>5. ASSUME NEW i \in 1 .. last PROVE front[i] = h[i]
  <2>1. i \in 1 .. last - 1 + 1 /\ 1 + i - 1 = i
    BY <1>3
  <2>2. front[i] = h[1 + i - 1]
    BY <1>2, <2>1
  <2> QED
    BY <2>1, <2>2
<1> QED
  BY <1>2, <1>4, <1>5 DEF front, last

LEMMA PopList ==
  ASSUME NEW T, NEW h \in Seq(T), h # <<>>, NEW before
  PROVE  /\ HeapPop(h, before) \in Seq(T)
         /\ Len(HeapPop(h, before)) = Len(h) - 1
         /\ h[1] \in T /\ h[1] \in Elements(h)
         /\ Distinct(h) => /\ Distinct(HeapPop(h, before))
                           /\ Elements(HeapPop(h, before)) = Elements(h) \ {h[1]}
<1> DEFINE n == Len(h)
           rest == SubSeq(h, 1, n - 1)
           moved == [rest EXCEPT ![1] = h[n]]
<1>1. n \in Nat /\ n >= 1 /\ h[1] \in T /\ \A i \in 1 .. n : h[i] \in T
  OBVIOUS
<1>2. rest \in Seq(T) /\ Len(rest) = n - 1 /\ \A i \in 1 .. n - 1 : rest[i] = h[i]
  BY Front
<1> HIDE DEF rest
<1>3. h[1] \in Elements(h)
  BY <1>1, InElements
<1>4. CASE n = 1
  <2>1. rest = <<>>
    BY <1>2, <1>4
  <2>2. HeapPop(h, before) = <<>>
    BY <2>1 DEF HeapPop, rest
  <2>3. \A y : y \in Elements(<<>>) <=> y \in Elements(h) \ {h[1]}
    BY <1>4, InElements
  <2>4. Distinct(<<>>) /\ <<>> \in Seq(T) /\ Len(<<>>) = 0
    BY DEF Distinct
  <2> QED
    BY <1>1, <1>3, <1>4, <2>2, <2>3, <2>4
<1>5. CASE n > 1
  <2>1. rest # <<>>
    BY <1>1, <1>2, <1>5
  <2>2. HeapPop(h, before) = SiftUp(moved, before)
    BY <2>1 DEF HeapPop, rest
  <2>3. /\ moved \in Seq(T) /\ Len(moved) = n - 1
        /\ moved[1] = h[n] /\ \A i \in 2 .. n - 1 : moved[i] = h[i]
    BY <1>1, <1>2, <1>5
  <2> HIDE DEF moved
  <2>4. PICK p \in Rearrangements(Len(moved)) : SiftUp(moved, before) = Rearranged(moved, p)
    <3>1. Len(moved) \in Nat /\ Len(moved) >= 1
      BY <1>1, <1>5, <2>3
    <3> QED
      BY <3>1, SiftUpRearranges
  <2>5. \A i \in 1 .. n - 1 : i = 1 \/ i \in 2 .. n - 1
    OBVIOUS
  <2>6. Distinct(h) => Distinct(moved)
    <3>1. \A i \in 1 .. n - 1 : moved[i] = h[IF i = 1 THEN n ELSE i]
      BY <2>3, <2>5
    <3> QED
      BY <1>1, <1>5, <2>3, <3>1 DEF Distinct
  <2>7. ASSUME Distinct(h) PROVE \A y : y \in Elements(moved) <=> y \in Elements(h) \ {h[1]}
    <3>1. ASSUME NEW y, y \in Elements(moved) PROVE y \in Elements(h) \ {h[1]}
      <4>1. PICK i \in 1 .. n - 1 : moved[i] = y
        BY <2>3, <3>1, InElements
      <4>2. PICK j \in 2 .. n : h[j] = y
        BY <1>5, <2>3, <2>5, <4>1
      <4>3. j \in 1 .. n /\ 1 \in 1 .. n /\ j # 1
        BY <1>1
      <4> QED
        BY <2>7, <4>2, <4>3, InElements DEF Distinct
    <3>2. ASSUME NEW y, y \in Elements(h) \ {h[1]} PROVE y \in Elements(moved)
      <4>1. PICK j \in 1 .. n : h[j] = y /\ j # 1
        BY <3>2, InElements
      <4>2. CASE j = n
        <5>1. 1 \in 1 .. Len(moved) /\ moved[1] = y
          BY <1>1, <1>5, <2>3, <4>1, <4>2
        <5> QED
          BY <5>1, InElements
      <4>3. CASE j # n
        <5>1. j \in 1 .. Len(moved) /\ moved[j] = y
          BY <1>1, <2>3, <4>1, <4>3
        <5> QED
          BY <5>1, InElements
      <4> QED
        BY <4>2, <4>3
    <3> QED
      BY <3>1, <3>2
  <2> QED
    BY <1>1, <1>3, <2>2, <2>3, <2>4, <2>6, <2>7, RearrangedList
<1> QED
  BY <1>1, <1>4, <1>5

\* A loop that pops stops at an item that is not gone, and only items that are gone
\* have left the list.
LEMMA PopWhileList ==
  ASSUME NEW T, NEW h \in Seq(T), NEW gone, NEW before
  PROVE  /\ PopWhile(h, gone, before) \in Seq(T)
         /\ \/ PopWhile(h, gone, before) = <<>>
            \/ /\ PopWhile(h, gone, before)[1] \notin gone
               /\ PopWhile(h, gone, before)[1] \in T
               /\ PopWhile(h, gone, before)[1] \in Elements(PopWhile(h, gone, before))
         /\ Distinct(h) => /\ Distinct(PopWhile(h, gone, before))
                           /\ Elements(PopWhile(h, gone, before)) \subseteq Elements(h)
                           /\ Elements(h) \subseteq Elements(PopWhile(h, gone, before)) \cup gone
<1> DEFINE R == {h[i] : i \in DOMAIN h}
           S == Seq(R)
           n == Len(h)
           f == [g \in S |-> IF g # <<>> /\ g[1] \in gone THEN HeapPop(g, before) ELSE g]
           m == [g \in S |-> Len(g)]
           left == Iterate(f, h, n)
           Kept(g) == /\ g \in S
                      /\ Distinct(h) => /\ Distinct(g)
                                        /\ Elements(g) \subseteq Elements(h)
                                        /\ Elements(h) \subseteq Elements(g) \cup gone
<1>1. n \in Nat /\ h \in S /\ R \subseteq T
  <2>1. h = [i \in 1 .. n |-> h[i]] /\ n \in Nat /\ DOMAIN h = 1 .. n /\ \A i \in 1 .. n : h[i] \in T
    OBVIOUS
  <2>2. \A i \in 1 .. n : h[i] \in R
    BY <2>1
  <2> HIDE DEF R
  <2>3. h \in Seq(R)
    BY <2>1, <2>2
  <2>4. \A r \in R : r \in T
    BY <2>1 DEF R
  <2> QED
    BY <2>1, <2>3, <2>4
<1>2. PopWhile(h, gone, before) = left[n]
  BY DEF PopWhile
<1> HIDE DEF R
<1>3. ASSUME NEW g \in S, g # <<>> , g[1] \in gone
      PROVE  /\ f[g] = HeapPop(g, before) /\ f[g] \in S /\ Len(f[g]) = Len(g) - 1
             /\ Distinct(g) => Distinct(f[g]) /\ Elements(f[g]) = Elements(g) \ {g[1]}
  <2>1. f[g] = HeapPop(g, before)
    BY <1>3
  <2> HIDE DEF f
  <2> QED
    BY <1>3, <2>1, PopList
<1>4. \A g \in S : ~(g # <<>> /\ g[1] \in gone) => f[g] = g
  OBVIOUS
<1>5. \A g \in S : m[g] = Len(g) /\ Len(g) \in Nat
  OBVIOUS
<1>6. f \in [S -> S] /\ m \in [S -> Nat]
  <2>1. \A g \in S : f[g] \in S
    <3> HIDE DEF f, S
    <3> QED
      BY <1>3, <1>4
  <2> QED
    BY <2>1
<1> HIDE DEF f, m
<1>7. \A g \in S : f[g] = g \/ m[f[g]] < m[g]
  <2> HIDE DEF S
  <2> SUFFICES ASSUME NEW g \in S, f[g] # g PROVE m[f[g]] < m[g]
    OBVIOUS
  <2>1. Len(f[g]) = Len(g) - 1 /\ f[g] \in S
    BY <1>3, <1>4
  <2>2. m[f[g]] = Len(g) - 1 /\ m[g] = Len(g) /\ Len(g) \in Nat
    BY <1>5, <2>1
  <2> QED
    BY <2>2
<1> HIDE DEF S
<1>8. left \in [0 .. n -> S] /\ Orbit(left, f, h, n)
  <2> HIDE DEF n
  <2> QED
    BY <1>1, <1>6, IterateOrbit
<1> HIDE DEF left
<1>9. f[left[n]] = left[n]
  <2>1. m[h] <= n
    BY <1>1, <1>5
  <2>2. Falling(S, f, m, h, n, left)
    BY <1>1, <1>6, <1>7, <1>8 DEF Falling
  <2> HIDE DEF n
  <2> QED
    BY <2>1, <2>2, OrbitFalls
<1>10. Kept(left[n])
  <2> DEFINE K == {g \in S : Kept(g)}
  <2>1. left[0] \in K
    BY <1>1, <1>8 DEF Orbit
  <2>2. ASSUME NEW k \in 1 .. n, left[k - 1] \in K PROVE left[k] \in K
    <3> DEFINE g == left[k - 1]
    <3>1. g \in S /\ Kept(g) /\ left[k] = f[g]
      BY <1>8, <2>2 DEF Orbit
    <3> HIDE DEF g
    <3>2. CASE g # <<>> /\ g[1] \in gone
      <4>1. /\ f[g] \in S
            /\ Distinct(g) => Distinct(f[g]) /\ Elements(f[g]) = Elements(g) \ {g[1]}
        BY <1>3, <3>1, <3>2
      <4> QED
        BY <3>1, <3>2, <4>1
    <3>3. CASE ~(g # <<>> /\ g[1] \in gone)
      BY <1>4, <3>1, <3>3
    <3> QED
      BY <3>2, <3>3
  <2>3. n \in Nat /\ n \in 0 .. n
    BY <1>1
  <2>4. left[n] \in K
    <3> HIDE DEF K, n
    <3> QED
      BY <2>1, <2>2, <2>3, Carried
  <2> QED
    BY <2>4
<1> DEFINE last == left[n]
<1>11. last \in Seq(T)
  <2>1. last \in Seq(R)
    BY <1>10 DEF S
  <2> HIDE DEF last
  <2> QED
    BY <1>1, <2>1
<1>12. last = <<>> \/ (last[1] \notin gone /\ last[1] \in T /\ last[1] \in Elements(last))
  <2> HIDE DEF last
  <2> SUFFICES ASSUME last # <<>> PROVE last[1] \notin gone /\ last[1] \in T /\ last[1] \in Elements(last)
    OBVIOUS
  <2>1. last[1] \in T /\ last[1] \in Elements(last)
    BY <1>11, PopList
  <2>2. last \in S /\ f[last] = last
    BY <1>9, <1>10 DEF last
  <2>3. last[1] \notin gone
    <3> SUFFICES ASSUME last[1] \in gone PROVE FALSE
      OBVIOUS
    <3>1. Len(last) = Len(last) - 1
      BY <1>3, <2>2
    <3>2. Len(last) \in Nat
      BY <1>11
    <3> QED
      BY <3>1, <3>2
  <2> QED
    BY <2>1, <2>3
<1> QED
  BY <1>2, <1>10, <1>11, <1>12

\* A claim, whether or not it leases the first item, pops it and pushes it again.
LEMMA Requeued ==
  ASSUME NEW T, NEW h \in Seq(T), h # <<>>, NEW before, NEW after
  PROVE  /\ HeapPush(HeapPop(h, before), h[1], after) \in Seq(T)
         /\ Distinct(h) => /\ Distinct(HeapPush(HeapPop(h, before), h[1], after))
                           /\ Elements(HeapPush(HeapPop(h, before), h[1], after)) = Elements(h)
<1> DEFINE rest == HeapPop(h, before)
<1>1. /\ rest \in Seq(T) /\ h[1] \in T /\ h[1] \in Elements(h)
      /\ Distinct(h) => Distinct(rest) /\ Elements(rest) = Elements(h) \ {h[1]}
  BY PopList
<1> HIDE DEF rest
<1>2. /\ HeapPush(rest, h[1], after) \in Seq(T)
      /\ Elements(HeapPush(rest, h[1], after)) = Elements(rest) \cup {h[1]}
      /\ Distinct(rest) /\ h[1] \notin Elements(rest) => Distinct(HeapPush(rest, h[1], after))
  BY <1>1, PushList
<1>3. Distinct(h) => Elements(rest) \cup {h[1]} = Elements(h)
  BY <1>1
<1>4. Distinct(h) => h[1] \notin Elements(rest)
  BY <1>1
<1> QED
  BY <1>1, <1>2, <1>3, <1>4 DEF rest

\* A list whose items differ has as many as it has places.
LEMMA CountedOnce ==
  ASSUME NEW T, NEW h \in Seq(T), Distinct(h)
  PROVE  {h[i] : i \in DOMAIN h} = Elements(h) /\ Cardinality({h[i] : i \in DOMAIN h}) = Len(h)
<1> DEFINE P == 1 .. Len(h)
           image == {h[i] : i \in DOMAIN h}
<1>1. DOMAIN h = P /\ Len(h) \in Nat
  OBVIOUS
<1>2. IsFiniteSet(P) /\ Cardinality(P) = Len(h)
  BY <1>1, FS_Interval
<1>3. image = Elements(h)
  BY <1>1 DEF Elements
<1>4. [i \in P |-> h[i]] \in Bijection(P, image)
  BY <1>1 DEF Distinct, Bijection, Injection, Surjection, IsInjective
<1>5. ExistsBijection(P, image)
  BY <1>4 DEF ExistsBijection
<1>6. Cardinality(P) = Cardinality(image)
  <2> HIDE DEF P, image
  <2> QED
    BY <1>2, <1>5, FS_Bijection
<1> QED
  BY <1>2, <1>3, <1>6

--------------------------------------------------------------------------------
(* What the sifts do to the order of the items, when the order is one that *)
(* sorts: nothing comes before what comes before it, and when one item     *)
(* comes before another, any third comes after the one or before the other.*)

Sorts(before, T) ==
  /\ \A x, y \in T : Less(x, y, before) => ~Less(y, x, before)
  /\ \A x, y, z \in T : Less(x, z, before) => Less(x, y, before) \/ Less(y, z, before)

\* An item out of order with its parent is one of those that are gone.
Tidy(h, before, gone) ==
  \A i \in 2 .. Len(h) : Less(h[i], h[Parent(i)], before) => h[i] \in gone

LEMMA SortsTransitive ==
  ASSUME NEW T, NEW before, Sorts(before, T), NEW x \in T, NEW y \in T, NEW z \in T,
         Less(x, y, before), Less(y, z, before)
  PROVE  Less(x, z, before)
  BY DEF Sorts

\* Along a path of the heap, an item that comes before one above it has one on the
\* way that is gone.
LEMMA TidyPaths ==
  ASSUME NEW T, NEW before, Sorts(before, T), NEW h \in Seq(T), NEW gone, Tidy(h, before, gone),
         NEW i \in 1 .. Len(h), NEW a \in Ancestors(i), Less(h[i], h[a], before)
  PROVE  \E d \in {i} \cup {x \in Ancestors(i) : x > a} : h[d] \in gone
<1> DEFINE P == Ancestors(i) \cup {i}
           B == {c \in P : c >= a /\ ~Less(h[i], h[c], before)}
           c == Min(B)
<1>1. /\ Ancestors(i) \subseteq 1 .. i - 1
      /\ \A b \in P : b > 1 => Parent(b) \in Ancestors(i)
      /\ \A b, d \in P : b < d => b <= Parent(d)
  <2>1. i \in Nat /\ i >= 1
    OBVIOUS
  <2> QED
    BY <2>1, Chain
<1>2. P \subseteq 1 .. Len(h) /\ i \in P /\ a \in P /\ a < i
  BY <1>1
<1>3. \A b \in P : h[b] \in T
  BY <1>2
<1>4. i \in B
  BY <1>2, <1>3 DEF Sorts
<1>5. c \in B /\ \A b \in B : c <= b
  <2>1. B \subseteq Nat /\ B # {}
    BY <1>2, <1>4
  <2> HIDE DEF B
  <2> QED
    BY <2>1, Least
<1>6. c \in P /\ c >= a /\ ~Less(h[i], h[c], before) /\ c # a
  BY <1>5
<1>7. c > a /\ c > 1 /\ c \in 2 .. Len(h)
  BY <1>1, <1>2, <1>6
<1>8. Parent(c) \in P /\ Parent(c) >= a /\ Parent(c) < c
  <2>1. c \in Nat
    BY <1>7
  <2>2. Parent(c) < c
    BY <1>7, <2>1, ParentIs
  <2> HIDE DEF c
  <2> QED
    BY <1>1, <1>2, <1>6, <1>7, <2>2
<1>9. Less(h[i], h[Parent(c)], before)
  <2>1. Parent(c) \notin B
    <3>1. Parent(c) \in Nat /\ c \in Nat
      BY <1>2, <1>7, <1>8
    <3> HIDE DEF B, c
    <3> QED
      BY <1>5, <1>8, <3>1
  <2> HIDE DEF c
  <2> QED
    BY <1>8, <2>1
<1>10. Less(h[c], h[Parent(c)], before)
  <2> HIDE DEF c
  <2> QED
    BY <1>2, <1>3, <1>6, <1>8, <1>9 DEF Sorts
<1>11. h[c] \in gone
  <2> HIDE DEF c
  <2> QED
    BY <1>7, <1>10 DEF Tidy
<1> HIDE DEF c
<1>12. c = i \/ c \in Ancestors(i)
  BY <1>6
<1> QED
  BY <1>7, <1>11, <1>12

\* Where a sift ends: the item from pos stands at place, which it reached by passing
\* the items it comes before, and the one above place it does not come before.
Sifted(g, h, pos, place, before) ==
  /\ place \in Ancestors(pos) \cup {pos}
  /\ Len(g) = Len(h)
  /\ \A i \in 1 .. Len(h) :
       /\ i = place => g[i] = h[pos]
       /\ i \in Ancestors(pos) \cup {pos} /\ i > place => g[i] = h[Parent(i)]
       /\ i \notin Ancestors(pos) \cup {pos} \/ i < place => g[i] = h[i]
  /\ \A a \in Ancestors(pos) : a >= place => Less(h[pos], h[a], before)
  /\ place > 1 => ~Less(h[pos], h[Parent(place)], before)

LEMMA SiftDownPlaces ==
  ASSUME NEW h, Len(h) \in Nat, NEW pos \in 1 .. Len(h), NEW before
  PROVE  \E place : Sifted(SiftDown(h, pos, before), h, pos, place, before)
<1> DEFINE n == Len(h)
           above == Ancestors(pos)
           stays == {a \in above : ~Less(h[pos], h[a], before)}
           passed == {a \in above : \A s \in stays : s < a}
           moved == passed \cup {pos}
           place == Min(moved)
           g == SiftDown(h, pos, before)
<1>1. /\ above \subseteq 1 .. pos - 1
      /\ \A a \in above \cup {pos} : a > 1 => Parent(a) \in above
      /\ \A a, b \in above \cup {pos} : a < b => a <= Parent(b)
  BY Chain
<1>2. pos \in Nat /\ pos >= 1 /\ pos <= n /\ n \in Nat
  OBVIOUS
<1>3. moved \subseteq 1 .. pos /\ passed \subseteq above /\ stays \subseteq above
  BY <1>1, <1>2
<1>4. place \in moved /\ \A a \in moved : place <= a
  <2>1. moved \subseteq Nat /\ moved # {}
    BY <1>3
  <2> HIDE DEF moved
  <2> QED
    BY <2>1, Least
<1>5. place \in 1 .. pos
  BY <1>3, <1>4
<1>6. g = [i \in 1 .. n |-> CASE i = place -> h[pos]
                              [] i # place /\ i \in moved -> h[Parent(i)]
                              [] OTHER -> h[i]]
  BY DEF SiftDown
<1>7. \A a \in above : a \in passed <=> \A s \in stays : s < a
  OBVIOUS
<1>8. \A a \in above : a \in stays <=> ~Less(h[pos], h[a], before)
  OBVIOUS
<1> HIDE DEF above, stays, passed, place, g
<1>9. \A a \in above \cup {pos} : a > place => a \in moved
  <2> SUFFICES ASSUME NEW a \in above, a > place PROVE \A s \in stays : s < a
    BY <1>7 DEF moved
  <2> SUFFICES ASSUME NEW s \in stays PROVE s < a
    OBVIOUS
  <2>1. a \in 1 .. pos - 1 /\ s \in 1 .. pos - 1 /\ place < pos
    BY <1>1, <1>3, <1>5
  <2>2. place \in passed
    BY <1>4, <1>5, <2>1
  <2>3. s < place
    BY <1>3, <1>7, <2>2
  <2> QED
    BY <1>5, <2>1, <2>3
<1>10. \A i \in 1 .. n : /\ i = place => g[i] = h[pos]
                         /\ i \in above \cup {pos} /\ i > place => g[i] = h[Parent(i)]
                         /\ i \notin above \cup {pos} \/ i < place => g[i] = h[i]
  <2>1. \A i \in 1 .. n : /\ i = place => g[i] = h[pos]
                          /\ i # place /\ i \in moved => g[i] = h[Parent(i)]
                          /\ i # place /\ i \notin moved => g[i] = h[i]
    <3> HIDE DEF moved
    <3> QED
      BY <1>6
  <2>2. \A i \in 1 .. n : i > place => i # place
    BY <1>5
  <2>3. \A i \in 1 .. n : i < place => i # place /\ i \notin moved
    BY <1>4, <1>5
  <2>4. place \in above \cup {pos} /\ moved \subseteq above \cup {pos}
    BY <1>3, <1>4
  <2> QED
    BY <1>9, <2>1, <2>2, <2>3, <2>4
<1>11. Len(g) = n
  BY <1>6
<1>12. ASSUME NEW a \in above, a >= place PROVE Less(h[pos], h[a], before)
  <2>1. a \in Nat /\ a < pos /\ a \in moved
    BY <1>1, <1>2, <1>4, <1>5, <1>9, <1>12
  <2>2. a \in passed
    BY <2>1
  <2>3. a \notin stays
    BY <1>7, <2>1, <2>2
  <2> QED
    BY <1>8, <2>3
<1>13. ASSUME place > 1 PROVE ~Less(h[pos], h[Parent(place)], before)
  <2> DEFINE q == Parent(place)
  <2>1. place \in above \cup {pos}
    BY <1>3, <1>4
  <2>2. q \in above /\ q < place /\ q \in Nat
    BY <1>1, <1>5, <1>13, <2>1, ParentIs
  <2> HIDE DEF q
  <2>3. q \notin passed
    BY <1>4, <1>5, <2>2
  <2>4. PICK s \in stays : ~(s < q)
    BY <1>7, <2>2, <2>3
  <2>5. s \in above /\ s \in 1 .. pos - 1
    BY <1>1, <1>3
  <2>6. ~(s >= place)
    BY <1>8, <1>12, <2>4, <2>5
  <2>7. s < place /\ s \in above \cup {pos} /\ s \in Nat
    BY <1>5, <2>5, <2>6
  <2>8. s <= q
    BY <1>1, <2>1, <2>7 DEF q
  <2>9. s = q
    BY <2>2, <2>4, <2>7, <2>8
  <2> QED
    BY <1>8, <2>4, <2>9, <2>5 DEF q
<1>14. place \in above \cup {pos}
  BY <1>3, <1>4
<1>15. Sifted(g, h, pos, place, before)
  BY <1>10, <1>11, <1>12, <1>13, <1>14 DEF Sifted, above
<1> QED
  BY <1>15 DEF g

\* heappush keeps a list tidy, if its item comes before none that is gone.
LEMMA PushTidy ==
  ASSUME NEW T, NEW before, Sorts(before, T), NEW h \in Seq(T), NEW x \in T, NEW gone,
         Tidy(h, before, gone), \A y \in T : y \in gone => ~Less(x, y, before)
  PROVE  Tidy(HeapPush(h, x, before), before, gone)
<1> DEFINE a == Append(h, x)
           pos == Len(h) + 1
           g == HeapPush(h, x, before)
           P == Ancestors(pos) \cup {pos}
<1>1. /\ Len(h) \in Nat /\ pos \in Nat /\ pos >= 1 /\ Len(a) = pos
      /\ a[pos] = x /\ \A i \in 1 .. Len(h) : a[i] = h[i] /\ h[i] \in T
  OBVIOUS
<1>2. g = SiftDown(a, pos, before)
  BY DEF HeapPush
<1> HIDE DEF a, g
<1>3. PICK place : Sifted(g, a, pos, place, before)
  <2>1. Len(a) \in Nat /\ pos \in 1 .. Len(a)
    BY <1>1
  <2> HIDE DEF pos
  <2> QED
    BY <1>2, <2>1, SiftDownPlaces
<1>4. \A i \in 1 .. pos : i # pos => i \in 1 .. Len(h)
  BY <1>1
<1>5. \A i \in 1 .. pos : a[i] \in T
  BY <1>1, <1>4
<1>6. \A i \in 2 .. pos : i # pos /\ Less(a[i], a[Parent(i)], before) => a[i] \in gone
  <2> SUFFICES ASSUME NEW i \in 2 .. pos, i # pos, Less(a[i], a[Parent(i)], before)
               PROVE  a[i] \in gone
    OBVIOUS
  <2>1. i \in 2 .. Len(h) /\ i \in Nat
    BY <1>1
  <2>2. Parent(i) \in 1 .. Len(h)
    BY <1>1, <2>1, ParentIs
  <2>3. a[i] = h[i] /\ a[Parent(i)] = h[Parent(i)]
    BY <1>1, <2>1, <2>2
  <2> QED
    BY <2>1, <2>3 DEF Tidy
<1> HIDE DEF pos
<1>7. /\ Ancestors(pos) \subseteq 1 .. pos - 1
      /\ \A b \in P : b > 1 => Parent(b) \in Ancestors(pos)
      /\ \A b, d \in P : b < d => b <= Parent(d)
  BY <1>1, Chain
<1>8. P \subseteq 1 .. pos /\ place \in P /\ Len(g) = pos
  BY <1>1, <1>3, <1>7 DEF Sifted
<1>9. \A i \in 1 .. pos : /\ i = place => g[i] = x
                          /\ i \in P /\ i > place => g[i] = a[Parent(i)]
                          /\ i \notin P \/ i < place => g[i] = a[i]
  BY <1>1, <1>3 DEF Sifted
<1>10. /\ \A b \in Ancestors(pos) : b >= place => Less(x, a[b], before)
       /\ place > 1 => ~Less(x, a[Parent(place)], before)
  BY <1>1, <1>3 DEF Sifted
<1> SUFFICES ASSUME NEW i \in 2 .. pos, Less(g[i], g[Parent(i)], before) PROVE g[i] \in gone
  BY <1>8 DEF Tidy, g
<1> DEFINE q == Parent(i)
<1>11. q \in 1 .. pos /\ q < i /\ q # pos
  <2>1. i \in Nat /\ i > 1
    OBVIOUS
  <2> QED
    BY <1>1, <2>1, ParentIs
<1>12. Less(g[i], g[q], before) /\ i \in 1 .. pos /\ i \in 2 .. pos
  OBVIOUS
<1>13. i \in P => q \in Ancestors(pos)
  BY <1>7
<1>14. i \in P /\ place < i => place <= q
  BY <1>7, <1>8
<1>15. place \in 1 .. pos
  BY <1>8
<1>16. i # pos /\ Less(a[i], a[q], before) => a[i] \in gone
  BY <1>6
<1>17. q > 1 => q \in 2 .. pos
  BY <1>11
<1> HIDE DEF q
\* The item itself, below one that it does not come before.
<1>18. CASE i = place
  <2>1. q < place /\ g[i] = x /\ g[q] = a[q]
    BY <1>9, <1>11, <1>12, <1>18
  <2>2. ~Less(x, a[q], before)
    BY <1>10, <1>18 DEF q
  <2> QED
    BY <1>12, <2>1, <2>2
\* One that it passed, below it or below another that it passed.
<1>19. CASE i \in P /\ i > place
  <2>1. g[i] = a[q] /\ q \in Ancestors(pos) /\ place <= q
    BY <1>9, <1>12, <1>13, <1>14, <1>15, <1>19 DEF q
  <2>2. CASE q = place
    <3>1. g[q] = x /\ Less(x, a[q], before)
      BY <1>9, <1>10, <1>11, <1>15, <2>1, <2>2
    <3> QED
      BY <1>1, <1>5, <1>8, <1>11, <1>12, <2>1, <3>1 DEF Sorts
  <2>3. CASE q # place
    <3>1. q > place /\ q > 1 /\ q \in P
      BY <1>11, <1>15, <2>1, <2>3
    <3>2. g[q] = a[Parent(q)]
      BY <1>9, <1>11, <3>1
    <3> QED
      BY <1>6, <1>11, <1>12, <1>17, <2>1, <3>1, <3>2
  <2> QED
    BY <2>2, <2>3
\* One that did not move, below one that did not move, the item, or one that it passed.
<1>20. CASE i \notin P \/ i < place
  <2>1. g[i] = a[i] /\ i # pos
    BY <1>9, <1>12, <1>15, <1>20
  <2>2. CASE q \notin P \/ q < place
    <3>1. g[q] = a[q]
      BY <1>9, <1>11, <2>2
    <3> QED
      BY <1>12, <1>16, <2>1, <3>1
  <2>3. CASE q \in P /\ q = place
    <3>1. g[q] = x /\ Less(x, a[q], before)
      BY <1>9, <1>10, <1>11, <1>15, <2>3
    <3>2. Less(a[i], a[q], before)
      BY <1>1, <1>5, <1>11, <1>12, <2>1, <3>1, SortsTransitive
    <3> QED
      BY <1>16, <2>1, <3>2
  <2>4. CASE q \in P /\ q > place
    <3>1. g[q] = a[Parent(q)] /\ q > 1 /\ q \in 2 .. pos
      BY <1>9, <1>11, <1>15, <1>17, <2>4
    <3>2. Less(x, a[q], before)
      BY <1>10, <1>11, <1>15, <2>4
    <3>3. a[q] \in T /\ a[i] \in T /\ a[Parent(q)] \in T
      <4>1. Parent(q) \in 1 .. pos
        BY <1>7, <1>8, <2>4, <3>1
      <4> QED
        BY <1>5, <1>11, <1>12, <4>1
    <3>4. Less(a[i], a[q], before) \/ Less(a[q], a[Parent(q)], before)
      BY <1>12, <2>1, <3>1, <3>3 DEF Sorts
    <3>5. ~Less(a[q], a[Parent(q)], before)
      BY <1>6, <1>11, <3>1, <3>2, <3>3
    <3> QED
      BY <1>16, <2>1, <3>4, <3>5
  <2> QED
    BY <1>11, <1>15, <2>2, <2>3, <2>4
<1> QED
  BY <1>15, <1>18, <1>19, <1>20

\* Below the root, a place of the path is the smaller child of the one above it.
LEMMA DescentIs ==
  ASSUME NEW h, Len(h) \in Nat, NEW before, NEW leaf, Descends(h, leaf, before)
  PROVE  \A a \in Ancestors(leaf) \cup {leaf} : a > 1 => SmallerChild(h, Parent(a), before) = a
<1> DEFINE P == Ancestors(leaf) \cup {leaf}
<1>1. leaf \in 1 .. Len(h) /\ leaf \in Nat /\ leaf >= 1
  BY DEF Descends
<1>2. /\ Ancestors(leaf) \subseteq 1 .. leaf - 1
      /\ \A a \in P : a > 1 => Parent(a) \in Ancestors(leaf)
      /\ \A a, b \in P : a < b => a <= Parent(b)
  BY <1>1, Chain
<1>3. P \subseteq 1 .. Len(h)
  BY <1>1, <1>2
<1> SUFFICES ASSUME NEW a \in P, a > 1 PROVE SmallerChild(h, Parent(a), before) = a
  OBVIOUS
<1> DEFINE q == Parent(a)
           c == SmallerChild(h, q, before)
<1>4. a \in Nat /\ q \in Ancestors(leaf) /\ q \in 1 .. Len(h) /\ q < a
  BY <1>2, <1>3, ParentIs
<1> HIDE DEF q
<1>5. c \in P /\ c # q
  BY <1>4 DEF Descends
<1>6. Parent(c) = q /\ q < c /\ c \in Nat
  BY <1>3, <1>4, <1>5, SmallerChildIs
<1> HIDE DEF c, P
<1>7. ~(a < c)
  BY <1>2, <1>4, <1>5, <1>6
<1>8. ~(c < a)
  BY <1>2, <1>4, <1>5, <1>6 DEF q
<1> QED
  BY <1>4, <1>6, <1>7, <1>8 DEF c, q

\* What heappop makes of a list: the items of the path above place moved up, the item
\* of the root stands at place, and the others where they were.
Settled(g, h, leaf, place, before) ==
  /\ Descends(h, leaf, before)
  /\ place \in Ancestors(leaf) \cup {leaf}
  /\ Len(g) = Len(h)
  /\ \A i \in 1 .. Len(h) :
       /\ i = place => g[i] = h[1]
       /\ i \in Ancestors(leaf) /\ i < place => g[i] = h[SmallerChild(h, i, before)]
       /\ i \notin Ancestors(leaf) \cup {leaf} \/ i > place => g[i] = h[i]
  /\ place # leaf => Less(h[1], h[SmallerChild(h, place, before)], before)
  /\ place > 1 => ~Less(h[1], h[place], before)

LEMMA SiftUpPlaces ==
  ASSUME NEW h, Len(h) \in Nat, Len(h) >= 1, NEW before
  PROVE  \E leaf, place : Settled(SiftUp(h, before), h, leaf, place, before)
<1>1. PICK leaf : Descends(h, leaf, before)
  BY SiftUpDescends
<1> DEFINE n == Len(h)
           above == Ancestors(leaf)
           P == above \cup {leaf}
           r == Raised(h, leaf, before)
           g == SiftUp(h, before)
<1>2. /\ leaf \in 1 .. n /\ leaf \in Nat /\ leaf >= 1 /\ 1 \in P
      /\ \A a \in above : SmallerChild(h, a, before) \in P \ {a}
      /\ g = SiftDown(r, leaf, before)
  BY <1>1 DEF Descends
<1>3. /\ above \subseteq 1 .. leaf - 1
      /\ \A a \in P : a > 1 => Parent(a) \in above
  BY <1>2, Chain
<1>4. Len(r) = n /\ \A i \in 1 .. n : r[i] = IF i = leaf THEN h[1]
                                             ELSE IF i \in above THEN h[SmallerChild(h, i, before)]
                                             ELSE h[i]
  BY DEF Raised
<1> HIDE DEF r, g
<1>5. PICK place : Sifted(g, r, leaf, place, before)
  BY <1>2, <1>4, SiftDownPlaces
<1>6. /\ place \in P /\ Len(g) = n
      /\ \A i \in 1 .. n : /\ i = place => g[i] = r[leaf]
                           /\ i \in P /\ i > place => g[i] = r[Parent(i)]
                           /\ i \notin P \/ i < place => g[i] = r[i]
      /\ \A a \in above : a >= place => Less(r[leaf], r[a], before)
      /\ place > 1 => ~Less(r[leaf], r[Parent(place)], before)
  BY <1>4, <1>5 DEF Sifted
<1>7. P \subseteq 1 .. n /\ above \subseteq 1 .. n /\ leaf \notin above /\ r[leaf] = h[1]
  BY <1>2, <1>3, <1>4
<1>8. \A a \in above : r[a] = h[SmallerChild(h, a, before)]
  BY <1>4, <1>7
<1>9. \A a \in P : a > 1 => r[Parent(a)] = h[a]
  BY <1>1, <1>3, <1>8, DescentIs
<1> HIDE DEF above
<1>10. ASSUME NEW i \in 1 .. n
       PROVE  /\ i = place => g[i] = h[1]
              /\ i \in above /\ i < place => g[i] = h[SmallerChild(h, i, before)]
              /\ i \notin P \/ i > place => g[i] = h[i]
  <2>1. i > place => i > 1
    BY <1>6, <1>7
  <2>2. i \notin P => r[i] = h[i]
    BY <1>4
  <2> QED
    BY <1>6, <1>7, <1>8, <1>9, <2>1, <2>2
<1>11. place # leaf => Less(h[1], h[SmallerChild(h, place, before)], before)
  <2>1. place \in above => place >= place
    BY <1>7
  <2> QED
    BY <1>6, <1>7, <1>8, <2>1
<1>12. place > 1 => ~Less(h[1], h[place], before)
  BY <1>6, <1>7, <1>9
<1>13. Settled(g, h, leaf, place, before)
  BY <1>1, <1>6, <1>10, <1>11, <1>12 DEF Settled, above
<1> QED
  BY <1>13 DEF g

\* Neither child comes before the smaller one.
LEMMA SmallerChildIsSmaller ==
  ASSUME NEW T, NEW before, Sorts(before, T), NEW h, Len(h) \in Nat,
         \A i \in 1 .. Len(h) : h[i] \in T,
         NEW i \in 2 .. Len(h)
  PROVE  /\ SmallerChild(h, Parent(i), before) # Parent(i)
         /\ ~Less(h[i], h[SmallerChild(h, Parent(i), before)], before)
<1> DEFINE q == Parent(i)
           left == 2 * q
           right == 2 * q + 1
           c == SmallerChild(h, q, before)
<1>1. i = left \/ i = right
  BY DEF Parent
<1>2. q \in Nat /\ q >= 1 /\ i \in Nat
  BY ParentIs
<1> HIDE DEF q
<1>3. c = IF left > Len(h) THEN q
          ELSE IF left < Len(h) /\ ~Less(h[left], h[right], before) THEN right
          ELSE left
  BY DEF SmallerChild
<1>4. left \in 1 .. Len(h) /\ left # q /\ right # q
  BY <1>1, <1>2
<1>5. left < Len(h) => right \in 1 .. Len(h)
  BY <1>2
<1>6. ~(left > Len(h)) /\ (i = right => left < Len(h)) /\ right # left
  BY <1>1, <1>2
<1> HIDE DEF left, right, c
<1>7. c = left \/ c = right
  BY <1>3, <1>6
<1>8. ~Less(h[i], h[c], before)
  BY <1>1, <1>3, <1>4, <1>5, <1>6 DEF Sorts
<1> QED
  BY <1>4, <1>7, <1>8 DEF c, q

\* heappop leaves a list tidy that was tidy below the root, whatever is gone.
LEMMA SiftUpTidy ==
  ASSUME NEW T, NEW before, Sorts(before, T), NEW h \in Seq(T), Len(h) >= 1, NEW gone,
         \A i \in 2 .. Len(h) : Parent(i) # 1 /\ Less(h[i], h[Parent(i)], before) => h[i] \in gone
  PROVE  Tidy(SiftUp(h, before), before, gone)
<1> DEFINE n == Len(h)
           g == SiftUp(h, before)
           x == h[1]
           c(i) == SmallerChild(h, i, before)
<1>1. n \in Nat /\ \A i \in 1 .. n : h[i] \in T
  OBVIOUS
<1>2. PICK leaf, place : Settled(g, h, leaf, place, before)
  BY <1>1, SiftUpPlaces
<1> DEFINE above == Ancestors(leaf)
           P == above \cup {leaf}
<1>3. /\ leaf \in 1 .. n /\ leaf \in Nat /\ leaf >= 1 /\ 1 \in P /\ c(leaf) = leaf
      /\ \A a \in above : c(a) \in P \ {a}
      /\ place \in P /\ Len(g) = n
      /\ \A i \in 1 .. n : /\ i = place => g[i] = x
                           /\ i \in above /\ i < place => g[i] = h[c(i)]
                           /\ i \notin P \/ i > place => g[i] = h[i]
      /\ place # leaf => Less(x, h[c(place)], before)
      /\ place > 1 => ~Less(x, h[place], before)
  BY <1>2 DEF Settled, Descends
<1>4. /\ above \subseteq 1 .. leaf - 1
      /\ \A a \in P : a > 1 => Parent(a) \in above
      /\ \A a, b \in P : a < b => a <= Parent(b)
  BY <1>3, Chain
<1>5. P \subseteq 1 .. n /\ leaf \notin above /\ \A a \in above : a < leaf
  BY <1>3, <1>4
<1>6. \A a \in P : a > 1 => c(Parent(a)) = a
  <2>1. Descends(h, leaf, before)
    BY <1>2 DEF Settled
  <2> QED
    BY <1>1, <2>1, DescentIs
<1>7. \A i \in 2 .. n : c(Parent(i)) # Parent(i) /\ ~Less(h[i], h[c(Parent(i))], before)
  BY <1>1, SmallerChildIsSmaller
<1>8. \A i \in 2 .. n : i \in 1 .. n /\ i > 1 /\ Parent(i) \in 1 .. n /\ Parent(i) < i
  BY ParentIs
<1> HIDE DEF g, above, c
<1> SUFFICES ASSUME NEW i \in 2 .. n, Less(g[i], g[Parent(i)], before) PROVE g[i] \in gone
  BY <1>3 DEF Tidy, g
<1> DEFINE q == Parent(i)
<1>9. /\ Less(g[i], g[q], before) /\ i \in 1 .. n /\ i > 1 /\ q \in 1 .. n /\ q < i
      /\ c(q) # q /\ ~Less(h[i], h[c(q)], before)
      /\ (i \in P => q \in above /\ c(q) = i)
      /\ (i \in P /\ place < i => place <= q)
  BY <1>3, <1>4, <1>6, <1>7, <1>8
<1>10. q # 1 /\ Less(h[i], h[q], before) => h[i] \in gone
  OBVIOUS
<1>11. place \in 1 .. n /\ h[i] \in T /\ x \in T /\ h[q] \in T
  BY <1>1, <1>3, <1>5, <1>9
<1>12. q \in P => q \in above
  BY <1>3, <1>9
<1>13. q \in P => c(q) \in 1 .. n /\ h[c(q)] \in T
  BY <1>1, <1>3, <1>5, <1>12
<1> HIDE DEF q
\* Off the path, or below place: nothing moved.
<1>14. CASE q \notin P \/ q > place
  <2>1. q # 1
    BY <1>3, <1>11, <1>14
  <2>2. g[q] = h[q]
    BY <1>3, <1>9, <1>14
  <2>3. i \notin P \/ i > place
    BY <1>9, <1>11, <1>12, <1>14
  <2>4. g[i] = h[i]
    BY <1>3, <1>9, <2>3
  <2> QED
    BY <1>9, <1>10, <2>1, <2>2, <2>4
\* Below the item of the root: it comes before the smaller child.
<1>15. CASE q \in P /\ q = place
  <2>1. g[q] = x /\ Less(x, h[c(q)], before)
    BY <1>3, <1>9, <1>12, <1>15, <1>5
  <2>2. g[i] = h[i]
    BY <1>3, <1>9, <1>15
  <2>3. Less(h[i], x, before)
    BY <1>9, <2>1, <2>2
  <2> QED
    BY <1>9, <1>11, <1>13, <1>15, <2>1, <2>3, SortsTransitive
\* Below a smaller child that moved up.
<1>16. CASE q \in P /\ q < place
  <2>1. g[q] = h[c(q)]
    BY <1>3, <1>9, <1>12, <1>16
  <2>2. CASE i \notin P
    BY <1>3, <1>9, <2>1, <2>2
  <2>3. CASE i = place
    BY <1>3, <1>9, <2>1, <2>3
  <2>4. CASE i \in P /\ i # place
    <3>1. i < place /\ i \in above
      BY <1>3, <1>5, <1>9, <1>11, <1>16, <2>4
    <3>2. g[i] = h[c(i)] /\ g[q] = h[i]
      BY <1>3, <1>9, <2>1, <2>4, <3>1
    <3>3. c(i) \in P \ {i} /\ c(i) \in 1 .. n
      BY <1>3, <1>5, <3>1
    <3>4. Parent(c(i)) = i /\ i < c(i)
      BY <1>1, <1>9, <3>3, SmallerChildIs DEF c
    <3>5. c(i) \in 2 .. n
      BY <1>9, <3>3, <3>4
    <3> QED
      BY <1>9, <3>2, <3>4, <3>5
  <2> QED
    BY <2>2, <2>3, <2>4
<1> QED
  BY <1>9, <1>11, <1>14, <1>15, <1>16

LEMMA PopTidy ==
  ASSUME NEW T, NEW before, Sorts(before, T), NEW h \in Seq(T), h # <<>>, NEW gone,
         Tidy(h, before, gone)
  PROVE  Tidy(HeapPop(h, before), before, gone)
<1> DEFINE n == Len(h)
           rest == SubSeq(h, 1, n - 1)
           moved == [rest EXCEPT ![1] = h[n]]
<1>1. n \in Nat /\ n >= 1 /\ \A i \in 1 .. n : h[i] \in T
  OBVIOUS
<1>2. rest \in Seq(T) /\ Len(rest) = n - 1 /\ \A i \in 1 .. n - 1 : rest[i] = h[i]
  BY Front
<1>3. HeapPop(h, before) = IF rest = <<>> THEN rest ELSE SiftUp(moved, before)
  BY DEF HeapPop
<1> HIDE DEF rest
<1>4. CASE rest = <<>>
  BY <1>3, <1>4 DEF Tidy
<1>5. CASE rest # <<>>
  <2>1. /\ moved \in Seq(T) /\ Len(moved) = n - 1 /\ Len(moved) >= 1
        /\ \A i \in 2 .. n - 1 : moved[i] = h[i]
    BY <1>1, <1>2, <1>5
  <2> HIDE DEF moved
  <2>2. ASSUME NEW i \in 2 .. Len(moved), Parent(i) # 1, Less(moved[i], moved[Parent(i)], before)
        PROVE  moved[i] \in gone
    <3>1. i \in 2 .. n /\ i \in 2 .. n - 1 /\ i \in Nat /\ i > 1
      BY <1>1, <2>1
    <3>2. Parent(i) \in 2 .. n - 1
      <4>1. Parent(i) \in Nat /\ Parent(i) >= 1 /\ Parent(i) < i
        BY <3>1, ParentIs
      <4> QED
        BY <1>1, <2>2, <3>1, <4>1
    <3>3. moved[i] = h[i] /\ moved[Parent(i)] = h[Parent(i)]
      BY <2>1, <3>1, <3>2
    <3> QED
      BY <2>2, <3>1, <3>3 DEF Tidy
  <2>3. Tidy(SiftUp(moved, before), before, gone)
    BY <2>1, <2>2, SiftUpTidy
  <2> QED
    BY <1>3, <1>5, <2>3
<1> QED
  BY <1>4, <1>5

\* A loop that pops, likewise.
LEMMA PopWhileTidy ==
  ASSUME NEW T, NEW before, Sorts(before, T), NEW h \in Seq(T), NEW gone, NEW went,
         Tidy(h, before, went)
  PROVE  Tidy(PopWhile(h, gone, before), before, went)
<1> DEFINE R == {h[i] : i \in DOMAIN h}
           S == Seq(R)
           n == Len(h)
           f == [g \in S |-> IF g # <<>> /\ g[1] \in gone THEN HeapPop(g, before) ELSE g]
           left == Iterate(f, h, n)
           K == {g \in S : Tidy(g, before, went)}
<1>1. n \in Nat /\ h \in S /\ R \subseteq T
  <2>1. h = [i \in 1 .. n |-> h[i]] /\ n \in Nat /\ DOMAIN h = 1 .. n /\ \A i \in 1 .. n : h[i] \in T
    OBVIOUS
  <2>2. \A i \in 1 .. n : h[i] \in R
    BY <2>1
  <2> HIDE DEF R
  <2>3. h \in Seq(R)
    BY <2>1, <2>2
  <2>4. \A r \in R : r \in T
    BY <2>1 DEF R
  <2> QED
    BY <2>1, <2>3, <2>4
<1>2. PopWhile(h, gone, before) = left[n]
  BY DEF PopWhile
<1> HIDE DEF R
<1>3. Sorts(before, R)
  BY <1>1 DEF Sorts
<1>4. ASSUME NEW g \in S PROVE f[g] \in S /\ (g \in K => f[g] \in K)
  <2>1. CASE g # <<>> /\ g[1] \in gone
    <3>1. f[g] = HeapPop(g, before)
      BY <2>1
    <3>2. HeapPop(g, before) \in S
      BY <2>1, PopList
    <3>3. g \in K => Tidy(HeapPop(g, before), before, went)
      BY <1>3, <2>1, PopTidy
    <3> HIDE DEF f, S
    <3> QED
      BY <3>1, <3>2, <3>3
  <2>2. CASE ~(g # <<>> /\ g[1] \in gone)
    BY <2>2
  <2> QED
    BY <2>1, <2>2
<1>5. f \in [S -> S]
  <2>1. \A g \in S : f[g] \in S
    BY <1>4
  <2> QED
    BY <2>1
<1> HIDE DEF f
<1>6. Iterate(f, h, n) \in [0 .. n -> S] /\ Orbit(left, f, h, n)
  <2> HIDE DEF n, S
  <2> QED
    BY <1>1, <1>5, IterateOrbit
<1> HIDE DEF left
<1>7. left[0] \in K
  BY <1>1, <1>6 DEF Orbit
<1>8. ASSUME NEW k \in 1 .. n, left[k - 1] \in K PROVE left[k] \in K
  <2>1. left[k] = f[left[k - 1]] /\ left[k - 1] \in S
    BY <1>6, <1>8 DEF Orbit
  <2> HIDE DEF K, S
  <2> QED
    BY <1>4, <1>8, <2>1
<1>9. left[n] \in K
  <2>1. n \in 0 .. n
    BY <1>1
  <2> HIDE DEF K, n
  <2> QED
    BY <1>1, <1>7, <1>8, <2>1, Carried
<1> QED
  BY <1>2, <1>9

\* Keys that change: a list stays tidy if whatever comes to be before another is gone.
LEMMA StaysTidy ==
  ASSUME NEW h, Len(h) \in Nat, NEW before, NEW after, NEW gone, NEW went, Tidy(h, before, gone),
         \A x, y \in Elements(h) : Less(x, y, after) => Less(x, y, before) \/ x \in went,
         \A x \in Elements(h) : x \in gone => x \in went
  PROVE  Tidy(h, after, went)
<1> SUFFICES ASSUME NEW i \in 2 .. Len(h), Less(h[i], h[Parent(i)], after) PROVE h[i] \in went
  BY DEF Tidy
<1>1. i \in 1 .. Len(h) /\ Parent(i) \in 1 .. Len(h)
  BY ParentIs
<1>2. h[i] \in Elements(h) /\ h[Parent(i)] \in Elements(h)
  BY <1>1, InElements
<1> QED
  BY <1>2 DEF Tidy

\* A claim pops the first item and pushes it with another key, or the same one.
LEMMA RequeuedTidy ==
  ASSUME NEW T, NEW before, Sorts(before, T), NEW after, Sorts(after, T),
         NEW h \in Seq(T), h # <<>>, Distinct(h), NEW gone, Tidy(h, before, gone),
         \A x, y \in T : x # h[1] /\ y # h[1] /\ Less(x, y, after) => Less(x, y, before),
         \A y \in T : y \in gone => ~Less(h[1], y, after)
  PROVE  Tidy(HeapPush(HeapPop(h, before), h[1], after), after, gone)
<1> DEFINE rest == HeapPop(h, before)
           e == h[1]
<1>1. rest \in Seq(T) /\ e \in T /\ Elements(rest) = Elements(h) \ {e}
  BY PopList
<1>2. Tidy(rest, before, gone)
  BY PopTidy
<1> HIDE DEF rest
<1>3. \A x \in Elements(rest) : x \in T /\ x # e
  <2>1. \A x \in Elements(rest) : x # e
    BY <1>1
  <2>2. \A x \in Elements(rest) : x \in T
    BY <1>1 DEF Elements
  <2> QED
    BY <2>1, <2>2
<1>4. Len(rest) \in Nat
  BY <1>1
<1> HIDE DEF e
<1>5. Tidy(rest, after, gone)
  <2>1. \A x, y \in Elements(rest) : Less(x, y, after) => Less(x, y, before) \/ x \in gone
    BY <1>3 DEF e
  <2>2. \A x \in Elements(rest) : x \in gone => x \in gone
    OBVIOUS
  <2> QED
    BY <1>2, <1>4, <2>1, <2>2, StaysTidy
<1>6. \A y \in T : y \in gone => ~Less(e, y, after)
  BY DEF e
<1>7. Tidy(HeapPush(rest, e, after), after, gone)
  BY <1>1, <1>5, <1>6, PushTidy
<1> QED
  BY <1>7 DEF rest, e

--------------------------------------------------------------------------------
(* Card events.  Every claim pops and pushes, under an order that an event *)
(* delivered in place may have broken; that no event is lost or doubled    *)
(* rests on the sifts alone.                                               *)

QueuedEventsExist == \A e \in Elements(heap) : status[e] # 0

PendingIsQueued == \A e \in Events : status[e] \in {NOT_DELIVERED, CLAIMED} => e \in Elements(heap)

CardInv == TypeOK /\ Distinct(heap) /\ QueuedEventsExist /\ PendingIsQueued

LEMMA CardInit == Init => CardInv
<1> SUFFICES ASSUME Init PROVE CardInv
  OBVIOUS
<1>1. TypeOK
  BY CardAssumption DEF Init, TypeOK
<1>2. heap = <<>> /\ \A e \in Events : status[e] = 0
  BY DEF Init
<1>3. Distinct(heap)
  BY <1>2 DEF Distinct
<1>4. QueuedEventsExist
  BY <1>2 DEF QueuedEventsExist, Elements
<1>5. PendingIsQueued
  BY <1>2 DEF PendingIsQueued, NOT_DELIVERED, CLAIMED
<1> QED
  BY <1>1, <1>3, <1>4, <1>5 DEF CardInv

\* What the loop leaves: nothing, or a list that begins with an event to deliver.
LEMMA UndeliveredList ==
  ASSUME CardInv
  PROVE  /\ Undelivered \in Seq(Events) /\ Distinct(Undelivered)
         /\ Elements(Undelivered) \subseteq Elements(heap)
         /\ \A e \in Events : status[e] # DELIVERED /\ e \in Elements(heap) => e \in Elements(Undelivered)
         /\ Undelivered # <<>> => /\ Undelivered[1] \in Events
                                  /\ Undelivered[1] \in Elements(Undelivered)
                                  /\ status[Undelivered[1]] \in {NOT_DELIVERED, CLAIMED}
<1> DEFINE gone == {e \in Events : status[e] = DELIVERED}
           order == EventOrder(status, claimedAt)
           h == Undelivered
<1>1. h = PopWhile(heap, gone, order)
  BY DEF Undelivered
<1>2. heap \in Seq(Events) /\ Distinct(heap)
  BY DEF CardInv, TypeOK
<1> HIDE DEF gone, order, h
<1>3. /\ h \in Seq(Events) /\ Distinct(h)
      /\ Elements(h) \subseteq Elements(heap) /\ Elements(heap) \subseteq Elements(h) \cup gone
      /\ h = <<>> \/ (h[1] \notin gone /\ h[1] \in Events /\ h[1] \in Elements(h))
  BY <1>1, <1>2, PopWhileList
<1>4. \A e \in Events : status[e] # DELIVERED /\ e \in Elements(heap) => e \in Elements(h)
  BY <1>3 DEF gone
<1>5. ASSUME h # <<>> PROVE status[h[1]] \in {NOT_DELIVERED, CLAIMED}
  <2>1. h[1] \in Events /\ h[1] \in Elements(heap) /\ status[h[1]] # DELIVERED
    BY <1>3, <1>5 DEF gone
  <2>2. status[h[1]] \in 0 .. 3 /\ status[h[1]] # 0
    BY <2>1 DEF CardInv, TypeOK, QueuedEventsExist
  <2> QED
    BY <2>1, <2>2 DEF NOT_DELIVERED, CLAIMED, DELIVERED
<1> QED
  BY <1>3, <1>4, <1>5 DEF h

\* A list with the same events in it, as far as they are not delivered.
LEMMA QueueKept ==
  ASSUME CardInv, NEW e, e \in Elements(Undelivered) /\ status[e] # DELIVERED,
         heap' \in Seq(Events), Distinct(heap'), Elements(heap') = Elements(Undelivered),
         \A d \in Events : d # e => status'[d] = status[d],
         status'[e] \in {NOT_DELIVERED, CLAIMED}
  PROVE  Distinct(heap') /\ QueuedEventsExist' /\ PendingIsQueued'
<1>1. \A d : d \in Elements(heap') <=> d \in Elements(Undelivered)
  OBVIOUS
<1>2. \A d \in Elements(heap') : d \in Events
  BY DEF Elements
<1>3. QueuedEventsExist'
  BY <1>1, <1>2, UndeliveredList DEF CardInv, QueuedEventsExist, NOT_DELIVERED, CLAIMED
<1>4. PendingIsQueued'
  BY <1>1, UndeliveredList DEF CardInv, PendingIsQueued, NOT_DELIVERED, CLAIMED, DELIVERED
<1> QED
  BY <1>3, <1>4

LEMMA ClaimKept ==
  ASSUME CardInv, NEW w \in Workers, ClaimNext(w)
  PROVE  CardInv'
<1> DEFINE h == Undelivered
           e == h[1]
<1>1. /\ now[w] # Null /\ now' = [now EXCEPT ![w] = Null] /\ UNCHANGED <<cards, clock>>
      /\ h # <<>>
      /\ claimedAt' = [claimedAt EXCEPT ![e] = now[w]]
      /\ status' = [status EXCEPT ![e] = CLAIMED]
      /\ heap' = HeapPush(HeapPop(h, EventOrder(status, claimedAt)), e, EventOrder(status', claimedAt'))
  BY DEF ClaimNext, Return, PushEvent, PopEvent
<1>2. /\ h \in Seq(Events) /\ Distinct(h) /\ e \in Events /\ e \in Elements(h)
      /\ status[e] \in {NOT_DELIVERED, CLAIMED}
  BY <1>1, UndeliveredList
<1>3. heap' \in Seq(Events) /\ Distinct(heap') /\ Elements(heap') = Elements(h)
  <2> DEFINE before == EventOrder(status, claimedAt)
             after == EventOrder(status', claimedAt')
  <2> HIDE DEF h, before, after
  <2>1. /\ HeapPush(HeapPop(h, before), h[1], after) \in Seq(Events)
        /\ Distinct(HeapPush(HeapPop(h, before), h[1], after))
        /\ Elements(HeapPush(HeapPop(h, before), h[1], after)) = Elements(h)
    <3>1. h \in Seq(Events) /\ h # <<>> /\ Distinct(h)
      BY <1>1, <1>2
    <3> QED
      BY <3>1, Requeued
  <2> QED
    BY <1>1, <2>1 DEF before, after
<1> HIDE DEF h, e
<1>4. now[w] \in 1 .. MaxTime
  BY <1>1 DEF CardInv, TypeOK
<1>5. TypeOK'
  BY <1>1, <1>2, <1>3, <1>4, CardAssumption DEF CardInv, TypeOK, CLAIMED
<1>6. /\ \A d \in Events : d # e => status'[d] = status[d]
      /\ status'[e] = CLAIMED
  BY <1>1, <1>2 DEF CardInv, TypeOK
<1>7. Distinct(heap') /\ QueuedEventsExist' /\ PendingIsQueued'
  <2>1. status[e] # DELIVERED /\ e \in Elements(Undelivered) /\ Elements(heap') = Elements(Undelivered)
    BY <1>2, <1>3 DEF h, NOT_DELIVERED, CLAIMED, DELIVERED
  <2> QED
    BY <1>3, <1>6, <2>1, QueueKept
<1> QED
  BY <1>5, <1>7 DEF CardInv

LEMMA NoClaimKept ==
  ASSUME CardInv, NEW w \in Workers, ClaimNone(w)
  PROVE  CardInv'
<1> DEFINE h == Undelivered
           e == h[1]
<1>1. /\ now' = [now EXCEPT ![w] = Null] /\ UNCHANGED <<cards, clock, status, claimedAt>>
      /\ heap' = IF h = <<>> THEN h
                 ELSE HeapPush(HeapPop(h, EventOrder(status, claimedAt)), e, EventOrder(status, claimedAt))
  BY DEF ClaimNone, Return, PushEvent, PopEvent
<1>2. h \in Seq(Events) /\ Distinct(h)
  BY UndeliveredList
<1>3. heap' \in Seq(Events) /\ Distinct(heap') /\ Elements(heap') = Elements(h)
  <2> DEFINE before == EventOrder(status, claimedAt)
  <2> HIDE DEF h, before
  <2>1. CASE h = <<>>
    BY <1>1, <1>2, <2>1
  <2>2. CASE h # <<>>
    <3>1. /\ HeapPush(HeapPop(h, before), h[1], before) \in Seq(Events)
          /\ Distinct(HeapPush(HeapPop(h, before), h[1], before))
          /\ Elements(HeapPush(HeapPop(h, before), h[1], before)) = Elements(h)
      BY <1>2, <2>2, Requeued
    <3> QED
      BY <1>1, <2>2, <3>1 DEF before
  <2> QED
    BY <2>1, <2>2
<1>4. TypeOK'
  BY <1>1, <1>3 DEF CardInv, TypeOK
<1>5. \A d : d \in Elements(heap') <=> d \in Elements(Undelivered)
  BY <1>3
<1> HIDE DEF h, e
<1>6. \A d \in Elements(heap') : d \in Elements(heap)
  BY <1>5, UndeliveredList
<1>7. QueuedEventsExist'
  BY <1>1, <1>6 DEF CardInv, QueuedEventsExist
<1>8. PendingIsQueued'
  BY <1>1, <1>5, UndeliveredList DEF CardInv, PendingIsQueued, NOT_DELIVERED, CLAIMED, DELIVERED
<1> QED
  BY <1>3, <1>4, <1>7, <1>8 DEF CardInv

LEMMA EventPushed ==
  ASSUME CardInv, NEW c \in Cards, NEW s \in {"frozen", "unfrozen"}, NEW e \in Events, SetCard(c, s, e)
  PROVE  CardInv'
<1> DEFINE order == EventOrder(status', claimedAt)
<1>1. /\ status[e] = 0 /\ cards' = [cards EXCEPT ![c] = s]
      /\ status' = [status EXCEPT ![e] = NOT_DELIVERED]
      /\ heap' = HeapPush(heap, e, order)
      /\ UNCHANGED <<claimedAt, clock, now>>
  BY DEF SetCard, PushEvent
<1> HIDE DEF order
<1>2. heap \in Seq(Events) /\ Distinct(heap) /\ e \notin Elements(heap)
  BY <1>1 DEF CardInv, TypeOK, QueuedEventsExist
<1>3. heap' \in Seq(Events) /\ Distinct(heap') /\ Elements(heap') = Elements(heap) \cup {e}
  BY <1>1, <1>2, PushList
<1>4. TypeOK'
  BY <1>1, <1>3 DEF CardInv, TypeOK, NOT_DELIVERED
<1>5. \A d \in Elements(heap') : d \in Events
  BY <1>3 DEF Elements
<1>6. \A d \in Events : status'[d] = IF d = e THEN NOT_DELIVERED ELSE status[d]
  BY <1>1 DEF CardInv, TypeOK
<1>7. QueuedEventsExist' /\ PendingIsQueued'
  BY <1>3, <1>5, <1>6 DEF CardInv, QueuedEventsExist, PendingIsQueued, NOT_DELIVERED
<1> QED
  BY <1>3, <1>4, <1>7 DEF CardInv

LEMMA CardStep == CardInv /\ [Next]_cardVars => CardInv'
<1> SUFFICES ASSUME CardInv, [Next]_cardVars PROVE CardInv'
  OBVIOUS
<1>1. ASSUME NEW c \in Cards, NEW s \in {"frozen", "unfrozen"}, AddCard(c, s) PROVE CardInv'
  BY <1>1 DEF AddCard, CardInv, TypeOK, QueuedEventsExist, PendingIsQueued
<1>2. ASSUME NEW e \in Events, MarkDelivered(e) PROVE CardInv'
  <2>1. /\ status[e] # 0 /\ status' = [status EXCEPT ![e] = DELIVERED]
        /\ UNCHANGED <<cards, claimedAt, heap, clock, now>>
    BY <1>2 DEF MarkDelivered
  <2>2. TypeOK'
    BY <2>1 DEF CardInv, TypeOK, DELIVERED
  <2>3. \A d \in Events : status'[d] = IF d = e THEN DELIVERED ELSE status[d]
    BY <2>1 DEF CardInv, TypeOK
  <2>4. \A d \in Elements(heap) : d \in Events
    BY DEF CardInv, TypeOK, Elements
  <2>5. QueuedEventsExist' /\ PendingIsQueued'
    BY <2>1, <2>3, <2>4 DEF CardInv, QueuedEventsExist, PendingIsQueued, DELIVERED, NOT_DELIVERED, CLAIMED
  <2> QED
    BY <2>1, <2>2, <2>5 DEF CardInv
<1>3. ASSUME NEW w \in Workers, CallClaim(w) PROVE CardInv'
  BY <1>3 DEF CallClaim, CardInv, TypeOK, QueuedEventsExist, PendingIsQueued
<1>4. ASSUME Tick PROVE CardInv'
  <2>1. clock' \in 1 .. MaxTime
    BY <1>4, CardAssumption DEF Tick, CardInv, TypeOK
  <2> QED
    BY <1>4, <2>1 DEF Tick, CardInv, TypeOK, QueuedEventsExist, PendingIsQueued
<1>5. ASSUME UNCHANGED cardVars PROVE CardInv'
  BY <1>5 DEF cardVars, CardInv, TypeOK, QueuedEventsExist, PendingIsQueued
<1> QED
  BY <1>1, <1>2, <1>3, <1>4, <1>5, EventPushed, ClaimKept, NoClaimKept DEF Next

\* No claim is of a delivered event, or of one whose lease the time it came with is in.
LeaseKept ==
  \A e \in Events :
    /\ status[e] = DELIVERED => status'[e] = DELIVERED
    /\ status[e] = CLAIMED /\ claimedAt'[e] # claimedAt[e] => claimedAt'[e] > claimedAt[e] + TTL

LEMMA CardSteps == CardInv /\ [Next]_cardVars => [LeaseKept]_cardVars
<1> SUFFICES ASSUME CardInv, Next PROVE LeaseKept
  OBVIOUS
<1>1. ASSUME NEW w \in Workers, ClaimNext(w) PROVE LeaseKept
  <2> DEFINE d == Undelivered[1]
  <2>1. /\ d \in Events /\ status[d] \in {NOT_DELIVERED, CLAIMED}
    BY <1>1, UndeliveredList DEF ClaimNext
  <2>2. /\ claimedAt' = [claimedAt EXCEPT ![d] = now[w]]
        /\ status' = [status EXCEPT ![d] = CLAIMED]
        /\ status[d] = NOT_DELIVERED \/ ~(claimedAt[d] + TTL >= now[w])
        /\ now[w] # Null
    BY <1>1 DEF ClaimNext, Claimable, NotExpired, Return
  <2> HIDE DEF d
  <2>3. now[w] \in Nat /\ \A e \in Events : claimedAt[e] \in Nat
    BY <2>2, CardAssumption DEF CardInv, TypeOK
  <2>4. \A e \in Events : /\ e # d => status'[e] = status[e] /\ claimedAt'[e] = claimedAt[e]
                          /\ e = d => status'[e] = CLAIMED /\ claimedAt'[e] = now[w]
    BY <2>1, <2>2 DEF CardInv, TypeOK
  <2> QED
    BY <2>1, <2>2, <2>3, <2>4, CardAssumption DEF LeaseKept, NOT_DELIVERED, CLAIMED, DELIVERED
<1>2. ASSUME NEW c \in Cards, NEW s \in {"frozen", "unfrozen"}, NEW e \in Events, SetCard(c, s, e)
      PROVE  LeaseKept
  BY <1>2 DEF SetCard, LeaseKept, CardInv, TypeOK, DELIVERED, NOT_DELIVERED, CLAIMED
<1>3. ASSUME NEW e \in Events, MarkDelivered(e) PROVE LeaseKept
  BY <1>3 DEF MarkDelivered, LeaseKept, CardInv, TypeOK, DELIVERED, CLAIMED
<1>4. ASSUME NEW w \in Workers, ClaimNone(w) \/ CallClaim(w) PROVE LeaseKept
  BY <1>4 DEF ClaimNone, CallClaim, LeaseKept
<1>5. ASSUME NEW c \in Cards, NEW s \in {"frozen", "unfrozen"}, AddCard(c, s) PROVE LeaseKept
  BY <1>5 DEF AddCard, LeaseKept
<1>6. ASSUME Tick PROVE LeaseKept
  BY <1>6 DEF Tick, LeaseKept
<1> QED
  BY <1>1, <1>2, <1>3, <1>4, <1>5, <1>6 DEF Next

\* Events by status, time of the claim and id.
LEMMA EventsSort ==
  ASSUME NEW st \in [Events -> 0 .. 3], NEW cl \in [Events -> 0 .. MaxTime]
  PROVE  /\ \A a, b \in Events :
              Less(a, b, EventOrder(st, cl)) <=>
                \/ st[a] < st[b]
                \/ st[a] = st[b] /\ cl[a] < cl[b]
                \/ st[a] = st[b] /\ cl[a] = cl[b] /\ a < b
         /\ Sorts(EventOrder(st, cl), Events)
<1>1. \A a, b \in Events :
        Less(a, b, EventOrder(st, cl)) <=>
          \/ st[a] < st[b]
          \/ st[a] = st[b] /\ cl[a] < cl[b]
          \/ st[a] = st[b] /\ cl[a] = cl[b] /\ a < b
  BY DEF EventOrder, Less
<1>2. \A a \in Events : a \in Nat /\ st[a] \in Nat /\ cl[a] \in Nat
  BY CardAssumption
<1> DEFINE order == EventOrder(st, cl)
<1> HIDE DEF order
<1>3. Sorts(order, Events)
  <2>1. \A a, b \in Events :
          Less(a, b, order) <=>
            \/ st[a] < st[b]
            \/ st[a] = st[b] /\ cl[a] < cl[b]
            \/ st[a] = st[b] /\ cl[a] = cl[b] /\ a < b
    BY <1>1 DEF order
  <2>2. \A x, y \in Events : Less(x, y, order) => ~Less(y, x, order)
    BY <1>2, <2>1
  <2>3. \A x, y, z \in Events : Less(x, z, order) => Less(x, y, order) \/ Less(y, z, order)
    BY <1>2, <2>1
  <2> QED
    BY <2>2, <2>3 DEF Sorts
<1> QED
  BY <1>1, <1>3 DEF order

DeliveredEvents == {e \in Events : status[e] = DELIVERED}

HeapTidy == Tidy(heap, EventOrder(status, claimedAt), DeliveredEvents)

\* An event to deliver comes before none that is delivered.
LEMMA DeliveredFirst ==
  ASSUME NEW st \in [Events -> 0 .. 3], NEW cl \in [Events -> 0 .. MaxTime],
         NEW e \in Events, st[e] \in {NOT_DELIVERED, CLAIMED}
  PROVE  \A d \in Events : st[d] = DELIVERED => ~Less(e, d, EventOrder(st, cl))
<1> DEFINE order == EventOrder(st, cl)
<1>1. \A a, b \in Events :
        Less(a, b, order) <=>
          \/ st[a] < st[b]
          \/ st[a] = st[b] /\ cl[a] < cl[b]
          \/ st[a] = st[b] /\ cl[a] = cl[b] /\ a < b
  BY EventsSort
<1> HIDE DEF order
<1>2. \A d \in Events : st[d] = DELIVERED => ~Less(e, d, order)
  BY <1>1 DEF DELIVERED, NOT_DELIVERED, CLAIMED
<1> QED
  BY <1>2 DEF order

\* Events whose keys are the same compare the same.
LEMMA SameKeys ==
  ASSUME TypeOK, TypeOK',
         NEW a \in Events, status'[a] = status[a], claimedAt'[a] = claimedAt[a],
         NEW b \in Events, status'[b] = status[b], claimedAt'[b] = claimedAt[b]
  PROVE  Less(a, b, EventOrder(status', claimedAt')) => Less(a, b, EventOrder(status, claimedAt))
<1> DEFINE now0 == EventOrder(status, claimedAt)
           now1 == EventOrder(status', claimedAt')
<1>1. Less(a, b, now0) <=>
          \/ status[a] < status[b]
          \/ status[a] = status[b] /\ claimedAt[a] < claimedAt[b]
          \/ status[a] = status[b] /\ claimedAt[a] = claimedAt[b] /\ a < b
  BY EventsSort DEF TypeOK
<1>2. Less(a, b, now1) <=>
          \/ status'[a] < status'[b]
          \/ status'[a] = status'[b] /\ claimedAt'[a] < claimedAt'[b]
          \/ status'[a] = status'[b] /\ claimedAt'[a] = claimedAt'[b] /\ a < b
  BY EventsSort DEF TypeOK
<1> HIDE DEF now0, now1
<1>3. Less(a, b, now1) => Less(a, b, now0)
  BY <1>1, <1>2
<1> QED
  BY <1>3 DEF now0, now1

LEMMA TidyAtFirst == Init => HeapTidy
  BY DEF Init, HeapTidy, Tidy

LEMMA TidyPushed ==
  ASSUME CardInv, CardInv', HeapTidy,
         NEW c \in Cards, NEW s \in {"frozen", "unfrozen"}, NEW e \in Events, SetCard(c, s, e)
  PROVE  HeapTidy'
<1> DEFINE before == EventOrder(status, claimedAt)
           after == EventOrder(status', claimedAt')
<1>1. /\ status[e] = 0 /\ status' = [status EXCEPT ![e] = NOT_DELIVERED]
      /\ heap' = HeapPush(heap, e, after) /\ claimedAt' = claimedAt
  BY DEF SetCard, PushEvent
<1>2. TypeOK /\ TypeOK' /\ heap \in Seq(Events) /\ Len(heap) \in Nat
  BY DEF CardInv, TypeOK
<1>3. \A d \in Events : d # e => status'[d] = status[d] /\ claimedAt'[d] = claimedAt[d]
  BY <1>1, <1>2 DEF TypeOK
<1>4. status'[e] = NOT_DELIVERED
  BY <1>1, <1>2 DEF TypeOK
<1>5. \A d \in Elements(heap) : d \in Events /\ d # e
  <2>1. \A d \in Elements(heap) : d # e
    BY <1>1 DEF CardInv, QueuedEventsExist
  <2>2. \A d \in Elements(heap) : d \in Events
    BY <1>2 DEF Elements
  <2> QED
    BY <2>1, <2>2
<1>6. Sorts(after, Events)
  BY <1>2, EventsSort DEF TypeOK
<1>7. \A x, y \in Elements(heap) : Less(x, y, after) => Less(x, y, before)
  BY <1>2, <1>3, <1>5, SameKeys
<1>8. \A y \in Events : y \in DeliveredEvents' => ~Less(e, y, after)
  <2>1. status'[e] \in {NOT_DELIVERED, CLAIMED}
    BY <1>4
  <2> QED
    BY <1>2, <2>1, DeliveredFirst DEF TypeOK, DeliveredEvents
<1>9. \A x \in Elements(heap) : x \in DeliveredEvents => x \in DeliveredEvents'
  BY <1>3, <1>5 DEF DeliveredEvents
<1>10. Tidy(heap, before, DeliveredEvents)
  BY DEF HeapTidy
<1> HIDE DEF before, after
<1>11. Tidy(heap, after, DeliveredEvents')
  BY <1>2, <1>7, <1>9, <1>10, StaysTidy
<1>12. Tidy(heap', after, DeliveredEvents')
  BY <1>1, <1>2, <1>6, <1>8, <1>11, PushTidy
<1> QED
  BY <1>12 DEF HeapTidy, after

\* A delivered event comes before others, but only a delivered one comes before it.
LEMMA TidyDelivered ==
  ASSUME CardInv, CardInv', HeapTidy, NEW e \in Events, MarkDelivered(e)
  PROVE  HeapTidy'
<1> DEFINE before == EventOrder(status, claimedAt)
           after == EventOrder(status', claimedAt')
<1>1. /\ status' = [status EXCEPT ![e] = DELIVERED] /\ heap' = heap /\ claimedAt' = claimedAt
  BY DEF MarkDelivered
<1>2. TypeOK /\ TypeOK' /\ heap \in Seq(Events) /\ Len(heap) \in Nat
  BY DEF CardInv, TypeOK
<1>3. /\ \A d \in Events : d # e => status'[d] = status[d] /\ claimedAt'[d] = claimedAt[d]
      /\ status'[e] = DELIVERED
  BY <1>1, <1>2 DEF TypeOK
<1>4. \A d \in Elements(heap) : d \in Events /\ status[d] \in 1 .. 3
  <2>1. \A d \in Elements(heap) : status[d] # 0
    BY DEF CardInv, QueuedEventsExist
  <2>2. \A d \in Elements(heap) : d \in Events
    BY <1>2 DEF Elements
  <2> QED
    BY <1>2, <2>1, <2>2 DEF TypeOK
<1>5. ASSUME NEW x \in Elements(heap), NEW y \in Elements(heap), Less(x, y, after)
      PROVE  Less(x, y, before) \/ x \in DeliveredEvents'
  <2>1. CASE x = e
    BY <1>3, <2>1 DEF DeliveredEvents
  <2>2. CASE x # e /\ y = e
    <3>1. x \in Events /\ status'[x] \in 1 .. 3
      BY <1>3, <1>4, <2>2
    <3>2. status'[x] < status'[e] \/ status'[x] = status'[e]
      <4>1. status' \in [Events -> 0 .. 3] /\ claimedAt' \in [Events -> 0 .. MaxTime]
        BY <1>2 DEF TypeOK
      <4>2. \A a, b \in Events : Less(a, b, after) <=>
              \/ status'[a] < status'[b]
              \/ status'[a] = status'[b] /\ claimedAt'[a] < claimedAt'[b]
              \/ status'[a] = status'[b] /\ claimedAt'[a] = claimedAt'[b] /\ a < b
        BY <4>1, EventsSort
      <4> HIDE DEF after
      <4> QED
        BY <1>4, <1>5, <2>2, <4>2
    <3>3. status'[x] = DELIVERED
      BY <1>3, <3>1, <3>2 DEF DELIVERED
    <3> QED
      BY <3>1, <3>3 DEF DeliveredEvents
  <2>3. CASE x # e /\ y # e
    BY <1>2, <1>3, <1>4, <1>5, <2>3, SameKeys
  <2> QED
    BY <2>1, <2>2, <2>3
<1>6. \A x \in Elements(heap) : x \in DeliveredEvents => x \in DeliveredEvents'
  BY <1>3, <1>4 DEF DeliveredEvents
<1>7. Tidy(heap, before, DeliveredEvents)
  BY DEF HeapTidy
<1> HIDE DEF before, after
<1>8. Tidy(heap, after, DeliveredEvents')
  BY <1>2, <1>5, <1>6, <1>7, StaysTidy
<1> QED
  BY <1>1, <1>8 DEF HeapTidy, after

\* What the loop of claim_next_event leaves.
LEMMA UndeliveredTidy ==
  ASSUME CardInv, HeapTidy
  PROVE  Tidy(Undelivered, EventOrder(status, claimedAt), DeliveredEvents)
<1> DEFINE order == EventOrder(status, claimedAt)
<1>1. heap \in Seq(Events) /\ Sorts(order, Events)
  BY EventsSort DEF CardInv, TypeOK
<1>2. Undelivered = PopWhile(heap, DeliveredEvents, order)
  BY DEF Undelivered, DeliveredEvents
<1>3. Tidy(heap, order, DeliveredEvents)
  BY DEF HeapTidy
<1> HIDE DEF order
<1>4. Tidy(Undelivered, order, DeliveredEvents)
  BY <1>1, <1>2, <1>3, PopWhileTidy
<1> QED
  BY <1>4 DEF order

LEMMA TidyClaimed ==
  ASSUME CardInv, CardInv', HeapTidy, NEW w \in Workers, ClaimNext(w)
  PROVE  HeapTidy'
<1> DEFINE before == EventOrder(status, claimedAt)
           after == EventOrder(status', claimedAt')
           h == Undelivered
           e == h[1]
<1>1. /\ h # <<>>
      /\ claimedAt' = [claimedAt EXCEPT ![e] = now[w]]
      /\ status' = [status EXCEPT ![e] = CLAIMED]
      /\ heap' = HeapPush(HeapPop(h, before), e, after)
  BY DEF ClaimNext, PushEvent, PopEvent
<1>2. /\ h \in Seq(Events) /\ Distinct(h) /\ e \in Events
      /\ status[e] \in {NOT_DELIVERED, CLAIMED}
      /\ Tidy(h, before, DeliveredEvents)
  BY <1>1, UndeliveredList, UndeliveredTidy
<1>3. TypeOK /\ TypeOK'
  BY DEF CardInv
<1> HIDE DEF h
<1>4. /\ \A d \in Events : d # e => status'[d] = status[d] /\ claimedAt'[d] = claimedAt[d]
      /\ status'[e] = CLAIMED
  BY <1>1, <1>2, <1>3 DEF TypeOK
<1>5. Sorts(before, Events) /\ Sorts(after, Events)
  BY <1>3, EventsSort DEF TypeOK
<1>6. \A x, y \in Events : x # e /\ y # e /\ Less(x, y, after) => Less(x, y, before)
  BY <1>3, <1>4, SameKeys
<1>7. DeliveredEvents' = DeliveredEvents
  BY <1>2, <1>4 DEF DeliveredEvents, DELIVERED, NOT_DELIVERED, CLAIMED
<1>8. \A y \in Events : y \in DeliveredEvents => ~Less(e, y, after)
  <2>1. status'[e] \in {NOT_DELIVERED, CLAIMED}
    BY <1>4
  <2> QED
    BY <1>2, <1>3, <1>7, <2>1, DeliveredFirst DEF TypeOK, DeliveredEvents
<1> HIDE DEF before, after
<1>9. Tidy(heap', after, DeliveredEvents)
  BY <1>1, <1>2, <1>5, <1>6, <1>8, RequeuedTidy
<1> QED
  BY <1>7, <1>9 DEF HeapTidy, after

LEMMA TidyRefused ==
  ASSUME CardInv, HeapTidy, NEW w \in Workers, ClaimNone(w)
  PROVE  HeapTidy'
<1> DEFINE order == EventOrder(status, claimedAt)
           h == Undelivered
           e == h[1]
<1>1. /\ status' = status /\ claimedAt' = claimedAt
      /\ heap' = IF h = <<>> THEN h ELSE HeapPush(HeapPop(h, order), e, order)
  BY DEF ClaimNone, PushEvent, PopEvent
<1>2. h \in Seq(Events) /\ Distinct(h) /\ Tidy(h, order, DeliveredEvents)
  BY UndeliveredList, UndeliveredTidy
<1>3. Sorts(order, Events)
  BY EventsSort DEF CardInv, TypeOK
<1>4. h # <<>> => \A y \in Events : y \in DeliveredEvents => ~Less(e, y, order)
  BY UndeliveredList, DeliveredFirst DEF CardInv, TypeOK, DeliveredEvents
<1> HIDE DEF order, h
<1>5. h # <<>> => Tidy(HeapPush(HeapPop(h, order), e, order), order, DeliveredEvents)
  BY <1>2, <1>3, <1>4, RequeuedTidy
<1>6. Tidy(heap', order, DeliveredEvents)
  BY <1>1, <1>2, <1>5
<1>7. order' = order /\ DeliveredEvents' = DeliveredEvents
  BY <1>1 DEF order, DeliveredEvents
<1> QED
  BY <1>6, <1>7 DEF HeapTidy, order

LEMMA TidyStep == CardInv /\ HeapTidy /\ [Next]_cardVars => HeapTidy'
<1> SUFFICES ASSUME CardInv, HeapTidy, [Next]_cardVars PROVE HeapTidy'
  OBVIOUS
<1>1. CardInv'
  BY CardStep
<1>2. UNCHANGED <<status, claimedAt, heap>> => HeapTidy'
  BY DEF HeapTidy, DeliveredEvents
<1>3. ASSUME NEW c \in Cards, NEW s \in {"frozen", "unfrozen"}, AddCard(c, s) PROVE HeapTidy'
  BY <1>2, <1>3 DEF AddCard
<1>4. ASSUME NEW w \in Workers, CallClaim(w) PROVE HeapTidy'
  BY <1>2, <1>4 DEF CallClaim
<1>5. Tick \/ UNCHANGED cardVars => HeapTidy'
  BY <1>2 DEF Tick, cardVars
<1> QED
  BY <1>1, <1>3, <1>4, <1>5, TidyPushed, TidyDelivered, TidyClaimed, TidyRefused DEF Next

LEMMA TidyIsUndisturbed == CardInv /\ HeapTidy => OnlyDeliveriesDisturb
<1> DEFINE order == EventOrder(status, claimedAt)
<1> SUFFICES ASSUME CardInv, HeapTidy,
                    NEW i \in DOMAIN heap, NEW a \in Ancestors(i), Less(heap[i], heap[a], order)
             PROVE  \E d \in {i} \cup {x \in Ancestors(i) : x > a} : status[heap[d]] = DELIVERED
  BY DEF OnlyDeliveriesDisturb
<1>1. heap \in Seq(Events) /\ Sorts(order, Events) /\ i \in 1 .. Len(heap)
  BY EventsSort DEF CardInv, TypeOK
<1>2. Tidy(heap, order, DeliveredEvents)
  BY DEF HeapTidy
<1> HIDE DEF order
<1>3. \E d \in {i} \cup {x \in Ancestors(i) : x > a} : heap[d] \in DeliveredEvents
  BY <1>1, <1>2, TidyPaths
<1> QED
  BY <1>3 DEF DeliveredEvents

--------------------------------------------------------------------------------
(* CaseService has heapq as its own instance; it is the same heapq.        *)

LEMMA SameSiftDown == \A h, pos, before : Case!SiftDown(h, pos, before) = SiftDown(h, pos, before)
<1> TAKE h, pos, before
<1> DEFINE stays == {a \in Ancestors(pos) : ~Less(h[pos], h[a], before)}
           passed == {a \in Ancestors(pos) : \A s \in stays : s < a}
           place == Min(passed \cup {pos})
           caseStays == {a \in Case!Ancestors(pos) : ~Case!Less(h[pos], h[a], before)}
           casePassed == {a \in Case!Ancestors(pos) : \A s \in caseStays : s < a}
           casePlace == Case!Min(casePassed \cup {pos})
<1>1. Case!Ancestors(pos) = Ancestors(pos)
  BY Zenon DEF Case!Ancestors, Ancestors, Case!Iterate, Iterate, Case!Parent, Parent
<1>2. \A x, y : Case!Less(x, y, before) = Less(x, y, before)
  BY Zenon DEF Case!Less, Less
<1>3. \A i : Case!Parent(i) = Parent(i)
  BY Zenon DEF Case!Parent, Parent
<1>4. \A S : Case!Min(S) = Min(S)
  BY Zenon DEF Case!Min, Min
<1>5. caseStays = stays
  BY <1>1, <1>2
<1>6. casePassed = passed
  BY <1>1, <1>5
<1>7. casePlace = place
  BY <1>4, <1>6
<1>8. Case!SiftDown(h, pos, before) =
        [i \in 1 .. Len(h) |->
           CASE i = casePlace -> h[pos]
             [] i # casePlace /\ i \in casePassed \cup {pos} -> h[Case!Parent(i)]
             [] OTHER -> h[i]]
  BY DEF Case!SiftDown
<1>9. SiftDown(h, pos, before) =
        [i \in 1 .. Len(h) |->
           CASE i = place -> h[pos]
             [] i # place /\ i \in passed \cup {pos} -> h[Parent(i)]
             [] OTHER -> h[i]]
  BY DEF SiftDown
<1> HIDE DEF place, casePlace, passed, casePassed
<1> QED
  BY <1>3, <1>6, <1>7, <1>8, <1>9

LEMMA SamePush == \A h, x, before : Case!HeapPush(h, x, before) = HeapPush(h, x, before)
  BY SameSiftDown DEF Case!HeapPush, HeapPush

LEMMA SamePop == \A h, before : Case!HeapPop(h, before) = HeapPop(h, before)
<1>1. \A h, before : Case!SiftUp(h, before) = SiftUp(h, before)
  BY SameSiftDown, Zenon
  DEF Case!SiftUp, SiftUp, Case!Iterate, Iterate, Case!SmallerChild, SmallerChild, Case!Less, Less
<1> QED
  BY <1>1, Zenon DEF Case!HeapPop, HeapPop

LEMMA SamePopWhile ==
  \A h, gone, before : Case!PopWhile(h, gone, before) = PopWhile(h, gone, before)
<1> TAKE h, gone, before
<1> DEFINE S == Seq({h[i] : i \in DOMAIN h})
           pop == [g \in S |-> IF g # <<>> /\ g[1] \in gone THEN HeapPop(g, before) ELSE g]
           casePop == [g \in S |-> IF g # <<>> /\ g[1] \in gone THEN Case!HeapPop(g, before) ELSE g]
<1>1. casePop = pop
  <2> HIDE DEF S
  <2> QED
    BY SamePop
<1>2. \A f, n : Case!Iterate(f, h, n) = Iterate(f, h, n)
  BY Zenon DEF Case!Iterate, Iterate
<1>3. Case!PopWhile(h, gone, before) = Case!Iterate(casePop, h, Len(h))[Len(h)]
  BY Zenon DEF Case!PopWhile
<1>4. PopWhile(h, gone, before) = Iterate(pop, h, Len(h))[Len(h)]
  BY Zenon DEF PopWhile
<1> HIDE DEF pop, casePop
<1> QED
  BY <1>1, <1>2, <1>3, <1>4

--------------------------------------------------------------------------------
(* Support cases: the same, with the worker that claimed a case beside it. *)

CaseRecord == [status : 0 .. 3, claimedAt : 0 .. MaxTime,
               priority : Priorities \cup {0}, worker : Workers \cup {Null}]

QueuedCasesExist == \A c \in Elements(caseHeap) : caseRecords[c].status # 0

OpenIsQueued ==
  \A c \in Cases : caseRecords[c].status \in {Case!UNCLAIMED, Case!CLAIMED} => c \in Elements(caseHeap)

CaseInv == Case!TypeOK /\ Distinct(caseHeap) /\ QueuedCasesExist /\ OpenIsQueued

LEMMA CaseInit == Case!Init => CaseInv
<1> SUFFICES ASSUME Case!Init PROVE CaseInv
  OBVIOUS
<1>1. Case!TypeOK
  BY CardAssumption DEF Case!Init, Case!TypeOK
<1>2. caseHeap = <<>> /\ \A c \in Cases : caseRecords[c].status = 0
  BY DEF Case!Init
<1>3. Distinct(caseHeap)
  BY <1>2 DEF Distinct
<1>4. QueuedCasesExist
  BY <1>2 DEF QueuedCasesExist, Elements
<1>5. OpenIsQueued
  BY <1>2 DEF OpenIsQueued, Case!UNCLAIMED, Case!CLAIMED
<1> QED
  BY <1>1, <1>3, <1>4, <1>5 DEF CaseInv

LEMMA UncompletedList ==
  ASSUME CaseInv
  PROVE  /\ Case!Uncompleted \in Seq(Cases) /\ Distinct(Case!Uncompleted)
         /\ Elements(Case!Uncompleted) \subseteq Elements(caseHeap)
         /\ \A c \in Cases : caseRecords[c].status # Case!COMPLETED /\ c \in Elements(caseHeap) =>
              c \in Elements(Case!Uncompleted)
         /\ Case!Uncompleted # <<>> =>
              /\ Case!Uncompleted[1] \in Cases
              /\ Case!Uncompleted[1] \in Elements(Case!Uncompleted)
              /\ caseRecords[Case!Uncompleted[1]].status \in {Case!UNCLAIMED, Case!CLAIMED}
<1> DEFINE gone == {c \in Cases : caseRecords[c].status = Case!COMPLETED}
           order == Case!CaseOrder(caseRecords)
           h == Case!Uncompleted
<1>1. h = PopWhile(caseHeap, gone, order)
  BY SamePopWhile DEF Case!Uncompleted
<1>2. caseHeap \in Seq(Cases) /\ Distinct(caseHeap)
  BY DEF CaseInv, Case!TypeOK
<1> HIDE DEF gone, order, h
<1>3. /\ h \in Seq(Cases) /\ Distinct(h)
      /\ Elements(h) \subseteq Elements(caseHeap) /\ Elements(caseHeap) \subseteq Elements(h) \cup gone
      /\ h = <<>> \/ (h[1] \notin gone /\ h[1] \in Cases /\ h[1] \in Elements(h))
  BY <1>1, <1>2, PopWhileList
<1>4. \A c \in Cases : caseRecords[c].status # Case!COMPLETED /\ c \in Elements(caseHeap) => c \in Elements(h)
  BY <1>3 DEF gone
<1>5. ASSUME h # <<>> PROVE caseRecords[h[1]].status \in {Case!UNCLAIMED, Case!CLAIMED}
  <2>1. h[1] \in Cases /\ h[1] \in Elements(caseHeap) /\ caseRecords[h[1]].status # Case!COMPLETED
    BY <1>3, <1>5 DEF gone
  <2>2. caseRecords[h[1]].status \in 0 .. 3 /\ caseRecords[h[1]].status # 0
    BY <2>1 DEF CaseInv, Case!TypeOK, QueuedCasesExist
  <2> QED
    BY <2>1, <2>2 DEF Case!UNCLAIMED, Case!CLAIMED, Case!COMPLETED
<1> QED
  BY <1>3, <1>4, <1>5 DEF h

LEMMA CaseClaimed ==
  ASSUME CaseInv, NEW w \in Workers, Case!ClaimNext(w), NEW c, c = Case!Uncompleted[1]
  PROVE  /\ c \in Cases /\ c \in Elements(Case!Uncompleted) /\ Case!Uncompleted # <<>>
         /\ caseRecords[c].status \in {Case!UNCLAIMED, Case!CLAIMED}
         /\ caseNow[w] \in 1 .. MaxTime
         /\ caseRecords' \in [Cases -> CaseRecord]
         /\ caseRecords'[c].status = Case!CLAIMED
         /\ caseRecords'[c].claimedAt = caseNow[w]
         /\ \A d \in Cases : d # c => caseRecords'[d] = caseRecords[d]
<1>1. /\ c \in Cases /\ c \in Elements(Case!Uncompleted) /\ Case!Uncompleted # <<>>
      /\ caseRecords[c].status \in {Case!UNCLAIMED, Case!CLAIMED}
  BY UncompletedList DEF Case!ClaimNext
<1>2. caseNow[w] \in 1 .. MaxTime
  BY DEF CaseInv, Case!TypeOK, Case!ClaimNext, Case!Return
<1>3. caseRecords' = [caseRecords EXCEPT ![c].status = Case!CLAIMED, ![c].worker = w, ![c].claimedAt = caseNow[w]]
  BY DEF Case!ClaimNext
<1>4. caseRecords \in [Cases -> CaseRecord]
  BY DEF CaseInv, Case!TypeOK, CaseRecord
<1> DEFINE a == [caseRecords[c] EXCEPT !.status = Case!CLAIMED]
           b == [a EXCEPT !.worker = w]
           r == [b EXCEPT !.claimedAt = caseNow[w]]
<1>5. a \in CaseRecord /\ a.status = Case!CLAIMED
  BY <1>1, <1>4 DEF CaseRecord, Case!CLAIMED
<1> HIDE DEF a
<1>6. b \in CaseRecord /\ b.status = Case!CLAIMED
  BY <1>5 DEF CaseRecord
<1> HIDE DEF b
<1>7. r \in CaseRecord /\ r.status = Case!CLAIMED /\ r.claimedAt = caseNow[w]
  <2>1. caseNow[w] \in 0 .. MaxTime
    BY <1>2, CardAssumption
  <2> QED
    BY <1>6, <2>1 DEF CaseRecord
<1> HIDE DEF r
<1>8. caseRecords' = [caseRecords EXCEPT ![c] = r]
  BY <1>1, <1>3, <1>4 DEF r, a, b
<1> QED
  BY <1>1, <1>2, <1>4, <1>7, <1>8

LEMMA CaseClaimKept ==
  ASSUME CaseInv, NEW w \in Workers, Case!ClaimNext(w)
  PROVE  CaseInv'
<1> DEFINE h == Case!Uncompleted
           c == h[1]
<1>1. /\ caseNow' = [caseNow EXCEPT ![w] = Null] /\ UNCHANGED caseClock
      /\ caseHeap' = HeapPush(HeapPop(h, Case!CaseOrder(caseRecords)), c, Case!CaseOrder(caseRecords'))
  BY SamePush, SamePop DEF Case!ClaimNext, Case!Return, Case!PushCase, Case!PopCase
<1>2. /\ c \in Cases /\ c \in Elements(h) /\ h # <<>>
      /\ caseRecords[c].status \in {Case!UNCLAIMED, Case!CLAIMED}
      /\ caseRecords' \in [Cases -> CaseRecord]
      /\ caseRecords'[c].status = Case!CLAIMED
      /\ \A d \in Cases : d # c => caseRecords'[d] = caseRecords[d]
  BY CaseClaimed
<1>3. h \in Seq(Cases) /\ Distinct(h)
  BY UncompletedList
<1>4. caseHeap' \in Seq(Cases) /\ Distinct(caseHeap') /\ Elements(caseHeap') = Elements(h)
  <2> DEFINE before == Case!CaseOrder(caseRecords)
             after == Case!CaseOrder(caseRecords')
  <2> HIDE DEF h, before, after
  <2>1. /\ HeapPush(HeapPop(h, before), h[1], after) \in Seq(Cases)
        /\ Distinct(HeapPush(HeapPop(h, before), h[1], after))
        /\ Elements(HeapPush(HeapPop(h, before), h[1], after)) = Elements(h)
    BY <1>2, <1>3, Requeued
  <2> QED
    BY <1>1, <2>1 DEF before, after
<1> HIDE DEF c
<1>5. Case!TypeOK'
  BY <1>1, <1>2, <1>4 DEF CaseInv, Case!TypeOK, CaseRecord
<1> HIDE DEF h
<1>6. \A d : d \in Elements(caseHeap') <=> d \in Elements(h)
  BY <1>4
<1>7. \A d \in Elements(caseHeap') : d \in Cases
  BY <1>4 DEF Elements
<1>8. \A d \in Elements(h) : d \in Elements(caseHeap)
  BY UncompletedList DEF h
<1>9. QueuedCasesExist'
  BY <1>2, <1>6, <1>7, <1>8 DEF CaseInv, QueuedCasesExist, Case!CLAIMED
<1>10. OpenIsQueued'
  <2> SUFFICES ASSUME NEW d \in Cases, caseRecords'[d].status \in {Case!UNCLAIMED, Case!CLAIMED}
               PROVE  d \in Elements(h)
    BY <1>6 DEF OpenIsQueued
  <2>1. CASE d = c
    BY <1>2, <2>1
  <2>2. CASE d # c
    <3>1. caseRecords[d].status \in {Case!UNCLAIMED, Case!CLAIMED}
      BY <1>2, <2>2
    <3>2. d \in Elements(caseHeap) /\ caseRecords[d].status # Case!COMPLETED
      BY <3>1 DEF CaseInv, OpenIsQueued, Case!UNCLAIMED, Case!CLAIMED, Case!COMPLETED
    <3> QED
      BY <3>2, UncompletedList DEF h
  <2> QED
    BY <2>1, <2>2
<1> QED
  BY <1>4, <1>5, <1>9, <1>10 DEF CaseInv

LEMMA CaseNoClaimKept ==
  ASSUME CaseInv, NEW w \in Workers, Case!ClaimNone(w)
  PROVE  CaseInv'
<1> DEFINE h == Case!Uncompleted
           before == Case!CaseOrder(caseRecords)
<1>1. /\ caseNow' = [caseNow EXCEPT ![w] = Null] /\ UNCHANGED <<caseClock, caseRecords>>
      /\ caseHeap' = IF h = <<>> THEN h ELSE HeapPush(HeapPop(h, before), h[1], before)
  BY SamePush, SamePop DEF Case!ClaimNone, Case!Return, Case!PushCase, Case!PopCase
<1>2. h \in Seq(Cases) /\ Distinct(h)
  BY UncompletedList
<1>3. caseHeap' \in Seq(Cases) /\ Distinct(caseHeap') /\ Elements(caseHeap') = Elements(h)
  <2> HIDE DEF h, before
  <2>1. CASE h = <<>>
    BY <1>1, <1>2, <2>1
  <2>2. CASE h # <<>>
    <3>1. /\ HeapPush(HeapPop(h, before), h[1], before) \in Seq(Cases)
          /\ Distinct(HeapPush(HeapPop(h, before), h[1], before))
          /\ Elements(HeapPush(HeapPop(h, before), h[1], before)) = Elements(h)
      BY <1>2, <2>2, Requeued
    <3> QED
      BY <1>1, <2>2, <3>1
  <2> QED
    BY <2>1, <2>2
<1> HIDE DEF before
<1>4. Case!TypeOK'
  BY <1>1, <1>3 DEF CaseInv, Case!TypeOK
<1>5. \A d : d \in Elements(caseHeap') <=> d \in Elements(h)
  BY <1>3
<1>6. \A d \in Elements(caseHeap') : d \in Elements(caseHeap)
  BY <1>5, UncompletedList
<1>7. QueuedCasesExist'
  BY <1>1, <1>6 DEF CaseInv, QueuedCasesExist
<1>8. OpenIsQueued'
  BY <1>1, <1>5, UncompletedList DEF CaseInv, OpenIsQueued, Case!UNCLAIMED, Case!CLAIMED, Case!COMPLETED
<1> QED
  BY <1>3, <1>4, <1>7, <1>8 DEF CaseInv

LEMMA CasePushed ==
  ASSUME CaseInv, NEW c \in Cases, NEW p \in Priorities, Case!AddCase(c, p)
  PROVE  CaseInv'
<1> DEFINE order == Case!CaseOrder(caseRecords')
           r == [status |-> Case!UNCLAIMED, claimedAt |-> 0, priority |-> p, worker |-> Null]
<1>1. /\ caseRecords[c].status = 0
      /\ caseRecords' = [caseRecords EXCEPT ![c] = r]
      /\ caseHeap' = HeapPush(caseHeap, c, order)
      /\ UNCHANGED <<caseClock, caseNow>>
  BY SamePush DEF Case!AddCase, Case!PushCase
<1>2. r \in CaseRecord /\ r.status = Case!UNCLAIMED
  BY CardAssumption DEF CaseRecord, Case!UNCLAIMED
<1> HIDE DEF order, r
<1>3. caseHeap \in Seq(Cases) /\ Distinct(caseHeap) /\ c \notin Elements(caseHeap)
  BY <1>1 DEF CaseInv, Case!TypeOK, QueuedCasesExist
<1>4. caseHeap' \in Seq(Cases) /\ Distinct(caseHeap') /\ Elements(caseHeap') = Elements(caseHeap) \cup {c}
  BY <1>1, <1>3, PushList
<1>5. caseRecords \in [Cases -> CaseRecord]
  BY DEF CaseInv, Case!TypeOK, CaseRecord
<1>6. caseRecords' \in [Cases -> CaseRecord]
  BY <1>1, <1>2, <1>5
<1>7. Case!TypeOK'
  BY <1>1, <1>4, <1>6 DEF CaseInv, Case!TypeOK, CaseRecord
<1>8. \A d \in Cases : caseRecords'[d] = IF d = c THEN r ELSE caseRecords[d]
  BY <1>1, <1>5
<1>9. \A d \in Elements(caseHeap') : d \in Cases
  BY <1>4 DEF Elements
<1>10. QueuedCasesExist' /\ OpenIsQueued'
  BY <1>2, <1>4, <1>8, <1>9 DEF CaseInv, QueuedCasesExist, OpenIsQueued, Case!UNCLAIMED
<1> QED
  BY <1>4, <1>7, <1>10 DEF CaseInv

LEMMA CompletedRecord ==
  ASSUME CaseInv, NEW c \in Cases, NEW w \in Workers, Case!MarkCompleted(c, w)
  PROVE  /\ caseRecords' \in [Cases -> CaseRecord]
         /\ \A d \in Cases : d # c => caseRecords'[d] = caseRecords[d]
         /\ caseRecords'[c] = [caseRecords[c] EXCEPT !.status = Case!COMPLETED]
         /\ caseRecords'[c].status = Case!COMPLETED
         /\ caseRecords[c].status = Case!COMPLETED => caseRecords'[c] = caseRecords[c]
<1> DEFINE r == [caseRecords[c] EXCEPT !.status = Case!COMPLETED]
<1>1. caseRecords' = [caseRecords EXCEPT ![c] = r] /\ caseRecords[c] \in CaseRecord
  BY DEF Case!MarkCompleted, CaseInv, Case!TypeOK, CaseRecord
<1>2. r \in CaseRecord /\ r.status = Case!COMPLETED
  BY <1>1 DEF CaseRecord, Case!COMPLETED
<1>3. caseRecords[c].status = Case!COMPLETED => r = caseRecords[c]
  BY <1>1 DEF CaseRecord
<1>4. caseRecords \in [Cases -> CaseRecord]
  BY DEF CaseInv, Case!TypeOK, CaseRecord
<1> QED
  BY <1>1, <1>2, <1>3, <1>4

LEMMA CaseStep == CaseInv /\ [Case!Next]_mcCaseVars => CaseInv'
<1> SUFFICES ASSUME CaseInv, [Case!Next]_mcCaseVars PROVE CaseInv'
  OBVIOUS
<1>1. ASSUME NEW c \in Cases, NEW w \in Workers, Case!MarkCompleted(c, w) PROVE CaseInv'
  <2>1. /\ caseRecords' \in [Cases -> CaseRecord]
        /\ \A d \in Cases : d # c => caseRecords'[d] = caseRecords[d]
        /\ caseRecords'[c].status = Case!COMPLETED
        /\ UNCHANGED <<caseHeap, caseClock, caseNow>>
    BY <1>1, CompletedRecord DEF Case!MarkCompleted
  <2>2. Case!TypeOK'
    BY <2>1 DEF CaseInv, Case!TypeOK, CaseRecord
  <2>3. \A d \in Elements(caseHeap) : d \in Cases
    BY DEF CaseInv, Case!TypeOK, Elements
  <2>4. QueuedCasesExist' /\ OpenIsQueued'
    BY <2>1, <2>3
    DEF CaseInv, QueuedCasesExist, OpenIsQueued, Case!COMPLETED, Case!UNCLAIMED, Case!CLAIMED
  <2> QED
    BY <2>1, <2>2, <2>4 DEF CaseInv
<1>2. ASSUME NEW w \in Workers, Case!CallClaim(w) PROVE CaseInv'
  BY <1>2 DEF Case!CallClaim, CaseInv, Case!TypeOK, QueuedCasesExist, OpenIsQueued
<1>3. ASSUME Case!Tick PROVE CaseInv'
  <2>1. caseClock' \in 1 .. MaxTime
    BY <1>3, CardAssumption DEF Case!Tick, CaseInv, Case!TypeOK
  <2> QED
    BY <1>3, <2>1 DEF Case!Tick, CaseInv, Case!TypeOK, QueuedCasesExist, OpenIsQueued
<1>4. ASSUME UNCHANGED mcCaseVars PROVE CaseInv'
  BY <1>4 DEF mcCaseVars, CaseInv, Case!TypeOK, QueuedCasesExist, OpenIsQueued
<1> QED
  BY <1>1, <1>2, <1>3, <1>4, CasePushed, CaseClaimKept, CaseNoClaimKept DEF Case!Next

\* What LeaseRespected says of a step of CaseService.
CaseLeaseKept ==
  \A c \in Cases :
    /\ caseRecords[c].status = Case!CLAIMED /\ caseRecords'[c].claimedAt # caseRecords[c].claimedAt =>
         caseRecords'[c].claimedAt > caseRecords[c].claimedAt + TTL
    /\ caseRecords[c].status = Case!CLAIMED /\ caseRecords'[c].claimedAt = caseRecords[c].claimedAt =>
         caseRecords'[c].worker = caseRecords[c].worker
    /\ caseRecords[c].status = Case!COMPLETED => caseRecords'[c] = caseRecords[c]

LEMMA CaseSteps == CaseInv /\ [Case!Next]_mcCaseVars => [CaseLeaseKept]_mcCaseVars
<1> SUFFICES ASSUME CaseInv, Case!Next PROVE CaseLeaseKept
  OBVIOUS
<1>1. ASSUME NEW w \in Workers, Case!ClaimNext(w) PROVE CaseLeaseKept
  <2> DEFINE d == Case!Uncompleted[1]
  <2>1. /\ d \in Cases /\ caseRecords[d].status \in {Case!UNCLAIMED, Case!CLAIMED}
        /\ caseNow[w] \in 1 .. MaxTime
        /\ caseRecords'[d].status = Case!CLAIMED
        /\ caseRecords'[d].claimedAt = caseNow[w]
        /\ \A c \in Cases : c # d => caseRecords'[c] = caseRecords[c]
    BY <1>1, CaseClaimed
  <2>2. caseRecords[d].status = Case!UNCLAIMED \/ caseRecords[d].claimedAt + TTL < caseNow[w]
    BY <1>1 DEF Case!ClaimNext, Case!Claimable
  <2> HIDE DEF d
  <2>3. \A c \in Cases : caseRecords[c].claimedAt \in Nat
    BY DEF CaseInv, Case!TypeOK
  <2> SUFFICES ASSUME NEW c \in Cases
               PROVE  CaseLeaseKept!(c)
    BY DEF CaseLeaseKept
  <2>4. CASE c # d
    BY <2>1, <2>3, <2>4
  <2>5. CASE c = d
    <3>1. caseRecords[d].status # Case!COMPLETED
      BY <2>1 DEF Case!COMPLETED, Case!UNCLAIMED, Case!CLAIMED
    <3>2. ASSUME caseRecords[d].status = Case!CLAIMED PROVE caseNow[w] > caseRecords[d].claimedAt + TTL
      BY <2>1, <2>2, <2>3, <3>2, CardAssumption DEF Case!UNCLAIMED, Case!CLAIMED
    <3>3. caseNow[w] > caseRecords[d].claimedAt + TTL => caseNow[w] # caseRecords[d].claimedAt
      BY <2>1, <2>3, CardAssumption
    <3> QED
      BY <2>1, <2>5, <3>1, <3>2, <3>3
  <2> QED
    BY <2>4, <2>5
<1>2. ASSUME NEW c \in Cases, NEW p \in Priorities, Case!AddCase(c, p) PROVE CaseLeaseKept
  <2>1. /\ caseRecords[c].status = 0
        /\ \A d \in Cases : d # c => caseRecords'[d] = caseRecords[d]
    BY <1>2 DEF Case!AddCase, CaseInv, Case!TypeOK
  <2> QED
    BY <2>1 DEF CaseLeaseKept, Case!CLAIMED, Case!COMPLETED
<1>3. ASSUME NEW c \in Cases, NEW w \in Workers, Case!MarkCompleted(c, w) PROVE CaseLeaseKept
  <2>1. /\ \A d \in Cases : d # c => caseRecords'[d] = caseRecords[d]
        /\ caseRecords'[c] = [caseRecords[c] EXCEPT !.status = Case!COMPLETED]
        /\ caseRecords[c].status = Case!COMPLETED => caseRecords'[c] = caseRecords[c]
    BY <1>3, CompletedRecord
  <2>2. caseRecords[c] \in CaseRecord
    BY DEF CaseInv, Case!TypeOK, CaseRecord
  <2>3. caseRecords'[c].claimedAt = caseRecords[c].claimedAt /\ caseRecords'[c].worker = caseRecords[c].worker
    BY <2>1, <2>2 DEF CaseRecord
  <2> QED
    BY <2>1, <2>3 DEF CaseLeaseKept
<1>4. ASSUME NEW w \in Workers, Case!ClaimNone(w) \/ Case!CallClaim(w) PROVE CaseLeaseKept
  BY <1>4 DEF Case!ClaimNone, Case!CallClaim, CaseLeaseKept
<1>5. ASSUME Case!Tick PROVE CaseLeaseKept
  BY <1>5 DEF Case!Tick, CaseLeaseKept
<1> QED
  BY <1>1, <1>2, <1>3, <1>4, <1>5 DEF Case!Next

\* Cases by status, time of the claim, priority and id.
Precedes(x, y) ==
  \/ x.status < y.status
  \/ x.status = y.status /\ x.claimedAt < y.claimedAt
  \/ x.status = y.status /\ x.claimedAt = y.claimedAt /\ x.priority < y.priority

SameRank(x, y) == x.status = y.status /\ x.claimedAt = y.claimedAt /\ x.priority = y.priority

LEMMA CasesSort ==
  ASSUME NEW f \in [Cases -> CaseRecord]
  PROVE  /\ \A a, b \in Cases :
              Less(a, b, Case!CaseOrder(f)) <=>
                Precedes(f[a], f[b]) \/ (SameRank(f[a], f[b]) /\ a < b)
         /\ Sorts(Case!CaseOrder(f), Cases)
<1> DEFINE order == Case!CaseOrder(f)
<1>1. \A a, b \in Cases :
        Less(a, b, order) <=> Precedes(f[a], f[b]) \/ (SameRank(f[a], f[b]) /\ a < b)
  BY DEF Case!CaseOrder, Less, Precedes, SameRank
<1>2. \A a \in Cases : /\ a \in Nat /\ f[a].status \in Nat
                       /\ f[a].claimedAt \in Nat /\ f[a].priority \in Nat
  <2>1. \A r \in CaseRecord : r.status \in Nat /\ r.claimedAt \in Nat /\ r.priority \in Nat
    <3> SUFFICES ASSUME NEW r \in CaseRecord
                 PROVE  r.status \in Nat /\ r.claimedAt \in Nat /\ r.priority \in Nat
      OBVIOUS
    <3>1. r.status \in 0 .. 3 /\ r.claimedAt \in 0 .. MaxTime /\ r.priority \in Priorities \cup {0}
      BY DEF CaseRecord
    <3>2. r.status \in Nat /\ r.claimedAt \in Nat
      BY <3>1, CardAssumption
    <3>3. r.priority \in Nat
      <4>1. \A p \in Priorities : p \in Nat
        BY CaseAssumption
      <4>2. r.priority \in Priorities \/ r.priority = 0
        BY <3>1
      <4> QED
        BY <4>1, <4>2
    <3> QED
      BY <3>2, <3>3
  <2> QED
    BY <2>1, CaseAssumption
<1> HIDE DEF order
<1>3. \A x, y \in Cases : Less(x, y, order) => ~Less(y, x, order)
  BY <1>1, <1>2 DEF Precedes, SameRank
<1>4. \A x, y, z \in Cases : Less(x, z, order) => Less(x, y, order) \/ Less(y, z, order)
  BY <1>1, <1>2 DEF Precedes, SameRank
<1>5. Sorts(order, Cases)
  BY <1>3, <1>4 DEF Sorts
<1> QED
  BY <1>1, <1>5 DEF order

CompletedCases == {c \in Cases : caseRecords[c].status = Case!COMPLETED}

CaseHeapTidy == Tidy(caseHeap, Case!CaseOrder(caseRecords), CompletedCases)

\* A case to work on comes before none that is completed.
LEMMA CompletedFirst ==
  ASSUME NEW f \in [Cases -> CaseRecord],
         NEW c \in Cases, f[c].status \in {Case!UNCLAIMED, Case!CLAIMED}
  PROVE  \A d \in Cases : f[d].status = Case!COMPLETED => ~Less(c, d, Case!CaseOrder(f))
<1> DEFINE order == Case!CaseOrder(f)
<1>1. \A a, b \in Cases :
        Less(a, b, order) <=> Precedes(f[a], f[b]) \/ (SameRank(f[a], f[b]) /\ a < b)
  BY CasesSort
<1> HIDE DEF order
<1>2. \A d \in Cases : f[d].status = Case!COMPLETED => ~Less(c, d, order)
  BY <1>1 DEF Precedes, SameRank, Case!COMPLETED, Case!UNCLAIMED, Case!CLAIMED
<1> QED
  BY <1>2 DEF order

\* Cases whose records are the same compare the same.
LEMMA SameRecords ==
  ASSUME NEW f \in [Cases -> CaseRecord], NEW g \in [Cases -> CaseRecord],
         NEW a \in Cases, g[a] = f[a], NEW b \in Cases, g[b] = f[b]
  PROVE  Less(a, b, Case!CaseOrder(g)) => Less(a, b, Case!CaseOrder(f))
<1> DEFINE before == Case!CaseOrder(f)
           after == Case!CaseOrder(g)
<1>1. Less(a, b, before) <=> Precedes(f[a], f[b]) \/ (SameRank(f[a], f[b]) /\ a < b)
  BY CasesSort
<1>2. Less(a, b, after) <=> Precedes(g[a], g[b]) \/ (SameRank(g[a], g[b]) /\ a < b)
  BY CasesSort
<1> HIDE DEF before, after
<1>3. Less(a, b, after) => Less(a, b, before)
  BY <1>1, <1>2
<1> QED
  BY <1>3 DEF before, after

LEMMA CaseTypes ==
  CaseInv => /\ caseRecords \in [Cases -> CaseRecord]
             /\ caseHeap \in Seq(Cases) /\ Len(caseHeap) \in Nat /\ Distinct(caseHeap)
             /\ \A d \in Elements(caseHeap) : d \in Cases /\ caseRecords[d].status \in 1 .. 3
<1> SUFFICES ASSUME CaseInv
             PROVE  /\ caseRecords \in [Cases -> CaseRecord]
                    /\ caseHeap \in Seq(Cases) /\ Len(caseHeap) \in Nat /\ Distinct(caseHeap)
                    /\ \A d \in Elements(caseHeap) : d \in Cases /\ caseRecords[d].status \in 1 .. 3
  OBVIOUS
<1>1. caseRecords \in [Cases -> CaseRecord]
  BY DEF CaseInv, Case!TypeOK, CaseRecord
<1>2. caseHeap \in Seq(Cases) /\ Len(caseHeap) \in Nat /\ Distinct(caseHeap)
  BY DEF CaseInv, Case!TypeOK
<1>3. \A d \in Elements(caseHeap) : d \in Cases
  BY <1>2 DEF Elements
<1>4. \A d \in Elements(caseHeap) : caseRecords[d].status # 0
  BY DEF CaseInv, QueuedCasesExist
<1>5. \A r \in CaseRecord : r.status # 0 => r.status \in 1 .. 3
  BY DEF CaseRecord
<1> QED
  BY <1>1, <1>2, <1>3, <1>4, <1>5

LEMMA CaseTidyPushed ==
  ASSUME CaseInv, CaseInv', CaseHeapTidy, NEW c \in Cases, NEW p \in Priorities, Case!AddCase(c, p)
  PROVE  CaseHeapTidy'
<1> DEFINE before == Case!CaseOrder(caseRecords)
           after == Case!CaseOrder(caseRecords')
           r == [status |-> Case!UNCLAIMED, claimedAt |-> 0, priority |-> p, worker |-> Null]
<1>1. /\ caseRecords[c].status = 0
      /\ caseRecords' = [caseRecords EXCEPT ![c] = r]
      /\ caseHeap' = HeapPush(caseHeap, c, after)
  BY SamePush DEF Case!AddCase, Case!PushCase
<1>2. r.status = Case!UNCLAIMED
  OBVIOUS
<1> HIDE DEF r
<1>3. /\ caseRecords \in [Cases -> CaseRecord] /\ caseRecords' \in [Cases -> CaseRecord]
      /\ caseHeap \in Seq(Cases) /\ Len(caseHeap) \in Nat
  <2>1. CaseInv' => caseRecords' \in [Cases -> CaseRecord]
    BY DEF CaseInv, Case!TypeOK, CaseRecord
  <2> QED
    BY <2>1, CaseTypes
<1>4. /\ \A d \in Cases : d # c => caseRecords'[d] = caseRecords[d]
      /\ caseRecords'[c].status = Case!UNCLAIMED
  BY <1>1, <1>2, <1>3
<1>5. \A d \in Elements(caseHeap) : d \in Cases /\ d # c
  BY <1>1, CaseTypes
<1>6. Sorts(after, Cases)
  BY <1>3, CasesSort
<1>7. \A x, y \in Elements(caseHeap) : Less(x, y, after) => Less(x, y, before)
  BY <1>3, <1>4, <1>5, SameRecords
<1>8. \A y \in Cases : y \in CompletedCases' => ~Less(c, y, after)
  <2>1. \A y \in Cases : caseRecords'[y].status = Case!COMPLETED => ~Less(c, y, after)
    BY <1>3, <1>4, CompletedFirst
  <2> QED
    BY <2>1 DEF CompletedCases
<1>9. \A x \in Elements(caseHeap) : x \in CompletedCases => x \in CompletedCases'
  BY <1>4, <1>5 DEF CompletedCases
<1>10. Tidy(caseHeap, before, CompletedCases)
  BY DEF CaseHeapTidy
<1> HIDE DEF before, after
<1>11. Tidy(caseHeap, after, CompletedCases')
  BY <1>3, <1>7, <1>9, <1>10, StaysTidy
<1>12. Tidy(caseHeap', after, CompletedCases')
  BY <1>1, <1>3, <1>6, <1>8, <1>11, PushTidy
<1> QED
  BY <1>12 DEF CaseHeapTidy, after

\* A completed case comes before others, but only a completed one comes before it.
LEMMA CaseTidyCompleted ==
  ASSUME CaseInv, CaseHeapTidy, NEW c \in Cases, NEW w \in Workers, Case!MarkCompleted(c, w)
  PROVE  CaseHeapTidy'
<1> DEFINE before == Case!CaseOrder(caseRecords)
           after == Case!CaseOrder(caseRecords')
<1>1. /\ caseRecords' \in [Cases -> CaseRecord]
      /\ \A d \in Cases : d # c => caseRecords'[d] = caseRecords[d]
      /\ caseRecords'[c].status = Case!COMPLETED
      /\ caseHeap' = caseHeap
  BY CompletedRecord DEF Case!MarkCompleted
<1>2. /\ caseRecords \in [Cases -> CaseRecord] /\ Len(caseHeap) \in Nat
      /\ \A d \in Elements(caseHeap) : d \in Cases /\ caseRecords[d].status \in 1 .. 3
  BY CaseTypes
<1>3. \A a, b \in Cases :
        Less(a, b, after) <=>
          Precedes(caseRecords'[a], caseRecords'[b]) \/ (SameRank(caseRecords'[a], caseRecords'[b]) /\ a < b)
  BY <1>1, CasesSort
<1>4. ASSUME NEW x \in Elements(caseHeap), NEW y \in Elements(caseHeap), Less(x, y, after)
      PROVE  Less(x, y, before) \/ x \in CompletedCases'
  <2>1. CASE x = c
    BY <1>1, <2>1 DEF CompletedCases
  <2>2. CASE x # c /\ y = c
    <3>1. x \in Cases /\ caseRecords'[x].status \in 1 .. 3
      BY <1>1, <1>2, <2>2
    <3>2. Precedes(caseRecords'[x], caseRecords'[c]) \/ SameRank(caseRecords'[x], caseRecords'[c])
      <4> HIDE DEF after
      <4> QED
        BY <1>3, <1>4, <2>2, <3>1
    <3>3. caseRecords'[x].status = Case!COMPLETED
      BY <1>1, <3>1, <3>2 DEF Precedes, SameRank, Case!COMPLETED
    <3> QED
      BY <3>1, <3>3 DEF CompletedCases
  <2>3. CASE x # c /\ y # c
    BY <1>1, <1>2, <1>4, <2>3, SameRecords
  <2> QED
    BY <2>1, <2>2, <2>3
<1>5. \A x \in Elements(caseHeap) : x \in CompletedCases => x \in CompletedCases'
  BY <1>1, <1>2 DEF CompletedCases
<1>6. Tidy(caseHeap, before, CompletedCases)
  BY DEF CaseHeapTidy
<1> HIDE DEF before, after
<1>7. Tidy(caseHeap, after, CompletedCases')
  BY <1>2, <1>4, <1>5, <1>6, StaysTidy
<1> QED
  BY <1>1, <1>7 DEF CaseHeapTidy, after

\* What the loop of claim_next_case leaves.
LEMMA UncompletedTidy ==
  ASSUME CaseInv, CaseHeapTidy
  PROVE  Tidy(Case!Uncompleted, Case!CaseOrder(caseRecords), CompletedCases)
<1> DEFINE order == Case!CaseOrder(caseRecords)
<1>1. caseHeap \in Seq(Cases) /\ Sorts(order, Cases)
  BY CaseTypes, CasesSort
<1>2. Case!Uncompleted = PopWhile(caseHeap, CompletedCases, order)
  BY SamePopWhile DEF Case!Uncompleted, CompletedCases
<1>3. Tidy(caseHeap, order, CompletedCases)
  BY DEF CaseHeapTidy
<1> HIDE DEF order
<1>4. Tidy(Case!Uncompleted, order, CompletedCases)
  BY <1>1, <1>2, <1>3, PopWhileTidy
<1> QED
  BY <1>4 DEF order

LEMMA CaseTidyClaimed ==
  ASSUME CaseInv, CaseHeapTidy, NEW w \in Workers, Case!ClaimNext(w)
  PROVE  CaseHeapTidy'
<1> DEFINE before == Case!CaseOrder(caseRecords)
           after == Case!CaseOrder(caseRecords')
           h == Case!Uncompleted
           c == h[1]
<1>1. caseHeap' = HeapPush(HeapPop(h, before), c, after)
  BY SamePush, SamePop DEF Case!ClaimNext, Case!PushCase, Case!PopCase
<1>2. /\ c \in Cases /\ h # <<>>
      /\ caseRecords[c].status \in {Case!UNCLAIMED, Case!CLAIMED}
      /\ caseRecords' \in [Cases -> CaseRecord]
      /\ caseRecords'[c].status = Case!CLAIMED
      /\ \A d \in Cases : d # c => caseRecords'[d] = caseRecords[d]
  BY CaseClaimed
<1>3. h \in Seq(Cases) /\ Distinct(h) /\ Tidy(h, before, CompletedCases)
  BY UncompletedList, UncompletedTidy
<1>4. caseRecords \in [Cases -> CaseRecord]
  BY CaseTypes
<1> HIDE DEF h
<1>5. Sorts(before, Cases) /\ Sorts(after, Cases)
  BY <1>2, <1>4, CasesSort
<1>6. \A x, y \in Cases : x # c /\ y # c /\ Less(x, y, after) => Less(x, y, before)
  BY <1>2, <1>4, SameRecords
<1>7. CompletedCases' = CompletedCases
  BY <1>2 DEF CompletedCases, Case!COMPLETED, Case!UNCLAIMED, Case!CLAIMED
<1>8. \A y \in Cases : y \in CompletedCases => ~Less(c, y, after)
  <2>1. \A y \in Cases : caseRecords'[y].status = Case!COMPLETED => ~Less(c, y, after)
    BY <1>2, CompletedFirst
  <2> QED
    BY <1>7, <2>1 DEF CompletedCases
<1> HIDE DEF before, after
<1>9. Tidy(caseHeap', after, CompletedCases)
  BY <1>1, <1>2, <1>3, <1>5, <1>6, <1>8, RequeuedTidy
<1> QED
  BY <1>7, <1>9 DEF CaseHeapTidy, after

LEMMA CaseTidyRefused ==
  ASSUME CaseInv, CaseHeapTidy, NEW w \in Workers, Case!ClaimNone(w)
  PROVE  CaseHeapTidy'
<1> DEFINE order == Case!CaseOrder(caseRecords)
           h == Case!Uncompleted
           c == h[1]
<1>1. /\ caseRecords' = caseRecords
      /\ caseHeap' = IF h = <<>> THEN h ELSE HeapPush(HeapPop(h, order), c, order)
  BY SamePush, SamePop DEF Case!ClaimNone, Case!PushCase, Case!PopCase
<1>2. h \in Seq(Cases) /\ Distinct(h) /\ Tidy(h, order, CompletedCases)
  BY UncompletedList, UncompletedTidy
<1>3. Sorts(order, Cases)
  BY CaseTypes, CasesSort
<1>4. h # <<>> => \A y \in Cases : y \in CompletedCases => ~Less(c, y, order)
  <2> SUFFICES ASSUME h # <<>> PROVE \A y \in Cases : y \in CompletedCases => ~Less(c, y, order)
    OBVIOUS
  <2>1. c \in Cases /\ caseRecords[c].status \in {Case!UNCLAIMED, Case!CLAIMED}
    BY UncompletedList
  <2>2. \A y \in Cases : caseRecords[y].status = Case!COMPLETED => ~Less(c, y, order)
    BY <2>1, CaseTypes, CompletedFirst
  <2> QED
    BY <2>2 DEF CompletedCases
<1> HIDE DEF order, h
<1>5. h # <<>> => Tidy(HeapPush(HeapPop(h, order), c, order), order, CompletedCases)
  BY <1>2, <1>3, <1>4, RequeuedTidy
<1>6. Tidy(caseHeap', order, CompletedCases)
  BY <1>1, <1>2, <1>5
<1>7. order' = order /\ CompletedCases' = CompletedCases
  BY <1>1 DEF order, CompletedCases
<1> QED
  BY <1>6, <1>7 DEF CaseHeapTidy, order

LEMMA CaseTidyStep == CaseInv /\ CaseHeapTidy /\ [Case!Next]_mcCaseVars => CaseHeapTidy'
<1> SUFFICES ASSUME CaseInv, CaseHeapTidy, [Case!Next]_mcCaseVars PROVE CaseHeapTidy'
  OBVIOUS
<1>1. CaseInv'
  BY CaseStep
<1>2. UNCHANGED <<caseRecords, caseHeap>> => CaseHeapTidy'
  BY DEF CaseHeapTidy, CompletedCases
<1>3. ASSUME NEW w \in Workers, Case!CallClaim(w) PROVE CaseHeapTidy'
  BY <1>2, <1>3 DEF Case!CallClaim
<1>4. Case!Tick \/ UNCHANGED mcCaseVars => CaseHeapTidy'
  BY <1>2 DEF Case!Tick, mcCaseVars
<1> QED
  BY <1>1, <1>3, <1>4, CaseTidyPushed, CaseTidyCompleted, CaseTidyClaimed, CaseTidyRefused DEF Case!Next

LEMMA CaseTidyAtFirst == Case!Init => CaseHeapTidy
  BY DEF Case!Init, CaseHeapTidy, Tidy

LEMMA CaseTidyIsUndisturbed == CaseInv /\ CaseHeapTidy => Case!OnlyCompletionsDisturb
<1> DEFINE order == Case!CaseOrder(caseRecords)
<1>1. \A i : Case!Ancestors(i) = Ancestors(i)
  BY Zenon DEF Case!Ancestors, Ancestors, Case!Iterate, Iterate, Case!Parent, Parent
<1>2. \A x, y : Case!Less(x, y, order) = Less(x, y, order)
  BY Zenon DEF Case!Less, Less
<1> SUFFICES ASSUME CaseInv, CaseHeapTidy,
                    NEW i \in DOMAIN caseHeap, NEW a \in Ancestors(i),
                    Less(caseHeap[i], caseHeap[a], order)
             PROVE  \E d \in {i} \cup {x \in Ancestors(i) : x > a} :
                      caseRecords[caseHeap[d]].status = Case!COMPLETED
  BY <1>1, <1>2 DEF Case!OnlyCompletionsDisturb
<1>3. caseHeap \in Seq(Cases) /\ Sorts(order, Cases) /\ i \in 1 .. Len(caseHeap)
  BY CaseTypes, CasesSort
<1>4. Tidy(caseHeap, order, CompletedCases)
  BY DEF CaseHeapTidy
<1> HIDE DEF order
<1>5. \E d \in {i} \cup {x \in Ancestors(i) : x > a} : caseHeap[d] \in CompletedCases
  BY <1>3, <1>4, TidyPaths
<1> QED
  BY <1>5 DEF CompletedCases

--------------------------------------------------------------------------------
(* The rows.  The theorems of CaseRows are about the rows of both: every   *)
(* step of CardStatusRows is one of CaseRows, with one priority.           *)

CardRowInv ==
  /\ cardRow \in [Cards -> {"frozen", "unfrozen"}]
  /\ of \in [RowEvents -> (Cards \X {"freeze", "unfreeze"}) \cup {Null}]
  /\ CardRows!Claims!IInv

LEMMA RowsSound == CaseRows!ConstantsSound /\ CardRows!Claims!ConstantsSound
  BY CardAssumption, RowAssumption DEF CaseRows!ConstantsSound, CardRows!Claims!ConstantsSound

LEMMA CardRowsAreClaims ==
  [CardRows!Next]_mcCardRowVars => [CardRows!Claims!Next]_(CardRows!Claims!caseRowVars)
<1> SUFFICES ASSUME [CardRows!Next]_mcCardRowVars
             PROVE  [CardRows!Claims!Next]_(CardRows!Claims!caseRowVars)
  OBVIOUS
<1>1. ASSUME NEW c \in Cards, NEW s \in {"frozen", "unfrozen"}, NEW e \in RowEvents,
             CardRows!ApplyCardAction(c, s, e)
      PROVE  CardRows!Claims!Next
  BY <1>1 DEF CardRows!ApplyCardAction, CardRows!Claims!Next
<1>2. ASSUME NEW w \in Workers, CardRows!ClaimNextEvent(w) PROVE CardRows!Claims!Next
  BY <1>2 DEF CardRows!ClaimNextEvent, CardRows!Claims!Next
<1>3. CardRows!Claims!Tick \/ (\E w \in Workers : CardRows!Claims!LoseConnection(w)) =>
        CardRows!Claims!Next
  BY DEF CardRows!Claims!Next
<1>4. UNCHANGED mcCardRowVars => UNCHANGED CardRows!Claims!caseRowVars
  BY DEF mcCardRowVars, CardRows!Claims!caseRowVars
<1> QED
  BY <1>1, <1>2, <1>3, <1>4 DEF CardRows!Next

LEMMA CardRowInit == CardRows!Init => CardRowInv
  BY RowsSound, CardRows!Claims!InitSound DEF CardRows!Init, CardRowInv

LEMMA CardRowStep == CardRowInv /\ [CardRows!Next]_mcCardRowVars => CardRowInv'
<1> SUFFICES ASSUME CardRowInv, [CardRows!Next]_mcCardRowVars PROVE CardRowInv'
  OBVIOUS
<1>1. CardRows!Claims!IInv'
  BY CardRowsAreClaims, RowsSound, CardRows!Claims!NextSound DEF CardRowInv
<1>2. ASSUME NEW c \in Cards, NEW s \in {"frozen", "unfrozen"}, NEW e \in RowEvents,
             CardRows!ApplyCardAction(c, s, e)
      PROVE  CardRowInv'
  BY <1>1, <1>2 DEF CardRows!ApplyCardAction, CardRowInv
<1>3. UNCHANGED <<cardRow, of>> => CardRowInv'
  BY <1>1 DEF CardRowInv
<1> QED
  BY <1>2, <1>3 DEF CardRows!Next, CardRows!ClaimNextEvent, mcCardRowVars

--------------------------------------------------------------------------------
(* The four together: a behaviour of MCLeases is one of one of them, or    *)
(* one of the algorithms, which come last.                                 *)

LeasesInv == CardInv /\ CaseInv /\ CardRowInv /\ CaseRows!IInv

leasesVars ==
  <<subject, shape, cardVars, mcCaseVars, mcCardRowVars, mcCaseRowVars, mcAlgVars>>

LEMMA StepsOfLeases ==
  [MCNext]_leasesVars =>
    /\ [Next]_cardVars /\ [Case!Next]_mcCaseVars
    /\ [CardRows!Next]_mcCardRowVars /\ [CaseRows!Next]_(CaseRows!caseRowVars)
  BY DEF MCNext, leasesVars, mcCaseRowVars, CaseRows!caseRowVars

LEMMA LeasesInit == MCInit => LeasesInv
  BY CardInit, CaseInit, CardRowInit, RowsSound, CaseRows!InitSound
  DEF MCInit, LeasesInv

LEMMA LeasesStep == LeasesInv /\ [MCNext]_leasesVars => LeasesInv'
  BY StepsOfLeases, CardStep, CaseStep, CardRowStep, RowsSound, CaseRows!NextSound DEF LeasesInv

LEMMA LeasesSound == MCSpec => []LeasesInv
  BY LeasesInit, LeasesStep, PTL DEF MCSpec, leasesVars

\* The variables of the four services keep their types, and what a transaction has
\* locked is what its worker may claim.
THEOREM LeaseTypesCorrect == MCSpec => []LeaseTypes
<1>1. LeasesInv => LeaseTypes
  BY DEF LeasesInv, CardInv, CaseInv, CardRowInv, CaseRows!IInv, CardRows!Claims!IInv,
         LeaseTypes, CardRows!TypeOK
<1> QED
  BY <1>1, LeasesSound, PTL

\* An event stays in the heap, once, until it is delivered, and a case until it is
\* completed, through every claim and whatever the keys changed in place did to the heap.
THEOREM OpenStaysQueuedOnce == MCSpec => []QueuedOnce
<1>1. CardInv => PendingQueuedOnce
  <2> SUFFICES ASSUME CardInv PROVE PendingQueuedOnce
    OBVIOUS
  <2>1. heap \in Seq(Events) /\ Distinct(heap)
    BY DEF CardInv, TypeOK
  <2>2. InHeap = Elements(heap) /\ Cardinality(InHeap) = Len(heap)
    BY <2>1, CountedOnce DEF InHeap
  <2> QED
    BY <2>2 DEF CardInv, PendingIsQueued, PendingQueuedOnce
<1>2. CaseInv => Case!OpenQueuedOnce
  <2> SUFFICES ASSUME CaseInv PROVE Case!OpenQueuedOnce
    OBVIOUS
  <2>1. caseHeap \in Seq(Cases) /\ Distinct(caseHeap)
    BY DEF CaseInv, Case!TypeOK
  <2>2. Case!InHeap = Elements(caseHeap) /\ Cardinality(Case!InHeap) = Len(caseHeap)
    BY <2>1, CountedOnce DEF Case!InHeap
  <2>3. \A S : Case!Cardinality(S) = Cardinality(S)
    BY DEF Case!Cardinality, Cardinality
  <2> QED
    BY <2>2, <2>3 DEF CaseInv, OpenIsQueued, Case!OpenQueuedOnce
<1>3. LeasesInv => QueuedOnce
  BY <1>1, <1>2 DEF LeasesInv, QueuedOnce
<1> QED
  BY <1>3, LeasesSound, PTL

\* Below an entry that is not done the heaps are in order: only a key written in place,
\* by delivering or completing, puts them out of order, never a claim.
THEOREM HeapsUndisturbed == MCSpec => []OnlyDoneDisturbs
<1> DEFINE BothTidy == HeapTidy /\ CaseHeapTidy
<1>1. MCInit => BothTidy
  BY TidyAtFirst, CaseTidyAtFirst DEF MCInit
<1>2. LeasesInv /\ BothTidy /\ [MCNext]_leasesVars => BothTidy'
  BY StepsOfLeases, TidyStep, CaseTidyStep DEF LeasesInv
<1>3. LeasesInv /\ BothTidy => OnlyDoneDisturbs
  BY TidyIsUndisturbed, CaseTidyIsUndisturbed DEF LeasesInv, OnlyDoneDisturbs
<1> HIDE DEF BothTidy
<1> QED
  BY <1>1, <1>2, <1>3, LeasesSound, PTL DEF MCSpec, leasesVars

\* An entry changes hands only by a reading of the clock past its lease, and one that
\* is done changes hands no more, in the heaps and in the rows.
THEOREM LeasesAreRespected == MCSpec => LeasesRespected
<1>1. LeasesInv /\ [MCNext]_leasesVars => [LeaseKept]_cardVars
  BY StepsOfLeases, CardSteps DEF LeasesInv
<1>2. LeasesInv /\ [MCNext]_leasesVars => [CaseLeaseKept]_mcCaseVars
  BY StepsOfLeases, CaseSteps DEF LeasesInv
<1>3. MCSpec => LeaseRespected
  BY <1>1, LeasesSound, PTL DEF MCSpec, leasesVars, LeaseRespected, LeaseKept
<1>4. MCSpec => Case!LeaseRespected
  BY <1>2, LeasesSound, PTL
  DEF MCSpec, leasesVars, Case!LeaseRespected, CaseLeaseKept, mcCaseVars, Case!caseVars
<1>5. MCSpec => CaseRows!Spec
  <2>1. MCInit => CaseRows!Init
    BY DEF MCInit
  <2>2. [MCNext]_leasesVars => [CaseRows!Next]_(CaseRows!caseRowVars)
    BY StepsOfLeases
  <2> QED
    BY <2>1, <2>2, PTL DEF MCSpec, leasesVars, CaseRows!Spec
<1>6. MCSpec => CardRows!Claims!Spec
  <2>1. MCInit => CardRows!Claims!Init
    BY DEF MCInit, CardRows!Init
  <2>2. [MCNext]_leasesVars => [CardRows!Claims!Next]_(CardRows!Claims!caseRowVars)
    BY StepsOfLeases, CardRowsAreClaims
  <2> QED
    BY <2>1, <2>2, PTL DEF MCSpec, leasesVars, CardRows!Claims!Spec
<1>7. MCSpec => CaseRows!LeaseRespected /\ CardRows!Claims!LeaseRespected
  BY <1>5, <1>6, RowsSound, CaseRows!LeasesRunOut, CardRows!Claims!LeasesRunOut, PTL
<1> QED
  BY <1>3, <1>4, <1>7, PTL DEF LeasesRespected

--------------------------------------------------------------------------------
(* heapq by itself, under an order that is fixed: a bag from which the     *)
(* smallest is taken.                                                      *)

Count(h, x) == Cardinality({i \in 1 .. Len(h) : h[i] = x})

LEMMA CountIs ==
  ASSUME NEW h, Len(h) \in Nat, NEW x
  PROVE  /\ IsFiniteSet({i \in 1 .. Len(h) : h[i] = x}) /\ Count(h, x) \in Nat
         /\ x \in Elements(h) <=> Count(h, x) # 0
<1> DEFINE S == 1 .. Len(h)
           places == {i \in S : h[i] = x}
<1>1. IsFiniteSet(S)
  BY FS_Interval
<1>2. IsFiniteSet(places)
  BY <1>1, FS_Subset
<1> HIDE DEF places
<1>3. Cardinality(places) \in Nat /\ (Cardinality(places) = 0 <=> places = {})
  BY <1>2, FS_CardinalityType, FS_EmptySet
<1>4. x \in Elements(h) <=> places # {}
  BY DEF Elements, places
<1> QED
  BY <1>2, <1>3, <1>4 DEF Count, places

LEMMA CountRearranged ==
  ASSUME NEW h, Len(h) \in Nat, NEW p \in Rearrangements(Len(h)), NEW x
  PROVE  Count(Rearranged(h, p), x) = Count(h, x)
<1> DEFINE n == Len(h)
           g == Rearranged(h, p)
           from == {i \in 1 .. n : g[i] = x}
           to == {i \in 1 .. n : h[i] = x}
<1>1. Len(g) = n /\ \A i \in 1 .. n : g[i] = h[p[i]] /\ p[i] \in 1 .. n
  BY DEF Rearranged, Rearrangements
<1>2. \A i, j \in 1 .. n : p[i] = p[j] => i = j
  BY DEF Rearrangements
<1>3. \A j \in 1 .. n : \E i \in 1 .. n : p[i] = j
  BY OntoPlaces
<1> HIDE DEF g
<1>4. [i \in from |-> p[i]] \in Bijection(from, to)
  <2> DEFINE f == [i \in from |-> p[i]]
  <2>1. f \in [from -> to]
    BY <1>1
  <2>2. \A i, j \in from : f[i] = f[j] => i = j
    BY <1>2
  <2>3. \A j \in to : \E i \in from : f[i] = j
    <3> SUFFICES ASSUME NEW j \in to PROVE \E i \in from : p[i] = j
      OBVIOUS
    <3>1. PICK i \in 1 .. n : p[i] = j
      BY <1>3
    <3>2. i \in from
      BY <1>1, <3>1
    <3> QED
      BY <3>1, <3>2
  <2> HIDE DEF f, from, to
  <2>4. f \in Injection(from, to)
    BY <2>1, <2>2 DEF Injection, IsInjective
  <2>5. f \in Surjection(from, to)
    BY <2>1, <2>3 DEF Surjection
  <2> QED
    BY <2>4, <2>5 DEF Bijection, f
<1>5. IsFiniteSet(to)
  BY CountIs
<1>6. ExistsBijection(from, to)
  BY <1>4 DEF ExistsBijection
<1>7. IsFiniteSet(from)
  <2>1. Len(g) \in Nat
    BY <1>1
  <2>2. IsFiniteSet({i \in 1 .. Len(g) : g[i] = x})
    BY <2>1, CountIs
  <2> QED
    BY <1>1, <2>2
<1>8. Cardinality(from) = Cardinality(to)
  <2> HIDE DEF from, to
  <2> QED
    BY <1>5, <1>6, <1>7, FS_Bijection
<1> QED
  BY <1>1, <1>8 DEF Count, g

LEMMA CountAppended ==
  ASSUME NEW T, NEW h \in Seq(T), NEW x, NEW y
  PROVE  Count(Append(h, x), y) = Count(h, y) + IF y = x THEN 1 ELSE 0
<1> DEFINE n == Len(h)
           a == Append(h, x)
           old == {i \in 1 .. n : h[i] = y}
           new == {i \in 1 .. Len(a) : a[i] = y}
<1>1. n \in Nat /\ Len(a) = n + 1 /\ a[n + 1] = x /\ \A i \in 1 .. n : a[i] = h[i]
  OBVIOUS
<1>2. IsFiniteSet(old) /\ Cardinality(old) \in Nat
  <2>1. IsFiniteSet(old) /\ Count(h, y) \in Nat
    BY <1>1, CountIs
  <2> QED
    BY <2>1 DEF Count
<1>5. n + 1 \notin old
  BY <1>1
<1> HIDE DEF a
<1>3. \A i : i \in 1 .. Len(a) <=> i \in 1 .. n \/ i = n + 1
  BY <1>1
<1>4. new = IF y = x THEN old \cup {n + 1} ELSE old
  BY <1>1, <1>3
<1> HIDE DEF old, new
<1>6. Cardinality(new) = Cardinality(old) + IF y = x THEN 1 ELSE 0
  <2>1. Cardinality(old \cup {n + 1}) = Cardinality(old) + 1
    BY <1>2, <1>5, FS_AddElement
  <2> QED
    BY <1>2, <1>4, <2>1
<1> QED
  BY <1>6 DEF Count, old, new, a

LEMMA PushCounts ==
  ASSUME NEW T, NEW h \in Seq(T), NEW x \in T, NEW before, NEW y
  PROVE  Count(HeapPush(h, x, before), y) = Count(h, y) + IF y = x THEN 1 ELSE 0
<1> DEFINE a == Append(h, x)
<1>1. Len(a) \in Nat /\ Len(h) + 1 \in 1 .. Len(a)
  OBVIOUS
<1>2. Count(a, y) = Count(h, y) + IF y = x THEN 1 ELSE 0
  BY CountAppended
<1>3. HeapPush(h, x, before) = SiftDown(a, Len(h) + 1, before)
  BY DEF HeapPush
<1> HIDE DEF a
<1>4. PICK p \in Rearrangements(Len(a)) : SiftDown(a, Len(h) + 1, before) = Rearranged(a, p)
  BY <1>1, SiftDownRearranges
<1> QED
  BY <1>1, <1>2, <1>3, <1>4, CountRearranged

\* The first item goes to the end, the last one to the front, and the end is cut off.
LEMMA PopCounts ==
  ASSUME NEW T, NEW h \in Seq(T), h # <<>>, NEW before, NEW y
  PROVE  Count(h, y) = Count(HeapPop(h, before), y) + IF y = h[1] THEN 1 ELSE 0
<1> DEFINE n == Len(h)
           rest == SubSeq(h, 1, n - 1)
           moved == IF rest = <<>> THEN rest ELSE [rest EXCEPT ![1] = h[n]]
           p == [i \in 1 .. n |-> IF i = n THEN 1 ELSE IF i = 1 THEN n ELSE i]
<1>1. n \in Nat /\ n >= 1 /\ \A i \in 1 .. n : h[i] \in T
  OBVIOUS
<1>2. rest \in Seq(T) /\ Len(rest) = n - 1 /\ \A i \in 1 .. n - 1 : rest[i] = h[i]
  BY Front
<1>3. HeapPop(h, before) = IF rest = <<>> THEN moved ELSE SiftUp(moved, before)
  BY DEF HeapPop
<1> HIDE DEF rest
<1>4. /\ moved \in Seq(T) /\ Len(moved) = n - 1
      /\ \A i \in 1 .. n - 1 : moved[i] = IF i = 1 THEN h[n] ELSE h[i]
  <2>1. CASE rest = <<>>
    <3>1. Len(rest) = 0 /\ moved = rest
      BY <2>1
    <3> HIDE DEF moved
    <3>2. n - 1 = 0
      BY <1>2, <3>1
    <3>4. \A i \in 1 .. n - 1 : FALSE
      <4>1. \A m \in Int : m = 0 => \A i \in 1 .. m : FALSE
        OBVIOUS
      <4>2. n - 1 \in Int
        BY <3>2
      <4> QED
        BY <3>2, <4>1, <4>2
    <3>3. moved \in Seq(T) /\ Len(moved) = n - 1
      BY <1>2, <3>1
    <3> QED
      BY <3>3, <3>4
  <2>2. CASE rest # <<>>
    BY <1>1, <1>2, <2>2
  <2> QED
    BY <2>1, <2>2
<1>5. rest = <<>> <=> n = 1
  BY <1>1, <1>2
<1> HIDE DEF moved
<1>6. p \in Rearrangements(n)
  BY <1>1 DEF Rearrangements
<1>7. Append(moved, h[1]) = Rearranged(h, p)
  <2> DEFINE a == Append(moved, h[1])
  <2>1. /\ a = [i \in 1 .. n |-> a[i]] /\ a[n] = h[1]
        /\ \A i \in 1 .. n - 1 : a[i] = moved[i]
    BY <1>1, <1>4
  <2> HIDE DEF a
  <2>2. ASSUME NEW i \in 1 .. n PROVE a[i] = h[p[i]]
    <3>1. CASE i = n
      BY <1>1, <2>1, <3>1
    <3>2. CASE i # n
      <4>1. i \in 1 .. n - 1
        BY <1>1, <3>2
      <4> QED
        BY <1>4, <2>1, <3>2, <4>1
    <3> QED
      BY <3>1, <3>2
  <2> QED
    BY <2>1, <2>2 DEF Rearranged, a
<1>8. Count(h, y) = Count(moved, y) + IF y = h[1] THEN 1 ELSE 0
  <2>1. Count(Append(moved, h[1]), y) = Count(moved, y) + IF y = h[1] THEN 1 ELSE 0
    BY <1>4, CountAppended
  <2> HIDE DEF p
  <2>2. Count(Rearranged(h, p), y) = Count(h, y)
    BY <1>1, <1>6, CountRearranged
  <2> QED
    BY <1>7, <2>1, <2>2
<1>9. Count(HeapPop(h, before), y) = Count(moved, y)
  <2>1. CASE rest = <<>>
    BY <1>3, <2>1
  <2>2. CASE rest # <<>>
    <3>1. Len(moved) \in Nat /\ Len(moved) >= 1
      BY <1>1, <1>4, <1>5, <2>2
    <3>2. PICK r \in Rearrangements(Len(moved)) : SiftUp(moved, before) = Rearranged(moved, r)
      BY <3>1, SiftUpRearranges
    <3> QED
      BY <1>3, <2>2, <3>1, <3>2, CountRearranged
  <2> QED
    BY <2>1, <2>2
<1> QED
  BY <1>8, <1>9

\* In a heap nothing comes before the root.
LEMMA RootIsFirst ==
  ASSUME NEW T, NEW before, Sorts(before, T), NEW h \in Seq(T), Tidy(h, before, {})
  PROVE  \A y \in Elements(h) : ~Less(y, h[1], before)
<1> SUFFICES ASSUME NEW i \in 1 .. Len(h), Less(h[i], h[1], before) PROVE FALSE
  BY DEF Elements
<1>1. Len(h) \in Nat /\ i \in Nat /\ i >= 1 /\ 1 \in 1 .. Len(h) /\ h[1] \in T /\ h[i] \in T
  OBVIOUS
<1>2. i # 1
  BY <1>1 DEF Sorts
<1> DEFINE P == Ancestors(i) \cup {i}
           c == Min(P)
<1>3. /\ Ancestors(i) \subseteq 1 .. i - 1
      /\ \A a \in P : a > 1 => Parent(a) \in Ancestors(i)
  BY <1>1, Chain
<1>4. c \in P /\ \A a \in P : c <= a
  <2>1. P \subseteq Nat /\ P # {}
    BY <1>1, <1>3
  <2> HIDE DEF P
  <2> QED
    BY <2>1, Least
<1> HIDE DEF c
<1>5. c \in Nat /\ c >= 1
  BY <1>1, <1>3, <1>4
<1>6. c = 1
  <2> SUFFICES ASSUME c > 1 PROVE FALSE
    BY <1>5
  <2>1. Parent(c) \in P /\ Parent(c) < c /\ Parent(c) \in Nat
    BY <1>3, <1>4, <1>5, ParentIs
  <2> QED
    BY <1>4, <1>5, <2>1
<1>7. 1 \in Ancestors(i)
  BY <1>2, <1>4, <1>6
<1>8. \E d \in {i} \cup {x \in Ancestors(i) : x > 1} : h[d] \in {}
  BY <1>7, TidyPaths
<1> QED
  BY <1>8

--------------------------------------------------------------------------------
(* Algorithms has heapq as its own instance too; it is the same heapq.     *)

LEMMA AlgSiftDown == \A h, pos, before : Alg!SiftDown(h, pos, before) = SiftDown(h, pos, before)
<1> TAKE h, pos, before
<1> DEFINE stays == {a \in Ancestors(pos) : ~Less(h[pos], h[a], before)}
           passed == {a \in Ancestors(pos) : \A s \in stays : s < a}
           place == Min(passed \cup {pos})
           algStays == {a \in Alg!Ancestors(pos) : ~Alg!Less(h[pos], h[a], before)}
           algPassed == {a \in Alg!Ancestors(pos) : \A s \in algStays : s < a}
           algPlace == Alg!Min(algPassed \cup {pos})
<1>1. Alg!Ancestors(pos) = Ancestors(pos)
  BY Zenon DEF Alg!Ancestors, Ancestors, Alg!Iterate, Iterate, Alg!Parent, Parent
<1>2. \A x, y : Alg!Less(x, y, before) = Less(x, y, before)
  BY Zenon DEF Alg!Less, Less
<1>3. \A i : Alg!Parent(i) = Parent(i)
  BY Zenon DEF Alg!Parent, Parent
<1>4. \A S : Alg!Min(S) = Min(S)
  BY Zenon DEF Alg!Min, Min
<1>5. algStays = stays
  BY <1>1, <1>2
<1>6. algPassed = passed
  BY <1>1, <1>5
<1>7. algPlace = place
  BY <1>4, <1>6
<1>8. Alg!SiftDown(h, pos, before) =
        [i \in 1 .. Len(h) |->
           CASE i = algPlace -> h[pos]
             [] i # algPlace /\ i \in algPassed \cup {pos} -> h[Alg!Parent(i)]
             [] OTHER -> h[i]]
  BY DEF Alg!SiftDown
<1>9. SiftDown(h, pos, before) =
        [i \in 1 .. Len(h) |->
           CASE i = place -> h[pos]
             [] i # place /\ i \in passed \cup {pos} -> h[Parent(i)]
             [] OTHER -> h[i]]
  BY DEF SiftDown
<1> HIDE DEF place, algPlace, passed, algPassed
<1> QED
  BY <1>3, <1>6, <1>7, <1>8, <1>9

LEMMA AlgPush == \A h, x, before : Alg!HeapPush(h, x, before) = HeapPush(h, x, before)
  BY AlgSiftDown DEF Alg!HeapPush, HeapPush

LEMMA AlgPop == \A h, before : Alg!HeapPop(h, before) = HeapPop(h, before)
<1>1. \A h, before : Alg!SiftUp(h, before) = SiftUp(h, before)
  BY AlgSiftDown, Zenon
  DEF Alg!SiftUp, SiftUp, Alg!Iterate, Iterate, Alg!SmallerChild, SmallerChild, Alg!Less, Less
<1> QED
  BY <1>1, Zenon DEF Alg!HeapPop, HeapPop

LEMMA AlgPopWhile ==
  \A h, gone, before : Alg!PopWhile(h, gone, before) = PopWhile(h, gone, before)
<1> TAKE h, gone, before
<1> DEFINE S == Seq({h[i] : i \in DOMAIN h})
           pop == [g \in S |-> IF g # <<>> /\ g[1] \in gone THEN HeapPop(g, before) ELSE g]
           algPop == [g \in S |-> IF g # <<>> /\ g[1] \in gone THEN Alg!HeapPop(g, before) ELSE g]
<1>1. algPop = pop
  <2> HIDE DEF S
  <2> QED
    BY AlgPop
<1>2. \A f, n : Alg!Iterate(f, h, n) = Iterate(f, h, n)
  BY Zenon DEF Alg!Iterate, Iterate
<1>3. Alg!PopWhile(h, gone, before) = Alg!Iterate(algPop, h, Len(h))[Len(h)]
  BY Zenon DEF Alg!PopWhile
<1>4. PopWhile(h, gone, before) = Iterate(pop, h, Len(h))[Len(h)]
  BY Zenon DEF PopWhile
<1> HIDE DEF pop, algPop
<1> QED
  BY <1>1, <1>2, <1>3, <1>4

LEMMA FixedSorts ==
  /\ \A x, y \in Items : Less(x, y, Alg!Fixed) <=> x < y
  /\ Sorts(Alg!Fixed, Items)
<1>1. \A x, y \in Items : Less(x, y, Alg!Fixed) <=> x < y
  BY DEF Alg!Fixed, Less
<1> QED
  BY <1>1, AlgorithmsAssumption DEF Sorts

HeapqInv ==
  /\ refHeap \in Seq(Items) /\ Tidy(refHeap, Alg!Fixed, {})
  /\ DOMAIN refBag = Items /\ \A x \in Items : refBag[x] = Count(refHeap, x)
  /\ \A m \in refPopped, x \in Elements(refHeap) : m <= x

LEMMA HeapqInit == Alg!Init => HeapqInv
<1> SUFFICES ASSUME Alg!Init PROVE HeapqInv
  OBVIOUS
<1>1. refHeap = <<>> /\ refBag = [x \in Items |-> 0] /\ refPopped = {}
  BY DEF Alg!Init
<1>2. \A x : Count(<<>>, x) = 0
  <2> TAKE x
  <2>1. x \notin Elements(<<>>)
    BY DEF Elements
  <2> QED
    BY <2>1, CountIs
<1>3. Tidy(<<>>, Alg!Fixed, {})
  BY DEF Tidy
<1> QED
  BY <1>1, <1>2, <1>3 DEF HeapqInv

LEMMA HeapqStep == HeapqInv /\ [Alg!HeapNext]_mcRefVars => HeapqInv'
<1> SUFFICES ASSUME HeapqInv, [Alg!HeapNext]_mcRefVars PROVE HeapqInv'
  OBVIOUS
<1>1. /\ refHeap \in Seq(Items) /\ Tidy(refHeap, Alg!Fixed, {}) /\ Sorts(Alg!Fixed, Items)
      /\ DOMAIN refBag = Items /\ \A x \in Items : refBag[x] = Count(refHeap, x)
  BY FixedSorts DEF HeapqInv
<1>2. \A y : Count(refHeap, y) \in Nat /\ (y \in Elements(refHeap) <=> Count(refHeap, y) # 0)
  <2>1. Len(refHeap) \in Nat
    BY <1>1
  <2> QED
    BY <2>1, CountIs
<1>3. ASSUME NEW x \in Items, Alg!Push(x) PROVE HeapqInv'
  <2>1. /\ refHeap' = HeapPush(refHeap, x, Alg!Fixed) /\ refPopped' = {}
        /\ refBag' = [refBag EXCEPT ![x] = @ + 1]
    BY <1>3, AlgPush DEF Alg!Push
  <2>2. refHeap' \in Seq(Items)
    BY <1>1, <2>1, PushList
  <2>3. Tidy(refHeap', Alg!Fixed, {})
    BY <1>1, <2>1, PushTidy
  <2>4. \A y : Count(refHeap', y) = Count(refHeap, y) + IF y = x THEN 1 ELSE 0
    BY <1>1, <2>1, PushCounts
  <2>5. DOMAIN refBag' = Items /\ \A y \in Items : refBag'[y] = Count(refHeap', y)
    BY <1>1, <1>2, <2>1, <2>4
  <2> QED
    BY <2>1, <2>2, <2>3, <2>5 DEF HeapqInv
<1>4. ASSUME Alg!Pop PROVE HeapqInv'
  <2>1. /\ refHeap # <<>> /\ refPopped' = {refHeap[1]}
        /\ refHeap' = HeapPop(refHeap, Alg!Fixed)
        /\ refBag' = [refBag EXCEPT ![refHeap[1]] = @ - 1]
    BY <1>4, AlgPop DEF Alg!Pop
  <2>2. refHeap' \in Seq(Items) /\ refHeap[1] \in Items
    BY <1>1, <2>1, PopList
  <2>3. Tidy(refHeap', Alg!Fixed, {})
    BY <1>1, <2>1, PopTidy
  <2>4. \A y : Count(refHeap, y) = Count(refHeap', y) + IF y = refHeap[1] THEN 1 ELSE 0
    BY <1>1, <2>1, PopCounts
  <2>5. \A y : Count(refHeap', y) \in Nat /\ (y \in Elements(refHeap') <=> Count(refHeap', y) # 0)
    <3>1. Len(refHeap') \in Nat
      BY <2>2
    <3> QED
      BY <3>1, CountIs
  <2>6. DOMAIN refBag' = Items /\ \A y \in Items : refBag'[y] = Count(refHeap', y)
    BY <1>1, <1>2, <2>1, <2>2, <2>4, <2>5
  <2>7. Elements(refHeap') \subseteq Elements(refHeap)
    BY <1>2, <2>4, <2>5
  <2>8. ASSUME NEW y \in Elements(refHeap) PROVE refHeap[1] <= y
    <3>1. y \in Items
      BY <1>1 DEF Elements
    <3>2. ~Less(y, refHeap[1], Alg!Fixed)
      BY <1>1, RootIsFirst
    <3>3. y \in Int /\ refHeap[1] \in Int /\ ~(y < refHeap[1])
      BY <2>2, <3>1, <3>2, FixedSorts, AlgorithmsAssumption
    <3> QED
      BY <3>3
  <2> QED
    BY <2>1, <2>2, <2>3, <2>6, <2>7, <2>8 DEF HeapqInv
<1>5. UNCHANGED mcRefVars => HeapqInv'
  BY DEF mcRefVars, HeapqInv
<1> QED
  BY <1>3, <1>4, <1>5 DEF Alg!HeapNext

LEMMA HeapqIsBag == HeapqInv => Alg!SameItems /\ Alg!PopsSmallest
<1> SUFFICES ASSUME HeapqInv PROVE Alg!SameItems /\ Alg!PopsSmallest
  OBVIOUS
<1>1. DOMAIN refHeap = 1 .. Len(refHeap) /\ \A S : Alg!Cardinality(S) = Cardinality(S)
  BY DEF HeapqInv, Alg!Cardinality, Cardinality
<1>2. Alg!Range(refHeap) = Elements(refHeap)
  BY <1>1 DEF Alg!Range, Elements
<1>3. Alg!SameItems
  BY <1>1 DEF Alg!SameItems, HeapqInv, Count
<1>4. \A i \in 2 .. Len(refHeap) : ~Alg!Less(refHeap[i], refHeap[Alg!Parent(i)], Alg!Fixed)
  BY DEF HeapqInv, Tidy, Alg!Less, Less, Alg!Parent, Parent
<1>5. Alg!PopsSmallest
  BY <1>2, <1>4 DEF Alg!PopsSmallest, Alg!IsHeap, HeapqInv
<1> QED
  BY <1>3, <1>5

--------------------------------------------------------------------------------
(* Tickets: the heap holds every pending ticket that was not handed out,   *)
(* once, and in order, though the resolved ones stay in it.                *)

Urgency(pri) ==
  {p \in (DOMAIN pri) \X (DOMAIN pri) :
     pri[p[1]] > pri[p[2]] \/ (pri[p[1]] = pri[p[2]] /\ p[1] < p[2])}

Triaged(pri, h) ==
  /\ DOMAIN pri \subseteq TicketIds /\ \A t \in DOMAIN pri : pri[t] \in Int
  /\ h \in Seq(DOMAIN pri) /\ Distinct(h) /\ Tidy(h, Urgency(pri), {})

TriageInv ==
  /\ Triaged(priorityOf, ticketHeap)
  /\ handed \in Seq(DOMAIN priorityOf)
  /\ Elements(ticketHeap) \cap Elements(handed) = {}
  /\ DOMAIN priorityOf \subseteq Elements(ticketHeap) \cup Elements(handed) \cup resolved

LEMMA UrgencySorts ==
  ASSUME NEW pri, DOMAIN pri \subseteq TicketIds, \A t \in DOMAIN pri : pri[t] \in Int
  PROVE  /\ \A a, b \in DOMAIN pri :
              Less(a, b, Urgency(pri)) <=> pri[a] > pri[b] \/ (pri[a] = pri[b] /\ a < b)
         /\ Sorts(Urgency(pri), DOMAIN pri)
<1>1. \A a, b \in DOMAIN pri :
        Less(a, b, Urgency(pri)) <=> pri[a] > pri[b] \/ (pri[a] = pri[b] /\ a < b)
  BY DEF Urgency, Less
<1>2. \A a \in DOMAIN pri : a \in Int
  BY AlgorithmsAssumption
<1>3. \A a, b \in DOMAIN pri : Less(a, b, Urgency(pri)) => ~Less(b, a, Urgency(pri))
  BY <1>1, <1>2
<1>4. \A a, b, c \in DOMAIN pri :
        Less(a, c, Urgency(pri)) => Less(a, b, Urgency(pri)) \/ Less(b, c, Urgency(pri))
  BY <1>1, <1>2
<1> QED
  BY <1>1, <1>3, <1>4 DEF Sorts

LEMMA UrgentIs == Alg!Urgent = Urgency(priorityOf) /\ Alg!Urgent' = Urgency(priorityOf')
  BY DEF Alg!Urgent, Urgency

LEMMA AppendedElements ==
  ASSUME NEW T, NEW s \in Seq(T), NEW t \in T
  PROVE  Elements(Append(s, t)) = Elements(s) \cup {t}
<1> DEFINE a == Append(s, t)
           n == Len(s)
<1>1. /\ n \in Nat /\ Len(a) = n + 1 /\ a[n + 1] = t /\ n + 1 \in 1 .. n + 1
      /\ \A i \in 1 .. n : a[i] = s[i]
  OBVIOUS
<1> HIDE DEF a, n
<1>2. \A i : i \in 1 .. n + 1 <=> i \in 1 .. n \/ i = n + 1
  BY <1>1
<1>3. \A x : x \in Elements(a) <=> \E i \in 1 .. n + 1 : a[i] = x
  BY <1>1, InElements
<1>4. \A x : x \in Elements(s) <=> \E i \in 1 .. n : s[i] = x
  BY InElements DEF n
<1> QED
  BY <1>1, <1>2, <1>3, <1>4 DEF a

LEMMA TriageInit == Alg!Init => TriageInv
<1> SUFFICES ASSUME Alg!Init PROVE TriageInv
  OBVIOUS
<1>1. priorityOf = <<>> /\ resolved = {} /\ ticketHeap = <<>> /\ handed = <<>>
  BY DEF Alg!Init
<1>2. DOMAIN priorityOf = {} /\ Elements(<<>>) = {} /\ Distinct(<<>>)
  BY <1>1 DEF Elements, Distinct
<1>3. Tidy(<<>>, Urgency(priorityOf), {})
  BY DEF Tidy
<1> QED
  BY <1>1, <1>2, <1>3 DEF TriageInv, Triaged

\* A ticket that is added is pushed under an order that is the old one on the others.
LEMMA TicketPushed ==
  ASSUME NEW pri, NEW h, Triaged(pri, h), NEW t \in TicketIds, t \notin DOMAIN pri, NEW p \in Int,
         NEW new, new = [s \in DOMAIN pri \cup {t} |-> IF s = t THEN p ELSE pri[s]]
  PROVE  /\ DOMAIN new = DOMAIN pri \cup {t} /\ Triaged(new, HeapPush(h, t, Urgency(new)))
         /\ Elements(HeapPush(h, t, Urgency(new))) = Elements(h) \cup {t}
<1> DEFINE g == HeapPush(h, t, Urgency(new))
           D == DOMAIN pri
           E == DOMAIN new
<1>1. /\ E = D \cup {t} /\ E \subseteq TicketIds
      /\ (\A s \in E : new[s] \in Int) /\ \A s \in D : new[s] = pri[s]
  BY DEF Triaged
<1>2. /\ Len(h) \in Nat /\ Distinct(h) /\ Tidy(h, Urgency(pri), {})
      /\ h \in Seq(E) /\ t \in E /\ \A i \in 1 .. Len(h) : h[i] \in D
  BY <1>1 DEF Triaged
<1>3. Elements(h) \subseteq D
  BY <1>2 DEF Elements
<1>4. Sorts(Urgency(new), E)
  BY <1>1, UrgencySorts
<1>5. \A a, b \in D : Less(a, b, Urgency(new)) => Less(a, b, Urgency(pri))
  BY <1>1 DEF Less, Urgency
<1> HIDE DEF D, E
<1>6. \A a, b \in Elements(h) : Less(a, b, Urgency(new)) => Less(a, b, Urgency(pri))
  BY <1>3, <1>5
<1>7. Tidy(h, Urgency(new), {})
  <2> DEFINE before == Urgency(pri)
             after == Urgency(new)
             none == {}
  <2>1. /\ Tidy(h, before, none)
        /\ \A a, b \in Elements(h) : Less(a, b, after) => Less(a, b, before) \/ a \in none
        /\ \A a \in Elements(h) : a \in none => a \in none
    BY <1>2, <1>6
  <2> HIDE DEF before, after, none
  <2>2. Tidy(h, after, none)
    BY <1>2, <2>1, StaysTidy
  <2> QED
    BY <2>2 DEF after, none
<1>8. Tidy(g, Urgency(new), {})
  BY <1>2, <1>4, <1>7, PushTidy
<1>9. g \in Seq(E) /\ Elements(g) = Elements(h) \cup {t}
  BY <1>2, PushList
<1>10. Distinct(g)
  BY <1>2, <1>3, PushList DEF D
<1> QED
  BY <1>1, <1>8, <1>9, <1>10 DEF Triaged, D, E

LEMMA OneMore ==
  ASSUME NEW T, NEW s \in Seq(T), NEW h \in Seq(T), h # <<>>
  PROVE  s \o SubSeq(h, 1, 1) = Append(s, h[1])
<1>1. Len(h) \in Nat /\ Len(h) >= 1 /\ h[1] \in T
  OBVIOUS
<1>2. SubSeq(h, 1, 1) = <<h[1]>>
  <2> DEFINE q == SubSeq(h, 1, 1)
             x == h[1]
  <2>1. q \in Seq(T) /\ Len(q) = 1 /\ q[1] = x /\ x \in T
    BY <1>1
  <2> HIDE DEF q, x
  <2>2. q = <<x>>
    BY <2>1
  <2> QED
    BY <2>2 DEF q, x
<1> QED
  BY <1>1, <1>2

\* What is handed out: the root, once the resolved tickets on top of it are gone.
MostUrgentHanded ==
  handed' # handed =>
    \E t \in Alg!Pending :
      handed' = Append(handed, t) /\ \A u \in Alg!Pending : ~Alg!Less(u, t, Alg!Urgent)

LEMMA TicketHanded ==
  ASSUME TriageInv, Alg!GetMostUrgent
  PROVE  TriageInv' /\ MostUrgentHanded
<1> DEFINE D == DOMAIN priorityOf
           before == Urgency(priorityOf)
           h == PopWhile(ticketHeap, resolved, before)
<1>1. /\ ticketHeap \in Seq(D) /\ Distinct(ticketHeap) /\ Tidy(ticketHeap, before, {})
      /\ Sorts(before, D) /\ handed \in Seq(D)
      /\ Elements(ticketHeap) \cap Elements(handed) = {}
      /\ D \subseteq Elements(ticketHeap) \cup Elements(handed) \cup resolved
  BY UrgencySorts DEF TriageInv, Triaged
<1>2. /\ h \in Seq(D) /\ Distinct(h)
      /\ Elements(h) \subseteq Elements(ticketHeap)
      /\ Elements(ticketHeap) \subseteq Elements(h) \cup resolved
      /\ h # <<>> => h[1] \notin resolved /\ h[1] \in D /\ h[1] \in Elements(h)
  BY <1>1, PopWhileList
<1>3. Tidy(h, before, {})
  BY <1>1, PopWhileTidy
<1>4. /\ ticketHeap' = IF h = <<>> THEN h ELSE HeapPop(h, before)
      /\ handed' = handed \o SubSeq(h, 1, IF h = <<>> THEN 0 ELSE 1)
      /\ priorityOf' = priorityOf /\ resolved' = resolved
  BY AlgPop, AlgPopWhile, UrgentIs DEF Alg!GetMostUrgent, Alg!SkipResolved
<1> HIDE DEF h, before
<1>5. Alg!Pending = D \ (resolved \cup Elements(handed))
  BY <1>1 DEF Alg!Pending, Alg!Range, Elements
<1>6. CASE h = <<>>
  <2>1. ticketHeap' = <<>> /\ handed' = handed
    BY <1>1, <1>4, <1>6
  <2>2. Elements(<<>>) = {} /\ Elements(h) = {}
    BY <1>6 DEF Elements
  <2>3. TriageInv'
    BY <1>1, <1>2, <1>3, <1>4, <1>6, <2>1, <2>2 DEF TriageInv, Triaged, before
  <2> QED
    BY <2>1, <2>3 DEF MostUrgentHanded
<1>7. CASE h # <<>>
  <2> DEFINE t == h[1]
             g == HeapPop(h, before)
  <2>1. t \in D /\ t \notin resolved /\ t \in Elements(h)
    BY <1>2, <1>7
  <2>2. g \in Seq(D) /\ Distinct(g) /\ Elements(g) = Elements(h) \ {t}
    BY <1>2, <1>7, PopList
  <2>3. Tidy(g, before, {})
    BY <1>1, <1>2, <1>3, <1>7, PopTidy
  <2>4. ticketHeap' = g
    BY <1>4, <1>7
  <2>5. handed' = Append(handed, t)
    <3>1. handed' = handed \o SubSeq(h, 1, 1)
      BY <1>4, <1>7
    <3> QED
      BY <1>1, <1>2, <1>7, <3>1, OneMore
  <2>6. \A u \in Elements(h) : ~Less(u, t, before)
    BY <1>1, <1>2, <1>3, RootIsFirst
  <2> HIDE DEF t, g
  <2>7. handed' \in Seq(D) /\ Elements(handed') = Elements(handed) \cup {t}
    BY <1>1, <2>1, <2>5, AppendedElements
  <2>8. TriageInv'
    BY <1>1, <1>2, <1>4, <2>1, <2>2, <2>3, <2>4, <2>7 DEF TriageInv, Triaged, before
  <2>9. t \in Alg!Pending /\ Alg!Pending \subseteq Elements(h)
    BY <1>1, <1>2, <1>5, <2>1
  <2>10. \A u \in Alg!Pending : ~Alg!Less(u, t, Alg!Urgent)
    BY <2>6, <2>9, UrgentIs DEF Alg!Less, Less, before
  <2> QED
    BY <2>5, <2>8, <2>9, <2>10 DEF MostUrgentHanded
<1> QED
  BY <1>6, <1>7

LEMMA TriageStep ==
  TriageInv /\ [Alg!TriageNext]_mcTriageVars => TriageInv' /\ MostUrgentHanded
<1> SUFFICES ASSUME TriageInv, [Alg!TriageNext]_mcTriageVars PROVE TriageInv' /\ MostUrgentHanded
  OBVIOUS
<1>1. ASSUME NEW t \in TicketIds, Alg!ResolveTicket(t) PROVE TriageInv' /\ MostUrgentHanded
  <2>1. /\ resolved' = resolved \cup {t}
        /\ priorityOf' = priorityOf /\ ticketHeap' = ticketHeap /\ handed' = handed
    BY <1>1 DEF Alg!ResolveTicket
  <2> QED
    BY <2>1 DEF TriageInv, MostUrgentHanded
<1>2. ASSUME NEW t \in TicketIds, NEW p \in TicketPriorities, Alg!AddTicket(t, p)
      PROVE  TriageInv' /\ MostUrgentHanded
  <2>1. /\ t \notin DOMAIN priorityOf /\ resolved' = resolved /\ handed' = handed
        /\ priorityOf' = [s \in DOMAIN priorityOf \cup {t} |-> IF s = t THEN p ELSE priorityOf[s]]
        /\ ticketHeap' = HeapPush(ticketHeap, t, Urgency(priorityOf'))
    BY <1>2, AlgPush, UrgentIs DEF Alg!AddTicket, Alg!Put
  <2>2. p \in Int
    BY AlgorithmsAssumption
  <2>3. Triaged(priorityOf, ticketHeap) /\ handed \in Seq(DOMAIN priorityOf)
    BY DEF TriageInv
  <2>4. /\ DOMAIN priorityOf' = DOMAIN priorityOf \cup {t} /\ Triaged(priorityOf', ticketHeap')
        /\ Elements(ticketHeap') = Elements(ticketHeap) \cup {t}
    BY <2>1, <2>2, <2>3, TicketPushed
  <2>5. t \notin Elements(handed) /\ handed' \in Seq(DOMAIN priorityOf')
    BY <2>1, <2>3, <2>4 DEF Elements
  <2>6. TriageInv'
    BY <2>1, <2>4, <2>5 DEF TriageInv
  <2> QED
    BY <2>1, <2>6 DEF MostUrgentHanded
<1>3. CASE Alg!GetMostUrgent
  BY <1>3, TicketHanded
<1>4. CASE UNCHANGED mcTriageVars
  BY <1>4 DEF mcTriageVars, TriageInv, MostUrgentHanded
<1> QED
  BY <1>1, <1>2, <1>3, <1>4 DEF Alg!TriageNext

\* heapq, as modelled, is a priority queue, for any numbers and a heap of any size: what
\* was pushed is in it, as often, until it is popped, and no pop passes over a smaller
\* item.  Nor is a ticket handed out twice, when it is resolved, or before a pending one
\* that is more urgent, for any tickets and priorities.
THEOREM HeapqIsPriorityQueue == MCSpec => HeapIsPriorityQueue
<1> DEFINE Inv == HeapqInv /\ TriageInv
<1>1. MCInit => Inv
  BY HeapqInit, TriageInit DEF MCInit
<1>2. [MCNext]_leasesVars => [Alg!HeapNext]_mcRefVars /\ [Alg!TriageNext]_mcTriageVars
  BY DEF MCNext, leasesVars, mcAlgVars
<1>3. Inv /\ [MCNext]_leasesVars => Inv'
  BY <1>2, HeapqStep, TriageStep
<1>4. Inv => Alg!SameItems /\ Alg!PopsSmallest
  BY HeapqIsBag
<1>5. Inv /\ [MCNext]_leasesVars => [MostUrgentHanded]_mcTriageVars
  BY <1>2, TriageStep
<1> QED
  BY <1>1, <1>3, <1>4, <1>5, PTL
  DEF MCSpec, leasesVars, HeapIsPriorityQueue, Alg!MostUrgentFirst, Alg!triageVars, mcTriageVars,
      MostUrgentHanded

--------------------------------------------------------------------------------
(* The list of pending tickets.                                            *)

\* What list_pending_tickets keeps to, with h left in the copy of the heap and l listed:
\* what is pending is in one of the two, and l is in order and before all that is left.
Listed(D, before, gone, all, h, l) ==
  /\ h \in Seq(D) /\ Distinct(h) /\ Tidy(h, before, {}) /\ l \in Seq(D)
  /\ Elements(l) \cap gone = {} /\ Elements(l) \subseteq all /\ Elements(h) \subseteq all
  /\ all \subseteq Elements(h) \cup Elements(l) \cup gone
  /\ \A i, j \in 1 .. Len(l) : i < j => Less(l[i], l[j], before)
  /\ \A a \in Elements(l), b \in Elements(h) : Less(a, b, before)

Total(before, D) == \A a, b \in D : a # b => Less(a, b, before) \/ Less(b, a, before)

LEMMA UrgencyTotal ==
  ASSUME NEW pri, DOMAIN pri \subseteq TicketIds, \A t \in DOMAIN pri : pri[t] \in Int
  PROVE  Total(Urgency(pri), DOMAIN pri)
<1>1. \A a, b \in DOMAIN pri :
        Less(a, b, Urgency(pri)) <=> pri[a] > pri[b] \/ (pri[a] = pri[b] /\ a < b)
  BY UrgencySorts
<1>2. \A a \in DOMAIN pri : a \in Int
  BY AlgorithmsAssumption
<1> QED
  BY <1>1, <1>2 DEF Total

LEMMA AppendedOrder ==
  ASSUME NEW D, NEW before, NEW l \in Seq(D), NEW t \in D,
         \A i, j \in 1 .. Len(l) : i < j => Less(l[i], l[j], before),
         \A a \in Elements(l) : Less(a, t, before)
  PROVE  LET m == Append(l, t) IN
         \A i, j \in 1 .. Len(m) : i < j => Less(m[i], m[j], before)
<1> DEFINE m == Append(l, t)
           n == Len(l)
<1>1. /\ n \in Nat /\ Len(m) = n + 1 /\ m[n + 1] = t
      /\ \A i \in 1 .. n : m[i] = l[i] /\ l[i] \in Elements(l)
  BY DEF Elements
<1> HIDE DEF m
<1> SUFFICES ASSUME NEW i \in 1 .. Len(m), NEW j \in 1 .. Len(m), i < j
             PROVE  Less(m[i], m[j], before)
  BY DEF m
<1>2. i \in 1 .. n /\ m[i] = l[i] /\ l[i] \in Elements(l)
  BY <1>1
<1>3. CASE j = n + 1
  BY <1>1, <1>2, <1>3
<1>4. CASE j # n + 1
  <2>1. j \in 1 .. n /\ m[j] = l[j]
    BY <1>1, <1>4
  <2> QED
    BY <1>2, <2>1
<1> QED
  BY <1>3, <1>4

LEMMA ListedStep ==
  ASSUME NEW D, NEW before, NEW gone, NEW all, NEW h, NEW l,
         Listed(D, before, gone, all, h, l), Sorts(before, D), Total(before, D), h # <<>>
  PROVE  Listed(D, before, gone, all, HeapPop(h, before), IF h[1] \in gone THEN l ELSE Append(l, h[1]))
<1> DEFINE g == HeapPop(h, before)
           t == h[1]
           m == Append(l, t)
<1>1. /\ h \in Seq(D) /\ Distinct(h) /\ Tidy(h, before, {}) /\ l \in Seq(D)
      /\ Elements(l) \cap gone = {} /\ Elements(l) \subseteq all /\ Elements(h) \subseteq all
      /\ all \subseteq Elements(h) \cup Elements(l) \cup gone
      /\ \A i, j \in 1 .. Len(l) : i < j => Less(l[i], l[j], before)
      /\ \A a \in Elements(l), b \in Elements(h) : Less(a, b, before)
  BY DEF Listed
<1>2. /\ g \in Seq(D) /\ Distinct(g) /\ t \in D /\ t \in Elements(h)
      /\ Elements(g) = Elements(h) \ {t}
  BY <1>1, PopList
<1>3. Tidy(g, before, {})
  BY <1>1, PopTidy
<1>4. \A y \in Elements(h) : ~Less(y, t, before)
  BY <1>1, RootIsFirst
<1>5. \A y \in Elements(h) : y \in D
  BY <1>1 DEF Elements
<1>6. m \in Seq(D) /\ Elements(m) = Elements(l) \cup {t}
  BY <1>1, <1>2, AppendedElements
<1>7. \A i, j \in 1 .. Len(m) : i < j => Less(m[i], m[j], before)
  <2> HIDE DEF t
  <2> QED
    BY <1>1, <1>2, AppendedOrder
<1> HIDE DEF g, t, m
<1>8. \A y \in Elements(g) : Less(t, y, before)
  BY <1>2, <1>4, <1>5 DEF Total
<1>9. CASE t \in gone
  <2>1. Listed(D, before, gone, all, g, l)
    BY <1>1, <1>2, <1>3, <1>9 DEF Listed
  <2> QED
    BY <1>9, <2>1 DEF g, t
<1>10. CASE t \notin gone
  <2>1. /\ Elements(m) \cap gone = {} /\ Elements(m) \subseteq all /\ Elements(g) \subseteq all
        /\ all \subseteq Elements(g) \cup Elements(m) \cup gone
    BY <1>1, <1>2, <1>6, <1>10
  <2>2. \A a \in Elements(m), b \in Elements(g) : Less(a, b, before)
    BY <1>1, <1>2, <1>6, <1>8
  <2>3. Listed(D, before, gone, all, g, m)
    BY <1>2, <1>3, <1>6, <1>7, <2>1, <2>2 DEF Listed
  <2> QED
    BY <1>10, <2>3 DEF g, t, m
<1> QED
  BY <1>9, <1>10

\* The loop of list_pending_tickets empties the copy.
LEMMA ListIs ==
  ASSUME TriageInv
  PROVE  Listed(DOMAIN priorityOf, Urgency(priorityOf), resolved, Elements(ticketHeap),
                <<>>, Alg!ListPending)
<1> DEFINE D == DOMAIN priorityOf
           before == Urgency(priorityOf)
           all == Elements(ticketHeap)
           S == [heap : Seq(D), list : Seq(D)]
           n == Len(ticketHeap)
           start == [heap |-> ticketHeap, list |-> <<>>]
           f == [r \in S |-> IF r.heap = <<>> THEN r
                   ELSE [heap |-> HeapPop(r.heap, before),
                         list |-> IF r.heap[1] \in resolved THEN r.list ELSE Append(r.list, r.heap[1])]]
           algF == [r \in S |-> IF r.heap = <<>> THEN r
                   ELSE [heap |-> Alg!HeapPop(r.heap, Alg!Urgent),
                         list |-> IF r.heap[1] \in resolved THEN r.list ELSE Append(r.list, r.heap[1])]]
           g == Iterate(f, start, n)
           m == [r \in S |-> Len(r.heap)]
           Kept == {r \in S : Listed(D, before, resolved, all, r.heap, r.list)}
<1>1. /\ ticketHeap \in Seq(D) /\ Distinct(ticketHeap) /\ Tidy(ticketHeap, before, {})
      /\ Sorts(before, D) /\ Total(before, D) /\ n \in Nat
  BY UrgencySorts, UrgencyTotal DEF TriageInv, Triaged
<1>2. Alg!ListPending = g[n].list
  <2>1. algF = f
    <3> HIDE DEF S
    <3> QED
      BY AlgPop, UrgentIs
  <2>2. Alg!ListPending = Alg!Iterate(algF, start, n)[n].list
    BY Zenon DEF Alg!ListPending
  <2>3. Alg!Iterate(algF, start, n) = Iterate(algF, start, n)
    BY Zenon DEF Alg!Iterate, Iterate
  <2> HIDE DEF f, algF
  <2> QED
    BY <2>1, <2>2, <2>3
<1>3. start \in Kept
  <2>1. start \in S
    <3>1. ticketHeap \in Seq(D) /\ <<>> \in Seq(D)
      BY <1>1
    <3> QED
      BY <3>1
  <2>2. Elements(<<>>) = {} /\ Len(<<>>) = 0 /\ <<>> \in Seq(D)
    BY DEF Elements
  <2>3. Listed(D, before, resolved, all, ticketHeap, <<>>)
    BY <1>1, <2>2 DEF Listed
  <2> QED
    BY <2>1, <2>3
<1>4. ASSUME NEW r \in S
      PROVE  /\ m[r] = Len(r.heap) /\ m[r] \in Nat
             /\ r.heap = <<>> => f[r] = r
             /\ r.heap # <<>> => /\ f[r] \in S /\ f[r].heap = HeapPop(r.heap, before)
                                 /\ f[r].list = IF r.heap[1] \in resolved THEN r.list
                                                ELSE Append(r.list, r.heap[1])
                                 /\ Len(f[r].heap) = Len(r.heap) - 1
  <2>1. m[r] = Len(r.heap) /\ m[r] \in Nat /\ r.heap \in Seq(D) /\ r.list \in Seq(D)
    OBVIOUS
  <2>2. CASE r.heap # <<>>
    <3> DEFINE h == r.heap
               p == HeapPop(h, before)
               l == IF h[1] \in resolved THEN r.list ELSE Append(r.list, h[1])
    <3>1. p \in Seq(D) /\ Len(p) = Len(h) - 1 /\ h[1] \in D
      BY <2>1, <2>2, PopList
    <3>2. l \in Seq(D)
      <4> DEFINE more == Append(r.list, h[1])
      <4>1. more \in Seq(D)
        <5> HIDE DEF h, D
        <5> QED
          BY <2>1, <3>1
      <4> HIDE DEF more
      <4>2. l = r.list \/ l = more
        BY DEF more
      <4> QED
        BY <2>1, <4>1, <4>2
    <3>3. f[r] = [heap |-> p, list |-> l]
      BY <2>2, Zenon
    <3> HIDE DEF p, l, f
    <3>4. [heap |-> p, list |-> l] \in S
      BY <3>1, <3>2
    <3>5. f[r].heap = p /\ f[r].list = l
      BY <3>3
    <3> QED
      BY <2>1, <2>2, <3>1, <3>3, <3>4, <3>5 DEF p, l
  <2> QED
    BY <2>1, <2>2
<1>5. f \in [S -> S] /\ m \in [S -> Nat]
  <2>1. \A r \in S : f[r] \in S /\ m[r] \in Nat
    <3> HIDE DEF f, m, S
    <3> QED
      BY <1>4
  <2> QED
    BY <2>1
<1>6. \A r \in Kept : f[r] \in Kept
  <2> SUFFICES ASSUME NEW r \in Kept, r.heap # <<>> PROVE f[r] \in Kept
    <3> HIDE DEF f
    <3> QED
      BY <1>4
  <2>1. Listed(D, before, resolved, all, r.heap, r.list) /\ r \in S
    OBVIOUS
  <2> HIDE DEF f, S, before, D, all
  <2>2. Listed(D, before, resolved, all, f[r].heap, f[r].list)
    BY <1>1, <1>4, <2>1, ListedStep
  <2> QED
    BY <1>4, <2>1, <2>2
<1> HIDE DEF f, m, start, g
<1>7. start \in S
  BY <1>3
<1>8. g \in [0 .. n -> S] /\ Orbit(g, f, start, n)
  <2> HIDE DEF S, n
  <2> QED
    BY <1>1, <1>5, <1>7, IterateOrbit DEF g
<1>9. g[n] \in Kept
  <2>1. g[0] \in Kept /\ \A k \in 1 .. n : g[k - 1] \in Kept => g[k] \in Kept
    BY <1>3, <1>6, <1>8 DEF Orbit
  <2> HIDE DEF Kept
  <2>2. \A k \in 0 .. n : g[k] \in Kept
    BY <1>1, <2>1, Carried
  <2> QED
    BY <1>1, <2>2
<1>10. g[n].heap = <<>>
  <2>1. \A r \in S : f[r] = r \/ m[f[r]] < m[r]
    <3> HIDE DEF S
    <3> SUFFICES ASSUME NEW r \in S, f[r] # r PROVE m[f[r]] < m[r]
      OBVIOUS
    <3>1. f[r] \in S /\ Len(f[r].heap) = Len(r.heap) - 1
      BY <1>4
    <3>2. m[r] = Len(r.heap) /\ m[r] \in Nat /\ m[f[r]] = Len(f[r].heap)
      BY <1>4, <3>1
    <3> QED
      BY <3>1, <3>2
  <2>2. m[start] <= n
    <3>1. m[start] = Len(start.heap)
      BY <1>4, <1>7
    <3>2. start.heap = ticketHeap
      BY DEF start
    <3> QED
      BY <1>1, <3>1, <3>2
  <2> HIDE DEF n
  <2>3. Falling(S, f, m, start, n, g)
    <3> HIDE DEF S
    <3> QED
      BY <1>1, <1>5, <1>7, <1>8, <2>1 DEF Falling
  <2>4. f[g[n]] = g[n]
    <3> HIDE DEF S
    <3> QED
      BY <2>2, <2>3, OrbitFalls
  <2> DEFINE r == g[n]
  <2>5. r \in S
    BY <1>9
  <2> HIDE DEF r, S
  <2>6. f[r] = r
    BY <2>4 DEF r
  <2> SUFFICES ASSUME r.heap # <<>> PROVE FALSE
    BY DEF r
  <2>7. Len(r.heap) = Len(r.heap) - 1 /\ Len(r.heap) \in Nat
    BY <1>4, <2>5, <2>6
  <2> QED
    BY <2>7
<1> QED
  BY <1>2, <1>9, <1>10

\* The list holds what is pending, once, and the most urgent first.
LEMMA PendingIsListed == TriageInv => Alg!PendingListed
<1> SUFFICES ASSUME TriageInv PROVE Alg!PendingListed
  OBVIOUS
<1> DEFINE l == Alg!ListPending
           D == DOMAIN priorityOf
<1>1. /\ l \in Seq(D) /\ Elements(l) \cap resolved = {} /\ Elements(l) \subseteq Elements(ticketHeap)
      /\ Elements(ticketHeap) \subseteq Elements(<<>>) \cup Elements(l) \cup resolved
      /\ \A i, j \in 1 .. Len(l) : i < j => Less(l[i], l[j], Urgency(priorityOf))
  BY ListIs DEF Listed
<1> HIDE DEF l
<1>2. Elements(<<>>) = {}
  BY DEF Elements
<1>3. /\ ticketHeap \in Seq(D) /\ handed \in Seq(D)
      /\ Elements(ticketHeap) \cap Elements(handed) = {}
      /\ D \subseteq Elements(ticketHeap) \cup Elements(handed) \cup resolved
  BY DEF TriageInv, Triaged
<1>4. Elements(ticketHeap) \subseteq D
  BY <1>3 DEF Elements
<1>5. Alg!Pending = D \ (resolved \cup Elements(handed))
  BY <1>3 DEF Alg!Pending, Alg!Range, Elements
<1>6. Alg!Range(l) = Elements(l) /\ DOMAIN l = 1 .. Len(l)
  BY <1>1 DEF Alg!Range, Elements
<1>7. Elements(l) = Alg!Pending
  BY <1>1, <1>2, <1>3, <1>4, <1>5
<1>8. \A i, j \in DOMAIN l : i < j => Alg!Less(l[i], l[j], Alg!Urgent)
  BY <1>1, <1>6, UrgentIs DEF Alg!Less, Less
<1> QED
  BY <1>6, <1>7, <1>8 DEF Alg!PendingListed, l

--------------------------------------------------------------------------------
(* The Bloom filter: a card that was added is never cleared.               *)

Bytes == 0 .. ((NUMBER_OF_BITS + 7) \div 8) - 1

FilterInv ==
  /\ DOMAIN hashedBits = Bytes /\ blocked \subseteq CardNumbers
  /\ \A c \in blocked : Alg!MightBeBlocked(c)

LEMMA HashesFit ==
  ASSUME NEW c \in CardNumbers, NEW h \in Alg!Hashes(c)
  PROVE  h \in Nat /\ h \div 8 \in Bytes
<1>1. PICK i \in 0 .. NUMBER_OF_HASHES - 1 : h = (c[1] + i * c[2]) % NUMBER_OF_BITS
  BY DEF Alg!Hashes
<1>2. c[1] \in Int /\ c[2] \in Int /\ i \in Int
  BY AlgorithmsAssumption
<1> DEFINE step == i * c[2]
           sum == c[1] + step
<1>3. step \in Int
  BY <1>2
<1> HIDE DEF step
<1>4. sum \in Int
  BY <1>2, <1>3
<1>5. h = sum % NUMBER_OF_BITS
  BY <1>1 DEF step
<1> HIDE DEF sum
<1>6. h \in 0 .. NUMBER_OF_BITS - 1
  BY <1>4, <1>5, AlgorithmsAssumption
<1> QED
  BY <1>6, AlgorithmsAssumption DEF Bytes

LEMMA FilterInit == Alg!Init => FilterInv
  BY DEF Alg!Init, FilterInv, Bytes

LEMMA FilterStep == FilterInv /\ [Alg!FilterNext]_mcFilterVars => FilterInv'
<1> SUFFICES ASSUME FilterInv, [Alg!FilterNext]_mcFilterVars PROVE FilterInv'
  OBVIOUS
<1>1. ASSUME NEW c \in CardNumbers, Alg!Add(c) PROVE FilterInv'
  <2>1. /\ hashedBits' = [byte \in DOMAIN hashedBits |->
                           hashedBits[byte] \cup {h % 8 : h \in {x \in Alg!Hashes(c) : x \div 8 = byte}}]
        /\ blocked' = blocked \cup {c}
    BY <1>1 DEF Alg!Add
  <2>2. DOMAIN hashedBits' = Bytes /\ blocked' \subseteq CardNumbers
    BY <2>1 DEF FilterInv
  <2>3. \A byte \in Bytes : hashedBits[byte] \subseteq hashedBits'[byte]
    BY <2>1 DEF FilterInv
  <2>4. \A h \in Alg!Hashes(c) : h % 8 \in hashedBits'[h \div 8]
    <3> SUFFICES ASSUME NEW h \in Alg!Hashes(c) PROVE h % 8 \in hashedBits'[h \div 8]
      OBVIOUS
    <3>1. h \div 8 \in DOMAIN hashedBits
      BY HashesFit DEF FilterInv
    <3> QED
      BY <2>1, <3>1
  <2>5. ASSUME NEW b \in blocked, NEW h \in Alg!Hashes(b) PROVE h % 8 \in hashedBits'[h \div 8]
    <3>1. h \div 8 \in Bytes /\ h % 8 \in hashedBits[h \div 8]
      BY HashesFit DEF FilterInv, Alg!MightBeBlocked
    <3> QED
      BY <2>3, <3>1
  <2>6. \A b \in blocked' : Alg!MightBeBlocked(b)'
    BY <2>1, <2>4, <2>5 DEF Alg!MightBeBlocked
  <2> QED
    BY <2>2, <2>6 DEF FilterInv
<1>2. UNCHANGED mcFilterVars => FilterInv'
  BY DEF mcFilterVars, FilterInv, Alg!MightBeBlocked
<1> QED
  BY <1>1, <1>2 DEF Alg!FilterNext

\* The filter has room for every hash, and no card that was blocked is ever cleared.
THEOREM BlockedStaysBlocked == MCSpec => []Alg!NoFalseNegatives
<1>1. MCInit => FilterInv
  BY FilterInit DEF MCInit
<1>2. FilterInv /\ [MCNext]_leasesVars => FilterInv'
  <2>1. [MCNext]_leasesVars => [Alg!FilterNext]_mcFilterVars
    BY DEF MCNext, leasesVars, mcAlgVars
  <2> QED
    BY <2>1, FilterStep
<1>3. FilterInv => Alg!NoFalseNegatives
  BY HashesFit DEF FilterInv, Alg!NoFalseNegatives
<1> QED
  BY <1>1, <1>2, <1>3, PTL DEF MCSpec, leasesVars

--------------------------------------------------------------------------------
(* The algorithms together.                                                *)

LEMMA ConversionAdded ==
  edges \in Seq(Conversions) /\ [Alg!PathNext]_edges => edges' \in Seq(Conversions)
<1> SUFFICES ASSUME edges \in Seq(Conversions), [Alg!PathNext]_edges
             PROVE  edges' \in Seq(Conversions)
  OBVIOUS
<1>1. ASSUME NEW a \in Currencies, NEW b \in Currencies, NEW w \in Weights,
             Alg!AddConversion(a, b, w)
      PROVE  edges' \in Seq(Conversions)
  <2> DEFINE e == [source |-> a, target |-> b, weight |-> w]
  <2>1. e \in Conversions
    BY AlgorithmsAssumption DEF Conversions
  <2>2. edges' = Append(edges, e)
    BY <1>1 DEF Alg!AddConversion
  <2> HIDE DEF e
  <2> QED
    BY <2>1, <2>2
<1> QED
  BY <1>1 DEF Alg!PathNext

AlgorithmsInv == edges \in Seq(Conversions) /\ TriageInv /\ FilterInv

\* The answers are right in every state, for any currencies, weights and tickets, and
\* however many of them: without negative weights Dijkstra's search finds a path of the
\* least weight there is, the other search does whatever the weights or says that there is
\* a loop when, and only when, one of negative weight can be reached, a list of pending
\* tickets holds each of them, the most urgent first, and no blocked card is cleared.
THEOREM AlgorithmsAreRight == MCSpec => []AlgorithmsAgree
<1>1. MCInit => AlgorithmsInv
  <2>1. Alg!Init => edges \in Seq(Conversions)
    BY DEF Alg!Init
  <2> QED
    BY <2>1, TriageInit, FilterInit DEF MCInit, AlgorithmsInv
<1>2. AlgorithmsInv /\ [MCNext]_leasesVars => AlgorithmsInv'
  <2>1. [MCNext]_leasesVars => /\ [Alg!PathNext]_edges /\ [Alg!TriageNext]_mcTriageVars
                               /\ [Alg!FilterNext]_mcFilterVars
    BY DEF MCNext, leasesVars, mcAlgVars
  <2> QED
    BY <2>1, ConversionAdded, TriageStep, FilterStep DEF AlgorithmsInv
<1>3. AlgorithmsInv => AlgorithmsAgree
  <2>1. FilterInv => Alg!NoFalseNegatives
    BY HashesFit DEF FilterInv, Alg!NoFalseNegatives
  <2> QED
    BY <2>1, PathsRight, NegativePathsRight, PendingIsListed DEF AlgorithmsInv, AlgorithmsAgree
<1> QED
  BY <1>1, <1>2, <1>3, PTL DEF MCSpec, leasesVars
================================================================================
