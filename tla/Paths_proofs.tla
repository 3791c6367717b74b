------------------------------- MODULE Paths_proofs -------------------------------
(***************************************************************************)
(* Theorems about the searches for cheapest paths in Algorithms, as        *)
(* MCLeases instantiates them, for any currencies and conversions and any  *)
(* number of them.  The loops come first: their lemmas serve the heaps of  *)
(* MCLeases_proofs too.                                                    *)
(***************************************************************************)
EXTENDS MCLeases, FiniteSetTheorems, SequenceTheorems, WellFoundedInduction, TLAPS

--------------------------------------------------------------------------------
(* Loops.  What a loop goes through is an orbit of its step.               *)

\* Induction, for a set of numbers: the smallest number left out is neither 0 nor the
\* successor of one that is in.
LEMMA Counting ==
  ASSUME NEW C, 0 \in C, \A k \in Nat : k \in C => k + 1 \in C
  PROVE  Nat \subseteq C
<1> SUFFICES ASSUME Nat \ C # {} PROVE FALSE
  OBVIOUS
<1>1. IsWellFoundedOn({p \in Nat \X Nat : p[1] < p[2]}, Nat)
  BY NatLessThanWellFounded, Zenon DEF OpToRel
<1>2. PICK x \in Nat \ C : \A y \in Nat \ C : <<y, x>> \notin {p \in Nat \X Nat : p[1] < p[2]}
  BY <1>1, WFMin
<1>3. x # 0 /\ x - 1 \in Nat
  OBVIOUS
<1>5. \A y \in Nat \ C : ~(y < x)
  BY <1>2
<1>4. x - 1 \in C
  BY <1>5, <1>3
<1> QED
  BY <1>3, <1>4

\* g goes on from x by f for n steps.
Orbit(g, f, x, n) == g[0] = x /\ \A k \in 1 .. n : g[k] = f[g[k - 1]]

LEMMA OrbitExists ==
  ASSUME NEW S, NEW f \in [S -> S], NEW x \in S, NEW n \in Nat
  PROVE  \E g \in [0 .. n -> S] : Orbit(g, f, x, n)
<1> DEFINE C == {j \in Nat : \E g \in [0 .. j -> S] : Orbit(g, f, x, j)}
<1>1. 0 \in C
  <2>1. [k \in 0 .. 0 |-> x] \in [0 .. 0 -> S] /\ Orbit([k \in 0 .. 0 |-> x], f, x, 0)
    BY DEF Orbit
  <2> QED
    BY <2>1
<1>2. ASSUME NEW j \in Nat, j \in C PROVE j + 1 \in C
  <2>1. PICK g \in [0 .. j -> S] : Orbit(g, f, x, j)
    BY <1>2
  <2> DEFINE more == [k \in 0 .. j + 1 |-> IF k = j + 1 THEN f[g[j]] ELSE g[k]]
  <2>2. more \in [0 .. j + 1 -> S]
    OBVIOUS
  <2>3. ASSUME NEW k \in 1 .. j + 1 PROVE more[k] = f[more[k - 1]]
    <3>1. k - 1 \in 0 .. j /\ more[k - 1] = g[k - 1]
      OBVIOUS
    <3> QED
      BY <2>1, <3>1 DEF Orbit
  <2>4. more[0] = x
    BY <2>1 DEF Orbit
  <2> QED
    <3> HIDE DEF more
    <3>1. Orbit(more, f, x, j + 1)
      BY <2>3, <2>4 DEF Orbit
    <3> QED
      BY <2>2, <3>1
<1>3. n \in C
  <2> HIDE DEF C
  <2> QED
    BY <1>1, <1>2, Counting
<1> QED
  BY <1>3

\* A measure that falls as long as f moves anything: no later place is higher, a place
\* that f leaves is the last one, and there is one within m[x] steps.
Falling(S, f, m, x, n, g) ==
  /\ f \in [S -> S] /\ m \in [S -> Nat] /\ \A s \in S : f[s] = s \/ m[f[s]] < m[s]
  /\ x \in S /\ n \in Nat
  /\ g \in [0 .. n -> S] /\ Orbit(g, f, x, n)

LEMMA OrbitFalls ==
  ASSUME NEW S, NEW f, NEW m, NEW x, NEW n, NEW g, Falling(S, f, m, x, n, g)
  PROVE  /\ \A a, b \in 0 .. n : a <= b => m[g[b]] <= m[g[a]]
         /\ \A a, b \in 0 .. n : a <= b /\ f[g[a]] = g[a] => g[b] = g[a]
         /\ m[x] <= n => f[g[n]] = g[n]
<1> USE DEF Falling
<1>0. \A k \in Nat : k + 1 <= n => k \in 0 .. n /\ k + 1 \in 1 .. n /\ (k + 1) - 1 = k
  OBVIOUS
<1>1. \A k \in Nat : k + 1 <= n => /\ g[k] \in S /\ g[k + 1] \in S /\ g[k + 1] = f[g[k]]
                                   /\ m[g[k]] \in Nat /\ m[g[k + 1]] \in Nat
  BY <1>0 DEF Orbit
<1>2. ASSUME NEW a \in 0 .. n
      PROVE  \A b \in 0 .. n : a <= b => m[g[b]] <= m[g[a]] /\ (f[g[a]] = g[a] => g[b] = g[a])
  <2> DEFINE Below(b) == m[g[b]] <= m[g[a]] /\ (f[g[a]] = g[a] => g[b] = g[a])
             C == {b \in Nat : a <= b /\ b <= n => Below(b)}
  <2>0. g[a] \in S /\ m[g[a]] \in Nat /\ Below(a)
    OBVIOUS
  <2>1. 0 \in C
    <3>1. a <= 0 => a = 0
      OBVIOUS
    <3> QED
      BY <2>0, <3>1
  <2>2. ASSUME NEW k \in Nat, k \in C PROVE k + 1 \in C
    <3> SUFFICES ASSUME a <= k + 1, k + 1 <= n PROVE Below(k + 1)
      OBVIOUS
    <3>1. CASE a = k + 1
      BY <2>0, <3>1
    <3>2. CASE a <= k
      <4>0. /\ g[k] \in S /\ g[k + 1] = f[g[k]]
            /\ m[g[k]] \in Nat /\ m[g[k + 1]] \in Nat
        BY <1>1
      <4>1. k <= n
        OBVIOUS
      <4>2. Below(k)
        BY <2>2, <3>2, <4>1
      <4>3. m[g[k + 1]] <= m[g[k]]
        <5>1. f[g[k]] = g[k] \/ m[f[g[k]]] < m[g[k]]
          BY <4>0
        <5> QED
          BY <4>0, <5>1
      <4>4. m[g[k + 1]] <= m[g[a]]
        BY <2>0, <4>0, <4>2, <4>3
      <4> QED
        BY <4>0, <4>2, <4>4
    <3> QED
      BY <3>1, <3>2
  <2>3. Nat \subseteq C
    <3> HIDE DEF C
    <3> QED
      BY <2>1, <2>2, Counting
  <2>4. ASSUME NEW b \in 0 .. n, a <= b PROVE Below(b)
    <3>1. b \in C /\ b <= n
      BY <2>3
    <3> QED
      BY <2>4, <3>1
  <2> QED
    BY <2>4
<1>3. ASSUME m[x] <= n PROVE f[g[n]] = g[n]
  <2> SUFFICES ASSUME f[g[n]] # g[n] PROVE FALSE
    OBVIOUS
  <2> DEFINE C == {k \in Nat : k <= n => m[g[k]] + k <= m[x]}
  <2>1. 0 \in C
    BY DEF Orbit
  <2>2. ASSUME NEW k \in Nat, k \in C PROVE k + 1 \in C
    <3> SUFFICES ASSUME k + 1 <= n PROVE m[g[k + 1]] + (k + 1) <= m[x]
      OBVIOUS
    <3>1. m[g[k]] + k <= m[x]
      BY <2>2
    <3>2. f[g[k]] # g[k]
      <4>1. f[g[k]] = g[k] => g[n] = g[k]
        BY <1>0, <1>2
      <4> QED
        BY <4>1
    <3>3. m[g[k + 1]] < m[g[k]]
      BY <1>1, <3>2
    <3> QED
      BY <1>1, <3>1, <3>3
  <2> HIDE DEF C
  <2>3. n \in C
    BY <2>1, <2>2, Counting
  <2>4. m[g[n]] + n <= m[x] /\ m[g[n]] \in Nat
    BY <2>3 DEF C
  <2>5. m[g[n]] = 0
    BY <1>3, <2>4
  <2>6. m[f[g[n]]] \in Nat /\ m[f[g[n]]] < m[g[n]]
    OBVIOUS
  <2> QED
    BY <2>5, <2>6
<1> QED
  BY <1>2, <1>3

\* What holds at the beginning and is kept by every step of a loop holds throughout.
LEMMA Carried ==
  ASSUME NEW S, NEW n \in Nat, NEW g, g[0] \in S,
         \A k \in 1 .. n : g[k - 1] \in S => g[k] \in S
  PROVE  \A k \in 0 .. n : g[k] \in S
<1> DEFINE C == {k \in Nat : k <= n => g[k] \in S}
<1>1. 0 \in C
  OBVIOUS
<1>2. ASSUME NEW k \in Nat, k \in C PROVE k + 1 \in C
  <2> SUFFICES ASSUME k + 1 <= n PROVE g[k + 1] \in S
    OBVIOUS
  <2>1. g[k] \in S /\ k + 1 \in 1 .. n /\ (k + 1) - 1 = k
    BY <1>2
  <2> QED
    BY <2>1
<1>3. Nat \subseteq C
  <2> HIDE DEF C
  <2> QED
    BY <1>1, <1>2, Counting
<1> QED
  BY <1>3

LEMMA IterateOrbit ==
  ASSUME NEW S, NEW f \in [S -> S], NEW x \in S, NEW n \in Nat
  PROVE  Iterate(f, x, n) \in [0 .. n -> S] /\ Orbit(Iterate(f, x, n), f, x, n)
<1> DEFINE F(g) == [k \in 0 .. n |-> IF k = 0 THEN x ELSE f[g[k - 1]]]
           it == Iterate(f, x, n)
<1>1. \E g : g = F(g)
  <2>1. PICK g \in [0 .. n -> S] : Orbit(g, f, x, n)
    BY OrbitExists
  <2>2. \A k \in 0 .. n : k # 0 => k \in 1 .. n
    OBVIOUS
  <2>3. \A k \in 0 .. n : g[k] = IF k = 0 THEN x ELSE f[g[k - 1]]
    BY <2>1, <2>2 DEF Orbit
  <2>4. g = F(g)
    BY <2>3
  <2> QED
    BY <2>4
<1>2. it = CHOOSE g : g = F(g)
  BY DEF Iterate
<1>3. it = F(it)
  <2> HIDE DEF F, it
  <2> QED
    BY <1>1, <1>2
<1>4. it = [k \in 0 .. n |-> it[k]]
  BY <1>3
<1>5. it[0] = x /\ \A k \in 1 .. n : it[k] = f[it[k - 1]]
  <2> HIDE DEF it
  <2> QED
    BY <1>3
<1> HIDE DEF it
<1>6. \A k \in 0 .. n : it[k] \in S
  <2>1. it[0] \in S /\ \A k \in 1 .. n : it[k - 1] \in S => it[k] \in S
    BY <1>5
  <2> QED
    BY <2>1, Carried
<1>7. it \in [0 .. n -> S] /\ Orbit(it, f, x, n)
  BY <1>4, <1>5, <1>6 DEF Orbit
<1> QED
  BY <1>7 DEF it

\* What a list holds.
Elements(h) == {h[i] : i \in 1 .. Len(h)}

LEMMA InElements == \A h, x : x \in Elements(h) <=> \E i \in 1 .. Len(h) : h[i] = x
  BY DEF Elements

\* A loop whose step depends on how often it was taken goes somewhere too.
Steps(g, f, x, n) == g[0] = x /\ \A k \in 1 .. n : g[k] = f[k][g[k - 1]]

LEMMA StepsExist ==
  ASSUME NEW S, NEW n \in Nat, NEW x \in S, NEW f \in [1 .. n -> [S -> S]]
  PROVE  \E g \in [0 .. n -> S] : Steps(g, f, x, n)
<1> USE DEF Steps
<1> DEFINE Upto(g, j) == Steps(g, f, x, j)
           C == {j \in Nat : j <= n => \E g \in [0 .. j -> S] : Upto(g, j)}
<1>1. 0 \in C
  <2>1. [k \in 0 .. 0 |-> x] \in [0 .. 0 -> S] /\ Upto([k \in 0 .. 0 |-> x], 0)
    OBVIOUS
  <2> QED
    BY <2>1
<1>2. ASSUME NEW j \in Nat, j \in C PROVE j + 1 \in C
  <2> SUFFICES ASSUME j + 1 <= n PROVE \E g \in [0 .. j + 1 -> S] : Upto(g, j + 1)
    OBVIOUS
  <2>1. PICK g \in [0 .. j -> S] : Upto(g, j)
    BY <1>2
  <2> DEFINE next == f[j + 1][g[j]]
             more == [k \in 0 .. j + 1 |-> IF k = j + 1 THEN next ELSE g[k]]
  <2>2. next \in S
    OBVIOUS
  <2>3. more \in [0 .. j + 1 -> S]
    <3> HIDE DEF next
    <3> QED
      BY <2>2
  <2>4. ASSUME NEW k \in 1 .. j + 1 PROVE more[k] = f[k][more[k - 1]]
    <3>1. k - 1 \in 0 .. j /\ more[k - 1] = g[k - 1]
      OBVIOUS
    <3>2. CASE k = j + 1
      BY <3>1, <3>2
    <3>3. CASE k \in 1 .. j
      BY <2>1, <3>1, <3>3
    <3> QED
      BY <3>2, <3>3
  <2>5. more[0] = x
    BY <2>1
  <2> QED
    <3> HIDE DEF more
    <3> QED
      BY <2>3, <2>4, <2>5
<1>3. n \in C
  <2> HIDE DEF C
  <2> QED
    BY <1>1, <1>2, Counting
<1> QED
  BY <1>3

\* A finite set of numbers that is not empty has a least one.
LEMMA LeastOfFinite ==
  ASSUME NEW S, S \subseteq Int, S # {}, IsFiniteSet(S)
  PROVE  \E x \in S : \A y \in S : x <= y
<1> DEFINE n == Cardinality(S)
<1>1. n \in Nat /\ ExistsBijection(1 .. n, S)
  BY FS_CardinalityType
<1>2. PICK f \in [1 .. n -> S] : \A y \in S : \E i \in 1 .. n : f[i] = y
  <2>1. PICK f : f \in Bijection(1 .. n, S)
    BY <1>1 DEF ExistsBijection
  <2> QED
    BY <2>1 DEF Bijection, Injection, Surjection
<1> HIDE DEF n
<1> DEFINE C == {k \in Nat : k + 1 <= n => \E x \in S : \A i \in 1 .. k + 1 : x <= f[i]}
<1>3. 0 \in C
  <2>1. ASSUME 0 + 1 <= n PROVE f[1] \in S /\ \A i \in 1 .. 0 + 1 : f[1] <= f[i]
    <3>1. 1 \in 1 .. n /\ \A i \in 1 .. 0 + 1 : i = 1
      BY <1>1, <2>1
    <3>2. f[1] \in Int
      BY <3>1
    <3> QED
      BY <3>1, <3>2
  <2> QED
    BY <2>1
<1>4. ASSUME NEW k \in Nat, k \in C PROVE k + 1 \in C
  <2> SUFFICES ASSUME (k + 1) + 1 <= n PROVE \E x \in S : \A i \in 1 .. (k + 1) + 1 : x <= f[i]
    OBVIOUS
  <2>1. PICK x \in S : \A i \in 1 .. k + 1 : x <= f[i]
    BY <1>1, <1>4
  <2> DEFINE z == f[(k + 1) + 1]
  <2>2. z \in S /\ x \in Int /\ z \in Int /\ \A i \in 1 .. k + 1 : f[i] \in Int
    <3>1. (k + 1) + 1 \in 1 .. n /\ \A i \in 1 .. k + 1 : i \in 1 .. n
      BY <1>1
    <3> QED
      BY <3>1
  <2>3. \A i \in 1 .. (k + 1) + 1 : i \in 1 .. k + 1 \/ f[i] = z
    OBVIOUS
  <2> HIDE DEF z
  <2>4. CASE x <= z
    BY <2>1, <2>3, <2>4
  <2>5. CASE z <= x
    <3>1. \A i \in 1 .. k + 1 : z <= f[i]
      BY <2>1, <2>2, <2>5
    <3> QED
      BY <2>2, <2>3, <3>1
  <2> QED
    BY <2>2, <2>4, <2>5
<1>5. n # 0
  <2>1. PICK y \in S : TRUE
    OBVIOUS
  <2>2. PICK i \in 1 .. n : f[i] = y
    BY <1>2
  <2> QED
    BY <1>1, <2>2
<1>6. n - 1 \in C /\ (n - 1) + 1 = n
  <2> HIDE DEF C
  <2> QED
    BY <1>1, <1>3, <1>4, <1>5, Counting
<1>7. \E x \in S : \A i \in 1 .. n : x <= f[i]
  <2>1. n - 1 \in C => \E x \in S : \A i \in 1 .. (n - 1) + 1 : x <= f[i]
    BY <1>1
  <2> QED
    BY <1>6, <2>1
<1> QED
  BY <1>2, <1>7

--------------------------------------------------------------------------------
(* Searches.  What the loops over the edges keep: where the distances come *)
(* from, and how far they can fall.                                        *)

\* What the conversions are, and the dictionaries of a search with keys from the currencies.
Conversions == [source : Currencies, target : Currencies, weight : Int]

Edge(u, v, w) == [source |-> u, target |-> v, weight |-> w] \in Elements(edges)

Dicts(T) == UNION {[D -> T] : D \in SUBSET Currencies}

Searches == [dist : Dicts(Int), via : Dicts(Currencies)]

\* A dictionary is a function on a part of the currencies.
LEMMA DictIs ==
  ASSUME NEW T, NEW d
  PROVE  d \in Dicts(T) <=> DOMAIN d \subseteq Currencies /\ d \in [DOMAIN d -> T]
  BY DEF Dicts

LEMMA EdgeIs ==
  ASSUME NEW e \in Conversions
  PROVE  /\ e.source \in Currencies /\ e.target \in Currencies /\ e.weight \in Int
         /\ e \in Elements(edges) <=> Edge(e.source, e.target, e.weight)
  BY DEF Edge, Conversions

LEMMA EdgeHas ==
  ASSUME edges \in Seq(Conversions), NEW u, NEW v, NEW w, Edge(u, v, w)
  PROVE  u \in Currencies /\ v \in Currencies /\ w \in Int
<1> DEFINE e == [source |-> u, target |-> v, weight |-> w]
<1>1. PICK i \in 1 .. Len(edges) : e = edges[i]
  BY DEF Edge, Elements
<1>2. e \in Conversions
  BY <1>1
<1> QED
  BY <1>2 DEF Conversions

LEMMA PutDict ==
  ASSUME NEW T, NEW d \in Dicts(T), NEW k \in Currencies, NEW v \in T
  PROVE  Alg!Put(d, k, v) \in Dicts(T)
<1>1. DOMAIN d \subseteq Currencies /\ \A x \in DOMAIN d : d[x] \in T
  BY DictIs
<1> DEFINE p == [x \in DOMAIN d \cup {k} |-> IF x = k THEN v ELSE d[x]]
<1>2. DOMAIN p \subseteq Currencies /\ p \in [DOMAIN p -> T]
  BY <1>1
<1> HIDE DEF p
<1>3. p \in Dicts(T)
  BY <1>2, DictIs
<1> QED
  BY <1>3 DEF p, Alg!Put

\* A potential: a number for every node that can be reached from where it has one,
\* that no edge raises by more than its weight.
Feasible(q) ==
  /\ q \in Dicts(Int)
  /\ \A u, v, w : u \in DOMAIN q /\ Edge(u, v, w) => v \in DOMAIN q /\ q[v] <= q[u] + w

\* What is known of the dictionaries at any time: every node but the source has been
\* reached by an edge from a node whose distance may have fallen since.
Known(dist, via, a) ==
  /\ dist \in Dicts(Int) /\ via \in Dicts(Currencies)
  /\ a \in DOMAIN dist /\ dist[a] <= 0 /\ DOMAIN dist = DOMAIN via \cup {a}
  /\ \A v \in DOMAIN via : via[v] \in DOMAIN dist
  /\ \A v \in DOMAIN via : \E w \in Int : Edge(via[v], v, w) /\ dist[via[v]] + w <= dist[v]

\* Predecessors without a circle: no set of nodes has all of its predecessors within.
Rooted(via) == \A X \in SUBSET DOMAIN via : X # {} => \E x \in X : via[x] \notin X

\* With a potential the distances cannot fall below it, the source has no predecessor,
\* and no circle of predecessors arises.
Above(dist, via, a, q) ==
  /\ DOMAIN dist \subseteq DOMAIN q
  /\ \A v \in DOMAIN dist : q[v] <= q[a] + dist[v]
  /\ a \notin DOMAIN via /\ dist[a] = 0
  /\ Rooted(via)

\* A search begins with its source alone, at distance 0.
LEMMA StartIs ==
  ASSUME NEW a \in Currencies
  PROVE  LET dist == Alg!Start(a).dist
             via == Alg!Start(a).via
         IN  /\ Alg!Start(a) = [dist |-> dist, via |-> via]
             /\ Known(dist, via, a) /\ dist[a] = 0 /\ DOMAIN dist = {a} /\ DOMAIN via = {}
             /\ Rooted(via)
<1> DEFINE dist == Alg!Put(<<>>, a, 0)
           via == <<>>
<1>1. via \in Dicts(Int) /\ via \in Dicts(Currencies) /\ DOMAIN via = {}
  <2>1. DOMAIN via = {} /\ \A T : via \in [{} -> T]
    OBVIOUS
  <2> QED
    BY <2>1, DictIs
<1>2. dist \in Dicts(Int) /\ DOMAIN dist = {a} /\ dist[a] = 0
  <2>1. 0 \in Int
    OBVIOUS
  <2>2. dist \in Dicts(Int)
    <3> HIDE DEF via
    <3> QED
      BY <1>1, <2>1, PutDict
  <2>3. DOMAIN dist = DOMAIN via \cup {a} /\ dist[a] = 0
    BY DEF Alg!Put
  <2> QED
    BY <1>1, <2>2, <2>3
<1>3. Alg!Start(a) = [dist |-> dist, via |-> via]
  BY DEF Alg!Start
<1> HIDE DEF dist, via
<1>4. Known(dist, via, a) /\ Rooted(via)
  BY <1>1, <1>2 DEF Known, Rooted
<1> QED
  BY <1>1, <1>2, <1>3, <1>4

\* What a relaxation does to the two dictionaries.
Reached(dist, via, u, v, d, more, by) ==
  /\ DOMAIN more = DOMAIN dist \cup {v} /\ DOMAIN by = DOMAIN via \cup {v}
  /\ more[v] = d /\ by[v] = u
  /\ \A x \in DOMAIN dist : x # v => more[x] = dist[x]
  /\ \A x \in DOMAIN via : x # v => by[x] = via[x]

LEMMA ReachIs ==
  ASSUME NEW s, NEW e, NEW d
  PROVE  LET r == Alg!Reach(s, e, d)
         IN  /\ r = [dist |-> r.dist, via |-> r.via]
             /\ Reached(s.dist, s.via, e.source, e.target, d, r.dist, r.via)
<1> DEFINE dist == s.dist
           via == s.via
           u == e.source
           v == e.target
           more == Alg!Put(dist, v, d)
           by == Alg!Put(via, v, u)
<1>1. Alg!Reach(s, e, d) = [dist |-> more, via |-> by]
  BY DEF Alg!Reach
<1>2. Reached(dist, via, u, v, d, more, by)
  <2> HIDE DEF dist, via, u, v
  <2> QED
    BY DEF Alg!Put, Reached
<1> HIDE DEF dist, via, u, v, more, by
<1>3. /\ [dist |-> more, via |-> by].dist = more
      /\ [dist |-> more, via |-> by].via = by
  OBVIOUS
<1> QED
  BY <1>1, <1>2, <1>3 DEF dist, via, u, v

\* The step that a relaxation takes, as the lemmas below assume it.
Improves(dist, via, u, v, w, more, by) ==
  /\ Edge(u, v, w) /\ u \in DOMAIN dist
  /\ v \notin DOMAIN dist \/ dist[u] + w < dist[v]
  /\ Reached(dist, via, u, v, dist[u] + w, more, by)

\* A relaxation keeps what is known, and lowers distances only.
LEMMA KnownAfter ==
  ASSUME edges \in Seq(Conversions),
         NEW dist, NEW via, NEW a, Known(dist, via, a),
         NEW u, NEW v, NEW w, NEW more, NEW by, Improves(dist, via, u, v, w, more, by),
         more \in Dicts(Int), by \in Dicts(Currencies)
  PROVE  /\ Known(more, by, a)
         /\ \A x \in DOMAIN dist : x \in DOMAIN more /\ more[x] <= dist[x]
         /\ u = v => w < 0
<1>1. u \in Currencies /\ v \in Currencies /\ w \in Int
  BY EdgeHas DEF Improves
<1>2. /\ DOMAIN dist \subseteq Currencies /\ \A x \in DOMAIN dist : dist[x] \in Int
      /\ a \in DOMAIN dist /\ dist[a] <= 0 /\ DOMAIN dist = DOMAIN via \cup {a}
  BY DictIs DEF Known
<1>3. /\ u \in DOMAIN dist /\ (v \notin DOMAIN dist \/ dist[u] + w < dist[v])
      /\ DOMAIN more = DOMAIN dist \cup {v} /\ DOMAIN by = DOMAIN via \cup {v}
      /\ more[v] = dist[u] + w /\ by[v] = u
  BY DEF Improves, Reached
<1>4. \A x \in DOMAIN dist : x # v => more[x] = dist[x]
  BY DEF Improves, Reached
<1>5. \A x \in DOMAIN via : x # v => by[x] = via[x]
  BY DEF Improves, Reached
<1>6. \A x \in DOMAIN dist : x \in DOMAIN more /\ more[x] <= dist[x]
  BY <1>1, <1>2, <1>3, <1>4
<1>7. u = v => w < 0
  BY <1>1, <1>2, <1>3
<1>8. \A x \in DOMAIN by : by[x] \in DOMAIN more
  <2>1. \A x \in DOMAIN via : via[x] \in DOMAIN dist
    BY DEF Known
  <2> QED
    BY <1>3, <1>5, <1>6, <2>1
<1>9. ASSUME NEW x \in DOMAIN by
      PROVE  \E z \in Int : Edge(by[x], x, z) /\ more[by[x]] + z <= more[x]
  <2>1. CASE x = v
    <3>1. more[u] <= dist[u] /\ more[u] \in Int /\ dist[u] \in Int
      BY <1>1, <1>2, <1>3, <1>4
    <3>2. Edge(u, v, w)
      BY DEF Improves
    <3> QED
      BY <1>1, <1>3, <2>1, <3>1, <3>2
  <2>2. CASE x # v
    <3> DEFINE y == via[x]
    <3>1. x \in DOMAIN via /\ by[x] = y /\ more[x] = dist[x]
      BY <1>2, <1>3, <1>4, <1>5, <2>2
    <3>2. PICK z \in Int : Edge(y, x, z) /\ dist[y] + z <= dist[x]
      BY <3>1 DEF Known
    <3>3. y \in DOMAIN dist
      BY <3>1 DEF Known
    <3> HIDE DEF y
    <3>4. more[y] <= dist[y] /\ more[y] \in Int /\ dist[y] \in Int /\ dist[x] \in Int
      BY <1>1, <1>2, <1>3, <1>4, <1>6, <3>1, <3>3
    <3> QED
      BY <3>1, <3>2, <3>4
  <2> QED
    BY <2>1, <2>2
<1>10. a \in DOMAIN more /\ more[a] <= 0 /\ DOMAIN more = DOMAIN by \cup {a}
  <2>1. more[a] <= dist[a] /\ more[a] \in Int
    BY <1>1, <1>2, <1>3, <1>4, <1>6
  <2> QED
    BY <1>2, <1>3, <2>1
<1> QED
  BY <1>6, <1>7, <1>8, <1>9, <1>10 DEF Known

\* It keeps the predecessors without a circle: one could only close around the source of
\* the edge, and the distances along it would then undercut the potential.
LEMMA AboveAfter ==
  ASSUME edges \in Seq(Conversions),
         NEW dist, NEW via, NEW a, Known(dist, via, a),
         NEW u, NEW v, NEW w, NEW more, NEW by, Improves(dist, via, u, v, w, more, by),
         NEW q, Feasible(q), a \in DOMAIN q, Above(dist, via, a, q)
  PROVE  Above(more, by, a, q) /\ v # a
<1>1. w \in Int
  BY EdgeHas DEF Improves
<1>2. /\ \A x \in DOMAIN dist : dist[x] \in Int
      /\ \A x \in DOMAIN q : q[x] \in Int
      /\ a \in DOMAIN dist /\ DOMAIN dist = DOMAIN via \cup {a}
  BY DictIs DEF Known, Feasible
<1>3. /\ u \in DOMAIN dist /\ (v \notin DOMAIN dist \/ dist[u] + w < dist[v])
      /\ DOMAIN more = DOMAIN dist \cup {v} /\ DOMAIN by = DOMAIN via \cup {v}
      /\ more[v] = dist[u] + w /\ by[v] = u
  BY DEF Improves, Reached
<1>4. \A x \in DOMAIN dist : x # v => more[x] = dist[x]
  BY DEF Improves, Reached
<1>5. \A x \in DOMAIN via : x # v => by[x] = via[x]
  BY DEF Improves, Reached
<1>6. /\ DOMAIN dist \subseteq DOMAIN q /\ a \notin DOMAIN via /\ dist[a] = 0 /\ Rooted(via)
      /\ \A x \in DOMAIN dist : q[x] <= q[a] + dist[x]
  BY DEF Above
<1>7. v \in DOMAIN q /\ q[v] <= q[u] + w
  <2>1. Edge(u, v, w) /\ u \in DOMAIN q
    BY <1>3, <1>6 DEF Improves
  <2> QED
    BY <2>1 DEF Feasible
<1>8. q[u] <= q[a] + dist[u] /\ q[u] \in Int /\ q[v] \in Int /\ q[a] \in Int /\ dist[u] \in Int
  BY <1>2, <1>3, <1>6, <1>7
<1>9. q[v] <= q[a] + more[v] /\ v # a
  <2>1. q[v] <= q[a] + (dist[u] + w)
    BY <1>1, <1>7, <1>8
  <2>2. v # a
    BY <1>1, <1>2, <1>3, <1>6, <1>8, <2>1
  <2> QED
    BY <1>3, <2>1, <2>2
<1>10. \A x \in DOMAIN more : q[x] <= q[a] + more[x]
  BY <1>3, <1>4, <1>6, <1>9
<1>11. DOMAIN more \subseteq DOMAIN q /\ a \notin DOMAIN by /\ more[a] = 0
  BY <1>2, <1>3, <1>4, <1>6, <1>7, <1>9
<1>12. ASSUME NEW X \in SUBSET DOMAIN by, X # {}, \A x \in X : by[x] \in X
       PROVE  FALSE
  <2>0. \A Y \in SUBSET DOMAIN via : Y # {} => \E y \in Y : via[y] \notin Y
    BY <1>6 DEF Rooted
  <2>1. v \in X
    <3> SUFFICES ASSUME v \notin X PROVE FALSE
      OBVIOUS
    <3>1. X \in SUBSET DOMAIN via /\ \A x \in X : via[x] \in X
      BY <1>3, <1>5, <1>12
    <3> QED
      BY <1>12, <2>0, <3>1
  <2>2. u \in X
    BY <1>3, <1>12, <2>1
  <2>3. CASE v \notin DOMAIN dist
    <3>1. \A x \in DOMAIN via : via[x] \in DOMAIN dist
      BY DEF Known
    <3>2. X \ {v} \in SUBSET DOMAIN via /\ u \in X \ {v}
      BY <1>3, <2>2, <2>3
    <3>3. \A x \in X \ {v} : via[x] \in X \ {v}
      BY <1>5, <1>12, <2>3, <3>1, <3>2
    <3> QED
      BY <2>0, <3>2, <3>3
  <2>4. CASE v \in DOMAIN dist
    <3> DEFINE Z == {x \in X : dist[x] - q[x] < dist[v] - q[v]}
    <3>0. v \notin Z
      BY <1>2, <1>8, <2>4
    <3>1. Z \in SUBSET DOMAIN via
      BY <1>3, <3>0
    <3>2. u \in Z
      <4>1. dist[v] \in Int /\ dist[u] + w < dist[v]
        BY <1>2, <1>3, <2>4
      <4>2. dist[u] - q[u] < dist[v] - q[v]
        BY <1>1, <1>7, <1>8, <4>1
      <4> QED
        BY <2>2, <4>2
    <3>3. ASSUME NEW z \in Z PROVE via[z] \in Z
      <4> DEFINE y == via[z]
      <4>1. z \in X /\ z # v /\ z \in DOMAIN via /\ z \in DOMAIN dist
        BY <1>2, <1>3, <3>0
      <4>2. y \in X /\ y \in DOMAIN dist
        BY <1>5, <1>12, <4>1 DEF Known
      <4>3. PICK c \in Int : Edge(y, z, c) /\ dist[y] + c <= dist[z]
        BY <4>1 DEF Known
      <4> HIDE DEF y
      <4>4. q[z] <= q[y] + c
        BY <1>6, <4>2, <4>3 DEF Feasible
      <4>5. /\ dist[y] \in Int /\ dist[z] \in Int /\ q[y] \in Int /\ q[z] \in Int /\ dist[v] \in Int
            /\ dist[z] - q[z] < dist[v] - q[v]
        BY <1>2, <1>6, <2>4, <4>1, <4>2
      <4>6. dist[y] - q[y] < dist[v] - q[v]
        <5> DEFINE dy == dist[y]
                   dz == dist[z]
                   qy == q[y]
                   qz == q[z]
                   bound == dist[v] - q[v]
        <5>1. /\ dy \in Int /\ dz \in Int /\ qy \in Int /\ qz \in Int /\ bound \in Int /\ c \in Int
              /\ dz - qz < bound /\ qz <= qy + c /\ dy + c <= dz
          BY <1>8, <4>3, <4>4, <4>5
        <5> HIDE DEF dy, dz, qy, qz, bound
        <5>2. dy - qy < bound
          BY <5>1
        <5> QED
          BY <5>2 DEF dy, qy, bound
      <4>7. y \in Z
        BY <4>2, <4>6
      <4> QED
        BY <4>7 DEF y
    <3> HIDE DEF Z
    <3> QED
      BY <2>0, <3>1, <3>2, <3>3
  <2> QED
    BY <2>3, <2>4
<1>13. Rooted(by)
  BY <1>12 DEF Rooted
<1> QED
  BY <1>9, <1>10, <1>11, <1>13 DEF Above

\* A search is the record of its two dictionaries.
LEMMA SearchIs ==
  ASSUME NEW s \in Searches
  PROVE  /\ s = [dist |-> s.dist, via |-> s.via]
         /\ s.dist \in Dicts(Int) /\ s.via \in Dicts(Currencies)
         /\ DOMAIN s.dist \subseteq Currencies
         /\ \A x \in DOMAIN s.dist : s.dist[x] \in Int
<1>1. s = [dist |-> s.dist, via |-> s.via] /\ s.dist \in Dicts(Int) /\ s.via \in Dicts(Currencies)
  BY DEF Searches
<1> DEFINE d == s.dist
<1>2. d \in Dicts(Int)
  BY <1>1
<1> HIDE DEF d
<1>3. DOMAIN d \subseteq Currencies /\ \A x \in DOMAIN d : d[x] \in Int
  BY <1>2, DictIs
<1> QED
  BY <1>1, <1>3 DEF d

LEMMA ReachStays ==
  ASSUME NEW s \in Searches, NEW e \in Conversions, NEW d \in Int
  PROVE  Alg!Reach(s, e, d) \in Searches
<1>1. e.source \in Currencies /\ e.target \in Currencies
  BY EdgeIs
<1>2. s.dist \in Dicts(Int) /\ s.via \in Dicts(Currencies)
  BY SearchIs
<1>3. Alg!Put(s.dist, e.target, d) \in Dicts(Int)
  BY <1>1, <1>2, PutDict
<1>4. Alg!Put(s.via, e.target, e.source) \in Dicts(Currencies)
  BY <1>1, <1>2, PutDict
<1> QED
  BY <1>3, <1>4 DEF Alg!Reach, Searches

\* A conversion is relaxed, or has nothing to improve.
LEMMA RelaxEdgeIs ==
  ASSUME NEW s \in Searches, NEW e \in Conversions
  PROVE  LET r == Alg!RelaxEdge(s, e)
         IN  /\ r \in Searches
             /\ \/ /\ r = s
                   /\ e.source \in DOMAIN s.dist =>
                        /\ e.target \in DOMAIN s.dist
                        /\ s.dist[e.target] <= s.dist[e.source] + e.weight
                \/ e \in Elements(edges) =>
                     Improves(s.dist, s.via, e.source, e.target, e.weight, r.dist, r.via)
<1> DEFINE r == Alg!RelaxEdge(s, e)
           dist == s.dist
           u == e.source
           v == e.target
           w == e.weight
<1>1. /\ \A x \in DOMAIN dist : dist[x] \in Int
      /\ w \in Int
      /\ e \in Elements(edges) <=> Edge(u, v, w)
  BY SearchIs, EdgeIs
<1>2. CASE u \in DOMAIN dist /\ (v \notin DOMAIN dist \/ dist[u] + w < dist[v])
  <2>1. r = Alg!Reach(s, e, dist[u] + w)
    BY <1>2 DEF Alg!RelaxEdge, Alg!Cheaper
  <2>2. dist[u] + w \in Int
    <3> HIDE DEF dist, u, w
    <3> QED
      BY <1>1, <1>2
  <2>3. r \in Searches
    BY <2>1, <2>2, ReachStays
  <2>4. Reached(dist, s.via, u, v, dist[u] + w, r.dist, r.via)
    BY <2>1, ReachIs
  <2> QED
    BY <1>1, <1>2, <2>3, <2>4 DEF Improves
<1>3. CASE ~(u \in DOMAIN dist /\ (v \notin DOMAIN dist \/ dist[u] + w < dist[v]))
  <2>1. r = s
    BY <1>3 DEF Alg!RelaxEdge, Alg!Cheaper
  <2>2. u \in DOMAIN dist => v \in DOMAIN dist /\ dist[v] <= dist[u] + w
    <3> HIDE DEF dist, u, v, w
    <3> QED
      BY <1>1, <1>3
  <2> QED
    BY <2>1, <2>2
<1> QED
  BY <1>2, <1>3

\* A pass goes through the conversions, one at a time.
PassSteps(g, s) ==
  /\ g \in [0 .. Len(edges) -> Searches]
  /\ g[0] = s /\ \A i \in 1 .. Len(edges) : g[i] = Alg!RelaxEdge(g[i - 1], edges[i])

LEMMA PassIs ==
  ASSUME edges \in Seq(Conversions), NEW s \in Searches
  PROVE  \E g : PassSteps(g, s) /\ Alg!Pass(s) = g[Len(edges)]
<1> DEFINE n == Len(edges)
           F(g) == [i \in 0 .. n |-> IF i = 0 THEN s ELSE Alg!RelaxEdge(g[i - 1], edges[i])]
           it == CHOOSE g : g = F(g)
           f == [i \in 1 .. n |-> [r \in Searches |-> Alg!RelaxEdge(r, edges[i])]]
<1>0. n \in Nat
  OBVIOUS
<1>1. Alg!Pass(s) = it[n]
  BY DEF Alg!Pass
<1>2. \A i \in 1 .. n, r \in Searches : Alg!RelaxEdge(r, edges[i]) \in Searches
  BY RelaxEdgeIs
<1>3. f \in [1 .. n -> [Searches -> Searches]]
  BY <1>2
<1>4. PICK g \in [0 .. n -> Searches] : Steps(g, f, s, n)
  <2> HIDE DEF f, n
  <2> QED
    BY <1>0, <1>3, StepsExist
<1>5. \A k \in 1 .. n : g[k] = Alg!RelaxEdge(g[k - 1], edges[k])
  <2>1. \A k \in 1 .. n : g[k - 1] \in Searches
    OBVIOUS
  <2> QED
    BY <1>4, <2>1 DEF Steps
<1>6. g = F(g)
  <2> HIDE DEF f
  <2>1. \A k \in 0 .. n : k # 0 => k \in 1 .. n
    OBVIOUS
  <2>2. \A k \in 0 .. n : g[k] = IF k = 0 THEN s ELSE Alg!RelaxEdge(g[k - 1], edges[k])
    BY <1>4, <1>5, <2>1 DEF Steps
  <2> QED
    BY <2>2
<1>7. it = F(it)
  <2> HIDE DEF F
  <2> QED
    BY <1>6
<1> HIDE DEF it
<1>8. it[0] = s /\ \A k \in 1 .. n : it[k] = Alg!RelaxEdge(it[k - 1], edges[k])
  BY <1>7
<1>9. \A k \in 0 .. n : it[k] \in Searches
  <2>1. it[0] \in Searches /\ \A k \in 1 .. n : it[k - 1] \in Searches => it[k] \in Searches
    BY <1>2, <1>8
  <2> HIDE DEF n
  <2> QED
    BY <1>0, <2>1, Carried
<1>10. it \in [0 .. n -> Searches]
  <2>1. it = [i \in 0 .. n |-> it[i]]
    BY <1>7
  <2> HIDE DEF n
  <2> QED
    BY <1>9, <2>1
<1> QED
  BY <1>1, <1>8, <1>10 DEF PassSteps

\* Distances only fall, and no node is forgotten.
Falls(dist, more) == \A x \in DOMAIN dist : x \in DOMAIN more /\ more[x] <= dist[x]

LEMMA FallsOn ==
  ASSUME NEW s \in Searches, NEW t \in Searches, NEW r \in Searches,
         Falls(s.dist, t.dist), Falls(t.dist, r.dist)
  PROVE  Falls(s.dist, r.dist)
<1> DEFINE d == s.dist
           e == t.dist
           f == r.dist
<1>1. /\ \A x \in DOMAIN d : d[x] \in Int
      /\ \A x \in DOMAIN e : e[x] \in Int
      /\ \A x \in DOMAIN f : f[x] \in Int
  BY SearchIs
<1>2. \A x \in DOMAIN d : x \in DOMAIN e /\ e[x] <= d[x]
  BY DEF Falls
<1>3. \A x \in DOMAIN e : x \in DOMAIN f /\ f[x] <= e[x]
  BY DEF Falls
<1> HIDE DEF d, e, f
<1>4. \A x \in DOMAIN d : x \in DOMAIN f /\ f[x] <= d[x]
  BY <1>1, <1>2, <1>3
<1> QED
  BY <1>4 DEF Falls, d, f

LEMMA ElementsAre ==
  ASSUME edges \in Seq(Conversions), NEW e \in Elements(edges)
  PROVE  /\ e \in Conversions
         /\ Edge(e.source, e.target, e.weight)
         /\ e.source \in Currencies /\ e.target \in Currencies /\ e.weight \in Int
<1>1. e \in Conversions
  BY DEF Elements
<1> QED
  BY <1>1, EdgeIs

\* Relaxing one conversion: what is kept, and what holds of its ends afterwards.
LEMMA EdgeRelaxed ==
  ASSUME edges \in Seq(Conversions), NEW s \in Searches, NEW a, Known(s.dist, s.via, a),
         NEW e \in Elements(edges)
  PROVE  LET r == Alg!RelaxEdge(s, e)
         IN  /\ r \in Searches /\ Known(r.dist, r.via, a) /\ Falls(s.dist, r.dist)
             /\ e.source \in DOMAIN s.dist =>
                  /\ e.target \in DOMAIN r.dist
                  /\ r.dist[e.target] <= s.dist[e.source] + e.weight
             /\ \A q : Feasible(q) /\ a \in DOMAIN q /\ Above(s.dist, s.via, a, q)
                         => Above(r.dist, r.via, a, q)
<1> DEFINE r == Alg!RelaxEdge(s, e)
           dist == s.dist
           via == s.via
           more == r.dist
           by == r.via
           u == e.source
           v == e.target
           w == e.weight
<1>1. e \in Conversions
  BY ElementsAre
<1>2. r \in Searches
  BY <1>1, RelaxEdgeIs
<1>3. more \in Dicts(Int) /\ by \in Dicts(Currencies)
  BY <1>2, SearchIs
<1>4. \A x \in DOMAIN dist : dist[x] \in Int
  BY SearchIs
<1>5. \/ r = s /\ (u \in DOMAIN dist => v \in DOMAIN dist /\ dist[v] <= dist[u] + w)
      \/ Improves(dist, via, u, v, w, more, by)
  BY <1>1, RelaxEdgeIs
<1>6. CASE r = s /\ (u \in DOMAIN dist => v \in DOMAIN dist /\ dist[v] <= dist[u] + w)
  <2>1. Falls(dist, dist)
    <3> HIDE DEF dist
    <3> QED
      BY <1>4 DEF Falls
  <2>2. r \in Searches /\ Known(r.dist, r.via, a) /\ Falls(dist, r.dist)
    BY <1>2, <1>6, <2>1
  <2> HIDE DEF r
  <2> QED
    BY <1>6, <2>2 DEF r
<1>7. CASE Improves(dist, via, u, v, w, more, by)
  <2> HIDE DEF r, dist, via, u, v, w, more, by
  <2>0. Known(dist, via, a)
    BY DEF dist, via
  <2>1. Known(more, by, a) /\ \A x \in DOMAIN dist : x \in DOMAIN more /\ more[x] <= dist[x]
    BY <1>3, <1>7, <2>0, KnownAfter
  <2>2. Falls(dist, more)
    BY <2>1 DEF Falls
  <2>3. u \in DOMAIN dist => v \in DOMAIN more /\ more[v] <= dist[u] + w
    <3>1. w \in Int
      BY <1>7, EdgeHas DEF Improves
    <3> QED
      BY <1>4, <1>7, <3>1 DEF Improves, Reached
  <2>4. \A q : Feasible(q) /\ a \in DOMAIN q /\ Above(dist, via, a, q) => Above(more, by, a, q)
    BY <1>7, <2>0, AboveAfter
  <2>5. r \in Searches
    BY <1>2
  <2> QED
    BY <2>1, <2>2, <2>3, <2>4, <2>5 DEF r, dist, via, u, v, w, more, by
<1> QED
  BY <1>5, <1>6, <1>7

\* So a whole pass keeps it, and leaves no end of an edge further than the distance that its
\* source had before the pass.
LEMMA PassKeeps ==
  ASSUME edges \in Seq(Conversions), NEW s \in Searches, NEW a, Known(s.dist, s.via, a)
  PROVE  LET r == Alg!Pass(s)
         IN  /\ r \in Searches /\ Known(r.dist, r.via, a) /\ Falls(s.dist, r.dist)
             /\ \A u, v, w : Edge(u, v, w) /\ u \in DOMAIN s.dist =>
                               v \in DOMAIN r.dist /\ r.dist[v] <= s.dist[u] + w
             /\ \A q : Feasible(q) /\ a \in DOMAIN q /\ Above(s.dist, s.via, a, q)
                         => Above(r.dist, r.via, a, q)
<1> DEFINE n == Len(edges)
           r == Alg!Pass(s)
           S == {t \in Searches : Known(t.dist, t.via, a) /\ Falls(s.dist, t.dist)}
<1>0. n \in Nat
  OBVIOUS
<1>1. PICK g : PassSteps(g, s) /\ r = g[n]
  BY PassIs
<1>2. /\ g \in [0 .. n -> Searches] /\ g[0] = s
      /\ \A k \in 1 .. n : g[k] = Alg!RelaxEdge(g[k - 1], edges[k])
  BY <1>1 DEF PassSteps
<1>3. \A k \in 1 .. n : edges[k] \in Elements(edges) /\ k - 1 \in 0 .. n
  BY DEF Elements
<1> HIDE DEF n, r
<1>4. s \in S
  <2>1. \A x \in DOMAIN s.dist : s.dist[x] <= s.dist[x]
    <3> DEFINE d == s.dist
    <3>1. \A x \in DOMAIN d : d[x] \in Int
      BY SearchIs
    <3> HIDE DEF d
    <3>2. \A x \in DOMAIN d : d[x] <= d[x]
      BY <3>1
    <3> QED
      BY <3>2 DEF d
  <2> QED
    BY <2>1 DEF Falls
<1>5. ASSUME NEW k \in 1 .. n, g[k - 1] \in S
      PROVE  g[k] \in S /\ Falls(g[k - 1].dist, g[k].dist)
  <2>1. /\ g[k] \in Searches /\ Known(g[k].dist, g[k].via, a)
        /\ Falls(g[k - 1].dist, g[k].dist)
    BY <1>2, <1>3, <1>5, EdgeRelaxed
  <2> QED
    BY <1>5, <2>1, FallsOn
<1>6. \A k \in 0 .. n : g[k] \in S
  <2>1. g[0] \in S /\ \A k \in 1 .. n : g[k - 1] \in S => g[k] \in S
    BY <1>2, <1>4, <1>5
  <2> HIDE DEF S
  <2> QED
    BY <1>0, <2>1, Carried
<1>7. r \in S
  <2>1. n \in 0 .. n
    BY <1>0
  <2> QED
    BY <1>1, <1>6, <2>1
<1>8. ASSUME NEW u, NEW v, NEW w, Edge(u, v, w), u \in DOMAIN s.dist
      PROVE  v \in DOMAIN r.dist /\ r.dist[v] <= s.dist[u] + w
  <2> DEFINE e == [source |-> u, target |-> v, weight |-> w]
             Below(t) == v \in DOMAIN t.dist /\ t.dist[v] <= s.dist[u] + w
  <2>1. PICK i \in 1 .. n : e = edges[i]
    BY <1>8 DEF Edge, Elements, n
  <2> DEFINE C == {k \in Nat : i <= k /\ k <= n => Below(g[k])}
  <2>2. w \in Int /\ s.dist[u] \in Int
    BY <1>8, EdgeHas, SearchIs
  <2>3. Below(g[i])
    <3>1. i - 1 \in 0 .. n /\ e \in Elements(edges)
      BY <1>3, <2>1
    <3>2. g[i - 1] \in S
      BY <1>6, <3>1
    <3>3. /\ u \in DOMAIN g[i - 1].dist
          /\ g[i - 1].dist[u] <= s.dist[u] /\ g[i - 1].dist[u] \in Int
      BY <1>8, <3>2, SearchIs DEF Falls
    <3>4. g[i] = Alg!RelaxEdge(g[i - 1], e) /\ e.source = u /\ e.target = v /\ e.weight = w
      BY <1>2, <2>1
    <3> HIDE DEF e
    <3>5. /\ v \in DOMAIN g[i].dist
          /\ g[i].dist[v] <= g[i - 1].dist[u] + w
      BY <3>1, <3>2, <3>3, <3>4, EdgeRelaxed
    <3>6. g[i].dist[v] \in Int
      <4>1. i \in 0 .. n
        OBVIOUS
      <4> QED
        BY <1>2, <3>5, <4>1, SearchIs
    <3> QED
      BY <2>2, <3>3, <3>5, <3>6
  <2>4. 0 \in C
    OBVIOUS
  <2>5. ASSUME NEW k \in Nat, k \in C PROVE k + 1 \in C
    <3> SUFFICES ASSUME i <= k + 1, k + 1 <= n PROVE Below(g[k + 1])
      OBVIOUS
    <3>1. CASE k + 1 = i
      BY <2>3, <3>1
    <3>2. CASE i <= k
      <4>1. Below(g[k]) /\ k + 1 \in 1 .. n /\ (k + 1) - 1 = k /\ k \in 0 .. n /\ k + 1 \in 0 .. n
        BY <1>0, <2>5, <3>2
      <4>2. Falls(g[k].dist, g[k + 1].dist)
        BY <1>5, <1>6, <4>1
      <4>3. v \in DOMAIN g[k].dist /\ g[k].dist[v] <= s.dist[u] + w
        BY <4>1
      <4>4. v \in DOMAIN g[k + 1].dist /\ g[k + 1].dist[v] <= g[k].dist[v]
        BY <4>2, <4>3 DEF Falls
      <4>5. g[k].dist[v] \in Int /\ g[k + 1].dist[v] \in Int
        BY <1>2, <4>1, <4>3, <4>4, SearchIs
      <4> QED
        BY <2>2, <4>3, <4>4, <4>5
    <3> QED
      BY <1>0, <3>1, <3>2
  <2>6. n \in C
    <3> HIDE DEF C
    <3> QED
      BY <1>0, <2>4, <2>5, Counting
  <2>7. Below(g[n])
    BY <1>0, <2>6
  <2> QED
    BY <1>1, <2>7
<1>9. ASSUME NEW q, Feasible(q), a \in DOMAIN q, Above(s.dist, s.via, a, q)
      PROVE  Above(r.dist, r.via, a, q)
  <2> DEFINE T == {t \in S : Above(t.dist, t.via, a, q)}
  <2>1. g[0] \in T
    BY <1>2, <1>4, <1>9
  <2>2. ASSUME NEW k \in 1 .. n, g[k - 1] \in T PROVE g[k] \in T
    <3>1. Above(g[k].dist, g[k].via, a, q)
      BY <1>2, <1>3, <1>9, <2>2, EdgeRelaxed
    <3> QED
      BY <1>5, <2>2, <3>1
  <2>3. \A k \in 1 .. n : g[k - 1] \in T => g[k] \in T
    BY <2>2
  <2>4. \A k \in 0 .. n : g[k] \in T
    <3> HIDE DEF T
    <3> QED
      BY <1>0, <2>1, <2>3, Carried
  <2>5. n \in 0 .. n
    BY <1>0
  <2> QED
    BY <1>1, <2>4, <2>5
<1> QED
  BY <1>7, <1>8, <1>9 DEF r

LEMMA StartAbove ==
  ASSUME NEW a \in Currencies, NEW q, Feasible(q), a \in DOMAIN q
  PROVE  Above(Alg!Start(a).dist, Alg!Start(a).via, a, q)
<1> DEFINE d == Alg!Start(a).dist
           f == Alg!Start(a).via
<1>1. d[a] = 0 /\ DOMAIN d = {a} /\ DOMAIN f = {} /\ Rooted(f)
  BY StartIs
<1>2. q[a] \in Int
  BY DictIs DEF Feasible
<1> HIDE DEF d, f
<1>3. Above(d, f, a, q)
  BY <1>1, <1>2 DEF Above
<1> QED
  BY <1>3 DEF d, f

LEMMA StartKnown ==
  ASSUME NEW a \in Currencies
  PROVE  /\ Alg!Start(a) \in Searches
         /\ Known(Alg!Start(a).dist, Alg!Start(a).via, a)
<1> DEFINE d == Alg!Start(a).dist
           f == Alg!Start(a).via
<1>1. Alg!Start(a) = [dist |-> d, via |-> f] /\ Known(d, f, a)
  BY StartIs
<1> HIDE DEF d, f
<1>2. [dist |-> d, via |-> f] \in Searches
  BY <1>1 DEF Known, Searches
<1> QED
  BY <1>1, <1>2 DEF d, f

\* Passes over all the edges, one after the other.
RelaxSteps(g, s, n) ==
  g \in [0 .. n -> Searches] /\ g[0] = s /\ \A k \in 1 .. n : g[k] = Alg!Pass(g[k - 1])

LEMMA PassStays ==
  ASSUME edges \in Seq(Conversions), NEW s \in Searches
  PROVE  Alg!Pass(s) \in Searches
<1>1. PICK g : PassSteps(g, s) /\ Alg!Pass(s) = g[Len(edges)]
  BY PassIs
<1>2. Len(edges) \in 0 .. Len(edges)
  OBVIOUS
<1> QED
  BY <1>1, <1>2 DEF PassSteps

LEMMA RelaxIs ==
  ASSUME edges \in Seq(Conversions), NEW s \in Searches, NEW n \in Nat
  PROVE  \E g : RelaxSteps(g, s, n) /\ Alg!Relax(s, n) = g[n]
<1> DEFINE F(g) == [k \in 0 .. n |-> IF k = 0 THEN s ELSE Alg!Pass(g[k - 1])]
           it == CHOOSE g : g = F(g)
           f == [r \in Searches |-> Alg!Pass(r)]
<1>1. Alg!Relax(s, n) = it[n]
  BY DEF Alg!Relax
<1>2. f \in [Searches -> Searches]
  BY PassStays
<1>3. PICK g \in [0 .. n -> Searches] : Orbit(g, f, s, n)
  <2> HIDE DEF f
  <2> QED
    BY <1>2, OrbitExists
<1>4. g = F(g)
  <2>1. \A k \in 0 .. n : k # 0 => k \in 1 .. n /\ g[k - 1] \in Searches
    OBVIOUS
  <2>2. \A k \in 0 .. n : g[k] = IF k = 0 THEN s ELSE Alg!Pass(g[k - 1])
    BY <1>3, <2>1 DEF Orbit
  <2> QED
    BY <2>2
<1>5. it = F(it)
  <2> HIDE DEF F
  <2> QED
    BY <1>4
<1> HIDE DEF it
<1>6. it[0] = s /\ \A k \in 1 .. n : it[k] = Alg!Pass(it[k - 1])
  BY <1>5
<1>7. \A k \in 0 .. n : it[k] \in Searches
  <2>1. it[0] \in Searches /\ \A k \in 1 .. n : it[k - 1] \in Searches => it[k] \in Searches
    BY <1>6, PassStays
  <2> QED
    BY <2>1, Carried
<1>8. it \in [0 .. n -> Searches]
  <2>1. it = [k \in 0 .. n |-> it[k]]
    BY <1>5
  <2> QED
    BY <1>7, <2>1
<1> QED
  BY <1>1, <1>6, <1>8 DEF RelaxSteps

\* What is known and the potentials last through all the passes.
LEMMA RelaxKeeps ==
  ASSUME edges \in Seq(Conversions), NEW a \in Currencies, NEW n \in Nat, NEW g,
         RelaxSteps(g, Alg!Start(a), n), NEW k \in 0 .. n
  PROVE  /\ g[k] \in Searches /\ Known(g[k].dist, g[k].via, a)
         /\ \A q : Feasible(q) /\ a \in DOMAIN q => Above(g[k].dist, g[k].via, a, q)
<1> DEFINE S == {t \in Searches : Known(t.dist, t.via, a)}
<1>1. /\ g \in [0 .. n -> Searches] /\ g[0] = Alg!Start(a)
      /\ \A i \in 1 .. n : g[i] = Alg!Pass(g[i - 1])
  BY DEF RelaxSteps
<1>2. g[0] \in S
  BY <1>1, StartKnown
<1>3. \A i \in 1 .. n : g[i - 1] \in S => g[i] \in S
  BY <1>1, PassKeeps
<1>4. \A i \in 0 .. n : g[i] \in S
  <2> HIDE DEF S
  <2> QED
    BY <1>2, <1>3, Carried
<1>5. ASSUME NEW q, Feasible(q), a \in DOMAIN q PROVE Above(g[k].dist, g[k].via, a, q)
  <2> DEFINE T == {t \in S : Above(t.dist, t.via, a, q)}
  <2>1. g[0] \in T
    BY <1>1, <1>2, <1>5, StartAbove
  <2>2. \A i \in 1 .. n : g[i - 1] \in T => g[i] \in T
    BY <1>1, <1>3, <1>5, PassKeeps
  <2>3. \A i \in 0 .. n : g[i] \in T
    <3> HIDE DEF T
    <3> QED
      BY <2>1, <2>2, Carried
  <2> QED
    BY <2>3
<1> QED
  BY <1>4, <1>5

\* A pass that changes nothing leaves distances that no edge can lower.
LEMMA StableIsFeasible ==
  ASSUME edges \in Seq(Conversions), NEW s \in Searches, NEW a, Known(s.dist, s.via, a),
         Alg!Pass(s) = s
  PROVE  Feasible(s.dist)
<1>1. \A u, v, w : Edge(u, v, w) /\ u \in DOMAIN s.dist =>
                     v \in DOMAIN s.dist /\ s.dist[v] <= s.dist[u] + w
  BY PassKeeps
<1> QED
  BY <1>1 DEF Feasible, Known

--------------------------------------------------------------------------------
(* Paths, and what they cost.                                              *)

LEMMA ImageFinite ==
  ASSUME NEW S, IsFiniteSet(S), NEW f, DOMAIN f = S
  PROVE  IsFiniteSet({f[x] : x \in S})
<1> DEFINE T == {f[x] : x \in S}
           g == [x \in S |-> f[x]]
<1>1. g \in Surjection(S, T)
  BY DEF Surjection
<1> HIDE DEF T, g
<1>2. IsFiniteSet(T)
  BY <1>1, FS_Surjection
<1> QED
  BY <1>2 DEF T

\* The weight of the best edge between two nodes.
Best(u, v) == Alg!Min(Alg!Between(u, v))

LEMMA BetweenIs ==
  ASSUME edges \in Seq(Conversions), NEW u, NEW v
  PROVE  /\ \A w : w \in Alg!Between(u, v) <=> Edge(u, v, w)
         /\ Alg!Between(u, v) \subseteq Int /\ IsFiniteSet(Alg!Between(u, v))
<1> DEFINE J == {j \in DOMAIN edges : edges[j].source = u /\ edges[j].target = v}
           f == [j \in J |-> edges[j].weight]
<1>1. Alg!Between(u, v) = {edges[i].weight : i \in J}
  BY DEF Alg!Between
<1>2. Alg!Between(u, v) = {f[i] : i \in J}
  BY <1>1
<1>3. DOMAIN edges = 1 .. Len(edges) /\ Len(edges) \in Nat
  OBVIOUS
<1>4. IsFiniteSet(J)
  <2>1. IsFiniteSet(1 .. Len(edges))
    BY <1>3, FS_Interval
  <2>2. J \in SUBSET (1 .. Len(edges))
    BY <1>3
  <2> HIDE DEF J
  <2> QED
    BY <2>1, <2>2, FS_Subset
<1>5. IsFiniteSet(Alg!Between(u, v))
  <2>1. DOMAIN f = J
    OBVIOUS
  <2> HIDE DEF J, f
  <2> QED
    BY <1>2, <1>4, <2>1, ImageFinite
<1>6. ASSUME NEW i \in DOMAIN edges
      PROVE  /\ edges[i].weight \in Int
             /\ edges[i] = [source |-> edges[i].source, target |-> edges[i].target,
                            weight |-> edges[i].weight]
  <2>1. edges[i] \in Conversions
    BY <1>3
  <2> QED
    BY <2>1 DEF Conversions
<1>7. ASSUME NEW w \in Alg!Between(u, v) PROVE Edge(u, v, w) /\ w \in Int
  <2>1. PICK i \in DOMAIN edges : edges[i].source = u /\ edges[i].target = v /\ w = edges[i].weight
    BY <1>1
  <2> QED
    BY <1>3, <1>6, <2>1 DEF Edge, Elements
<1>8. ASSUME NEW w, Edge(u, v, w) PROVE w \in Alg!Between(u, v)
  <2> DEFINE e == [source |-> u, target |-> v, weight |-> w]
  <2>1. PICK i \in DOMAIN edges : e = edges[i]
    BY <1>3, <1>8 DEF Edge, Elements
  <2>2. e.source = u /\ e.target = v /\ e.weight = w
    OBVIOUS
  <2> QED
    BY <1>1, <2>1, <2>2
<1> QED
  BY <1>5, <1>7, <1>8

Linked(u, v) == \E w : Edge(u, v, w)

LEMMA BestIs ==
  ASSUME edges \in Seq(Conversions), NEW u, NEW v, Linked(u, v)
  PROVE  /\ Best(u, v) \in Int /\ Edge(u, v, Best(u, v))
         /\ Best(u, v) \in Alg!Between(u, v)
         /\ \A w : Edge(u, v, w) => Best(u, v) <= w
<1> DEFINE B == Alg!Between(u, v)
<1>1. B # {} /\ B \subseteq Int /\ IsFiniteSet(B) /\ \A w : w \in B <=> Edge(u, v, w)
  BY BetweenIs DEF Linked
<1>2. Best(u, v) = CHOOSE x \in B : \A y \in B : x =< y
  BY DEF Best, Alg!Min
<1> HIDE DEF B
<1>3. \E x \in B : \A y \in B : x <= y
  BY <1>1, LeastOfFinite
<1>4. Best(u, v) \in B /\ \A y \in B : Best(u, v) <= y
  BY <1>2, <1>3
<1> QED
  BY <1>1, <1>4 DEF B

\* A way goes from node to node along edges; its prices are what it costs up to each node.
Way(p) ==
  /\ p \in Seq(Currencies) /\ Len(p) # 0
  /\ \A i \in 1 .. Len(p) - 1 : Linked(p[i], p[i + 1])

Prices(c, p) ==
  /\ c \in [1 .. Len(p) -> Int] /\ c[1] = 0
  /\ \A i \in 1 .. Len(p) - 1 : c[i + 1] = c[i] + Best(p[i], p[i + 1])

\* What holds at the first place, and at the next one with every place, holds along it all.
LEMMA Along ==
  ASSUME NEW n \in Nat, NEW X, 1 \in X, \A i \in 1 .. n - 1 : i \in X => i + 1 \in X
  PROVE  1 .. n \subseteq X
<1> DEFINE C == {k \in Nat : k + 1 <= n => k + 1 \in X}
<1>1. 0 \in C
  OBVIOUS
<1>2. ASSUME NEW k \in Nat, k \in C PROVE k + 1 \in C
  <2> SUFFICES ASSUME (k + 1) + 1 <= n PROVE (k + 1) + 1 \in X
    OBVIOUS
  <2>1. k + 1 \in X /\ k + 1 \in 1 .. n - 1
    BY <1>2
  <2> QED
    BY <2>1
<1>3. Nat \subseteq C
  <2> HIDE DEF C
  <2> QED
    BY <1>1, <1>2, Counting
<1>4. ASSUME NEW i \in 1 .. n PROVE i \in X
  <2>1. i - 1 \in C /\ (i - 1) + 1 = i
    BY <1>3
  <2> QED
    BY <2>1
<1> QED
  BY <1>4

LEMMA PricesExist ==
  ASSUME edges \in Seq(Conversions), NEW p, Way(p)
  PROVE  \E c : Prices(c, p)
<1> DEFINE n == Len(p) - 1
           f == [i \in 1 .. n |-> [x \in Int |-> x + Best(p[i], p[i + 1])]]
<1>1. n \in Nat
  BY DEF Way
<1>2. \A i \in 1 .. n : Best(p[i], p[i + 1]) \in Int
  BY BestIs DEF Way
<1>3. f \in [1 .. n -> [Int -> Int]]
  BY <1>2
<1>4. PICK g \in [0 .. n -> Int] : Steps(g, f, 0, n)
  <2> HIDE DEF f, n
  <2>1. 0 \in Int
    OBVIOUS
  <2> QED
    BY <1>1, <1>3, <2>1, StepsExist
<1> DEFINE c == [i \in 1 .. Len(p) |-> g[i - 1]]
<1>5. c \in [1 .. Len(p) -> Int] /\ c[1] = 0
  <2>1. \A i \in 1 .. Len(p) : i - 1 \in 0 .. n
    BY <1>1
  <2>2. 1 \in 1 .. Len(p)
    BY <1>1
  <2>3. g[0] = 0
    BY <1>4 DEF Steps
  <2> QED
    BY <2>1, <2>2, <2>3
<1>6. ASSUME NEW i \in 1 .. n PROVE c[i + 1] = c[i] + Best(p[i], p[i + 1])
  <2>1. i \in 1 .. Len(p) /\ i + 1 \in 1 .. Len(p) /\ (i + 1) - 1 = i /\ i - 1 \in 0 .. n
    BY <1>1
  <2>2. g[i] = f[i][g[i - 1]]
    BY <1>4 DEF Steps
  <2>3. g[i - 1] \in Int
    BY <2>1
  <2>4. f[i][g[i - 1]] = g[i - 1] + Best(p[i], p[i + 1])
    BY <2>3
  <2> QED
    BY <2>1, <2>2, <2>4
<1>7. Prices(c, p)
  <2> HIDE DEF c
  <2> QED
    BY <1>5, <1>6 DEF Prices
<1> QED
  BY <1>7

\* The cost of a way is the price of its last node.
LEMMA CostIs ==
  ASSUME edges \in Seq(Conversions), NEW p, Way(p), NEW c, Prices(c, p)
  PROVE  Alg!Cost(p) = c[Len(p)]
<1> DEFINE n == Len(p)
           F(g) == [i \in 1 .. n |-> IF i = 1 THEN 0
                                     ELSE g[i - 1] + Alg!Min(Alg!Between(p[i - 1], p[i]))]
           it == CHOOSE g : g = F(g)
<1>0. n \in Nat \ {0}
  BY DEF Way
<1>1. Alg!Cost(p) = it[n]
  BY DEF Alg!Cost
<1>2. c = F(c)
  <2>1. \A i \in 1 .. n : i # 1 => c[i] = c[i - 1] + Best(p[i - 1], p[i])
    <3>1. \A i \in 1 .. n : i # 1 => i - 1 \in 1 .. n - 1 /\ (i - 1) + 1 = i
      BY <1>0
    <3> QED
      BY <3>1 DEF Prices
  <2>2. \A i \in 1 .. n : c[i] = IF i = 1 THEN 0 ELSE c[i - 1] + Best(p[i - 1], p[i])
    BY <2>1 DEF Prices
  <2>3. c \in [1 .. n -> Int]
    BY DEF Prices
  <2> QED
    BY <2>2, <2>3 DEF Best
<1>3. it = F(it)
  <2> HIDE DEF F
  <2> QED
    BY <1>2
<1> DEFINE X == {i \in 1 .. n : it[i] = c[i]}
<1> HIDE DEF it
<1>4. 1 \in X
  <2>1. it[1] = 0
    BY <1>0, <1>3
  <2> QED
    BY <1>0, <2>1 DEF Prices
<1>5. ASSUME NEW i \in 1 .. n - 1, i \in X PROVE i + 1 \in X
  <2>1. i + 1 \in 1 .. n /\ i + 1 # 1 /\ (i + 1) - 1 = i
    BY <1>0
  <2>2. it[i + 1] = it[i] + Best(p[i], p[i + 1])
    BY <1>3, <2>1 DEF Best
  <2> QED
    BY <1>5, <2>1, <2>2 DEF Prices
<1>6. n \in X
  <2>1. n \in 1 .. n
    BY <1>0
  <2> HIDE DEF X, n
  <2>2. 1 .. n \subseteq X
    BY <1>0, <1>4, <1>5, Along
  <2> QED
    BY <2>1, <2>2
<1> QED
  BY <1>1, <1>6

\* No way costs less than a potential rises along it.
LEMMA PricesRise ==
  ASSUME edges \in Seq(Conversions), NEW p, Way(p), NEW c, Prices(c, p),
         NEW q, Feasible(q), p[1] \in DOMAIN q
  PROVE  /\ p[Len(p)] \in DOMAIN q
         /\ q[p[Len(p)]] <= q[p[1]] + c[Len(p)]
         /\ q[p[1]] \in Int /\ q[p[Len(p)]] \in Int /\ c[Len(p)] \in Int
<1> DEFINE n == Len(p)
           X == {i \in 1 .. n : p[i] \in DOMAIN q /\ q[p[i]] <= q[p[1]] + c[i]}
<1>0. n \in Nat \ {0}
  BY DEF Way
<1>1. \A x \in DOMAIN q : q[x] \in Int
  BY DictIs DEF Feasible
<1>2. c \in [1 .. n -> Int] /\ c[1] = 0
  BY DEF Prices
<1>3. 1 \in X
  BY <1>0, <1>1, <1>2
<1>4. ASSUME NEW i \in 1 .. n - 1, i \in X PROVE i + 1 \in X
  <2>1. i + 1 \in 1 .. n /\ c[i] \in Int
    BY <1>0, <1>2
  <2>2. c[i + 1] = c[i] + Best(p[i], p[i + 1])
    BY DEF Prices
  <2>3. Best(p[i], p[i + 1]) \in Int /\ Edge(p[i], p[i + 1], Best(p[i], p[i + 1]))
    BY BestIs DEF Way
  <2>4. p[i + 1] \in DOMAIN q /\ q[p[i + 1]] <= q[p[i]] + Best(p[i], p[i + 1])
    BY <1>4, <2>3 DEF Feasible
  <2>5. q[p[i + 1]] \in Int /\ q[p[i]] \in Int /\ q[p[1]] \in Int
    BY <1>1, <1>4, <2>4
  <2>6. q[p[i + 1]] <= q[p[1]] + c[i + 1]
    BY <1>4, <2>1, <2>2, <2>3, <2>4, <2>5
  <2> QED
    BY <2>1, <2>4, <2>6
<1>5. n \in X
  <2>1. n \in 1 .. n
    BY <1>0
  <2> HIDE DEF X, n
  <2>2. 1 .. n \subseteq X
    BY <1>0, <1>3, <1>4, Along
  <2> QED
    BY <2>1, <2>2
<1> QED
  BY <1>0, <1>1, <1>2, <1>5

LEMMA SameCardinality == \A S : Alg!Cardinality(S) = Cardinality(S)
  BY DEF Alg!Cardinality, Cardinality

LEMMA SimplePathsAre ==
  Alg!SimplePaths = {p \in UNION {[1 .. n -> Alg!Nodes] : n \in 1 .. Cardinality(Alg!Nodes)} :
                       Alg!IsPath(p)}
<1>1. Alg!Cardinality(Alg!Nodes) = Cardinality(Alg!Nodes)
  BY SameCardinality
<1> QED
  BY <1>1, Zenon DEF Alg!SimplePaths

LEMMA NodesAre ==
  ASSUME edges \in Seq(Conversions)
  PROVE  /\ Alg!Nodes \subseteq Currencies /\ IsFiniteSet(Alg!Nodes)
         /\ Cardinality(Alg!Nodes) \in Nat
         /\ Alg!Sources \subseteq Alg!Nodes
         /\ \A u, v, w : Edge(u, v, w) => u \in Alg!Sources /\ v \in Alg!Nodes
<1> DEFINE n == Len(edges)
           f == [i \in 1 .. n |-> edges[i].source]
           g == [i \in 1 .. n |-> edges[i].target]
<1>1. n \in Nat /\ DOMAIN edges = 1 .. n /\ \A i \in 1 .. n : edges[i] \in Conversions
  OBVIOUS
<1>2. /\ Alg!Sources = {f[i] : i \in 1 .. n}
      /\ Alg!Nodes = {f[i] : i \in 1 .. n} \cup {g[i] : i \in 1 .. n}
  BY <1>1 DEF Alg!Sources, Alg!Nodes
<1>3. \A i \in 1 .. n : f[i] \in Currencies /\ g[i] \in Currencies
  BY <1>1 DEF Conversions
<1>4. IsFiniteSet({f[i] : i \in 1 .. n}) /\ IsFiniteSet({g[i] : i \in 1 .. n})
  <2>1. DOMAIN f = 1 .. n /\ DOMAIN g = 1 .. n
    OBVIOUS
  <2>2. IsFiniteSet(1 .. n)
    BY <1>1, FS_Interval
  <2> HIDE DEF f, g, n
  <2> QED
    BY <2>1, <2>2, ImageFinite
<1>5. ASSUME NEW u, NEW v, NEW w, Edge(u, v, w)
      PROVE  u \in {f[i] : i \in 1 .. n} /\ v \in {g[i] : i \in 1 .. n}
  <2> DEFINE e == [source |-> u, target |-> v, weight |-> w]
  <2>1. PICK i \in 1 .. n : e = edges[i]
    BY <1>5 DEF Edge, Elements
  <2>2. e.source = u /\ e.target = v
    OBVIOUS
  <2> QED
    BY <2>1, <2>2
<1> HIDE DEF f, g, n
<1>6. IsFiniteSet(Alg!Nodes)
  BY <1>2, <1>4, FS_Union
<1>7. Cardinality(Alg!Nodes) \in Nat
  BY <1>6, FS_CardinalityType
<1> QED
  BY <1>2, <1>3, <1>5, <1>6, <1>7

\* No node twice.
Simple(p) == \A i, j \in 1 .. Len(p) : p[i] = p[j] => i = j

\* A route is a path of the model, as the sequence it is.
Route(p, a, b) ==
  Way(p) /\ p \in Seq(Alg!Nodes) /\ Simple(p) /\ p[1] = a /\ p[Len(p)] = b

\* A sequence that repeats nothing is no longer than the set it is from is large.
LEMMA SimpleIsShort ==
  ASSUME NEW S, IsFiniteSet(S), NEW p \in Seq(S), Simple(p)
  PROVE  Len(p) <= Cardinality(S)
<1> DEFINE n == Len(p)
<1>1. p \in Injection(1 .. n, S)
  BY DEF Injection, IsInjective, Simple
<1>2. n \in Nat
  OBVIOUS
<1> HIDE DEF n
<1>3. Cardinality(1 .. n) <= Cardinality(S)
  BY <1>1, FS_Injection
<1>4. Cardinality(1 .. n) = n
  BY <1>2, FS_Interval
<1> QED
  BY <1>3, <1>4 DEF n

LEMMA RoutesAreShort ==
  ASSUME edges \in Seq(Conversions), NEW p \in Seq(Alg!Nodes), Simple(p)
  PROVE  Len(p) <= Cardinality(Alg!Nodes)
  BY NodesAre, SimpleIsShort

\* The paths of the model are the routes: none is longer than there are nodes.
LEMMA PathsAre ==
  ASSUME edges \in Seq(Conversions), NEW a, NEW b, NEW p
  PROVE  p \in Alg!Paths(a, b) <=> Route(p, a, b)
<1> DEFINE N == Alg!Nodes
           k == Cardinality(N)
<1>1. \A x, y : Alg!Between(x, y) # {} <=> Linked(x, y)
  BY BetweenIs DEF Linked
<1>2. k \in Nat /\ N \subseteq Currencies
  BY NodesAre
<1>3. ASSUME p \in Alg!Paths(a, b) PROVE Route(p, a, b)
  <2>0. p \in UNION {[1 .. n -> N] : n \in 1 .. k}
    BY <1>3, SimplePathsAre, Zenon DEF Alg!Paths
  <2>1. PICK n \in 1 .. k : p \in [1 .. n -> N]
    <3> HIDE DEF k, N
    <3> QED
      BY <2>0
  <2>2. /\ Alg!IsInjective(p) /\ \A i \in 1 .. Len(p) - 1 : Alg!Between(p[i], p[i + 1]) # {}
        /\ p[1] = a /\ p[Len(p)] = b
    BY <1>3 DEF Alg!Paths, Alg!SimplePaths, Alg!IsPath
  <2> HIDE DEF k, N
  <2>3. p \in Seq(N) /\ Len(p) = n /\ p \in Seq(Currencies)
    BY <1>2, <2>1
  <2>4. Simple(p)
    BY <2>1, <2>2, <2>3 DEF Alg!IsInjective, Simple
  <2>5. Way(p)
    BY <1>1, <1>2, <2>2, <2>3 DEF Way
  <2> QED
    BY <2>2, <2>3, <2>4, <2>5 DEF Route, N
<1>4. ASSUME Route(p, a, b) PROVE p \in Alg!Paths(a, b)
  <2>1. /\ p \in Seq(N) /\ Simple(p) /\ p[1] = a /\ p[Len(p)] = b
        /\ Len(p) # 0 /\ \A i \in 1 .. Len(p) - 1 : Linked(p[i], p[i + 1])
    BY <1>4 DEF Route, Way
  <2>2. Len(p) <= k
    BY <2>1, RoutesAreShort
  <2> HIDE DEF k, N
  <2>3. Len(p) \in 1 .. k /\ p \in [1 .. Len(p) -> N]
    BY <1>2, <2>1, <2>2
  <2>4. Alg!IsInjective(p)
    BY <2>1, <2>3 DEF Alg!IsInjective, Simple
  <2>5. Alg!IsPath(p)
    BY <1>1, <2>1, <2>4 DEF Alg!IsPath
  <2>6. p \in Alg!SimplePaths
    <3>1. p \in UNION {[1 .. n -> N] : n \in 1 .. k}
      BY <2>3
    <3> QED
      BY <2>5, <3>1, SimplePathsAre, Zenon DEF k, N
  <2> QED
    BY <2>1, <2>6 DEF Alg!Paths
<1> QED
  BY <1>3, <1>4

--------------------------------------------------------------------------------
(* The walk back along the predecessors.                                   *)
\* p ends at b, and every node of it is the predecessor of the next.
Backtrack(p, via, a, b) ==
  /\ p \in Seq(DOMAIN via \cup {a}) /\ Len(p) # 0 /\ p[Len(p)] = b
  /\ \A i \in 1 .. Len(p) - 1 : p[i + 1] \in DOMAIN via /\ p[i] = via[p[i + 1]]

\* Where predecessors make no circle, a chain of them repeats nothing.
LEMMA BacktrackIsSimple ==
  ASSUME NEW via, NEW a, NEW b, Rooted(via), NEW p, Backtrack(p, via, a, b)
  PROVE  Simple(p)
<1>1. Len(p) \in Nat
  BY DEF Backtrack
<1>2. ASSUME NEW i \in 1 .. Len(p), NEW j \in 1 .. Len(p), i < j, p[i] = p[j] PROVE FALSE
  <2> DEFINE X == {p[k] : k \in i + 1 .. j}
  <2>1. \A k \in i + 1 .. j : k - 1 \in 1 .. Len(p) - 1 /\ (k - 1) + 1 = k
    BY <1>1
  <2>2. \A k \in i + 1 .. j : p[k] \in DOMAIN via /\ via[p[k]] = p[k - 1]
    BY <2>1 DEF Backtrack
  <2>3. X \in SUBSET DOMAIN via /\ p[j] \in X
    BY <1>2, <2>2
  <2>4. ASSUME NEW k \in i + 1 .. j PROVE via[p[k]] \in X
    <3>1. CASE k = i + 1
      BY <1>2, <2>2, <2>3, <3>1
    <3>2. CASE k # i + 1
      <4>1. k - 1 \in i + 1 .. j
        BY <3>2
      <4> QED
        BY <2>2, <4>1
    <3> QED
      BY <3>1, <3>2
  <2>5. \A x \in X : via[x] \in X
    BY <2>4
  <2> HIDE DEF X
  <2> QED
    BY <2>3, <2>5 DEF Rooted
<1>3. \A i, j \in 1 .. Len(p) : p[i] = p[j] /\ i # j => i < j \/ j < i
  OBVIOUS
<1> QED
  BY <1>2, <1>3 DEF Simple

\* The walk back from b arrives at a: until it does it goes on, and no node comes twice.
LEMMA WalkIs ==
  ASSUME NEW dist, NEW via, NEW a, NEW b, Known(dist, via, a), a \notin DOMAIN via, Rooted(via),
         b \in DOMAIN via, IsFiniteSet(DOMAIN via)
  PROVE  Backtrack(Alg!Walk(via, a, b), via, a, b) /\ Alg!Walk(via, a, b)[1] = a
<1> DEFINE V == DOMAIN via \cup {a}
           S == Seq(V) \ {<<>>}
           back == [p \in S |-> IF p[1] = a THEN p ELSE <<via[p[1]]>> \o p]
           n == Cardinality(DOMAIN via)
           it == Iterate(back, <<b>>, n)
           P == {p \in S : Backtrack(p, via, a, b)}
           T(k) == {p \in P : p[1] = a \/ Len(p) = k + 1}
<1>0. n \in Nat
  BY FS_CardinalityType
<1>1. Alg!Walk(via, a, b) = it[n]
  <2>1. \A f, x, k : Alg!Iterate(f, x, k) = Iterate(f, x, k)
    BY Zenon DEF Alg!Iterate, Iterate
  <2>2. Alg!Cardinality(DOMAIN via) = n
    BY SameCardinality
  <2>3. Alg!Walk(via, a, b) = Alg!Iterate(back, <<b>>, n)[n]
    BY <2>2, Zenon DEF Alg!Walk
  <2> HIDE DEF back, n
  <2> QED
    BY <2>1, <2>3
<1>2. \A x \in DOMAIN via : via[x] \in V
  BY DEF Known
<1>3. ASSUME NEW p \in S
      PROVE  Len(p) \in Nat \ {0} /\ p[1] \in V /\ (p[1] # a => p[1] \in DOMAIN via)
  OBVIOUS
<1>4. ASSUME NEW p \in S, p[1] # a
      PROVE  /\ <<via[p[1]]>> \o p \in S
             /\ Len(<<via[p[1]]>> \o p) = Len(p) + 1
             /\ (<<via[p[1]]>> \o p)[1] = via[p[1]]
             /\ \A i \in 1 .. Len(p) : (<<via[p[1]]>> \o p)[i + 1] = p[i]
  <2> DEFINE x == via[p[1]]
  <2>1. x \in V /\ p \in Seq(V)
    BY <1>2, <1>3, <1>4
  <2> HIDE DEF x, V
  <2>2. <<x>> \o p \in Seq(V) /\ Len(<<x>> \o p) = Len(p) + 1
    BY <2>1
  <2>3. (<<x>> \o p)[1] = x /\ \A i \in 1 .. Len(p) : (<<x>> \o p)[i + 1] = p[i]
    BY <2>1
  <2>4. <<x>> \o p # <<>>
    BY <1>3, <2>1, <2>2
  <2> QED
    BY <2>2, <2>3, <2>4 DEF x
<1>5. back \in [S -> S]
  <2>1. \A p \in S : (IF p[1] = a THEN p ELSE <<via[p[1]]>> \o p) \in S
    BY <1>4
  <2> HIDE DEF S
  <2> QED
    BY <2>1
<1>6. <<b>> \in S
  <2>1. b \in V
    OBVIOUS
  <2> HIDE DEF V
  <2> QED
    BY <2>1
<1>7. it \in [0 .. n -> S] /\ Orbit(it, back, <<b>>, n)
  <2> HIDE DEF S, back, n
  <2> QED
    BY <1>0, <1>5, <1>6, IterateOrbit
<1>8. ASSUME NEW k \in 1 .. n, it[k - 1] \in T(k - 1) PROVE it[k] \in T(k)
  <2> DEFINE p == it[k - 1]
             more == <<via[p[1]]>> \o p
  <2>1. p \in S /\ Backtrack(p, via, a, b) /\ it[k] = back[p]
    BY <1>7, <1>8 DEF Orbit
  <2>2. CASE p[1] = a
    <3>1. it[k] = p
      BY <2>1, <2>2
    <3> QED
      BY <2>1, <2>2, <3>1
  <2>3. CASE p[1] # a
    <3> HIDE DEF p
    <3>1. it[k] = more /\ Len(p) = (k - 1) + 1
      BY <1>8, <2>1, <2>3 DEF p
    <3>2. /\ more \in S /\ Len(more) = Len(p) + 1 /\ more[1] = via[p[1]]
          /\ \A i \in 1 .. Len(p) : more[i + 1] = p[i]
      BY <1>4, <2>1, <2>3
    <3> HIDE DEF more
    <3>3. Len(p) \in Nat \ {0} /\ p[1] \in DOMAIN via
      BY <1>3, <2>1, <2>3
    <3>4. more[Len(more)] = b /\ Len(more) # 0
      <4>1. Len(p) \in 1 .. Len(p) /\ p[Len(p)] = b
        BY <2>1, <3>3 DEF Backtrack
      <4> QED
        BY <3>2, <3>3, <4>1
    <3>5. ASSUME NEW i \in 1 .. Len(more) - 1
          PROVE  more[i + 1] \in DOMAIN via /\ more[i] = via[more[i + 1]]
      <4>1. i \in 1 .. Len(p) /\ more[i + 1] = p[i]
        BY <3>2, <3>3
      <4>2. CASE i = 1
        BY <3>2, <3>3, <4>1, <4>2
      <4>3. CASE i # 1
        <5>1. i - 1 \in 1 .. Len(p) - 1 /\ i - 1 \in 1 .. Len(p) /\ (i - 1) + 1 = i
          BY <3>3, <4>1, <4>3
        <5>2. p[i] \in DOMAIN via /\ p[i - 1] = via[p[i]] /\ more[i] = p[i - 1]
          BY <2>1, <3>2, <5>1 DEF Backtrack
        <5> QED
          BY <4>1, <5>2
      <4> QED
        BY <4>2, <4>3
    <3>6. more \in Seq(V)
      BY <3>2
    <3>7. Backtrack(more, via, a, b)
      BY <3>4, <3>5, <3>6 DEF Backtrack
    <3>8. Len(more) = k + 1
      BY <3>1, <3>2
    <3> QED
      BY <3>1, <3>2, <3>7, <3>8
  <2> QED
    BY <2>2, <2>3
<1>9. it[0] \in T(0)
  <2>1. it[0] = <<b>>
    BY <1>7 DEF Orbit
  <2>2. Backtrack(<<b>>, via, a, b)
    BY DEF Backtrack
  <2>3. Len(<<b>>) = 0 + 1
    OBVIOUS
  <2> QED
    BY <1>6, <2>1, <2>2, <2>3
<1>10. it[n] \in T(n)
  <2> DEFINE C == {k \in Nat : k <= n => it[k] \in T(k)}
  <2> HIDE DEF it, T, n
  <2>1. 0 \in C
    BY <1>9
  <2>2. ASSUME NEW k \in Nat, k \in C PROVE k + 1 \in C
    <3> SUFFICES ASSUME k + 1 <= n PROVE it[k + 1] \in T(k + 1)
      OBVIOUS
    <3>1. k + 1 \in 1 .. n /\ (k + 1) - 1 = k /\ it[k] \in T(k)
      BY <1>0, <2>2
    <3> QED
      BY <1>8, <3>1
  <2>3. n \in C
    <3> HIDE DEF C
    <3> QED
      BY <1>0, <2>1, <2>2, Counting
  <2> QED
    BY <1>0, <2>3
<1>11. it[n][1] = a
  <2> SUFFICES ASSUME it[n][1] # a PROVE FALSE
    OBVIOUS
  <2> DEFINE p == it[n]
  <2>1. p \in S /\ Backtrack(p, via, a, b) /\ Len(p) = n + 1 /\ p[1] \in DOMAIN via
    BY <1>3, <1>10
  <2> HIDE DEF p, n
  <2>2. Simple(p)
    BY <2>1, BacktrackIsSimple
  <2>3. \A i \in 1 .. Len(p) : p[i] \in DOMAIN via
    <3>1. \A i \in 1 .. Len(p) : i = 1 \/ (i - 1 \in 1 .. Len(p) - 1 /\ (i - 1) + 1 = i)
      BY <1>0, <2>1
    <3> QED
      BY <2>1, <3>1 DEF Backtrack
  <2>4. p \in Seq(DOMAIN via)
    <3>1. p \in Seq(V)
      BY <2>1
    <3> HIDE DEF V
    <3>2. p \in [1 .. Len(p) -> DOMAIN via] /\ Len(p) \in Nat
      BY <2>3, <3>1
    <3> QED
      BY <3>2
  <2>5. Len(p) <= n
    BY <2>2, <2>4, SimpleIsShort DEF n
  <2> QED
    BY <1>0, <2>1, <2>5
<1> QED
  BY <1>1, <1>10, <1>11

\* The walk is a route, and costs no more than the distance says.
LEMMA BacktrackCosts ==
  ASSUME edges \in Seq(Conversions),
         NEW dist, NEW via, NEW a, NEW b, Known(dist, via, a), a \notin DOMAIN via,
         dist[a] = 0, b \in DOMAIN via, NEW p, Backtrack(p, via, a, b), p[1] = a
  PROVE  /\ Way(p) /\ p \in Seq(Alg!Nodes)
         /\ \A c : Prices(c, p) => c[Len(p)] <= dist[b]
<1> DEFINE n == Len(p)
<1>1. /\ p \in Seq(DOMAIN via \cup {a}) /\ n \in Nat /\ n # 0 /\ p[n] = b
      /\ \A i \in 1 .. n - 1 : p[i + 1] \in DOMAIN via /\ p[i] = via[p[i + 1]]
  BY DEF Backtrack
<1>2. n > 1
  BY <1>1
<1>3. ASSUME NEW i \in 1 .. n - 1
      PROVE  \E w \in Int : Edge(p[i], p[i + 1], w) /\ dist[p[i]] + w <= dist[p[i + 1]]
  BY <1>1 DEF Known
<1>4. ASSUME NEW i \in 1 .. n PROVE p[i] \in Alg!Nodes
  <2>1. \A u, v, w : Edge(u, v, w) => u \in Alg!Nodes /\ v \in Alg!Nodes
    BY NodesAre
  <2>2. CASE i \in 1 .. n - 1
    BY <1>3, <2>1, <2>2
  <2>3. CASE i = n
    <3>1. n - 1 \in 1 .. n - 1 /\ (n - 1) + 1 = n
      BY <1>1, <1>2
    <3> QED
      BY <1>3, <2>1, <2>3, <3>1
  <2> QED
    BY <1>1, <2>2, <2>3
<1>5. p \in Seq(Alg!Nodes)
  <2>1. p \in [1 .. n -> Alg!Nodes]
    BY <1>1, <1>4
  <2> QED
    BY <1>1, <2>1
<1>6. p \in Seq(Currencies)
  <2>1. Alg!Nodes \subseteq Currencies
    BY NodesAre
  <2> QED
    BY <1>5, <2>1
<1>7. Way(p)
  BY <1>1, <1>3, <1>6 DEF Way, Linked
<1>8. ASSUME NEW c, Prices(c, p) PROVE c[n] <= dist[b]
  <2> DEFINE X == {i \in 1 .. n : c[i] <= dist[p[i]]}
  <2>1. c \in [1 .. n -> Int] /\ c[1] = 0
    BY <1>8 DEF Prices
  <2>2. \A i \in 1 .. n : p[i] \in DOMAIN dist /\ dist[p[i]] \in Int
    <3>1. \A x \in DOMAIN dist : dist[x] \in Int
      BY DictIs DEF Known
    <3>2. \A i \in 1 .. n : p[i] \in DOMAIN via \cup {a}
      BY <1>1
    <3> QED
      BY <3>1, <3>2 DEF Known
  <2>3. 1 \in X
    BY <1>1, <2>1
  <2>4. ASSUME NEW i \in 1 .. n - 1, i \in X PROVE i + 1 \in X
    <3>1. PICK w \in Int : Edge(p[i], p[i + 1], w) /\ dist[p[i]] + w <= dist[p[i + 1]]
      BY <1>3
    <3>2. Best(p[i], p[i + 1]) <= w /\ Best(p[i], p[i + 1]) \in Int
      BY <3>1, BestIs DEF Linked
    <3>3. c[i + 1] = c[i] + Best(p[i], p[i + 1])
      BY <1>8 DEF Prices
    <3>4. i \in 1 .. n /\ i + 1 \in 1 .. n
      BY <1>1
    <3>5. c[i] \in Int /\ dist[p[i]] \in Int /\ dist[p[i + 1]] \in Int /\ c[i] <= dist[p[i]]
      BY <2>1, <2>2, <2>4, <3>4
    <3>6. c[i + 1] <= dist[p[i + 1]]
      BY <3>1, <3>2, <3>3, <3>5
    <3> QED
      BY <3>4, <3>6
  <2>5. n \in X
    <3>1. n \in 1 .. n
      BY <1>1
    <3> HIDE DEF X, n
    <3>2. 1 .. n \subseteq X
      BY <1>1, <2>3, <2>4, Along
    <3> QED
      BY <3>1, <3>2
  <2> QED
    BY <1>1, <2>5
<1> QED
  BY <1>5, <1>7, <1>8

\* A search answers right when a potential vouches for its distance: that is a lower
\* bound of every path then, and an upper bound of the walk.
LEMMA AnswerIsCheapest ==
  ASSUME edges \in Seq(Conversions), NEW s \in Searches, NEW a \in Currencies, NEW b \in Currencies,
         Known(s.dist, s.via, a), a \notin DOMAIN s.via, s.dist[a] = 0, Rooted(s.via),
         NEW q, Feasible(q), a \in DOMAIN q, q[a] = 0,
         b \in DOMAIN s.via => b \in DOMAIN q /\ q[b] = s.dist[b],
         b \notin DOMAIN s.via /\ b # a => b \notin DOMAIN q
  PROVE  Alg!IsCheapest(Alg!Answer(s, a, b), a, b)
<1> DEFINE dist == s.dist
           via == s.via
           r == Alg!Answer(s, a, b)
<1>1. ASSUME NEW p \in Alg!Paths(a, b)
      PROVE  b \in DOMAIN q /\ q[b] <= Alg!Cost(p) /\ Alg!Cost(p) \in Int
  <2>1. Way(p) /\ p[1] = a /\ p[Len(p)] = b
    BY PathsAre DEF Route
  <2>2. PICK c : Prices(c, p)
    BY <2>1, PricesExist
  <2>3. Alg!Cost(p) = c[Len(p)]
    BY <2>1, <2>2, CostIs
  <2>4. b \in DOMAIN q /\ q[b] <= q[a] + c[Len(p)] /\ q[b] \in Int /\ c[Len(p)] \in Int
    BY <2>1, <2>2, PricesRise
  <2> QED
    BY <2>3, <2>4
<1>2. CASE b \in DOMAIN via
  <2> DEFINE p == Alg!Walk(via, a, b)
  <2>1. r = [kind |-> "path", weight |-> dist[b], path |-> p]
    BY <1>2 DEF Alg!Answer
  <2>2. IsFiniteSet(DOMAIN via)
    <3>1. \A v \in DOMAIN via : v \in Alg!Nodes
      BY NodesAre DEF Known
    <3>2. DOMAIN via \in SUBSET Alg!Nodes /\ IsFiniteSet(Alg!Nodes)
      BY <3>1, NodesAre
    <3> HIDE DEF via
    <3> QED
      BY <3>2, FS_Subset
  <2>3. Backtrack(p, via, a, b) /\ p[1] = a
    BY <1>2, <2>2, WalkIs
  <2>4. Simple(p)
    BY <2>3, BacktrackIsSimple
  <2>5. /\ Way(p) /\ p \in Seq(Alg!Nodes)
        /\ \A c : Prices(c, p) => c[Len(p)] <= dist[b]
    BY <1>2, <2>3, BacktrackCosts
  <2>6. Route(p, a, b)
    BY <2>3, <2>4, <2>5 DEF Route, Backtrack
  <2>7. p \in Alg!Paths(a, b)
    BY <2>6, PathsAre
  <2>8. Alg!Cost(p) <= dist[b]
    <3>1. PICK c : Prices(c, p)
      BY <2>5, PricesExist
    <3> QED
      BY <2>5, <3>1, CostIs
  <2>9. q[b] = dist[b] /\ dist[b] \in Int
    <3>1. \A x \in DOMAIN q : q[x] \in Int
      BY DictIs DEF Feasible
    <3> QED
      BY <1>2, <3>1
  <2>10. /\ dist[b] = Alg!Cost(p)
         /\ \A o \in Alg!Paths(a, b) : dist[b] <= Alg!Cost(o)
    BY <1>1, <2>7, <2>8, <2>9
  <2>11. r.kind = "path" /\ r.weight = dist[b] /\ r.path = p
    BY <2>1
  <2>12. a # b
    BY <1>2
  <2> HIDE DEF r, p, dist, via
  <2>13. Alg!IsCheapest(r, a, b)
    BY <2>7, <2>10, <2>11, <2>12 DEF Alg!IsCheapest
  <2> QED
    BY <2>13 DEF r
<1>3. CASE b \notin DOMAIN via
  <2>1. r = [kind |-> "infinite"]
    BY <1>3 DEF Alg!Answer
  <2>2. a = b \/ Alg!Paths(a, b) = {}
    BY <1>1, <1>3
  <2>3. Alg!IsCheapest([kind |-> "infinite"], a, b)
    BY <2>2 DEF Alg!IsCheapest
  <2> QED
    BY <2>1, <2>3
<1> QED
  BY <1>2, <1>3

--------------------------------------------------------------------------------
(* Loops of negative weight.                                               *)

LEMMA CostExists ==
  ASSUME edges \in Seq(Conversions), NEW p, Way(p)
  PROVE  \E c : Prices(c, p) /\ Alg!Cost(p) = c[Len(p)] /\ Alg!Cost(p) \in Int
<1>1. PICK c : Prices(c, p)
  BY PricesExist
<1>2. Alg!Cost(p) = c[Len(p)]
  BY <1>1, CostIs
<1>3. c[Len(p)] \in Int
  <2>1. Len(p) \in 1 .. Len(p)
    BY DEF Way
  <2> QED
    BY <1>1, <2>1 DEF Prices
<1> QED
  BY <1>1, <1>2, <1>3

LEMMA SimplePathIs ==
  ASSUME edges \in Seq(Conversions), NEW p
  PROVE  p \in Alg!SimplePaths <=> Route(p, p[1], p[Len(p)])
<1>1. p \in Alg!SimplePaths <=> p \in Alg!Paths(p[1], p[Len(p)])
  BY DEF Alg!Paths
<1> QED
  BY <1>1, PathsAre

\* Stable distances are a potential, and a potential comes back to where it started.
LEMMA StableHasNoLoop ==
  ASSUME edges \in Seq(Conversions), NEW q, Feasible(q), NEW a \in DOMAIN q
  PROVE  ~Alg!LoopReachable(a)
<1> SUFFICES ASSUME Alg!LoopReachable(a) PROVE FALSE
  OBVIOUS
<1>1. PICK p \in Alg!SimplePaths : /\ Alg!Paths(a, p[1]) # {}
                                   /\ Alg!Between(p[Len(p)], p[1]) # {}
                                   /\ Alg!Cost(p) + Best(p[Len(p)], p[1]) < 0
  BY DEF Alg!LoopReachable, Best
<1>2. PICK o : o \in Alg!Paths(a, p[1])
  BY <1>1
<1> DEFINE u == p[Len(p)]
           v == p[1]
<1>3. Way(p) /\ Way(o) /\ o[1] = a /\ o[Len(o)] = v
  BY <1>2, SimplePathIs, PathsAre DEF Route
<1>4. v \in DOMAIN q
  <2>1. PICK c : Prices(c, o)
    BY <1>3, PricesExist
  <2> QED
    BY <1>3, <2>1, PricesRise
<1>5. u \in DOMAIN q /\ q[u] <= q[v] + Alg!Cost(p) /\ q[u] \in Int /\ q[v] \in Int /\ Alg!Cost(p) \in Int
  <2>1. PICK c : Prices(c, p) /\ Alg!Cost(p) = c[Len(p)]
    BY <1>3, CostExists
  <2> QED
    BY <1>3, <1>4, <2>1, PricesRise
<1>6. Linked(u, v)
  BY <1>1, BetweenIs DEF Linked
<1>7. Edge(u, v, Best(u, v)) /\ Best(u, v) \in Int
  BY <1>6, BestIs
<1>8. q[v] <= q[u] + Best(u, v)
  BY <1>5, <1>7 DEF Feasible
<1>9. Alg!Cost(p) + Best(u, v) < 0
  BY <1>1
<1> HIDE DEF u, v
<1> QED
  BY <1>5, <1>7, <1>8, <1>9

\* The route of one node, and a route with one node more.
LEMMA RouteAlone ==
  ASSUME edges \in Seq(Conversions), NEW a \in Alg!Nodes
  PROVE  Route(<<a>>, a, a) /\ Alg!Cost(<<a>>) = 0
<1>1. a \in Currencies
  BY NodesAre
<1> DEFINE c == [i \in 1 .. 1 |-> 0]
<1>2. Len(<<a>>) = 1 /\ <<a>>[1] = a /\ <<a>> \in Seq(Currencies) /\ <<a>> \in Seq(Alg!Nodes)
  BY <1>1
<1>3. Way(<<a>>) /\ Simple(<<a>>)
  BY <1>2 DEF Way, Simple
<1>4. Prices(c, <<a>>) /\ c[Len(<<a>>)] = 0
  BY <1>2 DEF Prices
<1>5. Alg!Cost(<<a>>) = c[Len(<<a>>)]
  <2> DEFINE p == <<a>>
  <2>1. Way(p) /\ Prices(c, p)
    BY <1>3, <1>4
  <2> HIDE DEF c, p
  <2>2. Alg!Cost(p) = c[Len(p)]
    BY <2>1, CostIs
  <2> QED
    BY <2>2 DEF p
<1> QED
  BY <1>2, <1>3, <1>4, <1>5 DEF Route

LEMMA RouteAppend ==
  ASSUME edges \in Seq(Conversions), NEW a, NEW u, NEW v, NEW w, NEW p, Route(p, a, u),
         Edge(u, v, w), \A i \in 1 .. Len(p) : p[i] # v
  PROVE  Route(Append(p, v), a, v) /\ Alg!Cost(Append(p, v)) <= Alg!Cost(p) + w
<1> DEFINE n == Len(p)
           o == Append(p, v)
<1>1. /\ Way(p) /\ p \in Seq(Alg!Nodes) /\ Simple(p) /\ p[1] = a /\ p[n] = u
      /\ p \in Seq(Currencies) /\ n \in Nat \ {0}
      /\ \A i \in 1 .. n - 1 : Linked(p[i], p[i + 1])
  BY DEF Route, Way
<1>2. v \in Currencies /\ v \in Alg!Nodes /\ w \in Int
  BY EdgeHas, NodesAre
<1>3. /\ o \in Seq(Currencies) /\ o \in Seq(Alg!Nodes) /\ Len(o) = n + 1
      /\ o[n + 1] = v /\ \A i \in 1 .. n : o[i] = p[i]
  BY <1>1, <1>2
<1> HIDE DEF o
<1>4. Simple(o)
  <2>1. \A i \in 1 .. Len(o) : i \in 1 .. n \/ i = n + 1
    BY <1>1, <1>3
  <2> QED
    BY <1>1, <1>3, <2>1 DEF Simple
<1>5. Linked(u, v)
  BY DEF Linked
<1>6. Way(o)
  <2>1. ASSUME NEW i \in 1 .. Len(o) - 1 PROVE Linked(o[i], o[i + 1])
    <3>1. CASE i = n
      BY <1>1, <1>3, <1>5, <3>1
    <3>2. CASE i # n
      <4>1. i \in 1 .. n - 1 /\ i \in 1 .. n /\ i + 1 \in 1 .. n
        BY <1>1, <1>3, <3>2
      <4> QED
        BY <1>1, <1>3, <4>1
    <3> QED
      BY <3>1, <3>2
  <2> QED
    BY <1>1, <1>3, <2>1 DEF Way
<1>7. PICK c : Prices(c, p) /\ Alg!Cost(p) = c[n] /\ Alg!Cost(p) \in Int
  BY <1>1, CostExists
<1>8. Best(u, v) \in Int /\ Best(u, v) <= w
  BY <1>5, BestIs
<1> DEFINE d == [i \in 1 .. n + 1 |-> IF i = n + 1 THEN c[n] + Best(u, v) ELSE c[i]]
<1>9. d \in [1 .. Len(o) -> Int]
  <2>1. \A i \in 1 .. n + 1 : i # n + 1 => i \in 1 .. n
    BY <1>1
  <2>2. c \in [1 .. n -> Int]
    BY <1>7 DEF Prices
  <2> QED
    BY <1>3, <1>7, <1>8, <2>1, <2>2
<1>10. d[1] = 0 /\ d[Len(o)] = c[n] + Best(u, v)
  BY <1>1, <1>3, <1>7 DEF Prices
<1>11. ASSUME NEW i \in 1 .. Len(o) - 1 PROVE d[i + 1] = d[i] + Best(o[i], o[i + 1])
  <2>1. CASE i = n
    <3>1. d[i + 1] = c[n] + Best(u, v) /\ d[i] = c[n]
      BY <1>1, <2>1
    <3> QED
      BY <1>1, <1>3, <2>1, <3>1
  <2>2. CASE i # n
    <3>1. i \in 1 .. n - 1 /\ i \in 1 .. n /\ i + 1 \in 1 .. n
      BY <1>1, <1>3, <2>2
    <3>2. d[i + 1] = c[i + 1] /\ d[i] = c[i]
      BY <1>1, <3>1
    <3>3. o[i] = p[i] /\ o[i + 1] = p[i + 1]
      BY <1>3, <3>1
    <3>4. c[i + 1] = c[i] + Best(p[i], p[i + 1])
      BY <1>7, <3>1 DEF Prices
    <3> QED
      BY <3>2, <3>3, <3>4
  <2> QED
    BY <2>1, <2>2
<1> HIDE DEF d
<1>12. Alg!Cost(o) = c[n] + Best(u, v)
  <2>1. Prices(d, o)
    BY <1>9, <1>10, <1>11 DEF Prices
  <2> QED
    BY <1>6, <1>10, <2>1, CostIs
<1>13. Alg!Cost(o) <= Alg!Cost(p) + w
  BY <1>2, <1>7, <1>8, <1>12
<1>14. Route(o, a, v)
  BY <1>1, <1>3, <1>4, <1>6 DEF Route
<1> QED
  BY <1>13, <1>14 DEF o

\* A piece of a route is a route, and costs the difference.
LEMMA RoutePiece ==
  ASSUME edges \in Seq(Conversions), NEW a, NEW b, NEW p, Route(p, a, b),
         NEW c, Prices(c, p), NEW i \in 1 .. Len(p), NEW j \in 1 .. Len(p), i <= j
  PROVE  LET o == [k \in 1 .. j - i + 1 |-> p[i + k - 1]]
         IN  Route(o, p[i], p[j]) /\ Alg!Cost(o) = c[j] - c[i] /\ c[i] \in Int /\ c[j] \in Int
<1> DEFINE n == Len(p)
           m == j - i + 1
           o == [k \in 1 .. m |-> p[i + k - 1]]
           d == [k \in 1 .. m |-> c[i + k - 1] - c[i]]
<1>1. /\ Way(p) /\ p \in Seq(Alg!Nodes) /\ Simple(p)
      /\ p \in Seq(Currencies) /\ n \in Nat \ {0}
      /\ \A k \in 1 .. n - 1 : Linked(p[k], p[k + 1])
  BY DEF Route, Way
<1>2. m \in Nat \ {0} /\ \A k \in 1 .. m : i + k - 1 \in 1 .. n
  BY <1>1
<1>3. \A k \in 1 .. n : p[k] \in Currencies /\ p[k] \in Alg!Nodes
  BY <1>1
<1>4. o \in Seq(Currencies) /\ o \in Seq(Alg!Nodes) /\ Len(o) = m
  <2> HIDE DEF m
  <2>0. ASSUME NEW k \in 1 .. m PROVE p[i + k - 1] \in Currencies /\ p[i + k - 1] \in Alg!Nodes
    BY <1>2, <1>3
  <2>1. o \in [1 .. m -> Currencies] /\ o \in [1 .. m -> Alg!Nodes]
    BY <2>0
  <2> HIDE DEF o
  <2> QED
    BY <1>2, <2>1
<1>5. \A k \in 1 .. m : o[k] = p[i + k - 1] /\ d[k] = c[i + k - 1] - c[i]
  OBVIOUS
<1>6. c \in [1 .. n -> Int] /\ \A k \in 1 .. n - 1 : c[k + 1] = c[k] + Best(p[k], p[k + 1])
  BY DEF Prices
<1>7. 1 \in 1 .. m /\ m \in 1 .. m /\ i + 1 - 1 = i /\ i + m - 1 = j
  BY <1>1
<1>8. d \in [1 .. m -> Int]
  <2> HIDE DEF m
  <2>1. ASSUME NEW k \in 1 .. m PROVE c[i + k - 1] - c[i] \in Int
    <3>1. i + k - 1 \in 1 .. n
      BY <1>2
    <3>2. c[i + k - 1] \in Int /\ c[i] \in Int
      BY <1>6, <3>1
    <3> QED
      BY <3>2
  <2> QED
    BY <2>1
<1>9. \A k \in 1 .. m - 1 : /\ k \in 1 .. m /\ k + 1 \in 1 .. m /\ i + k - 1 \in 1 .. n - 1
                            /\ i + (k + 1) - 1 = (i + k - 1) + 1
  BY <1>1
<1> HIDE DEF o, d, m
<1>10. Simple(o)
  <2>1. ASSUME NEW k \in 1 .. m, NEW l \in 1 .. m, o[k] = o[l] PROVE k = l
    <3>1. i + k - 1 \in 1 .. n /\ i + l - 1 \in 1 .. n /\ p[i + k - 1] = p[i + l - 1]
      BY <1>2, <1>5, <2>1
    <3>2. i + k - 1 = i + l - 1
      BY <1>1, <3>1 DEF Simple
    <3> QED
      BY <1>2, <3>2
  <2> QED
    BY <1>4, <2>1 DEF Simple
<1>11. Way(o)
  <2>1. \A k \in 1 .. m - 1 : Linked(o[k], o[k + 1])
    BY <1>1, <1>5, <1>9
  <2> QED
    BY <1>2, <1>4, <2>1 DEF Way
<1>12. Prices(d, o)
  <2>1. ASSUME NEW k \in 1 .. m - 1 PROVE d[k + 1] = d[k] + Best(o[k], o[k + 1])
    <3> DEFINE l == i + k - 1
    <3>1. l \in 1 .. n - 1 /\ k \in 1 .. m /\ k + 1 \in 1 .. m /\ i + (k + 1) - 1 = l + 1
      BY <1>9
    <3>2. d[k] = c[l] - c[i] /\ d[k + 1] = c[l + 1] - c[i] /\ o[k] = p[l] /\ o[k + 1] = p[l + 1]
      BY <1>5, <3>1
    <3> HIDE DEF l
    <3>3. c[l + 1] = c[l] + Best(p[l], p[l + 1])
      BY <1>6, <3>1
    <3>4. Best(p[l], p[l + 1]) \in Int
      BY <1>1, <3>1, BestIs
    <3>5. c[l] \in Int /\ c[i] \in Int
      <4>1. l \in 1 .. n
        BY <1>1, <3>1
      <4> QED
        BY <1>6, <4>1
    <3> QED
      BY <3>2, <3>3, <3>4, <3>5
  <2>2. d[1] = 0
    <3>1. d[1] = c[i] - c[i] /\ c[i] \in Int
      BY <1>5, <1>6, <1>7
    <3> QED
      BY <3>1
  <2> QED
    BY <1>4, <1>8, <2>1, <2>2 DEF Prices
<1>13. Alg!Cost(o) = c[j] - c[i]
  BY <1>4, <1>5, <1>7, <1>11, <1>12, CostIs
<1>14. Route(o, p[i], p[j])
  BY <1>4, <1>5, <1>7, <1>10, <1>11 DEF Route
<1> QED
  BY <1>6, <1>13, <1>14 DEF o, m

\* Without a negative loop a route goes on along any edge, at no more than its weight: if
\* the edge comes back to a node of the route, the way round is left out.
LEMMA RouteExtends ==
  ASSUME edges \in Seq(Conversions), NEW a, ~Alg!LoopReachable(a),
         NEW u, NEW v, NEW w, NEW p, Route(p, a, u), Edge(u, v, w)
  PROVE  \E o : Route(o, a, v) /\ Alg!Cost(o) <= Alg!Cost(p) + w
<1> DEFINE n == Len(p)
<1>1. CASE \A i \in 1 .. n : p[i] # v
  BY <1>1, RouteAppend
<1>2. CASE \E i \in 1 .. n : p[i] = v
  <2>1. PICK i \in 1 .. n : p[i] = v
    BY <1>2
  <2>2. Way(p) /\ n \in Nat \ {0} /\ p[1] = a /\ p[n] = u
    BY DEF Route, Way
  <2>3. PICK c : Prices(c, p) /\ Alg!Cost(p) = c[n] /\ Alg!Cost(p) \in Int
    BY <2>2, CostExists
  <2>4. 1 \in 1 .. n /\ n \in 1 .. n /\ 1 <= i /\ i <= n
    BY <2>2
  <2>5. PICK o : Route(o, a, v) /\ Alg!Cost(o) = c[i] - c[1]
    BY <2>1, <2>2, <2>3, <2>4, RoutePiece
  <2>6. PICK r : Route(r, v, u) /\ Alg!Cost(r) = c[n] - c[i] /\ c[i] \in Int /\ c[n] \in Int
    BY <2>1, <2>2, <2>3, <2>4, RoutePiece
  <2>7. Linked(u, v)
    BY DEF Linked
  <2>8. Best(u, v) \in Int /\ Best(u, v) <= w /\ Alg!Between(u, v) # {}
    BY <2>7, BestIs
  <2>9. r[1] = v /\ r[Len(r)] = u
    BY <2>6 DEF Route
  <2>10. r \in Alg!SimplePaths
    BY <2>6, <2>9, SimplePathIs
  <2>11. Alg!Paths(a, v) # {}
    BY <2>5, PathsAre
  <2>12. ~(Alg!Cost(r) + Best(u, v) < 0)
    BY <2>8, <2>9, <2>10, <2>11 DEF Alg!LoopReachable, Best
  <2>13. c[1] = 0
    BY <2>3 DEF Prices
  <2>14. w \in Int
    BY EdgeHas
  <2>15. Alg!Cost(o) <= Alg!Cost(p) + w
    BY <2>3, <2>5, <2>6, <2>8, <2>12, <2>13, <2>14
  <2> QED
    BY <2>5, <2>15
<1> QED
  BY <1>1, <1>2

\* Every distance is at least what some path costs.
Covered(dist, a) ==
  \A v \in DOMAIN dist : \E p : Route(p, a, v) /\ Alg!Cost(p) \in Int /\ Alg!Cost(p) <= dist[v]

\* Relaxing keeps the distances covered, for the path of the source goes on along the edge.
LEMMA EdgeCovers ==
  ASSUME edges \in Seq(Conversions), NEW s \in Searches, NEW a, ~Alg!LoopReachable(a),
         Covered(s.dist, a), NEW e \in Elements(edges)
  PROVE  Covered(Alg!RelaxEdge(s, e).dist, a)
<1> DEFINE r == Alg!RelaxEdge(s, e)
           dist == s.dist
           more == r.dist
           u == e.source
           v == e.target
           w == e.weight
<1>1. e \in Conversions /\ w \in Int
  BY ElementsAre
<1>2. r = s \/ Improves(dist, s.via, u, v, w, more, r.via)
  BY <1>1, RelaxEdgeIs
<1>3. CASE r = s
  BY <1>3
<1>4. CASE Improves(dist, s.via, u, v, w, more, r.via)
  <2>0. \A x \in DOMAIN dist : dist[x] \in Int
    BY SearchIs
  <2> HIDE DEF r, dist, more, u, v, w
  <2>1. /\ Edge(u, v, w) /\ u \in DOMAIN dist
        /\ DOMAIN more = DOMAIN dist \cup {v} /\ more[v] = dist[u] + w
    BY <1>4 DEF Improves, Reached
  <2>2. \A x \in DOMAIN dist : x # v => more[x] = dist[x]
    BY <1>4 DEF Improves, Reached
  <2>3. Covered(dist, a)
    BY DEF dist
  <2>4. PICK p : Route(p, a, u) /\ Alg!Cost(p) \in Int /\ Alg!Cost(p) <= dist[u]
    BY <2>1, <2>3 DEF Covered
  <2>5. PICK o : Route(o, a, v) /\ Alg!Cost(o) <= Alg!Cost(p) + w
    BY <2>1, <2>4, RouteExtends
  <2>6. Alg!Cost(o) \in Int
    BY <2>5, CostExists DEF Route
  <2>7. Alg!Cost(o) <= more[v]
    BY <1>1, <2>0, <2>1, <2>4, <2>5, <2>6
  <2>8. ASSUME NEW x \in DOMAIN more
        PROVE  \E y : Route(y, a, x) /\ Alg!Cost(y) \in Int /\ Alg!Cost(y) <= more[x]
    <3>1. CASE x = v
      BY <2>5, <2>6, <2>7, <3>1
    <3>2. CASE x # v
      BY <2>1, <2>2, <2>3, <3>2 DEF Covered
    <3> QED
      BY <3>1, <3>2
  <2>9. Covered(more, a)
    BY <2>8 DEF Covered
  <2> QED
    BY <2>9 DEF more, r
<1> QED
  BY <1>2, <1>3, <1>4

LEMMA PassCovers ==
  ASSUME edges \in Seq(Conversions), NEW s \in Searches, NEW a, ~Alg!LoopReachable(a),
         Covered(s.dist, a)
  PROVE  Covered(Alg!Pass(s).dist, a)
<1> DEFINE n == Len(edges)
           S == {t \in Searches : Covered(t.dist, a)}
<1>0. n \in Nat
  OBVIOUS
<1>1. PICK g : PassSteps(g, s) /\ Alg!Pass(s) = g[n]
  BY PassIs
<1>2. /\ g \in [0 .. n -> Searches] /\ g[0] = s
      /\ \A k \in 1 .. n : g[k] = Alg!RelaxEdge(g[k - 1], edges[k])
  BY <1>1 DEF PassSteps
<1>3. \A k \in 1 .. n : edges[k] \in Elements(edges) /\ k \in 0 .. n
  BY DEF Elements
<1> HIDE DEF n
<1>4. ASSUME NEW k \in 1 .. n, g[k - 1] \in S PROVE g[k] \in S
  <2>1. Covered(g[k].dist, a)
    BY <1>2, <1>3, <1>4, EdgeCovers
  <2> QED
    BY <1>2, <1>3, <2>1
<1>5. g[0] \in S
  BY <1>2
<1>6. \A k \in 1 .. n : g[k - 1] \in S => g[k] \in S
  BY <1>4
<1>7. \A k \in 0 .. n : g[k] \in S
  <2> HIDE DEF S
  <2> QED
    BY <1>0, <1>5, <1>6, Carried
<1>8. n \in 0 .. n
  BY <1>0
<1> QED
  BY <1>1, <1>7, <1>8

LEMMA RelaxCovers ==
  ASSUME edges \in Seq(Conversions), NEW a \in Alg!Nodes, ~Alg!LoopReachable(a), NEW n \in Nat,
         NEW g, RelaxSteps(g, Alg!Start(a), n), NEW k \in 0 .. n
  PROVE  Covered(g[k].dist, a)
<1> DEFINE S == {t \in Searches : Covered(t.dist, a)}
<1>0. a \in Currencies
  BY NodesAre
<1>1. /\ g \in [0 .. n -> Searches] /\ g[0] = Alg!Start(a)
      /\ \A i \in 1 .. n : g[i] = Alg!Pass(g[i - 1])
  BY DEF RelaxSteps
<1>2. g[0] \in S
  <2> DEFINE d == Alg!Start(a).dist
             p == <<a>>
  <2>1. d[a] = 0 /\ DOMAIN d = {a}
    BY <1>0, StartIs
  <2>2. Route(p, a, a) /\ Alg!Cost(p) = 0
    BY RouteAlone
  <2> HIDE DEF d, p
  <2>3. Covered(d, a)
    BY <2>1, <2>2 DEF Covered
  <2> QED
    BY <1>0, <1>1, <2>3, StartKnown DEF d
<1>3. \A i \in 1 .. n : g[i - 1] \in S => g[i] \in S
  BY <1>1, PassCovers, PassStays
<1>4. \A i \in 0 .. n : g[i] \in S
  <2> HIDE DEF S
  <2> QED
    BY <1>2, <1>3, Carried
<1> QED
  BY <1>4

\* After k passes no path of k edges costs less than the distance of its end.
LEMMA PassesBound ==
  ASSUME edges \in Seq(Conversions), NEW a \in Currencies, NEW n \in Nat,
         NEW g, RelaxSteps(g, Alg!Start(a), n), NEW p, Way(p), p[1] = a, Len(p) <= n + 1
  PROVE  p[Len(p)] \in DOMAIN g[n].dist /\ g[n].dist[p[Len(p)]] <= Alg!Cost(p)
<1>1. PICK c : Prices(c, p) /\ Alg!Cost(p) = c[Len(p)]
  BY CostExists
<1> DEFINE m == Len(p)
           Bound(k, i) == p[i] \in DOMAIN g[k].dist /\ g[k].dist[p[i]] <= c[i]
           C == {k \in Nat : k <= n => \A i \in 1 .. m : i <= k + 1 => Bound(k, i)}
<1>2. m \in Nat \ {0}
  BY DEF Way
<1>3. c \in [1 .. m -> Int] /\ c[1] = 0
  BY <1>1 DEF Prices
<1>4. /\ \A k \in 0 .. n : g[k] \in Searches /\ Known(g[k].dist, g[k].via, a)
      /\ \A k \in 1 .. n : g[k] = Alg!Pass(g[k - 1])
  <2>1. \A k \in 0 .. n : g[k] \in Searches /\ Known(g[k].dist, g[k].via, a)
    BY RelaxKeeps
  <2> QED
    BY <2>1 DEF RelaxSteps
<1>5. \A k \in 0 .. n : Bound(k, 1)
  BY <1>3, <1>4 DEF Known
<1>6. 0 \in C
  <2>1. \A i \in 1 .. m : i <= 0 + 1 => i = 1
    BY <1>2
  <2>2. 0 \in 0 .. n
    OBVIOUS
  <2> QED
    BY <1>5, <2>1, <2>2
<1>7. ASSUME NEW k \in Nat, k \in C PROVE k + 1 \in C
  <2> SUFFICES ASSUME k + 1 <= n, NEW i \in 1 .. m, i <= (k + 1) + 1 PROVE Bound(k + 1, i)
    OBVIOUS
  <2>1. k \in 0 .. n /\ k + 1 \in 1 .. n /\ k + 1 \in 0 .. n /\ (k + 1) - 1 = k
    OBVIOUS
  <2>2. CASE i = 1
    BY <1>5, <2>1, <2>2
  <2>3. CASE i # 1
    <3> DEFINE j == i - 1
    <3>1. j \in 1 .. m - 1 /\ j \in 1 .. m /\ j + 1 = i /\ j <= k + 1
      BY <1>2, <2>3
    <3> HIDE DEF j
    <3>2. p[j] \in DOMAIN g[k].dist /\ g[k].dist[p[j]] <= c[j]
      BY <1>7, <2>1, <3>1
    <3> DEFINE w == Best(p[j], p[i])
    <3>3. Linked(p[j], p[i])
      BY <3>1 DEF Way
    <3>4. w \in Int /\ Edge(p[j], p[i], w)
      BY <3>3, BestIs
    <3>5. c[i] = c[j] + w
      BY <1>1, <3>1 DEF Prices
    <3> HIDE DEF w
    <3>6. g[k] \in Searches /\ Known(g[k].dist, g[k].via, a) /\ g[k + 1] = Alg!Pass(g[k])
      BY <1>4, <2>1
    <3>7. p[i] \in DOMAIN g[k + 1].dist /\ g[k + 1].dist[p[i]] <= g[k].dist[p[j]] + w
      BY <3>2, <3>4, <3>6, PassKeeps
    <3>8. /\ g[k].dist[p[j]] \in Int /\ g[k + 1].dist[p[i]] \in Int
          /\ c[i] \in Int /\ c[j] \in Int
      <4>1. g[k + 1] \in Searches
        BY <1>4, <2>1
      <4> QED
        BY <1>3, <3>1, <3>2, <3>6, <3>7, <4>1, SearchIs
    <3>9. g[k + 1].dist[p[i]] <= c[i]
      <4> DEFINE x == g[k].dist[p[j]]
                 y == g[k + 1].dist[p[i]]
      <4>1. /\ x <= c[j] /\ y <= x + w /\ c[i] = c[j] + w
            /\ x \in Int /\ y \in Int /\ c[i] \in Int /\ c[j] \in Int /\ w \in Int
        BY <3>2, <3>4, <3>5, <3>7, <3>8
      <4> HIDE DEF x, y
      <4>2. y <= c[i]
        BY <4>1
      <4> QED
        BY <4>2 DEF y
    <3> QED
      BY <3>7, <3>9
  <2> QED
    BY <2>2, <2>3
<1>8. n \in C
  <2> HIDE DEF C
  <2> QED
    BY <1>6, <1>7, Counting
<1>9. Bound(n, m)
  <2>1. m \in 1 .. m /\ m <= n + 1
    BY <1>2
  <2> QED
    BY <1>8, <2>1
<1> QED
  BY <1>1, <1>9

\* Without a negative loop the distances are final after one pass less than there are nodes.
LEMMA NoLoopIsStable ==
  ASSUME edges \in Seq(Conversions), NEW a \in Alg!Nodes, ~Alg!LoopReachable(a),
         NEW s, s = Alg!Relax(Alg!Start(a), Cardinality(Alg!Nodes) - 1)
  PROVE  Alg!Pass(s) = s
<1> DEFINE n == Cardinality(Alg!Nodes) - 1
<1>1. n \in Nat
  <2>1. Cardinality(Alg!Nodes) \in Nat /\ Cardinality(Alg!Nodes) # 0
    BY NodesAre, FS_EmptySet
  <2> QED
    BY <2>1
<1>2. a \in Currencies /\ Alg!Start(a) \in Searches
  BY NodesAre, StartKnown
<1>3. PICK g : RelaxSteps(g, Alg!Start(a), n) /\ s = g[n]
  <2> HIDE DEF n
  <2>1. PICK g : RelaxSteps(g, Alg!Start(a), n) /\ Alg!Relax(Alg!Start(a), n) = g[n]
    BY <1>1, <1>2, RelaxIs
  <2>2. s = Alg!Relax(Alg!Start(a), n)
    BY DEF n
  <2> QED
    BY <2>1, <2>2
<1>4. n \in 0 .. n
  BY <1>1
<1> DEFINE dist == s.dist
<1>5. Covered(dist, a) /\ s \in Searches
  <2> HIDE DEF n
  <2>1. Covered(g[n].dist, a)
    BY <1>1, <1>3, <1>4, RelaxCovers
  <2>2. g[n] \in Searches
    BY <1>3, <1>4 DEF RelaxSteps
  <2> QED
    BY <1>3, <2>1, <2>2
<1>6. ASSUME NEW v, NEW p, Route(p, a, v)
      PROVE  v \in DOMAIN dist /\ dist[v] <= Alg!Cost(p)
  <2>1. Way(p) /\ p[1] = a /\ p[Len(p)] = v /\ Len(p) <= Cardinality(Alg!Nodes)
    BY <1>6, RoutesAreShort DEF Route
  <2>2. Len(p) <= n + 1
    <3>1. Cardinality(Alg!Nodes) \in Nat /\ Len(p) \in Nat
      BY <2>1, NodesAre DEF Way
    <3> QED
      BY <2>1, <3>1
  <2> HIDE DEF n
  <2> QED
    BY <1>1, <1>2, <1>3, <2>1, <2>2, PassesBound
<1>7. \A x \in DOMAIN dist : dist[x] \in Int
  BY <1>5, SearchIs
<1>8. ASSUME NEW u, NEW v, NEW w, Edge(u, v, w), u \in DOMAIN dist
      PROVE  v \in DOMAIN dist /\ dist[v] <= dist[u] + w
  <2> HIDE DEF dist
  <2>1. PICK p : Route(p, a, u) /\ Alg!Cost(p) \in Int /\ Alg!Cost(p) <= dist[u]
    BY <1>5, <1>8 DEF Covered
  <2>2. PICK o : Route(o, a, v) /\ Alg!Cost(o) <= Alg!Cost(p) + w
    BY <1>8, <2>1, RouteExtends
  <2>3. v \in DOMAIN dist /\ dist[v] <= Alg!Cost(o)
    BY <1>6, <2>2
  <2>4. Alg!Cost(o) \in Int /\ w \in Int
    BY <1>8, <2>2, CostExists, EdgeHas DEF Route
  <2> QED
    BY <1>7, <1>8, <2>1, <2>2, <2>3, <2>4
<1>9. ASSUME NEW e \in Elements(edges) PROVE Alg!RelaxEdge(s, e) = s
  <2> DEFINE r == Alg!RelaxEdge(s, e)
  <2>1. e \in Conversions /\ Edge(e.source, e.target, e.weight)
    BY ElementsAre
  <2>2. r = s \/ Improves(dist, s.via, e.source, e.target, e.weight, r.dist, r.via)
    BY <1>5, <2>1, RelaxEdgeIs
  <2>3. ~Improves(dist, s.via, e.source, e.target, e.weight, r.dist, r.via)
    <3> SUFFICES ASSUME Improves(dist, s.via, e.source, e.target, e.weight, r.dist, r.via)
                 PROVE  FALSE
      OBVIOUS
    <3> DEFINE u == e.source
               v == e.target
               w == e.weight
    <3>1. u \in DOMAIN dist /\ (v \notin DOMAIN dist \/ dist[u] + w < dist[v])
      BY DEF Improves
    <3>2. v \in DOMAIN dist /\ dist[v] <= dist[u] + w /\ w \in Int
      BY <1>8, <2>1, <3>1, ElementsAre
    <3> HIDE DEF u, v, w, dist
    <3> QED
      BY <1>7, <3>1, <3>2
  <2> QED
    BY <2>2, <2>3
<1>10. PICK h : PassSteps(h, s) /\ Alg!Pass(s) = h[Len(edges)]
  BY <1>5, PassIs
<1> DEFINE m == Len(edges)
<1>11. m \in Nat /\ \A k \in 1 .. m : edges[k] \in Elements(edges)
  BY DEF Elements
<1>12. h[0] = s /\ \A k \in 1 .. m : h[k] = Alg!RelaxEdge(h[k - 1], edges[k])
  BY <1>10 DEF PassSteps
<1> DEFINE S == {s}
<1>13. h[0] \in S /\ \A k \in 1 .. m : h[k - 1] \in S => h[k] \in S
  BY <1>9, <1>11, <1>12
<1>14. \A k \in 0 .. m : h[k] \in S
  <2> HIDE DEF m, S
  <2> QED
    BY <1>11, <1>13, Carried
<1>15. m \in 0 .. m
  BY <1>11
<1> QED
  BY <1>10, <1>14, <1>15

\* ShortestConversionPathWithNegative: cheapest_path raises for a negative loop just when
\* the source reaches one, and answers with a path of the least weight if it does not.
THEOREM NegativePathsRight ==
  ASSUME edges \in Seq(Conversions)
  PROVE  Alg!NegativePathsAreCheapest
<1> SUFFICES ASSUME NEW a \in Alg!Nodes, NEW b \in Currencies
             PROVE  LET answer == Alg!CheapestPathWithNegative(a, b)
                    IN  /\ (answer.kind = "loop") <=> Alg!LoopReachable(a)
                        /\ answer.kind # "loop" => Alg!IsCheapest(answer, a, b)
  BY DEF Alg!NegativePathsAreCheapest
<1> DEFINE n == Cardinality(Alg!Nodes) - 1
           s == Alg!Relax(Alg!Start(a), n)
           r == Alg!CheapestPathWithNegative(a, b)
<1>1. n \in Nat
  <2>1. Cardinality(Alg!Nodes) \in Nat /\ Cardinality(Alg!Nodes) # 0
    BY NodesAre, FS_EmptySet
  <2> QED
    BY <2>1
<1>2. a \in Currencies /\ Alg!Start(a) \in Searches
  BY NodesAre, StartKnown
<1>3. IF Alg!Pass(s) # s THEN r = [kind |-> "loop"] ELSE r = Alg!Answer(s, a, b)
  <2>1. Alg!Cardinality(Alg!Nodes) = Cardinality(Alg!Nodes)
    BY SameCardinality
  <2>2. Alg!Relax(Alg!Start(a), Alg!Cardinality(Alg!Nodes) - 1) = s
    BY <2>1
  <2> HIDE DEF s
  <2> QED
    BY <2>2 DEF Alg!CheapestPathWithNegative
<1> HIDE DEF r
<1>4. /\ s \in Searches /\ Known(s.dist, s.via, a)
      /\ \A q : Feasible(q) /\ a \in DOMAIN q => Above(s.dist, s.via, a, q)
  <2> HIDE DEF n
  <2>1. PICK g : RelaxSteps(g, Alg!Start(a), n) /\ s = g[n]
    BY <1>1, <1>2, RelaxIs
  <2>2. n \in 0 .. n
    BY <1>1
  <2> HIDE DEF s
  <2> QED
    BY <1>1, <1>2, <2>1, <2>2, RelaxKeeps
<1>5. CASE Alg!Pass(s) # s
  <2>1. r = [kind |-> "loop"]
    BY <1>3, <1>5
  <2>2. Alg!LoopReachable(a)
    BY <1>5, NoLoopIsStable
  <2> QED
    BY <2>1, <2>2 DEF r
<1>6. CASE Alg!Pass(s) = s
  <2> HIDE DEF s
  <2> DEFINE q == s.dist
  <2>1. Feasible(q) /\ a \in DOMAIN q
    BY <1>4, <1>6, StableIsFeasible DEF Known
  <2>2. ~Alg!LoopReachable(a)
    BY <2>1, StableHasNoLoop
  <2>3. Above(s.dist, s.via, a, q)
    BY <1>4, <2>1
  <2>4. a \notin DOMAIN s.via /\ s.dist[a] = 0 /\ Rooted(s.via)
    BY <2>3 DEF Above
  <2>5. /\ b \in DOMAIN s.via => b \in DOMAIN q /\ q[b] = s.dist[b]
        /\ b \notin DOMAIN s.via /\ b # a => b \notin DOMAIN q
        /\ q[a] = 0
    BY <1>4, <2>4 DEF Known
  <2>6. Alg!IsCheapest(Alg!Answer(s, a, b), a, b)
    <3> HIDE DEF q
    <3> QED
      BY <1>2, <1>4, <2>1, <2>4, <2>5, AnswerIsCheapest
  <2>7. r = Alg!Answer(s, a, b) /\ r.kind # "loop"
    <3>1. r = Alg!Answer(s, a, b)
      BY <1>3, <1>6
    <3>2. Alg!Answer(s, a, b).kind \in {"infinite", "path"}
      BY DEF Alg!Answer
    <3> QED
      BY <3>1, <3>2
  <2> QED
    BY <2>2, <2>6, <2>7 DEF r
<1> QED
  BY <1>5, <1>6

--------------------------------------------------------------------------------
(* The search that pops the nearest node.                                  *)
Entries == [weight : Int, node : Currencies]

\* The state of the loop: the search, and the heap as the set of its entries.
Fronts == [search : Searches, open : SUBSET Entries]

Entry(d, x) == [weight |-> d, node |-> x]

\* A node is final once its entry was popped: its neighbours have been pushed since.
Final(dist, open, x) == x \in DOMAIN dist /\ Entry(dist[x], x) \notin open

Zero == [x \in Currencies |-> 0]

NoneNegative == \A j \in 1 .. Len(edges) : edges[j].weight >= 0

LEMMA ZeroIsFeasible ==
  ASSUME edges \in Seq(Conversions), NoneNegative
  PROVE  /\ Feasible(Zero) /\ DOMAIN Zero = Currencies /\ \A x \in Currencies : Zero[x] = 0
         /\ \A u, v, w : Edge(u, v, w) => w >= 0
<1>1. DOMAIN Zero = Currencies /\ \A x \in Currencies : Zero[x] = 0
  BY DEF Zero
<1>2. Zero \in Dicts(Int)
  <2>1. Zero \in [DOMAIN Zero -> Int]
    BY DEF Zero
  <2> QED
    BY <1>1, <2>1, DictIs
<1>3. ASSUME NEW u, NEW v, NEW w, Edge(u, v, w) PROVE w >= 0 /\ v \in Currencies /\ w \in Int
  <2> DEFINE e == [source |-> u, target |-> v, weight |-> w]
  <2>1. PICK j \in 1 .. Len(edges) : e = edges[j]
    BY <1>3 DEF Edge, Elements
  <2>2. e.weight = w
    OBVIOUS
  <2> QED
    BY <1>3, <2>1, <2>2, EdgeHas DEF NoneNegative
<1>4. Feasible(Zero)
  BY <1>1, <1>2, <1>3 DEF Feasible
<1> QED
  BY <1>1, <1>3, <1>4

\* What the heap and the dictionaries have to do with each other when every node that is
\* final is within W and every entry at least W away; todo are the conversions from the
\* node that is being expanded which have yet to be looked at.
Frontier(dist, via, open, a, W, todo) ==
  /\ Known(dist, via, a) /\ Above(dist, via, a, Zero)
  /\ open \subseteq Entries /\ IsFiniteSet(open) /\ W \in Int
  /\ \A m \in open : m.node \in DOMAIN dist /\ dist[m.node] <= m.weight /\ W <= m.weight
  /\ \A x : Final(dist, open, x) => dist[x] <= W
  /\ \A j \in 1 .. Len(edges) :
       j \notin todo /\ Final(dist, open, edges[j].source) =>
         /\ edges[j].target \in DOMAIN dist
         /\ dist[edges[j].target] <= dist[edges[j].source] + edges[j].weight

\* The conversions that may still be pushed.
Left(dist, open, todo) ==
  {j \in 1 .. Len(edges) : j \in todo \/ ~Final(dist, open, edges[j].source)}

Size(dist, open, todo) == Cardinality(open) + Cardinality(Left(dist, open, todo))

LEMMA LeftIs ==
  ASSUME edges \in Seq(Conversions), NEW dist, NEW open, NEW todo
  PROVE  /\ IsFiniteSet(Left(dist, open, todo))
         /\ Cardinality(Left(dist, open, todo)) \in Nat
         /\ Cardinality(Left(dist, open, todo)) <= Len(edges)
<1> DEFINE n == Len(edges)
           L == Left(dist, open, todo)
<1>1. n \in Nat
  OBVIOUS
<1>2. IsFiniteSet(1 .. n) /\ Cardinality(1 .. n) = n
  <2> HIDE DEF n
  <2> QED
    BY <1>1, FS_Interval
<1>3. L \in SUBSET (1 .. n)
  BY DEF Left
<1> HIDE DEF L, n
<1>4. IsFiniteSet(L) /\ Cardinality(L) <= n
  BY <1>2, <1>3, FS_Subset
<1>5. Cardinality(L) \in Nat
  BY <1>4, FS_CardinalityType
<1> QED
  BY <1>4, <1>5 DEF L, n

\* Looking at a conversion from the node u that is being expanded, and reaching its target.
Reaches(dist, via, open, a, W, todo, j, u, v, w, more, by) ==
  /\ j \in todo /\ todo \subseteq 1 .. Len(edges) /\ Frontier(dist, via, open, a, W, todo)
  /\ edges[j].source = u /\ edges[j].target = v /\ edges[j].weight = w
  /\ Final(dist, open, u) /\ dist[u] = W /\ Improves(dist, via, u, v, w, more, by)
  /\ more \in Dicts(Int) /\ by \in Dicts(Currencies)

\* Pushing an entry keeps the frontier, and what is left to do does not grow: the conversion
\* is no longer to be done, the entry is.
LEMMA FrontierEdge ==
  ASSUME edges \in Seq(Conversions), NoneNegative, NEW a \in Currencies,
         NEW dist, NEW via, NEW open, NEW W, NEW todo, NEW j, NEW u, NEW v, NEW w, NEW more, NEW by,
         Reaches(dist, via, open, a, W, todo, j, u, v, w, more, by)
  PROVE  LET then == open \cup {Entry(W + w, v)}
         IN  /\ Frontier(more, by, then, a, W, todo \ {j})
             /\ Final(more, then, u) /\ more[u] = W
             /\ Size(more, then, todo \ {j}) <= Size(dist, open, todo)
             /\ Size(more, then, todo \ {j}) \in Nat
<1> DEFINE new == Entry(W + w, v)
           then == open \cup {new}
<1>0. /\ j \in todo /\ todo \subseteq 1 .. Len(edges) /\ Frontier(dist, via, open, a, W, todo)
      /\ edges[j].source = u /\ edges[j].target = v /\ edges[j].weight = w
      /\ Final(dist, open, u) /\ dist[u] = W /\ Improves(dist, via, u, v, w, more, by)
      /\ more \in Dicts(Int) /\ by \in Dicts(Currencies)
  BY DEF Reaches
<1> USE <1>0
<1>1. /\ Known(dist, via, a) /\ Above(dist, via, a, Zero) /\ W \in Int
      /\ open \subseteq Entries /\ IsFiniteSet(open)
      /\ \A x : Final(dist, open, x) => dist[x] <= W
  BY DEF Frontier
<1>2. \A m \in open : m.node \in DOMAIN dist /\ dist[m.node] <= m.weight /\ W <= m.weight
  BY DEF Frontier
<1>3. Edge(u, v, w) /\ u \in DOMAIN dist /\ (v \notin DOMAIN dist \/ W + w < dist[v])
  BY DEF Improves
<1>4. u \in Currencies /\ v \in Currencies /\ w \in Int /\ w >= 0
  BY <1>3, EdgeHas, ZeroIsFeasible
<1>5. \A x \in DOMAIN dist : dist[x] \in Int
  BY <1>1, DictIs DEF Known
<1>6. /\ DOMAIN more = DOMAIN dist \cup {v} /\ more[v] = W + w
      /\ \A x \in DOMAIN dist : x # v => more[x] = dist[x]
  BY DEF Improves, Reached
<1>7. Known(more, by, a) /\ \A x \in DOMAIN dist : x \in DOMAIN more /\ more[x] <= dist[x]
  BY <1>1, KnownAfter
<1>8. Above(more, by, a, Zero)
  BY <1>1, ZeroIsFeasible, AboveAfter
<1>9. ~Final(dist, open, v) /\ u # v
  <2>1. v \in DOMAIN dist => W + w < dist[v] /\ dist[v] \in Int
    BY <1>3, <1>5
  <2>2. ~(v \in DOMAIN dist /\ dist[v] <= W)
    BY <1>1, <1>4, <2>1
  <2> QED
    BY <1>1, <2>2 DEF Final
<1>10. \A d, x : x # v => Entry(d, x) # new
  BY DEF Entry
<1>11. ~Final(more, then, v)
  BY <1>6 DEF Final
<1>12. ASSUME NEW x PROVE Final(more, then, x) <=> Final(dist, open, x)
  <2>1. CASE x = v
    BY <1>9, <1>11, <2>1
  <2>2. CASE x # v
    <3>1. x \in DOMAIN more <=> x \in DOMAIN dist
      BY <1>6, <2>2
    <3>2. x \in DOMAIN dist => more[x] = dist[x] /\ Entry(dist[x], x) # new
      BY <1>6, <1>10, <2>2
    <3> HIDE DEF new
    <3> QED
      BY <3>1, <3>2 DEF Final
  <2> QED
    BY <2>1, <2>2
<1>13. new \in Entries /\ new.node = v /\ new.weight = W + w
  BY <1>1, <1>4 DEF Entry, Entries
<1>14. then \subseteq Entries /\ IsFiniteSet(then)
  <2> HIDE DEF new
  <2> QED
    BY <1>1, <1>13, FS_AddElement
<1>15. ASSUME NEW m \in then
       PROVE  m.node \in DOMAIN more /\ more[m.node] <= m.weight /\ W <= m.weight
  <2>1. CASE m \in open
    <3> DEFINE x == m.node
               d == m.weight
    <3>1. d \in Int /\ x \in DOMAIN dist /\ dist[x] <= d /\ W <= d
      BY <1>1, <1>2, <2>1 DEF Entries
    <3> HIDE DEF x, d
    <3>2. x \in DOMAIN more /\ more[x] <= dist[x] /\ dist[x] \in Int /\ more[x] \in Int
      BY <1>1, <1>4, <1>5, <1>6, <1>7, <3>1
    <3>3. x \in DOMAIN more /\ more[x] <= d /\ W <= d
      BY <3>1, <3>2
    <3> QED
      BY <3>3 DEF x, d
  <2>2. CASE m = new
    <3>1. W <= W + w /\ W + w \in Int
      BY <1>1, <1>4
    <3> QED
      BY <1>6, <1>13, <2>2, <3>1
  <2> QED
    BY <2>1, <2>2
<1>16. \A x : Final(more, then, x) => more[x] <= W
  <2>1. ASSUME NEW x, Final(more, then, x) PROVE more[x] <= W
    <3>1. Final(dist, open, x) /\ x # v
      BY <1>9, <1>12, <2>1
    <3>2. more[x] = dist[x]
      BY <1>6, <3>1 DEF Final
    <3> QED
      BY <1>1, <3>1, <3>2
  <2> QED
    BY <2>1
<1> HIDE DEF then, new
<1>17. ASSUME NEW i \in 1 .. Len(edges), i \notin todo \ {j},
              Final(more, then, edges[i].source)
       PROVE  /\ edges[i].target \in DOMAIN more
              /\ more[edges[i].target] <= more[edges[i].source] + edges[i].weight
  <2> DEFINE x == edges[i].source
             y == edges[i].target
             z == edges[i].weight
  <2>1. Final(dist, open, x) /\ x # v
    BY <1>9, <1>12, <1>17
  <2>2. x \in DOMAIN dist /\ more[x] = dist[x]
    BY <1>6, <2>1 DEF Final
  <2>3. z \in Int
    <3>1. edges[i] \in Conversions
      OBVIOUS
    <3> QED
      BY <3>1 DEF Conversions
  <2>4. CASE i = j
    <3>1. x = u /\ y = v /\ z = w
      BY <2>4
    <3> HIDE DEF x, y, z
    <3>2. y \in DOMAIN more /\ more[y] <= more[x] + z
      BY <1>1, <1>4, <1>6, <2>2, <3>1
    <3> QED
      BY <3>2 DEF x, y, z
  <2>5. CASE i # j
    <3>1. y \in DOMAIN dist /\ dist[y] <= dist[x] + z
      BY <1>17, <2>1, <2>5 DEF Frontier
    <3> HIDE DEF x, y, z
    <3>2. y \in DOMAIN more /\ more[y] <= dist[y]
      BY <1>7, <3>1
    <3>3. more[y] \in Int /\ dist[y] \in Int /\ dist[x] \in Int
      BY <1>1, <1>4, <1>5, <1>6, <2>2, <3>1
    <3>4. more[y] <= more[x] + z
      BY <2>2, <2>3, <3>1, <3>2, <3>3
    <3> QED
      BY <3>2, <3>4 DEF x, y, z
  <2> QED
    BY <2>4, <2>5
<1>18. Frontier(more, by, then, a, W, todo \ {j})
  BY <1>1, <1>7, <1>8, <1>14, <1>15, <1>16, <1>17 DEF Frontier
<1>19. Final(more, then, u) /\ more[u] = W
  BY <1>3, <1>6, <1>9, <1>12
<1>20. Left(more, then, todo \ {j}) = Left(dist, open, todo) \ {j} /\ j \in Left(dist, open, todo)
  <2>1. edges[j].source = u
    OBVIOUS
  <2>2. Left(more, then, todo \ {j}) = Left(dist, open, todo) \ {j}
    BY <1>12, <2>1 DEF Left
  <2>3. j \in Left(dist, open, todo)
    BY DEF Left
  <2> QED
    BY <2>2, <2>3
<1>21. Size(more, then, todo \ {j}) <= Size(dist, open, todo) /\ Size(more, then, todo \ {j}) \in Nat
  <2> DEFINE L == Left(dist, open, todo)
  <2>1. IsFiniteSet(L) /\ Cardinality(L) \in Nat
    BY LeftIs
  <2> HIDE DEF L
  <2>2. Cardinality(L \ {j}) = Cardinality(L) - 1
    BY <1>20, <2>1, FS_RemoveElement DEF L
  <2>3. Cardinality(open) \in Nat /\ Cardinality(then) \in Nat
    BY <1>1, <1>14, FS_CardinalityType
  <2>4. Cardinality(then) <= Cardinality(open) + 1
    <3>1. Cardinality(then) = IF new \in open THEN Cardinality(open) ELSE Cardinality(open) + 1
      BY <1>1, FS_AddElement DEF then
    <3> QED
      BY <2>3, <3>1
  <2>5. Size(dist, open, todo) = Cardinality(open) + Cardinality(L)
    BY DEF Size, L
  <2>6. Size(more, then, todo \ {j}) = Cardinality(then) + (Cardinality(L) - 1)
    BY <1>20, <2>2 DEF Size, L
  <2>7. Cardinality(L \ {j}) \in Nat
    <3>1. IsFiniteSet(L \ {j})
      BY <2>1, FS_RemoveElement
    <3> QED
      BY <3>1, FS_CardinalityType
  <2> QED
    BY <2>1, <2>2, <2>3, <2>4, <2>5, <2>6, <2>7
<1> QED
  BY <1>18, <1>19, <1>21 DEF then, new

\* What is still to do for the node u when the first i conversions were looked at.
Todo(u, i) == {j \in i + 1 .. Len(edges) : edges[j].source = u}

\* The node u, at distance W, is expanded, with the first i conversions looked at.
Inner(r, a, W, u, i) ==
  /\ r \in Fronts
  /\ Frontier(r.search.dist, r.search.via, r.open, a, W, Todo(u, i))
  /\ Final(r.search.dist, r.open, u) /\ r.search.dist[u] = W

FrontSize(r, todo) == Size(r.search.dist, r.open, todo)

LEMMA SizeFalls ==
  ASSUME edges \in Seq(Conversions), NEW dist, NEW open, IsFiniteSet(open), NEW todo,
         NEW less, less \subseteq todo
  PROVE  /\ Size(dist, open, less) <= Size(dist, open, todo)
         /\ Size(dist, open, less) \in Nat /\ Size(dist, open, todo) \in Nat
<1> DEFINE L == Left(dist, open, todo)
           K == Left(dist, open, less)
<1>1. IsFiniteSet(L) /\ Cardinality(L) \in Nat /\ Cardinality(K) \in Nat
  BY LeftIs
<1>2. K \in SUBSET L
  BY DEF Left
<1>3. Cardinality(open) \in Nat
  BY FS_CardinalityType
<1> HIDE DEF L, K
<1>4. Cardinality(K) <= Cardinality(L)
  BY <1>1, <1>2, FS_Subset
<1> QED
  BY <1>1, <1>3, <1>4 DEF Size, L, K

LEMMA FrontIs ==
  ASSUME NEW r \in Fronts
  PROVE  /\ r = [search |-> r.search, open |-> r.open]
         /\ r.search \in Searches /\ r.open \subseteq Entries
  BY DEF Fronts

\* Each of the conversions keeps the frontier, whether or not it reaches anything.
LEMMA ExpandEdgeIs ==
  ASSUME edges \in Seq(Conversions), NoneNegative, NEW r, NEW a \in Currencies, NEW W, NEW u,
         NEW i \in 1 .. Len(edges), Inner(r, a, W, u, i - 1)
  PROVE  LET t == Alg!ExpandEdge(r, Entry(W, u), edges[i])
         IN  Inner(t, a, W, u, i) /\ FrontSize(t, Todo(u, i)) <= FrontSize(r, Todo(u, i - 1))
<1> DEFINE s == r.search
           dist == s.dist
           via == s.via
           open == r.open
           e == edges[i]
           v == e.target
           w == e.weight
           d == W + w
           t == Alg!ExpandEdge(r, Entry(W, u), e)
           todo == Todo(u, i - 1)
           less == Todo(u, i)
<1>1. /\ r = [search |-> s, open |-> open] /\ s \in Searches /\ r \in Fronts
      /\ Frontier(dist, via, open, a, W, todo)
      /\ Final(dist, open, u) /\ dist[u] = W
  BY FrontIs DEF Inner
<1>2. e \in Elements(edges) /\ e \in Conversions /\ w \in Int /\ W \in Int
      /\ e = [source |-> e.source, target |-> v, weight |-> w]
  <2>1. e \in Elements(edges)
    BY DEF Elements
  <2>2. W \in Int
    BY <1>1 DEF Frontier
  <2>3. e \in Conversions
    BY <2>1, ElementsAre
  <2>4. e = [source |-> e.source, target |-> v, weight |-> w]
    BY <2>3 DEF Conversions
  <2> QED
    BY <2>1, <2>2, <2>3, <2>4, ElementsAre
<1>3. Entry(W, u).weight = W /\ Entry(W, u).node = u
  BY DEF Entry
<1>4. t = IF e.source = u /\ Alg!Cheaper(s, v, d)
          THEN [search |-> Alg!Reach(s, e, d), open |-> open \cup {Entry(d, v)}]
          ELSE r
  BY <1>3 DEF Alg!ExpandEdge, Entry
<1>5. IsFiniteSet(open)
  BY <1>1 DEF Frontier
<1> HIDE DEF t
<1>6. CASE e.source = u /\ Alg!Cheaper(s, v, d)
  <2> DEFINE q == Alg!Reach(s, e, d)
             more == q.dist
             by == q.via
             then == open \cup {Entry(d, v)}
  <2>1. t.search = q /\ t.open = then /\ t = [search |-> q, open |-> then]
    BY <1>4, <1>6
  <2>2. d \in Int /\ Entry(d, v) \in Entries
    <3>1. v \in Currencies
      BY <1>2, ElementsAre
    <3>2. d \in Int
      BY <1>2
    <3> HIDE DEF d, v
    <3> QED
      BY <3>1, <3>2 DEF Entry, Entries
  <2>3. q \in Searches
    <3> HIDE DEF d
    <3> QED
      BY <1>1, <1>2, <2>2, ReachStays
  <2>4. t \in Fronts
    <3>1. open \subseteq Entries
      BY <1>1, FrontIs
    <3> HIDE DEF q, d, v, open
    <3> QED
      BY <2>1, <2>2, <2>3, <3>1 DEF Fronts
  <2>5. more \in Dicts(Int) /\ by \in Dicts(Currencies)
    BY <2>3, SearchIs
  <2>6. Reached(dist, via, u, v, d, more, by)
    <3>1. Reached(s.dist, s.via, e.source, e.target, d, q.dist, q.via)
      BY ReachIs
    <3> QED
      BY <1>6, <3>1
  <2>7. Improves(dist, via, u, v, w, more, by)
    <3>1. Edge(u, v, w)
      BY <1>2, <1>6, ElementsAre
    <3>2. v \notin DOMAIN dist \/ dist[u] + w < dist[v]
      BY <1>1, <1>6 DEF Alg!Cheaper
    <3>3. Reached(dist, via, u, v, dist[u] + w, more, by)
      BY <1>1, <2>6
    <3>4. u \in DOMAIN dist
      BY <1>1 DEF Final
    <3> HIDE DEF q, dist, v, w, via
    <3> QED
      BY <3>1, <3>2, <3>3, <3>4 DEF Improves
  <2>8. i \in todo /\ todo \subseteq 1 .. Len(edges) /\ less = todo \ {i}
    BY <1>6 DEF Todo
  <2>9. edges[i].source = u /\ edges[i].target = v /\ edges[i].weight = w
    BY <1>6
  <2>10. /\ Frontier(more, by, then, a, W, todo \ {i})
         /\ Final(more, then, u) /\ more[u] = W
         /\ Size(more, then, todo \ {i}) <= Size(dist, open, todo)
    <3> HIDE DEF q, todo, s, v, w, dist, via, open, more, by
    <3>1. Reaches(dist, via, open, a, W, todo, i, u, v, w, more, by)
      BY <1>1, <2>5, <2>7, <2>8, <2>9 DEF Reaches
    <3> QED
      BY <3>1, FrontierEdge
  <2> HIDE DEF q, then, todo, less
  <2>11. t.search.dist = more /\ t.search.via = by /\ t.open = then
    BY <2>1
  <2>12. Frontier(t.search.dist, t.search.via, t.open, a, W, less)
    BY <2>8, <2>10, <2>11
  <2>13. Inner(t, a, W, u, i)
    BY <2>4, <2>10, <2>11, <2>12 DEF Inner, less
  <2>14. FrontSize(t, less) <= FrontSize(r, todo)
    BY <2>8, <2>10, <2>11 DEF FrontSize
  <2> QED
    BY <2>13, <2>14 DEF less, todo, t
<1>7. CASE ~(e.source = u /\ Alg!Cheaper(s, v, d))
  <2>1. t = r
    BY <1>4, <1>7
  <2>2. less \subseteq todo /\ \A j \in todo \ less : j = i /\ e.source = u
    BY DEF Todo
  <2>3. e.source = u => v \in DOMAIN dist /\ dist[v] <= dist[u] + w
    <3> SUFFICES ASSUME e.source = u PROVE v \in DOMAIN dist /\ dist[v] <= dist[u] + w
      OBVIOUS
    <3>1. v \in DOMAIN dist /\ ~(d < dist[v])
      BY <1>7 DEF Alg!Cheaper
    <3>2. dist[v] \in Int
      BY <1>1, <3>1, SearchIs
    <3>3. d \in Int /\ dist[u] + w = d
      BY <1>1, <1>2
    <3> HIDE DEF d, dist, v, w
    <3> QED
      BY <3>1, <3>2, <3>3
  <2>4. ASSUME NEW j \in 1 .. Len(edges), j \notin less, Final(dist, open, edges[j].source)
        PROVE  /\ edges[j].target \in DOMAIN dist
               /\ dist[edges[j].target] <= dist[edges[j].source] + edges[j].weight
    <3>1. CASE j \in todo
      <4>1. j = i /\ e.source = u
        BY <2>2, <2>4, <3>1
      <4> QED
        BY <2>3, <4>1
    <3>2. CASE j \notin todo
      BY <1>1, <2>4, <3>2 DEF Frontier
    <3> QED
      BY <3>1, <3>2
  <2>5. Frontier(dist, via, open, a, W, less)
    <3> HIDE DEF less, todo, dist, via, open
    <3> QED
      BY <1>1, <2>4 DEF Frontier
  <2>6. Inner(t, a, W, u, i)
    BY <1>1, <2>1, <2>5 DEF Inner
  <2>7. FrontSize(t, less) <= FrontSize(r, todo)
    BY <1>5, <2>1, <2>2, SizeFalls DEF FrontSize
  <2> QED
    BY <2>6, <2>7 DEF t
<1> QED
  BY <1>6, <1>7

\* The heap hands out an entry that no other is nearer than.
LEMMA FirstIs ==
  ASSUME NEW open, open \subseteq Entries, IsFiniteSet(open), open # {}
  PROVE  /\ Alg!First(open) \in open
         /\ \A f \in open : Alg!First(open).weight <= f.weight
<1>0. Currencies \subseteq Int
  BY AlgorithmsAssumption
<1>1. \A f \in open : f.weight \in Int /\ f.node \in Int
  BY <1>0 DEF Entries
<1> DEFINE wt == [f \in open |-> f.weight]
           ws == {wt[f] : f \in open}
<1>2. IsFiniteSet(ws) /\ ws # {} /\ ws \subseteq Int
  <2>1. DOMAIN wt = open
    OBVIOUS
  <2>2. ws # {} /\ ws \subseteq Int
    BY <1>1
  <2> HIDE DEF wt
  <2>3. IsFiniteSet(ws)
    BY <2>1, ImageFinite
  <2> QED
    BY <2>2, <2>3
<1>3. PICK x \in ws : \A y \in ws : x <= y
  <2> HIDE DEF ws
  <2> QED
    BY <1>2, LeastOfFinite
<1> DEFINE near == {f \in open : f.weight = x}
           nd == [f \in near |-> f.node]
           ns == {nd[f] : f \in near}
<1>4. near \in SUBSET open /\ near # {}
  BY <1>3
<1>5. IsFiniteSet(ns) /\ ns # {} /\ ns \subseteq Int
  <2>1. DOMAIN nd = near
    OBVIOUS
  <2>2. ns # {} /\ ns \subseteq Int
    BY <1>1, <1>4
  <2> HIDE DEF nd, near
  <2>3. IsFiniteSet(near)
    BY <1>4, FS_Subset
  <2>4. IsFiniteSet(ns)
    BY <2>1, <2>3, ImageFinite
  <2> QED
    BY <2>2, <2>4
<1>6. PICK z \in ns : \A y \in ns : z <= y
  <2> HIDE DEF ns
  <2> QED
    BY <1>5, LeastOfFinite
<1>7. PICK e \in near : e.node = z
  BY <1>6
<1>8. ASSUME NEW f \in open
      PROVE  e.weight < f.weight \/ (e.weight = f.weight /\ e.node <= f.node)
  <2>1. e.weight = x /\ x <= f.weight /\ x \in Int
    BY <1>1, <1>3, <1>7
  <2>2. CASE f.weight = x
    <3>1. f \in near /\ z <= f.node
      BY <1>6, <2>2
    <3> QED
      BY <1>7, <2>1, <2>2, <3>1
  <2>3. CASE f.weight # x
    BY <1>1, <2>1, <2>3
  <2> QED
    BY <2>2, <2>3
<1> DEFINE P(m) == \A f \in open : m.weight < f.weight \/ (m.weight = f.weight /\ m.node <= f.node)
<1>9. e \in open /\ P(e)
  BY <1>4, <1>8
<1>10. Alg!First(open) = CHOOSE m \in open : P(m)
  BY DEF Alg!First
<1> HIDE DEF P
<1>11. Alg!First(open) \in open /\ P(Alg!First(open))
  BY <1>9, <1>10
<1> DEFINE m == Alg!First(open)
<1>12. m \in open /\ \A f \in open : m.weight < f.weight \/ (m.weight = f.weight /\ m.node <= f.node)
  BY <1>11 DEF P
<1> HIDE DEF m
<1>13. \A f \in open : m.weight <= f.weight
  BY <1>1, <1>12
<1> QED
  BY <1>12, <1>13 DEF m

LEMMA ExpandEdgeStays ==
  ASSUME NEW r \in Fronts, NEW m \in Entries, NEW e \in Conversions
  PROVE  Alg!ExpandEdge(r, m, e) \in Fronts
<1> DEFINE d == m.weight + e.weight
           v == e.target
           s == r.search
<1>1. d \in Int /\ v \in Currencies
  BY EdgeIs DEF Entries
<1>2. r.search \in Searches /\ r.open \subseteq Entries
  BY FrontIs
<1>3. Alg!Reach(s, e, d) \in Searches
  <2> HIDE DEF d
  <2> QED
    BY <1>1, <1>2, ReachStays
<1>4. Alg!ExpandEdge(r, m, e) \in {r, [search |-> Alg!Reach(s, e, d),
                                       open |-> r.open \cup {[weight |-> d, node |-> v]}]}
  BY DEF Alg!ExpandEdge
<1>5. [weight |-> d, node |-> v] \in Entries
  BY <1>1 DEF Entries
<1> DEFINE then == r.open \cup {[weight |-> d, node |-> v]}
<1>6. then \subseteq Entries
  BY <1>2, <1>5
<1> HIDE DEF then, d, v, s
<1>7. [search |-> Alg!Reach(s, e, d), open |-> then] \in Fronts
  BY <1>3, <1>6 DEF Fronts
<1> QED
  BY <1>4, <1>7 DEF then

ExpandSteps(g, rest, m) ==
  /\ g \in [0 .. Len(edges) -> Fronts]
  /\ g[0] = rest /\ \A i \in 1 .. Len(edges) : g[i] = Alg!ExpandEdge(g[i - 1], m, edges[i])

\* A node whose entry is not out of date is expanded, one conversion at a time.
LEMMA PopEntrySteps ==
  ASSUME edges \in Seq(Conversions), NEW r \in Fronts, Alg!First(r.open) \in Entries
  PROVE  LET m == Alg!First(r.open)
             rest == [search |-> r.search, open |-> r.open \ {m}]
         IN  /\ m.weight > r.search.dist[m.node] => Alg!PopEntry(r) = rest
             /\ ~(m.weight > r.search.dist[m.node]) =>
                  \E g : ExpandSteps(g, rest, m) /\ Alg!PopEntry(r) = g[Len(edges)]
<1> DEFINE n == Len(edges)
           m == Alg!First(r.open)
           rest == [r EXCEPT !.open = @ \ {m}]
           F(g) == [i \in 0 .. n |-> IF i = 0 THEN rest ELSE Alg!ExpandEdge(g[i - 1], m, edges[i])]
           it == CHOOSE g : g = F(g)
           f == [i \in 1 .. n |-> [q \in Fronts |-> Alg!ExpandEdge(q, m, edges[i])]]
<1>0. n \in Nat
  OBVIOUS
<1>1. rest = [search |-> r.search, open |-> r.open \ {m}]
  BY FrontIs DEF Fronts
<1>2. rest \in Fronts
  <2>1. r.search \in Searches /\ r.open \ {m} \subseteq Entries
    BY FrontIs
  <2> HIDE DEF m
  <2> QED
    BY <1>1, <2>1 DEF Fronts
<1>3. Alg!PopEntry(r) = IF m.weight > r.search.dist[m.node] THEN rest ELSE it[n]
  BY DEF Alg!PopEntry
<1> HIDE DEF rest
<1>4. \A i \in 1 .. n, q \in Fronts : Alg!ExpandEdge(q, m, edges[i]) \in Fronts
  BY ExpandEdgeStays
<1> HIDE DEF m
<1>5. f \in [1 .. n -> [Fronts -> Fronts]]
  BY <1>4
<1>6. PICK g \in [0 .. n -> Fronts] : Steps(g, f, rest, n)
  <2> HIDE DEF f, n
  <2> QED
    BY <1>0, <1>2, <1>5, StepsExist
<1>7. \A k \in 1 .. n : g[k] = Alg!ExpandEdge(g[k - 1], m, edges[k])
  <2>1. \A k \in 1 .. n : g[k - 1] \in Fronts
    OBVIOUS
  <2> QED
    BY <1>6, <2>1 DEF Steps
<1>8. g = F(g)
  <2> HIDE DEF f
  <2>1. \A k \in 0 .. n : k # 0 => k \in 1 .. n
    OBVIOUS
  <2>2. \A k \in 0 .. n : g[k] = IF k = 0 THEN rest ELSE Alg!ExpandEdge(g[k - 1], m, edges[k])
    BY <1>6, <1>7, <2>1 DEF Steps
  <2> QED
    BY <2>2
<1>9. it = F(it)
  <2> HIDE DEF F
  <2> QED
    BY <1>8
<1> HIDE DEF it
<1>10. it[0] = rest /\ \A k \in 1 .. n : it[k] = Alg!ExpandEdge(it[k - 1], m, edges[k])
  BY <1>9
<1>11. \A k \in 0 .. n : it[k] \in Fronts
  <2>1. it[0] \in Fronts /\ \A k \in 1 .. n : it[k - 1] \in Fronts => it[k] \in Fronts
    BY <1>2, <1>4, <1>10
  <2> HIDE DEF n
  <2> QED
    BY <1>0, <2>1, Carried
<1>12. it \in [0 .. n -> Fronts]
  <2>1. it = [i \in 0 .. n |-> it[i]]
    BY <1>9
  <2> HIDE DEF n
  <2> QED
    BY <1>11, <2>1
<1>13. ExpandSteps(it, rest, m)
  BY <1>10, <1>12 DEF ExpandSteps
<1> QED
  BY <1>1, <1>3, <1>13 DEF m

\* Between two turns of the loop.
Good(r, a) ==
  r \in Fronts /\ \E W : Frontier(r.search.dist, r.search.via, r.open, a, W, {})

LEMMA SizeIsNat ==
  ASSUME edges \in Seq(Conversions), NEW r, NEW a, Good(r, a), NEW todo
  PROVE  FrontSize(r, todo) \in Nat
<1>1. IsFiniteSet(r.open)
  BY DEF Good, Frontier
<1> QED
  BY <1>1, SizeFalls DEF FrontSize

\* The rest of the frontier when a nearest entry m, of node u at distance D, is taken out.
Nearest(dist, via, open, a, W, m, u, D) ==
  /\ Frontier(dist, via, open, a, W, {}) /\ open # {}
  /\ m = Alg!First(open) /\ u = m.node /\ D = m.weight

\* An entry out of date leaves the frontier as it was; another one settles its node.
LEMMA FrontierRest ==
  ASSUME edges \in Seq(Conversions), NEW dist, NEW via, NEW open, NEW a, NEW W, NEW m, NEW u, NEW D,
         Nearest(dist, via, open, a, W, m, u, D)
  PROVE  LET rest == open \ {m}
         IN  /\ m \in open /\ u \in DOMAIN dist /\ dist[u] <= D
             /\ dist[u] \in Int /\ D \in Int
             /\ D > dist[u] => /\ Frontier(dist, via, rest, a, W, {})
                               /\ Size(dist, rest, {}) < Size(dist, open, {})
             /\ ~(D > dist[u]) => /\ Frontier(dist, via, rest, a, D, Todo(u, 0))
                                  /\ Final(dist, rest, u)
                                  /\ Size(dist, rest, Todo(u, 0)) < Size(dist, open, {})
<1> DEFINE rest == open \ {m}
<1>0. /\ Frontier(dist, via, open, a, W, {}) /\ open # {}
      /\ m = Alg!First(open) /\ u = m.node /\ D = m.weight
  BY DEF Nearest
<1> USE <1>0
<1>1. /\ Known(dist, via, a) /\ Above(dist, via, a, Zero) /\ W \in Int
      /\ open \subseteq Entries /\ IsFiniteSet(open)
      /\ \A x : Final(dist, open, x) => dist[x] <= W
  BY DEF Frontier
<1>2. \A f \in open : f.node \in DOMAIN dist /\ dist[f.node] <= f.weight /\ W <= f.weight
  BY DEF Frontier
<1>3. m \in open /\ \A f \in open : D <= f.weight
  BY <1>1, FirstIs
<1>4. m = Entry(D, u) /\ D \in Int
  BY <1>1, <1>3 DEF Entries, Entry
<1>5. u \in DOMAIN dist /\ dist[u] <= D /\ W <= D
  BY <1>2, <1>3
<1>6. \A x \in DOMAIN dist : dist[x] \in Int
  BY <1>1, DictIs DEF Known
<1>7. \A x : x # u => Entry(dist[x], x) # m
  BY <1>4 DEF Entry
<1>8. \A x : x # u => (Final(dist, rest, x) <=> Final(dist, open, x))
  BY <1>7 DEF Final
<1>9. ~Final(dist, open, u) \/ D # dist[u]
  BY <1>3, <1>4 DEF Final
<1>10. IsFiniteSet(rest) /\ rest \subseteq Entries
  BY <1>1, FS_RemoveElement
<1>11. Cardinality(rest) = Cardinality(open) - 1 /\ Cardinality(open) \in Nat /\ Cardinality(rest) \in Nat
  <2>1. Cardinality(rest) = Cardinality(open) - 1
    BY <1>1, <1>3, FS_RemoveElement
  <2> QED
    BY <1>1, <1>10, <2>1, FS_CardinalityType
<1>12. \A f \in rest : f.node \in DOMAIN dist /\ dist[f.node] <= f.weight /\ W <= f.weight /\ D <= f.weight
  BY <1>2, <1>3
<1>13. ASSUME NEW t, Left(dist, rest, t) = Left(dist, open, {})
       PROVE  Size(dist, rest, t) < Size(dist, open, {})
  <2> DEFINE L == Left(dist, open, {})
  <2>1. Cardinality(L) \in Nat
    BY LeftIs
  <2> HIDE DEF L, rest
  <2>2. Cardinality(rest) + Cardinality(L) < Cardinality(open) + Cardinality(L)
    BY <1>11, <2>1
  <2> QED
    BY <1>13, <2>2 DEF Size, L
<1>14. ASSUME D > dist[u]
       PROVE  Frontier(dist, via, rest, a, W, {}) /\ Size(dist, rest, {}) < Size(dist, open, {})
  <2>1. D # dist[u]
    BY <1>4, <1>5, <1>6, <1>14
  <2>2. Entry(dist[u], u) # m
    BY <1>4, <2>1 DEF Entry
  <2>3. \A x : Final(dist, rest, x) <=> Final(dist, open, x)
    BY <1>8, <2>2 DEF Final
  <2>4. \A j \in 1 .. Len(edges) :
          Final(dist, open, edges[j].source) =>
            /\ edges[j].target \in DOMAIN dist
            /\ dist[edges[j].target] <= dist[edges[j].source] + edges[j].weight
    BY DEF Frontier
  <2> HIDE DEF rest
  <2>5. Frontier(dist, via, rest, a, W, {})
    BY <1>1, <1>10, <1>12, <2>3, <2>4 DEF Frontier
  <2>6. Left(dist, rest, {}) = Left(dist, open, {})
    BY <2>3 DEF Left
  <2> QED
    BY <1>13, <2>5, <2>6
<1>15. ASSUME ~(D > dist[u])
       PROVE  /\ Frontier(dist, via, rest, a, D, Todo(u, 0)) /\ Final(dist, rest, u)
              /\ Size(dist, rest, Todo(u, 0)) < Size(dist, open, {})
  <2>0. D = dist[u]
    BY <1>4, <1>5, <1>6, <1>15
  <2>1. Final(dist, rest, u)
    BY <1>4, <1>5, <2>0 DEF Final
  <2>2. \A j \in 1 .. Len(edges) : edges[j].source = u <=> j \in Todo(u, 0)
    BY DEF Todo
  <2>3. \A x : Final(dist, rest, x) => dist[x] <= D
    <3>1. ASSUME NEW x, Final(dist, rest, x) PROVE dist[x] <= D
      <4>1. CASE x = u
        BY <1>5, <4>1
      <4>2. CASE x # u
        <5>1. dist[x] <= W /\ dist[x] \in Int
          BY <1>1, <1>6, <1>8, <3>1, <4>2 DEF Final
        <5> QED
          BY <1>1, <1>4, <1>5, <5>1
      <4> QED
        BY <4>1, <4>2
    <3> QED
      BY <3>1
  <2>4. \A j \in 1 .. Len(edges) :
          Final(dist, open, edges[j].source) =>
            /\ edges[j].target \in DOMAIN dist
            /\ dist[edges[j].target] <= dist[edges[j].source] + edges[j].weight
    BY DEF Frontier
  <2> HIDE DEF rest
  <2>5. \A j \in 1 .. Len(edges) :
          j \notin Todo(u, 0) /\ Final(dist, rest, edges[j].source) =>
            /\ edges[j].target \in DOMAIN dist
            /\ dist[edges[j].target] <= dist[edges[j].source] + edges[j].weight
    BY <1>8, <2>2, <2>4
  <2>6. Frontier(dist, via, rest, a, D, Todo(u, 0))
    BY <1>1, <1>4, <1>10, <1>12, <2>3, <2>5 DEF Frontier
  <2>7. Left(dist, rest, Todo(u, 0)) = Left(dist, open, {})
    <3>1. ASSUME NEW j \in 1 .. Len(edges)
          PROVE  (j \in Todo(u, 0) \/ ~Final(dist, rest, edges[j].source))
                   <=> ~Final(dist, open, edges[j].source)
      BY <1>8, <1>9, <2>0, <2>2
    <3> QED
      BY <3>1 DEF Left
  <2> QED
    BY <1>13, <2>1, <2>6, <2>7
<1> QED
  BY <1>3, <1>4, <1>5, <1>6, <1>14, <1>15

\* A turn of the loop keeps the frontier, and leaves less to do.
LEMMA PopEntryKeeps ==
  ASSUME edges \in Seq(Conversions), NoneNegative, NEW a \in Currencies,
         NEW r, Good(r, a), r.open # {}
  PROVE  LET t == Alg!PopEntry(r)
         IN  Good(t, a) /\ FrontSize(t, {}) < FrontSize(r, {})
<1> DEFINE dist == r.search.dist
           via == r.search.via
           open == r.open
           m == Alg!First(open)
           u == m.node
           D == m.weight
           left == open \ {m}
           rest == [search |-> r.search, open |-> left]
           n == Len(edges)
<1>1. r \in Fronts /\ r.search \in Searches /\ open \subseteq Entries
  BY FrontIs DEF Good
<1>2. PICK W : Frontier(dist, via, open, a, W, {})
  BY DEF Good
<1>3. /\ m \in open /\ u \in DOMAIN dist /\ dist[u] <= D /\ dist[u] \in Int /\ D \in Int
      /\ D > dist[u] => /\ Frontier(dist, via, left, a, W, {})
                        /\ Size(dist, left, {}) < Size(dist, open, {})
      /\ ~(D > dist[u]) => /\ Frontier(dist, via, left, a, D, Todo(u, 0))
                           /\ Final(dist, left, u)
                           /\ Size(dist, left, Todo(u, 0)) < Size(dist, open, {})
  <2> HIDE DEF dist, via, open, u, D, m
  <2>1. m = Alg!First(open) /\ u = m.node /\ D = m.weight
    BY DEF m, u, D
  <2>2. open # {}
    BY DEF open
  <2>3. Nearest(dist, via, open, a, W, m, u, D)
    BY <1>2, <2>1, <2>2 DEF Nearest
  <2> QED
    BY <2>3, FrontierRest
<1>4. m \in Entries /\ m = Entry(D, u)
  BY <1>1, <1>3 DEF Entries, Entry
<1>5. /\ D > dist[u] => Alg!PopEntry(r) = rest
      /\ ~(D > dist[u]) => \E g : ExpandSteps(g, rest, m) /\ Alg!PopEntry(r) = g[n]
  BY <1>1, <1>4, PopEntrySteps
<1>6. rest \in Fronts /\ rest.search = r.search /\ rest.open = left
  <2>1. left \subseteq Entries
    BY <1>1
  <2> HIDE DEF left
  <2> QED
    BY <1>1, <2>1 DEF Fronts
<1>7. FrontSize(r, {}) = Size(dist, open, {}) /\ \A t : FrontSize(rest, t) = Size(dist, left, t)
  BY <1>6 DEF FrontSize
<1> HIDE DEF rest
<1>8. CASE D > dist[u]
  <2>1. Frontier(dist, via, left, a, W, {}) /\ Size(dist, left, {}) < Size(dist, open, {})
    BY <1>3, <1>8
  <2>2. Good(rest, a)
    BY <1>6, <2>1 DEF Good
  <2>3. FrontSize(rest, {}) < FrontSize(r, {})
    BY <1>7, <2>1
  <2> QED
    BY <1>5, <1>8, <2>2, <2>3
<1>9. CASE ~(D > dist[u])
  <2>0. dist[u] = D
    <3> HIDE DEF D, dist, u
    <3> QED
      BY <1>3, <1>9
  <2>1. PICK g : ExpandSteps(g, rest, m) /\ Alg!PopEntry(r) = g[n]
    BY <1>5, <1>9
  <2>2. g[0] = rest /\ \A i \in 1 .. n : g[i] = Alg!ExpandEdge(g[i - 1], Entry(D, u), edges[i])
    BY <1>4, <2>1 DEF ExpandSteps
  <2>3. Inner(rest, a, D, u, 0) /\ FrontSize(rest, Todo(u, 0)) < FrontSize(r, {})
    <3>1. /\ Frontier(dist, via, left, a, D, Todo(u, 0)) /\ Final(dist, left, u)
          /\ Size(dist, left, Todo(u, 0)) < Size(dist, open, {})
      BY <1>3, <1>9
    <3>2. Inner(rest, a, D, u, 0)
      BY <1>6, <2>0, <3>1 DEF Inner
    <3> QED
      BY <1>7, <3>1, <3>2
  <2> HIDE DEF D, u
  <2> DEFINE Upto(k) == /\ Inner(g[k], a, D, u, k)
                        /\ FrontSize(g[k], Todo(u, k)) <= FrontSize(rest, Todo(u, 0))
             C == {k \in Nat : k <= n => Upto(k)}
  <2>4. \A q, k : Inner(q, a, D, u, k) => FrontSize(q, Todo(u, k)) \in Nat
    <3>1. ASSUME NEW q, NEW k, Inner(q, a, D, u, k) PROVE FrontSize(q, Todo(u, k)) \in Nat
      <4>1. IsFiniteSet(q.open)
        BY <3>1 DEF Inner, Frontier
      <4> QED
        BY <4>1, SizeFalls DEF FrontSize
    <3> QED
      BY <3>1
  <2>5. 0 \in C
    BY <2>2, <2>3, <2>4
  <2>6. ASSUME NEW k \in Nat, k \in C PROVE k + 1 \in C
    <3> SUFFICES ASSUME k + 1 <= n PROVE Upto(k + 1)
      OBVIOUS
    <3>1. k + 1 \in 1 .. n /\ (k + 1) - 1 = k /\ k <= n
      OBVIOUS
    <3>2. Upto(k)
      BY <2>6, <3>1
    <3> DEFINE i == k + 1
               p == g[k]
               q == g[i]
    <3>3. i \in 1 .. Len(edges) /\ i - 1 = k /\ q = Alg!ExpandEdge(p, Entry(D, u), edges[i])
      BY <2>2, <3>1
    <3>4. Inner(p, a, D, u, i - 1)
      BY <3>2, <3>3
    <3> HIDE DEF i, p, q, n
    <3>5. Inner(q, a, D, u, i) /\ FrontSize(q, Todo(u, i)) <= FrontSize(p, Todo(u, i - 1))
      BY <3>3, <3>4, ExpandEdgeIs
    <3>6. FrontSize(p, Todo(u, i - 1)) <= FrontSize(rest, Todo(u, 0))
      BY <3>2, <3>3 DEF p
    <3>7. /\ FrontSize(q, Todo(u, i)) \in Nat /\ FrontSize(p, Todo(u, i - 1)) \in Nat
          /\ FrontSize(rest, Todo(u, 0)) \in Nat
      BY <2>3, <2>4, <3>4, <3>5
    <3>8. FrontSize(q, Todo(u, i)) <= FrontSize(rest, Todo(u, 0))
      BY <3>5, <3>6, <3>7
    <3> QED
      BY <3>5, <3>8 DEF i, q
  <2>7. Upto(n)
    <3>1. n \in Nat
      OBVIOUS
    <3> HIDE DEF C, n
    <3>2. n \in C
      BY <2>5, <2>6, <3>1, Counting
    <3> HIDE DEF Upto
    <3> QED
      BY <3>1, <3>2 DEF C
  <2>8. Todo(u, n) = {}
    BY DEF Todo
  <2> DEFINE t == g[n]
  <2>9. Inner(t, a, D, u, n) /\ FrontSize(t, {}) <= FrontSize(rest, Todo(u, 0))
    BY <2>7, <2>8
  <2> HIDE DEF t, n
  <2>10. Good(t, a)
    BY <2>8, <2>9 DEF Good, Inner
  <2>11. FrontSize(t, {}) < FrontSize(r, {})
    <3>1. FrontSize(t, {}) \in Nat /\ FrontSize(r, {}) \in Nat /\ FrontSize(rest, Todo(u, 0)) \in Nat
      BY <2>3, <2>4, <2>10, SizeIsNat
    <3> QED
      BY <2>3, <2>9, <3>1
  <2> QED
    BY <2>1, <2>10, <2>11 DEF t
<1> QED
  BY <1>8, <1>9

LEMMA StartIsGood ==
  ASSUME edges \in Seq(Conversions), NoneNegative, NEW a \in Currencies
  PROVE  LET r == [search |-> Alg!Start(a), open |-> {[weight |-> 0, node |-> a]}]
         IN  Good(r, a) /\ FrontSize(r, {}) <= Len(edges) + 1
<1> DEFINE s == Alg!Start(a)
           dist == s.dist
           via == s.via
           e == [weight |-> 0, node |-> a]
           open == {e}
           r == [search |-> s, open |-> open]
<1>1. /\ s \in Searches /\ Known(dist, via, a) /\ dist[a] = 0 /\ DOMAIN dist = {a}
      /\ Above(dist, via, a, Zero)
  BY StartIs, StartKnown, StartAbove, ZeroIsFeasible
<1>2. e \in Entries /\ e.node = a /\ e.weight = 0 /\ e = Entry(0, a)
  BY DEF Entries, Entry
<1> HIDE DEF s, e
<1>3. open \subseteq Entries /\ IsFiniteSet(open) /\ Cardinality(open) = 1
  BY <1>2, FS_Singleton
<1>4. r \in Fronts
  BY <1>1, <1>3 DEF Fronts
<1>5. \A x : ~Final(dist, open, x)
  BY <1>1, <1>2 DEF Final
<1>6. Frontier(dist, via, open, a, 0, {})
  <2>1. \A m \in open : m.node \in DOMAIN dist /\ dist[m.node] <= m.weight /\ 0 <= m.weight
    BY <1>1, <1>2
  <2> HIDE DEF dist, via, open
  <2> QED
    BY <1>1, <1>3, <1>5, <2>1 DEF Frontier
<1>7. Good(r, a)
  BY <1>4, <1>6 DEF Good
<1>8. FrontSize(r, {}) <= Len(edges) + 1
  <2> DEFINE L == Left(dist, open, {})
  <2>1. Cardinality(L) \in Nat /\ Cardinality(L) <= Len(edges)
    BY LeftIs
  <2>2. FrontSize(r, {}) = 1 + Cardinality(L)
    BY <1>3 DEF FrontSize, Size
  <2> HIDE DEF L
  <2> QED
    BY <2>1, <2>2
<1> QED
  BY <1>7, <1>8 DEF s, e

\* Every turn of the loop takes something off, so that it ends in time.
LEMMA DijkstraIs ==
  ASSUME edges \in Seq(Conversions), NoneNegative, NEW a \in Currencies, NEW b
  PROVE  \E r : Good(r, a) /\ Alg!Done(r, b) /\ Alg!Dijkstra(a, b) = r.search
<1> DEFINE n == Len(edges) + 1
           x == [search |-> Alg!Start(a), open |-> {[weight |-> 0, node |-> a]}]
           S == {r \in Fronts : Good(r, a)}
           Turn(r) == IF Alg!Done(r, b) THEN r ELSE Alg!PopEntry(r)
           f == [r \in S |-> Turn(r)]
           m == [r \in S |-> FrontSize(r, {})]
           F(g) == [k \in 0 .. n |-> IF k = 0 THEN x ELSE Turn(g[k - 1])]
           it == CHOOSE g : g = F(g)
<1>0. n \in Nat
  OBVIOUS
<1>1. Alg!Dijkstra(a, b) = it[n].search
  BY DEF Alg!Dijkstra
<1>2. x \in S /\ FrontSize(x, {}) <= n
  BY StartIsGood DEF Good
<1> HIDE DEF x, n
<1>3. ASSUME NEW r \in S
      PROVE  /\ Turn(r) \in S /\ FrontSize(r, {}) \in Nat
             /\ Alg!Done(r, b) \/ FrontSize(Turn(r), {}) < FrontSize(r, {})
  <2>1. FrontSize(r, {}) \in Nat
    BY SizeIsNat
  <2>2. CASE Alg!Done(r, b)
    BY <2>1, <2>2
  <2>3. CASE ~Alg!Done(r, b)
    <3>1. r.open # {}
      BY <2>3 DEF Alg!Done
    <3>2. Good(Alg!PopEntry(r), a) /\ FrontSize(Alg!PopEntry(r), {}) < FrontSize(r, {})
      BY <3>1, PopEntryKeeps
    <3> QED
      BY <2>1, <2>3, <3>2 DEF Good
  <2> QED
    BY <2>2, <2>3
<1>4. f \in [S -> S] /\ m \in [S -> Nat] /\ \A r \in S : f[r] = Turn(r) /\ m[r] = FrontSize(r, {})
  <2> HIDE DEF S, Turn
  <2> QED
    BY <1>3
<1> HIDE DEF f, m, S
<1>5. \A r \in S : f[r] = r \/ m[f[r]] < m[r]
  <2>1. \A r \in S : Alg!Done(r, b) => Turn(r) = r
    OBVIOUS
  <2> HIDE DEF Turn
  <2> QED
    BY <1>3, <1>4, <2>1
<1> HIDE DEF Turn
<1>6. PICK g \in [0 .. n -> S] : Orbit(g, f, x, n)
  BY <1>0, <1>2, <1>4, OrbitExists
<1>7. g = F(g)
  <2>1. \A k \in 0 .. n : k # 0 => k \in 1 .. n /\ g[k - 1] \in S
    BY <1>0
  <2>2. \A k \in 0 .. n : g[k] = IF k = 0 THEN x ELSE Turn(g[k - 1])
    BY <1>4, <1>6, <2>1 DEF Orbit
  <2> QED
    BY <2>2
<1>8. it = F(it)
  <2> HIDE DEF F
  <2> QED
    BY <1>7
<1> HIDE DEF it
<1>9. it[0] = x /\ \A k \in 1 .. n : it[k] = Turn(it[k - 1])
  BY <1>0, <1>8
<1>10. \A k \in 0 .. n : it[k] \in S
  <2>1. it[0] \in S /\ \A k \in 1 .. n : it[k - 1] \in S => it[k] \in S
    BY <1>2, <1>3, <1>9
  <2> QED
    BY <1>0, <2>1, Carried
<1>11. it \in [0 .. n -> S]
  <2>1. it = [k \in 0 .. n |-> it[k]]
    BY <1>8
  <2> QED
    BY <1>10, <2>1
<1>12. Orbit(it, f, x, n)
  <2>1. \A k \in 1 .. n : it[k - 1] \in S
    BY <1>0, <1>10
  <2> QED
    BY <1>4, <1>9, <2>1 DEF Orbit
<1>13. Falling(S, f, m, x, n, it)
  BY <1>0, <1>2, <1>4, <1>5, <1>11, <1>12 DEF Falling
<1>14. f[it[n]] = it[n]
  <2>1. m[x] <= n
    BY <1>2, <1>4
  <2> QED
    BY <1>13, <2>1, OrbitFalls
<1> DEFINE r == it[n]
<1>15. r \in S /\ Turn(r) = r
  BY <1>0, <1>4, <1>10, <1>14
<1> HIDE DEF r
<1>16. Alg!Done(r, b)
  <2>1. FrontSize(r, {}) \in Nat /\ ~(FrontSize(r, {}) < FrontSize(r, {}))
    BY <1>3, <1>15
  <2> QED
    BY <1>3, <1>15, <2>1
<1>17. Good(r, a)
  BY <1>15 DEF S
<1> QED
  BY <1>1, <1>16, <1>17 DEF r

\* The distances at the end, cut off at that of the target, are a potential.
LEMMA DijkstraRight ==
  ASSUME edges \in Seq(Conversions), NoneNegative, NEW a \in Currencies, NEW b \in Currencies
  PROVE  Alg!IsCheapest(Alg!Answer(Alg!Dijkstra(a, b), a, b), a, b)
<1>1. PICK r : Good(r, a) /\ Alg!Done(r, b) /\ Alg!Dijkstra(a, b) = r.search
  BY DijkstraIs
<1> DEFINE s == r.search
           dist == s.dist
           via == s.via
           open == r.open
<1>2. s \in Searches
  BY <1>1, FrontIs DEF Good
<1>3. PICK W : Frontier(dist, via, open, a, W, {})
  BY <1>1 DEF Good
<1>4. Known(dist, via, a) /\ Above(dist, via, a, Zero) /\ open \subseteq Entries /\ IsFiniteSet(open)
  BY <1>3 DEF Frontier
<1>5. a \notin DOMAIN via /\ dist[a] = 0 /\ Rooted(via) /\ a \in DOMAIN dist
      /\ DOMAIN dist = DOMAIN via \cup {a}
  BY <1>4 DEF Above, Known
<1>6. \A x \in DOMAIN dist : dist[x] \in Int /\ dist[x] >= 0 /\ x \in Currencies
  <2>1. \A x \in DOMAIN dist : dist[x] \in Int /\ x \in Currencies
    BY <1>2, SearchIs
  <2>2. \A x \in DOMAIN dist : Zero[x] <= Zero[a] + dist[x]
    BY <1>4 DEF Above
  <2>3. \A x \in Currencies : Zero[x] = 0
    BY ZeroIsFeasible
  <2> HIDE DEF dist
  <2> QED
    BY <2>1, <2>2, <2>3
<1>7. ASSUME NEW x, NEW y, NEW w, Edge(x, y, w), Final(dist, open, x)
      PROVE  y \in DOMAIN dist /\ dist[y] <= dist[x] + w
  <2> DEFINE e == [source |-> x, target |-> y, weight |-> w]
  <2>1. PICK j \in 1 .. Len(edges) : e = edges[j]
    BY <1>7 DEF Edge, Elements
  <2>2. edges[j].source = x /\ edges[j].target = y /\ edges[j].weight = w
    BY <2>1
  <2>3. j \notin {}
    OBVIOUS
  <2> HIDE DEF dist, open, e
  <2> QED
    BY <1>3, <1>7, <2>2, <2>3 DEF Frontier
<1>8. CASE open = {}
  <2>1. \A x \in DOMAIN dist : Final(dist, open, x)
    BY <1>8 DEF Final
  <2>2. Feasible(dist)
    <3>1. dist \in Dicts(Int)
      BY <1>2, SearchIs
    <3> HIDE DEF dist, open
    <3> QED
      BY <1>7, <2>1, <3>1 DEF Feasible
  <2>3. /\ b \in DOMAIN via => b \in DOMAIN dist /\ dist[b] = dist[b]
        /\ b \notin DOMAIN via /\ b # a => b \notin DOMAIN dist
    BY <1>5
  <2>4. Alg!IsCheapest(Alg!Answer(s, a, b), a, b)
    <3> DEFINE q == dist
    <3>1. Feasible(q) /\ a \in DOMAIN q /\ q[a] = 0
          /\ (b \in DOMAIN via => b \in DOMAIN q /\ q[b] = dist[b])
          /\ (b \notin DOMAIN via /\ b # a => b \notin DOMAIN q)
      BY <1>5, <2>2, <2>3
    <3> HIDE DEF q, s
    <3> QED
      BY <1>2, <1>4, <1>5, <3>1, AnswerIsCheapest
  <2> QED
    BY <1>1, <2>4
<1>9. CASE open # {}
  <2> DEFINE m == Alg!First(open)
  <2>1. m \in open /\ (\A f \in open : m.weight <= f.weight) /\ m.node = b
    BY <1>1, <1>4, <1>9, FirstIs DEF Alg!Done
  <2>2. b \in DOMAIN dist /\ dist[b] <= m.weight /\ m.weight \in Int
    <3>1. m.weight \in Int
      BY <1>4, <2>1 DEF Entries
    <3> HIDE DEF dist, open, m
    <3> QED
      BY <1>3, <2>1, <3>1 DEF Frontier
  <2> DEFINE d == dist[b]
             q == [x \in Currencies |-> IF x \in DOMAIN dist /\ dist[x] <= d THEN dist[x] ELSE d]
  <2>3. d \in Int /\ d >= 0
    BY <1>6, <2>2
  <2> HIDE DEF d
  <2>4. /\ DOMAIN q = Currencies
        /\ \A x \in Currencies : q[x] \in Int /\ q[x] <= d
        /\ \A x \in Currencies : x \in DOMAIN dist => q[x] <= dist[x]
        /\ \A x \in Currencies : q[x] < d => x \in DOMAIN dist /\ q[x] = dist[x]
    <3> HIDE DEF dist
    <3> QED
      BY <1>6, <2>3
  <2>5. q[a] = 0 /\ q[b] = d
    <3> USE DEF d
    <3> QED
      BY <1>5, <1>6, <2>2, <2>3
  <2> HIDE DEF q
  <2>6. q \in Dicts(Int)
    <3>1. q \in [Currencies -> Int]
      BY <2>4 DEF q
    <3> QED
      BY <2>4, <3>1, DictIs
  <2>7. ASSUME NEW x, NEW y, NEW w, Edge(x, y, w)
        PROVE  y \in Currencies /\ q[y] <= q[x] + w
    <3>1. x \in Currencies /\ y \in Currencies /\ w \in Int /\ w >= 0
      BY <2>7, EdgeHas, ZeroIsFeasible
    <3>2. q[x] \in Int /\ q[y] \in Int /\ q[y] <= d
      BY <2>4, <3>1
    <3>3. CASE q[x] < d
      <4>1. x \in DOMAIN dist /\ q[x] = dist[x]
        BY <2>4, <3>1, <3>3
      <4>2. Final(dist, open, x)
        <5> SUFFICES ASSUME Entry(dist[x], x) \in open PROVE FALSE
          BY <4>1 DEF Final
        <5>1. m.weight <= Entry(dist[x], x).weight
          BY <2>1
        <5>2. Entry(dist[x], x).weight = dist[x]
          BY DEF Entry
        <5>3. dist[x] < d /\ d <= m.weight /\ m.weight <= dist[x] /\ dist[x] \in Int
          BY <1>6, <2>2, <3>3, <4>1, <5>1, <5>2 DEF d
        <5> HIDE DEF m, dist
        <5> QED
          BY <2>2, <2>3, <5>3
      <4>3. y \in DOMAIN dist /\ dist[y] <= dist[x] + w
        BY <1>7, <2>7, <4>2
      <4>4. q[y] <= dist[y] /\ dist[y] \in Int /\ dist[x] \in Int
        BY <1>6, <2>4, <3>1, <4>1, <4>3
      <4> HIDE DEF dist
      <4> QED
        BY <3>1, <3>2, <4>1, <4>3, <4>4
    <3>4. CASE ~(q[x] < d)
      BY <2>3, <3>1, <3>2, <3>4
    <3> QED
      BY <3>3, <3>4
  <2>8. Feasible(q)
    BY <2>4, <2>6, <2>7 DEF Feasible
  <2>9. /\ b \in DOMAIN via => b \in DOMAIN q /\ q[b] = dist[b]
        /\ b \notin DOMAIN via /\ b # a => b \notin DOMAIN q
        /\ a \in DOMAIN q
    <3>1. b \in DOMAIN via \/ b = a
      BY <1>5, <2>2
    <3>2. q[b] = dist[b]
      BY <2>5 DEF d
    <3> QED
      BY <2>4, <3>1, <3>2
  <2>10. Alg!IsCheapest(Alg!Answer(s, a, b), a, b)
    <3> HIDE DEF s
    <3> QED
      BY <1>2, <1>4, <1>5, <2>5, <2>8, <2>9, AnswerIsCheapest
  <2> QED
    BY <1>1, <2>10
<1> QED
  BY <1>8, <1>9

\* ShortestConversionPath: without negative weights cheapest_path answers with a path of
\* the least weight there is, and with infinity when there is none, on any graph.
THEOREM PathsRight ==
  ASSUME edges \in Seq(Conversions)
  PROVE  Alg!PathsAreCheapest
<1> SUFFICES ASSUME \A i \in DOMAIN edges : edges[i].weight >= 0,
                    NEW a \in Alg!Sources, NEW b \in Currencies
             PROVE  Alg!IsCheapest(Alg!CheapestPath(a, b), a, b)
  BY DEF Alg!PathsAreCheapest
<1>1. NoneNegative
  <2>1. DOMAIN edges = 1 .. Len(edges)
    OBVIOUS
  <2> QED
    BY <2>1 DEF NoneNegative
<1>2. a \in Currencies
  BY NodesAre
<1>3. Alg!CheapestPath(a, b) = Alg!Answer(Alg!Dijkstra(a, b), a, b)
  BY DEF Alg!CheapestPath
<1> QED
  BY <1>1, <1>2, <1>3, DijkstraRight
===================================================================================
